------------------------------ MODULE Rings_proofs ------------------------------
(***************************************************************************)
(* What the buffers of Comms hold, told as sequences: the circular buffers *)
(* of the servers and the receive rings of serial.cpp (a push appends, a   *)
(* pop takes the head), the order of the bytes on their way, and what a    *)
(* write to a client leaves due to it.                                     *)
(***************************************************************************)
EXTENDS Comms, TLAPS, SequenceTheorems, FiniteSetTheorems

----------------------------------------------------------------------------
(* Network buffers and receive rings *)

\* A function on 1 .. n is a sequence of length n.
LEMMA MakeSeq ==
  ASSUME NEW S, NEW s, NEW n \in Nat, s \in [1 .. n -> S]
  PROVE  s \in Seq(S) /\ Len(s) = n /\ DOMAIN s = 1 .. n
  BY SeqDef

\* Two sequences of places are the same when they have the same length and the same elements.
LEMMA SameSeq ==
  ASSUME NEW s \in Seq(Nat), NEW t \in Seq(Nat), Len(s) = Len(t), \A i \in 1 .. Len(s) : s[i] = t[i]
  PROVE  s = t
  BY SeqEqual

\* What a network buffer is made of: the bytes, the position of the oldest and how many there are.
LEMMA BufferParts ==
  ASSUME NEW S \in Nat \ {0}, NEW r \in NetBuffer(S)
  PROVE  \E b \in [0 .. S - 1 -> Nat], p \in 0 .. S - 1, n \in 0 .. S :
           r.buf = b /\ r.pos = p /\ r.size = n
  BY DEF NetBuffer

\* Setting the position and the size of a buffer keeps its type.
LEMMA SetPosSize ==
  ASSUME NEW A, NEW B, NEW C, NEW r \in [buf : A, pos : B, size : C], NEW q \in B, NEW m \in C
  PROVE  [r EXCEPT !.pos = q, !.size = m] \in [buf : A, pos : B, size : C]
  OBVIOUS

\* Setting the bytes and the size of a buffer keeps its type.
LEMMA SetBufSize ==
  ASSUME NEW A, NEW B, NEW C, NEW r \in [buf : A, pos : B, size : C], NEW q \in A, NEW m \in C
  PROVE  [r EXCEPT !.buf = q, !.size = m] \in [buf : A, pos : B, size : C]
  OBVIOUS

\* The cells a circular buffer of S cells counts off are cells of it.
LEMMA CellType ==
  ASSUME NEW S \in Nat \ {0}, NEW p \in 0 .. S - 1, NEW n \in 0 .. S
  PROVE  \A i \in 1 .. n : Cell(p, i, S) \in 0 .. S - 1
  BY DEF Cell

\* The bytes a network buffer holds, oldest first, are as many as its size says.
LEMMA BufferSeq ==
  ASSUME NEW S \in Nat \ {0}, NEW r,
         r.buf \in [0 .. S - 1 -> Nat], r.pos \in 0 .. S - 1, r.size \in 0 .. S
  PROVE  /\ InBuffer(r, S) \in Seq(Nat) /\ Len(InBuffer(r, S)) = r.size
         /\ \A i \in 1 .. r.size : InBuffer(r, S)[i] = r.buf[Cell(r.pos, i, S)]
<1> DEFINE s == InBuffer(r, S)
<1>1. s = [i \in 1 .. r.size |-> r.buf[Cell(r.pos, i, S)]]
  BY DEF InBuffer
<1>2. \A i \in 1 .. r.size : s[i] = r.buf[Cell(r.pos, i, S)] /\ s[i] \in Nat
  BY <1>1, CellType
<1> HIDE DEF s
<1>3. s \in [1 .. r.size -> Nat] /\ r.size \in Nat
  <2>1. r.size \in Nat
    OBVIOUS
  <2>2. s \in [1 .. r.size -> Nat]
    BY <1>1, <1>2, Zenon
  <2> QED
    BY <2>1, <2>2
<1>4. s \in Seq(Nat) /\ Len(s) = r.size
  BY <1>3, MakeSeq
<1> QED
  BY <1>2, <1>4 DEF s

\* Popping takes the oldest byte and leaves the others in their order (telnet_server.cpp:163-171,
\* serial2socket.cpp:128-136).
LEMMA BufferPop ==
  ASSUME NEW S \in Nat \ {0}, NEW r \in NetBuffer(S), r.size > 0
  PROVE  /\ Pop(r, S) \in NetBuffer(S)
         /\ InBuffer(r, S) # <<>> /\ r.buf[r.pos] = Head(InBuffer(r, S))
         /\ InBuffer(Pop(r, S), S) = Tail(InBuffer(r, S))
<1>1. PICK b \in [0 .. S - 1 -> Nat], p \in 0 .. S - 1, n \in 0 .. S :
             r.buf = b /\ r.pos = p /\ r.size = n
  BY BufferParts
<1> DEFINE q == IF p + 1 > S - 1 THEN 0 ELSE p + 1
           s == InBuffer(r, S)
           t == InBuffer(Pop(r, S), S)
<1>2. n > 0 /\ r.buf[r.pos] = b[p]
  BY <1>1
<1>3. Pop(r, S).buf = b /\ Pop(r, S).pos = q /\ Pop(r, S).size = n - 1
  BY <1>1 DEF Pop, NetBuffer
<1>4. q \in 0 .. S - 1 /\ n - 1 \in 0 .. S
  BY <1>2
<1>5. Cell(p, 1, S) = p /\ \A i \in 1 .. n - 1 : Cell(q, i, S) = Cell(p, i + 1, S)
  BY DEF Cell
<1> HIDE DEF q
<1>6. s \in Seq(Nat) /\ Len(s) = n /\ \A i \in 1 .. n : s[i] = b[Cell(p, i, S)]
  BY <1>1, BufferSeq
<1>7. t \in Seq(Nat) /\ Len(t) = n - 1 /\ \A i \in 1 .. n - 1 : t[i] = b[Cell(q, i, S)]
  BY <1>3, <1>4, BufferSeq
<1> HIDE DEF s, t
<1>8. s # <<>> /\ s[1] = b[p] /\ \A i \in 1 .. n - 1 : t[i] = s[i + 1]
  <2>1. \A i \in 1 .. n - 1 : i + 1 \in 1 .. n
    OBVIOUS
  <2>2. 1 \in 1 .. n
    BY <1>2
  <2>3. s # <<>> /\ s[1] = b[p]
    BY <2>2, <1>2, <1>5, <1>6
  <2>4. \A i \in 1 .. n - 1 : t[i] = s[i + 1]
    <3> TAKE i \in 1 .. n - 1
    <3>1. s[i + 1] = b[Cell(p, i + 1, S)]
      BY <2>1, <1>6
    <3>2. t[i] = b[Cell(q, i, S)]
      BY <1>7
    <3> QED
      BY <3>1, <3>2, <1>5
  <2> QED
    BY <2>3, <2>4
<1>9. Tail(s) \in Seq(Nat) /\ Len(Tail(s)) = n - 1 /\ Head(s) = s[1]
      /\ \A i \in 1 .. n - 1 : Tail(s)[i] = s[i + 1]
  BY <1>6, <1>8, HeadTailProperties
<1>10. t = Tail(s)
  BY <1>7, <1>8, <1>9, SameSeq
<1>11. Pop(r, S) \in NetBuffer(S)
  BY <1>1, <1>4, SetPosSize DEF Pop, NetBuffer, q
<1> QED
  BY <1>2, <1>8, <1>9, <1>10, <1>11 DEF s, t

\* Pushing bytes that fit puts them behind those that are there (telnet_server.cpp:146-161,
\* serial2socket.cpp:112-126).
LEMMA BufferPush ==
  ASSUME NEW S \in Nat \ {0}, NEW r \in NetBuffer(S), NEW data \in Seq(Nat),
         Fits(Len(data), r.size, S)
  PROVE  /\ Push(r, data, S) \in NetBuffer(S)
         /\ InBuffer(Push(r, data, S), S) = InBuffer(r, S) \o data
<1>1. PICK b \in [0 .. S - 1 -> Nat], p \in 0 .. S - 1, n \in 0 .. S :
             r.buf = b /\ r.pos = p /\ r.size = n
  BY BufferParts
<1>2. PICK l \in 0 .. S - n : l = Len(data)
  BY <1>1 DEF Fits
<1> DEFINE At(k) == {i \in 1 .. l : PushCell(r, S, i) = k}
           c == [k \in 0 .. S - 1 |-> IF At(k) = {} THEN b[k] ELSE data[CHOOSE i \in At(k) : TRUE]]
           s == InBuffer(r, S)
           t == InBuffer(Push(r, data, S), S)
<1>3. Push(r, data, S) = [r EXCEPT !.buf = c, !.size = n + l]
  BY <1>1, <1>2 DEF Push
<1>0. Push(r, data, S).buf = c /\ Push(r, data, S).pos = p /\ Push(r, data, S).size = n + l
  BY <1>1, <1>3 DEF NetBuffer
<1>4. /\ \A i \in 1 .. l : PushCell(r, S, i) = Cell(p, n + i, S)
      /\ \A i, j \in 1 .. l : PushCell(r, S, i) = PushCell(r, S, j) => i = j
      /\ \A i \in 1 .. l, j \in 1 .. n : PushCell(r, S, i) # Cell(p, j, S)
  <2>1. \A i \in 1 .. l : PushCell(r, S, i) = Cell(p, n + i, S)
    BY <1>1 DEF Cell, PushCell, PushFrom
  <2>2. \A i, j \in 1 .. l : Cell(p, n + i, S) = Cell(p, n + j, S) => i = j
    BY DEF Cell
  <2>3. \A i \in 1 .. l, j \in 1 .. n : Cell(p, n + i, S) # Cell(p, j, S)
    BY DEF Cell
  <2>4. \A i, j \in 1 .. l : PushCell(r, S, i) = PushCell(r, S, j) => i = j
    <3> TAKE i, j \in 1 .. l
    <3> HAVE PushCell(r, S, i) = PushCell(r, S, j)
    <3>1. Cell(p, n + i, S) = Cell(p, n + j, S)
      BY <2>1
    <3> QED
      BY <3>1, <2>2
  <2>5. \A i \in 1 .. l, j \in 1 .. n : PushCell(r, S, i) # Cell(p, j, S)
    BY <2>1, <2>3
  <2> QED
    BY <2>1, <2>4, <2>5
<1>5. \A i \in 1 .. l : c[Cell(p, n + i, S)] = data[i]
  <2> TAKE i \in 1 .. l
  <2>1. At(Cell(p, n + i, S)) = {i}
    BY <1>4
  <2>2. Cell(p, n + i, S) \in 0 .. S - 1
    BY DEF Cell
  <2> QED
    BY <2>1, <2>2
<1>6. \A i \in 1 .. n : c[Cell(p, i, S)] = b[Cell(p, i, S)]
  <2> TAKE i \in 1 .. n
  <2>1. At(Cell(p, i, S)) = {}
    BY <1>4
  <2>2. Cell(p, i, S) \in 0 .. S - 1
    BY CellType
  <2> QED
    BY <2>1, <2>2
<1>7. c \in [0 .. S - 1 -> Nat]
  <2>1. \A k \in 0 .. S - 1 : c[k] \in Nat
    <3> TAKE k \in 0 .. S - 1
    <3>1. CASE At(k) = {}
      BY <3>1
    <3>2. CASE At(k) # {}
      <4>1. PICK i \in 1 .. l : PushCell(r, S, i) = k
        BY <3>2
      <4>2. c[k] = data[i]
        BY <4>1, <1>4, <1>5
      <4>3. data[i] \in Nat
        BY <1>2, ElementOfSeq
      <4> QED
        BY <4>2, <4>3
    <3> QED
      BY <3>1, <3>2
  <2> QED
    BY <2>1
<1> HIDE DEF c
<1>8. n + l \in 0 .. S
  OBVIOUS
<1>9. s \in Seq(Nat) /\ Len(s) = n /\ \A i \in 1 .. n : s[i] = b[Cell(p, i, S)]
  BY <1>1, BufferSeq
<1>10. t \in Seq(Nat) /\ Len(t) = n + l /\ \A i \in 1 .. n + l : t[i] = c[Cell(p, i, S)]
  BY <1>0, <1>7, <1>8, BufferSeq
<1> DEFINE u == s \o data
<1> HIDE DEF s, t
<1>11. /\ u \in Seq(Nat) /\ Len(u) = n + l
       /\ \A i \in 1 .. n + l : u[i] = IF i <= n THEN s[i] ELSE data[i - n]
  <2>1. data \in Seq(Nat) /\ Len(data) = l /\ l \in Nat
    BY <1>2
  <2>2. s \in Seq(Nat) /\ Len(s) = n /\ n \in Nat
    BY <1>9
  <2>3. /\ u \in Seq(Nat) /\ Len(u) = Len(s) + Len(data)
        /\ \A i \in 1 .. Len(s) + Len(data) :
             u[i] = IF i <= Len(s) THEN s[i] ELSE data[i - Len(s)]
    BY <2>1, <2>2, ConcatProperties, ZenonT(40)
  <2> HIDE DEF u
  <2> QED
    BY <2>1, <2>2, <2>3
<1> HIDE DEF u
<1>12. \A i \in 1 .. n + l : t[i] = u[i]
  <2> TAKE i \in 1 .. n + l
  <2>1. CASE i <= n
    <3>1. i \in 1 .. n
      BY <2>1
    <3>2. s[i] = b[Cell(p, i, S)] /\ c[Cell(p, i, S)] = b[Cell(p, i, S)]
      BY <3>1, <1>6, <1>9
    <3>3. t[i] = c[Cell(p, i, S)] /\ u[i] = s[i]
      BY <2>1, <1>10, <1>11
    <3> QED
      BY <3>2, <3>3
  <2>2. CASE i > n
    <3>1. i - n \in 1 .. l /\ n + (i - n) = i
      BY <2>2
    <3>2. c[Cell(p, i, S)] = data[i - n]
      BY <3>1, <1>5
    <3>3. t[i] = c[Cell(p, i, S)] /\ u[i] = data[i - n]
      BY <2>2, <1>10, <1>11
    <3> QED
      BY <3>2, <3>3
  <2> QED
    BY <2>1, <2>2
<1>13. t = u
  BY <1>10, <1>11, <1>12, SameSeq
<1>14. Push(r, data, S) \in NetBuffer(S)
  <2>1. [r EXCEPT !.buf = c, !.size = n + l] \in NetBuffer(S)
    BY <1>7, <1>8, SetBufSize DEF NetBuffer
  <2> QED
    BY <2>1, <1>3
<1> QED
  BY <1>13, <1>14 DEF s, t, u

\* The indices of a receive ring run from 0 to Period - 1 and then from 0 again (serial.cpp:76-77, 162-163).
LEMMA PeriodFacts ==
  /\ Period \in Nat \ {0, 1} /\ Period <= RingSlots /\ RingSlots \in Nat
  /\ \A i \in 0 .. Period - 1 : NextSlot(i) = IF i + 1 = Period THEN 0 ELSE i + 1
<1>1. RingSlots \in Nat \ {0, 1} /\ IndexSize \in Nat \ {0, 1}
  BY CommsAssumption
<1>2. CASE RingSlots < IndexSize
  <2>1. Period = RingSlots
    BY <1>2 DEF Period
  <2>2. \A i \in 0 .. RingSlots - 1 : (i + 1) % IndexSize = i + 1
    BY <1>1, <1>2
  <2> QED
    BY <1>1, <2>1, <2>2 DEF NextSlot
<1>3. CASE ~(RingSlots < IndexSize)
  <2>1. Period = IndexSize
    BY <1>3 DEF Period
  <2>2. \A i \in 0 .. IndexSize - 1 : (i + 1) % IndexSize = IF i + 1 = IndexSize THEN 0 ELSE i + 1
    BY <1>1
  <2> QED
    BY <1>1, <1>3, <2>1, <2>2 DEF NextSlot
<1> QED
  BY <1>2, <1>3

\* How many bytes are in a ring.
Held(r) == IF r.head >= r.tail THEN r.head - r.tail ELSE Period + r.head - r.tail

\* The bytes a receive ring holds, oldest first, are as many as its head is ahead of its tail.
LEMMA RingSeq ==
  ASSUME NEW r, r.buf \in [0 .. RingSlots - 1 -> Nat],
         r.head \in 0 .. Period - 1, r.tail \in 0 .. Period - 1
  PROVE  /\ Held(r) \in 0 .. Period - 1
         /\ InRing(r) \in Seq(Nat) /\ Len(InRing(r)) = Held(r)
         /\ \A i \in 1 .. Held(r) : InRing(r)[i] = r.buf[Cell(r.tail, i, Period)]
<1> DEFINE s == InRing(r)
<1>1. Held(r) \in 0 .. Period - 1
  BY PeriodFacts DEF Held
<1>2. \A i \in 1 .. Held(r) : Cell(r.tail, i, Period) \in 0 .. RingSlots - 1
  <2>1. \A i \in 1 .. Held(r) : Cell(r.tail, i, Period) \in 0 .. Period - 1
    <3>1. Period \in Nat \ {0} /\ Held(r) \in 0 .. Period
      BY <1>1, PeriodFacts
    <3> QED
      BY <3>1, CellType
  <2> QED
    BY <2>1, PeriodFacts
<1>3. s = [i \in 1 .. Held(r) |-> r.buf[Cell(r.tail, i, Period)]]
  BY DEF InRing, Held
<1>4. \A i \in 1 .. Held(r) : s[i] = r.buf[Cell(r.tail, i, Period)] /\ s[i] \in Nat
  BY <1>2, <1>3
<1>5. s \in [1 .. Held(r) -> Nat] /\ Held(r) \in Nat
  BY <1>1, <1>3, <1>4
<1> HIDE DEF s
<1>6. s \in Seq(Nat) /\ Len(s) = Held(r)
  BY <1>5, MakeSeq
<1> QED
  BY <1>1, <1>4, <1>6 DEF s

\* What a receive ring is made of.
LEMMA RingParts ==
  ASSUME NEW r \in Ring
  PROVE  r.buf \in [0 .. RingSlots - 1 -> Nat] /\ r.head \in 0 .. Period - 1 /\ r.tail \in 0 .. Period - 1
  BY DEF Ring

\* Putting a byte into a ring that is not full appends it (serial.cpp:159-172).
LEMMA RingPut ==
  ASSUME NEW r \in Ring, NEW b \in Nat, ~RxFull(r)
  PROVE  RxPut(r, b) \in Ring /\ InRing(RxPut(r, b)) = Append(InRing(r), b)
<1> DEFINE P == Period
           q == RxPut(r, b)
           s == InRing(r)
           t == InRing(q)
           u == Append(s, b)
<1> HIDE DEF P
<1>1. PICK h \in 0 .. P - 1, k \in 0 .. P - 1, m \in [0 .. RingSlots - 1 -> Nat] :
        r.head = h /\ r.tail = k /\ r.buf = m
  BY RingParts DEF P
<1>2. P \in Nat \ {0, 1} /\ P <= RingSlots /\ RingSlots \in Nat
  BY PeriodFacts DEF P
<1> DEFINE g == IF h + 1 = P THEN 0 ELSE h + 1
           n == IF h >= k THEN h - k ELSE P + h - k
<1>3. NextSlot(h) = g /\ g # k
  BY <1>1, PeriodFacts DEF P, RxFull
<1>4. g \in 0 .. P - 1 /\ n \in 0 .. P - 2 /\ h \in 0 .. RingSlots - 1
  BY <1>2, <1>3
<1>5. [m EXCEPT ![h] = b] \in [0 .. RingSlots - 1 -> Nat]
  OBVIOUS
<1>6. q \in Ring /\ q.head = g /\ q.tail = k /\ q.buf = [m EXCEPT ![h] = b]
  BY <1>1, <1>3, <1>4, <1>5 DEF Ring, RxPut, P
<1>7. Held(r) = n /\ Held(q) = n + 1
  BY <1>1, <1>2, <1>3, <1>4, <1>6 DEF Held, P
<1>8. /\ Cell(k, n + 1, P) = h
      /\ \A i \in 1 .. n : Cell(k, i, P) # h /\ Cell(k, i, P) \in 0 .. RingSlots - 1
  BY <1>2, <1>4 DEF Cell
<1>9. s \in Seq(Nat) /\ Len(s) = n /\ \A i \in 1 .. n : s[i] = m[Cell(k, i, P)]
  BY <1>1, <1>7, RingSeq DEF P
<1>10. t \in Seq(Nat) /\ Len(t) = n + 1 /\ \A i \in 1 .. n + 1 : t[i] = [m EXCEPT ![h] = b][Cell(k, i, P)]
  BY <1>4, <1>5, <1>6, <1>7, RingSeq DEF P
<1> HIDE DEF s, t, q
<1>11. u \in Seq(Nat) /\ Len(u) = n + 1 /\ u[n + 1] = b /\ \A i \in 1 .. n : u[i] = s[i]
  BY <1>9, AppendProperties
<1> HIDE DEF u, n
<1>12. \A i \in 1 .. n + 1 : t[i] = u[i]
  <2> TAKE i \in 1 .. n + 1
  <2>1. CASE i = n + 1
    BY <2>1, <1>4, <1>8, <1>10, <1>11
  <2>2. CASE i # n + 1
    <3>1. i \in 1 .. n
      BY <2>2, <1>4
    <3>2. [m EXCEPT ![h] = b][Cell(k, i, P)] = m[Cell(k, i, P)]
      BY <3>1, <1>8
    <3>3. t[i] = [m EXCEPT ![h] = b][Cell(k, i, P)]
      BY <1>10
    <3>4. u[i] = m[Cell(k, i, P)]
      BY <3>1, <1>9, <1>11
    <3> QED
      BY <3>2, <3>3, <3>4
  <2> QED
    BY <2>1, <2>2
<1>13. t = u
  BY <1>10, <1>11, <1>12, SameSeq
<1> QED
  BY <1>6, <1>13 DEF s, t, u, q

\* Reading a ring that is not empty takes its oldest byte (serial.cpp:73-86).
LEMMA RingTake ==
  ASSUME NEW r \in Ring, ~RxEmpty(r)
  PROVE  /\ RxTake(r) \in Ring /\ InRing(r) # <<>> /\ r.buf[r.tail] = Head(InRing(r))
         /\ InRing(RxTake(r)) = Tail(InRing(r))
<1> DEFINE P == Period
           q == RxTake(r)
           s == InRing(r)
           t == InRing(q)
           u == Tail(s)
<1> HIDE DEF P
<1>1. PICK h \in 0 .. P - 1, k \in 0 .. P - 1, m \in [0 .. RingSlots - 1 -> Nat] :
        r.head = h /\ r.tail = k /\ r.buf = m
  BY RingParts DEF P
<1>2. P \in Nat \ {0, 1} /\ P <= RingSlots /\ RingSlots \in Nat
  BY PeriodFacts DEF P
<1> DEFINE g == IF k + 1 = P THEN 0 ELSE k + 1
           n == IF h >= k THEN h - k ELSE P + h - k
<1>3. NextSlot(k) = g /\ h # k
  BY <1>1, PeriodFacts DEF P, RxEmpty
<1>4. g \in 0 .. P - 1 /\ n \in 1 .. P - 1
  BY <1>2, <1>3
<1>6. q \in Ring /\ q.head = h /\ q.tail = g /\ q.buf = m
  BY <1>1, <1>3, <1>4 DEF Ring, RxTake, P
<1>7. Held(r) = n /\ Held(q) = n - 1
  BY <1>1, <1>2, <1>3, <1>4, <1>6 DEF Held, P
<1>8. Cell(k, 1, P) = k /\ \A i \in 1 .. n - 1 : Cell(g, i, P) = Cell(k, i + 1, P)
  BY <1>2, <1>4 DEF Cell
<1>9. s \in Seq(Nat) /\ Len(s) = n /\ \A i \in 1 .. n : s[i] = m[Cell(k, i, P)]
  BY <1>1, <1>7, RingSeq DEF P
<1>10. t \in Seq(Nat) /\ Len(t) = n - 1 /\ \A i \in 1 .. n - 1 : t[i] = m[Cell(g, i, P)]
  BY <1>4, <1>6, <1>7, RingSeq DEF P
<1> HIDE DEF s, t, q, n, g
<1>11. s # <<>> /\ s[1] = m[k]
  BY <1>4, <1>8, <1>9
<1>12. u \in Seq(Nat) /\ Len(u) = n - 1 /\ Head(s) = s[1] /\ \A i \in 1 .. n - 1 : u[i] = s[i + 1]
  BY <1>9, <1>11, HeadTailProperties
<1> HIDE DEF u
<1>13. \A i \in 1 .. n - 1 : t[i] = u[i]
  <2> TAKE i \in 1 .. n - 1
  <2>1. i + 1 \in 1 .. n
    BY <1>4
  <2>2. u[i] = m[Cell(k, i + 1, P)]
    BY <2>1, <1>9, <1>12
  <2> QED
    BY <2>2, <1>8, <1>10
<1>14. t = u
  BY <1>10, <1>12, <1>13, SameSeq
<1> QED
  BY <1>1, <1>6, <1>11, <1>12, <1>14 DEF s, t, u, q

\* Resetting a ring empties it (serial.cpp:186-190).
LEMMA RingReset ==
  ASSUME NEW r \in Ring
  PROVE  RxReset(r) \in Ring /\ InRing(RxReset(r)) = <<>>
<1>1. r.buf \in [0 .. RingSlots - 1 -> Nat] /\ r.head \in 0 .. Period - 1 /\ r.tail \in 0 .. Period - 1
  BY RingParts
<1>2. RxReset(r) \in Ring /\ RxReset(r).head = r.head /\ RxReset(r).tail = r.head /\ RxReset(r).buf = r.buf
  BY <1>1 DEF Ring, RxReset
<1>3. Held(RxReset(r)) = 0
  BY <1>1, <1>2, PeriodFacts DEF Held
<1>4. InRing(RxReset(r)) \in Seq(Nat) /\ Len(InRing(RxReset(r))) = 0
  BY <1>1, <1>2, <1>3, RingSeq
<1> QED
  BY <1>2, <1>4, EmptySeq

----------------------------------------------------------------------------
(* The order of a client's bytes *)

\* The bytes are in the order they were sent.
Increasing(s) == \A i, j \in 1 .. Len(s) : i < j => s[i] < s[j]

\* A client's last byte read, the ring, what is before the ring, and how much was sent.
Parts(g, R, N, l) ==
  /\ g <= l /\ Increasing(R) /\ Increasing(N)
  /\ \A i \in 1 .. Len(R) : g < R[i] /\ R[i] <= l
  /\ \A j \in 1 .. Len(N) : g < N[j] /\ N[j] <= l
  /\ \A i \in 1 .. Len(R), j \in 1 .. Len(N) : R[i] < N[j]

\* A byte read, a ring and what is before the ring are in order as one sequence exactly when the
\* parts are in order and each part follows the one before it.
LEMMA WayParts ==
  ASSUME NEW g \in Nat, NEW R \in Seq(Nat), NEW N \in Seq(Nat), NEW l \in Nat
  PROVE  LET w == <<g>> \o R \o N
         IN  ((\A i, j \in DOMAIN w : i < j => w[i] < w[j]) /\ (\A i \in DOMAIN w : w[i] <= l))
               <=> Parts(g, R, N, l)
<1> DEFINE v == <<g>> \o R
           w == v \o N
<1>1. PICK a \in Nat, b \in Nat : a = Len(R) /\ b = Len(N)
  OBVIOUS
<1>2. /\ \A i \in 1 .. a : R[i] \in Nat
      /\ \A i \in 1 .. b : N[i] \in Nat
  BY <1>1, ElementOfSeq
<1>3. v \in Seq(Nat) /\ Len(v) = a + 1 /\ v[1] = g /\ \A i \in 1 .. a : v[i + 1] = R[i]
  <2>1. <<g>> \in Seq(Nat) /\ Len(<<g>>) = 1 /\ <<g>>[1] = g
    OBVIOUS
  <2> DEFINE o == <<g>>
  <2> HIDE DEF o
  <2>2. /\ o \o R \in Seq(Nat) /\ Len(o \o R) = Len(o) + Len(R)
        /\ \A i \in 1 .. Len(o) + Len(R) : (o \o R)[i] = IF i <= Len(o) THEN o[i] ELSE R[i - Len(o)]
    BY <2>1, ConcatProperties DEF o
  <2> DEFINE q == o \o R
  <2> HIDE DEF q
  <2>3. q \in Seq(Nat) /\ Len(q) = 1 + a /\ \A i \in 1 .. 1 + a : q[i] = IF i <= 1 THEN g ELSE R[i - 1]
    BY <2>1, <2>2, <1>1 DEF q, o
  <2>4. q[1] = g
    BY <2>3
  <2>5. \A i \in 1 .. a : i + 1 \in 1 .. 1 + a /\ ~(i + 1 <= 1) /\ i + 1 - 1 = i
    OBVIOUS
  <2>6. \A i \in 1 .. a : q[i + 1] = R[i]
    <3> TAKE i \in 1 .. a
    <3>1. i + 1 \in 1 .. 1 + a /\ ~(i + 1 <= 1) /\ i + 1 - 1 = i
      OBVIOUS
    <3>2. q[i + 1] = IF i + 1 <= 1 THEN g ELSE R[i + 1 - 1]
      BY <3>1, <2>3
    <3> QED
      BY <3>1, <3>2
  <2> QED
    BY <2>3, <2>4, <2>6 DEF q, o
<1> HIDE DEF v
<1>4. /\ w \in Seq(Nat) /\ Len(w) = a + 1 + b
      /\ \A i \in 1 .. a + 1 + b : w[i] = IF i <= a + 1 THEN v[i] ELSE N[i - (a + 1)]
  <2>1. v \in Seq(Nat) /\ Len(v) = a + 1
    BY <1>3
  <2>2. /\ v \o N \in Seq(Nat) /\ Len(v \o N) = Len(v) + Len(N)
        /\ \A i \in 1 .. Len(v) + Len(N) : (v \o N)[i] = IF i <= Len(v) THEN v[i] ELSE N[i - Len(v)]
    BY <2>1, ConcatProperties
  <2> HIDE DEF w
  <2>3. /\ w \in Seq(Nat) /\ Len(w) = Len(v) + Len(N)
        /\ \A i \in 1 .. Len(v) + Len(N) : w[i] = IF i <= Len(v) THEN v[i] ELSE N[i - Len(v)]
    BY <2>2 DEF w
  <2> QED
    BY <2>1, <2>3, <1>1
<1> HIDE DEF w
<1>5. DOMAIN w = 1 .. a + 1 + b
  BY <1>4
<1>6. w[1] = g
  BY <1>3, <1>4
<1>7. \A i \in 1 .. a : w[i + 1] = R[i]
  BY <1>3, <1>4
<1>8. \A i \in 1 .. b : w[i + a + 1] = N[i]
  <2> TAKE i \in 1 .. b
  <2>1. i + a + 1 \in 1 .. a + 1 + b /\ ~(i + a + 1 <= a + 1) /\ i + a + 1 - (a + 1) = i
    OBVIOUS
  <2>2. w[i + a + 1] = IF i + a + 1 <= a + 1 THEN v[i + a + 1] ELSE N[i + a + 1 - (a + 1)]
    BY <2>1, <1>4
  <2> QED
    BY <2>1, <2>2
<1>9. ASSUME \A i, j \in DOMAIN w : i < j => w[i] < w[j], \A i \in DOMAIN w : w[i] <= l
      PROVE  Parts(g, R, N, l)
  <2>1. \A i, j \in 1 .. a : i < j => R[i] < R[j]
    <3> TAKE i, j \in 1 .. a
    <3>1. i + 1 \in DOMAIN w /\ j + 1 \in DOMAIN w /\ (i < j => i + 1 < j + 1)
      BY <1>5
    <3> QED
      BY <3>1, <1>7, <1>9
  <2>2. \A i, j \in 1 .. b : i < j => N[i] < N[j]
    <3> TAKE i, j \in 1 .. b
    <3>1. i + a + 1 \in DOMAIN w /\ j + a + 1 \in DOMAIN w /\ (i < j => i + a + 1 < j + a + 1)
      BY <1>5
    <3> QED
      BY <3>1, <1>8, <1>9
  <2>3. \A i \in 1 .. a : g < R[i] /\ R[i] <= l
    <3> TAKE i \in 1 .. a
    <3>1. i + 1 \in DOMAIN w /\ 1 \in DOMAIN w /\ 1 < i + 1
      BY <1>5
    <3> QED
      BY <3>1, <1>6, <1>7, <1>9
  <2>4. \A i \in 1 .. b : g < N[i] /\ N[i] <= l
    <3> TAKE i \in 1 .. b
    <3>1. i + a + 1 \in DOMAIN w /\ 1 \in DOMAIN w /\ 1 < i + a + 1
      BY <1>5
    <3> QED
      BY <3>1, <1>6, <1>8, <1>9
  <2>5. \A i \in 1 .. a, j \in 1 .. b : R[i] < N[j]
    <3> TAKE i \in 1 .. a, j \in 1 .. b
    <3>1. i + 1 \in DOMAIN w /\ j + a + 1 \in DOMAIN w /\ i + 1 < j + a + 1
      BY <1>5
    <3> QED
      BY <3>1, <1>7, <1>8, <1>9
  <2>6. g <= l
    <3>1. 1 \in DOMAIN w
      BY <1>5
    <3> QED
      BY <3>1, <1>6, <1>9
  <2> QED
    BY <2>1, <2>2, <2>3, <2>4, <2>5, <2>6, <1>1 DEF Parts, Increasing
<1>10. ASSUME Parts(g, R, N, l)
       PROVE  (\A i, j \in DOMAIN w : i < j => w[i] < w[j]) /\ (\A i \in DOMAIN w : w[i] <= l)
  <2>1. /\ g <= l
        /\ \A i, j \in 1 .. a : i < j => R[i] < R[j]
        /\ \A i, j \in 1 .. b : i < j => N[i] < N[j]
        /\ \A i \in 1 .. a : g < R[i] /\ R[i] <= l
        /\ \A j \in 1 .. b : g < N[j] /\ N[j] <= l
        /\ \A i \in 1 .. a, j \in 1 .. b : R[i] < N[j]
    BY <1>1, <1>10 DEF Parts, Increasing
  <2>2. ASSUME NEW i \in 1 .. a + 1 + b
        PROVE  \/ i = 1 /\ w[i] = g
               \/ i - 1 \in 1 .. a /\ w[i] = R[i - 1]
               \/ i - (a + 1) \in 1 .. b /\ w[i] = N[i - (a + 1)]
    <3>1. CASE i = 1
      BY <3>1, <1>6
    <3>2. CASE i # 1 /\ i <= a + 1
      <4>1. i - 1 \in 1 .. a /\ i - 1 + 1 = i
        BY <3>2
      <4> QED
        BY <4>1, <1>7
    <3>3. CASE i > a + 1
      <4>1. i - (a + 1) \in 1 .. b /\ i - (a + 1) + a + 1 = i
        BY <3>3
      <4> QED
        BY <4>1, <1>8
    <3> QED
      BY <3>1, <3>2, <3>3
  <2>3. \A i \in 1 .. a + 1 + b : w[i] <= l
    BY <2>1, <2>2
  <2>4. \A i, j \in 1 .. a + 1 + b : i < j => w[i] < w[j]
    <3> SUFFICES ASSUME NEW i \in 1 .. a + 1 + b, NEW j \in 1 .. a + 1 + b, i < j
                 PROVE  w[i] < w[j]
      OBVIOUS
    <3>1. CASE i = 1 /\ w[i] = g
      BY <3>1, <2>1, <2>2
    <3>2. CASE i - 1 \in 1 .. a /\ w[i] = R[i - 1]
      <4>1. CASE j - 1 \in 1 .. a /\ w[j] = R[j - 1]
        BY <3>2, <4>1, <2>1
      <4>2. CASE j - (a + 1) \in 1 .. b /\ w[j] = N[j - (a + 1)]
        BY <3>2, <4>2, <2>1
      <4> QED
        BY <4>1, <4>2, <2>2
    <3>3. CASE i - (a + 1) \in 1 .. b /\ w[i] = N[i - (a + 1)]
      <4>1. j - (a + 1) \in 1 .. b /\ w[j] = N[j - (a + 1)]
        BY <3>3, <2>2
      <4>2. i - (a + 1) < j - (a + 1)
        OBVIOUS
      <4> QED
        BY <3>3, <4>1, <4>2, <2>1
    <3> QED
      BY <3>1, <3>2, <3>3, <2>2
  <2> QED
    BY <2>3, <2>4, <1>5
<1> QED
  BY <1>9, <1>10 DEF w, v

\* More is sent: some of it comes behind what is on its way.
LEMMA PartsSent ==
  ASSUME NEW g \in Nat, NEW R \in Seq(Nat), NEW N \in Seq(Nat), NEW l \in Nat, NEW k \in Nat,
         Parts(g, R, N, l),
         NEW M \in Seq(Nat), Len(M) <= Len(N) + k,
         \A i \in 1 .. Len(M) : M[i] = IF i <= Len(N) THEN N[i] ELSE l + (i - Len(N))
  PROVE  Parts(g, R, M, l + k)
<1>1. PICK a \in Nat, b \in Nat, m \in Nat : a = Len(R) /\ b = Len(N) /\ m = Len(M)
  OBVIOUS
<1>2. /\ \A i \in 1 .. a : R[i] \in Nat
      /\ \A i \in 1 .. b : N[i] \in Nat
  BY <1>1, ElementOfSeq
<1>3. /\ g <= l
      /\ \A i, j \in 1 .. a : i < j => R[i] < R[j]
      /\ \A i, j \in 1 .. b : i < j => N[i] < N[j]
      /\ \A i \in 1 .. a : g < R[i] /\ R[i] <= l
      /\ \A j \in 1 .. b : g < N[j] /\ N[j] <= l
      /\ \A i \in 1 .. a, j \in 1 .. b : R[i] < N[j]
  BY <1>1 DEF Parts, Increasing
<1>4. m <= b + k /\ \A i \in 1 .. m : M[i] = IF i <= b THEN N[i] ELSE l + (i - b)
  BY <1>1
<1>5. \A i, j \in 1 .. m : i < j => M[i] < M[j]
  <2> SUFFICES ASSUME NEW i \in 1 .. m, NEW j \in 1 .. m, i < j  PROVE M[i] < M[j]
    OBVIOUS
  <2>1. CASE j <= b
    <3>1. i \in 1 .. b /\ j \in 1 .. b
      BY <2>1
    <3> QED
      BY <2>1, <3>1, <1>3, <1>4
  <2>2. CASE i <= b /\ j > b
    <3>1. i \in 1 .. b
      BY <2>2
    <3>2. M[i] = N[i] /\ N[i] \in Nat /\ N[i] <= l
      BY <2>2, <3>1, <1>2, <1>3, <1>4
    <3>3. M[j] = l + (j - b)
      BY <2>2, <1>4
    <3> QED
      BY <2>2, <3>2, <3>3
  <2>3. CASE i > b
    <3>1. M[i] = l + (i - b) /\ M[j] = l + (j - b)
      BY <2>3, <1>4
    <3> QED
      BY <3>1
  <2> QED
    BY <2>1, <2>2, <2>3
<1>6. \A j \in 1 .. m : g < M[j] /\ M[j] <= l + k
  <2> TAKE j \in 1 .. m
  <2>1. CASE j <= b
    <3>1. j \in 1 .. b
      BY <2>1
    <3>2. M[j] = N[j] /\ N[j] \in Nat /\ N[j] <= l /\ g < N[j]
      BY <2>1, <3>1, <1>2, <1>3, <1>4
    <3> QED
      BY <3>2
  <2>2. CASE j > b
    BY <2>2, <1>3, <1>4
  <2> QED
    BY <2>1, <2>2
<1>7. \A i \in 1 .. a, j \in 1 .. m : R[i] < M[j]
  <2> TAKE i \in 1 .. a, j \in 1 .. m
  <2>1. CASE j <= b
    <3>1. j \in 1 .. b
      BY <2>1
    <3> QED
      BY <2>1, <3>1, <1>3, <1>4
  <2>2. CASE j > b
    BY <2>2, <1>2, <1>3, <1>4
  <2> QED
    BY <2>1, <2>2
<1>8. g <= l + k /\ \A i \in 1 .. a : R[i] <= l + k
  BY <1>2, <1>3
<1> QED
  BY <1>1, <1>3, <1>5, <1>6, <1>7, <1>8 DEF Parts, Increasing

\* The oldest byte before the ring is dropped, or put into the ring.
LEMMA PartsPolled ==
  ASSUME NEW g \in Nat, NEW R \in Seq(Nat), NEW N \in Seq(Nat), NEW l \in Nat,
         Parts(g, R, N, l), N # <<>>
  PROVE  Parts(g, R, Tail(N), l) /\ Parts(g, Append(R, Head(N)), Tail(N), l)
<1> DEFINE T == Tail(N)
           A == Append(R, Head(N))
<1>1. PICK a \in Nat, b \in Nat : a = Len(R) /\ b = Len(N)
  OBVIOUS
<1>2. b > 0 /\ T \in Seq(Nat) /\ Len(T) = b - 1 /\ Head(N) = N[1] /\ N[1] \in Nat
      /\ \A i \in 1 .. b - 1 : T[i] = N[i + 1]
  BY <1>1, HeadTailProperties
<1>3. A \in Seq(Nat) /\ Len(A) = a + 1 /\ A[a + 1] = N[1] /\ \A i \in 1 .. a : A[i] = R[i]
  BY <1>1, <1>2, AppendProperties
<1> HIDE DEF T, A
<1>4. /\ g <= l
      /\ \A i, j \in 1 .. a : i < j => R[i] < R[j]
      /\ \A i, j \in 1 .. b : i < j => N[i] < N[j]
      /\ \A i \in 1 .. a : g < R[i] /\ R[i] <= l
      /\ \A j \in 1 .. b : g < N[j] /\ N[j] <= l
      /\ \A i \in 1 .. a, j \in 1 .. b : R[i] < N[j]
  BY <1>1 DEF Parts, Increasing
<1>5. \A i \in 1 .. b - 1 : i + 1 \in 1 .. b /\ 1 < i + 1
  OBVIOUS
<1>6. 1 \in 1 .. b
  BY <1>2
<1>7. \A i, j \in 1 .. b - 1 : i < j => T[i] < T[j]
  <2> TAKE i, j \in 1 .. b - 1
  <2>1. i + 1 \in 1 .. b /\ j + 1 \in 1 .. b /\ (i < j => i + 1 < j + 1)
    OBVIOUS
  <2> QED
    BY <2>1, <1>2, <1>4
<1>8. \A j \in 1 .. b - 1 : g < T[j] /\ T[j] <= l /\ N[1] < T[j]
  BY <1>2, <1>4, <1>5, <1>6
<1>9. \A i \in 1 .. a, j \in 1 .. b - 1 : R[i] < T[j]
  BY <1>2, <1>4, <1>5
<1>10. Parts(g, R, T, l)
  BY <1>1, <1>2, <1>4, <1>7, <1>8, <1>9 DEF Parts, Increasing
<1>11. ASSUME NEW i \in 1 .. a + 1
       PROVE  \/ i \in 1 .. a /\ A[i] = R[i]
              \/ i = a + 1 /\ A[i] = N[1]
  BY <1>3
<1>12. \A i, j \in 1 .. a + 1 : i < j => A[i] < A[j]
  <2> SUFFICES ASSUME NEW i \in 1 .. a + 1, NEW j \in 1 .. a + 1, i < j  PROVE A[i] < A[j]
    OBVIOUS
  <2>1. i \in 1 .. a /\ A[i] = R[i]
    BY <1>11
  <2> QED
    BY <2>1, <1>11, <1>4, <1>6
<1>13. \A i \in 1 .. a + 1 : g < A[i] /\ A[i] <= l
  BY <1>11, <1>4, <1>6
<1>14. \A i \in 1 .. a + 1, j \in 1 .. b - 1 : A[i] < T[j]
  BY <1>11, <1>8, <1>9
<1>15. Parts(g, A, T, l)
  BY <1>2, <1>3, <1>4, <1>7, <1>8, <1>12, <1>13, <1>14 DEF Parts, Increasing
<1> QED
  BY <1>10, <1>15 DEF T, A

\* The oldest byte of the ring is read, or the ring is emptied.
LEMMA PartsRead ==
  ASSUME NEW g \in Nat, NEW R \in Seq(Nat), NEW N \in Seq(Nat), NEW l \in Nat, Parts(g, R, N, l)
  PROVE  Parts(g, <<>>, N, l) /\ (R # <<>> => Parts(Head(R), Tail(R), N, l))
<1>1. PICK a \in Nat, b \in Nat : a = Len(R) /\ b = Len(N)
  OBVIOUS
<1>2. /\ g <= l
      /\ \A i, j \in 1 .. a : i < j => R[i] < R[j]
      /\ \A i, j \in 1 .. b : i < j => N[i] < N[j]
      /\ \A i \in 1 .. a : g < R[i] /\ R[i] <= l
      /\ \A j \in 1 .. b : g < N[j] /\ N[j] <= l
      /\ \A i \in 1 .. a, j \in 1 .. b : R[i] < N[j]
  BY <1>1 DEF Parts, Increasing
<1>3. Parts(g, <<>>, N, l)
  BY <1>1, <1>2 DEF Parts, Increasing
<1>4. ASSUME R # <<>>
      PROVE  Parts(Head(R), Tail(R), N, l)
  <2> DEFINE T == Tail(R)
             h == Head(R)
  <2>1. a > 0 /\ T \in Seq(Nat) /\ Len(T) = a - 1 /\ h = R[1] /\ \A i \in 1 .. a - 1 : T[i] = R[i + 1]
    BY <1>1, <1>4, HeadTailProperties
  <2> HIDE DEF T, h
  <2>2. \A i \in 1 .. a - 1 : i + 1 \in 1 .. a /\ 1 < i + 1
    OBVIOUS
  <2>3. 1 \in 1 .. a
    BY <2>1
  <2>4. \A i, j \in 1 .. a - 1 : i < j => T[i] < T[j]
    <3> TAKE i, j \in 1 .. a - 1
    <3>1. i + 1 \in 1 .. a /\ j + 1 \in 1 .. a /\ (i < j => i + 1 < j + 1)
      OBVIOUS
    <3> QED
      BY <3>1, <2>1, <1>2
  <2>5. \A i \in 1 .. a - 1 : h < T[i] /\ T[i] <= l
    BY <2>1, <2>2, <2>3, <1>2
  <2>6. \A j \in 1 .. b : h < N[j] /\ N[j] <= l
    BY <2>1, <2>3, <1>2
  <2>7. \A i \in 1 .. a - 1, j \in 1 .. b : T[i] < N[j]
    BY <2>1, <2>2, <1>2
  <2>8. h <= l
    BY <2>1, <2>3, <1>2
  <2> QED
    BY <1>1, <1>2, <2>1, <2>4, <2>5, <2>6, <2>7, <2>8 DEF Parts, Increasing, T, h
<1> QED
  BY <1>3, <1>4

----------------------------------------------------------------------------
(* Line ends and answers *)

\* The additions the lemmas below need, away from the sequences they count.
LEMMA Sums ==
  ASSUME NEW p \in Nat, NEW q \in Nat, NEW k \in Nat, NEW z \in Nat
  PROVE  p + k <= p + (q + k) /\ p + q >= p /\ (z <= p + (k + q) => z <= (p + k) + q)
  OBVIOUS

\* 1 .. n is finite and has n elements.
LEMMA UpTo ==
  ASSUME NEW n \in Nat
  PROVE  IsFiniteSet(1 .. n) /\ Cardinality(1 .. n) = n
<1>1. 1 \in Int /\ n \in Int
  OBVIOUS
<1> QED
  BY <1>1, FS_Interval

\* Concatenation is associative.
LEMMA ConcatGroup ==
  ASSUME NEW s \in Seq(Nat), NEW t \in Seq(Nat), NEW u \in Seq(Nat)
  PROVE  (s \o t) \o u = s \o (t \o u)
  OBVIOUS

\* Appending an answer is concatenating a sequence of one.
LEMMA AppendOne ==
  ASSUME NEW s \in Seq(Nat), NEW a \in Nat
  PROVE  /\ Append(s, a) = s \o <<a>> /\ <<a>> \in Seq(Nat) /\ <<a>> = Append(<<>>, a)
         /\ Append(s, a) \in Seq(Nat) /\ Len(Append(s, a)) = Len(s) + 1
  BY AppendIsConcat, AppendProperties

\* The line ends up to a byte are counted by a number that grows with the byte.
LEMMA EolFacts ==
  ASSUME NEW c, text[c] \in Seq(Kinds), NEW n \in Int, NEW m \in Int, n <= m
  PROVE  EolsTo(c, n) \in Nat /\ EolsTo(c, m) \in Nat /\ EolsTo(c, n) <= EolsTo(c, m)
<1> DEFINE A == {k \in Eols(c) : k <= n}
           B == {k \in Eols(c) : k <= m}
<1>1. DOMAIN text[c] = 1 .. Len(text[c]) /\ Len(text[c]) \in Nat
  OBVIOUS
<1>2. IsFiniteSet(1 .. Len(text[c]))
  BY <1>1, UpTo
<1>3. B \in SUBSET (1 .. Len(text[c])) /\ A \in SUBSET B
  BY <1>1 DEF Eols
<1> HIDE DEF A, B
<1>4. IsFiniteSet(B)
  BY <1>2, <1>3, FS_Subset
<1>5. IsFiniteSet(A) /\ Cardinality(A) <= Cardinality(B)
  BY <1>3, <1>4, FS_Subset
<1>6. Cardinality(A) \in Nat /\ Cardinality(B) \in Nat
  BY <1>4, <1>5, FS_CardinalityType
<1> QED
  BY <1>5, <1>6 DEF A, B, EolsTo

\* A line end adds itself to those before it.
LEMMA EolStep ==
  ASSUME NEW c, text[c] \in Seq(Kinds), NEW n \in Int, NEW m \in 1 .. Len(text[c]), n < m,
         text[c][m] = "eol"
  PROVE  EolsTo(c, n) + 1 <= EolsTo(c, m)
<1> DEFINE A == {k \in Eols(c) : k <= n}
           B == {k \in Eols(c) : k <= m}
<1>1. DOMAIN text[c] = 1 .. Len(text[c]) /\ Len(text[c]) \in Nat
  OBVIOUS
<1>2. IsFiniteSet(1 .. Len(text[c]))
  BY <1>1, UpTo
<1>3. B \in SUBSET (1 .. Len(text[c])) /\ A \in SUBSET B /\ m \in B /\ m \notin A
  BY <1>1 DEF Eols
<1> HIDE DEF A, B
<1>4. IsFiniteSet(B)
  BY <1>2, <1>3, FS_Subset
<1>5. IsFiniteSet(A) /\ Cardinality(A) <= Cardinality(B) /\ Cardinality(A) # Cardinality(B)
  BY <1>3, <1>4, FS_Subset
<1>6. Cardinality(A) \in Nat /\ Cardinality(B) \in Nat
  BY <1>4, <1>5, FS_CardinalityType
<1> QED
  BY <1>5, <1>6 DEF A, B, EolsTo

\* The length of a concatenation.
LEMMA ConcatLen ==
  ASSUME NEW s \in Seq(Nat), NEW t \in Seq(Nat), NEW u, u = s \o t
  PROVE  u \in Seq(Nat) /\ Len(u) = Len(s) + Len(t)
  BY ConcatProperties

\* Putting an answer, or a report, into the transmit buffer of the websocket keeps its type
\* (serial2socket.cpp:97-101).
LEMMA WithFacts ==
  ASSUME NEW t \in Tx, NEW a \in Nat
  PROVE  /\ With(t, a) \in Tx
         /\ With(t, a).answers = IF a = 0 THEN t.answers ELSE Append(t.answers, a)
<1>1. CASE a = 0
  BY <1>1 DEF Tx, With
<1>2. CASE a # 0
  <2>1. Append(t.answers, a) \in Seq(Nat)
    BY AppendOne DEF Tx
  <2> QED
    BY <1>2, <2>1 DEF Tx, With
<1> QED
  BY <1>1, <1>2

\* A flush, when one is due, sends all that is in the transmit buffer, in its order, and leaves the buffer
\* below its size (serial2socket.cpp:138-160).
LEMMA FlushFacts ==
  ASSUME NEW t \in Tx, NEW s \in BOOLEAN, NEW h, h = HandleFlush(t, s)
  PROVE  /\ h.tx \in Tx /\ TxLen(h.tx) < TxSize /\ h.stale \in BOOLEAN /\ h.flushed \in Seq(Nat)
         /\ h.flushed \o h.tx.answers = t.answers
<1>0. t.answers \in Seq(Nat) /\ TxSize \in Nat \ {0}
  BY CommsAssumption DEF Tx
<1>1. CASE t # Nothing /\ (TxLen(t) >= TxSize \/ s)
  <2>1. h = Flushed(t)
    BY <1>1 DEF HandleFlush
  <2>2. h.tx = Nothing /\ ~h.stale /\ h.stale \in BOOLEAN /\ h.flushed = t.answers
    BY <2>1 DEF Flushed
  <2>3. Nothing \in Tx /\ TxLen(Nothing) = 0 /\ Nothing.answers = <<>>
    BY DEF Nothing, Tx, TxLen
  <2> QED
    BY <1>0, <2>2, <2>3, ConcatEmptySeq
<1>2. CASE ~(t # Nothing /\ (TxLen(t) >= TxSize \/ s))
  <2>1. h = Kept(t, s)
    BY <1>2 DEF HandleFlush
  <2>2. h.tx = t /\ h.stale \in BOOLEAN /\ h.flushed = <<>>
    BY <2>1 DEF Kept
  <2>3. TxLen(Nothing) = 0
    BY DEF Nothing, TxLen
  <2>4. TxLen(t) \in Nat
    BY DEF TxLen, Tx
  <2>5. TxLen(t) < TxSize
    BY <1>0, <1>2, <2>3, <2>4
  <2> QED
    BY <1>0, <2>2, <2>5, ConcatEmptySeq
<1> QED
  BY <1>1, <1>2

\* A write to the websocket sends or keeps what was there, with the answer behind, and leaves the
\* buffer below its size (serial2socket.cpp:87-105).
LEMMA WriteFacts ==
  ASSUME tx \in Tx, stale \in BOOLEAN, NEW a \in Nat, NEW h, h = SocketWrite(a)
  PROVE  /\ h.tx \in Tx /\ TxLen(h.tx) < TxSize /\ h.stale \in BOOLEAN /\ h.flushed \in Seq(Nat)
         /\ h.flushed \o h.tx.answers = IF a = 0 THEN tx.answers ELSE Append(tx.answers, a)
<1> DEFINE full == TxLen(With(tx, a)) > TxSize
           t == IF full THEN With(Nothing, a) ELSE With(tx, a)
           s == tx # Nothing /\ stale /\ ~full
           g == HandleFlush(t, s)
<1>1. Nothing \in Tx /\ Nothing.answers = <<>> /\ tx.answers \in Seq(Nat)
  BY DEF Nothing, Tx
<1>2. t \in Tx /\ s \in BOOLEAN
  BY <1>1, WithFacts
<1>3. h = [g EXCEPT !.flushed = IF full THEN tx.answers \o @ ELSE @]
  BY DEF SocketWrite
<1>4. g = [tx |-> g.tx, flushed |-> g.flushed, stale |-> g.stale]
  BY DEF HandleFlush, Flushed, Kept
<1> HIDE DEF g
<1>5. /\ g.tx \in Tx /\ TxLen(g.tx) < TxSize /\ g.stale \in BOOLEAN /\ g.flushed \in Seq(Nat)
      /\ g.flushed \o g.tx.answers = t.answers
  BY <1>2, FlushFacts DEF g
<1>6. h.tx = g.tx /\ h.stale = g.stale /\ h.flushed = IF full THEN tx.answers \o g.flushed ELSE g.flushed
  BY <1>3, <1>4
<1>7. g.tx.answers \in Seq(Nat)
  BY <1>5 DEF Tx
<1>8. CASE full
  <2>1. t.answers = IF a = 0 THEN <<>> ELSE Append(<<>>, a)
    BY <1>1, <1>8, WithFacts
  <2>2. h.flushed \o h.tx.answers = tx.answers \o t.answers
    <3>1. h.flushed = tx.answers \o g.flushed /\ h.tx = g.tx
      BY <1>6, <1>8
    <3>2. (tx.answers \o g.flushed) \o g.tx.answers = tx.answers \o (g.flushed \o g.tx.answers)
      BY <1>1, <1>5, <1>7, ConcatGroup
    <3> QED
      BY <1>5, <3>1, <3>2
  <2>3. tx.answers \o t.answers = IF a = 0 THEN tx.answers ELSE Append(tx.answers, a)
    <3>1. CASE a = 0
      BY <1>1, <2>1, <3>1, ConcatEmptySeq
    <3>2. CASE a # 0
      <4>1. t.answers = <<a>>
        BY <1>1, <2>1, <3>2, AppendOne
      <4> QED
        BY <1>1, <3>2, <4>1, AppendOne
    <3> QED
      BY <3>1, <3>2
  <2>4. h.flushed \in Seq(Nat)
    BY <1>1, <1>5, <1>6, <1>8, ConcatProperties
  <2> QED
    BY <1>5, <1>6, <2>2, <2>3, <2>4
<1>9. CASE ~full
  BY <1>5, <1>6, <1>9, WithFacts
<1> QED
  BY <1>8, <1>9

\* What the socket takes is delivered while it is open; what is due to it is never more than before
\* and what was written.
LEMMA TakeFacts ==
  ASSUME OutOK, socketOpen \in BOOLEAN, NEW h, Take(h), answered' \in [Clients -> Nat], NEW s \in Seq(Nat),
         h.tx \in Tx, TxLen(h.tx) < TxSize, h.stale \in BOOLEAN, h.flushed \in Seq(Nat),
         h.flushed \o h.tx.answers = s
  PROVE  /\ OutOK'
         /\ \A d \in Clients : /\ Len(delivered'[d]) >= Len(delivered[d])
                               /\ d # WebSocket => delivered'[d] = delivered[d]
         /\ Len(Due(WebSocket)') <= Len(delivered[WebSocket]) + Len(s)
         /\ (socketOpen \/ s = <<>>) => Due(WebSocket)' = delivered[WebSocket] \o s
<1> DEFINE D == delivered[WebSocket]
<1>1. WebSocket \in Clients /\ D \in Seq(Nat) /\ delivered \in [Clients -> Seq(Nat)]
  BY DEF OutOK, Clients, Servers
<1>2. tx' = h.tx /\ stale' = h.stale /\ h.tx.answers \in Seq(Nat)
  BY DEF Take, Tx
<1>3. Len(s) = Len(h.flushed) + Len(h.tx.answers)
  BY <1>2, ConcatLen, ZenonT(40)
<1>4. CASE ~socketOpen
  <2>1. delivered' = delivered
    BY <1>4 DEF Take
  <2>2. Due(WebSocket)' = D \o h.tx.answers
    BY <1>2, <2>1 DEF Due
  <2>3. Len(Due(WebSocket)') = Len(D) + Len(h.tx.answers)
    BY <1>1, <1>2, <2>2, ConcatLen
  <2>4. s = <<>> => h.tx.answers = s
    BY <1>2, ConcatEqualIffEmpty
  <2>5. OutOK'
    BY <1>2, <2>1 DEF OutOK
  <2>6. Len(Due(WebSocket)') <= Len(D) + Len(s)
    <3>1. PICK p \in Nat, q \in Nat, k \in Nat :
            p = Len(D) /\ q = Len(h.flushed) /\ k = Len(h.tx.answers)
      BY <1>1, <1>2
    <3>2. Len(Due(WebSocket)') = p + k /\ Len(s) = q + k
      BY <1>3, <2>3, <3>1
    <3>3. p + k <= p + (q + k)
      BY Sums
    <3>4. Len(D) = p
      BY <3>1
    <3> QED
      BY <3>2, <3>3, <3>4, Zenon
  <2>7. (socketOpen \/ s = <<>>) => Due(WebSocket)' = D \o s
    BY <1>4, <2>2, <2>4
  <2>8. \A d \in Clients : Len(delivered'[d]) >= Len(delivered[d]) /\ delivered'[d] = delivered[d]
    <3> TAKE d \in Clients
    <3>1. delivered[d] \in Seq(Nat)
      BY <1>1
    <3>2. Len(delivered[d]) \in Nat
      BY <3>1
    <3> QED
      BY <2>1, <3>2
  <2> QED
    BY <2>5, <2>6, <2>7, <2>8
<1>5. CASE socketOpen
  <2>1. delivered' = [delivered EXCEPT ![WebSocket] = D \o h.flushed]
    BY <1>5 DEF Take
  <2>2. D \o h.flushed \in Seq(Nat) /\ Len(D \o h.flushed) = Len(D) + Len(h.flushed)
    BY <1>1, ConcatProperties
  <2> DEFINE e == D \o h.flushed
  <2> HIDE DEF e
  <2>3. delivered' \in [Clients -> Seq(Nat)]
    BY <1>1, <2>1, <2>2 DEF e
  <2>4. \A d \in Clients : delivered'[d] = IF d = WebSocket THEN e ELSE delivered[d]
    BY <1>1, <2>1 DEF e
  <2>5. Due(WebSocket)' = e \o h.tx.answers
    BY <1>1, <1>2, <2>4 DEF Due
  <2>6. Due(WebSocket)' = D \o s
    <3>1. (D \o h.flushed) \o h.tx.answers = D \o (h.flushed \o h.tx.answers)
      <4>1. PICK f \in Seq(Nat), a \in Seq(Nat) : f = h.flushed /\ a = h.tx.answers
        BY <1>2
      <4>2. (D \o f) \o a = D \o (f \o a)
        BY <1>1, ConcatGroup, ZenonT(40)
      <4> QED
        BY <4>1, <4>2, Zenon
    <3> QED
      BY <2>5, <3>1 DEF e
  <2>7. Len(Due(WebSocket)') = Len(D) + Len(s)
    BY <1>1, <2>6, ConcatLen
  <2>8. OutOK'
    BY <1>2, <2>3 DEF OutOK
  <2>9. \A d \in Clients : Len(delivered'[d]) >= Len(delivered[d])
    <3> TAKE d \in Clients
    <3>0. delivered[d] \in Seq(Nat)
      BY <1>1
    <3>1. CASE d = WebSocket
      <4>1. PICK p \in Nat, q \in Nat : p = Len(D) /\ q = Len(h.flushed)
        BY <1>1
      <4>2. Len(e) = p + q /\ delivered'[d] = e /\ delivered[d] = D
        BY <2>2, <2>4, <3>1, <4>1 DEF e
      <4>3. p + q >= p
        BY Sums
      <4>4. Len(delivered[d]) = p /\ Len(delivered'[d]) = p + q
        BY <4>1, <4>2
      <4> QED
        BY <4>3, <4>4, Zenon
    <3>2. CASE d # WebSocket
      BY <1>1, <2>4, <3>2
    <3> QED
      BY <3>1, <3>2
  <2> QED
    BY <1>1, <2>4, <2>6, <2>7, <2>8, <2>9
<1> QED
  BY <1>4, <1>5

\* What sending changes: the types stay, nothing delivered is taken back, and what is due to a client
\* grows by no more than its answer.
SendsOn(c, a) ==
  /\ OutOK'
  /\ \A d \in Clients : Len(delivered'[d]) >= Len(delivered[d])
  /\ \A d \in Clients : Len(Due(d)') <= Len(Due(d)) + (IF d = c /\ a # 0 THEN 1 ELSE 0)
  /\ \A d \in Clients \ {Telnet} :
       (d = WebSocket /\ ~socketOpen => tx.answers = <<>> /\ ~(d = c /\ a # 0))
         => Due(d)' = IF d = c /\ a # 0 THEN Append(Due(d), a) ELSE Due(d)

\* What the socket takes of a write is as SendsOn says.
LEMMA TakenOn ==
  ASSUME OutOK, socketOpen \in BOOLEAN, NEW h, Take(h), answered' \in [Clients -> Nat], NEW a \in Nat,
         h.tx \in Tx, TxLen(h.tx) < TxSize, h.stale \in BOOLEAN, h.flushed \in Seq(Nat),
         h.flushed \o h.tx.answers = IF a = 0 THEN tx.answers ELSE Append(tx.answers, a)
  PROVE  SendsOn(WebSocket, a)
<1> DEFINE D == delivered[WebSocket]
           s == IF a = 0 THEN tx.answers ELSE Append(tx.answers, a)
<1>1. WebSocket \in Clients /\ D \in Seq(Nat) /\ delivered \in [Clients -> Seq(Nat)] /\ tx.answers \in Seq(Nat)
  BY DEF OutOK, Clients, Servers, Tx
<1>2. s \in Seq(Nat) /\ Len(s) = Len(tx.answers) + IF a = 0 THEN 0 ELSE 1
  <2>1. CASE a = 0
    BY <1>1, <2>1
  <2>2. CASE a # 0
    BY <1>1, <2>2, AppendOne
  <2> QED
    BY <2>1, <2>2
<1>3. Due(WebSocket) = D \o tx.answers
  BY DEF Due
<1>4. Len(Due(WebSocket)) = Len(D) + Len(tx.answers)
  BY <1>1, <1>3, ConcatLen
<1>5. D \o s = IF a = 0 THEN Due(WebSocket) ELSE Append(Due(WebSocket), a)
  <2>1. CASE a = 0
    BY <1>3, <2>1
  <2>2. CASE a # 0
    <3>1. s = tx.answers \o <<a>> /\ <<a>> \in Seq(Nat)
      BY <1>1, <2>2, AppendOne
    <3>2. D \o (tx.answers \o <<a>>) = (D \o tx.answers) \o <<a>>
      BY <1>1, <3>1, ConcatGroup
    <3>3. D \o tx.answers \in Seq(Nat)
      BY <1>1, ConcatProperties
    <3> QED
      BY <1>3, <2>2, <3>1, <3>2, <3>3, AppendOne
  <2> QED
    BY <2>1, <2>2
<1>6. a = 0 => s = tx.answers
  OBVIOUS
<1> HIDE DEF s
<1>7. /\ OutOK'
      /\ \A d \in Clients : /\ Len(delivered'[d]) >= Len(delivered[d])
                            /\ d # WebSocket => delivered'[d] = delivered[d]
      /\ Len(Due(WebSocket)') <= Len(D) + Len(s)
      /\ (socketOpen \/ s = <<>>) => Due(WebSocket)' = D \o s
  BY <1>2, TakeFacts DEF s
<1>8. \A d \in Clients : d # WebSocket => Due(d)' = Due(d)
  BY <1>7 DEF Due
<1>9. \A d \in Clients : Len(Due(d)') <= Len(Due(d)) + (IF d = WebSocket /\ a # 0 THEN 1 ELSE 0)
  <2> TAKE d \in Clients
  <2>1. CASE d = WebSocket
    <3>1. PICK p \in Nat, k \in Nat, z \in Nat : p = Len(D) /\ k = Len(tx.answers) /\ z = Len(Due(d)')
      <4>1. delivered' \in [Clients -> Seq(Nat)] /\ tx'.answers \in Seq(Nat)
        BY <1>7 DEF OutOK, Tx
      <4>2. Due(d)' = delivered'[d] \o tx'.answers
        BY <2>1 DEF Due
      <4>3. Len(Due(d)') \in Nat
        BY <4>1, <4>2, <2>1, ConcatLen
      <4> QED
        BY <1>1, <4>3
    <3>2. Len(s) = k + IF a = 0 THEN 0 ELSE 1
      BY <1>2, <3>1
    <3>3. z <= p + Len(s)
      BY <2>1, <1>7, <3>1
    <3>4. Len(Due(d)) = p + k
      BY <2>1, <1>4, <3>1
    <3> DEFINE q == IF a = 0 THEN 0 ELSE 1
    <3>5. q \in Nat /\ q = (IF d = WebSocket /\ a # 0 THEN 1 ELSE 0)
      BY <2>1
    <3> HIDE DEF q
    <3>6. z <= p + (k + q) => z <= (p + k) + q
      BY <3>5, Sums
    <3>7. z <= p + (k + q)
      BY <3>2, <3>3 DEF q
    <3>8. z <= (p + k) + q
      BY <3>6, <3>7
    <3> QED
      BY <3>1, <3>4, <3>5, <3>8, Zenon
  <2>2. CASE d # WebSocket
    <3>1. Due(d) \in Seq(Nat)
      BY <1>1, <2>2, ConcatProperties, EmptySeq DEF Due
    <3> QED
      BY <2>2, <3>1, <1>8
  <2> QED
    BY <2>1, <2>2
<1>10. \A d \in Clients \ {Telnet} :
         (d = WebSocket /\ ~socketOpen => tx.answers = <<>> /\ ~(d = WebSocket /\ a # 0))
           => Due(d)' = IF d = WebSocket /\ a # 0 THEN Append(Due(d), a) ELSE Due(d)
  BY <1>5, <1>6, <1>7, <1>8
<1> QED
  BY <1>7, <1>9, <1>10 DEF SendsOn

\* Sending an answer or a report to a client is as SendsOn says, whichever the channel
\* (report.cpp:31-48).
LEMMA SendFacts ==
  ASSUME OutOK, socketOpen \in BOOLEAN, NEW c \in Clients, NEW a \in Nat, Send(c, a),
         answered' \in [Clients -> Nat]
  PROVE  SendsOn(c, a)
<1>1. CASE c = WebSocket
  <2>1. Take(SocketWrite(a))
    BY <1>1 DEF Send
  <2>2. tx \in Tx /\ stale \in BOOLEAN
    BY DEF OutOK
  <2> DEFINE h == SocketWrite(a)
  <2> HIDE DEF h
  <2>3. /\ h.tx \in Tx /\ TxLen(h.tx) < TxSize /\ h.stale \in BOOLEAN /\ h.flushed \in Seq(Nat)
        /\ h.flushed \o h.tx.answers = IF a = 0 THEN tx.answers ELSE Append(tx.answers, a)
    BY <2>2, WriteFacts DEF h
  <2>4. Take(h)
    BY <2>1 DEF h
  <2> QED
    BY <1>1, <2>3, <2>4, TakenOn
<1>2. CASE c # WebSocket
  <2>1. /\ delivered \in [Clients -> Seq(Nat)]
        /\ tx' = tx /\ stale' = stale
        /\ delivered' = IF a # 0 /\ (c = Serial \/ Slotted)
                          THEN [delivered EXCEPT ![c] = Append(@, a)] ELSE delivered
    BY <1>2 DEF Send, OutOK
  <2>2. Append(delivered[c], a) \in Seq(Nat) /\ Len(Append(delivered[c], a)) = Len(delivered[c]) + 1
    BY <2>1, AppendProperties
  <2>3. delivered' \in [Clients -> Seq(Nat)]
    BY <2>1, <2>2
  <2>4. OutOK'
    BY <2>1, <2>3 DEF OutOK
  <2>5. \A d \in Clients : delivered'[d] = IF d = c /\ a # 0 /\ (c = Serial \/ Slotted)
                                             THEN Append(delivered[d], a) ELSE delivered[d]
    BY <2>1
  <2>6. \A d \in Clients : d # WebSocket => Due(d) = delivered[d] /\ Due(d)' = delivered'[d]
    BY <2>1, <2>3, ConcatEmptySeq DEF Due
  <2>7. Due(WebSocket)' = Due(WebSocket) /\ Len(Due(WebSocket)) \in Nat
    <3>1. WebSocket \in Clients /\ delivered'[WebSocket] = delivered[WebSocket] /\ tx' = tx
      BY <1>2, <2>1, <2>5 DEF Clients, Servers
    <3>2. tx.answers \in Seq(Nat) /\ delivered[WebSocket] \in Seq(Nat)
      BY <2>1, <3>1 DEF OutOK, Tx
    <3>3. Due(WebSocket) = delivered[WebSocket] \o tx.answers
      BY DEF Due
    <3>4. Due(WebSocket)' = Due(WebSocket)
      BY <3>1 DEF Due
    <3>5. Due(WebSocket) \in Seq(Nat)
      BY <3>2, <3>3, ConcatLen
    <3> QED
      BY <3>4, <3>5
  <2>8. \A d \in Clients : Len(delivered'[d]) >= Len(delivered[d])
    BY <2>1, <2>2, <2>5
  <2>9. \A d \in Clients : Len(Due(d)') <= Len(Due(d)) + (IF d = c /\ a # 0 THEN 1 ELSE 0)
    <3> TAKE d \in Clients
    <3>1. CASE d = WebSocket
      BY <3>1, <1>2, <2>7
    <3>2. CASE d # WebSocket
      BY <3>2, <2>1, <2>2, <2>5, <2>6
    <3> QED
      BY <3>1, <3>2
  <2>10. \A d \in Clients \ {Telnet} :
           Due(d)' = IF d = c /\ a # 0 THEN Append(Due(d), a) ELSE Due(d)
    <3> TAKE d \in Clients \ {Telnet}
    <3>1. CASE d = WebSocket
      BY <3>1, <1>2, <2>7
    <3>2. CASE d # WebSocket
      <4>1. d = Serial
        BY <3>2 DEF Clients, Servers
      <4> QED
        BY <3>2, <4>1, <2>5, <2>6
    <3> QED
      BY <3>1, <3>2
  <2> QED
    BY <2>4, <2>8, <2>9, <2>10 DEF SendsOn
<1> QED
  BY <1>1, <1>2

============================================================================
