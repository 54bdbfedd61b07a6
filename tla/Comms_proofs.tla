------------------------------ MODULE Comms_proofs ------------------------------
(***************************************************************************)
(* Comms keeps CommsInv, loses nothing of a client that keeps to its       *)
(* window, answers each line once and in order, executes each as it was    *)
(* written, raises no override unasked and keeps the slot of an accepted   *)
(* connection, for any sizes.                                              *)
(***************************************************************************)
EXTENDS Rings_proofs

----------------------------------------------------------------------------
(* The inductive invariant, and a packet that arrives *)

\* Every client's bytes are in order: read, in the ring, before the ring, and sent.
Way == \A c \in Clients : Parts(got[c], InRx(c), InNet(c), Len(text[c]))

\* The inductive invariant. The window is needed for what is lost, the line ends read for what is
\* answered.
IInv == TypeOK /\ Way /\ AnsweredAfterRead /\ WithinWindow /\ CommandsPickedOff /\ OpenToSend /\ RisesAsked

\* The sizes of the channels, and which client is which.
LEMMA Sizes ==
  /\ \A c \in Servers : NetSize(c) \in Nat \ {0} /\ NetSize(c) \in {SocketSize, TelnetSize}
  /\ Servers \subseteq Clients /\ Serial \in Clients /\ Serial \notin Servers
  /\ \A c \in Clients : c # Serial => c \in Servers
  BY CommsAssumption DEF NetSize, Servers, Clients, Serial, WebSocket, Telnet

\* What a network buffer holds is a sequence as long as the buffer's size says.
LEMMA NetSeq ==
  ASSUME NEW S \in Nat \ {0}, NEW r \in NetBuffer(S)
  PROVE  InBuffer(r, S) \in Seq(Nat) /\ Len(InBuffer(r, S)) = r.size /\ r.size \in 0 .. S
<1>1. r.buf \in [0 .. S - 1 -> Nat] /\ r.pos \in 0 .. S - 1 /\ r.size \in 0 .. S
  BY DEF NetBuffer
<1> QED
  BY <1>1, BufferSeq

\* What is before the rings is a sequence for every client.
LEMMA WireSeqs ==
  ASSUME WireOK
  PROVE  \A c \in Clients : InNet(c) \in Seq(Nat)
<1> TAKE c \in Clients
<1>1. CASE c = Serial
  BY <1>1 DEF InNet, WireOK
<1>2. CASE c # Serial
  <2>1. c \in Servers /\ NetSize(c) \in Nat \ {0} /\ net[c] \in NetBuffer(NetSize(c))
    BY <1>2, Sizes DEF WireOK
  <2> QED
    BY <1>2, <2>1, NetSeq DEF InNet
<1> QED
  BY <1>1, <1>2

\* What is in the rings is a sequence for every client.
LEMMA RingSeqs ==
  ASSUME RingsOK
  PROVE  \A c \in Clients : InRx(c) \in Seq(Nat)
<1> TAKE c \in Clients
<1>1. rx[c] \in Ring
  BY DEF RingsOK
<1> QED
  BY <1>1, RingParts, RingSeq DEF InRx

\* Way says what InOrder and OnlySent say, part by part.
LEMMA WayIsOrder ==
  ASSUME WireOK, RingsOK
  PROVE  Way <=> InOrder /\ OnlySent
<1>1. ASSUME NEW c \in Clients
      PROVE  ((\A i, j \in DOMAIN OnTheWay(c) : i < j => OnTheWay(c)[i] < OnTheWay(c)[j])
                /\ (\A i \in DOMAIN OnTheWay(c) : OnTheWay(c)[i] <= Len(text[c])))
               <=> Parts(got[c], InRx(c), InNet(c), Len(text[c]))
  <2> DEFINE R == InRx(c)
             N == InNet(c)
             l == Len(text[c])
             g == got[c]
             w == <<g>> \o R \o N
  <2>1. g \in Nat /\ R \in Seq(Nat) /\ N \in Seq(Nat) /\ l \in Nat
    BY WireSeqs, RingSeqs DEF WireOK, RingsOK
  <2> HIDE DEF R, N, l, g
  <2>2. ((\A i, j \in DOMAIN w : i < j => w[i] < w[j]) /\ (\A i \in DOMAIN w : w[i] <= l))
          <=> Parts(g, R, N, l)
    BY <2>1, WayParts
  <2>3. OnTheWay(c) = w
    BY DEF OnTheWay, R, N, g
  <2> HIDE DEF w
  <2> QED
    BY <2>2, <2>3, Zenon DEF R, N, l, g
<1> QED
  BY <1>1, Zenon DEF Way, InOrder, OnlySent

\* The bytes of the next packet and their places in the client's text.
LEMMA FrameFacts ==
  ASSUME WireOK, NEW c \in Clients, Sends(c)
  PROVE  /\ Frame(c) \in Seq(Kinds) /\ Len(Frame(c)) \in Nat
         /\ Places(c) \in Seq(Nat) /\ Len(Places(c)) = Len(Frame(c))
         /\ \A i \in 1 .. Len(Frame(c)) : Places(c)[i] = Len(text[c]) + i
<1>1. scn.packets[c] \in Seq(Seq(Kinds)) /\ packets[c] \in Nat /\ text[c] \in Seq(Kinds)
  BY CommsAssumption DEF WireOK
<1>2. packets[c] + 1 \in 1 .. Len(scn.packets[c])
  BY <1>1 DEF Sends
<1>3. scn.packets[c][packets[c] + 1] \in Seq(Kinds)
  BY <1>1, <1>2, ElementOfSeq
<1>4. "eol" \in Kinds
  BY DEF Kinds
<1>5. Frame(c) \in Seq(Kinds)
  BY <1>3, <1>4, AppendProperties DEF Frame
<1> DEFINE n == Len(Frame(c))
           l == Len(text[c])
           s == Places(c)
<1>6. n \in Nat /\ l \in Nat
  BY <1>1, <1>5
<1>7. s = [i \in 1 .. n |-> l + i]
  BY DEF Places
<1> HIDE DEF n, l, s
<1>8. s \in [1 .. n -> Nat] /\ \A i \in 1 .. n : s[i] = l + i
  BY <1>6, <1>7
<1>9. s \in Seq(Nat) /\ Len(s) = n
  BY <1>6, <1>8, MakeSeq
<1> QED
  BY <1>5, <1>6, <1>8, <1>9 DEF n, l, s

\* M is N with some of the bytes l + 1 .. l + k behind.
Tacked(N, M, l, k) ==
  Len(M) <= Len(N) + k /\ \A i \in 1 .. Len(M) : M[i] = IF i <= Len(N) THEN N[i] ELSE l + (i - Len(N))

\* Nothing behind: all of the packet is lost.
LEMMA TackedNone ==
  ASSUME NEW N \in Seq(Nat), NEW l \in Nat, NEW k \in Nat
  PROVE  Tacked(N, N, l, k)
<1>1. Len(N) \in Nat
  OBVIOUS
<1> QED
  BY <1>1 DEF Tacked

\* All of the packet behind.
LEMMA TackedAll ==
  ASSUME NEW N \in Seq(Nat), NEW P \in Seq(Nat), NEW l \in Nat, NEW k \in Nat, Len(P) = k,
         \A i \in 1 .. k : P[i] = l + i
  PROVE  N \o P \in Seq(Nat) /\ Len(N \o P) = Len(N) + k /\ Tacked(N, N \o P, l, k)
<1> DEFINE u == N \o P
<1>1. PICK b \in Nat : b = Len(N)
  OBVIOUS
<1>2. u \in Seq(Nat) /\ Len(u) = b + k
      /\ \A i \in 1 .. b + k : u[i] = IF i <= b THEN N[i] ELSE P[i - b]
  BY <1>1, ConcatProperties
<1> HIDE DEF u
<1>3. \A i \in 1 .. b + k : u[i] = IF i <= b THEN N[i] ELSE l + (i - b)
  <2> TAKE i \in 1 .. b + k
  <2>1. i > b => P[i - b] = l + (i - b)
    <3> HAVE i > b
    <3>1. i - b \in 1 .. k
      OBVIOUS
    <3> QED
      BY <3>1
  <2> QED
    BY <1>2, <2>1
<1>4. Tacked(N, u, l, k)
  BY <1>1, <1>2, <1>3 DEF Tacked
<1> QED
  BY <1>1, <1>2, <1>4 DEF u

\* As much of what is behind as fits.
LEMMA TackedCut ==
  ASSUME NEW N \in Seq(Nat), NEW u \in Seq(Nat), NEW l \in Nat, NEW k \in Nat, Tacked(N, u, l, k),
         NEW n \in 0 .. Len(u)
  PROVE  SubSeq(u, 1, n) \in Seq(Nat) /\ Len(SubSeq(u, 1, n)) = n /\ Tacked(N, SubSeq(u, 1, n), l, k)
<1> DEFINE M == SubSeq(u, 1, n)
<1>1. PICK b \in Nat, m \in Nat : b = Len(N) /\ m = Len(u)
  OBVIOUS
<1>2. m <= b + k /\ \A i \in 1 .. m : u[i] = IF i <= b THEN N[i] ELSE l + (i - b)
  BY <1>1 DEF Tacked
<1>3. n \in 0 .. m
  BY <1>1
<1>4. \A i \in 1 .. n : u[i] \in Nat
  BY <1>1, <1>3, ElementOfSeq
<1>5. M \in Seq(Nat) /\ Len(M) = n /\ \A i \in 1 .. n : M[i] = u[i]
  <2>1. 1 \in Int /\ n \in Int
    BY <1>3
  <2>2. /\ SubSeq(u, 1, n) \in Seq(Nat)
        /\ Len(SubSeq(u, 1, n)) = IF 1 <= n THEN n - 1 + 1 ELSE 0
        /\ \A i \in 1 .. n - 1 + 1 : SubSeq(u, 1, n)[i] = u[1 + i - 1]
    BY <1>4, <2>1, SubSeqProperties
  <2>3. n - 1 + 1 = n /\ \A i \in 1 .. n : 1 + i - 1 = i
    BY <1>3
  <2> QED
    BY <1>3, <2>2, <2>3
<1> HIDE DEF M
<1>6. \A i \in 1 .. n : M[i] = IF i <= b THEN N[i] ELSE l + (i - b)
  <2> TAKE i \in 1 .. n
  <2>1. i \in 1 .. m
    BY <1>3
  <2>2. M[i] = u[i]
    BY <1>5
  <2>3. u[i] = IF i <= b THEN N[i] ELSE l + (i - b)
    BY <2>1, <1>2
  <2> QED
    BY <2>2, <2>3
<1>7. Tacked(N, M, l, k)
  BY <1>1, <1>2, <1>3, <1>5, <1>6 DEF Tacked
<1> QED
  BY <1>5, <1>7 DEF M

\* What a client's packet does to its channel.
Arrives(c) ==
  /\ uart' \in Seq(Nat) /\ Len(uart') <= UartSize
  /\ net' \in [Servers -> NetBuffer(SocketSize) \cup NetBuffer(TelnetSize)]
  /\ \A d \in Servers : net'[d] \in NetBuffer(NetSize(d))
  /\ lost' \in [Clients -> Nat]
  /\ \A d \in Clients : d # c => InNet(d)' = InNet(d)
  /\ Tacked(InNet(c), InNet(c)', Len(text[c]), Len(Frame(c)))

\* The UART keeps as much of the packet as its buffer takes (external).
LEMMA UartArrives ==
  ASSUME WireOK, UartReceive
  PROVE  Arrives(Serial)
<1> DEFINE N == uart
           P == Places(Serial)
           k == Len(Frame(Serial))
           l == Len(text[Serial])
           all == N \o P
           n == IF Len(all) > UartSize THEN UartSize ELSE Len(all)
<1>0. Sends(Serial) /\ Serial \in Clients
  BY DEF UartReceive, Clients
<1>1. /\ N \in Seq(Nat) /\ P \in Seq(Nat) /\ k \in Nat /\ l \in Nat /\ Len(P) = k
      /\ \A i \in 1 .. k : P[i] = l + i
  BY <1>0, FrameFacts DEF WireOK
<1>2. UartSize \in Nat
  BY CommsAssumption
<1>3. uart' = SubSeq(all, 1, n) /\ lost' = [lost EXCEPT ![Serial] = @ + Len(all) - n] /\ net' = net
  BY DEF UartReceive
<1> HIDE DEF N, P, k, l
<1>4. all \in Seq(Nat) /\ Len(all) = Len(N) + k /\ Tacked(N, all, l, k)
  BY <1>1, TackedAll
<1> HIDE DEF all
<1>5. n \in 0 .. Len(all) /\ n <= UartSize /\ Len(all) - n \in Nat
  BY <1>1, <1>2, <1>4
<1> HIDE DEF n
<1>6. uart' \in Seq(Nat) /\ Len(uart') = n /\ Tacked(N, uart', l, k)
  BY <1>1, <1>3, <1>4, <1>5, TackedCut
<1>7. lost' \in [Clients -> Nat]
  <2>1. lost \in [Clients -> Nat]
    BY DEF WireOK
  <2>2. lost[Serial] + Len(all) - n \in Nat
    BY <1>0, <1>4, <1>5, <2>1
  <2> QED
    BY <1>3, <2>1, <2>2
<1>8. \A d \in Clients : d # Serial => InNet(d)' = InNet(d)
  BY <1>3 DEF InNet
<1>9. InNet(Serial) = N /\ InNet(Serial)' = uart'
  BY DEF InNet, N
<1>10. /\ net' \in [Servers -> NetBuffer(SocketSize) \cup NetBuffer(TelnetSize)]
       /\ \A d \in Servers : net'[d] \in NetBuffer(NetSize(d))
  BY <1>3 DEF WireOK
<1> QED
  BY <1>5, <1>6, <1>7, <1>8, <1>9, <1>10 DEF Arrives, l, k

\* A server keeps all of a packet that fits its buffer and nothing of one that does not
\* (telnet_server.cpp:146-161, serial2socket.cpp:112-126).
LEMMA PushArrives ==
  ASSUME WireOK, NEW c \in Servers, Sends(c), Pushes(c)
  PROVE  Arrives(c)
<1> DEFINE S == NetSize(c)
           r == net[c]
           P == Places(c)
           k == Len(Frame(c))
           l == Len(text[c])
           q == Push(r, P, S)
<1>0. c \in Clients /\ S \in Nat \ {0} /\ c # Serial
  BY Sizes
<1>1. P \in Seq(Nat) /\ k \in Nat /\ l \in Nat /\ Len(P) = k /\ \A i \in 1 .. k : P[i] = l + i
  BY <1>0, FrameFacts DEF WireOK
<1>2. r \in NetBuffer(S) /\ InBuffer(r, S) \in Seq(Nat)
  BY <1>0, NetSeq DEF WireOK
<1>3. /\ net' = [net EXCEPT ![c] = q]
      /\ lost' = [lost EXCEPT ![c] = @ + IF Fits(k, r.size, S) THEN 0 ELSE k]
      /\ uart' = uart
  BY DEF Pushes
<1>4. q \in NetBuffer(S) /\ InBuffer(q, S) \in Seq(Nat) /\ Tacked(InBuffer(r, S), InBuffer(q, S), l, k)
  <2>1. CASE Fits(k, r.size, S)
    <3> HIDE DEF S, r, P, k, l
    <3> HIDE DEF q
    <3>1. q \in NetBuffer(S) /\ InBuffer(q, S) = InBuffer(r, S) \o P
      BY <1>0, <1>1, <1>2, <2>1, BufferPush DEF q
    <3> DEFINE N == InBuffer(r, S)
    <3> HIDE DEF N
    <3>2. N \in Seq(Nat)
      BY <1>2 DEF N
    <3>3. N \o P \in Seq(Nat) /\ Tacked(N, N \o P, l, k)
      BY <1>1, <3>2, TackedAll
    <3> QED
      BY <3>1, <3>3, Zenon DEF N
  <2>2. CASE ~Fits(k, r.size, S)
    <3> HIDE DEF S, r, P, k, l
    <3>1. q = r
      BY <1>1, <2>2 DEF Push
    <3> HIDE DEF q
    <3> QED
      BY <1>1, <1>2, <3>1, TackedNone
  <2> QED
    BY <2>1, <2>2
<1> HIDE DEF q
<1>5. /\ net' \in [Servers -> NetBuffer(SocketSize) \cup NetBuffer(TelnetSize)]
      /\ \A d \in Servers : net'[d] = IF d = c THEN q ELSE net[d]
  <2>1. NetBuffer(S) = NetBuffer(SocketSize) \/ NetBuffer(S) = NetBuffer(TelnetSize)
    BY DEF NetSize
  <2>2. q \in NetBuffer(SocketSize) \cup NetBuffer(TelnetSize)
    BY <1>4, <2>1
  <2>3. net \in [Servers -> NetBuffer(SocketSize) \cup NetBuffer(TelnetSize)]
    BY DEF WireOK
  <2> QED
    BY <1>3, <2>2, <2>3
<1>6. \A d \in Servers : net'[d] \in NetBuffer(NetSize(d))
  BY <1>4, <1>5 DEF WireOK
<1>7. lost' \in [Clients -> Nat]
  <2>1. lost \in [Clients -> Nat]
    BY DEF WireOK
  <2>2. lost[c] + (IF Fits(k, r.size, S) THEN 0 ELSE k) \in Nat
    BY <1>0, <1>1, <2>1
  <2> QED
    BY <1>3, <2>1, <2>2
<1>8. \A d \in Clients : d # c => InNet(d)' = InNet(d)
  <2> TAKE d \in Clients
  <2> HAVE d # c
  <2>1. CASE d = Serial
    BY <1>3, <2>1 DEF InNet
  <2>2. CASE d # Serial
    <3>1. net'[d] = net[d]
      BY <1>5, <2>2, Sizes
    <3> QED
      BY <2>2, <3>1 DEF InNet
  <2> QED
    BY <2>1, <2>2
<1>9. InNet(c) = InBuffer(r, S) /\ InNet(c)' = InBuffer(q, S)
  BY <1>0, <1>5 DEF InNet
<1>10. uart' \in Seq(Nat) /\ Len(uart') <= UartSize
  BY <1>3 DEF WireOK
<1> QED
  BY <1>4, <1>5, <1>6, <1>7, <1>8, <1>9, <1>10 DEF Arrives

\* A fragment of a websocket message is not passed on at all (websocket.cpp:34-43).
LEMMA FragmentArrives ==
  ASSUME WireOK, SocketFragment
  PROVE  Arrives(WebSocket) /\ Sends(WebSocket)
<1> DEFINE N == InNet(WebSocket)
           k == Len(Frame(WebSocket))
           l == Len(text[WebSocket])
<1>0. WebSocket \in Clients /\ Sends(WebSocket) /\ lost \in [Clients -> Nat]
  BY DEF Clients, Servers, SocketFragment, WireOK
<1>1. k \in Nat /\ l \in Nat /\ N \in Seq(Nat)
  BY <1>0, FrameFacts, WireSeqs DEF WireOK
<1>2. uart' = uart /\ net' = net /\ lost' = [lost EXCEPT ![WebSocket] = @ + k]
  BY DEF SocketFragment
<1>3. \A d \in Clients : InNet(d)' = InNet(d)
  BY <1>2 DEF InNet
<1>4. Tacked(N, N, l, k)
  BY <1>1, TackedNone
<1>5. lost' \in [Clients -> Nat]
  <2>1. lost[WebSocket] + k \in Nat
    BY <1>0, <1>1
  <2> QED
    BY <1>0, <1>2, <2>1
<1>6. InNet(WebSocket)' = InNet(WebSocket)
  BY <1>0, <1>3
<1>7. /\ uart' \in Seq(Nat) /\ Len(uart') <= UartSize
      /\ net' \in [Servers -> NetBuffer(SocketSize) \cup NetBuffer(TelnetSize)]
      /\ \A d \in Servers : net'[d] \in NetBuffer(NetSize(d))
  BY <1>2 DEF WireOK
<1> QED
  BY <1>0, <1>3, <1>4, <1>5, <1>6, <1>7 DEF Arrives

----------------------------------------------------------------------------
(* Sending *)

\* After a step, what is before the rings is a sequence.
LEMMA WireSeqsNext ==
  ASSUME WireOK'
  PROVE  \A c \in Clients : InNet(c)' \in Seq(Nat)
<1> TAKE c \in Clients
<1>1. CASE c = Serial
  BY <1>1 DEF InNet, WireOK
<1>2. CASE c # Serial
  <2>1. c \in Servers /\ NetSize(c) \in Nat \ {0} /\ net'[c] \in NetBuffer(NetSize(c))
    BY <1>2, Sizes DEF WireOK
  <2> QED
    BY <1>2, <2>1, NetSeq DEF InNet
<1> QED
  BY <1>1, <1>2

\* After a step, what is in the rings is a sequence.
LEMMA RingSeqsNext ==
  ASSUME RingsOK'
  PROVE  \A c \in Clients : InRx(c)' \in Seq(Nat)
<1> TAKE c \in Clients
<1>1. rx'[c] \in Ring
  BY DEF RingsOK
<1> QED
  BY <1>1, RingParts, RingSeq DEF InRx

\* A client's unanswered bytes are finitely many.
LEMMA UnansweredFinite ==
  ASSUME NEW c, text[c] \in Seq(Kinds)
  PROVE  IsFiniteSet(Unanswered(c)) /\ Cardinality(Unanswered(c)) \in Nat
<1> DEFINE D == 1 .. Len(text[c])
           U == Unanswered(c)
<1>1. Len(text[c]) \in Nat /\ DOMAIN text[c] = D
  OBVIOUS
<1>2. IsFiniteSet(D)
  BY <1>1, UpTo
<1>3. U \in SUBSET D
  BY <1>1 DEF Unanswered
<1> HIDE DEF U, D
<1>4. IsFiniteSet(U)
  BY <1>2, <1>3, FS_Subset
<1>5. Cardinality(U) \in Nat
  BY <1>4, FS_CardinalityType
<1> QED
  BY <1>4, <1>5 DEF U

\* A subset of a finite set is no larger.
LEMMA SmallerSet ==
  ASSUME NEW S, NEW T, IsFiniteSet(T), S \subseteq T
  PROVE  IsFiniteSet(S) /\ Cardinality(S) <= Cardinality(T) /\ Cardinality(S) \in Nat /\ Cardinality(T) \in Nat
<1>1. S \in SUBSET T
  OBVIOUS
<1>2. IsFiniteSet(S) /\ Cardinality(S) <= Cardinality(T)
  BY <1>1, FS_Subset
<1> QED
  BY <1>2, FS_CardinalityType

\* A union is no larger than its two sets together.
LEMMA JoinedSets ==
  ASSUME NEW S, NEW T, IsFiniteSet(S), IsFiniteSet(T)
  PROVE  IsFiniteSet(S \cup T) /\ Cardinality(S \cup T) <= Cardinality(S) + Cardinality(T)
<1>1. IsFiniteSet(S \cap T)
  BY FS_Intersection
<1>2. Cardinality(S) \in Nat /\ Cardinality(T) \in Nat /\ Cardinality(S \cap T) \in Nat
  BY <1>1, FS_CardinalityType
<1>3. IsFiniteSet(S \cup T) /\ Cardinality(S \cup T) = Cardinality(S) + Cardinality(T) - Cardinality(S \cap T)
  BY FS_Union
<1> QED
  BY <1>2, <1>3

\* The places of k bytes behind byte l are k places.
LEMMA SpanSize ==
  ASSUME NEW l \in Nat, NEW k \in Nat
  PROVE  IsFiniteSet(l + 1 .. l + k) /\ Cardinality(l + 1 .. l + k) = k
<1>1. l + 1 \in Int /\ l + k \in Int
  OBVIOUS
<1>2. IsFiniteSet(l + 1 .. l + k) /\ Cardinality(l + 1 .. l + k) = IF l + 1 > l + k THEN 0 ELSE (l + k) - (l + 1) + 1
  BY <1>1, FS_Interval
<1>3. (IF l + 1 > l + k THEN 0 ELSE (l + k) - (l + 1) + 1) = k
  OBVIOUS
<1> QED
  BY <1>2, <1>3

\* Sending a packet puts its bytes behind the client's text and leaves what was sent before.
LEMMA TextSent ==
  ASSUME WireOK, NEW c \in Clients, Sends(c)
  PROVE  /\ text' \in [Clients -> Seq(Kinds)] /\ packets' \in [Clients -> Nat]
         /\ \A d \in Clients : d # c => text'[d] = text[d]
         /\ Len(text'[c]) = Len(text[c]) + Len(Frame(c))
         /\ DOMAIN text'[c] = 1 .. Len(text[c]) + Len(Frame(c))
         /\ \A i \in 1 .. Len(text[c]) : text'[c][i] = text[c][i]
<1> DEFINE f == Frame(c)
           t == text[c]
           u == t \o f
<1>1. text \in [Clients -> Seq(Kinds)] /\ packets \in [Clients -> Nat] /\ f \in Seq(Kinds)
  BY FrameFacts DEF WireOK
<1>2. text' = [text EXCEPT ![c] = u] /\ packets' = [packets EXCEPT ![c] = @ + 1]
  BY DEF Sends
<1>3. t \in Seq(Kinds)
  BY <1>1
<1> HIDE DEF f, t
<1>4. PICK a \in Nat, b \in Nat : a = Len(t) /\ b = Len(f)
  BY <1>1, <1>3
<1>5. u \in Seq(Kinds) /\ Len(u) = a + b /\ \A i \in 1 .. a + b : u[i] = IF i <= a THEN t[i] ELSE f[i - a]
  BY <1>1, <1>3, <1>4, ConcatProperties
<1> HIDE DEF u
<1>6. text' \in [Clients -> Seq(Kinds)] /\ text'[c] = u /\ \A d \in Clients : d # c => text'[d] = text[d]
  BY <1>1, <1>2, <1>5
<1>7. packets' \in [Clients -> Nat]
  <2>1. packets[c] + 1 \in Nat
    BY <1>1
  <2> QED
    BY <1>1, <1>2, <2>1
<1>8. \A i \in 1 .. a : u[i] = t[i]
  <2> TAKE i \in 1 .. a
  <2>1. i \in 1 .. a + b /\ i <= a
    OBVIOUS
  <2> QED
    BY <2>1, <1>5
<1>9. DOMAIN u = 1 .. a + b
  BY <1>5
<1> QED
  BY <1>4, <1>5, <1>6, <1>7, <1>8, <1>9 DEF f, t

\* Sending a packet changes no line end among the bytes sent before.
LEMMA EolsSent ==
  ASSUME WireOK, NEW c \in Clients, Sends(c), NEW d \in Clients
  PROVE  \A n \in Nat : n <= Len(text[d]) => EolsTo(d, n)' = EolsTo(d, n)
<1>1. CASE d # c
  <2>1. text'[d] = text[d]
    BY <1>1, TextSent
  <2> QED
    BY <2>1 DEF EolsTo, Eols
<1>2. CASE d = c
  <2> TAKE n \in Nat
  <2> HAVE n <= Len(text[d])
  <2> DEFINE A == {m \in Eols(c) : m <= n}
             B == {m \in {k \in DOMAIN text'[c] : text'[c][k] = "eol"} : m <= n}
  <2>0. PICK a \in Nat, k \in Nat : a = Len(text[c]) /\ k = Len(Frame(c))
    BY FrameFacts DEF WireOK
  <2>1. DOMAIN text[c] = 1 .. a /\ DOMAIN text'[c] = 1 .. a + k /\ \A i \in 1 .. a : text'[c][i] = text[c][i]
    BY <2>0, TextSent DEF WireOK
  <2>2. n <= a
    BY <1>2, <2>0
  <2>3. A = B
    BY <2>1, <2>2 DEF Eols
  <2> QED
    BY <1>2, <2>3 DEF EolsTo, Eols
<1> QED
  BY <1>1, <1>2

\* A client that keeps to its window when it sends has no more than the window unanswered after it:
\* the bytes of the packet are all that is new.
LEMMA WindowSent ==
  ASSUME TypeOK, Way, WithinWindow, NEW c \in Clients, Sends(c), Arrives(c)
  PROVE  WithinWindow'
<1> DEFINE U(d) == Unanswered(d)
           l == Len(text[c])
           k == Len(Frame(c))
           N == InNet(c)
           M == InNet(c)'
<1>0. WireOK /\ RingsOK /\ scn' = scn /\ delivered' = delivered
  BY DEF TypeOK, Sends, out
<1>1. l \in Nat /\ k \in Nat /\ N \in Seq(Nat) /\ text[c] \in Seq(Kinds)
  BY <1>0, FrameFacts, WireSeqs DEF WireOK
<1>2. text' \in [Clients -> Seq(Kinds)] /\ DOMAIN text'[c] = 1 .. l + k /\ DOMAIN text[c] = 1 .. l
      /\ \A i \in 1 .. l : text'[c][i] = text[c][i]
  BY <1>0, <1>1, TextSent
<1>3. ASSUME NEW d \in Clients, d # c
      PROVE  Cardinality(U(d)') <= scn'.window[d]
  <2>1. text'[d] = text[d] /\ InNet(d)' = InNet(d)
    BY <1>0, <1>3, TextSent DEF Arrives
  <2>2. U(d)' = U(d)
    BY <2>1, <1>0 DEF Unanswered, EolsTo, Eols
  <2>3. Cardinality(U(d)) <= scn.window[d]
    BY DEF WithinWindow
  <2> QED
    BY <1>0, <2>2, <2>3
<1>4. Cardinality(U(c)') <= scn'.window[c]
  <2>1. U(c)' \subseteq U(c) \cup (l + 1 .. l + k)
    <3> SUFFICES ASSUME NEW n \in U(c)', n \notin l + 1 .. l + k  PROVE n \in U(c)
      OBVIOUS
    <3>1. n \in 1 .. l + k
      BY <1>2 DEF Unanswered
    <3>2. n \in 1 .. l /\ text'[c][n] = text[c][n]
      BY <1>1, <1>2, <3>1
    <3>3. CASE text[c][n] \in Realtime
      <4>1. PICK i \in DOMAIN M : M[i] = n
        BY <3>2, <3>3 DEF Unanswered
      <4>2. Tacked(N, M, l, k)
        BY DEF Arrives
      <4>3. i \in 1 .. Len(N) /\ N[i] = n
        <5> HIDE DEF N, M, l, k
        <5>0. PICK b \in Nat : b = Len(N)
          BY <1>1
        <5>1. DOMAIN M = 1 .. Len(M) /\ Len(M) \in Nat
          <6>1. WireOK'
            BY <1>0, <1>2, TextSent DEF WireOK, Arrives
          <6>2. \A d \in Clients : InNet(d)' \in Seq(Nat)
            BY <6>1, WireSeqsNext
          <6> QED
            BY <6>2 DEF M
        <5>2. M[i] = IF i <= b THEN N[i] ELSE l + (i - b)
          BY <4>2, <5>0, <5>1 DEF Tacked
        <5>3. i <= b
          BY <4>1, <5>0, <5>1, <5>2, <3>2, <1>1
        <5> QED
          BY <4>1, <5>0, <5>1, <5>2, <5>3
      <4>4. i \in DOMAIN InNet(c) /\ InNet(c)[i] = n
        BY <1>1, <4>3
      <4> QED
        BY <3>2, <3>3, <4>4, <1>2 DEF Unanswered
    <3>4. CASE text[c][n] \notin Realtime
      <4>1. EolsTo(c, n - 1)' >= Len(delivered'[c])
        BY <3>2, <3>4 DEF Unanswered
      <4>2. n - 1 \in Nat /\ n - 1 <= Len(text[c])
        BY <3>2, <1>1
      <4>3. EolsTo(c, n - 1)' = EolsTo(c, n - 1)
        BY <4>2, <1>0, EolsSent
      <4>4. EolsTo(c, n - 1) >= Len(delivered[c])
        BY <4>1, <4>3, <1>0
      <4> QED
        BY <3>2, <3>4, <4>4, <1>2 DEF Unanswered
    <3> QED
      BY <3>3, <3>4
  <2>2. IsFiniteSet(U(c)) /\ Cardinality(U(c)) \in Nat
    BY <1>1, UnansweredFinite
  <2> DEFINE V == U(c)
             W == U(c)'
  <2>3. V = Unanswered(c) /\ W = Unanswered(c)'
    OBVIOUS
  <2>4. Cardinality(Unanswered(c)) + k <= scn.window[c]
    BY DEF Sends
  <2> HIDE DEF V, W, U
  <2>5. IsFiniteSet(l + 1 .. l + k) /\ Cardinality(l + 1 .. l + k) = k
    BY <1>1, SpanSize
  <2> DEFINE X == l + 1 .. l + k
  <2> HIDE DEF X
  <2>6. IsFiniteSet(V \cup X) /\ Cardinality(V \cup X) <= Cardinality(V) + Cardinality(X)
    BY <2>2, <2>3, <2>5, JoinedSets DEF X, U
  <2>7. Cardinality(W) <= Cardinality(V \cup X) /\ Cardinality(W) \in Nat /\ Cardinality(V \cup X) \in Nat
    BY <2>1, <2>3, <2>6, SmallerSet DEF X, U
  <2>8. Cardinality(V) + Cardinality(X) <= scn.window[c] /\ Cardinality(V) \in Nat /\ Cardinality(X) \in Nat
    BY <2>2, <2>3, <2>4, <2>5, <1>1 DEF X, U
  <2>9. scn.window[c] \in Nat
    BY <1>0, CommsAssumption DEF WireOK
  <2>10. Cardinality(W) <= scn.window[c]
    BY <2>6, <2>7, <2>8, <2>9
  <2> QED
    BY <2>10, <1>0 DEF W, U
<1> QED
  BY <1>3, <1>4 DEF WithinWindow

\* Sending keeps the inductive invariant when the packet arrives as Arrives says.
LEMMA SentInv ==
  ASSUME IInv, NEW c \in Clients, Sends(c), Arrives(c), c = WebSocket => socketOpen
  PROVE  IInv'
<1> DEFINE l == Len(text[c])
           k == Len(Frame(c))
<1>0. WireOK /\ RingsOK /\ l \in Nat /\ k \in Nat
  BY FrameFacts DEF IInv, TypeOK, WireOK
<1>1. /\ scn' = scn /\ rx' = rx /\ got' = got /\ polling' = polling
      /\ socketOpen' = socketOpen /\ conn' = conn /\ slot' = slot
      /\ tx' = tx /\ stale' = stale /\ delivered' = delivered /\ answered' = answered
      /\ resetFlag' = resetFlag /\ abort' = abort /\ feed' = feed /\ rapid' = rapid
      /\ pending' = pending /\ asked' = asked /\ pc' = pc /\ client' = client
      /\ line' = line /\ flags' = flags /\ last' = last
  BY DEF Sends, channel, out, override, assembly
<1>2. TypeOK'
  <2>1. WireOK'
    BY <1>0, <1>1, TextSent DEF WireOK, Arrives
  <2>2. RingsOK' /\ ChannelOK'
    BY <1>1 DEF IInv, TypeOK, RingsOK, ChannelOK
  <2>3. OutOK' /\ OverrideOK'
    BY <1>1 DEF IInv, TypeOK, OutOK, OverrideOK
  <2>4. MainOK'
    BY <1>1 DEF IInv, TypeOK, MainOK
  <2> QED
    BY <2>1, <2>2, <2>3, <2>4 DEF TypeOK
<1>3. \A d \in Clients : InRx(d)' = InRx(d)
  BY <1>1 DEF InRx
<1>4. Way'
  <2> SUFFICES ASSUME NEW d \in Clients
               PROVE  Parts(got[d], InRx(d), InNet(d), Len(text[d]))'
    BY DEF Way
  <2>1. CASE d # c
    <3>1. text'[d] = text[d] /\ InNet(d)' = InNet(d) /\ Parts(got[d], InRx(d), InNet(d), Len(text[d]))
      BY <2>1, <1>0, TextSent DEF Arrives, IInv, Way
    <3> QED
      BY <1>1, <1>3, <3>1
  <2>2. CASE d = c
    <3> DEFINE g == got[c]
               R == InRx(c)
               N == InNet(c)
               M == InNet(c)'
    <3>1. g \in Nat /\ R \in Seq(Nat) /\ N \in Seq(Nat) /\ M \in Seq(Nat)
      <4>1. \A e \in Clients : InNet(e)' \in Seq(Nat)
        BY <1>2, WireSeqsNext DEF TypeOK
      <4> QED
        BY <4>1, <1>0, WireSeqs, RingSeqs DEF RingsOK
    <3>2. Parts(g, R, N, l) /\ Tacked(N, M, l, k)
      BY DEF IInv, Way, Arrives
    <3>3. Len(text'[c]) = l + k
      BY <1>0, TextSent
    <3> HIDE DEF g, R, N, M, l, k
    <3>4. Parts(g, R, M, l + k)
      BY <1>0, <3>1, <3>2, PartsSent DEF Tacked
    <3> QED
      BY <2>2, <1>1, <1>3, <3>3, <3>4 DEF g, R, M
  <2> QED
    BY <2>1, <2>2
<1>5. AnsweredAfterRead'
  <2> SUFFICES ASSUME NEW d \in Clients
               PROVE  /\ (answered[d] + (IF pc = "run" /\ client = d THEN 1 ELSE 0) <= EolsTo(d, got[d]))'
                      /\ (Len(Due(d)) <= answered[d])'
    BY DEF AnsweredAfterRead
  <2>1. got[d] \in Nat /\ got[d] <= Len(text[d])
    BY <1>0 DEF IInv, Way, Parts, RingsOK
  <2>2. EolsTo(d, got[d])' = EolsTo(d, got[d])
    <3>1. \A n \in Nat : n <= Len(text[d]) => EolsTo(d, n)' = EolsTo(d, n)
      BY <1>0, EolsSent
    <3>2. EolsTo(d, got[d])' = Cardinality({m \in Eols(d)' : m <= got[d]})
      BY <1>1 DEF EolsTo
    <3>3. EolsTo(d, got[d]) = Cardinality({m \in Eols(d)' : m <= got[d]})
      BY <2>1, <3>1 DEF EolsTo
    <3> QED
      BY <3>2, <3>3
  <2>3. Due(d)' = Due(d)
    BY <1>1 DEF Due
  <2>4. /\ answered[d] + (IF pc = "run" /\ client = d THEN 1 ELSE 0) <= EolsTo(d, got[d])
        /\ Len(Due(d)) <= answered[d]
    BY DEF IInv, AnsweredAfterRead
  <2> QED
    BY <1>1, <2>2, <2>3, <2>4
<1>6. WithinWindow'
  BY WindowSent DEF IInv
<1>7. CommandsPickedOff'
  <2> SUFFICES ASSUME NEW d \in Clients, NEW i \in DOMAIN InRx(d)'
               PROVE  text'[d][InRx(d)'[i]] \notin Realtime
    BY DEF CommandsPickedOff
  <2>1. i \in DOMAIN InRx(d) /\ InRx(d)'[i] = InRx(d)[i] /\ text[d][InRx(d)[i]] \notin Realtime
    BY <1>3 DEF IInv, CommandsPickedOff
  <2>2. InRx(d)[i] \in 1 .. Len(text[d])
    <3>1. InRx(d) \in Seq(Nat) /\ got[d] \in Nat /\ Len(text[d]) \in Nat
      BY <1>0, RingSeqs DEF RingsOK, WireOK
    <3>2. i \in 1 .. Len(InRx(d))
      BY <2>1, <3>1
    <3>3. InRx(d)[i] \in Nat
      BY <3>1, <3>2, ElementOfSeq
    <3>4. got[d] < InRx(d)[i] /\ InRx(d)[i] <= Len(text[d])
      BY <3>2 DEF IInv, Way, Parts
    <3> QED
      BY <3>1, <3>3, <3>4
  <2>3. text'[d][InRx(d)[i]] = text[d][InRx(d)[i]]
    BY <2>2, <1>0, TextSent
  <2> QED
    BY <2>1, <2>3
<1>8. OpenToSend'
  <2>1. CASE c = WebSocket
    BY <2>1, <1>1 DEF OpenToSend
  <2>2. CASE c # WebSocket
    <3>1. text'[WebSocket] = text[WebSocket]
      BY <1>0, <2>2, TextSent, Sizes DEF Servers
    <3> QED
      BY <1>1, <3>1 DEF IInv, OpenToSend
  <2> QED
    BY <2>1, <2>2
<1>9. RisesAsked'
  BY <1>1 DEF IInv, RisesAsked
<1> QED
  BY <1>2, <1>4, <1>5, <1>6, <1>7, <1>8, <1>9 DEF IInv

----------------------------------------------------------------------------
(* The steps that move no byte *)

\* What is due to a client is a sequence of answers.
LEMMA DueType ==
  ASSUME OutOK
  PROVE  \A d \in Clients : Due(d) \in Seq(Nat) /\ Len(Due(d)) \in Nat
<1> TAKE d \in Clients
<1>1. delivered[d] \in Seq(Nat) /\ tx.answers \in Seq(Nat) /\ <<>> \in Seq(Nat)
  BY DEF OutOK, Tx
<1> DEFINE s == IF d = WebSocket THEN tx.answers ELSE <<>>
<1>2. s \in Seq(Nat)
  BY <1>1
<1>3. Due(d) = delivered[d] \o s
  BY DEF Due
<1> HIDE DEF s
<1>4. Due(d) \in Seq(Nat)
  BY <1>1, <1>2, <1>3, ConcatLen
<1> QED
  BY <1>4

\* After a step, what is due to a client is a sequence of answers.
LEMMA DueTypeNext ==
  ASSUME OutOK'
  PROVE  \A d \in Clients : Due(d)' \in Seq(Nat) /\ Len(Due(d)') \in Nat
<1> TAKE d \in Clients
<1>1. delivered'[d] \in Seq(Nat) /\ tx'.answers \in Seq(Nat) /\ <<>> \in Seq(Nat)
  BY DEF OutOK, Tx
<1> DEFINE s == IF d = WebSocket THEN tx'.answers ELSE <<>>
           u == Due(d)'
<1>2. s \in Seq(Nat)
  BY <1>1
<1>3. u = delivered'[d] \o s
  BY DEF Due
<1> HIDE DEF s, u
<1>4. u \in Seq(Nat)
  BY <1>1, <1>2, <1>3, ConcatLen
<1>5. u \in Seq(Nat) /\ Len(u) \in Nat
  BY <1>4
<1> QED
  BY <1>5 DEF u

\* Nothing new is on its way, and nothing delivered is taken back: no more is unanswered.
LEMMA WindowKept ==
  ASSUME TypeOK, WithinWindow, scn' = scn, text' = text,
         \A d \in Clients : \A i \in DOMAIN InNet(d)' : \E j \in DOMAIN InNet(d) : InNet(d)[j] = InNet(d)'[i],
         \A d \in Clients : Len(delivered'[d]) >= Len(delivered[d]), delivered' \in [Clients -> Seq(Nat)]
  PROVE  WithinWindow'
<1> SUFFICES ASSUME NEW d \in Clients
             PROVE  (Cardinality(Unanswered(d)) <= scn.window[d])'
  BY DEF WithinWindow
<1>1. text[d] \in Seq(Kinds) /\ delivered[d] \in Seq(Nat) /\ delivered'[d] \in Seq(Nat)
  BY DEF TypeOK, WireOK, OutOK
<1>2. Unanswered(d)' \subseteq Unanswered(d)
  <2> SUFFICES ASSUME NEW n \in Unanswered(d)'  PROVE n \in Unanswered(d)
    OBVIOUS
  <2>1. n \in DOMAIN text[d]
    BY DEF Unanswered
  <2>2. CASE text[d][n] \in Realtime
    <3>1. PICK i \in DOMAIN InNet(d)' : InNet(d)'[i] = n
      BY <2>1, <2>2 DEF Unanswered
    <3>2. PICK j \in DOMAIN InNet(d) : InNet(d)[j] = n
      BY <3>1
    <3> QED
      BY <2>1, <2>2, <3>2 DEF Unanswered
  <2>3. CASE text[d][n] \notin Realtime
    <3>1. EolsTo(d, n - 1)' >= Len(delivered'[d])
      BY <2>1, <2>3 DEF Unanswered
    <3>2. EolsTo(d, n - 1)' = EolsTo(d, n - 1)
      BY DEF EolsTo, Eols
    <3>3. Len(delivered'[d]) >= Len(delivered[d])
      OBVIOUS
    <3>4. EolsTo(d, n - 1) \in Nat
      <4>1. n - 1 \in Int
        BY <1>1, <2>1
      <4> QED
        BY <1>1, <4>1, EolFacts
    <3>5. EolsTo(d, n - 1) >= Len(delivered[d])
      <4>0. Len(delivered[d]) \in Nat /\ Len(delivered'[d]) \in Nat
        BY <1>1
      <4>1. PICK p \in Nat, q \in Nat, z \in Nat :
              p = Len(delivered[d]) /\ q = Len(delivered'[d]) /\ z = EolsTo(d, n - 1)
        BY <4>0, <3>4, Zenon
      <4>2. z >= q /\ q >= p
        BY <3>1, <3>2, <3>3, <4>1
      <4> QED
        BY <4>1, <4>2
    <3> QED
      BY <2>1, <2>3, <3>5 DEF Unanswered
  <2> QED
    BY <2>2, <2>3
<1> DEFINE V == Unanswered(d)
           W == Unanswered(d)'
<1>3. IsFiniteSet(V) /\ W \subseteq V /\ Cardinality(V) <= scn.window[d]
  BY <1>1, <1>2, UnansweredFinite DEF WithinWindow
<1>4. scn.window[d] \in Nat
  BY CommsAssumption DEF TypeOK, WireOK
<1> HIDE DEF V, W
<1>5. Cardinality(W) <= Cardinality(V) /\ Cardinality(W) \in Nat /\ Cardinality(V) \in Nat
  BY <1>3, SmallerSet
<1>6. Cardinality(W) <= scn.window[d]
  BY <1>3, <1>4, <1>5
<1> QED
  BY <1>6 DEF W

\* A step that leaves the wire and the rings alone keeps their part of the invariant.
LEMMA KeptInv ==
  ASSUME IInv, UNCHANGED <<scn, wire, rx, got>>, ChannelOK', OutOK', OverrideOK', MainOK',
         \A d \in Clients : Len(delivered'[d]) >= Len(delivered[d]),
         AnsweredAfterRead', OpenToSend', RisesAsked'
  PROVE  IInv'
<1>1. /\ scn' = scn /\ packets' = packets /\ text' = text /\ uart' = uart /\ net' = net
      /\ lost' = lost /\ rx' = rx /\ got' = got
  BY DEF wire
<1>2. TypeOK'
  <2>1. WireOK' /\ RingsOK'
    BY <1>1 DEF IInv, TypeOK, WireOK, RingsOK
  <2> QED
    BY <2>1 DEF TypeOK
<1>3. \A d \in Clients : InNet(d)' = InNet(d) /\ InRx(d)' = InRx(d)
  BY <1>1 DEF InNet, InRx
<1>4. Way'
  BY <1>1, <1>3 DEF IInv, Way
<1>5. CommandsPickedOff'
  BY <1>1, <1>3 DEF IInv, CommandsPickedOff
<1>6. WithinWindow'
  <2>1. delivered' \in [Clients -> Seq(Nat)]
    BY DEF OutOK
  <2> QED
    BY <1>1, <1>3, <2>1, WindowKept DEF IInv
<1> QED
  BY <1>2, <1>4, <1>5, <1>6 DEF IInv

\* What was read, answered and is due stays, or becomes less: no line is answered before it is read.
LEMMA AnsweredKept ==
  ASSUME IInv, text' = text, got' = got, answered' = answered, OutOK',
         \A d \in Clients : Len(Due(d)') <= Len(Due(d)),
         \A d \in Clients : pc' = "run" /\ client' = d => pc = "run" /\ client = d
  PROVE  AnsweredAfterRead'
<1> SUFFICES ASSUME NEW d \in Clients
             PROVE  /\ (answered[d] + (IF pc = "run" /\ client = d THEN 1 ELSE 0) <= EolsTo(d, got[d]))'
                    /\ (Len(Due(d)) <= answered[d])'
  BY DEF AnsweredAfterRead
<1>1. answered[d] \in Nat /\ got[d] \in Nat /\ text[d] \in Seq(Kinds)
  BY DEF IInv, TypeOK, OutOK, RingsOK, WireOK
<1>2. EolsTo(d, got[d])' = EolsTo(d, got[d]) /\ EolsTo(d, got[d]) \in Nat
  <2>1. EolsTo(d, got[d]) \in Nat
    <3>1. got[d] \in Int /\ got[d] <= got[d]
      BY <1>1
    <3> QED
      BY <1>1, <3>1, EolFacts
  <2> QED
    BY <2>1 DEF EolsTo, Eols
<1>3. /\ answered[d] + (IF pc = "run" /\ client = d THEN 1 ELSE 0) <= EolsTo(d, got[d])
      /\ Len(Due(d)) <= answered[d]
  BY DEF IInv, AnsweredAfterRead
<1>4. (answered[d] + (IF pc = "run" /\ client = d THEN 1 ELSE 0) <= EolsTo(d, got[d]))'
  <2> DEFINE z == EolsTo(d, got[d])
  <2>1. z \in Nat /\ answered[d] + (IF pc = "run" /\ client = d THEN 1 ELSE 0) <= z
    BY <1>2, <1>3
  <2> HIDE DEF z
  <2>2. answered[d] + (IF pc' = "run" /\ client' = d THEN 1 ELSE 0) <= z
    BY <1>1, <2>1
  <2> QED
    BY <1>2, <2>2 DEF z
<1>5. (Len(Due(d)) <= answered[d])'
  <2>1. Len(Due(d)') <= Len(Due(d))
    OBVIOUS
  <2>2. Len(Due(d)) \in Nat /\ Len(Due(d)') \in Nat
    BY DueType, DueTypeNext DEF IInv, TypeOK
  <2>3. PICK p \in Nat, q \in Nat : p = Len(Due(d)) /\ q = Len(Due(d)')
    BY <2>2
  <2>4. q <= p /\ p <= answered[d]
    BY <1>3, <2>1, <2>3
  <2> QED
    BY <1>1, <2>3, <2>4
<1> QED
  BY <1>4, <1>5

\* A step that writes nothing leaves what is due and what was delivered.
LEMMA OutKept ==
  ASSUME TypeOK, UNCHANGED <<out, answered>>
  PROVE  /\ OutOK' /\ \A d \in Clients : Due(d)' = Due(d) /\ delivered'[d] = delivered[d]
         /\ \A d \in Clients : Len(delivered'[d]) >= Len(delivered[d]) /\ Len(Due(d)') <= Len(Due(d))
<1>1. tx' = tx /\ stale' = stale /\ delivered' = delivered /\ answered' = answered
  BY DEF out
<1>2. OutOK'
  BY <1>1 DEF TypeOK, OutOK
<1>3. \A d \in Clients : Due(d)' = Due(d) /\ delivered'[d] = delivered[d]
  BY <1>1 DEF Due
<1>4. \A d \in Clients : delivered[d] \in Seq(Nat) /\ Len(delivered[d]) \in Nat /\ Len(Due(d)) \in Nat
  BY DueType DEF TypeOK, OutOK
<1> QED
  BY <1>2, <1>3, <1>4

\* A step of the connections alone keeps the invariant of everything else.
LEMMA ChannelInv ==
  ASSUME IInv, ChannelOnly, ChannelOK', OpenToSend'
  PROVE  IInv'
<1>1. UNCHANGED <<scn, wire, rx, got, polling, out, answered, resetFlag, abort, override, pc, client, assembly, last>>
  BY DEF ChannelOnly
<1>2. OverrideOK' /\ RisesAsked'
  BY <1>1 DEF IInv, TypeOK, OverrideOK, RisesAsked, override
<1>3. MainOK'
  BY <1>1 DEF IInv, TypeOK, MainOK, assembly
<1>4. OutOK' /\ \A d \in Clients : Len(delivered'[d]) >= Len(delivered[d]) /\ Len(Due(d)') <= Len(Due(d))
  BY <1>1, OutKept DEF IInv
<1>5. AnsweredAfterRead'
  BY <1>1, <1>4, AnsweredKept DEF wire
<1> QED
  BY <1>1, <1>2, <1>3, <1>4, <1>5, KeptInv

\* The websocket's and the telnet connections keep the invariant.
LEMMA ChannelStep ==
  ASSUME IInv, SocketOpens \/ SocketCloses \/ TelnetConnect
               \/ \E k \in DOMAIN conn : TelnetDrops(k) \/ TelnetDisconnected(k)
  PROVE  IInv'
<1>0. conn \in Seq({"open", "lost", "closed"}) /\ slot \in 0 .. Len(conn) /\ socketOpen \in BOOLEAN
  BY DEF IInv, TypeOK, ChannelOK
<1>1. ASSUME SocketOpens
      PROVE  IInv'
  <2>1. ChannelOnly /\ socketOpen' /\ socketOpen' \in BOOLEAN /\ conn' = conn /\ slot' = slot
    BY <1>1 DEF SocketOpens
  <2>2. ChannelOK' /\ OpenToSend'
    BY <1>0, <2>1 DEF ChannelOK, OpenToSend
  <2> QED
    BY <2>1, <2>2, ChannelInv
<1>2. ASSUME SocketCloses
      PROVE  IInv'
  <2>1. ChannelOnly /\ scn.closes /\ scn' = scn /\ socketOpen' \in BOOLEAN /\ conn' = conn /\ slot' = slot
    BY <1>2 DEF SocketCloses, ChannelOnly
  <2>2. ChannelOK' /\ OpenToSend'
    BY <1>0, <2>1 DEF ChannelOK, OpenToSend
  <2> QED
    BY <2>1, <2>2, ChannelInv
<1>3. ASSUME ChannelOnly, socketOpen' = socketOpen, ChannelOK'
      PROVE  IInv'
  <2>1. OpenToSend'
    BY <1>3 DEF IInv, OpenToSend, ChannelOnly, wire
  <2> QED
    BY <1>3, <2>1, ChannelInv
<1>4. ASSUME TelnetConnect
      PROVE  IInv'
  <2> DEFINE x == IF Slotted THEN "lost" ELSE "open"
  <2>1. x \in {"open", "lost", "closed"}
    OBVIOUS
  <2>2. conn' = Append(conn, x) /\ slot' = (IF Slotted THEN slot ELSE Len(conn) + 1)
        /\ ChannelOnly /\ socketOpen' = socketOpen
    BY <1>4 DEF TelnetConnect
  <2> HIDE DEF x
  <2>3. conn' \in Seq({"open", "lost", "closed"}) /\ Len(conn') = Len(conn) + 1
    BY <1>0, <2>1, <2>2, AppendProperties
  <2>4. slot' \in 0 .. Len(conn')
    BY <1>0, <2>2, <2>3
  <2> QED
    BY <1>0, <1>3, <2>2, <2>3, <2>4 DEF ChannelOK
<1>5. ASSUME NEW k \in DOMAIN conn, TelnetDrops(k) \/ TelnetDisconnected(k)
      PROVE  IInv'
  <2>1. PICK x \in {"open", "lost", "closed"} : conn' = [conn EXCEPT ![k] = x]
    BY <1>5 DEF TelnetDrops, TelnetDisconnected
  <2>2. slot' \in {0, slot} /\ ChannelOnly /\ socketOpen' = socketOpen
    BY <1>5 DEF TelnetDrops, TelnetDisconnected, SlotAfter
  <2>3. k \in 1 .. Len(conn)
    BY <1>0
  <2>4. conn' \in Seq({"open", "lost", "closed"}) /\ Len(conn') = Len(conn)
    BY <1>0, <2>1, <2>3, ExceptSeq
  <2> QED
    BY <1>0, <1>3, <2>2, <2>4 DEF ChannelOK
<1> QED
  BY <1>1, <1>2, <1>4, <1>5

\* A step of the main program that reads nothing keeps the invariant of the wire and the rings.
LEMMA MainInv ==
  ASSUME IInv, UNCHANGED <<scn, wire, rx, got, channel>>, OutOK', OverrideOK', MainOK',
         \A d \in Clients : Len(delivered'[d]) >= Len(delivered[d]),
         AnsweredAfterRead', RisesAsked'
  PROVE  IInv'
<1>1. scn' = scn /\ text' = text /\ socketOpen' = socketOpen /\ conn' = conn /\ slot' = slot
  BY DEF wire, channel
<1>2. ChannelOK' /\ OpenToSend'
  BY <1>1 DEF IInv, TypeOK, ChannelOK, OpenToSend
<1> QED
  BY <1>2, KeptInv

\* The flush timer of the websocket keeps the invariant.
LEMMA FlushTimeStep ==
  ASSUME IInv, FlushTimePasses
  PROVE  IInv'
<1>1. UNCHANGED <<scn, wire, rx, got, polling, channel, tx, delivered, answered, resetFlag, abort,
                  override, pc, client, assembly, last>> /\ stale'
  BY DEF FlushTimePasses
<1>2. OverrideOK' /\ RisesAsked'
  BY <1>1 DEF IInv, TypeOK, OverrideOK, RisesAsked, override
<1>3. MainOK'
  BY <1>1 DEF IInv, TypeOK, MainOK, assembly
<1>4. OutOK'
  BY <1>1 DEF IInv, TypeOK, OutOK, FlushTimePasses
<1>5. \A d \in Clients : Len(delivered'[d]) >= Len(delivered[d]) /\ Len(Due(d)') <= Len(Due(d))
  <2> TAKE d \in Clients
  <2>1. Due(d)' = Due(d) /\ delivered' = delivered
    BY <1>1 DEF Due
  <2>2. delivered[d] \in Seq(Nat) /\ Len(Due(d)) \in Nat
    BY DueType DEF IInv, TypeOK, OutOK
  <2> QED
    BY <2>1, <2>2
<1>6. AnsweredAfterRead'
  BY <1>1, <1>4, <1>5, AnsweredKept DEF wire
<1> QED
  BY <1>1, <1>2, <1>3, <1>4, <1>5, <1>6, MainInv

\* A poll that starts keeps the invariant.
LEMMA PollStartsStep ==
  ASSUME IInv, PollStarts
  PROVE  IInv'
<1>1. UNCHANGED <<scn, wire, rx, got, channel, out, answered, resetFlag, abort, override, pc, client,
                  assembly, last>> /\ polling' /\ polling' \in BOOLEAN
  BY DEF PollStarts
<1>2. OverrideOK' /\ RisesAsked'
  BY <1>1 DEF IInv, TypeOK, OverrideOK, RisesAsked, override
<1>3. MainOK'
  BY <1>1 DEF IInv, TypeOK, MainOK, assembly
<1>4. OutOK' /\ \A d \in Clients : Len(delivered'[d]) >= Len(delivered[d]) /\ Len(Due(d)') <= Len(Due(d))
  BY <1>1, OutKept DEF IInv
<1>5. AnsweredAfterRead'
  BY <1>1, <1>4, AnsweredKept DEF wire
<1> QED
  BY <1>1, <1>2, <1>3, <1>4, <1>5, MainInv

\* A poll that ends, with its flush, keeps the invariant.
LEMMA PollEndsStep ==
  ASSUME IInv, PollEnds
  PROVE  IInv'
<1>1. UNCHANGED <<scn, wire, rx, got, channel, answered, resetFlag, abort, override, pc, client, assembly,
                  last>> /\ Take(HandleFlush(tx, stale)) /\ ~polling' /\ polling' \in BOOLEAN
  BY DEF PollEnds
<1>2. OverrideOK' /\ RisesAsked'
  BY <1>1 DEF IInv, TypeOK, OverrideOK, RisesAsked, override
<1>3. MainOK'
  BY <1>1 DEF IInv, TypeOK, MainOK, assembly
<1>4. SendsOn(WebSocket, 0)
  <2> DEFINE h == HandleFlush(tx, stale)
  <2>1. OutOK /\ tx \in Tx /\ stale \in BOOLEAN /\ socketOpen \in BOOLEAN /\ answered' \in [Clients -> Nat]
    BY <1>1 DEF IInv, TypeOK, OutOK, ChannelOK
  <2> HIDE DEF h
  <2>2. /\ h.tx \in Tx /\ TxLen(h.tx) < TxSize /\ h.stale \in BOOLEAN /\ h.flushed \in Seq(Nat)
        /\ h.flushed \o h.tx.answers = tx.answers
    BY <2>1, FlushFacts DEF h
  <2>3. Take(h)
    BY <1>1 DEF h
  <2> QED
    BY <2>1, <2>2, <2>3, TakenOn
<1>5. OutOK' /\ \A d \in Clients : Len(delivered'[d]) >= Len(delivered[d]) /\ Len(Due(d)') <= Len(Due(d))
  <2>1. \A d \in Clients : Len(Due(d)) \in Nat
    BY DueType DEF IInv, TypeOK
  <2> QED
    BY <1>4, <2>1 DEF SendsOn
<1>6. AnsweredAfterRead'
  BY <1>1, <1>5, AnsweredKept DEF wire
<1> QED
  BY <1>1, <1>2, <1>3, <1>5, <1>6, MainInv

----------------------------------------------------------------------------
(* Executing and answering *)

\* An override command leaves the feed override between its bounds (protocol.cpp:413-420).
LEMMA NewFeedRange ==
  ASSUME NEW f \in 10 .. 200, NEW fl
  PROVE  NewFeed(f, fl) \in 10 .. 200
<1>1. \A o : \A n \in Nat : Given(fl, o, n) \in 0 .. n
  BY DEF Given
<1>2. PICK base \in 10 .. 200 : base = IF "feedReset" \in fl THEN 100 ELSE f
  OBVIOUS
<1>3. PICK a \in 0 .. 10, b \in 0 .. 10, c \in 0 .. 1, d \in 0 .. 1 :
        /\ a = Given(fl, "coarsePlus", 10) /\ b = Given(fl, "coarseMinus", 10)
        /\ c = Given(fl, "finePlus", 1) /\ d = Given(fl, "fineMinus", 1)
  BY <1>1
<1>4. NewFeed(f, fl) = Cut((base + a - b + c - d) % 256, 10, 200)
  BY <1>2, <1>3 DEF NewFeed
<1>5. (base + a - b + c - d) % 256 \in 0 .. 255
  OBVIOUS
<1> QED
  BY <1>4, <1>5 DEF Cut

\* A pass of the realtime executor: the overrides stay in range, and have risen only when asked for.
LEMMA PassStep ==
  ASSUME OverrideOK, RisesAsked, Pass, resetFlag' = resetFlag
  PROVE  OverrideOK' /\ RisesAsked'
<1>1. CASE resetFlag
  <2>1. /\ abort' \in BOOLEAN /\ feed' = feed /\ rapid' = rapid /\ pending' = pending /\ asked' = asked
    BY <1>1 DEF Pass, override
  <2> QED
    BY <2>1 DEF OverrideOK, RisesAsked
<1>2. CASE ~resetFlag
  <2>1. /\ feed' = NewFeed(feed, pending) /\ rapid' = NewRapid(rapid, pending)
        /\ pending' = {} /\ ~asked' /\ asked' \in BOOLEAN /\ abort' = abort
    BY <1>2 DEF Pass, LeftPending
  <2>2. feed' \in 10 .. 200
    BY <2>1, NewFeedRange DEF OverrideOK
  <2>3. rapid' \in {25, 50, 100}
    BY <2>1 DEF OverrideOK, NewRapid
  <2> QED
    BY <2>1, <2>2, <2>3 DEF OverrideOK, RisesAsked
<1> QED
  BY <1>1, <1>2

\* A pass while a line is executed keeps the invariant.
LEMMA RunPassStep ==
  ASSUME IInv, RunPass
  PROVE  IInv'
<1>1. UNCHANGED <<scn, wire, rx, got, polling, channel, out, answered, resetFlag, pc, client, assembly,
                  last>> /\ Pass
  BY DEF RunPass
<1>2. OverrideOK' /\ RisesAsked'
  BY <1>1, PassStep DEF IInv, TypeOK
<1>3. MainOK'
  BY <1>1 DEF IInv, TypeOK, MainOK, assembly
<1>4. OutOK' /\ \A d \in Clients : Len(delivered'[d]) >= Len(delivered[d]) /\ Len(Due(d)') <= Len(Due(d))
  BY <1>1, OutKept DEF IInv
<1>5. AnsweredAfterRead'
  BY <1>1, <1>4, AnsweredKept DEF wire
<1> QED
  BY <1>1, <1>2, <1>3, <1>4, <1>5, MainInv

\* A pass of the main loop without input keeps the invariant.
LEMMA IdleStep ==
  ASSUME IInv, Idle
  PROVE  IInv'
<1>1. UNCHANGED <<scn, wire, rx, got, polling, channel, out, answered, resetFlag, assembly, last>>
      /\ Pass /\ client' = Serial /\ pc = "read" /\ pc' \in {"read", "init"}
  BY DEF Idle
<1>2. OverrideOK' /\ RisesAsked'
  BY <1>1, PassStep DEF IInv, TypeOK
<1>3. MainOK'
  BY <1>1 DEF IInv, TypeOK, MainOK, assembly, Clients
<1>4. OutOK' /\ \A d \in Clients : Len(delivered'[d]) >= Len(delivered[d]) /\ Len(Due(d)') <= Len(Due(d))
  BY <1>1, OutKept DEF IInv
<1>5. AnsweredAfterRead'
  <2>1. pc' # "run"
    BY <1>1
  <2> QED
    BY <1>1, <1>4, <2>1, AnsweredKept DEF wire
<1> QED
  BY <1>1, <1>2, <1>3, <1>4, <1>5, MainInv

\* Answering a line whose end was read.
LEMMA AnswerOn ==
  ASSUME IInv, NEW c \in Clients, Answer(c), text' = text, got' \in [Clients -> Nat],
         \A d \in Clients : EolsTo(d, got'[d]) >= answered[d] + IF d = c THEN 1 ELSE 0
  PROVE  /\ SendsOn(c, answered[c] + 1) /\ OutOK' /\ AnsweredAfterRead'
         /\ \A d \in Clients : Len(delivered'[d]) >= Len(delivered[d])
<1>1. OutOK /\ socketOpen \in BOOLEAN /\ answered \in [Clients -> Nat]
  BY DEF IInv, TypeOK, ChannelOK, OutOK
<1>2. /\ Send(c, answered[c] + 1) /\ answered' = [answered EXCEPT ![c] = answered[c] + 1] /\ pc' = "read"
  BY DEF Answer
<1>3. answered[c] + 1 \in Nat
  BY <1>1
<1>4. answered' \in [Clients -> Nat] /\ \A d \in Clients : answered'[d] = answered[d] + IF d = c THEN 1 ELSE 0
  BY <1>1, <1>2, <1>3
<1>5. SendsOn(c, answered[c] + 1)
  BY <1>1, <1>2, <1>3, <1>4, SendFacts
<1>6. AnsweredAfterRead'
  <2> SUFFICES ASSUME NEW d \in Clients
               PROVE  /\ (answered[d] + (IF pc = "run" /\ client = d THEN 1 ELSE 0) <= EolsTo(d, got[d]))'
                      /\ (Len(Due(d)) <= answered[d])'
    BY DEF AnsweredAfterRead
  <2>1. EolsTo(d, got[d])' = EolsTo(d, got'[d])
    BY DEF EolsTo, Eols
  <2>2. EolsTo(d, got'[d]) >= answered[d] + IF d = c THEN 1 ELSE 0
    OBVIOUS
  <2>3. (answered[d] + (IF pc = "run" /\ client = d THEN 1 ELSE 0) <= EolsTo(d, got[d]))'
    <3>1. text[d] \in Seq(Kinds) /\ got'[d] \in Nat
      BY DEF IInv, TypeOK, WireOK
    <3>2. EolsTo(d, got'[d]) \in Nat
      <4>1. got'[d] \in Int /\ got'[d] <= got'[d]
        BY <3>1
      <4> QED
        BY <3>1, <4>1, EolFacts
    <3> DEFINE z == EolsTo(d, got'[d])
    <3>3. z \in Nat /\ z >= answered'[d]
      BY <1>4, <2>2, <3>2
    <3> HIDE DEF z
    <3>4. answered'[d] + (IF pc' = "run" /\ client' = d THEN 1 ELSE 0) <= z
      BY <1>2, <1>4, <3>3
    <3> QED
      BY <2>1, <3>4 DEF z
  <2>4. Len(Due(d)') <= Len(Due(d)) + (IF d = c THEN 1 ELSE 0)
    BY <1>1, <1>5 DEF SendsOn
  <2>5. Len(Due(d)) \in Nat /\ Len(Due(d)') \in Nat
    BY <1>5, DueType, DueTypeNext DEF IInv, TypeOK, SendsOn
  <2>6. Len(Due(d)) <= answered[d]
    BY DEF IInv, AnsweredAfterRead
  <2>7. PICK p \in Nat, q \in Nat : p = Len(Due(d)) /\ q = Len(Due(d)')
    BY <2>5
  <2>8. q <= answered'[d]
    <3>1. q <= p + (IF d = c THEN 1 ELSE 0) /\ p <= answered[d] /\ answered[d] \in Nat
      BY <1>1, <2>4, <2>6, <2>7
    <3>2. answered'[d] = answered[d] + IF d = c THEN 1 ELSE 0
      BY <1>4
    <3> QED
      BY <3>1, <3>2
  <2> QED
    BY <2>3, <2>7, <2>8
<1> QED
  BY <1>5, <1>6 DEF SendsOn

\* A line that is done is answered, which keeps the invariant.
LEMMA LineDoneStep ==
  ASSUME IInv, LineDone
  PROVE  IInv'
<1>1. UNCHANGED <<scn, wire, rx, got, polling, channel, resetFlag, abort, override, client, last>>
      /\ Answer(client) /\ pc = "run" /\ client \in Clients
  BY DEF LineDone, IInv, TypeOK, MainOK
<1>2. OverrideOK' /\ RisesAsked'
  BY <1>1 DEF IInv, TypeOK, OverrideOK, RisesAsked, override
<1>3. MainOK'
  <2>1. line' = <<>> /\ flags' = {} /\ pc' = "read"
    BY <1>1 DEF Answer
  <2>2. <<>> \in Line /\ Len(<<>>) < LineSize
    BY CommsAssumption DEF Line
  <2> QED
    BY <1>1, <2>1, <2>2 DEF IInv, TypeOK, MainOK
<1>4. got' = got /\ got' \in [Clients -> Nat] /\ text' = text
  BY <1>1 DEF IInv, TypeOK, RingsOK, wire
<1>5. \A d \in Clients : EolsTo(d, got'[d]) >= answered[d] + IF d = client THEN 1 ELSE 0
  <2> TAKE d \in Clients
  <2>1. answered[d] + (IF pc = "run" /\ client = d THEN 1 ELSE 0) <= EolsTo(d, got[d])
    BY DEF IInv, AnsweredAfterRead
  <2>2. got'[d] = got[d]
    BY <1>4
  <2>3. answered[d] \in Nat /\ EolsTo(d, got[d]) \in Nat
    <3>1. answered[d] \in Nat /\ got[d] \in Nat /\ text[d] \in Seq(Kinds)
      BY DEF IInv, TypeOK, OutOK, RingsOK, WireOK
    <3>2. got[d] \in Int /\ got[d] <= got[d]
      BY <3>1
    <3> QED
      BY <3>1, <3>2, EolFacts
  <2> DEFINE z == EolsTo(d, got[d])
  <2>4. z \in Nat /\ answered[d] + (IF d = client THEN 1 ELSE 0) <= z
    BY <1>1, <2>1, <2>3
  <2>5. EolsTo(d, got'[d]) = z
    BY <2>2
  <2> HIDE DEF z
  <2>6. z >= answered[d] + IF d = client THEN 1 ELSE 0
    BY <2>3, <2>4
  <2> QED
    BY <2>5, <2>6
<1>6. OutOK' /\ AnsweredAfterRead' /\ \A d \in Clients : Len(delivered'[d]) >= Len(delivered[d])
  BY <1>1, <1>4, <1>5, AnswerOn
<1> QED
  BY <1>1, <1>2, <1>3, <1>6, MainInv

----------------------------------------------------------------------------
(* Moving bytes along *)

\* A step that takes bytes along, or drops them: what the rings and the wire then hold is given.
LEMMA MovedInv ==
  ASSUME IInv, scn' = scn, text' = text, packets' = packets, UNCHANGED channel,
         uart' \in Seq(Nat), Len(uart') <= UartSize,
         net' \in [Servers -> NetBuffer(SocketSize) \cup NetBuffer(TelnetSize)],
         \A d \in Servers : net'[d] \in NetBuffer(NetSize(d)),
         lost' \in [Clients -> Nat],
         RingsOK', OutOK', OverrideOK', MainOK',
         \A d \in Clients : Parts(got'[d], InRx(d)', InNet(d)', Len(text[d])),
         \A d \in Clients : \A i \in DOMAIN InNet(d)' : \E j \in DOMAIN InNet(d) : InNet(d)[j] = InNet(d)'[i],
         \A d \in Clients : \A i \in DOMAIN InRx(d)' : text[d][InRx(d)'[i]] \notin Realtime,
         \A d \in Clients : Len(delivered'[d]) >= Len(delivered[d]),
         AnsweredAfterRead', RisesAsked'
  PROVE  IInv'
<1>1. TypeOK'
  <2>1. WireOK'
    BY DEF IInv, TypeOK, WireOK
  <2>2. ChannelOK'
    BY DEF IInv, TypeOK, ChannelOK, channel
  <2> QED
    BY <2>1, <2>2 DEF TypeOK
<1>2. Way'
  BY DEF Way
<1>3. CommandsPickedOff'
  BY DEF CommandsPickedOff
<1>4. OpenToSend'
  BY DEF IInv, OpenToSend, channel
<1>5. WithinWindow'
  <2>1. delivered' \in [Clients -> Seq(Nat)]
    BY DEF OutOK
  <2> QED
    BY <2>1, WindowKept DEF IInv
<1> QED
  BY <1>1, <1>2, <1>3, <1>4, <1>5 DEF IInv

\* A restart after a soft reset empties the rings and keeps the invariant.
LEMMA ReinitStep ==
  ASSUME IInv, Reinit
  PROVE  IInv'
<1>1. /\ UNCHANGED <<scn, wire, got, polling, channel, answered, last>>
      /\ rx' = [c \in Clients |-> RxReset(rx[c])] /\ Take(SocketWrite(0))
      /\ pc' = "read" /\ line' = <<>> /\ flags' = {} /\ client' = Serial
      /\ ~resetFlag' /\ ~abort' /\ ~asked' /\ pending' = {} /\ feed' = 100 /\ rapid' = 100
      /\ resetFlag' \in BOOLEAN /\ abort' \in BOOLEAN /\ asked' \in BOOLEAN
  BY DEF Reinit
<1>2. scn' = scn /\ packets' = packets /\ text' = text /\ uart' = uart /\ net' = net /\ lost' = lost /\ got' = got
  BY <1>1 DEF wire
<1>3. /\ uart' \in Seq(Nat) /\ Len(uart') <= UartSize
      /\ net' \in [Servers -> NetBuffer(SocketSize) \cup NetBuffer(TelnetSize)]
      /\ \A d \in Servers : net'[d] \in NetBuffer(NetSize(d))
      /\ lost' \in [Clients -> Nat]
  BY <1>2 DEF IInv, TypeOK, WireOK
<1>4. RingsOK' /\ \A d \in Clients : InRx(d)' = <<>>
  <2>1. \A d \in Clients : rx[d] \in Ring /\ rx'[d] = RxReset(rx[d])
    BY <1>1 DEF IInv, TypeOK, RingsOK
  <2>2. \A d \in Clients : rx'[d] \in Ring /\ InRing(rx'[d]) = <<>>
    BY <2>1, RingReset
  <2>3. rx' \in [Clients -> Ring]
    BY <1>1, <2>1, <2>2
  <2> QED
    BY <1>2, <2>2, <2>3 DEF RingsOK, InRx, IInv, TypeOK
<1>5. OverrideOK' /\ RisesAsked'
  BY <1>1 DEF OverrideOK, RisesAsked
<1>6. MainOK'
  <2>1. <<>> \in Line /\ Len(<<>>) < LineSize
    BY CommsAssumption DEF Line
  <2> QED
    BY <1>1, <2>1 DEF IInv, TypeOK, MainOK, Clients
<1>7. SendsOn(WebSocket, 0)
  <2>1. OutOK /\ socketOpen \in BOOLEAN /\ answered' \in [Clients -> Nat] /\ WebSocket \in Clients
    BY <1>1, Sizes DEF IInv, TypeOK, ChannelOK, OutOK, Servers
  <2>2. Send(WebSocket, 0)
    BY <1>1 DEF Send
  <2> QED
    BY <2>1, <2>2, SendFacts
<1>8. OutOK' /\ \A d \in Clients : Len(delivered'[d]) >= Len(delivered[d]) /\ Len(Due(d)') <= Len(Due(d))
  <2>1. \A d \in Clients : Len(Due(d)) \in Nat
    BY DueType DEF IInv, TypeOK
  <2> QED
    BY <1>7, <2>1 DEF SendsOn
<1>9. AnsweredAfterRead'
  <2>1. pc' # "run"
    BY <1>1
  <2> QED
    BY <1>1, <1>2, <1>8, <2>1, AnsweredKept
<1>10. \A d \in Clients : InNet(d)' = InNet(d)
  BY <1>2 DEF InNet
<1>11. \A d \in Clients : Parts(got'[d], InRx(d)', InNet(d)', Len(text[d]))
  <2> TAKE d \in Clients
  <2> DEFINE g == got[d]
             R == InRx(d)
             N == InNet(d)
             l == Len(text[d])
  <2>1. g \in Nat /\ R \in Seq(Nat) /\ N \in Seq(Nat) /\ l \in Nat /\ Parts(g, R, N, l)
    BY RingSeqs, WireSeqs DEF IInv, TypeOK, RingsOK, WireOK, Way
  <2> HIDE DEF g, R, N, l
  <2>2. Parts(g, <<>>, N, l)
    BY <2>1, PartsRead
  <2>3. InRx(d)' = <<>> /\ InNet(d)' = N /\ got'[d] = g /\ Len(text[d]) = l
    BY <1>2, <1>4, <1>10 DEF N, g, l
  <2> QED
    BY <2>2, <2>3, Zenon
<1>12. \A d \in Clients : \A i \in DOMAIN InNet(d)' : \E j \in DOMAIN InNet(d) : InNet(d)[j] = InNet(d)'[i]
  BY <1>10
<1>13. \A d \in Clients : \A i \in DOMAIN InRx(d)' : text[d][InRx(d)'[i]] \notin Realtime
  <2>1. \A d \in Clients : DOMAIN InRx(d)' = {}
    BY <1>4
  <2> QED
    BY <2>1
<1>14. UNCHANGED channel
  BY <1>1
<1> QED
  BY <1>2, <1>3, <1>4, <1>5, <1>6, <1>8, <1>9, <1>11, <1>12, <1>13, <1>14, MovedInv

----------------------------------------------------------------------------
(* A poll *)

\* The byte that is polled.
Polled(c, b) ==
  /\ c \in Clients /\ InNet(c) # <<>> /\ b = Head(InNet(c)) /\ PickedOff(c, b)
  /\ uart' \in Seq(Nat) /\ Len(uart') <= UartSize
  /\ net' \in [Servers -> NetBuffer(SocketSize) \cup NetBuffer(TelnetSize)]
  /\ \A d \in Servers : net'[d] \in NetBuffer(NetSize(d))
  /\ InNet(c)' = Tail(InNet(c))
  /\ \A d \in Clients : d # c => InNet(d)' = InNet(d)

\* The poll takes the first client that has a byte.
LEMMA FirstAvailable ==
  ASSUME Available # {}
  PROVE  (CHOOSE d \in Available : \A e \in Available : d <= e) \in Available
<1>1. Available \subseteq {1, 2, 3}
  BY DEF Available, Servers, Serial, WebSocket, Telnet
<1>2. \E d \in Available : \A e \in Available : d <= e
  <2>1. CASE 1 \in Available
    BY <1>1, <2>1
  <2>2. CASE 1 \notin Available /\ 2 \in Available
    BY <1>1, <2>2
  <2>3. CASE 1 \notin Available /\ 2 \notin Available
    <3>1. PICK d : d \in Available
      OBVIOUS
    <3>2. \A e \in Available : e = 3
      BY <1>1, <2>3
    <3> QED
      BY <3>1, <3>2
  <2> QED
    BY <2>1, <2>2, <2>3
<1> QED
  BY <1>2

\* A polled byte is the oldest before a client's ring.
LEMMA PollByteTakes ==
  ASSUME WireOK, PollByte
  PROVE  \E c, b : Polled(c, b)
<1>1. PICK c \in Clients : c \in Available /\ c = CHOOSE d \in Available : \A e \in Available : d <= e
  BY FirstAvailable, Sizes DEF PollByte, Available
<1>2. IF c = Serial
        THEN uart' = Tail(uart) /\ UNCHANGED net /\ PickedOff(c, Head(uart))
        ELSE /\ net' = [net EXCEPT ![c] = Pop(@, NetSize(c))]
             /\ UNCHANGED uart
             /\ PickedOff(c, net[c].buf[net[c].pos])
  BY <1>1 DEF PollByte
<1>3. CASE c = Serial
  <2>1. uart # <<>>
    BY <1>1, <1>3, Sizes DEF Available
  <2>2. Tail(uart) \in Seq(Nat) /\ Len(Tail(uart)) = Len(uart) - 1
    BY <2>1, HeadTailProperties DEF WireOK
  <2>3. Len(uart) \in Nat /\ Len(uart) <= UartSize /\ UartSize \in Nat
    BY CommsAssumption DEF WireOK
  <2>4. uart' = Tail(uart) /\ net' = net /\ PickedOff(c, Head(uart))
    BY <1>2, <1>3
  <2>5. Len(uart') <= UartSize
    BY <2>2, <2>3, <2>4
  <2>6. InNet(c) = uart /\ InNet(c)' = uart' /\ \A d \in Clients : d # c => InNet(d)' = InNet(d)
    BY <1>3, <2>4 DEF InNet
  <2>7. net' \in [Servers -> NetBuffer(SocketSize) \cup NetBuffer(TelnetSize)]
        /\ \A d \in Servers : net'[d] \in NetBuffer(NetSize(d))
    BY <2>4 DEF WireOK
  <2>8. PICK b : b = Head(uart)
    OBVIOUS
  <2>9. Polled(c, b)
    BY <1>3, <2>1, <2>2, <2>4, <2>5, <2>6, <2>7, <2>8, Sizes DEF Polled
  <2> QED
    BY <2>9
<1>4. CASE c # Serial
  <2>0. PICK r, S, q, b : r = net[c] /\ S = NetSize(c) /\ q = Pop(r, S) /\ b = r.buf[r.pos]
    OBVIOUS
  <2>1. c \in Servers /\ r.size > 0 /\ S \in Nat \ {0} /\ r \in NetBuffer(S) /\ c \in Clients
    <3>1. c \in Servers /\ c \in Clients /\ S \in Nat \ {0}
      BY <1>1, <1>4, <2>0, Sizes
    <3>2. r.size > 0
      BY <1>1, <1>4, <2>0 DEF Available
    <3>3. r \in NetBuffer(S)
      BY <2>0, <3>1 DEF WireOK
    <3> QED
      BY <3>1, <3>2, <3>3
  <2>2. net' = [net EXCEPT ![c] = q] /\ uart' = uart /\ PickedOff(c, b)
    BY <1>2, <1>4, <2>0
  <2>3. q \in NetBuffer(S) /\ InBuffer(r, S) # <<>> /\ b = Head(InBuffer(r, S))
        /\ InBuffer(q, S) = Tail(InBuffer(r, S))
    BY <2>0, <2>1, BufferPop
  <2>4. q \in NetBuffer(SocketSize) \cup NetBuffer(TelnetSize)
    <3>1. S = SocketSize \/ S = TelnetSize
      BY <2>0, <2>1, Sizes
    <3> QED
      BY <2>3, <3>1
  <2>5. net' \in [Servers -> NetBuffer(SocketSize) \cup NetBuffer(TelnetSize)]
        /\ \A d \in Servers : net'[d] = IF d = c THEN q ELSE net[d]
    BY <2>2, <2>4 DEF WireOK
  <2>6. \A d \in Servers : net'[d] \in NetBuffer(NetSize(d))
    BY <2>0, <2>3, <2>5 DEF WireOK
  <2>7. InNet(c) = InBuffer(r, S) /\ InNet(c)' = InBuffer(q, S)
    BY <1>4, <2>0, <2>1, <2>5 DEF InNet
  <2>8. \A d \in Clients : d # c => InNet(d)' = InNet(d)
    <3> TAKE d \in Clients
    <3> HAVE d # c
    <3>1. CASE d = Serial
      BY <2>2, <3>1 DEF InNet
    <3>2. CASE d # Serial
      <4>1. net'[d] = net[d]
        BY <2>5, <3>2, Sizes
      <4> QED
        BY <3>2, <4>1 DEF InNet
    <3> QED
      BY <3>1, <3>2
  <2>9. uart' \in Seq(Nat) /\ Len(uart') <= UartSize
    BY <2>2 DEF WireOK
  <2>10. InNet(c) # <<>> /\ b = Head(InNet(c)) /\ InNet(c)' = Tail(InNet(c))
    BY <2>3, <2>7
  <2>11. Polled(c, b)
    BY <2>1, <2>2, <2>5, <2>6, <2>8, <2>9, <2>10 DEF Polled
  <2> QED
    BY <2>11
<1> QED
  BY <1>3, <1>4

\* A polled byte is obeyed, put into the ring or dropped, which keeps the invariant.
LEMMA PollByteStep ==
  ASSUME IInv, PollByte
  PROVE  IInv'
<1>1. PICK c, b : Polled(c, b)
  BY PollByteTakes DEF IInv, TypeOK
<1> DEFINE kind == text[c][b]
           g == got[c]
           R == InRx(c)
           N == InNet(c)
           l == Len(text[c])
<1>2. /\ c \in Clients /\ g \in Nat /\ R \in Seq(Nat) /\ N \in Seq(Nat) /\ l \in Nat
      /\ Parts(g, R, N, l) /\ N # <<>> /\ b = Head(N) /\ PickedOff(c, b) /\ rx[c] \in Ring
  BY <1>1, RingSeqs, WireSeqs DEF Polled, IInv, TypeOK, RingsOK, WireOK, Way
<1>3. b \in Nat /\ b \in 1 .. l /\ g < b
  <2> HIDE DEF g, R, N, l
  <2>1. Len(N) \in Nat /\ 1 \in 1 .. Len(N) /\ b = N[1] /\ b \in Nat
    BY <1>2, HeadTailProperties
  <2>2. g < N[1] /\ N[1] <= l
    BY <1>2, <2>1 DEF Parts
  <2> QED
    BY <1>2, <2>1, <2>2
<1>4. kind \in Kinds
  <2>1. text[c] \in Seq(Kinds)
    BY <1>2 DEF IInv, TypeOK, WireOK
  <2> QED
    BY <1>3, <2>1, ElementOfSeq
<1>5. /\ resetFlag' = (resetFlag \/ kind = "reset")
      /\ pending' = IF kind \in Feed \cup Rapid THEN pending \cup {kind} ELSE pending
      /\ asked' = (asked \/ kind \in {"feedReset", "coarsePlus", "finePlus"})
      /\ IF kind = "status" THEN Send(c, 0) ELSE UNCHANGED out
      /\ rx' = IF kind \in Realtime \/ RxFull(rx[c]) THEN rx ELSE [rx EXCEPT ![c] = RxPut(@, b)]
      /\ lost' = IF kind \in Realtime \/ ~RxFull(rx[c]) THEN lost ELSE [lost EXCEPT ![c] = @ + 1]
      /\ scn' = scn /\ packets' = packets /\ text' = text /\ got' = got /\ polling' = polling
      /\ UNCHANGED channel /\ answered' = answered /\ abort' = abort /\ feed' = feed /\ rapid' = rapid
      /\ pc' = pc /\ client' = client /\ UNCHANGED assembly /\ last' = last
  BY <1>2 DEF PickedOff
<1>6. OverrideOK' /\ RisesAsked'
  <2>1. resetFlag' \in BOOLEAN /\ asked' \in BOOLEAN
    BY <1>5
  <2>2. pending' \subseteq Feed \cup Rapid
    BY <1>5 DEF IInv, TypeOK, OverrideOK
  <2>3. RisesAsked'
    <3>1. CASE kind \in {"feedReset", "coarsePlus", "finePlus"}
      BY <1>5, <3>1 DEF RisesAsked
    <3>2. CASE kind \notin {"feedReset", "coarsePlus", "finePlus"}
      <4>1. pending' \cap {"feedReset", "coarsePlus", "finePlus"} = pending \cap {"feedReset", "coarsePlus", "finePlus"}
        BY <1>5, <3>2
      <4>2. asked => asked'
        BY <1>5
      <4> QED
        BY <4>1, <4>2 DEF IInv, RisesAsked
    <3> QED
      BY <3>1, <3>2
  <2> QED
    BY <1>5, <2>1, <2>2, <2>3 DEF IInv, TypeOK, OverrideOK
<1>7. MainOK'
  BY <1>5 DEF IInv, TypeOK, MainOK, assembly
<1>8. OutOK' /\ \A d \in Clients : Len(delivered'[d]) >= Len(delivered[d]) /\ Len(Due(d)') <= Len(Due(d))
  <2>1. CASE kind = "status"
    <3>1. OutOK /\ socketOpen \in BOOLEAN /\ answered' \in [Clients -> Nat] /\ Send(c, 0)
      BY <1>5, <2>1 DEF IInv, TypeOK, ChannelOK, OutOK
    <3>2. SendsOn(c, 0)
      BY <1>2, <3>1, SendFacts
    <3>3. \A d \in Clients : Len(Due(d)) \in Nat
      BY DueType DEF IInv, TypeOK
    <3> QED
      BY <3>2, <3>3 DEF SendsOn
  <2>2. CASE kind # "status"
    BY <1>5, <2>2, OutKept DEF IInv
  <2> QED
    BY <2>1, <2>2
<1>9. AnsweredAfterRead'
  BY <1>5, <1>8, AnsweredKept
<1>10. lost' \in [Clients -> Nat]
  <2>1. lost \in [Clients -> Nat]
    BY DEF IInv, TypeOK, WireOK
  <2>2. lost[c] + 1 \in Nat
    BY <1>2, <2>1
  <2> QED
    BY <1>5, <2>1, <2>2
<1>11. \/ rx' = rx
       \/ ~RxFull(rx[c]) /\ kind \notin Realtime /\ rx' = [rx EXCEPT ![c] = RxPut(rx[c], b)]
  BY <1>5
<1>12. /\ RingsOK'
       /\ \A d \in Clients : d # c => InRx(d)' = InRx(d)
       /\ InRx(c)' = R \/ (InRx(c)' = Append(R, b) /\ kind \notin Realtime)
  <2>1. CASE rx' = rx
    BY <1>5, <2>1 DEF InRx, IInv, TypeOK, RingsOK
  <2>2. CASE ~RxFull(rx[c]) /\ kind \notin Realtime /\ rx' = [rx EXCEPT ![c] = RxPut(rx[c], b)]
    <3> DEFINE q == RxPut(rx[c], b)
    <3>1. q \in Ring /\ InRing(q) = Append(InRing(rx[c]), b)
      BY <1>2, <1>3, <2>2, RingPut
    <3>2. rx' = [rx EXCEPT ![c] = q]
      BY <2>2
    <3> HIDE DEF q
    <3>3. rx' \in [Clients -> Ring] /\ rx'[c] = q /\ \A d \in Clients : d # c => rx'[d] = rx[d]
      BY <1>2, <3>1, <3>2 DEF IInv, TypeOK, RingsOK
    <3> QED
      BY <1>5, <2>2, <3>1, <3>3 DEF InRx, IInv, TypeOK, RingsOK
  <2> QED
    BY <1>11, <2>1, <2>2
<1>13. InNet(c)' = Tail(N) /\ \A d \in Clients : d # c => InNet(d)' = InNet(d)
  BY <1>1 DEF Polled
<1>14. \A d \in Clients : Parts(got'[d], InRx(d)', InNet(d)', Len(text[d]))
  <2> TAKE d \in Clients
  <2>1. CASE d = c
    <3>1. Parts(g, R, Tail(N), l) /\ Parts(g, Append(R, b), Tail(N), l)
      <4> HIDE DEF g, R, N, l
      <4> QED
        BY <1>2, PartsPolled
    <3>2. got'[d] = g /\ Len(text[d]) = l /\ InNet(d)' = Tail(N) /\ (InRx(d)' = R \/ InRx(d)' = Append(R, b))
      BY <2>1, <1>5, <1>12, <1>13
    <3> HIDE DEF g, R, N, l
    <3> QED
      BY <3>1, <3>2, Zenon
  <2>2. CASE d # c
    BY <2>2, <1>5, <1>12, <1>13 DEF IInv, Way
  <2> QED
    BY <2>1, <2>2
<1>15. \A d \in Clients : \A i \in DOMAIN InNet(d)' : \E j \in DOMAIN InNet(d) : InNet(d)[j] = InNet(d)'[i]
  <2> TAKE d \in Clients
  <2>1. CASE d = c
    <3> DEFINE T == Tail(N)
    <3>1. T \in Seq(Nat) /\ \A i \in 1 .. Len(T) : T[i] = N[i + 1] /\ i + 1 \in 1 .. Len(N)
      <4> HIDE DEF N
      <4>1. T \in Seq(Nat) /\ Len(T) = Len(N) - 1 /\ \A i \in 1 .. Len(T) : T[i] = N[i + 1]
        BY <1>2, HeadTailProperties
      <4>2. Len(N) \in Nat
        BY <1>2
      <4> HIDE DEF T
      <4>3. \A i \in 1 .. Len(T) : i + 1 \in 1 .. Len(N)
        BY <4>1, <4>2
      <4> QED
        BY <4>1, <4>3
    <3>2. InNet(d)' = T /\ InNet(d) = N /\ DOMAIN T = 1 .. Len(T) /\ DOMAIN N = 1 .. Len(N)
      BY <1>2, <1>13, <2>1, <3>1
    <3> HIDE DEF T, N
    <3> QED
      BY <3>1, <3>2
  <2>2. CASE d # c
    BY <2>2, <1>13
  <2> QED
    BY <2>1, <2>2
<1>16. \A d \in Clients : \A i \in DOMAIN InRx(d)' : text[d][InRx(d)'[i]] \notin Realtime
  <2> TAKE d \in Clients
  <2>1. \A i \in DOMAIN InRx(d) : text[d][InRx(d)[i]] \notin Realtime
    BY DEF IInv, CommandsPickedOff
  <2>2. CASE InRx(d)' = InRx(d)
    BY <2>1, <2>2
  <2>3. CASE d = c /\ InRx(c)' = Append(R, b) /\ kind \notin Realtime
    <3> TAKE i \in DOMAIN InRx(d)'
    <3> DEFINE A == Append(R, b)
    <3>1. A \in Seq(Nat) /\ Len(A) = Len(R) + 1 /\ A[Len(R) + 1] = b /\ Len(R) \in Nat
          /\ \A j \in 1 .. Len(R) : A[j] = R[j]
      BY <1>2, <1>3, AppendProperties
    <3>2. InRx(d)' = A /\ InRx(d) = R /\ DOMAIN R = 1 .. Len(R)
      BY <2>3, <1>2
    <3> HIDE DEF A
    <3>3. i \in 1 .. Len(R) + 1
      BY <3>1, <3>2
    <3>4. CASE i = Len(R) + 1
      BY <3>1, <3>2, <3>4, <2>3
    <3>5. CASE i # Len(R) + 1
      <4>1. i \in DOMAIN R /\ A[i] = R[i]
        BY <3>1, <3>2, <3>3, <3>5
      <4> QED
        BY <4>1, <3>2, <2>1
    <3> QED
      BY <3>4, <3>5
  <2> QED
    BY <2>2, <2>3, <1>12
<1>17. /\ uart' \in Seq(Nat) /\ Len(uart') <= UartSize
       /\ net' \in [Servers -> NetBuffer(SocketSize) \cup NetBuffer(TelnetSize)]
       /\ \A d \in Servers : net'[d] \in NetBuffer(NetSize(d))
  BY <1>1 DEF Polled
<1>18. scn' = scn /\ packets' = packets /\ text' = text /\ UNCHANGED channel
  BY <1>5
<1> HIDE DEF kind, g, R, N, l
<1> QED
  BY <1>6, <1>7, <1>8, <1>9, <1>10, <1>12, <1>14, <1>15, <1>16, <1>17, <1>18, MovedInv

----------------------------------------------------------------------------
(* Reading *)

\* The main loop reads the first client that has a byte in its ring.
LEMMA FirstReadable ==
  ASSUME Readable # {}
  PROVE  Reading \in Readable /\ \A d \in Readable : Reading <= d
<1>1. Readable \subseteq {1, 2, 3}
  BY DEF Readable, Clients, Servers, Serial, WebSocket, Telnet
<1>2. \E d \in Readable : \A e \in Readable : d <= e
  <2>1. CASE 1 \in Readable
    BY <1>1, <2>1
  <2>2. CASE 1 \notin Readable /\ 2 \in Readable
    BY <1>1, <2>2
  <2>3. CASE 1 \notin Readable /\ 2 \notin Readable
    <3>1. PICK d : d \in Readable
      OBVIOUS
    <3>2. \A e \in Readable : e = 3
      BY <1>1, <2>3
    <3> QED
      BY <3>1, <3>2
  <2> QED
    BY <2>1, <2>2, <2>3
<1> QED
  BY <1>2 DEF Reading

\* A byte assembled into the line leaves the line below its size (protocol.cpp:113-148).
LEMMA AssembleType ==
  ASSUME MainOK, NEW c \in Clients, NEW b \in Nat, Assemble(c, b)
  PROVE  /\ line' \in Line /\ Len(line') < LineSize
         /\ flags' \in {{}, {"parentheses"}, {"semicolon"}, {"overflow"}}
<1> DEFINE kind == text[c][b]
<1>1. line \in Line /\ Len(line) < LineSize /\ flags \in {{}, {"parentheses"}, {"semicolon"}, {"overflow"}}
  BY DEF MainOK
<1> HIDE DEF kind
<1>2. CASE flags # {}
  <2>1. line' = line /\ (flags' = flags \/ flags' = flags \ {"parentheses"})
    BY <1>2 DEF Assemble
  <2> QED
    BY <1>1, <2>1
<1>3. CASE flags = {}
  <2>1. \/ line' = line /\ flags' \in {flags, {"parentheses"}, {"semicolon"}, {"overflow"}}
        \/ ~LineFull /\ line' = Append(line, <<c, b>>) /\ flags' = flags
    BY <1>3, Zenon DEF Assemble, assembly
  <2>2. CASE line' = line /\ flags' \in {flags, {"parentheses"}, {"semicolon"}, {"overflow"}}
    BY <1>1, <2>2
  <2>3. CASE ~LineFull /\ line' = Append(line, <<c, b>>) /\ flags' = flags
    <3> DEFINE e == <<c, b>>
    <3>1. e \in Clients \X Nat
      OBVIOUS
    <3> HIDE DEF e
    <3>2. line' = Append(line, e)
      BY <2>3 DEF e
    <3>3. line' \in Line /\ Len(line') = Len(line) + 1 /\ Len(line) \in Nat
      BY <1>1, <3>1, <3>2, AppendProperties DEF Line
    <3>4. LineSize \in Nat /\ ~(Len(line) >= LineSize - 1)
      BY <2>3, CommsAssumption DEF LineFull
    <3>5. Len(line') < LineSize
      BY <3>3, <3>4
    <3> QED
      BY <1>1, <2>3, <3>3, <3>5
  <2> QED
    BY <2>1, <2>2, <2>3
<1> QED
  BY <1>2, <1>3

\* A byte read by the main loop, with what it does to the line, keeps the invariant.
LEMMA ReadStep ==
  ASSUME IInv, Read
  PROVE  IInv'
<1>1. PICK c \in Clients : c = Reading /\ c \in Readable
  BY FirstReadable DEF Read, Readable
<1>2. PICK b : b = rx[c].buf[rx[c].tail]
  OBVIOUS
<1>3. /\ rx' = [rx EXCEPT ![c] = RxTake(rx[c])] /\ got' = [got EXCEPT ![c] = b] /\ client' = c /\ pc = "read"
      /\ IF text[c][b] = "eol" THEN EndOfLine(c, b) /\ resetFlag' = resetFlag
         ELSE Assemble(c, b) /\ UNCHANGED <<out, answered, resetFlag, abort, override, pc, last>>
      /\ UNCHANGED <<scn, wire, polling, channel>>
  BY <1>1, <1>2 DEF Read
<1>4. scn' = scn /\ packets' = packets /\ text' = text /\ uart' = uart /\ net' = net /\ lost' = lost
      /\ polling' = polling /\ UNCHANGED channel
  BY <1>3 DEF wire
<1> DEFINE g == got[c]
           R == InRx(c)
           N == InNet(c)
           l == Len(text[c])
<1>5. /\ g \in Nat /\ R \in Seq(Nat) /\ N \in Seq(Nat) /\ l \in Nat /\ Parts(g, R, N, l)
      /\ rx[c] \in Ring /\ ~RxEmpty(rx[c]) /\ text[c] \in Seq(Kinds)
  BY <1>1, RingSeqs, WireSeqs DEF Readable, HasData, IInv, TypeOK, RingsOK, WireOK, Way
<1>6. R # <<>> /\ b = Head(R) /\ RxTake(rx[c]) \in Ring /\ InRing(RxTake(rx[c])) = Tail(R)
  BY <1>2, <1>5, RingTake DEF InRx
<1>7. b \in Nat /\ b \in 1 .. l /\ g < b
  <2> HIDE DEF g, R, N, l
  <2>1. Len(R) \in Nat /\ 1 \in 1 .. Len(R) /\ b = R[1] /\ b \in Nat
    BY <1>5, <1>6, HeadTailProperties
  <2>2. g < R[1] /\ R[1] <= l
    BY <1>5, <2>1 DEF Parts
  <2> QED
    BY <1>5, <2>1, <2>2
<1>8. /\ RingsOK' /\ InRx(c)' = Tail(R)
      /\ \A d \in Clients : d # c => InRx(d)' = InRx(d)
      /\ \A d \in Clients : got'[d] = IF d = c THEN b ELSE got[d]
  <2> DEFINE q == RxTake(rx[c])
  <2>1. rx' = [rx EXCEPT ![c] = q] /\ q \in Ring /\ InRing(q) = Tail(R)
    BY <1>3, <1>6
  <2> HIDE DEF q
  <2>2. rx' \in [Clients -> Ring] /\ rx'[c] = q /\ \A d \in Clients : d # c => rx'[d] = rx[d]
    BY <2>1 DEF IInv, TypeOK, RingsOK
  <2>3. got' \in [Clients -> Nat] /\ \A d \in Clients : got'[d] = IF d = c THEN b ELSE got[d]
    BY <1>3, <1>7 DEF IInv, TypeOK, RingsOK
  <2> QED
    BY <2>1, <2>2, <2>3 DEF RingsOK, InRx
<1>9. \A d \in Clients : InNet(d)' = InNet(d)
  BY <1>4 DEF InNet
<1>10. \A d \in Clients : Parts(got'[d], InRx(d)', InNet(d)', Len(text[d]))
  <2> TAKE d \in Clients
  <2>1. CASE d = c
    <3>1. Parts(b, Tail(R), N, l)
      <4> HIDE DEF g, R, N, l
      <4> QED
        BY <1>5, <1>6, PartsRead
    <3>2. got'[d] = b /\ Len(text[d]) = l /\ InNet(d)' = N /\ InRx(d)' = Tail(R)
      BY <2>1, <1>8, <1>9
    <3> HIDE DEF R, N, l
    <3> QED
      BY <3>1, <3>2, Zenon
  <2>2. CASE d # c
    BY <2>2, <1>8, <1>9 DEF IInv, Way
  <2> QED
    BY <2>1, <2>2
<1>11. \A d \in Clients : \A i \in DOMAIN InNet(d)' : \E j \in DOMAIN InNet(d) : InNet(d)[j] = InNet(d)'[i]
  BY <1>9
<1>12. \A d \in Clients : \A i \in DOMAIN InRx(d)' : text[d][InRx(d)'[i]] \notin Realtime
  <2> TAKE d \in Clients
  <2>1. \A i \in DOMAIN InRx(d) : text[d][InRx(d)[i]] \notin Realtime
    BY DEF IInv, CommandsPickedOff
  <2>2. CASE d = c
    <3> DEFINE T == Tail(R)
    <3>1. T \in Seq(Nat) /\ \A i \in 1 .. Len(T) : T[i] = R[i + 1] /\ i + 1 \in 1 .. Len(R)
      <4> HIDE DEF R
      <4>1. T \in Seq(Nat) /\ Len(T) = Len(R) - 1 /\ \A i \in 1 .. Len(T) : T[i] = R[i + 1]
        BY <1>5, <1>6, HeadTailProperties
      <4>2. Len(R) \in Nat
        BY <1>5
      <4> HIDE DEF T
      <4>3. \A i \in 1 .. Len(T) : i + 1 \in 1 .. Len(R)
        BY <4>1, <4>2
      <4> QED
        BY <4>1, <4>3
    <3>2. InRx(d)' = T /\ InRx(d) = R /\ DOMAIN T = 1 .. Len(T) /\ DOMAIN R = 1 .. Len(R)
      BY <1>5, <1>8, <2>2, <3>1
    <3> HIDE DEF T, R
    <3> QED
      BY <2>1, <3>1, <3>2
  <2>3. CASE d # c
    BY <2>1, <2>3, <1>8
  <2> QED
    BY <2>2, <2>3
<1>13. \A d \in Clients : /\ answered[d] \in Nat /\ EolsTo(d, got'[d]) \in Nat /\ EolsTo(d, got'[d]) >= answered[d]
  <2> TAKE d \in Clients
  <2>1. answered[d] \in Nat /\ got[d] \in Nat /\ text[d] \in Seq(Kinds) /\ got'[d] \in Nat
    BY <1>8 DEF IInv, TypeOK, OutOK, RingsOK, WireOK
  <2>2. got[d] <= got'[d]
    BY <2>1, <1>7, <1>8
  <2>3. got[d] \in Int /\ got'[d] \in Int
    BY <2>1
  <2>4. EolsTo(d, got[d]) \in Nat /\ EolsTo(d, got'[d]) \in Nat /\ EolsTo(d, got[d]) <= EolsTo(d, got'[d])
    BY <2>1, <2>2, <2>3, EolFacts
  <2>5. answered[d] + (IF pc = "run" /\ client = d THEN 1 ELSE 0) <= EolsTo(d, got[d])
    BY DEF IInv, AnsweredAfterRead
  <2>6. answered[d] + 0 <= EolsTo(d, got[d])
    BY <1>3, <2>5
  <2> DEFINE x == EolsTo(d, got[d])
             y == EolsTo(d, got'[d])
  <2>7. x \in Nat /\ y \in Nat /\ x <= y /\ answered[d] + 0 <= x
    BY <2>4, <2>6
  <2> HIDE DEF x, y
  <2>8. answered[d] \in Nat /\ y \in Nat /\ y >= answered[d]
    BY <2>1, <2>7
  <2> QED
    BY <2>8 DEF y
<1>14. text[c][b] = "eol" => EolsTo(c, got'[c]) >= answered[c] + 1
  <2> HAVE text[c][b] = "eol"
  <2>1. EolsTo(c, g) + 1 <= EolsTo(c, b)
    BY <1>5, <1>7, EolStep
  <2>2. answered[c] + (IF pc = "run" /\ client = c THEN 1 ELSE 0) <= EolsTo(c, g)
    BY DEF IInv, AnsweredAfterRead
  <2>3. answered[c] + 0 <= EolsTo(c, g)
    BY <1>3, <2>2
  <2>4. got'[c] = b
    BY <1>8
  <2>5. EolsTo(c, g) \in Nat /\ EolsTo(c, b) \in Nat
    <3>1. g \in Int /\ b \in Int /\ g <= b
      BY <1>5, <1>7
    <3> QED
      BY <1>5, <3>1, EolFacts
  <2> DEFINE x == EolsTo(c, g)
             y == EolsTo(c, b)
  <2>6. x \in Nat /\ y \in Nat /\ x + 1 <= y /\ answered[c] + 0 <= x /\ answered[c] \in Nat
    BY <2>1, <2>3, <2>5, <1>13
  <2>7. EolsTo(c, got'[c]) = y
    BY <2>4
  <2> HIDE DEF x, y
  <2>8. y >= answered[c] + 1
    BY <2>6
  <2> QED
    BY <2>7, <2>8
<1>15. got' \in [Clients -> Nat]
  BY <1>8 DEF RingsOK
<1>16. /\ uart' \in Seq(Nat) /\ Len(uart') <= UartSize
       /\ net' \in [Servers -> NetBuffer(SocketSize) \cup NetBuffer(TelnetSize)]
       /\ \A d \in Servers : net'[d] \in NetBuffer(NetSize(d))
       /\ lost' \in [Clients -> Nat]
  BY <1>4 DEF IInv, TypeOK, WireOK
<1>17. RingsOK'
  BY <1>8
<1> HIDE DEF g, R, N, l
\* The rest of the step is given by four facts.
<1>18. ASSUME OutOK', OverrideOK', RisesAsked', MainOK', AnsweredAfterRead',
              \A d \in Clients : Len(delivered'[d]) >= Len(delivered[d])
       PROVE  IInv'
  BY <1>4, <1>10, <1>11, <1>12, <1>16, <1>17, <1>18, MovedInv
\* Nothing is answered: at most the line that ended is to be executed.
<1>19. ASSUME UNCHANGED <<out, answered>>, pc' = "run" => text[c][b] = "eol"
       PROVE  /\ OutOK' /\ AnsweredAfterRead'
              /\ \A d \in Clients : Len(delivered'[d]) >= Len(delivered[d])
  <2>1. OutOK' /\ \A d \in Clients : Len(delivered'[d]) >= Len(delivered[d]) /\ Due(d)' = Due(d)
    BY <1>19, OutKept DEF IInv
  <2>2. AnsweredAfterRead'
    <3> SUFFICES ASSUME NEW d \in Clients
                 PROVE  /\ (answered[d] + (IF pc = "run" /\ client = d THEN 1 ELSE 0) <= EolsTo(d, got[d]))'
                        /\ (Len(Due(d)) <= answered[d])'
      BY DEF AnsweredAfterRead
    <3>1. EolsTo(d, got[d])' = EolsTo(d, got'[d])
      BY <1>4 DEF EolsTo, Eols
    <3>2. Len(Due(d)) <= answered[d] /\ Due(d)' = Due(d) /\ answered' = answered
      BY <1>19, <2>1 DEF IInv, AnsweredAfterRead
    <3> DEFINE y == EolsTo(d, got'[d])
    <3>3. y \in Nat /\ answered[d] \in Nat /\ y >= answered[d] /\ (pc' = "run" /\ client' = d => y >= answered[d] + 1)
      BY <1>3, <1>13, <1>14, <1>19
    <3> HIDE DEF y
    <3>4. answered[d] + (IF pc' = "run" /\ client' = d THEN 1 ELSE 0) <= y
      BY <3>3
    <3> QED
      BY <3>1, <3>2, <3>4 DEF y
  <2> QED
    BY <2>1, <2>2
<1>20. CASE text[c][b] # "eol"
  <2>1. Assemble(c, b) /\ UNCHANGED <<out, answered, resetFlag, abort, override, pc, last>>
    BY <1>3, <1>20
  <2>2. OverrideOK' /\ RisesAsked'
    BY <2>1 DEF IInv, TypeOK, OverrideOK, RisesAsked, override
  <2>3. MainOK'
    <3>1. MainOK
      BY DEF IInv, TypeOK
    <3>2. /\ line' \in Line /\ Len(line') < LineSize
          /\ flags' \in {{}, {"parentheses"}, {"semicolon"}, {"overflow"}}
      BY <1>7, <2>1, <3>1, AssembleType
    <3> QED
      BY <1>3, <1>4, <2>1, <3>1, <3>2 DEF MainOK
  <2>4. pc' = "read"
    BY <1>3, <2>1
  <2>5. OutOK' /\ AnsweredAfterRead' /\ \A d \in Clients : Len(delivered'[d]) >= Len(delivered[d])
    BY <1>19, <2>1, <2>4
  <2> QED
    BY <1>18, <2>2, <2>3, <2>5
<1>21. CASE text[c][b] = "eol"
  <2>1. EndOfLine(c, b) /\ resetFlag' = resetFlag
    BY <1>3, <1>21
  <2>2. OverrideOK' /\ RisesAsked'
    BY <2>1, PassStep DEF EndOfLine, IInv, TypeOK
  <2>3. MainOK
    BY DEF IInv, TypeOK
  <2>4. CASE resetFlag
    <3>1. pc' = "init" /\ UNCHANGED <<out, answered, assembly, last>>
      BY <2>1, <2>4 DEF EndOfLine
    <3>2. MainOK'
      BY <1>3, <1>4, <2>3, <3>1 DEF MainOK, assembly
    <3>3. OutOK' /\ AnsweredAfterRead' /\ \A d \in Clients : Len(delivered'[d]) >= Len(delivered[d])
      BY <1>19, <1>21, <3>1
    <3> QED
      BY <1>18, <2>2, <3>2, <3>3
  <2>5. CASE ~resetFlag
    <3>1. /\ last' = [by |-> c, at |-> b, line |-> line, over |-> "overflow" \in flags]
          /\ IF "overflow" \in flags \/ line = <<>> THEN Answer(c)
             ELSE pc' = "run" /\ UNCHANGED <<out, answered, assembly>>
      BY <2>1, <2>5 DEF EndOfLine
    <3>2. last' \in [by : Clients, at : Nat, line : Line, over : BOOLEAN]
      BY <1>7, <2>3, <3>1 DEF MainOK
    <3>3. CASE "overflow" \in flags \/ line = <<>>
      <4>1. Answer(c)
        BY <3>1, <3>3
      <4>2. MainOK'
        <5>1. line' = <<>> /\ flags' = {} /\ pc' = "read"
          BY <4>1 DEF Answer
        <5>2. <<>> \in Line /\ Len(<<>>) < LineSize
          BY CommsAssumption DEF Line
        <5> QED
          BY <1>3, <1>4, <2>3, <3>2, <5>1, <5>2 DEF MainOK
      <4>3. \A d \in Clients : EolsTo(d, got'[d]) >= answered[d] + IF d = c THEN 1 ELSE 0
        <5> TAKE d \in Clients
        <5>1. CASE d = c
          BY <5>1, <1>14, <1>21
        <5>2. CASE d # c
          <6> DEFINE y == EolsTo(d, got'[d])
          <6>1. y >= answered[d] /\ answered[d] \in Nat
            BY <1>13
          <6> HIDE DEF y
          <6>2. y >= answered[d] + IF d = c THEN 1 ELSE 0
            BY <5>2, <6>1
          <6> QED
            BY <6>2 DEF y
        <5> QED
          BY <5>1, <5>2
      <4>4. OutOK' /\ AnsweredAfterRead' /\ \A d \in Clients : Len(delivered'[d]) >= Len(delivered[d])
        BY <1>4, <1>15, <4>1, <4>3, AnswerOn
      <4> QED
        BY <1>18, <2>2, <4>2, <4>4
    <3>4. CASE ~("overflow" \in flags \/ line = <<>>)
      <4>1. pc' = "run" /\ UNCHANGED <<out, answered, assembly>>
        BY <3>1, <3>4
      <4>2. MainOK'
        BY <1>3, <1>4, <2>3, <3>2, <4>1 DEF MainOK, assembly
      <4>3. OutOK' /\ AnsweredAfterRead' /\ \A d \in Clients : Len(delivered'[d]) >= Len(delivered[d])
        BY <1>19, <1>21, <4>1
      <4> QED
        BY <1>18, <2>2, <4>2, <4>3
    <3> QED
      BY <3>3, <3>4
  <2> QED
    BY <2>4, <2>5
<1> QED
  BY <1>20, <1>21

\* A packet sent keeps the invariant, whichever the channel.
LEMMA SendsStep ==
  ASSUME IInv, UartReceive \/ SocketFrame \/ SocketFragment \/ TelnetData
  PROVE  IInv'
<1>0. WireOK /\ Serial \in Clients /\ WebSocket \in Clients /\ Telnet \in Clients
      /\ WebSocket \in Servers /\ Telnet \in Servers /\ Serial # WebSocket /\ Telnet # WebSocket
  BY DEF IInv, TypeOK, Clients, Servers, Serial, WebSocket, Telnet
<1>1. CASE UartReceive
  <2>1. Sends(Serial) /\ Arrives(Serial)
    BY <1>0, <1>1, UartArrives DEF UartReceive
  <2> QED
    BY <1>0, <2>1, SentInv
<1>2. CASE SocketFrame
  <2>1. Sends(WebSocket) /\ Pushes(WebSocket) /\ socketOpen
    BY <1>2 DEF SocketFrame
  <2>2. Arrives(WebSocket)
    BY <1>0, <2>1, PushArrives
  <2> QED
    BY <1>0, <2>1, <2>2, SentInv
<1>3. CASE SocketFragment
  <2>1. Sends(WebSocket) /\ Arrives(WebSocket) /\ socketOpen
    BY <1>0, <1>3, FragmentArrives DEF SocketFragment
  <2> QED
    BY <1>0, <2>1, SentInv
<1>4. CASE TelnetData
  <2>1. Sends(Telnet) /\ Pushes(Telnet)
    BY <1>4 DEF TelnetData
  <2>2. Arrives(Telnet)
    BY <1>0, <2>1, PushArrives
  <2> QED
    BY <1>0, <2>1, <2>2, SentInv
<1> QED
  BY <1>1, <1>2, <1>3, <1>4

\* A step that changes nothing keeps the invariant.
LEMMA StutterStep ==
  ASSUME IInv, UNCHANGED vars
  PROVE  IInv'
<1>1. UNCHANGED <<scn, wire, rx, got, polling, channel, out, answered, resetFlag, abort, override, pc,
                  client, assembly, last>>
  BY DEF vars
<1>2. OverrideOK' /\ RisesAsked'
  BY <1>1 DEF IInv, TypeOK, OverrideOK, RisesAsked, override
<1>3. MainOK'
  BY <1>1 DEF IInv, TypeOK, MainOK, assembly
<1>4. OutOK' /\ \A d \in Clients : Len(delivered'[d]) >= Len(delivered[d]) /\ Len(Due(d)') <= Len(Due(d))
  BY <1>1, OutKept DEF IInv
<1>5. AnsweredAfterRead'
  BY <1>1, <1>4, AnsweredKept DEF wire
<1> QED
  BY <1>1, <1>2, <1>3, <1>4, <1>5, MainInv

\* Every step keeps the inductive invariant.
LEMMA IInvStep ==
  ASSUME IInv, [Next]_vars
  PROVE  IInv'
<1>1. CASE UartReceive \/ SocketFrame \/ SocketFragment \/ TelnetData
  BY <1>1, SendsStep
<1>2. CASE \/ SocketOpens \/ SocketCloses \/ TelnetConnect
           \/ \E k \in DOMAIN conn : TelnetDrops(k) \/ TelnetDisconnected(k)
  BY <1>2, ChannelStep
<1>3. CASE FlushTimePasses
  BY <1>3, FlushTimeStep
<1>4. CASE PollStarts
  BY <1>4, PollStartsStep
<1>5. CASE PollByte
  BY <1>5, PollByteStep
<1>6. CASE PollEnds
  BY <1>6, PollEndsStep
<1>7. CASE Read
  BY <1>7, ReadStep
<1>8. CASE RunPass
  BY <1>8, RunPassStep
<1>9. CASE LineDone
  BY <1>9, LineDoneStep
<1>10. CASE Idle
  BY <1>10, IdleStep
<1>11. CASE Reinit
  BY <1>11, ReinitStep
<1>12. CASE UNCHANGED vars
  BY <1>12, StutterStep
<1> QED
  BY <1>1, <1>2, <1>3, <1>4, <1>5, <1>6, <1>7, <1>8, <1>9, <1>10, <1>11, <1>12 DEF Next, Network, Poll, Main

----------------------------------------------------------------------------
(* The invariant *)

\* The inductive invariant holds initially.
LEMMA IInvInit ==
  ASSUME Init
  PROVE  IInv
<1>1. WireOK
  <2>1. /\ 0 \in Nat /\ <<>> \in Seq(Nat) /\ <<>> \in Seq(Kinds) /\ Len(<<>>) = 0 /\ UartSize \in Nat
    BY CommsAssumption
  <2>2. \A S \in Nat \ {0} : EmptyNet(S) \in NetBuffer(S)
    BY DEF EmptyNet, NetBuffer
  <2>3. net = [c \in Servers |-> EmptyNet(NetSize(c))]
    BY DEF Init
  <2>4. \A c \in Servers : net[c] \in NetBuffer(NetSize(c))
    BY <2>2, <2>3, Sizes
  <2>5. \A c \in Servers : net[c] \in NetBuffer(SocketSize) \cup NetBuffer(TelnetSize)
    BY <2>4, Sizes
  <2>6. net \in [Servers -> NetBuffer(SocketSize) \cup NetBuffer(TelnetSize)]
    BY <2>3, <2>5
  <2> QED
    BY <2>1, <2>4, <2>6 DEF Init, WireOK
<1>2. RingsOK
  <2>1. 0 \in 0 .. Period - 1 /\ [k \in 0 .. RingSlots - 1 |-> 0] \in [0 .. RingSlots - 1 -> Nat]
    BY PeriodFacts
  <2> QED
    BY <2>1 DEF Init, RingsOK, Ring
<1>3. ChannelOK
  <2>1. <<>> \in Seq({"open", "lost", "closed"}) /\ 0 \in 0 .. Len(<<>>)
    OBVIOUS
  <2> QED
    BY <2>1 DEF Init, ChannelOK
<1>4. OutOK
  <2>1. Nothing \in Tx /\ TxLen(Nothing) = 0 /\ TxSize \in Nat \ {0} /\ <<>> \in Seq(Nat) /\ 0 \in Nat
    BY CommsAssumption DEF Nothing, Tx, TxLen
  <2>2. tx = Nothing /\ stale \in BOOLEAN /\ delivered = [c \in Clients |-> <<>>] /\ answered = [c \in Clients |-> 0]
    BY DEF Init
  <2>3. delivered \in [Clients -> Seq(Nat)] /\ answered \in [Clients -> Nat]
    BY <2>1, <2>2
  <2>4. TxLen(tx) < TxSize
    BY <2>1, <2>2
  <2> QED
    BY <2>1, <2>2, <2>3, <2>4 DEF OutOK
<1>5. OverrideOK
  <2>1. /\ feed = 100 /\ rapid = 100 /\ pending = {}
        /\ asked \in BOOLEAN /\ resetFlag \in BOOLEAN /\ abort \in BOOLEAN
    BY DEF Init
  <2> QED
    BY <2>1 DEF OverrideOK
<1>6. MainOK
  <2>1. <<>> \in Line /\ Len(<<>>) < LineSize /\ Serial \in Clients
    BY CommsAssumption DEF Line, Clients
  <2> QED
    BY <2>1 DEF Init, MainOK, NoLine
<1>7. TypeOK
  BY <1>1, <1>2, <1>3, <1>4, <1>5, <1>6 DEF TypeOK
<1>8. \A c \in Clients : InRx(c) = <<>> /\ InNet(c) = <<>>
  <2> TAKE c \in Clients
  <2>1. rx[c].head = 0 /\ rx[c].tail = 0 /\ rx[c].buf \in [0 .. RingSlots - 1 -> Nat] /\ 0 \in 0 .. Period - 1
    BY <1>2, PeriodFacts DEF Init
  <2>2. Held(rx[c]) = 0
    BY <2>1 DEF Held
  <2>3. InRx(c) \in Seq(Nat) /\ Len(InRx(c)) = 0
    BY <2>1, <2>2, RingSeq DEF InRx
  <2>4. InNet(c) \in Seq(Nat) /\ Len(InNet(c)) = 0
    <3>1. CASE c = Serial
      BY <3>1 DEF Init, InNet
    <3>2. CASE c # Serial
      <4>1. c \in Servers /\ net[c] = EmptyNet(NetSize(c)) /\ NetSize(c) \in Nat \ {0}
        BY <3>2, Sizes DEF Init
      <4>2. net[c] \in NetBuffer(NetSize(c))
        BY <1>1, <4>1 DEF WireOK
      <4>4. net[c].size = 0
        BY <4>1 DEF EmptyNet
      <4>3. InNet(c) = InBuffer(net[c], NetSize(c))
        BY <3>2 DEF InNet
      <4> QED
        BY <4>1, <4>2, <4>3, <4>4, NetSeq
    <3> QED
      BY <3>1, <3>2
  <2> QED
    BY <2>3, <2>4, EmptySeq
<1>9. Way
  <2> SUFFICES ASSUME NEW c \in Clients  PROVE Parts(got[c], InRx(c), InNet(c), Len(text[c]))
    BY DEF Way
  <2>1. got[c] = 0 /\ text[c] = <<>> /\ Len(<<>>) = 0
    BY DEF Init
  <2>2. Parts(0, <<>>, <<>>, 0)
    BY DEF Parts, Increasing
  <2> QED
    BY <1>8, <2>1, <2>2
<1>10. \A c \in Clients : text[c] = <<>> /\ DOMAIN text[c] = {} /\ text[c] \in Seq(Kinds)
  BY DEF Init
<1>11. AnsweredAfterRead
  <2> SUFFICES ASSUME NEW c \in Clients
               PROVE  /\ answered[c] + (IF pc = "run" /\ client = c THEN 1 ELSE 0) <= EolsTo(c, got[c])
                      /\ Len(Due(c)) <= answered[c]
    BY DEF AnsweredAfterRead
  <2>1. answered[c] = 0 /\ got[c] = 0 /\ pc = "read"
    BY DEF Init
  <2>2. EolsTo(c, 0) \in Nat
    <3>1. 0 \in Int /\ 0 <= 0
      OBVIOUS
    <3> QED
      BY <1>10, <3>1, EolFacts
  <2>3. Len(Due(c)) = 0
    <3>1. delivered[c] = <<>> /\ tx.answers = <<>>
      BY DEF Init, Nothing
    <3>2. Due(c) = <<>> \o <<>>
      BY <3>1 DEF Due
    <3>3. <<>> \in Seq(Nat) /\ Len(<<>>) = 0
      OBVIOUS
    <3> QED
      BY <3>2, <3>3, ConcatLen
  <2> QED
    BY <2>1, <2>2, <2>3
<1>12. WithinWindow
  <2> SUFFICES ASSUME NEW c \in Clients  PROVE Cardinality(Unanswered(c)) <= scn.window[c]
    BY DEF WithinWindow
  <2>1. Unanswered(c) = {}
    BY <1>10 DEF Unanswered
  <2>2. scn.window[c] \in Nat
    BY <1>1, CommsAssumption DEF WireOK
  <2>3. Cardinality({}) = 0
    BY FS_EmptySet
  <2> QED
    BY <2>1, <2>2, <2>3
<1>13. CommandsPickedOff
  BY <1>8 DEF CommandsPickedOff
<1>14. OpenToSend
  BY <1>10 DEF OpenToSend, Clients, Servers
<1>15. RisesAsked
  BY DEF Init, RisesAsked
<1> QED
  BY <1>7, <1>9, <1>11, <1>12, <1>13, <1>14, <1>15 DEF IInv

\* The inductive invariant holds in every state that can be reached.
LEMMA IInvCorrect == Spec => []IInv
<1>1. Init => IInv
  BY IInvInit
<1>2. IInv /\ [Next]_vars => IInv'
  BY IInvStep
<1> QED
  BY <1>1, <1>2, PTL DEF Spec

\* The bytes of a client are read in the order they were sent, and none of them twice, whatever the
\* sizes of the rings and buffers (serial.cpp:65-86, 159-172).
THEOREM InOrderCorrect == Spec => []InOrder
<1>1. IInv => InOrder
  BY WayIsOrder DEF IInv, TypeOK
<1> QED
  BY <1>1, IInvCorrect, PTL

----------------------------------------------------------------------------

\* The sequence 1, ..., n with n + 1 appended is the sequence 1, ..., n + 1.
LEMMA Appended ==
  ASSUME NEW n \in Nat, NEW u, u = [k \in 1 .. n |-> k]
  PROVE  u \in Seq(Nat) /\ Append(u, n + 1) = [k \in 1 .. n + 1 |-> k]
<1>1. u \in [1 .. n -> Nat] /\ \A k \in 1 .. n : u[k] = k
  OBVIOUS
<1>2. u \in Seq(Nat) /\ Len(u) = n
  BY <1>1, MakeSeq
<1> DEFINE v == [k \in 1 .. n + 1 |-> k]
           w == Append(u, n + 1)
<1>3. v \in [1 .. n + 1 -> Nat] /\ \A k \in 1 .. n + 1 : v[k] = k
  OBVIOUS
<1>4. v \in Seq(Nat) /\ Len(v) = n + 1
  <2> HIDE DEF v
  <2>1. n + 1 \in Nat
    OBVIOUS
  <2> QED
    BY <1>3, <2>1, MakeSeq
<1>5. w \in Seq(Nat) /\ Len(w) = n + 1 /\ w[n + 1] = n + 1 /\ \A k \in 1 .. n : w[k] = u[k]
  BY <1>2, AppendProperties
<1> HIDE DEF v, w
<1>6. \A k \in 1 .. n + 1 : w[k] = v[k]
  <2> TAKE k \in 1 .. n + 1
  <2>1. v[k] = k
    BY <1>3
  <2>2. CASE k = n + 1
    BY <2>1, <2>2, <1>5
  <2>3. CASE k # n + 1
    <3>1. k \in 1 .. n
      BY <2>3
    <3> QED
      BY <2>1, <3>1, <1>1, <1>5
  <2> QED
    BY <2>2, <2>3
<1>7. w = v
  BY <1>4, <1>5, <1>6, SameSeq
<1> QED
  BY <1>2, <1>7 DEF v, w

\* No step changes what the clients are up to.
LEMMA ScnStays ==
  ASSUME [Next]_vars
  PROVE  scn' = scn
  BY DEF Next, Network, Poll, Main, vars, UartReceive, SocketFrame, SocketFragment, TelnetData, Sends,
         SocketOpens, SocketCloses, TelnetConnect, TelnetDrops, TelnetDisconnected, ChannelOnly,
         FlushTimePasses, PollStarts, PollByte, PickedOff, PollEnds, Read, RunPass, LineDone, Idle, Reinit

----------------------------------------------------------------------------
(* Nothing is lost *)

\* A byte that was not read, and is a realtime command only if no poll picked it off, is unanswered.
LEMMA Unread ==
  ASSUME IInv, NEW c \in Clients, NEW n \in 1 .. Len(text[c]), got[c] < n,
         text[c][n] \in Realtime => \E i \in DOMAIN InNet(c) : InNet(c)[i] = n
  PROVE  n \in Unanswered(c)
<1>1. text[c] \in Seq(Kinds) /\ got[c] \in Nat /\ answered[c] \in Nat /\ DOMAIN text[c] = 1 .. Len(text[c])
      /\ delivered[c] \in Seq(Nat) /\ tx.answers \in Seq(Nat) /\ OutOK
  BY DEF IInv, TypeOK, WireOK, RingsOK, OutOK, Tx
<1>2. CASE text[c][n] \in Realtime
  BY <1>1, <1>2 DEF Unanswered
<1>3. CASE text[c][n] \notin Realtime
  <2>1. got[c] \in Int /\ n - 1 \in Int /\ got[c] <= n - 1
    BY <1>1
  <2>2. EolsTo(c, got[c]) \in Nat /\ EolsTo(c, n - 1) \in Nat /\ EolsTo(c, got[c]) <= EolsTo(c, n - 1)
    BY <1>1, <2>1, EolFacts
  <2>3. /\ answered[c] + (IF pc = "run" /\ client = c THEN 1 ELSE 0) <= EolsTo(c, got[c])
        /\ Len(Due(c)) <= answered[c]
    BY DEF IInv, AnsweredAfterRead
  <2>4. Len(delivered[c]) \in Nat /\ Len(Due(c)) \in Nat /\ Len(delivered[c]) <= Len(Due(c))
    <3> DEFINE s == IF c = WebSocket THEN tx.answers ELSE <<>>
    <3>1. s \in Seq(Nat)
      BY <1>1
    <3>2. Due(c) = delivered[c] \o s
      BY DEF Due
    <3> HIDE DEF s
    <3>3. Len(Due(c)) = Len(delivered[c]) + Len(s)
      BY <1>1, <3>1, <3>2, ConcatLen
    <3>4. Len(delivered[c]) \in Nat /\ Len(s) \in Nat
      BY <1>1, <3>1
    <3> QED
      BY <3>3, <3>4
  <2> DEFINE x == EolsTo(c, got[c])
             y == EolsTo(c, n - 1)
             p == Len(delivered[c])
             q == Len(Due(c))
  <2>5. x \in Nat /\ y \in Nat /\ p \in Nat /\ q \in Nat /\ x <= y /\ p <= q /\ q <= answered[c]
        /\ answered[c] + (IF pc = "run" /\ client = c THEN 1 ELSE 0) <= x
    BY <2>2, <2>3, <2>4
  <2> HIDE DEF x, y, p, q
  <2>6. y >= p
    BY <1>1, <2>5
  <2>7. EolsTo(c, n - 1) >= Len(delivered[c])
    BY <2>6 DEF y, p
  <2> QED
    BY <1>1, <1>3, <2>7 DEF Unanswered
<1> QED
  BY <1>2, <1>3

\* What is on its way is not answered, and no two bytes are the same: it is within the window.
LEMMA OnItsWay ==
  ASSUME IInv, NEW c \in Clients
  PROVE  Len(InRx(c)) + Len(InNet(c)) <= Cardinality(Unanswered(c))
<1> DEFINE R == InRx(c)
           N == InNet(c)
           g == got[c]
           l == Len(text[c])
           U == Unanswered(c)
<1>1. /\ g \in Nat /\ R \in Seq(Nat) /\ N \in Seq(Nat) /\ l \in Nat /\ Parts(g, R, N, l)
      /\ text[c] \in Seq(Kinds)
  BY RingSeqs, WireSeqs DEF IInv, TypeOK, RingsOK, WireOK, Way
<1>2. PICK a \in Nat, b \in Nat : a = Len(R) /\ b = Len(N)
  BY <1>1
<1>3. /\ \A i \in 1 .. a : R[i] \in Nat /\ g < R[i] /\ R[i] <= l
      /\ \A j \in 1 .. b : N[j] \in Nat /\ g < N[j] /\ N[j] <= l
      /\ \A i, j \in 1 .. a : i < j => R[i] < R[j]
      /\ \A i, j \in 1 .. b : i < j => N[i] < N[j]
      /\ \A i \in 1 .. a, j \in 1 .. b : R[i] < N[j]
  <2> HIDE DEF R, N, g, l
  <2> QED
    BY <1>1, <1>2, ElementOfSeq DEF Parts, Increasing
<1>4. \A i \in 1 .. a : R[i] \in U
  <2> TAKE i \in 1 .. a
  <2>1. i \in DOMAIN R
    BY <1>1, <1>2
  <2>2. text[c][R[i]] \notin Realtime
    BY <2>1 DEF IInv, CommandsPickedOff
  <2>3. R[i] \in 1 .. l /\ g < R[i]
    BY <1>1, <1>3
  <2> HIDE DEF R
  <2> QED
    BY <2>2, <2>3, Unread
<1>5. \A j \in 1 .. b : N[j] \in U
  <2> TAKE j \in 1 .. b
  <2>1. j \in DOMAIN N
    BY <1>1, <1>2
  <2>2. N[j] \in 1 .. l /\ g < N[j]
    BY <1>1, <1>3
  <2>3. PICK n : n = N[j]
    OBVIOUS
  <2>4. \E i \in DOMAIN InNet(c) : InNet(c)[i] = n
    BY <2>1, <2>3
  <2>5. n \in 1 .. Len(text[c]) /\ got[c] < n
    BY <2>2, <2>3
  <2>6. n \in Unanswered(c)
    BY <2>4, <2>5, Unread
  <2> QED
    BY <2>3, <2>6
<1>6. IsFiniteSet(U)
  BY <1>1, UnansweredFinite
<1> HIDE DEF R, N, g, l, U
<1> DEFINE f == [i \in 1 .. a + b |-> IF i <= a THEN R[i] ELSE N[i - a]]
<1>7. \A i \in 1 .. a + b : \/ i \in 1 .. a /\ f[i] = R[i]
                            \/ i - a \in 1 .. b /\ i > a /\ f[i] = N[i - a]
  OBVIOUS
<1>8. f \in [1 .. a + b -> U]
  <2>1. \A i \in 1 .. a + b : f[i] \in U
    BY <1>4, <1>5, <1>7
  <2> QED
    BY <2>1
<1>9. \A i, j \in 1 .. a + b : i < j => f[i] < f[j]
  <2> SUFFICES ASSUME NEW i \in 1 .. a + b, NEW j \in 1 .. a + b, i < j  PROVE f[i] < f[j]
    OBVIOUS
  <2> HIDE DEF f
  <2>1. CASE i \in 1 .. a /\ f[i] = R[i]
    <3>1. CASE j \in 1 .. a /\ f[j] = R[j]
      BY <1>3, <2>1, <3>1
    <3>2. CASE j - a \in 1 .. b /\ f[j] = N[j - a]
      BY <1>3, <2>1, <3>2
    <3> QED
      BY <1>7, <3>1, <3>2
  <2>2. CASE i - a \in 1 .. b /\ i > a /\ f[i] = N[i - a]
    <3>1. j - a \in 1 .. b /\ f[j] = N[j - a]
      BY <1>7, <2>2
    <3>2. i - a < j - a
      OBVIOUS
    <3> QED
      BY <1>3, <2>2, <3>1, <3>2
  <2> QED
    BY <1>7, <2>1, <2>2
<1>10. f \in Injection(1 .. a + b, U)
  <2> HIDE DEF f
  <2>1. \A i \in 1 .. a + b : f[i] \in Nat
    BY <1>3, <1>7
  <2>2. \A i, j \in 1 .. a + b : f[i] = f[j] => i = j
    <3> SUFFICES ASSUME NEW i \in 1 .. a + b, NEW j \in 1 .. a + b, f[i] = f[j]  PROVE i = j
      OBVIOUS
    <3>1. ~(i < j) /\ ~(j < i)
      <4>1. f[i] \in Nat /\ f[j] \in Nat
        BY <2>1
      <4> QED
        BY <4>1, <1>9
    <3> QED
      BY <3>1
  <2>3. DOMAIN f = 1 .. a + b
    BY <1>8
  <2> QED
    BY <1>8, <2>2, <2>3 DEF Injection, IsInjective
<1> HIDE DEF f
<1>11. Cardinality(1 .. a + b) <= Cardinality(U)
  BY <1>6, <1>10, FS_Injection
<1>12. Cardinality(1 .. a + b) = a + b
  <2>1. a + b \in Nat
    OBVIOUS
  <2> QED
    BY <2>1, UpTo
<1> QED
  BY <1>2, <1>11, <1>12 DEF R, N, U

\* A full ring holds one byte less than it has slots in use.
LEMMA FullRing ==
  ASSUME NEW r \in Ring, RxFull(r)
  PROVE  Len(InRing(r)) = Period - 1
<1>1. r.buf \in [0 .. RingSlots - 1 -> Nat] /\ r.head \in 0 .. Period - 1 /\ r.tail \in 0 .. Period - 1
  BY RingParts
<1>2. Len(InRing(r)) = Held(r)
  BY <1>1, RingSeq
<1>3. NextSlot(r.head) = IF r.head + 1 = Period THEN 0 ELSE r.head + 1
  BY <1>1, PeriodFacts
<1>4. r.tail = IF r.head + 1 = Period THEN 0 ELSE r.head + 1
  BY <1>3 DEF RxFull
<1>5. PICK h \in Nat, k \in Nat, P \in Nat : h = r.head /\ k = r.tail /\ P = Period
  BY <1>1, PeriodFacts
<1>6. h < P /\ P > 1 /\ k = IF h + 1 = P THEN 0 ELSE h + 1
  BY <1>1, <1>4, <1>5, PeriodFacts
<1>7. (IF h >= k THEN h - k ELSE P + h - k) = P - 1
  BY <1>6
<1> QED
  BY <1>2, <1>5, <1>7 DEF Held

\* Only a packet sent and a byte polled can be lost.
LEMMA LostKept ==
  ASSUME [Next]_vars, ~UartReceive, ~SocketFrame, ~SocketFragment, ~TelnetData, ~PollByte
  PROVE  lost' = lost
  BY DEF Next, Network, Poll, Main, vars, wire,
         SocketOpens, SocketCloses, TelnetConnect, TelnetDrops, TelnetDisconnected, ChannelOnly,
         FlushTimePasses, PollStarts, PollEnds, Read, RunPass, LineDone, Idle, Reinit

\* A client whose window is within the sizes of its channel has no more on its way than they hold.
LEMMA WithinSizes ==
  ASSUME IInv, Steady, NEW c \in Clients
  PROVE  /\ scn.window[c] \in Nat /\ scn.window[c] <= ChannelSize(c) /\ scn.window[c] <= Period - 1
         /\ Len(InRx(c)) \in Nat /\ Len(InNet(c)) \in Nat /\ Cardinality(Unanswered(c)) \in Nat
         /\ Len(InRx(c)) + Len(InNet(c)) <= Cardinality(Unanswered(c))
         /\ Cardinality(Unanswered(c)) <= scn.window[c]
<1>1. scn.window[c] \in Nat /\ text[c] \in Seq(Kinds)
  BY CommsAssumption DEF IInv, TypeOK, WireOK
<1>2. scn.window[c] <= ChannelSize(c) /\ scn.window[c] <= Period - 1
  BY DEF Steady, Lossless
<1>3. InRx(c) \in Seq(Nat) /\ InNet(c) \in Seq(Nat)
  BY RingSeqs, WireSeqs DEF IInv, TypeOK
<1>4. Len(InRx(c)) \in Nat /\ Len(InNet(c)) \in Nat
  BY <1>3
<1>5. Cardinality(Unanswered(c)) \in Nat
  BY <1>1, UnansweredFinite
<1> QED
  BY <1>1, <1>2, <1>4, <1>5, OnItsWay DEF IInv, WithinWindow

\* The UART's buffer takes all of a packet within the window.
LEMMA UartKeeps ==
  ASSUME IInv, Steady, UartReceive
  PROVE  lost' = lost
<1> DEFINE k == Len(Frame(Serial))
           all == uart \o Places(Serial)
           n == IF Len(all) > UartSize THEN UartSize ELSE Len(all)
           w == scn.window[Serial]
           u == Cardinality(Unanswered(Serial))
<1>1. Serial \in Clients /\ Sends(Serial) /\ WireOK
  BY Sizes DEF UartReceive, IInv, TypeOK
<1>2. uart \in Seq(Nat) /\ Places(Serial) \in Seq(Nat) /\ Len(Places(Serial)) = k /\ k \in Nat /\ UartSize \in Nat
  BY <1>1, FrameFacts, CommsAssumption DEF WireOK
<1>3. Len(all) = Len(uart) + k /\ Len(uart) \in Nat
  <2>1. Len(all) = Len(uart) + Len(Places(Serial))
    BY <1>2, ConcatLen
  <2> QED
    BY <1>2, <2>1
<1>4. w \in Nat /\ w <= UartSize /\ u \in Nat /\ Len(uart) <= u
  <2>1. /\ w \in Nat /\ w <= ChannelSize(Serial)
        /\ Len(InRx(Serial)) \in Nat /\ Len(InNet(Serial)) \in Nat /\ u \in Nat
        /\ Len(InRx(Serial)) + Len(InNet(Serial)) <= u
    BY <1>1, WithinSizes
  <2>2. InNet(Serial) = uart /\ ChannelSize(Serial) = UartSize
    BY DEF InNet, ChannelSize
  <2> HIDE DEF w, u
  <2> QED
    BY <2>1, <2>2
<1>5. u + k <= w
  BY <1>1 DEF Sends
<1>6. lost' = [lost EXCEPT ![Serial] = lost[Serial] + Len(all) - n]
  BY DEF UartReceive
<1> HIDE DEF k, w, u, all
<1>7. n = Len(all) /\ Len(all) \in Nat
  BY <1>2, <1>3, <1>4, <1>5
<1>8. lost[Serial] \in Nat /\ lost \in [Clients -> Nat]
  BY <1>1 DEF WireOK
<1>9. lost[Serial] + Len(all) - n = lost[Serial]
  BY <1>7, <1>8
<1> QED
  BY <1>6, <1>8, <1>9

\* A server's buffer takes all of a packet within the window.
LEMMA PushKeeps ==
  ASSUME IInv, Steady, NEW c \in Servers, Sends(c), Pushes(c)
  PROVE  lost' = lost
<1> DEFINE k == Len(Frame(c))
           w == scn.window[c]
           u == Cardinality(Unanswered(c))
           S == NetSize(c)
<1>1. c \in Clients /\ c # Serial /\ WireOK /\ S \in Nat \ {0}
  BY Sizes DEF IInv, TypeOK
<1>2. k \in Nat /\ net[c] \in NetBuffer(S)
  BY <1>1, FrameFacts DEF WireOK
<1>3. w \in Nat /\ w <= S /\ u \in Nat /\ net[c].size \in Nat /\ net[c].size <= u
  <2>1. /\ w \in Nat /\ w <= ChannelSize(c)
        /\ Len(InRx(c)) \in Nat /\ Len(InNet(c)) \in Nat /\ u \in Nat
        /\ Len(InRx(c)) + Len(InNet(c)) <= u
    BY <1>1, WithinSizes
  <2>2. InNet(c) = InBuffer(net[c], S) /\ ChannelSize(c) = S
    BY <1>1 DEF InNet, ChannelSize
  <2>3. Len(InNet(c)) = net[c].size
    BY <1>1, <1>2, <2>2, NetSeq
  <2> HIDE DEF w, u, S
  <2> QED
    BY <2>1, <2>2, <2>3
<1>4. u + k <= w
  BY DEF Sends
<1>5. lost' = [lost EXCEPT ![c] = lost[c] + IF Fits(k, net[c].size, S) THEN 0 ELSE k]
  BY DEF Pushes
<1> HIDE DEF k, w, u, S
<1>6. Fits(k, net[c].size, S)
  BY <1>1, <1>2, <1>3, <1>4 DEF Fits
<1>7. lost[c] \in Nat /\ lost \in [Clients -> Nat]
  BY <1>1 DEF WireOK
<1>8. lost[c] + 0 = lost[c]
  BY <1>7
<1> QED
  BY <1>5, <1>6, <1>7, <1>8

\* A polled byte within the window finds room in the ring.
LEMMA PollKeeps ==
  ASSUME IInv, Steady, PollByte
  PROVE  lost' = lost
<1>1. PICK c, b : Polled(c, b)
  BY PollByteTakes DEF IInv, TypeOK
<1>2. c \in Clients /\ InNet(c) # <<>> /\ PickedOff(c, b) /\ rx[c] \in Ring /\ InNet(c) \in Seq(Nat)
  BY <1>1, WireSeqs DEF Polled, IInv, TypeOK, RingsOK
<1>3. ~RxFull(rx[c])
  <2> SUFFICES ASSUME RxFull(rx[c])  PROVE FALSE
    OBVIOUS
  <2>1. Len(InRx(c)) = Period - 1 /\ Period \in Nat
    BY <1>2, FullRing, PeriodFacts DEF InRx
  <2>2. Len(InNet(c)) \in Nat \ {0}
    BY <1>2, EmptySeq
  <2> DEFINE w == scn.window[c]
             u == Cardinality(Unanswered(c))
             p == Len(InRx(c))
             q == Len(InNet(c))
  <2>3. w \in Nat /\ w <= Period - 1 /\ u \in Nat /\ p + q <= u /\ u <= w
    BY <1>2, WithinSizes
  <2> HIDE DEF w, u
  <2>4. p = Period - 1 /\ q \in Nat \ {0}
    BY <2>1, <2>2
  <2> HIDE DEF p, q
  <2> QED
    BY <2>1, <2>3, <2>4
<1> QED
  BY <1>2, <1>3 DEF PickedOff

\* No step loses a byte of a client that keeps to its window.
LEMMA NothingLostStep ==
  ASSUME IInv, NothingLost, [Next]_vars
  PROVE  NothingLost'
<1> SUFFICES ASSUME Steady  PROVE (\A c \in Clients : lost[c] = 0)'
  <2>1. Steady' <=> Steady
    BY ScnStays DEF Steady, Lossless
  <2> QED
    BY <2>1 DEF NothingLost
<1>1. \A c \in Clients : lost[c] = 0
  BY DEF NothingLost
<1>2. WebSocket \in Servers /\ Telnet \in Servers
  BY DEF Servers
<1>3. CASE UartReceive
  BY <1>1, <1>3, UartKeeps
<1>4. CASE SocketFrame
  BY <1>1, <1>2, <1>4, PushKeeps DEF SocketFrame
<1>5. CASE SocketFragment
  BY <1>5 DEF SocketFragment, Steady
<1>6. CASE TelnetData
  BY <1>1, <1>2, <1>6, PushKeeps DEF TelnetData
<1>7. CASE PollByte
  BY <1>1, <1>7, PollKeeps
<1> QED
  BY <1>1, <1>3, <1>4, <1>5, <1>6, <1>7, LostKept

\* No byte is lost when every client keeps the bytes it was not answered for within the sizes of its
\* channel: not in the UART's buffer, not in a server's, not in a ring that is full, for any sizes
\* (serial.cpp:159-172, telnet_server.cpp:146-161, serial2socket.cpp:112-126).
THEOREM NothingLostCorrect == Spec => []NothingLost
<1>1. Init => IInv /\ NothingLost
  <2>1. Init => NothingLost
    BY DEF Init, NothingLost
  <2> QED
    BY <2>1, IInvInit
<1>2. IInv /\ NothingLost /\ [Next]_vars => IInv' /\ NothingLost'
  BY IInvStep, NothingLostStep
<1> QED
  BY <1>1, <1>2, PTL DEF Spec

----------------------------------------------------------------------------
(* Answers, overrides and the telnet slot *)

\* Two parts that add up to nothing are empty.
LEMMA NoParts ==
  ASSUME NEW p \in Nat, NEW q \in Nat, p + q <= 0
  PROVE  q = 0
  OBVIOUS

\* A websocket that was never open is owed nothing.
LEMMA NeverOpened ==
  ASSUME IInv, ~scn.closes, ~socketOpen
  PROVE  text[WebSocket] = <<>> /\ tx.answers = <<>>
<1>0. WebSocket \in Clients
  BY Sizes DEF Servers
<1>1. text[WebSocket] = <<>>
  BY DEF IInv, OpenToSend
<1>2. got[WebSocket] \in Nat /\ answered[WebSocket] \in Nat /\ delivered[WebSocket] \in Seq(Nat)
      /\ tx.answers \in Seq(Nat)
  BY <1>0 DEF IInv, TypeOK, RingsOK, OutOK, Tx
<1>3. EolsTo(WebSocket, got[WebSocket]) = 0
  <2>1. Eols(WebSocket) = {}
    BY <1>1 DEF Eols
  <2>2. {m \in Eols(WebSocket) : m <= got[WebSocket]} = {}
    BY <2>1
  <2> QED
    BY <2>2, FS_EmptySet DEF EolsTo
<1>4. answered[WebSocket] = 0
  <2>1. answered[WebSocket] + (IF pc = "run" /\ client = WebSocket THEN 1 ELSE 0) <= 0
    BY <1>0, <1>3 DEF IInv, AnsweredAfterRead
  <2> QED
    BY <1>2, <2>1
<1>5. Len(Due(WebSocket)) <= 0
  BY <1>0, <1>4 DEF IInv, AnsweredAfterRead
<1>6. Len(tx.answers) = 0
  <2>1. Due(WebSocket) = delivered[WebSocket] \o tx.answers
    BY DEF Due
  <2>2. Len(Due(WebSocket)) = Len(delivered[WebSocket]) + Len(tx.answers)
    BY <1>2, <2>1, ConcatLen
  <2>3. PICK p \in Nat, q \in Nat : p = Len(delivered[WebSocket]) /\ q = Len(tx.answers)
    BY <1>2
  <2>4. p + q <= 0
    BY <1>5, <2>2, <2>3
  <2>5. q = 0
    BY <2>4, NoParts
  <2> QED
    BY <2>3, <2>5, Zenon
<1> QED
  BY <1>1, <1>2, <1>6, EmptySeq

\* What a step does to the answers.
Quiet == \A d \in Clients \ {Telnet} : Due(d)' = Due(d) /\ answered'[d] = answered[d]
AnswersOne(c) == /\ answered' = [answered EXCEPT ![c] = answered[c] + 1]
                 /\ \A d \in Clients \ {Telnet} :
                      Due(d)' = IF d = c THEN Append(Due(d), answered[c] + 1) ELSE Due(d)

\* What a quiet step, or one that answers one line, does to the answers.
LEMMA AnsweredNext ==
  ASSUME IInv, AnsweredOnce, scn' = scn, Quiet \/ \E c \in Clients : AnswersOne(c)
  PROVE  AnsweredOnce'
<1> SUFFICES ASSUME Steady, NEW d \in Clients \ {Telnet}
             PROVE  (Due(d) = [k \in 1 .. answered[d] |-> k])'
  <2>1. Steady' <=> Steady
    BY DEF Steady, Lossless
  <2> QED
    BY <2>1 DEF AnsweredOnce
<1>1. Due(d) = [k \in 1 .. answered[d] |-> k] /\ answered \in [Clients -> Nat]
  BY DEF AnsweredOnce, IInv, TypeOK, OutOK
<1>2. CASE Quiet
  BY <1>1, <1>2 DEF Quiet
<1>3. ASSUME NEW c \in Clients, AnswersOne(c)
      PROVE  (Due(d) = [k \in 1 .. answered[d] |-> k])'
  <2>1. CASE d = c
    <3> DEFINE n == answered[d]
               u == Due(d)
    <3>1. n \in Nat /\ u = [k \in 1 .. n |-> k]
      BY <1>1
    <3>2. Due(d)' = Append(u, n + 1) /\ answered'[d] = n + 1
      BY <1>1, <1>3, <2>1 DEF AnswersOne
    <3> HIDE DEF n, u
    <3>3. Append(u, n + 1) = [k \in 1 .. n + 1 |-> k]
      BY <3>1, Appended
    <3> QED
      BY <3>2, <3>3
  <2>2. CASE d # c
    <3>1. Due(d)' = Due(d) /\ answered'[d] = answered[d]
      BY <1>1, <1>3, <2>2 DEF AnswersOne
    <3> QED
      BY <1>1, <3>1
  <2> QED
    BY <2>1, <2>2
<1> QED
  BY <1>2, <1>3

\* A report is no answer.
LEMMA ReportQuiet ==
  ASSUME IInv, ~scn.closes, NEW c \in Clients, SendsOn(c, 0), answered' = answered
  PROVE  Quiet
<1> SUFFICES ASSUME NEW d \in Clients \ {Telnet}
             PROVE  Due(d)' = Due(d)
  BY DEF Quiet
<1>1. d = WebSocket /\ ~socketOpen => tx.answers = <<>>
  BY NeverOpened
<1> QED
  BY <1>1 DEF SendsOn

\* An answer is one answer, to its client alone.
LEMMA AnswerOne ==
  ASSUME IInv, ~scn.closes, NEW c \in Clients, text[c] # <<>>, Answer(c)
  PROVE  AnswersOne(c)
<1>1. OutOK /\ socketOpen \in BOOLEAN /\ answered \in [Clients -> Nat]
  BY DEF IInv, TypeOK, ChannelOK, OutOK
<1>2. Send(c, answered[c] + 1) /\ answered' = [answered EXCEPT ![c] = answered[c] + 1]
  BY DEF Answer
<1>3. answered[c] + 1 \in Nat /\ answered[c] + 1 # 0
  BY <1>1
<1>4. answered' \in [Clients -> Nat]
  BY <1>1, <1>2, <1>3
<1>5. SendsOn(c, answered[c] + 1)
  BY <1>1, <1>2, <1>3, <1>4, SendFacts
<1>6. \A d \in Clients \ {Telnet} : Due(d)' = IF d = c THEN Append(Due(d), answered[c] + 1) ELSE Due(d)
  <2> TAKE d \in Clients \ {Telnet}
  <2>1. d = WebSocket /\ ~socketOpen => tx.answers = <<>> /\ ~(d = c /\ answered[c] + 1 # 0)
    BY NeverOpened
  <2> QED
    BY <1>3, <1>5, <2>1 DEF SendsOn
<1> QED
  BY <1>2, <1>6 DEF AnswersOne

\* Reading a byte answers at most the one line it ends.
LEMMA ReadAnswers ==
  ASSUME IInv, ~scn.closes, Read
  PROVE  Quiet \/ \E c \in Clients : AnswersOne(c)
<1>1. PICK c \in Clients : c = Reading /\ c \in Readable
  BY FirstReadable DEF Read, Readable
<1>2. UNCHANGED <<out, answered>> \/ Answer(c)
  BY <1>1 DEF Read, EndOfLine
<1>3. text[c] # <<>>
  <2> DEFINE R == InRx(c)
  <2>1. R \in Seq(Nat) /\ got[c] \in Nat /\ rx[c] \in Ring /\ ~RxEmpty(rx[c]) /\ text[c] \in Seq(Kinds)
    BY <1>1, RingSeqs DEF Readable, HasData, IInv, TypeOK, RingsOK, WireOK
  <2>2. R # <<>>
    BY <2>1, RingTake DEF InRx
  <2>3. Parts(got[c], R, InNet(c), Len(text[c]))
    BY DEF IInv, Way
  <2> HIDE DEF R
  <2>4. 1 \in 1 .. Len(R) /\ R[1] \in Nat
    BY <2>1, <2>2, ElementOfSeq
  <2>5. got[c] < R[1] /\ R[1] <= Len(text[c])
    BY <2>3, <2>4 DEF Parts
  <2>6. Len(text[c]) # 0
    <3>1. PICK x \in Nat, y \in Nat, z \in Nat : x = got[c] /\ y = R[1] /\ z = Len(text[c])
      BY <2>1, <2>4
    <3>2. x < y /\ y <= z
      BY <2>5, <3>1
    <3> QED
      BY <3>1, <3>2
  <2> QED
    BY <2>6
<1>4. CASE Answer(c)
  BY <1>3, <1>4, AnswerOne
<1>5. CASE UNCHANGED <<out, answered>>
  <2>1. \A d \in Clients : Due(d)' = Due(d) /\ answered'[d] = answered[d]
    BY <1>5, OutKept DEF IInv
  <2> QED
    BY <2>1 DEF Quiet
<1> QED
  BY <1>2, <1>4, <1>5

\* A line that is done is answered once.
LEMMA LineDoneAnswers ==
  ASSUME IInv, ~scn.closes, LineDone
  PROVE  \E c \in Clients : AnswersOne(c)
<1>1. PICK c \in Clients : c = client
  BY DEF IInv, TypeOK, MainOK
<1>2. Answer(c) /\ pc = "run"
  BY <1>1 DEF LineDone
<1>3. text[c] # <<>>
  <2> SUFFICES ASSUME text[c] = <<>>  PROVE FALSE
    OBVIOUS
  <2>1. Eols(c) = {}
    BY DEF Eols
  <2>2. {m \in Eols(c) : m <= got[c]} = {}
    BY <2>1
  <2>3. EolsTo(c, got[c]) = 0
    BY <2>2, FS_EmptySet DEF EolsTo
  <2>4. answered[c] + 1 <= 0
    BY <1>1, <1>2, <2>3 DEF IInv, AnsweredAfterRead
  <2>5. answered[c] \in Nat
    BY DEF IInv, TypeOK, OutOK
  <2> QED
    BY <2>4, <2>5
<1> QED
  BY <1>2, <1>3, AnswerOne

\* The other steps write nothing.
LEMMA OthersQuiet ==
  ASSUME [Next]_vars, ~PollByte, ~PollEnds, ~Read, ~LineDone, ~Reinit
  PROVE  tx' = tx /\ delivered' = delivered /\ answered' = answered
  BY DEF Next, Network, Poll, Main, vars, out, UartReceive, SocketFrame, SocketFragment, TelnetData, Sends,
         SocketOpens, SocketCloses, TelnetConnect, TelnetDrops, TelnetDisconnected, ChannelOnly,
         FlushTimePasses, PollStarts, RunPass, Idle

\* Every step keeps the answers in order and single.
LEMMA AnsweredOnceStep ==
  ASSUME IInv, AnsweredOnce, [Next]_vars
  PROVE  AnsweredOnce'
<1>0. scn' = scn
  BY ScnStays
<1>1. CASE ~Steady
  <2>1. ~Steady'
    BY <1>0, <1>1 DEF Steady, Lossless
  <2> QED
    BY <2>1 DEF AnsweredOnce
<1>2. CASE Steady
  <2>0. ~scn.closes /\ OutOK /\ socketOpen \in BOOLEAN /\ WebSocket \in Clients
    BY <1>2, Sizes DEF Steady, IInv, TypeOK, ChannelOK, Servers
  <2>1. CASE PollByte
    <3>1. PICK c, b : Polled(c, b)
      BY <2>1, PollByteTakes DEF IInv, TypeOK
    <3>2. c \in Clients /\ answered' = answered /\ (UNCHANGED out \/ Send(c, 0))
      BY <3>1 DEF Polled, PickedOff
    <3>3. CASE UNCHANGED out
      <4>1. Quiet
        BY <3>2, <3>3 DEF Quiet, Due, out
      <4> QED
        BY <1>0, <4>1, AnsweredNext
    <3>4. CASE Send(c, 0)
      <4>1. answered' \in [Clients -> Nat]
        BY <3>2, <2>0 DEF OutOK
      <4>2. SendsOn(c, 0)
        BY <2>0, <3>2, <3>4, <4>1, SendFacts
      <4>3. Quiet
        BY <2>0, <3>2, <4>2, ReportQuiet
      <4> QED
        BY <1>0, <4>3, AnsweredNext
    <3> QED
      BY <3>2, <3>3, <3>4
  <2>2. CASE PollEnds
    <3>1. Take(HandleFlush(tx, stale)) /\ answered' = answered
      BY <2>2 DEF PollEnds
    <3>2. SendsOn(WebSocket, 0)
      <4> DEFINE h == HandleFlush(tx, stale)
      <4>1. tx \in Tx /\ stale \in BOOLEAN /\ answered' \in [Clients -> Nat]
        BY <3>1, <2>0 DEF OutOK
      <4> HIDE DEF h
      <4>2. /\ h.tx \in Tx /\ TxLen(h.tx) < TxSize /\ h.stale \in BOOLEAN /\ h.flushed \in Seq(Nat)
            /\ h.flushed \o h.tx.answers = tx.answers
        BY <4>1, FlushFacts DEF h
      <4>3. Take(h)
        BY <3>1 DEF h
      <4> QED
        BY <2>0, <4>1, <4>2, <4>3, TakenOn
    <3>3. Quiet
      BY <2>0, <3>1, <3>2, ReportQuiet
    <3> QED
      BY <1>0, <3>3, AnsweredNext
  <2>3. CASE Read
    BY <1>0, <2>0, <2>3, ReadAnswers, AnsweredNext
  <2>4. CASE LineDone
    BY <1>0, <2>0, <2>4, LineDoneAnswers, AnsweredNext
  <2>5. CASE Reinit
    <3>1. Send(WebSocket, 0) /\ answered' = answered
      BY <2>5 DEF Reinit, Send
    <3>2. answered' \in [Clients -> Nat]
      BY <3>1, <2>0 DEF OutOK
    <3>3. SendsOn(WebSocket, 0)
      BY <2>0, <3>1, <3>2, SendFacts
    <3>4. Quiet
      BY <2>0, <3>1, <3>3, ReportQuiet
    <3> QED
      BY <1>0, <3>4, AnsweredNext
  <2>6. CASE ~PollByte /\ ~PollEnds /\ ~Read /\ ~LineDone /\ ~Reinit
    <3>1. tx' = tx /\ delivered' = delivered /\ answered' = answered
      BY <2>6, OthersQuiet
    <3>2. Quiet
      BY <3>1 DEF Quiet, Due
    <3> QED
      BY <1>0, <3>2, AnsweredNext
  <2> QED
    BY <2>1, <2>2, <2>3, <2>4, <2>5, <2>6
<1> QED
  BY <1>1, <1>2

\* Initially nothing is answered.
LEMMA AnsweredOnceInit ==
  ASSUME Init
  PROVE  AnsweredOnce
<1> SUFFICES ASSUME NEW c \in Clients  PROVE Due(c) = [k \in 1 .. answered[c] |-> k]
  BY DEF AnsweredOnce
<1>1. delivered[c] = <<>> /\ tx.answers = <<>> /\ answered[c] = 0
  BY DEF Init, Nothing
<1>2. Due(c) = <<>> \o <<>>
  BY <1>1 DEF Due
<1>3. <<>> \in Seq(Nat) /\ Len(<<>>) = 0
  OBVIOUS
<1>4. Due(c) \in Seq(Nat) /\ Len(Due(c)) = 0
  BY <1>2, <1>3, ConcatLen
<1> DEFINE u == [k \in 1 .. 0 |-> k]
<1>5. u \in [1 .. 0 -> Nat] /\ 0 \in Nat
  OBVIOUS
<1> HIDE DEF u
<1>6. u \in Seq(Nat) /\ Len(u) = 0
  BY <1>5, MakeSeq
<1>7. Due(c) = <<>> /\ u = <<>>
  BY <1>4, <1>6, EmptySeq
<1> QED
  BY <1>1, <1>7 DEF u

\* While no websocket closes, each client other than telnet gets the answers to its lines once, in
\* order, and its own: what was delivered and what waits in the transmit buffer are answers 1, ..., n
\* (protocol.cpp:78-111, serial2socket.cpp:87-105, 138-160).
THEOREM AnsweredOnceCorrect == Spec => []AnsweredOnce
<1>1. Init => IInv /\ AnsweredOnce
  BY IInvInit, AnsweredOnceInit
<1>2. IInv /\ AnsweredOnce /\ [Next]_vars => IInv' /\ AnsweredOnce'
  BY IInvStep, AnsweredOnceStep
<1> QED
  BY <1>1, <1>2, PTL DEF Spec

----------------------------------------------------------------------------

\* Without a command that raises it, the feed override does not rise from above its minimum.
LEMMA NoRise ==
  ASSUME NEW f \in 11 .. 200, NEW fl, fl \cap {"feedReset", "coarsePlus", "finePlus"} = {}
  PROVE  ~(NewFeed(f, fl) > f)
<1>1. Given(fl, "coarsePlus", 10) = 0 /\ Given(fl, "finePlus", 1) = 0 /\ "feedReset" \notin fl
  BY DEF Given
<1>2. PICK b \in {0, 10}, d \in {0, 1} : b = Given(fl, "coarseMinus", 10) /\ d = Given(fl, "fineMinus", 1)
  BY DEF Given
<1>3. NewFeed(f, fl) = Cut((f + 0 - b + 0 - d) % 256, 10, 200)
  BY <1>1, <1>2 DEF NewFeed
<1>4. f + 0 - b + 0 - d = f - b - d /\ f - b - d \in 0 .. 200
  BY <1>2
<1>5. (f - b - d) % 256 = f - b - d
  BY <1>4
<1>6. NewFeed(f, fl) = Cut(f - b - d, 10, 200)
  BY <1>3, <1>4, <1>5
<1> QED
  BY <1>4, <1>6 DEF Cut

\* Only a pass of the realtime executor and a restart change the feed override.
LEMMA FeedKept ==
  ASSUME [Next]_vars, ~Read, ~RunPass, ~Idle, ~Reinit
  PROVE  feed' = feed
  BY DEF Next, Network, Poll, Main, vars, override, UartReceive, SocketFrame, SocketFragment, TelnetData, Sends,
         SocketOpens, SocketCloses, TelnetConnect, TelnetDrops, TelnetDisconnected, ChannelOnly,
         FlushTimePasses, PollStarts, PollByte, PickedOff, PollEnds, LineDone

\* No step raises the feed override unasked.
LEMMA NoUnaskedRiseStep ==
  ASSUME IInv, [Next]_vars
  PROVE  feed' > feed /\ feed > 10 /\ pc # "init" => asked
<1> SUFFICES ASSUME feed' > feed, feed > 10, pc # "init", ~asked  PROVE FALSE
  OBVIOUS
<1>1. feed \in 11 .. 200
  BY DEF IInv, TypeOK, OverrideOK
<1>2. pending \cap {"feedReset", "coarsePlus", "finePlus"} = {}
  BY DEF IInv, RisesAsked
<1>3. ~(NewFeed(feed, pending) > feed) /\ ~(feed > feed)
  BY <1>1, <1>2, NoRise
<1>4. ~Pass
  BY <1>3 DEF Pass, override
<1>5. Read \/ RunPass \/ Idle \/ Reinit
  BY <1>3, FeedKept
<1>6. ~Reinit /\ ~RunPass /\ ~Idle
  BY <1>4 DEF Reinit, RunPass, Idle
<1>7. ~Read
  BY <1>3, <1>4 DEF Read, EndOfLine, override
<1> QED
  BY <1>5, <1>6, <1>7

\* The feed override never rises from above its minimum without a command that asks for it
\* (protocol.cpp:408-420, serial.cpp:120-158).
THEOREM NoUnaskedRiseCorrect == Spec => NoUnaskedRise
<1>1. Init => IInv
  BY IInvInit
<1>2. IInv /\ [Next]_vars => IInv'
  BY IInvStep
<1>3. IInv /\ [Next]_vars => [feed' > feed /\ feed > 10 /\ pc # "init" => asked]_vars
  BY NoUnaskedRiseStep
<1> QED
  BY <1>1, <1>2, <1>3, PTL DEF Spec, NoUnaskedRise

\* Only a connection accepted, or taken off, changes the telnet slot.
LEMMA SlotKept ==
  ASSUME [Next]_vars, ~TelnetConnect, \A k \in DOMAIN conn : ~TelnetDisconnected(k)
  PROVE  slot' = slot
  BY DEF Next, Network, Poll, Main, vars, channel, UartReceive, SocketFrame, SocketFragment, TelnetData, Sends,
         SocketOpens, SocketCloses, TelnetDrops,
         FlushTimePasses, PollStarts, PollByte, PickedOff, PollEnds, Read, RunPass, LineDone, Idle, Reinit

\* No step takes the slot of an accepted connection that is open.
LEMMA AcceptedKeepsSlotStep ==
  ASSUME IInv, [Next]_vars
  PROVE  Slotted /\ conn'[slot] = "open" => slot' = slot
<1> SUFFICES ASSUME Slotted, conn'[slot] = "open"  PROVE slot' = slot
  OBVIOUS
<1>1. conn \in Seq({"open", "lost", "closed"}) /\ slot \in DOMAIN conn
  BY DEF IInv, TypeOK, ChannelOK, Slotted
<1>2. CASE TelnetConnect
  BY <1>2 DEF TelnetConnect
<1>3. ASSUME NEW k \in DOMAIN conn, TelnetDisconnected(k)
      PROVE  slot' = slot
  <2>1. conn' = [conn EXCEPT ![k] = "closed"] /\ slot' = IF slot = k THEN 0 ELSE slot
    BY <1>3 DEF TelnetDisconnected, SlotAfter
  <2>2. slot = k => conn'[slot] = "closed"
    BY <1>1, <2>1
  <2> QED
    BY <2>1, <2>2
<1> QED
  BY <1>2, <1>3, SlotKept

\* A telnet connection that was accepted keeps its slot while it is open (telnet_server.cpp:81-118).
THEOREM AcceptedKeepsSlotCorrect == Spec => AcceptedKeepsSlot
<1>1. Init => IInv
  BY IInvInit
<1>2. IInv /\ [Next]_vars => IInv'
  BY IInvStep
<1>3. IInv /\ [Next]_vars => [Slotted /\ conn'[slot] = "open" => slot' = slot]_vars
  BY AcceptedKeepsSlotStep
<1> QED
  BY <1>1, <1>2, <1>3, PTL DEF Spec, AcceptedKeepsSlot

----------------------------------------------------------------------------
(* A line: what is visible of its text, and what is assembled of it *)

\* The end of line that starts a line is the greatest before it.
LEMMA LineStartSame ==
  ASSUME NEW t, NEW u, NEW p \in Int, NEW q \in Int,
         \A m : m \in DOMAIN t /\ t[m] = "eol" /\ m < p <=> m \in DOMAIN u /\ u[m] = "eol" /\ m < q
  PROVE  LineStart(u, q) = LineStart(t, p)
<1> DEFINE A == {m \in DOMAIN t : t[m] = "eol" /\ m < p}
           B == {m \in DOMAIN u : u[m] = "eol" /\ m < q}
<1>1. A = B
  OBVIOUS
<1>2. LineStart(t, p) = IF A = {} THEN 1 ELSE 1 + CHOOSE m \in A : \A k \in A : k <= m
  BY DEF LineStart
<1>3. LineStart(u, q) = IF B = {} THEN 1 ELSE 1 + CHOOSE m \in B : \A k \in B : k <= m
  BY DEF LineStart
<1> HIDE DEF A, B
<1> QED
  BY <1>1, <1>2, <1>3

\* Two texts that are the same before a place.
SameBefore(t, u, n) == n - 1 <= Len(t) /\ n - 1 <= Len(u) /\ \A k \in 1 .. n - 1 : u[k] = t[k]

\* What is visible of a line stays so when text is added.
LEMMA SameText ==
  ASSUME NEW t \in Seq(Kinds), NEW u \in Seq(Kinds), NEW n \in Nat \ {0}, SameBefore(t, u, n),
         NEW s \in 1 .. n, s = LineStart(t, n)
  PROVE  /\ LineStart(u, n) = s /\ Visible(u, n) = Visible(t, n)
         /\ InParentheses(u, s, n) <=> InParentheses(t, s, n)
         /\ AfterSemicolon(u, s, n) <=> AfterSemicolon(t, s, n)
<1>0. /\ DOMAIN t = 1 .. Len(t) /\ DOMAIN u = 1 .. Len(u) /\ Len(t) \in Nat /\ Len(u) \in Nat
      /\ n - 1 <= Len(t) /\ n - 1 <= Len(u) /\ \A k \in 1 .. n - 1 : u[k] = t[k]
  BY DEF SameBefore
<1>1. LineStart(u, n) = s
  <2>1. \A m : m \in DOMAIN t /\ t[m] = "eol" /\ m < n <=> m \in DOMAIN u /\ u[m] = "eol" /\ m < n
    BY <1>0
  <2> QED
    BY <2>1, LineStartSame
<1>2. \A k \in s .. n - 1 : u[k] = t[k]
  BY <1>0
<1>3. \A i \in s .. n : InParentheses(u, s, i) <=> InParentheses(t, s, i)
  <2> TAKE i \in s .. n
  <2>1. \A j \in s .. i - 1 : u[j] = t[j] /\ \A k \in j .. i - 1 : u[k] = t[k]
    BY <1>2
  <2>2. ASSUME NEW j \in s .. i - 1
        PROVE  (u[j] = "open" /\ \A k \in j .. i - 1 : u[k] # "close")
                 <=> (t[j] = "open" /\ \A k \in j .. i - 1 : t[k] # "close")
    BY <2>1
  <2> QED
    BY <2>2, Zenon DEF InParentheses
<1>4. \A i \in s .. n : AfterSemicolon(u, s, i) <=> AfterSemicolon(t, s, i)
  <2> TAKE i \in s .. n
  <2>1. \A j \in s .. i - 1 : j \in s .. n /\ u[j] = t[j]
    BY <1>2
  <2> QED
    BY <1>3, <2>1, Zenon DEF AfterSemicolon
<1>5. Visible(u, n) = Visible(t, n)
  <2> DEFINE See(v, i) == /\ v[i] \notin Realtime \cup {"blank", "open", "semicolon"}
                          /\ ~InParentheses(v, s, i) /\ ~AfterSemicolon(v, s, i)
  <2>1. Visible(u, n) = {i \in s .. n - 1 : See(u, i)} /\ Visible(t, n) = {i \in s .. n - 1 : See(t, i)}
    BY <1>1 DEF Visible
  <2>2. \A i \in s .. n - 1 : i \in s .. n
    OBVIOUS
  <2>3. \A i \in s .. n - 1 : See(u, i) <=> See(t, i)
    BY <1>2, <1>3, <1>4, <2>2
  <2> HIDE DEF See
  <2> QED
    BY <2>1, <2>3
<1>6. n \in s .. n
  OBVIOUS
<1> QED
  BY <1>1, <1>3, <1>4, <1>5, <1>6

\* So it does when realtime commands come next.
LEMMA SameLine ==
  ASSUME NEW t \in Seq(Kinds), NEW p \in Nat \ {0}, NEW q \in Nat, p <= q, q - 1 <= Len(t),
         \A k \in p .. q - 1 : t[k] \in Realtime,
         NEW s \in 1 .. p, s = LineStart(t, p)
  PROVE  /\ LineStart(t, q) = s /\ Visible(t, q) = Visible(t, p)
         /\ InParentheses(t, s, q) <=> InParentheses(t, s, p)
         /\ AfterSemicolon(t, s, q) <=> AfterSemicolon(t, s, p)
<1>0. DOMAIN t = 1 .. Len(t) /\ Len(t) \in Nat
  OBVIOUS
<1>1. \A k \in p .. q - 1 : t[k] \notin {"eol", "open", "close", "semicolon"}
  BY DEF Realtime, Feed, Rapid
<1>2. LineStart(t, q) = s
  <2>1. \A m : m \in DOMAIN t /\ t[m] = "eol" /\ m < p <=> m \in DOMAIN t /\ t[m] = "eol" /\ m < q
    BY <1>0, <1>1
  <2> QED
    BY <2>1, LineStartSame
<1>3. InParentheses(t, s, q) <=> InParentheses(t, s, p)
  <2>1. ASSUME NEW j \in s .. q - 1, t[j] = "open", \A k \in j .. q - 1 : t[k] # "close"
        PROVE  InParentheses(t, s, p)
    <3>1. j \in s .. p - 1 /\ \A k \in j .. p - 1 : k \in j .. q - 1
      BY <1>1, <2>1
    <3> QED
      BY <2>1, <3>1 DEF InParentheses
  <2>2. ASSUME NEW j \in s .. p - 1, t[j] = "open", \A k \in j .. p - 1 : t[k] # "close"
        PROVE  InParentheses(t, s, q)
    <3>1. j \in s .. q - 1
      OBVIOUS
    <3>2. \A k \in j .. q - 1 : t[k] # "close"
      BY <1>1, <2>2
    <3> QED
      BY <2>2, <3>1, <3>2 DEF InParentheses
  <2> QED
    BY <2>1, <2>2 DEF InParentheses
<1>4. AfterSemicolon(t, s, q) <=> AfterSemicolon(t, s, p)
  <2>1. \A j \in s .. q - 1 : t[j] = "semicolon" => j \in s .. p - 1
    BY <1>1
  <2>2. \A j \in s .. p - 1 : j \in s .. q - 1
    OBVIOUS
  <2> QED
    BY <2>1, <2>2 DEF AfterSemicolon
<1>5. Visible(t, q) = Visible(t, p)
  <2> DEFINE See(i) == /\ t[i] \notin Realtime \cup {"blank", "open", "semicolon"}
                       /\ ~InParentheses(t, s, i) /\ ~AfterSemicolon(t, s, i)
  <2>1. Visible(t, q) = {i \in s .. q - 1 : See(i)} /\ Visible(t, p) = {i \in s .. p - 1 : See(i)}
    BY <1>2 DEF Visible
  <2>2. \A i \in s .. p - 1 : i \in s .. q - 1
    OBVIOUS
  <2>3. \A i \in s .. q - 1 : See(i) => i \in s .. p - 1
    OBVIOUS
  <2> HIDE DEF See
  <2> QED
    BY <2>1, <2>2, <2>3
<1> QED
  BY <1>2, <1>3, <1>4, <1>5

\* A byte that is read: whether it is visible, and what comes after it.
Shown(t, s, b) == /\ t[b] \notin Realtime \cup {"blank", "open", "semicolon"}
                  /\ ~InParentheses(t, s, b) /\ ~AfterSemicolon(t, s, b)

\* A byte ends no comment but by a closing parenthesis, and is visible where none is open.
LEMMA NextByte ==
  ASSUME NEW t \in Seq(Kinds), NEW b \in 1 .. Len(t), t[b] # "eol", NEW s \in 1 .. b, s = LineStart(t, b)
  PROVE  /\ LineStart(t, b + 1) = s
         /\ Visible(t, b + 1) = Visible(t, b) \cup (IF Shown(t, s, b) THEN {b} ELSE {})
         /\ InParentheses(t, s, b + 1) <=> t[b] = "open" \/ (InParentheses(t, s, b) /\ t[b] # "close")
         /\ AfterSemicolon(t, s, b + 1) <=> \/ AfterSemicolon(t, s, b)
                                            \/ t[b] = "semicolon" /\ ~InParentheses(t, s, b)
         /\ Visible(t, b) \subseteq 1 .. b - 1
<1>0. b \in Nat /\ s \in Nat /\ DOMAIN t = 1 .. Len(t)
  OBVIOUS
<1>1. LineStart(t, b + 1) = s
  <2>1. \A m : m \in DOMAIN t /\ t[m] = "eol" /\ m < b <=> m \in DOMAIN t /\ t[m] = "eol" /\ m < b + 1
    BY <1>0
  <2> QED
    BY <2>1, LineStartSame
<1>2. s .. (b + 1) - 1 = (s .. b - 1) \cup {b}
  BY <1>0
<1>3. /\ Visible(t, b) = {i \in s .. b - 1 : Shown(t, s, i)}
      /\ Visible(t, b + 1) = {i \in (s .. b - 1) \cup {b} : Shown(t, s, i)}
  BY <1>1, <1>2 DEF Visible, Shown
<1>4. InParentheses(t, s, b + 1) <=> t[b] = "open" \/ (InParentheses(t, s, b) /\ t[b] # "close")
  <2>1. CASE t[b] = "close"
    <3>1. \A j \in s .. (b + 1) - 1 : b \in j .. (b + 1) - 1
      BY <1>0
    <3> QED
      BY <2>1, <3>1 DEF InParentheses
  <2>2. CASE t[b] = "open"
    <3>1. b \in s .. (b + 1) - 1 /\ \A k \in b .. (b + 1) - 1 : t[k] # "close"
      BY <1>0, <2>2
    <3> QED
      BY <2>2, <3>1 DEF InParentheses
  <2>3. CASE t[b] \notin {"close", "open"}
    <3>1. \A j \in s .. (b + 1) - 1 : t[j] = "open" => j \in s .. b - 1
      BY <1>2, <2>3
    <3>2. \A j \in s .. b - 1 : j \in s .. (b + 1) - 1 /\ j .. (b + 1) - 1 = (j .. b - 1) \cup {b}
      BY <1>0
    <3> QED
      BY <2>3, <3>1, <3>2 DEF InParentheses
  <2> QED
    BY <2>1, <2>2, <2>3
<1>5. AfterSemicolon(t, s, b + 1) <=> AfterSemicolon(t, s, b) \/ (t[b] = "semicolon" /\ ~InParentheses(t, s, b))
  BY <1>2 DEF AfterSemicolon
<1> QED
  BY <1>0, <1>1, <1>3, <1>4, <1>5

\* After an end of line a new line starts, of which nothing is visible yet.
LEMMA NewLine ==
  ASSUME NEW t \in Seq(Kinds), NEW b \in 0 .. Len(t), b = 0 \/ t[b] = "eol"
  PROVE  /\ LineStart(t, b + 1) = b + 1 /\ Visible(t, b + 1) = {}
         /\ ~InParentheses(t, b + 1, b + 1) /\ ~AfterSemicolon(t, b + 1, b + 1)
<1>0. b \in Nat /\ DOMAIN t = 1 .. Len(t)
  OBVIOUS
<1> DEFINE before == {m \in DOMAIN t : t[m] = "eol" /\ m < b + 1}
<1>1. LineStart(t, b + 1) = b + 1
  <2>1. CASE b = 0
    <3>1. before = {}
      BY <1>0, <2>1
    <3> QED
      BY <2>1, <3>1 DEF LineStart
  <2>2. CASE b # 0
    <3>1. b \in before /\ \A k \in before : k \in Nat /\ k <= b
      BY <1>0, <2>2
    <3> HIDE DEF before
    <3>2. \A m \in before : (\A k \in before : k <= m) => m = b
      BY <1>0, <3>1
    <3>3. (CHOOSE m \in before : \A k \in before : k <= m) = b
      BY <3>1, <3>2
    <3>4. before # {}
      BY <3>1
    <3>5. 1 + b = b + 1
      BY <1>0
    <3>6. LineStart(t, b + 1) = 1 + (CHOOSE m \in before : \A k \in before : k <= m)
      BY <3>4 DEF LineStart, before
    <3> QED
      BY <3>3, <3>5, <3>6
  <2> QED
    BY <2>1, <2>2
<1>2. (b + 1) .. (b + 1) - 1 = {}
  BY <1>0
<1> QED
  BY <1>1, <1>2 DEF Visible, InParentheses, AfterSemicolon

\* A byte that is put into a line is said by it.
LEMMA SaysAppend ==
  ASSUME NEW l \in Line, NEW c \in Clients, NEW b \in Nat \ {0}, NEW V \in SUBSET (1 .. b - 1), Says(l, c, V)
  PROVE  Says(Append(l, <<c, b>>), c, V \cup {b})
<1> DEFINE e == <<c, b>>
           m == Append(l, e)
<1>1. e \in Clients \X Nat /\ e[1] = c /\ e[2] = b
  OBVIOUS
<1> HIDE DEF e
<1>2. PICK n \in Nat : n = Len(l) /\ DOMAIN l = 1 .. n
  BY DEF Line
<1>3. m \in Line /\ Len(m) = n + 1 /\ DOMAIN m = 1 .. n + 1 /\ m[n + 1] = e /\ \A i \in 1 .. n : m[i] = l[i]
  BY <1>1, <1>2, AppendProperties DEF Line
<1> HIDE DEF m
<1>4. IsFiniteSet(V) /\ b \notin V
  <2>1. b - 1 \in Nat
    OBVIOUS
  <2>2. IsFiniteSet(1 .. b - 1)
    BY <2>1, UpTo
  <2>3. IsFiniteSet(V)
    BY <2>2, FS_Subset
  <2> QED
    BY <2>3
<1>5. Cardinality(V \cup {b}) = n + 1
  BY <1>2, <1>4, FS_AddElement DEF Says
<1>6. \A i \in DOMAIN m : m[i][1] = c /\ m[i][2] \in V \cup {b}
  <2> TAKE i \in DOMAIN m
  <2>1. CASE i = n + 1
    BY <1>1, <1>3, <2>1
  <2>2. CASE i # n + 1
    BY <1>2, <1>3, <2>2 DEF Says
  <2> QED
    BY <2>1, <2>2
<1>7. \A i, j \in DOMAIN m : i < j => m[i][2] < m[j][2]
  <2> TAKE i, j \in DOMAIN m
  <2> HAVE i < j
  <2>1. i \in 1 .. n /\ m[i] = l[i] /\ l[i][2] \in V
    BY <1>2, <1>3 DEF Says
  <2>2. CASE j = n + 1
    <3>1. m[j][2] = b
      BY <1>1, <1>3, <2>2
    <3>2. l[i][2] \in 1 .. b - 1
      BY <2>1
    <3> QED
      BY <2>1, <3>1, <3>2
  <2>3. CASE j # n + 1
    <3>1. j \in 1 .. n /\ m[j] = l[j]
      BY <1>3, <2>3
    <3> QED
      BY <1>2, <2>1, <3>1 DEF Says
  <2> QED
    BY <2>2, <2>3
<1> QED
  BY <1>3, <1>5, <1>6, <1>7 DEF Says, m, e

\* What is visible only grows.
LEMMA VisibleGrows ==
  ASSUME NEW b \in Nat \ {0}, NEW V \in SUBSET (1 .. b - 1), NEW W \in {V, V \cup {b}}
  PROVE  /\ Cardinality(V) \in Nat /\ Cardinality(W) \in Nat /\ Cardinality(V) <= Cardinality(W)
         /\ W = V \cup {b} => Cardinality(W) = Cardinality(V) + 1
<1>1. b - 1 \in Nat /\ b \notin V
  OBVIOUS
<1>2. IsFiniteSet(V)
  BY <1>1, UpTo, FS_Subset
<1>3. Cardinality(V) \in Nat /\ Cardinality(V \cup {b}) = Cardinality(V) + 1
  BY <1>1, <1>2, FS_AddElement, FS_CardinalityType
<1>4. CASE W = V
  <2>1. W # V \cup {b}
    BY <1>1, <1>4
  <2> QED
    BY <1>3, <1>4, <2>1
<1>5. CASE W = V \cup {b}
  BY <1>3, <1>5
<1> QED
  BY <1>4, <1>5

\* The elements of a sequence, of its tail and of one with an element behind.
LEMMA AmongTail ==
  ASSUME NEW s \in Seq(Nat), s # <<>>, NEW n, Among(n, s), n # Head(s)
  PROVE  Among(n, Tail(s))
<1>1. PICK i \in DOMAIN s : s[i] = n
  BY DEF Among
<1> DEFINE T == Tail(s)
<1>2. T \in Seq(Nat) /\ Len(T) = Len(s) - 1 /\ \A k \in 1 .. Len(T) : T[k] = s[k + 1]
  BY HeadTailProperties
<1>3. i \in 1 .. Len(s) /\ Len(s) \in Nat /\ Head(s) = s[1]
  OBVIOUS
<1> HIDE DEF T
<1>4. i # 1
  BY <1>1, <1>3
<1>5. i - 1 \in 1 .. Len(T) /\ (i - 1) + 1 = i /\ DOMAIN T = 1 .. Len(T)
  BY <1>2, <1>3, <1>4
<1>6. T[i - 1] = n
  BY <1>1, <1>2, <1>5
<1> QED
  BY <1>5, <1>6 DEF Among, T

\* An element put behind a sequence is in it, and so are those that were.
LEMMA AmongAppend ==
  ASSUME NEW s \in Seq(Nat), NEW b \in Nat, NEW n, Among(n, s) \/ n = b
  PROVE  Among(n, Append(s, b))
<1> DEFINE A == Append(s, b)
<1>1. A \in Seq(Nat) /\ Len(A) = Len(s) + 1 /\ A[Len(s) + 1] = b /\ \A i \in 1 .. Len(s) : A[i] = s[i]
  BY AppendProperties
<1>2. Len(s) \in Nat /\ DOMAIN s = 1 .. Len(s)
  OBVIOUS
<1> HIDE DEF A
<1>3. DOMAIN A = 1 .. Len(s) + 1
  BY <1>1
<1> QED
  BY <1>1, <1>2, <1>3 DEF Among, A

----------------------------------------------------------------------------
(* A packet none of which is lost *)

\* Its bytes are behind those that were before the ring.
Joins(c) ==
  /\ \A n : Among(n, InNet(c)) => Among(n, InNet(c)')
  /\ \A n \in Len(text[c]) + 1 .. Len(text[c]) + Len(Frame(c)) : Among(n, InNet(c)')

\* A packet that makes what is before the ring longer by its length is there whole.
LEMMA TackedJoins ==
  ASSUME WireOK, WireOK', NEW c \in Clients, Sends(c), Arrives(c), Len(InNet(c)') = Len(InNet(c)) + Len(Frame(c))
  PROVE  Joins(c)
<1> DEFINE N == InNet(c)
           M == InNet(c)'
           l == Len(text[c])
           k == Len(Frame(c))
<1>1. N \in Seq(Nat) /\ M \in Seq(Nat) /\ l \in Nat /\ k \in Nat
  <2>1. \A d \in Clients : InNet(d)' \in Seq(Nat)
    BY WireSeqsNext
  <2> QED
    BY <2>1, WireSeqs, FrameFacts DEF WireOK
<1>2. Tacked(N, M, l, k) /\ Len(M) = Len(N) + k
  BY DEF Arrives
<1> HIDE DEF N, M, l, k
<1>3. Len(N) \in Nat /\ DOMAIN N = 1 .. Len(N) /\ DOMAIN M = 1 .. Len(N) + k
  BY <1>1, <1>2
<1>4. \A i \in 1 .. Len(N) + k : M[i] = IF i <= Len(N) THEN N[i] ELSE l + (i - Len(N))
  BY <1>2 DEF Tacked
<1>5. \A n : Among(n, N) => Among(n, M)
  <2> TAKE n
  <2> HAVE Among(n, N)
  <2>1. PICK i \in 1 .. Len(N) : N[i] = n
    BY <1>3 DEF Among
  <2>2. i \in 1 .. Len(N) + k /\ i <= Len(N)
    BY <1>1, <1>3
  <2> QED
    BY <1>3, <1>4, <2>1, <2>2 DEF Among
<1>6. \A n \in l + 1 .. l + k : Among(n, M)
  <2> TAKE n \in l + 1 .. l + k
  <2>0. n \in l + 1 .. l + k /\ l \in Nat /\ k \in Nat /\ Len(N) \in Nat
    BY <1>1, <1>3
  <2>1. PICK i : i = Len(N) + (n - l)
    OBVIOUS
  <2>2. i \in 1 .. Len(N) + k /\ ~(i <= Len(N)) /\ l + (i - Len(N)) = n
    BY <2>0, <2>1
  <2>3. M[i] = n
    BY <1>4, <2>2
  <2> QED
    BY <1>3, <2>2, <2>3 DEF Among
<1> QED
  BY <1>5, <1>6 DEF Joins, N, M, l, k

\* The UART keeps all of a packet of which it loses nothing.
LEMMA UartJoins ==
  ASSUME WireOK, UartReceive, lost' = lost
  PROVE  Len(InNet(Serial)') = Len(InNet(Serial)) + Len(Frame(Serial))
<1> DEFINE P == Places(Serial)
           k == Len(Frame(Serial))
           all == uart \o P
           n == IF Len(all) > UartSize THEN UartSize ELSE Len(all)
<1>1. Serial \in Clients /\ Sends(Serial)
  BY Sizes DEF UartReceive
<1>2. uart \in Seq(Nat) /\ P \in Seq(Nat) /\ Len(P) = k /\ k \in Nat
  BY <1>1, FrameFacts DEF WireOK
<1>3. uart' = SubSeq(all, 1, n) /\ lost' = [lost EXCEPT ![Serial] = @ + Len(all) - n]
  BY DEF UartReceive
<1> HIDE DEF P, k
<1>4. all \in Seq(Nat) /\ Len(all) = Len(uart) + k
  BY <1>2, ConcatLen
<1> HIDE DEF all
<1>5. n \in Nat /\ n <= Len(all) /\ Len(all) \in Nat
  BY <1>4, CommsAssumption
<1> HIDE DEF n
<1>6. lost[Serial] \in Nat /\ lost[Serial] = lost[Serial] + Len(all) - n
  BY <1>1, <1>3 DEF WireOK
<1>7. n = Len(all)
  BY <1>5, <1>6
<1>8. Len(uart') = Len(all)
  BY <1>3, <1>4, <1>7
<1>9. InNet(Serial) = uart /\ InNet(Serial)' = uart'
  BY DEF InNet
<1> QED
  BY <1>4, <1>8, <1>9 DEF k

\* So does the buffer of a server.
LEMMA PushJoins ==
  ASSUME WireOK, NEW c \in Servers, Sends(c), Pushes(c), lost' = lost
  PROVE  Len(InNet(c)') = Len(InNet(c)) + Len(Frame(c))
<1> DEFINE S == NetSize(c)
           r == net[c]
           P == Places(c)
           k == Len(Frame(c))
           q == Push(r, P, S)
<1>1. c \in Clients /\ S \in Nat \ {0} /\ c # Serial
  BY Sizes
<1>2. P \in Seq(Nat) /\ Len(P) = k /\ k \in Nat
  BY <1>1, FrameFacts
<1>3. r \in NetBuffer(S) /\ InBuffer(r, S) \in Seq(Nat)
  BY <1>1, NetSeq DEF WireOK
<1>4. /\ net' = [net EXCEPT ![c] = q]
      /\ lost' = [lost EXCEPT ![c] = @ + IF Fits(k, r.size, S) THEN 0 ELSE k]
  BY DEF Pushes
<1>5. InNet(c) = InBuffer(r, S) /\ InNet(c)' = InBuffer(q, S)
  <2>1. net'[c] = q
    BY <1>4 DEF WireOK
  <2> QED
    BY <1>1, <2>1 DEF InNet
<1>6. Fits(k, r.size, S) \/ k = 0
  <2>1. lost[c] \in Nat /\ lost[c] = lost[c] + IF Fits(k, r.size, S) THEN 0 ELSE k
    BY <1>1, <1>4 DEF WireOK
  <2> HIDE DEF k, r, S
  <2> QED
    BY <1>2, <2>1
<1> HIDE DEF S, r, P, k
<1>7. CASE Fits(k, r.size, S)
  <2>1. InBuffer(q, S) = InBuffer(r, S) \o P
    BY <1>1, <1>2, <1>3, <1>7, BufferPush
  <2> HIDE DEF q
  <2>2. Len(InBuffer(q, S)) = Len(InBuffer(r, S)) + k
    BY <1>2, <1>3, <2>1, ConcatLen
  <2> QED
    BY <1>5, <2>2 DEF k
<1>8. CASE ~Fits(k, r.size, S)
  <2>1. q = r /\ k = 0
    BY <1>2, <1>6, <1>8 DEF Push
  <2> HIDE DEF q
  <2>2. Len(InBuffer(r, S)) \in Nat
    BY <1>3
  <2> QED
    BY <1>5, <2>1, <2>2 DEF k
<1> QED
  BY <1>7, <1>8

\* While clients keep to their windows and fragments are left out, a step that adds to a text brings
\* all of it before the ring.
LEMMA SentJoins ==
  ASSUME IInv, IInv', Steady, NothingLost, NothingLost', scn' = scn,
         UartReceive \/ SocketFrame \/ SocketFragment \/ TelnetData
  PROVE  \E c \in Clients : Sends(c) /\ Arrives(c) /\ Joins(c)
<1>0. /\ WireOK /\ WireOK' /\ Serial \in Clients /\ WebSocket \in Clients /\ Telnet \in Clients
      /\ WebSocket \in Servers /\ Telnet \in Servers
  BY DEF IInv, TypeOK, Clients, Servers
<1>1. lost' = lost
  <2>1. Steady'
    BY DEF Steady, Lossless
  <2>2. \A c \in Clients : lost[c] = 0 /\ lost'[c] = 0
    BY <2>1 DEF NothingLost
  <2> QED
    BY <1>0, <2>2 DEF WireOK
<1>2. CASE UartReceive
  BY <1>0, <1>1, <1>2, UartArrives, UartJoins, TackedJoins DEF UartReceive
<1>3. CASE SocketFrame
  BY <1>0, <1>1, <1>3, PushArrives, PushJoins, TackedJoins DEF SocketFrame
<1>4. CASE SocketFragment
  BY <1>4 DEF SocketFragment, Steady
<1>5. CASE TelnetData
  BY <1>0, <1>1, <1>5, PushArrives, PushJoins, TackedJoins DEF TelnetData
<1> QED
  BY <1>2, <1>3, <1>4, <1>5

----------------------------------------------------------------------------
(* What a poll and a read do to the places of the bytes *)

\* The head of a sequence of places is its first.
LEMMA HeadFacts ==
  ASSUME NEW s \in Seq(Nat), s # <<>>
  PROVE  /\ 1 \in 1 .. Len(s) /\ Len(s) \in Nat /\ Head(s) = s[1] /\ Head(s) \in Nat
         /\ DOMAIN s = 1 .. Len(s) /\ Among(Head(s), s)
<1>1. Len(s) \in Nat \ {0} /\ DOMAIN s = 1 .. Len(s)
  BY EmptySeq
<1>2. 1 \in 1 .. Len(s) /\ Head(s) = s[1] /\ Head(s) \in Nat
  BY <1>1, HeadTailProperties
<1> QED
  BY <1>1, <1>2 DEF Among

\* Byte b of client c is polled: picked off, or put into its ring.
Polls(c, b) ==
  /\ c \in Clients /\ InNet(c) # <<>> /\ b = Head(InNet(c)) /\ b \in 1 .. Len(text[c]) /\ polling
  /\ InNet(c)' = Tail(InNet(c))
  /\ InRx(c)' = IF text[c][b] \in Realtime THEN InRx(c) ELSE Append(InRx(c), b)
  /\ \A d \in Clients : d # c => InNet(d)' = InNet(d) /\ InRx(d)' = InRx(d)
  /\ resetFlag' = (resetFlag \/ text[c][b] = "reset")
  /\ scn' = scn /\ text' = text /\ got' = got /\ polling' = polling /\ pc' = pc /\ client' = client
  /\ line' = line /\ flags' = flags /\ last' = last

\* A poll that loses nothing takes a byte and puts it into the ring unless it is a realtime command.
LEMMA PollMoves ==
  ASSUME IInv, PollByte, lost' = lost
  PROVE  \E c, b : Polls(c, b)
<1>1. PICK c, b : Polled(c, b)
  BY PollByteTakes DEF IInv, TypeOK
<1>2. /\ c \in Clients /\ InNet(c) \in Seq(Nat) /\ InNet(c) # <<>> /\ b = Head(InNet(c)) /\ PickedOff(c, b)
      /\ rx[c] \in Ring /\ rx \in [Clients -> Ring] /\ got[c] \in Nat /\ Len(text[c]) \in Nat
  BY <1>1, WireSeqs DEF Polled, IInv, TypeOK, RingsOK, WireOK
<1>3. b \in Nat /\ b \in 1 .. Len(text[c])
  <2>1. Parts(got[c], InRx(c), InNet(c), Len(text[c]))
    BY <1>2 DEF IInv, Way
  <2>2. 1 \in 1 .. Len(InNet(c)) /\ b = InNet(c)[1] /\ b \in Nat
    BY <1>2, HeadFacts
  <2>3. got[c] < b /\ b <= Len(text[c])
    BY <2>1, <2>2 DEF Parts
  <2> QED
    BY <1>2, <2>2, <2>3
<1>4. /\ resetFlag' = (resetFlag \/ text[c][b] = "reset")
      /\ rx' = IF text[c][b] \in Realtime \/ RxFull(rx[c]) THEN rx ELSE [rx EXCEPT ![c] = RxPut(rx[c], b)]
      /\ lost' = IF text[c][b] \in Realtime \/ ~RxFull(rx[c]) THEN lost ELSE [lost EXCEPT ![c] = lost[c] + 1]
      /\ scn' = scn /\ text' = text /\ got' = got /\ polling' = polling /\ pc' = pc /\ client' = client
      /\ line' = line /\ flags' = flags /\ last' = last
  BY <1>2 DEF PickedOff, assembly
<1>5. text[c][b] \in Realtime \/ ~RxFull(rx[c])
  <2> SUFFICES ASSUME ~(text[c][b] \in Realtime \/ ~RxFull(rx[c]))  PROVE FALSE
    OBVIOUS
  <2>1. lost[c] \in Nat /\ lost[c] = lost[c] + 1
    BY <1>2, <1>4 DEF IInv, TypeOK, WireOK
  <2> QED
    BY <2>1
<1>6. /\ InRx(c)' = IF text[c][b] \in Realtime THEN InRx(c) ELSE Append(InRx(c), b)
      /\ \A d \in Clients : d # c => InRx(d)' = InRx(d)
  <2>1. CASE text[c][b] \in Realtime
    BY <1>4, <2>1 DEF InRx
  <2>2. CASE text[c][b] \notin Realtime
    <3> DEFINE q == RxPut(rx[c], b)
    <3>1. InRing(q) = Append(InRing(rx[c]), b)
      BY <1>2, <1>3, <1>5, <2>2, RingPut
    <3>2. rx' = [rx EXCEPT ![c] = q]
      BY <1>4, <1>5, <2>2
    <3> HIDE DEF q
    <3>3. rx'[c] = q /\ \A d \in Clients : d # c => rx'[d] = rx[d]
      BY <1>2, <3>2
    <3> QED
      BY <2>2, <3>1, <3>3 DEF InRx
  <2> QED
    BY <2>1, <2>2
<1>7. InNet(c)' = Tail(InNet(c)) /\ \A d \in Clients : d # c => InNet(d)' = InNet(d)
  BY <1>1 DEF Polled
<1>8. Polls(c, b)
  BY <1>2, <1>3, <1>4, <1>6, <1>7 DEF PollByte, Polls
<1> QED
  BY <1>8

\* Byte b of client c is read: it leaves the ring, and is assembled or ends the line.
Reads(c, b) ==
  /\ c \in Clients /\ c = Reading /\ c \in Readable /\ ~polling /\ pc = "read"
  /\ InRx(c) # <<>> /\ b = Head(InRx(c)) /\ b \in 1 .. Len(text[c]) /\ got[c] < b /\ text[c][b] \notin Realtime
  /\ InRx(c)' = Tail(InRx(c))
  /\ \A d \in Clients : InNet(d)' = InNet(d) /\ (d # c => InRx(d)' = InRx(d))
  /\ \A d \in Clients : got'[d] = IF d = c THEN b ELSE got[d]
  /\ scn' = scn /\ text' = text /\ polling' = polling /\ client' = c
  /\ IF text[c][b] = "eol" THEN EndOfLine(c, b) /\ resetFlag' = resetFlag
     ELSE Assemble(c, b) /\ resetFlag' = resetFlag /\ pc' = pc /\ last' = last

\* The main loop reads the first byte of a ring.
LEMMA ReadMoves ==
  ASSUME IInv, Read
  PROVE  \E c, b : Reads(c, b)
<1>1. PICK c \in Clients : c = Reading /\ c \in Readable
  BY FirstReadable DEF Read, Readable
<1>2. PICK b : b = rx[c].buf[rx[c].tail]
  OBVIOUS
<1>3. /\ rx' = [rx EXCEPT ![c] = RxTake(rx[c])] /\ got' = [got EXCEPT ![c] = b] /\ client' = c /\ pc = "read"
      /\ ~polling /\ scn' = scn /\ text' = text /\ polling' = polling /\ uart' = uart /\ net' = net
      /\ IF text[c][b] = "eol" THEN EndOfLine(c, b) /\ resetFlag' = resetFlag
         ELSE Assemble(c, b) /\ resetFlag' = resetFlag /\ pc' = pc /\ last' = last
  BY <1>1, <1>2 DEF Read, wire
<1>4. /\ rx[c] \in Ring /\ ~RxEmpty(rx[c]) /\ rx \in [Clients -> Ring] /\ got \in [Clients -> Nat]
      /\ InRx(c) \in Seq(Nat) /\ Len(text[c]) \in Nat
  BY <1>1, RingSeqs DEF Readable, HasData, IInv, TypeOK, RingsOK, WireOK
<1>5. InRx(c) # <<>> /\ b = Head(InRx(c)) /\ InRing(RxTake(rx[c])) = Tail(InRx(c))
  BY <1>2, <1>4, RingTake DEF InRx
<1>6. b \in Nat /\ b \in 1 .. Len(text[c]) /\ got[c] < b /\ text[c][b] \notin Realtime
  <2>1. Parts(got[c], InRx(c), InNet(c), Len(text[c]))
    BY DEF IInv, Way
  <2>2. 1 \in 1 .. Len(InRx(c)) /\ b = InRx(c)[1] /\ b \in Nat /\ 1 \in DOMAIN InRx(c)
    BY <1>4, <1>5, HeadFacts
  <2>3. got[c] < b /\ b <= Len(text[c])
    BY <2>1, <2>2 DEF Parts
  <2>4. text[c][b] \notin Realtime
    BY <2>2 DEF IInv, CommandsPickedOff
  <2> QED
    BY <1>4, <2>2, <2>3, <2>4
<1>7. InRx(c)' = Tail(InRx(c)) /\ \A d \in Clients : d # c => InRx(d)' = InRx(d)
  <2> DEFINE q == RxTake(rx[c])
  <2>1. rx' = [rx EXCEPT ![c] = q] /\ InRing(q) = Tail(InRx(c))
    BY <1>3, <1>5
  <2> HIDE DEF q
  <2>2. rx'[c] = q /\ \A d \in Clients : d # c => rx'[d] = rx[d]
    BY <1>4, <2>1
  <2> QED
    BY <2>1, <2>2 DEF InRx
<1>8. \A d \in Clients : InNet(d)' = InNet(d)
  BY <1>3 DEF InNet
<1>9. \A d \in Clients : got'[d] = IF d = c THEN b ELSE got[d]
  BY <1>3, <1>4, <1>6
<1>10. Reads(c, b)
  BY <1>1, <1>3, <1>5, <1>6, <1>7, <1>8, <1>9 DEF Reads
<1> QED
  BY <1>10

\* The other steps, while there is no reset, move no byte; they may answer a line.
Stays ==
  /\ \A d \in Clients : InNet(d)' = InNet(d) /\ InRx(d)' = InRx(d)
  /\ scn' = scn /\ text' = text /\ got' = got /\ resetFlag' = resetFlag /\ last' = last
  /\ polling' = polling \/ polling' \/ \A d \in Clients : InNet(d) = <<>>
  /\ \/ pc' = pc /\ client' = client /\ line' = line /\ flags' = flags
     \/ pc = "run" /\ pc' = "read" /\ line' = <<>> /\ flags' = {} /\ polling' = polling
     \/ pc = "read" /\ pc' = pc /\ client' = Serial /\ line' = line /\ flags' = flags /\ ~polling /\ Readable = {}

\* A step that sends, polls and reads no byte, while there is no reset, only answers or looks again.
LEMMA OtherMoves ==
  ASSUME IInv, [Next]_vars, ~resetFlag, pc # "init",
         ~UartReceive, ~SocketFrame, ~SocketFragment, ~TelnetData, ~PollByte, ~Read
  PROVE  Stays
<1>1. CASE PollStarts
  BY <1>1 DEF PollStarts, Stays, InNet, InRx, wire, assembly
<1>2. CASE PollEnds
  <2>1. \A d \in Clients : InNet(d) = <<>>
    <3> TAKE d \in Clients
    <3>1. Available = {}
      BY <1>2 DEF PollEnds
    <3>2. CASE d = Serial
      BY <3>1, <3>2 DEF Available, InNet
    <3>3. CASE d # Serial
      <4>1. d \in Servers /\ NetSize(d) \in Nat \ {0} /\ net[d] \in NetBuffer(NetSize(d))
        BY <3>3, Sizes DEF IInv, TypeOK, WireOK
      <4>2. ~(net[d].size > 0)
        BY <3>1, <4>1 DEF Available
      <4>3. InNet(d) = InBuffer(net[d], NetSize(d))
        BY <3>3 DEF InNet
      <4>4. InNet(d) \in Seq(Nat) /\ Len(InNet(d)) = net[d].size /\ net[d].size \in Nat
        BY <4>1, <4>3, NetSeq
      <4>5. Len(InNet(d)) = 0
        BY <4>2, <4>4
      <4> QED
        BY <4>4, <4>5, EmptySeq
    <3> QED
      BY <3>2, <3>3
  <2> QED
    BY <1>2, <2>1 DEF PollEnds, Stays, InNet, InRx, wire, assembly
<1>3. CASE LineDone
  BY <1>3 DEF LineDone, Answer, Stays, InNet, InRx, wire
<1>4. CASE Idle
  BY <1>4 DEF Idle, Stays, InNet, InRx, wire, assembly
<1>5. CASE RunPass
  BY <1>5 DEF RunPass, Stays, InNet, InRx, wire, assembly
<1>6. CASE FlushTimePasses \/ UNCHANGED vars
  BY <1>6 DEF FlushTimePasses, Stays, InNet, InRx, wire, assembly, vars
<1>7. CASE \/ SocketOpens \/ SocketCloses \/ TelnetConnect
           \/ \E k \in DOMAIN conn : TelnetDrops(k) \/ TelnetDisconnected(k)
  <2>1. ChannelOnly
    BY <1>7 DEF SocketOpens, SocketCloses, TelnetConnect, TelnetDrops, TelnetDisconnected
  <2> QED
    BY <2>1 DEF ChannelOnly, Stays, InNet, InRx, wire, assembly
<1>8. CASE Reinit
  BY <1>8 DEF Reinit
<1> QED
  BY <1>1, <1>2, <1>3, <1>4, <1>5, <1>6, <1>7, <1>8 DEF Next, Network, Poll, Main

----------------------------------------------------------------------------
(* Lines: what LinesIntact rests on, and how a packet leaves it *)

\* No place of the last byte read or the last line executed is beyond the text; a line starts before it.
Plain == \A c \in Clients : got[c] = 0 \/ text[c][got[c]] \notin Realtime
Started == \A c \in Clients : LineStart(text[c], got[c] + 1) \in 1 .. got[c] + 1
LastRead == last.at # 0 => /\ last.at \in 1 .. Len(text[last.by])
                           /\ LineStart(text[last.by], last.at) \in 1 .. last.at
Intact == last.at # 0 => LET v == Visible(text[last.by], last.at)
                         IN  /\ last.over <=> Cardinality(v) > LineSize - 1
                             /\ ~last.over => Says(last.line, last.by, v)
Lines == NoReset /\ AllOnTheWay /\ LinesInRings /\ OneAssembled /\ Plain /\ Started /\ LastRead /\ Intact

\* The types of what the lines are made from.
LEMMA LineTypes ==
  ASSUME IInv
  PROVE  /\ \A c \in Clients : /\ text[c] \in Seq(Kinds) /\ Len(text[c]) \in Nat /\ DOMAIN text[c] = 1 .. Len(text[c])
                               /\ got[c] \in Nat /\ got[c] <= Len(text[c])
                               /\ InRx(c) \in Seq(Nat) /\ InNet(c) \in Seq(Nat)
         /\ last.by \in Clients /\ last.at \in Nat /\ MainOK
<1>1. WireOK /\ RingsOK /\ MainOK
  BY DEF IInv, TypeOK
<1>2. \A c \in Clients : text[c] \in Seq(Kinds) /\ got[c] \in Nat /\ InRx(c) \in Seq(Nat) /\ InNet(c) \in Seq(Nat)
  BY <1>1, WireSeqs, RingSeqs DEF WireOK, RingsOK
<1>3. \A c \in Clients : got[c] <= Len(text[c])
  BY DEF IInv, Way, Parts
<1>4. last.by \in Clients /\ last.at \in Nat
  BY <1>1 DEF MainOK
<1> QED
  BY <1>1, <1>2, <1>3, <1>4

\* The last byte in a ring: none in it comes later, and it is within the text.
LEMMA LastFacts ==
  ASSUME IInv, NEW c \in Clients
  PROVE  /\ LastInRing(c) \in 0 .. Len(text[c]) /\ got[c] <= LastInRing(c)
         /\ \A n : Among(n, InRx(c)) => n \in Nat /\ n <= LastInRing(c)
         /\ Plain => LastInRing(c) = 0 \/ text[c][LastInRing(c)] \notin Realtime
<1> DEFINE R == InRx(c)
           a == Len(R)
<1>0. R \in Seq(Nat) /\ got[c] \in Nat /\ got[c] <= Len(text[c]) /\ Len(text[c]) \in Nat
      /\ DOMAIN R = 1 .. a /\ a \in Nat
  BY LineTypes
<1>1. CASE R = <<>>
  <2>1. LastInRing(c) = got[c] /\ DOMAIN R = {}
    BY <1>1 DEF LastInRing
  <2> QED
    BY <1>0, <2>1 DEF Among, Plain
<1>2. CASE R # <<>>
  <2>1. Parts(got[c], R, InNet(c), Len(text[c]))
    BY DEF IInv, Way
  <2>2. LastInRing(c) = R[a]
    BY <1>2 DEF LastInRing
  <2>3. a \in 1 .. a
    BY <1>0, <1>2, EmptySeq
  <2>4. text[c][R[a]] \notin Realtime
    BY <1>0, <2>3 DEF IInv, CommandsPickedOff
  <2> HIDE DEF R, a
  <2>5. \A i \in 1 .. a : R[i] \in Nat
    BY <1>0
  <2>6. got[c] < R[a] /\ R[a] <= Len(text[c]) /\ \A i \in 1 .. a : i < a => R[i] < R[a]
    BY <1>0, <2>1, <2>3 DEF Parts, Increasing, a
  <2>7. \A i \in 1 .. a : R[i] <= R[a]
    <3> TAKE i \in 1 .. a
    <3>1. i < a \/ i = a
      BY <1>0
    <3> QED
      BY <2>3, <2>5, <2>6, <3>1
  <2>8. \A n : Among(n, R) => n \in Nat /\ n <= R[a]
    BY <1>0, <2>5, <2>7 DEF Among
  <2>9. R[a] \in 0 .. Len(text[c]) /\ got[c] <= R[a]
    BY <1>0, <2>3, <2>5, <2>6
  <2> QED
    BY <2>2, <2>4, <2>8, <2>9 DEF R, a
<1> QED
  BY <1>1, <1>2

\* The places behind the text are those of the packet.
LEMMA FrameBehind ==
  ASSUME WireOK, NEW c \in Clients, Sends(c)
  PROVE  \A n \in Len(text[c]) + 1 .. Len(text[c]) + Len(Frame(c)) : text'[c][n] = Frame(c)[n - Len(text[c])]
<1> DEFINE f == Frame(c)
           t == text[c]
           u == t \o f
<1>1. t \in Seq(Kinds) /\ f \in Seq(Kinds)
  BY FrameFacts DEF WireOK
<1>2. text'[c] = u
  BY DEF Sends, WireOK
<1> HIDE DEF f, t
<1>3. PICK a \in Nat, b \in Nat : a = Len(t) /\ b = Len(f)
  BY <1>1
<1>4. \A i \in 1 .. a + b : u[i] = IF i <= a THEN t[i] ELSE f[i - a]
  BY <1>1, <1>3, ConcatProperties
<1> HIDE DEF u
<1>5. \A n \in a + 1 .. a + b : n \in 1 .. a + b /\ ~(n <= a)
  OBVIOUS
<1> QED
  BY <1>2, <1>3, <1>4, <1>5 DEF f, t

\* A packet of a client that sends whole lines ends with an end of line, and there is no reset in it.
LEMMA FrameEnds ==
  ASSUME WireOK, Steady, NEW c \in Clients, Sends(c)
  PROVE  /\ WholeLines => Ended(Frame(c))
         /\ \A i \in 1 .. Len(Frame(c)) : Frame(c)[i] # "reset"
<1> DEFINE p == scn.packets[c][packets[c] + 1]
<1>1. scn.packets[c] \in Seq(Seq(Kinds)) /\ packets[c] \in Nat
  BY CommsAssumption DEF WireOK
<1>2. packets[c] + 1 \in 1 .. Len(scn.packets[c]) /\ DOMAIN scn.packets[c] = 1 .. Len(scn.packets[c])
  BY <1>1 DEF Sends
<1>3. p \in Seq(Kinds) /\ "eol" \in Kinds
  BY <1>1, <1>2, ElementOfSeq DEF Kinds
<1>4. \A j \in DOMAIN p : p[j] # "reset"
  BY <1>2 DEF Steady
<1>5. c # WebSocket /\ WholeLines => Ended(p)
  BY <1>2 DEF WholeLines
<1> HIDE DEF p
<1>6. DOMAIN p = 1 .. Len(p) /\ Len(p) \in Nat
  BY <1>3
<1>7. CASE c # WebSocket
  <2>1. Frame(c) = p
    BY <1>7 DEF Frame, p
  <2> QED
    BY <1>4, <1>5, <1>6, <1>7, <2>1
<1>8. CASE c = WebSocket
  <2> DEFINE f == Append(p, "eol")
  <2>1. Frame(c) = f
    BY <1>8 DEF Frame, p
  <2>2. Len(f) = Len(p) + 1 /\ f[Len(p) + 1] = "eol" /\ \A i \in 1 .. Len(p) : f[i] = p[i]
    BY <1>3, AppendProperties
  <2>3. DOMAIN f = 1 .. Len(p) + 1
    BY <1>3, <2>2
  <2> HIDE DEF f
  <2>4. \A i \in 1 .. Len(f) : f[i] # "reset"
    <3> TAKE i \in 1 .. Len(f)
    <3>1. i \in 1 .. Len(p) \/ i = Len(p) + 1
      BY <1>6, <2>2
    <3> QED
      BY <1>4, <1>6, <2>2, <3>1
  <2>5. \A i \in DOMAIN f : Len(p) + 1 \in i .. Len(f)
    BY <1>6, <2>2, <2>3
  <2>6. Ended(f)
    BY <2>2, <2>5 DEF Ended
  <2> QED
    BY <2>1, <2>4, <2>6
<1> QED
  BY <1>7, <1>8

\* A packet brings whole lines to a text of whole lines.
LEMMA EndedSent ==
  ASSUME WireOK, NEW c \in Clients, Sends(c), Ended(text[c]), Ended(Frame(c))
  PROVE  Ended(text'[c])
<1> DEFINE l == Len(text[c])
           k == Len(Frame(c))
<1>1. /\ l \in Nat /\ k \in Nat /\ DOMAIN text[c] = 1 .. l /\ DOMAIN text'[c] = 1 .. l + k /\ Len(text'[c]) = l + k
      /\ \A n \in 1 .. l : text'[c][n] = text[c][n]
      /\ \A n \in l + 1 .. l + k : text'[c][n] = Frame(c)[n - l]
      /\ DOMAIN Frame(c) = 1 .. k
  BY TextSent, FrameBehind, FrameFacts DEF WireOK
<1> HIDE DEF l, k
<1> SUFFICES ASSUME NEW n \in 1 .. l + k, text'[c][n] \notin Realtime
             PROVE  \E m \in n .. l + k : text'[c][m] = "eol"
  BY <1>1 DEF Ended
<1>2. CASE n <= l
  <2>1. n \in 1 .. l
    BY <1>1, <1>2
  <2>2. PICK m \in n .. l : text[c][m] = "eol"
    BY <1>1, <2>1 DEF Ended, l
  <2>3. m \in 1 .. l /\ m \in n .. l + k
    BY <1>1, <2>1
  <2> QED
    BY <1>1, <2>2, <2>3
<1>3. CASE ~(n <= l)
  <2>1. n \in l + 1 .. l + k /\ n - l \in 1 .. k
    BY <1>1, <1>3
  <2>2. Frame(c)[n - l] \notin Realtime
    BY <1>1, <2>1
  <2>3. PICK m \in n - l .. k : Frame(c)[m] = "eol"
    BY <1>1, <2>1, <2>2 DEF Ended, k
  <2>4. PICK i : i = l + m
    OBVIOUS
  <2>5. i \in l + 1 .. l + k /\ i \in n .. l + k /\ i - l = m
    BY <1>1, <2>1, <2>4
  <2> QED
    BY <1>1, <2>3, <2>5
<1> QED
  BY <1>2, <1>3

----------------------------------------------------------------------------
(* No step breaks a line *)

\* A packet leaves the lines as they are.
LEMMA SentLines ==
  ASSUME IInv, IInv', Steady, Lines, NEW c \in Clients, Sends(c), Arrives(c), Joins(c)
  PROVE  Lines'
<1>0. WireOK /\ Steady /\ LineSize \in Nat
  BY CommsAssumption DEF IInv, TypeOK
<1>1. /\ scn' = scn /\ rx' = rx /\ got' = got /\ polling' = polling /\ resetFlag' = resetFlag
      /\ pc' = pc /\ client' = client /\ line' = line /\ flags' = flags /\ last' = last
  BY DEF Sends, assembly
<1>2. /\ text' \in [Clients -> Seq(Kinds)] /\ \A d \in Clients : d # c => text'[d] = text[d]
      /\ \A d \in Clients : d # c => InNet(d)' = InNet(d)
  BY <1>0, TextSent DEF Arrives
<1>3. \A d \in Clients : /\ Len(text[d]) \in Nat /\ Len(text'[d]) \in Nat /\ Len(text[d]) <= Len(text'[d])
                         /\ \A n \in 1 .. Len(text[d]) : text'[d][n] = text[d][n]
                         /\ text[d] \in Seq(Kinds) /\ text'[d] \in Seq(Kinds)
                         /\ got[d] \in Nat /\ got[d] <= Len(text[d])
                         /\ DOMAIN text[d] = 1 .. Len(text[d]) /\ DOMAIN text'[d] = 1 .. Len(text'[d])
  <2> TAKE d \in Clients
  <2>1. text[d] \in Seq(Kinds) /\ text'[d] \in Seq(Kinds) /\ got[d] \in Nat /\ got[d] <= Len(text[d])
    BY <1>2, LineTypes
  <2>2. CASE d = c
    <3>1. PICK l \in Nat, k \in Nat : l = Len(text[c]) /\ k = Len(Frame(c))
      BY <1>0, FrameFacts DEF WireOK
    <3>2. Len(text'[c]) = l + k /\ \A n \in 1 .. l : text'[c][n] = text[c][n]
      BY <1>0, <3>1, TextSent
    <3> QED
      BY <2>1, <2>2, <3>1, <3>2
  <2>3. CASE d # c
    BY <1>2, <2>1, <2>3
  <2> QED
    BY <2>2, <2>3
<1>4. \A d \in Clients : InRx(d)' = InRx(d)
  BY <1>1 DEF InRx
<1>5. \A d \in Clients : \A n : Among(n, InNet(d)) => Among(n, InNet(d)')
  BY <1>2 DEF Joins
<1>6. \A d \in Clients : \A n \in Len(text[d]) + 1 .. Len(text'[d]) : Among(n, InNet(d)') /\ text'[d][n] # "reset"
  <2> TAKE d \in Clients
  <2>1. CASE d = c
    <3>1. PICK l \in Nat, k \in Nat : l = Len(text[c]) /\ k = Len(Frame(c))
      BY <1>0, FrameFacts DEF WireOK
    <3>2. Len(text'[c]) = l + k
      BY <1>0, <3>1, TextSent
    <3>3. \A n \in l + 1 .. l + k : Among(n, InNet(c)') /\ text'[c][n] = Frame(c)[n - l] /\ n - l \in 1 .. k
      BY <1>0, <3>1, FrameBehind DEF Joins
    <3>4. \A i \in 1 .. k : Frame(c)[i] # "reset"
      BY <1>0, <3>1, FrameEnds
    <3> QED
      BY <2>1, <3>1, <3>2, <3>3, <3>4
  <2>2. CASE d # c
    <3>1. Len(text'[d]) = Len(text[d])
      BY <1>2, <2>2
    <3> QED
      BY <1>3, <3>1
  <2> QED
    BY <2>1, <2>2
<1>7. \A d \in Clients : \A n \in 1 .. Len(text'[d]) :
        n \in 1 .. Len(text[d]) \/ n \in Len(text[d]) + 1 .. Len(text'[d])
  BY <1>3
<1>8. NoReset'
  <2>1. \A d \in Clients : \A n \in 1 .. Len(text[d]) : text[d][n] # "reset"
    BY <1>3 DEF Lines, NoReset
  <2> QED
    BY <1>1, <1>3, <1>6, <1>7, <2>1 DEF Lines, NoReset
<1>9. AllOnTheWay'
  <2> SUFFICES ASSUME NEW d \in Clients, NEW n \in 1 .. Len(text'[d])
               PROVE  \/ n <= got[d] \/ text'[d][n] \in Realtime
                      \/ Among(n, InRx(d)) \/ Among(n, InNet(d)')
    BY <1>1, <1>3, <1>4 DEF AllOnTheWay
  <2>1. CASE n \in 1 .. Len(text[d])
    BY <1>3, <1>5, <2>1 DEF Lines, AllOnTheWay
  <2> QED
    BY <1>6, <1>7, <2>1
<1>10. \A d \in Clients : LastInRing(d)' = LastInRing(d) /\ LastInRing(d) \in 0 .. Len(text[d])
  BY <1>1, <1>4, LastFacts DEF LastInRing
<1>11. \A d \in Clients : \A n \in 0 .. Len(text[d]) : n = 0 \/ (n \in 1 .. Len(text[d]) /\ text'[d][n] = text[d][n])
  BY <1>3
<1>12. LinesInRings'
  <2> SUFFICES ASSUME WholeLines, NEW d \in Clients
               PROVE  Ended(text'[d]) /\ (Between(d, LastInRing(d))' \/ (polling' /\ InNet(d)' # <<>>))
    BY <1>1 DEF LinesInRings, WholeLines
  <2>1. Ended(text[d]) /\ (Between(d, LastInRing(d)) \/ (polling /\ InNet(d) # <<>>))
    BY DEF Lines, LinesInRings
  <2>2. Ended(text'[d])
    BY <1>0, <1>2, <2>1, EndedSent, FrameEnds
  <2>3. CASE Between(d, LastInRing(d))
    <3>1. Between(d, LastInRing(d))'
      BY <1>10, <1>11, <2>3 DEF Between
    <3> QED
      BY <2>2, <3>1
  <2>4. CASE polling /\ InNet(d) # <<>>
    <3>1. InNet(d)' # <<>>
      <4>1. InNet(d) \in Seq(Nat)
        BY LineTypes
      <4>2. Among(Head(InNet(d)), InNet(d))
        BY <2>4, <4>1, HeadFacts
      <4>3. Among(Head(InNet(d)), InNet(d)')
        BY <1>5, <4>2
      <4> QED
        BY <4>3 DEF Among
    <3> QED
      BY <1>1, <2>2, <2>4, <3>1
  <2> QED
    BY <2>1, <2>3, <2>4
<1>13. \A d \in Clients : \A n \in 1 .. Len(text[d]) + 1 : LineStart(text[d], n) \in 1 .. n =>
         /\ LineStart(text'[d], n) = LineStart(text[d], n) /\ Visible(text'[d], n) = Visible(text[d], n)
         /\ InParentheses(text'[d], LineStart(text[d], n), n) <=> InParentheses(text[d], LineStart(text[d], n), n)
         /\ AfterSemicolon(text'[d], LineStart(text[d], n), n) <=> AfterSemicolon(text[d], LineStart(text[d], n), n)
  <2> TAKE d \in Clients
  <2> TAKE n \in 1 .. Len(text[d]) + 1
  <2> HAVE LineStart(text[d], n) \in 1 .. n
  <2>1. /\ n \in Nat \ {0} /\ n \in Nat /\ n <= n /\ n - 1 <= Len(text[d]) /\ n - 1 <= Len(text'[d])
        /\ n .. n - 1 = {}
    BY <1>3
  <2>2. \A k \in 1 .. n - 1 : text'[d][k] = text[d][k]
    BY <1>3
  <2>3. text[d] \in Seq(Kinds) /\ text'[d] \in Seq(Kinds)
    BY <1>3
  <2>4. PICK s \in 1 .. n : s = LineStart(text[d], n)
    OBVIOUS
  <2>5. PICK t \in Seq(Kinds), u \in Seq(Kinds) : t = text[d] /\ u = text'[d]
    BY <2>3
  <2>6. n \in Nat \ {0} /\ s = LineStart(t, n) /\ SameBefore(t, u, n)
    BY <2>1, <2>2, <2>4, <2>5 DEF SameBefore
  <2>7. /\ LineStart(u, n) = s /\ Visible(u, n) = Visible(t, n)
        /\ InParentheses(u, s, n) <=> InParentheses(t, s, n)
        /\ AfterSemicolon(u, s, n) <=> AfterSemicolon(t, s, n)
    BY <2>6, SameText
  <2> QED
    BY <2>4, <2>5, <2>7
<1>14. \A d \in Clients : got[d] + 1 \in 1 .. Len(text[d]) + 1
  BY <1>3
<1>15. Started'
  BY <1>1, <1>13, <1>14 DEF Lines, Started
<1>16. Plain'
  BY <1>1, <1>3, <1>11 DEF Lines, Plain
<1>17. \A d \in Clients : Between(d, got[d])' <=> Between(d, got[d])
  <2> TAKE d \in Clients
  <2>1. got[d] \in 0 .. Len(text[d])
    BY <1>3
  <2> QED
    BY <1>1, <1>11, <2>1 DEF Between
<1>18. \A d \in Clients : Assembled(d) => Assembled(d)'
  <2> TAKE d \in Clients
  <2>1. LineStart(text[d], got[d] + 1) \in 1 .. got[d] + 1
    BY DEF Lines, Started
  <2> QED
    BY <1>1, <1>13, <1>14, <2>1 DEF Assembled, SaysSoFar
<1>19. OneAssembled'
  <2>1. WholeLines' <=> WholeLines
    BY <1>1 DEF WholeLines
  <2>2. pc = "run" => \A d \in Clients : Between(d, got[d])
    BY DEF Lines, OneAssembled
  <2>3. pc' = "run" => \A d \in Clients : Between(d, got[d])'
    BY <1>1, <1>17, <2>2
  <2>4. ASSUME pc = "read"
        PROVE  \E d \in Clients : /\ Assembled(d)' /\ \A e \in Clients \ {d} : Between(e, got[e])'
                                  /\ WholeLines => d = client \/ Between(d, got[d])'
    <3>1. PICK d \in Clients : /\ Assembled(d) /\ \A e \in Clients \ {d} : Between(e, got[e])
                               /\ WholeLines => d = client \/ Between(d, got[d])
      BY <2>4 DEF Lines, OneAssembled
    <3> QED
      BY <1>17, <1>18, <3>1
  <2>5. pc' = "read" => \E d \in Clients : /\ Assembled(d)' /\ \A e \in Clients \ {d} : Between(e, got[e])'
                                           /\ WholeLines' => d = client' \/ Between(d, got[d])'
    BY <1>1, <2>1, <2>4
  <2> QED
    BY <2>3, <2>5 DEF OneAssembled
<1>20. LastRead' /\ Intact'
  <2>1. CASE last.at = 0
    BY <1>1, <2>1 DEF LastRead, Intact
  <2>2. CASE last.at # 0
    <3>1. /\ last.by \in Clients /\ last.at \in 1 .. Len(text[last.by])
          /\ LineStart(text[last.by], last.at) \in 1 .. last.at
      BY <2>2, LineTypes DEF Lines, LastRead
    <3>2. last.at \in 1 .. Len(text[last.by]) + 1 /\ last.at \in 1 .. Len(text'[last.by])
      BY <1>3, <3>1
    <3>3. /\ LineStart(text'[last.by], last.at) = LineStart(text[last.by], last.at)
          /\ Visible(text'[last.by], last.at) = Visible(text[last.by], last.at)
      BY <1>13, <3>1, <3>2
    <3> QED
      BY <1>1, <3>1, <3>2, <3>3 DEF Lines, LastRead, Intact
  <2> QED
    BY <2>1, <2>2
<1> QED
  BY <1>8, <1>9, <1>12, <1>15, <1>16, <1>19, <1>20 DEF Lines

\* The bytes of a client that wait before its ring come behind those in it.
LEMMA Behind ==
  ASSUME IInv, NEW c \in Clients
  PROVE  /\ \A n : Among(n, InRx(c)) => n \in Nat /\ got[c] < n
         /\ \A n : Among(n, InNet(c)) => n \in Nat /\ LastInRing(c) < n
         /\ InRx(c) # <<>> => \A n : Among(n, InRx(c)) \/ Among(n, InNet(c)) => Head(InRx(c)) <= n
<1> DEFINE R == InRx(c)
           N == InNet(c)
<1>1. R \in Seq(Nat) /\ N \in Seq(Nat) /\ got[c] \in Nat /\ Parts(got[c], R, N, Len(text[c]))
  BY LineTypes DEF IInv, Way
<1>2. LastInRing(c) = IF R = <<>> THEN got[c] ELSE R[Len(R)]
  BY DEF LastInRing
<1> HIDE DEF R, N
<1>3. DOMAIN R = 1 .. Len(R) /\ DOMAIN N = 1 .. Len(N) /\ Len(R) \in Nat /\ Len(N) \in Nat
  BY <1>1
<1>4. /\ \A n : Among(n, R) => \E i \in 1 .. Len(R) : n = R[i] /\ n \in Nat
      /\ \A n : Among(n, N) => \E i \in 1 .. Len(N) : n = N[i] /\ n \in Nat
  <2>1. (\A i \in 1 .. Len(R) : R[i] \in Nat) /\ \A i \in 1 .. Len(N) : N[i] \in Nat
    BY <1>1
  <2> QED
    BY <1>3, <2>1 DEF Among
<1>5. \A n : Among(n, R) => n \in Nat /\ got[c] < n
  <2> TAKE n
  <2> HAVE Among(n, R)
  <2>1. PICK i \in 1 .. Len(R) : n = R[i] /\ n \in Nat
    BY <1>4
  <2> QED
    BY <1>1, <2>1 DEF Parts
<1>6. \A n : Among(n, N) => n \in Nat /\ LastInRing(c) < n
  <2>1. CASE R = <<>>
    BY <1>1, <1>2, <1>4, <2>1 DEF Parts
  <2>2. CASE R # <<>>
    <3>1. Len(R) \in 1 .. Len(R)
      BY <1>1, <1>3, <2>2, EmptySeq
    <3> TAKE n
    <3> HAVE Among(n, N)
    <3>2. PICK j \in 1 .. Len(N) : n = N[j] /\ n \in Nat
      BY <1>4
    <3>3. R[Len(R)] < N[j]
      BY <1>1, <3>1 DEF Parts
    <3> QED
      BY <1>2, <2>2, <3>2, <3>3
  <2> QED
    BY <2>1, <2>2
<1>7. ASSUME R # <<>>, NEW n, Among(n, R) \/ Among(n, N)
      PROVE  Head(R) <= n
  <2>1. 1 \in 1 .. Len(R) /\ Head(R) = R[1] /\ R[1] \in Nat
    BY <1>1, <1>7, HeadFacts
  <2>2. CASE Among(n, N)
    <3>1. PICK j \in 1 .. Len(N) : n = N[j] /\ n \in Nat
      BY <1>4, <2>2
    <3>2. R[1] < N[j]
      BY <1>1, <2>1 DEF Parts
    <3> QED
      BY <2>1, <3>1, <3>2
  <2>3. CASE Among(n, R)
    <3>1. PICK i \in 1 .. Len(R) : n = R[i] /\ n \in Nat
      BY <1>4, <2>3
    <3>2. 1 < i => R[1] < R[i]
      BY <1>1, <2>1 DEF Parts, Increasing
    <3>3. 1 < i \/ i = 1
      BY <1>3
    <3> QED
      BY <2>1, <3>1, <3>2, <3>3
  <2> QED
    BY <1>7, <2>2, <2>3
<1> QED
  BY <1>5, <1>6, <1>7 DEF R, N

\* A ring with no data is empty.
LEMMA EmptyRing ==
  ASSUME IInv, NEW c \in Clients, ~HasData(c)
  PROVE  InRx(c) = <<>> /\ LastInRing(c) = got[c]
<1>1. rx[c] \in Ring /\ rx[c].head = rx[c].tail
  BY DEF IInv, TypeOK, RingsOK, HasData, RxEmpty
<1>2. rx[c].buf \in [0 .. RingSlots - 1 -> Nat] /\ rx[c].head \in 0 .. Period - 1 /\ rx[c].tail \in 0 .. Period - 1
  BY <1>1, RingParts
<1>3. Period \in Nat
  BY PeriodFacts
<1>4. Held(rx[c]) = 0
  BY <1>1, <1>2, <1>3 DEF Held
<1>5. InRx(c) \in Seq(Nat) /\ Len(InRx(c)) = 0
  BY <1>2, <1>4, RingSeq DEF InRx
<1>6. InRx(c) = <<>>
  BY <1>5, EmptySeq
<1> QED
  BY <1>6 DEF LastInRing

\* Where nothing is read, what was read, and what the last line says, stay.
LEMMA ReadStays ==
  ASSUME Lines, text' = text, got' = got, last' = last
  PROVE  Plain' /\ Started' /\ LastRead' /\ Intact'
  BY DEF Lines, Plain, Started, LastRead, Intact

\* A polled byte leaves the lines as they are.
LEMMA PolledLines ==
  ASSUME IInv, Lines, NEW c, NEW b, Polls(c, b)
  PROVE  Lines'
<1> DEFINE R == InRx(c)
           N == InNet(c)
<1>1. /\ c \in Clients /\ R \in Seq(Nat) /\ N \in Seq(Nat) /\ N # <<>> /\ b = Head(N)
      /\ b \in 1 .. Len(text[c]) /\ DOMAIN text[c] = 1 .. Len(text[c]) /\ Len(text[c]) \in Nat /\ b \in Nat
      /\ got[c] \in Nat
  BY LineTypes DEF Polls
<1>2. /\ scn' = scn /\ text' = text /\ got' = got /\ polling' = polling /\ polling
      /\ pc' = pc /\ client' = client /\ line' = line /\ flags' = flags /\ last' = last
      /\ resetFlag' = (resetFlag \/ text[c][b] = "reset")
  BY DEF Polls
<1>3. \A d \in Clients : d # c => InNet(d)' = InNet(d) /\ InRx(d)' = InRx(d)
  BY DEF Polls
<1>4. InNet(c)' = Tail(N) /\ InRx(c)' = IF text[c][b] \in Realtime THEN R ELSE Append(R, b)
  BY DEF Polls
<1>5. NoReset'
  BY <1>1, <1>2 DEF Lines, NoReset
<1>6. \A n : Among(n, R) => Among(n, InRx(c)')
  BY <1>1, <1>4, AmongAppend
<1>7. \A n : Among(n, N) => text[c][n] \in Realtime \/ Among(n, InRx(c)') \/ Among(n, InNet(c)')
  <2> TAKE n
  <2> HAVE Among(n, N)
  <2>1. CASE n = b
    BY <1>1, <1>4, <2>1, AmongAppend
  <2>2. CASE n # b
    BY <1>1, <1>4, <2>2, AmongTail
  <2> QED
    BY <2>1, <2>2
<1>8. AllOnTheWay'
  <2> SUFFICES ASSUME NEW d \in Clients, NEW n \in DOMAIN text[d]
               PROVE  n <= got[d] \/ text[d][n] \in Realtime \/ Among(n, InRx(d)') \/ Among(n, InNet(d)')
    BY <1>2 DEF AllOnTheWay
  <2>1. n <= got[d] \/ text[d][n] \in Realtime \/ Among(n, InRx(d)) \/ Among(n, InNet(d))
    BY DEF Lines, AllOnTheWay
  <2>2. CASE d = c
    BY <1>6, <1>7, <2>1, <2>2
  <2>3. CASE d # c
    BY <1>3, <2>1, <2>3
  <2> QED
    BY <2>2, <2>3
<1>9. \A d \in Clients : d # c => LastInRing(d)' = LastInRing(d)
  BY <1>2, <1>3 DEF LastInRing
<1>10. ASSUME WholeLines, Tail(N) = <<>>
       PROVE  Between(c, LastInRing(c))'
  <2> DEFINE e == LastInRing(c)
             t == text[c]
             z == LastInRing(c)'
  <2>1. /\ e \in 0 .. Len(t) /\ got[c] <= e
        /\ \A n : Among(n, R) => n \in Nat /\ n <= e
        /\ e = 0 \/ t[e] \notin Realtime
    BY <1>1, LastFacts DEF Lines
  <2>2. Ended(t)
    BY <1>1, <1>10 DEF Lines, LinesInRings
  <2>3. \A n : Among(n, N) => n = b
    <3> TAKE n
    <3> HAVE Among(n, N)
    <3> SUFFICES ASSUME n # b  PROVE FALSE
      OBVIOUS
    <3>1. Among(n, <<>>)
      BY <1>1, <1>10, AmongTail
    <3> QED
      BY <3>1 DEF Among
  <2>4. e < b
    BY <1>1, Behind, HeadFacts
  <2>5. z = IF text[c][b] \in Realtime THEN e ELSE b
    <3>1. CASE text[c][b] \in Realtime
      BY <1>2, <1>4, <3>1 DEF LastInRing
    <3>2. CASE text[c][b] \notin Realtime
      <4> DEFINE A == Append(R, b)
      <4>1. A \in Seq(Nat) /\ Len(A) = Len(R) + 1 /\ A[Len(R) + 1] = b /\ A # <<>>
        <5> HIDE DEF R
        <5> QED
          BY <1>1, AppendProperties
      <4>2. InRx(c)' = A
        BY <1>4, <3>2
      <4> HIDE DEF A
      <4> QED
        BY <3>2, <4>1, <4>2 DEF LastInRing
    <3> QED
      BY <3>1, <3>2
  <2> HIDE DEF e, z, t
  <2>6. z = 0 \/ (z \in 1 .. Len(t) /\ t[z] \notin Realtime)
    BY <1>1, <2>1, <2>5 DEF t
  <2>7. CASE z # 0
    <3>1. PICK k \in z .. Len(t) : t[k] = "eol"
      BY <1>1, <2>2, <2>6, <2>7 DEF Ended, t
    <3>2. k \in 1 .. Len(t) /\ z <= k
      BY <1>1, <2>6, <2>7 DEF t
    <3>3. "eol" \notin Realtime
      BY DEF Realtime, Feed, Rapid
    <3>4. k <= got[c] \/ Among(k, R) \/ Among(k, N)
      BY <1>1, <3>1, <3>2, <3>3 DEF Lines, AllOnTheWay, t
    <3>5. k <= e \/ k = b
      BY <1>1, <2>1, <2>3, <3>2, <3>4
    <3>6. k = z
      <4>1. CASE t[b] \in Realtime
        <5>1. z = e /\ k # b
          BY <2>5, <3>1, <3>3, <4>1 DEF t
        <5> QED
          BY <1>1, <2>1, <3>2, <3>5, <5>1
      <4>2. CASE t[b] \notin Realtime
        <5>1. z = b
          BY <2>5, <4>2 DEF t
        <5> QED
          BY <1>1, <2>1, <2>4, <3>2, <3>5, <5>1
      <4> QED
        BY <4>1, <4>2
    <3> QED
      BY <1>2, <3>1, <3>6 DEF Between, t, z
  <2> QED
    BY <2>7 DEF Between, z
<1>11. LinesInRings'
  <2> SUFFICES ASSUME WholeLines, NEW d \in Clients
               PROVE  Ended(text[d]) /\ (Between(d, LastInRing(d))' \/ InNet(d)' # <<>>)
    BY <1>2 DEF LinesInRings, WholeLines
  <2>1. Ended(text[d]) /\ (Between(d, LastInRing(d)) \/ InNet(d) # <<>>)
    BY DEF Lines, LinesInRings
  <2>2. CASE d = c
    BY <1>4, <1>10, <2>1, <2>2
  <2>3. CASE d # c
    BY <1>2, <1>3, <1>9, <2>1, <2>3 DEF Between
  <2> QED
    BY <2>2, <2>3
<1>12. OneAssembled'
  BY <1>2 DEF Lines, OneAssembled, Assembled, SaysSoFar, Between, WholeLines
<1>13. Plain' /\ Started' /\ LastRead' /\ Intact'
  BY <1>2, ReadStays
<1> QED
  BY <1>5, <1>8, <1>11, <1>12, <1>13 DEF Lines

\* An empty line says nothing.
LEMMA SaysNothing ==
  ASSUME NEW c
  PROVE  Says(<<>>, c, {}) /\ Cardinality({}) = 0
<1>1. Len(<<>>) = 0 /\ DOMAIN <<>> = {} /\ Cardinality({}) = 0
  BY FS_EmptySet
<1> QED
  BY <1>1 DEF Says

\* At the start of a line nothing is visible, and no comment is open.
LEMMA FreshLine ==
  ASSUME IInv, NEW c \in Clients, Between(c, got[c])
  PROVE  LET t == text[c]
             n == got[c] + 1
             s == LineStart(t, n)
         IN  s = n /\ Visible(t, n) = {} /\ ~InParentheses(t, s, n) /\ ~AfterSemicolon(t, s, n)
<1>1. text[c] \in Seq(Kinds) /\ got[c] \in 0 .. Len(text[c])
  BY LineTypes
<1> QED
  BY <1>1, NewLine DEF Between

\* Between two lines of a client its line is assembled when the line buffer is as if it were new.
LEMMA AssembledFresh ==
  ASSUME IInv, NEW c \in Clients, Between(c, got[c])
  PROVE  Assembled(c) <=> line = <<>> /\ flags = {}
<1>1. Assembled(c) <=> SaysSoFar(c, {}, FALSE, FALSE)
  <2> DEFINE n == got[c] + 1
             s == LineStart(text[c], n)
             V == Visible(text[c], n)
             p == InParentheses(text[c], s, n)
             a == AfterSemicolon(text[c], s, n)
  <2>1. V = {} /\ ~p /\ ~a
    BY FreshLine
  <2>2. Assembled(c) <=> SaysSoFar(c, V, p, a)
    BY DEF Assembled
  <2> HIDE DEF V, p, a
  <2> QED
    BY <2>1, <2>2 DEF SaysSoFar
<1>2. Cardinality({}) = 0 /\ ~(0 > LineSize - 1)
  BY FS_EmptySet, CommsAssumption
<1>3. line \in Seq(Clients \X Nat) /\ flags \in {{}, {"parentheses"}, {"semicolon"}, {"overflow"}}
  BY DEF IInv, TypeOK, MainOK, Line
<1>4. SaysSoFar(c, {}, FALSE, FALSE) => line = <<>> /\ flags = {}
  <2> SUFFICES ASSUME SaysSoFar(c, {}, FALSE, FALSE)  PROVE line = <<>> /\ flags = {}
    OBVIOUS
  <2>1. flags = {} /\ Len(line) = 0
    BY <1>2, <1>3 DEF SaysSoFar, Says
  <2> QED
    BY <1>3, <2>1, EmptySeq
<1>5. line = <<>> /\ flags = {} => SaysSoFar(c, {}, FALSE, FALSE)
  BY SaysNothing DEF SaysSoFar
<1> QED
  BY <1>1, <1>4, <1>5

\* A client of whole lines whose ring is empty is between two lines when no poll runs.
LEMMA RingBetween ==
  ASSUME IInv, LinesInRings, WholeLines, ~polling, NEW c \in Clients, ~HasData(c)
  PROVE  Between(c, got[c])
  BY EmptyRing DEF LinesInRings

\* A step that moves no byte leaves the lines as they are.
LEMMA StayLines ==
  ASSUME IInv, Lines, Stays
  PROVE  Lines'
<1>1. /\ \A d \in Clients : InNet(d)' = InNet(d) /\ InRx(d)' = InRx(d)
      /\ scn' = scn /\ text' = text /\ got' = got /\ resetFlag' = resetFlag /\ last' = last
      /\ polling' = polling \/ polling' \/ \A d \in Clients : InNet(d) = <<>>
  BY DEF Stays
<1>2. NoReset'
  BY <1>1 DEF Lines, NoReset, Stays
<1>3. AllOnTheWay'
  BY <1>1 DEF Lines, AllOnTheWay
<1>4. LinesInRings'
  <2> SUFFICES ASSUME WholeLines, NEW d \in Clients
               PROVE  (Ended(text[d]) /\ (Between(d, LastInRing(d)) \/ (polling /\ InNet(d) # <<>>)))'
    BY <1>1 DEF LinesInRings, WholeLines
  <2>1. Ended(text[d]) /\ (Between(d, LastInRing(d)) \/ (polling /\ InNet(d) # <<>>))
    BY DEF Lines, LinesInRings
  <2>2. LastInRing(d)' = LastInRing(d)
    BY <1>1 DEF LastInRing
  <2> QED
    BY <1>1, <2>1, <2>2 DEF Between
<1>5. (WholeLines' <=> WholeLines) /\ \A d \in Clients : Between(d, got[d])' <=> Between(d, got[d])
  BY <1>1 DEF WholeLines, Between
<1>6. OneAssembled'
  <2>1. CASE pc' = pc /\ client' = client /\ line' = line /\ flags' = flags
    BY <1>1, <2>1 DEF Lines, OneAssembled, Assembled, SaysSoFar, Between, WholeLines
  <2>2. CASE pc = "run" /\ pc' = "read" /\ line' = <<>> /\ flags' = {}
    <3>1. Serial \in Clients /\ \A d \in Clients : Between(d, got[d])
      BY <2>2, Sizes DEF Lines, OneAssembled
    <3>2. Assembled(Serial)'
      <4>1. Assembled(Serial)' <=> SaysSoFar(Serial, {}, FALSE, FALSE)'
        BY <1>1, <3>1, FreshLine DEF Assembled, SaysSoFar
      <4> QED
        BY <2>2, <4>1, SaysNothing DEF SaysSoFar
    <3> QED
      BY <1>5, <2>2, <3>1, <3>2 DEF OneAssembled
  <2>3. CASE /\ pc = "read" /\ pc' = pc /\ client' = Serial /\ line' = line /\ flags' = flags
             /\ ~polling /\ Readable = {}
    <3>1. PICK a \in Clients : /\ Assembled(a) /\ \A d \in Clients \ {a} : Between(d, got[d])
                               /\ WholeLines => a = client \/ Between(a, got[a])
      BY <2>3 DEF Lines, OneAssembled
    <3>2. ASSUME WholeLines  PROVE Between(a, got[a])
      <4>1. a = client => ~HasData(a)
        <5>1. a \in {1, 2, 3}
          BY DEF Clients, Servers, Serial, WebSocket, Telnet
        <5> QED
          BY <2>3, <5>1 DEF Readable
      <4> QED
        BY <2>3, <3>1, <3>2, <4>1, RingBetween DEF Lines
    <3>3. Assembled(a)'
      BY <1>1, <2>3, <3>1 DEF Assembled, SaysSoFar
    <3> QED
      BY <1>5, <2>3, <3>1, <3>2, <3>3 DEF OneAssembled
  <2> QED
    BY <2>1, <2>2, <2>3 DEF Stays
<1>7. Plain' /\ Started' /\ LastRead' /\ Intact'
  BY <1>1, ReadStays
<1> QED
  BY <1>2, <1>3, <1>4, <1>6, <1>7 DEF Lines

\* A client that is to send nothing has sent nothing.
Silent == \A c \in Clients : scn.packets[c] = <<>> => text[c] = <<>>

\* The byte that is read continues the line that is assembled: the other clients are between two
\* lines, and what was sent since the last byte read was picked off.
LEMMA ReadContinues ==
  ASSUME IInv, Lines, Silent, WholeLines \/ OneClient, NEW c, NEW b, Reads(c, b)
  PROVE  /\ Assembled(c) /\ \A d \in Clients \ {c} : Between(d, got[d])
         /\ \A k \in got[c] + 1 .. b - 1 : text[c][k] \in Realtime
<1>1. /\ c \in Clients /\ c = Reading /\ c \in Readable /\ ~polling /\ pc = "read"
      /\ InRx(c) # <<>> /\ b = Head(InRx(c)) /\ b \in 1 .. Len(text[c]) /\ got[c] < b
  BY DEF Reads
<1>2. PICK a \in Clients : /\ Assembled(a) /\ \A d \in Clients \ {a} : Between(d, got[d])
                           /\ WholeLines => a = client \/ Between(a, got[a])
  BY <1>1 DEF Lines, OneAssembled
<1>3. ASSUME a # c  PROVE Between(a, got[a])
  <2>1. CASE WholeLines
    <3> SUFFICES ASSUME a = client  PROVE Between(a, got[a])
      BY <1>2, <2>1
    <3>1. a \in {1, 2, 3} /\ c \in {1, 2, 3} /\ c >= a
      BY <1>1 DEF Clients, Servers, Serial, WebSocket, Telnet, Readable
    <3>2. ~HasData(a)
      <4> SUFFICES ASSUME HasData(a)  PROVE FALSE
        OBVIOUS
      <4>1. a \in Readable
        BY <3>1 DEF Readable
      <4>2. c <= a
        BY <1>1, <4>1, FirstReadable
      <4> QED
        BY <1>3, <3>1, <4>2
    <3> QED
      BY <1>1, <2>1, <3>2, RingBetween DEF Lines
  <2>2. CASE OneClient
    <3>1. PICK x \in Clients : \A d \in Clients \ {x} : scn.packets[d] = <<>>
      BY <2>2 DEF OneClient
    <3>2. \A d \in Clients \ {x} : Len(text[d]) = 0 /\ got[d] = 0
      <4> TAKE d \in Clients \ {x}
      <4>1. text[d] = <<>>
        BY <3>1 DEF Silent
      <4>2. got[d] \in Nat /\ got[d] <= Len(text[d])
        BY LineTypes
      <4> QED
        BY <4>1, <4>2
    <3>3. c = x
      BY <1>1, <3>2
    <3> QED
      BY <1>3, <3>2, <3>3 DEF Between
  <2> QED
    BY <2>1, <2>2
<1>4. Assembled(c) /\ \A d \in Clients \ {c} : Between(d, got[d])
  <2>1. CASE a = c
    BY <1>2, <2>1
  <2>2. CASE a # c
    <3>1. line = <<>> /\ flags = {}
      BY <1>2, <1>3, <2>2, AssembledFresh
    <3>2. Assembled(c)
      BY <1>1, <1>2, <2>2, <3>1, AssembledFresh
    <3> QED
      BY <1>2, <1>3, <2>2, <3>2
  <2> QED
    BY <2>1, <2>2
<1>5. ASSUME NEW k \in got[c] + 1 .. b - 1
      PROVE  text[c][k] \in Realtime
  <2>1. got[c] \in Nat /\ b \in Nat /\ Len(text[c]) \in Nat /\ DOMAIN text[c] = 1 .. Len(text[c])
    BY <1>1, LineTypes
  <2>2. k \in 1 .. Len(text[c]) /\ ~(k <= got[c]) /\ ~(b <= k)
    BY <1>1, <2>1
  <2>3. ~Among(k, InRx(c)) /\ ~Among(k, InNet(c))
    BY <1>1, <2>2, Behind
  <2> QED
    BY <1>1, <2>1, <2>2, <2>3 DEF Lines, AllOnTheWay
<1> QED
  BY <1>4, <1>5

\* A line that ends is executed or answered; it is refused exactly if it is too long.
LEMMA LineEnds ==
  ASSUME IInv, NoReset, NEW c \in Clients, NEW b \in Nat, NEW V, NEW p, NEW a, Cardinality(V) \in Nat,
         SaysSoFar(c, V, p, a), EndOfLine(c, b)
  PROVE  /\ last'.by = c /\ last'.at = b
         /\ last'.over <=> Cardinality(V) > LineSize - 1
         /\ ~last'.over => Says(last'.line, c, V)
         /\ pc' = "run" \/ (pc' = "read" /\ line' = <<>> /\ flags' = {})
<1>1. last' = [by |-> c, at |-> b, line |-> line, over |-> "overflow" \in flags]
  BY DEF EndOfLine, NoReset
<1>2. pc' = "run" \/ (pc' = "read" /\ line' = <<>> /\ flags' = {})
  BY DEF EndOfLine, NoReset, Answer
<1>3. last'.by = c /\ last'.at = b /\ last'.line = line /\ (last'.over <=> "overflow" \in flags)
  BY <1>1
<1>4. line \in Seq(Clients \X Nat) /\ Len(line) < LineSize /\ LineSize \in Nat
  BY CommsAssumption DEF IInv, TypeOK, MainOK, Line
<1>5. CASE "overflow" \in flags
  BY <1>2, <1>3, <1>5 DEF SaysSoFar
<1>6. CASE "overflow" \notin flags
  <2>1. Says(line, c, V)
    BY <1>6 DEF SaysSoFar
  <2>2. ~(Cardinality(V) > LineSize - 1)
    BY <1>4, <2>1 DEF Says
  <2> QED
    BY <1>2, <1>3, <1>6, <2>1, <2>2
<1> QED
  BY <1>5, <1>6

\* What becomes of a line when a byte of it is read: nothing in between, then the byte.
LEMMA LineAtByte ==
  ASSUME IInv, Lines, NEW c \in Clients, NEW b \in 1 .. Len(text[c]), got[c] < b, Assembled(c),
         \A k \in got[c] + 1 .. b - 1 : text[c][k] \in Realtime
  PROVE  \E s \in 1 .. b : /\ s = LineStart(text[c], b)
                           /\ SaysSoFar(c, Visible(text[c], b), InParentheses(text[c], s, b),
                                        AfterSemicolon(text[c], s, b))
<1> DEFINE t == text[c]
           p == got[c] + 1
           s == LineStart(t, p)
<1>1. t \in Seq(Kinds) /\ p \in Nat \ {0} /\ b \in Nat /\ p <= b /\ p - 1 <= Len(t) /\ b - 1 <= Len(t)
  BY LineTypes
<1>2. s \in 1 .. p
  BY DEF Lines, Started
<1>3. \A k \in p .. b - 1 : t[k] \in Realtime
  OBVIOUS
<1>4. SaysSoFar(c, Visible(t, p), InParentheses(t, s, p), AfterSemicolon(t, s, p))
  BY DEF Assembled
<1> HIDE DEF t, p
<1>5. /\ LineStart(t, b) = s /\ Visible(t, b) = Visible(t, p)
      /\ InParentheses(t, s, b) <=> InParentheses(t, s, p)
      /\ AfterSemicolon(t, s, b) <=> AfterSemicolon(t, s, p)
  BY <1>1, <1>2, <1>3, SameLine
<1>6. s \in 1 .. b
  BY <1>1, <1>2
<1> HIDE DEF s
<1>7. SaysSoFar(c, Visible(t, b), InParentheses(t, s, b), AfterSemicolon(t, s, b))
  BY <1>4, <1>5 DEF SaysSoFar
<1> QED
  BY <1>5, <1>6, <1>7 DEF t

\* A byte that does not end the line is assembled into it (protocol.cpp:113-148).
LEMMA ByteAssembled ==
  ASSUME IInv, NEW c \in Clients, NEW b \in 1 .. Len(text[c]), text[c][b] # "eol", text[c][b] \notin Realtime,
         NEW s \in 1 .. b, s = LineStart(text[c], b),
         SaysSoFar(c, Visible(text[c], b), InParentheses(text[c], s, b), AfterSemicolon(text[c], s, b)),
         Assemble(c, b), text' = text, got'[c] = b
  PROVE  Assembled(c)' /\ LineStart(text[c], b + 1) = s
<1> DEFINE t == text[c]
           kind == t[b]
           V == Visible(t, b)
           W == Visible(t, b + 1)
           p == InParentheses(t, s, b)
           a == AfterSemicolon(t, s, b)
           q == InParentheses(t, s, b + 1)
           z == AfterSemicolon(t, s, b + 1)
<1>1. t \in Seq(Kinds) /\ b \in Nat \ {0} /\ line \in Line /\ LineSize \in Nat
      /\ flags \in {{}, {"parentheses"}, {"semicolon"}, {"overflow"}}
  BY LineTypes, CommsAssumption DEF MainOK
<1>2. /\ LineStart(t, b + 1) = s /\ W = V \cup (IF Shown(t, s, b) THEN {b} ELSE {})
      /\ q <=> kind = "open" \/ (p /\ kind # "close")
      /\ z <=> a \/ (kind = "semicolon" /\ ~p)
      /\ V \in SUBSET (1 .. b - 1)
  BY <1>1, NextByte
<1>3. W = IF kind \notin {"blank", "open", "semicolon"} /\ ~p /\ ~a THEN V \cup {b} ELSE V
  BY <1>2 DEF Shown
<1>4. IF "overflow" \in flags THEN Cardinality(V) > LineSize - 1
      ELSE Says(line, c, V) /\ ("semicolon" \in flags <=> a) /\ ("parentheses" \in flags <=> p /\ ~a)
  BY DEF SaysSoFar
<1>5. Assembled(c)' <=> IF "overflow" \in flags' THEN Cardinality(W) > LineSize - 1
                        ELSE Says(line', c, W) /\ ("semicolon" \in flags' <=> z) /\ ("parentheses" \in flags' <=> q /\ ~z)
  BY <1>2 DEF Assembled, SaysSoFar
<1>6. /\ Cardinality(V) \in Nat /\ Cardinality(W) \in Nat /\ Cardinality(V) <= Cardinality(W)
      /\ W = V \cup {b} => Cardinality(W) = Cardinality(V) + 1
  <2>1. W \in {V, V \cup {b}}
    BY <1>3
  <2> HIDE DEF V, W
  <2> QED
    BY <1>1, <1>2, <2>1, VisibleGrows
<1>7. b \in Nat \ {0} /\ V \in SUBSET (1 .. b - 1)
  BY <1>1, <1>2
<1> HIDE DEF V, W, p, a, q, z
<1> SUFFICES IF "overflow" \in flags' THEN Cardinality(W) > LineSize - 1
             ELSE Says(line', c, W) /\ ("semicolon" \in flags' <=> z) /\ ("parentheses" \in flags' <=> q /\ ~z)
  BY <1>2, <1>5
<1>8. CASE flags = {"overflow"}
  <2>1. flags' = flags
    BY <1>8 DEF Assemble
  <2>2. Cardinality(V) > LineSize - 1
    BY <1>4, <1>8
  <2> QED
    BY <1>1, <1>6, <1>8, <2>1, <2>2
<1>9. CASE flags \in {{"parentheses"}, {"semicolon"}}
  <2>1. line' = line /\ flags' = IF kind = "close" THEN flags \ {"parentheses"} ELSE flags
    BY <1>9 DEF Assemble
  <2>2. Says(line, c, V) /\ (p \/ a) /\ ("semicolon" \in flags <=> a) /\ ("parentheses" \in flags <=> p /\ ~a)
    BY <1>4, <1>9
  <2>3. W = V
    BY <1>3, <2>2
  <2>4. CASE a
    <3>1. flags = {"semicolon"} /\ z
      BY <1>2, <1>9, <2>2, <2>4
    <3> QED
      BY <2>1, <2>2, <2>3, <3>1
  <2>5. CASE ~a
    <3>1. flags = {"parentheses"} /\ p /\ ~z /\ (q <=> kind # "close")
      BY <1>2, <1>9, <2>2, <2>5
    <3> QED
      BY <2>1, <2>2, <2>3, <3>1
  <2> QED
    BY <2>4, <2>5
<1>10. CASE flags = {}
  <2>1. Says(line, c, V) /\ ~p /\ ~a /\ (q <=> kind = "open") /\ (z <=> kind = "semicolon")
    BY <1>2, <1>4, <1>10
  <2>2. CASE kind = "blank"
    <3>1. line' = line /\ flags' = flags /\ W = V
      BY <1>3, <1>10, <2>2 DEF Assemble, assembly
    <3> QED
      BY <1>10, <2>1, <2>2, <3>1
  <2>3. CASE kind = "open"
    <3>1. line' = line /\ flags' = {"parentheses"} /\ W = V
      BY <1>3, <1>10, <2>3 DEF Assemble
    <3> QED
      BY <2>1, <2>3, <3>1
  <2>4. CASE kind = "semicolon"
    <3>1. line' = line /\ flags' = {"semicolon"} /\ W = V
      BY <1>3, <1>10, <2>4 DEF Assemble
    <3> QED
      BY <2>1, <2>4, <3>1
  <2>5. CASE kind \notin {"blank", "open", "semicolon"}
    <3>1. W = V \cup {b} /\ ~q /\ ~z
      BY <1>3, <2>1, <2>5
    <3>2. IF LineFull THEN flags' = {"overflow"} /\ line' = line
          ELSE line' = Append(line, <<c, b>>) /\ flags' = flags
      BY <1>10, <2>5 DEF Assemble
    <3>3. CASE LineFull
      <4>1. Cardinality(V) >= LineSize - 1
        BY <2>1, <3>3 DEF LineFull, Says
      <4> QED
        BY <1>1, <1>6, <3>1, <3>2, <3>3, <4>1
    <3>4. CASE ~LineFull
      <4>1. Says(Append(line, <<c, b>>), c, V \cup {b})
        BY <1>1, <1>7, <2>1, SaysAppend
      <4>2. Says(line', c, W)
        BY <3>1, <3>2, <3>4, <4>1
      <4> QED
        BY <1>10, <3>1, <3>2, <3>4, <4>2
    <3> QED
      BY <3>3, <3>4
  <2> QED
    BY <2>2, <2>3, <2>4, <2>5
<1> QED
  BY <1>1, <1>8, <1>9, <1>10

\* Reading moves a byte from the ring to the line.
LEMMA ReadMovesOne ==
  ASSUME IInv, Lines, NEW c, NEW b, Reads(c, b)
  PROVE  AllOnTheWay' /\ LinesInRings'
<1> DEFINE R == InRx(c)
<1>1. /\ c \in Clients /\ R \in Seq(Nat) /\ R # <<>> /\ b = Head(R) /\ got[c] < b /\ b \in Nat
      /\ InRx(c)' = Tail(R) /\ scn' = scn /\ text' = text /\ polling' = polling
      /\ \A d \in Clients : InNet(d)' = InNet(d) /\ (d # c => InRx(d)' = InRx(d))
      /\ \A d \in Clients : got'[d] = IF d = c THEN b ELSE got[d]
      /\ \A d \in Clients : got[d] \in Nat /\ DOMAIN text[d] = 1 .. Len(text[d]) /\ Len(text[d]) \in Nat
  BY LineTypes DEF Reads
<1>2. AllOnTheWay'
  <2> SUFFICES ASSUME NEW d \in Clients, NEW n \in 1 .. Len(text[d])
               PROVE  n <= got'[d] \/ text[d][n] \in Realtime \/ Among(n, InRx(d)') \/ Among(n, InNet(d)')
    BY <1>1 DEF AllOnTheWay
  <2>1. n <= got[d] \/ text[d][n] \in Realtime \/ Among(n, InRx(d)) \/ Among(n, InNet(d))
    BY <1>1 DEF Lines, AllOnTheWay
  <2>2. CASE d # c
    BY <1>1, <2>1, <2>2
  <2>3. CASE d = c
    <3>1. n <= got[c] => n <= b
      BY <1>1
    <3>2. Among(n, R) => n <= b \/ Among(n, Tail(R))
      BY <1>1, AmongTail
    <3> QED
      BY <1>1, <2>1, <2>3, <3>1, <3>2
  <2> QED
    BY <2>2, <2>3
<1>3. LastInRing(c)' = LastInRing(c)
  <2> DEFINE T == Tail(R)
  <2>1. Len(R) \in Nat \ {0}
    BY <1>1, EmptySeq
  <2>2. T \in Seq(Nat) /\ Len(T) = Len(R) - 1 /\ Head(R) = R[1] /\ \A k \in 1 .. Len(T) : T[k] = R[k + 1]
    BY <1>1, HeadTailProperties
  <2>3. LastInRing(c)' = IF T = <<>> THEN b ELSE T[Len(T)]
    BY <1>1 DEF LastInRing
  <2>4. LastInRing(c) = R[Len(R)]
    BY <1>1 DEF LastInRing
  <2> HIDE DEF T, R
  <2>5. CASE T = <<>>
    <3>1. Len(R) = 1
      BY <2>1, <2>2, <2>5
    <3> QED
      BY <1>1, <2>2, <2>3, <2>4, <2>5, <3>1
  <2>6. CASE T # <<>>
    <3>1. Len(T) \in 1 .. Len(T) /\ Len(T) + 1 = Len(R)
      BY <2>1, <2>2, <2>6, EmptySeq
    <3> QED
      BY <2>2, <2>3, <2>4, <2>6, <3>1
  <2> QED
    BY <2>5, <2>6
<1>4. \A d \in Clients : LastInRing(d)' = LastInRing(d)
  BY <1>1, <1>3 DEF LastInRing
<1>5. LinesInRings'
  <2> SUFFICES ASSUME WholeLines, NEW d \in Clients
               PROVE  (Ended(text[d]) /\ (Between(d, LastInRing(d)) \/ (polling /\ InNet(d) # <<>>)))'
    BY <1>1 DEF LinesInRings, WholeLines
  <2>1. Ended(text[d]) /\ (Between(d, LastInRing(d)) \/ (polling /\ InNet(d) # <<>>))
    BY DEF Lines, LinesInRings
  <2> QED
    BY <1>1, <1>4, <2>1 DEF Between
<1> QED
  BY <1>2, <1>5

\* A byte that is read leaves the lines as they are.
LEMMA ReadLines ==
  ASSUME IInv, Lines, Silent, WholeLines \/ OneClient, NEW c, NEW b, Reads(c, b)
  PROVE  Lines'
<1> DEFINE t == text[c]
<1>1. /\ c \in Clients /\ pc = "read" /\ b \in 1 .. Len(t) /\ got[c] < b /\ t[b] \notin Realtime
      /\ \A d \in Clients : got'[d] = IF d = c THEN b ELSE got[d]
      /\ scn' = scn /\ text' = text /\ client' = c /\ resetFlag' = resetFlag
  BY DEF Reads
<1>2. /\ t \in Seq(Kinds) /\ Len(t) \in Nat /\ b \in Nat /\ b \in 0 .. Len(t)
      /\ \A d \in Clients : got[d] \in 0 .. Len(text[d]) /\ text[d] \in Seq(Kinds)
  BY <1>1, LineTypes
<1>3. /\ Assembled(c) /\ \A d \in Clients \ {c} : Between(d, got[d])
      /\ \A k \in got[c] + 1 .. b - 1 : t[k] \in Realtime
  BY ReadContinues
<1>4. PICK s \in 1 .. b : /\ s = LineStart(t, b)
                          /\ SaysSoFar(c, Visible(t, b), InParentheses(t, s, b), AfterSemicolon(t, s, b))
  BY <1>1, <1>3, LineAtByte
<1>5. AllOnTheWay' /\ LinesInRings'
  BY ReadMovesOne
<1>6. Plain'
  BY <1>1 DEF Lines, Plain
<1>7. \A d \in Clients \ {c} : Between(d, got[d])'
  BY <1>1, <1>3 DEF Between
<1>8. LineStart(t, b + 1) \in 1 .. b + 1 => Started'
  BY <1>1 DEF Lines, Started
<1>9. NoReset
  BY DEF Lines
<1>10. CASE t[b] # "eol"
  <2>1. Assemble(c, b) /\ pc' = pc /\ last' = last
    BY <1>10 DEF Reads
  <2>2. Assembled(c)' /\ LineStart(t, b + 1) = s
    BY <1>1, <1>4, <1>10, <2>1, ByteAssembled
  <2>3. Started'
    BY <1>2, <1>8, <2>2
  <2>4. OneAssembled'
    BY <1>1, <1>7, <2>1, <2>2 DEF OneAssembled
  <2>5. NoReset' /\ LastRead' /\ Intact'
    BY <1>1, <1>9, <2>1 DEF NoReset, Lines, LastRead, Intact
  <2> QED
    BY <1>5, <1>6, <2>3, <2>4, <2>5 DEF Lines
<1>11. CASE t[b] = "eol"
  <2> DEFINE V == Visible(t, b)
  <2>1. EndOfLine(c, b)
    BY <1>11 DEF Reads
  <2>2. Cardinality(V) \in Nat
    <3>0. V \subseteq LineStart(t, b) .. b - 1
      BY DEF Visible
    <3>1. V \subseteq s .. b - 1 /\ s \in Int /\ b - 1 \in Int
      BY <1>2, <1>4, <3>0
    <3>2. IsFiniteSet(s .. b - 1)
      BY <3>1, FS_Interval
    <3> QED
      BY <3>1, <3>2, FS_Subset, FS_CardinalityType
  <2>3. /\ last'.by = c /\ last'.at = b
        /\ last'.over <=> Cardinality(V) > LineSize - 1
        /\ ~last'.over => Says(last'.line, c, V)
        /\ pc' = "run" \/ (pc' = "read" /\ line' = <<>> /\ flags' = {})
    BY <1>1, <1>2, <1>4, <1>9, <2>1, <2>2, LineEnds
  <2>4. /\ LineStart(t, b + 1) = b + 1 /\ Visible(t, b + 1) = {}
        /\ ~InParentheses(t, b + 1, b + 1) /\ ~AfterSemicolon(t, b + 1, b + 1)
    BY <1>2, <1>11, NewLine
  <2>5. Started'
    BY <1>2, <1>8, <2>4
  <2>6. \A d \in Clients : Between(d, got[d])'
    BY <1>1, <1>7, <1>11 DEF Between
  <2>7. OneAssembled'
    <3>1. CASE pc' = "run"
      BY <2>6, <3>1 DEF OneAssembled
    <3>2. CASE pc' = "read" /\ line' = <<>> /\ flags' = {}
      <4>1. Assembled(c)' <=> SaysSoFar(c, {}, FALSE, FALSE)'
        BY <1>1, <2>4 DEF Assembled, SaysSoFar
      <4>2. Assembled(c)'
        BY <3>2, <4>1, SaysNothing DEF SaysSoFar
      <4> QED
        BY <1>1, <2>6, <3>2, <4>2 DEF OneAssembled
    <3> QED
      BY <2>3, <3>1, <3>2
  <2>8. NoReset'
    BY <1>1, <1>9, <2>3 DEF NoReset
  <2>9. LastRead' /\ Intact'
    <3>1. LastRead'
      BY <1>1, <1>4, <2>3 DEF LastRead
    <3> HIDE DEF V
    <3>2. Visible(text'[last'.by], last'.at) = V
      BY <1>1, <2>3 DEF V
    <3>3. Intact'
      BY <1>1, <2>3, <3>2 DEF Intact
    <3> QED
      BY <3>1, <3>3
  <2> QED
    BY <1>5, <1>6, <2>5, <2>7, <2>8, <2>9 DEF Lines
<1> QED
  BY <1>10, <1>11

----------------------------------------------------------------------------

\* At the start nothing was sent, and the line buffer is new.
LEMMA LinesInit ==
  ASSUME Init
  PROVE  Lines /\ Silent
<1>1. IInv
  BY IInvInit
<1>2. /\ \A c \in Clients : text[c] = <<>> /\ got[c] = 0 /\ ~HasData(c)
      /\ ~resetFlag /\ pc = "read" /\ line = <<>> /\ flags = {} /\ last.at = 0
  BY DEF Init, NoLine, HasData, RxEmpty
<1>3. DOMAIN <<>> = {}
  OBVIOUS
<1>4. \A c \in Clients : Between(c, got[c]) /\ LastInRing(c) = got[c] /\ Assembled(c)
  <2> TAKE c \in Clients
  <2>1. Between(c, got[c])
    BY <1>2 DEF Between
  <2> QED
    BY <1>1, <1>2, <2>1, EmptyRing, AssembledFresh
<1>5. NoReset /\ AllOnTheWay /\ Plain /\ LastRead /\ Intact /\ Silent
  BY <1>2, <1>3 DEF NoReset, AllOnTheWay, Plain, LastRead, Intact, Silent
<1>6. LinesInRings
  BY <1>2, <1>3, <1>4 DEF LinesInRings, Ended
<1>7. OneAssembled
  BY <1>2, <1>4, Sizes DEF OneAssembled
<1>8. Started
  BY <1>1, <1>2, <1>4, FreshLine DEF Started
<1> QED
  BY <1>5, <1>6, <1>7, <1>8 DEF Lines

\* Only a packet adds to a text.
LEMMA SilentStep ==
  ASSUME IInv, Silent, [Next]_vars
  PROVE  Silent'
<1>1. scn' = scn
  BY ScnStays
<1>2. ASSUME NEW c \in Clients, Sends(c)
      PROVE  Silent'
  <2>1. WireOK
    BY DEF IInv, TypeOK
  <2>2. scn.packets[c] # <<>>
    BY <1>2, <2>1 DEF Sends, WireOK
  <2>3. \A d \in Clients : d # c => text'[d] = text[d]
    BY <1>2, <2>1, TextSent
  <2> QED
    BY <1>1, <2>2, <2>3 DEF Silent
<1>3. CASE UartReceive \/ SocketFrame \/ SocketFragment \/ TelnetData
  BY <1>2, <1>3 DEF UartReceive, SocketFrame, SocketFragment, TelnetData, Clients, Servers
<1>4. CASE ~(UartReceive \/ SocketFrame \/ SocketFragment \/ TelnetData)
  <2>1. text' = text
    BY <1>4 DEF Next, Network, Poll, Main, vars, wire, SocketOpens, SocketCloses, TelnetConnect, TelnetDrops,
         TelnetDisconnected, ChannelOnly, FlushTimePasses, PollStarts, PollByte, PickedOff, PollEnds, Read, RunPass,
         LineDone, Idle, Reinit
  <2> QED
    BY <1>1, <2>1 DEF Silent
<1> QED
  BY <1>3, <1>4

\* No step breaks a line of clients that send whole lines, or of one alone.
LEMMA LinesStep ==
  ASSUME IInv, NothingLost, Silent, Orderly => Lines, [Next]_vars
  PROVE  (Orderly => Lines)'
<1>1. scn' = scn
  BY ScnStays
<1>2. (Orderly' <=> Orderly)
  BY <1>1 DEF Orderly, Steady, Lossless, WholeLines, OneClient
<1> SUFFICES ASSUME Orderly  PROVE Lines'
  BY <1>2
<1>3. Lines /\ Steady /\ (WholeLines \/ OneClient) /\ IInv' /\ NothingLost' /\ NoReset
  BY IInvStep, NothingLostStep DEF Orderly, Lines
<1>4. CASE UartReceive \/ SocketFrame \/ SocketFragment \/ TelnetData
  <2>1. PICK c \in Clients : Sends(c) /\ Arrives(c) /\ Joins(c)
    BY <1>1, <1>3, <1>4, SentJoins
  <2> QED
    BY <1>3, <2>1, SentLines
<1>5. CASE PollByte
  <2>1. lost' = lost
    BY <1>3, <1>5, PollKeeps
  <2>2. PICK c, b : Polls(c, b)
    BY <1>5, <2>1, PollMoves
  <2> QED
    BY <1>3, <2>2, PolledLines
<1>6. CASE Read
  <2>1. PICK c, b : Reads(c, b)
    BY <1>6, ReadMoves
  <2> QED
    BY <1>3, <2>1, ReadLines
<1>7. CASE ~(UartReceive \/ SocketFrame \/ SocketFragment \/ TelnetData \/ PollByte \/ Read)
  <2>1. Stays
    BY <1>3, <1>7, OtherMoves DEF NoReset
  <2> QED
    BY <1>3, <2>1, StayLines
<1> QED
  BY <1>4, <1>5, <1>6, <1>7

\* While clients send whole lines, or one is alone, the line buffer says what the text it is read from
\* says, for any sizes (protocol.cpp:70-149).
LEMMA LinesCorrect == Spec => [](IInv /\ (Orderly => Lines))
<1>1. Init => IInv /\ NothingLost /\ Silent /\ (Orderly => Lines)
  <2>1. Init => NothingLost
    BY DEF Init, NothingLost
  <2> QED
    BY <2>1, IInvInit, LinesInit
<1>2. IInv /\ NothingLost /\ Silent /\ (Orderly => Lines) /\ [Next]_vars
        => (IInv /\ NothingLost /\ Silent /\ (Orderly => Lines))'
  BY IInvStep, NothingLostStep, SilentStep, LinesStep
<1> QED
  BY <1>1, <1>2, PTL DEF Spec

\* Among clients that send whole lines, or of one client alone, each line is executed as it was
\* written: without comments and blanks, nothing missing, mixed in or left over, and refused exactly
\* if it is too long (protocol.cpp:70-149).
THEOREM LinesIntactCorrect == Spec => []LinesIntact
<1>1. IInv /\ (Orderly => Lines) => LinesIntact
  BY DEF Lines, Intact, LinesIntact
<1> QED
  BY <1>1, LinesCorrect, PTL

\* All the invariants that the properties of the ways in and out rest on hold, for any sizes of the
\* rings and buffers (serial.cpp:65-172, telnet_server.cpp:146-171, protocol.cpp:70-149).
THEOREM CommsInvCorrect == Spec => []CommsInv
<1>1. IInv /\ (Orderly => Lines) => CommsInv
  <2> SUFFICES ASSUME IInv, Orderly => Lines  PROVE CommsInv
    OBVIOUS
  <2>1. InOrder /\ OnlySent
    BY WayIsOrder DEF IInv, TypeOK
  <2>2. LineInv
    BY DEF Lines, LineInv
  <2> QED
    BY <2>1, <2>2 DEF IInv, CommsInv
<1> QED
  BY <1>1, LinesCorrect, PTL

============================================================================
