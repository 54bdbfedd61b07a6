--------------------------- MODULE Planner_proofs ---------------------------
(***************************************************************************)
(* The planner's invariant, for jobs of any size: the planned pointer and   *)
(* the profile in execution follow the plan, and where overrides are only   *)
(* raised the plan can be driven, is optimal, and ends at rest.             *)
(***************************************************************************)
EXTENDS Planner, TLAPS

Blocks == [rate: Speeds, cap: Speeds, rapid: BOOLEAN, junction: Speeds,
           length: Nat, entry: Speeds, max: Speeds]

-----------------------------------------------------------------------------
(* The ring *)

\* The ring holds at least three blocks (BLOCK_BUFFER_SIZE).
LEMMA RingSize ==
  ASSUME job \in Jobs
  PROVE  job.blocks \in Nat /\ job.blocks > 2
  BY PlannerAssumption

\* Next and previous are inverses and stay in the ring.
LEMMA Turning ==
  ASSUME job \in Jobs, NEW i \in Slots
  PROVE  /\ NextSlot(i) \in Slots /\ PrevSlot(i) \in Slots
         /\ PrevSlot(NextSlot(i)) = i /\ NextSlot(PrevSlot(i)) = i
         /\ NextSlot(i) # i /\ PrevSlot(i) # i /\ NextSlot(i) # PrevSlot(i)
  BY RingSize DEF Slots, NextSlot, PrevSlot

\* A slot's place in the queue, and those of its neighbours.
LEMMA Placing ==
  ASSUME job \in Jobs, tail \in Slots, NEW i \in Slots
  PROVE  /\ Place(i) \in 0 .. job.blocks - 1
         /\ Place(i) = 0 <=> i = tail
         /\ NextSlot(i) # tail => Place(NextSlot(i)) = Place(i) + 1
         /\ NextSlot(i) = tail => Place(i) = job.blocks - 1
         /\ i # tail => Place(PrevSlot(i)) = Place(i) - 1
         /\ \A j \in Slots : Place(i) = Place(j) => i = j
  BY RingSize DEF Slots, NextSlot, PrevSlot, Place

-----------------------------------------------------------------------------
(* Speeds *)

\* Products and the lesser or greater of two speeds are speeds.
LEMMA NominalIsSpeed ==
  ASSUME NEW b \in Blocks, NEW o \in Overrides
  PROVE  Nominal(b, o) \in Speeds
<1>1. ASSUME NEW x \in Nat, NEW y \in Nat
      PROVE  (x * y) \div 4 \in Nat
  <2>. DEFINE p == x * y
  <2>1. p \in Nat
    BY SMT
  <2>. HIDE DEF p
  <2>2. p \div 4 \in Nat
    BY <2>1, SMT
  <2>. QED
    BY <2>2 DEF p
<1>. DEFINE q == (b.rate * o.rapid) \div 4  r == (b.rate * o.feed) \div 4
<1>2. q \in Nat /\ r \in Nat /\ b.cap \in Nat
  BY <1>1 DEF Blocks, Overrides, Speeds
<1>. HIDE DEF q, r
<1>3. Nominal(b, o) = Most(MinimumFeedRate, IF b.rapid THEN q ELSE Least(r, b.cap))
  BY DEF Nominal, q, r
<1>. QED
  BY <1>2, <1>3 DEF Most, Least, Speeds, MinimumFeedRate

\* The nominal speed depends on the programmed rate and the cap alone.
LEMMA NominalSame ==
  ASSUME NEW b, NEW c, NEW o, b.rate = c.rate, b.cap = c.cap, b.rapid = c.rapid
  PROVE  Nominal(b, o) = Nominal(c, o)
  BY DEF Nominal

\* An entry speed is set: nothing else of the blocks changes.
LEMMA EntrySet ==
  ASSUME NEW S, NEW c \in [S -> Blocks], NEW i \in S, NEW v \in Speeds, NEW d,
         d = [c EXCEPT ![i].entry = v]
  PROVE  /\ d \in [S -> Blocks]
         /\ \A j \in S : j # i => d[j] = c[j]
         /\ d[i].entry = v /\ d[i].rate = c[i].rate /\ d[i].cap = c[i].cap
         /\ d[i].rapid = c[i].rapid /\ d[i].junction = c[i].junction
         /\ d[i].length = c[i].length /\ d[i].max = c[i].max
  BY DEF Blocks

\* The same move, to be entered at most as fast: all but the entry speed.
SameMove(b, c) ==
  /\ b.rate = c.rate /\ b.cap = c.cap /\ b.rapid = c.rapid /\ b.junction = c.junction
  /\ b.length = c.length /\ b.max = c.max

-----------------------------------------------------------------------------
(* Steps *)

\* What st_update_plan_block_parameters() does to the blocks.
LEMMA Unloaded ==
  ASSUME tail \in Slots, speed \in Speeds, loaded \in BOOLEAN, NEW b \in [Slots -> Blocks]
  PROVE  /\ Unload(b) \in [Slots -> Blocks]
         /\ \A j \in Slots : /\ SameMove(b[j], Unload(b)[j])
                             /\ Unload(b)[j].entry = IF loaded /\ j = tail THEN speed
                                                     ELSE b[j].entry
<1>1. CASE loaded
  <2>1. Unload(b) = [b EXCEPT ![tail].entry = speed]
    BY <1>1 DEF Unload
  <2>2. /\ Unload(b) \in [Slots -> Blocks]
        /\ \A j \in Slots : j # tail => Unload(b)[j] = b[j]
        /\ Unload(b)[tail].entry = speed /\ SameMove(b[tail], Unload(b)[tail])
    BY <2>1, EntrySet DEF SameMove
  <2>. QED
    BY <1>1, <2>2 DEF SameMove
<1>2. CASE ~loaded
  BY <1>2 DEF Unload, SameMove
<1>. QED
  BY <1>1, <1>2

\* The plan begins to be computed again.
LEMMA Recalculated ==
  ASSUME TypeOK, NEW b \in [Slots -> Blocks], NEW h \in Slots, NEW p \in Slots,
         NEW already \in BOOLEAN, Recalculate(b, h, p, already), job' = job, tail' = tail,
         NEW touches \in BOOLEAN,
         touches <=> \/ already
                     \/ PrevSlot(h) # p /\ PrevSlot(PrevSlot(h)) = p /\ p = tail
  PROVE  /\ planned' = p /\ head' = h
         /\ loaded' = (loaded /\ ~touches) /\ recalc' = (recalc \/ (loaded /\ touches))
         /\ block' \in [Slots -> Blocks]
         /\ \A j \in Slots :
              /\ SameMove(b[j], block'[j])
              /\ block'[j].entry = IF j = PrevSlot(h) /\ j # p THEN Stoppable(b[j])
                                   ELSE IF touches /\ loaded /\ j = tail THEN speed
                                   ELSE b[j].entry
         /\ PrevSlot(h) = p => pass' = "none" /\ index' = 0
         /\ PrevSlot(h) # p /\ PrevSlot(PrevSlot(h)) = p =>
              pass' = "forward" /\ index' = PrevSlot(h)
         /\ PrevSlot(h) # p /\ PrevSlot(PrevSlot(h)) # p =>
              pass' = "reverse" /\ index' = PrevSlot(PrevSlot(h))
<1>. DEFINE last == PrevSlot(h)  i == PrevSlot(last)  c == IF touches THEN Unload(b) ELSE b
            t == already \/ (last # p /\ i = p /\ Executing(i))
<1>0. job \in Jobs /\ tail \in Slots /\ speed \in Speeds /\ loaded \in BOOLEAN /\ recalc \in BOOLEAN
  BY DEF TypeOK
<1>1. last \in Slots /\ i \in Slots /\ NextSlot(i) = last
  BY <1>0, Turning
<1>2. t <=> touches
  BY DEF Executing
<1>3. /\ c \in [Slots -> Blocks]
      /\ \A j \in Slots : /\ SameMove(b[j], c[j])
                          /\ c[j].entry = IF touches /\ loaded /\ j = tail THEN speed ELSE b[j].entry
  <2>1. CASE touches
    BY <1>0, <2>1, Unloaded
  <2>2. CASE ~touches
    BY <2>2 DEF SameMove
  <2>. QED
    BY <2>1, <2>2
<1>4. /\ planned' = p /\ head' = h /\ Unloading(t)
      /\ IF last = p
         THEN pass' = "none" /\ block' = c /\ index' = 0
         ELSE /\ pass' = IF i = p THEN "forward" ELSE "reverse"
              /\ index' = IF i = p THEN NextSlot(p) ELSE i
              /\ block' = [c EXCEPT ![last].entry = Stoppable(c[last])]
  BY <1>2 DEF Recalculate
<1>5. loaded' = (loaded /\ ~touches) /\ recalc' = (recalc \/ (loaded /\ touches))
  <2>1. CASE touches /\ loaded
    BY <1>2, <1>4, <2>1 DEF Unloading
  <2>2. CASE ~(touches /\ loaded)
    BY <1>0, <1>2, <1>4, <2>2 DEF Unloading
  <2>. QED
    BY <2>1, <2>2
<1>6. Stoppable(c[last]) \in Speeds /\ Stoppable(c[last]) = Stoppable(b[last])
  <2>1. c[last] \in Blocks /\ SameMove(b[last], c[last])
    BY <1>1, <1>3
  <2>. QED
    BY <2>1 DEF Stoppable, Least, SameMove, Blocks, Speeds
<1>. HIDE DEF c, t
<1>7. /\ block' \in [Slots -> Blocks]
      /\ \A j \in Slots :
           /\ SameMove(b[j], block'[j])
           /\ block'[j].entry = IF j = last /\ j # p THEN Stoppable(b[j])
                                ELSE IF touches /\ loaded /\ j = tail THEN speed
                                ELSE b[j].entry
  <2>1. CASE last = p
    BY <1>3, <1>4, <2>1
  <2>2. CASE last # p
    <3>1. block' = [c EXCEPT ![last].entry = Stoppable(c[last])]
      BY <1>4, <2>2
    <3>. HIDE DEF last, i
    <3>2. /\ block' \in [Slots -> Blocks]
          /\ \A j \in Slots : j # last => block'[j] = c[j]
          /\ block'[last].entry = Stoppable(b[last]) /\ SameMove(c[last], block'[last])
      BY <1>1, <1>3, <1>6, <3>1, EntrySet DEF SameMove
    <3>3. ASSUME NEW j \in Slots
          PROVE  /\ SameMove(b[j], block'[j])
                 /\ block'[j].entry = IF j = last /\ j # p THEN Stoppable(b[j])
                                      ELSE IF touches /\ loaded /\ j = tail THEN speed
                                      ELSE b[j].entry
      <4>1. CASE j = last
        BY <1>3, <2>2, <3>2, <4>1 DEF SameMove
      <4>2. CASE j # last
        BY <1>3, <3>2, <4>2
      <4>. QED
        BY <4>1, <4>2
    <3>. QED
      BY <3>2, <3>3
  <2>. QED
    BY <2>1, <2>2
<1>. QED
  BY <1>1, <1>4, <1>5, <1>7

\* One turn of the reverse pass.
LEMMA Reversed ==
  ASSUME TypeOK, Reverse
  PROVE  LET i == PrevSlot(index)
         IN  /\ i \in Slots
             /\ loaded' = (loaded /\ i # tail) /\ recalc' = (recalc \/ (loaded /\ i = tail))
             /\ block' \in [Slots -> Blocks]
             /\ \A j \in Slots :
                  /\ SameMove(block[j], block'[j])
                  /\ j # index => block'[j].entry = IF i = tail /\ loaded /\ j = tail THEN speed
                                                    ELSE block[j].entry
             /\ block'[index].entry =
                  IF block[index].entry = block[index].max THEN block[index].max
                  ELSE Least(block[index].max, block[NextSlot(index)].entry + block[index].length)
<1>. DEFINE i == PrevSlot(index)  n == NextSlot(index)
            c == IF Executing(i) THEN Unload(block) ELSE block
            cur == c[index]
            v == Least(cur.max, c[n].entry + cur.length)
<1>1. /\ job \in Jobs /\ tail \in Slots /\ index \in Slots /\ speed \in Speeds
      /\ block \in [Slots -> Blocks] /\ loaded \in BOOLEAN /\ recalc \in BOOLEAN
  BY DEF TypeOK, Blocks
<1>2. /\ i \in Slots /\ n \in Slots /\ i # index /\ n # index /\ n # i
  BY <1>1, Turning
<1>3. /\ c \in [Slots -> Blocks]
      /\ \A j \in Slots : /\ SameMove(block[j], c[j])
                          /\ c[j].entry = IF i = tail /\ loaded /\ j = tail THEN speed
                                          ELSE block[j].entry
  <2>1. CASE i = tail
    BY <1>1, <2>1, Unloaded DEF Executing
  <2>2. CASE i # tail
    BY <1>1, <2>2 DEF SameMove, Executing
  <2>. QED
    BY <2>1, <2>2
<1>4. Unloading(i = tail) /\ block' = IF cur.entry = cur.max THEN c ELSE [c EXCEPT ![index].entry = v]
  BY DEF Reverse, Executing
<1>5. loaded' = (loaded /\ i # tail) /\ recalc' = (recalc \/ (loaded /\ i = tail))
  <2>1. CASE i = tail /\ loaded
    BY <1>4, <2>1 DEF Unloading
  <2>2. CASE ~(i = tail /\ loaded)
    BY <1>1, <1>4, <2>2 DEF Unloading
  <2>. QED
    BY <2>1, <2>2
<1>. HIDE DEF c, i, n
<1>6. cur \in Blocks /\ c[n] \in Blocks
  BY <1>1, <1>2, <1>3
<1>7. v \in Speeds
  BY <1>6 DEF Least, Blocks, Speeds
<1>8. /\ cur.entry = block[index].entry /\ cur.max = block[index].max
      /\ cur.length = block[index].length /\ c[n].entry = block[n].entry
  BY <1>1, <1>2, <1>3 DEF SameMove
<1>9. /\ block' \in [Slots -> Blocks]
      /\ \A j \in Slots : j # index => block'[j] = c[j]
      /\ SameMove(c[index], block'[index])
      /\ block'[index].entry = IF cur.entry = cur.max THEN cur.max ELSE v
  <2>1. CASE cur.entry = cur.max
    BY <1>3, <1>4, <2>1 DEF SameMove
  <2>2. CASE cur.entry # cur.max
    <3>1. block' = [c EXCEPT ![index].entry = v]
      BY <1>4, <2>2
    <3>. HIDE DEF v
    <3>. QED
      BY <1>1, <1>3, <1>7, <2>2, <3>1, EntrySet DEF SameMove
  <2>. QED
    BY <2>1, <2>2
<1>10. block'[index].entry = IF block[index].entry = block[index].max THEN block[index].max
                             ELSE Least(block[index].max, block[n].entry + block[index].length)
  BY <1>8, <1>9
<1>11. ASSUME NEW j \in Slots
       PROVE  /\ SameMove(block[j], block'[j])
              /\ j # index => block'[j].entry = IF i = tail /\ loaded /\ j = tail THEN speed
                                                ELSE block[j].entry
  BY <1>3, <1>9 DEF SameMove
<1>. QED
  BY <1>2, <1>5, <1>9, <1>10, <1>11 DEF i, n

\* One turn of the forward pass.
LEMMA Forwarded ==
  ASSUME TypeOK, Forward
  PROVE  LET before == PrevSlot(index)
             cur == block[before]
             next == block[index]
         IN  /\ before \in Slots
             /\ block' \in [Slots -> Blocks]
             /\ \A j \in Slots : /\ SameMove(block[j], block'[j])
                                 /\ j # index => block'[j] = block[j]
             /\ block'[index].entry = IF Accelerated(cur, next) THEN cur.entry + cur.length
                                      ELSE next.entry
             /\ planned' = IF Accelerated(cur, next) \/ block'[index].entry = next.max
                           THEN index ELSE planned
<1>. DEFINE before == PrevSlot(index)  cur == block[before]  next == block[index]
            v == cur.entry + cur.length
<1>1. job \in Jobs /\ tail \in Slots /\ index \in Slots /\ block \in [Slots -> Blocks]
  BY DEF TypeOK, Blocks
<1>2. before \in Slots
  BY <1>1, Turning
<1>3. cur \in Blocks /\ next \in Blocks
  BY <1>1, <1>2
<1>4. v \in Speeds
  BY <1>3 DEF Blocks, Speeds
<1>5. /\ block' = [block EXCEPT ![index] = Dialled(cur, next)]
      /\ planned' = IF Accelerated(cur, next) \/ Optimal(Dialled(cur, next)) THEN index ELSE planned
  BY DEF Forward
<1>. HIDE DEF cur
<1>6. CASE Accelerated(cur, next)
  <2>1. block' = [block EXCEPT ![index].entry = v]
    BY <1>1, <1>5, <1>6 DEF Dialled
  <2>. HIDE DEF v
  <2>2. /\ block' \in [Slots -> Blocks]
        /\ \A j \in Slots : j # index => block'[j] = block[j]
        /\ block'[index].entry = v /\ SameMove(next, block'[index])
    BY <1>1, <1>4, <2>1, EntrySet DEF SameMove
  <2>. QED
    BY <1>2, <1>5, <1>6, <2>2 DEF SameMove, v, cur
<1>7. CASE ~Accelerated(cur, next)
  <2>1. block' = block
    BY <1>1, <1>5, <1>7 DEF Dialled
  <2>. QED
    BY <1>1, <1>2, <1>5, <1>7, <2>1 DEF SameMove, Dialled, Optimal, cur
<1>. QED
  BY <1>6, <1>7

\* The speed at the end of a segment is a speed.
LEMMA EndIsSpeed ==
  ASSUME NEW v \in Nat, NEW part \in Nat, NEW rest \in Nat, NEW x \in Nat, NEW nominal \in Nat
  PROVE  EndSpeed(v, part, rest, x, nominal) \in Nat
  BY DEF EndSpeed, Least, Most

\* The speeds a segment is prepared from.
LEMMA Starting ==
  ASSUME TypeOK
  PROVE  /\ tail \in Slots /\ NextSlot(tail) \in Slots /\ block[tail] \in Blocks
         /\ block[tail].length \in Nat /\ block[tail].entry \in Nat /\ block[tail].max \in Nat
         /\ Nominal(block[tail], override) \in Nat
         /\ StartEntry \in Nat /\ StartSpeed \in Nat /\ NextEntry \in Nat
<1>1. /\ job \in Jobs /\ tail \in Slots /\ block \in [Slots -> Blocks] /\ override \in Overrides
      /\ speed \in Nat /\ exit \in Nat /\ 0 \in Nat
  BY DEF TypeOK, Blocks, Speeds
<1>2. NextSlot(tail) \in Slots
  BY <1>1, Turning
<1>3. block[tail] \in Blocks /\ block[NextSlot(tail)] \in Blocks
  BY <1>1, <1>2
<1>4. /\ block[tail].length \in Nat /\ block[tail].entry \in Nat /\ block[tail].max \in Nat
      /\ block[NextSlot(tail)].entry \in Nat
  BY <1>3 DEF Blocks, Speeds
<1>5. Nominal(block[tail], override) \in Nat
  BY <1>1, <1>3, NominalIsSpeed DEF Speeds
<1>. QED
  BY <1>1, <1>2, <1>3, <1>4, <1>5 DEF StartEntry, StartSpeed, NextEntry

\* The profile's exit speed and the place where it ends.
LEMMA Profiled ==
  ASSUME TypeOK, NEW e \in Nat
  PROVE  /\ Profile(e).exit \in Nat /\ Profile(e).stop \in Nat /\ Profile(e).forced \in BOOLEAN
         /\ Profile(e).stop <= block[tail].length
         /\ mode = "hold" => /\ e + Profile(e).stop = Profile(e).exit + block[tail].length
                             /\ Profile(e).exit = 0 \/ Profile(e).stop = 0
                             /\ ~Profile(e).forced
         /\ mode # "hold" => Profile(e).stop = 0
         /\ mode # "hold" /\ ~Profile(e).forced => Profile(e).exit = NextEntry
         /\ mode # "hold" /\ e <= Nominal(block[tail], override) => ~Profile(e).forced
<1>. DEFINE length == block[tail].length  nominal == Nominal(block[tail], override)
<1>1. length \in Nat /\ nominal \in Nat /\ NextEntry \in Nat
  BY Starting
<1>2. \/ /\ mode = "hold" /\ e > length
         /\ Profile(e) = [exit |-> e - length, stop |-> 0, forced |-> FALSE]
      \/ /\ mode = "hold" /\ ~(e > length)
         /\ Profile(e) = [exit |-> 0, stop |-> length - e, forced |-> FALSE]
      \/ /\ mode # "hold" /\ e > nominal /\ length <= e - nominal
         /\ Profile(e) = [exit |-> e - length, stop |-> 0, forced |-> TRUE]
      \/ /\ mode # "hold"
         /\ Profile(e) = [exit |-> NextEntry, stop |-> 0, forced |-> FALSE]
  BY DEF Profile, Overrun
<1>. HIDE DEF length, nominal
<1>3. CASE /\ mode = "hold" /\ e > length
           /\ Profile(e) = [exit |-> e - length, stop |-> 0, forced |-> FALSE]
  BY <1>1, <1>3 DEF length
<1>4. CASE /\ mode = "hold" /\ ~(e > length)
           /\ Profile(e) = [exit |-> 0, stop |-> length - e, forced |-> FALSE]
  BY <1>1, <1>4 DEF length
<1>5. CASE /\ mode # "hold" /\ e > nominal /\ length <= e - nominal
           /\ Profile(e) = [exit |-> e - length, stop |-> 0, forced |-> TRUE]
  BY <1>1, <1>5 DEF length, nominal
<1>6. CASE /\ mode # "hold"
           /\ Profile(e) = [exit |-> NextEntry, stop |-> 0, forced |-> FALSE]
  BY <1>1, <1>6 DEF length
<1>. QED
  BY <1>2, <1>3, <1>4, <1>5, <1>6

\* The profile the segment is taken from: that of the block loaded, or a new one.
Ramp == IF loaded THEN [exit |-> exit, stop |-> stop, forced |-> forced] ELSE Profile(StartEntry)

\* A segment is prepared.
LEMMA Segmented ==
  ASSUME TypeOK, NEW part \in 0 .. block[tail].length, PrepSegment(part), NEW rest,
         rest = block[tail].length - part - Ramp.stop
  PROVE  /\ rest \in Nat /\ part \in Nat
         /\ exit' = Ramp.exit /\ stop' = Ramp.stop /\ forced' = Ramp.forced
         /\ exit' \in Nat /\ stop' \in Nat /\ forced' \in BOOLEAN
         /\ recalc' = (recalc /\ loaded)
         /\ speed' = EndSpeed(StartSpeed, part, rest, exit', Nominal(block[tail], override))
         /\ speed' \in Nat
         /\ block' \in [Slots -> Blocks]
         /\ \A j \in Slots : j # tail => block'[j] = block[j]
         /\ block'[tail].rate = block[tail].rate /\ block'[tail].cap = block[tail].cap
         /\ block'[tail].rapid = block[tail].rapid /\ block'[tail].max = block[tail].max
         /\ block'[tail].junction = block[tail].junction
         /\ block'[tail].length = block[tail].length - part
         /\ block'[tail].entry = IF loaded THEN block[tail].entry ELSE StartEntry
         /\ loaded' = (rest > 0 \/ stop' > 0) /\ endMotion' = (rest = 0 /\ stop' > 0)
         /\ tail' = IF rest = 0 /\ stop' = 0 THEN NextSlot(tail) ELSE tail
         /\ planned' = IF rest = 0 /\ stop' = 0 /\ planned = tail THEN NextSlot(tail) ELSE planned
<1>. DEFINE e == StartEntry  length == block[tail].length  len2 == length - part
            old == block[tail]
            new == [old EXCEPT !.entry = IF loaded THEN @ ELSE e, !.length = length - part]
<1>1. /\ tail \in Slots /\ block \in [Slots -> Blocks] /\ exit \in Nat /\ stop \in Nat
      /\ forced \in BOOLEAN /\ loaded \in BOOLEAN
  BY DEF TypeOK, Blocks, Speeds
<1>2. /\ old \in Blocks /\ old.length \in Nat /\ old.entry \in Nat /\ e \in Nat
      /\ StartSpeed \in Nat /\ Nominal(old, override) \in Nat
  BY Starting
<1>3. part \in Nat /\ len2 \in Nat
  BY <1>2
<1>4. Ramp.exit \in Nat /\ Ramp.stop \in Nat /\ Ramp.forced \in BOOLEAN
  BY <1>1, <1>2, Profiled DEF Ramp
<1>5. Segment(part)
  BY DEF PrepSegment
<1>6. /\ part + Ramp.stop <= length
      /\ exit' = Ramp.exit /\ stop' = Ramp.stop /\ forced' = Ramp.forced
      /\ recalc' = (recalc /\ loaded)
      /\ speed' = EndSpeed(StartSpeed, part, rest, Ramp.exit, Nominal(old, override))
      /\ block' = [block EXCEPT ![tail] = new]
      /\ loaded' = (rest > 0 \/ Ramp.stop > 0)
      /\ endMotion' = (rest = 0 /\ Ramp.stop > 0)
      /\ tail' = IF rest = 0 /\ Ramp.stop = 0 THEN NextSlot(tail) ELSE tail
      /\ planned' = IF rest = 0 /\ Ramp.stop = 0 THEN PlannedAfter ELSE planned
  <2>. DEFINE g == IF loaded THEN [exit |-> exit, stop |-> stop, forced |-> forced]
                   ELSE Profile(StartEntry)
  <2>1. g = Ramp
    BY DEF Ramp
  <2>. HIDE DEF g
  <2>2. part + g.stop <= length
    BY <1>5 DEF Segment, g
  <2>3. exit' = g.exit /\ stop' = g.stop /\ forced' = g.forced
    BY <1>5 DEF Segment, g
  <2>4. recalc' = (recalc /\ loaded)
    BY <1>5 DEF Segment, g
  <2>5. speed' = EndSpeed(StartSpeed, part, length - part - g.stop, g.exit, Nominal(old, override))
    BY <1>5 DEF Segment, g
  <2>6. block' = [block EXCEPT ![tail] = new]
    BY <1>5 DEF Segment
  <2>7. loaded' = (length - part - g.stop > 0 \/ g.stop > 0)
    BY <1>5 DEF Segment, g
  <2>8. endMotion' = (length - part - g.stop = 0 /\ g.stop > 0)
    BY <1>5 DEF Segment, g
  <2>9. tail' = IF length - part - g.stop = 0 /\ g.stop = 0 THEN NextSlot(tail) ELSE tail
    BY <1>5 DEF Segment, g
  <2>10. planned' = IF length - part - g.stop = 0 /\ g.stop = 0 THEN PlannedAfter ELSE planned
    BY <1>5 DEF Segment, g
  <2>. QED
    BY <2>1, <2>2, <2>3, <2>4, <2>5, <2>6, <2>7, <2>8, <2>9, <2>10
<1>7. rest \in Nat
  BY <1>2, <1>3, <1>4, <1>6
<1>8. speed' \in Nat
  BY <1>2, <1>3, <1>4, <1>6, <1>7, EndIsSpeed
<1>9. new \in Blocks /\ new.length = len2 /\ new.entry = (IF loaded THEN old.entry ELSE e)
      /\ new.rate = old.rate /\ new.cap = old.cap /\ new.rapid = old.rapid /\ new.max = old.max
      /\ new.junction = old.junction
  <2>. HIDE DEF len2, e, old
  <2>. DEFINE ent == IF loaded THEN old.entry ELSE e
  <2>1. ent \in Nat
    BY <1>2
  <2>2. new = [old EXCEPT !.entry = ent, !.length = len2]
    BY DEF len2, old, e, Blocks
  <2>. HIDE DEF ent, new
  <2>3. /\ new \in Blocks /\ new.length = len2 /\ new.entry = ent
        /\ new.rate = old.rate /\ new.cap = old.cap /\ new.rapid = old.rapid /\ new.max = old.max
        /\ new.junction = old.junction
    BY <1>2, <1>3, <2>1, <2>2 DEF Blocks, Speeds
  <2>. QED
    BY <2>3 DEF ent
<1>. HIDE DEF new, e
<1>10. /\ block' \in [Slots -> Blocks] /\ block'[tail] = new
       /\ \A j \in Slots : j # tail => block'[j] = block[j]
  BY <1>1, <1>6, <1>9
<1>11. planned' = IF rest = 0 /\ Ramp.stop = 0 /\ planned = tail THEN NextSlot(tail) ELSE planned
  BY <1>6 DEF PlannedAfter
<1>. QED
  BY <1>3, <1>4, <1>6, <1>7, <1>8, <1>9, <1>10, <1>11 DEF e

-----------------------------------------------------------------------------
(* Types *)

\* A new move's maximum entry speed is a speed.
LEMMA MaxIsSpeed ==
  ASSUME NEW b, b.junction \in Speeds, NEW nominal \in Speeds, NEW before \in Speeds
  PROVE  MaxEntry(b, nominal, before) \in Speeds
  BY DEF MaxEntry, Least, Speeds

\* The block that is planned for move m, and the blocks with it.
Fresh(m) ==
  [rate |-> m.rate, cap |-> m.cap, rapid |-> m.rapid, length |-> m.length,
   junction |-> IF Empty THEN 0 ELSE m.junction, entry |-> 0, max |-> 0]
New(m) == [Fresh(m) EXCEPT !.max = MaxEntry(Fresh(m), Nominal(Fresh(m), override), previous)]

\* The blocks with their maximum entry speeds under override o.
Rated(o) ==
  [i \in Slots |->
     IF Queued(i)
     THEN [block[i] EXCEPT !.max = MaxEntry(block[i], Nominal(block[i], o), Before(i, o))]
     ELSE block[i]]

\* A new block is one.
LEMMA Planned ==
  ASSUME TypeOK, NEW m \in job.moves
  PROVE  /\ Fresh(m) \in Blocks /\ New(m) \in Blocks
         /\ New(m).rate = m.rate /\ New(m).cap = m.cap /\ New(m).rapid = m.rapid
         /\ New(m).length = m.length /\ New(m).entry = 0
         /\ New(m).junction = (IF Empty THEN 0 ELSE m.junction)
         /\ New(m).max = MaxEntry(Fresh(m), Nominal(Fresh(m), override), previous)
         /\ Nominal(New(m), override) = Nominal(Fresh(m), override)
         /\ Nominal(New(m), override) \in Speeds /\ previous \in Speeds
<1>1. m \in Moves /\ override \in Overrides /\ previous \in Speeds
  BY PlannerAssumption DEF TypeOK
<1>. DEFINE j == IF Empty THEN 0 ELSE m.junction
<1>2. j \in Speeds
  BY <1>1 DEF Moves, Speeds
<1>3. Fresh(m) = [rate |-> m.rate, cap |-> m.cap, rapid |-> m.rapid, length |-> m.length,
                  junction |-> j, entry |-> 0, max |-> 0]
  BY DEF Fresh
<1>. HIDE DEF j
<1>4. Fresh(m) \in Blocks /\ Fresh(m).junction = j
  BY <1>1, <1>2, <1>3 DEF Moves, Blocks, Speeds
<1>5. Nominal(Fresh(m), override) \in Speeds
  BY <1>1, <1>4, NominalIsSpeed
<1>. DEFINE x == MaxEntry(Fresh(m), Nominal(Fresh(m), override), previous)
<1>6. x \in Speeds
  BY <1>1, <1>2, <1>4, <1>5, MaxIsSpeed
<1>7. New(m) = [Fresh(m) EXCEPT !.max = x]
  BY DEF New
<1>. HIDE DEF x
<1>8. /\ New(m) \in Blocks /\ New(m).max = x
      /\ New(m).rate = m.rate /\ New(m).cap = m.cap /\ New(m).rapid = m.rapid
      /\ New(m).length = m.length /\ New(m).entry = 0 /\ New(m).junction = j
  BY <1>3, <1>4, <1>6, <1>7 DEF Blocks
<1>9. Nominal(New(m), override) = Nominal(Fresh(m), override)
  BY <1>3, <1>8, NominalSame
<1>. QED
  BY <1>1, <1>4, <1>5, <1>8, <1>9 DEF j, x

\* Blocks of other maximum entry speeds are blocks.
LEMMA Rating ==
  ASSUME TypeOK, Large \in Nat, NEW o \in Overrides
  PROVE  /\ Rated(o) \in [Slots -> Blocks]
         /\ \A i \in Slots :
              /\ Rated(o)[i].rate = block[i].rate /\ Rated(o)[i].cap = block[i].cap
              /\ Rated(o)[i].rapid = block[i].rapid /\ Rated(o)[i].length = block[i].length
              /\ Rated(o)[i].junction = block[i].junction /\ Rated(o)[i].entry = block[i].entry
              /\ Queued(i) => Rated(o)[i].max = MaxEntry(block[i], Nominal(block[i], o), Before(i, o))
              /\ Before(i, o) \in Speeds /\ Nominal(block[i], o) \in Speeds
<1>1. job \in Jobs /\ block \in [Slots -> Blocks] /\ tail \in Slots
  BY DEF TypeOK, Blocks
<1>2. ASSUME NEW i \in Slots
      PROVE  /\ Rated(o)[i] \in Blocks
             /\ Rated(o)[i].rate = block[i].rate /\ Rated(o)[i].cap = block[i].cap
             /\ Rated(o)[i].rapid = block[i].rapid /\ Rated(o)[i].length = block[i].length
             /\ Rated(o)[i].junction = block[i].junction /\ Rated(o)[i].entry = block[i].entry
             /\ Queued(i) => Rated(o)[i].max = MaxEntry(block[i], Nominal(block[i], o), Before(i, o))
             /\ Before(i, o) \in Speeds /\ Nominal(block[i], o) \in Speeds
  <2>. DEFINE b == block[i]  x == MaxEntry(b, Nominal(b, o), Before(i, o))
  <2>1. b \in Blocks /\ block[PrevSlot(i)] \in Blocks
    BY <1>1, Turning
  <2>2. Nominal(b, o) \in Speeds /\ Nominal(block[PrevSlot(i)], o) \in Speeds
    BY <2>1, NominalIsSpeed
  <2>3. Before(i, o) \in Speeds
    BY <2>2 DEF Before, Speeds
  <2>4. x \in Speeds
    <3>1. b.junction \in Speeds
      BY <2>1 DEF Blocks
    <3>. QED
      BY <2>2, <2>3, <3>1, MaxIsSpeed
  <2>5. Rated(o)[i] = IF Queued(i) THEN [b EXCEPT !.max = x] ELSE b
    BY DEF Rated
  <2>. HIDE DEF b, x
  <2>6. /\ Rated(o)[i] \in Blocks
        /\ Rated(o)[i].rate = b.rate /\ Rated(o)[i].cap = b.cap
        /\ Rated(o)[i].rapid = b.rapid /\ Rated(o)[i].length = b.length
        /\ Rated(o)[i].junction = b.junction /\ Rated(o)[i].entry = b.entry
        /\ Queued(i) => Rated(o)[i].max = x
    BY <2>1, <2>4, <2>5 DEF Blocks
  <2>. QED
    BY <2>2, <2>3, <2>6 DEF b, x
<1>3. Rated(o) \in [Slots -> Blocks]
  BY <1>2 DEF Rated
<1>. QED
  BY <1>2, <1>3

\* What planner_recalculate() is called with for a new move.
LEMMA LinePlanned ==
  ASSUME TypeOK, NEW m \in job.moves, PlanLine(m)
  PROVE  /\ Recalculate([block EXCEPT ![head] = New(m)], NextSlot(head), planned, FALSE)
         /\ previous' = Nominal(New(m), override)
         /\ [block EXCEPT ![head] = New(m)] \in [Slots -> Blocks]
         /\ NextSlot(head) \in Slots /\ head \in Slots /\ planned \in Slots
<1>1. Recalculate([block EXCEPT ![head] = New(m)], NextSlot(head), planned, FALSE)
  BY DEF PlanLine, New, Fresh
<1>2. previous' = Nominal(Fresh(m), override)
  BY DEF PlanLine, Fresh
<1>3. /\ job \in Jobs /\ head \in Slots /\ planned \in Slots /\ block \in [Slots -> Blocks]
  BY DEF TypeOK, Blocks
<1>4. [block EXCEPT ![head] = New(m)] \in [Slots -> Blocks]
  <2>. DEFINE n == New(m)
  <2>1. n \in Blocks
    BY Planned
  <2>. HIDE DEF n
  <2>2. [block EXCEPT ![head] = n] \in [Slots -> Blocks]
    BY <1>3, <2>1
  <2>. QED
    BY <2>2 DEF n
<1>. QED
  BY <1>1, <1>2, <1>3, <1>4, Planned, Turning

\* What it is called with for an override.
LEMMA OverridePlanned ==
  ASSUME NEW o, Override(o)
  PROVE  Recalculate(Rated(o), head, tail, TRUE)
<1>. DEFINE S == {i \in Slots : Queued(i)}
            r == [i \in Slots |->
                    IF i \in S
                    THEN [block[i] EXCEPT !.max = MaxEntry(block[i], Nominal(block[i], o), Before(i, o))]
                    ELSE block[i]]
<1>1. Reinitialize(r)
  BY DEF Override
<1>2. r = Rated(o)
  BY Zenon DEF Rated
<1>. QED
  BY <1>1, <1>2 DEF Reinitialize

\* The types after planner_recalculate() began.
LEMMA TypeRecalculated ==
  ASSUME TypeOK, NEW b \in [Slots -> Blocks], NEW h \in Slots, NEW p \in Slots,
         NEW already \in BOOLEAN, Recalculate(b, h, p, already), job' = job, tail' = tail,
         previous' \in Speeds, override' \in Overrides,
         mode' \in {"idle", "cycle", "hold", "held"},
         UNCHANGED <<endMotion, forced, speed, exit, stop>>
  PROVE  TypeOK'
<1>. DEFINE touches == \/ already
                       \/ PrevSlot(h) # p /\ PrevSlot(PrevSlot(h)) = p /\ p = tail
<1>1. touches \in BOOLEAN
  OBVIOUS
<1>. HIDE DEF touches
<1>2. /\ planned' = p /\ head' = h
      /\ loaded' = (loaded /\ ~touches) /\ recalc' = (recalc \/ (loaded /\ touches))
      /\ block' \in [Slots -> Blocks]
      /\ PrevSlot(h) = p => pass' = "none" /\ index' = 0
      /\ PrevSlot(h) # p /\ PrevSlot(PrevSlot(h)) = p =>
           pass' = "forward" /\ index' = PrevSlot(h)
      /\ PrevSlot(h) # p /\ PrevSlot(PrevSlot(h)) # p =>
           pass' = "reverse" /\ index' = PrevSlot(PrevSlot(h))
  <2>1. touches <=> \/ already
                    \/ PrevSlot(h) # p /\ PrevSlot(PrevSlot(h)) = p /\ p = tail
    BY DEF touches
  <2>. QED
    BY <1>1, <2>1, Recalculated
<1>3. /\ job \in Jobs /\ tail \in Slots /\ Slots' = Slots
      /\ endMotion \in BOOLEAN /\ forced \in BOOLEAN /\ loaded \in BOOLEAN /\ recalc \in BOOLEAN
      /\ speed \in Speeds /\ exit \in Speeds /\ stop \in Nat
  BY DEF TypeOK, Slots
<1>4. /\ PrevSlot(h) \in Slots /\ PrevSlot(PrevSlot(h)) \in Slots /\ 0 \in Slots
  <2>1. PrevSlot(h) \in Slots
    BY <1>3, Turning
  <2>2. PrevSlot(PrevSlot(h)) \in Slots
    BY <1>3, <2>1, Turning
  <2>3. 0 \in Slots
    BY <1>3, RingSize DEF Slots
  <2>. QED
    BY <2>1, <2>2, <2>3
<1>5. pass' \in {"none", "reverse", "forward"} /\ index' \in Slots
  BY <1>2, <1>4
<1>6. loaded' \in BOOLEAN /\ recalc' \in BOOLEAN
  BY <1>1, <1>2, <1>3
<1>. QED
  BY <1>2, <1>3, <1>5, <1>6 DEF TypeOK, Blocks

\* Every step keeps the types.
LEMMA TypeStep ==
  ASSUME TypeOK, Next
  PROVE  TypeOK'
<1>1. /\ job \in Jobs /\ block \in [Slots -> Blocks]
      /\ tail \in Slots /\ head \in Slots /\ planned \in Slots
      /\ previous \in Speeds /\ override \in Overrides
      /\ pass \in {"none", "reverse", "forward"} /\ index \in Slots
      /\ mode \in {"idle", "cycle", "hold", "held"}
      /\ endMotion \in BOOLEAN /\ loaded \in BOOLEAN /\ recalc \in BOOLEAN /\ forced \in BOOLEAN
      /\ speed \in Speeds /\ exit \in Speeds /\ stop \in Nat
  BY DEF TypeOK, Blocks
<1>2. /\ NextSlot(tail) \in Slots /\ NextSlot(index) \in Slots /\ NextSlot(planned) \in Slots
      /\ 0 \in Slots /\ 0 \in Nat /\ 0 \in Speeds /\ DefaultOverride \in Overrides
  BY <1>1, Turning, RingSize DEF Slots, Speeds, Overrides, DefaultOverride
<1>3. ASSUME NEW m \in job.moves, PlanLine(m)
      PROVE  TypeOK'
  <2>1. /\ job' = job /\ tail' = tail /\ override' = override /\ mode' = mode
        /\ UNCHANGED <<endMotion, forced, speed, exit, stop>>
    BY <1>3 DEF PlanLine
  <2>2. previous' \in Speeds
    BY <1>3, LinePlanned, Planned
  <2>. QED
    BY <1>1, <1>3, <2>1, <2>2, LinePlanned, TypeRecalculated
<1>4. CASE PlanNothing
  <2>1. Zeroed \in Blocks
    BY DEF Zeroed, Blocks, Speeds
  <2>2. block' \in [Slots -> Blocks] /\ Slots' = Slots
    BY <1>1, <1>4, <2>1 DEF PlanNothing, Slots
  <2>. QED
    BY <1>1, <1>4, <2>2 DEF PlanNothing, TypeOK, loop, prep, Blocks
<1>5. CASE Reverse
  <2>1. /\ loaded' \in BOOLEAN /\ recalc' \in BOOLEAN /\ block' \in [Slots -> Blocks]
        /\ PrevSlot(index) \in Slots
    BY <1>1, <1>5, Reversed
  <2>2. pass' \in {"none", "reverse", "forward"} /\ index' \in Slots
    BY <1>2, <1>5, <2>1 DEF Reverse
  <2>. QED
    BY <1>1, <1>5, <2>1, <2>2 DEF Reverse, TypeOK, Slots, Blocks
<1>6. CASE Forward
  <2>1. block' \in [Slots -> Blocks] /\ planned' \in Slots
    BY <1>1, <1>6, Forwarded
  <2>. QED
    BY <1>1, <1>2, <1>6, <2>1 DEF Forward, TypeOK, Slots, Blocks, prep
<1>7. CASE ForwardDone
  BY <1>1, <1>2, <1>7 DEF ForwardDone, ring, prep, TypeOK, Slots, Blocks
<1>8. ASSUME NEW o \in job.overrides, Override(o)
      PROVE  TypeOK'
  <2>1. /\ job' = job /\ tail' = tail /\ override' = o /\ mode' = mode
        /\ previous' = Before(head, o)
        /\ UNCHANGED <<endMotion, forced, speed, exit, stop>>
    BY <1>8 DEF Override
  <2>2. o \in Overrides /\ Large \in Nat
    BY <1>1, PlannerAssumption
  <2>3. Rated(o) \in [Slots -> Blocks] /\ previous' \in Speeds
    BY <1>1, <2>1, <2>2, Rating
  <2>. QED
    BY <1>1, <1>8, <2>1, <2>2, <2>3, OverridePlanned, TypeRecalculated
<1>9. ASSUME NEW part \in 0 .. block[tail].length, PrepSegment(part)
      PROVE  TypeOK'
  <2>. DEFINE rest == block[tail].length - part - Ramp.stop
  <2>1. /\ exit' \in Nat /\ stop' \in Nat /\ forced' \in BOOLEAN /\ speed' \in Nat
        /\ recalc' = (recalc /\ loaded)
        /\ block' \in [Slots -> Blocks]
        /\ loaded' = (rest > 0 \/ stop' > 0) /\ endMotion' = (rest = 0 /\ stop' > 0)
        /\ tail' = IF rest = 0 /\ stop' = 0 THEN NextSlot(tail) ELSE tail
        /\ planned' = IF rest = 0 /\ stop' = 0 /\ planned = tail THEN NextSlot(tail) ELSE planned
    BY <1>9, Segmented
  <2>. HIDE DEF rest
  <2>2. tail' \in Slots /\ planned' \in Slots /\ recalc' \in BOOLEAN
    BY <1>1, <1>2, <2>1
  <2>3. loaded' \in BOOLEAN
    BY <2>1
  <2>4. endMotion' \in BOOLEAN
    BY <2>1
  <2>5. UNCHANGED <<job, head, previous, override, loop, mode>>
    BY <1>9 DEF PrepSegment
  <2>. QED
    BY <1>1, <2>1, <2>2, <2>3, <2>4, <2>5 DEF TypeOK, loop, Slots, Blocks, Speeds
<1>10. CASE CycleStart
  BY <1>1, <1>10 DEF CycleStart, TypeOK, Slots, Blocks, ring, loop, prep
<1>11. CASE FeedHold
  <2>1. block' \in [Slots -> Blocks]
    BY <1>1, <1>11, Unloaded DEF FeedHold
  <2>2. loaded' \in BOOLEAN /\ recalc' \in BOOLEAN
    BY <1>1, <1>11 DEF FeedHold, Unloading
  <2>3. mode' \in {"hold", "held"}
    BY <1>11 DEF FeedHold
  <2>. QED
    BY <1>1, <1>11, <2>1, <2>2, <2>3 DEF FeedHold, TypeOK, Slots, Blocks, loop
<1>12. CASE CycleDone
  BY <1>1, <1>12 DEF CycleDone, TypeOK, Slots, Blocks, ring, loop, prep
<1>13. CASE HoldDone
  <2>1. /\ Recalculate(block, head, tail, TRUE) /\ job' = job /\ tail' = tail
        /\ previous' = previous /\ override' = override /\ mode' = "held"
        /\ UNCHANGED <<endMotion, forced, speed, exit, stop>>
    BY <1>13 DEF HoldDone, Reinitialize
  <2>. QED
    BY <1>1, <2>1, TypeRecalculated
<1>14. CASE \E o \in {override, DefaultOverride} : Flush(o)
  BY <1>1, <1>2, <1>14 DEF Flush, TypeOK, Slots, Blocks, loop
<1>15. CASE ProgramEnd
  BY <1>1, <1>2, <1>15 DEF ProgramEnd, TypeOK, Slots, Blocks, ring, loop, prep
<1>. QED
  BY <1>3, <1>4, <1>5, <1>6, <1>7, <1>8, <1>9, <1>10, <1>11, <1>12, <1>13, <1>14, <1>15
     DEF Next, JogCancelled, Reset

-----------------------------------------------------------------------------
(* The sweeps *)

\* The places where a planned pointer is in the plan that ends before slot h.
Within(p, h) == Place(p) < Place(h)

\* Where the tail stays, the invariant of the sweeps can be read in the old ring.
LEMMA SweepInPlace ==
  ASSUME job' = job, tail' = tail, planned' \in Slots,
         loaded' => Within(planned', head') /\ ~recalc' /\ mode' \in {"cycle", "hold"},
         recalc' => head' # tail,
         head' # tail => \/ Within(planned', head')
                         \/ /\ pass' # "none" /\ NextSlot(tail) = head'
                            /\ block'[tail].entry = 0 /\ block'[tail].max = 0,
         pass' = "reverse" => /\ Place(planned') < Place(index')
                              /\ Within(planned', head') => Place(index') + 1 < Place(head'),
         pass' = "forward" => /\ Within(planned', head') => /\ Place(planned') < Place(index')
                                                            /\ Place(index') <= Place(head')
                              /\ Within(planned', head') \/ head' = tail \/ index' # head'
                              /\ loaded' => planned' # tail,
         loaded' /\ mode' = "cycle" /\ ~forced' =>
           exit' = IF NextSlot(tail) = head' THEN 0 ELSE block'[NextSlot(tail)].entry
  PROVE  SweepInv'
<1>1. /\ Place(planned)' = Place(planned') /\ Place(head)' = Place(head')
      /\ Place(index)' = Place(index') /\ Slots' = Slots /\ NextSlot(tail)' = NextSlot(tail)
  BY DEF Place, Slots, NextSlot
<1>2. Queued(planned)' <=> Within(planned', head')
  BY <1>1 DEF Queued, Within
<1>3. Empty' <=> head' = tail
  BY DEF Empty
<1>4. NextEntry' = IF NextSlot(tail) = head' THEN 0 ELSE block'[NextSlot(tail)].entry
  BY <1>1 DEF NextEntry
<1>. QED
  BY <1>1, <1>2, <1>3, <1>4 DEF SweepInv

\* The invariant of the sweeps, read in terms of places.
LEMMA SweepRead ==
  ASSUME TypeOK, SweepInv
  PROVE  /\ loaded => Within(planned, head) /\ ~recalc /\ mode \in {"cycle", "hold"}
         /\ recalc => head # tail
         /\ head # tail => \/ Within(planned, head)
                           \/ /\ pass # "none" /\ NextSlot(tail) = head
                              /\ block[tail].entry = 0 /\ block[tail].max = 0
         /\ pass = "reverse" => /\ Place(planned) < Place(index)
                                /\ Within(planned, head) => Place(index) + 1 < Place(head)
         /\ pass = "forward" => /\ Within(planned, head) => /\ Place(planned) < Place(index)
                                                            /\ Place(index) <= Place(head)
                                /\ Within(planned, head) \/ head = tail \/ index # head
                                /\ loaded => planned # tail
         /\ loaded /\ mode = "cycle" /\ ~forced =>
              exit = IF NextSlot(tail) = head THEN 0 ELSE block[NextSlot(tail)].entry
<1>1. Queued(planned) <=> Within(planned, head)
  BY DEF Queued, Within, TypeOK
<1>2. Empty <=> head = tail
  BY DEF Empty
<1>3. NextEntry = IF NextSlot(tail) = head THEN 0 ELSE block[NextSlot(tail)].entry
  BY DEF NextEntry
<1>. QED
  BY <1>1, <1>2, <1>3 DEF SweepInv

\* The queue and its end, before the tail comes round again.
LEMMA Ends ==
  ASSUME TypeOK
  PROVE  /\ job \in Jobs /\ job.blocks \in Nat /\ job.blocks > 2
         /\ tail \in Slots /\ head \in Slots /\ planned \in Slots /\ index \in Slots
         /\ Place(tail) = 0
         /\ \A i \in Slots : /\ Place(i) \in Nat /\ Place(i) < job.blocks
                             /\ Place(i) = 0 <=> i = tail
                             /\ NextSlot(i) \in Slots /\ PrevSlot(i) \in Slots
                             /\ NextSlot(i) = tail \/ Place(NextSlot(i)) = Place(i) + 1
                             /\ NextSlot(i) = tail <=> Place(i) = job.blocks - 1
                             /\ i = tail \/ Place(PrevSlot(i)) = Place(i) - 1
                             /\ i = tail => Place(PrevSlot(i)) = job.blocks - 1
                             /\ PrevSlot(NextSlot(i)) = i /\ NextSlot(PrevSlot(i)) = i
         /\ \A i, j \in Slots : Place(i) = Place(j) => i = j
<1>1. /\ job \in Jobs /\ tail \in Slots /\ head \in Slots /\ planned \in Slots /\ index \in Slots
  BY DEF TypeOK
<1>2. job.blocks \in Nat /\ job.blocks > 2
  BY <1>1, RingSize
<1>3. ASSUME NEW i \in Slots
      PROVE  /\ Place(i) \in Nat /\ Place(i) < job.blocks
             /\ Place(i) = 0 <=> i = tail
             /\ NextSlot(i) \in Slots /\ PrevSlot(i) \in Slots
             /\ NextSlot(i) = tail \/ Place(NextSlot(i)) = Place(i) + 1
             /\ NextSlot(i) = tail <=> Place(i) = job.blocks - 1
             /\ i = tail \/ Place(PrevSlot(i)) = Place(i) - 1
             /\ i = tail => Place(PrevSlot(i)) = job.blocks - 1
             /\ PrevSlot(NextSlot(i)) = i /\ NextSlot(PrevSlot(i)) = i
  BY <1>1, <1>2 DEF Slots, Place, NextSlot, PrevSlot
<1>4. ASSUME NEW i \in Slots, NEW j \in Slots, Place(i) = Place(j)
      PROVE  i = j
  BY <1>1, <1>4, Placing
<1>. QED
  BY <1>1, <1>2, <1>3, <1>4

\* planner_recalculate() begins with the invariant.
LEMMA SweepRecalculated ==
  ASSUME TypeOK, SweepInv, NEW b \in [Slots -> Blocks], NEW h \in Slots, NEW p \in Slots,
         NEW already \in BOOLEAN, Recalculate(b, h, p, already), job' = job, tail' = tail,
         UNCHANGED <<forced, exit>>,
         \/ /\ h = head /\ p = tail /\ already
            /\ \A i \in Slots : Place(i) < Place(h) => b[i].entry = block[i].entry
         \/ /\ h = NextSlot(head) /\ h # tail /\ p = planned /\ pass = "none"
            /\ \A i \in Slots : i # head => b[i] = block[i]
            /\ Empty => b[tail].max = 0
            /\ mode' = mode
  PROVE  SweepInv'
<1>. DEFINE last == PrevSlot(h)  i == PrevSlot(last)
            touches == \/ already
                       \/ last # p /\ i = p /\ p = tail
<1>0. touches \in BOOLEAN
  OBVIOUS
<1>1. /\ planned' = p /\ head' = h
      /\ loaded' = (loaded /\ ~touches) /\ recalc' = (recalc \/ (loaded /\ touches))
      /\ \A j \in Slots :
           /\ SameMove(b[j], block'[j])
           /\ block'[j].entry = IF j = last /\ j # p THEN Stoppable(b[j])
                                ELSE IF touches /\ loaded /\ j = tail THEN speed
                                ELSE b[j].entry
      /\ last = p => pass' = "none" /\ index' = 0
      /\ last # p /\ i = p => pass' = "forward" /\ index' = last
      /\ last # p /\ i # p => pass' = "reverse" /\ index' = i
  <2>. HIDE DEF touches
  <2>1. touches <=> \/ already
                    \/ PrevSlot(h) # p /\ PrevSlot(PrevSlot(h)) = p /\ p = tail
    BY DEF touches
  <2>. QED
    BY <1>0, <2>1, Recalculated
<1>2. /\ loaded => Within(planned, head) /\ ~recalc /\ mode \in {"cycle", "hold"}
      /\ recalc => head # tail
      /\ head # tail /\ pass = "none" => Within(planned, head)
      /\ loaded /\ mode = "cycle" /\ ~forced =>
           exit = IF NextSlot(tail) = head THEN 0 ELSE block[NextSlot(tail)].entry
  BY DEF SweepInv, Empty, Queued, Within, NextEntry
<1>3. /\ last \in Slots /\ i \in Slots /\ Place(tail) = 0
      /\ job.blocks \in Nat /\ job.blocks > 2
  BY Ends
<1>4. \A x \in Slots : /\ Place(x) \in Nat /\ Place(x) < job.blocks
                       /\ Place(x) = 0 <=> x = tail
                       /\ NextSlot(x) = tail \/ Place(NextSlot(x)) = Place(x) + 1
                       /\ x = tail \/ Place(PrevSlot(x)) = Place(x) - 1
                       /\ x = tail => Place(PrevSlot(x)) = job.blocks - 1
                       /\ PrevSlot(NextSlot(x)) = x /\ NextSlot(PrevSlot(x)) = x
  BY Ends
<1>5. \A x, y \in Slots : Place(x) = Place(y) => x = y
  BY Ends
<1>6. /\ head \in Slots /\ tail \in Slots /\ NextSlot(tail) \in Slots /\ b[tail].length \in Nat
      /\ planned \in Slots
  BY Ends DEF Blocks
<1>. HIDE DEF last, i
<1>7. /\ i = PrevSlot(last) /\ last = PrevSlot(h) /\ NextSlot(last) = h
  BY <1>4 DEF last, i
<1>8. CASE /\ h = head /\ p = tail /\ already
           /\ \A x \in Slots : Place(x) < Place(h) => b[x].entry = block[x].entry
  <2>1. ~loaded' /\ touches
    BY <1>1, <1>8
  <2>2. recalc' => h # tail
    <3>1. recalc' => recalc \/ loaded
      BY <1>1
    <3>2. loaded => head # tail
      BY <1>2, <1>3, <1>4, <1>6 DEF Within
    <3>. QED
      BY <1>2, <1>8, <3>1, <3>2
  <2>3. h # tail => Within(p, h)
    BY <1>3, <1>4, <1>6, <1>8 DEF Within
  <2>4. Place(p) = 0
    BY <1>3, <1>8
  <2>. HIDE DEF touches
  <2>5. pass' = "reverse" => /\ Place(p) < Place(index')
                             /\ Within(p, h) => Place(index') + 1 < Place(h)
    <3>. SUFFICES ASSUME pass' = "reverse"
                  PROVE  0 < Place(i) /\ (0 < Place(h) => Place(i) + 1 < Place(h))
      BY <1>1, <2>4 DEF Within
    <3>1. last # tail /\ i # tail
      BY <1>1, <1>8
    <3>2. Place(i) = Place(last) - 1
      BY <1>3, <1>4, <1>7, <3>1
    <3>3. h # tail => Place(last) = Place(h) - 1
      BY <1>3, <1>4, <1>7
    <3>. QED
      BY <1>3, <1>4, <1>6, <1>8, <3>1, <3>2, <3>3
  <2>6. pass' = "forward" => /\ Within(p, h) => /\ Place(p) < Place(index')
                                                /\ Place(index') <= Place(h)
                             /\ Within(p, h) \/ h = tail
    <3>. SUFFICES ASSUME pass' = "forward"
                  PROVE  /\ Within(p, h) => 0 < Place(last) /\ Place(last) <= Place(h)
                         /\ Within(p, h) \/ h = tail
      BY <1>1, <2>4
    <3>1. last # tail
      BY <1>1, <1>8
    <3>2. h # tail => Place(last) = Place(h) - 1
      BY <1>3, <1>4, <1>7
    <3>. QED
      BY <1>3, <1>4, <1>6, <1>8, <2>3, <3>1, <3>2 DEF Within
  <2>. QED
    BY <1>1, <1>8, <2>1, <2>2, <2>3, <2>5, <2>6, SweepInPlace
<1>9. CASE /\ h = NextSlot(head) /\ h # tail /\ p = planned /\ pass = "none"
           /\ \A x \in Slots : x # head => b[x] = block[x]
           /\ Empty => b[tail].max = 0
           /\ mode' = mode
  <2>1. last = head /\ Place(h) = Place(head) + 1
    BY <1>4, <1>6, <1>9 DEF last
  <2>2. loaded => Within(p, head) /\ p # head /\ head # tail
    BY <1>2, <1>3, <1>4, <1>9 DEF Within
  <2>3. Within(p, head) => Within(p, h) /\ p # last
    BY <1>3, <1>4, <1>6, <2>1 DEF Within
  <2>4. loaded' => Within(p, h) /\ ~recalc' /\ mode' \in {"cycle", "hold"}
    BY <1>1, <1>2, <1>9, <2>2, <2>3
  <2>5. h # tail => \/ Within(p, h)
                    \/ /\ pass' # "none" /\ NextSlot(tail) = h
                       /\ block'[tail].entry = 0 /\ block'[tail].max = 0
    <3>1. CASE head # tail
      BY <1>2, <1>9, <2>3, <3>1
    <3>2. CASE head = tail /\ p = tail
      BY <1>3, <2>1, <3>2 DEF Within
    <3>3. CASE head = tail /\ p # tail
      <4>1. pass' # "none" /\ NextSlot(tail) = h
        BY <1>1, <1>9, <2>1, <3>3
      <4>2. block'[tail].entry = Stoppable(b[tail]) /\ SameMove(b[tail], block'[tail])
        BY <1>1, <1>6, <2>1, <3>3
      <4>3. Stoppable(b[tail]) = 0 /\ b[tail].max = 0
        BY <1>6, <1>9, <3>3 DEF Stoppable, Least, Empty
      <4>. QED
        BY <4>1, <4>2, <4>3 DEF SameMove
    <3>. QED
      BY <3>1, <3>2, <3>3
  <2>6. pass' = "reverse" => /\ Place(p) < Place(index')
                             /\ Within(p, h) => Place(index') + 1 < Place(h)
    <3>. SUFFICES ASSUME pass' = "reverse"
                  PROVE  Place(p) < Place(i) /\ (Within(p, h) => Place(i) + 1 < Place(h))
      BY <1>1
    <3>1. last # p /\ i # p /\ Place(i) # Place(p)
      BY <1>1, <1>3, <1>5
    <3>2. CASE head # tail
      BY <1>2, <1>3, <1>4, <1>6, <1>7, <1>9, <2>1, <3>1, <3>2 DEF Within
    <3>3. CASE head = tail
      <4>1. Place(i) = job.blocks - 1
        BY <1>4, <1>6, <1>7, <2>1, <3>3
      <4>2. Place(p) # 0
        BY <1>4, <2>1, <3>1, <3>3
      <4>3. Place(h) = 1
        BY <1>3, <2>1, <3>3
      <4>. QED
        BY <1>3, <1>4, <3>1, <4>1, <4>2, <4>3 DEF Within
    <3>. QED
      BY <3>2, <3>3
  <2>7. pass' = "forward" => /\ Within(p, h) => /\ Place(p) < Place(index')
                                                /\ Place(index') <= Place(h)
                             /\ Within(p, h) \/ h = tail \/ index' # h
                             /\ loaded' => p # tail
    <3>. SUFFICES ASSUME pass' = "forward"
                  PROVE  /\ Within(p, h) => Place(p) < Place(last) /\ Place(last) <= Place(h)
                         /\ last # h
                         /\ loaded' => p # tail
      BY <1>1
    <3>1. last # p /\ i = p
      BY <1>1
    <3>2. last # h
      BY <1>3, <1>4, <2>1
    <3>3. loaded' => p # tail
      BY <1>1, <3>1 DEF last, i
    <3>4. Within(p, h) => Place(p) < Place(last) /\ Place(last) <= Place(h)
      <4>1. Place(p) # Place(last)
        BY <1>3, <1>5, <3>1
      <4>. QED
        BY <1>3, <1>4, <1>6, <2>1, <4>1 DEF Within
    <3>. QED
      BY <3>2, <3>3, <3>4
  <2>8. loaded' /\ mode' = "cycle" /\ ~forced' =>
           exit' = IF NextSlot(tail) = h THEN 0 ELSE block'[NextSlot(tail)].entry
    <3>. SUFFICES ASSUME loaded', mode' = "cycle", ~forced'
                  PROVE  exit = IF NextSlot(tail) = h THEN 0 ELSE block'[NextSlot(tail)].entry
      OBVIOUS
    <3>. DEFINE n == NextSlot(tail)
    <3>1. loaded /\ ~touches /\ head # tail /\ Within(p, head)
      BY <1>1, <2>2
    <3>2. n # h /\ PrevSlot(n) = tail /\ n # tail
      BY <1>3, <1>4, <1>6, <1>9, <3>1
    <3>3. n # head
      <4>. SUFFICES ASSUME n = head
                    PROVE  FALSE
        OBVIOUS
      <4>1. p = tail
        BY <1>3, <1>4, <1>6, <3>1, <3>2 DEF Within
      <4>2. touches
        BY <2>1, <2>2, <3>1, <3>2, <4>1, <1>7
      <4>. QED
        BY <3>1, <4>2
    <3>4. exit = block[n].entry
      BY <1>2, <1>9, <3>1, <3>3
    <3>5. block'[n].entry = b[n].entry /\ b[n] = block[n]
      BY <1>1, <1>6, <1>9, <2>1, <3>2, <3>3
    <3>. QED
      BY <3>2, <3>4, <3>5
  <2>9. h # tail /\ planned' \in Slots
    BY <1>1, <1>9
  <2>. HIDE DEF touches
  <2>. QED
    BY <1>1, <2>4, <2>5, <2>6, <2>7, <2>8, <2>9, SweepInPlace
<1>. QED
  BY <1>8, <1>9

\* A turn of the reverse pass keeps it.
LEMMA SweepReverse ==
  ASSUME TypeOK, SweepInv, Reverse
  PROVE  SweepInv'
<1>. DEFINE i == PrevSlot(index)
<1>1. /\ loaded' = (loaded /\ i # tail) /\ recalc' = (recalc \/ (loaded /\ i = tail))
      /\ \A j \in Slots :
           /\ SameMove(block[j], block'[j])
           /\ j # index => block'[j].entry = IF i = tail /\ loaded /\ j = tail THEN speed
                                             ELSE block[j].entry
      /\ block'[index].entry =
           IF block[index].entry = block[index].max THEN block[index].max
           ELSE Least(block[index].max, block[NextSlot(index)].entry + block[index].length)
  BY Reversed
<1>2. /\ UNCHANGED <<job, tail, head, planned, mode, forced, exit>> /\ pass = "reverse"
      /\ i = planned => pass' = "forward" /\ index' = NextSlot(planned)
      /\ i # planned => pass' = "reverse" /\ index' = i
  BY DEF Reverse
<1>3. /\ loaded => Within(planned, head) /\ ~recalc /\ mode \in {"cycle", "hold"}
      /\ recalc => head # tail
      /\ head # tail => \/ Within(planned, head)
                        \/ /\ NextSlot(tail) = head
                           /\ block[tail].entry = 0 /\ block[tail].max = 0
      /\ Place(planned) < Place(index)
      /\ Within(planned, head) => Place(index) + 1 < Place(head)
      /\ loaded /\ mode = "cycle" /\ ~forced =>
           exit = IF NextSlot(tail) = head THEN 0 ELSE block[NextSlot(tail)].entry
  BY <1>2, SweepRead
<1>4. \A x \in Slots : /\ Place(x) \in Nat /\ Place(x) < job.blocks
                       /\ Place(x) = 0 <=> x = tail
                       /\ NextSlot(x) = tail \/ Place(NextSlot(x)) = Place(x) + 1
                       /\ NextSlot(x) = tail <=> Place(x) = job.blocks - 1
                       /\ x = tail \/ Place(PrevSlot(x)) = Place(x) - 1
                       /\ PrevSlot(NextSlot(x)) = x /\ NextSlot(PrevSlot(x)) = x
  BY Ends
<1>5. \A x, y \in Slots : Place(x) = Place(y) => x = y
  BY Ends
<1>6. /\ head \in Slots /\ tail \in Slots /\ NextSlot(tail) \in Slots /\ planned \in Slots
      /\ index \in Slots /\ i \in Slots /\ Place(tail) = 0 /\ NextSlot(planned) \in Slots
      /\ job.blocks \in Nat /\ block[tail] \in Blocks
  BY Ends DEF TypeOK, Blocks
<1>. HIDE DEF i
<1>7. index # tail /\ Place(i) = Place(index) - 1 /\ NextSlot(i) = index
  <2>1. index # tail
    BY <1>3, <1>4, <1>6
  <2>. QED
    BY <1>4, <1>6, <2>1 DEF i
<1>8. loaded' => Within(planned, head) /\ ~recalc' /\ mode \in {"cycle", "hold"} /\ loaded /\ i # tail
  BY <1>1, <1>3
<1>9. recalc' => head # tail
  <2>1. recalc' => recalc \/ loaded
    BY <1>1
  <2>2. loaded => head # tail
    BY <1>3, <1>4, <1>6 DEF Within
  <2>. QED
    BY <1>3, <2>1, <2>2
<1>10. head # tail => \/ Within(planned, head)
                      \/ /\ pass' # "none" /\ NextSlot(tail) = head
                         /\ block'[tail].entry = 0 /\ block'[tail].max = 0
  <2>. SUFFICES ASSUME head # tail, ~Within(planned, head)
                PROVE  /\ pass' # "none" /\ NextSlot(tail) = head
                       /\ block'[tail].entry = 0 /\ block'[tail].max = 0
    OBVIOUS
  <2>1. ~loaded /\ NextSlot(tail) = head /\ block[tail].entry = 0 /\ block[tail].max = 0
    BY <1>3
  <2>2. pass' # "none"
    BY <1>2
  <2>3. block'[tail].entry = 0
    BY <1>1, <1>6, <1>7, <2>1
  <2>4. block'[tail].max = 0
    BY <1>1, <1>6, <2>1 DEF SameMove
  <2>. QED
    BY <2>1, <2>2, <2>3, <2>4
<1>11. pass' = "reverse" => /\ Place(planned) < Place(index')
                            /\ Within(planned, head) => Place(index') + 1 < Place(head)
  <2>. SUFFICES ASSUME pass' = "reverse"
                PROVE  /\ Place(planned) < Place(i)
                       /\ Within(planned, head) => Place(i) + 1 < Place(head)
    BY <1>2
  <2>1. i # planned /\ Place(i) # Place(planned)
    BY <1>2, <1>5, <1>6
  <2>. QED
    BY <1>3, <1>4, <1>6, <1>7, <2>1
<1>12. pass' = "forward" => /\ Within(planned, head) => /\ Place(planned) < Place(index')
                                                        /\ Place(index') <= Place(head)
                            /\ Within(planned, head) \/ head = tail \/ index' # head
                            /\ loaded' => planned # tail
  <2>. SUFFICES ASSUME pass' = "forward"
                PROVE  /\ Within(planned, head) => /\ Place(planned) < Place(index)
                                                   /\ Place(index) <= Place(head)
                       /\ Within(planned, head) \/ head = tail \/ index # head
                       /\ loaded' => planned # tail
    BY <1>2, <1>7
  <2>1. i = planned
    BY <1>2
  <2>2. loaded' => planned # tail
    BY <1>8, <2>1
  <2>3. Within(planned, head) \/ head = tail \/ index # head
    <3>. SUFFICES ASSUME ~Within(planned, head), head # tail, index = head
                  PROVE  FALSE
      OBVIOUS
    <3>1. NextSlot(tail) = head
      BY <1>3
    <3>2. planned = tail
      BY <1>4, <1>6, <1>7, <2>1, <3>1
    <3>. QED
      BY <1>4, <1>6, <3>2 DEF Within
  <2>. QED
    BY <1>3, <1>4, <1>6, <2>2, <2>3 DEF Within
<1>13. loaded' /\ mode = "cycle" /\ ~forced =>
         exit = IF NextSlot(tail) = head THEN 0 ELSE block'[NextSlot(tail)].entry
  <2>. SUFFICES ASSUME loaded', mode = "cycle", ~forced
                PROVE  exit = IF NextSlot(tail) = head THEN 0 ELSE block'[NextSlot(tail)].entry
    OBVIOUS
  <2>. DEFINE n == NextSlot(tail)
  <2>1. loaded /\ i # tail
    BY <1>8
  <2>2. n # index
    BY <1>4, <1>6, <2>1 DEF i
  <2>3. block'[n].entry = block[n].entry
    BY <1>1, <1>6, <2>1, <2>2
  <2>. QED
    BY <1>3, <2>1, <2>3
<1>. QED
  BY <1>2, <1>6, <1>8, <1>9, <1>10, <1>11, <1>12, <1>13, SweepInPlace

\* A turn of the forward pass keeps it.
LEMMA SweepForward ==
  ASSUME TypeOK, SweepInv, Forward
  PROVE  SweepInv'
<1>. DEFINE before == PrevSlot(index)  cur == block[before]  next == block[index]
<1>1. /\ \A j \in Slots : /\ SameMove(block[j], block'[j])
                          /\ j # index => block'[j] = block[j]
      /\ planned' = index \/ planned' = planned
      /\ block'[index].entry = next.entry \/ Accelerated(cur, next)
      /\ block'[index].entry = next.max => planned' = index
  BY Forwarded
<1>2. /\ UNCHANGED <<job, tail, head, mode, forced, exit, loaded, recalc, pass>> /\ pass = "forward"
      /\ index' = NextSlot(index) /\ index # head
  BY DEF Forward, prep
<1>3. /\ loaded => Within(planned, head) /\ ~recalc /\ mode \in {"cycle", "hold"} /\ planned # tail
      /\ recalc => head # tail
      /\ head # tail => \/ Within(planned, head)
                        \/ /\ NextSlot(tail) = head
                           /\ block[tail].entry = 0 /\ block[tail].max = 0
      /\ Within(planned, head) => Place(planned) < Place(index) /\ Place(index) <= Place(head)
      /\ loaded /\ mode = "cycle" /\ ~forced =>
           exit = IF NextSlot(tail) = head THEN 0 ELSE block[NextSlot(tail)].entry
  BY <1>2, SweepRead
<1>4. \A x \in Slots : /\ Place(x) \in Nat /\ Place(x) < job.blocks
                       /\ Place(x) = 0 <=> x = tail
                       /\ NextSlot(x) = tail \/ Place(NextSlot(x)) = Place(x) + 1
                       /\ NextSlot(x) = tail <=> Place(x) = job.blocks - 1
                       /\ PrevSlot(NextSlot(x)) = x /\ NextSlot(PrevSlot(x)) = x
  BY Ends
<1>5. \A x, y \in Slots : Place(x) = Place(y) => x = y
  BY Ends
<1>6. /\ head \in Slots /\ tail \in Slots /\ NextSlot(tail) \in Slots /\ planned \in Slots
      /\ index \in Slots /\ before \in Slots /\ Place(tail) = 0 /\ NextSlot(index) \in Slots
      /\ job.blocks \in Nat /\ block[tail] \in Blocks /\ cur \in Blocks
  BY Ends DEF TypeOK, Blocks
<1>7. planned' \in Slots
  BY <1>1, <1>6
<1>8. Within(planned, head) => /\ Within(planned', head) /\ Place(planned') < Place(index')
                               /\ Place(index') <= Place(head) /\ (planned' # tail \/ planned' = planned)
  <2>. SUFFICES ASSUME Within(planned, head)
                PROVE  /\ Within(planned', head) /\ Place(planned') < Place(index')
                       /\ Place(index') <= Place(head) /\ (planned' # tail \/ planned' = planned)
    OBVIOUS
  <2>1. Place(index) < Place(head)
    BY <1>2, <1>3, <1>4, <1>5, <1>6
  <2>2. Place(NextSlot(index)) = Place(index) + 1
    BY <1>4, <1>6, <2>1
  <2>. QED
    BY <1>1, <1>2, <1>3, <1>4, <1>6, <2>1, <2>2 DEF Within
<1>9. Within(planned', head) /\ ~Within(planned, head) => planned' = tail /\ index' = head
  <2>. SUFFICES ASSUME Within(planned', head), ~Within(planned, head)
                PROVE  planned' = tail /\ index' = head
    OBVIOUS
  <2>1. planned' = index /\ head # tail /\ NextSlot(tail) = head
    BY <1>1, <1>3, <1>4, <1>6 DEF Within
  <2>2. Place(head) = 1
    BY <1>4, <1>6, <2>1
  <2>3. index = tail
    BY <1>4, <1>6, <2>1, <2>2 DEF Within
  <2>. QED
    BY <1>2, <2>1, <2>3
<1>10. head # tail => \/ Within(planned', head)
                      \/ /\ pass # "none" /\ NextSlot(tail) = head /\ index' # head
                         /\ block'[tail].entry = 0 /\ block'[tail].max = 0
  <2>. SUFFICES ASSUME head # tail, ~Within(planned, head), ~Within(planned', head)
                PROVE  /\ pass # "none" /\ NextSlot(tail) = head /\ index' # head
                       /\ block'[tail].entry = 0 /\ block'[tail].max = 0
    BY <1>8
  <2>1. NextSlot(tail) = head /\ block[tail].entry = 0 /\ block[tail].max = 0
    BY <1>3
  <2>2. Place(tail) < Place(head)
    BY <1>4, <1>6
  <2>3. index # tail
    <3>. SUFFICES ASSUME index = tail
                  PROVE  FALSE
      OBVIOUS
    <3>1. ~Accelerated(cur, next)
      BY <1>6, <2>1 DEF Accelerated, Blocks, Speeds
    <3>2. block'[index].entry = next.max
      BY <1>1, <2>1, <3>1
    <3>. QED
      BY <1>1, <2>2, <3>2 DEF Within
  <2>4. block'[tail].entry = 0 /\ block'[tail].max = 0
    BY <1>1, <1>6, <2>1, <2>3
  <2>5. index' # head
    BY <1>2, <1>4, <1>6, <2>1, <2>3
  <2>. QED
    BY <1>2, <2>1, <2>4, <2>5
<1>11. Within(planned', head) => Place(planned') < Place(index') /\ Place(index') <= Place(head)
  BY <1>4, <1>6, <1>8, <1>9 DEF Within
<1>12. loaded => planned' # tail
  BY <1>3, <1>8
<1>13. loaded => Within(planned', head) /\ ~recalc /\ mode \in {"cycle", "hold"}
  BY <1>3, <1>8
<1>14. loaded /\ mode = "cycle" /\ ~forced =>
         exit = IF NextSlot(tail) = head THEN 0 ELSE block'[NextSlot(tail)].entry
  <2>. SUFFICES ASSUME loaded, mode = "cycle", ~forced
                PROVE  exit = IF NextSlot(tail) = head THEN 0 ELSE block'[NextSlot(tail)].entry
    OBVIOUS
  <2>. DEFINE n == NextSlot(tail)
  <2>1. n # index
    <3>1. Place(planned) > 0 /\ Place(index) > Place(planned)
      BY <1>3, <1>4, <1>6
    <3>. QED
      BY <1>4, <1>6, <3>1
  <2>2. block'[n] = block[n]
    BY <1>1, <1>6, <2>1
  <2>. QED
    BY <1>3, <2>2
<1>. HIDE DEF before
<1>. QED
  BY <1>2, <1>3, <1>7, <1>10, <1>11, <1>12, <1>13, <1>14, SweepInPlace

\* The tail moves on: the places of the other blocks become one less.
LEMMA Discarding ==
  ASSUME TypeOK, job' = job, tail' = NextSlot(tail)
  PROVE  /\ \A x \in Slots : Place(x)' = IF x = tail THEN job.blocks - 1 ELSE Place(x) - 1
         /\ \A x : NextSlot(x)' = NextSlot(x) /\ PrevSlot(x)' = PrevSlot(x)
         /\ Slots' = Slots /\ tail' \in Slots /\ tail' # tail
         /\ head' = head => Place(head)' = IF head = tail THEN job.blocks - 1 ELSE Place(head) - 1
         /\ head' = head => (Empty' <=> head = NextSlot(tail))
<1>1. /\ job.blocks \in Nat /\ job.blocks > 2 /\ tail \in Slots /\ head \in Slots
  BY Ends
<1>. QED
  BY <1>1 DEF Slots, Place, NextSlot, PrevSlot, Empty

\* A segment keeps it, at the end of a block too.
LEMMA SweepSegment ==
  ASSUME TypeOK, SweepInv, NEW part \in 0 .. block[tail].length, PrepSegment(part)
  PROVE  SweepInv'
<1>. DEFINE rest == block[tail].length - part - Ramp.stop
<1>1. /\ exit' = Ramp.exit /\ stop' = Ramp.stop /\ forced' = Ramp.forced
      /\ exit' \in Nat /\ stop' \in Nat /\ rest \in Nat
      /\ recalc' = (recalc /\ loaded)
      /\ \A j \in Slots : j # tail => block'[j] = block[j]
      /\ loaded' = (rest > 0 \/ stop' > 0)
      /\ tail' = IF rest = 0 /\ stop' = 0 THEN NextSlot(tail) ELSE tail
      /\ planned' = IF rest = 0 /\ stop' = 0 /\ planned = tail THEN NextSlot(tail) ELSE planned
  BY Segmented
<1>2. /\ UNCHANGED <<job, head, pass, index, mode>> /\ pass = "none"
      /\ head # tail /\ mode \in {"cycle", "hold"}
  BY DEF PrepSegment, loop, Ready, Empty
<1>3. /\ loaded => ~recalc
      /\ Within(planned, head)
      /\ loaded /\ mode = "cycle" /\ ~forced =>
           exit = IF NextSlot(tail) = head THEN 0 ELSE block[NextSlot(tail)].entry
  BY <1>2, SweepRead
<1>4. ~recalc'
  BY <1>1, <1>3
<1>5. /\ tail \in Slots /\ head \in Slots /\ planned \in Slots /\ NextSlot(tail) \in Slots
      /\ NextSlot(tail) # tail /\ job.blocks \in Nat
      /\ Place(planned) \in Nat /\ Place(head) \in Nat /\ Place(head) < job.blocks
      /\ planned # tail => Place(planned) > 0
      /\ head # NextSlot(tail) => Place(head) # 1
      /\ Place(NextSlot(tail)) = 1 /\ Place(tail) = 0
  <2>1. /\ tail \in Slots /\ head \in Slots /\ planned \in Slots /\ NextSlot(tail) \in Slots
        /\ job.blocks \in Nat /\ job.blocks > 2 /\ Place(tail) = 0
    BY Ends
  <2>2. Place(NextSlot(tail)) = 1 /\ NextSlot(tail) # tail
    BY <2>1, Ends
  <2>3. head # NextSlot(tail) => Place(head) # 1
    BY <2>1, <2>2, Ends
  <2>4. /\ Place(planned) \in Nat /\ Place(head) \in Nat /\ Place(head) < job.blocks
        /\ planned # tail => Place(planned) > 0
    BY <2>1, Ends
  <2>. QED
    BY <2>1, <2>2, <2>3, <2>4
<1>. HIDE DEF rest
<1>6. CASE rest = 0 /\ stop' = 0
  <2>0. ~(rest > 0) /\ ~(stop' > 0)
    BY <1>6
  <2>1. tail' = NextSlot(tail) /\ ~loaded'
    BY <1>1, <1>6, <2>0
  <2>2. /\ \A x \in Slots : Place(x)' = IF x = tail THEN job.blocks - 1 ELSE Place(x) - 1
        /\ Place(head)' = Place(head) - 1
        /\ Empty' <=> head = NextSlot(tail)
        /\ Slots' = Slots
    BY <1>2, <2>1, Discarding
  <2>3. planned' \in Slots /\ planned' # tail
    BY <1>1, <1>5, <1>6
  <2>4. Place(planned)' = Place(planned') - 1
    <3>1. \A x \in Slots : x # tail => (IF x >= tail' THEN x - tail' ELSE x + job.blocks - tail') = Place(x) - 1
      BY <1>2, <2>2 DEF Place
    <3>. QED
      BY <1>2, <2>3, <3>1 DEF Place
  <2>5. ~Empty' => Queued(planned)'
    <3>. SUFFICES ASSUME head # NextSlot(tail)
                  PROVE  Place(planned') - 1 < Place(head) - 1
      BY <2>2, <2>3, <2>4 DEF Queued
    <3>. QED
      <4>1. Place(planned) < Place(head)
        BY <1>3 DEF Within
      <4>2. CASE planned = tail
        BY <1>1, <1>5, <1>6, <4>1, <4>2
      <4>3. CASE planned # tail
        BY <1>1, <1>5, <4>1, <4>3
      <4>. QED
        BY <4>2, <4>3
  <2>. QED
    BY <1>2, <1>4, <2>1, <2>5 DEF SweepInv
<1>7. CASE ~(rest = 0 /\ stop' = 0)
  <2>1. tail' = tail /\ planned' = planned
    BY <1>1, <1>7
  <2>2. mode = "cycle" /\ ~forced' =>
           exit' = IF NextSlot(tail) = head THEN 0 ELSE block'[NextSlot(tail)].entry
    <3>. SUFFICES ASSUME mode = "cycle", ~forced'
                  PROVE  exit' = IF NextSlot(tail) = head THEN 0 ELSE block[NextSlot(tail)].entry
      BY <1>1, <1>5
    <3>1. CASE loaded
      BY <1>1, <1>3, <3>1 DEF Ramp
    <3>2. CASE ~loaded
      <4>1. exit' = Profile(StartEntry).exit /\ ~Profile(StartEntry).forced
        BY <1>1, <3>2 DEF Ramp
      <4>2. StartEntry \in Nat
        BY Starting
      <4>3. exit' = NextEntry
        BY <4>1, <4>2, Profiled
      <4>. QED
        BY <4>3 DEF NextEntry
    <3>. QED
      BY <3>1, <3>2
  <2>. QED
    BY <1>2, <1>3, <1>4, <1>5, <2>1, <2>2, SweepInPlace
<1>. QED
  BY <1>6, <1>7

\* Every step keeps it.
LEMMA SweepStep ==
  ASSUME TypeOK, SweepInv, Next
  PROVE  SweepInv'
<1>1. /\ job \in Jobs /\ tail \in Slots /\ head \in Slots /\ planned \in Slots
      /\ NextSlot(tail) \in Slots /\ NextSlot(tail) # tail /\ block \in [Slots -> Blocks]
      /\ loaded \in BOOLEAN /\ recalc \in BOOLEAN
  BY Turning DEF TypeOK, Blocks
<1>2. /\ loaded => Within(planned, head) /\ ~recalc /\ mode \in {"cycle", "hold"}
      /\ recalc => head # tail
      /\ head # tail /\ pass = "none" => Within(planned, head)
      /\ loaded /\ mode = "cycle" /\ ~forced =>
           exit = IF NextSlot(tail) = head THEN 0 ELSE block[NextSlot(tail)].entry
  BY SweepRead
<1>3. Within(planned, head) => head # tail
  BY Ends DEF Within
<1>4. ASSUME NEW m \in job.moves, PlanLine(m)
      PROVE  SweepInv'
  <2>. DEFINE b == [block EXCEPT ![head] = New(m)]
  <2>1. /\ Recalculate(b, NextSlot(head), planned, FALSE)
        /\ b \in [Slots -> Blocks] /\ NextSlot(head) \in Slots
    BY <1>4, LinePlanned
  <2>2. /\ UNCHANGED <<job, tail, mode, forced, exit>> /\ pass = "none" /\ NextSlot(head) # tail
    BY <1>4 DEF PlanLine, Ready, Full
  <2>3. \A i \in Slots : i # head => b[i] = block[i]
    BY <1>1
  <2>4. Empty => b[tail].max = 0
    <3>. SUFFICES ASSUME Empty
                  PROVE  New(m).max = 0
      BY <1>1 DEF Empty
    <3>1. New(m).max = MaxEntry(Fresh(m), Nominal(Fresh(m), override), previous)
      BY Planned
    <3>2. Fresh(m).junction = 0
      BY DEF Fresh
    <3>3. Nominal(Fresh(m), override) \in Nat /\ previous \in Nat
      BY Planned DEF Speeds
    <3>. QED
      BY <3>1, <3>2, <3>3 DEF MaxEntry, Least
  <2>. HIDE DEF b
  <2>. QED
    BY <1>1, <2>1, <2>2, <2>3, <2>4, SweepRecalculated
<1>5. CASE PlanNothing
  <2>1. UNCHANGED <<job, tail, head, planned, loop, mode, prep>> /\ pass = "none"
    BY <1>5 DEF PlanNothing, Ready
  <2>2. \A j \in Slots : j # head => block'[j] = block[j]
    BY <1>1, <1>5 DEF PlanNothing
  <2>. QED
    BY <1>1, <1>2, <1>3, <2>1, <2>2, SweepInPlace DEF loop, prep
<1>6. CASE Reverse
  BY <1>6, SweepReverse
<1>7. CASE Forward
  BY <1>7, SweepForward
<1>8. CASE ForwardDone
  <2>1. UNCHANGED <<job, ring, mode, prep>> /\ pass = "forward" /\ index = head /\ pass' = "none"
    BY <1>8 DEF ForwardDone
  <2>2. head # tail => Within(planned, head)
    BY <2>1, SweepRead
  <2>. QED
    BY <1>1, <1>2, <2>1, <2>2, SweepInPlace DEF ring, prep
<1>9. ASSUME NEW o \in job.overrides, Override(o)
      PROVE  SweepInv'
  <2>1. UNCHANGED <<job, tail, forced, exit>>
    BY <1>9 DEF Override
  <2>2. Rated(o) \in [Slots -> Blocks] /\ \A i \in Slots : Rated(o)[i].entry = block[i].entry
    BY <1>1, PlannerAssumption, Rating
  <2>. QED
    BY <1>1, <1>9, <2>1, <2>2, OverridePlanned, SweepRecalculated
<1>10. ASSUME NEW part \in 0 .. block[tail].length, PrepSegment(part)
       PROVE  SweepInv'
  BY <1>10, SweepSegment
<1>11. CASE CycleStart
  <2>1. UNCHANGED <<job, ring, loop, prep>> /\ pass = "none" /\ mode \in {"idle", "held"}
    BY <1>11 DEF CycleStart, Ready
  <2>. QED
    BY <1>1, <1>2, <2>1, SweepInPlace DEF ring, loop, prep
<1>12. CASE FeedHold
  <2>1. UNCHANGED <<job, tail, head, planned, loop>> /\ pass = "none"
    BY <1>12 DEF FeedHold, Ready
  <2>2. ~loaded' /\ (recalc' => recalc \/ loaded)
    <3>1. mode = "cycle" \/ ~loaded
      BY <1>2, <1>12 DEF FeedHold
    <3>2. Unloading(mode = "cycle")
      BY <1>12 DEF FeedHold
    <3>. QED
      BY <3>1, <3>2 DEF Unloading
  <2>. QED
    BY <1>1, <1>2, <1>3, <2>1, <2>2, SweepInPlace DEF loop
<1>13. CASE CycleDone
  <2>1. UNCHANGED <<job, ring, loop, prep>> /\ pass = "none" /\ head = tail
    BY <1>13 DEF CycleDone, Ready, Empty
  <2>. QED
    BY <1>1, <1>2, <1>3, <2>1, SweepInPlace DEF ring, loop, prep
<1>14. CASE HoldDone
  <2>1. Recalculate(block, head, tail, TRUE) /\ UNCHANGED <<job, tail, forced, exit>>
    BY <1>14 DEF HoldDone, Reinitialize
  <2>. QED
    BY <1>1, <2>1, SweepRecalculated
<1>15. CASE \E o \in {override, DefaultOverride} : Flush(o)
  <2>1. /\ tail' = 0 /\ head' = 0 /\ ~loaded' /\ ~recalc' /\ pass' = "none"
    BY <1>15 DEF Flush, Ready, loop
  <2>. QED
    BY <2>1 DEF SweepInv, Empty
<1>16. CASE ProgramEnd
  <2>1. UNCHANGED <<job, ring, loop, mode, prep>> /\ pass = "none" /\ head = tail
    BY <1>16 DEF ProgramEnd, Ready, Empty
  <2>. QED
    BY <1>1, <1>2, <1>3, <2>1, SweepInPlace DEF ring, loop, prep
<1>. QED
  BY <1>4, <1>5, <1>6, <1>7, <1>8, <1>9, <1>10, <1>11, <1>12, <1>13, <1>14, <1>15, <1>16
     DEF Next, JogCancelled, Reset

\* The planner starts so.
LEMMA PlannerInit ==
  ASSUME Init
  PROVE  TypeOK /\ SweepInv
<1>1. job \in Jobs /\ 0 \in Slots
  BY RingSize DEF Init, Slots
<1>2. Zeroed \in [rate: Speeds, cap: Speeds, rapid: BOOLEAN, junction: Speeds,
                  length: Nat, entry: Speeds, max: Speeds]
  BY DEF Zeroed, Speeds
<1>3. DefaultOverride \in Overrides
  BY DEF DefaultOverride, Overrides
<1>4. TypeOK
  BY <1>1, <1>2, <1>3 DEF Init, TypeOK, Speeds
<1>5. SweepInv
  BY DEF Init, SweepInv, Empty
<1>. QED
  BY <1>4, <1>5

-----------------------------------------------------------------------------
(* Driving the plan, where overrides are only raised *)

Drive == RateInv /\ SpeedInv /\ BrakeInv /\ ReachInv /\ BestInv

\* The fields of the blocks are numbers.
LEMMA Fields ==
  ASSUME TypeOK
  PROVE  /\ \A i \in Slots : /\ block[i] \in Blocks
                             /\ block[i].entry \in Nat /\ block[i].max \in Nat
                             /\ block[i].length \in Nat /\ block[i].junction \in Nat
                             /\ Nominal(block[i], override) \in Nat
         /\ speed \in Nat /\ exit \in Nat /\ stop \in Nat /\ override \in Overrides
         /\ loaded \in BOOLEAN /\ recalc \in BOOLEAN /\ forced \in BOOLEAN
<1>1. block \in [Slots -> Blocks] /\ override \in Overrides
  BY DEF TypeOK, Blocks
<1>2. ASSUME NEW i \in Slots
      PROVE  /\ block[i] \in Blocks
             /\ block[i].entry \in Nat /\ block[i].max \in Nat
             /\ block[i].length \in Nat /\ block[i].junction \in Nat
             /\ Nominal(block[i], override) \in Nat
  <2>1. block[i] \in Blocks
    BY <1>1
  <2>. QED
    BY <1>1, <2>1, NominalIsSpeed DEF Blocks, Speeds
<1>. QED
  BY <1>1, <1>2 DEF TypeOK, Speeds

\* What the parts speak of, read in terms of places.
LEMMA Reading ==
  ASSUME TypeOK
  PROVE  /\ Empty <=> head = tail
         /\ NextEntry = IF NextSlot(tail) = head THEN 0 ELSE block[NextSlot(tail)].entry
         /\ \A i \in Slots :
              /\ Queued(i) <=> Place(i) < Place(head)
              /\ i \in Waiting <=> Place(i) < Place(head) /\ i # tail
              /\ LeaveSpeed(i) = IF NextSlot(i) = head THEN 0 ELSE block[NextSlot(i)].entry
              /\ Settled(i) <=> \/ pass = "none"
                                \/ pass = "reverse" /\ Place(i) < Place(planned)
                                \/ pass = "forward" /\ Place(i) + 1 < Place(index)
              /\ Reached(i) = (IF PrevSlot(i) = tail THEN speed ELSE block[PrevSlot(i)].entry)
                              + block[PrevSlot(i)].length
              /\ BestForward(i) <=> block[i].entry = block[i].max \/ block[i].entry = Reached(i)
              /\ BestBack(i) <=> \/ block[i].entry = block[i].max
                                 \/ block[i].entry = LeaveSpeed(i) + block[i].length
  BY DEF Empty, NextEntry, Queued, Waiting, LeaveSpeed, Settled, Reached, BestForward, BestBack

\* The same after a step that leaves the tail, read in the old ring.
LEMMA InPlace ==
  ASSUME TypeOK', job' = job, tail' = tail
  PROVE  /\ Slots' = Slots
         /\ Empty' <=> head' = tail
         /\ NextEntry' = IF NextSlot(tail) = head' THEN 0 ELSE block'[NextSlot(tail)].entry
         /\ Queued(planned)' <=> Place(planned') < Place(head')
         /\ PrevSlot(head)' = PrevSlot(head')
         /\ Settled(tail)' <=> \/ pass' = "none"
                               \/ pass' = "reverse" /\ Place(tail) < Place(planned')
                               \/ pass' = "forward" /\ Place(tail) + 1 < Place(index')
         /\ \A i \in Slots :
              /\ Queued(i)' <=> Place(i) < Place(head')
              /\ i \in Waiting' <=> Place(i) < Place(head') /\ i # tail
              /\ LeaveSpeed(i)' = IF NextSlot(i) = head' THEN 0 ELSE block'[NextSlot(i)].entry
              /\ Settled(i)' <=> \/ pass' = "none"
                                 \/ pass' = "reverse" /\ Place(i) < Place(planned')
                                 \/ pass' = "forward" /\ Place(i) + 1 < Place(index')
              /\ Reached(i)' = (IF PrevSlot(i) = tail THEN speed' ELSE block'[PrevSlot(i)].entry)
                               + block'[PrevSlot(i)].length
              /\ PrevSlot(i)' = PrevSlot(i)
<1>1. /\ Slots' = Slots /\ \A i : NextSlot(i)' = NextSlot(i) /\ PrevSlot(i)' = PrevSlot(i)
      /\ \A i : Place(i)' = Place(i)
      /\ Place(head)' = Place(head') /\ Place(planned)' = Place(planned')
      /\ Place(index)' = Place(index') /\ PrevSlot(head)' = PrevSlot(head')
      /\ NextSlot(tail)' = NextSlot(tail) /\ Place(tail)' = Place(tail)
  BY DEF Slots, NextSlot, PrevSlot, Place
<1>2. planned' \in Slots' /\ planned' \in Slots
  BY <1>1 DEF TypeOK
<1>. QED
  BY <1>1, <1>2 DEF Empty, NextEntry, Queued, Waiting, LeaveSpeed, Settled, Reached

\* Between two blocks, too, the stepper goes on at the machine's speed.
LEMMA StartsAtSpeed ==
  ASSUME TypeOK, SweepInv, SpeedInv, ~Empty
  PROVE  /\ StartSpeed = speed /\ speed \in Nat
         /\ ~loaded => StartEntry = speed
<1>1. /\ ~forced /\ speed \in Nat
      /\ ~loaded /\ ~recalc => exit = speed
      /\ ~loaded => \/ block[tail].entry = speed
                    \/ mode = "hold" /\ ~recalc
  BY Fields DEF SpeedInv
<1>. QED
  BY <1>1 DEF StartSpeed, StartEntry

\* A segment is driven: the speeds at its ends and those of the profile it belongs to.
LEMMA Driven ==
  ASSUME TypeOK, SweepInv, Drive, NEW part \in 0 .. block[tail].length, PrepSegment(part), NEW rest,
         rest = block[tail].length - part - Ramp.stop
  PROVE  /\ speed' <= speed + part /\ speed <= speed' + part
         /\ speed' <= Nominal(block[tail], override)
         /\ ~forced' /\ ~recalc'
         /\ rest = 0 => speed' = exit'
         /\ speed' = exit' + rest \/ mode = "cycle"
         /\ exit' <= NextEntry
         /\ mode = "cycle" => /\ stop' = 0 /\ exit' = NextEntry
                              /\ speed' <= exit' + rest /\ exit' <= speed' + rest
                              /\ NextEntry = speed + part + rest => NextEntry = speed' + rest
         /\ mode = "hold" => exit' = 0 \/ stop' = 0
         /\ rest + stop' = block[tail].length - part
<1>1. /\ rest \in Nat /\ part \in Nat
      /\ exit' = Ramp.exit /\ stop' = Ramp.stop /\ forced' = Ramp.forced
      /\ exit' \in Nat /\ stop' \in Nat
      /\ recalc' => recalc /\ loaded
      /\ speed' = EndSpeed(StartSpeed, part, rest, exit', Nominal(block[tail], override))
      /\ speed' \in Nat
  BY Segmented
<1>2. ~Empty /\ mode \in {"cycle", "hold"} /\ pass = "none" /\ head # tail
  BY DEF PrepSegment, Ready, Empty
<1>3. /\ StartSpeed = speed /\ speed \in Nat
      /\ ~loaded => StartEntry = speed
  BY <1>2, StartsAtSpeed DEF Drive
<1>. DEFINE length == block[tail].length  nominal == Nominal(block[tail], override)
<1>4. /\ length \in Nat /\ nominal \in Nat /\ NextEntry \in Nat /\ tail \in Slots
      /\ NextSlot(tail) \in Slots /\ head \in Slots /\ override \in Overrides
  BY Starting, Ends, Fields
<1>5. speed <= nominal /\ speed <= NextEntry + length /\ (mode # "hold" => NextEntry <= speed + length)
  BY <1>2 DEF Drive, RateInv, BrakeInv, ReachInv, Settled
<1>6. NextEntry <= nominal
  <2>1. CASE NextSlot(tail) = head
    BY <1>4, <2>1 DEF NextEntry
  <2>2. CASE NextSlot(tail) # head
    <3>. DEFINE n == NextSlot(tail)
    <3>1. Place(n) < Place(head) /\ n # tail /\ PrevSlot(n) = tail
      <4>1. Place(n) = 1 /\ Place(head) # 0 /\ Place(head) # 1 /\ Place(head) \in Nat /\ n # tail
        BY <1>2, <1>4, <2>2, Ends
      <4>. QED
        BY <1>4, <4>1, Ends
    <3>2. n \in Waiting
      BY <1>4, <3>1, Reading
    <3>3. block[n].max <= nominal
      BY <3>1, <3>2 DEF Drive, RateInv
    <3>4. block[n].entry <= block[n].max
      BY <3>2 DEF Drive, BrakeInv
    <3>5. NextEntry = block[n].entry
      BY <2>2 DEF NextEntry
    <3>. QED
      BY <1>4, <3>3, <3>4, <3>5, Fields
  <2>. QED
    BY <2>1, <2>2
<1>7. /\ loaded => ~recalc
      /\ loaded /\ mode = "cycle" => exit = NextEntry /\ stop = 0
      /\ loaded /\ mode = "hold" => speed + stop = exit + length /\ (exit = 0 \/ stop = 0)
      /\ ~forced
  BY <1>4, Fields DEF SweepInv, Drive, SpeedInv
<1>8. ~recalc'
  BY <1>1, <1>7
<1>. HIDE DEF nominal, length
<1>9. /\ ~forced'
      /\ mode = "cycle" => stop' = 0 /\ exit' = NextEntry
      /\ mode = "hold" => speed + stop' = exit' + length /\ (exit' = 0 \/ stop' = 0)
  <2>1. CASE loaded
    BY <1>1, <1>7, <2>1 DEF Ramp
  <2>2. CASE ~loaded
    <3>1. exit' = Profile(speed).exit /\ stop' = Profile(speed).stop /\ forced' = Profile(speed).forced
      BY <1>1, <1>3, <2>2 DEF Ramp
    <3>. QED
      BY <1>2, <1>3, <1>5, <3>1, Profiled DEF nominal, length
  <2>. QED
    BY <2>1, <2>2
<1>10. rest + stop' = length - part
  BY <1>1, <1>4 DEF length
<1>11. exit' <= NextEntry
  <2>1. CASE mode = "cycle"
    BY <1>4, <1>9, <2>1
  <2>2. CASE mode = "hold"
    BY <1>1, <1>3, <1>4, <1>5, <1>9, <2>2
  <2>. QED
    BY <1>2, <2>1, <2>2
<1>12. speed' = EndSpeed(speed, part, rest, exit', nominal)
  BY <1>1, <1>3 DEF nominal
<1>. DEFINE v == speed  x == exit'  w == speed'
<1>. /\ v = speed /\ x = exit' /\ w = speed'
  OBVIOUS
<1>. part \in Nat /\ rest \in Nat /\ nominal \in Nat
  BY <1>1, <1>4
<1>13. /\ v \in Nat /\ x \in Nat /\ w = EndSpeed(v, part, rest, x, nominal)
  BY <1>1, <1>3, <1>12
<1>14. CASE mode = "cycle"
  <2>1. /\ v <= nominal /\ x <= nominal /\ v <= x + part + rest /\ x <= v + part + rest
    BY <1>1, <1>3, <1>4, <1>5, <1>6, <1>9, <1>10, <1>14
  <2>. HIDE DEF v, x, w
  <2>2. /\ w <= v + part /\ v <= w + part /\ w <= x + rest /\ x <= w + rest /\ w <= nominal
        /\ rest = 0 => w = x
        /\ x = v + part + rest => x = w + rest
    <3>1. CASE rest = 0
      <4>1. w = x
        BY <1>13, <3>1 DEF EndSpeed
      <4>. QED
        BY <1>13, <2>1, <3>1, <4>1
    <3>2. CASE rest # 0 /\ v >= x + part + rest
      BY <1>13, <2>1, <3>2 DEF EndSpeed
    <3>3. CASE rest # 0 /\ ~(v >= x + part + rest)
      <4>1. w = Least(x + rest, Least(nominal, v + part))
        BY <1>13, <2>1, <3>3 DEF EndSpeed
      <4>. QED
        BY <1>13, <2>1, <3>3, <4>1 DEF Least
    <3>. QED
      BY <3>1, <3>2, <3>3
  <2>. QED
    BY <1>8, <1>9, <1>10, <1>11, <1>14, <2>2 DEF v, x, w, nominal, length
<1>15. CASE mode = "hold"
  <2>1. v <= nominal /\ v = x + part + rest
    BY <1>1, <1>3, <1>4, <1>5, <1>9, <1>10, <1>15
  <2>. HIDE DEF v, x, w
  <2>2. w <= v + part /\ v <= w + part /\ w = x + rest /\ w <= nominal
    BY <1>13, <2>1 DEF EndSpeed, Least, Most
  <2>3. rest = 0 => w = x
    BY <1>13, <2>2
  <2>. QED
    BY <1>8, <1>9, <1>10, <1>11, <1>15, <2>2, <2>3 DEF v, x, w, nominal, length
<1>. QED
  BY <1>2, <1>14, <1>15

\* Nominal speeds rise with the overrides.
LEMMA NominalRises ==
  ASSUME NEW b \in Blocks, NEW o \in Overrides, NEW r \in Overrides,
         o.feed <= r.feed, o.rapid <= r.rapid
  PROVE  Nominal(b, o) <= Nominal(b, r)
<1>1. ASSUME NEW x \in Nat, NEW y \in Nat, NEW z \in Nat, y <= z
      PROVE  (x * y) \div 4 \in Nat /\ (x * z) \div 4 \in Nat /\ (x * y) \div 4 <= (x * z) \div 4
  <2>. DEFINE p == x * y  q == x * z
  <2>1. p \in Nat /\ q \in Nat /\ p <= q
    BY <1>1, SMT
  <2>. HIDE DEF p, q
  <2>2. p \div 4 \in Nat /\ q \div 4 \in Nat /\ p \div 4 <= q \div 4
    BY <2>1, SMT
  <2>. QED
    BY <2>2 DEF p, q
<1>2. /\ b.rate \in Nat /\ b.cap \in Nat /\ o.feed \in Nat /\ o.rapid \in Nat
      /\ r.feed \in Nat /\ r.rapid \in Nat
  BY DEF Blocks, Overrides, Speeds
<1>. DEFINE fo == (b.rate * o.feed) \div 4  fr == (b.rate * r.feed) \div 4
            ro == (b.rate * o.rapid) \div 4  rr == (b.rate * r.rapid) \div 4
<1>3. fo \in Nat /\ fr \in Nat /\ fo <= fr
  BY <1>1, <1>2
<1>4. ro \in Nat /\ rr \in Nat /\ ro <= rr
  BY <1>1, <1>2
<1>. HIDE DEF fo, fr, ro, rr
<1>5. /\ Nominal(b, o) = Most(1, IF b.rapid THEN ro ELSE Least(fo, b.cap))
      /\ Nominal(b, r) = Most(1, IF b.rapid THEN rr ELSE Least(fr, b.cap))
  BY DEF Nominal, MinimumFeedRate, fo, fr, ro, rr
<1>. QED
  BY <1>2, <1>3, <1>4, <1>5 DEF Most, Least

\* The rates, read in terms of places.
LEMMA RateRead ==
  ASSUME TypeOK, RateInv
  PROVE  /\ head # tail => /\ previous = Nominal(block[PrevSlot(head)], override)
                           /\ speed <= Nominal(block[tail], override)
         /\ \A i \in Slots : Place(i) < Place(head) =>
              /\ block[i].max <= Nominal(block[i], override)
              /\ block[i].max <= block[i].junction
              /\ i # tail => block[i].max <= Nominal(block[PrevSlot(i)], override)
<1>1. /\ Empty <=> head = tail
      /\ \A i \in Slots : /\ Queued(i) <=> Place(i) < Place(head)
                          /\ i \in Waiting <=> Place(i) < Place(head) /\ i # tail
  BY Reading
<1>. QED
  BY <1>1 DEF RateInv

\* After a step that leaves the tail.
LEMMA RateInPlace ==
  ASSUME TypeOK', job' = job, tail' = tail,
         head' # tail => /\ previous' = Nominal(block'[PrevSlot(head')], override')
                         /\ speed' <= Nominal(block'[tail], override'),
         \A i \in Slots : Place(i) < Place(head') =>
           /\ block'[i].max <= Nominal(block'[i], override')
           /\ block'[i].max <= block'[i].junction
           /\ i # tail => block'[i].max <= Nominal(block'[PrevSlot(i)], override')
  PROVE  RateInv'
<1>1. /\ Slots' = Slots /\ (Empty' <=> head' = tail) /\ PrevSlot(head)' = PrevSlot(head')
      /\ \A i \in Slots : /\ Queued(i)' <=> Place(i) < Place(head')
                          /\ i \in Waiting' <=> Place(i) < Place(head') /\ i # tail
                          /\ PrevSlot(i)' = PrevSlot(i)
  BY InPlace
<1>2. Waiting' \subseteq Slots
  BY <1>1 DEF Waiting
<1>3. ~Empty' => /\ previous' = Nominal(block[PrevSlot(head)], override)'
                 /\ (speed <= Nominal(block[tail], override))'
  BY <1>1 DEF Nominal
<1>4. \A i \in Slots : Queued(i)' => /\ (block[i].max <= Nominal(block[i], override))'
                                     /\ (block[i].max <= block[i].junction)'
  BY <1>1 DEF Nominal
<1>5. \A i \in Waiting' : (block[i].max <= Nominal(block[PrevSlot(i)], override))'
  BY <1>1, <1>2 DEF Nominal
<1>. QED
  BY <1>1, <1>3, <1>4, <1>5 DEF RateInv

\* A new move, in sum.
LEMMA LineIs ==
  ASSUME TypeOK, SweepInv, NEW m \in job.moves, PlanLine(m)
  PROVE  /\ UNCHANGED <<job, tail, planned, override, mode, endMotion, forced, speed, exit, stop>>
         /\ pass = "none" /\ mode # "held" /\ Ready
         /\ head' = NextSlot(head) /\ head' # tail /\ Place(head') = Place(head) + 1
         /\ previous' = Nominal(New(m), override)
         /\ SameMove(New(m), block'[head])
         /\ block'[head].entry = IF planned = head THEN 0 ELSE Stoppable(New(m))
         /\ \A j \in Slots : j # head =>
              /\ SameMove(block[j], block'[j])
              /\ block'[j].entry = IF loaded /\ ~loaded' /\ j = tail THEN speed ELSE block[j].entry
         /\ loaded' => loaded
         /\ recalc' => recalc \/ (loaded /\ ~loaded')
         /\ recalc => recalc'
         /\ loaded /\ ~loaded' => recalc'
         /\ head # tail => Place(planned) < Place(head) /\ planned # head
         /\ planned = head => pass' = "none"
         /\ planned # head /\ PrevSlot(head) = planned => pass' = "forward" /\ index' = head
         /\ planned # head /\ PrevSlot(head) # planned => pass' = "reverse" /\ index' = PrevSlot(head)
<1>. DEFINE b == [block EXCEPT ![head] = New(m)]  h == NextSlot(head)
            touches == PrevSlot(h) # planned /\ PrevSlot(PrevSlot(h)) = planned /\ planned = tail
<1>1. /\ UNCHANGED <<job, tail, override, mode, endMotion, forced, speed, exit, stop>>
      /\ pass = "none" /\ mode # "held" /\ h # tail
  BY DEF PlanLine, Ready, Full
<1>2. /\ Recalculate(b, h, planned, FALSE)
      /\ previous' = Nominal(New(m), override)
      /\ b \in [Slots -> Blocks] /\ h \in Slots /\ head \in Slots /\ planned \in Slots
  BY LinePlanned
<1>3. \A j \in Slots : b[j] = IF j = head THEN New(m) ELSE block[j]
  BY DEF TypeOK
<1>4. /\ PrevSlot(h) = head /\ Place(h) = Place(head) + 1 /\ tail \in Slots
      /\ Place(head) \in Nat /\ Place(planned) \in Nat
      /\ Place(head) = 0 <=> head = tail
  BY <1>1, Ends
<1>5. touches \in BOOLEAN
  OBVIOUS
<1>6. /\ planned' = planned /\ head' = h
      /\ loaded' = (loaded /\ ~touches) /\ recalc' = (recalc \/ (loaded /\ touches))
      /\ \A j \in Slots :
           /\ SameMove(b[j], block'[j])
           /\ block'[j].entry = IF j = PrevSlot(h) /\ j # planned THEN Stoppable(b[j])
                                ELSE IF touches /\ loaded /\ j = tail THEN speed
                                ELSE b[j].entry
      /\ PrevSlot(h) = planned => pass' = "none" /\ index' = 0
      /\ PrevSlot(h) # planned /\ PrevSlot(PrevSlot(h)) = planned =>
           pass' = "forward" /\ index' = PrevSlot(h)
      /\ PrevSlot(h) # planned /\ PrevSlot(PrevSlot(h)) # planned =>
           pass' = "reverse" /\ index' = PrevSlot(PrevSlot(h))
  <2>. DEFINE already == FALSE
  <2>1. already \in BOOLEAN /\ Recalculate(b, h, planned, already)
    BY <1>2
  <2>2. touches <=> \/ already
                    \/ PrevSlot(h) # planned /\ PrevSlot(PrevSlot(h)) = planned /\ planned = tail
    OBVIOUS
  <2>. HIDE DEF b, h, touches, already
  <2>. QED
    BY <1>1, <1>2, <1>5, <2>1, <2>2, Recalculated
<1>. HIDE DEF touches
<1>7. /\ loaded \in BOOLEAN /\ recalc \in BOOLEAN
      /\ head # tail => Place(planned) < Place(head) /\ planned # head
      /\ loaded => head # tail
  <2>1. /\ head # tail => Within(planned, head)
        /\ loaded => Within(planned, head)
    BY <1>1, SweepRead
  <2>. QED
    BY <1>2, <1>4, <2>1 DEF TypeOK, Within
<1>8. /\ loaded' => loaded /\ ~touches
      /\ loaded /\ ~touches => loaded'
      /\ recalc' => recalc \/ (loaded /\ touches)
      /\ recalc => recalc'
      /\ loaded /\ touches => recalc'
  BY <1>5, <1>6, <1>7
<1>9. SameMove(New(m), block'[head])
  BY <1>2, <1>3, <1>6
<1>10. New(m).entry = 0
  BY Planned
<1>11. block'[head].entry = IF planned = head THEN 0 ELSE Stoppable(New(m))
  <2>1. ~(touches /\ loaded /\ head = tail)
    BY <1>7
  <2>. QED
    BY <1>2, <1>3, <1>4, <1>6, <1>10, <2>1
<1>12. \A j \in Slots : j # head =>
              /\ SameMove(block[j], block'[j])
              /\ block'[j].entry = IF loaded /\ ~loaded' /\ j = tail THEN speed ELSE block[j].entry
  <2>. SUFFICES ASSUME NEW j \in Slots, j # head
                PROVE  /\ SameMove(block[j], block'[j])
                       /\ block'[j].entry = IF loaded /\ ~loaded' /\ j = tail THEN speed
                                            ELSE block[j].entry
    OBVIOUS
  <2>1. SameMove(block[j], block'[j])
    BY <1>3, <1>6
  <2>2. block'[j].entry = IF touches /\ loaded /\ j = tail THEN speed ELSE block[j].entry
    BY <1>3, <1>4, <1>6
  <2>. QED
    BY <1>8, <2>1, <2>2
<1>. QED
  BY <1>1, <1>2, <1>4, <1>6, <1>7, <1>8, <1>9, <1>11, <1>12 DEF Ready

\* Everything is planned again, in sum.
LEMMA AgainIs ==
  ASSUME TypeOK, SweepInv, NEW b \in [Slots -> Blocks], Recalculate(b, head, tail, TRUE),
         job' = job, tail' = tail
  PROVE  /\ planned' = tail /\ head' = head
         /\ ~loaded'
         /\ loaded => recalc'
         /\ recalc => recalc'
         /\ recalc' => recalc \/ loaded
         /\ \A j \in Slots :
              /\ SameMove(b[j], block'[j])
              /\ block'[j].entry = IF j = PrevSlot(head) /\ j # tail THEN Stoppable(b[j])
                                   ELSE IF loaded /\ j = tail THEN speed
                                   ELSE b[j].entry
         /\ PrevSlot(head) = tail => pass' = "none"
         /\ PrevSlot(head) # tail /\ PrevSlot(PrevSlot(head)) = tail =>
              pass' = "forward" /\ index' = PrevSlot(head)
         /\ PrevSlot(head) # tail /\ PrevSlot(PrevSlot(head)) # tail =>
              pass' = "reverse" /\ index' = PrevSlot(PrevSlot(head))
<1>1. /\ head \in Slots /\ tail \in Slots /\ loaded \in BOOLEAN /\ recalc \in BOOLEAN
  BY DEF TypeOK
<1>. DEFINE touches == TRUE  already == TRUE  p == tail
<1>0. touches /\ p = tail
  OBVIOUS
<1>2. /\ touches \in BOOLEAN /\ already \in BOOLEAN /\ p \in Slots
      /\ touches <=> \/ already
                     \/ PrevSlot(head) # p /\ PrevSlot(PrevSlot(head)) = p /\ p = tail
      /\ Recalculate(b, head, p, already)
  BY <1>1
<1>. HIDE DEF touches, already, p
<1>3. /\ planned' = p /\ head' = head
      /\ loaded' = (loaded /\ ~touches) /\ recalc' = (recalc \/ (loaded /\ touches))
      /\ \A j \in Slots :
           /\ SameMove(b[j], block'[j])
           /\ block'[j].entry = IF j = PrevSlot(head) /\ j # p THEN Stoppable(b[j])
                                ELSE IF touches /\ loaded /\ j = tail THEN speed
                                ELSE b[j].entry
      /\ PrevSlot(head) = p => pass' = "none" /\ index' = 0
      /\ PrevSlot(head) # p /\ PrevSlot(PrevSlot(head)) = p =>
           pass' = "forward" /\ index' = PrevSlot(head)
      /\ PrevSlot(head) # p /\ PrevSlot(PrevSlot(head)) # p =>
           pass' = "reverse" /\ index' = PrevSlot(PrevSlot(head))
  BY <1>1, <1>2, Recalculated
<1>4. touches
  BY <1>0
<1>5. ~loaded' /\ (recalc' => recalc \/ loaded) /\ (recalc => recalc') /\ (loaded => recalc')
  BY <1>1, <1>3, <1>4
<1>. QED
  BY <1>0, <1>3, <1>4, <1>5

\* The moves of the plan stay as they are.
SameMoves == /\ UNCHANGED <<job, tail, head, previous, speed>>
             /\ \A i \in Slots : Place(i) < Place(head) => SameMove(block[i], block'[i])

\* So do, but for the block at the tail, their entry speeds.
SameEntries == /\ SameMoves
               /\ UNCHANGED <<planned, pass, index>>
               /\ \A i \in Slots : Place(i) < Place(head) /\ i # tail =>
                    block'[i].entry = block[i].entry

\* The steps of the main program besides the planner, and a move of no length.
LEMMA Idly ==
  ASSUME TypeOK, \/ PlanNothing \/ CycleStart \/ FeedHold \/ CycleDone \/ ProgramEnd
  PROVE  SameEntries /\ pass = "none"
<1>1. block \in [Slots -> Blocks] /\ tail \in Slots /\ head \in Slots
  BY DEF TypeOK, Blocks
<1>2. CASE PlanNothing
  <2>1. \A i \in Slots : i # head => block'[i] = block[i]
    BY <1>1, <1>2 DEF PlanNothing
  <2>2. Place(head) \in Nat
    BY Ends
  <2>3. \A i \in Slots : Place(i) < Place(head) => block'[i] = block[i]
    BY <2>1, <2>2
  <2>4. UNCHANGED <<job, tail, head, planned, previous, pass, index, speed>> /\ pass = "none"
    BY <1>2 DEF PlanNothing, loop, prep, Ready
  <2>. QED
    BY <2>3, <2>4 DEF SameEntries, SameMoves, SameMove
<1>3. CASE FeedHold
  <2>1. block' = block \/ block' = Unload(block)
    BY <1>3 DEF FeedHold
  <2>2. \A i \in Slots : SameMove(block[i], block'[i]) /\ (i # tail => block'[i].entry = block[i].entry)
    <3>1. CASE block' = block
      BY <3>1 DEF SameMove
    <3>2. CASE block' = Unload(block)
      BY <1>1, <3>2, Fields, Unloaded DEF Speeds
    <3>. QED
      BY <2>1, <3>1, <3>2
  <2>3. UNCHANGED <<job, tail, head, planned, previous, pass, index, speed>> /\ pass = "none"
    BY <1>3 DEF FeedHold, loop, Ready
  <2>. QED
    BY <2>2, <2>3 DEF SameEntries, SameMoves
<1>4. CASE CycleStart \/ CycleDone \/ ProgramEnd
  <2>1. UNCHANGED <<job, block, tail, head, planned, previous, pass, index, speed>> /\ pass = "none"
    BY <1>4 DEF CycleStart, CycleDone, ProgramEnd, ring, loop, prep, Ready
  <2>. QED
    BY <2>1 DEF SameEntries, SameMoves, SameMove
<1>. QED
  BY <1>2, <1>3, <1>4

\* Turns of the two passes change no move.
LEMMA Sweeping ==
  ASSUME TypeOK, Reverse \/ Forward \/ ForwardDone
  PROVE  SameMoves /\ UNCHANGED override
<1>1. CASE Reverse
  <2>1. UNCHANGED <<job, tail, head, previous, override, speed>>
    BY <1>1 DEF Reverse
  <2>. QED
    BY <1>1, <2>1, Reversed DEF SameMoves
<1>2. CASE Forward
  <2>1. UNCHANGED <<job, tail, head, previous, override, speed>>
    BY <1>2 DEF Forward, prep
  <2>. QED
    BY <1>2, <2>1, Forwarded DEF SameMoves
<1>3. CASE ForwardDone
  BY <1>3 DEF ForwardDone, ring, prep, SameMoves, SameMove
<1>. QED
  BY <1>1, <1>2, <1>3

\* The rates stay kept where the moves and the override do.
LEMMA RateSame ==
  ASSUME TypeOK, TypeOK', RateInv, SameMoves, override' = override \/ Empty
  PROVE  RateInv'
<1>1. /\ head # tail => /\ previous = Nominal(block[PrevSlot(head)], override)
                        /\ speed <= Nominal(block[tail], override)
      /\ \A i \in Slots : Place(i) < Place(head) =>
           /\ block[i].max <= Nominal(block[i], override)
           /\ block[i].max <= block[i].junction
           /\ i # tail => block[i].max <= Nominal(block[PrevSlot(i)], override)
  BY RateRead
<1>2. /\ UNCHANGED <<job, tail, head, previous, speed>>
      /\ \A i \in Slots : Place(i) < Place(head) =>
           /\ block'[i].max = block[i].max /\ block'[i].junction = block[i].junction
           /\ override' = override => Nominal(block'[i], override') = Nominal(block[i], override)
  BY NominalSame DEF SameMoves, SameMove
<1>3. /\ head \in Slots /\ tail \in Slots /\ Place(tail) = 0 /\ Place(head) \in Nat
      /\ Place(head) = 0 <=> head = tail
      /\ \A i \in Slots : /\ Place(i) \in Nat /\ PrevSlot(i) \in Slots
                          /\ i # tail => Place(PrevSlot(i)) = Place(i) - 1
  BY Ends
<1>4. CASE head = tail
  <2>1. \A i \in Slots : ~(Place(i) < Place(head))
    BY <1>3, <1>4
  <2>. QED
    BY <1>2, <1>4, <2>1, RateInPlace
<1>5. CASE head # tail
  <2>1. override' = override
    BY <1>5 DEF Empty
  <2>2. Place(PrevSlot(head)) < Place(head) /\ Place(tail) < Place(head)
    BY <1>3, <1>5
  <2>3. \A i \in Slots : Place(i) < Place(head) /\ i # tail => Place(PrevSlot(i)) < Place(head)
    BY <1>3
  <2>4. /\ previous' = Nominal(block'[PrevSlot(head)], override')
        /\ speed' <= Nominal(block'[tail], override')
    BY <1>1, <1>2, <1>3, <1>5, <2>1, <2>2
  <2>5. \A i \in Slots : Place(i) < Place(head) =>
           /\ block'[i].max <= Nominal(block'[i], override')
           /\ block'[i].max <= block'[i].junction
           /\ i # tail => block'[i].max <= Nominal(block'[PrevSlot(i)], override')
    BY <1>1, <1>2, <1>3, <2>1, <2>3
  <2>. QED
    BY <1>2, <2>4, <2>5, RateInPlace
<1>. QED
  BY <1>4, <1>5

\* A new move is rated.
LEMMA RateLine ==
  ASSUME TypeOK, TypeOK', SweepInv, Drive, NEW m \in job.moves, PlanLine(m)
  PROVE  RateInv'
<1>1. /\ UNCHANGED <<job, tail, override, speed>>
      /\ head' = NextSlot(head) /\ head' # tail /\ Place(head') = Place(head) + 1
      /\ previous' = Nominal(New(m), override)
      /\ SameMove(New(m), block'[head])
      /\ \A j \in Slots : j # head => SameMove(block[j], block'[j])
  BY LineIs
<1>2. /\ head # tail => /\ previous = Nominal(block[PrevSlot(head)], override)
                        /\ speed <= Nominal(block[tail], override)
      /\ \A i \in Slots : Place(i) < Place(head) =>
           /\ block[i].max <= Nominal(block[i], override)
           /\ block[i].max <= block[i].junction
           /\ i # tail => block[i].max <= Nominal(block[PrevSlot(i)], override)
  BY RateRead DEF Drive
<1>3. /\ head \in Slots /\ tail \in Slots /\ Place(head) \in Nat /\ PrevSlot(NextSlot(head)) = head
      /\ \A i \in Slots : /\ Place(i) \in Nat /\ PrevSlot(i) \in Slots
                          /\ i # tail => Place(PrevSlot(i)) = Place(i) - 1
                          /\ Place(i) = Place(head) => i = head
  BY Ends
<1>4. /\ Nominal(block'[head], override) = Nominal(New(m), override)
      /\ block'[head].max = New(m).max /\ block'[head].junction = New(m).junction
      /\ \A j \in Slots : j # head =>
           /\ Nominal(block'[j], override) = Nominal(block[j], override)
           /\ block'[j].max = block[j].max /\ block'[j].junction = block[j].junction
  BY <1>1, NominalSame DEF SameMove
<1>5. Nominal(New(m), override) \in Nat /\ previous \in Nat /\ New(m).junction \in Nat
  BY Planned DEF Blocks, Speeds
<1>6. /\ New(m).max <= Nominal(New(m), override) /\ New(m).max <= New(m).junction
      /\ New(m).max <= previous
  <2>. DEFINE a == Nominal(New(m), override)  j == New(m).junction
  <2>1. New(m).max = MaxEntry(Fresh(m), a, previous) /\ Fresh(m).junction = j
    BY Planned DEF Fresh
  <2>2. New(m).max = Least(Least(a, previous), j)
    BY <2>1 DEF MaxEntry
  <2>3. a \in Nat /\ j \in Nat /\ previous \in Nat
    BY <1>5
  <2>. HIDE DEF a, j
  <2>4. New(m).max <= a /\ New(m).max <= j /\ New(m).max <= previous
    BY <2>2, <2>3 DEF Least
  <2>. QED
    BY <2>4 DEF a, j
<1>7. speed <= Nominal(block'[tail], override)
  <2>1. CASE head = tail
    <3>1. speed = 0
      BY <2>1 DEF Drive, SpeedInv, Empty
    <3>. QED
      BY <1>4, <1>5, <2>1, <3>1
  <2>2. CASE head # tail
    BY <1>2, <1>3, <1>4, <2>2
  <2>. QED
    BY <2>1, <2>2
<1>8. previous' = Nominal(block'[PrevSlot(head')], override')
  BY <1>1, <1>3, <1>4
<1>9. ASSUME NEW i \in Slots, Place(i) < Place(head')
      PROVE  /\ block'[i].max <= Nominal(block'[i], override')
             /\ block'[i].max <= block'[i].junction
             /\ i # tail => block'[i].max <= Nominal(block'[PrevSlot(i)], override')
  <2>1. CASE i = head
    <3>1. head # tail => /\ PrevSlot(head) \in Slots /\ PrevSlot(head) # head
                         /\ previous = Nominal(block'[PrevSlot(head)], override)
      BY <1>2, <1>3, <1>4
    <3>. QED
      BY <1>1, <1>4, <1>6, <2>1, <3>1
  <2>2. CASE i # head
    <3>1. Place(i) < Place(head)
      BY <1>1, <1>3, <1>9, <2>2
    <3>2. i # tail => PrevSlot(i) # head /\ PrevSlot(i) \in Slots
      BY <1>3, <3>1
    <3>. QED
      BY <1>1, <1>2, <1>4, <2>2, <3>1, <3>2
  <2>. QED
    BY <2>1, <2>2
<1>. QED
  BY <1>1, <1>7, <1>8, <1>9, RateInPlace

\* Under a raised override no maximum entry speed falls.
LEMMA MaxRises ==
  ASSUME TypeOK, RateInv, job.trend = "raise", NEW o \in job.overrides, Override(o)
  PROVE  /\ o \in Overrides
         /\ \A i \in Slots : Nominal(block[i], override) <= Nominal(block[i], o)
         /\ \A i \in Slots : Place(i) < Place(head) =>
              /\ Rated(o)[i].max <= Nominal(block[i], o)
              /\ Rated(o)[i].max <= block[i].junction
              /\ i # tail => /\ Rated(o)[i].max <= Nominal(block[PrevSlot(i)], o)
                             /\ block[i].max <= Rated(o)[i].max
<1>1. job \in Jobs
  BY DEF TypeOK
<1>2. o \in Overrides /\ override \in Overrides /\ o.feed >= override.feed /\ o.rapid >= override.rapid
      /\ Large \in Nat
  BY <1>1, PlannerAssumption, Fields DEF Override
<1>3. o.feed \in Nat /\ override.feed \in Nat /\ o.rapid \in Nat /\ override.rapid \in Nat
  BY <1>2 DEF Overrides
<1>4. override.feed <= o.feed /\ override.rapid <= o.rapid
  BY <1>2, <1>3
<1>5. ASSUME NEW i \in Slots
      PROVE  /\ Nominal(block[i], override) <= Nominal(block[i], o)
             /\ Nominal(block[i], override) \in Nat /\ Nominal(block[i], o) \in Nat
  <2>1. block[i] \in Blocks
    BY Fields
  <2>. QED
    BY <1>2, <1>4, <2>1, NominalRises, NominalIsSpeed DEF Speeds
<1>6. ASSUME NEW i \in Slots, Place(i) < Place(head)
      PROVE  /\ Rated(o)[i].max <= Nominal(block[i], o)
             /\ Rated(o)[i].max <= block[i].junction
             /\ i # tail => /\ Rated(o)[i].max <= Nominal(block[PrevSlot(i)], o)
                            /\ block[i].max <= Rated(o)[i].max
  <2>. DEFINE a == Nominal(block[i], o)  c == Before(i, o)  j == block[i].junction
              x == Rated(o)[i].max  a0 == Nominal(block[i], override)  y == block[i].max
              c0 == Nominal(block[PrevSlot(i)], override)
  <2>1. Queued(i) /\ PrevSlot(i) \in Slots
    BY <1>6, Ends DEF Queued
  <2>2. x = MaxEntry(block[i], a, c) /\ c \in Speeds
    BY <1>2, <2>1, Rating
  <2>3. x = Least(Least(a, c), j)
    BY <2>2 DEF MaxEntry
  <2>4. a \in Nat /\ c \in Nat /\ j \in Nat /\ y \in Nat /\ a0 \in Nat /\ a0 <= a
    BY <1>5, <2>2, Fields DEF Speeds
  <2>5. y <= a0 /\ y <= j /\ (i # tail => y <= c0)
    BY <1>6, RateRead
  <2>6. i # tail => c = Nominal(block[PrevSlot(i)], o)
    BY DEF Before
  <2>7. i # tail => c0 <= c /\ c0 \in Nat
    BY <1>5, <2>1, <2>6
  <2>. HIDE DEF a, c, j, x, a0, y, c0
  <2>8. x <= a /\ x <= j /\ x <= c
    BY <2>3, <2>4 DEF Least
  <2>9. i # tail => y <= x
    BY <2>3, <2>4, <2>5, <2>7 DEF Least
  <2>. QED
    BY <2>6, <2>8, <2>9 DEF a, c, j, x, y
<1>. QED
  BY <1>2, <1>5, <1>6

\* The whole plan is rated again.
LEMMA RateOverride ==
  ASSUME TypeOK, TypeOK', SweepInv, Drive, job.trend = "raise", NEW o \in job.overrides, Override(o)
  PROVE  RateInv'
<1>1. /\ UNCHANGED <<job, tail, speed>> /\ override' = o /\ previous' = Before(head, o)
  BY DEF Override
<1>2. /\ o \in Overrides
      /\ \A i \in Slots : Nominal(block[i], override) <= Nominal(block[i], o)
      /\ \A i \in Slots : Place(i) < Place(head) =>
           /\ Rated(o)[i].max <= Nominal(block[i], o)
           /\ Rated(o)[i].max <= block[i].junction
           /\ i # tail => Rated(o)[i].max <= Nominal(block[PrevSlot(i)], o)
  BY MaxRises DEF Drive
<1>3. /\ Rated(o) \in [Slots -> Blocks]
      /\ \A i \in Slots :
           /\ Rated(o)[i].rate = block[i].rate /\ Rated(o)[i].cap = block[i].cap
           /\ Rated(o)[i].rapid = block[i].rapid /\ Rated(o)[i].junction = block[i].junction
           /\ Nominal(block[i], o) \in Nat
  BY <1>2, Rating, PlannerAssumption DEF Speeds
<1>4. head' = head /\ \A j \in Slots : SameMove(Rated(o)[j], block'[j])
  BY <1>1, <1>3, OverridePlanned, AgainIs
<1>5. \A j \in Slots : /\ Nominal(block'[j], o) = Nominal(block[j], o)
                       /\ block'[j].max = Rated(o)[j].max
                       /\ block'[j].junction = block[j].junction
  BY <1>3, <1>4, NominalSame DEF SameMove
<1>6. head \in Slots /\ tail \in Slots /\ \A i \in Slots : PrevSlot(i) \in Slots
  BY Ends
<1>7. head # tail => /\ previous' = Nominal(block'[PrevSlot(head)], o)
                     /\ speed <= Nominal(block'[tail], o)
  <2>. SUFFICES ASSUME head # tail
                PROVE  /\ previous' = Nominal(block'[PrevSlot(head)], o)
                       /\ speed <= Nominal(block'[tail], o)
    OBVIOUS
  <2>1. previous' = Nominal(block[PrevSlot(head)], o)
    BY <1>1 DEF Before
  <2>2. speed <= Nominal(block[tail], override)
    BY RateRead DEF Drive
  <2>3. speed \in Nat /\ Nominal(block[tail], override) \in Nat
    BY <1>6, Fields
  <2>. QED
    BY <1>2, <1>3, <1>5, <1>6, <2>1, <2>2, <2>3
<1>8. \A i \in Slots : Place(i) < Place(head) =>
           /\ block'[i].max <= Nominal(block'[i], o)
           /\ block'[i].max <= block'[i].junction
           /\ i # tail => block'[i].max <= Nominal(block'[PrevSlot(i)], o)
  BY <1>2, <1>5, <1>6
<1>. QED
  BY <1>1, <1>4, <1>7, <1>8, RateInPlace

\* What the parts speak of after the block at the tail is done, read in the old ring.
LEMMA Passing ==
  ASSUME TypeOK, TypeOK', job' = job, tail' = NextSlot(tail), head' = head, pass' = "none",
         head # tail
  PROVE  /\ Slots' = Slots
         /\ Empty' <=> head = tail'
         /\ NextEntry' = IF NextSlot(tail') = head THEN 0 ELSE block'[NextSlot(tail')].entry
         /\ PrevSlot(head)' = PrevSlot(head) /\ tail' \in Slots /\ tail' # tail
         /\ Settled(tail)'
         /\ head # tail' => /\ Place(tail') < Place(head) /\ PrevSlot(head) # tail
                            /\ Place(PrevSlot(head)) < Place(head)
         /\ \A i \in Slots :
              /\ Queued(i)' <=> Place(i) < Place(head) /\ i # tail
              /\ i \in Waiting' <=> Place(i) < Place(head) /\ i # tail /\ i # tail'
              /\ LeaveSpeed(i)' = IF NextSlot(i) = head THEN 0 ELSE block'[NextSlot(i)].entry
              /\ Settled(i)'
              /\ Reached(i)' = (IF PrevSlot(i) = tail' THEN speed' ELSE block'[PrevSlot(i)].entry)
                               + block'[PrevSlot(i)].length
              /\ PrevSlot(i)' = PrevSlot(i)
              /\ i # tail' => PrevSlot(i) # tail
              /\ Place(i) < Place(head) /\ NextSlot(i) # head =>
                   NextSlot(i) # tail /\ Place(NextSlot(i)) < Place(head)
<1>1. /\ \A x \in Slots : Place(x)' = IF x = tail THEN job.blocks - 1 ELSE Place(x) - 1
      /\ \A x : NextSlot(x)' = NextSlot(x) /\ PrevSlot(x)' = PrevSlot(x)
      /\ Slots' = Slots /\ tail' \in Slots /\ tail' # tail
      /\ Place(head)' = Place(head) - 1
      /\ Empty' <=> head = tail'
  BY Discarding
<1>2. /\ tail \in Slots /\ head \in Slots /\ job.blocks \in Nat /\ job.blocks > 2
      /\ Place(tail) = 0 /\ PrevSlot(tail') = tail
      /\ \A i \in Slots : /\ Place(i) \in Nat /\ Place(i) < job.blocks
                          /\ Place(i) = 0 <=> i = tail
                          /\ NextSlot(i) \in Slots /\ PrevSlot(i) \in Slots
                          /\ NextSlot(i) = tail \/ Place(NextSlot(i)) = Place(i) + 1
                          /\ NextSlot(i) = tail <=> Place(i) = job.blocks - 1
                          /\ i = tail \/ Place(PrevSlot(i)) = Place(i) - 1
                          /\ PrevSlot(NextSlot(i)) = i /\ NextSlot(PrevSlot(i)) = i
      /\ \A i, j \in Slots : Place(i) = Place(j) => i = j
  BY Ends
<1>3. Place(tail') = 1
  BY <1>1, <1>2
<1>4. head # tail' => /\ Place(tail') < Place(head) /\ PrevSlot(head) # tail
                      /\ Place(PrevSlot(head)) < Place(head)
  <2>. SUFFICES ASSUME head # tail'
                PROVE  /\ 1 < Place(head) /\ PrevSlot(head) # tail
                       /\ Place(PrevSlot(head)) < Place(head)
    BY <1>3
  <2>1. Place(head) # 0 /\ Place(head) # 1
    BY <1>1, <1>2, <1>3
  <2>2. Place(PrevSlot(head)) = Place(head) - 1
    BY <1>2
  <2>. QED
    BY <1>2, <2>1, <2>2
<1>5. ASSUME NEW i \in Slots
      PROVE  /\ Queued(i)' <=> Place(i) < Place(head) /\ i # tail
             /\ i \in Waiting' <=> Place(i) < Place(head) /\ i # tail /\ i # tail'
             /\ i # tail' => PrevSlot(i) # tail
             /\ Place(i) < Place(head) /\ NextSlot(i) # head =>
                  NextSlot(i) # tail /\ Place(NextSlot(i)) < Place(head)
  <2>1. Queued(i)' <=> Place(i)' < Place(head)'
    BY <1>1 DEF Queued
  <2>2. CASE i = tail
    <3>1. ~(Place(i)' < Place(head)')
      BY <1>1, <1>2, <2>2
    <3>2. ~Queued(i)'
      BY <2>1, <3>1
    <3>3. i # tail' => PrevSlot(i) # tail
      BY <1>2, <2>2
    <3>4. Place(i) < Place(head) /\ NextSlot(i) # head =>
            NextSlot(i) # tail /\ Place(NextSlot(i)) < Place(head)
      BY <1>2, <1>3, <1>4, <2>2
    <3>. QED
      BY <2>2, <3>2, <3>3, <3>4 DEF Waiting
  <2>3. CASE i # tail
    <3>1. Place(i)' < Place(head)' <=> Place(i) < Place(head)
      BY <1>1, <1>2, <2>3
    <3>2. i \in Waiting' <=> Place(i) < Place(head) /\ i # tail /\ i # tail'
      BY <1>1, <2>1, <2>3, <3>1 DEF Waiting
    <3>3. i # tail' => PrevSlot(i) # tail
      BY <1>2
    <3>4. Place(i) < Place(head) /\ NextSlot(i) # head =>
            NextSlot(i) # tail /\ Place(NextSlot(i)) < Place(head)
      <4>. SUFFICES ASSUME Place(i) < Place(head), NextSlot(i) # head
                    PROVE  NextSlot(i) # tail /\ Place(NextSlot(i)) < Place(head)
        OBVIOUS
      <4>1. Place(i) # job.blocks - 1
        BY <1>2
      <4>2. NextSlot(i) # tail /\ Place(NextSlot(i)) = Place(i) + 1 /\ NextSlot(i) \in Slots
        BY <1>2, <4>1
      <4>3. Place(NextSlot(i)) # Place(head)
        BY <1>2, <4>2
      <4>. QED
        BY <1>2, <4>2, <4>3
    <3>. QED
      BY <2>1, <2>3, <3>1, <3>2, <3>3, <3>4
  <2>. QED
    BY <2>2, <2>3
<1>6. \A i : /\ Settled(i)'
             /\ LeaveSpeed(i)' = IF NextSlot(i) = head THEN 0 ELSE block'[NextSlot(i)].entry
             /\ Reached(i)' = (IF PrevSlot(i) = tail' THEN speed' ELSE block'[PrevSlot(i)].entry)
                               + block'[PrevSlot(i)].length
  BY <1>1 DEF Settled, LeaveSpeed, Reached
<1>7. Settled(tail)'
  BY DEF Settled
<1>8. NextEntry' = IF NextSlot(tail') = head THEN 0 ELSE block'[NextSlot(tail')].entry
  BY DEF NextEntry, NextSlot
<1>9. PrevSlot(head)' = PrevSlot(head)
  BY DEF PrevSlot
<1>. QED
  BY <1>1, <1>4, <1>5, <1>6, <1>7, <1>8, <1>9

\* A segment, in sum.
LEMMA SegmentIs ==
  ASSUME TypeOK, SweepInv, Drive, NEW part \in 0 .. block[tail].length, PrepSegment(part), NEW rest,
         rest = block[tail].length - part - Ramp.stop
  PROVE  /\ UNCHANGED <<job, head, previous, override, pass, index, mode>>
         /\ pass = "none" /\ head # tail /\ mode \in {"cycle", "hold"}
         /\ part \in Nat /\ rest \in Nat /\ stop' \in Nat /\ exit' \in Nat /\ speed' \in Nat
         /\ \A j \in Slots : j # tail => block'[j] = block[j]
         /\ \A j \in Slots : /\ Nominal(block'[j], override) = Nominal(block[j], override)
                             /\ block'[j].max = block[j].max
                             /\ block'[j].junction = block[j].junction
         /\ block'[tail].length = rest + stop'
         /\ block[tail].length = part + rest + stop'
         /\ rest = 0 /\ stop' = 0 => tail' = NextSlot(tail) /\ ~loaded' /\ ~endMotion'
         /\ rest = 0 /\ stop' = 0 => planned' = IF planned = tail THEN NextSlot(tail) ELSE planned
         /\ ~(rest = 0 /\ stop' = 0) => tail' = tail /\ planned' = planned /\ loaded'
<1>1. /\ rest \in Nat /\ part \in Nat /\ exit' \in Nat /\ stop' \in Nat /\ speed' \in Nat
      /\ \A j \in Slots : j # tail => block'[j] = block[j]
      /\ block'[tail].rate = block[tail].rate /\ block'[tail].cap = block[tail].cap
      /\ block'[tail].rapid = block[tail].rapid /\ block'[tail].max = block[tail].max
      /\ block'[tail].junction = block[tail].junction
      /\ block'[tail].length = block[tail].length - part
      /\ loaded' = (rest > 0 \/ stop' > 0) /\ endMotion' = (rest = 0 /\ stop' > 0)
      /\ tail' = IF rest = 0 /\ stop' = 0 THEN NextSlot(tail) ELSE tail
      /\ planned' = IF rest = 0 /\ stop' = 0 /\ planned = tail THEN NextSlot(tail) ELSE planned
  BY Segmented
<1>2. /\ UNCHANGED <<job, head, previous, override, pass, index, mode>>
      /\ pass = "none" /\ head # tail /\ mode \in {"cycle", "hold"}
  BY DEF PrepSegment, loop, Ready, Empty
<1>3. rest + stop' = block[tail].length - part
  BY Driven
<1>4. tail \in Slots /\ block[tail].length \in Nat
  BY Starting
<1>5. rest = 0 /\ stop' = 0 => ~loaded' /\ ~endMotion'
  <2>1. rest = 0 /\ stop' = 0 => ~(rest > 0 \/ stop' > 0) /\ ~(rest = 0 /\ stop' > 0)
    BY <1>1
  <2>. QED
    BY <1>1, <2>1, Zenon
<1>6. ~(rest = 0 /\ stop' = 0) => loaded'
  <2>1. ~(rest = 0 /\ stop' = 0) => rest > 0 \/ stop' > 0
    BY <1>1
  <2>. QED
    BY <1>1, <2>1, Zenon
<1>7. \A j \in Slots : /\ Nominal(block'[j], override) = Nominal(block[j], override)
                       /\ block'[j].max = block[j].max
                       /\ block'[j].junction = block[j].junction
  BY <1>1, <1>4, NominalSame
<1>8. block'[tail].length = rest + stop' /\ block[tail].length = part + rest + stop'
  BY <1>1, <1>3, <1>4
<1>. QED
  BY <1>1, <1>2, <1>5, <1>6, <1>7, <1>8

\* The rates along a segment.
LEMMA RateSegment ==
  ASSUME TypeOK, TypeOK', SweepInv, Drive, NEW part \in 0 .. block[tail].length, PrepSegment(part)
  PROVE  RateInv'
<1>. DEFINE rest == block[tail].length - part - Ramp.stop
<1>1. /\ UNCHANGED <<job, head, previous, override, pass>>
      /\ pass = "none" /\ head # tail
      /\ \A j \in Slots : j # tail => block'[j] = block[j]
      /\ \A j \in Slots : /\ Nominal(block'[j], override) = Nominal(block[j], override)
                          /\ block'[j].max = block[j].max
                          /\ block'[j].junction = block[j].junction
      /\ rest = 0 /\ stop' = 0 => tail' = NextSlot(tail)
      /\ ~(rest = 0 /\ stop' = 0) => tail' = tail
  BY SegmentIs
<1>2. /\ speed' <= Nominal(block[tail], override)
      /\ rest = 0 => speed' = exit'
      /\ exit' <= NextEntry
  BY Driven
<1>3. /\ previous = Nominal(block[PrevSlot(head)], override)
      /\ \A i \in Slots : Place(i) < Place(head) =>
           /\ block[i].max <= Nominal(block[i], override)
           /\ block[i].max <= block[i].junction
           /\ i # tail => block[i].max <= Nominal(block[PrevSlot(i)], override)
  BY <1>1, RateRead DEF Drive
<1>4. head \in Slots /\ tail \in Slots /\ \A i \in Slots : PrevSlot(i) \in Slots
  BY Ends
<1>. HIDE DEF rest
<1>5. CASE ~(rest = 0 /\ stop' = 0)
  BY <1>1, <1>2, <1>3, <1>4, <1>5, RateInPlace
<1>6. CASE rest = 0 /\ stop' = 0
  <2>1. /\ Slots' = Slots
        /\ Empty' <=> head = tail'
        /\ PrevSlot(head)' = PrevSlot(head) /\ tail' \in Slots /\ tail' # tail
        /\ head # tail' => /\ Place(tail') < Place(head) /\ PrevSlot(head) # tail
        /\ \A i \in Slots :
             /\ Queued(i)' <=> Place(i) < Place(head) /\ i # tail
             /\ i \in Waiting' <=> Place(i) < Place(head) /\ i # tail /\ i # tail'
             /\ PrevSlot(i)' = PrevSlot(i)
             /\ i # tail' => PrevSlot(i) # tail
    BY <1>1, <1>6, Passing
  <2>2. Waiting' \subseteq Slots
    BY <2>1 DEF Waiting
  <2>3. ~Empty' => (previous = Nominal(block[PrevSlot(head)], override))'
    BY <1>1, <1>3, <1>4, <2>1
  <2>4. ~Empty' => (speed <= Nominal(block[tail], override))'
    <3>. SUFFICES ASSUME head # tail'
                  PROVE  speed' <= Nominal(block'[tail'], override)
      BY <1>1, <2>1
    <3>. DEFINE n == tail'  a == Nominal(block[n], override)  e == block[n].entry  x == block[n].max
    <3>1. n \in Slots /\ n # tail /\ n = NextSlot(tail) /\ Place(n) < Place(head)
      BY <1>1, <1>6, <2>1
    <3>2. block'[n] = block[n]
      BY <1>1, <3>1
    <3>. HIDE DEF n
    <3>3. n \in Waiting
      BY <3>1, Reading
    <3>4. e <= x
      BY <3>3 DEF Drive, BrakeInv
    <3>5. x <= a
      BY <1>3, <3>1
    <3>6. NextEntry = e
      BY <3>1 DEF NextEntry, n
    <3>7. e \in Nat /\ x \in Nat /\ a \in Nat
      BY <3>1, Fields
    <3>8. speed' <= e /\ speed' \in Nat
      BY <1>2, <1>6, <3>6 DEF TypeOK, Speeds
    <3>. HIDE DEF a, e, x
    <3>9. speed' <= a
      BY <3>4, <3>5, <3>7, <3>8
    <3>. QED
      BY <3>2, <3>9 DEF a, n
  <2>5. \A i \in Slots : Queued(i)' => (block[i].max <= Nominal(block[i], override))'
    BY <1>1, <1>3, <2>1
  <2>6. \A i \in Slots : Queued(i)' => (block[i].max <= block[i].junction)'
    BY <1>1, <1>3, <2>1
  <2>7. \A i \in Waiting' : (block[i].max <= Nominal(block[PrevSlot(i)], override))'
    BY <1>1, <1>3, <1>4, <2>1, <2>2
  <2>. QED
    BY <2>1, <2>3, <2>4, <2>5, <2>6, <2>7 DEF RateInv
<1>. QED
  BY <1>5, <1>6

\* After a reset or a jog cancelled nothing is planned.
LEMMA Flushed ==
  ASSUME TypeOK', JogCancelled \/ Reset
  PROVE  Empty' /\ Waiting' = {} /\ (\A i \in Slots' : ~Queued(i)') /\ ~Queued(planned)'
<1>1. tail' = 0 /\ head' = 0 /\ job' = job /\ job' \in Jobs
  BY DEF JogCancelled, Reset, Flush, TypeOK
<1>2. Place(head)' = 0
  BY <1>1 DEF Place
<1>3. ASSUME NEW i \in Slots'
      PROVE  ~(Place(i)' < 0)
  <2>1. job'.blocks \in Nat /\ job'.blocks > 2
    BY <1>1, PlannerAssumption
  <2>. QED
    BY <1>1, <2>1 DEF Place, Slots
<1>4. \A i \in Slots' : ~Queued(i)'
  BY <1>2, <1>3 DEF Queued
<1>5. ~Queued(planned)'
  BY <1>4 DEF TypeOK
<1>. QED
  BY <1>1, <1>4, <1>5 DEF Waiting, Empty

\* Every step keeps the rates.
LEMMA RateStep ==
  ASSUME TypeOK, SweepInv, Drive, job.trend = "raise", Next
  PROVE  RateInv'
<1>1. TypeOK'
  BY TypeStep
<1>2. CASE \E m \in job.moves : PlanLine(m)
  BY <1>1, <1>2, RateLine
<1>3. CASE PlanNothing \/ CycleStart \/ FeedHold \/ CycleDone \/ ProgramEnd
  <2>1. SameMoves
    BY <1>3, Idly DEF SameEntries
  <2>2. override' = override \/ Empty
    BY <1>3 DEF PlanNothing, CycleStart, FeedHold, CycleDone, ProgramEnd
  <2>. QED
    BY <1>1, <2>1, <2>2, RateSame DEF Drive
<1>4. CASE Reverse \/ Forward \/ ForwardDone
  BY <1>1, <1>4, Sweeping, RateSame DEF Drive
<1>5. CASE \E o \in job.overrides : Override(o)
  BY <1>1, <1>5, RateOverride
<1>6. CASE \E part \in 0 .. block[tail].length : PrepSegment(part)
  BY <1>1, <1>6, RateSegment
<1>7. CASE HoldDone
  <2>1. /\ UNCHANGED <<job, tail, previous, override, speed>> /\ Recalculate(block, head, tail, TRUE)
    BY <1>7 DEF HoldDone, Reinitialize
  <2>2. block \in [Slots -> Blocks]
    BY DEF TypeOK, Blocks
  <2>3. head' = head /\ \A j \in Slots : SameMove(block[j], block'[j])
    BY <2>1, <2>2, AgainIs
  <2>. QED
    BY <1>1, <2>1, <2>3, RateSame DEF Drive, SameMoves
<1>8. CASE JogCancelled \/ Reset
  BY <1>1, <1>8, Flushed DEF RateInv
<1>. QED
  BY <1>2, <1>3, <1>4, <1>5, <1>6, <1>7, <1>8 DEF Next

-----------------------------------------------------------------------------
(* Speeds of the machine *)

\* The speeds, read.
LEMMA SpeedRead ==
  ASSUME SpeedInv
  PROVE  /\ ~forced
         /\ head = tail => speed = 0
         /\ ~loaded /\ ~recalc => exit = speed
         /\ ~loaded /\ head # tail => \/ block[tail].entry = speed
                                      \/ mode = "hold" /\ ~recalc /\ block[tail].entry > speed
         /\ loaded /\ mode = "cycle" => stop = 0
         /\ loaded /\ mode = "hold" => /\ speed + stop = exit + block[tail].length
                                       /\ exit = 0 \/ stop = 0
         /\ endMotion => loaded \/ recalc
  BY DEF SpeedInv, Empty

\* A new move leaves the speeds in order.
LEMMA SpeedLine ==
  ASSUME TypeOK, TypeOK', SweepInv, Drive, NEW m \in job.moves, PlanLine(m)
  PROVE  SpeedInv'
<1>1. /\ UNCHANGED <<job, tail, mode, endMotion, forced, speed, exit, stop>>
      /\ head' = NextSlot(head) /\ head' # tail
      /\ block'[head].entry = IF planned = head THEN 0 ELSE Stoppable(New(m))
      /\ \A j \in Slots : j # head =>
           /\ SameMove(block[j], block'[j])
           /\ block'[j].entry = IF loaded /\ ~loaded' /\ j = tail THEN speed ELSE block[j].entry
      /\ loaded' => loaded
      /\ recalc' => recalc \/ (loaded /\ ~loaded')
      /\ recalc => recalc'
      /\ loaded /\ ~loaded' => recalc'
  BY LineIs
<1>2. /\ ~forced
      /\ head = tail => speed = 0
      /\ ~loaded /\ ~recalc => exit = speed
      /\ ~loaded /\ head # tail => \/ block[tail].entry = speed
                                   \/ mode = "hold" /\ ~recalc /\ block[tail].entry > speed
      /\ loaded /\ mode = "cycle" => stop = 0
      /\ loaded /\ mode = "hold" => /\ speed + stop = exit + block[tail].length
                                    /\ exit = 0 \/ stop = 0
      /\ endMotion => loaded \/ recalc
  BY SpeedRead DEF Drive
<1>3. tail \in Slots /\ head \in Slots
  BY Ends
<1>4. loaded => head # tail
  <2>1. loaded => Within(planned, head)
    BY SweepRead
  <2>. QED
    BY <2>1, Ends DEF Within
<1>5. head = tail => block'[tail].entry = 0
  <2>. SUFFICES ASSUME Empty
                PROVE  Stoppable(New(m)) = 0
    BY <1>1 DEF Empty
  <2>1. New(m).max = MaxEntry(Fresh(m), Nominal(Fresh(m), override), previous) /\ Fresh(m).junction = 0
    BY Planned DEF Fresh
  <2>2. Nominal(Fresh(m), override) \in Nat /\ previous \in Nat /\ New(m).length \in Nat
    BY Planned DEF Speeds, Blocks
  <2>3. New(m).max = 0
    BY <2>1, <2>2 DEF MaxEntry, Least
  <2>. QED
    BY <2>2, <2>3 DEF Stoppable, Least
<1>6. ~loaded' => \/ block'[tail].entry = speed
                  \/ mode = "hold" /\ ~recalc' /\ block'[tail].entry > speed
  <2>. SUFFICES ASSUME ~loaded'
                PROVE  \/ block'[tail].entry = speed
                       \/ mode = "hold" /\ ~recalc' /\ block'[tail].entry > speed
    OBVIOUS
  <2>1. CASE head = tail
    BY <1>2, <1>5, <2>1
  <2>2. CASE head # tail /\ loaded
    BY <1>1, <1>3, <2>2
  <2>3. CASE head # tail /\ ~loaded
    BY <1>1, <1>2, <1>3, <2>3
  <2>. QED
    BY <2>1, <2>2, <2>3
<1>7. loaded' /\ mode = "hold" => /\ speed + stop = exit + block'[tail].length
                                  /\ exit = 0 \/ stop = 0
  BY <1>1, <1>2, <1>3, <1>4 DEF SameMove
<1>8. ~loaded' /\ ~recalc' => exit = speed
  BY <1>1, <1>2
<1>9. /\ loaded' /\ mode = "cycle" => stop = 0
      /\ endMotion => loaded' \/ recalc'
  BY <1>1, <1>2
<1>. QED
  BY <1>1, <1>2, <1>6, <1>7, <1>8, <1>9 DEF SpeedInv, Empty

\* So does planning everything again.
LEMMA SpeedAgain ==
  ASSUME TypeOK, TypeOK', SweepInv, Drive, NEW b \in [Slots -> Blocks], Recalculate(b, head, tail, TRUE),
         UNCHANGED <<job, tail, endMotion, forced, speed, exit, stop>>,
         b[tail].entry = block[tail].entry,
         \/ mode' = mode
         \/ mode' = "held" /\ (Empty \/ endMotion)
  PROVE  SpeedInv'
<1>1. /\ head' = head
      /\ ~loaded'
      /\ loaded => recalc'
      /\ recalc => recalc'
      /\ recalc' => recalc \/ loaded
      /\ \A j \in Slots :
           /\ block'[j].entry = IF j = PrevSlot(head) /\ j # tail THEN Stoppable(b[j])
                                ELSE IF loaded /\ j = tail THEN speed
                                ELSE b[j].entry
  BY AgainIs
<1>2. /\ ~forced
      /\ head = tail => speed = 0
      /\ ~loaded /\ ~recalc => exit = speed
      /\ ~loaded /\ head # tail => \/ block[tail].entry = speed
                                   \/ mode = "hold" /\ ~recalc /\ block[tail].entry > speed
      /\ endMotion => loaded \/ recalc
  BY SpeedRead DEF Drive
<1>3. block'[tail].entry = IF loaded THEN speed ELSE block[tail].entry
  BY <1>1, Ends
<1>4. head # tail => \/ block'[tail].entry = speed
                     \/ mode' = "hold" /\ ~recalc' /\ block'[tail].entry > speed
  BY <1>1, <1>2, <1>3 DEF Empty
<1>. QED
  BY <1>1, <1>2, <1>4 DEF SpeedInv, Empty

\* And the turns of the passes.
LEMMA SpeedSweep ==
  ASSUME TypeOK, TypeOK', SweepInv, Drive, Reverse \/ Forward \/ ForwardDone
  PROVE  SpeedInv'
<1>1. /\ ~forced
      /\ head = tail => speed = 0
      /\ ~loaded /\ ~recalc => exit = speed
      /\ ~loaded /\ head # tail => \/ block[tail].entry = speed
                                   \/ mode = "hold" /\ ~recalc /\ block[tail].entry > speed
      /\ loaded /\ mode = "cycle" => stop = 0
      /\ loaded /\ mode = "hold" => /\ speed + stop = exit + block[tail].length
                                    /\ exit = 0 \/ stop = 0
      /\ endMotion => loaded \/ recalc
  BY SpeedRead DEF Drive
<1>2. /\ tail \in Slots /\ index \in Slots /\ planned \in Slots
      /\ Place(tail) = 0 /\ \A i \in Slots : Place(i) \in Nat
  BY Ends
<1>3. CASE Reverse
  <2>1. UNCHANGED <<job, tail, head, mode, endMotion, forced, speed, exit, stop>> /\ pass = "reverse"
    BY <1>3 DEF Reverse
  <2>. DEFINE i == PrevSlot(index)
  <2>2. /\ loaded' = (loaded /\ i # tail) /\ recalc' = (recalc \/ (loaded /\ i = tail))
        /\ \A j \in Slots :
             /\ SameMove(block[j], block'[j])
             /\ j # index => block'[j].entry = IF i = tail /\ loaded /\ j = tail THEN speed
                                               ELSE block[j].entry
    BY <1>3, Reversed
  <2>3. index # tail
    <3>1. Place(planned) < Place(index)
      BY <2>1, SweepRead
    <3>. QED
      BY <1>2, <3>1
  <2>4. /\ block'[tail].length = block[tail].length
        /\ block'[tail].entry = IF i = tail /\ loaded THEN speed ELSE block[tail].entry
    BY <1>2, <2>2, <2>3 DEF SameMove
  <2>5. /\ loaded' => loaded /\ i # tail
        /\ loaded /\ i # tail => loaded'
        /\ recalc' => recalc \/ (loaded /\ i = tail)
        /\ recalc => recalc'
        /\ loaded /\ i = tail => recalc'
    BY <2>2, Fields
  <2>. HIDE DEF i
  <2>. QED
    BY <1>1, <2>1, <2>4, <2>5 DEF SpeedInv, Empty
<1>4. CASE Forward
  <2>1. /\ UNCHANGED <<job, tail, head, mode, endMotion, loaded, recalc, forced, speed, exit, stop>>
        /\ pass = "forward"
    BY <1>4 DEF Forward, prep
  <2>. DEFINE cur == block[PrevSlot(index)]
  <2>2. /\ PrevSlot(index) \in Slots
        /\ \A j \in Slots : /\ SameMove(block[j], block'[j])
                            /\ j # index => block'[j] = block[j]
        /\ block'[index].entry = IF Accelerated(cur, block[index]) THEN cur.entry + cur.length
                                 ELSE block[index].entry
    BY <1>4, Forwarded
  <2>3. block'[tail].length = block[tail].length
    BY <1>2, <2>2 DEF SameMove
  <2>4. head # tail => block'[tail].entry = block[tail].entry
    <3>. SUFFICES ASSUME head # tail, index = tail
                  PROVE  ~Accelerated(cur, block[index])
      BY <1>2, <2>2
    <3>1. ~Within(planned, head) \/ Place(planned) < Place(index)
      BY <2>1, SweepRead
    <3>2. ~Within(planned, head)
      BY <1>2, <3>1
    <3>3. block[tail].entry = 0
      BY <3>2, SweepRead
    <3>4. cur.entry \in Nat
      BY <2>2, Fields
    <3>. QED
      BY <3>3, <3>4 DEF Accelerated
  <2>. QED
    BY <1>1, <2>1, <2>3, <2>4 DEF SpeedInv, Empty
<1>5. CASE ForwardDone
  BY <1>1, <1>5 DEF ForwardDone, ring, prep, SpeedInv, Empty
<1>. QED
  BY <1>3, <1>4, <1>5

\* And a segment, at the end of a block too.
LEMMA SpeedSegment ==
  ASSUME TypeOK, TypeOK', SweepInv, Drive, NEW part \in 0 .. block[tail].length, PrepSegment(part)
  PROVE  SpeedInv'
<1>. DEFINE rest == block[tail].length - part - Ramp.stop
<1>1. /\ UNCHANGED <<job, head, mode>>
      /\ head # tail /\ mode \in {"cycle", "hold"}
      /\ part \in Nat /\ rest \in Nat /\ stop' \in Nat /\ exit' \in Nat /\ speed' \in Nat
      /\ \A j \in Slots : j # tail => block'[j] = block[j]
      /\ block'[tail].length = rest + stop'
      /\ rest = 0 /\ stop' = 0 => tail' = NextSlot(tail) /\ ~loaded' /\ ~endMotion'
      /\ ~(rest = 0 /\ stop' = 0) => tail' = tail /\ loaded'
  BY SegmentIs
<1>2. /\ ~forced' /\ ~recalc'
      /\ rest = 0 => speed' = exit'
      /\ speed' = exit' + rest \/ mode = "cycle"
      /\ exit' <= NextEntry
      /\ mode = "cycle" => stop' = 0 /\ exit' = NextEntry
      /\ mode = "hold" => exit' = 0 \/ stop' = 0
  BY Driven
<1>3. tail \in Slots /\ NextSlot(tail) \in Slots /\ NextSlot(tail) # tail /\ NextEntry \in Nat
  BY Starting, Turning DEF TypeOK
<1>. HIDE DEF rest
<1>4. CASE ~(rest = 0 /\ stop' = 0)
  <2>1. mode = "hold" => speed' + stop' = exit' + block'[tail].length
    BY <1>1, <1>2
  <2>. QED
    BY <1>1, <1>2, <1>4, <2>1 DEF SpeedInv, Empty
<1>5. CASE rest = 0 /\ stop' = 0
  <2>1. NextEntry = IF tail' = head THEN 0 ELSE block'[tail'].entry
    BY <1>1, <1>3, <1>5 DEF NextEntry
  <2>2. tail' = head => speed' = 0
    BY <1>1, <1>2, <1>5, <2>1
  <2>3. tail' # head => \/ block'[tail'].entry = speed'
                        \/ mode = "hold" /\ block'[tail'].entry > speed'
    BY <1>1, <1>2, <1>3, <1>5, <2>1
  <2>. QED
    BY <1>1, <1>2, <1>5, <2>2, <2>3 DEF SpeedInv, Empty
<1>. QED
  BY <1>4, <1>5

\* Every step leaves the speeds in order.
LEMMA SpeedStep ==
  ASSUME TypeOK, SweepInv, Drive, job.trend = "raise", Next
  PROVE  SpeedInv'
<1>0. TypeOK'
  BY TypeStep
<1>1. /\ ~forced
      /\ head = tail => speed = 0
      /\ ~loaded /\ ~recalc => exit = speed
      /\ ~loaded /\ head # tail => \/ block[tail].entry = speed
                                   \/ mode = "hold" /\ ~recalc /\ block[tail].entry > speed
      /\ loaded /\ mode = "cycle" => stop = 0
      /\ loaded /\ mode = "hold" => /\ speed + stop = exit + block[tail].length
                                    /\ exit = 0 \/ stop = 0
      /\ endMotion => loaded \/ recalc
  BY SpeedRead DEF Drive
<1>2. /\ loaded => ~recalc /\ mode \in {"cycle", "hold"} /\ head # tail
      /\ tail \in Slots /\ head \in Slots /\ block \in [Slots -> Blocks]
  <2>1. loaded => Within(planned, head)
    BY SweepRead
  <2>2. loaded => head # tail
    BY <2>1, Ends DEF Within
  <2>. QED
    BY <2>2, SweepRead DEF TypeOK, Blocks
<1>3. CASE \E m \in job.moves : PlanLine(m)
  BY <1>0, <1>3, SpeedLine
<1>4. CASE PlanNothing
  <2>1. UNCHANGED <<job, tail, head, mode, endMotion, loaded, recalc, forced, speed, exit, stop>>
    BY <1>4 DEF PlanNothing, prep
  <2>2. \A j \in Slots : j # head => block'[j] = block[j]
    BY <1>2, <1>4 DEF PlanNothing
  <2>. QED
    BY <1>1, <1>2, <2>1, <2>2 DEF SpeedInv, Empty
<1>5. CASE Reverse \/ Forward \/ ForwardDone
  BY <1>0, <1>5, SpeedSweep
<1>6. CASE \E o \in job.overrides : Override(o)
  <2>. SUFFICES ASSUME NEW o \in job.overrides, Override(o)
                PROVE  SpeedInv'
    BY <1>6
  <2>1. UNCHANGED <<job, tail, mode, endMotion, forced, speed, exit, stop>>
    BY DEF Override
  <2>2. Rated(o) \in [Slots -> Blocks] /\ Rated(o)[tail].entry = block[tail].entry
    BY <1>2, MaxRises, Rating, PlannerAssumption DEF Drive
  <2>3. Recalculate(Rated(o), head, tail, TRUE)
    BY OverridePlanned
  <2>. QED
    BY <1>0, <2>1, <2>2, <2>3, SpeedAgain
<1>7. CASE \E part \in 0 .. block[tail].length : PrepSegment(part)
  BY <1>0, <1>7, SpeedSegment
<1>8. CASE CycleStart
  BY <1>1, <1>2, <1>8 DEF CycleStart, ring, prep, SpeedInv, Empty
<1>9. CASE FeedHold
  <2>1. /\ UNCHANGED <<job, tail, head, endMotion, forced, speed, exit, stop>>
        /\ mode \in {"idle", "cycle"}
    BY <1>9 DEF FeedHold
  <2>2. CASE loaded
    <3>1. block' = Unload(block) /\ ~loaded' /\ recalc'
      BY <1>2, <1>9, <2>1, <2>2 DEF FeedHold, Unloading
    <3>2. block'[tail].entry = speed
      BY <1>2, <2>2, <3>1, Unloaded, Fields DEF Speeds
    <3>. QED
      BY <1>1, <1>2, <2>1, <2>2, <3>1, <3>2 DEF SpeedInv, Empty
  <2>3. CASE ~loaded
    <3>1. block' = block /\ ~loaded' /\ recalc' = recalc
      BY <1>2, <1>9, <2>1, <2>3 DEF FeedHold, Unloading, Unload
    <3>. QED
      BY <1>1, <1>2, <2>1, <2>3, <3>1 DEF SpeedInv, Empty
  <2>. QED
    BY <2>2, <2>3
<1>10. CASE CycleDone
  BY <1>1, <1>2, <1>10 DEF CycleDone, ring, prep, SpeedInv, Empty
<1>11. CASE HoldDone
  <2>1. /\ Recalculate(block, head, tail, TRUE) /\ mode' = "held" /\ (Empty \/ endMotion)
        /\ UNCHANGED <<job, tail, endMotion, forced, speed, exit, stop>>
    BY <1>11 DEF HoldDone, Reinitialize
  <2>. QED
    BY <1>0, <1>2, <2>1, SpeedAgain
<1>12. CASE JogCancelled \/ Reset
  BY <1>12 DEF JogCancelled, Reset, Flush, SpeedInv, Empty
<1>13. CASE ProgramEnd
  BY <1>1, <1>2, <1>13 DEF ProgramEnd, ring, prep, SpeedInv, Empty
<1>. QED
  BY <1>3, <1>4, <1>5, <1>6, <1>7, <1>8, <1>9, <1>10, <1>11, <1>12, <1>13 DEF Next

-----------------------------------------------------------------------------
(* Braking *)

\* The slot after one in the plan, and that before.
LEMMA Following ==
  ASSUME TypeOK
  PROVE  /\ head \in Slots /\ tail \in Slots /\ Place(tail) = 0 /\ Place(head) \in Nat
         /\ head # tail <=> Place(tail) < Place(head)
         /\ \A i \in Slots : Place(i) \in Nat
         /\ \A i \in Slots : Place(i) < Place(head) =>
              /\ NextSlot(i) \in Slots /\ NextSlot(i) # tail /\ NextSlot(i) # i
              /\ Place(NextSlot(i)) = Place(i) + 1
              /\ NextSlot(i) # head <=> Place(NextSlot(i)) < Place(head)
              /\ i # tail <=> Place(i) > 0
              /\ i # tail => /\ PrevSlot(i) \in Slots /\ NextSlot(PrevSlot(i)) = i
                             /\ Place(PrevSlot(i)) = Place(i) - 1 /\ Place(PrevSlot(i)) < Place(head)
         /\ \A i, j \in Slots : Place(i) = Place(j) => i = j
<1>1. /\ head \in Slots /\ tail \in Slots /\ Place(tail) = 0 /\ job.blocks \in Nat /\ job.blocks > 2
      /\ \A i \in Slots : /\ Place(i) \in Nat /\ Place(i) < job.blocks
                          /\ Place(i) = 0 <=> i = tail
                          /\ NextSlot(i) \in Slots /\ PrevSlot(i) \in Slots
                          /\ NextSlot(i) = tail \/ Place(NextSlot(i)) = Place(i) + 1
                          /\ NextSlot(i) = tail <=> Place(i) = job.blocks - 1
                          /\ i = tail \/ Place(PrevSlot(i)) = Place(i) - 1
                          /\ PrevSlot(NextSlot(i)) = i /\ NextSlot(PrevSlot(i)) = i
      /\ \A i, j \in Slots : Place(i) = Place(j) => i = j
  BY Ends
<1>2. ASSUME NEW i \in Slots, Place(i) < Place(head)
      PROVE  /\ NextSlot(i) \in Slots /\ NextSlot(i) # tail /\ NextSlot(i) # i
             /\ Place(NextSlot(i)) = Place(i) + 1
             /\ NextSlot(i) # head <=> Place(NextSlot(i)) < Place(head)
             /\ i # tail <=> Place(i) > 0
             /\ i # tail => /\ PrevSlot(i) \in Slots /\ NextSlot(PrevSlot(i)) = i
                            /\ Place(PrevSlot(i)) = Place(i) - 1 /\ Place(PrevSlot(i)) < Place(head)
  <2>1. Place(i) # job.blocks - 1
    BY <1>1, <1>2
  <2>2. NextSlot(i) \in Slots /\ NextSlot(i) # tail /\ Place(NextSlot(i)) = Place(i) + 1
    BY <1>1, <2>1
  <2>3. NextSlot(i) # head <=> Place(NextSlot(i)) < Place(head)
    BY <1>1, <1>2, <2>2
  <2>4. i # tail <=> Place(i) > 0
    BY <1>1
  <2>5. i # tail => /\ PrevSlot(i) \in Slots /\ NextSlot(PrevSlot(i)) = i
                    /\ Place(PrevSlot(i)) = Place(i) - 1 /\ Place(PrevSlot(i)) < Place(head)
    BY <1>1, <1>2
  <2>. QED
    BY <1>1, <2>2, <2>3, <2>4, <2>5
<1>. QED
  BY <1>1, <1>2

\* Braking, read in terms of places.
LEMMA BrakeRead ==
  ASSUME TypeOK, BrakeInv
  PROVE  /\ \A i \in Slots : Place(i) < Place(head) /\ i # tail =>
              /\ block[i].entry <= block[i].max
              /\ block[i].entry <= LeaveSpeed(i) + block[i].length
         /\ head # tail => speed <= NextEntry + block[tail].length
<1>1. /\ Empty <=> head = tail
      /\ \A i \in Slots : i \in Waiting <=> Place(i) < Place(head) /\ i # tail
  BY Reading
<1>. QED
  BY <1>1 DEF BrakeInv

\* After a step that leaves the tail.
LEMMA BrakeInPlace ==
  ASSUME TypeOK', job' = job, tail' = tail,
         \A i \in Slots : Place(i) < Place(head') /\ i # tail =>
           /\ block'[i].entry <= block'[i].max
           /\ block'[i].entry <= (IF NextSlot(i) = head' THEN 0 ELSE block'[NextSlot(i)].entry)
                                 + block'[i].length,
         head' # tail =>
           speed' <= (IF NextSlot(tail) = head' THEN 0 ELSE block'[NextSlot(tail)].entry)
                     + block'[tail].length
  PROVE  BrakeInv'
<1>1. /\ Slots' = Slots /\ (Empty' <=> head' = tail)
      /\ NextEntry' = IF NextSlot(tail) = head' THEN 0 ELSE block'[NextSlot(tail)].entry
      /\ \A i \in Slots :
           /\ i \in Waiting' <=> Place(i) < Place(head') /\ i # tail
           /\ LeaveSpeed(i)' = IF NextSlot(i) = head' THEN 0 ELSE block'[NextSlot(i)].entry
  BY InPlace
<1>2. Waiting' \subseteq Slots
  BY <1>1 DEF Waiting
<1>3. \A i \in Waiting' : /\ (block[i].entry <= block[i].max)'
                          /\ (block[i].entry <= LeaveSpeed(i) + block[i].length)'
  BY <1>1, <1>2
<1>4. ~Empty' => (speed <= NextEntry + block[tail].length)'
  BY <1>1
<1>. QED
  BY <1>3, <1>4 DEF BrakeInv

\* Where entry speeds only rise, and no higher than what can be braked, all can brake.
LEMMA BrakeGrows ==
  ASSUME TypeOK, TypeOK', BrakeInv, UNCHANGED <<job, tail, head, speed>>,
         \A i \in Slots : Place(i) < Place(head) => block'[i].length = block[i].length,
         \A i \in Slots : Place(i) < Place(head) /\ i # tail =>
           /\ block[i].entry <= block'[i].entry /\ block'[i].entry <= block'[i].max
           /\ \/ block'[i].entry = block[i].entry
              \/ block'[i].entry <= LeaveSpeed(i) + block[i].length
  PROVE  BrakeInv'
<1>1. /\ \A i \in Slots : Place(i) < Place(head) /\ i # tail =>
           block[i].entry <= LeaveSpeed(i) + block[i].length
      /\ head # tail => speed <= NextEntry + block[tail].length
  BY BrakeRead
<1>2. /\ NextEntry = LeaveSpeed(tail)
      /\ \A i : LeaveSpeed(i) = IF NextSlot(i) = head THEN 0 ELSE block[NextSlot(i)].entry
  BY DEF NextEntry, LeaveSpeed
<1>3. /\ head \in Slots /\ tail \in Slots
      /\ head # tail <=> Place(tail) < Place(head)
      /\ \A i \in Slots : Place(i) < Place(head) =>
           /\ NextSlot(i) \in Slots /\ NextSlot(i) # tail
           /\ NextSlot(i) # head <=> Place(NextSlot(i)) < Place(head)
  BY Following
<1>4. \A i \in Slots : block[i].entry \in Nat /\ block[i].length \in Nat
  BY Fields
<1>5. \A i \in Slots : block'[i].entry \in Nat /\ block'[i].length \in Nat
  BY DEF TypeOK, Slots, Speeds
<1>6. ASSUME NEW i \in Slots, Place(i) < Place(head)
      PROVE  /\ LeaveSpeed(i) \in Nat
             /\ LeaveSpeed(i) <= IF NextSlot(i) = head THEN 0 ELSE block'[NextSlot(i)].entry
             /\ (IF NextSlot(i) = head THEN 0 ELSE block'[NextSlot(i)].entry) \in Nat
  BY <1>2, <1>3, <1>4, <1>5, <1>6
<1>7. \A i \in Slots : Place(i) < Place(head) /\ i # tail =>
           /\ block'[i].entry <= block'[i].max
           /\ block'[i].entry <= (IF NextSlot(i) = head THEN 0 ELSE block'[NextSlot(i)].entry)
                                 + block'[i].length
  <2>. SUFFICES ASSUME NEW i \in Slots, Place(i) < Place(head), i # tail
                PROVE  block'[i].entry <= (IF NextSlot(i) = head THEN 0 ELSE block'[NextSlot(i)].entry)
                                          + block'[i].length
    OBVIOUS
  <2>. DEFINE y == IF NextSlot(i) = head THEN 0 ELSE block'[NextSlot(i)].entry  x == LeaveSpeed(i)
  <2>1. x \in Nat /\ y \in Nat /\ x <= y
    BY <1>6
  <2>2. block'[i].entry <= x + block'[i].length
    BY <1>1
  <2>. HIDE DEF x, y
  <2>3. block'[i].entry <= y + block'[i].length
    BY <1>5, <2>1, <2>2
  <2>. QED
    BY <2>3 DEF y
<1>8. head # tail => speed <= (IF NextSlot(tail) = head THEN 0 ELSE block'[NextSlot(tail)].entry)
                              + block'[tail].length
  <2>. SUFFICES ASSUME head # tail
                PROVE  speed <= (IF NextSlot(tail) = head THEN 0 ELSE block'[NextSlot(tail)].entry)
                                + block'[tail].length
    OBVIOUS
  <2>. DEFINE y == IF NextSlot(tail) = head THEN 0 ELSE block'[NextSlot(tail)].entry
              x == LeaveSpeed(tail)
  <2>1. x \in Nat /\ y \in Nat /\ x <= y
    BY <1>3, <1>6
  <2>2. speed <= x + block'[tail].length /\ speed \in Nat /\ block'[tail].length \in Nat
    BY <1>1, <1>2, <1>3, <1>5, Fields
  <2>. HIDE DEF x, y
  <2>3. speed <= y + block'[tail].length
    BY <2>1, <2>2
  <2>. QED
    BY <2>3 DEF y
<1>. QED
  BY <1>7, <1>8, BrakeInPlace

\* The last block is planned to end at rest: it becomes no slower.
LEMMA LastRises ==
  ASSUME NEW e \in Nat, NEW c, c.max \in Nat, c.length \in Nat, e <= c.max, e <= c.length
  PROVE  /\ e <= Stoppable(c) /\ Stoppable(c) <= c.max /\ Stoppable(c) <= c.length
         /\ Stoppable(c) \in Nat
         /\ Stoppable(c) = c.max \/ Stoppable(c) = c.length
  BY DEF Stoppable, Least

\* Everything is planned again, with maxima no lower than before: all can brake.
LEMMA BrakeAgain ==
  ASSUME TypeOK, TypeOK', SweepInv, Drive, NEW b \in [Slots -> Blocks], Recalculate(b, head, tail, TRUE),
         UNCHANGED <<job, tail, speed>>,
         \A i \in Slots : b[i].entry = block[i].entry /\ b[i].length = block[i].length,
         \A i \in Slots : Place(i) < Place(head) /\ i # tail => block[i].max <= b[i].max
  PROVE  BrakeInv'
<1>1. /\ head' = head
      /\ \A j \in Slots :
           /\ block'[j].max = b[j].max /\ block'[j].length = b[j].length
           /\ block'[j].entry = IF j = PrevSlot(head) /\ j # tail THEN Stoppable(b[j])
                                ELSE IF loaded /\ j = tail THEN speed
                                ELSE b[j].entry
  BY AgainIs DEF SameMove
<1>2. \A i \in Slots : Place(i) < Place(head) /\ i # tail =>
           /\ block[i].entry <= block[i].max
           /\ block[i].entry <= LeaveSpeed(i) + block[i].length
  BY BrakeRead DEF Drive
<1>3. \A i \in Slots : /\ block[i].entry \in Nat /\ block[i].length \in Nat /\ block[i].max \in Nat
                       /\ b[i].entry \in Nat /\ b[i].length \in Nat /\ b[i].max \in Nat
  BY Fields DEF Blocks, Speeds
<1>4. ASSUME NEW i \in Slots, Place(i) < Place(head), i # tail
      PROVE  /\ block[i].entry <= block'[i].entry /\ block'[i].entry <= block'[i].max
             /\ \/ block'[i].entry = block[i].entry
                \/ block'[i].entry <= LeaveSpeed(i) + block[i].length
  <2>1. block[i].entry <= b[i].max
    BY <1>2, <1>3, <1>4
  <2>2. CASE i = PrevSlot(head)
    <3>1. NextSlot(i) = head
      BY <2>2, Ends
    <3>2. LeaveSpeed(i) = 0
      BY <3>1 DEF LeaveSpeed
    <3>3. block[i].entry <= b[i].length
      BY <1>2, <1>3, <1>4, <3>2
    <3>4. /\ block[i].entry <= Stoppable(b[i]) /\ Stoppable(b[i]) <= b[i].max
          /\ Stoppable(b[i]) <= b[i].length
      BY <1>3, <2>1, <3>3, LastRises
    <3>5. block'[i].entry = Stoppable(b[i])
      BY <1>1, <1>4, <2>2
    <3>. QED
      BY <1>1, <1>3, <3>2, <3>4, <3>5
  <2>3. CASE i # PrevSlot(head)
    BY <1>1, <1>3, <1>4, <2>1, <2>3
  <2>. QED
    BY <2>2, <2>3
<1>5. \A i \in Slots : Place(i) < Place(head) => block'[i].length = block[i].length
  BY <1>1
<1>. QED
  BY <1>1, <1>4, <1>5, BrakeGrows DEF Drive

\* The reverse pass raises what can brake.
LEMMA BrakeReverse ==
  ASSUME TypeOK, TypeOK', SweepInv, Drive, Reverse
  PROVE  BrakeInv'
<1>1. /\ UNCHANGED <<job, tail, head, speed>> /\ pass = "reverse"
  BY DEF Reverse
<1>. DEFINE k == index  n == NextSlot(index)
<1>2. /\ \A j \in Slots : /\ block'[j].max = block[j].max /\ block'[j].length = block[j].length
                          /\ j # k /\ j # tail => block'[j].entry = block[j].entry
      /\ block'[k].entry = IF block[k].entry = block[k].max THEN block[k].max
                           ELSE Least(block[k].max, block[n].entry + block[k].length)
  BY Reversed DEF SameMove
<1>3. \A i \in Slots : Place(i) < Place(head) /\ i # tail =>
           /\ block[i].entry <= block[i].max
           /\ block[i].entry <= LeaveSpeed(i) + block[i].length
  BY BrakeRead DEF Drive
<1>4. \A i \in Slots : /\ block[i].entry \in Nat /\ block[i].length \in Nat /\ block[i].max \in Nat
  BY Fields
<1>5. k \in Slots /\ planned \in Slots
  BY DEF TypeOK
<1>6. ASSUME NEW i \in Slots, Place(i) < Place(head), i # tail
      PROVE  /\ block[i].entry <= block'[i].entry /\ block'[i].entry <= block'[i].max
             /\ \/ block'[i].entry = block[i].entry
                \/ block'[i].entry <= LeaveSpeed(i) + block[i].length
  <2>1. CASE i # k
    BY <1>2, <1>3, <1>4, <1>6, <2>1
  <2>2. CASE i = k
    <3>1. Within(planned, head) /\ Place(k) + 1 < Place(head)
      <4>1. head # tail /\ NextSlot(tail) # head
        BY <1>6, <2>2, Following
      <4>. QED
        BY <1>1, <4>1, SweepRead
    <3>2. n # head /\ n \in Slots
      BY <1>6, <2>2, <3>1, Following
    <3>3. LeaveSpeed(k) = block[n].entry
      BY <3>2 DEF LeaveSpeed
    <3>. DEFINE e == block[k].entry  e2 == block'[k].entry  x == block[k].max  y == block[n].entry
                l == block[k].length
    <3>4. e \in Nat /\ x \in Nat /\ y \in Nat /\ l \in Nat /\ e <= x /\ e <= y + l
      BY <1>3, <1>4, <1>6, <2>2, <3>2, <3>3
    <3>5. e2 = IF e = x THEN x ELSE Least(x, y + l)
      BY <1>2
    <3>. HIDE DEF e, e2, x, y, l
    <3>6. e <= e2 /\ e2 <= x /\ (e2 = e \/ e2 <= y + l)
      BY <3>4, <3>5 DEF Least
    <3>7. block'[k].max = x
      BY <1>2, <1>5 DEF x
    <3>. QED
      BY <2>2, <3>3, <3>6, <3>7 DEF e, e2, x, y, l
  <2>. QED
    BY <2>1, <2>2
<1>. HIDE DEF k, n
<1>. QED
  BY <1>1, <1>2, <1>6, BrakeGrows DEF Drive

\* The forward pass, in sum: with more than one block it is within the plan.
LEMMA ForwardIs ==
  ASSUME TypeOK, SweepInv, SpeedInv, Forward
  PROVE  /\ UNCHANGED <<job, tail, head, mode, speed, loaded>> /\ pass = "forward" /\ pass' = "forward"
         /\ index \in Slots /\ index' = NextSlot(index) /\ PrevSlot(index) \in Slots
         /\ planned \in Slots /\ planned' \in Slots
         /\ \A j \in Slots : /\ block'[j].max = block[j].max /\ block'[j].length = block[j].length
                             /\ j # index => block'[j].entry = block[j].entry
         /\ ~Accelerated(block[PrevSlot(index)], block[index]) =>
              block'[index].entry = block[index].entry
         /\ Accelerated(block[PrevSlot(index)], block[index]) =>
              block'[index].entry = block[PrevSlot(index)].entry + block[PrevSlot(index)].length
         /\ \/ planned' = index /\ \/ Accelerated(block[PrevSlot(index)], block[index])
                                   \/ block'[index].entry = block[index].max
            \/ planned' = planned
         /\ head # tail /\ NextSlot(tail) # head =>
              /\ Place(planned) < Place(head) /\ Place(index) < Place(head) /\ index # tail
              /\ Place(planned) < Place(index) /\ Place(index') = Place(index) + 1
              /\ Place(PrevSlot(index)) = Place(index) - 1 /\ NextSlot(PrevSlot(index)) = index
         /\ head # tail /\ NextSlot(tail) # head /\ PrevSlot(index) = tail =>
              /\ speed <= block[tail].entry
              /\ mode # "hold" => block[tail].entry = speed
<1>1. /\ UNCHANGED <<job, tail, head, mode, speed, loaded>> /\ pass = "forward" /\ pass' = "forward"
      /\ index' = NextSlot(index) /\ index # head
  BY DEF Forward, prep
<1>2. /\ PrevSlot(index) \in Slots /\ index \in Slots /\ planned \in Slots
      /\ NextSlot(PrevSlot(index)) = index /\ head \in Slots /\ tail \in Slots
  BY Ends
<1>3. /\ \A j \in Slots : /\ SameMove(block[j], block'[j])
                          /\ j # index => block'[j] = block[j]
      /\ block'[index].entry = IF Accelerated(block[PrevSlot(index)], block[index])
                               THEN block[PrevSlot(index)].entry + block[PrevSlot(index)].length
                               ELSE block[index].entry
      /\ planned' = IF \/ Accelerated(block[PrevSlot(index)], block[index])
                       \/ block'[index].entry = block[index].max
                    THEN index ELSE planned
  BY Forwarded
<1>4. \A j \in Slots : /\ block'[j].max = block[j].max /\ block'[j].length = block[j].length
                       /\ j # index => block'[j].entry = block[j].entry
  BY <1>3 DEF SameMove
<1>5. planned' \in Slots
  BY <1>2, <1>3
<1>6. ASSUME head # tail, NextSlot(tail) # head
      PROVE  /\ Place(planned) < Place(head) /\ Place(index) < Place(head) /\ index # tail
             /\ Place(planned) < Place(index) /\ Place(index') = Place(index) + 1
             /\ Place(PrevSlot(index)) = Place(index) - 1
  <2>1. Place(planned) < Place(head) /\ Place(planned) < Place(index) /\ Place(index) <= Place(head)
    BY <1>1, <1>6, SweepRead DEF Within
  <2>2. Place(index) # Place(head) /\ Place(index) \in Nat /\ Place(head) \in Nat /\ Place(planned) \in Nat
    BY <1>1, <1>2, Following
  <2>3. Place(index) < Place(head)
    BY <2>1, <2>2
  <2>4. index # tail
    BY <2>1, <2>2, Following
  <2>. QED
    BY <1>1, <1>2, <2>1, <2>3, <2>4, Following
<1>7. ASSUME head # tail, NextSlot(tail) # head, PrevSlot(index) = tail
      PROVE  /\ speed <= block[tail].entry
             /\ mode # "hold" => block[tail].entry = speed
  <2>1. Place(planned) < Place(index) /\ Place(PrevSlot(index)) = Place(index) - 1
    BY <1>6, <1>7
  <2>2. planned = tail
    BY <1>2, <1>7, <2>1, Following
  <2>3. ~loaded
    BY <1>1, <2>2, SweepRead
  <2>4. block[tail].entry \in Nat /\ speed \in Nat
    BY <1>2, Fields
  <2>. QED
    BY <1>7, <2>3, <2>4, SpeedRead
<1>. QED
  BY <1>1, <1>2, <1>3, <1>4, <1>5, <1>6, <1>7

\* The forward pass lowers what the block before can still brake to.
LEMMA BrakeForward ==
  ASSUME TypeOK, TypeOK', SweepInv, Drive, Forward
  PROVE  BrakeInv'
<1>. DEFINE k == index  b == PrevSlot(index)
<1>1. /\ UNCHANGED <<job, tail, head, mode, speed>>
      /\ k \in Slots /\ b \in Slots
      /\ \A j \in Slots : /\ block'[j].max = block[j].max /\ block'[j].length = block[j].length
                          /\ j # k => block'[j].entry = block[j].entry
      /\ ~Accelerated(block[b], block[k]) => block'[k].entry = block[k].entry
      /\ Accelerated(block[b], block[k]) => block'[k].entry = block[b].entry + block[b].length
      /\ head # tail /\ NextSlot(tail) # head =>
           /\ Place(k) < Place(head) /\ k # tail /\ NextSlot(b) = k
      /\ head # tail /\ NextSlot(tail) # head /\ b = tail => speed <= block[tail].entry
  BY ForwardIs DEF Drive
<1>2. /\ \A i \in Slots : Place(i) < Place(head) /\ i # tail =>
           /\ block[i].entry <= block[i].max
           /\ block[i].entry <= LeaveSpeed(i) + block[i].length
      /\ head # tail => speed <= NextEntry + block[tail].length
  BY BrakeRead DEF Drive
<1>3. /\ speed \in Nat
      /\ \A i \in Slots : /\ block[i].entry \in Nat /\ block[i].length \in Nat /\ block[i].max \in Nat
  BY Fields
<1>4. head # tail /\ NextSlot(tail) # head => block'[k].entry <= block[k].entry /\ block'[k].entry \in Nat
  BY <1>1, <1>3 DEF Accelerated
<1>5. /\ head \in Slots /\ tail \in Slots
      /\ head # tail <=> Place(tail) < Place(head)
      /\ \A i \in Slots : Place(i) < Place(head) =>
           /\ NextSlot(i) \in Slots /\ NextSlot(i) # tail /\ NextSlot(i) # i
           /\ NextSlot(i) # head <=> Place(NextSlot(i)) < Place(head)
      /\ \A i \in Slots : PrevSlot(NextSlot(i)) = i
  BY Following, Ends
<1>6. \A i \in Slots : Place(i) < Place(head) /\ i # tail => head # tail /\ NextSlot(tail) # head
  BY Following
<1>. HIDE DEF k, b
<1>7. ASSUME NEW i \in Slots, Place(i) < Place(head), NextSlot(i) = k, NextSlot(i) # head
      PROVE  /\ i = b
             /\ block[i].entry <= block[k].entry + block[i].length =>
                  block[i].entry <= block'[k].entry + block[i].length
  <2>1. i = b
    BY <1>5, <1>7 DEF b, k
  <2>. DEFINE e == block[i].entry  l == block[i].length
  <2>2. e \in Nat /\ l \in Nat
    BY <1>3
  <2>3. Accelerated(block[b], block[k]) => block'[k].entry = e + l
    BY <1>1, <2>1
  <2>. HIDE DEF e, l
  <2>4. e <= block[k].entry + l => e <= block'[k].entry + l
    <3>1. CASE Accelerated(block[b], block[k])
      BY <2>2, <2>3, <3>1
    <3>2. CASE ~Accelerated(block[b], block[k])
      BY <1>1, <3>2
    <3>. QED
      BY <3>1, <3>2
  <2>. QED
    BY <2>1, <2>4 DEF e, l
<1>8. ASSUME NEW i \in Slots, Place(i) < Place(head), i # tail
      PROVE  /\ block'[i].entry <= block'[i].max
             /\ block'[i].entry <= (IF NextSlot(i) = head THEN 0 ELSE block'[NextSlot(i)].entry)
                                   + block'[i].length
  <2>1. /\ head # tail /\ NextSlot(tail) # head /\ block'[k].entry <= block[k].entry
        /\ block'[k].entry \in Nat
    BY <1>4, <1>6, <1>8
  <2>2. block'[i].entry <= block[i].entry /\ block'[i].entry \in Nat
    BY <1>1, <1>3, <2>1
  <2>3. block'[i].entry <= block'[i].max
    BY <1>1, <1>2, <1>3, <1>8, <2>2
  <2>. DEFINE x == IF NextSlot(i) = head THEN 0 ELSE block[NextSlot(i)].entry
              y == IF NextSlot(i) = head THEN 0 ELSE block'[NextSlot(i)].entry
  <2>4. block[i].entry <= x + block[i].length
    BY <1>2, <1>8 DEF LeaveSpeed
  <2>5. CASE NextSlot(i) = k /\ NextSlot(i) # head
    <3>1. i # k
      BY <1>5, <1>8, <2>5
    <3>2. block[i].entry <= block'[k].entry + block[i].length
      BY <1>7, <1>8, <2>4, <2>5
    <3>. QED
      BY <1>1, <2>3, <2>5, <3>1, <3>2
  <2>6. CASE ~(NextSlot(i) = k /\ NextSlot(i) # head)
    <3>1. x = y /\ x \in Nat
      BY <1>1, <1>3, <1>5, <1>8, <2>6
    <3>. HIDE DEF x, y
    <3>2. block'[i].entry <= y + block'[i].length
      BY <1>1, <1>3, <2>2, <2>4, <3>1
    <3>. QED
      BY <2>3, <3>2 DEF y
  <2>. QED
    BY <2>5, <2>6
<1>9. head # tail => speed <= (IF NextSlot(tail) = head THEN 0 ELSE block'[NextSlot(tail)].entry)
                              + block'[tail].length
  <2>. SUFFICES ASSUME head # tail
                PROVE  speed <= (IF NextSlot(tail) = head THEN 0 ELSE block'[NextSlot(tail)].entry)
                                + block'[tail].length
    OBVIOUS
  <2>1. speed <= (IF NextSlot(tail) = head THEN 0 ELSE block[NextSlot(tail)].entry) + block[tail].length
    BY <1>2 DEF NextEntry
  <2>2. CASE NextSlot(tail) = k /\ NextSlot(tail) # head
    <3>1. b = tail /\ speed <= block[tail].entry
      BY <1>1, <1>5, <1>7, <2>2
    <3>2. CASE Accelerated(block[b], block[k])
      BY <1>1, <1>3, <1>5, <2>2, <3>1, <3>2
    <3>3. CASE ~Accelerated(block[b], block[k])
      BY <1>1, <1>5, <2>1, <2>2, <3>3
    <3>. QED
      BY <3>2, <3>3
  <2>3. CASE ~(NextSlot(tail) = k /\ NextSlot(tail) # head)
    BY <1>1, <1>5, <2>1, <2>3
  <2>. QED
    BY <2>2, <2>3
<1>. QED
  BY <1>1, <1>8, <1>9, BrakeInPlace

\* A new block is planned to end at rest, and those before it as they were.
LEMMA BrakeLine ==
  ASSUME TypeOK, TypeOK', SweepInv, Drive, NEW m \in job.moves, PlanLine(m)
  PROVE  BrakeInv'
<1>1. /\ UNCHANGED <<job, tail, speed>>
      /\ head' = NextSlot(head) /\ head' # tail /\ Place(head') = Place(head) + 1
      /\ SameMove(New(m), block'[head])
      /\ block'[head].entry = IF planned = head THEN 0 ELSE Stoppable(New(m))
      /\ \A j \in Slots : j # head =>
           /\ SameMove(block[j], block'[j])
           /\ j # tail => block'[j].entry = block[j].entry
      /\ head # tail => planned # head
  BY LineIs
<1>2. /\ \A i \in Slots : Place(i) < Place(head) /\ i # tail =>
           /\ block[i].entry <= block[i].max
           /\ block[i].entry <= LeaveSpeed(i) + block[i].length
      /\ head # tail => speed <= NextEntry + block[tail].length
  BY BrakeRead DEF Drive
<1>3. /\ speed \in Nat
      /\ \A i \in Slots : /\ block[i].entry \in Nat /\ block[i].length \in Nat /\ block[i].max \in Nat
  BY Fields
<1>4. /\ head \in Slots /\ tail \in Slots /\ Place(head) \in Nat
      /\ head # tail <=> Place(tail) < Place(head)
      /\ \A i \in Slots : Place(i) \in Nat
      /\ \A i \in Slots : Place(i) < Place(head) =>
           /\ NextSlot(i) \in Slots /\ NextSlot(i) # tail
           /\ Place(NextSlot(i)) = Place(i) + 1
           /\ NextSlot(i) # head <=> Place(NextSlot(i)) < Place(head)
      /\ \A i, j \in Slots : Place(i) = Place(j) => i = j
      /\ Place(tail) = 0
  BY Following
<1>5. New(m).max \in Nat /\ New(m).length \in Nat
  BY Planned DEF Blocks, Speeds
<1>6. ASSUME NEW i \in Slots, Place(i) < Place(head)
      PROVE  /\ NextSlot(i) # head'
             /\ block'[i].length = block[i].length /\ block'[i].max = block[i].max
             /\ \E x \in Nat : /\ LeaveSpeed(i) <= x /\ LeaveSpeed(i) \in Nat
                               /\ x = IF NextSlot(i) = head' THEN 0 ELSE block'[NextSlot(i)].entry
  <2>1. Place(NextSlot(i)) # Place(head')
    BY <1>1, <1>4, <1>6
  <2>2. i # head
    BY <1>4, <1>6
  <2>3. CASE NextSlot(i) = head
    <3>1. block'[head].entry \in Nat
      BY <1>1, <1>5 DEF Stoppable, Least
    <3>2. LeaveSpeed(i) = 0
      BY <2>3 DEF LeaveSpeed
    <3>. QED
      BY <1>1, <1>6, <2>1, <2>2, <2>3, <3>1, <3>2 DEF SameMove
  <2>4. CASE NextSlot(i) # head
    <3>1. LeaveSpeed(i) = block[NextSlot(i)].entry
      BY <2>4 DEF LeaveSpeed
    <3>2. block'[NextSlot(i)].entry = block[NextSlot(i)].entry /\ block[NextSlot(i)].entry \in Nat
      BY <1>1, <1>3, <1>4, <1>6, <2>4
    <3>. QED
      BY <1>1, <1>6, <2>1, <2>2, <3>1, <3>2 DEF SameMove
  <2>. QED
    BY <2>3, <2>4
<1>7. ASSUME NEW i \in Slots, Place(i) < Place(head'), i # tail
      PROVE  /\ block'[i].entry <= block'[i].max
             /\ block'[i].entry <= (IF NextSlot(i) = head' THEN 0 ELSE block'[NextSlot(i)].entry)
                                   + block'[i].length
  <2>1. CASE i = head
    <3>1. block'[i].entry = Stoppable(New(m)) /\ NextSlot(i) = head'
      BY <1>1, <1>7, <2>1
    <3>. QED
      BY <1>1, <1>5, <2>1, <3>1 DEF SameMove, Stoppable, Least
  <2>2. CASE i # head
    <3>1. Place(i) < Place(head)
      BY <1>1, <1>4, <1>7, <2>2
    <3>2. block'[i].entry = block[i].entry
      BY <1>1, <1>7, <2>2
    <3>. DEFINE x == IF NextSlot(i) = head' THEN 0 ELSE block'[NextSlot(i)].entry
    <3>3. x \in Nat /\ LeaveSpeed(i) \in Nat /\ LeaveSpeed(i) <= x
      BY <1>6, <3>1
    <3>4. block'[i].length = block[i].length /\ block'[i].max = block[i].max
      BY <1>6, <3>1
    <3>. HIDE DEF x
    <3>5. block'[i].entry <= x + block'[i].length
      BY <1>2, <1>3, <1>7, <3>1, <3>2, <3>3, <3>4
    <3>. QED
      BY <1>2, <1>7, <3>1, <3>2, <3>4, <3>5 DEF x
  <2>. QED
    BY <2>1, <2>2
<1>8. speed <= (IF NextSlot(tail) = head' THEN 0 ELSE block'[NextSlot(tail)].entry)
               + block'[tail].length
  <2>1. CASE head = tail
    <3>1. speed = 0
      BY <2>1, SpeedRead DEF Drive
    <3>2. block'[tail].length \in Nat
      BY <1>1, <1>5, <2>1 DEF SameMove
    <3>. QED
      BY <1>1, <2>1, <3>1, <3>2
  <2>2. CASE head # tail
    <3>. DEFINE x == IF NextSlot(tail) = head' THEN 0 ELSE block'[NextSlot(tail)].entry
    <3>1. /\ x \in Nat /\ LeaveSpeed(tail) \in Nat /\ LeaveSpeed(tail) <= x
          /\ block'[tail].length = block[tail].length
      BY <1>4, <1>6, <2>2
    <3>2. LeaveSpeed(tail) = NextEntry
      BY DEF LeaveSpeed, NextEntry
    <3>. HIDE DEF x
    <3>3. speed <= x + block'[tail].length
      BY <1>2, <1>3, <1>4, <2>2, <3>1, <3>2
    <3>. QED
      BY <3>3 DEF x
  <2>. QED
    BY <2>1, <2>2
<1>. QED
  BY <1>1, <1>7, <1>8, BrakeInPlace

\* A segment leaves what it takes to brake, in the next block too.
LEMMA BrakeSegment ==
  ASSUME TypeOK, TypeOK', SweepInv, Drive, NEW part \in 0 .. block[tail].length, PrepSegment(part)
  PROVE  BrakeInv'
<1>. DEFINE rest == block[tail].length - part - Ramp.stop
<1>1. /\ UNCHANGED <<job, head>>
      /\ head # tail /\ mode \in {"cycle", "hold"} /\ pass' = "none"
      /\ rest \in Nat /\ stop' \in Nat /\ exit' \in Nat /\ speed' \in Nat
      /\ \A j \in Slots : j # tail => block'[j] = block[j]
      /\ block'[tail].length = rest + stop'
      /\ rest = 0 /\ stop' = 0 => tail' = NextSlot(tail)
      /\ ~(rest = 0 /\ stop' = 0) => tail' = tail
  BY SegmentIs
<1>2. /\ rest = 0 => speed' = exit'
      /\ speed' = exit' + rest \/ mode = "cycle"
      /\ exit' <= NextEntry
      /\ mode = "cycle" => speed' <= exit' + rest
  BY Driven
<1>3. /\ \A i \in Slots : Place(i) < Place(head) /\ i # tail =>
           /\ block[i].entry <= block[i].max
           /\ block[i].entry <= LeaveSpeed(i) + block[i].length
      /\ head # tail => speed <= NextEntry + block[tail].length
  BY BrakeRead DEF Drive
<1>4. /\ tail \in Slots /\ NextSlot(tail) \in Slots /\ NextSlot(tail) # tail /\ NextEntry \in Nat
  BY Starting, Turning DEF TypeOK
<1>5. \A i \in Slots : Place(i) < Place(head) =>
           /\ NextSlot(i) \in Slots /\ NextSlot(i) # tail
           /\ NextSlot(i) # head <=> Place(NextSlot(i)) < Place(head)
  BY Following
<1>6. NextEntry = IF NextSlot(tail) = head THEN 0 ELSE block'[NextSlot(tail)].entry
  BY <1>1, <1>4 DEF NextEntry
<1>7. \A i \in Slots : Place(i) < Place(head) =>
        LeaveSpeed(i) = IF NextSlot(i) = head THEN 0 ELSE block'[NextSlot(i)].entry
  BY <1>1, <1>5 DEF LeaveSpeed
<1>. HIDE DEF rest
<1>8. CASE ~(rest = 0 /\ stop' = 0)
  <2>1. \A i \in Slots : Place(i) < Place(head') /\ i # tail =>
           /\ block'[i].entry <= block'[i].max
           /\ block'[i].entry <= (IF NextSlot(i) = head' THEN 0 ELSE block'[NextSlot(i)].entry)
                                 + block'[i].length
    BY <1>1, <1>3, <1>7
  <2>2. speed' <= NextEntry + block'[tail].length
    BY <1>1, <1>2, <1>4
  <2>3. speed' <= (IF NextSlot(tail) = head' THEN 0 ELSE block'[NextSlot(tail)].entry)
                  + block'[tail].length
    BY <1>1, <1>6, <2>2
  <2>. QED
    BY <1>1, <1>8, <2>1, <2>3, BrakeInPlace
<1>9. CASE rest = 0 /\ stop' = 0
  <2>1. /\ Slots' = Slots
        /\ Empty' <=> head = tail'
        /\ NextEntry' = IF NextSlot(tail') = head THEN 0 ELSE block'[NextSlot(tail')].entry
        /\ tail' \in Slots /\ tail' # tail
        /\ head # tail' => Place(tail') < Place(head)
        /\ \A i \in Slots :
             /\ i \in Waiting' <=> Place(i) < Place(head) /\ i # tail /\ i # tail'
             /\ LeaveSpeed(i)' = IF NextSlot(i) = head THEN 0 ELSE block'[NextSlot(i)].entry
    BY <1>1, <1>9, Passing
  <2>2. Waiting' \subseteq Slots
    BY <2>1 DEF Waiting
  <2>3. ASSUME NEW i \in Waiting'
        PROVE  /\ block'[i].entry <= block'[i].max
               /\ block'[i].entry <= LeaveSpeed(i)' + block'[i].length
    <3>1. i \in Slots /\ Place(i) < Place(head) /\ i # tail
      BY <2>1, <2>2, <2>3
    <3>2. LeaveSpeed(i)' = LeaveSpeed(i)
      BY <1>7, <2>1, <3>1
    <3>. QED
      BY <1>1, <1>3, <3>1, <3>2
  <2>4. ASSUME head # tail'
        PROVE  speed' <= NextEntry' + block'[tail'].length
    <3>. DEFINE n == tail'
    <3>1. n \in Slots /\ Place(n) < Place(head) /\ n # tail /\ n = NextSlot(tail)
      BY <1>1, <1>9, <2>1, <2>4
    <3>2. block'[n] = block[n] /\ block[n].entry \in Nat /\ block[n].length \in Nat
      BY <1>1, <3>1, Fields
    <3>3. NextEntry = block[n].entry
      BY <2>4, <3>1 DEF NextEntry
    <3>4. speed' <= block[n].entry
      BY <1>2, <1>9, <3>3
    <3>5. NextEntry' = LeaveSpeed(n)
      <4>. HIDE DEF n
      <4>. QED
        BY <1>7, <2>1, <3>1 DEF n
    <3>6. block[n].entry <= NextEntry' + block[n].length
      BY <1>3, <3>1, <3>5
    <3>7. NextEntry' \in Nat
      <4>1. NextSlot(n) \in Slots /\ block' \in [Slots -> Blocks]
        BY <1>5, <2>1, <3>1 DEF TypeOK, Blocks
      <4>2. block'[NextSlot(n)].entry \in Nat
        BY <4>1 DEF Blocks, Speeds
      <4>. QED
        BY <2>1, <4>2
    <3>. HIDE DEF n
    <3>8. speed' <= NextEntry' + block[n].length
      BY <1>1, <3>2, <3>4, <3>6, <3>7
    <3>. QED
      BY <3>2, <3>8 DEF n
  <2>. QED
    BY <2>1, <2>3, <2>4 DEF BrakeInv
<1>. QED
  BY <1>8, <1>9

\* Every step leaves what it takes to brake.
LEMMA BrakeStep ==
  ASSUME TypeOK, SweepInv, Drive, job.trend = "raise", Next
  PROVE  BrakeInv'
<1>0. TypeOK'
  BY TypeStep
<1>1. \A i \in Slots : Place(i) < Place(head) /\ i # tail =>
           /\ block[i].entry <= block[i].max
           /\ block[i].entry \in Nat
  BY BrakeRead, Fields DEF Drive
<1>2. CASE \E m \in job.moves : PlanLine(m)
  BY <1>0, <1>2, BrakeLine
<1>3. CASE PlanNothing \/ CycleStart \/ FeedHold \/ CycleDone \/ ProgramEnd \/ ForwardDone
  <2>1. /\ UNCHANGED <<job, tail, head, speed>>
        /\ \A i \in Slots : Place(i) < Place(head) =>
             /\ block'[i].length = block[i].length /\ block'[i].max = block[i].max
             /\ i # tail => block'[i].entry = block[i].entry
    <3>1. CASE ForwardDone
      BY <3>1 DEF ForwardDone, ring, prep
    <3>2. CASE PlanNothing \/ CycleStart \/ FeedHold \/ CycleDone \/ ProgramEnd
      BY <3>2, Idly DEF SameEntries, SameMoves, SameMove
    <3>. QED
      BY <1>3, <3>1, <3>2
  <2>. QED
    BY <1>0, <1>1, <2>1, BrakeGrows DEF Drive
<1>4. CASE Reverse
  BY <1>0, <1>4, BrakeReverse
<1>5. CASE Forward
  BY <1>0, <1>5, BrakeForward
<1>6. CASE \E o \in job.overrides : Override(o)
  <2>. SUFFICES ASSUME NEW o \in job.overrides, Override(o)
                PROVE  BrakeInv'
    BY <1>6
  <2>1. UNCHANGED <<job, tail, speed>> /\ Recalculate(Rated(o), head, tail, TRUE)
    BY OverridePlanned DEF Override
  <2>2. /\ o \in Overrides
        /\ \A i \in Slots : Place(i) < Place(head) /\ i # tail => block[i].max <= Rated(o)[i].max
    BY MaxRises DEF Drive
  <2>3. /\ Rated(o) \in [Slots -> Blocks]
        /\ \A i \in Slots : Rated(o)[i].entry = block[i].entry /\ Rated(o)[i].length = block[i].length
    BY <2>2, Rating, PlannerAssumption
  <2>. QED
    BY <1>0, <2>1, <2>2, <2>3, BrakeAgain
<1>7. CASE \E part \in 0 .. block[tail].length : PrepSegment(part)
  BY <1>0, <1>7, BrakeSegment
<1>8. CASE HoldDone
  <2>1. UNCHANGED <<job, tail, speed>> /\ Recalculate(block, head, tail, TRUE)
    BY <1>8 DEF HoldDone, Reinitialize
  <2>2. block \in [Slots -> Blocks] /\ \A i \in Slots : block[i].max <= block[i].max
    BY Fields DEF TypeOK, Blocks
  <2>. QED
    BY <1>0, <2>1, <2>2, BrakeAgain
<1>9. CASE JogCancelled \/ Reset
  <2>. QED
    BY <1>0, <1>9, Flushed DEF BrakeInv
<1>. QED
  BY <1>2, <1>3, <1>4, <1>5, <1>6, <1>7, <1>8, <1>9 DEF Next

-----------------------------------------------------------------------------
(* Accelerating *)

\* The blocks a sweep that has begun does not touch, read in the old ring.
Left(i) == \/ pass' = "none"
           \/ pass' = "reverse" /\ Place(i) < Place(planned')
           \/ pass' = "forward" /\ Place(i) + 1 < Place(index')

\* The speed a block is left at after the step, read in the old ring.
After(i) == IF NextSlot(i) = head' THEN 0 ELSE block'[NextSlot(i)].entry

\* Accelerating, read in terms of places.
LEMMA ReachRead ==
  ASSUME TypeOK, ReachInv
  PROVE  /\ \A i \in Slots : Place(i) < Place(head) /\ i # tail /\ Settled(i) =>
              LeaveSpeed(i) <= block[i].entry + block[i].length
         /\ head # tail /\ mode # "hold" /\ Settled(tail) =>
              LeaveSpeed(tail) <= speed + block[tail].length
<1>1. \A i \in Slots : Place(i) < Place(head) /\ i # tail => i \in Waiting
  BY Reading
<1>2. NextEntry = LeaveSpeed(tail)
  BY DEF NextEntry, LeaveSpeed
<1>3. Empty <=> head = tail
  BY DEF Empty
<1>. QED
  BY <1>1, <1>2, <1>3 DEF ReachInv

\* After a step that leaves the tail.
LEMMA ReachInPlace ==
  ASSUME TypeOK', job' = job, tail' = tail,
         \A i \in Slots : Place(i) < Place(head') /\ i # tail /\ Left(i) =>
           After(i) <= block'[i].entry + block'[i].length,
         head' # tail /\ mode' # "hold" /\ Left(tail) =>
           After(tail) <= speed' + block'[tail].length
  PROVE  ReachInv'
<1>1. /\ Slots' = Slots
      /\ Empty' <=> head' = tail
      /\ NextEntry' = After(tail)
      /\ Settled(tail)' <=> Left(tail)
      /\ \A i \in Slots :
           /\ i \in Waiting' <=> Place(i) < Place(head') /\ i # tail
           /\ LeaveSpeed(i)' = After(i)
           /\ Settled(i)' <=> Left(i)
  BY InPlace DEF Left, After
<1>2. Waiting' \subseteq Slots
  BY <1>1 DEF Waiting
<1>3. ASSUME NEW i \in Waiting', Settled(i)'
      PROVE  LeaveSpeed(i)' <= block'[i].entry + block'[i].length
  BY <1>1, <1>2, <1>3
<1>4. ASSUME ~Empty', mode' # "hold", Settled(tail)'
      PROVE  NextEntry' <= speed' + block'[tail].length
  BY <1>1, <1>4
<1>5. \A i \in Waiting' : Settled(i)' => LeaveSpeed(i)' <= block'[i].entry + block'[i].length
  BY <1>3
<1>. QED
  BY <1>4, <1>5 DEF ReachInv

\* Where the blocks left alone, and those after them, are entered as before, they still reach.
LEMMA ReachKept ==
  ASSUME TypeOK, TypeOK', ReachInv, UNCHANGED <<job, tail, speed>>,
         \A i \in Slots : Place(i) < Place(head') /\ Left(i) =>
           \/ After(i) = 0
           \/ /\ Place(i) < Place(head) /\ Settled(i) /\ (mode' # "hold" => mode # "hold")
              /\ After(i) = LeaveSpeed(i) /\ block'[i].length = block[i].length
              /\ i # tail => block'[i].entry = block[i].entry
           \/ i = tail /\ mode' = "hold"
           \/ After(i) <= (IF i = tail THEN speed ELSE block'[i].entry) + block'[i].length
  PROVE  ReachInv'
<1>1. /\ \A i \in Slots : Place(i) < Place(head) /\ i # tail /\ Settled(i) =>
           LeaveSpeed(i) <= block[i].entry + block[i].length
      /\ head # tail /\ mode # "hold" /\ Settled(tail) =>
           LeaveSpeed(tail) <= speed + block[tail].length
  BY ReachRead
<1>2. /\ tail \in Slots /\ Place(tail) = 0 /\ speed \in Nat
      /\ \A i \in Slots : Place(i) \in Nat
      /\ head # tail <=> Place(tail) < Place(head)
  BY Following, Fields
<1>3. \A i \in Slots : block'[i].entry \in Nat /\ block'[i].length \in Nat
  <2>1. Slots' = Slots /\ block' \in [Slots' -> Blocks]
    BY DEF Slots, TypeOK, Blocks
  <2>. QED
    BY <2>1 DEF Blocks, Speeds
<1>4. head' \in Slots /\ Place(head') \in Nat /\ (head' # tail => Place(tail) < Place(head'))
  <2>1. head' \in Slots
    BY DEF Slots, TypeOK
  <2>. QED
    BY <2>1, Ends
<1>5. ASSUME NEW i \in Slots, Place(i) < Place(head'), i # tail, Left(i)
      PROVE  After(i) <= block'[i].entry + block'[i].length
  <2>. DEFINE a == After(i)  e == block'[i].entry  l == block'[i].length
  <2>1. e \in Nat /\ l \in Nat
    BY <1>3
  <2>2. CASE a = 0
    BY <2>1, <2>2
  <2>3. CASE /\ Place(i) < Place(head) /\ Settled(i)
             /\ a = LeaveSpeed(i) /\ l = block[i].length /\ e = block[i].entry
    BY <1>1, <1>5, <2>3
  <2>4. CASE a <= e + l
    BY <2>4
  <2>. QED
    BY <1>5, <2>2, <2>3, <2>4
<1>6. ASSUME head' # tail, mode' # "hold", Left(tail)
      PROVE  After(tail) <= speed' + block'[tail].length
  <2>. DEFINE a == After(tail)  l == block'[tail].length
  <2>1. l \in Nat
    BY <1>2, <1>3
  <2>2. CASE a = 0
    BY <1>2, <2>1, <2>2
  <2>3. CASE /\ Place(tail) < Place(head) /\ Settled(tail) /\ mode # "hold"
             /\ a = LeaveSpeed(tail) /\ l = block[tail].length
    BY <1>1, <1>2, <2>3
  <2>4. CASE a <= speed + l
    BY <2>4
  <2>. QED
    BY <1>2, <1>4, <1>6, <2>2, <2>3, <2>4
<1>. QED
  BY <1>5, <1>6, ReachInPlace

\* A sweep of the whole plan leaves no block alone that another follows.
LEMMA ReachAgain ==
  ASSUME TypeOK, TypeOK', SweepInv, Drive, NEW b \in [Slots -> Blocks], Recalculate(b, head, tail, TRUE),
         UNCHANGED <<job, tail, speed>>
  PROVE  ReachInv'
<1>1. /\ planned' = tail /\ head' = head
      /\ PrevSlot(head) = tail => pass' = "none"
      /\ PrevSlot(head) # tail /\ PrevSlot(PrevSlot(head)) = tail =>
           pass' = "forward" /\ index' = PrevSlot(head)
      /\ PrevSlot(head) # tail /\ PrevSlot(PrevSlot(head)) # tail =>
           pass' = "reverse" /\ index' = PrevSlot(PrevSlot(head))
  BY AgainIs
<1>2. /\ tail \in Slots /\ head \in Slots /\ PrevSlot(head) \in Slots /\ Place(tail) = 0
      /\ NextSlot(PrevSlot(head)) = head
      /\ \A i \in Slots : /\ Place(i) \in Nat /\ (Place(i) = 0 <=> i = tail)
                           /\ NextSlot(PrevSlot(i)) = i /\ PrevSlot(i) \in Slots
      /\ \A i \in Slots : i = tail \/ Place(PrevSlot(i)) = Place(i) - 1
  BY Ends
<1>3. ASSUME NEW i \in Slots, Place(i) < Place(head), Left(i)
      PROVE  After(i) = 0
  <2>1. CASE PrevSlot(head) = tail
    <3>1. Place(head) = 1
      BY <1>2, <1>3, <2>1
    <3>2. i = tail /\ NextSlot(i) = head
      BY <1>2, <1>3, <2>1, <3>1
    <3>. QED
      BY <1>1, <3>2 DEF After
  <2>2. CASE PrevSlot(head) # tail /\ PrevSlot(PrevSlot(head)) = tail
    <3>1. Place(PrevSlot(head)) = 1
      BY <1>2, <2>2
    <3>. QED
      BY <1>1, <1>2, <1>3, <2>2, <3>1 DEF Left
  <2>3. CASE PrevSlot(head) # tail /\ PrevSlot(PrevSlot(head)) # tail
    BY <1>1, <1>2, <1>3, <2>3 DEF Left
  <2>. QED
    BY <2>1, <2>2, <2>3
<1>. QED
  BY <1>1, <1>3, ReachKept DEF Drive

\* A new move leaves those before the planned one alone.
LEMMA ReachLine ==
  ASSUME TypeOK, TypeOK', SweepInv, Drive, NEW m \in job.moves, PlanLine(m)
  PROVE  ReachInv'
<1>1. /\ UNCHANGED <<job, tail, speed, planned, mode>> /\ pass = "none"
      /\ head' = NextSlot(head) /\ head' # tail /\ Place(head') = Place(head) + 1
      /\ \A j \in Slots : j # head =>
           /\ SameMove(block[j], block'[j])
           /\ j # tail => block'[j].entry = block[j].entry
      /\ head # tail => Place(planned) < Place(head) /\ planned # head
      /\ planned # head => \/ pass' = "forward" /\ index' = head
                           \/ pass' = "reverse"
  BY LineIs
<1>2. /\ head \in Slots /\ tail \in Slots /\ Place(head) \in Nat /\ Place(tail) = 0
      /\ \A i \in Slots : Place(i) \in Nat
      /\ \A i \in Slots : Place(i) < Place(head) =>
           /\ NextSlot(i) \in Slots /\ NextSlot(i) # tail
           /\ Place(NextSlot(i)) = Place(i) + 1
      /\ \A i, j \in Slots : Place(i) = Place(j) => i = j
      /\ planned \in Slots
  BY Following DEF TypeOK
<1>3. ASSUME NEW i \in Slots, Place(i) < Place(head'), Left(i)
      PROVE  \/ After(i) = 0
             \/ /\ Place(i) < Place(head) /\ Settled(i)
                /\ After(i) = LeaveSpeed(i) /\ block'[i].length = block[i].length
                /\ i # tail => block'[i].entry = block[i].entry
  <2>1. CASE head = tail
    <3>1. i = tail
      BY <1>1, <1>2, <1>3, <2>1
    <3>. QED
      BY <1>1, <2>1, <3>1 DEF After
  <2>2. CASE head # tail
    <3>1. Place(i) + 1 < Place(head)
      BY <1>1, <1>2, <1>3, <2>2 DEF Left
    <3>. DEFINE n == NextSlot(i)
    <3>2. n \in Slots /\ n # tail /\ Place(n) < Place(head) /\ i # head
      BY <1>2, <3>1
    <3>3. n # head /\ n # head'
      BY <1>1, <1>2, <3>2
    <3>4. After(i) = block'[n].entry /\ LeaveSpeed(i) = block[n].entry
      BY <3>3 DEF After, LeaveSpeed
    <3>. HIDE DEF n
    <3>5. Settled(i)
      BY <1>1 DEF Settled
    <3>. QED
      BY <1>1, <1>2, <3>1, <3>2, <3>3, <3>4, <3>5 DEF SameMove
  <2>. QED
    BY <2>1, <2>2
<1>. QED
  BY <1>1, <1>3, ReachKept DEF Drive

\* The reverse pass raises blocks behind the planned one.
LEMMA ReachReverse ==
  ASSUME TypeOK, TypeOK', SweepInv, Drive, Reverse
  PROVE  ReachInv'
<1>. DEFINE k == index
<1>1. /\ UNCHANGED <<job, tail, head, speed, planned, mode>> /\ pass = "reverse"
      /\ \/ pass' = "forward" /\ index' = NextSlot(planned) /\ PrevSlot(k) = planned
         \/ pass' = "reverse"
  BY DEF Reverse
<1>2. \A j \in Slots : /\ block'[j].length = block[j].length
                       /\ j # k /\ j # tail => block'[j].entry = block[j].entry
  BY Reversed DEF SameMove
<1>3. /\ head \in Slots /\ tail \in Slots /\ k \in Slots /\ planned \in Slots /\ Place(tail) = 0
      /\ \A i \in Slots : Place(i) \in Nat
      /\ \A i \in Slots : Place(i) < Place(head) =>
           /\ NextSlot(i) \in Slots /\ NextSlot(i) # tail
           /\ Place(NextSlot(i)) = Place(i) + 1
  BY Following DEF TypeOK
<1>4. Place(planned) < Place(k)
  BY <1>1, SweepRead
<1>5. PrevSlot(k) = planned => Place(k) = Place(planned) + 1 /\ NextSlot(planned) = k
  BY <1>3, <1>4, Ends
<1>6. ASSUME NEW i \in Slots, Place(i) < Place(head'), Left(i)
      PROVE  /\ Place(i) < Place(head) /\ Settled(i)
             /\ After(i) = LeaveSpeed(i) /\ block'[i].length = block[i].length
             /\ i # tail => block'[i].entry = block[i].entry
  <2>1. Place(i) < Place(planned)
    BY <1>1, <1>3, <1>5, <1>6 DEF Left
  <2>2. Settled(i)
    BY <1>1, <2>1 DEF Settled
  <2>. DEFINE n == NextSlot(i)
  <2>3. n \in Slots /\ n # tail /\ n # k /\ i # k
    BY <1>1, <1>3, <1>4, <1>6, <2>1
  <2>4. After(i) = LeaveSpeed(i)
    BY <1>1, <1>2, <2>3 DEF After, LeaveSpeed
  <2>. QED
    BY <1>1, <1>2, <1>6, <2>2, <2>3, <2>4
<1>. HIDE DEF k
<1>. QED
  BY <1>1, <1>6, ReachKept DEF Drive

\* The forward pass makes one more block reach the next.
LEMMA ReachForward ==
  ASSUME TypeOK, TypeOK', SweepInv, Drive, Forward
  PROVE  ReachInv'
<1>. DEFINE k == index  b == PrevSlot(index)
<1>1. /\ UNCHANGED <<job, tail, head, mode, speed>> /\ pass = "forward" /\ pass' = "forward"
      /\ k \in Slots /\ b \in Slots
      /\ \A j \in Slots : /\ block'[j].length = block[j].length
                           /\ j # k => block'[j].entry = block[j].entry
      /\ ~Accelerated(block[b], block[k]) => block'[k].entry = block[k].entry
      /\ Accelerated(block[b], block[k]) => block'[k].entry = block[b].entry + block[b].length
      /\ head # tail /\ NextSlot(tail) # head =>
           /\ Place(k) < Place(head) /\ k # tail /\ NextSlot(b) = k
           /\ Place(index') = Place(k) + 1 /\ Place(b) = Place(k) - 1
      /\ head # tail /\ NextSlot(tail) # head /\ b = tail /\ mode # "hold" => block[tail].entry = speed
  BY ForwardIs DEF Drive
<1>2. \A i \in Slots : block[i].entry \in Nat /\ block[i].length \in Nat
  BY Fields
<1>3. block'[k].entry <= block[b].entry + block[b].length
  BY <1>1, <1>2 DEF Accelerated
<1>6. \A j \in Slots : block'[j].length = block[j].length
  BY ForwardIs DEF Drive
<1>7. \A j \in Slots : j # k => block'[j].entry = block[j].entry
  BY ForwardIs DEF Drive
<1>8. UNCHANGED <<job, tail, head, mode, speed>> /\ pass = "forward" /\ pass' = "forward"
  BY <1>1
<1>4. /\ head \in Slots /\ tail \in Slots /\ Place(tail) = 0
      /\ \A i \in Slots : Place(i) \in Nat
      /\ \A i \in Slots : Place(i) < Place(head) =>
           /\ NextSlot(i) \in Slots /\ NextSlot(i) # tail /\ NextSlot(i) # i
           /\ Place(NextSlot(i)) = Place(i) + 1
      /\ \A i, j \in Slots : Place(i) = Place(j) => i = j
      /\ head # tail <=> Place(tail) < Place(head)
  BY Following
<1>. HIDE DEF k, b
<1>5. ASSUME NEW i \in Slots, Place(i) < Place(head'), Left(i)
      PROVE  \/ After(i) = 0
             \/ /\ Place(i) < Place(head) /\ Settled(i)
                /\ After(i) = LeaveSpeed(i) /\ block'[i].length = block[i].length
                /\ i # tail => block'[i].entry = block[i].entry
             \/ i = tail /\ mode' = "hold"
             \/ After(i) <= (IF i = tail THEN speed ELSE block'[i].entry) + block'[i].length
  <2>0. head # tail /\ Place(i) < Place(head)
    BY <1>1, <1>4, <1>5
  <2>1. CASE NextSlot(tail) = head
    <3>1. Place(head) = 1
      BY <1>4, <2>0, <2>1
    <3>2. i = tail
      BY <1>4, <2>0, <3>1
    <3>. QED
      BY <1>1, <2>1, <3>2 DEF After
  <2>2. CASE NextSlot(tail) # head /\ Place(i) + 1 < Place(k)
    <3>. DEFINE n == NextSlot(i)
    <3>1. n \in Slots /\ n # k /\ i # k
      BY <1>4, <2>0, <2>2
    <3>2. After(i) = LeaveSpeed(i)
      BY <1>7, <1>8, <3>1 DEF After, LeaveSpeed
    <3>3. Settled(i)
      BY <1>8, <2>2 DEF Settled, k
    <3>. HIDE DEF n
    <3>. QED
      BY <1>6, <1>7, <1>8, <2>0, <3>1, <3>2, <3>3
  <2>3. CASE NextSlot(tail) # head /\ ~(Place(i) + 1 < Place(k))
    <3>1. Place(i) + 1 < Place(k) + 1
      BY <1>1, <1>5, <2>0, <2>3 DEF Left
    <3>2. Place(i) = Place(k) - 1
      BY <1>1, <1>4, <2>3, <3>1
    <3>3. i = b /\ NextSlot(i) = k /\ k # head /\ i # k
      BY <1>1, <1>4, <2>0, <2>3, <3>2
    <3>4. After(i) = block'[k].entry
      BY <1>1, <3>3 DEF After
    <3>5. After(i) <= block[i].entry + block[i].length
      BY <1>3, <3>3, <3>4
    <3>6. block'[i].entry = block[i].entry /\ block'[i].length = block[i].length
      BY <1>6, <1>7, <3>3
    <3>7. i = tail => mode = "hold" \/ block[i].entry = speed
      BY <1>1, <2>0, <2>3, <3>3
    <3>. QED
      BY <1>1, <3>5, <3>6, <3>7
  <2>. QED
    BY <2>1, <2>2, <2>3
<1>. QED
  BY <1>1, <1>5, ReachKept DEF Drive

\* A segment leaves what it takes to reach the next block, and from there the one after.
LEMMA ReachSegment ==
  ASSUME TypeOK, TypeOK', SweepInv, Drive, NEW part \in 0 .. block[tail].length, PrepSegment(part)
  PROVE  ReachInv'
<1>. DEFINE rest == block[tail].length - part - Ramp.stop
<1>1. /\ UNCHANGED <<job, head, mode>>
      /\ head # tail /\ mode \in {"cycle", "hold"} /\ pass = "none" /\ pass' = "none"
      /\ rest \in Nat /\ stop' \in Nat /\ exit' \in Nat /\ speed' \in Nat
      /\ \A j \in Slots : j # tail => block'[j] = block[j]
      /\ block'[tail].length = rest + stop'
      /\ rest = 0 /\ stop' = 0 => tail' = NextSlot(tail)
      /\ ~(rest = 0 /\ stop' = 0) => tail' = tail
  BY SegmentIs
<1>2. /\ rest = 0 => speed' = exit'
      /\ mode = "cycle" => /\ stop' = 0 /\ exit' = NextEntry
                           /\ exit' <= speed' + rest
  BY Driven
<1>3. \A i \in Slots : Place(i) < Place(head) /\ i # tail =>
           LeaveSpeed(i) <= block[i].entry + block[i].length
  BY <1>1, ReachRead DEF Drive, Settled
<1>4. /\ tail \in Slots /\ NextSlot(tail) \in Slots /\ NextSlot(tail) # tail /\ NextEntry \in Nat
  BY Starting, Turning DEF TypeOK
<1>5. \A i \in Slots : Place(i) < Place(head) => NextSlot(i) \in Slots /\ NextSlot(i) # tail
  BY Following
<1>6. NextEntry = After(tail)
  BY <1>1, <1>4 DEF NextEntry, After
<1>7. \A i \in Slots : Place(i) < Place(head) => LeaveSpeed(i) = After(i)
  BY <1>1, <1>5 DEF LeaveSpeed, After
<1>. HIDE DEF rest
<1>8. CASE ~(rest = 0 /\ stop' = 0)
  <2>1. \A i \in Slots : Place(i) < Place(head') /\ i # tail =>
          After(i) <= block'[i].entry + block'[i].length
    BY <1>1, <1>3, <1>7
  <2>2. mode' # "hold" => After(tail) <= speed' + block'[tail].length
    <3>1. mode' # "hold" => mode = "cycle"
      BY <1>1
    <3>2. mode = "cycle" => After(tail) <= speed' + rest /\ block'[tail].length = rest
      BY <1>1, <1>2, <1>6
    <3>. QED
      BY <3>1, <3>2
  <2>. QED
    BY <1>1, <1>8, <2>1, <2>2, ReachInPlace
<1>9. CASE rest = 0 /\ stop' = 0
  <2>1. /\ Slots' = Slots
        /\ Empty' <=> head = tail'
        /\ NextEntry' = IF NextSlot(tail') = head THEN 0 ELSE block'[NextSlot(tail')].entry
        /\ tail' \in Slots /\ tail' # tail
        /\ head # tail' => Place(tail') < Place(head)
        /\ \A i \in Slots :
             /\ i \in Waiting' <=> Place(i) < Place(head) /\ i # tail /\ i # tail'
             /\ LeaveSpeed(i)' = IF NextSlot(i) = head THEN 0 ELSE block'[NextSlot(i)].entry
    BY <1>1, <1>9, Passing
  <2>2. Waiting' \subseteq Slots
    BY <2>1 DEF Waiting
  <2>3. ASSUME NEW i \in Waiting'
        PROVE  LeaveSpeed(i)' <= block'[i].entry + block'[i].length
    <3>1. i \in Slots /\ Place(i) < Place(head) /\ i # tail
      BY <2>1, <2>2, <2>3
    <3>2. LeaveSpeed(i)' = LeaveSpeed(i)
      BY <1>1, <1>7, <2>1, <3>1 DEF After
    <3>. QED
      BY <1>1, <1>3, <3>1, <3>2
  <2>4. ASSUME head # tail', mode' # "hold"
        PROVE  NextEntry' <= speed' + block'[tail'].length
    <3>. DEFINE n == tail'
    <3>1. n \in Slots /\ Place(n) < Place(head) /\ n # tail /\ n = NextSlot(tail)
      BY <1>1, <1>9, <2>1, <2>4
    <3>2. block'[n] = block[n]
      BY <1>1, <3>1
    <3>3. NextEntry = block[n].entry
      BY <2>4, <3>1 DEF NextEntry
    <3>4. speed' = block[n].entry
      BY <1>1, <1>2, <1>9, <2>4, <3>3
    <3>5. NextEntry' = LeaveSpeed(n)
      <4>. HIDE DEF n
      <4>. QED
        BY <1>1, <1>7, <2>1, <3>1 DEF n, After
    <3>6. LeaveSpeed(n) <= block[n].entry + block[n].length
      BY <1>3, <3>1
    <3>. QED
      BY <3>2, <3>4, <3>5, <3>6
  <2>. QED
    BY <2>1, <2>3, <2>4 DEF ReachInv
<1>. QED
  BY <1>8, <1>9

\* Every step leaves what it takes to reach the next block.
LEMMA ReachStep ==
  ASSUME TypeOK, SweepInv, Drive, job.trend = "raise", Next
  PROVE  ReachInv'
<1>0. TypeOK'
  BY TypeStep
<1>1. CASE \E m \in job.moves : PlanLine(m)
  BY <1>0, <1>1, ReachLine
<1>2. /\ tail \in Slots /\ head \in Slots /\ Place(tail) = 0
      /\ \A i \in Slots : Place(i) \in Nat
      /\ \A i \in Slots : Place(i) < Place(head) =>
           /\ NextSlot(i) \in Slots /\ NextSlot(i) # tail
           /\ Place(NextSlot(i)) = Place(i) + 1
           /\ NextSlot(i) # head <=> Place(NextSlot(i)) < Place(head)
  BY Following
<1>3. CASE PlanNothing \/ CycleStart \/ FeedHold \/ CycleDone \/ ProgramEnd
  <2>1. SameEntries /\ pass = "none"
    BY <1>3, Idly
  <2>2. mode' # "hold" => mode # "hold"
    BY <1>3 DEF PlanNothing, CycleStart, FeedHold, CycleDone, ProgramEnd
  <2>3. /\ UNCHANGED <<job, tail, head, speed>>
        /\ \A i \in Slots : Place(i) < Place(head) =>
             /\ block'[i].length = block[i].length
             /\ i # tail => block'[i].entry = block[i].entry
    BY <2>1 DEF SameEntries, SameMoves, SameMove
  <2>4. ASSUME NEW i \in Slots, Place(i) < Place(head)
        PROVE  Settled(i) /\ After(i) = LeaveSpeed(i)
    <3>1. Settled(i)
      BY <2>1 DEF Settled
    <3>2. CASE NextSlot(i) = head
      <4>1. head' = head
        BY <2>3
      <4>. QED
        BY <3>1, <3>2, <4>1 DEF After, LeaveSpeed
    <3>3. CASE NextSlot(i) # head
      <4>1. head' = head
        BY <2>3
      <4>2. block'[NextSlot(i)].entry = block[NextSlot(i)].entry
        BY <1>2, <2>3, <2>4, <3>3
      <4>. QED
        BY <3>1, <3>3, <4>1, <4>2 DEF After, LeaveSpeed
    <3>. QED
      BY <3>1, <3>2, <3>3
  <2>. QED
    BY <1>0, <2>2, <2>3, <2>4, ReachKept DEF Drive
<1>4. CASE Reverse
  BY <1>0, <1>4, ReachReverse
<1>5. CASE Forward
  BY <1>0, <1>5, ReachForward
<1>6. CASE ForwardDone
  <2>1. /\ UNCHANGED <<job, tail, head, speed, block, mode>> /\ pass = "forward" /\ index = head
    BY <1>6 DEF ForwardDone, ring, prep
  <2>2. ASSUME NEW i \in Slots, Place(i) < Place(head)
        PROVE  \/ After(i) = 0
               \/ Settled(i) /\ After(i) = LeaveSpeed(i)
    <3>1. CASE NextSlot(i) = head
      BY <2>1, <3>1 DEF After
    <3>2. CASE NextSlot(i) # head
      <4>1. Place(i) + 1 < Place(index)
        BY <1>2, <2>1, <2>2, <3>2
      <4>. QED
        BY <2>1, <4>1 DEF After, LeaveSpeed, Settled
    <3>. QED
      BY <3>1, <3>2
  <2>. QED
    BY <1>0, <2>1, <2>2, ReachKept DEF Drive
<1>7. CASE \E o \in job.overrides : Override(o)
  <2>. SUFFICES ASSUME NEW o \in job.overrides, Override(o)
                PROVE  ReachInv'
    BY <1>7
  <2>1. UNCHANGED <<job, tail, speed>> /\ Recalculate(Rated(o), head, tail, TRUE)
    BY OverridePlanned DEF Override
  <2>2. Rated(o) \in [Slots -> Blocks]
    BY MaxRises, Rating, PlannerAssumption DEF Drive
  <2>. QED
    BY <1>0, <2>1, <2>2, ReachAgain
<1>8. CASE \E part \in 0 .. block[tail].length : PrepSegment(part)
  BY <1>0, <1>8, ReachSegment
<1>9. CASE HoldDone
  <2>1. UNCHANGED <<job, tail, speed>> /\ Recalculate(block, head, tail, TRUE)
    BY <1>9 DEF HoldDone, Reinitialize
  <2>2. block \in [Slots -> Blocks]
    BY DEF TypeOK, Blocks
  <2>. QED
    BY <1>0, <2>1, <2>2, ReachAgain
<1>10. CASE JogCancelled \/ Reset
  BY <1>0, <1>10, Flushed DEF ReachInv
<1>. QED
  BY <1>1, <1>3, <1>4, <1>5, <1>6, <1>7, <1>8, <1>9, <1>10 DEF Next

-----------------------------------------------------------------------------
(* The best plan *)

\* What is best after the step, read in the old ring.
Forth(i) == \/ block'[i].entry = block'[i].max
            \/ block'[i].entry = (IF PrevSlot(i) = tail THEN speed' ELSE block'[PrevSlot(i)].entry)
                                 + block'[PrevSlot(i)].length
Back(i) == \/ block'[i].entry = block'[i].max
           \/ block'[i].entry = After(i) + block'[i].length

\* The blocks that are best, and those that no forward pass has reached yet.
Upto(i) == \/ pass' = "none"
           \/ pass' = "reverse" /\ Place(i) < Place(planned')
           \/ pass' = "forward" /\ Place(i) < Place(index')
Beyond(i) == \/ pass' = "reverse" /\ Place(index') < Place(i)
             \/ pass' = "forward" /\ Place(index') <= Place(i)

\* The same before the step, in terms of places.
LEMMA BestRead ==
  ASSUME TypeOK, BestInv, mode # "hold"
  PROVE  /\ Place(planned) < Place(head) /\ planned # tail => BestForward(planned)
         /\ \A i \in Slots : Place(i) < Place(head) /\ i # tail =>
              /\ pass = "none" => BestForward(i) \/ BestBack(i)
              /\ pass = "reverse" /\ Place(i) < Place(planned) => BestForward(i) \/ BestBack(i)
              /\ pass = "forward" /\ Place(i) < Place(index) => BestForward(i) \/ BestBack(i)
              /\ pass = "reverse" /\ Place(index) < Place(i) => BestBack(i)
              /\ pass = "forward" /\ Place(index) <= Place(i) => BestBack(i)
<1>1. \A i \in Slots : Place(i) < Place(head) /\ i # tail => i \in Waiting
  BY Reading
<1>2. Place(planned) < Place(head) => Queued(planned)
  BY Ends DEF Queued
<1>3. Queued(planned) /\ planned # tail => BestForward(planned)
  BY DEF BestInv
<1>4. ASSUME NEW i \in Waiting
      PROVE  /\ pass = "none" => BestForward(i) \/ BestBack(i)
             /\ pass = "reverse" /\ Place(i) < Place(planned) => BestForward(i) \/ BestBack(i)
             /\ pass = "forward" /\ Place(i) < Place(index) => BestForward(i) \/ BestBack(i)
  BY <1>4 DEF BestInv
<1>5. ASSUME NEW i \in Waiting
      PROVE  /\ pass = "reverse" /\ Place(index) < Place(i) => BestBack(i)
             /\ pass = "forward" /\ Place(index) <= Place(i) => BestBack(i)
  <2>1. /\ pass = "reverse" /\ Place(i) > Place(index) => BestBack(i)
        /\ pass = "forward" /\ Place(i) >= Place(index) => BestBack(i)
    BY <1>5 DEF BestInv
  <2>2. Place(i) \in Nat /\ Place(index) \in Nat
    BY <1>5, Ends DEF Waiting
  <2>. QED
    BY <2>1, <2>2
<1>. QED
  BY <1>1, <1>2, <1>3, <1>4, <1>5

\* After a step that leaves the tail.
LEMMA BestInPlace ==
  ASSUME TypeOK', job' = job, tail' = tail,
         mode' # "hold" => /\ Place(planned') < Place(head') /\ planned' # tail => Forth(planned')
                           /\ \A i \in Slots : Place(i) < Place(head') /\ i # tail =>
                                /\ Upto(i) => Forth(i) \/ Back(i)
                                /\ Beyond(i) => Back(i)
  PROVE  BestInv'
<1>1. /\ Slots' = Slots
      /\ Queued(planned)' <=> Place(planned') < Place(head')
      /\ \A i \in Slots :
           /\ i \in Waiting' <=> Place(i) < Place(head') /\ i # tail
           /\ LeaveSpeed(i)' = After(i)
           /\ Reached(i)' = (IF PrevSlot(i) = tail THEN speed' ELSE block'[PrevSlot(i)].entry)
                            + block'[PrevSlot(i)].length
  BY InPlace DEF After
<1>2. \A i \in Slots : (BestForward(i)' <=> Forth(i)) /\ (BestBack(i)' <=> Back(i))
  BY <1>1 DEF BestForward, BestBack, Forth, Back
<1>3. Waiting' \subseteq Slots /\ planned' \in Slots
  BY <1>1 DEF Waiting, TypeOK
<1>4. BestForward(planned)' <=> Forth(planned')
  <2>1. Reached(planned)' = (IF PrevSlot(planned') = tail THEN speed' ELSE block'[PrevSlot(planned')].entry)
                            + block'[PrevSlot(planned')].length
    BY DEF Reached, PrevSlot
  <2>. QED
    BY <2>1 DEF BestForward, Forth
<1>5. ASSUME mode' # "hold"
      PROVE  Queued(planned)' /\ planned' # tail' => BestForward(planned)'
  BY <1>1, <1>4, <1>5
<1>6. job.blocks \in Nat /\ tail \in Slots /\ \A i \in Slots : Place(i) \in Nat
  <2>1. job \in Jobs /\ tail \in Slots
    BY <1>1 DEF TypeOK
  <2>. QED
    BY <2>1, Placing, RingSize
<1>7. /\ Place(planned)' = Place(planned') /\ Place(index)' = Place(index')
      /\ \A i : Place(i)' = Place(i)
      /\ index' \in Slots
  BY <1>1 DEF Place, TypeOK
<1>8. ASSUME mode' # "hold", NEW i \in Waiting',
             \/ pass' = "none"
             \/ pass' = "reverse" /\ Place(i)' < Place(planned)'
             \/ pass' = "forward" /\ Place(i)' < Place(index)'
      PROVE  BestForward(i)' \/ BestBack(i)'
  <2>1. i \in Slots /\ Place(i) < Place(head') /\ i # tail
    BY <1>1, <1>3, <1>8
  <2>2. Upto(i)
    BY <1>7, <1>8 DEF Upto
  <2>. QED
    BY <1>2, <1>8, <2>1, <2>2
<1>9. ASSUME mode' # "hold", NEW i \in Waiting',
             \/ pass' = "reverse" /\ Place(i)' > Place(index)'
             \/ pass' = "forward" /\ Place(i)' >= Place(index)'
      PROVE  BestBack(i)'
  <2>1. i \in Slots /\ Place(i) < Place(head') /\ i # tail
    BY <1>1, <1>3, <1>9
  <2>2. Beyond(i)
    BY <1>6, <1>7, <1>9, <2>1 DEF Beyond
  <2>. QED
    BY <1>2, <1>9, <2>1, <2>2
<1>. QED
  BY <1>5, <1>8, <1>9 DEF BestInv

\* Where a block and the one before it stay as they are, so does what is best.
LEMMA ForthKept ==
  ASSUME NEW i, BestForward(i), speed' = speed,
         block'[i].entry = block[i].entry, block'[i].max = block[i].max,
         PrevSlot(i) # tail => block'[PrevSlot(i)].entry = block[PrevSlot(i)].entry,
         block'[PrevSlot(i)].length = block[PrevSlot(i)].length
  PROVE  Forth(i)
  BY DEF BestForward, Reached, Forth

\* And the one behind.
LEMMA BackKept ==
  ASSUME NEW i, BestBack(i), After(i) = LeaveSpeed(i),
         block'[i].entry = block[i].entry, block'[i].max = block[i].max,
         block'[i].length = block[i].length
  PROVE  Back(i)
  BY DEF BestBack, Back

\* A sweep of the whole plan begins with the last block, which is as fast as can end at rest.
LEMMA BestAgain ==
  ASSUME TypeOK, TypeOK', SweepInv, NEW b \in [Slots -> Blocks], Recalculate(b, head, tail, TRUE),
         UNCHANGED <<job, tail>>
  PROVE  BestInv'
<1>. DEFINE last == PrevSlot(head)
<1>1. /\ planned' = tail /\ head' = head
      /\ \A j \in Slots :
           /\ block'[j].max = b[j].max /\ block'[j].length = b[j].length
           /\ j = last /\ j # tail => block'[j].entry = Stoppable(b[j])
      /\ last = tail => pass' = "none"
      /\ last # tail /\ PrevSlot(last) = tail => pass' = "forward" /\ index' = last
      /\ last # tail /\ PrevSlot(last) # tail => pass' = "reverse" /\ index' = PrevSlot(last)
  BY AgainIs DEF SameMove
<1>2. /\ tail \in Slots /\ head \in Slots /\ last \in Slots /\ Place(tail) = 0
      /\ NextSlot(last) = head
      /\ \A i \in Slots : /\ Place(i) \in Nat /\ (Place(i) = 0 <=> i = tail)
                          /\ PrevSlot(i) \in Slots
                          /\ i = tail \/ Place(PrevSlot(i)) = Place(i) - 1
      /\ \A i, j \in Slots : Place(i) = Place(j) => i = j
  BY Ends
<1>. HIDE DEF last
<1>3. ASSUME NEW i \in Slots, Place(i) < Place(head), i # tail
      PROVE  ~Upto(i) /\ (Beyond(i) => i = last)
  <2>0. head # tail
    BY <1>2, <1>3
  <2>1. Place(last) = Place(head) - 1
    BY <1>2, <2>0 DEF last
  <2>2. last # tail
    BY <1>2, <1>3, <2>1
  <2>3. Place(PrevSlot(last)) = Place(last) - 1
    BY <1>2, <2>2
  <2>4. CASE PrevSlot(last) = tail
    <3>1. pass' = "forward" /\ index' = last /\ Place(last) = 1
      BY <1>1, <1>2, <2>2, <2>3, <2>4
    <3>2. Place(i) > 0
      BY <1>2, <1>3
    <3>3. ~Upto(i)
      BY <1>2, <3>1, <3>2 DEF Upto
    <3>4. Place(i) = Place(last)
      BY <1>2, <1>3, <2>1, <3>1, <3>2
    <3>. QED
      BY <1>2, <3>3, <3>4
  <2>5. CASE PrevSlot(last) # tail
    <3>1. pass' = "reverse" /\ index' = PrevSlot(last) /\ planned' = tail
      BY <1>1, <2>2, <2>5
    <3>2. ~Upto(i)
      BY <1>2, <3>1 DEF Upto
    <3>3. Beyond(i) => Place(PrevSlot(last)) < Place(i)
      BY <3>1 DEF Beyond
    <3>4. Place(PrevSlot(last)) < Place(i) => Place(i) = Place(last)
      BY <1>2, <1>3, <2>1, <2>3
    <3>. QED
      BY <1>2, <3>2, <3>3, <3>4
  <2>. QED
    BY <2>4, <2>5
<1>4. last # tail => Back(last)
  <2>. SUFFICES ASSUME last # tail
                PROVE  Back(last)
    OBVIOUS
  <2>1. block'[last].entry = Stoppable(b[last]) /\ b[last].length \in Nat /\ b[last].max \in Nat
    BY <1>1, <1>2 DEF Blocks, Speeds
  <2>2. After(last) = 0
    BY <1>1, <1>2 DEF After
  <2>3. Stoppable(b[last]) = b[last].max \/ Stoppable(b[last]) = b[last].length
    BY DEF Stoppable, Least
  <2>. QED
    BY <1>1, <1>2, <2>1, <2>2, <2>3 DEF Back
<1>. QED
  BY <1>1, <1>3, <1>4, BestInPlace

\* A new block is as fast as can end at rest; those before the planned one are not touched,
\* and that one cannot be made faster.
LEMMA BestLine ==
  ASSUME TypeOK, TypeOK', SweepInv, Drive, NEW m \in job.moves, PlanLine(m)
  PROVE  BestInv'
<1>1. /\ UNCHANGED <<job, tail, speed, planned, mode>> /\ pass = "none"
      /\ head' = NextSlot(head) /\ head' # tail /\ Place(head') = Place(head) + 1
      /\ SameMove(New(m), block'[head])
      /\ block'[head].entry = IF planned = head THEN 0 ELSE Stoppable(New(m))
      /\ \A j \in Slots : j # head =>
           /\ SameMove(block[j], block'[j])
           /\ j # tail => block'[j].entry = block[j].entry
      /\ head # tail => Place(planned) < Place(head) /\ planned # head
      /\ planned # head /\ PrevSlot(head) = planned => pass' = "forward" /\ index' = head
      /\ planned # head /\ PrevSlot(head) # planned => pass' = "reverse" /\ index' = PrevSlot(head)
  BY LineIs
<1>2. /\ head \in Slots /\ tail \in Slots /\ Place(head) \in Nat /\ Place(tail) = 0
      /\ \A i \in Slots : Place(i) \in Nat
      /\ \A i \in Slots : Place(i) < Place(head) =>
           /\ NextSlot(i) \in Slots /\ NextSlot(i) # tail
           /\ Place(NextSlot(i)) = Place(i) + 1
           /\ i # tail => /\ PrevSlot(i) \in Slots
                          /\ Place(PrevSlot(i)) < Place(head)
      /\ \A i, j \in Slots : Place(i) = Place(j) => i = j
      /\ planned \in Slots
      /\ head # tail => Place(PrevSlot(head)) = Place(head) - 1
  BY Following, Ends
<1>3. ASSUME NEW i \in Slots, Place(i) < Place(head), i # tail
      PROVE  /\ BestForward(i) => Forth(i)
             /\ BestBack(i) /\ Place(i) + 1 < Place(head) => Back(i)
  <2>1. /\ i # head /\ PrevSlot(i) # head /\ PrevSlot(i) \in Slots
    BY <1>2, <1>3
  <2>2. /\ block'[i].entry = block[i].entry /\ block'[i].max = block[i].max
        /\ block'[i].length = block[i].length
        /\ PrevSlot(i) # tail => block'[PrevSlot(i)].entry = block[PrevSlot(i)].entry
        /\ block'[PrevSlot(i)].length = block[PrevSlot(i)].length
    BY <1>1, <1>3, <2>1 DEF SameMove
  <2>3. BestForward(i) => Forth(i)
    BY <1>1, <2>2, ForthKept
  <2>4. ASSUME Place(i) + 1 < Place(head), BestBack(i)
        PROVE  Back(i)
    <3>. DEFINE n == NextSlot(i)
    <3>1. n \in Slots /\ n # tail /\ n # head /\ n # head'
      BY <1>1, <1>2, <1>3, <2>4
    <3>2. block'[n].entry = block[n].entry
      BY <1>1, <3>1
    <3>3. After(i) = LeaveSpeed(i)
      BY <3>1, <3>2 DEF After, LeaveSpeed
    <3>. QED
      BY <2>2, <2>4, <3>3, BackKept
  <2>. QED
    BY <2>3, <2>4
<1>4. planned # head => Back(head)
  <2>. SUFFICES ASSUME planned # head
                PROVE  Back(head)
    OBVIOUS
  <2>1. block'[head].entry = Stoppable(New(m)) /\ New(m).length \in Nat
    BY <1>1, Planned DEF Blocks
  <2>2. After(head) = 0
    BY <1>1 DEF After
  <2>3. Stoppable(New(m)) = New(m).max \/ Stoppable(New(m)) = New(m).length
    BY DEF Stoppable, Least
  <2>. QED
    BY <1>1, <2>1, <2>2, <2>3 DEF Back, SameMove
<1>5. CASE head = tail
  <2>1. Place(head') = 1
    BY <1>1, <1>2, <1>5
  <2>2. \A i \in Slots : Place(i) < Place(head') => i = tail
    BY <1>2, <2>1
  <2>. QED
    BY <1>1, <1>2, <2>2, BestInPlace
<1>6. CASE head # tail /\ mode # "hold"
  <2>1. Place(planned) < Place(head) /\ planned # head
    BY <1>1, <1>6
  <2>2. /\ planned # tail => BestForward(planned)
        /\ \A i \in Slots : Place(i) < Place(head) /\ i # tail => BestForward(i) \/ BestBack(i)
    BY <1>1, <1>6, <2>1, BestRead DEF Drive
  <2>3. planned # tail => Forth(planned)
    BY <1>2, <1>3, <2>1, <2>2
  <2>4. ASSUME NEW i \in Slots, Place(i) < Place(head'), i # tail, Upto(i)
        PROVE  Forth(i) \/ Back(i)
    <3>1. Place(i) < Place(head)
      <4>1. CASE pass' = "forward" /\ index' = head
        BY <2>4, <4>1 DEF Upto
      <4>2. CASE pass' = "reverse"
        BY <1>1, <1>2, <2>1, <2>4, <4>2 DEF Upto
      <4>. QED
        BY <1>1, <2>1, <4>1, <4>2
    <3>2. CASE i = planned
      BY <2>3, <2>4, <3>2
    <3>3. CASE i # planned
      <4>1. Place(i) + 1 < Place(head)
        <5>1. CASE pass' = "forward" /\ PrevSlot(head) = planned
          <6>1. Place(planned) = Place(head) - 1
            BY <1>2, <1>6, <5>1
          <6>2. Place(i) # Place(planned)
            BY <1>2, <3>3
          <6>. QED
            BY <1>2, <3>1, <6>1, <6>2
        <5>2. CASE pass' = "reverse"
          <6>1. Place(i) < Place(planned)
            BY <1>1, <2>4, <5>2 DEF Upto
          <6>. QED
            BY <1>2, <2>1, <6>1
        <5>. QED
          BY <1>1, <2>1, <5>1, <5>2
      <4>. QED
        BY <1>3, <2>2, <2>4, <3>1, <4>1
    <3>. QED
      BY <3>2, <3>3
  <2>5. ASSUME NEW i \in Slots, Place(i) < Place(head'), i # tail, Beyond(i)
        PROVE  Back(i)
    <3>1. CASE pass' = "forward" /\ index' = head
      <4>1. Place(head) <= Place(i)
        BY <2>5, <3>1 DEF Beyond
      <4>2. i = head
        BY <1>1, <1>2, <2>5, <4>1
      <4>. QED
        BY <1>4, <2>1, <4>2
    <3>2. CASE pass' = "reverse" /\ index' = PrevSlot(head)
      <4>1. Place(PrevSlot(head)) < Place(i)
        BY <2>5, <3>2 DEF Beyond
      <4>2. Place(i) = Place(head)
        <5>. DEFINE p == Place(i)  q == Place(head)  r == Place(PrevSlot(head))
        <5>1. p \in Nat /\ q \in Nat /\ r = q - 1 /\ r < p
          BY <1>2, <1>6, <4>1
        <5>2. p < q + 1
          BY <1>1, <2>5
        <5>. HIDE DEF p, q, r
        <5>3. p = q
          BY <5>1, <5>2
        <5>. QED
          BY <5>3 DEF p, q
      <4>3. i = head
        BY <1>2, <4>2
      <4>. QED
        BY <1>4, <2>1, <4>3
    <3>. QED
      BY <1>1, <2>1, <3>1, <3>2
  <2>. QED
    BY <1>1, <2>3, <2>4, <2>5, BestInPlace
<1>7. CASE mode = "hold"
  BY <1>1, <1>7, BestInPlace
<1>. QED
  BY <1>5, <1>6, <1>7

\* The reverse pass makes one more block as fast as can brake to the next.
LEMMA BestReverse ==
  ASSUME TypeOK, TypeOK', SweepInv, Drive, Reverse
  PROVE  BestInv'
<1>. DEFINE k == index  n == NextSlot(index)
<1>1. /\ UNCHANGED <<job, tail, head, speed, planned, mode>> /\ pass = "reverse"
      /\ \/ pass' = "forward" /\ index' = NextSlot(planned) /\ PrevSlot(k) = planned
         \/ pass' = "reverse" /\ index' = PrevSlot(k)
  BY DEF Reverse
<1>2. /\ \A j \in Slots : /\ block'[j].length = block[j].length /\ block'[j].max = block[j].max
                          /\ j # k /\ j # tail => block'[j].entry = block[j].entry
      /\ block'[k].entry = IF block[k].entry = block[k].max THEN block[k].max
                           ELSE Least(block[k].max, block[n].entry + block[k].length)
  BY Reversed DEF SameMove
<1>3. /\ head \in Slots /\ tail \in Slots /\ k \in Slots /\ planned \in Slots /\ Place(tail) = 0
      /\ \A i \in Slots : Place(i) \in Nat
      /\ \A i \in Slots : Place(i) < Place(head) =>
           /\ NextSlot(i) \in Slots /\ NextSlot(i) # tail
           /\ Place(NextSlot(i)) = Place(i) + 1
           /\ NextSlot(i) # head <=> Place(NextSlot(i)) < Place(head)
           /\ i # tail => /\ PrevSlot(i) \in Slots
                          /\ Place(PrevSlot(i)) = Place(i) - 1
      /\ \A i, j \in Slots : Place(i) = Place(j) => i = j
  BY Following DEF TypeOK
<1>4. Place(planned) < Place(k)
  BY <1>1, SweepRead
<1>5. k # tail /\ Place(PrevSlot(k)) = Place(k) - 1
  BY <1>3, <1>4, Ends
<1>6. PrevSlot(k) = planned => index' = k \/ pass' = "reverse"
  BY <1>1, <1>3, Ends
<1>7. ASSUME NEW i \in Slots, Place(i) < Place(head), i # tail
      PROVE  Place(k) + 1 < Place(head)
  <2>1. head # tail /\ NextSlot(tail) # head
    BY <1>7, Following
  <2>. QED
    BY <1>1, <2>1, SweepRead DEF Within
<1>8. ASSUME NEW i \in Slots, Place(i) < Place(head), i # tail
      PROVE  /\ BestForward(i) /\ Place(i) < Place(k) => Forth(i)
             /\ BestBack(i) /\ i # k /\ NextSlot(i) # k => Back(i)
  <2>1. /\ block'[i].max = block[i].max /\ block'[i].length = block[i].length
        /\ i # k => block'[i].entry = block[i].entry
    BY <1>2, <1>8
  <2>2. ASSUME BestForward(i), Place(i) < Place(k)
        PROVE  Forth(i)
    <3>1. PrevSlot(i) \in Slots /\ PrevSlot(i) # k /\ i # k
      BY <1>3, <1>8, <2>2
    <3>2. /\ PrevSlot(i) # tail => block'[PrevSlot(i)].entry = block[PrevSlot(i)].entry
          /\ block'[PrevSlot(i)].length = block[PrevSlot(i)].length
      BY <1>2, <3>1
    <3>. QED
      BY <1>1, <2>1, <2>2, <3>1, <3>2, ForthKept
  <2>3. ASSUME BestBack(i), i # k, NextSlot(i) # k
        PROVE  Back(i)
    <3>1. NextSlot(i) \in Slots /\ NextSlot(i) # tail
      BY <1>3, <1>8
    <3>2. After(i) = LeaveSpeed(i)
      BY <1>1, <1>2, <2>3, <3>1 DEF After, LeaveSpeed
    <3>. QED
      BY <2>1, <2>3, <3>2, BackKept
  <2>. QED
    BY <2>2, <2>3
<1>9. Place(k) + 1 < Place(head) => Back(k)
  <2>. SUFFICES ASSUME Place(k) + 1 < Place(head)
                PROVE  Back(k)
    OBVIOUS
  <2>0. Place(k) < Place(head)
    BY <1>3
  <2>1. n \in Slots /\ n # tail /\ n # head /\ Place(n) = Place(k) + 1
    BY <1>3, <2>0
  <2>2. n # k
    BY <1>3, <2>1
  <2>3. After(k) = block[n].entry
    BY <1>1, <1>2, <2>1, <2>2 DEF After
  <2>4. \/ block'[k].entry = block[k].max
        \/ block'[k].entry = block[n].entry + block[k].length
    BY <1>2 DEF Least
  <2>. QED
    BY <1>2, <1>3, <2>3, <2>4 DEF Back
<1>. HIDE DEF k, n
<1>10. CASE mode # "hold"
  <2>1. /\ Place(planned) < Place(head) /\ planned # tail => BestForward(planned)
        /\ \A i \in Slots : Place(i) < Place(head) /\ i # tail =>
             /\ Place(i) < Place(planned) => BestForward(i) \/ BestBack(i)
             /\ Place(k) < Place(i) => BestBack(i)
    BY <1>1, <1>10, BestRead DEF Drive, k
  <2>2. Place(planned) < Place(head) /\ planned # tail => Forth(planned)
    BY <1>3, <1>4, <1>8, <2>1
  <2>3. ASSUME NEW i \in Slots, Place(i) < Place(head'), i # tail, Upto(i)
        PROVE  Forth(i) \/ Back(i)
    <3>0. Place(i) < Place(head)
      BY <1>1, <2>3
    <3>1. Place(i) < Place(planned) \/ i = planned
      <4>1. CASE pass' = "reverse"
        BY <1>1, <2>3, <4>1 DEF Upto
      <4>2. CASE pass' = "forward" /\ PrevSlot(k) = planned
        <5>1. Place(i) < Place(k) /\ Place(planned) = Place(k) - 1
          BY <1>1, <1>5, <1>6, <2>3, <4>2 DEF Upto
        <5>2. Place(i) < Place(planned) \/ Place(i) = Place(planned)
          BY <1>3, <5>1
        <5>. QED
          BY <1>3, <5>2
      <4>. QED
        BY <1>1, <4>1, <4>2
    <3>2. CASE i = planned
      BY <2>2, <2>3, <3>0, <3>2
    <3>3. CASE Place(i) < Place(planned)
      <4>1. BestForward(i) \/ BestBack(i)
        BY <2>1, <2>3, <3>0, <3>3
      <4>2. Place(i) < Place(k) /\ i # k /\ NextSlot(i) # k
        BY <1>3, <1>4, <3>0, <3>3
      <4>. QED
        BY <1>8, <2>3, <3>0, <4>1, <4>2
    <3>. QED
      BY <3>1, <3>2, <3>3
  <2>4. ASSUME NEW i \in Slots, Place(i) < Place(head'), i # tail, Beyond(i)
        PROVE  Back(i)
    <3>0. Place(i) < Place(head)
      BY <1>1, <2>4
    <3>1. Place(k) <= Place(i)
      <4>1. CASE pass' = "reverse" /\ index' = PrevSlot(k)
        <5>. DEFINE p == Place(i)  q == Place(k)  r == Place(PrevSlot(k))
        <5>1. p \in Nat /\ q \in Nat /\ r = q - 1
          BY <1>3, <1>5
        <5>2. r < p
          BY <2>4, <4>1 DEF Beyond
        <5>. HIDE DEF p, q, r
        <5>3. q <= p
          BY <5>1, <5>2
        <5>. QED
          BY <5>3 DEF p, q
      <4>2. CASE pass' = "forward" /\ PrevSlot(k) = planned
        BY <1>6, <2>4, <4>2 DEF Beyond
      <4>. QED
        BY <1>1, <4>1, <4>2
    <3>2. CASE i = k
      BY <1>7, <1>9, <2>4, <3>0, <3>2
    <3>3. CASE i # k
      <4>1. Place(k) < Place(i)
        BY <1>3, <3>1, <3>3
      <4>2. NextSlot(i) # k
        BY <1>3, <3>0, <4>1
      <4>. QED
        BY <1>8, <2>1, <2>4, <3>0, <3>3, <4>1, <4>2
    <3>. QED
      BY <3>2, <3>3
  <2>. QED
    BY <1>1, <2>2, <2>3, <2>4, BestInPlace
<1>11. CASE mode = "hold"
  BY <1>1, <1>11, BestInPlace
<1>. QED
  BY <1>10, <1>11

\* The forward pass makes one more block as fast as can be reached, where it is not yet best.
LEMMA BestForwardPass ==
  ASSUME TypeOK, TypeOK', SweepInv, Drive, Forward
  PROVE  BestInv'
<1>. DEFINE k == index  b == PrevSlot(index)  fast == Accelerated(block[b], block[k])
<1>1. UNCHANGED <<job, tail, head, mode, speed>> /\ pass = "forward" /\ pass' = "forward"
  BY ForwardIs DEF Drive
<1>2. k \in Slots /\ b \in Slots /\ index' = NextSlot(k) /\ planned' \in Slots /\ planned \in Slots
  BY ForwardIs DEF Drive
<1>3. \A j \in Slots : block'[j].max = block[j].max /\ block'[j].length = block[j].length
  BY ForwardIs DEF Drive
<1>4. \A j \in Slots : j # k => block'[j].entry = block[j].entry
  BY ForwardIs DEF Drive
<1>5. /\ ~fast => block'[k].entry = block[k].entry
      /\ fast => block'[k].entry = block[b].entry + block[b].length
  BY ForwardIs DEF Drive
<1>6. \/ planned' = k /\ (fast \/ block'[k].entry = block[k].max)
      \/ planned' = planned
  BY ForwardIs DEF Drive
<1>7. head # tail /\ NextSlot(tail) # head =>
           /\ Place(planned) < Place(head) /\ Place(k) < Place(head) /\ k # tail
           /\ Place(planned) < Place(k) /\ Place(index') = Place(k) + 1
           /\ NextSlot(b) = k
           /\ b = tail /\ mode # "hold" => block[tail].entry = speed
  BY ForwardIs DEF Drive
<1>8. /\ head \in Slots /\ tail \in Slots /\ Place(tail) = 0
      /\ \A i \in Slots : Place(i) \in Nat
      /\ \A i \in Slots : Place(i) < Place(head) =>
           /\ NextSlot(i) \in Slots /\ NextSlot(i) # tail /\ NextSlot(i) # i
           /\ Place(NextSlot(i)) = Place(i) + 1
           /\ i # tail => /\ PrevSlot(i) \in Slots
                          /\ Place(PrevSlot(i)) = Place(i) - 1
      /\ \A i, j \in Slots : Place(i) = Place(j) => i = j
      /\ \A i \in Slots : PrevSlot(NextSlot(i)) = i
  BY Following, Ends
<1>9. \A i \in Slots : block[i].entry \in Nat /\ block[i].length \in Nat /\ block[i].max \in Nat
  BY Fields
<1>10. fast => block[b].entry # block[k].entry + block[b].length
  BY <1>2, <1>9 DEF Accelerated
<1>. HIDE DEF fast
<1>11. CASE mode = "hold"
  BY <1>1, <1>11, BestInPlace
<1>12. CASE head = tail \/ NextSlot(tail) = head
  <2>1. \A i \in Slots : Place(i) < Place(head) => i = tail
    <3>1. Place(head) = 0 \/ Place(head) = 1
      BY <1>8, <1>12, Following
    <3>. QED
      BY <1>8, <3>1
  <2>. QED
    BY <1>1, <1>2, <2>1, BestInPlace
<1>13. CASE mode # "hold" /\ head # tail /\ NextSlot(tail) # head
  <2>1. /\ planned # tail => BestForward(planned)
        /\ \A i \in Slots : Place(i) < Place(head) /\ i # tail =>
             /\ Place(i) < Place(k) => BestForward(i) \/ BestBack(i)
             /\ Place(k) <= Place(i) => BestBack(i)
    BY <1>1, <1>7, <1>13, BestRead DEF Drive
  <2>2. Place(k) < Place(head) /\ k # tail /\ k # b /\ NextSlot(b) = k /\ k # head
    BY <1>2, <1>7, <1>8, <1>13
  <2>3. ASSUME fast \/ block'[k].entry = block[k].max
        PROVE  Forth(k)
    <3>1. block'[b].entry = block[b].entry /\ block'[b].length = block[b].length
      BY <1>2, <1>3, <1>4, <2>2
    <3>2. b = tail => block[b].entry = speed
      BY <1>7, <1>13
    <3>3. CASE fast
      BY <1>1, <1>5, <3>1, <3>2, <3>3 DEF Forth
    <3>4. CASE block'[k].entry = block[k].max
      BY <1>2, <1>3, <3>4 DEF Forth
    <3>. QED
      BY <2>3, <3>3, <3>4
  <2>. HIDE DEF k, b
  <2>4. ASSUME NEW i \in Slots, Place(i) < Place(head), i # tail
        PROVE  /\ BestForward(i) /\ Place(i) < Place(k) => Forth(i)
               /\ BestBack(i) /\ i # k /\ NextSlot(i) # k => Back(i)
    <3>1. /\ block'[i].max = block[i].max /\ block'[i].length = block[i].length
          /\ i # k => block'[i].entry = block[i].entry
      BY <1>3, <1>4, <2>4
    <3>2. ASSUME BestForward(i), Place(i) < Place(k)
          PROVE  Forth(i)
      <4>1. PrevSlot(i) \in Slots /\ PrevSlot(i) # k /\ i # k
        BY <1>8, <2>4, <3>2
      <4>2. /\ block'[PrevSlot(i)].entry = block[PrevSlot(i)].entry
            /\ block'[PrevSlot(i)].length = block[PrevSlot(i)].length
        BY <1>3, <1>4, <4>1
      <4>. QED
        BY <1>1, <3>1, <3>2, <4>1, <4>2, ForthKept
    <3>3. ASSUME BestBack(i), i # k, NextSlot(i) # k
          PROVE  Back(i)
      <4>1. NextSlot(i) \in Slots
        BY <1>8, <2>4
      <4>2. After(i) = LeaveSpeed(i)
        BY <1>1, <1>4, <3>3, <4>1 DEF After, LeaveSpeed
      <4>. QED
        BY <3>1, <3>3, <4>2, BackKept
    <3>. QED
      BY <3>2, <3>3
  <2>5. planned' # tail => Forth(planned')
    <3>1. CASE planned' = k /\ (fast \/ block'[k].entry = block[k].max)
      BY <2>3, <3>1
    <3>2. CASE planned' = planned
      BY <1>2, <1>7, <1>13, <2>1, <2>4, <3>2
    <3>. QED
      BY <1>6, <3>1, <3>2
  <2>6. ASSUME NEW i \in Slots, Place(i) < Place(head'), i # tail, Upto(i)
        PROVE  Forth(i) \/ Back(i)
    <3>0. Place(i) < Place(head)
      BY <1>1, <2>6
    <3>1. Place(i) < Place(k) + 1
      BY <1>1, <1>7, <1>13, <2>6 DEF Upto
    <3>2. CASE i = k
      <4>1. CASE fast
        BY <2>3, <3>2, <4>1
      <4>2. CASE ~fast
        <5>1. BestBack(k)
          BY <1>2, <1>8, <2>1, <2>2
        <5>2. block'[k].entry = block[k].entry
          BY <1>5, <4>2
        <5>3. NextSlot(k) \in Slots /\ NextSlot(k) # k
          BY <1>2, <1>8, <2>2
        <5>4. After(k) = LeaveSpeed(k)
          BY <1>1, <1>4, <5>3 DEF After, LeaveSpeed
        <5>5. Back(k)
          BY <1>2, <1>3, <5>1, <5>2, <5>4, BackKept
        <5>. QED
          BY <3>2, <5>5
      <4>. QED
        BY <4>1, <4>2
    <3>3. CASE i # k
      <4>1. Place(i) < Place(k)
        BY <1>2, <1>8, <3>1, <3>3
      <4>2. BestForward(i) \/ BestBack(i)
        BY <2>1, <2>6, <3>0, <4>1
      <4>3. CASE BestForward(i)
        BY <2>4, <2>6, <3>0, <4>1, <4>3
      <4>4. CASE BestBack(i) /\ NextSlot(i) # k
        BY <2>4, <2>6, <3>0, <3>3, <4>4
      <4>5. CASE BestBack(i) /\ NextSlot(i) = k
        <5>1. i = b
          BY <1>8, <4>5 DEF b, k
        <5>2. LeaveSpeed(i) = block[k].entry
          BY <2>2, <4>5 DEF LeaveSpeed
        <5>3. /\ block'[i].entry = block[i].entry /\ block'[i].max = block[i].max
              /\ block'[i].length = block[i].length
          BY <1>3, <1>4, <3>3
        <5>4. CASE fast
          <6>1. block[i].entry = block[i].max
            BY <1>10, <4>5, <5>1, <5>2, <5>4 DEF BestBack
          <6>. QED
            BY <5>3, <6>1 DEF Back
        <5>5. CASE ~fast
          <6>1. After(i) = LeaveSpeed(i)
            BY <1>1, <1>5, <2>2, <4>5, <5>2, <5>5 DEF After
          <6>. QED
            BY <4>5, <5>3, <6>1, BackKept
        <5>. QED
          BY <5>4, <5>5
      <4>. QED
        BY <4>2, <4>3, <4>4, <4>5
    <3>. QED
      BY <3>2, <3>3
  <2>7. ASSUME NEW i \in Slots, Place(i) < Place(head'), i # tail, Beyond(i)
        PROVE  Back(i)
    <3>0. Place(i) < Place(head)
      BY <1>1, <2>7
    <3>1. Place(k) + 1 <= Place(i)
      BY <1>1, <1>7, <1>13, <2>7 DEF Beyond
    <3>2. Place(k) <= Place(i) /\ i # k /\ NextSlot(i) # k
      BY <1>2, <1>8, <3>0, <3>1
    <3>. QED
      BY <2>1, <2>4, <2>7, <3>0, <3>2
  <2>. QED
    BY <1>1, <2>5, <2>6, <2>7, BestInPlace
<1>. QED
  BY <1>11, <1>12, <1>13

\* Along a segment what is best stays so, for the next block and for those behind it.
LEMMA BestSegment ==
  ASSUME TypeOK, TypeOK', SweepInv, Drive, NEW part \in 0 .. block[tail].length, PrepSegment(part)
  PROVE  BestInv'
<1>. DEFINE rest == block[tail].length - part - Ramp.stop
<1>1. /\ UNCHANGED <<job, head, mode>>
      /\ head # tail /\ mode \in {"cycle", "hold"} /\ pass = "none" /\ pass' = "none"
      /\ rest \in Nat /\ part \in Nat /\ stop' \in Nat /\ exit' \in Nat /\ speed' \in Nat
      /\ \A j \in Slots : j # tail => block'[j] = block[j]
      /\ \A j \in Slots : block'[j].max = block[j].max
      /\ block'[tail].length = rest + stop'
      /\ block[tail].length = part + rest + stop'
      /\ rest = 0 /\ stop' = 0 => /\ tail' = NextSlot(tail)
                                  /\ planned' = IF planned = tail THEN NextSlot(tail) ELSE planned
      /\ ~(rest = 0 /\ stop' = 0) => tail' = tail /\ planned' = planned
  BY SegmentIs
<1>2. /\ rest = 0 => speed' = exit'
      /\ mode = "cycle" => /\ stop' = 0 /\ exit' = NextEntry
                           /\ NextEntry = speed + part + rest => NextEntry = speed' + rest
  BY Driven
<1>3. /\ tail \in Slots /\ head \in Slots /\ planned \in Slots /\ Place(tail) = 0
      /\ \A i \in Slots : Place(i) \in Nat
      /\ \A i \in Slots : Place(i) < Place(head) =>
           /\ NextSlot(i) \in Slots /\ NextSlot(i) # tail
           /\ NextSlot(i) # head <=> Place(NextSlot(i)) < Place(head)
           /\ i # tail => PrevSlot(i) \in Slots /\ NextSlot(PrevSlot(i)) = i
  BY Following DEF TypeOK
<1>4. \A i \in Slots : Place(i) < Place(head) => LeaveSpeed(i) = After(i)
  BY <1>1, <1>3 DEF LeaveSpeed, After
<1>5. speed \in Nat
  BY Fields
<1>. HIDE DEF rest
<1>6. CASE mode = "hold"
  BY <1>1, <1>6 DEF BestInv
<1>7. CASE mode = "cycle" /\ rest # 0
  <2>1. tail' = tail /\ planned' = planned /\ stop' = 0
    BY <1>1, <1>2, <1>7
  <2>2. /\ Place(planned) < Place(head) /\ planned # tail => BestForward(planned)
        /\ \A i \in Slots : Place(i) < Place(head) /\ i # tail => BestForward(i) \/ BestBack(i)
    BY <1>1, <1>7, BestRead DEF Drive
  <2>3. ASSUME NEW i \in Slots, Place(i) < Place(head), i # tail
        PROVE  /\ BestForward(i) => Forth(i)
               /\ BestBack(i) => Back(i)
    <3>1. block'[i] = block[i] /\ After(i) = LeaveSpeed(i)
      BY <1>1, <1>4, <2>3
    <3>2. BestBack(i) => Back(i)
      BY <3>1 DEF BestBack, Back
    <3>3. ASSUME BestForward(i), PrevSlot(i) = tail
          PROVE  Forth(i)
      <4>1. NextSlot(tail) = i /\ i # head
        BY <1>3, <2>3, <3>3
      <4>2. NextEntry = block[i].entry
        BY <4>1 DEF NextEntry
      <4>3. Reached(i) = speed + block[tail].length
        BY <3>3 DEF Reached
      <4>4. CASE block[i].entry = block[i].max
        BY <3>1, <4>4 DEF Forth
      <4>5. CASE block[i].entry = Reached(i)
        <5>1. NextEntry = speed + part + rest
          BY <1>1, <1>5, <2>1, <4>2, <4>3, <4>5
        <5>2. NextEntry = speed' + rest /\ block'[tail].length = rest
          BY <1>1, <1>2, <1>7, <2>1, <5>1
        <5>. QED
          BY <3>1, <3>3, <4>2, <5>2 DEF Forth
      <4>. QED
        BY <3>3, <4>4, <4>5 DEF BestForward
    <3>4. ASSUME BestForward(i), PrevSlot(i) # tail
          PROVE  Forth(i)
      <4>1. block'[PrevSlot(i)] = block[PrevSlot(i)]
        BY <1>1, <1>3, <2>3, <3>4
      <4>. QED
        BY <3>1, <3>4, <4>1 DEF BestForward, Reached, Forth
    <3>. QED
      BY <3>2, <3>3, <3>4
  <2>4. Place(planned') < Place(head') /\ planned' # tail => Forth(planned')
    BY <1>1, <1>3, <2>1, <2>2, <2>3
  <2>5. \A i \in Slots : Place(i) < Place(head') /\ i # tail => Forth(i) \/ Back(i)
    BY <1>1, <2>2, <2>3
  <2>6. \A i \in Slots : ~Beyond(i)
    BY <1>1 DEF Beyond
  <2>. QED
    BY <1>1, <2>1, <2>4, <2>5, <2>6, BestInPlace
<1>8. CASE mode = "cycle" /\ rest = 0
  <2>0. stop' = 0 /\ tail' = NextSlot(tail) /\ mode # "hold" /\ speed' = NextEntry
        /\ planned' = IF planned = tail THEN NextSlot(tail) ELSE planned
    BY <1>1, <1>2, <1>8
  <2>1. /\ Slots' = Slots
        /\ Empty' <=> head = tail'
        /\ tail' \in Slots /\ tail' # tail
        /\ head # tail' => Place(tail') < Place(head)
        /\ \A i \in Slots :
             /\ Queued(i)' <=> Place(i) < Place(head) /\ i # tail
             /\ i \in Waiting' <=> Place(i) < Place(head) /\ i # tail /\ i # tail'
             /\ LeaveSpeed(i)' = IF NextSlot(i) = head THEN 0 ELSE block'[NextSlot(i)].entry
             /\ Reached(i)' = (IF PrevSlot(i) = tail' THEN speed' ELSE block'[PrevSlot(i)].entry)
                              + block'[PrevSlot(i)].length
             /\ i # tail' => PrevSlot(i) # tail
    BY <1>1, <2>0, Passing
  <2>2. /\ Place(planned) < Place(head) /\ planned # tail => BestForward(planned)
        /\ \A i \in Slots : Place(i) < Place(head) /\ i # tail => BestForward(i) \/ BestBack(i)
    BY <1>1, <2>0, BestRead DEF Drive
  <2>3. ASSUME NEW i \in Slots, Place(i) < Place(head), i # tail, i # tail'
        PROVE  /\ BestForward(i) => BestForward(i)'
               /\ BestBack(i) => BestBack(i)'
    <3>1. block'[i] = block[i] /\ After(i) = LeaveSpeed(i)
      BY <1>1, <1>4, <2>3
    <3>2. LeaveSpeed(i)' = LeaveSpeed(i)
      BY <1>1, <2>1, <3>1 DEF After
    <3>3. BestBack(i) => BestBack(i)'
      BY <3>1, <3>2 DEF BestBack
    <3>. DEFINE p == PrevSlot(i)
    <3>4. p \in Slots /\ p # tail /\ NextSlot(p) = i
      BY <1>3, <2>1, <2>3
    <3>5. block'[p] = block[p]
      BY <1>1, <3>4
    <3>6. p = tail' => speed' = block[p].entry
      <4>. SUFFICES ASSUME p = tail'
                    PROVE  NextEntry = block[p].entry
        BY <2>0
      <4>1. p # head
        <5>1. Place(head) # 0
          BY <1>3, <2>3
        <5>2. Place(p) < Place(head)
          BY <1>3, <2>3, Following
        <5>. QED
          BY <1>3, <5>2
      <4>. QED
        BY <2>0, <4>1 DEF NextEntry
    <3>7. Reached(i) = block[p].entry + block[p].length
      BY <3>4 DEF Reached
    <3>8. Reached(i)' = (IF p = tail' THEN speed' ELSE block'[p].entry) + block'[p].length
      BY <2>1
    <3>. HIDE DEF p
    <3>9. Reached(i)' = Reached(i)
      BY <3>5, <3>6, <3>7, <3>8
    <3>10. BestForward(i) => BestForward(i)'
      BY <3>1, <3>9 DEF BestForward
    <3>. QED
      BY <3>3, <3>10
  <2>4. Waiting' \subseteq Slots /\ planned' \in Slots
    BY <2>1 DEF Waiting, TypeOK
  <2>5. Queued(planned)' /\ planned' # tail' => BestForward(planned)'
    <3>. SUFFICES ASSUME Queued(planned)', planned' # tail'
                  PROVE  BestForward(planned)'
      OBVIOUS
    <3>1. planned' = planned /\ planned # tail
      BY <2>0
    <3>2. Queued(planned)' <=> Place(planned') < Place(head) /\ planned' # tail
      <4>1. Queued(planned)' <=> Place(planned)' < Place(head)'
        BY <2>4 DEF Queued
      <4>2. /\ \A x \in Slots : Place(x)' = IF x = tail THEN job.blocks - 1 ELSE Place(x) - 1
            /\ Place(head)' = IF head = tail THEN job.blocks - 1 ELSE Place(head) - 1
        BY <1>1, <2>0, Discarding
      <4>3. Place(planned)' = Place(planned) - 1
        <5>1. PICK q \in Slots : q = planned
          BY <1>3
        <5>2. q # tail /\ planned' = q
          BY <3>1, <5>1
        <5>3. Place(q)' = Place(q) - 1
          BY <4>2, <5>2
        <5>. QED
          BY <5>1, <5>2, <5>3 DEF Place
      <4>4. Place(head)' = Place(head) - 1
        BY <1>1, <4>2
      <4>5. Place(planned)' < Place(head)' <=> Place(planned) < Place(head)
        BY <1>3, <4>3, <4>4
      <4>. QED
        BY <3>1, <4>1, <4>5
    <3>3. BestForward(planned) => BestForward(planned)'
      <4>0. PICK q \in Slots : q = planned
        BY <1>3
      <4>1. q # tail /\ q # tail' /\ planned' = q /\ Place(q) < Place(head)
        BY <3>1, <3>2, <4>0
      <4>2. BestForward(q) => BestForward(q)'
        BY <2>3, <4>1
      <4>. QED
        BY <4>0, <4>1, <4>2 DEF BestForward, Reached, PrevSlot
    <3>. QED
      BY <2>2, <3>1, <3>2, <3>3
  <2>6. \A i \in Waiting' : BestForward(i)' \/ BestBack(i)'
    BY <2>1, <2>2, <2>3, <2>4
  <2>. QED
    BY <1>1, <2>5, <2>6 DEF BestInv
<1>. QED
  BY <1>1, <1>6, <1>7, <1>8

\* Every step leaves the plan as good as it can be.
LEMMA BestStep ==
  ASSUME TypeOK, SweepInv, Drive, job.trend = "raise", Next
  PROVE  BestInv'
<1>0. TypeOK'
  BY TypeStep
<1>1. CASE \E m \in job.moves : PlanLine(m)
  BY <1>0, <1>1, BestLine
<1>2. /\ tail \in Slots /\ head \in Slots /\ planned \in Slots /\ Place(tail) = 0
      /\ \A i \in Slots : Place(i) \in Nat
      /\ \A i \in Slots : Place(i) < Place(head) =>
           /\ NextSlot(i) \in Slots /\ NextSlot(i) # tail
           /\ Place(NextSlot(i)) = Place(i) + 1
           /\ NextSlot(i) # head <=> Place(NextSlot(i)) < Place(head)
           /\ i # tail => PrevSlot(i) \in Slots /\ Place(PrevSlot(i)) < Place(head)
  BY Following DEF TypeOK
<1>3. CASE PlanNothing \/ CycleStart \/ FeedHold \/ CycleDone \/ ProgramEnd \/ ForwardDone
  <2>1. /\ UNCHANGED <<job, tail, head, speed, planned>> /\ pass' = "none"
        /\ mode' # "hold" => mode # "hold"
        /\ \A i \in Slots : Place(i) < Place(head) =>
             /\ block'[i].length = block[i].length /\ block'[i].max = block[i].max
             /\ i # tail => block'[i].entry = block[i].entry
        /\ pass = "none" \/ (pass = "forward" /\ index = head)
    <3>1. CASE ForwardDone
      BY <3>1 DEF ForwardDone, ring, prep
    <3>2. CASE PlanNothing \/ CycleStart \/ FeedHold \/ CycleDone \/ ProgramEnd
      <4>1. SameEntries /\ pass = "none"
        BY <3>2, Idly
      <4>2. mode' # "hold" => mode # "hold"
        BY <3>2 DEF PlanNothing, CycleStart, FeedHold, CycleDone, ProgramEnd
      <4>. QED
        BY <4>1, <4>2 DEF SameEntries, SameMoves, SameMove
    <3>. QED
      BY <1>3, <3>1, <3>2
  <2>2. ASSUME mode # "hold"
        PROVE  /\ Place(planned) < Place(head) /\ planned # tail => BestForward(planned)
               /\ \A i \in Slots : Place(i) < Place(head) /\ i # tail => BestForward(i) \/ BestBack(i)
    BY <2>1, <2>2, BestRead DEF Drive
  <2>3. ASSUME NEW i \in Slots, Place(i) < Place(head), i # tail
        PROVE  /\ BestForward(i) => Forth(i)
               /\ BestBack(i) => Back(i)
    <3>1. /\ block'[i].entry = block[i].entry /\ block'[i].max = block[i].max
          /\ block'[i].length = block[i].length
          /\ PrevSlot(i) # tail => block'[PrevSlot(i)].entry = block[PrevSlot(i)].entry
          /\ block'[PrevSlot(i)].length = block[PrevSlot(i)].length
      BY <1>2, <2>1, <2>3
    <3>2. BestForward(i) => Forth(i)
      BY <2>1, <3>1, ForthKept
    <3>3. After(i) = LeaveSpeed(i)
      <4>1. NextSlot(i) # head => block'[NextSlot(i)].entry = block[NextSlot(i)].entry
        BY <1>2, <2>1, <2>3
      <4>. QED
        BY <2>1, <4>1 DEF After, LeaveSpeed
    <3>. QED
      BY <3>1, <3>2, <3>3, BackKept
  <2>4. \A i \in Slots : ~Beyond(i)
    BY <2>1 DEF Beyond
  <2>5. ASSUME mode' # "hold"
        PROVE  /\ Place(planned') < Place(head') /\ planned' # tail => Forth(planned')
               /\ \A i \in Slots : Place(i) < Place(head') /\ i # tail => Forth(i) \/ Back(i)
    BY <1>2, <2>1, <2>2, <2>3, <2>5
  <2>. QED
    BY <1>0, <2>1, <2>4, <2>5, BestInPlace
<1>4. CASE Reverse
  BY <1>0, <1>4, BestReverse
<1>5. CASE Forward
  BY <1>0, <1>5, BestForwardPass
<1>6. CASE \E o \in job.overrides : Override(o)
  <2>. SUFFICES ASSUME NEW o \in job.overrides, Override(o)
                PROVE  BestInv'
    BY <1>6
  <2>1. UNCHANGED <<job, tail>> /\ Recalculate(Rated(o), head, tail, TRUE)
    BY OverridePlanned DEF Override
  <2>2. Rated(o) \in [Slots -> Blocks]
    BY MaxRises, Rating, PlannerAssumption DEF Drive
  <2>. QED
    BY <1>0, <2>1, <2>2, BestAgain
<1>7. CASE \E part \in 0 .. block[tail].length : PrepSegment(part)
  BY <1>0, <1>7, BestSegment
<1>8. CASE HoldDone
  <2>1. UNCHANGED <<job, tail>> /\ Recalculate(block, head, tail, TRUE)
    BY <1>8 DEF HoldDone, Reinitialize
  <2>2. block \in [Slots -> Blocks]
    BY DEF TypeOK, Blocks
  <2>. QED
    BY <1>0, <2>1, <2>2, BestAgain
<1>9. CASE JogCancelled \/ Reset
  BY <1>0, <1>9, Flushed DEF BestInv
<1>. QED
  BY <1>1, <1>3, <1>4, <1>5, <1>6, <1>7, <1>8, <1>9 DEF Next

\* The machine starts at rest with nothing planned.
LEMMA DriveInit ==
  ASSUME Init
  PROVE  Drive
<1>1. /\ head = tail /\ speed = 0 /\ exit = 0 /\ ~loaded /\ ~recalc /\ ~forced /\ ~endMotion
  BY DEF Init
<1>2. TypeOK
  BY PlannerInit
<1>3. Place(head) = 0 /\ \A i \in Slots : Place(i) \in Nat
  BY <1>1, <1>2, Ends
<1>4. (\A i \in Slots : ~Queued(i)) /\ Empty
  BY <1>1, <1>3 DEF Queued, Empty
<1>5. Waiting = {} /\ ~Queued(planned)
  BY <1>2, <1>4 DEF Waiting, TypeOK
<1>6. RateInv
  BY <1>4, <1>5 DEF RateInv
<1>7. SpeedInv
  BY <1>1, <1>4 DEF SpeedInv
<1>8. BrakeInv
  BY <1>4, <1>5 DEF BrakeInv
<1>9. ReachInv
  BY <1>4, <1>5 DEF ReachInv
<1>10. BestInv
  BY <1>5 DEF BestInv
<1>. QED
  BY <1>6, <1>7, <1>8, <1>9, <1>10 DEF Drive

-----------------------------------------------------------------------------
(* All of them *)

\* Nothing changes the job, and a step that changes nothing keeps all.
LEMMA PlannerSteps ==
  ASSUME TypeOK, SweepInv, [Next]_vars
  PROVE  /\ TypeOK' /\ SweepInv' /\ job' = job
         /\ job.trend = "raise" /\ Drive => Drive'
<1>1. CASE Next
  <2>1. job' = job
    BY <1>1 DEF Next, PlanLine, PlanNothing, Reverse, Forward, ForwardDone, Override, PrepSegment,
                CycleStart, FeedHold, CycleDone, HoldDone, JogCancelled, Reset, Flush, ProgramEnd
  <2>2. TypeOK' /\ SweepInv'
    BY <1>1, TypeStep, SweepStep
  <2>3. ASSUME job.trend = "raise", Drive
        PROVE  Drive'
    <3>1. RateInv'
      BY <1>1, <2>3, RateStep
    <3>2. SpeedInv'
      BY <1>1, <2>3, SpeedStep
    <3>3. BrakeInv'
      BY <1>1, <2>3, BrakeStep
    <3>4. ReachInv'
      BY <1>1, <2>3, ReachStep
    <3>5. BestInv'
      BY <1>1, <2>3, BestStep
    <3>. QED
      BY <3>1, <3>2, <3>3, <3>4, <3>5 DEF Drive
  <2>. QED
    BY <2>1, <2>2, <2>3
<1>2. CASE UNCHANGED vars
  <2>1. TypeOK' /\ job' = job
    BY <1>2 DEF vars, ring, loop, prep, TypeOK, Slots
  <2>2. SweepInv'
    BY <1>2 DEF vars, ring, loop, prep, SweepInv, Empty, Queued, Place, Slots, NextSlot, NextEntry
  <2>3. Drive => Drive'
    <3>1. RateInv => RateInv'
      BY <1>2 DEF vars, ring, loop, prep, RateInv, Empty, Waiting, Queued, Place, Slots, NextSlot, PrevSlot
    <3>2. SpeedInv => SpeedInv'
      BY <1>2 DEF vars, ring, loop, prep, SpeedInv, Empty
    <3>3. BrakeInv => BrakeInv'
      BY <1>2 DEF vars, ring, loop, prep, BrakeInv, Empty, Waiting, Queued, Place, Slots, NextSlot,
                  LeaveSpeed, NextEntry
    <3>4. ReachInv => ReachInv'
      BY <1>2 DEF vars, ring, loop, prep, ReachInv, Empty, Waiting, Queued, Place, Slots, NextSlot,
                  LeaveSpeed, NextEntry, Settled
    <3>5. BestInv => BestInv'
      BY <1>2 DEF vars, ring, loop, prep, BestInv, Empty, Waiting, Queued, Place, Slots, NextSlot,
                  PrevSlot, LeaveSpeed, BestForward, BestBack, Reached
    <3>. QED
      BY <3>1, <3>2, <3>3, <3>4, <3>5 DEF Drive
  <2>. QED
    BY <2>1, <2>2, <2>3
<1>. QED
  BY <1>1, <1>2

-----------------------------------------------------------------------------
(* Theorems for every job *)

\* Types are kept, the planned pointer follows the plan, and where the user only raises
\* the overrides the plan can be driven and is optimal: what all others rest on
\* (planner_recalculate(), plan_discard_current_block(), st_prep_buffer()).
THEOREM PlanInvCorrect == Spec => []PlanInv
<1>1. Init => PlanInv
  BY PlannerInit, DriveInit DEF PlanInv, Drive
<1>2. PlanInv /\ [Next]_vars => PlanInv'
  <2>. SUFFICES ASSUME PlanInv, [Next]_vars
                PROVE  PlanInv'
    OBVIOUS
  <2>1. TypeOK /\ SweepInv /\ (job.trend = "raise" => Drive)
    BY DEF PlanInv, Drive
  <2>2. TypeOK' /\ SweepInv' /\ job' = job /\ (job.trend = "raise" /\ Drive => Drive')
    BY <2>1, PlannerSteps
  <2>. QED
    BY <2>1, <2>2 DEF PlanInv, Drive
<1>. QED
  BY <1>1, <1>2, PTL DEF Spec

\* No index leaves the ring and no speed or length becomes negative, whatever the job.
THEOREM PlannerTyped == Spec => []TypeOK
<1>1. PlanInv => TypeOK
  BY DEF PlanInv
<1>. QED
  BY <1>1, PlanInvCorrect, PTL

\* block_buffer_planned stays in the plan between calls, whatever the overrides
\* (planner.cpp:110).
THEOREM PlannedPointerCorrect == Spec => []PlannedInPlan
<1>1. PlanInv => PlannedInPlan
  BY DEF PlanInv, SweepInv, PlannedInPlan, Ready
<1>. QED
  BY <1>1, PlanInvCorrect, PTL

\* The exit speed copied into the profile stays the planned entry speed of the next block:
\* no plan changes it without giving the profile up (st_update_plan_block_parameters()).
THEOREM ExitCorrect == Spec => []ExitIsPlanned
<1>1. PlanInv => ExitIsPlanned
  BY DEF PlanInv, SweepInv, ExitIsPlanned
<1>. QED
  BY <1>1, PlanInvCorrect, PTL

\* Where overrides are only raised, all parts hold at once.
LEMMA Raised ==
  ASSUME PlanInv, job.trend = "raise"
  PROVE  TypeOK /\ SweepInv /\ Drive
  BY DEF PlanInv, Drive

\* Every block can be braked to the next, and reaches it; so can the one being executed.
LEMMA Feasible ==
  ASSUME TypeOK, SweepInv, Drive
  PROVE  PlanFeasible
<1>. SUFFICES ASSUME Ready
              PROVE  /\ \A i \in Waiting :
                          /\ block[i].entry <= block[i].max
                          /\ block[i].entry <= LeaveSpeed(i) + block[i].length
                          /\ LeaveSpeed(i) <= block[i].entry + block[i].length
                     /\ ~Empty => StartSpeed <= block[tail].length
                                    + (IF loaded THEN exit ELSE Profile(StartEntry).exit)
  BY DEF PlanFeasible
<1>1. \A i \in Waiting : /\ block[i].entry <= block[i].max
                         /\ block[i].entry <= LeaveSpeed(i) + block[i].length
                         /\ LeaveSpeed(i) <= block[i].entry + block[i].length
  BY DEF Drive, BrakeInv, ReachInv, Settled, Ready
<1>2. ASSUME ~Empty
      PROVE  StartSpeed <= block[tail].length + (IF loaded THEN exit ELSE Profile(StartEntry).exit)
  <2>1. StartSpeed = speed /\ speed \in Nat /\ (~loaded => StartEntry = speed)
    BY <1>2, StartsAtSpeed DEF Drive
  <2>2. block[tail].length \in Nat /\ NextEntry \in Nat /\ exit \in Nat /\ stop \in Nat
    BY Starting, Fields
  <2>3. speed <= NextEntry + block[tail].length
    BY <1>2 DEF Drive, BrakeInv
  <2>4. CASE loaded
    <3>1. mode \in {"cycle", "hold"} /\ ~forced
      BY <2>4 DEF SweepInv, Drive, SpeedInv
    <3>2. CASE mode = "cycle"
      <4>1. exit = NextEntry
        BY <2>4, <3>1, <3>2 DEF SweepInv
      <4>. QED
        BY <2>1, <2>2, <2>3, <2>4, <4>1
    <3>3. CASE mode = "hold"
      <4>1. speed + stop = exit + block[tail].length
        BY <2>4, <3>3 DEF Drive, SpeedInv
      <4>. QED
        BY <2>1, <2>2, <2>4, <4>1
    <3>. QED
      BY <3>1, <3>2, <3>3
  <2>5. CASE ~loaded
    <3>. DEFINE l == block[tail].length  x == Profile(speed).exit
    <3>1. \/ speed > l /\ x = speed - l
          \/ speed <= l /\ x = 0
          \/ l <= speed /\ x = speed - l
          \/ x = NextEntry
      <4>1. Nominal(block[tail], override) \in Nat
        BY Starting
      <4>. QED
        BY <2>1, <2>2, <4>1 DEF Profile, Overrun
    <3>. HIDE DEF l, x
    <3>2. speed <= l + x
      BY <2>1, <2>2, <2>3, <3>1 DEF l
    <3>. QED
      BY <2>1, <2>5, <3>2 DEF l, x
  <2>. QED
    BY <2>4, <2>5
<1>. QED
  BY <1>1, <1>2

\* No entry speed could be raised.
LEMMA Optimized ==
  ASSUME TypeOK, SweepInv, Drive
  PROVE  PlanOptimal
<1>. SUFFICES ASSUME Ready, mode # "hold", NEW i \in Waiting
              PROVE  block[i].entry \in
                       {block[i].max,
                        LeaveSpeed(i) + block[i].length,
                        (IF PrevSlot(i) = tail /\ loaded THEN speed ELSE block[PrevSlot(i)].entry)
                        + block[PrevSlot(i)].length}
  BY DEF PlanOptimal
<1>1. BestForward(i) \/ BestBack(i)
  BY DEF Drive, BestInv, Ready
<1>2. ~loaded => block[tail].entry = speed
  <2>1. ~Empty
    BY Reading, Following DEF Waiting
  <2>. QED
    BY <2>1 DEF Drive, SpeedInv
<1>. QED
  BY <1>1, <1>2 DEF BestForward, BestBack, Reached

\* Where overrides are only raised, guidelines 1a, 1b and 2a of planner.cpp:73-80 hold
\* between any two calls, with a ring and moves of any size.
THEOREM FeasibleCorrect == Spec => [](job.trend = "raise" => PlanFeasible)
<1>1. PlanInv => (job.trend = "raise" => PlanFeasible)
  BY Raised, Feasible
<1>. QED
  BY <1>1, PlanInvCorrect, PTL

\* And the plan is optimal (planner.cpp:82-86), although only the blocks behind the planned
\* one are computed again for each move.
THEOREM OptimalCorrect == Spec => [](job.trend = "raise" => PlanOptimal)
<1>1. PlanInv => (job.trend = "raise" => PlanOptimal)
  BY Raised, Optimized
<1>. QED
  BY <1>1, PlanInvCorrect, PTL

\* And the machine is at rest at its end.
THEOREM StopsCorrect == Spec => [](job.trend = "raise" => StopsInPlan)
<1>1. PlanInv => (job.trend = "raise" => StopsInPlan)
  BY Raised DEF Drive, SpeedInv, StopsInPlan
<1>. QED
  BY <1>1, PlanInvCorrect, PTL

\* And no segment asks for more than the machine's acceleration, across blocks, new plans,
\* overrides, holds and resumes (st_prep_buffer()).
THEOREM NoSpeedJumpCorrect == Spec /\ job.trend = "raise" => NoSpeedJump
<1>. DEFINE Slowly == \A part \in 0 .. block[tail].length :
                        PrepSegment(part) => speed' <= speed + part /\ speed <= speed' + part
            Raising == PlanInv /\ job.trend = "raise"
<1>1. Init /\ job.trend = "raise" => Raising
  BY PlannerInit, DriveInit DEF PlanInv, Drive
<1>2. Raising /\ [Next]_vars => Raising'
  <2>. SUFFICES ASSUME PlanInv, job.trend = "raise", [Next]_vars
                PROVE  PlanInv' /\ job'.trend = "raise"
    OBVIOUS
  <2>1. TypeOK /\ SweepInv /\ Drive
    BY Raised
  <2>2. TypeOK' /\ SweepInv' /\ Drive' /\ job' = job
    BY <2>1, PlannerSteps
  <2>. QED
    BY <2>2 DEF PlanInv, Drive
<1>3. Raising /\ [Next]_vars => [Slowly]_vars
  <2>. SUFFICES ASSUME PlanInv, job.trend = "raise",
                       NEW part \in 0 .. block[tail].length, PrepSegment(part)
                PROVE  speed' <= speed + part /\ speed <= speed' + part
    OBVIOUS
  <2>. QED
    BY Raised, Driven
<1>. HIDE DEF Slowly, Raising
<1>4. Spec /\ job.trend = "raise" => [][Slowly]_vars
  BY <1>1, <1>2, <1>3, PTL DEF Spec
<1>. QED
  BY <1>4 DEF NoSpeedJump, Slowly

=============================================================================
