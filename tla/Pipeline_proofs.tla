--------------------------- MODULE Pipeline_proofs ---------------------------
(***************************************************************************)
(* The two rings implement the queue of SegmentQueue, for rings of any size,  *)
(* any number of axes and blocks of any length: each step of the stepper      *)
(* keeps RingInv and is a step of the queue or none. Motion_proofs says what  *)
(* the main program's other steps do, and that Motion as a whole refines it.  *)
(***************************************************************************)
EXTENDS Pipeline, TLAPS

USE PipelineAssumption

\* How many segments lie between tail and head, and that none of them is in the slot at
\* head: tail = nextHead, where st_prep_buffer() stops (stepper.cpp:721), leaves one free.
LEMMA UsedRange ==
  ASSUME RingType
  PROVE  /\ Used \in 0 .. SegSize - 1 /\ (Used = 0 <=> head = tail)
         /\ (tail = nextHead <=> Used = SegSize - 1)
         /\ (Used > 0 => SlotOf(1) = tail)
         /\ \A i \in 1 .. Used : SlotOf(i) \in Slots /\ SlotOf(i) # head
  BY DEF RingType, Used, SlotOf, Slots, NextSlot

\* 1 << level, the only divisors the interrupt's shifts stand for.
LEMMA CutsValue == \A l \in 0 .. MaxLevel : Cuts(l) \in {1, 2, 4, 8}
  BY DEF Cuts

\* Publishing a segment adds it behind the others, which stay where they are.
LEMMA AfterPublish ==
  ASSUME RingType, tail # nextHead,
         head' = nextHead, tail' = tail, seg' = seg
  PROVE  /\ Used' = Used + 1
         /\ \A i \in 1 .. Used : At(i)' = At(i)
         /\ At(Used)' = seg[head]
<1>. USE DEF RingType, Slots, NextSlot
<1>1. Used' = Used + 1
  BY DEF Used
<1>2. \A i \in 1 .. Used : SlotOf(i)' = SlotOf(i)
  BY DEF SlotOf
<1>3. SlotOf(Used)' = head
  BY DEF SlotOf, Used
<1>. QED
  BY <1>1, <1>2, <1>3 DEF At

\* A segment executed leaves the others one place further in front.
LEMMA AfterSegment ==
  ASSUME RingType, Used > 0,
         head' = head, tail' = NextSlot(tail), seg' = seg
  PROVE  /\ Used' = Used - 1
         /\ \A i \in 1 .. Used - 1 : At(i)' = At(i + 1)
<1>. USE DEF RingType, Slots, NextSlot
<1>1. Used' = Used - 1
  BY DEF Used
<1>2. \A i \in 1 .. Used - 1 : SlotOf(i)' = SlotOf(i + 1)
  BY DEF SlotOf, Used
<1>. QED
  BY <1>1, <1>2 DEF At

\* How far behind the block being cut a slot can be: the next one to load is the furthest.
LEMMA BehindRange ==
  ASSUME RingType, NEW k \in BlockSlots
  PROVE  /\ Behind(k) \in 0 .. SegSize - 2
         /\ (Behind(k) = 0 <=> k = prepIndex)
         /\ Behind(NextBlock(prepIndex)) = SegSize - 2
         /\ NextBlock(prepIndex) \in BlockSlots
  BY DEF RingType, Behind, BlockSlots, NextBlock

\* The tracing data of a block is one, under the block's identity.
LEMMA TracedType ==
  ASSUME NEW b \in Blocks
  PROVE  Traced(b) \in Blocks /\ Traced(b).id = b.id
<1>1. Cuts(MaxLevel) \in Nat
  BY CutsValue DEF PipelineAssumption
<1>2. \A a \in Axes : b.steps[a] * Cuts(MaxLevel) \in Nat
  BY <1>1 DEF Blocks
<1>3. b.events * Cuts(MaxLevel) \in Nat
  BY <1>1 DEF Blocks
<1>. HIDE DEF Cuts
<1>. QED
  BY <1>2, <1>3 DEF Traced, Blocks

\* Loading the next block leaves every slot but its own one block further behind.
LEMMA OtherSlots ==
  ASSUME RingType, prepIndex' = NextBlock(prepIndex),
         NEW k \in BlockSlots, k # NextBlock(prepIndex)
  PROVE  Behind(k)' = Behind(k) + 1
<1>. k \in 0 .. SegSize - 2 /\ prepIndex \in 0 .. SegSize - 2
  BY DEF RingType, BlockSlots
<1>. QED
  BY DEF Behind, NextBlock

\* The segments published are segments, each of a block in the ring of blocks.
LEMMA IndexType ==
  ASSUME RingType
  PROVE  /\ \A i \in 1 .. Used : /\ Index(i) \in BlockSlots /\ At(i) = seg[SlotOf(i)]
                                 /\ At(i) \in [n : Nat, index : BlockSlots, level : 0 .. MaxLevel]
         /\ NewestIndex \in BlockSlots
  BY UsedRange DEF RingType, Index, At, NewestIndex

\* Loading a block touches no data of a segment not yet executed: the ring of blocks,
\* shorter by one than the segments', has a slot left (stepper.cpp:62).
LEMMA PrepLoadRing ==
  ASSUME RingInv, PrepLoad, Loads => ToCut \in Blocks /\ ToCut.id > NewestId
  PROVE  RingInv' /\ Published' = Published /\ NewestId' = NewestId
<1>. USE DEF RingInv
<1>1. /\ seg' = seg /\ tail' = tail /\ head' = head /\ Used' = Used
      /\ \A i \in 1 .. Used : SlotOf(i)' = SlotOf(i) /\ At(i)' = At(i) /\ Index(i)' = Index(i)
  BY DEF PrepLoad, rings, tracer, Used, At, SlotOf, Index
<1>2. /\ Used \in 0 .. SegSize - 2
      /\ (\A i \in 1 .. Used : Index(i) \in BlockSlots) /\ NewestIndex \in BlockSlots
  BY UsedRange, IndexType DEF PrepLoad
<1>3. Cutting'
  BY DEF PrepLoad, Cutting, Source
<1>4. CASE ~Loads
  <2>1. blk' = blk /\ prepIndex' = prepIndex /\ remaining' = remaining /\ Cutting
    BY <1>4 DEF PrepLoad, Loads, Cutting
  <2>2. RingType'
    BY <1>1, <2>1 DEF PrepLoad, RingType, Source, tracer
  <2>. QED
    BY <1>1, <1>2, <1>3, <2>1, <2>2 DEF PrepLoad, Filled, ExecutesFirst, InBlockOrder, SameBlock,
         NewestIndex,
         NewestId, Behind, Published, Entry, tracer
<1>5. CASE Loads
  <2>1. /\ prepIndex' = NextBlock(prepIndex)
        /\ blk' = [blk EXCEPT ![NextBlock(prepIndex)] = Traced(ToCut)]
        /\ remaining' = ToCut.events /\ ~Cutting
    BY <1>5 DEF PrepLoad, Loads, Cutting
  <2>2. NextBlock(prepIndex) \in BlockSlots /\ Behind(NextBlock(prepIndex)) = SegSize - 2
    BY BehindRange DEF RingType
  <2>3. NewestIndex = prepIndex /\ NewestIndex # NextBlock(prepIndex)
    BY <1>2, <2>1, BehindRange DEF InBlockOrder, RingType
  <2>4. \A i \in 1 .. Used : Index(i) # NextBlock(prepIndex)
    BY <1>2, <2>2, <2>3, <2>1 DEF InBlockOrder, NewestIndex
  <2>5. RingType'
    BY <1>1, <1>5, <2>1, <2>2, TracedType DEF PrepLoad, RingType, Blocks, Source, tracer
  <2>6. \A i \in 1 .. Used : blk'[Index(i)] = blk[Index(i)]
    BY <1>2, <2>1, <2>4 DEF RingType
  <2>7. NewestIndex' = NewestIndex /\ NewestId' = NewestId
    BY <1>1, <1>2, <2>6 DEF PrepLoad, tracer, NewestIndex, NewestId
  <2>8. \A k \in BlockSlots : k # NextBlock(prepIndex) => Behind(k)' = Behind(k) + 1
    BY <2>1, OtherSlots
  <2>9. Filled'
    BY <1>1, <1>2 DEF PrepLoad, Filled, tracer, Source
  <2>10. ExecutesFirst'
    <3>1. exec => execIndex # NextBlock(prepIndex)
      BY <1>2, <2>4 DEF ExecutesFirst
    <3>2. exec => blk'[execIndex] = blk[execIndex]
      BY <3>1, <2>1 DEF RingType
    <3>. QED
      BY <1>1, <1>2, <3>1, <3>2 DEF PrepLoad, ExecutesFirst, tracer
  <2>11. InBlockOrder'
    <3>. Behind(NewestIndex)' = 1
      BY <1>2, <2>3, <2>7, <2>8, BehindRange
    <3>1. \A i \in 1 .. Used : Behind(Index(i))' = Behind(Index(i)) + 1
      BY <1>1, <1>2, <2>4, <2>8
    <3>. \A i \in 1 .. Used : Behind(Index(i)) \in Int
      BY <1>2, BehindRange
    <3>. HIDE DEF Used, Behind, Index
    <3>. QED
      BY <1>1, <1>2, <1>3, <3>1 DEF InBlockOrder
  <2>12. SameBlock'
    <3>1. blk'[prepIndex'].id = ToCut.id
      BY <1>5, <2>1, <2>2, TracedType DEF RingType
    <3>2. NewestId \in Nat /\ ToCut.id \in Nat /\ ToCut.id > NewestId
      BY <1>2, <1>5 DEF NewestId, RingType, Blocks
    <3>3. \A i \in 1 .. Used : blk'[Index(i)'] = blk[Index(i)]
      BY <1>1, <2>6
    <3>4. \A i \in 1 .. Used' : blk'[Index(i)'] = blk[Index(i)] /\ Index(i)' = Index(i)
      BY <1>1, <3>3
    <3>5. exec' = exec /\ execIndex' = execIndex /\ execId' = execId
      BY DEF PrepLoad, tracer
    <3>. HIDE DEF Used, Index, ToCut
    <3>6. \A i \in 1 .. Used' - 1 : blk'[Index(i)'] = blk[Index(i)] /\ Index(i)' = Index(i)
                     /\ blk'[Index(i + 1)'] = blk[Index(i + 1)] /\ Index(i + 1)' = Index(i + 1)
      BY <1>1, <1>2, <3>4
    <3>7. \A i \in 1 .. Used' - 1 :
            blk'[Index(i)'].id = blk'[Index(i + 1)'].id => Index(i)' = Index(i + 1)'
      BY <1>1, <3>6 DEF SameBlock
    <3>8. Used' > 0 /\ ~exec' => (Index(1)' = execIndex' <=> blk'[Index(1)'].id = execId')
      BY <1>1, <1>2, <3>4, <3>5 DEF SameBlock
    <3>9. /\ NewestId' <= blk'[prepIndex'].id /\ NewestId' # blk'[prepIndex'].id
          /\ prepIndex' # NewestIndex'
      BY <2>1, <2>3, <2>7, <3>1, <3>2
    <3>. QED
      BY <3>7, <3>8, <3>9 DEF SameBlock
  <2>13. Published' = Published
    BY <1>1, <1>2, <2>6 DEF Published, Entry, Index
  <2>. QED
    BY <2>5, <2>7, <2>9, <2>10, <2>11, <2>12, <2>13
<1>. QED
  BY <1>4, <1>5

\* A segment's interrupts fit in n_step and are of events the block has. The divisors are
\* taken one by one, so that the prover has linear arithmetic only.
LEMMA ScaledEvents ==
  ASSUME NEW m \in Nat, NEW n \in 1 .. m, NEW c \in {1, 2, 4, 8}, n * c <= MaxEvents
  PROVE  n * c \in Nat /\ n * c \in 1 .. MaxEvents /\ n * c <= m * c
<1>0. MaxEvents \in Nat
  BY DEF MaxEvents
<1>1. CASE c = 1
  <2>. n * 1 >= 1 /\ n * 1 <= m * 1 /\ n * 1 \in Int
    OBVIOUS
  <2>. QED
    BY <1>0, <1>1
<1>2. CASE c = 2
  <2>. n * 2 >= 1 /\ n * 2 <= m * 2 /\ n * 2 \in Int
    OBVIOUS
  <2>. QED
    BY <1>0, <1>2
<1>3. CASE c = 4
  <2>. n * 4 >= 1 /\ n * 4 <= m * 4 /\ n * 4 \in Int
    OBVIOUS
  <2>. QED
    BY <1>0, <1>3
<1>4. CASE c = 8
  <2>. n * 8 >= 1 /\ n * 8 <= m * 8 /\ n * 8 \in Int
    OBVIOUS
  <2>. QED
    BY <1>0, <1>4
<1>. QED
  BY <1>1, <1>2, <1>3, <1>4

\* What is left of the block behind a segment is not negative.
LEMMA EventsLeft ==
  ASSUME NEW m \in Nat, NEW n \in Nat, NEW c \in {1, 2, 4, 8}, n <= m * c
  PROVE  m - n \div c \in Nat
<1>1. CASE c = 1
  BY <1>1
<1>2. CASE c = 2
  BY <1>2
<1>3. CASE c = 4
  BY <1>3
<1>4. CASE c = 8
  BY <1>4
<1>. QED
  BY <1>1, <1>2, <1>3, <1>4

\* Filling a segment writes only the free slot at head.
LEMMA PrepFillRing ==
  ASSUME RingInv, PrepFill
  PROVE  /\ RingInv' /\ Published' = Published
         /\ NewestId' = NewestId /\ Cutting' = Cutting
<1>. USE DEF RingInv
<1>1. /\ blk' = blk /\ head' = head /\ nextHead' = nextHead /\ tail' = tail /\ Used' = Used
      /\ prepIndex' = prepIndex /\ loaded' = loaded /\ recalc' = recalc /\ remaining' = remaining
      /\ exec' = exec /\ execIndex' = execIndex /\ execId' = execId /\ inc' = inc /\ dir' = dir
      /\ count' = count /\ ret' = ret
      /\ \A i \in 1 .. Used : SlotOf(i)' = SlotOf(i)
  BY DEF PrepFill, prep, tracer, Used, SlotOf
<1>2. /\ \A s \in Slots \ {head} : seg'[s] = seg[s]
      /\ seg'[head] \in [n : Nat, index : BlockSlots, level : 0 .. MaxLevel]
      /\ seg' \in [Slots -> [n : Nat, index : BlockSlots, level : 0 .. MaxLevel]]
      /\ pc' = "publish" => /\ seg'[head].index = prepIndex /\ seg'[head].n \in 1 .. MaxEvents
                            /\ seg'[head].n <= remaining * Cuts(seg'[head].level)
  <2>. USE DEF RingType
  <2>1. ASSUME NEW n \in 1 .. remaining, NEW level \in 0 .. MaxLevel,
               n * Cuts(level) <= MaxEvents,
               seg' = [seg EXCEPT ![head] = [n |-> n * Cuts(level), index |-> prepIndex, level |-> level]]
        PROVE  /\ \A s \in Slots \ {head} : seg'[s] = seg[s]
               /\ seg'[head] \in [n : Nat, index : BlockSlots, level : 0 .. MaxLevel]
               /\ seg' \in [Slots -> [n : Nat, index : BlockSlots, level : 0 .. MaxLevel]]
               /\ seg'[head].index = prepIndex /\ seg'[head].n \in 1 .. MaxEvents
               /\ seg'[head].n <= remaining * Cuts(seg'[head].level)
    <3>. DEFINE events == n * Cuts(level)
    <3>. DEFINE new == [n |-> events, index |-> prepIndex, level |-> level]
    <3>1. events \in Nat /\ events \in 1 .. MaxEvents /\ events <= remaining * Cuts(level)
      BY <2>1, CutsValue, ScaledEvents
    <3>4. seg' = [seg EXCEPT ![head] = new]
      BY <2>1
    <3>. HIDE DEF events
    <3>2. new \in [n : Nat, index : BlockSlots, level : 0 .. MaxLevel]
      <4>1. prepIndex \in BlockSlots
        OBVIOUS
      <4>. HIDE DEF RingType, RingInv
      <4>. QED
        BY <3>1, <4>1
    <3>3. new.n = events /\ new.index = prepIndex /\ new.level = level
      OBVIOUS
    <3>. HIDE DEF new, Cuts
    <3>. QED
      BY <3>1, <3>2, <3>3, <3>4
  <2>2. CASE /\ seg' = [seg EXCEPT ![head] = [n |-> 0, index |-> prepIndex, level |-> @.level]]
             /\ pc' = ret
    BY <2>2
  <2>. QED
    BY <2>1, <2>2 DEF PrepFill
<1>3. \A i \in 1 .. Used : At(i)' = At(i) /\ Index(i)' = Index(i)
  BY <1>1, <1>2, UsedRange DEF At, Index
<1>4. /\ Used \in 0 .. SegSize - 1 /\ (\A i \in 1 .. Used : Index(i) \in BlockSlots)
  BY UsedRange, IndexType
<1>5. NewestIndex' = NewestIndex /\ NewestId' = NewestId /\ Cutting' = Cutting
      /\ \A k : Behind(k)' = Behind(k)
  BY <1>1, <1>3, <1>4 DEF NewestIndex, NewestId, Cutting, Behind
<1>6. RingType'
  BY <1>1, <1>2 DEF PrepFill, RingType, tracer
<1>7. Filled'
  BY <1>1, <1>2, <1>3 DEF PrepFill, Filled, RingType
<1>8. ExecutesFirst' /\ InBlockOrder' /\ SameBlock'
  BY <1>1, <1>3, <1>4, <1>5 DEF ExecutesFirst, InBlockOrder, SameBlock
<1>9. Published' = Published
  BY <1>1, <1>3 DEF Published, Entry, Index
<1>. QED
  BY <1>5, <1>6, <1>7, <1>8, <1>9

\* Publishing a segment is Put: behind the others, and of their last block or a later one.
LEMMA PrepPublishRing ==
  ASSUME RingInv, PrepPublish
  PROVE  RingInv' /\ Queue!Put /\ NewestId' = blk[prepIndex].id
<1>. USE DEF RingInv
<1>1. /\ blk' = blk /\ seg' = seg /\ head' = nextHead /\ nextHead' = NextSlot(nextHead) /\ tail' = tail
      /\ prepIndex' = prepIndex /\ recalc' = recalc /\ remaining' = Rest /\ ret' = ret
      /\ exec' = exec /\ execIndex' = execIndex /\ execId' = execId /\ inc' = inc /\ dir' = dir
      /\ count' = count /\ counter' = counter /\ pos' = pos
      /\ loaded' \in {loaded, "none"} /\ pc' \in {"prep", ret}
  BY DEF PrepPublish, tracer
<1>2. /\ Used' = Used + 1 /\ Used \in 0 .. SegSize - 2 /\ Used' \in 1 .. SegSize - 1
      /\ \A i \in 1 .. Used : At(i)' = At(i) /\ Index(i)' = Index(i)
      /\ At(Used)' = seg[head] /\ Index(Used)' = prepIndex
      /\ loaded # "none"
  BY <1>1, AfterPublish, UsedRange DEF PrepPublish, Filled, Index
<1>3. /\ \A i \in 1 .. Used : Index(i) \in BlockSlots
      /\ NewestIndex \in BlockSlots /\ prepIndex \in BlockSlots
  BY IndexType DEF RingType
<1>4. NewestIndex' = prepIndex /\ NewestId' = blk[prepIndex].id /\ Cutting
      /\ \A k : Behind(k)' = Behind(k)
  BY <1>1, <1>2 DEF NewestIndex, NewestId, Cutting, Behind
<1>5. RingType'
  <2>1. Rest \in Nat
    <3>. seg[head] \in [n : Nat, index : BlockSlots, level : 0 .. MaxLevel]
      BY DEF RingType
    <3>1. seg[head].n \in Nat /\ Cuts(seg[head].level) \in {1, 2, 4, 8} /\ remaining \in Nat
      BY CutsValue DEF RingType
    <3>2. seg[head].n <= remaining * Cuts(seg[head].level)
      BY DEF Filled, PrepPublish
    <3>. QED
      BY <3>1, <3>2, EventsLeft DEF Rest
  <2>. QED
    BY <1>1, <2>1 DEF PrepPublish, RingType, NextSlot, Slots, tracer
<1>6. Filled'
  BY <1>1, <1>2 DEF Filled, RingType, PrepPublish
<1>7. ExecutesFirst'
  BY <1>1, <1>2 DEF ExecutesFirst
<1>8. InBlockOrder'
  <2>. \A i \in 1 .. Used : Behind(Index(i)) \in Int
    BY <1>3, BehindRange
  <2>1. Behind(prepIndex) = 0
    BY <1>3, BehindRange
  <2>2. Used > 0 => Behind(Index(Used)) \in {0, 1}
    BY <1>2 DEF InBlockOrder, NewestIndex
  <2>. HIDE DEF Used, Behind, Index
  <2>3. \A i \in 1 .. Used' : Behind(Index(i))' <= Used' - i + Behind(Index(Used))'
    BY <1>2, <1>4, <2>1, <2>2 DEF InBlockOrder
  <2>4. \A i \in 1 .. Used' - 1 : Behind(Index(i + 1))' \in {Behind(Index(i))', Behind(Index(i))' - 1}
    BY <1>2, <1>4, <2>1, <2>2 DEF InBlockOrder
  <2>. QED
    BY <1>4, <2>1, <2>3, <2>4 DEF InBlockOrder
<1>9. SameBlock'
  <2>. HIDE DEF Used, Index
  <2>1. \A i \in 1 .. Used' - 1 :
          blk'[Index(i)'].id = blk'[Index(i + 1)'].id => Index(i)' = Index(i + 1)'
    BY <1>1, <1>2, <1>4 DEF SameBlock, NewestId, NewestIndex
  <2>2. Used' > 0 /\ ~exec' => (Index(1)' = execIndex' <=> blk'[Index(1)'].id = execId')
    BY <1>1, <1>2, <1>4 DEF SameBlock, NewestId, NewestIndex
  <2>3. NewestId' <= blk'[prepIndex'].id /\ NewestId' = blk'[prepIndex'].id /\ prepIndex' = NewestIndex'
    BY <1>1, <1>3, <1>4 DEF RingType, Blocks
  <2>. QED
    BY <2>1, <2>2, <2>3 DEF SameBlock
<1>10. Queue!Put
  <2>1. Len(Published) = Used /\ Len(Published)' = Used'
    BY <1>2 DEF Published
  <2>2. SubSeq(Published', 1, Used) = Published
    BY <1>1, <1>2, <2>1 DEF Published, Entry, Index
  <2>3. Published'[Used'].id = blk[prepIndex].id
    BY <1>1, <1>2 DEF Published, Entry, Index
  <2>4. Queue!Newest = NewestId
    <3>1. CASE Used = 0
      <4>. Published = <<>>
        BY <3>1 DEF Published
      <4>. QED
        BY <3>1 DEF Queue!Newest, NewestId
    <3>2. CASE Used > 0
      <4>1. Published # <<>>
        BY <3>2, <2>1
      <4>2. Published[Used].id = blk[Index(Used)].id
        BY <1>2, <3>2 DEF Published, Entry, Index
      <4>. QED
        BY <2>1, <3>2, <4>1, <4>2 DEF Queue!Newest, NewestId
    <3>. QED
      BY <1>2, <3>1, <3>2
  <2>5. NewestId <= blk[prepIndex].id
    BY <1>4 DEF SameBlock
  <2>6. UNCHANGED <<IF exec THEN count ELSE 0, counter, execId, pos>>
    BY <1>1
  <2>. QED
    BY <1>2, <2>1, <2>2, <2>3, <2>4, <2>5, <2>6 DEF Queue!Put
<1>. QED
  BY <1>4, <1>5, <1>6, <1>7, <1>8, <1>9, <1>10

\* All that the proofs need of 65535.
LEMMA MaxEventsType == MaxEvents \in Nat /\ MaxEvents > 0
  BY DEF MaxEvents

\* An interrupt is Step: it takes the first segment's data, of its own block, and traces on
\* or anew exactly where the blocks differ, though it compares slots (stepper.cpp:374).
LEMMA TickRing ==
  ASSUME RingInv, Tick
  PROVE  RingInv' /\ Queue!Step /\ NewestId' = NewestId
<1>. USE DEF RingInv
<1>1. /\ Used > 0 /\ Used \in 1 .. SegSize - 1 /\ SlotOf(1) = tail
      /\ At(1) = seg[tail] /\ seg[tail].index = Index(1)
  <2>1. exec \/ head # tail
    BY DEF Tick
  <2>2. Used > 0
    BY <2>1, UsedRange DEF ExecutesFirst
  <2>. QED
    BY <2>2, UsedRange DEF At, Index
<1>2. /\ Index(1) \in BlockSlots /\ Traces = Index(1) /\ Current = blk[Index(1)] /\ Current \in Blocks
      /\ seg[tail] \in [n : Nat, index : BlockSlots, level : 0 .. MaxLevel]
  BY <1>1, IndexType DEF RingType, Traces, Current, ExecutesFirst
<1>3. Increments = [a \in Axes |-> Current.steps[a] \div Cuts(seg[tail].level)]
  BY <1>1, <1>2 DEF Increments, ExecutesFirst
<1>4. exec => execIndex = Index(1) /\ execId = Current.id /\ dir = Current.back /\ count > 0
  BY <1>1, <1>2 DEF ExecutesFirst
<1>5. Left = (IF exec THEN count ELSE seg[tail].n) - 1 /\ Left \in 0 .. MaxEvents - 1 /\ Left \in Nat
  <2>. DEFINE n == IF exec THEN count ELSE seg[tail].n
  <2>1. At(1).n \in 1 .. MaxEvents
    BY <1>1 DEF Filled
  <2>2. count \in 0 .. MaxEvents
    BY DEF RingType
  <2>3. n \in 1 .. MaxEvents
    BY <1>1, <1>4, <2>1, <2>2, MaxEventsType
  <2>. HIDE DEF n
  <2>4. Left = IF n = 0 THEN MaxEvents ELSE n - 1
    BY DEF Left, n
  <2>5. Left = n - 1 /\ Left \in 0 .. MaxEvents - 1 /\ Left \in Nat
    BY <2>3, <2>4, MaxEventsType
  <2>. QED
    BY <2>5 DEF n
<1>. DEFINE moved == [a \in Axes |-> IF a \notin Stepping THEN pos[a]
                                     ELSE IF a \in Current.back THEN pos[a] - 1 ELSE pos[a] + 1]
            traced == [a \in Axes |-> IF a \in Stepping THEN Sum(a) - Current.events ELSE Sum(a)]
<1>. HIDE DEF moved, traced
<1>6. /\ execIndex' = Index(1) /\ execId' = Current.id /\ inc' = Increments /\ dir' = Current.back
      /\ counter' = traced /\ pos' = moved /\ out' = Unlocked(Stepping)
      /\ count' = Left /\ exec' = (Left # 0)
      /\ tail' = IF Left = 0 THEN NextSlot(tail) ELSE tail
  BY <1>2, <1>4 DEF Tick, moved, traced
<1>7. /\ blk' = blk /\ seg' = seg /\ head' = head /\ nextHead' = nextHead
      /\ prepIndex' = prepIndex /\ loaded' = loaded /\ recalc' = recalc /\ remaining' = remaining
      /\ run' = run /\ pc' = pc /\ ret' = ret
  BY DEF Tick, rings, prep
<1>8. RingType'
  <2>1. Increments \in [Axes -> Int] /\ Current.events \in Int /\ Cuts(seg[tail].level) \in {1, 2, 4, 8}
    BY <1>2, <1>3, CutsValue DEF Blocks
  <2>2. Begun \in [Axes -> Int]
    BY <2>1 DEF Begun, RingType
  <2>3. traced \in [Axes -> Int] /\ moved \in [Axes -> Int] /\ Unlocked(Stepping) \subseteq Axes
    BY <2>1, <2>2 DEF traced, moved, RingType, Stepping, Unlocked, Sum
  <2>4. Current.id \in Nat /\ Current.back \subseteq Axes
    BY <1>2 DEF Blocks
  <2>5. motor' \in [Axes -> Int]
    BY DEF Tick, Pulse, RingType
  <2>6. tail' \in Slots
    BY <1>6 DEF RingType, NextSlot, Slots
  <2>. QED
    <3>1. count' \in 0 .. MaxEvents /\ exec' \in BOOLEAN
      BY <1>5, <1>6, MaxEventsType
    <3>2. execIndex' \in BlockSlots /\ execId' \in Nat /\ dir' \subseteq Axes
      BY <1>2, <1>6, <2>4
    <3>3. /\ counter' \in [Axes -> Int] /\ inc' \in [Axes -> Int]
          /\ pos' \in [Axes -> Int] /\ out' \subseteq Axes
      BY <1>6, <2>1, <2>3
    <3>. QED
      BY <1>7, <2>5, <2>6, <3>1, <3>2, <3>3 DEF RingType
<1>9. ASSUME Left # 0 PROVE RingInv' /\ Published' = Published /\ NewestId' = NewestId
  <2>1. /\ tail' = tail /\ exec' /\ Used' = Used
        /\ \A i \in 1 .. Used : At(i)' = At(i) /\ Index(i)' = Index(i)
    BY <1>6, <1>7, <1>9 DEF Used, SlotOf, At, Index
  <2>2. /\ \A k : Behind(k)' = Behind(k)
        /\ Cutting' = Cutting
    BY <1>7 DEF Behind, Cutting
  <2>3. NewestIndex' = NewestIndex /\ NewestId' = NewestId
    BY <1>1, <1>7, <2>1 DEF NewestIndex, NewestId
  <2>4. Filled'
    BY <1>6, <1>7, <2>1 DEF Filled
  <2>5. ExecutesFirst'
    <3>1. inc' = [a \in Axes |-> blk'[execIndex'].steps[a] \div Cuts(At(1)'.level)]
      BY <1>1, <1>2, <1>3, <1>6, <1>7, <2>1
    <3>2. count' > 0
      <4>1. count' = Left
        BY <1>6
      <4>2. Left \in Nat
        BY <1>5
      <4>3. Left # 0
        BY <1>9
      <4>. QED
        BY <4>1, <4>2, <4>3
    <3>. QED
      BY <1>1, <1>2, <1>6, <1>7, <2>1, <3>1, <3>2 DEF ExecutesFirst
  <2>6. InBlockOrder'
    BY <1>1, <2>1, <2>2, <2>3 DEF InBlockOrder
  <2>7. SameBlock'
    BY <1>1, <1>7, <2>1, <2>2, <2>3 DEF SameBlock
  <2>8. Published' = Published
    BY <1>7, <2>1 DEF Published, Entry, Index
  <2>. QED
    BY <2>3, <2>4, <2>5, <2>6, <2>7, <2>8, <1>8, <1>9
<1>10. ASSUME Left = 0 PROVE RingInv' /\ Published' = Tail(Published) /\ NewestId' = NewestId
  <2>1. /\ tail' = NextSlot(tail) /\ ~exec' /\ Used' = Used - 1
        /\ \A i \in 1 .. Used - 1 : At(i)' = At(i + 1) /\ Index(i)' = Index(i + 1)
    BY <1>1, <1>6, <1>7, <1>10, AfterSegment DEF Index
  <2>2. /\ \A k : Behind(k)' = Behind(k)
        /\ Cutting' = Cutting
    BY <1>7 DEF Behind, Cutting
  <2>3. NewestIndex' = NewestIndex /\ NewestId' = NewestId
    <3>1. CASE Used = 1
      BY <1>1, <1>2, <1>6, <2>1, <3>1 DEF NewestIndex, NewestId
    <3>2. CASE Used > 1
      BY <1>1, <1>2, <1>7, <2>1, <3>2 DEF NewestIndex, NewestId
    <3>. QED
      BY <1>1, <3>1, <3>2
  <2>4. Filled'
    <3>1. pc \in {"fill", "publish"} => tail' # nextHead
      <4>1. /\ tail \in 0 .. SegSize - 1 /\ head \in 0 .. SegSize - 1
            /\ nextHead = NextSlot(head) /\ RingType
        BY <1>1 DEF RingType, Slots
      <4>2. tail # head
        BY <1>1, <4>1, UsedRange
      <4>. QED
        BY <2>1, <4>1, <4>2 DEF NextSlot
    <3>. QED
      BY <1>1, <1>7, <2>1, <3>1 DEF Filled
  <2>5. ExecutesFirst'
    BY <2>1 DEF ExecutesFirst
  <2>. \A i \in 1 .. Used : Behind(Index(i)) \in Int
    BY IndexType, BehindRange
  <2>6. InBlockOrder'
    <3>. HIDE DEF Used, Behind, Index
    <3>1. \A i \in 1 .. Used' : Behind(Index(i))' <= Used' - i + Behind(Index(Used))'
      BY <1>1, <2>1, <2>2 DEF InBlockOrder
    <3>2. \A i \in 1 .. Used' - 1 : Behind(Index(i + 1))' \in {Behind(Index(i))', Behind(Index(i))' - 1}
      BY <1>1, <2>1, <2>2 DEF InBlockOrder
    <3>3. Behind(NewestIndex)' \in IF Cutting' /\ Used' < SegSize - 1 THEN {0, 1} ELSE {0}
      BY <1>1, <2>1, <2>2, <2>3 DEF InBlockOrder
    <3>. QED
      BY <3>1, <3>2, <3>3 DEF InBlockOrder
  <2>7. SameBlock'
    <3>. HIDE DEF Used, Index
    <3>1. \A i \in 1 .. Used' - 1 :
            blk'[Index(i)'].id = blk'[Index(i + 1)'].id => Index(i)' = Index(i + 1)'
      BY <1>1, <1>7, <2>1 DEF SameBlock
    <3>2. Used' > 0 => (Index(1)' = execIndex' <=> blk'[Index(1)'].id = execId')
      BY <1>1, <1>2, <1>6, <1>7, <2>1 DEF SameBlock
    <3>. QED
      BY <1>7, <2>2, <2>3, <3>1, <3>2 DEF SameBlock
  <2>8. Published' = Tail(Published)
    <3>1. Len(Published) = Used /\ Tail(Published) = [i \in 1 .. Used - 1 |-> Published[i + 1]]
      BY <1>1 DEF Published
    <3>2. Published' = [i \in 1 .. Used - 1 |-> Published[i + 1]]
      <4>1. \A i \in 1 .. Used - 1 : Entry(i)' = Entry(i + 1)
        BY <1>7, <2>1 DEF Entry
      <4>. QED
        BY <1>1, <2>1, <4>1 DEF Published
    <3>. QED
      BY <3>1, <3>2
  <2>. QED
    BY <2>3, <2>4, <2>5, <2>6, <2>7, <2>8, <1>8, <1>10
<1>11. /\ Published # <<>> /\ Head(Published).id = Current.id /\ Head(Published).n = seg[tail].n
       /\ Head(Published).events = Current.events /\ Head(Published).back = Current.back
       /\ Head(Published).inc = Increments
  <2>1. Len(Published) = Used /\ Head(Published) = Published[1]
    BY <1>1 DEF Published
  <2>2. Published[1] = [id |-> Current.id, n |-> seg[tail].n, events |-> Current.events,
                        back |-> Current.back, inc |-> Increments]
    BY <1>1, <1>2, <1>3 DEF Published, Entry, Index
  <2>. QED
    BY <1>1, <2>1, <2>2
<1>12. Queue!Step
  <2>. DEFINE acount == IF exec THEN count ELSE 0
              s == Head(Published)
              left == IF acount = 0 THEN s.n ELSE acount
              begun == IF acount = 0 /\ s.id # execId THEN [a \in Axes |-> s.events \div 2] ELSE counter
              sum(a) == begun[a] + s.inc[a]
              steps == {a \in Axes : sum(a) > s.events}
  <2>. HIDE DEF acount, s
  <2>1. acount = IF exec THEN count ELSE 0
    BY DEF acount
  <2>2. acount = 0 <=> ~exec
    BY <1>4, <2>1
  <2>3. left = IF exec THEN count ELSE seg[tail].n
    BY <1>11, <2>1, <2>2 DEF s
  <2>4. left - 1 = Left /\ (left = 1 <=> Left = 0)
    <3>. HIDE DEF left
    <3>1. left - 1 = Left /\ left \in Int
      BY <1>2, <1>5, <2>3 DEF RingType
    <3>. QED
      BY <3>1
  <2>5. begun = Begun
    <3>1. CASE exec
      BY <2>2, <3>1 DEF Begun
    <3>2. CASE ~exec
      <4>1. s.id # execId <=> Begins(seg[tail].index)
        BY <1>1, <1>2, <1>11, <3>2 DEF SameBlock, Begins, s
      <4>. QED
        BY <1>11, <2>2, <3>2, <4>1 DEF Begun, s
    <3>. QED
      BY <3>1, <3>2
  <2>6. steps = Stepping /\ \A a \in Axes : sum(a) = Sum(a)
    BY <1>11, <2>5 DEF Stepping, Sum, Passes, s
  <2>7. (IF exec' THEN count' ELSE 0) = left - 1
    BY <1>6, <2>4
  <2>8. Published' = IF left = 1 THEN Tail(Published) ELSE Published
    BY <1>9, <1>10, <2>4
  <2>. HIDE DEF left, steps, sum, begun
  <2>9. /\ execId' = s.id
        /\ counter' = [a \in Axes |-> IF a \in steps THEN sum(a) - s.events ELSE sum(a)]
        /\ pos' = [a \in Axes |-> IF a \notin steps THEN pos[a]
                                  ELSE IF a \in s.back THEN pos[a] - 1 ELSE pos[a] + 1]
    <3>1. counter' = [a \in Axes |-> IF a \in steps THEN sum(a) - s.events ELSE sum(a)]
      BY <1>6, <1>11, <2>6 DEF traced, s
    <3>2. pos' = [a \in Axes |-> IF a \notin steps THEN pos[a]
                                ELSE IF a \in s.back THEN pos[a] - 1 ELSE pos[a] + 1]
      BY <1>6, <1>11, <2>6 DEF moved, s
    <3>. QED
      BY <1>6, <1>11, <3>1, <3>2 DEF s
  <2>10. Published # <<>>
    BY <1>11
  <2>. QED
    BY <2>7, <2>8, <2>9, <2>10, Zenon DEF Queue!Step, acount, s, left, begun, sum, steps
<1>. QED
  BY <1>9, <1>10, <1>12

\* What moves neither ring nor the tracer changes nothing of the queue. (The pulses and
\* the timer's switch are not the queue's.)
LEMMA RingKept ==
  ASSUME RingInv,
         UNCHANGED <<rings, prepIndex, remaining, tail, exec, execIndex, count, counter, inc, dir,
                     execId>>,
         Cutting' = Cutting, loaded' \in {"none", "plan", "system"}, recalc' \in BOOLEAN,
         run' \in BOOLEAN, out' \subseteq Axes,
         pos' \in [Axes -> Int], motor' \in [Axes -> Int],
         pc' \notin {"fill", "publish"} \/ (pc' = pc /\ loaded' = loaded),
         ret' \notin {"prep", "fill", "publish"}
  PROVE  RingInv' /\ Published' = Published /\ NewestId' = NewestId
<1>. USE DEF RingInv
<1>1. /\ Used' = Used
      /\ \A i : /\ At(i)' = At(i) /\ Index(i)' = Index(i)
                /\ SlotOf(i)' = SlotOf(i) /\ Entry(i)' = Entry(i)
      /\ \A k : Behind(k)' = Behind(k)
  BY DEF rings, Used, At, Index, SlotOf, Behind, Entry
<1>2. NewestIndex' = NewestIndex /\ NewestId' = NewestId
  BY <1>1 DEF rings, NewestIndex, NewestId
<1>3. RingType'
  BY DEF RingType, rings
<1>4. Filled'
  BY <1>1 DEF Filled, rings
<1>5. ExecutesFirst' /\ InBlockOrder' /\ SameBlock'
  BY <1>1, <1>2 DEF ExecutesFirst, InBlockOrder, SameBlock, rings
<1>. QED
  BY <1>1, <1>2, <1>3, <1>4, <1>5 DEF Published

\* An interrupt that finds nothing to execute leaves the queue alone.
LEMMA TickDryRing ==
  ASSUME RingInv, TickDry
  PROVE  /\ RingInv' /\ Published' = Published /\ NewestId' = NewestId
         /\ UNCHANGED <<count, exec, counter, execId, pos>>
<1>1. motor' \in [Axes -> Int]
  BY DEF RingInv, RingType, TickDry, Pulse
<1>. QED
  BY <1>1, RingKept DEF TickDry, rings, prep, RingInv, RingType, Cutting

\* st_reset() empties the queue, with its ring invariant.
LEMMA RingEmptied ==
  ASSUME RingType, StepperReset, pos' \in [Axes -> Int],
         pc' \notin {"fill", "publish"}, ret' \notin {"prep", "fill", "publish"}
  PROVE  /\ RingInv' /\ Published' = <<>> /\ NewestId' = 0 /\ ~Cutting'
         /\ count' = 0 /\ ~exec' /\ counter' = Zero /\ execId' = 0
<1>1. Used' = 0 /\ ~Cutting' /\ 0 \in Slots /\ 0 \in BlockSlots /\ 1 = NextSlot(0)
  BY DEF StepperReset, Used, Cutting, Slots, BlockSlots, NextSlot
<1>2. NewestIndex' = 0 /\ NewestId' = 0 /\ Behind(NewestIndex)' = 0
  BY <1>1 DEF StepperReset, NewestIndex, NewestId, Behind
<1>3. RingType'
  <2>1. 0 \in 0 .. MaxEvents /\ Zero \in [Axes -> Int]
    BY MaxEventsType DEF Zero
  <2>. QED
    BY <1>1, <2>1 DEF StepperReset, RingType
<1>4. Filled' /\ ExecutesFirst' /\ InBlockOrder' /\ SameBlock'
  BY <1>1, <1>2 DEF Filled, ExecutesFirst, InBlockOrder, SameBlock, StepperReset
<1>5. Published' = <<>>
  BY <1>1 DEF Published
<1>. QED
  BY <1>1, <1>2, <1>3, <1>4, <1>5 DEF RingInv, StepperReset

\* So does power on.
LEMMA RingInit ==
  ASSUME StepperInit, ret \notin {"prep", "fill", "publish"}, pc \notin {"fill", "publish"}
  PROVE  RingInv /\ Queue!Init /\ NewestId = 0 /\ ~Cutting
<1>1. Used = 0 /\ ~Cutting /\ 0 \in Slots /\ 0 \in BlockSlots /\ 1 = NextSlot(0)
  BY DEF StepperInit, Used, Cutting, Slots, BlockSlots, NextSlot
<1>2. NewestIndex = 0 /\ NewestId = 0 /\ Behind(NewestIndex) = 0
  BY <1>1 DEF StepperInit, NewestIndex, NewestId, Behind
<1>3. RingType
  <2>1. 0 \in 0 .. MaxEvents /\ Zero \in [Axes -> Nat] /\ Zero \in [Axes -> Int]
    BY MaxEventsType DEF Zero
  <2>2. NoBlock \in Blocks
    BY <2>1 DEF NoBlock, Blocks
  <2>3. NoSegment \in [n : Nat, index : BlockSlots, level : 0 .. MaxLevel]
    BY <1>1 DEF NoSegment
  <2>. QED
    BY <1>1, <2>1, <2>2, <2>3 DEF StepperInit, RingType
<1>4. Filled /\ ExecutesFirst /\ InBlockOrder /\ SameBlock
  BY <1>1, <1>2 DEF Filled, ExecutesFirst, InBlockOrder, SameBlock, StepperInit
<1>5. Published = <<>>
  BY <1>1 DEF Published
<1>. QED
  BY <1>1, <1>2, <1>3, <1>4, <1>5 DEF RingInv, StepperInit, Queue!Init, Queue!Zero, Zero
=============================================================================
