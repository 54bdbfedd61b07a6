------------------------------ MODULE Pipeline ------------------------------
(***************************************************************************)
(* The stepper: st_prep_buffer() cuts the block at the plan's tail into      *)
(* segments, and the timer interrupt executes them. Two rings lie between    *)
(* them: segments, and the line tracing data of the blocks they belong to.   *)
(*                                                                          *)
(* The main program is cut where the interrupt makes a difference: loading   *)
(* a block, filling a segment, publishing it. The interrupt is one step: it  *)
(* finishes before the main program goes on (busy keeps it from nesting).    *)
(*                                                                          *)
(* Where speed decides, the choice is free: how many step events a segment   *)
(* takes, its AMASS level and where a deceleration ends (Planner says where).*)
(* Pulse widths and the spindle's speed, which no property is about, are     *)
(* left out, and so are the pin inversion masks.                             *)
(***************************************************************************)
EXTENDS Integers, Sequences, FiniteSets

CONSTANTS
  SegSize,    \* SEGMENT_BUFFER_SIZE
  MaxLevel,   \* MAX_AMASS_LEVEL
  Axes

ASSUME PipelineAssumption ==
  /\ SegSize \in Nat /\ SegSize > 2
  /\ MaxLevel \in 1 .. 3

VARIABLES
  \* Shared with the planner and the realtime executor.
  plan,        \* blocks planned, the one being cut first
  system,      \* the block of a system motion, in the free slot at the plan's head
  state,       \* sys.state
  stepctl,     \* sys.step_control
  flags,       \* sys_rt_exec_state
  lock,        \* sys.homing_axis_lock: the axes that may move while homing
  away,        \* the probe cycle is one away from the workpiece (probe_invert_mask)
  probing,     \* sys_probe_state = PROBE_ACTIVE
  \* st_prep_buffer()
  blk,         \* st_block_buffer
  seg,         \* segment_buffer
  head, nextHead, tail,
  prepIndex,   \* prep.st_block_index
  remaining,   \* prep.steps_remaining
  loaded,      \* pl_block: none, the first of plan, or system
  recalc,      \* PREP_FLAG_RECALCULATE
  \* The timer interrupt.
  run,         \* it is enabled
  exec,        \* st.exec_segment # NULL
  execIndex,   \* st.exec_block_index
  count,       \* st.step_count
  counter,     \* st.counter_x ...
  inc,         \* st.steps
  out,         \* st.step_outbits: pulsed by the next interrupt
  dir,         \* st.dir_outbits
  pos,         \* sys_position
  motor,       \* history: the pulses the motors were sent, as a position
  execId,      \* history: the block traced last
  \* Where the main program is, and where it goes on after st_prep_buffer().
  pc, ret

rings  == <<blk, seg, head, nextHead>>
prep   == <<prepIndex, remaining, loaded, recalc>>
tracer == <<tail, exec, execIndex, count, counter, inc, out, dir, pos, motor, execId>>
shared == <<plan, system, state, stepctl, flags, lock, away, probing>>
stepperVars == <<shared, rings, prep, run, tracer, pc, ret>>

Slots == 0 .. SegSize - 1
BlockSlots == 0 .. SegSize - 2

Zero == [a \in Axes |-> 0]
NoBlock == [id |-> 0, steps |-> Zero, back |-> {}, events |-> 0]
NoSegment == [n |-> 0, index |-> 0, level |-> 0]
Blocks == [id : Nat, steps : [Axes -> Nat], back : SUBSET Axes, events : Nat]

\* 1 << level: the interrupts a level takes for a step event.
Cuts(level) == <<1, 2, 4, 8>>[level + 1]

\* What n_step, a uint16_t, can hold. A segment is so short that its speed would have to
\* be a thousand times what the timer can do to need more.
MaxEvents == 65535

\* Mutant: the ring of blocks is taken to be as long as the one of segments.
NextBlockLong(i) == IF i + 1 = SegSize THEN 0 ELSE i + 1

\* st_next_block_index(), and the next of the segments.
NextBlock(i) == IF i + 1 = SegSize - 1 THEN 0 ELSE i + 1
NextSlot(i) == IF i + 1 = SegSize THEN 0 ELSE i + 1

-----------------------------------------------------------------------------
(* st_prep_buffer(), entered at pc = "prep". *)

\* The block to cut: the system motion's, or the first of the plan.
Source ==
  IF loaded # "none" THEN loaded
  ELSE IF "SYS_MOTION" \in stepctl THEN "system"
  ELSE IF plan # <<>> THEN "plan" ELSE "none"

ToCut == IF Source = "system" THEN system ELSE Head(plan)

\* The tracing data of a block, scaled so that no level loses a step to a division.
Traced(b) ==
  [id |-> b.id, back |-> b.back, events |-> b.events * Cuts(MaxLevel),
   steps |-> [a \in Axes |-> b.steps[a] * Cuts(MaxLevel)]]

\* The ring is full, nothing is left to cut or the motion is to end.
PrepReturns ==
  /\ pc = "prep"
  /\ "END_MOTION" \in stepctl \/ tail = nextHead \/ Source = "none"
  /\ pc' = ret
  /\ UNCHANGED <<shared, rings, prep, run, tracer, ret>>

\* A block is loaded into a slot of its own, unless only its speeds have changed.
Loads == loaded = "none" /\ ~recalc

PrepLoad ==
  /\ pc = "prep"
  /\ "END_MOTION" \notin stepctl /\ tail # nextHead /\ Source # "none"
  /\ IF Loads
     THEN /\ prepIndex' = NextBlock(prepIndex)
          /\ blk' = [blk EXCEPT ![NextBlock(prepIndex)] = Traced(ToCut)]
          /\ remaining' = ToCut.events
     ELSE UNCHANGED <<prepIndex, blk, remaining>>
  /\ loaded' = Source
  /\ recalc' = (recalc /\ loaded # "none")
  /\ pc' = "fill"
  /\ UNCHANGED <<shared, seg, head, nextHead, run, tracer, ret>>

\* A segment of n step events, each cut as its level says; a hold that ends within a step
\* makes none.
PrepFill ==
  /\ pc = "fill"
  /\ \/ \E n \in 1 .. remaining, level \in 0 .. MaxLevel :
          /\ n * Cuts(level) <= MaxEvents
          /\ seg' = [seg EXCEPT ![head] =
                       [n |-> n * Cuts(level), index |-> prepIndex, level |-> level]]
          /\ pc' = "publish"
          /\ UNCHANGED stepctl
     \/ /\ "EXECUTE_HOLD" \in stepctl
        /\ stepctl' = stepctl \cup {"END_MOTION"}
        /\ seg' = [seg EXCEPT ![head] = [n |-> 0, index |-> prepIndex, level |-> @.level]]
        /\ pc' = ret
  /\ UNCHANGED <<plan, system, state, flags, lock, away, probing, blk, head, nextHead, prep,
                 run, tracer, ret>>

\* The step events the block has left behind the segment just filled, if any.
Rest == remaining - seg[head].n \div Cuts(seg[head].level)

\* The interrupt may execute it. At its end the block is discarded, but not a system
\* motion's: there, and where a hold ends inside it, the motion ends.
PrepPublish ==
  /\ pc = "publish"
  /\ head' = nextHead
  /\ nextHead' = NextSlot(nextHead)
  /\ remaining' = Rest
  /\ IF Rest > 0
     THEN /\ \/ pc' = "prep" /\ UNCHANGED stepctl
             \/ /\ "EXECUTE_HOLD" \in stepctl
                /\ stepctl' = stepctl \cup {"END_MOTION"}
                /\ pc' = ret
          /\ UNCHANGED <<plan, loaded>>
     ELSE IF "SYS_MOTION" \in stepctl
     THEN stepctl' = stepctl \cup {"END_MOTION"} /\ pc' = ret /\ UNCHANGED <<plan, loaded>>
     ELSE plan' = Tail(plan) /\ loaded' = "none" /\ pc' = "prep" /\ UNCHANGED stepctl
  /\ UNCHANGED <<system, state, flags, lock, away, probing, blk, seg, prepIndex, recalc,
                 run, tracer, ret>>

Prep == PrepReturns \/ PrepLoad \/ PrepFill \/ PrepPublish

\* st_update_plan_block_parameters()
Unloaded == loaded' = "none" /\ recalc' = (recalc \/ loaded # "none")

-----------------------------------------------------------------------------
(* TIMER1_COMPA_vect() *)

\* The pulses prepared by the last interrupt.
Pulse == motor' = [a \in Axes |-> IF a \notin out THEN motor[a]
                                  ELSE IF a \in dir THEN motor[a] - 1 ELSE motor[a] + 1]

\* Nothing to execute: the timer stops itself and says so.
TickDry ==
  /\ run
  /\ ~exec /\ head = tail
  /\ Pulse
  /\ run' = FALSE
  /\ flags' = flags \cup {"CYCLE_STOP"}
  /\ UNCHANGED <<plan, system, state, stepctl, lock, away, probing, rings, prep, tail, exec,
                 execIndex, count, counter, inc, out, dir, pos, execId, pc, ret>>

\* Mutant: every segment starts the tracing anew; none does.
BeginsAlways(index) == TRUE

\* The segment begins another block than the one traced last.
Begins(index) == index # execIndex

\* The line has passed the middle between two steps of an axis.
Passes(sum, events) == sum > events

\* probe_get_state(): PROBE_BIT & PROBE_MASK is 0, so that only the invert mask is left
\* and the pin is not read.
ProbeState == ~away

\* Homing holds back the pulses of a locked axis, not its count.
Unlocked(S) == IF state = "HOMING" THEN S \cap lock ELSE S

\* A step event is traced of the segment at the tail, which is loaded first if it is new.
Traces == IF exec THEN execIndex ELSE seg[tail].index
Current == blk[Traces]
Increments == IF exec THEN inc
              ELSE [a \in Axes |-> Current.steps[a] \div Cuts(seg[tail].level)]
Begun == IF ~exec /\ Begins(seg[tail].index) THEN [a \in Axes |-> Current.events \div 2] ELSE counter
Sum(a) == Begun[a] + Increments[a]
Stepping == {a \in Axes : Passes(Sum(a), Current.events)}
Left == LET n == IF exec THEN count ELSE seg[tail].n IN IF n = 0 THEN MaxEvents ELSE n - 1

Tick ==
  /\ run
  /\ exec \/ head # tail
  /\ Pulse
  /\ execIndex' = Traces
  /\ execId' = Current.id
  /\ inc' = Increments
  /\ dir' = IF exec THEN dir ELSE Current.back
  /\ LET steps == Stepping
     IN  /\ counter' = [a \in Axes |-> IF a \in steps THEN Sum(a) - Current.events ELSE Sum(a)]
         /\ pos' = [a \in Axes |-> IF a \notin steps THEN pos[a]
                                   ELSE IF a \in Current.back THEN pos[a] - 1 ELSE pos[a] + 1]
         /\ out' = Unlocked(steps)
  /\ count' = Left
  /\ exec' = (Left # 0)
  /\ tail' = IF Left = 0 THEN NextSlot(tail) ELSE tail
  /\ IF probing /\ ProbeState
     THEN probing' = FALSE /\ flags' = flags \cup {"MOTION_CANCEL"}
     ELSE UNCHANGED <<probing, flags>>
  /\ UNCHANGED <<plan, system, state, stepctl, lock, away, rings, prep, run, pc, ret>>

\* Mutant: the last pulse of the motion before is sent again.
WakeUpAsIs == run' = TRUE /\ UNCHANGED out

\* st_wake_up()
WakeUp == run' = TRUE /\ out' = {}

\* Mutant: the timer goes on through a reset.
ResetRunning ==
  /\ run' = run /\ exec' = FALSE
  /\ head' = 0 /\ nextHead' = 1 /\ tail' = 0
  /\ prepIndex' = 0 /\ remaining' = 0 /\ loaded' = "none" /\ recalc' = FALSE
  /\ execIndex' = 0 /\ count' = 0 /\ counter' = Zero /\ inc' = Zero
  /\ out' = {} /\ dir' = {} /\ execId' = 0
  /\ UNCHANGED <<blk, seg, motor>>

\* st_reset(), where the caller leaves the timer off too.
StepperReset ==
  /\ run' = FALSE /\ exec' = FALSE
  /\ head' = 0 /\ nextHead' = 1 /\ tail' = 0
  /\ prepIndex' = 0 /\ remaining' = 0 /\ loaded' = "none" /\ recalc' = FALSE
  /\ execIndex' = 0 /\ count' = 0 /\ counter' = Zero /\ inc' = Zero
  /\ out' = {} /\ dir' = {} /\ execId' = 0
  /\ UNCHANGED <<blk, seg, motor>>

StepperInit ==
  /\ blk = [i \in BlockSlots |-> NoBlock] /\ seg = [i \in Slots |-> NoSegment]
  /\ head = 0 /\ nextHead = 1 /\ tail = 0
  /\ prepIndex = 0 /\ remaining = 0 /\ loaded = "none" /\ recalc = FALSE
  /\ run = FALSE /\ exec = FALSE /\ execIndex = 0 /\ count = 0
  /\ counter = Zero /\ inc = Zero /\ out = {} /\ dir = {}
  /\ pos = Zero /\ motor = Zero /\ execId = 0

-----------------------------------------------------------------------------
(* What the rings implement. *)

\* The segments between tail and head, each with its block's data. Of the one being
\* executed only count is left.
Used == IF head >= tail THEN head - tail ELSE head + SegSize - tail
SlotOf(i) == IF tail + i <= SegSize THEN tail + i - 1 ELSE tail + i - 1 - SegSize
At(i) == seg[SlotOf(i)]
Entry(i) ==
  LET b == blk[At(i).index]
  IN  [id |-> b.id, n |-> At(i).n, events |-> b.events, back |-> b.back,
       inc |-> [a \in Axes |-> b.steps[a] \div Cuts(At(i).level)]]
Published == [i \in 1 .. Used |-> Entry(i)]

Queue == INSTANCE SegmentQueue
  WITH queue <- Published,
       count <- IF exec THEN count ELSE 0,
       counter <- counter,
       last <- execId,
       pos <- pos
-----------------------------------------------------------------------------
(* Why they implement it: what the main program's cuts and the interrupt keep. *)

RingType ==
  /\ head \in Slots /\ nextHead = NextSlot(head) /\ tail \in Slots
  /\ prepIndex \in BlockSlots /\ execIndex \in BlockSlots
  /\ seg \in [Slots -> [n : Nat, index : BlockSlots, level : 0 .. MaxLevel]]
  /\ blk \in [BlockSlots -> Blocks]
  /\ loaded \in {"none", "plan", "system"} /\ recalc \in BOOLEAN /\ remaining \in Nat
  /\ run \in BOOLEAN /\ exec \in BOOLEAN /\ count \in 0 .. MaxEvents /\ execId \in Nat
  /\ counter \in [Axes -> Int] /\ inc \in [Axes -> Int] /\ pos \in [Axes -> Int]
  /\ motor \in [Axes -> Int] /\ out \subseteq Axes /\ dir \subseteq Axes
  /\ ret \notin {"prep", "fill", "publish"}

Index(i) == At(i).index

\* A block is being cut: it is loaded, or has only to be planned again.
Cutting == loaded # "none" \/ recalc

\* How many blocks behind the one cut last the one in slot k is.
Behind(k) == IF prepIndex >= k THEN prepIndex - k ELSE prepIndex + SegSize - 1 - k

\* The block, and the slot, of the newest segment, or of the last executed.
NewestId == IF Used = 0 THEN execId ELSE blk[Index(Used)].id
NewestIndex == IF Used = 0 THEN execIndex ELSE Index(Used)

\* There is a slot to fill while one is filled, and what is published has steps to make.
Filled ==
  /\ pc \in {"fill", "publish"} => tail # nextHead /\ loaded # "none"
  /\ pc = "publish" => /\ seg[head].index = prepIndex
                       /\ seg[head].n \in 1 .. MaxEvents
                       /\ seg[head].n <= remaining * Cuts(seg[head].level)
  /\ \A i \in 1 .. Used : At(i).n \in 1 .. MaxEvents

\* The interrupt works on the oldest segment with the data of its block.
ExecutesFirst ==
  exec => /\ Used > 0 /\ execIndex = Index(1) /\ execId = blk[execIndex].id
          /\ inc = [a \in Axes |-> blk[execIndex].steps[a] \div Cuts(At(1).level)]
          /\ dir = blk[execIndex].back
          /\ count > 0

\* From a segment to the next the block stays or is the next one, up to the block being
\* cut: the slot a new block is loaded into is no segment's.
InBlockOrder ==
  /\ \A i \in 1 .. Used : Behind(Index(i)) <= Used - i + Behind(Index(Used))
  /\ \A i \in 1 .. Used - 1 :
       Behind(Index(i + 1)) \in {Behind(Index(i)), Behind(Index(i)) - 1}
  /\ Behind(NewestIndex) \in IF Cutting /\ Used < SegSize - 1 THEN {0, 1} ELSE {0}

\* Two segments in a row are in the same slot if they are of the same block, so that the
\* interrupt, which compares slots (stepper.cpp:373), knows where a block begins.
SameBlock ==
  /\ \A i \in 1 .. Used - 1 : blk[Index(i)].id = blk[Index(i + 1)].id => Index(i) = Index(i + 1)
  /\ Used > 0 /\ ~exec => (Index(1) = execIndex <=> blk[Index(1)].id = execId)
  /\ Cutting => /\ NewestId <= blk[prepIndex].id
                /\ NewestId = blk[prepIndex].id <=> prepIndex = NewestIndex

RingInv == RingType /\ Filled /\ ExecutesFirst /\ InBlockOrder /\ SameBlock
=============================================================================
