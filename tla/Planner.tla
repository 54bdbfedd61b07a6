------------------------------ MODULE Planner ------------------------------
(***************************************************************************)
(* The look-ahead planner and the velocity profile of the block being       *)
(* executed: the block ring, plan_buffer_line(), planner_recalculate() with *)
(* its planned pointer, the overrides, the feed hold, and st_prep_buffer()  *)
(* consuming the block at the tail.                                         *)
(*                                                                          *)
(* Everything here runs in the main program: the stepper interrupt reads    *)
(* only the segments. planner_recalculate() is one step per turn of its two *)
(* loops (pass, index), nothing else happening meanwhile; st_prep_buffer()  *)
(* is one step per turn of its loop, i.e. per segment.                      *)
(*                                                                          *)
(* Units: a speed is its square, and a length is the change of the square   *)
(* at full acceleration along it (2*acceleration*millimeters); so a block   *)
(* entered at v can be left at v-length..v+length. Where the exact ramp     *)
(* falls in a segment depends on its time; here a segment takes any part of *)
(* the block. Overrides are squared too, in units of (50%)^2.               *)
(***************************************************************************)
EXTENDS Naturals

CONSTANTS
  Large,      \* SOME_LARGE_VALUE
  Jobs        \* kinds of job: the blocks in the ring (BLOCK_BUFFER_SIZE), the moves the
              \* job is made of, how many of them the user sends ahead, the overrides he
              \* may give and whether he only raises or only lowers them

Speeds == Nat

Moves ==
  [rate: Speeds,        \* programmed_rate
   cap: Speeds,         \* rapid_rate
   rapid: BOOLEAN,      \* PL_COND_FLAG_RAPID_MOTION
   junction: Speeds,    \* max_junction_speed_sqr, from the angle to the previous move
   length: Nat \ {0}]

Overrides == [feed: Nat \ {0}, rapid: Nat \ {0}]

\* 100% of both: what the program starts with.
DefaultOverride == [feed |-> 4, rapid |-> 4]

ASSUME PlannerAssumption ==
  /\ Large \in Nat
  /\ \A j \in Jobs : /\ j.blocks \in Nat /\ j.blocks > 2
                     /\ j.moves \subseteq Moves
                     /\ j.ahead \in Nat
                     /\ j.overrides \subseteq Overrides
                     /\ j.trend \in {"raise", "lower"}

VARIABLES
  job,         \* the job being run, a member of Jobs (never changes)
  block,       \* block_buffer
  tail, head,  \* block_buffer_tail, block_buffer_head
  planned,     \* block_buffer_planned
  previous,    \* pl.previous_nominal_speed
  override,    \* sys.f_override, sys.r_override
  pass,        \* the loop planner_recalculate() is in
  index,       \* its block_index
  mode,        \* idle, cycle, hold (decelerating) or held
  endMotion,   \* STEP_CONTROL_END_MOTION
  loaded,      \* pl_block # NULL
  recalc,      \* PREP_FLAG_RECALCULATE
  forced,      \* PREP_FLAG_DECEL_OVERRIDE
  speed,       \* prep.current_speed
  exit,        \* prep.exit_speed
  stop         \* prep.mm_complete

ring == <<block, tail, head, planned>>
loop == <<pass, index>>
prep == <<loaded, recalc, forced, speed, exit, stop>>
vars == <<job, ring, previous, override, loop, mode, endMotion, prep>>

Slots == 0 .. job.blocks - 1

\* memset() of a block.
Zeroed == [rate |-> 0, cap |-> 0, rapid |-> FALSE, junction |-> 0, length |-> 0,
           entry |-> 0, max |-> 0]

Least(a, b) == IF a < b THEN a ELSE b
Most(a, b) == IF a < b THEN b ELSE a

\* Mutant: the index wraps one too late.
NextSlotLate(i) == IF i = job.blocks THEN 0 ELSE i + 1

NextSlot(i) == IF i + 1 = job.blocks THEN 0 ELSE i + 1
PrevSlot(i) == IF i = 0 THEN job.blocks - 1 ELSE i - 1

Empty == head = tail
Full == tail = NextSlot(head)

\* The slot's place in the queue: the tail is 0, the last block Place(head) - 1.
Place(i) == IF i >= tail THEN i - tail ELSE i + job.blocks - tail
Queued(i) == i \in Slots /\ Place(i) < Place(head)

-----------------------------------------------------------------------------
(* Nominal speeds *)

MinimumFeedRate == 1

Nominal(b, o) ==
  Most(MinimumFeedRate, IF b.rapid THEN (b.rate * o.rapid) \div 4
                                   ELSE Least((b.rate * o.feed) \div 4, b.cap))

MaxEntry(b, nominal, before) == Least(Least(nominal, before), b.junction)

\* The nominal speed of the block before slot i, under override o.
Before(i, o) == IF i = tail THEN Large ELSE Nominal(block[PrevSlot(i)], o)

-----------------------------------------------------------------------------
(* planner_recalculate() *)

\* st_update_plan_block_parameters() on block array b: the executing block is
\* put back as a new one that begins here, at the current speed.
Unload(b) == IF loaded THEN [b EXCEPT ![tail].entry = speed] ELSE b

Unloading(yes) ==
  IF yes /\ loaded THEN loaded' = FALSE /\ recalc' = TRUE ELSE UNCHANGED <<loaded, recalc>>

\* Mutant: the last block need not end at rest.
StoppableNever(b) == b.max

\* The speed at which a block may be entered to end at rest.
Stoppable(b) == Least(b.max, b.length)

\* Mutant: the stepper is not told of a new plan.
ExecutingNever(i) == FALSE

\* The pass has reached the executing block: the stepper is to be told.
Executing(i) == i = tail

\* The beginning of planner_recalculate() on blocks b with head h and planned
\* pointer p: the last block is planned to end at rest. already: the caller has
\* called st_update_plan_block_parameters() itself.
Recalculate(b, h, p, already) ==
  LET last == PrevSlot(h)
      i == PrevSlot(last)
      touches == already \/ (last # p /\ i = p /\ Executing(i))
      c == IF touches THEN Unload(b) ELSE b
  IN  /\ planned' = p
      /\ head' = h
      /\ Unloading(touches)
      /\ IF last = p
         THEN pass' = "none" /\ block' = c /\ index' = 0
         ELSE /\ pass' = IF i = p THEN "forward" ELSE "reverse"
              /\ index' = IF i = p THEN NextSlot(p) ELSE i
              /\ block' = [c EXCEPT ![last].entry = Stoppable(c[last])]

\* One turn of the reverse pass: how fast may this block be entered, to be left
\* at the speed of the next? A block at its maximum is taken as done.
Reverse ==
  LET i == PrevSlot(index)
      c == IF Executing(i) THEN Unload(block) ELSE block
      cur == c[index]
  IN  /\ pass = "reverse"
      /\ Unloading(Executing(i))
      /\ block' = IF cur.entry = cur.max THEN c
                  ELSE [c EXCEPT ![index].entry =
                          Least(cur.max, c[NextSlot(index)].entry + cur.length)]
      /\ IF i = planned THEN pass' = "forward" /\ index' = NextSlot(planned)
                        ELSE pass' = "reverse" /\ index' = i
      /\ UNCHANGED <<job, tail, head, planned, previous, override, mode, endMotion,
                     forced, speed, exit, stop>>

\* Mutant: a block that accelerates at all is taken for fully accelerated.
AcceleratedHastily(cur, next) == cur.entry < next.entry

\* The next block is planned faster than this one can accelerate to.
Accelerated(cur, next) == cur.entry < next.entry /\ cur.entry + cur.length < next.entry

\* The next block's entry speed, dialled down to what this one accelerates to.
Dialled(cur, next) ==
  IF Accelerated(cur, next) THEN [next EXCEPT !.entry = cur.entry + cur.length] ELSE next

\* Mutant: a block below its maximum is taken for optimal too.
OptimalAlways(b) == b.entry <= b.max

\* Nothing planned later can change the entry speed of this block.
Optimal(b) == b.entry = b.max

\* One turn of the forward pass: what the block before can accelerate to. A
\* block reached at full acceleration or at its maximum need not be planned again.
Forward ==
  LET cur == block[PrevSlot(index)]
      next == Dialled(cur, block[index])
  IN  /\ pass = "forward"
      /\ index # head
      /\ block' = [block EXCEPT ![index] = next]
      /\ planned' = IF Accelerated(cur, block[index]) \/ Optimal(next) THEN index ELSE planned
      /\ index' = NextSlot(index)
      /\ UNCHANGED <<job, tail, head, previous, override, pass, mode, endMotion, prep>>

ForwardDone ==
  /\ pass = "forward"
  /\ index = head
  /\ pass' = "none" /\ index' = 0
  /\ UNCHANGED <<job, ring, previous, override, mode, endMotion, prep>>

-----------------------------------------------------------------------------
(* The planner's callers *)

Ready == pass = "none"

\* mc_line() plans a move: while a hold is complete the main program is inside
\* the suspend loop, and does not. A block behind nothing starts from rest.
PlanLine(m) ==
  LET fresh == [rate |-> m.rate, cap |-> m.cap, rapid |-> m.rapid, length |-> m.length,
                junction |-> IF Empty THEN 0 ELSE m.junction, entry |-> 0, max |-> 0]
      nominal == Nominal(fresh, override)
  IN  /\ Ready
      /\ mode # "held"
      /\ ~Full
      /\ Place(head) < job.ahead
      /\ previous' = nominal
      /\ LET new == [fresh EXCEPT !.max = MaxEntry(fresh, nominal, previous)]
         IN  Recalculate([block EXCEPT ![head] = new], NextSlot(head), planned, FALSE)
      /\ UNCHANGED <<job, tail, override, mode, endMotion, forced, speed, exit, stop>>

\* A move of no length has only cleared the free slot.
PlanNothing ==
  /\ Ready
  /\ mode # "held"
  /\ ~Full
  /\ block' = [block EXCEPT ![head] = Zeroed]
  /\ UNCHANGED <<job, tail, head, planned, previous, override, loop, mode, endMotion, prep>>

\* plan_cycle_reinitialize() on blocks b: everything is planned again from the tail.
Reinitialize(b) == Recalculate(b, head, tail, TRUE)

\* A feed or rapid override: all maximum entry speeds, then the whole plan.
Override(o) ==
  LET queue == {i \in Slots : Queued(i)}
  IN  /\ Ready
      /\ o # override
      /\ job.trend = "raise" => o.feed >= override.feed /\ o.rapid >= override.rapid
      /\ job.trend = "lower" => o.feed <= override.feed /\ o.rapid <= override.rapid
      /\ override' = o
      /\ previous' = Before(head, o)
      /\ Reinitialize([i \in Slots |->
           IF i \in queue
           THEN [block[i] EXCEPT !.max = MaxEntry(block[i], Nominal(block[i], o), Before(i, o))]
           ELSE block[i]])
      /\ UNCHANGED <<job, tail, mode, endMotion, forced, speed, exit, stop>>

-----------------------------------------------------------------------------
(* st_prep_buffer() *)

\* Mutant: the head's slot is not recognised as empty.
NextEntryAny == block[NextSlot(tail)].entry

\* plan_get_exec_block_exit_speed_sqr()
NextEntry == LET i == NextSlot(tail) IN IF i = head THEN 0 ELSE block[i].entry

\* The speed a segment starts at. A block is loaded at its planned entry speed,
\* or at the speed the last one ended with where the plan is overridden.
StartSpeed ==
  IF loaded \/ recalc THEN speed
  ELSE IF mode = "hold" \/ forced THEN exit
  ELSE block[tail].entry

\* The block's entry speed as the profile is computed from it.
StartEntry ==
  IF ~recalc /\ (mode = "hold" \/ forced) THEN exit ELSE block[tail].entry

\* Mutant: a block too short to brake to a lowered nominal speed still ends at
\* its planned exit speed.
OverrunNever(e, length, nominal) == FALSE

\* Not even the whole block is enough to brake to a lowered nominal speed.
Overrun(e, length, nominal) == e > nominal /\ length <= e - nominal

\* The velocity profile of the block at the tail, entered at e.
Profile(e) ==
  LET length == block[tail].length
      nominal == Nominal(block[tail], override)
  IN  IF mode = "hold"
      THEN IF e > length THEN [exit |-> e - length, stop |-> 0, forced |-> FALSE]
                         ELSE [exit |-> 0, stop |-> length - e, forced |-> FALSE]
      ELSE IF Overrun(e, length, nominal)
      THEN [exit |-> e - length, stop |-> 0, forced |-> TRUE]
      ELSE [exit |-> NextEntry, stop |-> 0, forced |-> FALSE]

\* The speed at the end of a segment that starts at v, is part long and leaves
\* rest of the profile: deceleration where it is due, else the nominal speed.
EndSpeed(v, part, rest, x, nominal) ==
  IF rest = 0 THEN x
  ELSE IF v >= x + part + rest THEN v - part
  ELSE Least(x + rest, IF v > nominal THEN Most(nominal, v - part)
                                      ELSE Least(nominal, v + part))

\* Mutant: the planned pointer is not pushed.
PlannedBehind == planned

\* plan_discard_current_block() pushes the planned pointer.
PlannedAfter == IF planned = tail THEN NextSlot(tail) ELSE planned

\* A part of the profile becomes a segment. At its end the block is discarded
\* or, where a hold ends inside it, the motion.
Segment(part) ==
  LET e == StartEntry
      f == IF loaded THEN [exit |-> exit, stop |-> stop, forced |-> forced] ELSE Profile(e)
      length == block[tail].length
      rest == length - part - f.stop
  IN  /\ part + f.stop <= length
      /\ exit' = f.exit /\ stop' = f.stop /\ forced' = f.forced
      /\ recalc' = (recalc /\ loaded)
      /\ speed' = EndSpeed(StartSpeed, part, rest, f.exit, Nominal(block[tail], override))
      /\ block' = [block EXCEPT ![tail] = [block[tail] EXCEPT !.entry = IF loaded THEN @ ELSE e,
                                                              !.length = length - part]]
      /\ loaded' = (rest > 0 \/ f.stop > 0)
      /\ endMotion' = (rest = 0 /\ f.stop > 0)
      /\ tail' = IF rest = 0 /\ f.stop = 0 THEN NextSlot(tail) ELSE tail
      /\ planned' = IF rest = 0 /\ f.stop = 0 THEN PlannedAfter ELSE planned

\* Segments are prepared while the machine runs. Nothing is left of the profile
\* only where a hold begins at rest: then no step is made and the motion ends.
PrepSegment(part) ==
  /\ Ready
  /\ mode \in {"cycle", "hold"}
  /\ ~endMotion
  /\ ~Empty
  /\ part = 0 => mode = "hold" /\ ~loaded /\ Profile(StartEntry).stop = block[tail].length
  /\ Segment(part)
  /\ UNCHANGED <<job, head, previous, override, loop, mode>>

-----------------------------------------------------------------------------
(* protocol_exec_rt_system() *)

\* EXEC_CYCLE_START, from IDLE or after a complete hold.
CycleStart ==
  /\ Ready
  /\ mode \in {"idle", "held"}
  /\ mode' = IF Empty THEN "idle" ELSE "cycle"
  /\ endMotion' = FALSE
  /\ UNCHANGED <<job, ring, previous, override, loop, prep>>

\* EXEC_FEED_HOLD: a running machine decelerates, one at rest is held at once.
FeedHold ==
  /\ Ready
  /\ mode \in {"idle", "cycle"}
  /\ mode' = IF mode = "cycle" THEN "hold" ELSE "held"
  /\ block' = IF mode = "cycle" THEN Unload(block) ELSE block
  /\ Unloading(mode = "cycle")
  /\ UNCHANGED <<job, tail, head, planned, previous, override, loop, endMotion,
                 forced, speed, exit, stop>>

\* EXEC_CYCLE_STOP: the stepper has executed every segment.
CycleDone ==
  /\ Ready
  /\ mode = "cycle"
  /\ Empty
  /\ mode' = "idle"
  /\ UNCHANGED <<job, ring, previous, override, loop, endMotion, prep>>

HoldDone ==
  /\ Ready
  /\ mode = "hold"
  /\ Empty \/ endMotion
  /\ mode' = "held"
  /\ Reinitialize(block)
  /\ UNCHANGED <<job, tail, previous, override, endMotion, forced, speed, exit, stop>>

\* plan_reset() and st_reset(): a jog cancel that is complete, or a reset, that
\* also restores the overrides.
Flush(o) ==
  /\ Ready
  /\ tail' = 0 /\ head' = 0 /\ planned' = 0 /\ previous' = 0
  /\ loaded' = FALSE /\ recalc' = FALSE /\ forced' = FALSE
  /\ speed' = 0 /\ exit' = 0 /\ stop' = 0
  /\ mode' = "idle"
  /\ endMotion' = FALSE
  /\ override' = o
  /\ UNCHANGED <<job, block, loop>>

JogCancelled == mode = "hold" /\ (Empty \/ endMotion) /\ Flush(override)
Reset == Flush(DefaultOverride)

\* M2, M30: the program waits for the plan to be empty, then restores the overrides.
ProgramEnd ==
  /\ Ready
  /\ mode \in {"idle", "cycle"}
  /\ Empty
  /\ override' = DefaultOverride
  /\ UNCHANGED <<job, ring, previous, loop, mode, endMotion, prep>>

Init ==
  /\ job \in Jobs
  /\ block = [i \in Slots |-> Zeroed]
  /\ tail = 0 /\ head = 0 /\ planned = 0
  /\ previous = 0
  /\ override = DefaultOverride
  /\ pass = "none" /\ index = 0
  /\ mode = "idle"
  /\ endMotion = FALSE
  /\ loaded = FALSE /\ recalc = FALSE /\ forced = FALSE
  /\ speed = 0 /\ exit = 0 /\ stop = 0

Next ==
  \/ \E m \in job.moves : PlanLine(m)
  \/ PlanNothing
  \/ Reverse
  \/ Forward
  \/ ForwardDone
  \/ \E o \in job.overrides : Override(o)
  \/ \E part \in 0 .. block[tail].length : PrepSegment(part)
  \/ CycleStart
  \/ FeedHold
  \/ CycleDone
  \/ HoldDone
  \/ JogCancelled
  \/ Reset
  \/ ProgramEnd

Spec == Init /\ [][Next]_vars

-----------------------------------------------------------------------------
(* Properties *)

\* The indices stay in the ring and speeds and lengths never become negative.
TypeOK ==
  /\ job \in Jobs
  /\ block \in [Slots -> [rate: Speeds, cap: Speeds, rapid: BOOLEAN, junction: Speeds,
                          length: Nat, entry: Speeds, max: Speeds]]
  /\ tail \in Slots /\ head \in Slots /\ planned \in Slots
  /\ previous \in Speeds
  /\ override \in Overrides
  /\ pass \in {"none", "reverse", "forward"} /\ index \in Slots
  /\ mode \in {"idle", "cycle", "hold", "held"}
  /\ endMotion \in BOOLEAN /\ loaded \in BOOLEAN /\ recalc \in BOOLEAN /\ forced \in BOOLEAN
  /\ speed \in Speeds /\ exit \in Speeds /\ stop \in Nat

\* The blocks that the stepper has not begun, and the speed each is left at.
Waiting == {i \in Slots : Queued(i) /\ i # tail}
LeaveSpeed(i) == IF NextSlot(i) = head THEN 0 ELSE block[NextSlot(i)].entry

\* Guidelines 1a, 1b and 2a of planner.cpp:73-80: no block is entered faster
\* than its maximum, than it can brake to the speed it is left at, or so slowly
\* that it cannot reach it; and the block being executed can still brake.
PlanFeasible ==
  Ready =>
    /\ \A i \in Waiting :
         /\ block[i].entry <= block[i].max
         /\ block[i].entry <= LeaveSpeed(i) + block[i].length
         /\ LeaveSpeed(i) <= block[i].entry + block[i].length
    /\ ~Empty => StartSpeed <= block[tail].length
                   + (IF loaded THEN exit ELSE Profile(StartEntry).exit)

\* planner.cpp:82-86: the plan is optimal, although only the blocks after the
\* planned pointer are computed again for a new one. No entry speed could be
\* raised: it is the maximum, or what the block brakes from, or what the block
\* before accelerates to. Not while a hold decelerates, which has no plan.
PlanOptimal ==
  Ready /\ mode # "hold" => \A i \in Waiting :
    LET before == PrevSlot(i)
        from == IF before = tail /\ loaded THEN speed ELSE block[before].entry
    IN  block[i].entry \in {block[i].max,
                            LeaveSpeed(i) + block[i].length,
                            from + block[before].length}

\* The profile being executed is not left behind by the plan: the block ends at
\* the speed the next one is planned to be entered at (the exit speed is copied
\* when the profile is computed, the plan changes with every new block).
ExitIsPlanned == Ready /\ loaded /\ mode = "cycle" /\ ~forced => exit = NextEntry

\* The machine never runs off the end of the plan with speed left, not even in
\* a hold or an override that brakes through several blocks.
StopsInPlan == Ready /\ Empty => speed = 0

\* planner.cpp:110: block_buffer_planned stays in the plan. (Planning an empty
\* plan again, when an override or a completed hold finds nothing queued, does
\* move it outside; the next block brings it back.)
PlannedInPlan == Ready /\ ~Empty => Queued(planned)

\* The speed changes from one segment to the next by no more than the segment's
\* length allows, across blocks, new plans, overrides, holds and resumes.
NoSpeedJump ==
  [][\A part \in 0 .. block[tail].length : PrepSegment(part) =>
       speed' <= speed + part /\ speed <= speed' + part]_vars

-----------------------------------------------------------------------------
(* Why they hold. *)

\* planner_recalculate() sweeps the blocks between the planned one and the last, down and up.
\* The planned block is in the plan, but for a first block behind an empty plan: it is
\* entered at rest, which is what makes the sweep take it as planned at its end. The
\* profile in execution is of a block in the plan, and no sweep changes what it ends at
\* without unloading it.
SweepInv ==
  /\ loaded => Queued(planned) /\ ~recalc /\ mode \in {"cycle", "hold"}
  /\ recalc => ~Empty
  /\ ~Empty => \/ Queued(planned)
               \/ /\ pass # "none" /\ NextSlot(tail) = head
                  /\ block[tail].entry = 0 /\ block[tail].max = 0
  /\ pass = "reverse" => /\ Place(planned) < Place(index)
                         /\ Queued(planned) => Place(index) + 1 < Place(head)
  /\ pass = "forward" => /\ Queued(planned) => /\ Place(planned) < Place(index)
                                               /\ Place(index) <= Place(head)
                         /\ Queued(planned) \/ Empty \/ index # head
                         /\ loaded => planned # tail
  /\ loaded /\ mode = "cycle" /\ ~forced => exit = NextEntry

\* No block is planned faster than its nominal speed, that of the block before and its junction.
RateInv ==
  /\ ~Empty => /\ previous = Nominal(block[PrevSlot(head)], override)
               /\ speed <= Nominal(block[tail], override)
  /\ \A i \in Slots : Queued(i) => /\ block[i].max <= Nominal(block[i], override)
                                   /\ block[i].max <= block[i].junction
  /\ \A i \in Waiting : block[i].max <= Nominal(block[PrevSlot(i)], override)

\* The machine is at the speed the next profile starts from (in a hold, at most), at rest at
\* the end of the plan, and where a hold slows it down, on the ramp to its end.
SpeedInv ==
  /\ ~forced
  /\ Empty => speed = 0
  /\ ~loaded /\ ~recalc => exit = speed
  /\ ~loaded /\ ~Empty => \/ block[tail].entry = speed
                          \/ mode = "hold" /\ ~recalc /\ block[tail].entry > speed
  /\ loaded /\ mode = "cycle" => stop = 0
  /\ loaded /\ mode = "hold" => /\ speed + stop = exit + block[tail].length
                                /\ exit = 0 \/ stop = 0
  /\ endMotion => loaded \/ recalc

\* Each block, and the machine in the first, can brake to what follows: always.
BrakeInv ==
  /\ \A i \in Waiting : /\ block[i].entry <= block[i].max
                        /\ block[i].entry <= LeaveSpeed(i) + block[i].length
  /\ ~Empty => speed <= NextEntry + block[tail].length

\* The blocks that the sweep under way does not touch any more.
Settled(i) ==
  \/ pass = "none"
  \/ pass = "reverse" /\ Place(i) < Place(planned)
  \/ pass = "forward" /\ Place(i) + 1 < Place(index)

\* Each settled block, and unless in a hold the machine in the first, accelerates to what follows.
ReachInv ==
  /\ \A i \in Waiting : Settled(i) => LeaveSpeed(i) <= block[i].entry + block[i].length
  /\ ~Empty /\ mode # "hold" /\ Settled(tail) => NextEntry <= speed + block[tail].length

\* The speed the block before i is left at by full acceleration.
Reached(i) ==
  LET before == PrevSlot(i)
  IN  (IF before = tail THEN speed ELSE block[before].entry) + block[before].length

\* Nothing planned later makes it faster; nothing planned before does.
BestForward(i) == block[i].entry = block[i].max \/ block[i].entry = Reached(i)
BestBack(i) == block[i].entry \in {block[i].max, LeaveSpeed(i) + block[i].length}

\* Whatever is planned later, the planned block cannot be faster. Before it all blocks are
\* optimal, behind it those the reverse sweep has passed and the forward one has not are
\* as fast as they may be to brake.
BestInv ==
  mode # "hold" =>
    /\ Queued(planned) /\ planned # tail => BestForward(planned)
    /\ \A i \in Waiting :
         /\ \/ pass = "none"
            \/ pass = "reverse" /\ Place(i) < Place(planned)
            \/ pass = "forward" /\ Place(i) < Place(index)
            => BestForward(i) \/ BestBack(i)
         /\ \/ pass = "reverse" /\ Place(i) > Place(index)
            \/ pass = "forward" /\ Place(i) >= Place(index)
            => BestBack(i)

\* With overrides that only rise; a lowered one may leave a plan that cannot be kept.
PlanInv ==
  /\ TypeOK /\ SweepInv
  /\ job.trend = "raise" => RateInv /\ SpeedInv /\ BrakeInv /\ ReachInv /\ BestInv
=============================================================================
