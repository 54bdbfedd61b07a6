---------------------------- MODULE Motion_proofs ----------------------------
(***************************************************************************)
(* Motion's inductive invariant, and what follows from it for instances of     *)
(* any size: the stepper's rings implement the queue, the machine arrives       *)
(* where the planner thinks it is, the limit pins are rearmed however homing   *)
(* ends, and homing never ends well.                                           *)
(*                                                                          *)
(* The main program's steps are most of them Quiet as far as the rings go, so   *)
(* that one lemma serves them all. What the others do to the rings is in         *)
(* Pipeline_proofs; here it is brought together with the identities of the      *)
(* blocks (Fresh), from which "the same slot" is "the same block".               *)
(***************************************************************************)
EXTENDS Motion, Pipeline_proofs

\* There is a first homing cycle, of at least one axis (grbl.hpp:73).
LEMMA FirstMask ==
  HomingCycles[1] \subseteq Axes /\ HomingCycles[1] # {} /\ 1 <= Len(HomingCycles)
  BY MotionAssumption

\* The plan stays a sequence of blocks, no longer than it was.
LEMMA PlanShortened ==
  ASSUME plan \in Seq(Blocks), Len(plan) <= MaxPlan,
         \/ plan' = plan \/ plan' = <<>>
         \/ plan # <<>> /\ plan' = Tail(plan)
  PROVE  plan' \in Seq(Blocks) /\ Len(plan') <= MaxPlan
<1>. USE MotionAssumption
<1>1. CASE plan' = plan
  BY <1>1
<1>2. CASE plan' = <<>>
  BY <1>2
<1>3. CASE plan # <<>> /\ plan' = Tail(plan)
  <2>1. Tail(plan) \in Seq(Blocks) /\ Len(Tail(plan)) = Len(plan) - 1 /\ Len(plan) \in Nat
    BY <1>3
  <2>2. Len(plan') \in Nat /\ Len(plan') <= MaxPlan
    <3>. MaxPlan \in Nat
      OBVIOUS
    <3>. DEFINE l == Len(plan)  k == Len(Tail(plan))
    <3>. Len(plan') = k
      BY <1>3
    <3>. l \in Nat /\ k = l - 1 /\ l <= MaxPlan /\ k \in Nat
      BY <2>1
    <3>. HIDE DEF l, k
    <3>. QED
      OBVIOUS
  <2>. QED
    BY <1>3, <2>1, <2>2
<1>. QED
  BY <1>1, <1>2, <1>3

\* st_prep_buffer() and the executor return to one of their callers, and what ended early did.
LEMMA GoesOn ==
  ASSUME TypeOK, [Next]_vars
  PROVE  ret' \in Returns /\ ctx' \in Contexts /\ (early => early')
<1>. ret \in Returns /\ ctx \in Contexts
  BY DEF TypeOK
<1>. USE DEF Returns, Contexts
<1>1. CASE PrepReturns /\ UNCHANGED own
  BY <1>1 DEF PrepReturns, shared, rings, prep, tracer, own, realtime, homing, limits
<1>2. CASE PrepLoad /\ UNCHANGED own
  BY <1>2 DEF PrepLoad, shared, tracer, own, realtime, homing, limits
<1>3. CASE PrepFill /\ UNCHANGED own
  BY <1>3 DEF PrepFill, prep, tracer, own, realtime, homing, limits
<1>4. CASE PrepPublish /\ UNCHANGED own
  BY <1>4 DEF PrepPublish, tracer, own, realtime, homing, limits
<1>5. CASE PassAlarm
  BY <1>5 DEF PassAlarm, rings, prep, tracer, homing, limits
<1>6. CASE Critical
  BY <1>6 DEF Critical, Goto, shared, rings, prep, tracer, homing, limits
<1>7. CASE PassExec
  BY <1>7 DEF PassExec, Goto, Refill, PrepThen, Unloaded, rings, tracer, homing, limits
<1>8. CASE PassStart
  BY <1>8 DEF PassStart, Goto, PrepThen, rings, prep, tracer, homing, limits
<1>9. CASE PassWake
  BY <1>9 DEF PassWake, Goto, WakeUp, rings, prep, own, realtime, homing, limits
<1>10. CASE PassStop
  BY <1>10 DEF PassStop, Goto, Refill, PrepThen, Unloaded, StepperReset, SyncPosition, rings,
       prep, tracer, homing, limits
<1>11. CASE Leave
  BY <1>11 DEF Leave, Goto, shared, rings, prep, tracer, own, realtime, homing, limits
<1>12. CASE Reinit
  BY <1>12 DEF Reinit, Goto, StepperReset, SyncPosition, Rearm, homing
<1>13. CASE Idle
  BY <1>13 DEF Idle, ExecuteThen, AutoStart, rings, prep, tracer, realtime, homing, limits
<1>14. CASE IdleReturns
  BY <1>14 DEF IdleReturns, Goto, shared, rings, prep, tracer, own, realtime, homing, limits
<1>15. CASE LineEnds
  BY <1>15 DEF LineEnds, Goto, Line, rings, prep, tracer, own, realtime, homing, limits
<1>16. CASE LineMotion
  BY <1>16 DEF LineMotion, Line, ExecuteThen, shared, rings, prep, tracer, realtime, homing,
       limits
<1>17. CASE McWait
  BY <1>17 DEF McWait, Goto, Planned, AutoStart, ExecuteThen, rings, prep, tracer, realtime,
       homing, limits
<1>18. CASE McPlan
  BY <1>18 DEF McPlan, Goto, Planned, rings, prep, tracer, realtime, homing, limits
<1>19. CASE Jogged
  BY <1>19 DEF Jogged, PrepThen, Goto, rings, prep, tracer, own, realtime, homing, limits
<1>20. CASE JogWake
  BY <1>20 DEF JogWake, Goto, WakeUp, shared, rings, prep, own, realtime, homing, limits
<1>21. CASE LineProbe
  BY <1>21 DEF LineProbe, Line, AutoStart, ExecuteThen, rings, prep, tracer, realtime, homing,
       limits
<1>22. CASE ProbeSynced
  BY <1>22 DEF ProbeSynced, Goto, ExecuteThen, rings, prep, tracer, homing, limits
<1>23. CASE ProbeFailed
  BY <1>23 DEF ProbeFailed, Goto, rings, prep, tracer, own, realtime, homing, limits
<1>24. CASE ProbeStart
  BY <1>24 DEF ProbeStart, ExecuteThen, rings, prep, tracer, realtime, homing, limits
<1>25. CASE ProbeWait
  BY <1>25 DEF ProbeWait, Goto, ExecuteThen, rings, prep, tracer, homing, limits
<1>26. CASE Probed
  BY <1>26 DEF Probed, Goto, StepperReset, SyncPosition, realtime, homing, limits
<1>27. CASE LineHome
  BY <1>27 DEF LineHome, Line, Goto, rings, prep, tracer, realtime
<1>28. CASE HomeCycle
  BY <1>28 DEF HomeCycle, Goto, ExecuteThen, shared, rings, prep, tracer, realtime, homing,
       limits
<1>29. CASE HomePhase
  BY <1>29 DEF HomePhase, PrepThen, rings, prep, realtime, homing, limits
<1>30. CASE HomeWake
  BY <1>30 DEF HomeWake, Goto, WakeUp, shared, rings, prep, own, realtime, homing, limits
<1>31. CASE HomeCheck
  BY <1>31 DEF HomeCheck, PrepThen, rings, prep, tracer, own, realtime, homing, limits
<1>32. CASE HomeExit
  BY <1>32 DEF HomeExit, Goto, McReset, ExecuteThen, rings, prep, tracer, homing, limits
<1>33. CASE HomePhaseDone
  BY <1>33 DEF HomePhaseDone, Goto, StepperReset, realtime, limits
<1>34. CASE HomeFailed
  BY <1>34 DEF HomeFailed, Goto, shared, rings, prep, tracer, realtime, limits
<1>35. CASE Homed
  BY <1>35 DEF Homed, Goto, SyncPosition, Rearm, rings, prep, tracer, realtime, homing
<1>36. CASE LineArrives
  BY <1>36 DEF LineArrives, ExecuteThen, shared, rings, prep, tracer, realtime, homing, limits
<1>37. CASE Tick /\ UNCHANGED own
  BY <1>37 DEF Tick, rings, prep, own, realtime, homing, limits
<1>38. CASE TickDry /\ UNCHANGED own
  BY <1>38 DEF TickDry, rings, prep, own, realtime, homing, limits
<1>39. CASE ResetPressed
  BY <1>39 DEF ResetPressed, McReset, rings, prep, tracer, homing, limits
<1>40. CASE Command
  BY <1>40 DEF Command, rings, prep, tracer, realtime, homing, limits
<1>41. CASE LimitIsr
  BY <1>41 DEF LimitIsr, rings, prep, tracer, homing
<1>42. CASE UNCHANGED vars
  BY <1>42 DEF vars, stepperVars, shared, rings, prep, tracer, own, realtime, homing, limits
<1>. QED
  BY <1>1, <1>2, <1>3, <1>4, <1>5, <1>6, <1>7, <1>8, <1>9, <1>10, <1>11, <1>12, <1>13, <1>14,
     <1>15, <1>16, <1>17, <1>18, <1>19, <1>20, <1>21, <1>22, <1>23, <1>24, <1>25, <1>26, <1>27,
     <1>28, <1>29, <1>30, <1>31, <1>32, <1>33, <1>34, <1>35, <1>36, <1>37, <1>38, <1>39, <1>40,
     <1>41, <1>42
     DEF Next, Main, Prepare, Prep, Execute, RunLine, Probe, Homing, Timer

\* Every step keeps the types of the variables, those of the rings given.
LEMMA TypeNext ==
  ASSUME QueueInv, [Next]_vars, RingType', ret' \in Returns, ctx' \in Contexts
  PROVE  TypeOK'
<1>. USE MotionAssumption
<1>. USE DEF QueueInv, TypeOK, States, Alarms, Flags
<1>1. CASE PrepReturns /\ UNCHANGED own
  BY <1>1 DEF PrepReturns, shared, rings, prep, tracer, own, realtime, homing, limits
<1>2. CASE PrepLoad /\ UNCHANGED own
  BY <1>2 DEF PrepLoad, shared, tracer, own, realtime, homing, limits
<1>3. CASE PrepFill /\ UNCHANGED own
  BY <1>3 DEF PrepFill, prep, tracer, own, realtime, homing, limits
<1>4. CASE PrepPublish /\ UNCHANGED own
  <2>1. plan' \in Seq(Blocks) /\ Len(plan') <= MaxPlan
    <3>1. loaded # "none" /\ pc = "publish"
      BY <1>4 DEF PrepPublish, Filled, RingInv
    <3>2. "SYS_MOTION" \notin stepctl => plan # <<>>
      BY <3>1 DEF Fresh, Cutting
    <3>3. plan' = plan \/ ("SYS_MOTION" \notin stepctl /\ plan' = Tail(plan))
      BY <1>4 DEF PrepPublish
    <3>. QED
      BY <3>2, <3>3, PlanShortened
  <2>2. stepctl' \subseteq {"END_MOTION", "EXECUTE_HOLD", "SYS_MOTION"}
    BY <1>4 DEF PrepPublish
  <2>. QED
    BY <1>4, <2>1, <2>2 DEF PrepPublish, shared, own, realtime, homing, limits
<1>5. CASE PassAlarm
  BY <1>5 DEF PassAlarm, rings, prep, tracer, homing, limits
<1>6. CASE Critical
  BY <1>6 DEF Critical, Goto, shared, rings, prep, tracer, homing, limits
<1>7. CASE PassExec
  BY <1>7 DEF PassExec, Goto, Refill, PrepThen, Unloaded, rings, tracer, homing, limits
<1>8. CASE PassStart
  BY <1>8 DEF PassStart, Goto, PrepThen, rings, prep, tracer, homing, limits
<1>9. CASE PassWake
  BY <1>9 DEF PassWake, Goto, WakeUp, rings, prep, own, realtime, homing, limits
<1>10. CASE PassStop
  <2>1. plan' = plan \/ plan' = <<>>
    BY <1>10 DEF PassStop
  <2>2. /\ stepctl' \subseteq stepctl /\ flags' \subseteq flags
        /\ state' \in {state, "IDLE"} /\ snap' = {}
    BY <1>10 DEF PassStop
  <2>3. suspend' \subseteq {"HOLD_COMPLETE", "JOG_CANCEL", "MOTION_CANCEL"}
    BY <1>10 DEF PassStop
  <2>4. plpos' \in [Axes -> Int]
    BY <1>10 DEF PassStop, SyncPosition, RingType
  <2>5. plan' \in Seq(Blocks) /\ Len(plan') <= MaxPlan
    BY <2>1, PlanShortened
  <2>6. /\ UNCHANGED <<system, lock, ids, scenario, alarm, abort, homing, limits>>
        /\ state' \in States /\ flags' \subseteq Flags
    BY <1>10, <2>2 DEF PassStop
  <2>. QED
    BY <2>2, <2>3, <2>4, <2>5, <2>6 DEF homing, limits
<1>11. CASE Leave
  BY <1>11 DEF Leave, Goto, shared, rings, prep, tracer, own, realtime, homing, limits
<1>12. CASE Reinit
  <2>1. plpos' \in [Axes -> Int] /\ NoBlock \in Blocks
    BY <1>12 DEF Reinit, SyncPosition, RingType, NoBlock, Blocks, Zero
  <2>2. attached' \in BOOLEAN
    BY <1>12 DEF Reinit, Rearm
  <2>3. state' \in {"ALARM", "IDLE"} /\ alarm' = "none" /\ flags' = {} /\ snap' = {} /\ plan' = <<>>
    BY <1>12 DEF Reinit
  <2>4. /\ stepctl' = {} /\ suspend' = {} /\ lock' = {} /\ abort' = FALSE /\ ids' = 0
        /\ system' = NoBlock /\ UNCHANGED <<homing, latch, scenario>>
    BY <1>12 DEF Reinit
  <2>5. plan' \in Seq(Blocks) /\ Len(plan') <= MaxPlan
    BY <2>3, PlanShortened
  <2>. QED
    BY <2>1, <2>2, <2>3, <2>4, <2>5 DEF homing
<1>13. CASE Idle
  BY <1>13 DEF Idle, ExecuteThen, AutoStart, rings, prep, tracer, realtime, homing, limits
<1>14. CASE IdleReturns
  BY <1>14 DEF IdleReturns, Goto, shared, rings, prep, tracer, own, realtime, homing, limits
<1>15. CASE LineEnds
  BY <1>15 DEF LineEnds, Goto, Line, rings, prep, tracer, own, realtime, homing, limits
<1>16. CASE LineMotion
  BY <1>16 DEF LineMotion, Line, ExecuteThen, shared, rings, prep, tracer, realtime, homing,
       limits
<1>17. CASE McWait
  BY <1>17 DEF McWait, Goto, Planned, AutoStart, ExecuteThen, rings, prep, tracer, realtime,
       homing, limits
<1>18. CASE McPlan
  <2>1. PICK m \in scenario.moves :
          /\ plan' = Append(plan, [m EXCEPT !.id = ids + 1])
          /\ plpos' = [a \in Axes |-> IF a \in m.back THEN plpos[a] - m.steps[a]
                                                       ELSE plpos[a] + m.steps[a]]
    BY <1>18 DEF McPlan
  <2>2. m \in Blocks
    OBVIOUS
  <2>. ids + 1 \in Nat
    OBVIOUS
  <2>3. [m EXCEPT !.id = ids + 1] \in Blocks /\ m.steps \in [Axes -> Nat]
    BY <2>2 DEF Blocks
  <2>4. plan' \in Seq(Blocks) /\ Len(plan') <= MaxPlan
    <3>. Len(plan) < MaxPlan
      BY <1>18 DEF McPlan
    <3>. QED
      BY <2>1, <2>3
  <2>5. plpos' \in [Axes -> Int]
    <3>1. \A a \in Axes : plpos[a] \in Int /\ m.steps[a] \in Int
      BY <2>3
    <3>. QED
      BY <2>1, <3>1
  <2>. QED
    BY <1>18, <2>4, <2>5 DEF McPlan, realtime, homing, limits
<1>19. CASE Jogged
  BY <1>19 DEF Jogged, PrepThen, Goto, rings, prep, tracer, own, realtime, homing, limits
<1>20. CASE JogWake
  BY <1>20 DEF JogWake, Goto, WakeUp, shared, rings, prep, own, realtime, homing, limits
<1>21. CASE LineProbe
  BY <1>21 DEF LineProbe, Line, AutoStart, ExecuteThen, rings, prep, tracer, realtime, homing,
       limits
<1>22. CASE ProbeSynced
  BY <1>22 DEF ProbeSynced, Goto, ExecuteThen, rings, prep, tracer, homing, limits
<1>23. CASE ProbeFailed
  BY <1>23 DEF ProbeFailed, Goto, rings, prep, tracer, own, realtime, homing, limits
<1>24. CASE ProbeStart
  BY <1>24 DEF ProbeStart, ExecuteThen, rings, prep, tracer, realtime, homing, limits
<1>25. CASE ProbeWait
  BY <1>25 DEF ProbeWait, Goto, ExecuteThen, rings, prep, tracer, homing, limits
<1>26. CASE Probed
  <2>1. plpos' \in [Axes -> Int]
    BY <1>26 DEF Probed, SyncPosition, RingType
  <2>. QED
    BY <1>26, <2>1 DEF Probed, realtime, homing, limits
<1>27. CASE LineHome
  <2>1. cycle' \in Nat \ {0}
    BY <1>27 DEF LineHome
  <2>2. state' = "HOMING" /\ attached' = FALSE
    BY <1>27 DEF LineHome
  <2>. QED
    BY <1>27, <2>1, <2>2 DEF LineHome, realtime
<1>28. CASE HomeCycle
  <2>1. cycle' \in Nat \ {0}
    BY <1>28 DEF HomeCycle, homing
  <2>2. approach' \in BOOLEAN
    BY <1>28 DEF HomeCycle, homing
  <2>3. phases' \in 0 .. 3
    BY <1>28 DEF HomeCycle, homing
  <2>. QED
    BY <1>28, <2>1, <2>2, <2>3 DEF HomeCycle, shared, realtime, limits
<1>29. CASE HomePhase
  <2>1. cycle = 1
    BY <1>29 DEF HomePhase, PullOffFails, HomingRuns, HomingPoints
  <2>2. Mask \subseteq Axes
    BY <2>1, FirstMask DEF Mask
  <2>3. system' \in Blocks
    <3>. DEFINE n == IF approach /\ phases = 3 THEN Travel ELSE PullOff
    <3>1. n \in Nat
      OBVIOUS
    <3>2. system' = [id |-> ids + 1, events |-> n, back |-> IF approach THEN {} ELSE Mask,
                     steps |-> [a \in Axes |-> IF a \in Mask THEN n ELSE 0]]
      BY <1>29 DEF HomePhase
    <3>. HIDE DEF n
    <3>. QED
      BY <2>2, <3>1, <3>2 DEF Blocks
  <2>4. lock' = Mask /\ stepctl' = {"SYS_MOTION"} /\ ids' = ids + 1
    BY <1>29 DEF HomePhase
  <2>. QED
    BY <1>29, <2>2, <2>3, <2>4 DEF HomePhase, realtime, homing, limits
<1>30. CASE HomeWake
  BY <1>30 DEF HomeWake, Goto, WakeUp, shared, rings, prep, own, realtime, homing, limits
<1>31. CASE HomeCheck
  BY <1>31 DEF HomeCheck, PrepThen, rings, prep, tracer, own, realtime, homing, limits
<1>32. CASE HomeExit
  <2>1. alarm' \in Alarms /\ flags' \subseteq Flags
    BY <1>32 DEF HomeExit, HomingAlarm, McReset
  <2>. QED
    BY <1>32, <2>1 DEF HomeExit, homing, limits
<1>33. CASE HomePhaseDone
  <2>1. cycle' \in Nat \ {0}
    BY <1>33 DEF HomePhaseDone
  <2>2. approach' \in BOOLEAN
    BY <1>33 DEF HomePhaseDone
  <2>3. phases' \in 0 .. 3
    BY <1>33 DEF HomePhaseDone
  <2>4. stepctl' \subseteq stepctl
    BY <1>33 DEF HomePhaseDone
  <2>. QED
    BY <1>33, <2>1, <2>2, <2>3, <2>4 DEF HomePhaseDone, realtime, limits
<1>34. CASE HomeFailed
  BY <1>34 DEF HomeFailed, Goto, shared, rings, prep, tracer, realtime, limits
<1>35. CASE Homed
  <2>1. plpos' \in [Axes -> Int] /\ attached' \in BOOLEAN /\ state' \in {state, "IDLE"}
    BY <1>35 DEF Homed, SyncPosition, Rearm, RingType
  <2>. QED
    BY <1>35, <2>1 DEF Homed, realtime, homing
<1>36. CASE LineArrives
  BY <1>36 DEF LineArrives, ExecuteThen, shared, rings, prep, tracer, realtime, homing, limits
<1>37. CASE Tick /\ UNCHANGED own
  BY <1>37 DEF Tick, rings, prep, own, realtime, homing, limits
<1>38. CASE TickDry /\ UNCHANGED own
  BY <1>38 DEF TickDry, rings, prep, own, realtime, homing, limits
<1>39. CASE ResetPressed
  BY <1>39 DEF ResetPressed, McReset, rings, prep, tracer, homing, limits
<1>40. CASE Command
  <2>1. flags' \subseteq Flags
    BY <1>40 DEF Command, CommandFlag, Commands
  <2>. QED
    BY <1>40, <2>1 DEF Command, realtime, homing, limits
<1>41. CASE LimitIsr
  <2>1. alarm' \in Alarms /\ flags' \subseteq Flags
    BY <1>41 DEF LimitIsr
  <2>2. latch' \subseteq Axes
    BY <1>41 DEF LimitIsr, Pressed
  <2>. QED
    BY <1>41, <2>1, <2>2 DEF LimitIsr, homing
<1>42. CASE UNCHANGED vars
  BY <1>42 DEF vars, stepperVars, shared, rings, prep, tracer, own, realtime, homing, limits
<1>. QED
  BY <1>1, <1>2, <1>3, <1>4, <1>5, <1>6, <1>7, <1>8, <1>9, <1>10, <1>11, <1>12, <1>13, <1>14,
     <1>15, <1>16, <1>17, <1>18, <1>19, <1>20, <1>21, <1>22, <1>23, <1>24, <1>25, <1>26, <1>27,
     <1>28, <1>29, <1>30, <1>31, <1>32, <1>33, <1>34, <1>35, <1>36, <1>37, <1>38, <1>39, <1>40,
     <1>41, <1>42
     DEF Next, Main, Prepare, Prep, Execute, RunLine, Probe, Homing, Timer

\* Every step keeps Aborts: a reset stays flagged until everything is initialized.
LEMMA AbortsNext ==
  ASSUME QueueInv, [Next]_vars
  PROVE  Aborts'
<1>. Aborts /\ ret \in Returns /\ ctx \in Contexts
  BY DEF QueueInv, TypeOK
<1>. HIDE DEF QueueInv
<1>. USE DEF Aborts, InHoming, HomingRuns, HomingPoints,
             Busy, Returns, Contexts
<1>1. CASE PrepReturns /\ UNCHANGED own
  BY <1>1 DEF PrepReturns, shared, rings, prep, tracer, own, realtime, homing, limits
<1>2. CASE PrepLoad /\ UNCHANGED own
  BY <1>2 DEF PrepLoad, shared, tracer, own, realtime, homing, limits
<1>3. CASE PrepFill /\ UNCHANGED own
  BY <1>3 DEF PrepFill, prep, tracer, own, realtime, homing, limits
<1>4. CASE PrepPublish /\ UNCHANGED own
  BY <1>4 DEF PrepPublish, tracer, own, realtime, homing, limits
<1>5. CASE PassAlarm
  BY <1>5 DEF PassAlarm, rings, prep, tracer, homing, limits
<1>6. CASE Critical
  BY <1>6 DEF Critical, Goto, shared, rings, prep, tracer, homing, limits
<1>7. CASE PassExec
  BY <1>7 DEF PassExec, Goto, Refill, PrepThen, Unloaded, rings, tracer, homing, limits
<1>8. CASE PassStart
  BY <1>8 DEF PassStart, Goto, PrepThen, rings, prep, tracer, homing, limits
<1>9. CASE PassWake
  BY <1>9 DEF PassWake, Goto, WakeUp, rings, prep, own, realtime, homing, limits
<1>10. CASE PassStop
  BY <1>10 DEF PassStop, Goto, Refill, PrepThen, Unloaded, StepperReset, SyncPosition, rings,
       prep, tracer, homing, limits
<1>11. CASE Leave
  BY <1>11 DEF Leave, Goto, shared, rings, prep, tracer, own, realtime, homing, limits
<1>12. CASE Reinit
  BY <1>12 DEF Reinit, Goto, StepperReset, SyncPosition, Rearm, homing
<1>13. CASE Idle
  BY <1>13 DEF Idle, ExecuteThen, AutoStart, rings, prep, tracer, realtime, homing, limits
<1>14. CASE IdleReturns
  BY <1>14 DEF IdleReturns, Goto, shared, rings, prep, tracer, own, realtime, homing, limits
<1>15. CASE LineEnds
  BY <1>15 DEF LineEnds, Goto, Line, rings, prep, tracer, own, realtime, homing, limits
<1>16. CASE LineMotion
  BY <1>16 DEF LineMotion, Line, ExecuteThen, shared, rings, prep, tracer, realtime, homing,
       limits
<1>17. CASE McWait
  BY <1>17 DEF McWait, Goto, Planned, AutoStart, ExecuteThen, rings, prep, tracer, realtime,
       homing, limits
<1>18. CASE McPlan
  BY <1>18 DEF McPlan, Goto, Planned, rings, prep, tracer, realtime, homing, limits
<1>19. CASE Jogged
  BY <1>19 DEF Jogged, PrepThen, Goto, rings, prep, tracer, own, realtime, homing, limits
<1>20. CASE JogWake
  BY <1>20 DEF JogWake, Goto, WakeUp, shared, rings, prep, own, realtime, homing, limits
<1>21. CASE LineProbe
  BY <1>21 DEF LineProbe, Line, AutoStart, ExecuteThen, rings, prep, tracer, realtime, homing,
       limits
<1>22. CASE ProbeSynced
  BY <1>22 DEF ProbeSynced, Goto, ExecuteThen, rings, prep, tracer, homing, limits
<1>23. CASE ProbeFailed
  BY <1>23 DEF ProbeFailed, Goto, rings, prep, tracer, own, realtime, homing, limits
<1>24. CASE ProbeStart
  BY <1>24 DEF ProbeStart, ExecuteThen, rings, prep, tracer, realtime, homing, limits
<1>25. CASE ProbeWait
  BY <1>25 DEF ProbeWait, Goto, ExecuteThen, rings, prep, tracer, homing, limits
<1>26. CASE Probed
  BY <1>26 DEF Probed, Goto, StepperReset, SyncPosition, realtime, homing, limits
<1>27. CASE LineHome
  BY <1>27 DEF LineHome, Line, Goto, rings, prep, tracer, realtime
<1>28. CASE HomeCycle
  BY <1>28 DEF HomeCycle, Goto, ExecuteThen, shared, rings, prep, tracer, realtime, homing,
       limits
<1>29. CASE HomePhase
  BY <1>29 DEF HomePhase, PrepThen, rings, prep, realtime, homing, limits
<1>30. CASE HomeWake
  BY <1>30 DEF HomeWake, Goto, WakeUp, shared, rings, prep, own, realtime, homing, limits
<1>31. CASE HomeCheck
  BY <1>31 DEF HomeCheck, PrepThen, rings, prep, tracer, own, realtime, homing, limits
<1>32. CASE HomeExit
  BY <1>32 DEF HomeExit, Goto, McReset, ExecuteThen, rings, prep, tracer, homing, limits
<1>33. CASE HomePhaseDone
  BY <1>33 DEF HomePhaseDone, Goto, StepperReset, realtime, limits
<1>34. CASE HomeFailed
  BY <1>34 DEF HomeFailed, Goto, shared, rings, prep, tracer, realtime, limits
<1>35. CASE Homed
  BY <1>35 DEF Homed, Goto, SyncPosition, Rearm, rings, prep, tracer, realtime, homing
<1>36. CASE LineArrives
  BY <1>36 DEF LineArrives, ExecuteThen, shared, rings, prep, tracer, realtime, homing, limits
<1>37. CASE Tick /\ UNCHANGED own
  BY <1>37 DEF Tick, rings, prep, own, realtime, homing, limits
<1>38. CASE TickDry /\ UNCHANGED own
  BY <1>38 DEF TickDry, rings, prep, own, realtime, homing, limits
<1>39. CASE ResetPressed
  BY <1>39 DEF ResetPressed, McReset, rings, prep, tracer, homing, limits
<1>40. CASE Command
  BY <1>40 DEF Command, rings, prep, tracer, realtime, homing, limits
<1>41. CASE LimitIsr
  BY <1>41 DEF LimitIsr, rings, prep, tracer, homing
<1>42. CASE UNCHANGED vars
  BY <1>42 DEF vars, stepperVars, shared, rings, prep, tracer, own, realtime, homing, limits
<1>. QED
  BY <1>1, <1>2, <1>3, <1>4, <1>5, <1>6, <1>7, <1>8, <1>9, <1>10, <1>11, <1>12, <1>13, <1>14,
     <1>15, <1>16, <1>17, <1>18, <1>19, <1>20, <1>21, <1>22, <1>23, <1>24, <1>25, <1>26, <1>27,
     <1>28, <1>29, <1>30, <1>31, <1>32, <1>33, <1>34, <1>35, <1>36, <1>37, <1>38, <1>39, <1>40,
     <1>41, <1>42
     DEF Next, Main, Prepare, Prep, Execute, RunLine, Probe, Homing, Timer

\* Every step keeps PullOffFails: in homing, only the interrupt could change the latch, and
\* it is detached.
LEMMA PullOffNext ==
  ASSUME QueueInv, [Next]_vars
  PROVE  PullOffFails'
<1>. PullOffFails /\ Aborts /\ ret \in Returns /\ ctx \in Contexts
  BY DEF QueueInv, TypeOK
<1>. cycle' = cycle => Mask' = Mask
  BY DEF Mask
<1>. USE DEF PullOffFails, Aborts, InHoming, HomingRuns, HomingPoints,
             Busy, Returns, Contexts
<1>1. CASE PrepReturns /\ UNCHANGED own
  BY <1>1 DEF PrepReturns, shared, rings, prep, tracer, own, realtime, homing, limits
<1>2. CASE PrepLoad /\ UNCHANGED own
  BY <1>2 DEF PrepLoad, shared, tracer, own, realtime, homing, limits
<1>3. CASE PrepFill /\ UNCHANGED own
  BY <1>3 DEF PrepFill, prep, tracer, own, realtime, homing, limits
<1>4. CASE PrepPublish /\ UNCHANGED own
  BY <1>4 DEF PrepPublish, tracer, own, realtime, homing, limits
<1>5. CASE PassAlarm
  BY <1>5 DEF PassAlarm, rings, prep, tracer, homing, limits
<1>6. CASE Critical
  BY <1>6 DEF Critical, Goto, shared, rings, prep, tracer, homing, limits
<1>7. CASE PassExec
  BY <1>7 DEF PassExec, Goto, Refill, PrepThen, Unloaded, rings, tracer, homing, limits
<1>8. CASE PassStart
  BY <1>8 DEF PassStart, Goto, PrepThen, rings, prep, tracer, homing, limits
<1>9. CASE PassWake
  BY <1>9 DEF PassWake, Goto, WakeUp, rings, prep, own, realtime, homing, limits
<1>10. CASE PassStop
  BY <1>10 DEF PassStop, Goto, Refill, PrepThen, Unloaded, StepperReset, SyncPosition, rings,
       prep, tracer, homing, limits
<1>11. CASE Leave
  BY <1>11 DEF Leave, Goto, shared, rings, prep, tracer, own, realtime, homing, limits
<1>12. CASE Reinit
  BY <1>12 DEF Reinit, Goto, StepperReset, SyncPosition, Rearm, homing
<1>13. CASE Idle
  BY <1>13 DEF Idle, ExecuteThen, AutoStart, rings, prep, tracer, realtime, homing, limits
<1>14. CASE IdleReturns
  BY <1>14 DEF IdleReturns, Goto, shared, rings, prep, tracer, own, realtime, homing, limits
<1>15. CASE LineEnds
  BY <1>15 DEF LineEnds, Goto, Line, rings, prep, tracer, own, realtime, homing, limits
<1>16. CASE LineMotion
  BY <1>16 DEF LineMotion, Line, ExecuteThen, shared, rings, prep, tracer, realtime, homing,
       limits
<1>17. CASE McWait
  BY <1>17 DEF McWait, Goto, Planned, AutoStart, ExecuteThen, rings, prep, tracer, realtime,
       homing, limits
<1>18. CASE McPlan
  BY <1>18 DEF McPlan, Goto, Planned, rings, prep, tracer, realtime, homing, limits
<1>19. CASE Jogged
  BY <1>19 DEF Jogged, PrepThen, Goto, rings, prep, tracer, own, realtime, homing, limits
<1>20. CASE JogWake
  BY <1>20 DEF JogWake, Goto, WakeUp, shared, rings, prep, own, realtime, homing, limits
<1>21. CASE LineProbe
  BY <1>21 DEF LineProbe, Line, AutoStart, ExecuteThen, rings, prep, tracer, realtime, homing,
       limits
<1>22. CASE ProbeSynced
  BY <1>22 DEF ProbeSynced, Goto, ExecuteThen, rings, prep, tracer, homing, limits
<1>23. CASE ProbeFailed
  BY <1>23 DEF ProbeFailed, Goto, rings, prep, tracer, own, realtime, homing, limits
<1>24. CASE ProbeStart
  BY <1>24 DEF ProbeStart, ExecuteThen, rings, prep, tracer, realtime, homing, limits
<1>25. CASE ProbeWait
  BY <1>25 DEF ProbeWait, Goto, ExecuteThen, rings, prep, tracer, homing, limits
<1>26. CASE Probed
  BY <1>26 DEF Probed, Goto, StepperReset, SyncPosition, realtime, homing, limits
<1>27. CASE LineHome
  BY <1>27 DEF LineHome, Line, Goto, rings, prep, tracer, realtime
<1>28. CASE HomeCycle
  BY <1>28 DEF HomeCycle, Goto, ExecuteThen, shared, rings, prep, tracer, realtime, homing,
       limits
<1>29. CASE HomePhase
  BY <1>29 DEF HomePhase, PrepThen, rings, prep, realtime, homing, limits
<1>30. CASE HomeWake
  BY <1>30 DEF HomeWake, Goto, WakeUp, shared, rings, prep, own, realtime, homing, limits
<1>31. CASE HomeCheck
  <2>1. /\ UNCHANGED <<cycle, approach, phases, latch, attached, abort, ctx>>
        /\ pc' = "prep" /\ ret' = "homeExit"
        /\ lock' = IF approach THEN lock \ latch ELSE lock
    BY <1>31 DEF HomeCheck, PrepThen, LimitsState, own, realtime, homing, limits
  <2>2. HomingRuns /\ pc = "homeCheck"
    BY <1>31 DEF HomeCheck
  <2>3. Mask' \ lock' \subseteq latch' /\ (~approach' => lock' = Mask')
    BY <2>1, <2>2
  <2>4. /\ ~attached /\ cycle = 1
        /\ \/ approach /\ phases = 3
           \/ ~approach /\ phases = 2 /\ latch \cap Mask # {}
    BY <2>2
  <2>. QED
    BY <2>1, <2>3, <2>4
<1>32. CASE HomeExit
  <2>1. /\ UNCHANGED <<cycle, approach, phases, latch, attached, abort, lock, ret>>
        /\ pc = "homeExit"
    BY <1>32 DEF HomeExit, McReset, Goto, ExecuteThen, homing, limits
  <2>2. /\ Mask \ lock \subseteq latch /\ (~approach => lock = Mask) /\ ~attached /\ cycle = 1
        /\ \/ approach /\ phases = 3
           \/ ~approach /\ phases = 2 /\ latch \cap Mask # {}
    BY <2>1
  <2>3. CASE ~Interrupted
    <3>1. lock = {} => approach
      BY <2>2
    <3>2. pc' = IF lock = {} THEN "homePhaseDone" ELSE "homeCheck"
      BY <1>32, <2>3 DEF HomeExit, Goto
    <3>. QED
      BY <2>1, <2>2, <3>1, <3>2
  <2>4. CASE Interrupted
    <3>1. HomingAlarm # "none"
      BY <2>2, <2>4 DEF HomingAlarm, LimitsState, Interrupted
    <3>2. pc' = "pass" /\ ctx' = "homeFailed"
      BY <1>32, <2>4, <3>1 DEF HomeExit, ExecuteThen
    <3>. QED
      BY <2>1, <2>2, <3>2
  <2>. QED
    BY <2>3, <2>4
<1>33. CASE HomePhaseDone
  <2>1. /\ UNCHANGED <<latch, attached, abort, lock, ret>> /\ pc = "homePhaseDone"
    BY <1>33 DEF HomePhaseDone, Goto, realtime, limits
  <2>2. Mask \subseteq latch /\ ~attached /\ cycle = 1 /\ approach /\ phases = 3
    BY <2>1
  <2>3. cycle' = cycle /\ ~approach' /\ phases' = 2 /\ pc' = "homePhase"
    <3>1. phases > 0 /\ phases - 1 = 2
      BY <2>2
    <3>2. approach' = ~approach /\ phases' = phases - 1 /\ pc' = "homePhase" /\ cycle' = cycle
      BY <1>33, <3>1 DEF HomePhaseDone, Goto
    <3>3. ~approach'
      BY <2>2, <3>2, Zenon
    <3>. QED
      BY <3>1, <3>2, <3>3
  <2>4. Mask # {}
    BY <2>2, FirstMask DEF Mask
  <2>. QED
    BY <2>1, <2>2, <2>3, <2>4
<1>34. CASE HomeFailed
  BY <1>34 DEF HomeFailed, Goto, shared, rings, prep, tracer, realtime, limits
<1>35. CASE Homed
  BY <1>35 DEF Homed, Goto, SyncPosition, Rearm, rings, prep, tracer, realtime, homing
<1>36. CASE LineArrives
  BY <1>36 DEF LineArrives, ExecuteThen, shared, rings, prep, tracer, realtime, homing, limits
<1>37. CASE Tick /\ UNCHANGED own
  BY <1>37 DEF Tick, rings, prep, own, realtime, homing, limits
<1>38. CASE TickDry /\ UNCHANGED own
  BY <1>38 DEF TickDry, rings, prep, own, realtime, homing, limits
<1>39. CASE ResetPressed
  BY <1>39 DEF ResetPressed, McReset, rings, prep, tracer, homing, limits
<1>40. CASE Command
  BY <1>40 DEF Command, rings, prep, tracer, realtime, homing, limits
<1>41. CASE LimitIsr
  BY <1>41 DEF LimitIsr, rings, prep, tracer, homing
<1>42. CASE UNCHANGED vars
  BY <1>42 DEF vars, stepperVars, shared, rings, prep, tracer, own, realtime, homing, limits
<1>. QED
  BY <1>1, <1>2, <1>3, <1>4, <1>5, <1>6, <1>7, <1>8, <1>9, <1>10, <1>11, <1>12, <1>13, <1>14,
     <1>15, <1>16, <1>17, <1>18, <1>19, <1>20, <1>21, <1>22, <1>23, <1>24, <1>25, <1>26, <1>27,
     <1>28, <1>29, <1>30, <1>31, <1>32, <1>33, <1>34, <1>35, <1>36, <1>37, <1>38, <1>39, <1>40,
     <1>41, <1>42
     DEF Next, Main, Prepare, Prep, Execute, RunLine, Probe, Homing, Timer

\* What most steps of the main program leave alone: they move no segment and no block.
Quiet ==
  /\ UNCHANGED <<plan, system, ids, rings, prepIndex, remaining, tail, exec, execIndex, count,
                 counter, inc, dir, pos, motor, execId>>
  /\ run' \in BOOLEAN /\ out' \in {out, {}}
  /\ UNCHANGED <<loaded, recalc>> \/ Unloaded
  /\ pc' \notin {"fill", "publish"} \/ UNCHANGED <<pc, loaded>>
  /\ ret' \in Returns
  /\ "SYS_MOTION" \in stepctl' <=> "SYS_MOTION" \in stepctl

\* A cancelled jog is flushed.
Cancels == PassStop /\ "CYCLE_STOP" \in snap /\ "JOG_CANCEL" \in suspend

\* The steps that do more.
Loud ==
  \/ (PrepLoad \/ PrepFill \/ PrepPublish \/ Tick \/ TickDry) /\ UNCHANGED own
  \/ McPlan \/ HomePhase
  \/ Reinit \/ Probed \/ HomePhaseDone \/ Cancels

\* All others are quiet. (An executor's pass that sets step_control anew is not homing's:
\* there the reset that made homing give up ends the pass.)
LEMMA QuietActions ==
  ASSUME QueueInv, [Next]_vars, ~Loud
  PROVE  Quiet
<1>. /\ Aborts /\ ret \in Returns /\ ctx \in Contexts /\ run \in BOOLEAN
  BY DEF QueueInv, TypeOK, RingType
<1>. ret' \in Returns /\ ctx' \in Contexts
  BY GoesOn DEF QueueInv
<1>. HIDE DEF QueueInv
<1>0. \/ pc \in {"start", "stop"}
      \/ pc \in {"pass", "exec"} /\ "RESET" \notin flags
      => "SYS_MOTION" \notin stepctl
  BY DEF Aborts, InHoming, HomingRuns, HomingPoints, Busy
<1>. USE DEF Quiet, Returns, Contexts
<1>1. CASE PrepReturns /\ UNCHANGED own
  BY <1>1 DEF PrepReturns, shared, rings, prep, tracer, own, realtime, homing, limits
<1>2. CASE PassAlarm
  BY <1>2 DEF PassAlarm, rings, prep, tracer, homing, limits
<1>3. CASE Critical
  BY <1>3 DEF Critical, Goto, shared, rings, prep, tracer, homing, limits
<1>4. CASE PassExec
  <2>1. /\ UNCHANGED <<plan, system, ids, rings, prepIndex, remaining, tail, exec, execIndex, count,
                      counter, inc, dir, pos, motor, execId, run, out>>
        /\ UNCHANGED <<loaded, recalc>> \/ Unloaded
        /\ pc' \notin {"fill", "publish"}
    BY <1>4 DEF PassExec, Goto, Refill, PrepThen, tracer
  <2>2. stepctl' = stepctl \/ ("RESET" \notin flags /\ stepctl' = {"EXECUTE_HOLD"})
    BY <1>4 DEF PassExec
  <2>3. pc \in {"pass", "exec"}
    BY <1>4 DEF PassExec
  <2>. QED
    BY <2>1, <2>2, <2>3, <1>0
<1>5. CASE PassStart
  <2>1. /\ UNCHANGED <<plan, system, ids, rings, prepIndex, remaining, tail, exec, execIndex, count,
                      counter, inc, dir, pos, motor, execId, run, out, loaded, recalc>>
        /\ pc' \notin {"fill", "publish"} /\ pc = "start" /\ stepctl' \in {stepctl, {}}
    BY <1>5 DEF PassStart, Goto, PrepThen, prep, tracer
  <2>. QED
    BY <2>1, <1>0
<1>6. CASE PassWake
  BY <1>6 DEF PassWake, Goto, WakeUp, rings, prep, own, realtime, homing, limits
<1>7. CASE PassStop
  <2>1. /\ UNCHANGED <<plan, system, ids, rings, prepIndex, remaining, tail, exec, execIndex, count,
                      counter, inc, dir, pos, motor, execId, run, out>>
        /\ UNCHANGED <<loaded, recalc>> \/ Unloaded
    BY <1>7 DEF PassStop, Loud, Cancels, prep, tracer
  <2>2. pc' \notin {"fill", "publish"} /\ pc = "stop"
    BY <1>7 DEF PassStop, Goto, Refill, PrepThen
  <2>3. stepctl' \subseteq stepctl
    BY <1>7 DEF PassStop
  <2>. QED
    BY <2>1, <2>2, <2>3, <1>0
<1>8. CASE Leave
  BY <1>8 DEF Leave, Goto, shared, rings, prep, tracer, own, realtime, homing, limits
<1>9. CASE Idle
  BY <1>9 DEF Idle, ExecuteThen, AutoStart, rings, prep, tracer, realtime, homing, limits
<1>10. CASE IdleReturns
  BY <1>10 DEF IdleReturns, Goto, shared, rings, prep, tracer, own, realtime, homing, limits
<1>11. CASE LineEnds
  BY <1>11 DEF LineEnds, Goto, Line, rings, prep, tracer, own, realtime, homing, limits
<1>12. CASE LineMotion
  BY <1>12 DEF LineMotion, Line, ExecuteThen, shared, rings, prep, tracer, realtime, homing,
       limits
<1>13. CASE McWait
  BY <1>13 DEF McWait, Goto, Planned, AutoStart, ExecuteThen, rings, prep, tracer, realtime,
       homing, limits
<1>14. CASE Jogged
  BY <1>14 DEF Jogged, PrepThen, Goto, rings, prep, tracer, own, realtime, homing, limits
<1>15. CASE JogWake
  BY <1>15 DEF JogWake, Goto, WakeUp, shared, rings, prep, own, realtime, homing, limits
<1>16. CASE LineProbe
  BY <1>16 DEF LineProbe, Line, AutoStart, ExecuteThen, rings, prep, tracer, realtime, homing,
       limits
<1>17. CASE ProbeSynced
  BY <1>17 DEF ProbeSynced, Goto, ExecuteThen, rings, prep, tracer, homing, limits
<1>18. CASE ProbeFailed
  BY <1>18 DEF ProbeFailed, Goto, rings, prep, tracer, own, realtime, homing, limits
<1>19. CASE ProbeStart
  BY <1>19 DEF ProbeStart, ExecuteThen, rings, prep, tracer, realtime, homing, limits
<1>20. CASE ProbeWait
  BY <1>20 DEF ProbeWait, Goto, ExecuteThen, rings, prep, tracer, homing, limits
<1>21. CASE LineHome
  BY <1>21 DEF LineHome, Line, Goto, rings, prep, tracer, realtime
<1>22. CASE HomeCycle
  BY <1>22 DEF HomeCycle, Goto, ExecuteThen, shared, rings, prep, tracer, realtime, homing,
       limits
<1>23. CASE HomeWake
  BY <1>23 DEF HomeWake, Goto, WakeUp, shared, rings, prep, own, realtime, homing, limits
<1>24. CASE HomeCheck
  BY <1>24 DEF HomeCheck, PrepThen, rings, prep, tracer, own, realtime, homing, limits
<1>25. CASE HomeExit
  BY <1>25 DEF HomeExit, Goto, McReset, ExecuteThen, rings, prep, tracer, homing, limits
<1>26. CASE HomeFailed
  BY <1>26 DEF HomeFailed, Goto, shared, rings, prep, tracer, realtime, limits
<1>27. CASE Homed
  BY <1>27 DEF Homed, Goto, SyncPosition, Rearm, rings, prep, tracer, realtime, homing
<1>28. CASE LineArrives
  BY <1>28 DEF LineArrives, ExecuteThen, shared, rings, prep, tracer, realtime, homing, limits
<1>29. CASE ResetPressed
  BY <1>29 DEF ResetPressed, McReset, rings, prep, tracer, homing, limits
<1>30. CASE Command
  BY <1>30 DEF Command, rings, prep, tracer, realtime, homing, limits
<1>31. CASE LimitIsr
  BY <1>31 DEF LimitIsr, rings, prep, tracer, homing
<1>32. CASE UNCHANGED vars
  BY <1>32 DEF vars, stepperVars, shared, rings, prep, tracer, own, realtime, homing, limits
<1>. QED
  BY <1>1, <1>2, <1>3, <1>4, <1>5, <1>6, <1>7, <1>8, <1>9, <1>10, <1>11, <1>12, <1>13, <1>14,
     <1>15, <1>16, <1>17, <1>18, <1>19, <1>20, <1>21, <1>22, <1>23, <1>24, <1>25, <1>26, <1>27,
     <1>28, <1>29, <1>30, <1>31, <1>32
     DEF Next, Main, Prepare, Prep, Execute, RunLine, Probe, Homing, Timer, Loud

\* No caller of st_prep_buffer() goes on inside it.
LEMMA RetIsNoPrep == \A r \in Returns : r \notin {"prep", "fill", "publish"}
  BY DEF Returns

\* A quiet step keeps the rings, and is none of the queue's.
LEMMA QuietRings ==
  ASSUME QueueInv, Quiet
  PROVE  RingInv' /\ Fresh' /\ UNCHANGED Queue!vars
<1>. RingInv /\ Fresh /\ out \subseteq Axes /\ pos \in [Axes -> Int] /\ motor \in [Axes -> Int]
  /\ loaded \in {"none", "plan", "system"} /\ recalc \in BOOLEAN
  BY DEF QueueInv, RingInv, RingType
<1>. HIDE DEF QueueInv
<1>1. /\ UNCHANGED <<rings, prepIndex, remaining, tail, exec, execIndex, count, counter, inc, dir,
                  execId>>
      /\ UNCHANGED <<pos, plan, system, ids, blk>>
      /\ "SYS_MOTION" \in stepctl' <=> "SYS_MOTION" \in stepctl
  BY DEF Quiet, rings
<1>2. /\ Cutting' = Cutting /\ loaded' \in {loaded, "none"} /\ recalc' \in BOOLEAN
      /\ loaded' # "none" => recalc' = recalc
  BY DEF Quiet, Unloaded, Cutting
<1>3. RingInv' /\ Published' = Published /\ NewestId' = NewestId
  <2>1. pos' \in [Axes -> Int] /\ motor' \in [Axes -> Int] /\ out' \subseteq Axes /\ run' \in BOOLEAN
    BY DEF Quiet
  <2>2. pc' \notin {"fill", "publish"} \/ (pc' = pc /\ loaded' = loaded)
    BY DEF Quiet
  <2>3. ret' \notin {"prep", "fill", "publish"}
    BY RetIsNoPrep DEF Quiet
  <2>4. loaded' \in {"none", "plan", "system"}
    BY <1>2
  <2>. QED
    BY <1>1, <1>2, <2>1, <2>2, <2>3, <2>4, RingKept
<1>4. Fresh'
  BY <1>1, <1>2, <1>3 DEF Fresh
<1>5. UNCHANGED Queue!vars
  BY <1>1, <1>3 DEF Queue!vars
<1>. QED
  BY <1>3, <1>4, <1>5

\* What is next is newer than all that is published (Fresh).
LEMMA NextToCut ==
  ASSUME QueueInv, PrepLoad
  PROVE  /\ Source \in {"plan", "system"}
         /\ "SYS_MOTION" \notin stepctl => Source = "plan" /\ plan # <<>>
         /\ Loads => ~Cutting
         /\ Loads => ToCut \in Blocks /\ ToCut.id > NewestId /\ ToCut.id <= ids
<1>. /\ Fresh /\ plan \in Seq(Blocks) /\ system \in Blocks /\ ids \in Nat
     /\ loaded \in {"none", "plan", "system"} /\ recalc \in BOOLEAN
  BY DEF QueueInv, TypeOK, RingInv, RingType
<1>. HIDE DEF QueueInv
<1>1. /\ Source \in {"plan", "system"}
      /\ "SYS_MOTION" \notin stepctl => Source = "plan" /\ plan # <<>>
      /\ Loads => ~Cutting /\ (Source = "system" <=> "SYS_MOTION" \in stepctl)
  BY DEF Source, Loads, PrepLoad, Fresh, Cutting
<1>2. Loads => ToCut \in Blocks /\ ToCut.id > NewestId /\ ToCut.id <= ids
  <2>1. CASE Source = "system"
    BY <1>1, <2>1 DEF ToCut, Fresh
  <2>2. CASE Source = "plan"
    <3>. SUFFICES ASSUME Loads PROVE ToCut \in Blocks /\ ToCut.id > NewestId /\ ToCut.id <= ids
      OBVIOUS
    <3>1. "SYS_MOTION" \notin stepctl /\ ~Cutting
      BY <1>1, <2>2
    <3>2. plan # <<>> /\ 1 \in DOMAIN plan /\ Head(plan) = plan[1] /\ plan[1] \in Blocks
      BY <1>1, <2>2, <3>1
    <3>. QED
      BY <2>2, <3>1, <3>2 DEF ToCut, Fresh
  <2>. QED
    BY <1>1, <2>1, <2>2
<1>. QED
  BY <1>1, <1>2

\* Loading a block.
LEMMA LoadRings ==
  ASSUME QueueInv, PrepLoad, UNCHANGED ids
  PROVE  RingInv' /\ Fresh' /\ UNCHANGED Queue!vars
<1>. /\ RingInv /\ Fresh /\ plan \in Seq(Blocks) /\ system \in Blocks /\ ids \in Nat
     /\ loaded \in {"none", "plan", "system"} /\ recalc \in BOOLEAN
  BY DEF QueueInv, TypeOK, RingInv, RingType
<1>1. /\ Source \in {"plan", "system"}
      /\ "SYS_MOTION" \notin stepctl => Source = "plan" /\ plan # <<>>
      /\ Loads => ~Cutting
  BY NextToCut
<1>2. Loads => ToCut \in Blocks /\ ToCut.id > NewestId /\ ToCut.id <= ids
  BY NextToCut
<1>. HIDE DEF QueueInv, RingInv
<1>3. RingInv' /\ Published' = Published /\ NewestId' = NewestId
  BY <1>2, PrepLoadRing
<1>4. /\ UNCHANGED <<plan, system, stepctl, ids, count, exec, counter, execId, pos>>
      /\ loaded' = Source /\ ~recalc' /\ Cutting'
  BY <1>1 DEF PrepLoad, shared, tracer, Cutting, Fresh
<1>5. CASE ~Loads
  <2>1. blk' = blk /\ prepIndex' = prepIndex /\ Cutting
    BY <1>5 DEF PrepLoad, Loads, Cutting
  <2>. QED
    BY <1>1, <1>3, <1>4, <2>1 DEF Fresh, Queue!vars
<1>6. CASE Loads
  <2>1. blk'[prepIndex'].id = ToCut.id
    <3>1. NextBlock(prepIndex) \in BlockSlots /\ blk \in [BlockSlots -> Blocks]
      BY BehindRange DEF RingInv, RingType
    <3>. QED
      BY <1>2, <1>6, <3>1, TracedType DEF PrepLoad
  <2>2. "SYS_MOTION" \notin stepctl => ToCut = plan[1] /\ Len(plan) \in Nat \ {0}
    BY <1>1 DEF ToCut
  <2>3. "SYS_MOTION" \notin stepctl => \A i \in 2 .. Len(plan) : plan[i].id > ToCut.id
    <3>. HIDE DEF ToCut
    <3>. QED
      BY <2>2 DEF Fresh
  <2>. HIDE DEF ToCut
  <2>. QED
    BY <1>1, <1>2, <1>3, <1>4, <1>6, <2>1, <2>3 DEF Fresh, Queue!vars
<1>. QED
  BY <1>5, <1>6

\* Filling a segment.
LEMMA FillRings ==
  ASSUME QueueInv, PrepFill, UNCHANGED ids
  PROVE  RingInv' /\ Fresh' /\ UNCHANGED Queue!vars
<1>1. RingInv /\ Fresh
  BY DEF QueueInv
<1>2. /\ RingInv' /\ Published' = Published
      /\ NewestId' = NewestId /\ Cutting' = Cutting
  BY <1>1, PrepFillRing
<1>3. /\ UNCHANGED <<plan, system, ids, blk, count, exec, counter, execId, pos, loaded, recalc,
                   prepIndex>>
      /\ "SYS_MOTION" \in stepctl' <=> "SYS_MOTION" \in stepctl
  BY DEF PrepFill, prep, tracer
<1>. QED
  BY <1>1, <1>2, <1>3 DEF Fresh, Queue!vars

\* Publishing a segment; with its last one the block leaves the plan, and what is left of
\* the plan is newer than it.
LEMMA PublishRings ==
  ASSUME QueueInv, PrepPublish, UNCHANGED ids
  PROVE  RingInv' /\ Fresh' /\ Queue!Put
<1>1. RingInv /\ Fresh /\ plan \in Seq(Blocks) /\ loaded # "none" /\ ids \in Nat
  BY DEF QueueInv, TypeOK, RingInv, Filled, PrepPublish
<1>2. RingInv' /\ Queue!Put /\ NewestId' = blk[prepIndex].id
  BY <1>1, PrepPublishRing
<1>3. UNCHANGED <<system, ids, blk, prepIndex, recalc>> /\ ~recalc /\ Cutting
      /\ ("SYS_MOTION" \in stepctl' <=> "SYS_MOTION" \in stepctl)
      /\ \/ UNCHANGED <<plan, loaded>>
         \/ "SYS_MOTION" \notin stepctl /\ plan' = Tail(plan) /\ loaded' = "none"
  BY <1>1 DEF PrepPublish, Fresh, Cutting
<1>4. CASE UNCHANGED <<plan, loaded>>
  BY <1>1, <1>2, <1>3, <1>4 DEF Fresh, Cutting
<1>5. CASE "SYS_MOTION" \notin stepctl /\ plan' = Tail(plan) /\ loaded' = "none"
  <2>1. plan # <<>> /\ ~Cutting' /\ "SYS_MOTION" \notin stepctl'
    BY <1>1, <1>3, <1>5 DEF Fresh, Cutting
  <2>2. Len(plan') = Len(plan) - 1 /\ DOMAIN plan' = 1 .. Len(plan) - 1 /\ Len(plan) \in Nat \ {0}
        /\ \A i \in 1 .. Len(plan) - 1 : plan'[i] = plan[i + 1]
    BY <1>1, <1>5, <2>1
  <2>3. /\ DOMAIN plan = 1 .. Len(plan)
        /\ \A i \in 1 .. Len(plan) - 1 : i + 1 \in DOMAIN plan /\ i + 1 \in 2 .. Len(plan)
    BY <1>1
  <2>4. \A i \in DOMAIN plan' : plan'[i].id \in 1 .. ids' /\ plan'[i].id > NewestId'
    BY <1>1, <1>2, <1>3, <1>5, <2>2, <2>3 DEF Fresh
  <2>5. \A i, j \in DOMAIN plan' : i < j => plan'[i].id < plan'[j].id
    <3>. SUFFICES ASSUME NEW i \in DOMAIN plan', NEW j \in DOMAIN plan', i < j
                  PROVE  plan'[i].id < plan'[j].id
      OBVIOUS
    <3>1. i \in 1 .. Len(plan) - 1 /\ j \in 1 .. Len(plan) - 1 /\ i + 1 < j + 1
      BY <2>2
    <3>2. i + 1 \in DOMAIN plan /\ j + 1 \in DOMAIN plan
      BY <2>3, <3>1
    <3>3. plan[i + 1].id < plan[j + 1].id
      BY <1>1, <3>1, <3>2 DEF Fresh
    <3>. QED
      BY <2>2, <3>1, <3>3
  <2>. QED
    BY <1>1, <1>2, <1>3, <1>5, <2>1, <2>4, <2>5 DEF Fresh
<1>. QED
  BY <1>2, <1>3, <1>4, <1>5

\* The interrupt.
LEMMA TimerRings ==
  ASSUME QueueInv, Tick \/ TickDry, UNCHANGED ids
  PROVE  RingInv' /\ Fresh' /\ (Queue!Step \/ UNCHANGED Queue!vars)
<1>1. RingInv /\ Fresh
  BY DEF QueueInv
<1>2. RingInv' /\ NewestId' = NewestId /\ (Queue!Step \/ UNCHANGED Queue!vars)
  <2>1. CASE Tick
    BY <1>1, <2>1, TickRing
  <2>2. CASE TickDry
    BY <1>1, <2>2, TickDryRing DEF Queue!vars
  <2>. QED
    BY <2>1, <2>2
<1>3. UNCHANGED <<plan, system, stepctl, ids, blk, prepIndex, loaded, recalc>>
  BY DEF Tick, TickDry, rings, prep
<1>. QED
  BY <1>1, <1>2, <1>3 DEF Fresh, Cutting

\* st_reset(), with the plan kept or reset and the blocks counted on or anew.
LEMMA EmptyRings ==
  ASSUME QueueInv, StepperReset, pos' = pos, ret' \in Returns, pc' \notin {"fill", "publish"},
         \/ /\ plan' \in {plan, <<>>} /\ UNCHANGED <<system, ids>>
            /\ "SYS_MOTION" \in stepctl' => "SYS_MOTION" \in stepctl
         \/ plan' = <<>> /\ system' = NoBlock /\ ids' = 0 /\ "SYS_MOTION" \notin stepctl'
  PROVE  RingInv' /\ Fresh' /\ Queue!Flush
<1>1. /\ RingType /\ Fresh /\ pos \in [Axes -> Int]
      /\ ids \in Nat /\ system.id \in Nat /\ plan \in Seq(Blocks)
  BY DEF QueueInv, TypeOK, RingType, Blocks
<1>2. /\ RingInv' /\ Published' = <<>> /\ NewestId' = 0 /\ ~Cutting'
      /\ count' = 0 /\ ~exec' /\ counter' = Zero /\ execId' = 0
  BY <1>1, RingEmptied, RetIsNoPrep
<1>3. loaded' = "none" /\ ~recalc'
  BY DEF StepperReset
<1>4. Fresh'
  <2>1. system'.id <= ids' /\ system'.id \in Nat
    BY <1>1 DEF Fresh, NoBlock
  <2>2. ids' \in Nat
    BY <1>1
  <2>3. \A i \in DOMAIN plan' : plan'[i].id \in 1 .. ids'
    BY <1>1 DEF Fresh
  <2>4. \A i, j \in DOMAIN plan' : i < j => plan'[i].id < plan'[j].id
    BY <1>1 DEF Fresh
  <2>5. "SYS_MOTION" \in stepctl' => system'.id > 0
    BY <1>1 DEF Fresh
  <2>. QED
    BY <1>2, <1>3, <2>1, <2>2, <2>3, <2>4, <2>5 DEF Fresh
<1>5. Queue!Flush
  BY <1>2 DEF Queue!Flush, Queue!Zero, Zero
<1>. QED
  BY <1>2, <1>4, <1>5

\* The blocks' identities are numbers.
LEMMA IdsType ==
  ASSUME RingInv
  PROVE  NewestId \in Nat /\ blk[prepIndex].id \in Nat
<1>. USE PipelineAssumption
<1>1. RingType /\ Used \in 0 .. SegSize - 1 /\ \A i \in 1 .. Used : Index(i) \in BlockSlots
  BY IndexType, UsedRange DEF RingInv
<1>2. blk \in [BlockSlots -> Blocks] /\ prepIndex \in BlockSlots /\ execId \in Nat
  BY <1>1 DEF RingType
<1>. HIDE DEF Used, Index
<1>3. Used # 0 => Index(Used) \in BlockSlots
  BY <1>1
<1>. QED
  BY <1>2, <1>3 DEF NewestId, Blocks

\* A block is planned behind the others, and newer than them.
LEMMA PlanRings ==
  ASSUME QueueInv, McPlan
  PROVE  RingInv' /\ Fresh' /\ UNCHANGED Queue!vars
<1>. USE MotionAssumption
<1>1. /\ RingInv /\ Fresh /\ ids \in Nat /\ plan \in Seq(Blocks)
      /\ ret \in Returns /\ scenario \in Scenarios
  BY DEF QueueInv, TypeOK
<1>. HIDE DEF QueueInv
<1>2. UNCHANGED <<rings, prepIndex, remaining, tail, exec, execIndex, count, counter, inc, dir,
                  execId,
                  pos, motor, run, out, blk, system, stepctl, loaded, recalc, ret>> /\ ids' = ids + 1
      /\ Cutting' = Cutting
  BY DEF McPlan, Goto, rings, prep, tracer, Cutting
<1>3. pc' \notin {"fill", "publish"}
  BY DEF McPlan, Goto, Planned
<1>4. RingInv' /\ Published' = Published /\ NewestId' = NewestId
  <2>1. run' \in BOOLEAN /\ out' \subseteq Axes /\ pos' \in [Axes -> Int] /\ motor' \in [Axes -> Int]
        /\ loaded' \in {"none", "plan", "system"} /\ recalc' \in BOOLEAN
    BY <1>1, <1>2 DEF RingInv, RingType
  <2>2. ret' \notin {"prep", "fill", "publish"}
    BY <1>1, <1>2, RetIsNoPrep
  <2>. QED
    BY <1>1, <1>2, <1>3, <2>1, <2>2, RingKept
<1>5. PICK m \in scenario.moves : plan' = Append(plan, [m EXCEPT !.id = ids + 1])
  BY DEF McPlan
<1>6. m \in Blocks
  BY <1>1
<1>7. [m EXCEPT !.id = ids + 1].id = ids + 1
  BY <1>6 DEF Blocks
<1>8. /\ DOMAIN plan' = 1 .. Len(plan) + 1 /\ Len(plan') = Len(plan) + 1 /\ Len(plan) \in Nat
      /\ plan' # <<>> /\ plan'[Len(plan) + 1].id = ids + 1
      /\ \A i \in 1 .. Len(plan) : plan'[i] = plan[i] /\ i \in DOMAIN plan
  BY <1>1, <1>5, <1>7
<1>9. Fresh'
  <2>1. \A i \in DOMAIN plan' : plan'[i].id \in 1 .. ids'
    BY <1>1, <1>2, <1>8 DEF Fresh
  <2>2. ASSUME NEW i \in DOMAIN plan', NEW j \in DOMAIN plan', i < j
        PROVE  plan'[i].id < plan'[j].id
    <3>1. i \in 1 .. Len(plan) /\ plan[i].id \in 1 .. ids
      BY <1>1, <1>8, <2>2 DEF Fresh
    <3>2. CASE j = Len(plan) + 1
      BY <1>1, <1>8, <3>1, <3>2
    <3>3. CASE j \in 1 .. Len(plan)
      BY <1>1, <1>8, <2>2, <3>1, <3>3 DEF Fresh
    <3>. QED
      BY <1>8, <3>2, <3>3
  <2>3. system'.id <= ids' /\ NewestId' <= ids' /\ (Cutting' => blk'[prepIndex'].id <= ids')
    <3>1. system.id \in Nat /\ NewestId \in Nat /\ blk[prepIndex].id \in Nat
      <4>1. system \in Blocks
        BY DEF QueueInv, TypeOK
      <4>. QED
        BY <1>1, <4>1, IdsType DEF Blocks
    <3>. QED
      BY <1>1, <1>2, <1>4, <3>1 DEF Fresh
  <2>4. CASE "SYS_MOTION" \in stepctl
    BY <1>1, <1>2, <1>4, <2>1, <2>2, <2>3, <2>4 DEF Fresh
  <2>5. CASE "SYS_MOTION" \notin stepctl
    <3>1. Cutting => \A i \in 2 .. Len(plan') : plan'[i].id > blk[prepIndex].id
      <4>. SUFFICES ASSUME Cutting, NEW i \in 2 .. Len(plan') PROVE plan'[i].id > blk[prepIndex].id
        OBVIOUS
      <4>1. CASE i = Len(plan) + 1
        <5>1. blk[prepIndex].id \in Nat /\ blk[prepIndex].id <= ids
          BY <1>1, IdsType DEF Fresh
        <5>. QED
          BY <1>1, <1>8, <4>1, <5>1
      <4>2. CASE i \in 2 .. Len(plan)
        BY <1>1, <1>8, <2>5, <4>2 DEF Fresh
      <4>. QED
        BY <1>8, <4>1, <4>2
    <3>2. ~Cutting => \A i \in DOMAIN plan' : plan'[i].id > NewestId
      <4>. SUFFICES ASSUME ~Cutting, NEW i \in DOMAIN plan' PROVE plan'[i].id > NewestId
        OBVIOUS
      <4>0. NewestId \in Nat
        BY <1>1, IdsType
      <4>1. CASE i = Len(plan) + 1
        BY <1>1, <1>8, <4>0, <4>1 DEF Fresh
      <4>2. CASE i \in 1 .. Len(plan)
        BY <1>1, <1>8, <2>5, <4>2 DEF Fresh
      <4>. QED
        BY <1>8, <4>1, <4>2
    <3>. QED
      BY <1>1, <1>2, <1>4, <1>8, <2>1, <2>2, <2>3, <2>5, <3>1, <3>2 DEF Fresh
  <2>. QED
    BY <2>4, <2>5
<1>. QED
  BY <1>2, <1>4, <1>9 DEF Queue!vars

\* Homing plans a system motion and takes the place it starts from as zero.
LEMMA PhaseRings ==
  ASSUME QueueInv, HomePhase
  PROVE  RingInv' /\ Fresh' /\ Queue!SetOrigin(Mask)
<1>. USE PipelineAssumption
<1>1. RingInv /\ Fresh /\ ids \in Nat /\ plan \in Seq(Blocks)
  BY DEF QueueInv, TypeOK
<1>. HIDE DEF QueueInv
<1>2. UNCHANGED <<rings, prepIndex, remaining, tail, exec, execIndex, count, counter, inc, dir,
                  execId,
                  motor, run, out, blk, plan, loaded, recalc>> /\ ids' = ids + 1
      /\ Cutting' = Cutting /\ pc' = "prep" /\ ret' = "homeWake" /\ stepctl' = {"SYS_MOTION"}
      /\ pos' = [a \in Axes |-> IF a \in Mask THEN 0 ELSE pos[a]]
      /\ system'.id = ids + 1
  BY DEF HomePhase, PrepThen, rings, prep, Cutting
<1>3. NewestId \in Nat /\ blk[prepIndex].id \in Nat
  BY <1>1, IdsType
<1>4. RingInv' /\ Published' = Published /\ NewestId' = NewestId
  <2>1. run' \in BOOLEAN /\ out' \subseteq Axes /\ pos' \in [Axes -> Int] /\ motor' \in [Axes -> Int]
        /\ loaded' \in {"none", "plan", "system"} /\ recalc' \in BOOLEAN
    BY <1>1, <1>2 DEF RingInv, RingType
  <2>. QED
    BY <1>1, <1>2, <2>1, RingKept
<1>5. Fresh'
  BY <1>1, <1>2, <1>3, <1>4 DEF Fresh
<1>. QED
  BY <1>2, <1>4, <1>5 DEF Queue!SetOrigin

\* Every step keeps the rings' invariant, and is a step of the queue or none.
LEMMA RingsNext ==
  ASSUME QueueInv, [Next]_vars
  PROVE  RingInv' /\ Fresh' /\ [Queue!Next]_Queue!vars
<1>. ret' \in Returns /\ ret \in Returns /\ ids \in Nat /\ Aborts /\ PullOffFails
  BY GoesOn DEF QueueInv, TypeOK
<1>1. CASE ~Loud
  BY <1>1, QuietActions, QuietRings
<1>2. CASE PrepLoad /\ UNCHANGED own
  BY <1>2, LoadRings DEF own
<1>3. CASE PrepFill /\ UNCHANGED own
  BY <1>3, FillRings DEF own
<1>4. CASE PrepPublish /\ UNCHANGED own
  BY <1>4, PublishRings DEF own, Queue!Next
<1>5. CASE (Tick \/ TickDry) /\ UNCHANGED own
  BY <1>5, TimerRings DEF own, Queue!Next
<1>6. CASE McPlan
  BY <1>6, PlanRings
<1>7. CASE HomePhase
  <2>1. Mask \in SUBSET Axes
    BY <1>7, FirstMask DEF HomePhase, PullOffFails, HomingRuns, HomingPoints, Mask
  <2>. QED
    BY <1>7, <2>1, PhaseRings DEF Queue!Next
<1>8. CASE Reinit
  <2>1. Queue!Flush /\ RingInv' /\ Fresh'
    BY <1>8, EmptyRings DEF Reinit, Goto
  <2>. QED
    BY <2>1 DEF Queue!Next
<1>9. CASE Probed
  <2>1. Queue!Flush /\ RingInv' /\ Fresh'
    BY <1>9, EmptyRings DEF Probed, Goto
  <2>. QED
    BY <2>1 DEF Queue!Next
<1>10. CASE HomePhaseDone
  <2>1. phases > 0
    BY <1>10 DEF HomePhaseDone, PullOffFails, HomingRuns, HomingPoints
  <2>2. Queue!Flush /\ RingInv' /\ Fresh'
    BY <1>10, <2>1, EmptyRings DEF HomePhaseDone, Goto
  <2>. QED
    BY <2>2 DEF Queue!Next
<1>11. CASE Cancels
  <2>1. /\ StepperReset /\ pos' = pos /\ plan' = <<>> /\ stepctl' = {} /\ pc' = "leave"
        /\ system' = system /\ ids' = ids
    BY <1>11 DEF Cancels, PassStop, Goto
  <2>2. Queue!Flush /\ RingInv' /\ Fresh'
    BY <2>1, EmptyRings
  <2>. QED
    BY <2>2 DEF Queue!Next
<1>. QED
  BY <1>1, <1>2, <1>3, <1>4, <1>5, <1>6, <1>7, <1>8, <1>9, <1>10, <1>11
     DEF Loud

\* Power on.
LEMMA QueueInit ==
  ASSUME Init
  PROVE  QueueInv /\ Queue!Init
<1>. USE MotionAssumption
<1>1. RingInv /\ Queue!Init /\ NewestId = 0 /\ ~Cutting
  BY RingInit DEF Init
<1>2. NoBlock \in Blocks /\ Zero \in [Axes -> Int]
  BY DEF NoBlock, Blocks, Zero
<1>3. TypeOK
  <2>1. plan \in Seq(Blocks) /\ Len(plan) <= MaxPlan
    BY DEF Init
  <2>2. cycle \in Nat \ {0} /\ phases \in 0 .. 3 /\ ids \in Nat
    BY DEF Init
  <2>. QED
    BY <1>1, <1>2, <2>1, <2>2 DEF Init, TypeOK, RingInv, Returns, Contexts, States, Alarms, Flags
<1>4. Fresh
  BY <1>1 DEF Init, Fresh, NoBlock, StepperInit
<1>5. Aborts /\ PullOffFails
  BY DEF Init, Aborts, PullOffFails, Busy, InHoming, HomingRuns, HomingPoints
<1>. QED
  BY <1>1, <1>3, <1>4, <1>5 DEF QueueInv

\* QueueInv is inductive.
LEMMA QueueNext ==
  ASSUME QueueInv, [Next]_vars
  PROVE  QueueInv' /\ [Queue!Next]_Queue!vars
<1>1. RingInv' /\ Fresh' /\ [Queue!Next]_Queue!vars
  BY RingsNext
<1>2. ret' \in Returns /\ ctx' \in Contexts
  BY GoesOn DEF QueueInv
<1>3. TypeOK'
  BY <1>1, <1>2, TypeNext DEF RingInv
<1>. QED
  BY <1>1, <1>3, AbortsNext, PullOffNext DEF QueueInv

\* The types, the rings' invariant, and what homing and aborts keep hold in every state, for
\* any sizes of the rings and the plan, any axes, homing cycles, lines and commands.
THEOREM QueueInvCorrect == Spec => []QueueInv
<1>1. Init => QueueInv
  BY QueueInit
<1>2. QueueInv /\ [Next]_vars => QueueInv'
  BY QueueNext
<1>. QED
  BY <1>1, <1>2, PTL DEF Spec

\* The program with its interrupts implements the queue: whatever is streamed, held, jogged,
\* homed, probed or reset, each interrupt traces the oldest segment with its own block's data,
\* and begins a line anew exactly where the block changes (stepper.cpp:62, 374).
THEOREM RingsImplementQueue == Spec => Refines
<1>1. Init => Queue!Init
  BY QueueInit
<1>2. QueueInv /\ [Next]_vars => [Queue!Next]_Queue!vars
  BY QueueNext
<1>. QED
  BY <1>1, <1>2, QueueInvCorrect, PTL DEF Spec, Refines, Queue!Spec

\* The limit pins' interrupt is off only in homing, and behind it until the reset that ended
\* it initializes everything.
Rearmed == ~attached => pc = "init" \/ (state \in {"HOMING", "ALARM"} /\ (InHoming \/ abort))

\* Homing reaches its end only with an abort pending.
Hopeless ==
  /\ pc = "homed" => abort
  /\ ctx = "homed" =>
       /\ pc \in {"pass", "critical", "exec", "leave"} => abort
       /\ ~(pc \in {"start", "stop", "wake"} \/ (Busy /\ ret \in {"leave", "wake"}))

\* Every step keeps both.
LEMMA RearmedNext ==
  ASSUME QueueInv, Rearmed, Hopeless, [Next]_vars
  PROVE  Rearmed' /\ Hopeless'
<1>. PullOffFails /\ Aborts /\ ret \in Returns /\ ctx \in Contexts
  BY DEF QueueInv, TypeOK
<1>. cycle = 1 => ~(cycle > Len(HomingCycles))
  BY FirstMask
<1>. HIDE DEF QueueInv
<1>. USE DEF Rearmed, Hopeless, PullOffFails, Aborts, InHoming, HomingRuns, HomingPoints,
             Busy, Returns, Contexts
<1>1. CASE PrepReturns /\ UNCHANGED own
  BY <1>1 DEF PrepReturns, shared, rings, prep, tracer, own, realtime, homing, limits
<1>2. CASE PrepLoad /\ UNCHANGED own
  BY <1>2 DEF PrepLoad, shared, tracer, own, realtime, homing, limits
<1>3. CASE PrepFill /\ UNCHANGED own
  BY <1>3 DEF PrepFill, prep, tracer, own, realtime, homing, limits
<1>4. CASE PrepPublish /\ UNCHANGED own
  BY <1>4 DEF PrepPublish, tracer, own, realtime, homing, limits
<1>5. CASE PassAlarm
  BY <1>5 DEF PassAlarm, rings, prep, tracer, homing, limits
<1>6. CASE Critical
  BY <1>6 DEF Critical, Goto, shared, rings, prep, tracer, homing, limits
<1>7. CASE PassExec
  BY <1>7 DEF PassExec, Goto, Refill, PrepThen, Unloaded, rings, tracer, homing, limits
<1>8. CASE PassStart
  BY <1>8 DEF PassStart, Goto, PrepThen, rings, prep, tracer, homing, limits
<1>9. CASE PassWake
  BY <1>9 DEF PassWake, Goto, WakeUp, rings, prep, own, realtime, homing, limits
<1>10. CASE PassStop
  BY <1>10 DEF PassStop, Goto, Refill, PrepThen, Unloaded, StepperReset, SyncPosition, rings,
       prep, tracer, homing, limits
<1>11. CASE Leave
  BY <1>11 DEF Leave, Goto, shared, rings, prep, tracer, own, realtime, homing, limits
<1>12. CASE Reinit
  BY <1>12 DEF Reinit, Goto, StepperReset, SyncPosition, Rearm, homing
<1>13. CASE Idle
  BY <1>13 DEF Idle, ExecuteThen, AutoStart, rings, prep, tracer, realtime, homing, limits
<1>14. CASE IdleReturns
  BY <1>14 DEF IdleReturns, Goto, shared, rings, prep, tracer, own, realtime, homing, limits
<1>15. CASE LineEnds
  BY <1>15 DEF LineEnds, Goto, Line, rings, prep, tracer, own, realtime, homing, limits
<1>16. CASE LineMotion
  BY <1>16 DEF LineMotion, Line, ExecuteThen, shared, rings, prep, tracer, realtime, homing,
       limits
<1>17. CASE McWait
  BY <1>17 DEF McWait, Goto, Planned, AutoStart, ExecuteThen, rings, prep, tracer, realtime,
       homing, limits
<1>18. CASE McPlan
  BY <1>18 DEF McPlan, Goto, Planned, rings, prep, tracer, realtime, homing, limits
<1>19. CASE Jogged
  BY <1>19 DEF Jogged, PrepThen, Goto, rings, prep, tracer, own, realtime, homing, limits
<1>20. CASE JogWake
  BY <1>20 DEF JogWake, Goto, WakeUp, shared, rings, prep, own, realtime, homing, limits
<1>21. CASE LineProbe
  BY <1>21 DEF LineProbe, Line, AutoStart, ExecuteThen, rings, prep, tracer, realtime, homing,
       limits
<1>22. CASE ProbeSynced
  BY <1>22 DEF ProbeSynced, Goto, ExecuteThen, rings, prep, tracer, homing, limits
<1>23. CASE ProbeFailed
  BY <1>23 DEF ProbeFailed, Goto, rings, prep, tracer, own, realtime, homing, limits
<1>24. CASE ProbeStart
  BY <1>24 DEF ProbeStart, ExecuteThen, rings, prep, tracer, realtime, homing, limits
<1>25. CASE ProbeWait
  BY <1>25 DEF ProbeWait, Goto, ExecuteThen, rings, prep, tracer, homing, limits
<1>26. CASE Probed
  BY <1>26 DEF Probed, Goto, StepperReset, SyncPosition, realtime, homing, limits
<1>27. CASE LineHome
  BY <1>27 DEF LineHome, Line, Goto, rings, prep, tracer, realtime
<1>28. CASE HomeCycle
  BY <1>28 DEF HomeCycle, Goto, ExecuteThen, shared, rings, prep, tracer, realtime, homing,
       limits
<1>29. CASE HomePhase
  BY <1>29 DEF HomePhase, PrepThen, rings, prep, realtime, homing, limits
<1>30. CASE HomeWake
  BY <1>30 DEF HomeWake, Goto, WakeUp, shared, rings, prep, own, realtime, homing, limits
<1>31. CASE HomeCheck
  BY <1>31 DEF HomeCheck, PrepThen, rings, prep, tracer, own, realtime, homing, limits
<1>32. CASE HomeExit
  BY <1>32 DEF HomeExit, Goto, McReset, ExecuteThen, rings, prep, tracer, homing, limits
<1>33. CASE HomePhaseDone
  BY <1>33 DEF HomePhaseDone, Goto, StepperReset, realtime, limits
<1>34. CASE HomeFailed
  BY <1>34 DEF HomeFailed, Goto, shared, rings, prep, tracer, realtime, limits
<1>35. CASE Homed
  BY <1>35 DEF Homed, Goto, SyncPosition, Rearm, rings, prep, tracer, realtime, homing
<1>36. CASE LineArrives
  BY <1>36 DEF LineArrives, ExecuteThen, shared, rings, prep, tracer, realtime, homing, limits
<1>37. CASE Tick /\ UNCHANGED own
  BY <1>37 DEF Tick, rings, prep, own, realtime, homing, limits
<1>38. CASE TickDry /\ UNCHANGED own
  BY <1>38 DEF TickDry, rings, prep, own, realtime, homing, limits
<1>39. CASE ResetPressed
  BY <1>39 DEF ResetPressed, McReset, rings, prep, tracer, homing, limits
<1>40. CASE Command
  BY <1>40 DEF Command, rings, prep, tracer, realtime, homing, limits
<1>41. CASE LimitIsr
  BY <1>41 DEF LimitIsr, rings, prep, tracer, homing
<1>42. CASE UNCHANGED vars
  BY <1>42 DEF vars, stepperVars, shared, rings, prep, tracer, own, realtime, homing, limits
<1>. QED
  BY <1>1, <1>2, <1>3, <1>4, <1>5, <1>6, <1>7, <1>8, <1>9, <1>10, <1>11, <1>12, <1>13, <1>14,
     <1>15, <1>16, <1>17, <1>18, <1>19, <1>20, <1>21, <1>22, <1>23, <1>24, <1>25, <1>26, <1>27,
     <1>28, <1>29, <1>30, <1>31, <1>32, <1>33, <1>34, <1>35, <1>36, <1>37, <1>38, <1>39, <1>40,
     <1>41, <1>42
     DEF Next, Main, Prepare, Prep, Execute, RunLine, Probe, Homing, Timer

\* Both hold in every state.
THEOREM RearmedCorrect == Spec => [](Rearmed /\ Hopeless)
<1>1. Init => Rearmed /\ Hopeless
  BY DEF Init, Rearmed, Hopeless, Busy
<1>2. QueueInv /\ (Rearmed /\ Hopeless) /\ [Next]_vars => (Rearmed /\ Hopeless)'
  BY RearmedNext
<1>. QED
  BY <1>1, <1>2, QueueInvCorrect, PTL DEF Spec

\* However homing ended, a machine that may be moved by lines has its limit switches on:
\* only mc_homing_cycle() turns them off, and the state it leaves behind, homing or alarm,
\* lasts until loop() turns them on (limits.cpp:33).
THEOREM LimitsRearmedCorrect == Spec => []LimitsRearmed
<1>1. Rearmed => LimitsRearmed
  BY DEF Rearmed, LimitsRearmed
<1>. QED
  BY <1>1, RearmedCorrect, PTL

\* A homing cycle never succeeds: behind the last cycle of $H (motion_control.cpp:240) an
\* abort is always pending, because limits_get_state() goes on reading what the interrupt,
\* detached for the time of homing, once stored (limits.cpp:55).
THEOREM HomingNeverSucceeds == Spec => [](pc = "homed" => abort)
<1>1. Hopeless => (pc = "homed" => abort)
  BY DEF Hopeless
<1>. QED
  BY <1>1, RearmedCorrect, PTL

\* As long as no synchronize and no probe cycle ends early, every step keeps when the timer runs.
LEMMA StillNext ==
  ASSUME QueueInv, Hopeless, StillInv, ~early', [Next]_vars
  PROVE  StillInv'
<1>. /\ Aborts /\ PullOffFails /\ ret \in Returns /\ ctx \in Contexts /\ state \in States
     /\ run \in BOOLEAN /\ abort \in BOOLEAN
  BY DEF QueueInv, TypeOK, RingInv, RingType
<1>. (cycle = 1 => ~(cycle > Len(HomingCycles))) /\ (pc = "homed" => abort)
  BY FirstMask DEF Hopeless
<1>. HIDE DEF QueueInv
<1>. USE DEF StillInv, Calm, Ending, Stops, Still, Waking, JogWaking, HomeMoves, Aborts,
             PullOffFails, InHoming, HomingRuns, HomingPoints, Busy, Returns, Contexts, States
<1>1. CASE PrepReturns /\ UNCHANGED own
  BY <1>1 DEF PrepReturns, shared, rings, prep, tracer, own, realtime, homing, limits
<1>2. CASE PrepLoad /\ UNCHANGED own
  BY <1>2 DEF PrepLoad, shared, tracer, own, realtime, homing, limits
<1>3. CASE PrepFill /\ UNCHANGED own
  BY <1>3 DEF PrepFill, prep, tracer, own, realtime, homing, limits
<1>4. CASE PrepPublish /\ UNCHANGED own
  BY <1>4 DEF PrepPublish, tracer, own, realtime, homing, limits
<1>5. CASE PassAlarm
  BY <1>5 DEF PassAlarm, rings, prep, tracer, homing, limits
<1>6. CASE Critical
  BY <1>6 DEF Critical, Goto, shared, rings, prep, tracer, homing, limits
<1>7. CASE PassExec
  BY <1>7 DEF PassExec, Goto, Refill, PrepThen, Unloaded, rings, tracer, homing, limits
<1>8. CASE PassStart
  BY <1>8 DEF PassStart, Goto, PrepThen, rings, prep, tracer, homing, limits, StartHeard
<1>9. CASE PassWake
  BY <1>9 DEF PassWake, Goto, WakeUp, rings, prep, own, realtime, homing, limits
<1>10. CASE PassStop
  BY <1>10 DEF PassStop, Goto, Refill, PrepThen, Unloaded, StepperReset, SyncPosition, rings,
       prep, tracer, homing, limits
<1>11. CASE Leave
  BY <1>11 DEF Leave, Goto, shared, rings, prep, tracer, own, realtime, homing, limits
<1>12. CASE Reinit
  BY <1>12 DEF Reinit, Goto, StepperReset, SyncPosition, Rearm, homing
<1>13. CASE Idle
  BY <1>13 DEF Idle, ExecuteThen, AutoStart, rings, prep, tracer, realtime, homing, limits
<1>14. CASE IdleReturns
  BY <1>14 DEF IdleReturns, Goto, shared, rings, prep, tracer, own, realtime, homing, limits
<1>15. CASE LineEnds
  BY <1>15 DEF LineEnds, Goto, Line, rings, prep, tracer, own, realtime, homing, limits
<1>16. CASE LineMotion
  BY <1>16 DEF LineMotion, Line, ExecuteThen, shared, rings, prep, tracer, realtime, homing,
       limits
<1>17. CASE McWait
  BY <1>17 DEF McWait, Goto, Planned, AutoStart, ExecuteThen, rings, prep, tracer, realtime,
       homing, limits
<1>18. CASE McPlan
  BY <1>18 DEF McPlan, Goto, Planned, rings, prep, tracer, realtime, homing, limits
<1>19. CASE Jogged
  BY <1>19 DEF Jogged, PrepThen, Goto, rings, prep, tracer, own, realtime, homing, limits
<1>20. CASE JogWake
  BY <1>20 DEF JogWake, Goto, WakeUp, shared, rings, prep, own, realtime, homing, limits
<1>21. CASE LineProbe
  BY <1>21 DEF LineProbe, Line, AutoStart, ExecuteThen, rings, prep, tracer, realtime, homing,
       limits
<1>22. CASE ProbeSynced
  BY <1>22 DEF ProbeSynced, Goto, ExecuteThen, rings, prep, tracer, homing, limits
<1>23. CASE ProbeFailed
  BY <1>23 DEF ProbeFailed, Goto, rings, prep, tracer, own, realtime, homing, limits
<1>24. CASE ProbeStart
  BY <1>24 DEF ProbeStart, ExecuteThen, rings, prep, tracer, realtime, homing, limits
<1>25. CASE ProbeWait
  BY <1>25 DEF ProbeWait, Goto, ExecuteThen, rings, prep, tracer, homing, limits
<1>26. CASE Probed
  BY <1>26 DEF Probed, Goto, StepperReset, SyncPosition, realtime, homing, limits
<1>27. CASE LineHome
  BY <1>27 DEF LineHome, Line, Goto, rings, prep, tracer, realtime
<1>28. CASE HomeCycle
  BY <1>28 DEF HomeCycle, Goto, ExecuteThen, shared, rings, prep, tracer, realtime, homing,
       limits
<1>29. CASE HomePhase
  BY <1>29 DEF HomePhase, PrepThen, rings, prep, realtime, homing, limits
<1>30. CASE HomeWake
  BY <1>30 DEF HomeWake, Goto, WakeUp, shared, rings, prep, own, realtime, homing, limits
<1>31. CASE HomeCheck
  BY <1>31 DEF HomeCheck, PrepThen, rings, prep, tracer, own, realtime, homing, limits
<1>32. CASE HomeExit
  BY <1>32 DEF HomeExit, Goto, McReset, ExecuteThen, rings, prep, tracer, homing, limits
<1>33. CASE HomePhaseDone
  BY <1>33 DEF HomePhaseDone, Goto, StepperReset, realtime, limits
<1>34. CASE HomeFailed
  BY <1>34 DEF HomeFailed, Goto, shared, rings, prep, tracer, realtime, limits
<1>35. CASE Homed
  BY <1>35 DEF Homed, Goto, SyncPosition, Rearm, rings, prep, tracer, realtime, homing
<1>36. CASE LineArrives
  BY <1>36 DEF LineArrives, ExecuteThen, shared, rings, prep, tracer, realtime, homing, limits
<1>37. CASE Tick /\ UNCHANGED own
  BY <1>37 DEF Tick, rings, prep, own, realtime, homing, limits
<1>38. CASE TickDry /\ UNCHANGED own
  BY <1>38 DEF TickDry, rings, prep, own, realtime, homing, limits
<1>39. CASE ResetPressed
  BY <1>39 DEF ResetPressed, McReset, rings, prep, tracer, homing, limits
<1>40. CASE Command
  <2>1. flags' \in {flags \cup {"FEED_HOLD"}, flags \cup {"CYCLE_START"}, flags \cup {"MOTION_CANCEL"}}
    BY <1>40 DEF Command, CommandFlag, Commands
  <2>. QED
    BY <1>40, <2>1 DEF Command, rings, prep, tracer, realtime, homing, limits
<1>41. CASE LimitIsr
  BY <1>41 DEF LimitIsr, rings, prep, tracer, homing
<1>42. CASE UNCHANGED vars
  BY <1>42 DEF vars, stepperVars, shared, rings, prep, tracer, own, realtime, homing, limits
<1>. QED
  BY <1>1, <1>2, <1>3, <1>4, <1>5, <1>6, <1>7, <1>8, <1>9, <1>10, <1>11, <1>12, <1>13, <1>14,
     <1>15, <1>16, <1>17, <1>18, <1>19, <1>20, <1>21, <1>22, <1>23, <1>24, <1>25, <1>26, <1>27,
     <1>28, <1>29, <1>30, <1>31, <1>32, <1>33, <1>34, <1>35, <1>36, <1>37, <1>38, <1>39, <1>40,
     <1>41, <1>42
     DEF Next, Main, Prepare, Prep, Execute, RunLine, Probe, Homing, Timer

\* As long as no synchronize and no probe cycle ends early, every step keeps where the motors are.
LEMMA MotorNext ==
  ASSUME QueueInv, Hopeless, StillInv, MotorInv, ~early', [Next]_vars
  PROVE  MotorInv'
<1>. /\ Aborts /\ PullOffFails /\ ret \in Returns /\ ctx \in Contexts /\ state \in States
     /\ run \in BOOLEAN /\ abort \in BOOLEAN /\ out \subseteq Axes /\ dir \subseteq Axes
     /\ pos \in [Axes -> Int] /\ motor \in [Axes -> Int]
  BY DEF QueueInv, TypeOK, RingInv, RingType
<1>. ExecutesFirst
  BY DEF QueueInv, RingInv
<1>. (cycle = 1 => ~(cycle > Len(HomingCycles))) /\ (pc = "homed" => abort)
  BY FirstMask DEF Hopeless
<1>. HIDE DEF QueueInv, Hopeless
<1>. USE DEF MotorInv, Pending, StillInv, Calm, Ending, Stops, Still, Waking, JogWaking, HomeMoves, Aborts,
             PullOffFails, InHoming, HomingRuns, HomingPoints, Busy, Returns, Contexts, States
<1>1. CASE PrepReturns /\ UNCHANGED own
  BY <1>1 DEF PrepReturns, shared, rings, prep, tracer, own, realtime, homing, limits
<1>2. CASE PrepLoad /\ UNCHANGED own
  BY <1>2 DEF PrepLoad, shared, tracer, own, realtime, homing, limits
<1>3. CASE PrepFill /\ UNCHANGED own
  BY <1>3 DEF PrepFill, prep, tracer, own, realtime, homing, limits
<1>4. CASE PrepPublish /\ UNCHANGED own
  BY <1>4 DEF PrepPublish, tracer, own, realtime, homing, limits
<1>5. CASE PassAlarm
  BY <1>5 DEF PassAlarm, rings, prep, tracer, homing, limits
<1>6. CASE Critical
  BY <1>6 DEF Critical, Goto, shared, rings, prep, tracer, homing, limits
<1>7. CASE PassExec
  BY <1>7 DEF PassExec, Goto, Refill, PrepThen, Unloaded, rings, tracer, homing, limits
<1>8. CASE PassStart
  BY <1>8 DEF PassStart, Goto, PrepThen, rings, prep, tracer, homing, limits
<1>9. CASE PassWake
  BY <1>9 DEF PassWake, Goto, WakeUp, rings, prep, own, realtime, homing, limits
<1>10. CASE PassStop
  BY <1>10 DEF PassStop, Goto, Refill, PrepThen, Unloaded, StepperReset, SyncPosition, rings,
       prep, tracer, homing, limits
<1>11. CASE Leave
  BY <1>11 DEF Leave, Goto, shared, rings, prep, tracer, own, realtime, homing, limits
<1>12. CASE Reinit
  BY <1>12 DEF Reinit, Goto, StepperReset, SyncPosition, Rearm, homing
<1>13. CASE Idle
  BY <1>13 DEF Idle, ExecuteThen, AutoStart, rings, prep, tracer, realtime, homing, limits
<1>14. CASE IdleReturns
  BY <1>14 DEF IdleReturns, Goto, shared, rings, prep, tracer, own, realtime, homing, limits
<1>15. CASE LineEnds
  BY <1>15 DEF LineEnds, Goto, Line, rings, prep, tracer, own, realtime, homing, limits
<1>16. CASE LineMotion
  BY <1>16 DEF LineMotion, Line, ExecuteThen, shared, rings, prep, tracer, realtime, homing,
       limits
<1>17. CASE McWait
  BY <1>17 DEF McWait, Goto, Planned, AutoStart, ExecuteThen, rings, prep, tracer, realtime,
       homing, limits
<1>18. CASE McPlan
  BY <1>18 DEF McPlan, Goto, Planned, rings, prep, tracer, realtime, homing, limits
<1>19. CASE Jogged
  BY <1>19 DEF Jogged, PrepThen, Goto, rings, prep, tracer, own, realtime, homing, limits
<1>20. CASE JogWake
  BY <1>20 DEF JogWake, Goto, WakeUp, shared, rings, prep, own, realtime, homing, limits
<1>21. CASE LineProbe
  BY <1>21 DEF LineProbe, Line, AutoStart, ExecuteThen, rings, prep, tracer, realtime, homing,
       limits
<1>22. CASE ProbeSynced
  BY <1>22 DEF ProbeSynced, Goto, ExecuteThen, rings, prep, tracer, homing, limits
<1>23. CASE ProbeFailed
  BY <1>23 DEF ProbeFailed, Goto, rings, prep, tracer, own, realtime, homing, limits
<1>24. CASE ProbeStart
  BY <1>24 DEF ProbeStart, ExecuteThen, rings, prep, tracer, realtime, homing, limits
<1>25. CASE ProbeWait
  BY <1>25 DEF ProbeWait, Goto, ExecuteThen, rings, prep, tracer, homing, limits
<1>26. CASE Probed
  BY <1>26 DEF Probed, Goto, StepperReset, SyncPosition, realtime, homing, limits
<1>27. CASE LineHome
  BY <1>27 DEF LineHome, Line, Goto, rings, prep, tracer, realtime
<1>28. CASE HomeCycle
  BY <1>28 DEF HomeCycle, Goto, ExecuteThen, shared, rings, prep, tracer, realtime, homing,
       limits
<1>29. CASE HomePhase
  BY <1>29 DEF HomePhase, PrepThen, rings, prep, realtime, homing, limits
<1>30. CASE HomeWake
  BY <1>30 DEF HomeWake, Goto, WakeUp, shared, rings, prep, own, realtime, homing, limits
<1>31. CASE HomeCheck
  BY <1>31 DEF HomeCheck, PrepThen, rings, prep, tracer, own, realtime, homing, limits
<1>32. CASE HomeExit
  BY <1>32 DEF HomeExit, Goto, McReset, ExecuteThen, rings, prep, tracer, homing, limits
<1>33. CASE HomePhaseDone
  BY <1>33 DEF HomePhaseDone, Goto, StepperReset, realtime, limits
<1>34. CASE HomeFailed
  BY <1>34 DEF HomeFailed, Goto, shared, rings, prep, tracer, realtime, limits
<1>35. CASE Homed
  BY <1>35 DEF Homed, Goto, SyncPosition, Rearm, rings, prep, tracer, realtime, homing
<1>36. CASE LineArrives
  BY <1>36 DEF LineArrives, ExecuteThen, shared, rings, prep, tracer, realtime, homing, limits
<1>37. CASE Tick /\ UNCHANGED own
  <2>1. /\ run /\ synced' = synced /\ pc' = pc /\ ret' = ret /\ state' = state /\ run' = run
        /\ motor' = [a \in Axes |-> IF a \notin out THEN motor[a]
                                   ELSE IF a \in dir THEN motor[a] - 1 ELSE motor[a] + 1]
        /\ pos' = [a \in Axes |-> IF a \notin Stepping THEN pos[a]
                                  ELSE IF a \in Current.back THEN pos[a] - 1 ELSE pos[a] + 1]
        /\ out' = Unlocked(Stepping) /\ dir' = IF exec THEN dir ELSE Current.back
    BY <1>37 DEF Tick, own, Pulse
  <2>2. dir' = Current.back
    BY <2>1 DEF ExecutesFirst, Current, Traces
  <2>3. ASSUME synced, NEW a \in Axes PROVE pos'[a] = motor'[a] + Pending(a)'
    <3>1. out' = Stepping
      BY <2>1, <2>3 DEF Unlocked
    <3>2. motor'[a] = pos[a] /\ pos[a] \in Int
      BY <2>1, <2>3
    <3>. HIDE DEF MotorInv
    <3>. QED
      BY <2>1, <2>2, <3>1, <3>2
  <2>. QED
    BY <2>1, <2>3
<1>38. CASE TickDry /\ UNCHANGED own
  <2>1. /\ run /\ ~run' /\ synced' = synced /\ pc' = pc /\ ret' = ret /\ state' = state /\ pos' = pos
        /\ motor' = [a \in Axes |-> IF a \notin out THEN motor[a]
                                   ELSE IF a \in dir THEN motor[a] - 1 ELSE motor[a] + 1]
    BY <1>38 DEF TickDry, own, Pulse
  <2>. QED
    BY <2>1
<1>39. CASE ResetPressed
  BY <1>39 DEF ResetPressed, McReset, rings, prep, tracer, homing, limits
<1>40. CASE Command
  BY <1>40 DEF Command, rings, prep, tracer, realtime, homing, limits
<1>41. CASE LimitIsr
  BY <1>41 DEF LimitIsr, rings, prep, tracer, homing
<1>42. CASE UNCHANGED vars
  BY <1>42 DEF vars, stepperVars, shared, rings, prep, tracer, own, realtime, homing, limits
<1>. QED
  BY <1>1, <1>2, <1>3, <1>4, <1>5, <1>6, <1>7, <1>8, <1>9, <1>10, <1>11, <1>12, <1>13, <1>14,
     <1>15, <1>16, <1>17, <1>18, <1>19, <1>20, <1>21, <1>22, <1>23, <1>24, <1>25, <1>26, <1>27,
     <1>28, <1>29, <1>30, <1>31, <1>32, <1>33, <1>34, <1>35, <1>36, <1>37, <1>38, <1>39, <1>40,
     <1>41, <1>42
     DEF Next, Main, Prepare, Prep, Execute, RunLine, Probe, Homing, Timer

\* Steps that empty the rings.
Resetting == Reinit \/ Probed \/ HomePhaseDone \/ Cancels

\* Where they are.
Emptied ==
  /\ \/ pc \in {"init", "probed", "homePhaseDone"}
     \/ pc = "stop" /\ "CYCLE_STOP" \in snap /\ "JOG_CANCEL" \in suspend
  /\ pc' # pc

\* st_reset() leaves no segment and no block.
LEMMA NothingIdentified ==
  ASSUME QueueInv, StepperReset, pos' = pos, ret' \in Returns, pc' \notin {"fill", "publish"}
  PROVE  Identified'
<1>1. RingType /\ pos' \in [Axes -> Int]
  BY DEF QueueInv, TypeOK, RingType
<1>2. ~Cutting'
  BY <1>1, RingEmptied, RetIsNoPrep
<1>3. Used' = 0
  BY DEF StepperReset, Used
<1>. QED
  BY <1>2, <1>3 DEF Identified

\* Every segment stays a block's, and only a reset takes the timer's block away.
LEMMA BlockStays ==
  ASSUME QueueInv, Identified, [Next]_vars
  PROVE  /\ Identified'
         /\ HasBlock => HasBlock' \/ Emptied
         /\ PrepPublish /\ UNCHANGED own => HasBlock'
<1>. /\ RingInv /\ RingType /\ Fresh /\ ids \in Nat /\ Used \in 0 .. SegSize - 1
     /\ blk \in [BlockSlots -> Blocks] /\ prepIndex \in BlockSlots
     /\ \A i \in 1 .. Used : Index(i) \in BlockSlots
  BY UsedRange, IndexType DEF QueueInv, TypeOK, RingInv, RingType
<1>. ret' \in Returns /\ PullOffFails
  BY GoesOn DEF QueueInv
<1>. USE PipelineAssumption
<1>1. CASE ~Loud
  <2>1. Quiet
    BY <1>1, QuietActions
  <2>2. /\ UNCHANGED <<blk, seg, head, tail, execId, prepIndex>> /\ (Cutting' => Cutting)
        /\ Used' = Used /\ \A i : Index(i)' = Index(i)
    <3>1. UNCHANGED <<blk, seg, head, tail, execId, prepIndex>>
      BY <2>1 DEF Quiet, rings
    <3>2. Cutting' => Cutting
      BY <2>1 DEF Quiet, Unloaded, Cutting
    <3>. QED
      BY <3>1, <3>2 DEF Used, Index, At, SlotOf
  <2>3. ~(PrepPublish /\ UNCHANGED own)
    BY <1>1 DEF Loud
  <2>. QED
    BY <2>2, <2>3 DEF Identified, HasBlock
<1>2. CASE PrepLoad /\ UNCHANGED own
  <2>1. /\ UNCHANGED <<seg, head, tail, execId>> /\ Used' = Used /\ pc = "prep"
        /\ \A i : Index(i)' = Index(i)
    BY <1>2 DEF PrepLoad, tracer, Used, Index, At, SlotOf
  <2>2. CASE Loads
    <3>1. ToCut.id # 0 /\ Traced(ToCut).id = ToCut.id
      <4>1. ToCut \in Blocks /\ ToCut.id > NewestId /\ NewestId \in Nat
        BY <1>2, <2>2, NextToCut, IdsType
      <4>2. ToCut.id \in Nat
        BY <4>1 DEF Blocks
      <4>3. Traced(ToCut).id = ToCut.id
        BY <4>1, TracedType
      <4>. HIDE DEF ToCut, NewestId
      <4>. QED
        BY <4>1, <4>2, <4>3
    <3>2. prepIndex' = NextBlock(prepIndex) /\ NextBlock(prepIndex) \in BlockSlots
          /\ blk' = [blk EXCEPT ![NextBlock(prepIndex)] = Traced(ToCut)]
      BY <1>2, <2>2, BehindRange DEF PrepLoad
    <3>3. blk'[prepIndex'].id # 0 /\ \A k \in BlockSlots : blk[k].id # 0 => blk'[k].id # 0
      BY <3>1, <3>2
    <3>. QED
      BY <2>1, <3>3 DEF Identified, HasBlock, PrepPublish
  <2>3. CASE ~Loads
    <3>1. Cutting /\ blk' = blk /\ prepIndex' = prepIndex
      BY <1>2, <2>3 DEF PrepLoad, Loads, Cutting
    <3>. QED
      BY <2>1, <3>1 DEF Identified, HasBlock, PrepPublish
  <2>. QED
    BY <2>2, <2>3
<1>3. CASE PrepFill /\ UNCHANGED own
  <2>1. /\ UNCHANGED <<blk, head, tail, execId, prepIndex>> /\ Cutting' = Cutting
        /\ Used' = Used /\ \A i : SlotOf(i)' = SlotOf(i)
        /\ pc = "fill" /\ seg \in [Slots -> [n : Nat, index : BlockSlots, level : 0 .. MaxLevel]]
        /\ \A k \in Slots : k # head => seg'[k] = seg[k]
    BY <1>3 DEF PrepFill, prep, tracer, Cutting, Used, SlotOf, RingType
  <2>2. \A i \in 1 .. Used : Index(i)' = Index(i)
    BY <2>1, UsedRange DEF Index, At
  <2>. QED
    BY <2>1, <2>2 DEF Identified, HasBlock, PrepPublish
<1>4. CASE PrepPublish /\ UNCHANGED own
  <2>1. /\ UNCHANGED <<blk, seg, tail, prepIndex, recalc>> /\ head' = nextHead
        /\ tail # nextHead /\ loaded # "none" /\ seg[head].index = prepIndex
    BY <1>4 DEF PrepPublish, tracer, RingInv, Filled
  <2>2. Used' = Used + 1 /\ \A i \in 1 .. Used' : Index(i)' \in {Index(i), prepIndex}
        /\ (i \notin 1 .. Used => Index(i)' = prepIndex)
    BY <2>1, AfterPublish DEF Index
  <2>3. Cutting
    BY <2>1 DEF Cutting
  <2>. QED
    BY <2>1, <2>2, <2>3 DEF Identified, HasBlock
<1>5. CASE Tick /\ UNCHANGED own
  <2>1. /\ UNCHANGED <<blk, seg, head, prepIndex>> /\ Cutting' = Cutting
        /\ execId' = Current.id /\ tail' \in {tail, NextSlot(tail)}
        /\ exec \/ head # tail
    BY <1>5 DEF Tick, rings, prep, Cutting
  <2>2. Used > 0 /\ Traces = Index(1)
    BY <2>1, UsedRange DEF RingInv, ExecutesFirst, Traces, Index, At
  <2>3. execId' # 0
    BY <2>1, <2>2 DEF Current, Identified
  <2>4. CASE tail' = tail
    <3>1. Used' = Used /\ \A i : Index(i)' = Index(i)
      BY <2>1, <2>4 DEF Used, Index, At, SlotOf
    <3>. QED
      BY <2>1, <2>3, <3>1 DEF Identified, HasBlock, Tick, PrepPublish
  <2>5. CASE tail' = NextSlot(tail)
    <3>1. Used' = Used - 1 /\ \A i \in 1 .. Used' : Index(i)' = Index(i + 1)
      BY <2>1, <2>2, <2>5, AfterSegment DEF Index
    <3>. QED
      BY <2>1, <2>3, <3>1 DEF Identified, HasBlock
  <2>. QED
    BY <2>1, <2>4, <2>5
<1>6. CASE TickDry /\ UNCHANGED own
  <2>1. /\ UNCHANGED <<blk, seg, head, tail, execId, prepIndex>> /\ Cutting' = Cutting
        /\ Used' = Used /\ \A i : Index(i)' = Index(i)
    BY <1>6 DEF TickDry, rings, prep, Cutting, Used, Index, At, SlotOf
  <2>. QED
    BY <1>6, <2>1 DEF Identified, HasBlock, TickDry, PrepPublish, RingType
<1>7. CASE McPlan \/ HomePhase
  <2>1. /\ UNCHANGED <<blk, seg, head, tail, execId, prepIndex>> /\ Cutting' = Cutting
        /\ Used' = Used /\ (\A i : Index(i)' = Index(i)) /\ ids' # ids
    BY <1>7 DEF McPlan, HomePhase, PrepThen, rings, prep, tracer, Cutting, Used, Index, At, SlotOf
  <2>. QED
    BY <2>1 DEF Identified, HasBlock, own
<1>8. CASE Resetting
  <2>1. StepperReset
    BY <1>8 DEF Resetting, Reinit, Probed, HomePhaseDone, Cancels, PassStop
  <2>2. pos' = pos /\ pc' \notin {"fill", "publish"}
    BY <1>8 DEF Resetting, Reinit, Probed, HomePhaseDone, Cancels, PassStop, Goto, PullOffFails,
         HomingRuns, HomingPoints
  <2>3. pc # "publish" /\ Emptied
    BY <1>8 DEF Resetting, Reinit, Probed, HomePhaseDone, Cancels, PassStop, Goto, PullOffFails,
         HomingRuns, HomingPoints, Emptied
  <2>. QED
    BY <1>8, <2>1, <2>2, <2>3, NothingIdentified DEF PrepPublish
<1>. QED
  BY <1>1, <1>2, <1>3, <1>4, <1>5, <1>6, <1>7, <1>8 DEF Loud, Resetting

\* As long as no synchronize and no probe cycle ends early, every step keeps what the timer finds.
LEMMA BlockNext ==
  ASSUME QueueInv, Hopeless, StillInv, BlockInv, ~early', [Next]_vars
  PROVE  BlockInv'
<1>. /\ Aborts /\ PullOffFails /\ ret \in Returns /\ ctx \in Contexts /\ state \in States
     /\ run \in BOOLEAN /\ abort \in BOOLEAN
  BY DEF QueueInv, TypeOK, RingInv, RingType
<1>. Hopeless /\ (cycle = 1 => ~(cycle > Len(HomingCycles)))
  BY FirstMask
<1>. /\ Identified' /\ (HasBlock => HasBlock' \/ Emptied)
  BY BlockStays DEF BlockInv
<1>. tail = nextHead => HasBlock
  BY UsedRange, PipelineAssumption DEF QueueInv, TypeOK, HasBlock
<1>. HIDE DEF QueueInv, Identified, HasBlock
<1>. USE DEF BlockInv, Halting, Leaving, Emptied, Source, Hopeless,
             StillInv, Calm, Ending, Stops, Still, Waking, JogWaking, HomeMoves, Aborts,
             PullOffFails, InHoming, HomingRuns, HomingPoints, Busy, Returns, Contexts, States
<1>1. CASE PrepReturns /\ UNCHANGED own
  BY <1>1 DEF PrepReturns, shared, rings, prep, tracer, own, realtime, homing, limits
<1>2. CASE PrepLoad /\ UNCHANGED own
  BY <1>2 DEF PrepLoad, shared, tracer, own, realtime, homing, limits
<1>3. CASE PrepFill /\ UNCHANGED own
  BY <1>3 DEF PrepFill, prep, tracer, own, realtime, homing, limits
<1>4. CASE PrepPublish /\ UNCHANGED own
  <2>1. HasBlock'
    BY <1>4, BlockStays DEF BlockInv
  <2>. QED
    BY <1>4, <2>1 DEF PrepPublish, tracer, own, realtime, homing, limits
<1>5. CASE PassAlarm
  BY <1>5 DEF PassAlarm, rings, prep, tracer, homing, limits
<1>6. CASE Critical
  BY <1>6 DEF Critical, Goto, shared, rings, prep, tracer, homing, limits
<1>7. CASE PassExec
  BY <1>7 DEF PassExec, Goto, Refill, PrepThen, Unloaded, rings, tracer, homing, limits,
       Stopping, Holds
<1>8. CASE PassStart
  BY <1>8 DEF PassStart, Goto, PrepThen, rings, prep, tracer, homing, limits
<1>9. CASE PassWake
  BY <1>9 DEF PassWake, Goto, WakeUp, rings, prep, own, realtime, homing, limits
<1>10. CASE PassStop
  BY <1>10 DEF PassStop, Goto, Refill, PrepThen, Unloaded, StepperReset, SyncPosition, rings,
       prep, tracer, homing, limits
<1>11. CASE Leave
  BY <1>11 DEF Leave, Goto, shared, rings, prep, tracer, own, realtime, homing, limits
<1>12. CASE Reinit
  BY <1>12 DEF Reinit, Goto, StepperReset, SyncPosition, Rearm, homing
<1>13. CASE Idle
  BY <1>13 DEF Idle, ExecuteThen, AutoStart, rings, prep, tracer, realtime, homing, limits
<1>14. CASE IdleReturns
  BY <1>14 DEF IdleReturns, Goto, shared, rings, prep, tracer, own, realtime, homing, limits
<1>15. CASE LineEnds
  BY <1>15 DEF LineEnds, Goto, Line, rings, prep, tracer, own, realtime, homing, limits
<1>16. CASE LineMotion
  BY <1>16 DEF LineMotion, Line, ExecuteThen, shared, rings, prep, tracer, realtime, homing,
       limits
<1>17. CASE McWait
  BY <1>17 DEF McWait, Goto, Planned, AutoStart, ExecuteThen, rings, prep, tracer, realtime,
       homing, limits
<1>18. CASE McPlan
  BY <1>18 DEF McPlan, Goto, Planned, rings, prep, tracer, realtime, homing, limits
<1>19. CASE Jogged
  BY <1>19 DEF Jogged, PrepThen, Goto, rings, prep, tracer, own, realtime, homing, limits
<1>20. CASE JogWake
  BY <1>20 DEF JogWake, Goto, WakeUp, shared, rings, prep, own, realtime, homing, limits
<1>21. CASE LineProbe
  BY <1>21 DEF LineProbe, Line, AutoStart, ExecuteThen, rings, prep, tracer, realtime, homing,
       limits
<1>22. CASE ProbeSynced
  BY <1>22 DEF ProbeSynced, Goto, ExecuteThen, rings, prep, tracer, homing, limits
<1>23. CASE ProbeFailed
  BY <1>23 DEF ProbeFailed, Goto, rings, prep, tracer, own, realtime, homing, limits
<1>24. CASE ProbeStart
  BY <1>24 DEF ProbeStart, ExecuteThen, rings, prep, tracer, realtime, homing, limits
<1>25. CASE ProbeWait
  BY <1>25 DEF ProbeWait, Goto, ExecuteThen, rings, prep, tracer, homing, limits
<1>26. CASE Probed
  BY <1>26 DEF Probed, Goto, StepperReset, SyncPosition, realtime, homing, limits, MovingControl
<1>27. CASE LineHome
  BY <1>27 DEF LineHome, Line, Goto, rings, prep, tracer, realtime
<1>28. CASE HomeCycle
  BY <1>28 DEF HomeCycle, Goto, ExecuteThen, shared, rings, prep, tracer, realtime, homing,
       limits
<1>29. CASE HomePhase
  BY <1>29 DEF HomePhase, PrepThen, rings, prep, realtime, homing, limits
<1>30. CASE HomeWake
  BY <1>30 DEF HomeWake, Goto, WakeUp, shared, rings, prep, own, realtime, homing, limits
<1>31. CASE HomeCheck
  BY <1>31 DEF HomeCheck, PrepThen, rings, prep, tracer, own, realtime, homing, limits
<1>32. CASE HomeExit
  BY <1>32 DEF HomeExit, Goto, McReset, ExecuteThen, rings, prep, tracer, homing, limits
<1>33. CASE HomePhaseDone
  BY <1>33 DEF HomePhaseDone, Goto, StepperReset, realtime, limits
<1>34. CASE HomeFailed
  BY <1>34 DEF HomeFailed, Goto, shared, rings, prep, tracer, realtime, limits
<1>35. CASE Homed
  BY <1>35 DEF Homed, Goto, SyncPosition, Rearm, rings, prep, tracer, realtime, homing
<1>36. CASE LineArrives
  BY <1>36 DEF LineArrives, ExecuteThen, shared, rings, prep, tracer, realtime, homing, limits
<1>37. CASE Tick /\ UNCHANGED own
  BY <1>37 DEF Tick, rings, prep, own, realtime, homing, limits
<1>38. CASE TickDry /\ UNCHANGED own
  BY <1>38 DEF TickDry, rings, prep, own, realtime, homing, limits
<1>39. CASE ResetPressed
  BY <1>39 DEF ResetPressed, McReset, rings, prep, tracer, homing, limits
<1>40. CASE Command
  BY <1>40 DEF Command, rings, prep, tracer, realtime, homing, limits
<1>41. CASE LimitIsr
  BY <1>41 DEF LimitIsr, rings, prep, tracer, homing
<1>42. CASE UNCHANGED vars
  BY <1>42 DEF vars, stepperVars, shared, rings, prep, tracer, own, realtime, homing, limits
<1>. QED
  BY <1>1, <1>2, <1>3, <1>4, <1>5, <1>6, <1>7, <1>8, <1>9, <1>10, <1>11, <1>12, <1>13, <1>14,
     <1>15, <1>16, <1>17, <1>18, <1>19, <1>20, <1>21, <1>22, <1>23, <1>24, <1>25, <1>26, <1>27,
     <1>28, <1>29, <1>30, <1>31, <1>32, <1>33, <1>34, <1>35, <1>36, <1>37, <1>38, <1>39, <1>40,
     <1>41, <1>42
     DEF Next, Main, Prepare, Prep, Execute, RunLine, Probe, Homing, Timer

\* Together: when the timer runs, where the motors are, and what the timer finds.
LEMMA TimerNext ==
  ASSUME QueueInv, Hopeless, TimerInv, [Next]_vars
  PROVE  TimerInv'
<1>. SUFFICES ASSUME ~early' PROVE StillInv' /\ MotorInv' /\ BlockInv'
  BY DEF TimerInv
<1>1. ~early
  BY GoesOn DEF QueueInv
<1>2. StillInv /\ MotorInv /\ BlockInv
  BY <1>1 DEF TimerInv
<1>. QED
  BY <1>2, StillNext, MotorNext, BlockNext

\* The timer is off at power on.
LEMMA TimerInit ==
  ASSUME Init
  PROVE  TimerInv
<1>1. pc = "init" /\ state = "IDLE" /\ ~run /\ snap = {} /\ flags = {} /\ stepctl = {} /\ suspend = {}
      /\ alarm = "none" /\ ~abort /\ (\A a \in Axes : pos[a] = 0 /\ motor[a] = 0)
  BY DEF Init, StepperInit, Zero
<1>2. Identified
  <2>1. Used = 0 /\ ~Cutting
    BY DEF Init, StepperInit, Used, Cutting
  <2>. QED
    BY <2>1 DEF Identified
<1>. QED
  BY <1>1, <1>2 DEF TimerInv, StillInv, MotorInv, BlockInv, Calm, Ending, Stops, Still, Waking,
       JogWaking, HomeMoves, Busy, Pending, Halting, Leaving

\* All of it holds in every state: the types, the rings' invariant, what homing and aborts keep,
\* and what the timer finds.
THEOREM MotionInvCorrect == Spec => []MotionInv
<1>1. Init => TimerInv
  BY TimerInit
<1>2. QueueInv /\ (Rearmed /\ Hopeless) /\ TimerInv /\ [Next]_vars => TimerInv'
  BY TimerNext
<1>3. QueueInv /\ TimerInv => MotionInv
  BY DEF MotionInv
<1>. QED
  BY <1>1, <1>2, <1>3, QueueInvCorrect, RearmedCorrect, PTL DEF Spec

\* The timer does not run behind the back of a program that reads lines in a state without
\* motion: it is off once it said so, a motion is started only where it is, and each of the
\* ways out of a motion (a hold, a cancel, an alarm, homing's end) waits for that or kills it.
THEOREM LoopIsStillCorrect == Spec => []LoopIsStill
<1>1. MotionInv => LoopIsStill
  BY DEF MotionInv, QueueInv, TimerInv, StillInv, Ending, InHoming, HomingRuns, HomingPoints,
         Busy, Calm, LoopIsStill
<1>. QED
  BY <1>1, MotionInvCorrect, PTL

\* The position counted is where the motors were sent, but for the pulse to come: the pulse a
\* wake-up forgets was of a timer that had stopped, and the direction pins are those the
\* segment's block was counted with (stepper.cpp:374-389).
THEOREM MotorFollowsCorrect == Spec => []MotorFollows
<1>1. MotionInv => MotorFollows
  BY DEF MotionInv, TimerInv, MotorInv, MotorFollows
<1>. QED
  BY <1>1, MotionInvCorrect, PTL

\* A timer that finds its ring empty has the data of a block (stepper.cpp:405): it is woken up
\* only behind a segment, or behind a block begun since the last st_reset().
THEOREM DryTimerHasBlockCorrect == Spec => []DryTimerHasBlock
<1>1. MotionInv => DryTimerHasBlock
  <2>1. QueueInv => (head = tail => Used = 0)
    BY UsedRange DEF QueueInv, TypeOK
  <2>. QED
    BY <2>1 DEF MotionInv, TimerInv, BlockInv, HasBlock, DryTimerHasBlock
<1>. QED
  BY <1>1, MotionInvCorrect, PTL

-----------------------------------------------------------------------------
(* The line tracer arrives. Each segment in the ring, and each block of the plan, is given the place
   where it leads (there is one, OnCourse says), so that nothing has to be summed up: what the counter
   of an axis holds, and what is still to be added to it, is half a step more than the whole steps the
   machine is away from where its block ends. *)


\* A move that a line may ask for: no axis makes more steps than the line has events.
Possible(x) == x \in Blocks /\ x.events # 0 /\ \A a \in Axes : x.steps[a] <= x.events

\* Where a move leads from q.
To(q, x) == [a \in Axes |-> IF a \in x.back THEN q[a] - x.steps[a] ELSE q[a] + x.steps[a]]

\* The line tracer: with counter c at position r, and w still to be added to the counter, move x ends
\* at goal q. Each step on the way there takes all the events of the line off the counter.
Full(x) == x.events * Cuts(MaxLevel)
Whole(x, a) == x.steps[a] * Cuts(MaxLevel)
Away(x, a, q, r) == IF a \in x.back THEN r[a] - q[a] ELSE q[a] - r[a]
OnLine(x, c, w, q, r) ==
  \A a \in Axes : /\ c[a] \in 1 .. Full(x)
                  /\ c[a] + w[a] = (Full(x) \div 2) + Full(x) * Away(x, a, q, r)

\* What each axis adds with an interrupt: no more than takes a step, and what is then no longer to
\* be added.
Adds(x, i, w, v) ==
  /\ w \in [Axes -> Int] /\ v \in [Axes -> Int] /\ i \in [Axes -> Nat]
  /\ \A a \in Axes : i[a] <= Full(x) /\ w[a] = v[a] + i[a]

\* A level divides what the tracer adds without a rest, so that an event adds the same at each level.
LEMMA NoRest ==
  ASSUME NEW s \in Nat, NEW l \in 0 .. MaxLevel
  PROVE  \E k \in {1, 2, 4, 8} :
           k * Cuts(l) = Cuts(MaxLevel) /\ (s * Cuts(MaxLevel)) \div Cuts(l) = s * k
<1>. USE PipelineAssumption
<1>. l \in {0, 1, 2, 3} /\ MaxLevel \in {1, 2, 3} /\ l <= MaxLevel
  OBVIOUS
<1>0. Cuts(0) = 1 /\ Cuts(1) = 2 /\ Cuts(2) = 4 /\ Cuts(3) = 8
  BY DEF Cuts
<1>1. CASE l = 0
  <2>1. (s * 2) \div 1 = s * 2 /\ (s * 4) \div 1 = s * 4 /\ (s * 8) \div 1 = s * 8
    OBVIOUS
  <2>. QED
    BY <1>0, <1>1, <2>1
<1>2. CASE l = 1
  <2>1. (s * 2) \div 2 = s * 1 /\ (s * 4) \div 2 = s * 2 /\ (s * 8) \div 2 = s * 4
    OBVIOUS
  <2>. QED
    BY <1>0, <1>2, <2>1
<1>3. CASE l = 2
  <2>1. (s * 4) \div 4 = s * 1 /\ (s * 8) \div 4 = s * 2
    OBVIOUS
  <2>. QED
    BY <1>0, <1>3, <2>1
<1>4. CASE l = 3
  <2>1. (s * 8) \div 8 = s * 1
    OBVIOUS
  <2>. QED
    BY <1>0, <1>4, <2>1
<1>. QED
  BY <1>1, <1>2, <1>3, <1>4

\* What n events add at a level, and that one interrupt adds no more than takes a step.
LEMMA Added ==
  ASSUME NEW s \in Nat, NEW e \in Nat, s <= e, NEW n \in Nat, NEW l \in 0 .. MaxLevel
  PROVE  LET i == (s * Cuts(MaxLevel)) \div Cuts(l)
         IN  /\ i \in Nat /\ i <= e * Cuts(MaxLevel)
             /\ (n * Cuts(l)) * i = n * (s * Cuts(MaxLevel))
<1>1. PICK k \in {1, 2, 4, 8} :
           k * Cuts(l) = Cuts(MaxLevel) /\ (s * Cuts(MaxLevel)) \div Cuts(l) = s * k
  BY NoRest
<1>2. Cuts(l) \in {1, 2, 4, 8} /\ Cuts(MaxLevel) \in {2, 4, 8}
  BY PipelineAssumption DEF Cuts
<1>. DEFINE c == Cuts(l) d == Cuts(MaxLevel)
<1>. HIDE DEF c, d
<1>3. c \in {1, 2, 4, 8} /\ d \in {2, 4, 8} /\ k * c = d
  BY <1>1, <1>2 DEF c, d
<1>4. s * k \in Nat /\ s * k <= e * d
  <2>1. k <= d
    BY <1>3
  <2>. QED
    BY <1>3, <2>1
<1>5. (n * c) * (s * k) = n * (s * d)
  BY <1>3
<1>. QED
  BY <1>1, <1>4, <1>5 DEF c, d

\* What is full is a positive even number.
LEMMA FullType ==
  ASSUME NEW x, Possible(x)
  PROVE  /\ Full(x) \in Nat /\ Full(x) >= 2 /\ x.events \in Nat /\ x.events > 0
         /\ Full(x) \div 2 \in 1 .. Full(x) /\ Cuts(MaxLevel) \in {2, 4, 8}
         /\ \A a \in Axes : x.steps[a] \in Nat /\ x.steps[a] <= x.events
<1>1. Cuts(MaxLevel) \in {2, 4, 8}
  BY PipelineAssumption DEF Cuts
<1>2. x.events \in Nat /\ x.events > 0 /\ \A a \in Axes : x.steps[a] \in Nat /\ x.steps[a] <= x.events
  BY DEF Possible, Blocks
<1>. HIDE DEF Possible
<1>3. Full(x) \in Nat /\ Full(x) >= 2
  BY <1>1, <1>2 DEF Full
<1>. HIDE DEF Full
<1>. QED
  BY <1>1, <1>2, <1>3

\* One interrupt goes on along the line: what it adds is no longer to be added, and where the counter
\* overflows by it the axis is a step nearer.
LEMMA StepsOn ==
  ASSUME NEW x, Possible(x), NEW c \in [Axes -> Int], NEW w, NEW v, NEW q \in [Axes -> Int],
         NEW r \in [Axes -> Int], NEW i, Adds(x, i, w, v), OnLine(x, c, w, q, r),
         NEW d, d = [a \in Axes |-> IF c[a] + i[a] > Full(x) THEN c[a] + i[a] - Full(x)
                                    ELSE c[a] + i[a]],
         NEW s, s = [a \in Axes |-> IF ~(c[a] + i[a] > Full(x)) THEN r[a]
                                    ELSE IF a \in x.back THEN r[a] - 1 ELSE r[a] + 1]
  PROVE  OnLine(x, d, v, q, s)
<1>. DEFINE steps == {a \in Axes : c[a] + i[a] > Full(x)}
<1>0. /\ w \in [Axes -> Int] /\ v \in [Axes -> Int] /\ i \in [Axes -> Nat]
      /\ \A a \in Axes : i[a] <= Full(x) /\ w[a] = v[a] + i[a]
  BY DEF Adds
<1>1. Full(x) \in Nat
  BY FullType
<1>2. ASSUME NEW a \in Axes
      PROVE  d[a] \in 1 .. Full(x) /\ d[a] + v[a] = (Full(x) \div 2) + Full(x) * Away(x, a, q, s)
  <2>. DEFINE f == Full(x) h == Full(x) \div 2 n == Away(x, a, q, r)
  <2>1. /\ c[a] \in 1 .. f /\ i[a] \in Nat /\ i[a] <= f /\ f \in Nat /\ v[a] \in Int
        /\ c[a] + (v[a] + i[a]) = h + f * n
    BY <1>0, <1>1 DEF OnLine
  <2>2. n \in Int /\ h \in Int
    BY <1>1 DEF Away
  <2>3. CASE a \in steps
    <3>1. c[a] + i[a] > f /\ d[a] = c[a] + i[a] - f
      BY <2>3
    <3>2. Away(x, a, q, s) = n - 1
      BY <2>3 DEF Away
    <3>. HIDE DEF n, h, f, steps
    <3>3. f * (n - 1) = f * n - f
      BY <2>1, <2>2
    <3>4. f * n \in Int
      BY <2>1, <2>2
    <3>5. d[a] \in 1 .. f /\ d[a] + v[a] = h + f * (n - 1)
      <4>1. c[a] \in Int /\ d[a] \in Int /\ f * n \in Int /\ f * (n - 1) \in Int
        BY <2>1, <2>2, <3>1
      <4>2. d[a] >= 1 /\ d[a] <= f
        BY <2>1, <3>1, <4>1
      <4>3. d[a] + v[a] = (c[a] + (v[a] + i[a])) - f
        BY <2>1, <3>1, <4>1
      <4>4. d[a] + v[a] = (h + f * n) - f
        BY <2>1, <4>3
      <4>5. (h + f * n) - f = h + (f * n - f)
        BY <2>1, <2>2, <4>1
      <4>. QED
        BY <2>1, <3>3, <4>1, <4>2, <4>4, <4>5
    <3>. QED
      BY <3>2, <3>5 DEF f, h
  <2>4. CASE a \notin steps
    <3>1. ~(c[a] + i[a] > f) /\ d[a] = c[a] + i[a]
      BY <2>4
    <3>2. Away(x, a, q, s) = n
      BY <2>4 DEF Away
    <3>. HIDE DEF n, h, f, steps
    <3>4. f * n \in Int
      BY <2>1, <2>2
    <3>5. d[a] \in 1 .. f /\ d[a] + v[a] = h + f * n
      BY <2>1, <2>2, <3>1, <3>4
    <3>. QED
      BY <3>2, <3>5 DEF f, h
  <2>. QED
    BY <2>3, <2>4
<1>. QED
  BY <1>2 DEF OnLine

\* With nothing to add any more the goal is reached, not missed by a step.
LEMMA LineReaches ==
  ASSUME NEW x, Possible(x), NEW c \in [Axes -> Int], NEW w \in [Axes -> Int],
         NEW q \in [Axes -> Int], NEW r \in [Axes -> Int],
         \A a \in Axes : w[a] = 0, OnLine(x, c, w, q, r)
  PROVE  r = q
<1>1. ASSUME NEW a \in Axes PROVE r[a] = q[a]
  <2>. DEFINE f == Full(x) h == Full(x) \div 2 n == Away(x, a, q, r)
  <2>1. /\ f \in Nat /\ f >= 2 /\ h \in 1 .. f /\ n \in Int
    BY FullType DEF Away
  <2>2. c[a] \in 1 .. f /\ c[a] = h + f * n
    <3>. HIDE DEF f, h, n
    <3>1. c[a] \in 1 .. f /\ c[a] + w[a] = h + f * n /\ w[a] = 0 /\ c[a] \in Int
      BY DEF OnLine, f, h, n
    <3>. QED
      BY <3>1
  <2>. HIDE DEF f, h, n
  <2>3. f * n < f /\ f * n > 0 - f
    BY <2>1, <2>2
  <2>4. n = 0
    <3>1. CASE n >= 1
      BY <2>1, <2>3, <3>1
    <3>2. CASE n <= 0 - 1
      BY <2>1, <2>3, <3>2
    <3>. QED
      BY <2>1, <3>1, <3>2
  <2>. QED
    BY <2>4 DEF n, Away
<1>. QED
  BY <1>1

\* A line begins in the middle of a step, with all its events to come.
LEMMA LineBegins ==
  ASSUME NEW x, Possible(x), NEW r \in [Axes -> Int], NEW w,
         \A a \in Axes : w[a] = x.events * Whole(x, a)
  PROVE  OnLine(x, [a \in Axes |-> Full(x) \div 2], w, To(r, x), r)
<1>. SUFFICES ASSUME NEW a \in Axes
              PROVE  /\ Full(x) \div 2 \in 1 .. Full(x)
                     /\ (Full(x) \div 2) + w[a] = (Full(x) \div 2) + Full(x) * Away(x, a, To(r, x), r)
  BY DEF OnLine
<1>1. /\ Full(x) \div 2 \in 1 .. Full(x) /\ x.events \in Nat /\ x.steps[a] \in Nat
      /\ Cuts(MaxLevel) \in {2, 4, 8}
  BY FullType
<1>2. Away(x, a, To(r, x), r) = x.steps[a]
  BY <1>1 DEF Away, To
<1>3. w[a] = Full(x) * x.steps[a]
  <2>. DEFINE e == x.events s == x.steps[a] c == Cuts(MaxLevel)
  <2>. HIDE DEF e, s, c
  <2>1. e * (s * c) = (e * c) * s
    BY <1>1 DEF e, s, c
  <2>. QED
    BY <2>1 DEF Whole, Full, e, s, c
<1>. QED
  BY <1>1, <1>2, <1>3

-----------------------------------------------------------------------------
(* The way of the blocks: from where the machine is, through what is left of the line it traces, the
   segments in the ring and the blocks of the plan, to where the planner says it will be. *)

\* What is told of a segment: its step events, those of its block that are left behind it, the block as
\* it was planned, and where that one ends. The one before the first tells of the line traced last.
Pieces == [n : Nat, left : Nat, of : Blocks, goal : [Axes -> Int]]

\* A segment goes on with the block of the one before, or begins the next one.
Continues(i) == Index(i) = IF i = 1 THEN execIndex ELSE Index(i - 1)
Follows(s, t) == s.left = t.left + t.n /\ s.goal = t.goal /\ s.of = t.of
Starts(s, t) == s.left = 0 /\ t.left + t.n = t.of.events /\ t.goal = To(s.goal, t.of)

Segments(f) ==
  /\ f \in [0 .. Used -> Pieces]
  /\ \A i \in 1 .. Used : /\ Possible(f[i].of) /\ blk[Index(i)] = Traced(f[i].of)
                          /\ f[i].n # 0 /\ At(i).n = f[i].n * Cuts(At(i).level)
                          /\ ~(exec /\ i = 1) => IF Continues(i) THEN Follows(f[i - 1], f[i])
                                                                 ELSE Starts(f[i - 1], f[i])

\* The tracer is on the line of the segment it executes, or of the one it has executed, unless that
\* was its block's last.
Rests(s) == [a \in Axes |-> s.left * Whole(s.of, a)]
Tracing(f) ==
  IF exec
  THEN OnLine(f[1].of, counter, [a \in Axes |-> count * inc[a] + f[1].left * Whole(f[1].of, a)],
              f[1].goal, pos)
  ELSE IF f[0].left = 0 THEN pos = f[0].goal
  ELSE /\ Possible(f[0].of) /\ blk[execIndex] = Traced(f[0].of)
       /\ OnLine(f[0].of, counter, Rests(f[0]), f[0].goal, pos)

\* The newest segment has behind it what is still to be cut of its block; the plan goes on from there.
CutsOn == Cutting /\ prepIndex = NewestIndex
Joined(f, p) == /\ f[Used].left = IF CutsOn THEN remaining ELSE 0
                /\ f[Used].goal = IF CutsOn THEN p[1] ELSE p[0]
Course(p) == /\ p \in [0 .. Len(plan) -> [Axes -> Int]] /\ p[Len(plan)] = plpos
             /\ \A i \in 1 .. Len(plan) : Possible(plan[i]) /\ p[i] = To(p[i - 1], plan[i])
FirstCut == Cutting => /\ plan # <<>> /\ blk[prepIndex] = Traced(plan[1])
                       /\ prepIndex # NewestIndex => remaining = plan[1].events

OnCourse == FirstCut /\ \E f, p : Segments(f) /\ Tracing(f) /\ Joined(f, p) /\ Course(p)

\* What is cut is whole events.
WholeEvents == pc = "publish" => \E n \in Nat \ {0} : seg[head].n = n * Cuts(seg[head].level)

\* Outside of homing, which ends in an abort.
ArrivesInv == InHoming \/ abort \/ (OnCourse /\ WholeEvents)

\* What moves neither segments nor the machine keeps the course.
LEMMA CourseStays ==
  ASSUME OnCourse, Used \in Nat, Used' = Used, \A i \in 1 .. Used : At(i)' = At(i),
         NewestIndex' = NewestIndex, Cutting' = Cutting,
         UNCHANGED <<blk, exec, execIndex, count, counter, inc, pos, prepIndex, remaining, plan, plpos>>
  PROVE  OnCourse'
<1>1. PICK f, p : Segments(f) /\ Tracing(f) /\ Joined(f, p) /\ Course(p)
  BY DEF OnCourse
<1>2. \A i \in 1 .. Used : Index(i)' = Index(i)
  BY DEF Index
<1>3. Segments(f)'
  <2>. SUFFICES ASSUME NEW i \in 1 .. Used
                PROVE  /\ Possible(f[i].of) /\ blk[Index(i)] = Traced(f[i].of)
                       /\ f[i].n # 0 /\ At(i).n = f[i].n * Cuts(At(i).level)
                       /\ ~(exec /\ i = 1) => IF Continues(i)' THEN Follows(f[i - 1], f[i])
                                                               ELSE Starts(f[i - 1], f[i])
    BY <1>1, <1>2 DEF Segments
  <2>1. Continues(i)' = Continues(i)
    <3>1. CASE i = 1
      BY <1>2, <3>1 DEF Continues
    <3>2. CASE i # 1
      <4>1. i - 1 \in 1 .. Used
        BY <3>2
      <4>. QED
        BY <1>2, <3>2, <4>1 DEF Continues
    <3>. QED
      BY <3>1, <3>2
  <2>. QED
    BY <1>1, <2>1 DEF Segments
<1>4. Tracing(f)'
  BY <1>1 DEF Tracing
<1>5. Joined(f, p)' /\ Course(p)' /\ FirstCut'
  BY <1>1 DEF Joined, Course, CutsOn, FirstCut, OnCourse
<1>. QED
  BY <1>3, <1>4, <1>5 DEF OnCourse

\* Where everything is emptied and the planner takes the machine's position the course has no length.
Nowhere == Used = 0 /\ ~Cutting /\ ~exec /\ plan = <<>> /\ plpos = pos /\ pos \in [Axes -> Int]

\* The course is then a point.
LEMMA CourseEmpty == Nowhere => OnCourse
<1>. SUFFICES ASSUME Nowhere PROVE OnCourse
  OBVIOUS
<1>. USE DEF Nowhere
<1>. DEFINE f == [i \in 0 .. 0 |-> [n |-> 0, left |-> 0, of |-> NoBlock, goal |-> pos]]
            p == [i \in 0 .. 0 |-> pos]
<1>1. NoBlock \in Blocks
  BY DEF NoBlock, Blocks, Zero
<1>2. Segments(f)
  <2>1. f \in [0 .. Used -> Pieces]
    BY <1>1 DEF Pieces
  <2>. QED
    BY <2>1 DEF Segments
<1>3. Tracing(f)
  BY DEF Tracing
<1>4. Course(p) /\ Joined(f, p)
  BY DEF Course, Joined, CutsOn
<1>. HIDE DEF f, p
<1>. QED
  BY <1>2, <1>3, <1>4 DEF OnCourse, FirstCut

\* Where there is nothing left to execute the machine has arrived.
LEMMA CourseEnds ==
  ASSUME OnCourse, Used = 0, ~exec, plan = <<>>
  PROVE  pos = plpos
<1>1. PICK f, p : Segments(f) /\ Tracing(f) /\ Joined(f, p) /\ Course(p)
  BY DEF OnCourse
<1>2. ~Cutting
  BY DEF OnCourse, FirstCut
<1>3. f[0].left = 0 /\ f[0].goal = p[0]
  BY <1>1, <1>2 DEF Joined, CutsOn
<1>4. p[0] = plpos
  BY <1>1 DEF Course
<1>. QED
  BY <1>1, <1>3, <1>4 DEF Tracing

\* Planning a move makes the course longer by it.
LEMMA CoursePlanned ==
  ASSUME OnCourse, QueueInv, McPlan
  PROVE  OnCourse'
<1>1. /\ RingInv /\ ids \in Nat /\ plan \in Seq(Blocks) /\ plpos \in [Axes -> Int]
      /\ scenario \in Scenarios
  BY DEF QueueInv, TypeOK
<1>. HIDE DEF QueueInv
<1>2. PICK m \in scenario.moves :
         /\ plan' = Append(plan, [m EXCEPT !.id = ids + 1])
         /\ plpos' = [a \in Axes |-> IF a \in m.back THEN plpos[a] - m.steps[a]
                                                      ELSE plpos[a] + m.steps[a]]
  BY DEF McPlan
<1>3. /\ UNCHANGED <<rings, prepIndex, remaining, tail, exec, execIndex, count, counter, inc, pos, blk,
                     execId, loaded, recalc>>
      /\ Cutting' = Cutting /\ Used' = Used /\ NewestIndex' = NewestIndex
      /\ \A i : At(i)' = At(i) /\ Index(i)' = Index(i)
  BY DEF McPlan, rings, prep, tracer, Cutting, Used, NewestIndex, At, Index, SlotOf
<1>. DEFINE x == [m EXCEPT !.id = ids + 1]
<1>4. Possible(x) /\ \A q : To(q, x) = [a \in Axes |-> IF a \in m.back THEN q[a] - m.steps[a]
                                                                        ELSE q[a] + m.steps[a]]
  <2>1. m \in Blocks /\ m.events # 0 /\ \A a \in Axes : m.steps[a] <= m.events
    BY <1>1, MotionAssumption
  <2>2. x \in Blocks /\ x.steps = m.steps /\ x.back = m.back /\ x.events = m.events
    <3>. ids + 1 \in Nat
      BY <1>1
    <3>1. x \in Blocks
      BY <2>1 DEF Blocks
    <3>2. x.steps = m.steps
      BY <2>1 DEF Blocks
    <3>3. x.back = m.back
      BY <2>1 DEF Blocks
    <3>4. x.events = m.events
      BY <2>1 DEF Blocks
    <3>. QED
      BY <3>1, <3>2, <3>3, <3>4
  <2>. HIDE DEF x
  <2>. QED
    BY <2>1, <2>2 DEF Possible, To
<1>. HIDE DEF x
<1>5. plan' = Append(plan, x) /\ plpos' = To(plpos, x) /\ x \in Blocks
  BY <1>2, <1>4 DEF x, Possible
<1>6. /\ Len(plan) \in Nat /\ Len(plan') = Len(plan) + 1 /\ plan'[Len(plan) + 1] = x /\ plan' # <<>>
      /\ \A i \in 1 .. Len(plan) : plan'[i] = plan[i]
  <2>1. plan \in Seq(Blocks) /\ x \in Blocks /\ plan' = Append(plan, x)
    BY <1>1, <1>5
  <2>. QED
    BY <2>1
<1>7. PICK f, p : Segments(f) /\ Tracing(f) /\ Joined(f, p) /\ Course(p)
  BY DEF OnCourse
<1>. DEFINE l == Len(plan)
<1>q. PICK q : q = [i \in 0 .. l + 1 |-> IF i = l + 1 THEN To(plpos, x) ELSE p[i]]
  OBVIOUS
<1>8. p \in [0 .. l -> [Axes -> Int]] /\ p[l] = plpos /\ l \in Nat
  BY <1>6, <1>7 DEF Course
<1>9. To(plpos, x) \in [Axes -> Int]
  <2>1. plpos' \in [Axes -> Int]
    <3>1. m \in Blocks
      BY <1>1, MotionAssumption
    <3>2. \A a \in Axes : m.steps[a] \in Int /\ plpos[a] \in Int
      BY <1>1, <3>1 DEF Blocks
    <3>. QED
      BY <1>2, <3>2
  <2>. QED
    BY <1>5, <2>1
<1>10. Course(q)'
  <2>1. q \in [0 .. Len(plan') -> [Axes -> Int]] /\ q[Len(plan')] = plpos'
    BY <1>5, <1>6, <1>8, <1>9, <1>q
  <2>2. ASSUME NEW i \in 1 .. Len(plan')
        PROVE  Possible(plan'[i]) /\ q[i] = To(q[i - 1], plan'[i])
    <3>1. CASE i = l + 1
      <4>1. i - 1 = l /\ l \in 0 .. l + 1 /\ l # l + 1 /\ i \in 0 .. l + 1
        BY <1>8, <3>1
      <4>2. q[i - 1] = plpos /\ q[i] = To(plpos, x)
        BY <1>8, <3>1, <4>1, <1>q
      <4>. QED
        BY <1>4, <1>6, <3>1, <4>2
    <3>2. CASE i \in 1 .. l
      <4>1. i \in 0 .. l + 1 /\ i - 1 \in 0 .. l + 1 /\ i # l + 1 /\ i - 1 # l + 1
        BY <1>8, <3>2
      <4>2. q[i] = p[i] /\ q[i - 1] = p[i - 1]
        BY <4>1, <1>q
      <4>. QED
        BY <1>6, <1>7, <3>2, <4>2 DEF Course
    <3>. QED
      BY <1>6, <1>8, <2>2, <3>1, <3>2
  <2>. HIDE DEF l
  <2>3. \A i \in 1 .. Len(plan') : Possible(plan'[i]) /\ q[i] = To(q[i - 1], plan'[i])
    BY <2>2
  <2>. QED
    BY <2>1, <2>3 DEF Course
<1>11. (Cutting => plan # <<>> /\ q[1] = p[1]) /\ q[0] = p[0]
  <2>1. 0 \in 0 .. l + 1 /\ 0 # l + 1
    BY <1>8
  <2>2. Cutting => 1 \in 0 .. l + 1 /\ 1 # l + 1 /\ plan # <<>>
    <3>1. Cutting => plan # <<>>
      BY DEF OnCourse, FirstCut
    <3>2. plan # <<>> => l # 0
      BY <1>1
    <3>. QED
      BY <1>8, <3>1, <3>2
  <2>. QED
    BY <2>1, <2>2, <1>q
<1>. HIDE DEF l
<1>12. Segments(f)' /\ Tracing(f)' /\ Joined(f, q)'
  <2>1. Segments(f)'
    BY <1>3, <1>7 DEF Segments, Continues
  <2>2. Tracing(f)'
    BY <1>3, <1>7 DEF Tracing
  <2>3. Joined(f, q)'
    <3>1. CutsOn' = CutsOn
      BY <1>3 DEF CutsOn
    <3>2. CASE CutsOn
      BY <1>3, <1>7, <1>11, <3>1, <3>2 DEF Joined, CutsOn
    <3>3. CASE ~CutsOn
      BY <1>3, <1>7, <1>11, <3>1, <3>3 DEF Joined
    <3>. QED
      BY <3>2, <3>3
  <2>. QED
    BY <2>1, <2>2, <2>3
<1>13. FirstCut'
  <2>1. Cutting => 1 \in 1 .. Len(plan)
    BY <1>1, <1>6, <1>11
  <2>. QED
    BY <1>3, <1>6, <2>1 DEF OnCourse, FirstCut
<1>. QED
  BY <1>10, <1>12, <1>13 DEF OnCourse

\* Loading a block takes a slot that neither a segment nor the line in progress has.
LEMMA CourseLoaded ==
  ASSUME OnCourse, QueueInv, PrepLoad, UNCHANGED plpos, "SYS_MOTION" \notin stepctl
  PROVE  OnCourse'
<1>. USE PipelineAssumption
<1>1. RingInv /\ plan \in Seq(Blocks) /\ RingType /\ InBlockOrder /\ Fresh
  BY DEF QueueInv, TypeOK, RingInv
<1>2. /\ Source = "plan" /\ plan # <<>> /\ (Loads => ~Cutting) /\ Cutting'
  BY NextToCut DEF PrepLoad, Cutting
<1>3. /\ UNCHANGED <<plan, plpos, seg, head, tail, exec, execIndex, count, counter, inc, pos>>
      /\ Used' = Used /\ \A i : SlotOf(i)' = SlotOf(i) /\ At(i)' = At(i) /\ Index(i)' = Index(i)
      /\ NewestIndex' = NewestIndex
  BY DEF PrepLoad, shared, rings, tracer, Used, At, SlotOf, Index, NewestIndex
<1>4. /\ Used \in 0 .. SegSize - 2 /\ Used \in Nat
      /\ (\A i \in 1 .. Used : Index(i) \in BlockSlots) /\ NewestIndex \in BlockSlots
  BY <1>1, UsedRange, IndexType DEF PrepLoad
<1>. HIDE DEF QueueInv, RingInv
<1>5. CASE ~Loads
  <2>1. blk' = blk /\ prepIndex' = prepIndex /\ remaining' = remaining /\ Cutting
    BY <1>5 DEF PrepLoad, Loads, Cutting
  <2>. QED
    BY <1>2, <1>3, <1>4, <2>1, CourseStays
<1>6. CASE Loads
  <2>1. /\ prepIndex' = NextBlock(prepIndex) /\ remaining' = plan[1].events /\ ~Cutting
        /\ blk' = [blk EXCEPT ![NextBlock(prepIndex)] = Traced(plan[1])]
    BY <1>2, <1>6 DEF PrepLoad, ToCut
  <2>2. NextBlock(prepIndex) \in BlockSlots /\ Behind(NextBlock(prepIndex)) = SegSize - 2
    BY <1>1, BehindRange DEF RingType
  <2>3. NewestIndex = prepIndex /\ NewestIndex # NextBlock(prepIndex)
    BY <1>1, <1>4, <2>1, BehindRange DEF InBlockOrder, RingType
  <2>4. \A i \in 1 .. Used : Index(i) # NextBlock(prepIndex)
    BY <1>1, <1>4, <2>2, <2>3, <2>1 DEF InBlockOrder, NewestIndex
  <2>5. /\ \A i \in 1 .. Used : blk'[Index(i)] = blk[Index(i)]
        /\ blk'[prepIndex'] = Traced(plan[1])
        /\ \A k \in BlockSlots : k # NextBlock(prepIndex) => blk'[k] = blk[k]
    BY <1>1, <1>4, <2>1, <2>2, <2>4 DEF RingType
  <2>6. FirstCut'
    BY <1>2, <1>3, <2>1, <2>5 DEF FirstCut
  <2>7. PICK f, p : Segments(f) /\ Tracing(f) /\ Joined(f, p) /\ Course(p)
    BY DEF OnCourse
  <2>8. Segments(f)'
    <3>. HIDE DEF Used, Index, At
    <3>. QED
      BY <1>3, <2>5, <2>7 DEF Segments, Continues
  <2>9. Joined(f, p)' /\ Course(p)'
    BY <1>3, <2>1, <2>3, <2>7 DEF Joined, CutsOn, Course
  <2>10. Tracing(f)'
    <3>1. ~exec /\ f[0].left # 0 => execIndex # NextBlock(prepIndex)
      <4>. SUFFICES ASSUME ~exec, f[0].left # 0 PROVE execIndex # NextBlock(prepIndex)
        OBVIOUS
      <4>1. CASE Used = 0
        BY <2>1, <2>7, <4>1 DEF Joined, CutsOn
      <4>2. CASE Used # 0
        <5>1. 1 \in 1 .. Used
          BY <1>4, <4>2
        <5>2. Continues(1)
          BY <2>7, <5>1 DEF Segments, Starts
        <5>. QED
          BY <2>4, <5>1, <5>2 DEF Continues
      <4>. QED
        BY <4>1, <4>2
    <3>2. execIndex \in BlockSlots
      BY <1>1 DEF RingType
    <3>. QED
      BY <1>3, <2>5, <2>7, <3>1, <3>2 DEF Tracing
  <2>. QED
    BY <2>6, <2>7, <2>8, <2>9, <2>10 DEF OnCourse
<1>. QED
  BY <1>5, <1>6

\* The events of a segment come back from its interrupts.
LEMMA EventsBack ==
  ASSUME NEW n \in Nat, NEW c \in {1, 2, 4, 8}
  PROVE  (n * c) \div c = n
<1>1. CASE c = 1
  BY <1>1
<1>2. CASE c = 2
  BY <1>2
<1>3. CASE c = 4
  BY <1>3
<1>4. CASE c = 8
  BY <1>4
<1>. QED
  BY <1>1, <1>2, <1>3, <1>4

\* The block being cut is the newest segment's, where it goes on.
LEMMA CutNewest ==
  ASSUME NEW f, Segments(f), Tracing(f), RingInv, CutsOn, f[Used].left # 0
  PROVE  Possible(f[Used].of) /\ blk[prepIndex] = Traced(f[Used].of)
<1>1. RingType /\ Used \in 0 .. SegSize - 1 /\ (exec => Used > 0)
  BY UsedRange DEF RingInv, ExecutesFirst
<1>. HIDE DEF RingInv
<1>2. CASE Used = 0
  <2>1. ~exec /\ prepIndex = execIndex
    BY <1>1, <1>2 DEF CutsOn, NewestIndex
  <2>. QED
    BY <1>2, <2>1 DEF Tracing
<1>3. CASE Used # 0
  <2>1. Used \in 1 .. Used /\ prepIndex = Index(Used)
    BY <1>1, <1>3, PipelineAssumption DEF CutsOn, NewestIndex
  <2>. QED
    BY <2>1 DEF Segments
<1>. QED
  BY <1>2, <1>3

\* Publishing a segment: the last of the ring goes on in it, or the next block of the plan begins.
LEMMA CoursePublished ==
  ASSUME OnCourse, WholeEvents, QueueInv, PrepPublish, UNCHANGED plpos, "SYS_MOTION" \notin stepctl
  PROVE  OnCourse'
<1>. USE PipelineAssumption
<1>1. /\ RingInv /\ RingType /\ Filled /\ Fresh /\ ExecutesFirst /\ plan \in Seq(Blocks)
      /\ pc = "publish" /\ loaded # "none" /\ ~recalc /\ Cutting /\ tail # nextHead
  BY DEF QueueInv, TypeOK, RingInv, Filled, Fresh, PrepPublish, Cutting
<1>. HIDE DEF QueueInv, RingInv
<1>2. PICK n \in Nat \ {0} : seg[head].n = n * Cuts(seg[head].level)
  BY <1>1 DEF WholeEvents
<1>3. /\ seg[head] \in [n : Nat, index : BlockSlots, level : 0 .. MaxLevel]
      /\ seg[head].index = prepIndex /\ remaining \in Nat /\ prepIndex \in BlockSlots
  BY <1>1 DEF RingType, Filled
<1>4. Rest = remaining - n /\ Rest \in Nat
  <2>1. Cuts(seg[head].level) \in {1, 2, 4, 8}
    BY <1>3, CutsValue
  <2>2. seg[head].n \div Cuts(seg[head].level) = n
    BY <1>2, <2>1, EventsBack
  <2>3. Rest \in Nat
    <3>1. RingInv'
      BY <1>1, PrepPublishRing
    <3>2. remaining' = Rest
      BY DEF PrepPublish
    <3>3. remaining' \in Nat
      BY <3>1 DEF RingInv, RingType
    <3>. QED
      BY <3>2, <3>3
  <2>. QED
    BY <2>2, <2>3 DEF Rest
<1>5. /\ UNCHANGED <<blk, seg, tail, prepIndex, recalc, exec, execIndex, count, counter, inc, pos>>
      /\ head' = nextHead /\ remaining' = Rest
      /\ \/ Rest > 0 /\ UNCHANGED <<plan, loaded>>
         \/ Rest = 0 /\ plan' = Tail(plan) /\ loaded' = "none"
  BY <1>4 DEF PrepPublish, tracer
<1>6. /\ Used' = Used + 1 /\ Used \in 0 .. SegSize - 2 /\ Used \in Nat
      /\ \A i \in 1 .. Used : At(i)' = At(i) /\ Index(i)' = Index(i)
      /\ At(Used)' = seg[head] /\ Index(Used)' = prepIndex
  BY <1>1, <1>3, <1>5, AfterPublish, UsedRange DEF Index
<1>7. NewestIndex' = prepIndex
  BY <1>6 DEF NewestIndex
<1>8. PICK f, p : Segments(f) /\ Tracing(f) /\ Joined(f, p) /\ Course(p)
  BY DEF OnCourse
<1>9. /\ plan # <<>> /\ blk[prepIndex] = Traced(plan[1]) /\ Len(plan) \in Nat /\ Len(plan) > 0
      /\ ~CutsOn => remaining = plan[1].events
  BY <1>1 DEF OnCourse, FirstCut, CutsOn
<1>10. Possible(plan[1]) /\ p[1] = To(p[0], plan[1]) /\ p[1] \in [Axes -> Int] /\ plan[1] \in Blocks
  <2>1. 1 \in 1 .. Len(plan) /\ 1 \in 0 .. Len(plan) /\ 1 - 1 = 0
    BY <1>9
  <2>. QED
    BY <1>8, <2>1 DEF Course, Possible
<1>11. PICK x : x = [n |-> n, left |-> Rest, of |-> IF CutsOn THEN f[Used].of ELSE plan[1],
                     goal |-> p[1]]
  OBVIOUS
<1>12. /\ Possible(x.of) /\ blk[prepIndex] = Traced(x.of) /\ x \in Pieces
       /\ IF CutsOn THEN Follows(f[Used], x) ELSE Starts(f[Used], x)
  <2>1. CASE CutsOn
    <3>1. f[Used].left = remaining /\ f[Used].goal = p[1] /\ remaining # 0
      BY <1>3, <1>4, <1>8, <2>1 DEF Joined
    <3>2. Possible(f[Used].of) /\ blk[prepIndex] = Traced(f[Used].of)
      BY <1>1, <1>8, <2>1, <3>1, CutNewest
    <3>3. x.of = f[Used].of /\ x.goal = p[1] /\ x.left = Rest /\ x.n = n
      BY <1>11, <2>1
    <3>4. x.of \in Blocks
      BY <3>2, <3>3 DEF Possible
    <3>5. x \in Pieces
      BY <1>4, <1>10, <1>11, <2>1, <3>3, <3>4 DEF Pieces
    <3>6. remaining = x.left + x.n
      BY <1>3, <1>4, <3>3
    <3>. QED
      BY <2>1, <3>1, <3>2, <3>3, <3>5, <3>6 DEF Follows
  <2>2. CASE ~CutsOn
    <3>1. f[Used].left = 0 /\ f[Used].goal = p[0] /\ remaining = plan[1].events
      BY <1>8, <1>9, <2>2 DEF Joined
    <3>2. x.of = plan[1] /\ x.goal = p[1] /\ x.left = Rest /\ x.n = n
      BY <1>11, <2>2
    <3>3. x \in Pieces
      BY <1>4, <1>10, <1>11, <2>2, <3>2 DEF Pieces
    <3>4. remaining = x.left + x.n
      BY <1>3, <1>4, <3>2
    <3>. QED
      BY <1>9, <1>10, <2>2, <3>1, <3>2, <3>3, <3>4 DEF Starts
  <2>. QED
    BY <2>1, <2>2
<1>13. PICK g : g = [i \in 0 .. Used + 1 |-> IF i = Used + 1 THEN x ELSE f[i]]
  OBVIOUS
<1>14. g[Used + 1] = x /\ \A i \in 0 .. Used : g[i] = f[i]
  BY <1>6, <1>13
<1>15. Segments(g)'
  <2>. DEFINE Goes(i) == /\ Possible(g[i].of) /\ blk'[Index(i)'] = Traced(g[i].of)
                         /\ g[i].n # 0 /\ At(i)'.n = g[i].n * Cuts(At(i)'.level)
                         /\ ~(exec' /\ i = 1) => IF Continues(i)' THEN Follows(g[i - 1], g[i])
                                                                  ELSE Starts(g[i - 1], g[i])
  <2>1. g \in [0 .. Used' -> Pieces]
    <3>1. f \in [0 .. Used -> Pieces]
      BY <1>8 DEF Segments
    <3>. QED
      BY <1>6, <1>12, <1>13, <3>1
  <2>2. ASSUME NEW i \in 1 .. Used PROVE Goes(i)
    <3>1. i \in 0 .. Used /\ i - 1 \in 0 .. Used
      BY <1>6
    <3>2. g[i] = f[i] /\ g[i - 1] = f[i - 1]
      BY <1>14, <3>1
    <3>3. Continues(i)' = Continues(i)
      <4>1. CASE i = 1
        BY <1>5, <1>6, <4>1 DEF Continues
      <4>2. CASE i # 1
        <5>1. i - 1 \in 1 .. Used
          BY <1>6, <4>2
        <5>. QED
          BY <1>6, <4>2, <5>1 DEF Continues
      <4>. QED
        BY <4>1, <4>2
    <3>. QED
      BY <1>5, <1>6, <1>8, <3>2, <3>3 DEF Segments
  <2>u. PICK u : u = Used + 1
    OBVIOUS
  <2>3. Goes(u)
    <3>1. u = Used' /\ u - 1 = Used /\ Used \in 0 .. Used
      BY <1>6, <2>u
    <3>2. Index(u)' = prepIndex /\ At(u)' = seg[head]
      BY <1>6, <3>1
    <3>3. Continues(u)' <=> CutsOn
      <4>1. CASE Used = 0
        <5>1. NewestIndex = execIndex
          BY <4>1 DEF NewestIndex
        <5>. QED
          BY <1>1, <1>5, <3>1, <3>2, <4>1, <5>1 DEF Continues, CutsOn
      <4>2. CASE Used # 0
        <5>1. NewestIndex = Index(Used) /\ Index(u - 1)' = Index(Used) /\ u # 1
          BY <1>6, <4>2, <3>1 DEF NewestIndex
        <5>. QED
          BY <1>1, <3>2, <5>1 DEF Continues, CutsOn
      <4>. QED
        BY <4>1, <4>2
    <3>4. g[u] = x /\ g[u - 1] = f[Used] /\ x.n = n
      BY <1>11, <1>14, <2>u, <3>1
    <3>. QED
      BY <1>2, <1>5, <1>12, <3>2, <3>3, <3>4
  <2>. HIDE DEF Goes
  <2>4. \A i \in 1 .. Used' : Goes(i)
    <3>1. \A i \in 1 .. Used' : i \in 1 .. Used \/ i = u
      BY <1>6, <2>u
    <3>. QED
      BY <2>2, <2>3, <3>1
  <2>. QED
    BY <2>1, <2>4 DEF Segments, Goes
<1>16. Tracing(g)'
  <2>1. g[0] = f[0] /\ (exec => g[1] = f[1])
    <3>1. 0 \in 0 .. Used /\ (exec => 1 \in 0 .. Used)
      BY <1>1, <1>6 DEF ExecutesFirst
    <3>. QED
      BY <1>14, <3>1
  <2>. QED
    BY <1>5, <1>8, <2>1 DEF Tracing, Rests
<1>17. g[Used'].left = Rest /\ g[Used'].goal = p[1]
  BY <1>6, <1>11, <1>14
<1>18. CASE Rest > 0
  <2>1. UNCHANGED <<plan, loaded>> /\ Cutting' /\ CutsOn'
    BY <1>1, <1>4, <1>5, <1>7, <1>18 DEF Cutting, CutsOn
  <2>2. Joined(g, p)'
    BY <1>5, <1>17, <2>1 DEF Joined
  <2>3. Course(p)'
    BY <1>8, <2>1 DEF Course
  <2>4. FirstCut'
    BY <1>5, <1>7, <1>9, <2>1 DEF FirstCut
  <2>. QED
    BY <1>15, <1>16, <2>2, <2>3, <2>4 DEF OnCourse
<1>19. CASE Rest = 0
  <2>1. plan' = Tail(plan) /\ ~Cutting' /\ ~CutsOn'
    BY <1>1, <1>5, <1>19 DEF Cutting, CutsOn
  <2>2. Len(plan') = Len(plan) - 1 /\ \A i \in 1 .. Len(plan) - 1 : plan'[i] = plan[i + 1]
    BY <1>1, <1>9, <2>1
  <2>3. PICK q : q = [i \in 0 .. Len(plan) - 1 |-> p[i + 1]]
    OBVIOUS
  <2>4. q[0] = p[1]
    BY <1>9, <2>3
  <2>5. Joined(g, q)'
    BY <1>17, <1>19, <2>1, <2>4 DEF Joined
  <2>6. Course(q)'
    <3>1. p \in [0 .. Len(plan) -> [Axes -> Int]] /\ p[Len(plan)] = plpos
      BY <1>8 DEF Course
    <3>2. q \in [0 .. Len(plan') -> [Axes -> Int]] /\ q[Len(plan')] = plpos'
      BY <1>9, <2>2, <2>3, <3>1
    <3>3. ASSUME NEW i \in 1 .. Len(plan')
          PROVE  Possible(plan'[i]) /\ q[i] = To(q[i - 1], plan'[i])
      <4>1. i + 1 \in 1 .. Len(plan) /\ plan'[i] = plan[i + 1] /\ (i + 1) - 1 = i
        BY <1>9, <2>2
      <4>2. q[i] = p[i + 1] /\ q[i - 1] = p[i]
        BY <1>9, <2>2, <2>3
      <4>. QED
        BY <1>8, <4>1, <4>2 DEF Course
    <3>. QED
      BY <3>2, <3>3 DEF Course
  <2>. QED
    BY <1>15, <1>16, <2>1, <2>5, <2>6 DEF OnCourse, FirstCut
<1>. QED
  BY <1>4, <1>18, <1>19

\* What an interrupt takes from the ring: the oldest segment's block, what that one adds at the
\* segment's level, and one of its interrupts.
LEMMA TickTakes ==
  ASSUME RingInv, Tick
  PROVE  /\ Used \in Nat /\ 1 \in 1 .. Used /\ seg[tail] = At(1) /\ Index(1) \in BlockSlots
         /\ At(1).level \in 0 .. MaxLevel /\ Current = blk[Index(1)]
         /\ Increments = [a \in Axes |-> Current.steps[a] \div Cuts(At(1).level)]
         /\ execIndex' = Index(1) /\ inc' = Increments /\ count' = Left /\ exec' = (Left # 0)
         /\ tail' = IF Left = 0 THEN NextSlot(tail) ELSE tail
         /\ Left = (IF exec THEN count ELSE At(1).n) - 1 /\ Left \in Nat
<1>. USE DEF RingInv
<1>1. /\ Used > 0 /\ Used \in 1 .. SegSize - 1 /\ Used \in Nat /\ SlotOf(1) = tail
      /\ At(1) = seg[tail] /\ seg[tail].index = Index(1)
  <2>1. exec \/ head # tail
    BY DEF Tick
  <2>2. Used > 0
    BY <2>1, UsedRange DEF ExecutesFirst
  <2>. QED
    BY <2>2, UsedRange DEF At, Index
<1>2. /\ Index(1) \in BlockSlots /\ Traces = Index(1) /\ Current = blk[Index(1)]
      /\ At(1) \in [n : Nat, index : BlockSlots, level : 0 .. MaxLevel]
  BY <1>1, IndexType DEF RingType, Traces, Current, ExecutesFirst
<1>3. Increments = [a \in Axes |-> Current.steps[a] \div Cuts(At(1).level)]
  BY <1>1, <1>2 DEF Increments, ExecutesFirst
<1>4. Left = (IF exec THEN count ELSE At(1).n) - 1 /\ Left \in Nat
  <2>. DEFINE n == IF exec THEN count ELSE At(1).n
  <2>1. At(1).n \in 1 .. MaxEvents
    BY <1>1 DEF Filled
  <2>2. count \in 0 .. MaxEvents /\ (exec => count > 0)
    BY DEF RingType, ExecutesFirst
  <2>3. n \in 1 .. MaxEvents
    BY <2>1, <2>2, MaxEventsType
  <2>. HIDE DEF n
  <2>4. Left = IF n = 0 THEN MaxEvents ELSE n - 1
    BY <1>1 DEF Left, n
  <2>5. Left = n - 1 /\ Left \in Nat
    BY <2>3, <2>4, MaxEventsType
  <2>. QED
    BY <2>5 DEF n
<1>. QED
  BY <1>1, <1>2, <1>3, <1>4 DEF Tick

\* An interrupt goes on along the line: of the segment it is in, of the one it begins, or of the
\* next block from the goal of the one before.
LEMMA CourseTicked ==
  ASSUME OnCourse, QueueInv, Tick, UNCHANGED plpos
  PROVE  OnCourse'
<1>. USE PipelineAssumption
<1>1. /\ RingInv /\ RingType /\ ExecutesFirst
      /\ counter \in [Axes -> Int] /\ pos \in [Axes -> Int] /\ count \in Int
  BY DEF QueueInv, RingInv, RingType
<1>. HIDE DEF QueueInv, RingInv
<1>2. /\ Used \in Nat /\ 1 \in 1 .. Used /\ seg[tail] = At(1) /\ Index(1) \in BlockSlots
      /\ At(1).level \in 0 .. MaxLevel /\ Current = blk[Index(1)]
      /\ Increments = [a \in Axes |-> Current.steps[a] \div Cuts(At(1).level)]
      /\ execIndex' = Index(1) /\ inc' = Increments /\ count' = Left /\ exec' = (Left # 0)
      /\ tail' = IF Left = 0 THEN NextSlot(tail) ELSE tail
      /\ Left = (IF exec THEN count ELSE At(1).n) - 1 /\ Left \in Nat
  BY <1>1, TickTakes
<1>3. /\ UNCHANGED <<plan, plpos, blk, seg, head, prepIndex, remaining, loaded, recalc>>
      /\ counter' = [a \in Axes |-> IF a \in Stepping THEN Sum(a) - Current.events ELSE Sum(a)]
      /\ pos' = [a \in Axes |-> IF a \notin Stepping THEN pos[a]
                                ELSE IF a \in Current.back THEN pos[a] - 1 ELSE pos[a] + 1]
  BY DEF Tick, rings, prep
<1>4. PICK f, p : Segments(f) /\ Tracing(f) /\ Joined(f, p) /\ Course(p)
  BY DEF OnCourse
<1>5. PICK s : s = f[1]
  OBVIOUS
<1>6. /\ s \in Pieces /\ Possible(s.of) /\ Current = Traced(s.of) /\ s.n # 0
      /\ At(1).n = s.n * Cuts(At(1).level)
      /\ ~exec => IF Continues(1) THEN Follows(f[0], s) ELSE Starts(f[0], s)
  <2>1. 1 \in 0 .. Used /\ 1 - 1 = 0
    BY <1>2
  <2>. QED
    BY <1>2, <1>4, <1>5, <2>1 DEF Segments
<1>7. s.n \in Nat /\ s.left \in Nat /\ s.goal \in [Axes -> Int]
  BY <1>6 DEF Pieces
<1>8. /\ Current.events = Full(s.of) /\ Current.back = s.of.back
      /\ \A a \in Axes : Current.steps[a] = Whole(s.of, a)
  BY <1>6 DEF Traced, Full, Whole
<1>9. \A a \in Axes : /\ Increments[a] \in Nat /\ Increments[a] <= Full(s.of)
                      /\ (s.n * Cuts(At(1).level)) * Increments[a] = s.n * Whole(s.of, a)
                      /\ Whole(s.of, a) \in Nat
  <2>. SUFFICES ASSUME NEW a \in Axes
                PROVE  /\ Increments[a] \in Nat /\ Increments[a] <= Full(s.of)
                       /\ (s.n * Cuts(At(1).level)) * Increments[a] = s.n * Whole(s.of, a)
                       /\ Whole(s.of, a) \in Nat
    OBVIOUS
  <2>1. /\ s.of.steps[a] \in Nat /\ s.of.events \in Nat /\ s.of.steps[a] <= s.of.events
        /\ Cuts(MaxLevel) \in {2, 4, 8}
    BY <1>6, FullType
  <2>2. Increments[a] = (s.of.steps[a] * Cuts(MaxLevel)) \div Cuts(At(1).level)
    BY <1>2, <1>8 DEF Whole
  <2>3. /\ Increments[a] \in Nat /\ Increments[a] <= s.of.events * Cuts(MaxLevel)
        /\ (s.n * Cuts(At(1).level)) * Increments[a] = s.n * (s.of.steps[a] * Cuts(MaxLevel))
    <3>1. PICK t \in Nat, e \in Nat, n \in Nat, l \in 0 .. MaxLevel :
               t = s.of.steps[a] /\ e = s.of.events /\ n = s.n /\ l = At(1).level
      BY <1>2, <1>7, <2>1
    <3>2. t <= e
      BY <2>1, <3>1
    <3>3. PICK i : i = (t * Cuts(MaxLevel)) \div Cuts(l)
      OBVIOUS
    <3>4. i \in Nat /\ i <= e * Cuts(MaxLevel) /\ (n * Cuts(l)) * i = n * (t * Cuts(MaxLevel))
      BY <3>2, <3>3, Added
    <3>5. Increments[a] = i
      BY <2>2, <3>1, <3>3
    <3>. QED
      BY <3>1, <3>4, <3>5
  <2>4. s.of.steps[a] * Cuts(MaxLevel) \in Nat
    BY <2>1
  <2>. QED
    BY <2>3, <2>4 DEF Full, Whole
<1>10. Increments \in [Axes -> Nat]
  BY <1>2, <1>9
<1>. DEFINE now == IF exec THEN count ELSE At(1).n
<1>11. PICK w : w = [a \in Axes |-> now * Increments[a] + s.left * Whole(s.of, a)]
  OBVIOUS
<1>12. PICK v : v = [a \in Axes |-> Left * Increments[a] + s.left * Whole(s.of, a)]
  OBVIOUS
<1>13. now = Left + 1
  BY <1>1, <1>2, <1>6, <1>7, CutsValue
<1>. HIDE DEF now
<1>14. w \in [Axes -> Int] /\ v \in [Axes -> Int] /\ \A a \in Axes : w[a] = v[a] + Increments[a]
  <2>. SUFFICES ASSUME NEW a \in Axes
                PROVE  w[a] \in Int /\ v[a] \in Int /\ w[a] = v[a] + Increments[a]
    BY <1>11, <1>12
  <2>1. PICK i \in Nat, k \in Nat, r \in Nat : i = Increments[a] /\ k = Left /\ r = Whole(s.of, a)
    BY <1>2, <1>9
  <2>2. (k + 1) * i = k * i + i /\ k * i \in Int /\ s.left * r \in Int
    BY <1>7, <2>1
  <2>3. w[a] = (k + 1) * i + s.left * r /\ v[a] = k * i + s.left * r
    BY <1>11, <1>12, <1>13, <2>1
  <2>. QED
    BY <1>7, <2>1, <2>2, <2>3
<1>15. OnLine(s.of, Begun, w, s.goal, pos) /\ Begun \in [Axes -> Int]
  <2>1. CASE exec
    <3>1. w = [a \in Axes |-> count * inc[a] + f[1].left * Whole(f[1].of, a)]
      BY <1>5, <1>11, <2>1 DEF now, Increments
    <3>2. Begun = counter
      BY <2>1 DEF Begun
    <3>. QED
      BY <1>1, <1>4, <1>5, <2>1, <3>1, <3>2 DEF Tracing
  <2>2. CASE ~exec /\ Continues(1)
    <3>1. Begun = counter
      BY <1>2, <2>2 DEF Begun, Begins, Continues, Index
    <3>2. f[0].left = s.left + s.n /\ f[0].goal = s.goal /\ f[0].of = s.of /\ f[0].left # 0
      <4>1. Follows(f[0], s)
        BY <1>6, <2>2
      <4>. QED
        BY <1>6, <1>7, <4>1 DEF Follows
    <3>3. OnLine(s.of, counter, Rests(f[0]), s.goal, pos)
      BY <1>4, <2>2, <3>2 DEF Tracing
    <3>4. w = Rests(f[0])
      <4>1. ASSUME NEW a \in Axes
            PROVE  now * Increments[a] + s.left * Whole(s.of, a) = (s.left + s.n) * Whole(s.of, a)
        <5>1. now * Increments[a] = s.n * Whole(s.of, a)
          BY <1>6, <1>9, <2>2 DEF now
        <5>2. PICK r \in Nat : r = Whole(s.of, a)
          BY <1>9
        <5>3. s.n * r + s.left * r = (s.left + s.n) * r
          BY <1>7
        <5>. QED
          BY <5>1, <5>2, <5>3
      <4>. QED
        BY <1>11, <3>2, <4>1 DEF Rests
    <3>. QED
      BY <1>1, <3>1, <3>3, <3>4
  <2>3. CASE ~exec /\ ~Continues(1)
    <3>1. Begun = [a \in Axes |-> Full(s.of) \div 2]
      BY <1>2, <1>8, <2>3 DEF Begun, Begins, Continues, Index
    <3>2. f[0].left = 0 /\ s.left + s.n = s.of.events /\ s.goal = To(f[0].goal, s.of)
      <4>1. Starts(f[0], s)
        BY <1>6, <2>3
      <4>. QED
        BY <4>1 DEF Starts
    <3>3. f[0].goal = pos
      BY <1>4, <2>3, <3>2 DEF Tracing
    <3>4. \A a \in Axes : w[a] = s.of.events * Whole(s.of, a)
      <4>. SUFFICES ASSUME NEW a \in Axes PROVE w[a] = s.of.events * Whole(s.of, a)
        OBVIOUS
      <4>1. now * Increments[a] = s.n * Whole(s.of, a)
        BY <1>6, <1>9, <2>3 DEF now
      <4>2. PICK r \in Nat : r = Whole(s.of, a)
        BY <1>9
      <4>3. s.n * r + s.left * r = (s.left + s.n) * r
        BY <1>7
      <4>. QED
        BY <1>11, <3>2, <4>1, <4>2, <4>3
    <3>5. OnLine(s.of, Begun, w, s.goal, pos)
      BY <1>1, <1>6, <3>1, <3>2, <3>3, <3>4, LineBegins
    <3>6. Full(s.of) \div 2 \in Int
      BY <1>6, FullType
    <3>. QED
      BY <3>1, <3>5, <3>6
  <2>. QED
    BY <2>1, <2>2, <2>3
<1>16. OnLine(s.of, counter', v, s.goal, pos')
  <2>1. ASSUME NEW a \in Axes
        PROVE  Sum(a) = Begun[a] + Increments[a] /\ (a \in Stepping <=> Begun[a] + Increments[a] > Full(s.of))
    BY <1>8 DEF Stepping, Sum, Passes
  <2>2. counter' = [a \in Axes |-> IF Begun[a] + Increments[a] > Full(s.of)
                                   THEN Begun[a] + Increments[a] - Full(s.of)
                                   ELSE Begun[a] + Increments[a]]
    <3>1. counter' = [a \in Axes |-> IF a \in Stepping THEN Sum(a) - Full(s.of) ELSE Sum(a)]
      BY <1>3, <1>8
    <3>2. ASSUME NEW a \in Axes
          PROVE  (IF a \in Stepping THEN Sum(a) - Full(s.of) ELSE Sum(a))
                 = IF Begun[a] + Increments[a] > Full(s.of)
                   THEN Begun[a] + Increments[a] - Full(s.of) ELSE Begun[a] + Increments[a]
      <4>1. Begun[a] \in Int /\ Increments[a] \in Int /\ Full(s.of) \in Int
        BY <1>6, <1>9, <1>15, FullType
      <4>2. CASE a \in Stepping
        BY <2>1, <4>1, <4>2
      <4>3. CASE a \notin Stepping
        BY <2>1, <4>1, <4>3
      <4>. QED
        BY <4>2, <4>3
    <3>. QED
      BY <3>1, <3>2, Zenon
  <2>3. pos' = [a \in Axes |-> IF ~(Begun[a] + Increments[a] > Full(s.of)) THEN pos[a]
                               ELSE IF a \in s.of.back THEN pos[a] - 1 ELSE pos[a] + 1]
    <3>1. pos' = [a \in Axes |-> IF a \notin Stepping THEN pos[a]
                                 ELSE IF a \in s.of.back THEN pos[a] - 1 ELSE pos[a] + 1]
      BY <1>3, <1>8
    <3>. QED
      BY <2>1, <3>1
  <2>4. Adds(s.of, Increments, w, v)
    BY <1>9, <1>10, <1>14 DEF Adds
  <2>. QED
    BY <1>1, <1>6, <1>7, <1>15, <2>2, <2>3, <2>4, StepsOn
<1>17. Cutting' = Cutting /\ NewestIndex' = NewestIndex /\ FirstCut' /\ Course(p)'
  <2>1. Cutting' = Cutting
    BY <1>3 DEF Cutting
  <2>2. NewestIndex' = NewestIndex
    <3>1. CASE Left # 0
      BY <1>2, <1>3, <3>1 DEF NewestIndex, Used, Index, At, SlotOf
    <3>2. CASE Left = 0
      <4>1. Used' = Used - 1 /\ \A i \in 1 .. Used - 1 : At(i)' = At(i + 1)
        BY <1>1, <1>2, <1>3, <3>2, AfterSegment
      <4>2. CASE Used = 1
        BY <1>2, <4>1, <4>2 DEF NewestIndex
      <4>3. CASE Used # 1
        <5>1. Used - 1 \in 1 .. Used - 1 /\ (Used - 1) + 1 = Used /\ Used - 1 # 0 /\ Used # 0
          BY <1>2, <4>3
        <5>. QED
          BY <4>1, <5>1 DEF NewestIndex, Index
      <4>. QED
        BY <4>2, <4>3
    <3>. QED
      BY <3>1, <3>2
  <2>3. FirstCut'
    BY <1>3, <2>1, <2>2 DEF OnCourse, FirstCut
  <2>. QED
    BY <1>3, <1>4, <2>1, <2>2, <2>3 DEF Course
<1>18. CASE Left # 0
  <2>1. exec' /\ tail' = tail /\ Used' = Used /\ \A i \in 1 .. Used : At(i)' = At(i) /\ Index(i)' = Index(i)
    BY <1>2, <1>3, <1>18 DEF Used, Index, At, SlotOf
  <2>2. Segments(f)'
    <3>1. ASSUME NEW i \in 1 .. Used, i # 1
          PROVE  Continues(i)' = Continues(i)
      <4>1. i - 1 \in 1 .. Used
        BY <1>2, <3>1
      <4>. QED
        BY <2>1, <3>1, <4>1 DEF Continues
    <3>2. ASSUME NEW i \in 1 .. Used
          PROVE  /\ Possible(f[i].of) /\ blk'[Index(i)'] = Traced(f[i].of)
                 /\ f[i].n # 0 /\ At(i)'.n = f[i].n * Cuts(At(i)'.level)
                 /\ ~(exec' /\ i = 1) => IF Continues(i)' THEN Follows(f[i - 1], f[i])
                                                          ELSE Starts(f[i - 1], f[i])
      BY <1>3, <1>4, <2>1, <3>1 DEF Segments
    <3>. QED
      BY <1>4, <2>1, <3>2 DEF Segments
  <2>3. Tracing(f)'
    BY <1>2, <1>5, <1>12, <1>16, <2>1 DEF Tracing
  <2>4. Joined(f, p)'
    BY <1>3, <1>4, <1>17, <2>1 DEF Joined, CutsOn
  <2>. QED
    BY <1>17, <2>2, <2>3, <2>4 DEF OnCourse
<1>19. CASE Left = 0
  <2>1. /\ ~exec' /\ Used' = Used - 1
        /\ \A i \in 1 .. Used - 1 : At(i)' = At(i + 1) /\ Index(i)' = Index(i + 1)
    <3>0. Used > 0
      BY <1>2
    <3>1. ~exec' /\ tail' = NextSlot(tail)
      BY <1>2, <1>19, Zenon
    <3>2. Used' = Used - 1 /\ \A i \in 1 .. Used - 1 : At(i)' = At(i + 1)
      BY <1>1, <1>3, <3>0, <3>1, AfterSegment
    <3>. QED
      BY <3>1, <3>2 DEF Index
  <2>2. PICK g : g = [i \in 0 .. Used - 1 |-> f[i + 1]]
    OBVIOUS
  <2>3. Segments(g)'
    <3>1. f \in [0 .. Used -> Pieces]
      BY <1>4 DEF Segments
    <3>2. g \in [0 .. Used' -> Pieces]
      BY <1>2, <2>1, <2>2, <3>1
    <3>3. ASSUME NEW i \in 1 .. Used'
          PROVE  /\ Possible(g[i].of) /\ blk'[Index(i)'] = Traced(g[i].of)
                 /\ g[i].n # 0 /\ At(i)'.n = g[i].n * Cuts(At(i)'.level)
                 /\ IF Continues(i)' THEN Follows(g[i - 1], g[i]) ELSE Starts(g[i - 1], g[i])
      <4>1. PICK j \in 1 .. Used : j = i + 1 /\ j # 1 /\ j - 1 = i
        BY <1>2, <2>1
      <4>2. i \in 1 .. Used - 1 /\ i \in 0 .. Used - 1 /\ i - 1 \in 0 .. Used - 1 /\ (i - 1) + 1 = i
        BY <1>2, <2>1
      <4>3. g[i] = f[j] /\ g[i - 1] = f[i]
        BY <2>2, <4>1, <4>2
      <4>4. Index(i)' = Index(j) /\ At(i)' = At(j)
        BY <2>1, <4>1, <4>2
      <4>5. Continues(i)' = Continues(j)
        <5>1. CASE i = 1
          BY <1>2, <4>1, <4>4, <5>1 DEF Continues
        <5>2. CASE i # 1
          <6>1. i - 1 \in 1 .. Used - 1
            BY <1>2, <4>2, <5>2
          <6>2. Index(i - 1)' = Index(i)
            BY <2>1, <4>2, <6>1
          <6>. QED
            BY <4>1, <4>4, <5>2, <6>2 DEF Continues
        <5>. QED
          BY <5>1, <5>2
      <4>6. /\ Possible(f[j].of) /\ blk[Index(j)] = Traced(f[j].of)
            /\ f[j].n # 0 /\ At(j).n = f[j].n * Cuts(At(j).level)
            /\ IF Continues(j) THEN Follows(f[j - 1], f[j]) ELSE Starts(f[j - 1], f[j])
        BY <1>4, <4>1 DEF Segments
      <4>. QED
        BY <1>3, <4>1, <4>3, <4>4, <4>5, <4>6
    <3>. QED
      BY <3>2, <3>3 DEF Segments
  <2>4. g[0] = s /\ g[Used'] = f[Used]
    <3>1. 0 \in 0 .. Used - 1 /\ Used - 1 \in 0 .. Used - 1 /\ 0 + 1 = 1 /\ (Used - 1) + 1 = Used
      BY <1>2
    <3>. QED
      BY <1>5, <2>1, <2>2, <3>1
  <2>5. v = Rests(s)
    <3>1. ASSUME NEW a \in Axes
          PROVE  Left * Increments[a] + s.left * Whole(s.of, a) = s.left * Whole(s.of, a)
      <4>1. Left * Increments[a] = 0 /\ s.left * Whole(s.of, a) \in Int
        BY <1>7, <1>9, <1>19
      <4>. QED
        BY <4>1
    <3>. QED
      BY <1>12, <3>1 DEF Rests
  <2>6. Tracing(g)'
    <3>1. CASE s.left = 0
      <4>1. \A a \in Axes : v[a] = 0
        BY <1>9, <2>5, <3>1 DEF Rests
      <4>2. counter' \in [Axes -> Int] /\ pos' \in [Axes -> Int]
        <5>1. RingInv'
          BY <1>1, TickRing
        <5>. QED
          BY <5>1 DEF RingInv, RingType
      <4>3. pos' = s.goal
        BY <1>6, <1>7, <1>14, <1>16, <4>1, <4>2, LineReaches
      <4>. QED
        BY <2>1, <2>4, <3>1, <4>3 DEF Tracing
    <3>2. CASE s.left # 0
      <4>1. blk'[execIndex'] = Traced(s.of)
        BY <1>2, <1>3, <1>6
      <4>2. OnLine(s.of, counter', Rests(s), s.goal, pos')
        BY <1>16, <2>5
      <4>. QED
        BY <1>6, <2>1, <2>4, <3>2, <4>1, <4>2 DEF Tracing
    <3>. QED
      BY <3>1, <3>2
  <2>7. Joined(g, p)'
    BY <1>3, <1>4, <1>17, <2>4 DEF Joined, CutsOn
  <2>. QED
    BY <1>17, <2>3, <2>6, <2>7 DEF OnCourse
<1>. QED
  BY <1>18, <1>19

\* Homing is left only with an abort, and an abort with the initialization.
LEMMA ReinitLeaves ==
  ASSUME QueueInv, InHoming \/ abort, [Next]_vars
  PROVE  InHoming' \/ abort' \/ Reinit
<1>. PullOffFails /\ Aborts /\ ret \in Returns /\ ctx \in Contexts
  BY DEF QueueInv, TypeOK
<1>. cycle = 1 => ~(cycle > Len(HomingCycles))
  BY FirstMask
<1>. HIDE DEF QueueInv
<1>. USE DEF PullOffFails, Aborts, InHoming, HomingRuns, HomingPoints,
             Busy, Returns, Contexts
<1>1. CASE PrepReturns /\ UNCHANGED own
  BY <1>1 DEF PrepReturns, shared, rings, prep, tracer, own, realtime, homing, limits
<1>2. CASE PrepLoad /\ UNCHANGED own
  BY <1>2 DEF PrepLoad, shared, tracer, own, realtime, homing, limits
<1>3. CASE PrepFill /\ UNCHANGED own
  BY <1>3 DEF PrepFill, prep, tracer, own, realtime, homing, limits
<1>4. CASE PrepPublish /\ UNCHANGED own
  BY <1>4 DEF PrepPublish, tracer, own, realtime, homing, limits
<1>5. CASE PassAlarm
  BY <1>5 DEF PassAlarm, rings, prep, tracer, homing, limits
<1>6. CASE Critical
  BY <1>6 DEF Critical, Goto, shared, rings, prep, tracer, homing, limits
<1>7. CASE PassExec
  BY <1>7 DEF PassExec, Goto, Refill, PrepThen, Unloaded, rings, tracer, homing, limits
<1>8. CASE PassStart
  BY <1>8 DEF PassStart, Goto, PrepThen, rings, prep, tracer, homing, limits
<1>9. CASE PassWake
  BY <1>9 DEF PassWake, Goto, WakeUp, rings, prep, own, realtime, homing, limits
<1>10. CASE PassStop
  BY <1>10 DEF PassStop, Goto, Refill, PrepThen, Unloaded, StepperReset, SyncPosition, rings,
       prep, tracer, homing, limits
<1>11. CASE Leave
  BY <1>11 DEF Leave, Goto, shared, rings, prep, tracer, own, realtime, homing, limits
<1>12. CASE Reinit
  BY <1>12
<1>13. CASE Idle
  BY <1>13 DEF Idle, ExecuteThen, AutoStart, rings, prep, tracer, realtime, homing, limits
<1>14. CASE IdleReturns
  BY <1>14 DEF IdleReturns, Goto, shared, rings, prep, tracer, own, realtime, homing, limits
<1>15. CASE LineEnds
  BY <1>15 DEF LineEnds, Goto, Line, rings, prep, tracer, own, realtime, homing, limits
<1>16. CASE LineMotion
  BY <1>16 DEF LineMotion, Line, ExecuteThen, shared, rings, prep, tracer, realtime, homing,
       limits
<1>17. CASE McWait
  BY <1>17 DEF McWait, Goto, Planned, AutoStart, ExecuteThen, rings, prep, tracer, realtime,
       homing, limits
<1>18. CASE McPlan
  BY <1>18 DEF McPlan, Goto, Planned, rings, prep, tracer, realtime, homing, limits
<1>19. CASE Jogged
  BY <1>19 DEF Jogged, PrepThen, Goto, rings, prep, tracer, own, realtime, homing, limits
<1>20. CASE JogWake
  BY <1>20 DEF JogWake, Goto, WakeUp, shared, rings, prep, own, realtime, homing, limits
<1>21. CASE LineProbe
  BY <1>21 DEF LineProbe, Line, AutoStart, ExecuteThen, rings, prep, tracer, realtime, homing,
       limits
<1>22. CASE ProbeSynced
  BY <1>22 DEF ProbeSynced, Goto, ExecuteThen, rings, prep, tracer, homing, limits
<1>23. CASE ProbeFailed
  BY <1>23 DEF ProbeFailed, Goto, rings, prep, tracer, own, realtime, homing, limits
<1>24. CASE ProbeStart
  BY <1>24 DEF ProbeStart, ExecuteThen, rings, prep, tracer, realtime, homing, limits
<1>25. CASE ProbeWait
  BY <1>25 DEF ProbeWait, Goto, ExecuteThen, rings, prep, tracer, homing, limits
<1>26. CASE Probed
  BY <1>26 DEF Probed, Goto, StepperReset, SyncPosition, realtime, homing, limits
<1>27. CASE LineHome
  BY <1>27 DEF LineHome, Line, Goto, rings, prep, tracer, realtime
<1>28. CASE HomeCycle
  BY <1>28 DEF HomeCycle, Goto, ExecuteThen, shared, rings, prep, tracer, realtime, homing,
       limits
<1>29. CASE HomePhase
  BY <1>29 DEF HomePhase, PrepThen, rings, prep, realtime, homing, limits
<1>30. CASE HomeWake
  BY <1>30 DEF HomeWake, Goto, WakeUp, shared, rings, prep, own, realtime, homing, limits
<1>31. CASE HomeCheck
  BY <1>31 DEF HomeCheck, PrepThen, rings, prep, tracer, own, realtime, homing, limits
<1>32. CASE HomeExit
  BY <1>32 DEF HomeExit, Goto, McReset, ExecuteThen, rings, prep, tracer, homing, limits
<1>33. CASE HomePhaseDone
  BY <1>33 DEF HomePhaseDone, Goto, StepperReset, realtime, limits
<1>34. CASE HomeFailed
  BY <1>34 DEF HomeFailed, Goto, shared, rings, prep, tracer, realtime, limits
<1>35. CASE Homed
  BY <1>35 DEF Homed, Goto, SyncPosition, Rearm, rings, prep, tracer, realtime, homing
<1>36. CASE LineArrives
  BY <1>36 DEF LineArrives, ExecuteThen, shared, rings, prep, tracer, realtime, homing, limits
<1>37. CASE Tick /\ UNCHANGED own
  BY <1>37 DEF Tick, rings, prep, own, realtime, homing, limits
<1>38. CASE TickDry /\ UNCHANGED own
  BY <1>38 DEF TickDry, rings, prep, own, realtime, homing, limits
<1>39. CASE ResetPressed
  BY <1>39 DEF ResetPressed, McReset, rings, prep, tracer, homing, limits
<1>40. CASE Command
  BY <1>40 DEF Command, rings, prep, tracer, realtime, homing, limits
<1>41. CASE LimitIsr
  BY <1>41 DEF LimitIsr, rings, prep, tracer, homing
<1>42. CASE UNCHANGED vars
  BY <1>42 DEF vars, stepperVars, shared, rings, prep, tracer, own, realtime, homing, limits
<1>. QED
  BY <1>1, <1>2, <1>3, <1>4, <1>5, <1>6, <1>7, <1>8, <1>9, <1>10, <1>11, <1>12, <1>13, <1>14,
     <1>15, <1>16, <1>17, <1>18, <1>19, <1>20, <1>21, <1>22, <1>23, <1>24, <1>25, <1>26, <1>27,
     <1>28, <1>29, <1>30, <1>31, <1>32, <1>33, <1>34, <1>35, <1>36, <1>37, <1>38, <1>39, <1>40,
     <1>41, <1>42
     DEF Next, Main, Prepare, Prep, Execute, RunLine, Probe, Homing, Timer


\* The planner's position is moved with a move, and taken from the machine's.
LEMMA PlaceKept ==
  ASSUME [Next]_vars, ~McPlan, ~Reinit, ~Probed, ~Cancels, ~Homed
  PROVE  plpos' = plpos
<1>1. CASE PrepReturns /\ UNCHANGED own
  BY <1>1 DEF PrepReturns, shared, rings, prep, tracer, own, realtime, homing, limits
<1>2. CASE PrepLoad /\ UNCHANGED own
  BY <1>2 DEF PrepLoad, shared, tracer, own, realtime, homing, limits
<1>3. CASE PrepFill /\ UNCHANGED own
  BY <1>3 DEF PrepFill, prep, tracer, own, realtime, homing, limits
<1>4. CASE PrepPublish /\ UNCHANGED own
  BY <1>4 DEF PrepPublish, tracer, own, realtime, homing, limits
<1>5. CASE PassAlarm
  BY <1>5 DEF PassAlarm, rings, prep, tracer, homing, limits
<1>6. CASE Critical
  BY <1>6 DEF Critical, Goto, shared, rings, prep, tracer, homing, limits
<1>7. CASE PassExec
  BY <1>7 DEF PassExec, Goto, Refill, PrepThen, Unloaded, rings, tracer, homing, limits
<1>8. CASE PassStart
  BY <1>8 DEF PassStart, Goto, PrepThen, rings, prep, tracer, homing, limits
<1>9. CASE PassWake
  BY <1>9 DEF PassWake, Goto, WakeUp, rings, prep, own, realtime, homing, limits
<1>10. CASE PassStop
  BY <1>10 DEF Cancels, PassStop, Goto, Refill, PrepThen, Unloaded, StepperReset, SyncPosition, rings,
       prep, tracer, homing, limits
<1>11. CASE Leave
  BY <1>11 DEF Leave, Goto, shared, rings, prep, tracer, own, realtime, homing, limits
<1>12. CASE Reinit
  BY <1>12
<1>13. CASE Idle
  BY <1>13 DEF Idle, ExecuteThen, AutoStart, rings, prep, tracer, realtime, homing, limits
<1>14. CASE IdleReturns
  BY <1>14 DEF IdleReturns, Goto, shared, rings, prep, tracer, own, realtime, homing, limits
<1>15. CASE LineEnds
  BY <1>15 DEF LineEnds, Goto, Line, rings, prep, tracer, own, realtime, homing, limits
<1>16. CASE LineMotion
  BY <1>16 DEF LineMotion, Line, ExecuteThen, shared, rings, prep, tracer, realtime, homing,
       limits
<1>17. CASE McWait
  BY <1>17 DEF McWait, Goto, Planned, AutoStart, ExecuteThen, rings, prep, tracer, realtime,
       homing, limits
<1>18. CASE McPlan
  BY <1>18
<1>19. CASE Jogged
  BY <1>19 DEF Jogged, PrepThen, Goto, rings, prep, tracer, own, realtime, homing, limits
<1>20. CASE JogWake
  BY <1>20 DEF JogWake, Goto, WakeUp, shared, rings, prep, own, realtime, homing, limits
<1>21. CASE LineProbe
  BY <1>21 DEF LineProbe, Line, AutoStart, ExecuteThen, rings, prep, tracer, realtime, homing,
       limits
<1>22. CASE ProbeSynced
  BY <1>22 DEF ProbeSynced, Goto, ExecuteThen, rings, prep, tracer, homing, limits
<1>23. CASE ProbeFailed
  BY <1>23 DEF ProbeFailed, Goto, rings, prep, tracer, own, realtime, homing, limits
<1>24. CASE ProbeStart
  BY <1>24 DEF ProbeStart, ExecuteThen, rings, prep, tracer, realtime, homing, limits
<1>25. CASE ProbeWait
  BY <1>25 DEF ProbeWait, Goto, ExecuteThen, rings, prep, tracer, homing, limits
<1>26. CASE Probed
  BY <1>26
<1>27. CASE LineHome
  BY <1>27 DEF LineHome, Line, Goto, rings, prep, tracer, realtime
<1>28. CASE HomeCycle
  BY <1>28 DEF HomeCycle, Goto, ExecuteThen, shared, rings, prep, tracer, realtime, homing,
       limits
<1>29. CASE HomePhase
  BY <1>29 DEF HomePhase, PrepThen, rings, prep, realtime, homing, limits
<1>30. CASE HomeWake
  BY <1>30 DEF HomeWake, Goto, WakeUp, shared, rings, prep, own, realtime, homing, limits
<1>31. CASE HomeCheck
  BY <1>31 DEF HomeCheck, PrepThen, rings, prep, tracer, own, realtime, homing, limits
<1>32. CASE HomeExit
  BY <1>32 DEF HomeExit, Goto, McReset, ExecuteThen, rings, prep, tracer, homing, limits
<1>33. CASE HomePhaseDone
  BY <1>33 DEF HomePhaseDone, Goto, StepperReset, realtime, limits
<1>34. CASE HomeFailed
  BY <1>34 DEF HomeFailed, Goto, shared, rings, prep, tracer, realtime, limits
<1>35. CASE Homed
  BY <1>35
<1>36. CASE LineArrives
  BY <1>36 DEF LineArrives, ExecuteThen, shared, rings, prep, tracer, realtime, homing, limits
<1>37. CASE Tick /\ UNCHANGED own
  BY <1>37 DEF Tick, rings, prep, own, realtime, homing, limits
<1>38. CASE TickDry /\ UNCHANGED own
  BY <1>38 DEF TickDry, rings, prep, own, realtime, homing, limits
<1>39. CASE ResetPressed
  BY <1>39 DEF ResetPressed, McReset, rings, prep, tracer, homing, limits
<1>40. CASE Command
  BY <1>40 DEF Command, rings, prep, tracer, realtime, homing, limits
<1>41. CASE LimitIsr
  BY <1>41 DEF LimitIsr, rings, prep, tracer, homing
<1>42. CASE UNCHANGED vars
  BY <1>42 DEF vars, stepperVars, shared, rings, prep, tracer, own, realtime, homing, limits
<1>. QED
  BY <1>1, <1>2, <1>3, <1>4, <1>5, <1>6, <1>7, <1>8, <1>9, <1>10, <1>11, <1>12, <1>13, <1>14,
     <1>15, <1>16, <1>17, <1>18, <1>19, <1>20, <1>21, <1>22, <1>23, <1>24, <1>25, <1>26, <1>27,
     <1>28, <1>29, <1>30, <1>31, <1>32, <1>33, <1>34, <1>35, <1>36, <1>37, <1>38, <1>39, <1>40,
     <1>41, <1>42
     DEF Next, Main, Prepare, Prep, Execute, RunLine, Probe, Homing, Timer


\* What empties the rings and the plan, and takes the machine's position.
LEMMA CourseFlushed ==
  ASSUME QueueInv, StepperReset, UNCHANGED pos, plan' = <<>>, plpos' = pos
  PROVE  OnCourse'
<1>1. pos \in [Axes -> Int]
  BY DEF QueueInv, TypeOK, RingType
<1>2. Nowhere'
  BY <1>1 DEF Nowhere, StepperReset, Used, Cutting
<1>3. (Nowhere => OnCourse)'
  BY CourseEmpty, PTL
<1>. QED
  BY <1>2, <1>3

\* Filling a segment, of whole events, touches none of the ring.
LEMMA CourseFilled ==
  ASSUME OnCourse, QueueInv, PrepFill, UNCHANGED plpos
  PROVE  OnCourse' /\ WholeEvents'
<1>1. RingInv /\ RingType
  BY DEF QueueInv, TypeOK, RingInv
<1>. HIDE DEF QueueInv, RingInv
<1>2. /\ UNCHANGED <<blk, head, tail, exec, execIndex, count, counter, inc, pos, prepIndex,
                     remaining, loaded, recalc, plan, ret>>
      /\ \A i \in Slots \ {head} : seg'[i] = seg[i]
  <2>1. \A i \in Slots \ {head} : seg'[i] = seg[i]
    BY <1>1 DEF PrepFill, RingType
  <2>. QED
    BY <2>1 DEF PrepFill, prep, tracer
<1>3. /\ Used' = Used /\ Used \in Nat /\ NewestIndex' = NewestIndex /\ Cutting' = Cutting
      /\ \A i \in 1 .. Used : At(i)' = At(i)
  <2>1. Used' = Used /\ \A i : SlotOf(i)' = SlotOf(i)
    BY <1>2 DEF Used, SlotOf
  <2>2. Used \in 0 .. SegSize - 1 /\ \A i \in 1 .. Used : SlotOf(i) \in Slots /\ SlotOf(i) # head
    BY <1>1, UsedRange
  <2>3. \A i \in 1 .. Used : At(i)' = At(i)
    BY <1>2, <2>1, <2>2 DEF At
  <2>4. NewestIndex' = NewestIndex
    <3>1. CASE Used = 0
      BY <1>2, <2>1, <3>1 DEF NewestIndex
    <3>2. CASE Used # 0
      <4>1. Used \in 1 .. Used
        BY <2>2, <3>2, PipelineAssumption
      <4>. QED
        BY <2>1, <2>3, <3>2, <4>1 DEF NewestIndex, Index
    <3>. QED
      BY <3>1, <3>2
  <2>. QED
    BY <1>2, <2>1, <2>2, <2>3, <2>4, PipelineAssumption DEF Cutting
<1>4. OnCourse'
  BY <1>2, <1>3, CourseStays
<1>5. WholeEvents'
  <2>1. ASSUME NEW n \in 1 .. remaining, NEW lev \in 0 .. MaxLevel,
               seg' = [seg EXCEPT ![head] =
                         [n |-> n * Cuts(lev), index |-> prepIndex, level |-> lev]]
        PROVE  \E k \in Nat \ {0} : seg'[head].n = k * Cuts(seg'[head].level)
    <3>1. seg'[head].n = n * Cuts(lev) /\ seg'[head].level = lev
      BY <1>1, <2>1 DEF RingType
    <3>2. n \in Nat \ {0}
      BY <1>1 DEF RingType
    <3>. QED
      BY <3>1, <3>2
  <2>2. pc' # "publish" \/ \E n \in 1 .. remaining, lev \in 0 .. MaxLevel :
           seg' = [seg EXCEPT ![head] =
                     [n |-> n * Cuts(lev), index |-> prepIndex, level |-> lev]]
    <3>1. ret # "publish"
      BY <1>1 DEF RingType
    <3>. QED
      BY <3>1 DEF PrepFill
  <2>. QED
    BY <1>2, <2>1, <2>2 DEF WholeEvents
<1>. QED
  BY <1>4, <1>5

\* Whatever moves neither segments nor machine nor plan keeps the course.
LEMMA CourseQuiet ==
  ASSUME OnCourse, WholeEvents, QueueInv, Quiet \/ TickDry, UNCHANGED plpos
  PROVE  OnCourse' /\ WholeEvents'
<1>1. RingType
  BY DEF QueueInv, TypeOK
<1>. HIDE DEF QueueInv
<1>2. /\ UNCHANGED <<blk, seg, head, tail, exec, execIndex, count, counter, inc, pos, prepIndex,
                     remaining, plan>>
      /\ Cutting' = Cutting /\ (pc' # "publish" \/ pc' = pc)
  <2>1. CASE Quiet
    <3>1. Cutting' = Cutting
      <4>1. recalc \in BOOLEAN
        BY <1>1 DEF RingType
      <4>2. \/ loaded' = loaded /\ recalc' = recalc
            \/ loaded' = "none" /\ recalc' = (recalc \/ loaded # "none")
        BY <2>1 DEF Quiet, Unloaded
      <4>3. CASE loaded' = loaded /\ recalc' = recalc
        BY <4>3 DEF Cutting
      <4>4. CASE loaded' = "none" /\ recalc' = (recalc \/ loaded # "none")
        BY <4>1, <4>4 DEF Cutting
      <4>. QED
        BY <4>2, <4>3, <4>4
    <3>. QED
      BY <2>1, <3>1 DEF Quiet, rings
  <2>2. CASE TickDry
    BY <2>2 DEF TickDry, Cutting, rings, prep
  <2>. QED
    BY <2>1, <2>2
<1>3. /\ Used' = Used /\ NewestIndex' = NewestIndex /\ \A i : At(i)' = At(i)
  BY <1>2 DEF Used, NewestIndex, Index, At, SlotOf
<1>4. Used \in Nat
  BY <1>1, UsedRange, PipelineAssumption
<1>5. OnCourse'
  BY <1>2, <1>3, <1>4, CourseStays
<1>. QED
  BY <1>2, <1>5 DEF WholeEvents

\* Every step keeps the course, or leaves for homing or an abort.
LEMMA ArrivesNext ==
  ASSUME QueueInv, Hopeless, ArrivesInv, [Next]_vars
  PROVE  ArrivesInv'
<1>1. CASE Reinit
  <2>1. OnCourse'
    BY <1>1, CourseFlushed DEF Reinit, SyncPosition
  <2>2. WholeEvents'
    BY <1>1 DEF Reinit, Goto, WholeEvents
  <2>. QED
    BY <2>1, <2>2 DEF ArrivesInv
<1>2. CASE ~Reinit /\ (InHoming \/ abort)
  BY <1>2, ReinitLeaves DEF ArrivesInv
<1>3. CASE ~Reinit /\ ~InHoming /\ ~abort
  <2>1. /\ OnCourse /\ WholeEvents /\ "SYS_MOTION" \notin stepctl /\ ~Homed
        /\ ~HomePhase /\ ~HomePhaseDone
    <3>1. Aborts
      BY DEF QueueInv
    <3>2. pc \notin {"homePhase", "homePhaseDone", "homed"}
      BY <1>3 DEF InHoming, HomingRuns, HomingPoints, Hopeless
    <3>. QED
      BY <1>3, <3>1, <3>2 DEF ArrivesInv, Aborts, Homed, HomePhase, HomePhaseDone
  <2>2. CASE PrepLoad /\ UNCHANGED own
    <3>1. OnCourse'
      BY <2>1, <2>2, CourseLoaded DEF own
    <3>2. WholeEvents'
      BY <2>2 DEF PrepLoad, WholeEvents
    <3>. QED
      BY <3>1, <3>2 DEF ArrivesInv
  <2>3. CASE PrepFill /\ UNCHANGED own
    BY <2>1, <2>3, CourseFilled DEF own, ArrivesInv
  <2>4. CASE PrepPublish /\ UNCHANGED own
    <3>1. OnCourse'
      BY <2>1, <2>4, CoursePublished DEF own
    <3>2. pc' # "publish"
      <4>1. ret # "publish"
        BY DEF QueueInv, TypeOK, RingType
      <4>. QED
        BY <2>4, <4>1 DEF PrepPublish
    <3>. QED
      BY <3>1, <3>2 DEF ArrivesInv, WholeEvents
  <2>5. CASE Tick /\ UNCHANGED own
    <3>1. OnCourse'
      BY <2>1, <2>5, CourseTicked DEF own
    <3>2. WholeEvents'
      BY <2>1, <2>5 DEF Tick, rings, WholeEvents
    <3>. QED
      BY <3>1, <3>2 DEF ArrivesInv
  <2>6. CASE TickDry /\ UNCHANGED own
    BY <2>1, <2>6, CourseQuiet DEF own, ArrivesInv
  <2>7. CASE McPlan
    <3>1. OnCourse'
      BY <2>1, <2>7, CoursePlanned
    <3>2. WholeEvents'
      BY <2>7 DEF McPlan, Goto, Planned, WholeEvents
    <3>. QED
      BY <3>1, <3>2 DEF ArrivesInv
  <2>8. CASE Probed
    <3>1. OnCourse'
      BY <2>8, CourseFlushed DEF Probed, SyncPosition
    <3>2. WholeEvents'
      BY <2>8 DEF Probed, Goto, WholeEvents
    <3>. QED
      BY <3>1, <3>2 DEF ArrivesInv
  <2>9. CASE Cancels
    <3>1. StepperReset /\ pos' = pos /\ plan' = <<>> /\ plpos' = pos /\ pc' = "leave"
      BY <2>9 DEF Cancels, PassStop, Goto, SyncPosition
    <3>2. OnCourse' /\ WholeEvents'
      BY <3>1, CourseFlushed DEF WholeEvents
    <3>. QED
      BY <3>2 DEF ArrivesInv
  <2>10. CASE ~Loud
    <3>1. plpos' = plpos
      <4>1. ~McPlan /\ ~Probed /\ ~Cancels
        BY <2>10 DEF Loud
      <4>. QED
        BY <1>3, <2>1, <4>1, PlaceKept
    <3>. QED
      BY <2>1, <2>10, <3>1, QuietActions, CourseQuiet DEF ArrivesInv
  <2>. QED
    BY <1>3, <2>1, <2>2, <2>3, <2>4, <2>5, <2>6, <2>7, <2>8, <2>9, <2>10 DEF Loud
<1>. QED
  BY <1>1, <1>2, <1>3

\* The machine is on its course in every state: what the counters, the segments and the plan still
\* hold leads from where it is to where the planner thinks it will be, axis by axis.
THEOREM ArrivesInvCorrect == Spec => []ArrivesInv
<1>1. Init => ArrivesInv
  <2>1. Init => Nowhere /\ WholeEvents
    BY DEF Init, StepperInit, Nowhere, WholeEvents, Used, Cutting, Zero
  <2>. QED
    BY <2>1, CourseEmpty DEF ArrivesInv
<1>2. QueueInv /\ (Rearmed /\ Hopeless) /\ ArrivesInv /\ [Next]_vars => ArrivesInv'
  BY ArrivesNext
<1>. QED
  BY <1>1, <1>2, QueueInvCorrect, RearmedCorrect, PTL DEF Spec

\* Once all is executed the machine is where the planner, and the parser, think it is: cut into
\* whatever segments and levels, held, resumed, cancelled or reset, every block made exactly its
\* steps (stepper.cpp:379, 418-473, 760-761, 1029).
THEOREM ArrivesCorrect == Spec => []ArrivesAtTarget
<1>1. QueueInv /\ ArrivesInv => ArrivesAtTarget
  <2>. SUFFICES ASSUME QueueInv, ArrivesInv, AtRest PROVE pos = plpos
    BY DEF ArrivesAtTarget
  <2>1. pc = "loop" /\ ~abort /\ plan = <<>> /\ head = tail
    BY DEF AtRest
  <2>2. OnCourse
    BY <2>1 DEF ArrivesInv, InHoming, HomingRuns, HomingPoints, Busy
  <2>3. RingType /\ ExecutesFirst
    BY DEF QueueInv, TypeOK, RingInv
  <2>4. Used = 0
    BY <2>1, <2>3, UsedRange
  <2>5. ~exec
    BY <2>3, <2>4 DEF ExecutesFirst
  <2>. QED
    BY <2>1, <2>2, <2>4, <2>5, CourseEnds
<1>. QED
  BY <1>1, QueueInvCorrect, ArrivesInvCorrect, PTL
=============================================================================
