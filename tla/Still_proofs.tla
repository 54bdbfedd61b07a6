---------------------------- MODULE Still_proofs ----------------------------
(***************************************************************************)
(* When the steppers are off, and the coolant. Whether a complete hold, an *)
(* idle machine or an alarm is at rest depends on every way in which a     *)
(* motion can end: the timer that runs dry, a pass that hears of it later, *)
(* a reset that kills it, a jog cancel that flushes it; and on none of     *)
(* their flags being dropped by the pass that was under way. ControlInv,   *)
(* StillInv and ParkedInv say so; each step preserves them.                *)
(***************************************************************************)
EXTENDS Realtime_proofs

\* Nothing runs and nothing is pending when Grbl starts.
LEMMA StillInit == Init => ControlInv /\ StillInv /\ ParkedInv
  BY DEF Init, NoRmw, At, MainPoints, Callers, ControlInv, ReturnsToCaller, StoresAsCoded,
         SoftLimitAborts, SleepFromRest, StillInv, AlarmHasReset, RunsInMotion, MotionEnds,
         CancelIsHold, ParkedIsHeld, ResetComes, ResetFound, StopClears, StopComes, Decelerating,
         CanRun, MovingStates, HoldStates, ParkedInv, RetractedIsOff, AsleepIsOff

----------------------------------------------------------------------------
(* The way of the main program.                                             *)

\* A line gets back to where it called from, a soft limit to its abort and sleep to a
\* complete hold, whatever the poll task and the interrupts flag meanwhile.
LEMMA ControlStep ==
  TypeOK /\ ResumeInv /\ ControlInv /\ [Next]_vars
    => ControlInv'
<1>. SUFFICES ASSUME TypeFlags, TypeWhere,
                     ResumeInv, ControlInv, [Next]_vars
              PROVE  ControlInv'
  BY DEF TypeOK
<1>. USE DEF TypeFlags, TypeWhere, RmwType, ResumeInv, AbortKeepsReset, MainIsNotSuspended,
     SleepIsFromLine, StoreIsFresh, At, MainPoints, Callers, BeforeStart, ControlInv,
     ReturnsToCaller, StoresAsCoded, SoftLimitAborts, SleepFromRest, HoldFlags, sysVars,
     motion, cool, where, input, history
<1>1. CASE RtAlarm
  BY <1>1 DEF RtAlarm, RmwLoad
<1>2. CASE RtCritical
  BY <1>2 DEF RtCritical
<1>3. CASE RtState
  BY <1>3 DEF RtState, Leave
<1>4. CASE RtHold
  BY <1>4 DEF RtHold, RmwLoad, HoldBits, DoorOpens
<1>5. CASE RtStart
  BY <1>5 DEF RtStart, ReadyToRun, DoorClosed, AfterStart, RmwLoad
<1>6. CASE RtWake
  BY <1>6 DEF RtWake, AfterStart, RmwLoad
<1>7. CASE RtStop
  BY <1>7 DEF RtStop, RmwLoad, HoldEnds, FlushMotion
<1>8. CASE RtOverride
  BY <1>8 DEF RtOverride, ToggleHeard, Leave
<1>9. CASE EnterSuspend
  BY <1>9 DEF EnterSuspend
<1>10. CASE SuspendBody
  BY <1>10 DEF SuspendBody, Parks, Retract, FallAsleep, ParkedAtDoor, SetCoolant
<1>11. CASE SleepLoop
  BY <1>11 DEF SleepLoop
<1>12. CASE DelayGoesOn
  BY <1>12 DEF DelayGoesOn, DelayCut
<1>13. CASE DelayEnds
  BY <1>13 DEF DelayEnds
<1>14. CASE Restored
  BY <1>14 DEF Restored, RmwLoad
<1>15. CASE LineAborted
  BY <1>15 DEF LineAborted
<1>16. CASE LineOther
  BY <1>16 DEF LineOther, Dispatch, Dispatched
<1>17. CASE LineMotion
  BY <1>17 DEF LineMotion, Dispatch, Dispatched, GcodeAllowed, Execute
<1>18. CASE LineSoftLimit
  BY <1>18 DEF LineSoftLimit, Dispatch, Dispatched, GcodeAllowed, FlagAndExecute, RmwLoad,
       McReset
<1>19. CASE LineJog
  BY <1>19 DEF LineJog, Dispatch, Dispatched, Execute
<1>20. CASE LineUnlock
  BY <1>20 DEF LineUnlock, Dispatch, Dispatched
<1>21. CASE LineCheckMode
  BY <1>21 DEF LineCheckMode, Dispatch, Dispatched, McReset, RmwLoad
<1>22. CASE LineSleep
  BY <1>22 DEF LineSleep, Dispatch, Dispatched, RmwLoad
<1>23. CASE LineCoolant
  BY <1>23 DEF LineCoolant, Dispatch, Dispatched, GcodeAllowed, AutoStart, FlagAndExecute,
       RmwLoad, Execute
<1>24. CASE LinePause
  BY <1>24 DEF LinePause, Dispatch, Dispatched, GcodeAllowed, AutoStart, FlagAndExecute,
       RmwLoad, Execute
<1>25. CASE IdleReturns
  BY <1>25 DEF IdleReturns
<1>26. CASE SoftWait
  <2>1. CASE abort
    BY <1>26, <2>1 DEF SoftWait, Execute
  <2>2. CASE ~abort /\ state # "IDLE"
    BY <1>26, <2>2 DEF SoftWait, Execute
  <2>3. CASE ~abort /\ state = "IDLE"
    BY <1>26, <2>3 DEF SoftWait, McReset, RmwLoad
  <2>. QED BY <2>1, <2>2, <2>3
<1>27. CASE SoftAlarm
  BY <1>27 DEF SoftAlarm, Execute
<1>28. CASE SoftEnd
  BY <1>28 DEF SoftEnd, Execute
<1>29. CASE PlanLine
  BY <1>29 DEF PlanLine, PlannerFull, RmwLoad
<1>30. CASE PlanWait
  BY <1>30 DEF PlanWait
<1>31. CASE JogStart
  BY <1>31 DEF JogStart
<1>32. CASE JogWake
  BY <1>32 DEF JogWake
<1>33. CASE Synchronize
  BY <1>33 DEF Synchronize, Synced, FlagAndExecute, RmwLoad, SetCoolant
<1>34. CASE FlowReturns
  BY <1>34 DEF FlowReturns
<1>35. CASE Reinit
  BY <1>35 DEF Reinit, FlushMotion
<1>36. CASE IdleStep
  BY <1>36 DEF IdleStep, AutoStart, FlagAndExecute, RmwLoad, Execute
<1>37. CASE RmwStore
  <2>1. /\ pc = "rmw" /\ flags' = (rmw.tmp \ rmw.clr) \cup rmw.set
        /\ pc' = IF "RESET" \in rmw.set THEN "kill" ELSE rmw.next
        /\ rmw' = IF "RESET" \in rmw.set THEN rmw ELSE NoRmw
        /\ UNCHANGED <<state, suspend, softLimit, abort, alarm, ctx, nest, snap>>
    BY <1>37 DEF RmwStore
  <2>2. At' = At
    BY <2>1
  <2>3. ReturnsToCaller'
    BY <2>1, <2>2
  <2>s. StoresAsCoded'
    BY <2>1, <2>2
  <2>4. SoftLimitAborts'
    BY <2>1, <2>2
  <2>5. SleepFromRest'
    BY <2>1, <2>2
  <2>. QED BY <2>s, <2>3, <2>4, <2>5
<1>38. CASE McResetKill
  <2>1. /\ pc = "kill" /\ pc' = rmw.next /\ rmw' = NoRmw
        /\ UNCHANGED <<state, suspend, softLimit, abort, flags, ctx, nest, snap>>
    BY <1>38 DEF McResetKill
  <2>2. At' = At
    BY <2>1
  <2>3. ReturnsToCaller'
    BY <2>1, <2>2
  <2>s. StoresAsCoded'
    BY <2>1, <2>2
  <2>4. SoftLimitAborts'
    BY <2>1, <2>2
  <2>5. SleepFromRest'
    BY <2>1, <2>2
  <2>. QED BY <2>s, <2>3, <2>4, <2>5
<1>39. CASE LineArrives
  BY <1>39 DEF LineArrives, Execute
<1>40. CASE PollFlag
  BY <1>40 DEF PollFlag, CharFlag, RmwLoad, Event, YieldPoints
<1>41. CASE PollReset
  BY <1>41 DEF PollReset, McReset, RmwLoad, Event, YieldPoints
<1>42. CASE PollCoolant
  BY <1>42 DEF PollCoolant, Event
<1>43. CASE PinFlag
  BY <1>43 DEF PinFlag, Event
<1>44. CASE PinReset
  BY <1>44 DEF PinReset, Event, KillAll, Kill, Moving
<1>45. CASE LimitHit
  BY <1>45 DEF LimitHit, Event, Kill, Moving
<1>46. CASE StepperIsr
  <2>1. /\ flags' = flags \/ flags' = flags \cup {"CYCLE_STOP"}
        /\ UNCHANGED <<state, suspend, softLimit, abort, alarm, ctx, nest, snap, rmw, pc>>
    BY <1>46 DEF StepperIsr
  <2>. QED BY <2>1
<1>47. CASE UNCHANGED vars
  BY <1>47 DEF vars
<1>. QED
  BY <1>1, <1>2, <1>3, <1>4, <1>5, <1>6, <1>7, <1>8, <1>9, <1>10, <1>11, <1>12, <1>13, <1>14,
     <1>15, <1>16, <1>17, <1>18, <1>19, <1>20, <1>21, <1>22, <1>23, <1>24, <1>25, <1>26, <1>27,
     <1>28, <1>29, <1>30, <1>31, <1>32, <1>33, <1>34, <1>35, <1>36, <1>37, <1>38, <1>39, <1>40,
     <1>41, <1>42, <1>43, <1>44, <1>45, <1>46, <1>47
  DEF Next, Main, ExecSystem, ExecSuspend, ExecLine, Continue, Poll, Pins

----------------------------------------------------------------------------
(* The steppers.                                                             *)

\* As long as no flag is lost, each step keeps the steppers on only where motion may be, and
\* leaves something to end a motion that is not running.
LEMMA StillStep ==
  TypeOK /\ ResumeInv /\ ControlInv /\ StillInv /\ [Next]_vars
    => StillInv'
<1>. SUFFICES ASSUME TypeSys, TypeFlags, TypeWhere, TypeMotion,
                     ResumeInv, ControlInv, StillInv, [Next]_vars
              PROVE  StillInv'
  BY DEF TypeOK
<1>. USE DEF TypeSys, TypeFlags, TypeWhere, TypeMotion, RmwType, ResumeInv, AbortKeepsReset,
     MainIsNotSuspended, SleepIsFromLine, StoreIsFresh, RestoreIsAtDoor, At, MainPoints,
     Callers, BeforeStart, ControlInv, ReturnsToCaller, StoresAsCoded, SoftLimitAborts,
     SleepFromRest, StillInv, AlarmHasReset, RunsInMotion, MotionEnds, CancelIsHold,
     ParkedIsHeld, ResetComes, ResetFound, StopClears, StopComes, Decelerating, CanRun,
     MovingStates, HoldStates, HoldFlags, sysVars, motion, cool, where, input, history
<1>1. CASE RtAlarm
  BY <1>1 DEF RtAlarm, RmwLoad
<1>2. CASE RtCritical
  BY <1>2 DEF RtCritical
<1>3. CASE RtState
  BY <1>3 DEF RtState, Leave
<1>4. CASE RtHold
  <2>1. /\ pc = "hold" /\ ~abort /\ pc' = "rmw"
        /\ rmw' = [tmp |-> flags, set |-> {}, clr |-> HoldFlags, next |-> "start"]
        /\ UNCHANGED <<softLimit, abort, flags, alarm, run, ctx, nest, snap, lost>>
    BY <1>4 DEF RtHold, RmwLoad
  <2>2. CASE state \in {"ALARM", "CHECK_MODE"}
    BY <1>4, <2>1, <2>2 DEF RtHold
  <2>3. CASE state \notin {"ALARM", "CHECK_MODE"}
    <3>. DEFINE h == HoldBits(snap)
    <3>1. /\ state' = IF "SLEEP" \in snap THEN "SLEEP" ELSE h.state
          /\ suspend' = h.suspend /\ stepctl' = h.stepctl
      BY <1>4, <2>3 DEF RtHold, HoldBits, DoorOpens
    <3>2. CASE state = "IDLE"
      <4>1. /\ h.state \in {"IDLE", "HOLD", "SAFETY_DOOR"}
            /\ "HOLD_COMPLETE" \in h.suspend /\ h.stepctl = stepctl
        BY <3>2 DEF HoldBits, DoorOpens
      <4>. HIDE DEF h
      <4>. QED BY <2>1, <3>1, <3>2, <4>1
    <3>3. CASE state # "IDLE"
      <4>1. "SLEEP" \notin snap
        BY <2>1, <2>3, <3>3
      <4>. DEFINE cancels == suspend \cap {"MOTION_CANCEL", "JOG_CANCEL"}
      <4>2. /\ state \in MovingStates => h.state \in HoldStates \cup {state}
            /\ state \in HoldStates => h.state \in HoldStates
            /\ "HOLD_COMPLETE" \in h.suspend <=> "HOLD_COMPLETE" \in suspend
            /\ h.stepctl = IF state \in MovingStates /\ cancels = {}
                           THEN {"EXECUTE_HOLD"} ELSE stepctl
        BY <3>3 DEF HoldBits, DoorOpens
      <4>3. /\ h.suspend \cap {"RETRACT_COMPLETE", "INITIATE_RESTORE"} \subseteq suspend
            /\ h.state = "SAFETY_DOOR" /\ state # "SAFETY_DOOR" => "SAFETY_DOOR_AJAR" \in h.suspend
            /\ "SAFETY_DOOR_AJAR" \in suspend => "SAFETY_DOOR_AJAR" \in h.suspend
            /\ "RESTORE_COMPLETE" \in h.suspend => "RESTORE_COMPLETE" \in suspend
        BY <3>3 DEF HoldBits, DoorOpens
      <4>. HIDE DEF h
      <4>s. state \in MovingStates \cup HoldStates
        BY <2>3, <3>3 DEF States
      <4>4. lost' = {} => AlarmHasReset'
        BY <2>1, <2>3, <3>1, <3>3, <4>s, <4>1, <4>2, <4>3
      <4>5. lost' = {} => RunsInMotion'
        BY <2>1, <2>3, <3>1, <3>3, <4>s, <4>1, <4>2, <4>3
      <4>6. lost' = {} => MotionEnds'
        BY <2>1, <2>3, <3>1, <3>3, <4>s, <4>1, <4>2, <4>3
      <4>7. lost' = {} => CancelIsHold'
        BY <2>1, <2>3, <3>1, <3>3, <4>s, <4>1, <4>2, <4>3
      <4>8. lost' = {} => ParkedIsHeld'
        BY <2>1, <2>3, <3>1, <3>3, <4>s, <4>1, <4>2, <4>3
      <4>. QED BY <4>4, <4>5, <4>6, <4>7, <4>8
    <3>. QED BY <3>2, <3>3
  <2>. QED BY <2>2, <2>3
<1>5. CASE RtStart
  BY <1>5 DEF RtStart, ReadyToRun, DoorClosed, AfterStart, RmwLoad
<1>6. CASE RtWake
  BY <1>6 DEF RtWake, AfterStart, RmwLoad
<1>7. CASE RtStop
  BY <1>7 DEF RtStop, RmwLoad, HoldEnds, FlushMotion
<1>8. CASE RtOverride
  <2>1. /\ pc = "ovr"
        /\ pc' \notin {"hold", "start", "stop", "wake", "jogwake", "rmw", "kill", "crit", "softAlarm"}
        /\ UNCHANGED <<state, suspend, softLimit, abort, flags, alarm, run, ctx, nest, rmw, lost>>
    BY <1>8 DEF RtOverride, Leave
  <2>2. stepctl \subseteq stepctl'
    BY <1>8 DEF RtOverride, PrepBuffer
  <2>4. lost' = {} => AlarmHasReset'
    BY <2>1, <2>2
  <2>5. lost' = {} => RunsInMotion'
    BY <2>1, <2>2
  <2>6. lost' = {} => MotionEnds'
    BY <2>1, <2>2
  <2>7. lost' = {} => CancelIsHold'
    BY <2>1, <2>2
  <2>8. lost' = {} => ParkedIsHeld'
    BY <2>1, <2>2
  <2>. QED BY <2>4, <2>5, <2>6, <2>7, <2>8
<1>9. CASE EnterSuspend
  BY <1>9 DEF EnterSuspend
<1>10. CASE SuspendBody
  <2>0. /\ pc \in {"body", "susp"} /\ nest = "loop"
        /\ UNCHANGED <<state, stepctl, softLimit, abort, flags, alarm, ctx, snap, rmw, lost>>
    BY <1>10 DEF SuspendBody
  <2>1. CASE nest' = "none" /\ pc' = ctx /\ UNCHANGED <<suspend, run>>
    BY <2>0, <2>1
  <2>2. CASE Parks /\ Retract
    BY <2>0, <2>2 DEF Parks, Retract
  <2>3. CASE Parks /\ FallAsleep
    BY <2>0, <2>3 DEF Parks, FallAsleep
  <2>4. CASE Parks /\ ParkedAtDoor
    BY <2>0, <2>4 DEF Parks, ParkedAtDoor
  <2>5. CASE pc' = "alarm" /\ UNCHANGED <<suspend, nest, run>>
    BY <2>0, <2>5
  <2>. QED BY <1>10, <2>1, <2>2, <2>3, <2>4, <2>5 DEF SuspendBody
<1>11. CASE SleepLoop
  BY <1>11 DEF SleepLoop
<1>12. CASE DelayGoesOn
  BY <1>12 DEF DelayGoesOn, DelayCut
<1>13. CASE DelayEnds
  BY <1>13 DEF DelayEnds
<1>14. CASE Restored
  BY <1>14 DEF Restored, RmwLoad
<1>15. CASE LineAborted
  BY <1>15 DEF LineAborted
<1>16. CASE LineOther
  BY <1>16 DEF LineOther, Dispatch, Dispatched
<1>17. CASE LineMotion
  BY <1>17 DEF LineMotion, Dispatch, Dispatched, GcodeAllowed, Execute
<1>18. CASE LineSoftLimit
  BY <1>18 DEF LineSoftLimit, Dispatch, Dispatched, GcodeAllowed, FlagAndExecute, RmwLoad,
       McReset
<1>19. CASE LineJog
  BY <1>19 DEF LineJog, Dispatch, Dispatched, Execute
<1>20. CASE LineUnlock
  BY <1>20 DEF LineUnlock, Dispatch, Dispatched
<1>21. CASE LineCheckMode
  BY <1>21 DEF LineCheckMode, Dispatch, Dispatched, McReset, RmwLoad
<1>22. CASE LineSleep
  BY <1>22 DEF LineSleep, Dispatch, Dispatched, RmwLoad
<1>23. CASE LineCoolant
  BY <1>23 DEF LineCoolant, Dispatch, Dispatched, GcodeAllowed, AutoStart, FlagAndExecute,
       RmwLoad, Execute
<1>24. CASE LinePause
  BY <1>24 DEF LinePause, Dispatch, Dispatched, GcodeAllowed, AutoStart, FlagAndExecute,
       RmwLoad, Execute
<1>25. CASE IdleReturns
  BY <1>25 DEF IdleReturns
<1>26. CASE SoftWait
  <2>1. CASE abort
    BY <1>26, <2>1 DEF SoftWait, Execute
  <2>2. CASE ~abort /\ state # "IDLE"
    BY <1>26, <2>2 DEF SoftWait, Execute
  <2>3. CASE ~abort /\ state = "IDLE"
    BY <1>26, <2>3 DEF SoftWait, McReset, RmwLoad
  <2>. QED BY <2>1, <2>2, <2>3
<1>27. CASE SoftAlarm
  BY <1>27 DEF SoftAlarm, Execute
<1>28. CASE SoftEnd
  BY <1>28 DEF SoftEnd, Execute
<1>29. CASE PlanLine
  BY <1>29 DEF PlanLine, PlannerFull, RmwLoad
<1>30. CASE PlanWait
  BY <1>30 DEF PlanWait
<1>31. CASE JogStart
  BY <1>31 DEF JogStart
<1>32. CASE JogWake
  BY <1>32 DEF JogWake
<1>33. CASE Synchronize
  BY <1>33 DEF Synchronize, Synced, FlagAndExecute, RmwLoad, SetCoolant
<1>34. CASE FlowReturns
  BY <1>34 DEF FlowReturns
<1>35. CASE Reinit
  BY <1>35 DEF Reinit, FlushMotion
<1>36. CASE IdleStep
  BY <1>36 DEF IdleStep, AutoStart, FlagAndExecute, RmwLoad, Execute
<1>37. CASE RmwStore
  <2>1. /\ pc = "rmw" /\ flags' = (rmw.tmp \ rmw.clr) \cup rmw.set
        /\ pc' = IF "RESET" \in rmw.set THEN "kill" ELSE rmw.next
        /\ rmw' = IF "RESET" \in rmw.set THEN rmw ELSE NoRmw
        /\ lost' = lost \cup (((flags \ rmw.tmp) \ rmw.set) \ rmw.clr)
        /\ UNCHANGED <<state, suspend, stepctl, softLimit, abort, alarm, run, ctx, nest, snap>>
    BY <1>37 DEF RmwStore
  <2>2. At' = At
    BY <2>1
  <2>3. lost' = {} => /\ lost = {}
                      /\ \A f \in ExecFlags :
                           f \in flags' <=> (f \in flags /\ f \notin rmw.clr) \/ f \in rmw.set
    BY <2>1
  <2>4. lost' = {} => AlarmHasReset'
    BY <2>1, <2>2, <2>3 DEF ExecFlags
  <2>5. lost' = {} => RunsInMotion'
    BY <2>1, <2>2, <2>3 DEF ExecFlags
  <2>6. lost' = {} => MotionEnds'
    BY <2>1, <2>2, <2>3 DEF ExecFlags
  <2>7. lost' = {} => CancelIsHold'
    BY <2>1, <2>2, <2>3 DEF ExecFlags
  <2>8. lost' = {} => ParkedIsHeld'
    BY <2>1, <2>2, <2>3 DEF ExecFlags
  <2>. QED BY <2>4, <2>5, <2>6, <2>7, <2>8
<1>38. CASE McResetKill
  <2>1. /\ pc = "kill" /\ pc' = rmw.next /\ rmw' = NoRmw
        /\ run' = (run /\ ~Moving) /\ alarm' = IF Moving THEN "ABORT_CYCLE" ELSE alarm
        /\ UNCHANGED <<state, suspend, stepctl, softLimit, abort, flags, ctx, nest, snap, lost>>
    BY <1>38 DEF McResetKill, KillAll, Kill
  <2>2. At' = At
    BY <2>1
  <2>4. lost' = {} => AlarmHasReset'
    BY <2>1, <2>2
  <2>5. lost' = {} => RunsInMotion'
    BY <2>1, <2>2
  <2>6. lost' = {} => MotionEnds'
    BY <2>1, <2>2
  <2>7. lost' = {} => CancelIsHold'
    BY <2>1, <2>2
  <2>8. lost' = {} => ParkedIsHeld'
    BY <2>1, <2>2
  <2>. QED BY <2>4, <2>5, <2>6, <2>7, <2>8
<1>39. CASE LineArrives
  BY <1>39 DEF LineArrives, Execute
<1>40. CASE PollFlag
  BY <1>40 DEF PollFlag, CharFlag, RmwLoad, Event, YieldPoints
<1>41. CASE PollReset
  BY <1>41 DEF PollReset, McReset, RmwLoad, Event, YieldPoints
<1>42. CASE PollCoolant
  BY <1>42 DEF PollCoolant, Event
<1>43. CASE PinFlag
  BY <1>43 DEF PinFlag, Event
<1>44. CASE PinReset
  BY <1>44 DEF PinReset, Event, KillAll, Kill, Moving
<1>45. CASE LimitHit
  BY <1>45 DEF LimitHit, Event, Kill, Moving
<1>46. CASE StepperIsr
  BY <1>46 DEF StepperIsr
<1>47. CASE UNCHANGED vars
  BY <1>47 DEF vars
<1>. QED
  BY <1>1, <1>2, <1>3, <1>4, <1>5, <1>6, <1>7, <1>8, <1>9, <1>10, <1>11, <1>12, <1>13, <1>14,
     <1>15, <1>16, <1>17, <1>18, <1>19, <1>20, <1>21, <1>22, <1>23, <1>24, <1>25, <1>26, <1>27,
     <1>28, <1>29, <1>30, <1>31, <1>32, <1>33, <1>34, <1>35, <1>36, <1>37, <1>38, <1>39, <1>40,
     <1>41, <1>42, <1>43, <1>44, <1>45, <1>46, <1>47
  DEF Next, Main, ExecSystem, ExecSuspend, ExecLine, Continue, Poll, Pins

----------------------------------------------------------------------------
(* The coolant.                                                              *)

\* Nothing but a restore turns the coolant on in a retracted machine.
LEMMA ParkedStep ==
  TypeOK /\ ResumeInv /\ ControlInv /\ StillInv /\ ParkedInv /\ [Next]_vars
    => ParkedInv'
<1>. SUFFICES ASSUME TypeSys, TypeFlags, TypeWhere, TypeCool,
                     ResumeInv, ControlInv, StillInv, ParkedInv, [Next]_vars
              PROVE  ParkedInv'
  BY DEF TypeOK
<1>. USE DEF TypeSys, TypeFlags, TypeWhere, TypeCool, RmwType, ResumeInv, AbortKeepsReset,
     MainIsNotSuspended, SleepIsFromLine, StoreIsFresh, RestoreIsAtDoor, At, MainPoints,
     Callers, BeforeStart, ControlInv, ReturnsToCaller, StoresAsCoded, SoftLimitAborts,
     SleepFromRest, ParkedInv, RetractedIsOff, AsleepIsOff, HoldFlags, sysVars, motion, cool,
     where, input, history
<1>1. CASE RtAlarm
  BY <1>1 DEF RtAlarm, RmwLoad
<1>2. CASE RtCritical
  BY <1>2 DEF RtCritical
<1>3. CASE RtState
  BY <1>3 DEF RtState, Leave
<1>4. CASE RtHold
  BY <1>4 DEF RtHold, RmwLoad, HoldBits, DoorOpens
<1>5. CASE RtStart
  BY <1>5 DEF RtStart, ReadyToRun, DoorClosed, AfterStart, RmwLoad
<1>6. CASE RtWake
  BY <1>6 DEF RtWake, AfterStart, RmwLoad
<1>7. CASE RtStop
  <2>1. /\ pc = "stop" /\ ~abort /\ UNCHANGED <<coolant, nest, flags, snap, lost>>
        /\ pc' \in {"ovr", "rmw"} /\ (pc' = "rmw" => rmw'.next = "ovr")
    BY <1>7 DEF RtStop, RmwLoad
  <2>2. "CYCLE_STOP" \in snap /\ lost = {} => state # "ALARM"
    BY <2>1 DEF StillInv, RunsInMotion, StopComes, CanRun, Decelerating, MovingStates,
         HoldStates, ResetFound
  <2>3. state = "SLEEP" => ~softLimit /\ "JOG_CANCEL" \notin suspend
    BY <2>1
  <2>4. CASE "CYCLE_STOP" \notin snap
    BY <1>7, <2>1, <2>4 DEF RtStop
  <2>5. CASE "CYCLE_STOP" \in snap /\ HoldEnds
    BY <1>7, <2>1, <2>5 DEF RtStop, RmwLoad
  <2>6. CASE "CYCLE_STOP" \in snap /\ ~HoldEnds
    BY <1>7, <2>1, <2>2, <2>3, <2>6 DEF RtStop, RmwLoad, HoldEnds
  <2>. QED BY <2>4, <2>5, <2>6
<1>8. CASE RtOverride
  <2>1. /\ pc = "ovr" /\ pc' \notin {"start", "stop", "wake", "rmw", "kill"}
        /\ UNCHANGED <<state, suspend, softLimit, abort, flags, nest, rmw, lost>>
        /\ coolant' = coolant \/ ToggleHeard
        /\ pc' \in {ctx, "suspend", "susp", "sleep", "delay"}
    BY <1>8 DEF RtOverride, Leave
  <2>2. nest = "none" /\ suspend # {} => pc' = "suspend"
    BY <1>8 DEF RtOverride, Leave
  <2>. QED BY <2>1, <2>2 DEF ToggleHeard
<1>9. CASE EnterSuspend
  BY <1>9 DEF EnterSuspend
<1>10. CASE SuspendBody
  <2>0. /\ pc \in {"body", "susp"} /\ nest = "loop"
        /\ UNCHANGED <<state, stepctl, softLimit, abort, flags, alarm, ctx, snap, rmw, lost>>
    BY <1>10 DEF SuspendBody
  <2>1. CASE (suspend = {} \/ abort) /\ nest' = "none" /\ pc' = ctx /\ UNCHANGED <<suspend, coolant>>
    BY <2>0, <2>1
  <2>2. CASE ~abort /\ Parks /\ Retract
    BY <2>0, <2>2 DEF Parks, Retract, SetCoolant
  <2>3. CASE ~abort /\ Parks /\ FallAsleep
    BY <2>0, <2>3 DEF Parks, FallAsleep, SetCoolant
  <2>4. CASE ~abort /\ Parks /\ ParkedAtDoor
    BY <2>0, <2>4 DEF Parks, ParkedAtDoor, SetCoolant
  <2>5. CASE ~abort /\ ~Parks /\ pc' = "alarm" /\ UNCHANGED <<suspend, nest, coolant>>
    BY <2>0, <2>5 DEF Parks
  <2>. QED BY <1>10, <2>1, <2>2, <2>3, <2>4, <2>5 DEF SuspendBody
<1>11. CASE SleepLoop
  BY <1>11 DEF SleepLoop
<1>12. CASE DelayGoesOn
  BY <1>12 DEF DelayGoesOn, DelayCut
<1>13. CASE DelayEnds
  BY <1>13 DEF DelayEnds
<1>14. CASE Restored
  BY <1>14 DEF Restored, RmwLoad
<1>15. CASE LineAborted
  BY <1>15 DEF LineAborted
<1>16. CASE LineOther
  BY <1>16 DEF LineOther, Dispatch, Dispatched
<1>17. CASE LineMotion
  BY <1>17 DEF LineMotion, Dispatch, Dispatched, GcodeAllowed, Execute
<1>18. CASE LineSoftLimit
  BY <1>18 DEF LineSoftLimit, Dispatch, Dispatched, GcodeAllowed, FlagAndExecute, RmwLoad,
       McReset
<1>19. CASE LineJog
  BY <1>19 DEF LineJog, Dispatch, Dispatched, Execute
<1>20. CASE LineUnlock
  BY <1>20 DEF LineUnlock, Dispatch, Dispatched
<1>21. CASE LineCheckMode
  BY <1>21 DEF LineCheckMode, Dispatch, Dispatched, McReset, RmwLoad
<1>22. CASE LineSleep
  BY <1>22 DEF LineSleep, Dispatch, Dispatched, RmwLoad
<1>23. CASE LineCoolant
  BY <1>23 DEF LineCoolant, Dispatch, Dispatched, GcodeAllowed, AutoStart, FlagAndExecute,
       RmwLoad, Execute
<1>24. CASE LinePause
  BY <1>24 DEF LinePause, Dispatch, Dispatched, GcodeAllowed, AutoStart, FlagAndExecute,
       RmwLoad, Execute
<1>25. CASE IdleReturns
  BY <1>25 DEF IdleReturns
<1>26. CASE SoftWait
  <2>1. CASE abort
    BY <1>26, <2>1 DEF SoftWait, Execute
  <2>2. CASE ~abort /\ state # "IDLE"
    BY <1>26, <2>2 DEF SoftWait, Execute
  <2>3. CASE ~abort /\ state = "IDLE"
    BY <1>26, <2>3 DEF SoftWait, McReset, RmwLoad
  <2>. QED BY <2>1, <2>2, <2>3
<1>27. CASE SoftAlarm
  BY <1>27 DEF SoftAlarm, Execute
<1>28. CASE SoftEnd
  BY <1>28 DEF SoftEnd, Execute
<1>29. CASE PlanLine
  BY <1>29 DEF PlanLine, PlannerFull, RmwLoad
<1>30. CASE PlanWait
  BY <1>30 DEF PlanWait
<1>31. CASE JogStart
  BY <1>31 DEF JogStart
<1>32. CASE JogWake
  BY <1>32 DEF JogWake
<1>33. CASE Synchronize
  BY <1>33 DEF Synchronize, Synced, FlagAndExecute, RmwLoad, SetCoolant
<1>34. CASE FlowReturns
  BY <1>34 DEF FlowReturns
<1>35. CASE Reinit
  BY <1>35 DEF Reinit, FlushMotion
<1>36. CASE IdleStep
  BY <1>36 DEF IdleStep, AutoStart, FlagAndExecute, RmwLoad, Execute
<1>37. CASE RmwStore
  BY <1>37 DEF RmwStore, NoRmw
<1>38. CASE McResetKill
  BY <1>38 DEF McResetKill, NoRmw, KillAll, Kill, Moving
<1>39. CASE LineArrives
  BY <1>39 DEF LineArrives, Execute
<1>40. CASE PollFlag
  BY <1>40 DEF PollFlag, CharFlag, RmwLoad, Event, YieldPoints
<1>41. CASE PollReset
  BY <1>41 DEF PollReset, McReset, RmwLoad, Event, YieldPoints
<1>42. CASE PollCoolant
  BY <1>42 DEF PollCoolant, Event
<1>43. CASE PinFlag
  BY <1>43 DEF PinFlag, Event
<1>44. CASE PinReset
  BY <1>44 DEF PinReset, Event, KillAll, Kill, Moving
<1>45. CASE LimitHit
  BY <1>45 DEF LimitHit, Event, Kill, Moving
<1>46. CASE StepperIsr
  BY <1>46 DEF StepperIsr
<1>47. CASE UNCHANGED vars
  BY <1>47 DEF vars
<1>. QED
  BY <1>1, <1>2, <1>3, <1>4, <1>5, <1>6, <1>7, <1>8, <1>9, <1>10, <1>11, <1>12, <1>13, <1>14,
     <1>15, <1>16, <1>17, <1>18, <1>19, <1>20, <1>21, <1>22, <1>23, <1>24, <1>25, <1>26, <1>27,
     <1>28, <1>29, <1>30, <1>31, <1>32, <1>33, <1>34, <1>35, <1>36, <1>37, <1>38, <1>39, <1>40,
     <1>41, <1>42, <1>43, <1>44, <1>45, <1>46, <1>47
  DEF Next, Main, ExecSystem, ExecSuspend, ExecLine, Continue, Poll, Pins

----------------------------------------------------------------------------
(* The theorems.                                                            *)

\* What the run safety checks as one invariant holds for all values of the constants.
THEOREM RealtimeInvCorrect == Spec => []RealtimeInv
<1>1. Init => ControlInv /\ StillInv /\ ParkedInv
  BY StillInit
<1>2. TypeOK /\ ResumeInv /\ ControlInv /\ [Next]_vars => ControlInv'
  BY ControlStep
<1>3. TypeOK /\ ResumeInv /\ ControlInv /\ StillInv /\ [Next]_vars => StillInv'
  BY StillStep
<1>4. TypeOK /\ ResumeInv /\ ControlInv /\ StillInv /\ ParkedInv /\ [Next]_vars => ParkedInv'
  BY ParkedStep
<1>5. Spec => [](ResumeInv /\ ControlInv /\ StillInv /\ ParkedInv)
  BY <1>1, <1>2, <1>3, <1>4, TypeCorrect, ResumeInvCorrect, PTL DEF Spec
<1>6. ResumeInv /\ ControlInv /\ StillInv /\ ParkedInv => RealtimeInv
  BY DEF RealtimeInv
<1>. QED BY <1>5, <1>6, PTL

\* Once sys.suspend says HOLD_COMPLETE the stepper interrupt is off.
THEOREM HeldCorrect == Spec => []HeldIsStill
<1>1. RealtimeInv => HeldIsStill
  BY DEF RealtimeInv, StillInv, RunsInMotion, CanRun, Decelerating, MovingStates, HoldStates,
         HeldIsStill
<1>. QED BY <1>1, RealtimeInvCorrect, PTL

\* No cycle stop, wake-up or reset that a motion state waits for is ever dropped.
THEOREM StrandedCorrect == Spec => []NeverStranded
<1>1. RealtimeInv => NeverStranded
  BY DEF RealtimeInv, StillInv, MotionEnds, StopComes, Decelerating, NeverStranded
<1>. QED BY <1>1, RealtimeInvCorrect, PTL

\* A line dispatched in IDLE, ALARM or check mode finds the steppers off.
THEOREM IdleCorrect == Spec => []IdleIsStill
<1>1. RealtimeInv => IdleIsStill
  BY DEF RealtimeInv, StillInv, RunsInMotion, CanRun, Decelerating, MovingStates, HoldStates,
         ResetFound, At, IdleIsStill, Dispatched
<1>. QED BY <1>1, RealtimeInvCorrect, PTL

\* De-energized is off, from the end of the retraction to the restore, and asleep.
THEOREM ParkedCorrect == Spec => []ParkedIsOff
<1>1. RealtimeInv => ParkedIsOff
  BY DEF RealtimeInv, ResumeInv, MainIsNotSuspended, At, ParkedInv, RetractedIsOff, AsleepIsOff,
         ParkedIsOff
<1>. QED BY <1>1, RealtimeInvCorrect, PTL

\* In an alarm no pass has a cycle stop left to act on, so that none unlocks the machine.
LEMMA AlarmAction ==
  RealtimeInv /\ [Next]_vars /\ lost = {} /\ state = "ALARM" /\ state' # "ALARM"
    => pc = "line" \/ state' = "SLEEP"
<1>. SUFFICES ASSUME RealtimeInv, [Next]_vars, lost = {}, state = "ALARM", state' # "ALARM"
              PROVE  pc = "line" \/ state' = "SLEEP"
  OBVIOUS
<1>1. ~StopComes \/ ResetFound
  BY DEF RealtimeInv, StillInv, RunsInMotion, CanRun, Decelerating, MovingStates, HoldStates
<1>2. CASE RtStop
  <2>1. pc = "stop" /\ ~abort /\ "CYCLE_STOP" \in snap
    BY <1>2 DEF RtStop, RealtimeInv, ResumeInv, AbortKeepsReset, At
  <2>. QED BY <1>1, <2>1 DEF StopComes, ResetFound, At
<1>3. CASE RtHold
  BY <1>3 DEF RtHold
<1>4. CASE RtStart \/ JogStart \/ RtAlarm \/ Reinit
  BY <1>4 DEF RtStart, ReadyToRun, DoorClosed, JogStart, RtAlarm, Reinit
<1>5. CASE LineUnlock \/ LineCheckMode
  BY <1>5 DEF LineUnlock, LineCheckMode, Dispatch, Dispatched
<1>6. CASE UNCHANGED state
  BY <1>6
<1>7. CASE RtCritical \/ RtState \/ RtWake \/ RtOverride \/ EnterSuspend \/ SuspendBody \/
           SleepLoop \/ DelayGoesOn \/ DelayEnds \/ Restored \/ LineAborted \/
           LineOther \/ LineMotion \/ LineSoftLimit \/ LineJog \/ LineSleep \/
           LineCoolant \/ LinePause \/ IdleReturns \/ SoftWait \/ SoftAlarm \/ SoftEnd \/
           PlanLine \/ PlanWait \/ JogWake \/ Synchronize \/ FlowReturns \/ IdleStep \/
           RmwStore \/ McResetKill \/ LineArrives \/ PollFlag \/ PollReset \/
           PollCoolant \/ PinFlag \/ PinReset \/ LimitHit \/ StepperIsr
  BY <1>6, <1>7 DEF RtCritical, RtState, RtWake, RtOverride, EnterSuspend, SuspendBody,
     SleepLoop, DelayGoesOn, DelayEnds, Restored, LineAborted, LineOther, LineMotion,
     LineSoftLimit, LineJog, LineSleep, LineCoolant, LinePause, IdleReturns, SoftWait,
     SoftAlarm, SoftEnd, PlanLine, PlanWait, JogWake, Synchronize, FlowReturns, IdleStep,
     RmwStore, McResetKill, LineArrives, PollFlag, PollReset, PollCoolant, PinFlag, PinReset,
     LimitHit, StepperIsr, sysVars
<1>. QED BY <1>2, <1>3, <1>4, <1>5, <1>6, <1>7 DEF Next, Main, ExecSystem, ExecSuspend, ExecLine,
   Continue, Poll, Pins, vars, sysVars

\* Only $X, the initialization after a reset, $C or sleep leaves an alarm.
THEOREM AlarmCorrect == Spec => AlarmLocks
<1>1. RealtimeInv /\ [Next]_vars =>
        [lost = {} /\ state = "ALARM" /\ state' # "ALARM" => pc = "line" \/ state' = "SLEEP"]_vars
  BY AlarmAction
<1>. QED BY <1>1, RealtimeInvCorrect, PTL DEF Spec, AlarmLocks
=============================================================================
