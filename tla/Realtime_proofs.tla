-------------------------- MODULE Realtime_proofs --------------------------
(***************************************************************************)
(* Type correctness of the realtime core, and that a held machine moves again *)
(* only when the user asks for it.                                          *)
(***************************************************************************)
EXTENDS Realtime, TLAPS

----------------------------------------------------------------------------
(* Type correctness.                                                        *)

\* st_prep_buffer() never overfills the segment buffer and only takes from the plan.
LEMMA PrepBufferBounds ==
  ASSUME TypeMotion, NEW c \in SUBSET StepControls, PrepBuffer(c)
  PROVE  /\ stepctl' \in SUBSET StepControls
         /\ plan' \in 0..MaxBlocks /\ plan' <= plan
         /\ segs' \in 0..MaxSegs
<1>. USE RealtimeAssumption
<1>1. MaxSegs \in Nat /\ MaxBlocks \in Nat
  BY DEF RealtimeAssumption
<1>2. CASE "END_MOTION" \in c
  BY <1>1, <1>2 DEF TypeMotion, PrepBuffer
<1>3. CASE "END_MOTION" \notin c
  <2>. DEFINE room == MaxSegs - segs
              full == IF plan < room THEN plan ELSE room
  <2>1. PICK n \in 0..full :
          /\ stepctl' = c \/ stepctl' = c \cup {"END_MOTION"}
          /\ plan' = plan - n
          /\ segs' = segs + n
    BY <1>3 DEF PrepBuffer
  <2>2. full \in Nat /\ full <= plan /\ full <= room
    BY <1>1 DEF TypeMotion
  <2>3. n \in Nat /\ n <= plan /\ n <= MaxSegs - segs
    BY <1>1, <2>1, <2>2 DEF TypeMotion
  <2>4. stepctl' \in SUBSET StepControls
    BY <2>1 DEF StepControls
  <2>5. plan' \in 0..MaxBlocks /\ plan' <= plan
    BY <1>1, <2>1, <2>3 DEF TypeMotion
  <2>6. segs' \in 0..MaxSegs
    BY <1>1, <2>1, <2>3 DEF TypeMotion
  <2>. QED BY <2>4, <2>5, <2>6
<1>. QED BY <1>2, <1>3

\* A load of the flags is well typed when what it sets and clears is.
LEMMA RmwLoadType ==
  ASSUME TypeFlags, NEW set \in SUBSET ExecFlags, NEW clr \in SUBSET ExecFlags,
         NEW next \in Points, RmwLoad(set, clr, next)
  PROVE  rmw' \in RmwType
  BY DEF TypeFlags, RmwLoad, RmwType

\* plan_reset() and st_reset() empty both buffers.
LEMMA FlushType == FlushMotion => TypeMotion'
<1>1. 0 \in 0..MaxBlocks /\ 0 \in 0..MaxSegs
  BY RealtimeAssumption DEF RealtimeAssumption
<1>2. FlushMotion => plan' \in 0..MaxBlocks /\ segs' \in 0..MaxSegs
  BY <1>1 DEF FlushMotion
<1>3. FlushMotion => run' \in BOOLEAN
  BY DEF FlushMotion
<1>. QED BY <1>2, <1>3 DEF TypeMotion

\* Every step keeps the variables in their types.
LEMMA TypeStep == TypeOK /\ [Next]_vars => TypeOK'
<1>. SUFFICES ASSUME TypeOK, [Next]_vars PROVE TypeOK'
  OBVIOUS
<1>. USE DEF TypeOK
<1>0. MaxSegs \in Nat /\ MaxBlocks \in Nat /\ MaxCmds \in Nat /\ MaxLines \in Nat
  BY RealtimeAssumption DEF RealtimeAssumption
<1>1. CASE RtAlarm
  <2>1. TypeSys'
    BY <1>1 DEF RtAlarm, TypeSys, States, sysVars
  <2>2. TypeFlags'
    BY <1>1, RmwLoadType DEF RtAlarm, TypeFlags, Alarms, ExecFlags, Points, Passes, Callers,
       YieldPoints, where, history
  <2>3. TypeWhere'
    BY <1>1 DEF RtAlarm, TypeWhere, RmwLoad, Points, Passes, Callers, YieldPoints, where
  <2>. QED BY <1>1, <2>1, <2>2, <2>3 DEF RtAlarm, TypeMotion, TypeCool, TypeInput, motion, cool,
     where, input, history
<1>2. CASE RtCritical
  <2>1. TypeFlags'
    BY <1>2 DEF RtCritical, TypeFlags, Alarms, where, history
  <2>2. TypeWhere'
    BY <1>2 DEF RtCritical, TypeWhere, Points, Passes, Callers, YieldPoints, where
  <2>. QED BY <1>2, <2>1, <2>2 DEF RtCritical, TypeSys, TypeMotion, TypeCool, TypeInput,
     sysVars, motion, cool, where, input, history
<1>3. CASE RtState
  <2>1. TypeSys'
    BY <1>3 DEF RtState, TypeSys, sysVars
  <2>2. TypeFlags'
    BY <1>3 DEF RtState, TypeFlags, Leave, ExecFlags, where, history
  <2>3. TypeWhere'
    BY <1>3 DEF RtState, TypeWhere, Leave, Points, Passes, Callers, YieldPoints, where
  <2>4. TypeInput'
    BY <1>0, <1>3 DEF RtState, TypeInput, input, history
  <2>. QED BY <1>3, <2>1, <2>2, <2>3, <2>4 DEF RtState, TypeMotion, TypeCool, motion, cool, where
<1>4. CASE RtHold
  <2>1. TypeSys'
    BY <1>4 DEF RtHold, TypeSys, HoldBits, DoorOpens, States, Suspends, StepControls, sysVars
  <2>2. TypeFlags'
    BY <1>4, RmwLoadType DEF RtHold, TypeFlags, HoldFlags, ExecFlags, Points, Passes, Callers,
       YieldPoints, where, history
  <2>3. TypeWhere'
    BY <1>4 DEF RtHold, TypeWhere, RmwLoad, Points, Passes, Callers, YieldPoints, where
  <2>. QED BY <1>4, <2>1, <2>2, <2>3 DEF RtHold, TypeMotion, TypeCool, TypeInput, motion, cool,
     where, input, history
<1>5. CASE RtStart
  <2>1. TypeSys'
    BY <1>5, PrepBufferBounds DEF RtStart, TypeSys, States, Suspends, StepControls, sysVars
  <2>2. TypeFlags'
    BY <1>5, RmwLoadType DEF RtStart, TypeFlags, AfterStart, ExecFlags, Points, Passes, Callers,
       YieldPoints, where, history
  <2>3. TypeMotion'
    BY <1>0, <1>5, PrepBufferBounds DEF RtStart, TypeMotion, StepControls, motion
  <2>4. TypeWhere'
    BY <1>5 DEF RtStart, TypeWhere, AfterStart, RmwLoad, Points, Passes, Callers, YieldPoints,
       where
  <2>. QED BY <1>5, <2>1, <2>2, <2>3, <2>4 DEF RtStart, TypeCool, TypeInput, cool, where, input,
     history
<1>6. CASE RtWake
  <2>1. TypeFlags'
    BY <1>6, RmwLoadType DEF RtWake, TypeFlags, AfterStart, ExecFlags, Points, Passes, Callers,
       YieldPoints, where, history
  <2>2. TypeMotion'
    BY <1>0, <1>6 DEF RtWake, TypeMotion, motion
  <2>3. TypeWhere'
    BY <1>6 DEF RtWake, TypeWhere, AfterStart, RmwLoad, Points, Passes, Callers, YieldPoints,
       where
  <2>. QED BY <1>6, <2>1, <2>2, <2>3 DEF RtWake, TypeSys, TypeCool, TypeInput, sysVars, cool,
     where, input, history
<1>7. CASE RtStop
  <2>1. TypeSys'
    BY <1>7 DEF RtStop, TypeSys, States, Suspends, StepControls, sysVars
  <2>2. TypeFlags'
    BY <1>7, RmwLoadType DEF RtStop, TypeFlags, ExecFlags, Points, Passes, Callers, YieldPoints,
       where, history
  <2>3. TypeMotion'
    <3>1. UNCHANGED motion \/ FlushMotion
      BY <1>7 DEF RtStop, motion
    <3>2. CASE UNCHANGED motion
      BY <3>2 DEF TypeMotion, motion
    <3>3. CASE FlushMotion
      BY <3>3, FlushType
    <3>. QED BY <3>1, <3>2, <3>3
  <2>4. TypeWhere'
    BY <1>7 DEF RtStop, TypeWhere, RmwLoad, Points, Passes, Callers, YieldPoints, where
  <2>. QED BY <1>7, <2>1, <2>2, <2>3, <2>4 DEF RtStop, TypeCool, TypeInput, cool, where, input,
     history
<1>8. CASE RtOverride
  <2>1. TypeSys'
    BY <1>8, PrepBufferBounds DEF RtOverride, TypeSys, sysVars
  <2>2. TypeFlags'
    BY <1>8 DEF RtOverride, TypeFlags, Leave, where, history
  <2>3. TypeMotion'
    BY <1>0, <1>8, PrepBufferBounds DEF RtOverride, TypeMotion, TypeSys, motion
  <2>4. TypeCool'
    BY <1>8 DEF RtOverride, TypeCool, cool, where
  <2>5. TypeWhere'
    BY <1>8 DEF RtOverride, TypeWhere, Leave, Points, Passes, Callers, YieldPoints, where
  <2>. QED BY <1>8, <2>1, <2>2, <2>3, <2>4, <2>5 DEF RtOverride, TypeInput, input, history
<1>9. CASE EnterSuspend
  <2>1. TypeCool'
    BY <1>9 DEF EnterSuspend, TypeCool, cool, where
  <2>2. TypeWhere'
    BY <1>9 DEF EnterSuspend, TypeWhere, Points, Passes, Callers, YieldPoints, where
  <2>. QED BY <1>9, <2>1, <2>2 DEF EnterSuspend, TypeSys, TypeFlags, TypeMotion, TypeInput,
     sysVars, where, history, motion, input
<1>10. CASE SuspendBody
  <2>1. TypeSys'
    BY <1>10 DEF SuspendBody, TypeSys, Retract, FallAsleep, ParkedAtDoor, Suspends, sysVars
  <2>2. TypeMotion'
    BY <1>0, <1>10 DEF SuspendBody, TypeMotion, Retract, FallAsleep, ParkedAtDoor, motion
  <2>3. TypeCool'
    BY <1>10 DEF SuspendBody, TypeCool, Retract, FallAsleep, ParkedAtDoor, SetCoolant, cool, where
  <2>4. TypeWhere'
    BY <1>10 DEF SuspendBody, TypeWhere, Retract, FallAsleep, ParkedAtDoor, Points, Passes,
       Callers, YieldPoints, where
  <2>. QED BY <1>10, <2>1, <2>2, <2>3, <2>4 DEF SuspendBody, TypeFlags, TypeInput, where,
     history, input
<1>11. CASE SleepLoop
  <2>1. TypeWhere'
    BY <1>11 DEF SleepLoop, TypeWhere, Points, Passes, Callers, YieldPoints, where
  <2>. QED BY <1>11, <2>1 DEF SleepLoop, TypeSys, TypeFlags, TypeMotion, TypeCool, TypeInput,
     sysVars, where, history, motion, cool, input
<1>12. CASE DelayGoesOn
  <2>1. TypeWhere'
    BY <1>12 DEF DelayGoesOn, TypeWhere, Points, Passes, Callers, YieldPoints, where
  <2>. QED BY <1>12, <2>1 DEF DelayGoesOn, TypeSys, TypeFlags, TypeMotion, TypeCool, TypeInput,
     sysVars, where, history, motion, cool, input
<1>13. CASE DelayEnds
  <2>1. TypeWhere'
    BY <1>13 DEF DelayEnds, TypeWhere, Points, Passes, Callers, YieldPoints, where
  <2>. QED BY <1>13, <2>1 DEF DelayEnds, TypeSys, TypeFlags, TypeMotion, TypeCool, TypeInput,
     sysVars, where, history, motion, cool, input
<1>14. CASE Restored
  <2>1. TypeSys'
    BY <1>14 DEF Restored, TypeSys, Suspends, sysVars
  <2>2. TypeFlags'
    BY <1>14, RmwLoadType DEF Restored, TypeFlags, ExecFlags, Points, Passes, Callers,
       YieldPoints, where, history
  <2>3. TypeWhere'
    BY <1>14 DEF Restored, TypeWhere, RmwLoad, Points, Passes, Callers, YieldPoints, where
  <2>. QED BY <1>14, <2>1, <2>2, <2>3 DEF Restored, TypeMotion, TypeCool, TypeInput, motion,
     cool, where, input, history
<1>15. CASE LineAborted
  <2>1. TypeWhere'
    BY <1>15 DEF LineAborted, TypeWhere, Points, Passes, Callers, YieldPoints, where
  <2>. QED BY <1>15, <2>1 DEF LineAborted, TypeSys, TypeFlags, TypeMotion, TypeCool, TypeInput,
     sysVars, where, history, motion, cool, input
<1>16. CASE LineOther
  <2>1. TypeWhere'
    BY <1>16 DEF LineOther, TypeWhere, Points, Passes, Callers, YieldPoints, where
  <2>. QED BY <1>16, <2>1 DEF LineOther, TypeSys, TypeFlags, TypeMotion, TypeCool, TypeInput,
     sysVars, where, history, motion, cool, input
<1>17. CASE LineMotion
  <2>1. TypeWhere'
    BY <1>17 DEF LineMotion, TypeWhere, Execute, Points, Passes, Callers, YieldPoints, where
  <2>. QED BY <1>17, <2>1 DEF LineMotion, TypeSys, TypeFlags, TypeMotion, TypeCool, TypeInput,
     sysVars, where, history, motion, cool, input
<1>18. CASE LineSoftLimit
  <2>1. TypeSys'
    BY <1>18 DEF LineSoftLimit, TypeSys, sysVars
  <2>2. TypeFlags'
    BY <1>18, RmwLoadType DEF LineSoftLimit, TypeFlags, FlagAndExecute, McReset, ExecFlags,
       Points, Passes, Callers, YieldPoints, where, history
  <2>3. TypeWhere'
    BY <1>18 DEF LineSoftLimit, TypeWhere, FlagAndExecute, McReset, RmwLoad, Points, Passes,
       Callers, YieldPoints, where
  <2>. QED BY <1>18, <2>1, <2>2, <2>3 DEF LineSoftLimit, TypeMotion, TypeCool, TypeInput,
     motion, cool, where, input, history
<1>19. CASE LineJog
  <2>1. TypeWhere'
    BY <1>19 DEF LineJog, TypeWhere, Execute, Points, Passes, Callers, YieldPoints, where
  <2>. QED BY <1>19, <2>1 DEF LineJog, TypeSys, TypeFlags, TypeMotion, TypeCool, TypeInput,
     sysVars, where, history, motion, cool, input
<1>20. CASE LineUnlock
  <2>1. TypeSys'
    BY <1>20 DEF LineUnlock, TypeSys, States, sysVars
  <2>2. TypeWhere'
    BY <1>20 DEF LineUnlock, TypeWhere, Points, Passes, Callers, YieldPoints, where
  <2>. QED BY <1>20, <2>1, <2>2 DEF LineUnlock, TypeFlags, TypeMotion, TypeCool, TypeInput,
     where, history, motion, cool, input
<1>21. CASE LineCheckMode
  <2>1. TypeSys'
    BY <1>21 DEF LineCheckMode, TypeSys, States, sysVars
  <2>2. TypeFlags'
    BY <1>21, RmwLoadType DEF LineCheckMode, TypeFlags, McReset, ExecFlags, Points, Passes,
       Callers, YieldPoints, where, history
  <2>3. TypeWhere'
    BY <1>21 DEF LineCheckMode, TypeWhere, McReset, RmwLoad, Points, Passes, Callers,
       YieldPoints, where
  <2>. QED BY <1>21, <2>1, <2>2, <2>3 DEF LineCheckMode, TypeMotion, TypeCool, TypeInput,
     motion, cool, where, input, history
<1>22. CASE LineSleep
  <2>1. TypeFlags'
    BY <1>22, RmwLoadType DEF LineSleep, TypeFlags, ExecFlags, Points, Passes, Callers,
       YieldPoints, where, history
  <2>2. TypeWhere'
    BY <1>22 DEF LineSleep, TypeWhere, RmwLoad, Points, Passes, Callers, YieldPoints, where
  <2>. QED BY <1>22, <2>1, <2>2 DEF LineSleep, TypeSys, TypeMotion, TypeCool, TypeInput,
     sysVars, motion, cool, where, input, history
<1>23. CASE LineCoolant
  <2>1. TypeFlags'
    BY <1>23, RmwLoadType DEF LineCoolant, TypeFlags, AutoStart, FlagAndExecute, ExecFlags,
       Points, Passes, Callers, YieldPoints, where, history
  <2>2. TypeCool'
    BY <1>23 DEF LineCoolant, TypeCool, cool, where
  <2>3. TypeWhere'
    BY <1>23 DEF LineCoolant, TypeWhere, AutoStart, FlagAndExecute, Execute, RmwLoad, Points,
       Passes, Callers, YieldPoints, where
  <2>. QED BY <1>23, <2>1, <2>2, <2>3 DEF LineCoolant, TypeSys, TypeMotion, TypeInput, sysVars,
     motion, input, history
<1>24. CASE LinePause
  <2>1. TypeFlags'
    BY <1>24, RmwLoadType DEF LinePause, TypeFlags, AutoStart, FlagAndExecute, ExecFlags,
       Points, Passes, Callers, YieldPoints, where, history
  <2>2. TypeWhere'
    BY <1>24 DEF LinePause, TypeWhere, AutoStart, FlagAndExecute, Execute, RmwLoad, Points,
       Passes, Callers, YieldPoints, where
  <2>. QED BY <1>24, <2>1, <2>2 DEF LinePause, TypeSys, TypeMotion, TypeCool, TypeInput,
     sysVars, motion, cool, where, input, history
<1>25. CASE IdleReturns
  <2>1. TypeWhere'
    BY <1>25 DEF IdleReturns, TypeWhere, Points, Passes, Callers, YieldPoints, where
  <2>. QED BY <1>25, <2>1 DEF IdleReturns, TypeSys, TypeFlags, TypeMotion, TypeCool, TypeInput,
     sysVars, where, history, motion, cool, input
<1>26. CASE SoftWait
  <2>1. TypeFlags'
    BY <1>26, RmwLoadType DEF SoftWait, TypeFlags, McReset, ExecFlags, Points, Passes, Callers,
       YieldPoints, where, history
  <2>2. TypeWhere'
    BY <1>26 DEF SoftWait, TypeWhere, Execute, McReset, RmwLoad, Points, Passes, Callers,
       YieldPoints, where
  <2>. QED BY <1>26, <2>1, <2>2 DEF SoftWait, TypeSys, TypeMotion, TypeCool, TypeInput, sysVars,
     motion, cool, where, input, history
<1>27. CASE SoftAlarm
  <2>1. TypeFlags'
    BY <1>27 DEF SoftAlarm, TypeFlags, Alarms, where, history
  <2>2. TypeWhere'
    BY <1>27 DEF SoftAlarm, TypeWhere, Execute, Points, Passes, Callers, YieldPoints, where
  <2>. QED BY <1>27, <2>1, <2>2 DEF SoftAlarm, TypeSys, TypeMotion, TypeCool, TypeInput,
     sysVars, motion, cool, where, input, history
<1>28. CASE SoftEnd
  <2>1. TypeWhere'
    BY <1>28 DEF SoftEnd, TypeWhere, Execute, Points, Passes, Callers, YieldPoints, where
  <2>. QED BY <1>28, <2>1 DEF SoftEnd, TypeSys, TypeFlags, TypeMotion, TypeCool, TypeInput,
     sysVars, where, history, motion, cool, input
<1>29. CASE PlanLine
  <2>1. TypeFlags'
    BY <1>29, RmwLoadType DEF PlanLine, TypeFlags, ExecFlags, Points, Passes, Callers,
       YieldPoints, where, history
  <2>2. TypeMotion'
    BY <1>0, <1>29 DEF PlanLine, TypeMotion, PlannerFull, motion
  <2>3. TypeWhere'
    BY <1>29 DEF PlanLine, TypeWhere, RmwLoad, Points, Passes, Callers, YieldPoints, where
  <2>. QED BY <1>29, <2>1, <2>2, <2>3 DEF PlanLine, TypeSys, TypeCool, TypeInput, sysVars, cool,
     where, input, history
<1>30. CASE PlanWait
  <2>1. TypeWhere'
    BY <1>30 DEF PlanWait, TypeWhere, Points, Passes, Callers, YieldPoints, where
  <2>. QED BY <1>30, <2>1 DEF PlanWait, TypeSys, TypeFlags, TypeMotion, TypeCool, TypeInput,
     sysVars, where, history, motion, cool, input
<1>31. CASE JogStart
  <2>1. TypeSys'
    BY <1>31, PrepBufferBounds DEF JogStart, TypeSys, States, sysVars
  <2>2. TypeMotion'
    BY <1>0, <1>31, PrepBufferBounds DEF JogStart, TypeMotion, TypeSys, motion
  <2>3. TypeWhere'
    BY <1>31 DEF JogStart, TypeWhere, Points, Passes, Callers, YieldPoints, where
  <2>. QED BY <1>31, <2>1, <2>2, <2>3 DEF JogStart, TypeFlags, TypeCool, TypeInput, where,
     history, cool, input
<1>32. CASE JogWake
  <2>1. TypeMotion'
    BY <1>0, <1>32 DEF JogWake, TypeMotion, motion
  <2>2. TypeWhere'
    BY <1>32 DEF JogWake, TypeWhere, Points, Passes, Callers, YieldPoints, where
  <2>. QED BY <1>32, <2>1, <2>2 DEF JogWake, TypeSys, TypeFlags, TypeCool, TypeInput, sysVars,
     where, history, cool, input
<1>33. CASE Synchronize
  <2>1. TypeFlags'
    BY <1>33, RmwLoadType DEF Synchronize, TypeFlags, Synced, FlagAndExecute, ExecFlags, Points,
       Passes, Callers, YieldPoints, where, history
  <2>2. TypeCool'
    BY <1>33 DEF Synchronize, TypeCool, Synced, SetCoolant, cool, where
  <2>3. TypeWhere'
    BY <1>33 DEF Synchronize, TypeWhere, Synced, FlagAndExecute, RmwLoad, Points, Passes,
       Callers, YieldPoints, where
  <2>. QED BY <1>33, <2>1, <2>2, <2>3 DEF Synchronize, TypeSys, TypeMotion, TypeInput, sysVars,
     motion, input, history
<1>34. CASE FlowReturns
  <2>1. TypeWhere'
    BY <1>34 DEF FlowReturns, TypeWhere, Points, Passes, Callers, YieldPoints, where
  <2>. QED BY <1>34, <2>1 DEF FlowReturns, TypeSys, TypeFlags, TypeMotion, TypeCool, TypeInput,
     sysVars, where, history, motion, cool, input
<1>35. CASE Reinit
  <2>1. TypeSys'
    BY <1>35 DEF Reinit, TypeSys, States, Suspends, StepControls, sysVars
  <2>2. TypeFlags'
    BY <1>35 DEF Reinit, TypeFlags, Alarms, ExecFlags, where, history
  <2>3. TypeMotion'
    BY <1>35, FlushType DEF Reinit
  <2>4. TypeCool'
    BY <1>35 DEF Reinit, TypeCool, cool, where
  <2>5. TypeWhere'
    BY <1>35 DEF Reinit, TypeWhere, Points, Passes, Callers, YieldPoints, where
  <2>6. TypeInput'
    BY <1>0, <1>35 DEF Reinit, TypeInput, input, history
  <2>. QED BY <2>1, <2>2, <2>3, <2>4, <2>5, <2>6
<1>36. CASE IdleStep
  <2>1. TypeFlags'
    BY <1>36, RmwLoadType DEF IdleStep, TypeFlags, AutoStart, FlagAndExecute, ExecFlags, Points,
       Passes, Callers, YieldPoints, where, history
  <2>2. TypeWhere'
    BY <1>36 DEF IdleStep, TypeWhere, AutoStart, FlagAndExecute, Execute, RmwLoad, Points,
       Passes, Callers, YieldPoints, where
  <2>. QED BY <1>36, <2>1, <2>2 DEF IdleStep, TypeSys, TypeMotion, TypeCool, TypeInput, sysVars,
     motion, cool, where, input, history
<1>37. CASE RmwStore
  <2>1. TypeFlags'
    <3>1. flags' \in SUBSET ExecFlags /\ lost' \in SUBSET ExecFlags
      BY <1>37 DEF RmwStore, TypeFlags, RmwType
    <3>2. NoRmw \in RmwType
      BY DEF NoRmw, RmwType, Points
    <3>3. rmw' \in RmwType
      BY <1>37, <3>2 DEF RmwStore, TypeFlags
    <3>. QED BY <1>37, <3>1, <3>3 DEF RmwStore, TypeFlags
  <2>2. TypeWhere'
    BY <1>37 DEF RmwStore, TypeWhere, TypeFlags, RmwType, Points, where
  <2>. QED BY <1>37, <2>1, <2>2 DEF RmwStore, TypeSys, TypeMotion, TypeCool, TypeInput, sysVars,
     motion, cool, where, input, history
<1>38. CASE McResetKill
  <2>1. TypeFlags'
    BY <1>38 DEF McResetKill, TypeFlags, KillAll, Alarms, NoRmw, RmwType, ExecFlags, Points,
       where, history
  <2>2. TypeMotion'
    BY <1>0, <1>38 DEF McResetKill, TypeMotion, KillAll, Kill, motion
  <2>3. TypeCool'
    BY <1>38 DEF McResetKill, TypeCool, KillAll, Kill, cool, where
  <2>4. TypeWhere'
    BY <1>38 DEF McResetKill, TypeWhere, TypeFlags, RmwType, where
  <2>5. TypeInput'
    BY <1>0, <1>38 DEF McResetKill, TypeInput, KillAll, Kill, input, history
  <2>. QED BY <1>38, <2>1, <2>2, <2>3, <2>4, <2>5 DEF McResetKill, TypeSys, sysVars
<1>39. CASE LineArrives
  <2>1. TypeWhere'
    BY <1>39 DEF LineArrives, TypeWhere, Execute, Points, Passes, Callers, YieldPoints, where
  <2>2. TypeInput'
    BY <1>0, <1>39 DEF LineArrives, TypeInput, input, history
  <2>. QED BY <1>39, <2>1, <2>2 DEF LineArrives, TypeSys, TypeFlags, TypeMotion, TypeCool,
     sysVars, where, history, motion, cool
<1>40. CASE PollFlag
  <2>1. TypeFlags'
    BY <1>40, RmwLoadType DEF PollFlag, TypeFlags, CharFlag, ExecFlags, Points, Passes, Callers,
       YieldPoints, where, history
  <2>2. TypeWhere'
    BY <1>40 DEF PollFlag, TypeWhere, RmwLoad, Points, Passes, Callers, YieldPoints, where
  <2>3. TypeInput'
    BY <1>0, <1>40 DEF PollFlag, TypeInput, Event, input, history
  <2>. QED BY <1>40, <2>1, <2>2, <2>3 DEF PollFlag, TypeSys, TypeMotion, TypeCool, sysVars,
     motion, cool, where
<1>41. CASE PollReset
  <2>1. TypeFlags'
    BY <1>41, RmwLoadType DEF PollReset, TypeFlags, McReset, ExecFlags, Points, Passes, Callers,
       YieldPoints, where, history
  <2>2. TypeWhere'
    BY <1>41 DEF PollReset, TypeWhere, McReset, RmwLoad, Points, Passes, Callers, YieldPoints,
       where
  <2>3. TypeInput'
    BY <1>0, <1>41 DEF PollReset, TypeInput, Event, input, history
  <2>. QED BY <1>41, <2>1, <2>2, <2>3 DEF PollReset, TypeSys, TypeMotion, TypeCool, sysVars,
     motion, cool, where
<1>42. CASE PollCoolant
  <2>1. TypeCool'
    BY <1>42 DEF PollCoolant, TypeCool, cool, where
  <2>2. TypeInput'
    BY <1>0, <1>42 DEF PollCoolant, TypeInput, Event, input, history
  <2>. QED BY <1>42, <2>1, <2>2 DEF PollCoolant, TypeSys, TypeFlags, TypeMotion, TypeWhere,
     sysVars, where, history, motion
<1>43. CASE PinFlag
  <2>1. TypeFlags'
    BY <1>43 DEF PinFlag, TypeFlags, ExecFlags, where, history
  <2>2. TypeInput'
    <3>1. cmds' \in 0..MaxCmds
      BY <1>0, <1>43 DEF PinFlag, Event, TypeInput
    <3>2. userStart' \in BOOLEAN
      BY <1>43 DEF PinFlag, TypeInput
    <3>. QED BY <1>43, <3>1, <3>2 DEF PinFlag, TypeInput
  <2>. QED BY <1>43, <2>1, <2>2 DEF PinFlag, TypeSys, TypeMotion, TypeCool, TypeWhere, sysVars,
     motion, cool, where
<1>44. CASE PinReset
  <2>1. TypeFlags'
    BY <1>44 DEF PinReset, TypeFlags, KillAll, ExecFlags, Alarms, where, history
  <2>2. TypeMotion'
    BY <1>0, <1>44 DEF PinReset, TypeMotion, KillAll, Kill, motion
  <2>3. TypeCool'
    BY <1>44 DEF PinReset, TypeCool, KillAll, Kill, cool, where
  <2>4. TypeInput'
    BY <1>0, <1>44 DEF PinReset, TypeInput, KillAll, Kill, Event, input, history
  <2>. QED BY <1>44, <2>1, <2>2, <2>3, <2>4 DEF PinReset, TypeSys, TypeWhere, sysVars, where
<1>45. CASE LimitHit
  <2>1. TypeFlags'
    BY <1>45 DEF LimitHit, TypeFlags, ExecFlags, Alarms, where, history
  <2>2. TypeMotion'
    BY <1>0, <1>45 DEF LimitHit, TypeMotion, Kill, motion
  <2>3. TypeCool'
    BY <1>45 DEF LimitHit, TypeCool, Kill, cool, where
  <2>4. TypeInput'
    <3>1. cmds' \in 0..MaxCmds
      BY <1>0, <1>45 DEF LimitHit, Event, TypeInput
    <3>2. killed' \in BOOLEAN
      BY <1>45 DEF LimitHit, Kill, TypeInput
    <3>. QED BY <1>45, <3>1, <3>2 DEF LimitHit, TypeInput
  <2>. QED BY <1>45, <2>1, <2>2, <2>3, <2>4 DEF LimitHit, TypeSys, TypeWhere, sysVars, where
<1>46. CASE StepperIsr
  <2>1. TypeFlags'
    BY <1>46 DEF StepperIsr, TypeFlags, ExecFlags, where, history
  <2>2. TypeMotion'
    <3>1. \/ segs > 0 /\ segs' = segs - 1 /\ run' = run
          \/ segs' = segs /\ run' = FALSE
      BY <1>46 DEF StepperIsr
    <3>2. segs' \in 0..MaxSegs
      BY <1>0, <3>1 DEF TypeMotion
    <3>3. run' \in BOOLEAN
      BY <3>1 DEF TypeMotion
    <3>. QED BY <1>46, <3>2, <3>3 DEF StepperIsr, TypeMotion
  <2>. QED BY <1>46, <2>1, <2>2 DEF StepperIsr, TypeSys, TypeCool, TypeWhere, TypeInput,
     sysVars, cool, where, input, history
<1>47. CASE UNCHANGED vars
  BY <1>47 DEF TypeSys, TypeFlags, TypeMotion, TypeCool, TypeWhere, TypeInput,
                  vars, sysVars, motion, cool, where, input, history
<1>. QED
  BY <1>1, <1>2, <1>3, <1>4, <1>5, <1>6, <1>7, <1>8, <1>9, <1>10, <1>11, <1>12, <1>13, <1>14,
     <1>15, <1>16, <1>17, <1>18, <1>19, <1>20, <1>21, <1>22, <1>23, <1>24, <1>25, <1>26, <1>27,
     <1>28, <1>29, <1>30, <1>31, <1>32, <1>33, <1>34, <1>35, <1>36, <1>37, <1>38, <1>39, <1>40,
     <1>41, <1>42, <1>43, <1>44, <1>45, <1>46, <1>47
  DEF Next, Main, ExecSystem, ExecSuspend, ExecLine, Continue, Poll, Pins

\* Grbl starts with every variable in its type.
LEMMA TypeInit == Init => TypeOK
<1>. SUFFICES ASSUME Init PROVE TypeOK
  OBVIOUS
<1>1. 0 \in 0..MaxBlocks /\ 0 \in 0..MaxSegs /\ 0 \in 0..MaxCmds /\ 0 \in 0..MaxLines
  BY RealtimeAssumption DEF RealtimeAssumption
<1>2. TypeSys
  BY DEF Init, TypeSys, States, Suspends, StepControls
<1>3. TypeFlags
  BY DEF Init, TypeFlags, RmwType, NoRmw, ExecFlags, Alarms, Points
<1>4. plan \in 0..MaxBlocks /\ segs \in 0..MaxSegs /\ cmds \in 0..MaxCmds /\ lines \in 0..MaxLines
  BY <1>1 DEF Init
<1>5. TypeMotion /\ TypeInput
  BY <1>4 DEF Init, TypeMotion, TypeInput
<1>6. TypeCool /\ TypeWhere
  BY DEF Init, TypeCool, TypeWhere, Points, Callers
<1>. QED BY <1>2, <1>3, <1>5, <1>6 DEF TypeOK

\* The planner and segment counts stay in their buffers and every flag byte holds
\* only its own bits, for buffers of any size and any number of commands and lines.
THEOREM TypeCorrect == Spec => []TypeOK
<1>1. Init => TypeOK
  BY TypeInit
<1>2. TypeOK /\ [Next]_vars => TypeOK'
  BY TypeStep
<1>. QED BY <1>1, <1>2, PTL DEF Spec

----------------------------------------------------------------------------
(***************************************************************************)
(* A held machine moves again only when the user asks for it. ResumeNeedsUser *)
(* is not inductive: that the flag a pass of protocol_exec_rt_system() finds *)
(* was put there by the user depends on who else sets EXEC_CYCLE_START (the  *)
(* auto-start, a full planner, the end of a restore) and on what is suspended *)
(* when they do. ResumeInv says so part by part; every step preserves it.    *)
(***************************************************************************)

\* Nothing is suspended and no flag is set when Grbl starts.
LEMMA ResumeInit == Init => ResumeInv
  BY DEF Init, NoRmw, ResumeInv, HoldFlags, AbortKeepsReset, At, MainIsNotSuspended, MainPoints,
         Callers, BeforeStart, StoreIsFresh, SleepIsFromLine, RestoreIsAtDoor, StartIsAskedFor,
         LateRestore, StartHeard

\* A pass that finds no reset works on a copy of the flags.
LEMMA RtStateTakes ==
  ASSUME RtState, "RESET" \notin flags
  PROVE  /\ UNCHANGED <<state, suspend, flags, abort, nest, rmw>>
         /\ pc = "state" /\ snap' = flags
         /\ userStart' = (userStart /\ ~HoldAsked)
         /\ flags \cap HoldFlags # {} => pc' = "hold"
         /\ flags \cap HoldFlags = {} /\ flags # {} => pc' = "start"
         /\ flags = {} => pc' = "ovr"
<1>1. flags = {} => pc' = "ovr"
  BY DEF RtState
<1>2. flags # {} => pc' = IF flags \cap HoldFlags # {} THEN "hold" ELSE "start"
  BY DEF RtState
<1>3. flags = {} => flags \cap HoldFlags = {}
  OBVIOUS
<1>. QED BY <1>1, <1>2, <1>3 DEF RtState

\* What EXEC_SAFETY_DOOR does to a restore and to a jog cancel.
LEMMA DoorHold ==
  ASSUME NEW S, "SAFETY_DOOR" \in S
  PROVE  LET h == HoldBits(S) IN
    /\ "JOG_CANCEL" \in h.suspend => "JOG_CANCEL" \in suspend \/ state = "JOG"
    /\ "JOG_CANCEL" \in h.suspend /\ state = "JOG" => h.state = "JOG"
    /\ "INITIATE_RESTORE" \in h.suspend => "INITIATE_RESTORE" \in suspend
    /\ state = "SAFETY_DOOR" /\ "JOG_CANCEL" \notin suspend => "INITIATE_RESTORE" \notin h.suspend
    /\ "SAFETY_DOOR_AJAR" \in h.suspend
  BY DEF HoldBits, DoorOpens

\* A hold without a door leaves a restore as it is.
LEMMA PlainHold ==
  ASSUME NEW S, "SAFETY_DOOR" \notin S
  PROVE  LET h == HoldBits(S) IN
    /\ h.state \in {state, "HOLD"}
    /\ state \in {"SAFETY_DOOR", "JOG", "SLEEP"} => h.state = state
    /\ "INITIATE_RESTORE" \in h.suspend => "INITIATE_RESTORE" \in suspend
    /\ "JOG_CANCEL" \in h.suspend => "JOG_CANCEL" \in suspend \/ state = "JOG"
    /\ state # "IDLE" /\ "SAFETY_DOOR_AJAR" \in suspend => "SAFETY_DOOR_AJAR" \in h.suspend
    /\ "SAFETY_DOOR_AJAR" \in h.suspend => "SAFETY_DOOR_AJAR" \in suspend
    /\ state # "IDLE" /\ "INITIATE_RESTORE" \in suspend => "INITIATE_RESTORE" \in h.suspend
  BY DEF HoldBits

\* Every step of the main program, the poll task and the interrupts preserves ResumeInv.
LEMMA ResumeStep == TypeOK /\ ResumeInv /\ [Next]_vars => ResumeInv'
<1>. SUFFICES ASSUME TypeFlags, TypeWhere, ResumeInv, [Next]_vars PROVE ResumeInv'
  BY DEF TypeOK
<1>. USE DEF ResumeInv, TypeFlags, TypeWhere, RmwType, sysVars, motion, cool, where, input,
            history, AbortKeepsReset, At, MainIsNotSuspended, MainPoints, Callers, BeforeStart,
            StoreIsFresh, SleepIsFromLine, RestoreIsAtDoor, StartIsAskedFor, LateRestore,
            StartHeard
<1>1. CASE RtAlarm
  BY <1>1 DEF RtAlarm, RmwLoad
<1>2. CASE RtCritical
  BY <1>2 DEF RtCritical
<1>3. CASE RtState
  <2>1. CASE "RESET" \in flags
    BY <1>3, <2>1 DEF RtState, Leave
  <2>2. CASE "RESET" \notin flags
    <3>1. ~abort
      BY <1>3, <2>2 DEF RtState
    <3>2. /\ UNCHANGED <<state, suspend, flags, abort, nest, rmw>>
          /\ pc = "state" /\ snap' = flags
          /\ flags \cap HoldFlags # {} => pc' = "hold"
          /\ flags \cap HoldFlags = {} /\ flags # {} => pc' = "start"
          /\ flags = {} => pc' = "ovr"
      BY <1>3, <2>2, RtStateTakes
    <3>3. userStart' = (userStart /\ ~HoldAsked)
      BY <1>3, <2>2, RtStateTakes
    <3>a. "SLEEP" \in flags => pc' = "hold"
      BY <3>2 DEF HoldFlags
    <3>b. "CYCLE_START" \in flags => pc' \in {"hold", "start"}
      BY <3>2
    <3>c. pc' = "start" => flags \cap HoldFlags = {}
      BY <3>2
    <3>d. pc' \in {"hold", "start", "ovr"}
      BY <3>2
    <3>e. pc' = "hold" => snap' \cap HoldFlags # {}
      BY <3>2
    <3>4. AbortKeepsReset' /\ MainIsNotSuspended' /\ StoreIsFresh' /\ SleepIsFromLine' /\ RestoreIsAtDoor'
      BY <3>1, <3>2, <3>a, <3>d
    <3>5. StartIsAskedFor'
      BY <3>1, <3>2, <3>3, <3>b, <3>c, <3>d, <3>e DEF HoldAsked, HoldFlags
    <3>. QED BY <3>4, <3>5
  <2>. QED BY <2>1, <2>2
<1>4. CASE RtHold
  <2>1. /\ UNCHANGED <<abort, flags, nest, snap, userStart>>
        /\ pc' = "rmw" /\ rmw' = [tmp |-> flags, set |-> {}, clr |-> HoldFlags, next |-> "start"]
    BY <1>4 DEF RtHold, RmwLoad
  <2>2. AbortKeepsReset' /\ StoreIsFresh' /\ SleepIsFromLine' /\ MainIsNotSuspended'
    BY <1>4, <2>1 DEF HoldFlags, RtHold
  <2>3. CASE state \in {"ALARM", "CHECK_MODE"}
    BY <1>4, <2>1, <2>2, <2>3 DEF RtHold
  <2>4. CASE state \notin {"ALARM", "CHECK_MODE"}
    <3>1. /\ suspend' = HoldBits(snap).suspend
          /\ state' = IF "SLEEP" \in snap THEN "SLEEP" ELSE HoldBits(snap).state
      BY <1>4, <2>4 DEF RtHold, HoldBits, DoorOpens
    <3>2. CASE "SLEEP" \in snap
      <4>1. nest = "none" /\ suspend = {} /\ state' = "SLEEP"
        BY <1>4, <3>1, <3>2 DEF RtHold
      <4>2. "INITIATE_RESTORE" \notin suspend' /\ "JOG_CANCEL" \notin suspend'
        BY <4>1, <3>1, <3>2 DEF HoldBits, DoorOpens
      <4>. QED BY <1>4, <2>1, <2>2, <4>1, <4>2 DEF RtHold
    <3>3. CASE "SLEEP" \notin snap /\ "SAFETY_DOOR" \in snap
      <4>. DEFINE h == HoldBits(snap)
      <4>1. state' = h.state /\ suspend' = h.suspend
        BY <3>1, <3>3
      <4>2. /\ "JOG_CANCEL" \in h.suspend => "JOG_CANCEL" \in suspend \/ state = "JOG"
            /\ "JOG_CANCEL" \in h.suspend /\ state = "JOG" => h.state = "JOG"
            /\ "INITIATE_RESTORE" \in h.suspend => "INITIATE_RESTORE" \in suspend
            /\ state = "SAFETY_DOOR" /\ "JOG_CANCEL" \notin suspend => "INITIATE_RESTORE" \notin h.suspend
            /\ "SAFETY_DOOR_AJAR" \in h.suspend
        BY <3>3, DoorHold
      <4>. HIDE DEF h
      <4>3. pc = "hold" /\ pc' = "rmw"
        BY <1>4, <2>1 DEF RtHold
      <4>4. RestoreIsAtDoor'
        BY <2>1, <2>4, <4>1, <4>2, <4>3
      <4>5. StartIsAskedFor'
        BY <2>1, <2>4, <3>3, <4>1, <4>2, <4>3
      <4>. QED BY <2>2, <4>4, <4>5
    <3>4. CASE "SLEEP" \notin snap /\ "SAFETY_DOOR" \notin snap
      <4>. DEFINE h == HoldBits(snap)
      <4>1. state' = h.state /\ suspend' = h.suspend
        BY <3>1, <3>4
      <4>2. /\ h.state \in {state, "HOLD"}
            /\ state \in {"SAFETY_DOOR", "JOG", "SLEEP"} => h.state = state
            /\ "INITIATE_RESTORE" \in h.suspend => "INITIATE_RESTORE" \in suspend
            /\ "JOG_CANCEL" \in h.suspend => "JOG_CANCEL" \in suspend \/ state = "JOG"
            /\ state # "IDLE" /\ "SAFETY_DOOR_AJAR" \in suspend => "SAFETY_DOOR_AJAR" \in h.suspend
            /\ "SAFETY_DOOR_AJAR" \in h.suspend => "SAFETY_DOOR_AJAR" \in suspend
            /\ state # "IDLE" /\ "INITIATE_RESTORE" \in suspend => "INITIATE_RESTORE" \in h.suspend
        BY <3>4, PlainHold
      <4>. HIDE DEF h
      <4>3. pc = "hold" /\ pc' = "rmw"
        BY <1>4, <2>1 DEF RtHold
      <4>4. snap \cap HoldFlags # {}
        BY <4>3
      <4>5. ~StartHeard
        BY <3>4, <4>4 DEF HoldFlags
      <4>6. RestoreIsAtDoor'
        BY <2>1, <2>4, <4>1, <4>2, <4>3
      <4>7. StartIsAskedFor'
        BY <2>1, <2>4, <3>4, <4>1, <4>2, <4>3, <4>5
      <4>. QED BY <2>2, <4>6, <4>7
    <3>. QED BY <3>2, <3>3, <3>4
  <2>. QED BY <2>3, <2>4
<1>5. CASE RtStart
  BY <1>5 DEF RtStart, ReadyToRun, DoorClosed, AfterStart, RmwLoad
<1>6. CASE RtWake
  BY <1>6 DEF RtWake, AfterStart, RmwLoad
<1>7. CASE RtStop
  BY <1>7 DEF RtStop, RmwLoad
<1>8. CASE RtOverride
  BY <1>8 DEF RtOverride, ToggleHeard, Leave
<1>9. CASE EnterSuspend
  BY <1>9 DEF EnterSuspend
<1>10. CASE SuspendBody
  <2>0. pc \in {"body", "susp"} /\ nest = "loop"
    BY <1>10 DEF SuspendBody
  <2>1. CASE (suspend = {} \/ abort) /\ nest' = "none" /\ pc' = ctx /\ UNCHANGED suspend
    BY <1>10, <2>0, <2>1 DEF SuspendBody
  <2>2. CASE ~abort /\ Retract
    BY <1>10, <2>0, <2>2 DEF SuspendBody, Retract
  <2>3. CASE ~abort /\ FallAsleep
    BY <1>10, <2>0, <2>3 DEF SuspendBody, FallAsleep
  <2>4. CASE ~abort /\ ParkedAtDoor
    BY <1>10, <2>0, <2>4 DEF SuspendBody, ParkedAtDoor
  <2>5. CASE ~abort /\ pc' = "alarm" /\ UNCHANGED <<suspend, nest>>
    BY <1>10, <2>0, <2>5 DEF SuspendBody
  <2>. QED BY <1>10, <2>1, <2>2, <2>3, <2>4, <2>5 DEF SuspendBody
<1>11. CASE SleepLoop
  BY <1>11 DEF SleepLoop
<1>12. CASE DelayGoesOn
  BY <1>12 DEF DelayGoesOn, DelayCut
<1>13. CASE DelayEnds
  BY <1>13 DEF DelayEnds
<1>14. CASE Restored
  BY <1>14 DEF Restored, RmwLoad
<1>15. CASE LineAborted
  BY <1>15 DEF LineAborted
<1>16. CASE LineOther
  BY <1>16 DEF LineOther, Dispatch, Dispatched
<1>17. CASE LineMotion
  BY <1>17 DEF LineMotion, Dispatch, Dispatched, GcodeAllowed, Execute
<1>18. CASE LineSoftLimit
  BY <1>18 DEF LineSoftLimit, Dispatch, Dispatched, GcodeAllowed, FlagAndExecute, RmwLoad,
     McReset
<1>19. CASE LineJog
  BY <1>19 DEF LineJog, Dispatch, Dispatched, Execute
<1>20. CASE LineUnlock
  BY <1>20 DEF LineUnlock, Dispatch, Dispatched
<1>21. CASE LineCheckMode
  BY <1>21 DEF LineCheckMode, Dispatch, Dispatched, McReset, RmwLoad
<1>22. CASE LineSleep
  BY <1>22 DEF LineSleep, Dispatch, Dispatched, RmwLoad
<1>23. CASE LineCoolant
  BY <1>23 DEF LineCoolant, Dispatch, Dispatched, GcodeAllowed, AutoStart, FlagAndExecute,
     RmwLoad, Execute
<1>24. CASE LinePause
  BY <1>24 DEF LinePause, Dispatch, Dispatched, GcodeAllowed, AutoStart, FlagAndExecute,
     RmwLoad, Execute
<1>25. CASE IdleReturns
  BY <1>25 DEF IdleReturns
<1>26. CASE SoftWait
  <2>1. CASE pc' = "alarm" /\ UNCHANGED rmw
    BY <1>26, <2>1 DEF SoftWait
  <2>2. CASE ~abort /\ McReset("softAlarm")
    BY <1>26, <2>2 DEF SoftWait, McReset, RmwLoad
  <2>. QED BY <1>26, <2>1, <2>2 DEF SoftWait, Execute
<1>27. CASE SoftAlarm
  BY <1>27 DEF SoftAlarm, Execute
<1>28. CASE SoftEnd
  BY <1>28 DEF SoftEnd, Execute
<1>29. CASE PlanLine
  BY <1>29 DEF PlanLine, PlannerFull, RmwLoad
<1>30. CASE PlanWait
  BY <1>30 DEF PlanWait
<1>31. CASE JogStart
  BY <1>31 DEF JogStart
<1>32. CASE JogWake
  BY <1>32 DEF JogWake
<1>33. CASE Synchronize
  BY <1>33 DEF Synchronize, Synced, FlagAndExecute, RmwLoad
<1>34. CASE FlowReturns
  BY <1>34 DEF FlowReturns
<1>35. CASE Reinit
  BY <1>35 DEF Reinit
<1>36. CASE IdleStep
  BY <1>36 DEF IdleStep, AutoStart, FlagAndExecute, RmwLoad, Execute
<1>37. CASE RmwStore
  BY <1>37 DEF RmwStore, NoRmw
<1>38. CASE McResetKill
  BY <1>38 DEF McResetKill, NoRmw
<1>39. CASE LineArrives
  BY <1>39 DEF LineArrives, Execute
<1>40. CASE PollFlag
  <2>1. PICK f \in {"CYCLE_START", "FEED_HOLD", "SAFETY_DOOR", "MOTION_CANCEL"} :
          /\ RmwLoad({f}, {}, pc)
          /\ f = "CYCLE_START" \/ userStart => userStart'
    BY <1>40 DEF PollFlag, CharFlag
  <2>2. pc \in YieldPoints /\ UNCHANGED <<state, suspend, abort, flags, nest, snap>>
    BY <1>40 DEF PollFlag
  <2>. QED BY <2>1, <2>2 DEF RmwLoad, YieldPoints
<1>41. CASE PollReset
  <2>1. /\ pc \in YieldPoints /\ RmwLoad({"RESET"}, {}, pc)
        /\ UNCHANGED <<state, suspend, abort, flags, nest, snap, userStart>>
    BY <1>41 DEF PollReset, McReset
  <2>. QED BY <2>1 DEF RmwLoad, YieldPoints
<1>42. CASE PollCoolant
  BY <1>42 DEF PollCoolant, Event
<1>43. CASE PinFlag
  BY <1>43 DEF PinFlag, Event
<1>44. CASE PinReset
  BY <1>44 DEF PinReset, Event
<1>45. CASE LimitHit
  BY <1>45 DEF LimitHit, Event
<1>46. CASE StepperIsr
  <2>1. /\ flags' = flags \/ flags' = flags \cup {"CYCLE_STOP"}
        /\ UNCHANGED <<state, suspend, abort, nest, snap, rmw, pc, userStart>>
    BY <1>46 DEF StepperIsr
  <2>. QED BY <2>1
<1>47. CASE UNCHANGED vars
  BY <1>47 DEF vars
<1>. QED
  BY <1>1, <1>2, <1>3, <1>4, <1>5, <1>6, <1>7, <1>8, <1>9, <1>10, <1>11, <1>12, <1>13, <1>14,
     <1>15, <1>16, <1>17, <1>18, <1>19, <1>20, <1>21, <1>22, <1>23, <1>24, <1>25, <1>26, <1>27,
     <1>28, <1>29, <1>30, <1>31, <1>32, <1>33, <1>34, <1>35, <1>36, <1>37, <1>38, <1>39, <1>40,
     <1>41, <1>42, <1>43, <1>44, <1>45, <1>46, <1>47
  DEF Next, Main, ExecSystem, ExecSuspend, ExecLine, Continue, Poll, Pins

\* No step that preserves ResumeInv resumes a hold or a door by itself: only the start
\* of a cycle does it, and StartIsAskedFor says whose that start is.
LEMMA ResumeAction ==
  TypeOK /\ ResumeInv /\ [Next]_vars /\ state' = "CYCLE" /\ state \in {"HOLD", "SAFETY_DOOR"}
    => userStart \/ (state = "HOLD" /\ "RESTORE_COMPLETE" \in suspend)
<1>. SUFFICES ASSUME TypeOK, ResumeInv, [Next]_vars, state' = "CYCLE", state \in {"HOLD", "SAFETY_DOOR"}
              PROVE  userStart \/ (state = "HOLD" /\ "RESTORE_COMPLETE" \in suspend)
  OBVIOUS
<1>1. CASE RtStart
  BY <1>1 DEF RtStart, ReadyToRun, DoorClosed, ResumeInv, StartIsAskedFor, At, StartHeard
<1>2. CASE RtHold
  BY <1>2 DEF RtHold, HoldBits, DoorOpens
<1>3. CASE RtAlarm \/ RtStop \/ LineUnlock \/ LineCheckMode \/ JogStart \/ Reinit
  BY <1>3 DEF RtAlarm, RtStop, LineUnlock, LineCheckMode, JogStart, Reinit
<1>4. CASE state' = state
  BY <1>4
<1>5. CASE RtCritical \/ RtState \/ RtWake \/ RtOverride \/ EnterSuspend \/ SuspendBody \/
           SleepLoop \/ DelayGoesOn \/ DelayEnds \/ Restored \/ LineAborted \/
           LineOther \/ LineMotion \/ LineSoftLimit \/ LineJog \/ LineSleep \/
           LineCoolant \/ LinePause \/ IdleReturns \/ SoftWait \/ SoftAlarm \/ SoftEnd \/
           PlanLine \/ PlanWait \/ JogWake \/ Synchronize \/ FlowReturns \/ IdleStep \/
           RmwStore \/ McResetKill \/ LineArrives \/ PollFlag \/ PollReset \/
           PollCoolant \/ PinFlag \/ PinReset \/ LimitHit \/ StepperIsr
  BY <1>4, <1>5 DEF RtCritical, RtState, RtWake, RtOverride, EnterSuspend, SuspendBody,
     SleepLoop, DelayGoesOn, DelayEnds, Restored, LineAborted, LineOther, LineMotion,
     LineSoftLimit, LineJog, LineSleep, LineCoolant, LinePause, IdleReturns, SoftWait,
     SoftAlarm, SoftEnd, PlanLine, PlanWait, JogWake, Synchronize, FlowReturns, IdleStep,
     RmwStore, McResetKill, LineArrives, PollFlag, PollReset, PollCoolant, PinFlag, PinReset,
     LimitHit, StepperIsr, sysVars
<1>. QED BY <1>1, <1>2, <1>3, <1>4, <1>5 DEF Next, Main, ExecSystem, ExecSuspend, ExecLine,
   Continue, Poll, Pins, vars, sysVars

\* The resume invariant holds in every reachable state.
THEOREM ResumeInvCorrect == Spec => []ResumeInv
<1>1. Init => ResumeInv
  BY ResumeInit
<1>2. TypeOK /\ ResumeInv /\ [Next]_vars => ResumeInv'
  BY ResumeStep
<1>. QED BY <1>1, <1>2, TypeCorrect, PTL DEF Spec

\* protocol.cpp:336: auto-cycle-start doesn't resume a hold or an opened door without
\* an explicit user-input, whatever interrupts and commands do in between. The one
\* exception is the start that ends a restore.
THEOREM ResumeCorrect == Spec => ResumeNeedsUser
<1>1. TypeOK /\ ResumeInv /\ [Next]_vars =>
        [state' = "CYCLE" /\ state \in {"HOLD", "SAFETY_DOOR"} =>
           userStart \/ (state = "HOLD" /\ "RESTORE_COMPLETE" \in suspend)]_vars
  BY ResumeAction
<1>. QED BY <1>1, TypeCorrect, ResumeInvCorrect, PTL DEF Spec, ResumeNeedsUser
=============================================================================
