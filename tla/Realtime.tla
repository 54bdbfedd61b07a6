------------------------------ MODULE Realtime ------------------------------
(***************************************************************************)
(* The realtime core of Grbl: sys.state and sys.suspend, the flag byte      *)
(* sys_rt_exec_state through which interrupts and the serial poll task talk *)
(* to the main program, protocol_exec_rt_system(), the suspend loop, the    *)
(* stepper interrupt that ends a motion, mc_reset() and the command lines   *)
(* that change the state.                                                   *)
(*                                                                          *)
(* Three contexts run:                                                      *)
(*   - the main program, one step at a time, its control state in pc (the   *)
(*     step), ctx (who called protocol_execute_realtime) and nest (the      *)
(*     suspend procedure it is inside);                                     *)
(*   - the serial poll task, only where the main program yields             *)
(*     (delay()), i.e. when pc \in YieldPoints;                             *)
(*   - the interrupts (stepper timer, control pins, limit pins), between    *)
(*     any two steps.                                                       *)
(* |= and &= ~ on the volatile flag byte are a load and a store: the cli()  *)
(* around them is commented out, so an interrupt may come in between.       *)
(*                                                                          *)
(* Abstractions: a planner block is one segment of motion; plan and segs    *)
(* count them. Homing, probing and overrides are other modules. No door pin *)
(* is compiled in, so the door opens by command and always reads closed.    *)
(* modal.spindle never leaves SPINDLE_DISABLE (M3..M5 are not parsed), so   *)
(* the spindle branches do nothing and are left out.                        *)
(***************************************************************************)
EXTENDS Naturals, FiniteSets

CONSTANTS
  MaxBlocks,   \* planner blocks (BLOCK_BUFFER_SIZE - 1)
  MaxSegs,     \* step segments  (SEGMENT_BUFFER_SIZE - 1)
  MaxCmds,     \* bound on realtime commands and pin events
  MaxLines,    \* bound on command lines
  Inputs,      \* the realtime commands, pin events and lines that may come
  SoftLimits   \* settings.flags has BITFLAG_SOFT_LIMIT_ENABLE

ASSUME RealtimeAssumption ==
  /\ MaxBlocks \in Nat \ {0}
  /\ MaxSegs \in Nat \ {0}
  /\ MaxCmds \in Nat
  /\ MaxLines \in Nat
  /\ Inputs \subseteq {"start", "hold", "door", "jog_cancel", "reset", "coolant",
                       "pin_start", "pin_hold", "pin_reset", "limit",
                       "motion", "bad_motion", "jog", "unlock", "check", "sleep", "M8", "M0", "other"}
  /\ SoftLimits \in BOOLEAN

VARIABLES
  state,       \* sys.state
  suspend,     \* sys.suspend
  stepctl,     \* sys.step_control
  softLimit,   \* sys.soft_limit
  abort,       \* sys.abort
  flags,       \* sys_rt_exec_state
  alarm,       \* sys_rt_exec_alarm
  toggle,      \* EXEC_COOLANT_FLOOD_OVR_TOGGLE in the accessory flags
  plan,        \* blocks in the planner buffer
  segs,        \* segments in the segment buffer
  run,         \* the stepper timer interrupt is enabled
  coolant,     \* coolant_get_state()
  modal,       \* gc_state.modal.coolant
  restore,     \* restore_condition of the suspend routine
  pc, ctx, nest,
  snap,        \* rt_exec, the copy of the flags a pass works on
  rmw,         \* a |= or &= ~ on the flags between its load and its store
  mode,        \* the coolant word of the line in progress (coolant_sync's argument)
  cmds, lines, \* inputs so far
  userStart,   \* history: a cycle start was asked for since the last hold
  killed,      \* history: mc_reset stopped running steppers since the last init
  lost         \* history: flags overwritten by a store that never saw them

sysVars   == <<state, suspend, stepctl, softLimit, abort>>
motion    == <<plan, segs, run>>
cool      == <<toggle, coolant, modal, restore>>
where     == <<pc, ctx, nest, snap, rmw, mode>>
input     == <<cmds, lines>>
history   == <<userStart, killed, lost>>
vars      == <<sysVars, flags, alarm, motion, cool, where, input, history>>

States   == {"IDLE", "ALARM", "CHECK_MODE", "CYCLE", "HOLD", "JOG",
             "SAFETY_DOOR", "SLEEP"}
ExecFlags == {"CYCLE_START", "CYCLE_STOP", "FEED_HOLD", "RESET",
              "SAFETY_DOOR", "MOTION_CANCEL", "SLEEP"}
Suspends == {"HOLD_COMPLETE", "RESTART_RETRACT", "RETRACT_COMPLETE",
             "INITIATE_RESTORE", "RESTORE_COMPLETE", "SAFETY_DOOR_AJAR",
             "MOTION_CANCEL", "JOG_CANCEL"}
StepControls == {"END_MOTION", "EXECUTE_HOLD"}
Alarms   == {"none", "HARD_LIMIT", "SOFT_LIMIT", "ABORT_CYCLE"}
\* What the hold family clears when it is done, and a mask with one bit too many.
HoldFlagsAndStop == {"MOTION_CANCEL", "FEED_HOLD", "SAFETY_DOOR", "SLEEP", "CYCLE_STOP"}
HoldFlags == {"MOTION_CANCEL", "FEED_HOLD", "SAFETY_DOOR", "SLEEP"}

\* Callers of protocol_execute_realtime, where it returns to.
Callers  == {"idle", "line", "mc", "jog", "sync", "pause", "flow", "soft", "softEnd"}
\* Steps of protocol_exec_rt_system.
Passes   == {"alarm", "crit", "state", "hold", "start", "wake", "stop", "ovr"}
\* Where the main program is inside delay(): the poll task runs only here.
YieldPoints == {"loop", "mcwait", "syncwait", "crit", "susp", "sleep", "delay"}
Points   == Callers \cup Passes \cup YieldPoints
              \cup {"init", "jogged", "jogwake", "softAlarm", "suspend", "body",
                    "restored", "rmw", "kill"}

NoRmw == [tmp |-> {}, set |-> {}, clr |-> {}, next |-> "init"]

----------------------------------------------------------------------------
(* The flag byte.                                                           *)

\* First half of an |= or &= ~ on sys_rt_exec_state: the load. The main
\* program goes on at `next` after the store.
RmwLoad(set, clr, next) ==
  /\ rmw' = [tmp |-> flags, set |-> set, clr |-> clr, next |-> next]
  /\ pc' = "rmw"

\* The store writes back the loaded value: a flag an interrupt set since the
\* load is gone.
RmwStore ==
  /\ pc = "rmw"
  /\ flags' = (rmw.tmp \ rmw.clr) \cup rmw.set
  /\ lost' = lost \cup (((flags \ rmw.tmp) \ rmw.set) \ rmw.clr)
  /\ IF "RESET" \in rmw.set
     THEN pc' = "kill" /\ UNCHANGED rmw
     ELSE pc' = rmw.next /\ rmw' = NoRmw
  /\ UNCHANGED <<sysVars, alarm, motion, cool, ctx, nest, snap, mode, input, userStart, killed>>

\* mc_reset() once it has set EXEC_RESET: stop the coolant and, in any motion
\* state, the steppers, and raise the alarm.
Moving == state \in {"CYCLE", "JOG"} \/ "EXECUTE_HOLD" \in stepctl

Kill ==
  /\ coolant' = FALSE
  /\ run' = (run /\ ~Moving)
  /\ killed' = (killed \/ (run /\ Moving))
KillAll == Kill /\ alarm' = IF Moving THEN "ABORT_CYCLE" ELSE alarm

\* mc_reset() outside interrupts: nothing if a reset is already flagged.
McReset(next) ==
  IF "RESET" \in flags THEN pc' = next /\ UNCHANGED rmw ELSE RmwLoad({"RESET"}, {}, next)

McResetKill ==
  /\ pc = "kill"
  /\ KillAll
  /\ pc' = rmw.next
  /\ rmw' = NoRmw
  /\ UNCHANGED <<sysVars, flags, plan, segs, toggle, modal, restore, ctx, nest, snap, mode,
                 input, userStart, lost>>

\* st_prep_buffer() with sys.step_control = c: moves blocks to the segment buffer
\* until it is full or the plan is empty; under a hold, deceleration may end at
\* any segment with motion left in the plan.
PrepBuffer(c) ==
  IF "END_MOTION" \in c
  THEN stepctl' = c /\ UNCHANGED <<plan, segs>>
  ELSE LET room == MaxSegs - segs
           full == IF plan < room THEN plan ELSE room
       IN \E n \in 0..full :
            /\ \/ n = full /\ stepctl' = c
               \/ /\ "EXECUTE_HOLD" \in c /\ room > 0 /\ n < plan
                  /\ stepctl' = c \cup {"END_MOTION"}
            /\ plan' = plan - n
            /\ segs' = segs + n

\* plan_reset() and st_reset(), and one that leaves the steppers on.
FlushBuffers == plan' = 0 /\ segs' = 0 /\ UNCHANGED run
FlushMotion == plan' = 0 /\ segs' = 0 /\ run' = FALSE

----------------------------------------------------------------------------
(* protocol_exec_rt_system(). Each step is the code between two points where *)
(* an interrupt makes a difference.                                          *)

\* Return to protocol_execute_realtime, or into the suspend procedure.
Leave ==
  /\ snap' = {}
  /\ pc' = CASE nest = "none"  -> IF suspend = {} THEN ctx ELSE "suspend"
             [] nest = "loop"  -> "susp"
             [] nest = "sleep" -> "sleep"
             [] nest = "delay" -> "delay"

\* The alarm check. A hard or soft limit waits for a fresh reset.
RtAlarm ==
  /\ pc = "alarm"
  /\ IF alarm = "none"
     THEN pc' = "state" /\ UNCHANGED <<state, alarm, rmw>>
     ELSE /\ state' = "ALARM"
          /\ IF alarm \in {"HARD_LIMIT", "SOFT_LIMIT"}
             THEN RmwLoad({}, {"RESET"}, "crit") /\ UNCHANGED alarm
             ELSE alarm' = "none" /\ pc' = "state" /\ UNCHANGED rmw
  /\ UNCHANGED <<suspend, stepctl, softLimit, abort, flags, motion, cool,
                 ctx, nest, snap, mode, input, history>>

\* do { delay(0); } while (!EXEC_RESET); and without the loop.
NoCritical ==
  /\ pc = "crit"
  /\ alarm' = "none"
  /\ pc' = "state"
  /\ UNCHANGED <<sysVars, flags, motion, cool, ctx, nest, snap, rmw, mode, input, history>>
RtCritical ==
  /\ pc = "crit" /\ "RESET" \in flags
  /\ alarm' = "none"
  /\ pc' = "state"
  /\ UNCHANGED <<sysVars, flags, motion, cool, ctx, nest, snap, rmw, mode, input, history>>

\* The user wants a stop, as far as the code heeds it: not in an alarm or check
\* mode, and a feed hold not behind the safety door.
HoldAsked ==
  /\ state \notin {"ALARM", "CHECK_MODE"}
  /\ "SAFETY_DOOR" \in flags \/ ("FEED_HOLD" \in flags /\ state # "SAFETY_DOOR")

\* rt_exec = sys_rt_exec_state, and the abort.
RtState ==
  /\ pc = "state"
  /\ IF "RESET" \in flags
     THEN abort' = TRUE /\ Leave /\ UNCHANGED userStart
     ELSE /\ snap' = flags
          /\ pc' = IF flags = {} THEN "ovr"
                   ELSE IF flags \cap HoldFlags # {} THEN "hold" ELSE "start"
          /\ userStart' = (userStart /\ ~HoldAsked)
          /\ UNCHANGED abort
  /\ UNCHANGED <<state, suspend, stepctl, softLimit, flags, alarm, motion, cool,
                 ctx, nest, rmw, mode, input, killed, lost>>

\* EXEC_SAFETY_DOOR on suspend bits su with state st: the new bits and state. A
\* door opened during a restore restarts the retraction; one opened during a jog
\* cancel is only noted.
DoorOpens(st, su) ==
  LET restart == st = "SAFETY_DOOR" /\ "INITIATE_RESTORE" \in su
      cut     == su \ {"RETRACT_COMPLETE", "INITIATE_RESTORE", "RESTORE_COMPLETE"}
      bits    == IF restart THEN cut \cup {"RESTART_RETRACT"} ELSE su
  IN IF "JOG_CANCEL" \in su
     THEN [state |-> st, suspend |-> su \cup {"SAFETY_DOOR_AJAR"}]
     ELSE [state   |-> IF st = "SLEEP" THEN st ELSE "SAFETY_DOOR",
           suspend |-> bits \cup {"SAFETY_DOOR_AJAR"}]

\* The hold family, in a state that may hold.
HoldBits(S) ==
  LET stopping == state \in {"CYCLE", "JOG"}
                    /\ suspend \cap {"MOTION_CANCEL", "JOG_CANCEL"} = {}
      cancelJog == stopping /\ state = "JOG" /\ "SLEEP" \notin S
      su1 == IF state = "IDLE" THEN {"HOLD_COMPLETE"}
             ELSE suspend \cup (IF cancelJog THEN {"JOG_CANCEL"} ELSE {})
      su2 == su1 \cup (IF "MOTION_CANCEL" \in S /\ state # "JOG"
                       THEN {"MOTION_CANCEL"} ELSE {})
      st1 == IF "FEED_HOLD" \in S /\ state \notin {"SAFETY_DOOR", "JOG", "SLEEP"}
             THEN "HOLD" ELSE state
      held == [state |-> st1, suspend |-> su2]
      door == IF "SAFETY_DOOR" \in S THEN DoorOpens(st1, su2) ELSE held
  IN [state   |-> door.state,
      suspend |-> door.suspend,
      stepctl |-> IF stopping THEN {"EXECUTE_HOLD"} ELSE stepctl]

RtHold ==
  /\ pc = "hold"
  /\ LET h == IF state \in {"ALARM", "CHECK_MODE"}
              THEN [state |-> state, suspend |-> suspend, stepctl |-> stepctl]
              ELSE HoldBits(snap)
         sleep == "SLEEP" \in snap
     IN /\ state' = IF sleep THEN "SLEEP" ELSE h.state
        /\ suspend' = h.suspend \cup
             (IF sleep /\ h.state = "ALARM" THEN {"RETRACT_COMPLETE", "HOLD_COMPLETE"} ELSE {})
        /\ stepctl' = h.stepctl
  /\ RmwLoad({}, HoldFlags, "start")
  /\ UNCHANGED <<softLimit, abort, flags, alarm, motion, cool, ctx, nest, snap, mode,
                 input, history>>

\* Whether EXEC_CYCLE_START is heard: not together with a hold; and heard always.
StartAlwaysHeard == "CYCLE_START" \in snap
StartHeard == "CYCLE_START" \in snap
                /\ snap \cap {"FEED_HOLD", "MOTION_CANCEL", "SAFETY_DOOR"} = {}

\* A closed, retracted door: the first start begins the restore, the one the
\* restore sends itself goes on to the cycle.
DoorClosed == state = "SAFETY_DOOR" /\ "SAFETY_DOOR_AJAR" \notin suspend
ReadyToRun ==
  \/ state = "IDLE"
  \/ state = "HOLD" /\ "HOLD_COMPLETE" \in suspend
  \/ DoorClosed /\ "RESTORE_COMPLETE" \in suspend

\* The flag is cleared, heard or not; and left set.
StartKept == pc' = "stop" /\ UNCHANGED rmw
AfterStart == IF "CYCLE_START" \in snap
              THEN RmwLoad({}, {"CYCLE_START"}, "stop")
              ELSE pc' = "stop" /\ UNCHANGED rmw

RtStart ==
  /\ pc = "start"
  /\ \/ /\ StartHeard /\ ReadyToRun
        /\ suspend' = {}
        /\ IF plan > 0 /\ "MOTION_CANCEL" \notin suspend
           THEN state' = "CYCLE" /\ PrepBuffer({}) /\ pc' = "wake" /\ UNCHANGED rmw
           ELSE state' = "IDLE" /\ stepctl' = {} /\ UNCHANGED <<plan, segs>> /\ AfterStart
     \/ /\ ~(StartHeard /\ ReadyToRun)
        /\ suspend' = IF StartHeard /\ DoorClosed /\ "RETRACT_COMPLETE" \in suspend
                      THEN suspend \cup {"INITIATE_RESTORE"} ELSE suspend
        /\ AfterStart
        /\ UNCHANGED <<state, stepctl, plan, segs>>
  /\ UNCHANGED <<softLimit, abort, flags, alarm, run, cool, ctx, nest, snap, mode,
                 input, history>>

\* st_wake_up()
RtWake ==
  /\ pc = "wake"
  /\ run' = TRUE
  /\ AfterStart
  /\ UNCHANGED <<sysVars, flags, alarm, plan, segs, cool, ctx, nest, snap, mode, input, history>>

\* EXEC_CYCLE_STOP: the stepper ran dry.
HoldEnds == state \in {"HOLD", "SAFETY_DOOR", "SLEEP"} /\ ~softLimit
              /\ "JOG_CANCEL" \notin suspend

RtStop ==
  /\ pc = "stop"
  /\ IF "CYCLE_STOP" \notin snap
     THEN pc' = "ovr" /\ UNCHANGED <<state, suspend, stepctl, motion, rmw>>
     ELSE /\ RmwLoad({}, {"CYCLE_STOP"}, "ovr")
          /\ IF HoldEnds
             THEN /\ suspend' = suspend \cup
                       (IF "EXECUTE_HOLD" \in stepctl THEN {"HOLD_COMPLETE"} ELSE {})
                  /\ stepctl' = stepctl \ {"EXECUTE_HOLD"}
                  /\ UNCHANGED <<state, motion>>
             ELSE /\ IF "JOG_CANCEL" \in suspend
                     THEN stepctl' = {} /\ FlushMotion
                     ELSE UNCHANGED <<stepctl, motion>>
                  /\ IF "SAFETY_DOOR_AJAR" \in suspend
                     THEN /\ suspend' = (suspend \ {"JOG_CANCEL"}) \cup {"HOLD_COMPLETE"}
                          /\ state' = "SAFETY_DOOR"
                     ELSE suspend' = {} /\ state' = "IDLE"
  /\ UNCHANGED <<softLimit, abort, flags, alarm, cool, ctx, nest, snap, mode, input, history>>

\* Where the coolant override is heard, and a list with the safety door in it.
ToggleHeardAtDoor == state \in {"IDLE", "CYCLE", "HOLD", "JOG", "SAFETY_DOOR"}
ToggleHeard == state \in {"IDLE", "CYCLE", "HOLD", "JOG"}

\* The coolant override and the refill of the segment buffer.
RtOverride ==
  /\ pc = "ovr"
  /\ toggle' = FALSE
  /\ IF toggle /\ ToggleHeard
     THEN modal' = ~modal /\ coolant' = IF abort THEN coolant ELSE ~modal
     ELSE UNCHANGED <<modal, coolant>>
  /\ IF state \in {"CYCLE", "HOLD", "SAFETY_DOOR", "SLEEP", "JOG"}
     THEN PrepBuffer(stepctl)
     ELSE UNCHANGED <<stepctl, plan, segs>>
  /\ Leave
  /\ UNCHANGED <<state, suspend, softLimit, abort, flags, alarm, run, restore,
                 ctx, nest, rmw, mode, input, history>>

----------------------------------------------------------------------------
(* protocol_exec_rt_suspend()                                               *)

\* The accessories to restore are chosen once, on entry.
EnterSuspend ==
  /\ pc = "suspend"
  /\ restore' = IF plan = 0 THEN modal ELSE coolant
  /\ nest' = "loop"
  /\ pc' = "body"
  /\ UNCHANGED <<sysVars, flags, alarm, motion, toggle, coolant, modal, ctx, snap, rmw, mode,
                 input, history>>

SetCoolant(on) == coolant' = IF abort THEN coolant ELSE on

Parks == "HOLD_COMPLETE" \in suspend /\ state \in {"SAFETY_DOOR", "SLEEP"}

\* De-energize, once the motion has stopped.
Retract ==
  /\ "RETRACT_COMPLETE" \notin suspend
  /\ SetCoolant(FALSE)
  /\ suspend' = (suspend \ {"RESTART_RETRACT"}) \cup {"RETRACT_COMPLETE"}
  /\ pc' = "alarm"
  /\ UNCHANGED <<run, nest>>

FallAsleep ==
  /\ "RETRACT_COMPLETE" \in suspend /\ state = "SLEEP"
  /\ SetCoolant(FALSE)
  /\ run' = FALSE
  /\ nest' = "sleep"
  /\ pc' = "alarm"
  /\ UNCHANGED suspend

\* The door closes; the restore turns the coolant back on and waits for it.
ParkedAtDoor ==
  /\ "RETRACT_COMPLETE" \in suspend /\ state = "SAFETY_DOOR"
  /\ suspend' = suspend \ {"SAFETY_DOOR_AJAR"}
  /\ LET restart == "RESTART_RETRACT" \in suspend
     IN IF "INITIATE_RESTORE" \notin suspend
        THEN pc' = "alarm" /\ UNCHANGED <<coolant, nest>>
        ELSE IF modal /\ ~restart
             THEN SetCoolant(restore) /\ nest' = "delay" /\ pc' = "alarm"
             ELSE pc' = "restored" /\ UNCHANGED <<coolant, nest>>
  /\ UNCHANGED run

SuspendBody ==
  /\ pc \in {"body", "susp"}
  /\ \/ /\ suspend = {} \/ abort
        /\ nest' = "none"
        /\ pc' = ctx
        /\ UNCHANGED <<suspend, run, coolant>>
     \/ /\ suspend # {} /\ ~abort /\ Parks
        /\ Retract \/ FallAsleep \/ ParkedAtDoor
     \/ /\ suspend # {} /\ ~abort /\ ~Parks
        /\ pc' = "alarm"
        /\ UNCHANGED <<suspend, run, coolant, nest>>
  /\ UNCHANGED <<state, stepctl, softLimit, abort, flags, alarm, plan, segs, toggle, modal,
                 restore, ctx, snap, rmw, mode, input, history>>

\* Asleep: nothing but realtime commands until a reset; and for ever.
SleepForEver ==
  /\ pc = "sleep" /\ pc' = "alarm"
  /\ UNCHANGED <<sysVars, flags, alarm, motion, cool, ctx, nest, snap, rmw, mode, input, history>>
SleepLoop ==
  /\ pc = "sleep"
  /\ IF abort THEN nest' = "none" /\ pc' = ctx ELSE pc' = "alarm" /\ UNCHANGED nest
  /\ UNCHANGED <<sysVars, flags, alarm, motion, cool, ctx, snap, rmw, mode, input, history>>

\* delay_sec() in DELAY_MODE_SYS_SUSPEND: a reopened door or an abort cuts it short.
DelayCut == abort \/ "RESTART_RETRACT" \in suspend

DelayGoesOn ==
  /\ pc = "delay" /\ ~DelayCut
  /\ pc' = "alarm"
  /\ UNCHANGED <<sysVars, flags, alarm, motion, cool, ctx, nest, snap, rmw, mode, input, history>>

DelayEnds ==
  /\ pc = "delay"
  /\ pc' = "restored"
  /\ UNCHANGED <<sysVars, flags, alarm, motion, cool, ctx, nest, snap, rmw, mode, input, history>>

\* The end of the restore: resume the program, unless the door reopened.
Restored ==
  /\ pc = "restored"
  /\ nest' = "loop"
  /\ IF "RESTART_RETRACT" \in suspend
     THEN pc' = "alarm" /\ UNCHANGED <<suspend, rmw>>
     ELSE suspend' = suspend \cup {"RESTORE_COMPLETE"} /\ RmwLoad({"CYCLE_START"}, {}, "alarm")
  /\ UNCHANGED <<state, stepctl, softLimit, abort, flags, alarm, motion, cool, ctx, snap, mode,
                 input, history>>

----------------------------------------------------------------------------
(* The main program: loop(), protocol_main_loop() and what a line does.     *)

\* Call protocol_execute_realtime() and come back to c.
Execute(c) == ctx' = c /\ pc' = "alarm"
\* Set a flag first, then call it.
FlagAndExecute(f, c) == ctx' = c /\ RmwLoad({f}, {}, "alarm")
\* protocol_auto_cycle_start(), then protocol_execute_realtime(); and without the first.
NoAutoStart(c) == Execute(c) /\ UNCHANGED rmw
AutoStart(c) ==
  IF plan > 0 THEN FlagAndExecute("CYCLE_START", c) ELSE Execute(c) /\ UNCHANGED rmw

\* loop(): everything is cleared but an alarm (or sleep, which becomes one).
\* Limit switches found closed also alarm.
Reinit ==
  /\ pc = "init"
  /\ IF state \in {"ALARM", "SLEEP"} THEN state' = "ALARM" ELSE state' \in {"IDLE", "ALARM"}
  /\ suspend' = {} /\ stepctl' = {} /\ softLimit' = FALSE /\ abort' = FALSE
  /\ flags' = {} /\ alarm' = "none" /\ toggle' = FALSE
  /\ modal' = FALSE /\ coolant' = FALSE
  /\ FlushMotion
  /\ pc' = "loop"
  /\ killed' = FALSE /\ userStart' = FALSE /\ lost' = {}
  /\ UNCHANGED <<restore, ctx, nest, snap, rmw, mode, input>>

\* No more characters: start what is queued, and check in.
IdleStep ==
  /\ pc = "loop"
  /\ AutoStart("idle")
  /\ UNCHANGED <<sysVars, flags, alarm, motion, cool, nest, snap, mode, input, history>>

\* The end of a line was read.
LineArrives ==
  /\ pc = "loop" /\ lines < MaxLines
  /\ lines' = lines + 1
  /\ Execute("line")
  /\ UNCHANGED <<sysVars, flags, alarm, motion, cool, nest, snap, rmw, mode, cmds, history>>

\* sys.abort returns from the main loop; otherwise the loop goes on.
IdleReturns ==
  /\ pc = "idle"
  /\ pc' = IF abort THEN "init" ELSE "loop"
  /\ UNCHANGED <<sysVars, flags, alarm, motion, cool, ctx, nest, snap, rmw, mode, input, history>>

LineAborted ==
  /\ pc = "line" /\ abort
  /\ pc' = "init"
  /\ UNCHANGED <<sysVars, flags, alarm, motion, cool, ctx, nest, snap, rmw, mode, input, history>>

\* A line is dispatched once its realtime check did not abort.
Dispatched == pc = "line" /\ ~abort
Dispatch(line) == Dispatched /\ line \in Inputs
\* G-code is locked out in an alarm or during a jog.
GcodeAllowed == state \notin {"ALARM", "JOG"}

\* A rejected line, or one that changes none of this.
LineOther ==
  /\ Dispatch("other")
  /\ pc' = "loop"
  /\ UNCHANGED <<sysVars, flags, alarm, motion, cool, ctx, nest, snap, rmw, mode, input, history>>

\* mc_line() within the soft limits.
LineMotion ==
  /\ Dispatch("motion") /\ GcodeAllowed
  /\ IF state = "CHECK_MODE" THEN pc' = "loop" /\ UNCHANGED ctx ELSE Execute("mc")
  /\ UNCHANGED <<sysVars, flags, alarm, motion, cool, nest, snap, rmw, mode, input, history>>

\* mc_line() outside of them: a cycle is held first, anything else is killed.
LineSoftLimit ==
  /\ Dispatch("bad_motion") /\ GcodeAllowed /\ SoftLimits
  /\ softLimit' = TRUE
  /\ IF state = "CYCLE"
     THEN FlagAndExecute("FEED_HOLD", "soft")
     ELSE McReset("softAlarm") /\ UNCHANGED ctx
  /\ UNCHANGED <<state, suspend, stepctl, abort, flags, alarm, motion, cool, nest, snap,
                 mode, input, history>>

\* limits_soft_check() waits for the cycle to end, then kills all.
SoftWait ==
  /\ pc = "soft"
  /\ CASE abort                      -> Execute("mc") /\ UNCHANGED rmw
       [] ~abort /\ state # "IDLE"   -> Execute("soft") /\ UNCHANGED rmw
       [] ~abort /\ state = "IDLE"   -> McReset("softAlarm") /\ UNCHANGED ctx
  /\ UNCHANGED <<sysVars, flags, alarm, motion, cool, nest, snap, mode, input, history>>

SoftAlarm ==
  /\ pc = "softAlarm"
  /\ alarm' = "SOFT_LIMIT"
  /\ Execute("softEnd")
  /\ UNCHANGED <<sysVars, flags, motion, cool, nest, snap, rmw, mode, input, history>>

\* mc_line() goes on after the check, if only to find the abort.
SoftEnd ==
  /\ pc = "softEnd"
  /\ Execute("mc")
  /\ UNCHANGED <<sysVars, flags, alarm, motion, cool, nest, snap, rmw, mode, input, history>>

\* plan_check_full_buffer(), and an off-by-one in it.
PlannerOverfull == plan > MaxBlocks
PlannerFull == plan = MaxBlocks

\* mc_line() waits for room, then plans. A move of no length plans nothing.
PlanLine ==
  /\ pc \in {"mc", "jog"}
  /\ LET done == IF pc = "jog" THEN "jogged" ELSE "loop"
     IN \/ abort /\ pc' = done /\ UNCHANGED <<plan, rmw>>
        \/ ~abort /\ PlannerFull /\ RmwLoad({"CYCLE_START"}, {}, "mcwait") /\ UNCHANGED plan
        \/ ~abort /\ ~PlannerFull /\ plan' \in {plan, plan + 1} /\ pc' = done /\ UNCHANGED rmw
  /\ UNCHANGED <<sysVars, flags, alarm, segs, run, cool, ctx, nest, snap, mode, input, history>>

PlanWait ==
  /\ pc = "mcwait"
  /\ pc' = "alarm"
  /\ UNCHANGED <<sysVars, flags, alarm, motion, cool, ctx, nest, snap, rmw, mode, input, history>>

\* $J=
LineJog ==
  /\ Dispatch("jog") /\ state \in {"IDLE", "JOG"}
  /\ Execute("jog")
  /\ UNCHANGED <<sysVars, flags, alarm, motion, cool, nest, snap, rmw, mode, input, history>>

\* A planned jog starts by itself, from IDLE.
JogStart ==
  /\ pc = "jogged"
  /\ IF state = "IDLE" /\ plan > 0
     THEN state' = "JOG" /\ PrepBuffer(stepctl) /\ pc' = "jogwake"
     ELSE pc' = "loop" /\ UNCHANGED <<state, stepctl, plan, segs>>
  /\ UNCHANGED <<suspend, softLimit, abort, flags, alarm, run, cool, ctx, nest, snap, rmw,
                 mode, input, history>>

JogWake ==
  /\ pc = "jogwake"
  /\ run' = TRUE
  /\ pc' = "loop"
  /\ UNCHANGED <<sysVars, flags, alarm, plan, segs, cool, ctx, nest, snap, rmw, mode, input, history>>

\* $X
LineUnlock ==
  /\ Dispatch("unlock") /\ state = "ALARM"
  /\ state' = "IDLE"
  /\ pc' = "loop"
  /\ UNCHANGED <<suspend, stepctl, softLimit, abort, flags, alarm, motion, cool, ctx, nest,
                 snap, rmw, mode, input, history>>

\* $C
LineCheckMode ==
  /\ Dispatch("check") /\ state \in {"CHECK_MODE", "IDLE"}
  /\ IF state = "CHECK_MODE"
     THEN McReset("loop") /\ UNCHANGED state
     ELSE state' = "CHECK_MODE" /\ pc' = "loop" /\ UNCHANGED rmw
  /\ UNCHANGED <<suspend, stepctl, softLimit, abort, flags, alarm, motion, cool, ctx, nest,
                 snap, mode, input, history>>

\* $SLP
LineSleep ==
  /\ Dispatch("sleep") /\ state \in {"IDLE", "ALARM"}
  /\ RmwLoad({"SLEEP"}, {}, "loop")
  /\ UNCHANGED <<sysVars, flags, alarm, motion, cool, ctx, nest, snap, mode, input, history>>

\* M8, M9: coolant_sync(), when it changes the mode.
LineCoolant ==
  /\ Dispatch("M8") /\ GcodeAllowed
  /\ IF state = "CHECK_MODE"
     THEN modal' = ~modal /\ pc' = "loop" /\ UNCHANGED <<mode, ctx, rmw>>
     ELSE mode' = ~modal /\ AutoStart("sync") /\ UNCHANGED modal
  /\ UNCHANGED <<sysVars, flags, alarm, motion, toggle, coolant, restore, nest, snap, input,
                 history>>

\* M0: the program pauses in a feed hold once all is executed.
LinePause ==
  /\ Dispatch("M0") /\ GcodeAllowed
  /\ AutoStart("pause")
  /\ UNCHANGED <<sysVars, flags, alarm, motion, cool, nest, snap, mode, input, history>>

\* protocol_buffer_synchronize() is over: coolant_sync() sets the coolant, M0 holds.
Synced ==
  \/ /\ ctx = "sync"
     /\ SetCoolant(mode)
     /\ modal' = mode
     /\ pc' = "loop"
     /\ UNCHANGED <<ctx, rmw>>
  \/ /\ ctx = "pause"
     /\ IF state = "CHECK_MODE" THEN pc' = "loop" /\ UNCHANGED <<ctx, rmw>>
                                ELSE FlagAndExecute("FEED_HOLD", "flow")
     /\ UNCHANGED <<coolant, modal>>

Synchronize ==
  /\ \/ /\ pc \in {"sync", "pause"}
        /\ IF abort THEN Synced ELSE pc' = "syncwait" /\ UNCHANGED <<coolant, modal, ctx, rmw>>
     \/ /\ pc = "syncwait"
        /\ IF plan > 0 \/ state = "CYCLE"
           THEN pc' = "alarm" /\ UNCHANGED <<coolant, modal, ctx, rmw>>
           ELSE Synced
  /\ UNCHANGED <<sysVars, flags, alarm, motion, toggle, restore, nest, snap, mode, input, history>>

FlowReturns ==
  /\ pc = "flow"
  /\ pc' = "loop"
  /\ UNCHANGED <<sysVars, flags, alarm, motion, cool, ctx, nest, snap, rmw, mode, input, history>>

----------------------------------------------------------------------------
(* The poll task and the interrupts.                                        *)

\* One of the MaxCmds events.
Event(k) == k \in Inputs /\ cmds < MaxCmds /\ cmds' = cmds + 1

\* A realtime character and what it flags. Jog cancel is dropped outside a jog.
CharFlag == [c \in {"start", "hold", "door", "jog_cancel"} |->
               CASE c = "start" -> "CYCLE_START" [] c = "hold" -> "FEED_HOLD"
                 [] c = "door" -> "SAFETY_DOOR" [] c = "jog_cancel" -> "MOTION_CANCEL"]

PollFlag ==
  /\ pc \in YieldPoints
  /\ \E c \in DOMAIN CharFlag :
       /\ Event(c)
       /\ c = "jog_cancel" => state = "JOG"
       /\ RmwLoad({CharFlag[c]}, {}, pc)
       /\ userStart' = (userStart \/ c = "start")
  /\ UNCHANGED <<sysVars, flags, alarm, motion, cool, ctx, nest, snap, mode, lines, killed, lost>>

\* Ctrl-X
PollReset ==
  /\ pc \in YieldPoints /\ Event("reset")
  /\ "RESET" \notin flags
  /\ McReset(pc)
  /\ UNCHANGED <<sysVars, flags, alarm, motion, cool, ctx, nest, snap, mode, lines, history>>

PollCoolant ==
  /\ pc \in YieldPoints /\ Event("coolant")
  /\ toggle' = TRUE
  /\ UNCHANGED <<sysVars, flags, alarm, motion, coolant, modal, restore, where, lines, history>>

\* Control pins set flags at any time: here the interrupt is one step.
PinFlag ==
  /\ \/ Event("pin_start") /\ flags' = flags \cup {"CYCLE_START"} /\ userStart' = TRUE
     \/ Event("pin_hold") /\ flags' = flags \cup {"FEED_HOLD"} /\ UNCHANGED userStart
  /\ UNCHANGED <<sysVars, alarm, motion, cool, where, lines, killed, lost>>

\* mc_reset() as one step of an interrupt.
PinReset ==
  /\ Event("pin_reset")
  /\ "RESET" \notin flags
  /\ flags' = flags \cup {"RESET"}
  /\ KillAll
  /\ UNCHANGED <<sysVars, plan, segs, toggle, modal, restore, where, lines, userStart, lost>>

\* pin_limit_vect(): mc_reset(), and the alarm of a hard limit over the one it raised.
LimitHit ==
  /\ Event("limit")
  /\ state # "ALARM" /\ alarm = "none"
  /\ alarm' = "HARD_LIMIT"
  /\ IF "RESET" \in flags
     THEN UNCHANGED <<flags, coolant, run, killed>>
     ELSE flags' = flags \cup {"RESET"} /\ Kill
  /\ UNCHANGED <<sysVars, plan, segs, toggle, modal, restore, where, lines, userStart, lost>>

\* Bugs in the stepper timer: it goes on after the last segment, or stops unnoticed.
StepperGoesOn ==
  /\ run
  /\ IF segs > 0 THEN segs' = segs - 1 /\ UNCHANGED flags
                 ELSE flags' = flags \cup {"CYCLE_STOP"} /\ UNCHANGED segs
  /\ UNCHANGED <<sysVars, alarm, plan, run, cool, where, input, history>>
StepperStopsUnnoticed ==
  /\ run
  /\ IF segs > 0 THEN segs' = segs - 1 /\ UNCHANGED run ELSE run' = FALSE /\ UNCHANGED segs
  /\ UNCHANGED <<sysVars, flags, alarm, plan, cool, where, input, history>>

\* The stepper timer: execute a segment, or find none and end the cycle.
StepperIsr ==
  /\ run
  /\ IF segs > 0
     THEN segs' = segs - 1 /\ UNCHANGED <<run, flags>>
     ELSE run' = FALSE /\ flags' = flags \cup {"CYCLE_STOP"} /\ UNCHANGED segs
  /\ UNCHANGED <<sysVars, alarm, plan, cool, where, input, history>>

----------------------------------------------------------------------------

Init ==
  /\ state \in {"IDLE", "ALARM"}
  /\ suspend = {} /\ stepctl = {} /\ softLimit = FALSE /\ abort = FALSE
  /\ flags = {} /\ alarm = "none"
  /\ plan = 0 /\ segs = 0 /\ run = FALSE
  /\ toggle = FALSE /\ coolant = FALSE /\ modal = FALSE /\ restore = FALSE
  /\ pc = "init" /\ ctx = "idle" /\ nest = "none" /\ snap = {} /\ rmw = NoRmw /\ mode = FALSE
  /\ cmds = 0 /\ lines = 0
  /\ userStart = FALSE /\ killed = FALSE /\ lost = {}

ExecSystem == RtAlarm \/ RtCritical \/ RtState \/ RtHold \/ RtStart \/ RtWake \/ RtStop \/ RtOverride
ExecSuspend == EnterSuspend \/ SuspendBody \/ SleepLoop \/ DelayGoesOn \/ DelayEnds \/ Restored
ExecLine ==
  \/ LineAborted \/ LineOther \/ LineMotion \/ LineSoftLimit \/ LineJog \/ LineUnlock
  \/ LineCheckMode \/ LineSleep \/ LineCoolant \/ LinePause
Continue ==
  \/ IdleReturns \/ SoftWait \/ SoftAlarm \/ SoftEnd \/ PlanLine \/ PlanWait
  \/ JogStart \/ JogWake \/ Synchronize \/ FlowReturns

\* Everything the main program does without new input.
Main == ExecSystem \/ ExecSuspend \/ ExecLine \/ Continue \/ Reinit \/ IdleStep \/ RmwStore \/ McResetKill

Poll == PollFlag \/ PollReset \/ PollCoolant
Pins == PinFlag \/ PinReset \/ LimitHit

Next == Main \/ LineArrives \/ Poll \/ Pins \/ StepperIsr

Spec == Init /\ [][Next]_vars

\* The processor keeps running the main program and the timer keeps firing. A
\* restore's delay counts down, so it does not go on for ever.
Fairness == WF_vars(Main) /\ SF_vars(DelayEnds) /\ WF_vars(StepperIsr)

LiveSpec == Spec /\ Fairness

----------------------------------------------------------------------------
(* Properties. Those that a lost flag byte store breaks say so: `lost` is    *)
(* empty as long as no interrupt hit a |= or &= ~ half way.                  *)

RmwType == [tmp : SUBSET ExecFlags, set : SUBSET ExecFlags, clr : SUBSET ExecFlags, next : Points]

TypeSys    == /\ state \in States /\ suspend \in SUBSET Suspends
              /\ stepctl \in SUBSET StepControls /\ softLimit \in BOOLEAN /\ abort \in BOOLEAN
TypeFlags  == /\ flags \in SUBSET ExecFlags /\ alarm \in Alarms /\ snap \in SUBSET ExecFlags
              /\ rmw \in RmwType /\ lost \in SUBSET ExecFlags
TypeMotion == plan \in 0..MaxBlocks /\ segs \in 0..MaxSegs /\ run \in BOOLEAN
TypeCool   == /\ toggle \in BOOLEAN /\ coolant \in BOOLEAN /\ modal \in BOOLEAN
              /\ restore \in BOOLEAN /\ mode \in BOOLEAN
TypeWhere  == pc \in Points /\ ctx \in Callers /\ nest \in {"none", "loop", "sleep", "delay"}
TypeInput  == /\ cmds \in 0..MaxCmds /\ lines \in 0..MaxLines
              /\ userStart \in BOOLEAN /\ killed \in BOOLEAN
TypeOK == TypeSys /\ TypeFlags /\ TypeMotion /\ TypeCool /\ TypeWhere /\ TypeInput

HoldStates == {"HOLD", "SAFETY_DOOR", "SLEEP"}
MovingStates == {"CYCLE", "JOG"}

\* Once the hold is said to be complete the steppers are off, so that the suspend
\* routine may de-energize and the user may touch the machine.
HeldIsStill ==
  lost = {} /\ state \in HoldStates /\ "HOLD_COMPLETE" \in suspend => ~run

\* A machine that is in a motion state, or still coming to a hold, with its stepper
\* interrupt off has a wake-up, a cycle stop or a reset on its way: none is dropped.
NeverStranded ==
  lost = {} /\ ~run /\ (\/ state \in MovingStates
                        \/ state \in HoldStates /\ "HOLD_COMPLETE" \notin suspend)
    => \/ pc \in {"wake", "jogwake", "init"}
       \/ {"CYCLE_STOP", "RESET"} \cap (flags \cup snap) # {}

\* Auto-cycle start never resumes a hold or a safety door: only a cycle start the
\* user asked for after it does. (A feed hold while the door is open or restoring
\* is dropped by the code, and so asks for nothing here.) The one exception is the
\* start that ends the door's restore, when it comes late: see HoldNeedsUser.
ResumeNeedsUser ==
  [][state' = "CYCLE" /\ state \in {"HOLD", "SAFETY_DOOR"} =>
       userStart \/ (state = "HOLD" /\ "RESTORE_COMPLETE" \in suspend)]_vars

\* Why: an inductive invariant that implies ResumeNeedsUser. At is where the main
\* program goes on once the store or the mc_reset() in progress is done.
At == IF pc \in {"rmw", "kill"} THEN rmw.next ELSE pc
MainPoints == Callers \cup {"init", "loop", "mcwait", "syncwait", "jogged", "jogwake", "softAlarm"}
BeforeStart == MainPoints \cup {"alarm", "crit", "state"}

\* An abort holds the reset flag that caused it, or is waiting for another.
AbortKeepsReset ==
  /\ abort => \/ At = "crit"
              \/ /\ "RESET" \in flags
                 /\ pc = "rmw" => "RESET" \in rmw.tmp /\ "RESET" \notin rmw.clr
  /\ At \in {"hold", "start", "wake", "stop", "ovr"} => ~abort

\* nest says which part of the suspend routine the main program is in; outside of it
\* nothing is suspended until a hold is executed.
MainIsNotSuspended ==
  /\ At \in {"body", "susp"} => nest = "loop"
  /\ At = "restored" => nest \in {"loop", "delay"}
  /\ At \in {"sleep", "delay"} => nest = At
  /\ At \in MainPoints => nest = "none"
  /\ nest = "none" /\ At \in BeforeStart \cup {"hold"} => suspend = {} \/ abort

\* A store in progress loaded flags that are still set, and is not nested.
StoreIsFresh ==
  /\ pc \in {"rmw", "kill"} => rmw.next \notin {"rmw", "kill"}
  /\ pc = "rmw" => rmw.tmp \subseteq flags /\ rmw.set \cap rmw.clr = {}

\* A sleep command is taken by the next pass, before anything is suspended.
SleepIsFromLine ==
  /\ "SLEEP" \in flags \/ (pc = "rmw" /\ "SLEEP" \in rmw.set) =>
       \/ abort \/ (nest = "none" /\ At \in BeforeStart)
       \/ At = "hold" /\ "SLEEP" \in snap
       \/ pc = "rmw" /\ "SLEEP" \in rmw.clr
  /\ At = "hold" /\ "SLEEP" \in snap => nest = "none"

\* A restore is under way only behind a closed door, and never while a jog is cancelled.
RestoreIsAtDoor ==
  /\ "INITIATE_RESTORE" \in suspend => /\ state \in {"SAFETY_DOOR", "ALARM"}
                                       /\ "SAFETY_DOOR_AJAR" \notin suspend
  /\ "JOG_CANCEL" \in suspend => state \in {"JOG", "ALARM"}
  /\ (nest = "delay" \/ At \in {"restored", "delay"}) /\ state = "SAFETY_DOOR" =>
       suspend \cap {"INITIATE_RESTORE", "SAFETY_DOOR_AJAR"} # {}

\* A cycle start nobody asked for is one the main program just set itself, with
\* nothing suspended, or the late end of a restore, or is about to be cleared.
LateRestore ==
  /\ At \in {"alarm", "crit", "state"} /\ nest = "loop"
  /\ "RESTORE_COMPLETE" \in suspend
  /\ state = "SAFETY_DOOR" => "SAFETY_DOOR_AJAR" \in suspend

StartIsAskedFor ==
  /\ "CYCLE_START" \in flags /\ ~userStart =>
       \/ abort \/ (nest = "none" /\ At \in BeforeStart) \/ LateRestore
       \/ At \in {"hold", "start", "wake"} /\ "CYCLE_START" \in snap
       \/ pc = "rmw" /\ "CYCLE_START" \in rmw.clr
  /\ pc = "rmw" /\ "CYCLE_START" \in rmw.set /\ ~userStart =>
       abort \/ (nest = "none" /\ At \in BeforeStart) \/ LateRestore
  /\ At \in {"hold", "start"} /\ StartHeard /\ ~userStart =>
       \/ suspend = {} \/ state = "SLEEP"
       \/ "RESTORE_COMPLETE" \in suspend /\ (state = "SAFETY_DOOR" => "SAFETY_DOOR_AJAR" \in suspend)
  /\ "INITIATE_RESTORE" \in suspend /\ ~userStart =>
       At = "hold" /\ "SAFETY_DOOR" \in snap /\ state = "SAFETY_DOOR"
  /\ At = "hold" => snap \cap HoldFlags # {}

ResumeInv ==
  /\ AbortKeepsReset /\ MainIsNotSuspended /\ StoreIsFresh /\ SleepIsFromLine
  /\ RestoreIsAtDoor /\ StartIsAskedFor

\* An alarm is left by $X, by a reset or into sleep; no late cycle stop or cycle
\* start unlocks the machine.
AlarmLocks ==
  [][lost = {} /\ state = "ALARM" /\ state' # "ALARM" => pc = "line" \/ state' = "SLEEP"]_vars

\* De-energized means off: from the end of the retraction to the restore, and
\* asleep, nothing turns the coolant on. (A reset lost asleep leaves an alarm from
\* which a late cycle stop makes an IDLE machine that is still in the sleep loop.)
ParkedIsOff ==
  /\ lost = {} /\ pc = "sleep" => ~coolant
  /\ state = "SAFETY_DOOR" /\ "RETRACT_COMPLETE" \in suspend
       /\ "INITIATE_RESTORE" \notin suspend => ~coolant

\* A line that is dispatched in IDLE, ALARM or check mode finds the steppers off:
\* $X, settings and homing never touch a moving machine.
IdleIsStill ==
  lost = {} /\ Dispatched /\ state \in {"IDLE", "ALARM", "CHECK_MODE"} => ~run

\* Why these hold: more inductive invariants. ControlInv is about how the main program
\* gets around, StillInv is behind HeldIsStill, NeverStranded, IdleIsStill and AlarmLocks,
\* ParkedInv behind ParkedIsOff.
\* protocol_execute_realtime() returns to its caller, the main loop to loop().
ReturnsToCaller ==
  /\ At \in Callers => ctx = At
  /\ At = "init" => ctx \in {"idle", "line"}
  /\ ctx \in {"soft", "softEnd"} /\ At \in MainPoints => At \in {"soft", "softAlarm", "softEnd"}

\* Only the stepper interrupt sets EXEC_CYCLE_STOP, only the critical loop clears
\* EXEC_RESET, and no wake-up waits for a store.
StoresAsCoded ==
  /\ pc \in {"rmw", "kill"} => rmw.next \notin {"wake", "jogwake"}
  /\ pc = "rmw" => "CYCLE_STOP" \notin rmw.set /\ ("RESET" \in rmw.clr => rmw.next = "crit")

\* A soft limit ends in an abort before mc_line() goes on.
SoftLimitAborts ==
  /\ At = "softAlarm" => "RESET" \in IF pc = "rmw" THEN rmw.set ELSE flags
  /\ ctx = "softEnd" => \/ abort \/ At = "crit"
                        \/ pc = "alarm" /\ alarm = "SOFT_LIMIT" /\ "RESET" \in flags
                        \/ pc = "state" /\ "RESET" \in flags
  /\ softLimit => abort \/ At = "softAlarm" \/ ctx \in {"soft", "softEnd"}

\* Sleep comes from rest, and is a complete hold.
SleepFromRest ==
  /\ "SLEEP" \in flags \/ (pc = "rmw" /\ "SLEEP" \in rmw.set) =>
       \/ abort
       \/ At \in {"loop", "alarm", "crit", "state"} /\ state \in {"IDLE", "ALARM"} /\ ~softLimit
       \/ At = "hold" /\ "SLEEP" \in snap
       \/ pc = "rmw" /\ "SLEEP" \in rmw.clr
  /\ At = "hold" /\ "SLEEP" \in snap => state \in {"IDLE", "ALARM"} /\ ~softLimit
  /\ state = "SLEEP" => abort \/ (~softLimit /\ "HOLD_COMPLETE" \in suspend)

ControlInv == ReturnsToCaller /\ StoresAsCoded /\ SoftLimitAborts /\ SleepFromRest

\* A reset is under way, and the pass in progress will find it: the main program
\* does not get to dispatch a line.
ResetComes == abort \/ At = "crit" \/ "RESET" \in flags
ResetFound == abort \/ At = "crit" \/ (At = "state" /\ "RESET" \in flags)

\* An alarm was raised by a reset, and only the critical loop clears that flag.
AlarmHasReset ==
  /\ alarm # "none" => ResetComes
  /\ At = "crit" => state = "ALARM"
  /\ pc = "kill" => "RESET" \in flags

\* The stepper ran dry and no pass has dealt with it; or one just did.
StopClears == pc = "rmw" /\ "CYCLE_STOP" \in rmw.clr
StopComes == \/ "CYCLE_STOP" \in flags /\ ~StopClears
             \/ At \in {"hold", "start", "stop"} /\ "CYCLE_STOP" \in snap

\* The steppers run, or a cycle stop is under way, only in these states.
Decelerating == state \in HoldStates /\ "HOLD_COMPLETE" \notin suspend
CanRun == \/ state \in MovingStates
          \/ Decelerating /\ "EXECUTE_HOLD" \in stepctl
          \/ state = "ALARM" /\ ResetFound
RunsInMotion ==
  /\ run \/ StopComes => CanRun
  /\ StopComes \/ StopClears => ~run
  /\ pc = "wake" => state = "CYCLE" /\ ~run /\ ~StopComes /\ "CYCLE_STOP" \notin snap
  /\ pc = "jogwake" => state = "JOG" /\ ~run /\ ~StopComes

\* Motion that is not running has a reason to go on or to end.
MotionEnds ==
  ~run /\ (state \in MovingStates \/ Decelerating) =>
    pc \in {"wake", "jogwake"} \/ StopComes \/ "RESET" \in flags

\* A cancel is executed as a hold, and motion is not held yet.
CancelIsHold ==
  state \in MovingStates /\ ~abort =>
    /\ "HOLD_COMPLETE" \notin suspend
    /\ suspend \cap {"MOTION_CANCEL", "JOG_CANCEL"} # {} => "EXECUTE_HOLD" \in stepctl

\* Retraction and restore are for a complete hold.
ParkedIsHeld ==
  /\ suspend \cap {"RETRACT_COMPLETE", "INITIATE_RESTORE"} # {} => "HOLD_COMPLETE" \in suspend
  /\ state = "SAFETY_DOOR" /\ "RESTORE_COMPLETE" \in suspend =>
       suspend \cap {"SAFETY_DOOR_AJAR", "HOLD_COMPLETE"} # {}

StillInv ==
  lost = {} => AlarmHasReset /\ RunsInMotion /\ MotionEnds /\ CancelIsHold /\ ParkedIsHeld

\* What is retracted is parked, and off once the retraction is done; a machine put
\* to sleep in an alarm is switched off when it falls asleep.
RetractedIsOff ==
  /\ "RETRACT_COMPLETE" \in suspend => state \in {"SAFETY_DOOR", "SLEEP", "ALARM"}
  /\ "RETRACT_COMPLETE" \in suspend /\ "INITIATE_RESTORE" \notin suspend =>
       \/ ~coolant
       \/ /\ state = "SLEEP" /\ ~abort
          /\ pc \in {"suspend", "body"} \/ (At \in {"start", "stop", "ovr"} /\ nest = "none")

AsleepIsOff == lost = {} /\ nest = "sleep" => state \in {"SLEEP", "ALARM"} /\ ~coolant

ParkedInv == RetractedIsOff /\ AsleepIsOff

\* All that the run checks and the proofs show to be inductive, together.
RealtimeInv == ResumeInv /\ ControlInv /\ StillInv /\ ParkedInv

\* A hold comes to its end, whatever the poll task and the pins do meanwhile.
HoldCompletes ==
  state = "HOLD" ~> (lost # {} \/ state # "HOLD" \/ "HOLD_COMPLETE" \in suspend)

\* A reset is taken: the main program gets back to its initialization from
\* wherever it is, or waits in the critical loop for another one.
ResetTaken == "RESET" \in flags ~> (lost # {} \/ pc \in {"init", "crit"})

\* The segment buffer ran dry in a synchronization: the cycle start was set once,
\* before the wait, so the rest of the plan waits for the user.
StarvedInWait == pc = "syncwait" /\ state = "IDLE" /\ ~run

\* What is planned gets executed, unless something stops the machine or a
\* synchronization is starved.
PlannedRuns ==
  plan > 0 ~> \/ lost # {} \/ plan = 0 \/ state \notin {"IDLE", "CYCLE", "JOG"}
              \/ StarvedInWait

\* protocol.cpp:336: "Ensures auto-cycle-start doesn't resume a hold without an
\* explicit user-input": nor does the start that ends a restore.
HoldNeedsUser == [][state = "HOLD" /\ state' = "CYCLE" => userStart]_vars

\* motion_control.cpp:366: a reset that stops running steppers "sets the system
\* alarm to flag position lost".
AbruptStopAlarms ==
  [][pc = "init" /\ (killed \/ run) => state' = "ALARM"]_vars

\* limits.cpp:341: buffered motion is safe, so a soft limit comes "to a controlled
\* stop so position is not lost": its reset never stops running steppers.
SoftLimitKeepsPosition ==
  [][pc = "kill" /\ rmw.next = "softAlarm" => run' = run]_vars

\* protocol.cpp:467: "the current run state can be determined by checking the parser
\* state": once the door's restore is done, the coolant is what the parser shows.
CoolantFollowsParser ==
  lost = {} /\ "RESET" \notin flags /\ pc = "restored" => coolant = modal
=============================================================================
