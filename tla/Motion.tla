------------------------------- MODULE Motion -------------------------------
(***************************************************************************)
(* The main program over the stepper's pipeline: motion and jog lines, feed  *)
(* hold and resume, jog cancel, the homing cycle, the probe cycle, resets    *)
(* and the limit pins' interrupt. Pipeline has st_prep_buffer() and the      *)
(* timer; where a step of the main program calls st_prep_buffer() it goes to *)
(* pc = "prep" with ret the step after it. ctx is the step after             *)
(* protocol_execute_realtime().                                              *)
(*                                                                          *)
(* mc_reset() and the flags of realtime commands and pins come between any   *)
(* two steps. The races inside one pass of the executor, the door and sleep   *)
(* are Realtime's, speeds are Planner's. Nothing is said of time, so the      *)
(* timer may find its ring empty while the main program is still busy.        *)
(***************************************************************************)
EXTENDS Pipeline

CONSTANTS
  MaxPlan,      \* BLOCK_BUFFER_SIZE - 1
  HomingCycles, \* HOMING_CYCLE_0, HOMING_CYCLE_1: sets of axes
  Travel,       \* step events of the search for a switch
  PullOff,      \* and of the move off it
  Scenarios     \* which lines and realtime commands may come and how many, the blocks
                \* a line may ask for, and where the switch of each axis is

Lines == {"move", "jog", "home", "probe", "probeAway", "unlock"}
Commands == {"hold", "start", "jogCancel", "reset"}

ASSUME MotionAssumption ==
  /\ MaxPlan \in Nat \ {0}
  /\ HomingCycles \in Seq((SUBSET Axes) \ {{}}) /\ HomingCycles # <<>>
  /\ Travel \in Nat \ {0} /\ PullOff \in Nat \ {0}
  /\ \A s \in Scenarios : /\ s.inputs \subseteq Lines \cup Commands
                          /\ s.lines \in Nat /\ s.cmds \in Nat
                          /\ \A a \in Axes : s.switch[a] \in Nat
                          /\ \A m \in s.moves : /\ m \in Blocks /\ m.events # 0
                                                /\ \A a \in Axes : m.steps[a] <= m.events

VARIABLES
  scenario,    \* a member of Scenarios (never changes)
  suspend,     \* sys.suspend
  alarm,       \* sys_rt_exec_alarm
  abort,       \* sys.abort
  snap,        \* rt_exec of the pass in progress
  plpos,       \* pl.position
  task,        \* the line in progress
  ctx,
  cycle,       \* homing: which of HomingCycles
  approach,    \* approaching the switches, or pulling off them
  phases,      \* n_cycle
  latch,       \* LIMIT_PORT_INPUTS
  attached,    \* the limit pin's interrupt is attached
  level,       \* history: the level of the limit pin last seen by the interrupt
  ids,         \* history: blocks so far
  synced,      \* history: motor and pos have not been set apart by a kill or by homing
  early,       \* history: a synchronize, or a probe cycle, ended before the motion did
  lines, cmds  \* inputs so far

realtime == <<suspend, alarm, abort, snap>>
homing == <<cycle, approach, phases>>
limits == <<latch, attached, level>>
input == <<lines, cmds>>
own == <<scenario, realtime, plpos, task, ctx, homing, limits, ids, synced, early, input>>
vars == <<stepperVars, own>>

States == {"IDLE", "ALARM", "CYCLE", "HOLD", "JOG", "HOMING"}
MotionStates == {"CYCLE", "HOLD", "HOMING", "JOG"}
Mask == HomingCycles[cycle]

\* The step after st_prep_buffer().
PrepThen(next) == pc' = "prep" /\ ret' = next
Goto(next) == pc' = next /\ UNCHANGED ret

\* The step after protocol_execute_realtime().
ExecuteThen(next) == pc' = "pass" /\ ctx' = next /\ UNCHANGED ret

-----------------------------------------------------------------------------
(* mc_reset() and the inputs that call it. *)

\* The limit pin: one line for all switches, pulled by any.
Pressed == {a \in Axes : motor[a] >= scenario.switch[a]}
PinLevel == Pressed # {}

MovingControl ==
  state \in {"CYCLE", "HOMING", "JOG"} \/ {"EXECUTE_HOLD", "SYS_MOTION"} \cap stepctl # {}

\* mc_reset(), with alarm al pending: the steppers are killed in any motion state.
McReset(al) ==
  IF "RESET" \in flags THEN alarm' = al /\ UNCHANGED <<flags, run, synced>>
  ELSE /\ flags' = flags \cup {"RESET"}
       /\ run' = (run /\ ~MovingControl)
       /\ synced' = (synced /\ ~(run /\ MovingControl))
       /\ alarm' = IF ~MovingControl \/ (state = "HOMING" /\ al # "none") THEN al
                   ELSE IF state = "HOMING" THEN "HOMING_FAIL_RESET" ELSE "ABORT_CYCLE"

Event(c) == c \in scenario.inputs /\ cmds < scenario.cmds /\ cmds' = cmds + 1

ResetPressed ==
  /\ Event("reset")
  /\ McReset(alarm)
  /\ UNCHANGED <<plan, system, state, stepctl, lock, away, probing, rings, prep, tracer, pc, ret,
                 suspend, abort, snap, plpos, task, ctx, homing, limits, ids, lines, scenario,
                 early>>

CommandFlag == [c \in Commands \ {"reset"} |->
  CASE c = "hold" -> "FEED_HOLD" [] c = "start" -> "CYCLE_START"
    [] c = "jogCancel" -> "MOTION_CANCEL"]

\* Pins at any time; a jog cancel only from the serial poll task, where delay() lets it run.
Command ==
  /\ \E c \in DOMAIN CommandFlag :
       /\ Event(c)
       /\ c = "jogCancel" => state = "JOG" /\ pc \in {"loop", "pass", "critical"}
       /\ flags' = flags \cup {CommandFlag[c]}
  /\ UNCHANGED <<plan, system, state, stepctl, lock, away, probing, rings, prep, run, tracer, pc,
                 ret, realtime, plpos, task, ctx, homing, limits, ids, synced, lines, scenario,
                 early>>

\* pin_limit_vect(): the first change scans the switches, the next forgets them.
LimitIsr ==
  /\ attached /\ PinLevel # level
  /\ level' = PinLevel
  /\ latch' = IF latch = {} THEN Pressed ELSE {}
  /\ IF state # "ALARM" /\ alarm = "none"
     THEN /\ flags' = flags \cup {"RESET"}
          /\ alarm' = "HARD_LIMIT"
          /\ IF "RESET" \in flags THEN UNCHANGED <<run, synced>>
             ELSE /\ run' = (run /\ ~MovingControl)
                  /\ synced' = (synced /\ ~(run /\ MovingControl))
     ELSE UNCHANGED <<flags, alarm, run, synced>>
  /\ UNCHANGED <<plan, system, state, stepctl, lock, away, probing, rings, prep, tracer, pc, ret,
                 suspend, abort, snap, plpos, task, ctx, homing, attached, ids, input,
                 scenario, early>>

-----------------------------------------------------------------------------
(* protocol_execute_realtime() *)

\* An alarm stops the machine; a limit's waits for another reset.
PassAlarm ==
  /\ pc = "pass" /\ alarm # "none"
  /\ state' = "ALARM"
  /\ IF alarm = "HARD_LIMIT"
     THEN flags' = flags \ {"RESET"} /\ pc' = "critical" /\ UNCHANGED alarm
     ELSE alarm' = "none" /\ pc' = "exec" /\ UNCHANGED flags
  /\ UNCHANGED <<plan, system, stepctl, lock, away, probing, rings, prep, run, tracer, ret,
                 suspend, abort, snap, plpos, task, ctx, homing, limits, ids, synced, input,
                 scenario, early>>

Critical ==
  /\ pc = "critical" /\ "RESET" \in flags
  /\ alarm' = "none"
  /\ Goto("exec")
  /\ UNCHANGED <<shared, rings, prep, run, tracer, suspend, abort, snap, plpos, task, ctx, homing,
                 limits, ids, synced, input, scenario, early>>

\* What the pass ends with: the segment buffer is filled in any motion state.
Refill(s) == IF s \in MotionStates THEN PrepThen("leave") ELSE Goto("leave")

Holds == {"FEED_HOLD", "MOTION_CANCEL"}
Stopping == state \in {"CYCLE", "JOG"} /\ suspend \cap {"MOTION_CANCEL", "JOG_CANCEL"} = {}

\* rt_exec is copied; an abort, or the hold family.
PassExec ==
  /\ pc = "exec" \/ (pc = "pass" /\ alarm = "none")
  /\ IF "RESET" \in flags
     THEN /\ abort' = TRUE
          /\ Goto("leave")
          /\ UNCHANGED <<state, stepctl, suspend, flags, snap, loaded, recalc>>
     ELSE IF flags = {}
     THEN Refill(state) /\ UNCHANGED <<abort, state, stepctl, suspend, flags, snap, loaded,
                                       recalc>>
     ELSE /\ snap' = flags
          /\ flags' = flags \ Holds
          /\ Goto("start")
          /\ UNCHANGED abort
          /\ IF flags \cap Holds = {} \/ state = "ALARM"
             THEN UNCHANGED <<state, stepctl, suspend, loaded, recalc>>
             ELSE /\ IF Stopping THEN stepctl' = {"EXECUTE_HOLD"} /\ Unloaded
                                 ELSE UNCHANGED <<stepctl, loaded, recalc>>
                  /\ suspend' =
                       (IF state = "IDLE" THEN {"HOLD_COMPLETE"} ELSE suspend)
                       \cup (IF Stopping /\ state = "JOG" THEN {"JOG_CANCEL"} ELSE {})
                       \cup (IF state # "JOG" THEN flags \cap {"MOTION_CANCEL"} ELSE {})
                  /\ state' = IF "FEED_HOLD" \in flags /\ state # "JOG" THEN "HOLD" ELSE state
  /\ UNCHANGED <<plan, system, lock, away, probing, rings, prepIndex, remaining, run, tracer,
                 alarm, plpos, task, ctx, homing, limits, ids, synced, input, scenario, early>>

StartHeard ==
  /\ "CYCLE_START" \in snap /\ snap \cap Holds = {}
  /\ state = "IDLE" \/ (state = "HOLD" /\ "HOLD_COMPLETE" \in suspend)

\* EXEC_CYCLE_START
PassStart ==
  /\ pc = "start"
  /\ IF StartHeard
     THEN /\ stepctl' = {} /\ suspend' = {}
          /\ IF plan # <<>> /\ "MOTION_CANCEL" \notin suspend
             THEN state' = "CYCLE" /\ PrepThen("wake") /\ UNCHANGED flags
             ELSE state' = "IDLE" /\ Goto("stop") /\ flags' = flags \ {"CYCLE_START"}
     ELSE /\ Goto("stop")
          /\ flags' = flags \ (snap \cap {"CYCLE_START"})
          /\ UNCHANGED <<state, stepctl, suspend>>
  /\ UNCHANGED <<plan, system, lock, away, probing, rings, prep, run, tracer, alarm, abort, snap,
                 plpos, task, ctx, homing, limits, ids, synced, input, scenario, early>>

PassWake ==
  /\ pc = "wake"
  /\ WakeUp
  /\ flags' = flags \ {"CYCLE_START"}
  /\ Goto("stop")
  /\ UNCHANGED <<plan, system, state, stepctl, lock, away, probing, rings, prep, tail, exec,
                 execIndex, count, counter, inc, dir, pos, motor, execId, own>>

\* Mutant: planner and parser keep the position a cancelled jog was to reach.
SyncForgotten == UNCHANGED plpos

\* gc_sync_position() and plan_sync_position()
SyncPosition == plpos' = pos

\* EXEC_CYCLE_STOP: a hold is complete and its block is put back, or the motion is;
\* a cancelled jog is flushed.
PassStop ==
  /\ pc = "stop"
  /\ snap' = {}
  /\ IF "CYCLE_STOP" \notin snap
     THEN /\ Refill(state)
          /\ UNCHANGED <<plan, state, stepctl, flags, suspend, run, plpos, rings, prep, tracer>>
     ELSE /\ flags' = flags \ {"CYCLE_STOP"}
          /\ IF state = "HOLD" /\ "JOG_CANCEL" \notin suspend
             THEN /\ Unloaded
                  /\ suspend' = IF "EXECUTE_HOLD" \in stepctl THEN suspend \cup {"HOLD_COMPLETE"}
                                                               ELSE suspend
                  /\ stepctl' = stepctl \ {"EXECUTE_HOLD", "SYS_MOTION"}
                  /\ Refill(state)
                  /\ UNCHANGED <<plan, state, run, plpos, rings, prepIndex, remaining, tracer>>
             ELSE /\ state' = "IDLE" /\ suspend' = {}
                  /\ Goto("leave")
                  /\ IF "JOG_CANCEL" \in suspend
                     THEN /\ stepctl' = {} /\ plan' = <<>>
                          /\ StepperReset /\ UNCHANGED pos
                          /\ SyncPosition
                     ELSE UNCHANGED <<plan, stepctl, run, plpos, rings, prep, tracer>>
  /\ UNCHANGED <<system, lock, away, probing, alarm, abort, task, ctx, homing, limits, ids,
                 synced, input, scenario, early>>

\* While suspended the program stays in protocol_exec_rt_suspend().
Leave ==
  /\ pc = "leave"
  /\ Goto(IF suspend # {} /\ ~abort THEN "pass" ELSE ctx)
  /\ UNCHANGED <<shared, rings, prep, run, tracer, own>>

-----------------------------------------------------------------------------
(* loop() and protocol_main_loop() *)

\* Mutant: homing leaves the limit pins' interrupt off.
RearmForgotten == UNCHANGED <<attached, level>>

\* limits_init()
Rearm == attached' = TRUE /\ level' = PinLevel

\* Everything is initialized but the position and an alarm; a limit switch latched by
\* the interrupt is one.
Reinit ==
  /\ pc = "init"
  /\ abort' = FALSE /\ suspend' = {} /\ stepctl' = {} /\ lock' = {} /\ flags' = {}
  /\ alarm' = "none" /\ probing' = FALSE /\ away' = FALSE
  /\ Rearm
  /\ plan' = <<>> /\ system' = NoBlock /\ ids' = 0
  /\ StepperReset /\ UNCHANGED pos
  /\ SyncPosition
  /\ synced' = (synced /\ ~run)
  /\ state' = IF state = "ALARM" \/ latch # {} THEN "ALARM" ELSE "IDLE"
  /\ task' = "none" /\ snap' = {}
  /\ Goto("loop")
  /\ UNCHANGED <<ctx, homing, latch, input, scenario, early>>

\* Nothing to read: queued motion is started.
AutoStart == flags' = flags \cup (IF plan # <<>> THEN {"CYCLE_START"} ELSE {})

Idle ==
  /\ pc = "loop"
  /\ AutoStart
  /\ ExecuteThen("idle")
  /\ UNCHANGED <<plan, system, state, stepctl, lock, away, probing, rings, prep, run, tracer,
                 realtime, plpos, task, homing, limits, ids, synced, input, scenario, early>>

IdleReturns ==
  /\ pc = "idle"
  /\ Goto(IF abort THEN "init" ELSE "loop")
  /\ UNCHANGED <<shared, rings, prep, run, tracer, own>>

\* A line ends: the realtime commands first.
LineArrives ==
  /\ pc = "loop" /\ lines < scenario.lines
  /\ lines' = lines + 1
  /\ \E t \in Lines \cap scenario.inputs : task' = t
  /\ ExecuteThen("line")
  /\ UNCHANGED <<shared, rings, prep, run, tracer, realtime, plpos, homing, limits, ids,
                 synced, cmds, scenario, early>>

Line(S) == pc = "line" /\ ~abort /\ task \in S
GcodeAllowed == state \notin {"ALARM", "JOG"}

\* Aborted, refused, or $X.
LineEnds ==
  /\ pc = "line"
  /\ \/ abort /\ Goto("init") /\ UNCHANGED state
     \/ /\ Line({"move", "probe", "probeAway"}) /\ ~GcodeAllowed
        /\ Goto("loop") /\ UNCHANGED state
     \/ Line({"jog"}) /\ state \notin {"IDLE", "JOG"} /\ Goto("loop") /\ UNCHANGED state
     \/ Line({"home"}) /\ state \notin {"IDLE", "ALARM"} /\ Goto("loop") /\ UNCHANGED state
     \/ Line({"unlock"}) /\ Goto("loop") /\ state' = IF state = "ALARM" THEN "IDLE" ELSE state
  /\ UNCHANGED <<plan, system, stepctl, flags, lock, away, probing, rings, prep, run, tracer,
                 own>>

\* mc_line() of a motion or a jog.
LineMotion ==
  /\ \/ Line({"move"}) /\ GcodeAllowed
     \/ Line({"jog"}) /\ state \in {"IDLE", "JOG"}
  /\ ExecuteThen("mc")
  /\ UNCHANGED <<shared, rings, prep, run, tracer, realtime, plpos, task, homing, limits, ids,
                 synced, input, scenario, early>>

\* Where the line goes on after mc_line().
Planned == CASE task = "jog" -> "jogged" [] task \in {"probe", "probeAway"} -> "probing"
             [] OTHER -> "loop"

\* The plan is full, or the line is aborted.
McWait ==
  /\ pc = "mc"
  /\ IF abort THEN Goto(Planned) /\ UNCHANGED <<flags, ctx>>
     ELSE Len(plan) = MaxPlan /\ AutoStart /\ ExecuteThen("mc")
  /\ UNCHANGED <<plan, system, state, stepctl, lock, away, probing, rings, prep, run, tracer,
                 realtime, plpos, task, homing, limits, ids, synced, input, scenario, early>>

McPlan ==
  /\ pc = "mc" /\ ~abort /\ Len(plan) < MaxPlan
  /\ \E m \in scenario.moves :
       /\ plan' = Append(plan, [m EXCEPT !.id = ids + 1])
       /\ plpos' = [a \in Axes |-> IF a \in m.back THEN plpos[a] - m.steps[a]
                                                    ELSE plpos[a] + m.steps[a]]
  /\ ids' = ids + 1
  /\ Goto(Planned)
  /\ UNCHANGED <<system, state, stepctl, flags, lock, away, probing, rings, prep, run, tracer,
                 realtime, task, ctx, homing, limits, synced, input, scenario, early>>

\* jog_execute() starts the first jog itself.
Jogged ==
  /\ pc = "jogged"
  /\ IF state = "IDLE" /\ plan # <<>> THEN state' = "JOG" /\ PrepThen("jogWake")
                                      ELSE Goto("loop") /\ UNCHANGED state
  /\ UNCHANGED <<plan, system, stepctl, flags, lock, away, probing, rings, prep, run, tracer,
                 own>>

JogWake ==
  /\ pc = "jogWake"
  /\ WakeUp
  /\ Goto("loop")
  /\ UNCHANGED <<shared, rings, prep, tail, exec, execIndex, count, counter, inc, dir, pos, motor,
                 execId, own>>

-----------------------------------------------------------------------------
(* mc_probe_cycle(), a G38 line. *)

\* protocol_buffer_synchronize() first.
LineProbe ==
  /\ Line({"probe", "probeAway"}) /\ GcodeAllowed
  /\ AutoStart
  /\ ExecuteThen("sync")
  /\ UNCHANGED <<plan, system, state, stepctl, lock, away, probing, rings, prep, run, tracer,
                 realtime, plpos, task, homing, limits, ids, synced, input, scenario, early>>

\* protocol_buffer_synchronize() returns.
Synchronized == ~abort /\ plan = <<>> /\ state # "CYCLE"

\* Then the probe must not be triggered yet.
ProbeSynced ==
  /\ pc = "sync"
  /\ early' = (early \/ (run /\ Synchronized))
  /\ IF abort THEN Goto("loop") /\ UNCHANGED <<ctx, away, alarm>>
     ELSE IF ~Synchronized THEN ExecuteThen("sync") /\ UNCHANGED <<away, alarm>>
     ELSE /\ away' = (task = "probeAway")
          /\ IF ProbeState'
             THEN alarm' = "PROBE_FAIL_INITIAL" /\ ExecuteThen("probeFailed")
             ELSE ExecuteThen("mc") /\ UNCHANGED alarm
  /\ UNCHANGED <<plan, system, state, stepctl, flags, lock, probing, rings, prep, run, tracer,
                 suspend, abort, snap, plpos, task, homing, limits, ids, synced, input,
                 scenario>>

ProbeFailed ==
  /\ pc = "probeFailed"
  /\ away' = FALSE
  /\ Goto("loop")
  /\ UNCHANGED <<plan, system, state, stepctl, flags, lock, probing, rings, prep, run, tracer,
                 own>>

\* The monitor is activated behind a planned (or aborted) move, and the cycle started.
ProbeStart ==
  /\ pc = "probing"
  /\ probing' = TRUE
  /\ flags' = flags \cup {"CYCLE_START"}
  /\ ExecuteThen("probeWait")
  /\ UNCHANGED <<plan, system, state, stepctl, lock, away, rings, prep, run, tracer,
                 realtime, plpos, task, homing, limits, ids, synced, input, scenario, early>>

\* A monitor still active when the machine is idle never saw the probe: an alarm, but not for
\* G38.3 and G38.5.
ProbeWait ==
  /\ pc = "probeWait"
  /\ IF abort THEN Goto("loop") /\ UNCHANGED <<ctx, probing, away, alarm>>
     ELSE IF state # "IDLE" THEN ExecuteThen("probeWait") /\ UNCHANGED <<probing, away, alarm>>
     ELSE /\ alarm' \in IF probing THEN {"PROBE_FAIL_CONTACT", alarm} ELSE {alarm}
          /\ probing' = FALSE /\ away' = FALSE
          /\ ExecuteThen("probed")
  /\ UNCHANGED <<plan, system, state, stepctl, flags, lock, rings, prep, run, tracer,
                 suspend, abort, snap, plpos, task, homing, limits, ids, synced, input,
                 scenario, early>>

\* What is left of the motion is dropped.
Probed ==
  /\ pc = "probed"
  /\ plan' = <<>>
  /\ StepperReset /\ UNCHANGED pos
  /\ SyncPosition
  /\ synced' = (synced /\ ~run)
  /\ early' = (early \/ MovingControl)
  /\ Goto("loop")
  /\ UNCHANGED <<system, state, stepctl, flags, lock, away, probing, realtime, task, ctx, homing,
                 limits, ids, input, scenario>>

-----------------------------------------------------------------------------
(* $H: mc_homing_cycle() and limits_go_home() *)

LineHome ==
  /\ Line({"home"}) /\ state \in {"IDLE", "ALARM"}
  /\ state' = "HOMING"
  /\ attached' = FALSE
  /\ cycle' = 1
  /\ Goto("homeCycle")
  /\ UNCHANGED <<plan, system, stepctl, flags, lock, away, probing, rings, prep, run, tracer,
                 realtime, plpos, task, ctx, approach, phases, latch, level, ids, synced,
                 input, scenario, early>>

\* The next cycle, the last one's end, or nothing where a cycle was aborted.
HomeCycle ==
  /\ pc = "homeCycle"
  /\ IF cycle > Len(HomingCycles)
     THEN ExecuteThen("homed") /\ UNCHANGED homing
     ELSE IF abort
     THEN cycle' = cycle + 1 /\ Goto("homeCycle") /\ UNCHANGED <<approach, phases, ctx>>
     ELSE approach' = TRUE /\ phases' = 3 /\ Goto("homePhase") /\ UNCHANGED <<cycle, ctx>>
  /\ UNCHANGED <<shared, rings, prep, run, tracer, realtime, plpos, task, limits, ids, synced,
                 input, scenario, early>>

\* A search for the switches or a move off them is planned as a system motion.
HomePhase ==
  /\ pc = "homePhase"
  /\ LET n == IF approach /\ phases = 3 THEN Travel ELSE PullOff
     IN system' = [id |-> ids + 1, events |-> n, back |-> IF approach THEN {} ELSE Mask,
                   steps |-> [a \in Axes |-> IF a \in Mask THEN n ELSE 0]]
  /\ ids' = ids + 1
  /\ pos' = [a \in Axes |-> IF a \in Mask THEN 0 ELSE pos[a]]
  /\ synced' = FALSE
  /\ lock' = Mask
  /\ stepctl' = {"SYS_MOTION"}
  /\ PrepThen("homeWake")
  /\ UNCHANGED <<plan, state, flags, away, probing, rings, prep, run, tail, exec, execIndex, count,
                 counter, inc, out, dir, motor, execId, realtime, plpos, task, ctx, homing, limits,
                 input, scenario, early>>

HomeWake ==
  /\ pc = "homeWake"
  /\ WakeUp
  /\ Goto("homeCheck")
  /\ UNCHANGED <<shared, rings, prep, tail, exec, execIndex, count, counter, inc, dir, pos, motor,
                 execId, own>>

\* An axis whose switch is seen is locked. limits_get_state() sees what the interrupt,
\* detached by now, once stored.
LimitsState == latch

HomeCheck ==
  /\ pc = "homeCheck"
  /\ lock' = IF approach THEN lock \ LimitsState ELSE lock
  /\ PrepThen("homeExit")
  /\ UNCHANGED <<plan, system, state, stepctl, flags, away, probing, rings, prep, run, tracer,
                 own>>

\* What a reset or the end of the motion means in this phase; the last one counts.
HomingAlarm ==
  IF approach /\ "CYCLE_STOP" \in flags THEN "HOMING_FAIL_APPROACH"
  ELSE IF ~approach /\ LimitsState \cap Mask # {} THEN "HOMING_FAIL_PULLOFF"
  ELSE IF "RESET" \in flags THEN "HOMING_FAIL_RESET"
  ELSE alarm

\* Mutant: a motion that ends before the switch is not noticed.
InterruptedByReset == "RESET" \in flags

\* The phase ends without its switches: a reset, or the motion has come to its end.
Interrupted == flags \cap {"RESET", "CYCLE_STOP"} # {}

HomeExit ==
  /\ pc = "homeExit"
  /\ IF ~Interrupted
     THEN /\ Goto(IF lock = {} THEN "homePhaseDone" ELSE "homeCheck")
          /\ UNCHANGED <<flags, alarm, run, synced, ctx>>
     ELSE IF HomingAlarm # "none"
     THEN McReset(HomingAlarm) /\ ExecuteThen("homeFailed")
     ELSE flags' = flags \ {"CYCLE_STOP"} /\ Goto("homePhaseDone") /\ UNCHANGED <<alarm, run,
                                                                                  synced, ctx>>
  /\ UNCHANGED <<plan, system, state, stepctl, lock, away, probing, rings, prep, tracer, suspend,
                 abort, snap, plpos, task, homing, limits, ids, input, scenario, early>>

\* The steppers are stopped and the direction is reversed; behind the last phase the
\* axes are where the switches are.
HomePhaseDone ==
  /\ pc = "homePhaseDone"
  /\ StepperReset
  /\ IF phases > 0
     THEN /\ approach' = ~approach /\ phases' = phases - 1
          /\ Goto("homePhase")
          /\ UNCHANGED <<cycle, pos, stepctl>>
     ELSE /\ cycle' = cycle + 1
          /\ pos' = [a \in Axes |-> IF a \in Mask THEN -PullOff ELSE pos[a]]
          /\ stepctl' = {}
          /\ Goto("homeCycle")
          /\ UNCHANGED <<approach, phases>>
  /\ UNCHANGED <<plan, system, state, flags, lock, away, probing, realtime, plpos, task, ctx,
                 limits, ids, synced, input, scenario, early>>

HomeFailed ==
  /\ pc = "homeFailed"
  /\ cycle' = cycle + 1
  /\ Goto("homeCycle")
  /\ UNCHANGED <<shared, rings, prep, run, tracer, realtime, plpos, task, ctx, approach, phases,
                 limits, ids, synced, input, scenario, early>>

\* Homing is over: a reset initializes everything, a success sets the machine idle.
Homed ==
  /\ pc = "homed"
  /\ IF abort THEN UNCHANGED <<state, run, plpos, attached, level>>
     ELSE SyncPosition /\ Rearm /\ state' = "IDLE" /\ run' = FALSE
  /\ Goto("loop")
  /\ UNCHANGED <<plan, system, stepctl, flags, lock, away, probing, rings, prep, tracer, realtime,
                 task, ctx, homing, latch, ids, synced, input, scenario, early>>

-----------------------------------------------------------------------------

Init ==
  /\ scenario \in Scenarios
  /\ StepperInit
  /\ plan = <<>> /\ system = NoBlock /\ state = "IDLE" /\ stepctl = {} /\ flags = {}
  /\ lock = {} /\ away = FALSE /\ probing = FALSE
  /\ suspend = {} /\ alarm = "none" /\ abort = FALSE /\ snap = {}
  /\ plpos = Zero /\ task = "none" /\ pc = "init" /\ ret = "loop" /\ ctx = "idle"
  /\ cycle = 1 /\ approach = TRUE /\ phases = 0
  /\ latch = {} /\ attached = FALSE /\ level = FALSE
  /\ ids = 0 /\ synced = TRUE /\ early = FALSE /\ lines = 0 /\ cmds = 0

Prepare == Prep /\ UNCHANGED own
Execute == PassAlarm \/ Critical \/ PassExec \/ PassStart \/ PassWake \/ PassStop \/ Leave
RunLine == LineEnds \/ LineMotion \/ McWait \/ McPlan \/ Jogged \/ JogWake
Probe == LineProbe \/ ProbeSynced \/ ProbeFailed \/ ProbeStart \/ ProbeWait \/ Probed
Homing == LineHome \/ HomeCycle \/ HomePhase \/ HomeWake \/ HomeCheck \/ HomeExit
            \/ HomePhaseDone \/ HomeFailed \/ Homed

Main == Prepare \/ Execute \/ Reinit \/ Idle \/ IdleReturns \/ RunLine \/ Probe \/ Homing
Timer == (Tick \/ TickDry) /\ UNCHANGED own

Next == Main \/ LineArrives \/ Timer \/ ResetPressed \/ Command \/ LimitIsr

Spec == Init /\ [][Next]_vars

\* The processor runs the main program, and an enabled timer fires.
Fairness == WF_vars(Main) /\ WF_vars(Timer)

LiveSpec == Spec /\ Fairness

-----------------------------------------------------------------------------
(* Properties *)

Alarms == {"none", "HARD_LIMIT", "ABORT_CYCLE", "HOMING_FAIL_RESET", "HOMING_FAIL_APPROACH",
           "HOMING_FAIL_PULLOFF", "PROBE_FAIL_INITIAL", "PROBE_FAIL_CONTACT"}
Flags == {"CYCLE_START", "CYCLE_STOP", "FEED_HOLD", "RESET", "MOTION_CANCEL"}

\* Where the program goes on after st_prep_buffer() and after protocol_execute_realtime().
Returns == {"loop", "leave", "wake", "jogWake", "homeWake", "homeExit"}
Contexts == {"idle", "line", "mc", "sync", "probeFailed", "probeWait", "probed", "homeFailed",
             "homed"}

TypeOK ==
  /\ RingType
  /\ ret \in Returns /\ ctx \in Contexts
  /\ scenario \in Scenarios
  /\ plan \in Seq(Blocks) /\ Len(plan) <= MaxPlan /\ system \in Blocks /\ ids \in Nat
  /\ state \in States /\ alarm \in Alarms /\ flags \subseteq Flags /\ snap \subseteq Flags
  /\ stepctl \subseteq {"END_MOTION", "EXECUTE_HOLD", "SYS_MOTION"}
  /\ suspend \subseteq {"HOLD_COMPLETE", "JOG_CANCEL", "MOTION_CANCEL"}
  /\ abort \in BOOLEAN /\ attached \in BOOLEAN /\ plpos \in [Axes -> Int]
  /\ latch \subseteq Axes /\ lock \subseteq Axes
  /\ cycle \in Nat \ {0} /\ approach \in BOOLEAN /\ phases \in 0 .. 3

\* In st_prep_buffer(); in limits_go_home(), its calls of st_prep_buffer() included; or in
\* the one pass of the executor it makes itself, when it gives up.
Busy == pc \in {"prep", "fill", "publish"}
HomingPoints == {"homeCycle", "homePhase", "homeWake", "homeCheck", "homeExit", "homePhaseDone",
                 "homeFailed"}
HomingRuns == pc \in HomingPoints \/ (Busy /\ ret \in {"homeWake", "homeExit"})
InHoming == HomingRuns \/ (pc \in {"pass", "critical", "exec", "leave"} /\ ctx = "homeFailed")

\* An abort comes from a reset that is still flagged (but for a hard limit's, which waits for
\* another one), and ends the pass. A system motion is homing's.
Aborts ==
  /\ abort => "RESET" \in flags \/ pc = "critical"
  /\ pc \in {"start", "stop", "wake"} \/ (Busy /\ ret \in {"leave", "wake"})
       => ~abort /\ ctx # "homeFailed"
  /\ "SYS_MOTION" \in stepctl => InHoming \/ abort
  /\ ctx = "homeFailed" => /\ pc \in {"pass", "exec"} => "RESET" \in flags
                           /\ pc = "leave" => abort
  /\ pc = "homeFailed" => abort
  /\ pc = "homeCycle" /\ ~abort => "SYS_MOTION" \notin stepctl

\* What is published, and cut, is older than what the plan or homing has next.
Fresh ==
  /\ \A i \in DOMAIN plan : plan[i].id \in 1 .. ids
  /\ \A i, j \in DOMAIN plan : i < j => plan[i].id < plan[j].id
  /\ system.id <= ids /\ NewestId <= ids /\ (Cutting => blk[prepIndex].id <= ids)
  /\ loaded # "none" => ~recalc
  /\ IF "SYS_MOTION" \in stepctl
     THEN system.id # 0 /\ (~Cutting => system.id > NewestId)
     ELSE /\ loaded # "system"
          /\ Cutting => plan # <<>> /\ \A i \in 2 .. Len(plan) : plan[i].id > blk[prepIndex].id
          /\ ~Cutting => \A i \in DOMAIN plan : plan[i].id > NewestId

\* With its interrupt detached the switches' latch stays as it is. So an approach that ends
\* because they are seen is followed by a pull-off that fails because they still are.
PullOffFails ==
  /\ InHoming => ~attached
  /\ pc = "homeCycle" /\ ~abort => cycle = 1
  /\ HomingRuns /\ pc \notin {"homeCycle", "homeFailed"} =>
       /\ cycle = 1
       /\ \/ approach /\ phases = 3
          \/ ~approach /\ phases = 2 /\ latch \cap Mask # {} /\ pc # "homePhaseDone"
       /\ pc # "homePhase" => Mask \ lock \subseteq latch /\ (~approach => lock = Mask)
       /\ pc = "homePhaseDone" => lock = {}

\* The rings' invariant holds among the main program's other steps. It has the type
\* correctness of all variables as its first part.
QueueInv == TypeOK /\ RingInv /\ Aborts /\ Fresh /\ PullOffFails

-----------------------------------------------------------------------------
(* When the timer may run, where the motors are, and what the timer finds, as long as no
   synchronize and no probe cycle ends early. *)

\* From the start of a motion to its wake-up.
Waking == pc \in {"wake", "jogWake"} \/ (Busy /\ ret \in {"wake", "jogWake"})

\* The timer is off, and has not just told so.
Stops == "CYCLE_STOP" \in flags \cup snap
Still == ~run /\ ~Stops

\* The executor has an alarm in hand, whose reset ends in an abort.
Ending == pc = "critical" \/ (pc = "exec" /\ "RESET" \in flags)

\* Outside of homing and aborts the timer runs in motion only, is off once it said so, and
\* where a motion may start.
Calm ==
  /\ state # "HOMING"
  /\ run => state \notin {"IDLE", "ALARM"}
  /\ Stops => ~run
  /\ Waking \/ state = "IDLE" \/ "HOLD_COMPLETE" \in suspend => Still
  /\ state = "ALARM" /\ Stops => pc = "exec" \/ (pc \in {"start", "stop"} /\ "CYCLE_STOP" \in snap)
  /\ Waking => state \in {"CYCLE", "JOG"}
  /\ suspend # {} => \/ pc \in {"pass", "exec", "start", "stop", "leave"}
                     \/ Busy /\ ret = "leave"
  /\ alarm # "none" => "RESET" \in flags \/ (pc = "pass" /\ ~run)

\* A jog is started, and homing runs, in states of their own, an abort notwithstanding.
JogWaking == pc = "jogWake" \/ (Busy /\ ret = "jogWake")
HomeMoves == pc \in {"homeWake", "homeCheck", "homeExit", "homePhaseDone"}
               \/ (Busy /\ ret \in {"homeWake", "homeExit"})

StillInv ==
  /\ abort \/ Ending \/ InHoming \/ Calm
  /\ state = "IDLE" => ~run
  /\ JogWaking => state = "JOG" /\ ~run
  /\ HomeMoves \/ pc = "homePhase" \/ (pc = "homeCycle" /\ ~abort) => state = "HOMING"
  /\ snap # {} => pc \in {"start", "wake", "stop"} \/ (Busy /\ ret = "wake")

\* The position counted is where the motors were sent, but for the pulse to come. Homing, which
\* locks axes, starts with the timer off, and sets the two apart.
Pending(a) == IF run /\ a \in out THEN IF a \in dir THEN -1 ELSE 1 ELSE 0
MotorInv ==
  /\ synced => \A a \in Axes : pos[a] = motor[a] + Pending(a)
  /\ synced /\ state = "HOMING" => ~run
  /\ HomeMoves => ~synced

\* The timer has a block: one to execute, or the last one.
HasBlock == Used > 0 \/ execId # 0

\* Segments may be cut short, or not at all.
Halting == {"EXECUTE_HOLD", "END_MOTION"} \cap stepctl # {}

\* After an abort, on the way to the initialization.
Leaving ==
  abort /\ \/ pc \in {"loop", "idle", "line", "homed", "init"}
           \/ pc \in {"pass", "critical", "exec", "leave"} /\ ctx \in {"idle", "line", "homed"}

\* Every segment, and what is cut, is a block's.
Identified ==
  /\ \A i \in 1 .. Used : blk[Index(i)].id # 0
  /\ Cutting => blk[prepIndex].id # 0

BlockInv ==
  /\ Identified
  /\ run => HasBlock
  /\ state \in {"CYCLE", "JOG"} => HasBlock \/ Waking
  /\ Waking \/ pc = "homeWake" \/ (Busy /\ ret = "homeWake") =>
       HasBlock \/ (Busy /\ ~Halting /\ (pc = "prep" => Source # "none"))
  /\ Halting => HasBlock \/ InHoming \/ Leaving
  /\ "END_MOTION" \in stepctl =>
       {"EXECUTE_HOLD", "SYS_MOTION"} \cap stepctl # {} \/ "HOLD_COMPLETE" \in suspend \/ abort

TimerInv == ~early => StillInv /\ MotorInv /\ BlockInv

MotionInv == QueueInv /\ TimerInv

-----------------------------------------------------------------------------

\* Both rings together are a queue of segments with their blocks' data: the timer never
\* executes a slot that is being written, and a block's data is kept until its last
\* segment is executed. (stepper.cpp:62: "it will never exceed ...")
Refines == Queue!Spec

\* The position counted by the timer is where the motors were sent, but for the pulse to
\* come, through wake-ups, holds and resumes, direction changes and flushes. (Where a G38
\* went on while the timer ran, the alarm it raises lets homing lock axes in mid-motion.)
MotorFollows ==
  synced /\ ~early => \A a \in Axes : pos[a] = motor[a] + Pending(a)

\* Once all is executed the machine is where the planner, and the parser, think it is:
\* cut in whatever segments and levels, held, resumed, cancelled or reset, every
\* block made exactly its steps.
AtRest ==
  state = "IDLE" /\ plan = <<>> /\ head = tail /\ ~run /\ flags = {} /\ pc = "loop" /\ ~abort
ArrivesAtTarget == AtRest => pos = plpos

\* The timer does not run behind the back of a program that reads lines in a state
\* without motion: not after a failed homing or probe cycle either.
LoopIsStill == ~early /\ pc = "line" /\ state \in {"IDLE", "ALARM"} /\ ~abort => ~run

\* A timer that finds its ring empty reads the last block's data (stepper.cpp:405), a null
\* pointer from st_reset() until a segment is begun. (A probe cycle that ends in motion resets the
\* steppers and leaves the state and a hold as they are: what is started then may have no segment.)
DryTimerHasBlock == ~early /\ run /\ ~exec /\ head = tail => execId # 0

\* A machine that may be moved by lines has its limit switches on, however homing ended.
LimitsRearmed == state \in {"IDLE", "CYCLE", "JOG", "HOLD"} => attached \/ pc = "init"

\* A homing cycle comes to an end, whatever resets or pins interfere.
HomingEnds == pc \in HomingPoints ~> pc \in {"loop", "critical"}

\* protocol.cpp:169-170: protocol_buffer_synchronize() blocks "until all buffered steps are
\* executed", "works with feed hold during a synchronize call" and "waits for clean cycle
\* end": the timer is off when it returns.
SynchronizeWaits == pc = "sync" /\ Synchronized => ~run
=============================================================================
