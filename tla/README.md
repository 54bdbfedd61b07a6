# TLA+ models of the Grbl ESP8266 controller

Grbl (here version 1.1g, ported to the ESP8266) drives a CNC machine. It reads
G-code lines from a serial port, a telnet client or a web socket, plans the
motions they ask for, and steps the motors from a timer interrupt, while single
realtime characters (`!` hold, `~` start, `?` status, Ctrl-X reset ...), control
pins and limit switches may interfere at any time. This directory holds TLA+
modules that model its control logic, TLC configurations that check them on
small instances, and TLAPS proofs of what matters most for all instances.

Paths below are relative to the repository; `grbl/` stands for
`src/lib/grbl/src/` and `main.cpp` for `src/src/main.cpp`.

    tlc -workers 2 -config Realtime_safety.cfg MCRealtime.tla
    tlc -workers 2 -config Planner_plan.cfg MCPlanner.tla
    tlc -workers 2 -config Motion_pipeline.cfg MCMotion.tla
    tlc -workers 2 -config Comms_lines.cfg MCComms.tla
    tlc -workers 2 -config Machine_lines.cfg MCMachine.tla
    tlapm Realtime_proofs.tla
    tlapm Planner_proofs.tla
    tlapm Still_proofs.tla
    tlapm Pipeline_proofs.tla
    tlapm Motion_proofs.tla
    tlapm Rings_proofs.tla
    tlapm Comms_proofs.tla
    tlapm Machine_proofs.tla

## 1. Inventory

Three contexts run. The **main program** (`loop()`) is one endless sequential
program. The **serial poll task** is a cooperative 33 ms ticker: it runs only
where the main program yields in `delay()`. The **interrupts** (stepper timer,
control pins, limit pins) come between any two instructions of both. They share
`sys`, the flag bytes `sys_rt_exec_*`, the segment ring and the block ring of
the stepper; `cli()`/`sei()` around the flag helpers are commented out in this
port (`grbl/system.cpp:385-450`).

| Part | State | Operations | Talks to | Correct when |
|---|---|---|---|---|
| Realtime executor (`grbl/protocol.cpp`, `system.cpp`) | `sys.state`, `sys.suspend`, `sys.step_control`, `sys.abort`, flag bytes | `protocol_exec_rt_system`, suspend loop, flag helpers | everything | no hold is resumed unasked; no flag that matters is dropped; an alarm locks; a hold ends |
| Main loop and command lines (`protocol.cpp`, `system.cpp`, `main.cpp`) | line buffer, call stack | dispatch, `$` commands, buffer synchronize, auto cycle start, (re)initialization | executor, planner, parser | planned motion runs; idle and alarm mean still; a reset gets out of every wait |
| Motion gateway, jogging (`motion_control.cpp`, `jog.cpp`) | none of its own | `mc_line`, `mc_reset`, `jog_execute`, soft limit check | planner, executor, limits | no block beyond the limits; the planner ring never overflows |
| Planner (`planner.cpp`) | block ring, tail, head, planned pointer, last unit vector | `plan_buffer_line`, `planner_recalculate`, reinitialize, discard | stepper | the plan is feasible, optimal and ends at rest |
| Stepper (`stepper.cpp`) | segment ring, stepper block ring, `prep`, `st` | `st_prep_buffer`, interrupt, wake up, go idle, reset | planner, executor, pins | speed never jumps; data in use is not overwritten; every step is made |
| Control pins, limits (`system.cpp`, `limits.cpp`) | debounced inputs | interrupts, homing, soft limits | executor | a hit always stops and alarms |
| Coolant (`coolant_control.cpp`) | output, parser state | set, stop, sync, override | executor, shift register | off while parked; restored as the parser says |
| Overrides (`protocol.cpp`) | feed, rapid, spindle percent | accumulated flags applied once a pass | planner | each request has its effect; the value stays in bounds |
| Serial reception (`serial.cpp`, line assembly in `protocol.cpp`) | receive ring per client, `line[]` | poll task, read, free space | executor, telnet, web socket | characters of a client arrive once, in order, in its own line |
| Telnet, web socket (`telnet_server.cpp`, `serial2socket.cpp`) | byte rings, client table | network callbacks, poll, flush | serial | nothing lost but by a full ring |
| Settings (`settings.cpp`, `eeprom.cpp`) | EEPROM image, checksums | read, write, restore, commit | every part | a record is read back as written or rejected |
| Homing, probing (`limits.cpp`, `motion_control.cpp`, `probe.cpp`) | cycle state, locked axes | homing cycle, probe cycle | stepper, executor | ends at the switch, or alarms |
| Shift register (`grbl/*` pin writes) | image of the output pins | shift out | steppers, coolant, spindle | a write of one pin leaves the others |
| G-code parser (`gcode.cpp`) | modal state, position, offsets | `gc_execute_line`, `gc_init`, `gc_sync_position` | all motion, settings | a refused line changes nothing; position and offsets agree with planner and EEPROM |
| Reports (`report.cpp`) | none | answers, listings that read the EEPROM | clients, settings | each line is answered once, to its own client |
| Wifi set-up | none | start-up of a library | clients | - |

What is hard here: interrupts between the load and the store of a flag byte;
flags set between the moment a pass copies them and the moment it clears them;
the main program four calls deep in a wait when a reset comes; state chosen
before a wait and used after it (`restore_condition`); a plan changed under the
block being executed; plans replanned incrementally; two rings of which one
refers to the other, read by an interrupt; three clients that share a line
buffer; four copies of the position (motors, machine, planner, parser); a power cut
between two commits. `hazards` in `PROJECT.json` lists them line by line, with the
property that would catch each.

## 2. What is modelled

### Realtime

`Realtime.tla` is the realtime executor with everything that changes
`sys.state`: the flag byte, the suspend loop with the safety door and its
restore, sleep, jogging, soft and hard limits, `mc_reset`, the lines that
change the state, the coolant, and enough of planner and stepper to say whether
motion is planned (`plan`), prepared (`segs`) and running (`run`).

* *Control.* `pc` is the step the main program is at. `ctx` is the caller to
  which `protocol_execute_realtime()` returns, `nest` says which part of
  `protocol_exec_rt_suspend()` is on the stack. One pass is the steps
  `alarm, crit, state, hold, start, wake, stop, ovr`, cut wherever an interrupt
  makes a difference: each reads or writes shared data once.
* *Contexts.* The poll task acts only at `YieldPoints`. Pins, limits and the
  stepper interrupt act at any step.
* *Flag byte.* A `|=` or `&= ~` is a load (`RmwLoad`) and a store (`RmwStore`).
  The history variable `lost` collects flags that a store wiped out. Properties
  that cannot hold then say `lost = {}`: they state what the code guarantees
  as long as no interrupt hits one of these few instructions. The resume
  properties, the types and the second half of `ParkedIsOff` need no such condition.
* *Abstractions.* A block is one segment of motion. Under a hold the
  deceleration may end at any segment. Pins of a door are not compiled in, so
  it opens by command and reads closed. The spindle branches never do anything,
  since M3-M5 set nothing in this port, and are left out.

| Definition | Code |
|---|---|
| `RmwLoad`, `RmwStore` | `system_set_exec_state_flag`, `system_clear_exec_state_flag` |
| `RtAlarm` .. `RtOverride` | `protocol_exec_rt_system`, in order |
| `EnterSuspend`, `SuspendBody`, `SleepLoop`, `Delay*`, `Restored` | `protocol_exec_rt_suspend`, `delay_sec` |
| `Reinit`, `IdleStep`, `Line*` | `loop()`, `protocol_main_loop`, `system_execute_line`, `gc_execute_line` |
| `PlanLine`, `SoftWait`, `JogStart`, `Synchronize` | `mc_line`, `limits_soft_check`, `jog_execute`, `protocol_buffer_synchronize` |
| `Poll*`, `Pin*`, `LimitHit`, `StepperIsr` | serial poll task and the interrupts |

### Planner

`Planner.tla` is the look-ahead planner together with the part of
`st_prep_buffer()` that consumes its blocks: the ring with tail, head and
planned pointer, `plan_buffer_line`, both passes of `planner_recalculate`,
replanning for an override or after a hold, the velocity profile of the
executing block (entry, exit, forced deceleration), and discarding.

* Everything here runs in the main program, so steps are whole handlers, except
  that the two loops of `planner_recalculate` are stepped (`pass`, `index`) with
  nothing else enabled meanwhile. There is no recursion, so the module can be
  proved about.
* *Units.* A speed is its square and a length is what the square changes by at
  full acceleration along it (`2*a*mm`). Every comparison of the planner is then
  one of small naturals, and is the code's own comparison.
* *Segments.* Where a ramp falls in a segment is a matter of time. A segment
  here takes any part of the block, and ends at the fastest speed the profile
  has there.
* `mode` is idle, cycle, hold (decelerating) or held, as `sys.state` and
  `sys.step_control` have it. The realtime executor's own races are in
  `Realtime`.
* The geometry that gives a junction speed is data: a move carries its `junction`.

| Definition | Code |
|---|---|
| `PlanLine`, `PlanNothing` | `plan_buffer_line` |
| `Recalculate`, `Reverse`, `Forward`, `ForwardDone` | `planner_recalculate` |
| `Unload`, `Unloading` | `st_update_plan_block_parameters` |
| `Override`, `Reinitialize` | override branch of `protocol_exec_rt_system`, `plan_update_velocity_profile_parameters`, `plan_cycle_reinitialize` |
| `Profile`, `StartSpeed`, `EndSpeed`, `Segment`, `PrepSegment` | `st_prep_buffer` |
| `PlannedAfter` | `plan_discard_current_block` |
| `CycleStart`, `FeedHold`, `HoldDone`, `CycleDone`, `JogCancelled`, `Reset` | their branches of `protocol_exec_rt_system`, `loop()` |

### SegmentQueue, Pipeline, Motion

`SegmentQueue.tla` is what the stepper's buffers promise: a first-in first-out queue
of segments, each with its own copy of its block's data, executed one step event
at a time. `Pipeline.tla` is how the code does it: the segment ring, the smaller
ring of block data that segments refer to by index, `st_prep_buffer()` cut into
load, fill and publish, the timer interrupt with its line tracer and AMASS levels, axis locks,
and the probe monitor. Its last definition instantiates `SegmentQueue` with the
used part of the ring, each segment joined to the block data it points at.
`Motion.tla` drives it: motion and jog lines, hold, resume, jog cancel, reset, the
homing cycle, the probe cycle, and the limit pins, which are pressed where
the motors are.

* *Control.* The main program goes step by step (`pc`); a step that calls
  `st_prep_buffer()` goes there with `ret`, one that runs the executor with `ctx`.
  The timer, the pins and resets come between any two steps.
* *Abstractions.* How many step events a segment takes, its level and where a
  deceleration ends are free choices: what is shown holds for every velocity
  profile. Time is not modelled, so the main program may always be too late to
  refill the ring. A switch is closed from a position on.
* `motor` counts the pulses sent, apart from `sys_position` (`pos`), which the
  interrupt counts one interrupt earlier.

| Definition | Code |
|---|---|
| `Prep`, `PrepLoad`, `PrepFill`, `PrepPublish` | `st_prep_buffer` |
| `Tick`, `TickDry`, `Pulse` | `TIMER1_COMPA_vect`, `st_go_idle` |
| `WakeUp`, `StepperReset`, `Unloaded` | `st_wake_up`, `st_reset`, `st_update_plan_block_parameters` |
| `Home*`, `Homed`, `Rearm` | `mc_homing_cycle`, `limits_go_home`, `limits_init` |
| `LineProbe`, `Probe*`, `Probed` | `mc_probe_cycle`, `probe_state_monitor` |
| `LimitIsr`, `ResetPressed`, `Command` | `pin_limit_vect`, `mc_reset`, the flags of pins and characters |
| `Pass*`, `Critical`, `Leave` | `protocol_exec_rt_system`, without what is `Realtime`'s |

### Comms

`Comms.tla` is the way of a byte from a client to the answer it gets: the serial
buffer, the websocket and telnet servers with their byte rings, the poll task
that picks off realtime characters and fills the three receive rings, the line
assembly of the main loop (comments, blanks, overflow), the answers with the
websocket's buffered output, a soft reset, and the byte arithmetic of feed
and rapid overrides.

* A byte is its place in all its client has sent, so order and loss can be told;
  only its kind matters. What a line does is left to the other modules.
* Poll task and network callbacks run where the main program yields (`AtYield`),
  each to its end: they are not preemptive. The serial interrupt adds bytes any time.
* `scn` fixes what each client sends and what may happen to it; how the packets
  interleave, with one another and with the program, is free.
* `InRing` and `InBuffer` tell what a ring or a server's buffer holds as a sequence, and `Due`
  which answers reached a client or wait for it. The transmit buffer counts its reports apart from
  the answers, since only answers are promised in order.

| Definition | Code |
|---|---|
| `PollStarts`, `PollByte`, `PollEnds`, `PickedOff` | `serial_poll_rx` |
| `RxPut`, `RxTake`, `RxReset`, `NextSlot`, `RxFull` | the receive ring of `serial.cpp` |
| `Push`, `Pop`, `HandleFlush`, `SocketWrite` | `push`, `read`, `handle_flush`, `write` of both servers |
| `TelnetConnect`, `TelnetDrops`, `TelnetDisconnected` | `handleNewClient`, `handleDisconnect` |
| `Read`, `Assemble`, `EndOfLine`, `LineDone` | `protocol_main_loop` |
| `Answer`, `Send` | `report_status_message`, `grbl_send` |
| `Pass`, `NewFeed`, `NewRapid` | override branch of `protocol_exec_rt_system` |
| `Reinit` | `loop()` |

### Store, Gcode, Machine

`Store.tla` has the settings, coordinate systems, startup lines and build info, and
the EEPROM emulation below: an image in memory that `commit()` writes to flash.
`Gcode.tla` is `gc_execute_line()`: words are read into a block, checked in the code's
order, and only then executed. Both are operators on a record that stands for
the machine. `Machine.tla` makes steps of them: lines, resets between lines and
in the wait a line makes for motion, power cuts at rest and after each commit
a line or a start makes (or within it: the sector is then erased), boot, and
the moves that are planned.

* A word is a letter or a command with a small integer; an inch is two units.
  `$0`, `$20`, `$22` stand for the settings: one with a bound, and two that
  depend on each other.
* A reset finds the machine before or at the end of the move in progress, which stand for
  all points between; hence nothing is said of where it stops, only that parser,
  planner and machine agree on it afterwards.
* `$H` and `$SLP` are in `Motion` and `Realtime`, not here.

| Definition | Code |
|---|---|
| `Commit`, `Write*`, `Store*`, `Read*` | `memcpy_to_eeprom_with_checksum`, `settings_*` |
| `SettingsInit`, `Restore*`, `StoreSetting` | `settings_init`, `settings_restore`, `settings_store_global_setting` |
| `ParseWord`, `TakeGroup`, `ValueWord` | `gc_execute_line`, step 2 |
| `FirstChecksFail`, `G10ChecksFail`, `Target`, `ArcFails`, `MotionFails`, `Unused`, `JogFails` | step 3 |
| `Execute`, `NonModal`, `Motion`, `ProgramFlow`, `ProgramEnd`, `Jog` | step 4, `jog_execute` |
| `SystemLine`, `ToggleCheck`, `SetStartup`, `ShowParameters` | `system_execute_line`, `report_ngc_parameters` |
| `Booted`, `Restarted`, `StartupLine` | `setup()`, `loop()`, `system_execute_startup` |

### How the modules fit

`Machine` says where the moves lead, and takes motion as a queue of targets;
`Motion` executes blocks of steps and shows that every block is made in full or
cut off with the positions taken over; `Planner` gives them speeds; `Realtime`
has the races inside a pass of the executor, with only the number of blocks
and segments; `Comms` brings the lines. They overlap in the hold: `Realtime` and
`Motion` let a deceleration end at any segment, `Planner` says where it does end.

## 3. What the runs check

| Run | Module | Result | States | Time |
|---|---|---|---|---|
| `safety` | MCRealtime | pass | 3.2 M | 66 s |
| `live` | MCRealtime | pass | 539 k | 77 s |
| `plan` | MCPlanner | pass | 2.2 M | 123 s |
| `motion` | MCMotion | pass | 856 k | 110 s |
| `comms` | MCComms | pass | 149 k | 96 s |
| `machine` | MCMachine | pass | 433 k | 30 s |
| `abrupt`, `softlimit`, `coolant`, `resume` | MCRealtime | violation | | a few seconds |
| `mixed` | MCPlanner | violation | | a few seconds |
| `sync` | MCMotion | violation | | a few seconds |

**safety** - types; `HeldIsStill` (a complete hold has the steppers off);
`NeverStranded` (a machine in a motion state with its interrupt off has a wake-up,
a cycle stop or a reset on its way); `ParkedIsOff` (no coolant between retraction
and restore, nor asleep); `IdleIsStill` (lines dispatched in idle, alarm or check
mode find the steppers off); `AlarmLocks` (only `$X`, a reset or sleep leaves an
alarm); `ResumeNeedsUser` (no hold or door is resumed but by a start the user
asked for since); and the inductive `RealtimeInv` behind them all.

**live** - a hold completes, a reset is taken from wherever the main program is,
planned motion is executed. The last has one exception, `StarvedInWait`, which the
larger bounds of this run brought to light (see below).

**plan** - plans of three blocks, extended, executed, held, resumed and reset in
every order, and of two blocks while the feed override changes: `PlanFeasible` (no
block enters faster than its maximum, than it can brake, or slower than it can
reach its exit from), `PlanOptimal` (no entry speed could be higher, though only
the blocks behind the planned pointer are recomputed), `ExitIsPlanned` (the profile
of the executing block is not left behind by the plan), `PlannedInPlan`,
`StopsInPlan` and `NoSpeedJump` (each segment changes speed by what its length
allows, across blocks, overrides, holds and resumes, and the plan ends at rest). `PlanInv` has
the types and the inductive invariant behind all of these (section 4).

**motion** - `Refines`: the two rings are `SegmentQueue` - no slot is overwritten
before it is executed, block data lives until its last segment, the line is traced on
across segments and anew at each block. `MotionInv` is the invariant behind
that and the next ones (section 4). `MotorFollows` and `ArrivesAtTarget`
(machine position, motors and planner agree; every block made exactly its steps,
in whatever pieces), `LoopIsStill` (no line is read in idle or alarm with the timer running),
`DryTimerHasBlock` (a timer without a segment has a block to look at), `LimitsRearmed`, and
`HomingEnds`. `MotorFollows`, `LoopIsStill` and `DryTimerHasBlock` are but for a G38 that went on,
or ended, in motion (`early`, see below).

**comms** - `CommsInv` (types and the invariants that the proofs need, section 4, among them
`LineInv`, about the line being assembled), `InOrder`, `NothingLost` (of a client that counts characters),
`AnsweredOnce` (each line by one answer, in order), `LinesIntact` (a line is executed as its client wrote it),
`NoUnaskedRise` (of the feed override), `AcceptedKeepsSlot` (of telnet), and
`EveryLineAnswered`.

**machine** - `MachineInv` (types of parser, plan and stored records, and the invariant `StoreInv` of section 4), `OffsetsStored` (the offsets in force are those stored),
`PositionTracks` (parser, planner and queue agree), `RejectedChangesNothing`,
`SoftNeedsHoming`, `Durable` (what the machine works with is what it would find
after a power cut).

### Disagreements between comments and code

* `abrupt`: a control pin reset that comes between the alarm check and the copy
  of the flags in one pass is taken as an abort with its alarm unread. The machine
  was stopped abruptly and comes up in IDLE; motion_control.cpp:366 promises an alarm.
* `softlimit`: a line beyond the soft limits that arrives while a hold is
  decelerating kills the steppers, since limits.cpp:343 waits only in CYCLE;
  limits.cpp:340 promises a controlled stop.
* `coolant`: coolant toggled during a hold is undone by a later safety door,
  whose restore uses the value chosen when the hold began; protocol.cpp:467
  holds parser and output to be one.
* `resume`: the cycle start that ends a door's restore can come after the program
  was resumed and held again, and then resumes that hold; protocol.cpp:336
  promises that none is without explicit user input.
* `mixed`: lowering the feed override while a rapid runs into a feed move leaves
  the rapid an exit speed it cannot brake to (planner.cpp:75-76, 97-99).
* `sync`: `protocol_buffer_synchronize()` returns while a hold decelerates, if the
  last block is all in the segment buffer; protocol.cpp:169 promises to "block
  until all buffered steps are executed" and to work with a feed hold.

Met on the way and not among the runs; each was followed in the code.

Motion:
* A synchronization sets the cycle start once, before it waits (protocol.cpp:174).
  If the segment buffer starves meanwhile (stepper.cpp:400-409), the rest of the
  plan waits in IDLE until the user starts it: `StarvedInWait`.
* `limits_disable()` detaches the handler that reads the switches, so the homing
  loop never sees one: homing ends in an alarm, whatever the switches do. This is
  `HomingNeverSucceeds`, proved for any cycles. `HomingEnds` and `LimitsRearmed`
  are about what is left.
* A G38 in a hold that has its last block in the segment buffer goes on at once (`sync`),
  fails on its initial check and raises an alarm with the timer running. `$H` in that
  alarm then locks axes in mid-motion: steps are counted and not made.
  `MotorFollows` and `LoopIsStill` therefore say `~early`.
* G38.3 and G38.5 raise no alarm at their end (`is_no_error`, motion_control.cpp:298). A start
  command that comes in the cycle's last pass of the executor then sets the state to CYCLE, and
  `st_reset()` and `plan_reset()` flush the motion from under it; a hold may follow. In
  that state `$X` and a jog wake the timer without a segment, and it reads
  `st.exec_block`, which `st_reset()` left null (stepper.cpp:405). The counterexample has 78 states.
  It came up in the proof of `DryTimerHasBlock`, which therefore says `~early` too.
* `PROBE_BIT` is not in `PROBE_MASK` as it is read (probe.cpp:55): the pin reads
  zero. A probe towards fails at once, a probe away never triggers.
* `$H`, `$J` and `$C` are accepted in IDLE with blocks still queued: a queued G1
  then runs as a jog, and after `$C` the next synchronization waits for ever.
* After a motion cancel of a probe `sys.step_control` keeps EXECUTE_HOLD.
* An override lowered and raised again at a block boundary (no block loaded, a forced
  deceleration pending) replans from the planned entry speed, not from the real
  one, and the speed then jumps; it takes a ring of four and a nominal speed of
  five to show.
* Replanning an *empty* plan sweeps over stale slots and moves
  `block_buffer_planned` out of the plan, against planner.cpp:110; the next block
  brings it back, so `PlannedInPlan` speaks of non-empty plans only.

Clients:
* The clients share one line buffer: a client that pauses within a line has it
  completed by another. `LinesIntact` is for clients that end their lines within a packet, or one
  client alone.
* The ring indices are bytes: the ring wraps at 256 of 343 slots, and `Bf:` reports
  more room than there is.
* After a reset in the middle of a line its rest is executed as a line of its own.
* Coarse and fine minus taken together at 10 % wrap to 200 %: the exception in
  `NoUnaskedRise`.
* A rejected telnet client's data is still taken, the ring is not cleared when
  a client reconnects, and fragmented websocket frames are dropped silently.

Lines and stored data:
* An unknown M word leaves `word_bit` as it was before (gcode.cpp:283-288): whether
  it clashes with another word of the line depends on the line before. The model
  lets it be any bit.
* `$I=` damages startup line 1, and `$N1=` the build info: their records
  overlap. `$N2=` damages the build info, `$N3=` and on answer ok and store nothing.
* `$RST=*` empties the startup lines without committing: they are back after a
  power cut. This is the exception in `Durable`.
* G10 and G28.1 write the EEPROM in check mode, and, after a reset during their
  synchronization, store a position that was never reached. M2 in check mode selects G54 without loading
  it: the exception in `OffsetsStored`.
* `$J=F..` without an axis word jogs to machine zero; gcode.cpp:857 says "axis word
  checks have already been performed". G10 L2 without P is accepted.

### Bounds, and why they are enough

* `Realtime`: two blocks and one segment (`MaxBlocks`, `MaxSegs`) - a buffer that
  is empty, in between and full, and a segment buffer that starves with
  blocks still planned. Up to three realtime inputs and three lines
  (`MaxCmds`, `MaxLines`; two inputs in `live`): one to move, one to stop and
  one to race with it; the violations that need more have larger bounds and fewer
  inputs. Bounds are on inputs only: with them used up the machine may wait for
  ever for a reset in an alarm or asleep, hence `CHECK_DEADLOCK FALSE`.
* `Planner`: `N = 4` gives three blocks, the least for which the planned
  pointer can be strictly inside the plan and a reverse pass loop runs at all; `N = 3`
  gives the executing block and one behind it, which is what an override
  disturbs. Moves (see `MCPlanner`) are too short to reach full speed or to brake
  from it, so that every plan spans the ring; overrides are 50 %, 100 % and 200 %.
  These runs never deadlock and check for it.
* `Motion`: rings of three segments and two blocks, the least for which they wrap
  at different places; one AMASS level, so that a segment of one step event is
  several interrupts; blocks of two events, cut in every way; two axes, one for each
  homing cycle. `MCMotion` has a scenario for each kind of line, with one or two
  lines and as many commands at any time. It may wait for ever in an alarm: `CHECK_DEADLOCK FALSE`.
* `Comms`: index size 6 in rings of 8 slots, as 256 in 343; server rings of 5,
  lines of two characters, room for three answers. `MCComms` has a scenario for
  comments, overflow, clients together, floods beyond every ring, resets within lines,
  reconnection and overrides. Clients that stop sending leave the poll task running, so
  there is no deadlock and it is checked for.
* `Machine`: three lines out of 45 (`MCMachine`), each a different path through
  parser or `$` commands; three is one to change an offset or a record, one
  to move or to damage it, one to notice. Moves, resets, boots and power cuts
  are not counted, so the machine never stops.

In `plan` the operator only raises or only lowers the override within a job:
raising with moves of different rates and rapids, lowering with feeds at
one rate. Lowering with mixed rates is `mixed`, both ways is the observation
above: there the properties do not hold of the code. Where a plan is infeasible
the code computes negative times; the model brakes as hard as it can.

### Fairness

Nothing is ever assumed of users, pins, clients or power.

* `live` assumes `WF(Main)` - the processor keeps executing the main program, none
  of whose steps is disabled by another context for good; `WF(StepperIsr)` - the timer
  keeps firing while enabled; and `SF(DelayEnds)` - the restore's delay counts down
  and ends, though each turn of it also runs a pass.
* `motion` assumes `WF(Main)` and `WF(Timer)`, for the same reasons. Two tasks that
  each make steps: without the timer a homing move would never end.
* `comms` assumes `WF(Main)`, `WF(Poll)`, `WF(FlushTimePasses)` and
  `SF(PollStarts)`: the ticker is due every 33 ms and runs at the next `delay()`, but
  the main program is at a yield only now and then, so weak fairness would
  allow it to be passed over for ever.
* `Planner` and `Machine` have only safety properties.

## 4. What is proved

For every value of the constants (any buffer sizes, bounds, inputs, scenarios). The only
assumptions are `RealtimeAssumption`, and for the stepper `PipelineAssumption` (a ring of
more than two slots; AMASS levels up to 3, as stepper.cpp:40-56 has
them) and `MotionAssumption` (some homing cycle, each of some axis: grbl.hpp:73; a line's move
has at least one step event and no axis with more steps than events, as planner.cpp takes their
maximum), and for the clients `CommsAssumption` (no buffer of size zero, rings of two slots or more;
clients send whatever kinds of bytes they like), for the planner `PlannerAssumption` (a ring of more than two
slots, moves and overrides with natural speeds, lengths and percentages; a user who does not
only raise or only lower the overrides is `mixed`'s matter), and for the lines `LinesAssumption` (a line is one of the
modelled commands, with a number, an integral value, and words that are each a name and a number), `BadAssumption` (a damaged record is no point) and `InchAssumption`.

| Theorem | Says |
|---|---|
| `Realtime_proofs!TypeCorrect` | `Spec => []TypeOK`: neither buffer overflows, every call returns to a step that exists |
| `Realtime_proofs!ResumeInvCorrect`, `ResumeCorrect` | `Spec => []ResumeInv`, `Spec => ResumeNeedsUser` |
| `Still_proofs!RealtimeInvCorrect` | `Spec => []RealtimeInv` |
| `Still_proofs!HeldCorrect`, `StrandedCorrect`, `IdleCorrect`, `ParkedCorrect` | `HeldIsStill`, `NeverStranded`, `IdleIsStill`, `ParkedIsOff` |
| `Still_proofs!AlarmCorrect` | `Spec => AlarmLocks` |
| `Planner_proofs!PlanInvCorrect`, `PlannerTyped` | `Spec => []PlanInv`, `Spec => []TypeOK` |
| `Planner_proofs!PlannedPointerCorrect`, `ExitCorrect` | `Spec => []PlannedInPlan`, `Spec => []ExitIsPlanned`, for all jobs |
| `Planner_proofs!FeasibleCorrect`, `OptimalCorrect`, `StopsCorrect` | `PlanFeasible`, `PlanOptimal` and `StopsInPlan` always hold in jobs whose overrides only rise |
| `Planner_proofs!NoSpeedJumpCorrect` | so does `NoSpeedJump` |
| `Motion_proofs!QueueInvCorrect`, `MotionInvCorrect` | `Spec => []QueueInv`, `Spec => []MotionInv` |
| `Motion_proofs!RingsImplementQueue` | `Spec => Refines`: segment ring and block ring are `SegmentQueue` |
| `Motion_proofs!LimitsRearmedCorrect` | `Spec => []LimitsRearmed` |
| `Motion_proofs!LoopIsStillCorrect`, `MotorFollowsCorrect`, `DryTimerHasBlockCorrect` | `Spec => []LoopIsStill`, `Spec => []MotorFollows`, `Spec => []DryTimerHasBlock` |
| `Motion_proofs!ArrivesInvCorrect`, `ArrivesCorrect` | `Spec => []ArrivesInv`, `Spec => []ArrivesAtTarget` |
| `Motion_proofs!HomingNeverSucceeds` | a homing cycle reaches its end only in an abort |
| `Comms_proofs!CommsInvCorrect`, `InOrderCorrect` | `Spec => []CommsInv`, `Spec => []InOrder` |
| `Comms_proofs!NothingLostCorrect`, `AnsweredOnceCorrect` | `Spec => []NothingLost`, `Spec => []AnsweredOnce` |
| `Comms_proofs!LinesIntactCorrect` | `Spec => []LinesIntact` |
| `Comms_proofs!NoUnaskedRiseCorrect`, `AcceptedKeepsSlotCorrect` | `Spec => NoUnaskedRise`, `Spec => AcceptedKeepsSlot` |
| `Machine_proofs!StoreInvCorrect` | `Spec => []StoreInv` |
| `Machine_proofs!SoftNeedsHomingCorrect`, `DurableCorrect` | `Spec => []SoftNeedsHoming`, `Spec => []Durable` |
| `Machine_proofs!MachineInvCorrect`, `OffsetsStoredCorrect` | `Spec => []MachineInv`, `Spec => []OffsetsStored` |
| `Machine_proofs!PositionTracksCorrect`, `RejectedCorrect` | `Spec => []PositionTracks`, `Spec => RejectedChangesNothing` |

With these every safety property of every passing run is proved, those of `plan` that need it for
jobs that raise; the runs are what told which strengthening was true before it was proved.

### The resume properties

`ResumeNeedsUser` is not inductive: it speaks of the moment of resuming, while
the cycle start flag behind it may have been set long before, by the
main program itself (auto cycle start, a full planner, the end of a
restore). `ResumeInv` says where such a flag can be at each step:

1. `AbortKeepsReset`: an abort holds on to its reset flag, so no
   pass gets as far as the start.
2. `MainIsNotSuspended`: where the main program sets the flag by itself nothing
   is suspended, hence no hold is in force.
3. `StoreIsFresh`: a store in progress brings back no flag that is not still set,
   so a cleared cycle start stays cleared.
4. `SleepIsFromLine`, `RestoreIsAtDoor`: the two ways into a suspend state that are
   not a hold.
5. `StartIsAskedFor`: a start nobody asked for is one the main program just set with
   nothing suspended, or is being cleared, or is the late end of a restore -
   the exception that `resume` shows to be real.

### Still motors, parked coolant, alarms

That the steppers are off in a complete hold cannot be read off the state: the interrupt
stops on its own and tells so by a flag, which a pass copies, acts on three steps
later, and clears by a load and a store. `StillInv` follows the flag on this way
(`StopComes`, `StopClears`): the steppers run, or a stop is on this way, only in a
state of motion, in a hold that decelerates, or in an alarm whose reset is still to
be found (`RunsInMotion`); in turn, motion that does not run has a wake-up, a stop or a
reset coming (`MotionEnds`). It says `lost = {}`, as a store that wipes out the
stop strands the machine, or lets it run on in an alarm.

It rests on `ControlInv`, about how calls return: a pass returns to where it was
called (`ReturnsToCaller`), no store on the way to a wake-up touches the flags
that matter (`StoresAsCoded`), a soft limit ends in an abort before `mc_line()`
goes on (`SoftLimitAborts`), and sleep begins at rest only (`SleepFromRest`).
`ParkedInv` is what a retraction promises from its last step to the restore, also
through an alarm and into sleep.

The attempt to prove `ParkedIsOff` without `lost = {}` failed for a good reason: with
a flag wiped out, a machine falls asleep from a state of motion with its coolant
on, so the asleep half has the condition. The half about the door needs none.

### Two rings are a queue

`Refines` is step simulation: each action of `Pipeline` is one of `SegmentQueue` or
changes nothing it shows (`Quiet`). What makes it work is the ring invariant, of
`Pipeline` alone:

1. `Filled`: while a segment is cut there is a slot for it, and what is published has at
   least one event and not more than fit sixteen bits. So `n_step` never wraps and
   no segment is empty.
2. `InBlockOrder`: along the ring, from a segment to the next the block's slot stays
   or advances by one, up to the one being cut. Since a segment takes a slot of
   the larger ring, the block ring cannot come around: a new block is loaded into a
   slot no segment refers to. This is the claim of stepper.cpp:62.
3. `SameBlock`: two segments in a row refer to one slot exactly if they are of one block.
   The interrupt compares slots only (stepper.cpp:373); this is what makes the
   comparison right, also when the ring ran dry in between.
4. `ExecutesFirst`: the interrupt's copy of the increments is that of the oldest segment.

`Motion` adds what its callers guarantee: numbers of blocks are new (`Fresh`), and
an abort goes along the way out of the pass (`Aborts`). `Pipeline_proofs` shows that
each operation keeps the ring invariant and what it does to the queue; `Motion_proofs` has
one lemma per action, most of which leave the rings alone or empty them.
`PullOffFails` is the argument that homing fails: with the handler detached the latch of
the switches stays what it was. If they are not latched the first approach never ends at
them; if they are, the first pull-off fails because they still are.

### The timer in motion

`QueueInv` is inductive by itself. On top of it, as long as nothing ended `early`, are the three
parts of `TimerInv`:

1. `StillInv`: a state of the program is in homing, after an abort, on the way to one (`Ending`)
   or `Calm`. In the last, the timer runs in states of motion only, is off once it has said so
   (`Stops`: the flag or the copy that a pass has of it), and is off and has said so where a motion is being
   started or a hold is complete. An alarm leaves `Calm` for an abort only if its reset is
   already flagged; one raised with the timer off (a probe's) needs none. `Calm` comes back
   with the initialization alone. `LoopIsStill` follows.
2. `MotorInv`: the counted position is that of the motors and the pulse to come (`Pending`). A
   wake-up forgets the pulse; that loses nothing as the timer was off. A segment's
   direction is its block's (`ExecutesFirst`), so a pulse is sent the way it was counted.
   A kill or homing sets the two apart for good (`synced`).
3. `BlockInv`: whatever is woken up has a segment in the ring or traced a block since the last
   `st_reset()`. `st_prep_buffer()` runs before each wake-up and finds something to cut, as
   neither a hold nor the end of one is pending there (`Halting`): a hold needs a state of
   motion, hence a block; and what ends one clears it.

### The machine arrives

That a block makes exactly its steps, in whatever pieces, sounds like a sum over segments and
blocks. No sum is needed: `ArrivesInv` says of every state, outside of homing and aborts (which
end in positions taken over), that the machine is `OnCourse`. There are an assignment `f` of pieces to
the segments in the ring (their step events, those left of the block behind them, the block, and where it
ends) and an assignment `p` of places to the blocks of the plan, such that each continues the one
before, the last place is the planner's, and the machine is on the line traced (`Tracing`).

1. *One line.* On a line (`OnLine`), per axis, the counter and the work still to be added to it
   are one half of a step event's count and the whole of it for each step to the goal. An interrupt
   moves from one side to the other (`StepsOn`), a line begins in the middle (`LineBegins`, stepper.cpp:379),
   and with no work left it is at its goal (`LineReaches`): the counter cannot be half a count
   off a goal that it did not reach.
2. *Levels.* The work of a segment is the same whatever its AMASS level, since increments and
   counts were multiplied by the highest one first (`NoRest`, `Added`; stepper.cpp:757-761).
3. *The rings.* A block that is loaded takes the first place of the plan's (`CourseLoaded`), a segment
   that is published splits what remains of it (`CoursePublished`), a tick takes the first segment or
   goes on with it (`CourseTicked`). `SameBlock` and `InBlockOrder` tell a continued line from
   a new one.
4. *Flushes* take the machine's position over, and leave a course of no length (`CourseEmpty`). Homing is
   left with an abort only (`Hopeless`), and an abort with an initialization (`ReinitLeaves`).

### From a client and back

`Rings_proofs` first tells the buffers as sequences: a push appends, a pop or a read takes
the head, a reset empties, whatever the size, and also where the index of a ring wraps before its
last slot (`Period`). From there on nothing is said of indices any more.

1. *Order.* `InOrder` is one statement about a concatenation; the proof uses `Way`, which says
   the same part by part (`WayIsOrder`): what was read is older than what is in the ring, that is
   older than what is before the ring, and that was sent (`OnlySent`). A packet adds some of
   the newest bytes at the end (`Tacked`), a poll moves or drops a head, a read takes one.
   That bytes are dropped on the way, at any of three places, does not disturb the order.
2. *Loss.* A client keeps its unanswered bytes within its window (`WithinWindow`). No more
   is on its way than is unanswered, as the places are distinct (`OnItsWay`) and a line is
   answered only after its end was read (`AnsweredAfterRead`). Hence a packet finds room,
   and so does a byte in the ring: a realtime command is never put there
   (`CommandsPickedOff`), so all that the ring holds waits for an answer.
3. *Answers.* `AnsweredOnce` relates what was delivered and what waits in the transmit buffer.
   A write appends one answer to the two together, whether it flushes before, after, both or
   not at all, and a flush moves from one to the other - unless nobody is connected, when it is
   dropped: `OpenToSend` excludes that where no websocket closes.
4. *Overrides.* A rise needs a command that raises among the pending ones; `RisesAsked` keeps
   the two together until a pass takes them.
5. *Lines.* A line executed should be what all of its client's text says of it: what is in a comment
   depends on every byte before. The invariant `Lines` compares the line with the text *so far*
   (`Assembled`), and a byte that is read adds itself to both or to neither (`NextByte`,
   `ByteAssembled`), so there is no induction. Next to it: no byte is lost (`AllOnTheWay`), hence the byte
   read is the next of its client, or the next after realtime commands; one client's line is assembled
   while the others are between two of theirs (`OneAssembled`). Where lines come whole, a poll that
   began to pass on a line goes on to its end before the program reads again (`LinesInRings`); where one
   client is alone, the others stay `Silent`.

`NothingLost`, `AnsweredOnce` and `LinesIntact` say `Steady`: fragments are not passed on, an answer to a closed
websocket is dropped, and a telnet client that reconnects finds the old bytes in the buffer.

### What is stored

`SoftNeedsHoming` and `Durable` are about whatever lines come, so nothing may rest on what the
parser makes of their words. The proof is about the memory alone: every handler turns it into
one that comes from it by a chain of writes (`Comes`), and each write keeps `MemoryOK` and
`Agrees` (`Kept`), since it commits. Two things need `StoreInv` rather than the properties:
what a power cut leaves is one of the images a call commits, or an erased sector, so *all* of
these hold safe settings; and a boot reads the image, so that an unpowered machine's image
is its flash. The texts that `$RST=*` empties are the one write without a commit, hence
the exception in `Agrees`; it survives every later write, as that commits them too.

### What a line does

`OffsetsStored`, `PositionTracks` and `RejectedChangesNothing` do depend on what the words say: that
the coordinate system changes only with its group's bit set, that an axis word is there where
one is needed. `Whole` is the invariant: parser, positions and records are typed, the record of G54
is good while the machine is on, and the offset in force and the three positions agree (`Ready`).

1. *Reading.* A block is read by a recursive function of the number of words. That this function exists
   (`ReadsExist`) and that the block is typed after every word (`ParseOK`) is shown by
   induction over the words, which rests on nothing but that a set of naturals has a least
   element (`LeastOf`, `SetInduction`).
2. *Checking.* A line that is accepted has what its execution needs (`Accepted`, `CheckedOK`); one that is
   not leaves parser and plan alone. It may still have read a record, and a bad one is then
   reset (`Reset1`): the exception in `RejectedChangesNothing`.
3. *Executing.* `Fit` is what each part of the execution is handed and hands on: `Offs` (the offset is
   the record's), `PlanEnd` (the planner is where the queued moves end) and `PosPlan` (so is the
   parser). The first and last are suspended in check mode, all of them with a reset pending, where
   the initialization takes the machine's position over. Each step of `gc_execute_line()` has its
   lemma (`FeedFit` .. `FlowFit`), since any may end in a reset.

### Planning

Every block of a plan of any length has its own conditions, and a pass visits only some of the
blocks. The proof never counts over a plan: each condition relates a block to its neighbours
(`Waiting`, `LeaveSpeed`, `Reached`), and a step of a loop moves one of them.

1. *Places.* A slot's `Place` in the queue tells the order apart from where the ring wraps. The
   first lemmas of `Planner_proofs` say how places change with `NextSlot`, `PrevSlot`, a new head
   and a discarded tail; nothing later mentions the wrap.
2. *The sweep* (`SweepInv`, for every job). The reverse pass is behind the planned pointer and
   the forward pass follows it to the head. A profile is in execution only where the
   planned pointer is in the plan, and a sweep that would change what it ends at unloads it
   first: from this follow `PlannedInPlan` and `ExitIsPlanned`. The one exception is the first
   block behind an empty plan whose pointer was moved out; it is entered at rest at a maximum of
   0, so the sweep takes it as planned when it gets there.
3. *Rates* (`RateInv`). No maximum is above the block's own nominal speed, that of the block
   before, or the junction. A new override sets all of them, and only raises them.
4. *Braking* (`BrakeInv`) holds in every state, within the sweep too: `Reverse` raises an entry only
   to what the exit allows and `Forward` lowers one only where the block before cannot reach it,
   which was an acceleration. Here overrides must rise: a lowered maximum would leave the block
   before with more speed than it can get rid of.
5. *Reaching* (`ReachInv`) is broken by `Reverse` and put right by `Forward`; it is claimed of
   the blocks that the sweep does not touch any more (`Settled`).
6. *The best* (`BestInv`). Blocks behind the reverse pass are as fast as they can brake from, those
   the forward pass has left are that or as fast as they are reached. The pass
   may stop at the planned block because that one is at its maximum or reached by full
   acceleration (`BestForward`): no later block can make it faster.
7. *The machine* (`SpeedInv`) is at the speed that the next profile starts from, or in
   a hold below it, and a hold follows a ramp that ends in the block or at its end. With 4 and 5,
   that is `PlanFeasible` for the block in execution, and `NoSpeedJump` for each segment.

Lowered overrides are outside 3 to 7, as the properties do not hold of the code then
when rates are mixed (`mixed`). At one rate they do hold, and the run checks them.

### Only model-checked

* All liveness, as the proof system does not handle fairness and `ENABLED`: `HoldCompletes`,
  `ResetTaken`, `PlannedRuns`, `HomingEnds`, `EveryLineAnswered`.
* Of `Planner`: `PlanFeasible`, `PlanOptimal`, `StopsInPlan` and `NoSpeedJump` for overrides that are
  lowered between feeds at one rate. There blocks may have been planned faster than they are
  now allowed to be, and the proof would have to sum up how far each can brake.

## 5. Not modelled

* *Outputs.* The shift register image (`cpu_map.hpp:40`) is static in a header, so each
  source file shifts out its own copy. The levels of the pins depend on which
  file wrote last; outputs are modelled as what the program last set. Pin
  inversion, pulse widths, step rates and the spindle's PWM are left out.
* *Spindle.* M3-M5 only take their modal group: what they should set is commented
  out (gcode.cpp:257-261), so the spindle stays disabled. Spindle override, stop
  override and laser mode are left out.
* *Geometry.* Unit vectors, junction speeds, the inside of an arc (only its end point
  and its checks are in `Gcode`), axes A to E, feed rate values.
* *Text.* Number parsing, the wording of reports, checksums of records.
* *Not compiled in.* Parking, the door's pin, mist coolant, homing of single axes.
* *Below the code.* The TCP library, the web pages and wifi set-up. Several clients of
  the websocket at a time.
* *`Motion`.* The door and sleep, which are `Realtime`'s; distances and rates of homing.
* *`$100=`* and the like: changing the steps per millimetre makes the positions of parser
  and planner disagree until the next reset, as reading the code shows.

## 6. Plan

The modules planned are all there. Every safety property of a passing run is proved, for
`Realtime`, `Motion` and its refinement of `SegmentQueue`, `Comms`, `Machine`, and for `Planner` where
overrides rise. What is left is the planner with overrides lowered at one rate, a sum over the blocks
ahead, and the liveness properties, which stay with TLC.
