------------------------------ MODULE Machine ------------------------------
(***************************************************************************)
(* The lines the main loop executes one after the other (G-code, jogs and  *)
(* the `$` commands of system.cpp), what they do to the parser, the stored *)
(* data and the planned motion, and the resets and power cuts between and  *)
(* during them.                                                            *)
(*                                                                         *)
(* Motion is a queue of targets here; Motion and Realtime say how it is    *)
(* executed, held and cancelled.                                           *)
(***************************************************************************)
EXTENDS Gcode

CONSTANTS Lines,      \* the lines the clients may send
          MaxLines    \* how many of them they send

\* The commands of system_execute_line() that are modelled; a number that is not
\* in 0..255 is truncated to one that is.
LineCommands == {"gcode", "jog", "check", "unlock", "startup", "setting", "restore", "info",
                 "parameters", "lines", "version"}

ASSUME LinesAssumption ==
  /\ MaxLines \in Nat
  /\ \A l \in Lines : l.cmd \in LineCommands /\ l.n \in Nat /\ l.v \in Int /\ l.words \in Texts

VARIABLES
  on,        \* powered and initialised
  gc, mem,   \* gc_state; settings, EEPROM image and flash
  st,        \* sys.state: IDLE CYCLE JOG CHECK ALARM
  abort,     \* a reset has been taken and the main loop is left
  pos, plan, path,    \* machine position, planner position, moves ahead
  cool,      \* the flood coolant output
  last,      \* history: the last line executed, "none" after any other step
  sent       \* lines sent so far

vars == <<on, gc, mem, st, abort, pos, plan, path, cool, last, sent>>

Quiet == [cmd |-> "none", ok |-> TRUE, axes |-> {}]

Now == [gc |-> gc, m |-> mem, st |-> st, abort |-> abort, pos |-> pos, plan |-> plan,
        path |-> path, cool |-> cool, stuck |-> FALSE]

Become(s) ==
  /\ gc' = s.gc /\ mem' = [s.m EXCEPT !.log = {}] /\ st' = s.st /\ abort' = s.abort
  /\ pos' = s.pos /\ plan' = s.plan /\ path' = s.path /\ cool' = s.cool

\* The unpowered machine remembers what is in flash.
OffMachine(disk) ==
  [gc |-> [modal |-> DefaultModal, rate |-> 0, pos |-> Zero, coord |-> Zero, off |-> Zero, tlo |-> 0],
   m |-> MemoryAtPowerUp(disk), st |-> "IDLE", abort |-> FALSE, pos |-> Zero, plan |-> Zero,
   path |-> <<>>, cool |-> FALSE, stuck |-> FALSE]

Init ==
  LET s == OffMachine(ErasedImage)
  IN  /\ on = FALSE /\ gc = s.gc /\ mem = s.m /\ st = s.st /\ abort = s.abort
      /\ pos = s.pos /\ plan = s.plan /\ path = s.path /\ cool = s.cool
      /\ last = Quiet /\ sent = 0

(***************************************************************************)
(* The `$` commands.                                                       *)
(***************************************************************************)
Answer(ok, s) == [ok |-> ok, s |-> s]

\* mc_reset(): the coolant goes off, motion in progress is lost.
McReset(s) ==
  [s EXCEPT !.abort = TRUE, !.cool = FALSE, !.st = IF @ \in {"CYCLE", "JOG"} THEN "ALARM" ELSE @]

\* $C: leaving the check mode is a reset.
ToggleCheck(s) ==
  CASE s.st = "CHECK" -> Answer(TRUE, McReset(s))
    [] s.st = "IDLE" -> Answer(TRUE, [s EXCEPT !.st = "CHECK"])
    [] OTHER -> Answer(FALSE, s)

Unlock(s) == [s EXCEPT !.st = IF @ = "ALARM" THEN "IDLE" ELSE @]

\* $Nn=: the line is executed first and stored if it was accepted.
SetStartup(s, l, junk) ==
  LET r == GcExecuteLine(s, l.words, FALSE, junk)
  IN  IF s.st # "IDLE" \/ ~r.ok THEN Answer(FALSE, IF s.st # "IDLE" THEN s ELSE r.s)
      ELSE Answer(TRUE, [Sync(r.s) EXCEPT !.m = StoreStartup(@, l.n, l.words)])

RestoreStored(s, what) ==
  McReset(IF what = "settings" THEN [s EXCEPT !.m = RestoreDefaults(@)]
          ELSE [Sync(s) EXCEPT !.m = IF what = "all" THEN RestoreAll(@) ELSE RestoreParameters(@)])

\* $# stops at the first record it cannot read, and resets it.
ShowParameters(m) ==
  LET bad == {k \in Systems : m.image.coord[k] = Bad}
  IN  IF bad = {} THEN m ELSE ReadCoord(m, CHOOSE k \in bad : \A j \in bad : k <= j).m

ShowStartup(m) == ReadStartup(ReadStartup(m, 0).m, 1).m

SystemLine(s, l, junk) ==
  CASE l.cmd = "jog" -> IF s.st \in {"IDLE", "JOG"} THEN GcExecuteLine(s, l.words, TRUE, junk)
                        ELSE Answer(FALSE, s)
    [] l.cmd = "check" -> ToggleCheck(s)
    [] l.cmd = "unlock" -> Answer(TRUE, Unlock(s))
    [] OTHER ->
         IF s.st \notin {"IDLE", "ALARM"} THEN Answer(FALSE, s)
         ELSE CASE l.cmd = "startup" -> SetStartup(s, l, junk)
                [] l.cmd = "setting" -> LET r == StoreSetting(s.m, l.n, l.v)
                                        IN  Answer(r.ok, [s EXCEPT !.m = r.m])
                [] l.cmd = "restore" -> Answer(TRUE, RestoreStored(s, l.arg))
                [] l.cmd = "info" -> Answer(TRUE, [s EXCEPT !.m = StoreInfo(@, <<l.arg>>)])
                [] l.cmd = "parameters" -> Answer(TRUE, Reread(s, ShowParameters(s.m)))
                [] l.cmd = "lines" -> Answer(TRUE, Reread(s, ShowStartup(s.m)))
                [] l.cmd = "version" -> Answer(TRUE, [s EXCEPT !.m = ReadInfo(@)])

\* One line of the main loop, which locks G-code out in ALARM and JOG.
ExecuteLine(s, l, junk) ==
  IF l.cmd # "gcode" THEN SystemLine(s, l, junk)
  ELSE IF s.st \in {"ALARM", "JOG"} THEN Answer(FALSE, s)
  ELSE GcExecuteLine(s, l.words, FALSE, junk)

(***************************************************************************)
(* main(): setup() at power-up; the initialisation of loop() and the start *)
(* of protocol_main_loop() after power-up and after each reset.            *)
(***************************************************************************)
StartupLine(s, n) ==
  LET r == ReadStartup(s.m, n)
      t == [s EXCEPT !.m = r.m]
  IN  IF r.value = EmptyText THEN t ELSE GcExecuteLine(t, r.value, FALSE, LetterBit("F")).s

Restarted(s) ==
  LET g == GcInit(s.m)
      t == [s EXCEPT !.m = g.m, !.gc = [g.gc EXCEPT !.pos = s.pos], !.plan = s.pos, !.path = <<>>,
                     !.cool = FALSE, !.abort = FALSE, !.st = IF @ = "ALARM" THEN @ ELSE "IDLE"]
  IN  IF t.st = "ALARM" THEN t ELSE StartupLine(StartupLine(t, 0), 1)

Booted(s) ==
  LET m == SettingsInit(s.m)
  IN  Restarted([s EXCEPT !.m = m, !.st = IF m.set.homing THEN "ALARM" ELSE "IDLE"])

(***************************************************************************)
(* Actions.                                                                *)
(***************************************************************************)
\* What word_bit may hold at the start of a line that reads it.
Junk(l) == IF l.words # EmptyText /\ l.words[1][1] = OtherM THEN 0..15 ELSE {0}

Named(l) ==
  LET names == {l.words[i][1] : i \in DOMAIN l.words}
  IN  IF l.cmd \notin {"gcode", "jog", "startup"} THEN {}
      ELSE IF names \cap {"G28", "G30"} # {} /\ names \cap Axes = {} THEN Axes
      ELSE names \cap Axes

\* The line l is executed, with the answer r.
Line(l, r) ==
  /\ ~r.s.stuck
  /\ Become(r.s)
  /\ last' = [cmd |-> l.cmd, ok |-> r.ok, axes |-> Named(l)]
  /\ UNCHANGED on

\* Where a reset or a cancel finds the machine: before, or at the end of, the
\* move being executed, which stand for the points between them.
StopsAt(s) ==
  IF s.path # <<>> /\ s.st \in {"CYCLE", "JOG"} THEN {s.pos, Head(s.path)} ELSE {s.pos}

\* The reset character.
Reset ==
  /\ on /\ ~abort
  /\ \E p \in StopsAt(Now) : Become([McReset(Now) EXCEPT !.pos = p])
  /\ last' = Quiet /\ UNCHANGED <<on, sent>>

\* It also ends the wait of a line for the motion before it: the line goes
\* on with the abort pending, which keeps it from moving but not from storing.
ResetInLine(r) ==
  LET waiting == [Now EXCEPT !.st = IF @ = "IDLE" THEN "CYCLE" ELSE @, !.m = r.s.m]
  IN  /\ path # <<>> /\ (r.s.stuck \/ r.s.path = <<>>)
      /\ \E p \in StopsAt(waiting) : Become([McReset(waiting) EXCEPT !.pos = p])
      /\ last' = Quiet /\ UNCHANGED on

Reinit ==
  /\ on /\ abort
  /\ Become(Restarted(Now))
  /\ last' = Quiet /\ UNCHANGED <<on, sent>>

\* protocol_auto_cycle_start(), when no more characters are waiting.
CycleStart ==
  /\ on /\ ~abort /\ st = "IDLE" /\ path # <<>>
  /\ Become([Now EXCEPT !.st = "CYCLE"])
  /\ last' = Quiet /\ UNCHANGED <<on, sent>>

\* A planned move is executed to its end.
Move ==
  /\ on /\ ~abort /\ st \in {"CYCLE", "JOG"} /\ path # <<>>
  /\ Become([Now EXCEPT !.pos = Head(path), !.path = Tail(path),
                        !.st = IF Tail(path) = <<>> THEN "IDLE" ELSE @])
  /\ last' = Quiet /\ UNCHANGED <<on, sent>>

\* A jog is cancelled: the buffers are flushed and the positions synchronised.
JogCancel ==
  /\ on /\ ~abort /\ st = "JOG"
  /\ \E p \in StopsAt(Now) : Become([Now EXCEPT !.pos = p, !.plan = p, !.gc.pos = p, !.path = <<>>,
                                          !.st = "IDLE"])
  /\ last' = Quiet /\ UNCHANGED <<on, sent>>

Boot ==
  /\ ~on
  /\ on' = TRUE
  /\ Become(Booted(Now))
  /\ last' = Quiet /\ UNCHANGED sent

\* The power goes: what was committed stays.
PowerOff(disk) ==
  /\ on' = FALSE
  /\ Become(OffMachine(disk))
  /\ last' = Quiet

PowerFails == on /\ PowerOff(mem.disk) /\ UNCHANGED sent

\* It goes during a call that commits: after one of the commits, or within
\* one, which leaves the sector erased.
CutDuring(m) == \E disk \in m.log \cup {ErasedImage} : m.log # {} /\ PowerOff(disk)

PowerFailsInLine(r) == CutDuring(r.s.m)

LineArrives ==
  /\ on /\ ~abort /\ sent < MaxLines
  /\ \E l \in Lines : \E junk \in Junk(l) : \E r \in {ExecuteLine(Now, l, junk)} :
       Line(l, r) \/ ResetInLine(r) \/ PowerFailsInLine(r)
  /\ sent' = sent + 1

PowerFailsAtStart ==
  /\ ~on \/ abort
  /\ CutDuring((IF on THEN Restarted(Now) ELSE Booted(Now)).m)
  /\ UNCHANGED sent

Next ==
  \/ LineArrives
  \/ Reset \/ Reinit \/ CycleStart \/ Move \/ JogCancel
  \/ Boot \/ PowerFails \/ PowerFailsAtStart

Spec == Init /\ [][Next]_vars

(***************************************************************************)
(* Properties.                                                             *)
(***************************************************************************)
\* Types of the parser, of the stored records and of the machine.
TypeOK ==
  /\ on \in BOOLEAN /\ abort \in BOOLEAN /\ cool \in BOOLEAN /\ sent \in 0..MaxLines
  /\ st \in {"IDLE", "CYCLE", "JOG", "CHECK", "ALARM"}
  /\ gc.modal.sel \in Systems /\ gc.modal.flow = "running" /\ gc.rate \in Nat /\ gc.tlo \in Int
  /\ {gc.pos, gc.coord, gc.off, pos, plan} \cup ToSet(path) \subseteq Point
  /\ mem.log = {}
  /\ \A k \in Systems : mem.image.coord[k] = Bad \/ mem.image.coord[k] \in Point

\* The work offsets the parser applies are the ones stored, durably, for the
\* system it has selected.  In check mode M2 selects G54 without loading it.
OffsetsStored == on /\ ~abort /\ st # "CHECK" => gc.coord = mem.disk.coord[gc.modal.sel]

\* The parser's position is the planner's, and that is where the moves lead:
\* a line that names one axis moves no other.
PositionTracks ==
  on /\ ~abort =>
    /\ plan = (IF path = <<>> THEN pos ELSE Last(path))
    /\ st # "CHECK" => gc.pos = plan

\* A refused line leaves parser, outputs, planned motion and settings as they
\* were, and stores nothing but the reset of a record that was bad.
RejectedChangesNothing ==
  [][~last'.ok =>
       /\ UNCHANGED <<gc, plan, cool, mem.set>>
       /\ mem'.disk.startup = mem.disk.startup
       /\ \A k \in Systems : mem.image.coord[k] # Bad => mem'.disk.coord[k] = mem.disk.coord[k]]_vars

\* Soft limits are never on without homing, in force or stored.
SoftNeedsHoming ==
  /\ mem.set.soft => mem.set.homing
  /\ mem.disk.global # Bad => (mem.disk.global.soft => mem.disk.global.homing)

\* What the machine works with between lines is what it would find after a
\* power cut, but for the texts `$RST=*` has emptied without committing.
Agrees(m) ==
  /\ m.image.version /\ m.disk.version
  /\ m.set = m.image.global /\ m.set = m.disk.global
  /\ m.image.coord = m.disk.coord
  /\ \A n \in StartupLines : m.image.startup[n] \in {m.disk.startup[n], EmptyText}
Durable == on => Agrees(mem)

\* What these two rest on: no settings in force, in the image or committed have soft
\* limits without homing, and an unpowered machine remembers its flash only.
SafeSettings == {s \in [pulse : Int, homing : BOOLEAN, soft : BOOLEAN] : s.soft => s.homing}
ImageOK(i) ==
  /\ DOMAIN i = {"version", "global", "coord", "startup", "info"}
  /\ i.version \in BOOLEAN /\ i.global \in SafeSettings \cup {Bad}
  /\ DOMAIN i.coord = Systems /\ DOMAIN i.startup = StartupLines
MemoryOK(m) ==
  /\ DOMAIN m = {"set", "image", "disk", "log"}
  /\ m.set \in SafeSettings /\ ImageOK(m.image) /\ ImageOK(m.disk)
  /\ \A i \in m.log : ImageOK(i)
StoreInv ==
  /\ MemoryOK(mem)
  /\ on \in BOOLEAN
  /\ IF on THEN Agrees(mem) ELSE mem.image = mem.disk

\* What the types of the parser rest on: the lines stored are lines the parser can read,
\* and the record of G54 is good while the machine is on; what the rejected lines rest on:
\* texts that are emptied but not committed go with records that are all good.
Modals == [motion : Groups[2], plane : Groups[3], distance : Groups[4], feed : Groups[6],
           units : Groups[7], sel : 0..5, flow : {"running", "M0", "M2", "M30"}, coolant : BOOLEAN]
Parsers == [modal : Modals, rate : Nat, pos : Point, coord : Point, off : Point, tlo : Int]
RecordsOK(i) ==
  /\ i.coord \in [Systems -> Point \cup {Bad}]
  /\ i.startup \in [StartupLines -> Texts \cup {Bad}]
Tidy(m) == m.image.startup = m.disk.startup \/ \A k \in Systems : m.image.coord[k] # Bad
LineInv ==
  /\ gc \in Parsers /\ path \in Seq(Point)
  /\ RecordsOK(mem.image) /\ RecordsOK(mem.disk)
  /\ on => Tidy(mem) /\ mem.image.coord[0] # Bad
MachineInv == TypeOK /\ StoreInv /\ LineInv
=============================================================================
