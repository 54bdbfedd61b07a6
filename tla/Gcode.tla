------------------------------- MODULE Gcode -------------------------------
(***************************************************************************)
(* gc_execute_line() of gcode.cpp: the words of a line are read into a     *)
(* block, the block is checked and its coordinates are converted, and only *)
(* then is it executed.                                                    *)
(*                                                                         *)
(* A line is a sequence of words <<name, value>>: a command (G92.1 is      *)
(* written G921) or a letter with its value.  Coordinates are integers and *)
(* an inch is InchMM of them.  The operators take and return the machine   *)
(* as a record:                                                            *)
(*   gc     the parser's state (gc_state)                                  *)
(*   m      the memory of Store                                            *)
(*   st     sys.state          abort  a reset is pending (sys.abort)       *)
(*   pos    machine position   plan   planner position (pl.position)       *)
(*   path   the ends of the planned moves that have not been executed      *)
(*   cool   the flood coolant output                                       *)
(*   stuck  a buffer synchronisation that cannot end                       *)
(***************************************************************************)
EXTENDS Store, SequencesExt

CONSTANTS InchMM,    \* MM_PER_INCH
          MaxTravel  \* travel of every axis, -MaxTravel..0

ASSUME InchAssumption == InchMM \in Nat \ {0} /\ MaxTravel \in Nat

(***************************************************************************)
(* Words and their numbers: modal groups and value words share the bit     *)
(* numbers of two separate masks.                                          *)
(***************************************************************************)
MotionCommands == {"G0", "G1", "G2", "G3", "G382", "G383", "G384", "G385"}
Probes == {"G382", "G383", "G384", "G385"}
AxisCommands == {"G10", "G28", "G30", "G92"}
NonModalCommands == AxisCommands \cup {"G4", "G53", "G281", "G301", "G921"}
CoordSystems == [G54 |-> 0, G55 |-> 1, G56 |-> 2, G57 |-> 3, G58 |-> 4, G59 |-> 5]

Groups == <<NonModalCommands, MotionCommands \cup {"G80"}, {"G17", "G18", "G19"}, {"G90", "G91"},
            {"G911"}, {"G93", "G94"}, {"G20", "G21"}, {"G40"}, {"G431", "G49"},
            DOMAIN CoordSystems, {"G61"}, {"M0", "M1", "M2", "M30"}, {"M3", "M4", "M5"}, {"M8", "M9"}>>
G0Group == 0
G3Group == 3
G6Group == 6
G12Group == 9
GroupOf(c) == (CHOOSE i \in DOMAIN Groups : c \in Groups[i]) - 1
Commands == UNION {Groups[i] : i \in DOMAIN Groups}
OtherM == "M104"           \* any M code the switch does not list

Letters == <<"F", "I", "J", "K", "L", "N", "P", "R", "S", "T", "X", "Y", "Z">>
LetterBit(l) == (CHOOSE i \in DOMAIN Letters : Letters[i] = l) - 1
NoValues == [l \in ToSet(Letters) |-> 0]

DefaultModal == [motion |-> "G0", plane |-> "G17", distance |-> "G90", feed |-> "G94",
                 units |-> "G21", sel |-> 0, flow |-> "running", coolant |-> FALSE]

\* gc_init()
GcInit(m) ==
  LET r == ReadCoord(m, 0)
  IN  [gc |-> [modal |-> DefaultModal, rate |-> 0, pos |-> Zero, coord |-> r.value,
               off |-> Zero, tlo |-> 0],
       m |-> r.m]

(***************************************************************************)
(* Steps 1 and 2: the block and its words.  bit is the local word_bit,     *)
(* which an unlisted M code leaves as it was: not yet initialised, or set  *)
(* by the word before.                                                     *)
(***************************************************************************)
NewBlock(gc, jog, junk) ==
  [ok |-> TRUE, jog |-> jog, bit |-> junk, groups |-> {}, axis |-> "none", action |-> "none",
   tool |-> "none", words |-> {}, v |-> NoValues,
   coord |-> Zero, record |-> 0, data |-> Zero, target |-> Zero, rate |-> 0,   \* set by the checks
   modal |-> IF jog THEN [gc.modal EXCEPT !.motion = "G1", !.feed = "G94"] ELSE gc.modal]

Failed(b) == [b EXCEPT !.ok = FALSE]

\* A command that claims the axis words of the line, and what for.
AxisClaim(c) ==
  CASE c \in AxisCommands -> "nonModal"
    [] c \in MotionCommands -> "motion"
    [] c \in {"G431", "G49"} -> "tool"
    [] OTHER -> "none"

ModalOf(modal, c) ==
  CASE c \in Groups[2] -> [modal EXCEPT !.motion = c]
    [] c \in Groups[3] -> [modal EXCEPT !.plane = c]
    [] c \in Groups[4] -> [modal EXCEPT !.distance = c]
    [] c \in Groups[6] -> [modal EXCEPT !.feed = c]
    [] c \in Groups[7] -> [modal EXCEPT !.units = c]
    [] c \in DOMAIN CoordSystems -> [modal EXCEPT !.sel = CoordSystems[c]]
    [] c \in {"M0", "M2", "M30"} -> [modal EXCEPT !.flow = c]
    [] c = "M8" -> [modal EXCEPT !.coolant = TRUE]
    [] c = "M9" -> [modal EXCEPT !.coolant = FALSE]
    [] OTHER -> modal      \* G4 G10 G28 ..., G40, G61, G91.1, M1, and M3 to M5

\* The modal group violation, on whatever word_bit holds.
TakeGroup(b, bit) ==
  IF bit \in b.groups THEN Failed(b) ELSE [b EXCEPT !.groups = @ \cup {bit}, !.bit = bit]

CommandWord(b, c) ==
  LET claim == AxisClaim(c)
      taken == [b EXCEPT !.axis = IF claim = "none" THEN @ ELSE claim,
                         !.action = IF c \in NonModalCommands THEN c ELSE @,
                         !.tool = IF claim = "tool" THEN c ELSE @,
                         !.modal = ModalOf(@, c)]
  IN  IF c = OtherM THEN TakeGroup(b, b.bit)
      ELSE IF c \notin Commands \/ (claim # "none" /\ b.axis # "none") THEN Failed(b)
      ELSE TakeGroup(taken, GroupOf(c))

ValueWord(b, l, x) ==
  IF l \in b.words \/ (l \in {"F", "N", "P", "T", "S"} /\ x < 0) THEN Failed(b)
  ELSE [b EXCEPT !.words = @ \cup {l}, !.v[l] = x, !.bit = LetterBit(l)]

ParseWord(b, w) ==
  IF ~b.ok THEN b
  ELSE IF w[1] \in ToSet(Letters) THEN ValueWord(b, w[1], w[2])
  ELSE CommandWord(b, w[1])

Parse(gc, words, jog, junk) ==
  LET upto[i \in 0..Len(words)] ==
        IF i = 0 THEN NewBlock(gc, jog, junk) ELSE ParseWord(upto[i - 1], words[i])
  IN  upto[Len(words)]

(***************************************************************************)
(* Step 3: the checks, in the order of the code, and the conversion of the *)
(* coordinates.  A coordinate record found bad is reset on the way, even   *)
(* though the line is then refused.                                        *)
(***************************************************************************)
Given(b) == b.words \cap Axes
Scaled(b, x) == IF b.modal.units = "G20" THEN x * InchMM ELSE x
Tlo(gc, a) == IF a = "Z" THEN gc.tlo ELSE 0

\* Axis words without an axis command belong to the motion mode.
Claim(b) == IF Given(b) # {} /\ b.axis = "none" THEN "motion" ELSE b.axis

Rate(gc, b) ==
  IF "F" \in b.words \/ b.jog \/ b.modal.feed = "G93" \/ gc.modal.feed = "G93" THEN b.v.F
  ELSE gc.rate

FirstChecksFail(b) ==
  \/ b.jog /\ "F" \notin b.words
  \/ /\ ~b.jog /\ b.modal.feed = "G93" /\ "F" \notin b.words
     /\ Claim(b) = "motion" /\ b.modal.motion \notin {"G80", "G0"}
  \/ b.action = "G4" /\ "P" \notin b.words
  \/ b.tool = "G431" /\ Given(b) # {"Z"}

\* G10 without P means the active system: P or L must be there, not both.
G10ChecksFail(b) ==
  \/ Given(b) = {}
  \/ {"P", "L"} \cap b.words = {}
  \/ b.v.P > 6
  \/ b.v.L \notin {2, 20}
  \/ b.v.L = 2 /\ "R" \in b.words
G10Record(b) == IF b.v.P > 0 THEN b.v.P - 1 ELSE b.modal.sel
G10Data(gc, b, stored) ==
  [a \in Axes |-> IF a \notin Given(b) THEN stored[a]
                  ELSE IF b.v.L = 20 THEN gc.pos[a] - gc.off[a] - Scaled(b, b.v[a]) - Tlo(gc, a)
                  ELSE Scaled(b, b.v[a])]

\* The G92 offset that makes the current position read as the words given.
G92Offset(gc, b, coord) ==
  [a \in Axes |-> IF a \in Given(b) THEN gc.pos[a] - coord[a] - Scaled(b, b.v[a]) - Tlo(gc, a)
                  ELSE gc.off[a]]

\* Without axis words the values stay zero.
Target(gc, b, coord) ==
  [a \in Axes |->
     IF Given(b) = {} THEN 0
     ELSE IF a \notin Given(b) THEN gc.pos[a]
     ELSE IF b.action = "G53" THEN Scaled(b, b.v[a])
     ELSE IF b.modal.distance = "G91" THEN Scaled(b, b.v[a]) + gc.pos[a]
     ELSE Scaled(b, b.v[a]) + coord[a] + gc.off[a] + Tlo(gc, a)]

Predefined(gc, b, record) ==
  [a \in Axes |-> IF Given(b) # {} /\ a \notin Given(b) THEN gc.pos[a] ELSE record[a]]

PlaneAxes == [G17 |-> <<"X", "Y">>, G18 |-> <<"Z", "X">>, G19 |-> <<"Y", "Z">>]
OffsetLetter == [X |-> "I", Y |-> "J", Z |-> "K"]
Sq(x) == x * x

\* Radius arcs must be able to reach, centre arcs end as far from it as they start.
ArcFails(gc, b, target) ==
  LET plane == PlaneAxes[b.modal.plane]
      In(i) == b.v[OffsetLetter[plane[i]]]
      Delta(i) == target[plane[i]] - gc.pos[plane[i]]
      Offset(i) == Scaled(b, In(i))
  IN  \/ Given(b) \cap ToSet(plane) = {}
      \/ IF "R" \in b.words
         THEN target = gc.pos \/ 4 * Sq(Scaled(b, b.v.R)) < Sq(Delta(1)) + Sq(Delta(2))
         ELSE \/ {OffsetLetter[plane[i]] : i \in 1..2} \cap b.words = {}
              \/ Sq(Delta(1) - Offset(1)) + Sq(Delta(2) - Offset(2)) # Sq(Offset(1)) + Sq(Offset(2))

MotionFails(gc, b, rate, target) ==
  IF b.modal.motion = "G80" THEN Given(b) # {}
  ELSE /\ Claim(b) = "motion"
       /\ b.modal.motion # "G0"
       /\ \/ rate = 0
          \/ b.modal.motion \in {"G2", "G3"} /\ ArcFails(gc, b, target)
          \/ b.modal.motion \in Probes /\ (Given(b) = {} \/ target = gc.pos)

\* The words nothing in the block has used.
Unused(b) ==
  LET arc == b.modal.motion \in {"G2", "G3"} /\ Claim(b) = "motion"
  IN  b.words \ (({"N", "F"} \cup (IF b.jog THEN {} ELSE {"S", "T"})
                  \cup (IF b.action = "G4" THEN {"P"} ELSE {})
                  \cup (IF b.action = "G10" THEN {"L", "P"} ELSE {}))
                 \cup (IF Claim(b) # "none" THEN Axes ELSE {})
                 \cup (IF ~arc THEN {} ELSE IF "R" \in b.words THEN {"R"} ELSE {"I", "J", "K"}))

(***************************************************************************)
(* The memory after the checks and, for a line they accept, its block with *)
(* coord (the system it selects), data (what it stores, offsets or moves   *)
(* to last), target and rate.                                              *)
(***************************************************************************)
Checked(gc, m, b) ==
  LET selects == G12Group \in b.groups /\ b.modal.sel # gc.modal.sel
      sel == IF selects THEN ReadCoord(m, b.modal.sel) ELSE [ok |-> TRUE, value |-> gc.coord, m |-> m]
      k == CASE b.action = "G10" -> G10Record(b) [] b.action = "G28" -> G28Record
             [] b.action = "G30" -> G30Record [] OTHER -> 0
      reads == b.action \in {"G10", "G28", "G30"}
      rec == IF reads THEN ReadCoord(sel.m, k) ELSE [ok |-> TRUE, value |-> Zero, m |-> sel.m]
      data == CASE b.action = "G10" -> G10Data(gc, b, rec.value)
                [] b.action \in {"G28", "G30"} -> Predefined(gc, b, rec.value)
                [] b.action = "G92" -> G92Offset(gc, b, sel.value)
                [] OTHER -> Zero
      target == Target(gc, b, sel.value)
      rate == Rate(gc, b)
      refused(mem) == [ok |-> FALSE, m |-> mem, b |-> b]
  IN  IF ~b.ok \/ FirstChecksFail(b) THEN refused(m)
      ELSE IF ~sel.ok THEN refused(sel.m)
      ELSE IF \/ b.action = "G10" /\ G10ChecksFail(b)
              \/ b.action = "G92" /\ Given(b) = {} THEN refused(sel.m)
      ELSE IF ~rec.ok THEN refused(rec.m)
      ELSE IF \/ b.action = "G53" /\ b.modal.motion \notin {"G0", "G1"}
              \/ MotionFails(gc, b, rate, target)
              \/ Unused(b) # {} THEN refused(rec.m)
      ELSE [ok |-> TRUE, m |-> rec.m,
            b |-> [b EXCEPT !.coord = sel.value, !.record = k, !.data = data, !.target = target,
                            !.rate = rate]]

(***************************************************************************)
(* Step 4: execution.  What a line needs of the rest of the program:       *)
(***************************************************************************)
\* protocol_buffer_synchronize(): planned motion ends first.  In check mode
\* nothing starts it, and the call does not return while there is any.
Sync(s) ==
  IF s.abort THEN s
  ELSE IF s.st = "CHECK" THEN [s EXCEPT !.stuck = @ \/ s.path # <<>>]
  ELSE [s EXCEPT !.pos = IF s.path = <<>> THEN @ ELSE Last(s.path), !.path = <<>>,
                 !.st = IF @ = "CYCLE" THEN "IDLE" ELSE @]

\* system_check_travel_limits()
TravelExceeded(target) == \E a \in Axes : target[a] \notin -MaxTravel..0

\* mc_line(): beyond a soft limit the machine stops and must be reset.
MoveTo(s, target) ==
  IF s.m.set.soft /\ s.st # "JOG" /\ TravelExceeded(target)
  THEN [s EXCEPT !.abort = TRUE, !.st = "ALARM", !.cool = FALSE]
  ELSE IF s.st = "CHECK" \/ s.abort \/ target = s.plan THEN s
  ELSE [s EXCEPT !.plan = target, !.path = Append(@, target)]

CoolantSync(s, flood) ==
  IF s.st = "CHECK" THEN s
  ELSE LET t == Sync(s) IN IF t.abort THEN t ELSE [t EXCEPT !.cool = flood]

\* mc_probe_cycle(): this build does not read the probe pin.  Probing towards
\* finds it triggered from the start, probing away never finds it triggered.
Probe(s, b) ==
  IF s.st = "CHECK" THEN [s EXCEPT !.gc.pos = b.target]
  ELSE LET ready == Sync(s)
           done == Sync(MoveTo(ready, b.target))
       IN  IF ready.abort THEN ready
           ELSE IF b.modal.motion \in {"G382", "G383"} THEN [ready EXCEPT !.st = "ALARM"]
           ELSE IF done.abort THEN done
           ELSE [done EXCEPT !.st = IF b.modal.motion = "G384" THEN "ALARM" ELSE @,
                             !.plan = done.pos, !.gc.pos = b.target]

(***************************************************************************)
(* and its parts, in the order in which they are executed.                 *)
(***************************************************************************)
SetFeedAndCoolant(s, b) ==
  LET t == [s EXCEPT !.gc.modal.feed = b.modal.feed, !.gc.rate = b.rate]
  IN  IF b.modal.coolant = s.gc.modal.coolant THEN t
      ELSE [CoolantSync(t, b.modal.coolant) EXCEPT !.gc.modal.coolant = b.modal.coolant]

Dwell(s, b) == IF b.action = "G4" /\ s.st # "CHECK" THEN Sync(s) ELSE s

\* A changed work offset waits for the motion planned with the old one.
SetToolOffset(s, b) ==
  LET new == IF b.tool = "G49" THEN 0 ELSE Scaled(b, b.v.Z)
  IN  IF b.tool = "none" \/ new = s.gc.tlo THEN s ELSE Sync([s EXCEPT !.gc.tlo = new])

SelectSystem(s, b) ==
  IF b.modal.sel = s.gc.modal.sel THEN s
  ELSE Sync([s EXCEPT !.gc.modal.sel = b.modal.sel, !.gc.coord = b.coord])

\* G10 stores the record, and loads it if it is the one selected; or only stores it.
StoreCoordinateData(s, b) == [Sync(s) EXCEPT !.m = WriteCoord(@, b.record, b.data)]
SetCoordinateData(s, b) ==
  LET t == [Sync(s) EXCEPT !.m = WriteCoord(@, b.record, b.data)]
  IN  IF t.gc.modal.sel # b.record THEN t ELSE Sync([t EXCEPT !.gc.coord = b.data])

\* G28 and G30, through the point named; and one that reports that point.
GoThenReportTarget(s, b) ==
  LET via == IF Given(b) = {} THEN s ELSE MoveTo(s, b.target)
  IN  [MoveTo(via, b.data) EXCEPT !.gc.pos = b.target]
GoPredefined(s, b) ==
  LET via == IF Given(b) = {} THEN s ELSE MoveTo(s, b.target)
  IN  [MoveTo(via, b.data) EXCEPT !.gc.pos = b.data]

StorePredefined(s, k) == [Sync(s) EXCEPT !.m = WriteCoord(@, k, s.gc.pos)]

NonModal(s, b) ==
  CASE b.action = "G10" -> SetCoordinateData(s, b)
    [] b.action \in {"G28", "G30"} -> GoPredefined(s, b)
    [] b.action = "G281" -> StorePredefined(s, G28Record)
    [] b.action = "G301" -> StorePredefined(s, G30Record)
    [] b.action = "G92" -> Sync([s EXCEPT !.gc.off = b.data])
    [] b.action = "G921" -> Sync([s EXCEPT !.gc.off = Zero])
    [] OTHER -> s

\* An arc is a chain of lines that ends at its target.
Motion(s, b) ==
  IF \/ b.modal.motion = "G80" \/ Claim(b) # "motion"
     \/ b.modal.motion \in {"G0", "G1"} /\ Given(b) = {} THEN s
  ELSE IF b.modal.motion \in Probes THEN Probe(s, b)
  ELSE [MoveTo(s, b.target) EXCEPT !.gc.pos = b.target]

\* M2 and M30: in check mode the offsets of G54 are selected but not loaded.
ProgramEnd(s) ==
  LET t == [s EXCEPT !.gc.modal = [@ EXCEPT !.motion = "G1", !.plane = "G17", !.distance = "G90",
                                            !.feed = "G94", !.sel = 0, !.coolant = FALSE]]
      r == ReadCoord(t.m, 0)
      loaded == [t EXCEPT !.m = r.m, !.gc.coord = r.value]
  IN  IF t.st = "CHECK" THEN [ok |-> TRUE, s |-> [t EXCEPT !.gc.modal.flow = "running"]]
      ELSE IF ~r.ok THEN [ok |-> FALSE, s |-> loaded]
      ELSE [ok |-> TRUE, s |-> Sync([loaded EXCEPT !.gc.modal.flow = "running",
                                                   !.cool = IF t.abort THEN @ ELSE FALSE])]

\* A pause that stays in the parser's state.
ProgramStaysPaused(s, flow) ==
  CASE flow = "running" -> [ok |-> TRUE, s |-> s]
    [] flow = "M0" -> [ok |-> TRUE, s |-> Sync(s)]
    [] OTHER -> ProgramEnd(Sync(s))

\* M0 holds until the cycle start: when it returns nothing has changed.
ProgramFlow(s, flow) ==
  CASE flow = "running" -> [ok |-> TRUE, s |-> s]
    [] flow = "M0" -> [ok |-> TRUE, s |-> [Sync(s) EXCEPT !.gc.modal.flow = "running"]]
    [] OTHER -> ProgramEnd(Sync(s))

Execute(s, b) ==
  LET fed == SetToolOffset(Dwell(SetFeedAndCoolant(s, b), b), b)
      placed == NonModal(SelectSystem(fed, b), b)
      moved == Motion([placed EXCEPT !.gc.modal = b.modal], b)
  IN  ProgramFlow(moved, b.modal.flow)

(***************************************************************************)
(* A jog changes the parser's position and nothing else of it; in JOG the  *)
(* main loop refuses g-code until the jog has ended.                       *)
(***************************************************************************)
JogFails(s, b) ==
  \/ ~(b.groups \subseteq {G0Group, G3Group, G6Group})
  \/ b.action \notin {"G53", "none"}
  \/ s.m.set.soft /\ TravelExceeded(b.target)

Jog(s, b) ==
  LET t == MoveTo(s, b.target)
  IN  [t EXCEPT !.gc.pos = b.target, !.st = IF @ = "IDLE" /\ t.path # <<>> THEN "JOG" ELSE @]

\* Resetting a bad record stores it, and storing waits for the motion.
Reread(s, m) == IF m = s.m THEN s ELSE [Sync(s) EXCEPT !.m = m]

\* The rest of a line, once it is checked; r is the machine with the memory the
\* checks leave.
Finish(r, c, jog) ==
  IF ~c.ok THEN [ok |-> FALSE, s |-> r]
  ELSE IF ~jog THEN Execute(r, c.b)
  ELSE IF JogFails(r, c.b) THEN [ok |-> FALSE, s |-> r]
  ELSE [ok |-> TRUE, s |-> Jog(r, c.b)]
Rest(s, c, jog) == Finish(Reread(s, c.m), c, jog)

\* A line, and one whose feed is set as it is read.
ExecuteAtOnce(s, words, jog, junk) ==
  LET p == Parse(s.gc, words, jog, junk)
  IN  Rest([s EXCEPT !.gc.modal.feed = p.modal.feed], Checked(s.gc, s.m, p), jog)
GcExecuteLine(s, words, jog, junk) ==
  Rest(s, Checked(s.gc, s.m, Parse(s.gc, words, jog, junk)), jog)
=============================================================================
