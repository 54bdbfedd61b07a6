----------------------------- MODULE MCMachine -----------------------------
(* Machine for TLC: the lines of Offsets, Modes and Stores. *)
EXTENDS Machine

Plain == [cmd |-> "gcode", words |-> EmptyText, n |-> 0, v |-> 0, arg |-> ""]
G(words) == [Plain EXCEPT !.words = words]
J(words) == [Plain EXCEPT !.cmd = "jog", !.words = words]
N(n, words) == [Plain EXCEPT !.cmd = "startup", !.n = n, !.words = words]
Set(n, v) == [Plain EXCEPT !.cmd = "setting", !.n = n, !.v = v]
Sys(cmd) == [Plain EXCEPT !.cmd = cmd]
Rst(what) == [Plain EXCEPT !.cmd = "restore", !.arg = what]
Info(text) == [Plain EXCEPT !.cmd = "info", !.arg = text]

\* Words: a command, and X, Z, F with their values.
C(c) == <<c, 0>>
X(v) == <<"X", v>>
Z(v) == <<"Z", v>>
F == <<"F", 1>>

\* Moves, offsets and coordinate systems.
Offsets ==
  {G(<<C("G1"), X(-1), F>>), G(<<C("G55")>>),
   G(<<C("G10"), <<"L", 2>>, <<"P", 2>>, X(1)>>),
   G(<<C("G10"), <<"L", 20>>, <<"P", 0>>, X(0)>>),
   G(<<C("G92"), X(0)>>), G(<<C("G921")>>), G(<<C("G431"), Z(1)>>),
   G(<<C("G28"), X(0)>>), G(<<C("G281")>>), G(<<C("G53"), C("G0"), X(-2)>>),
   G(<<C("G91"), Z(-1)>>), G(<<C("M2")>>), Sys("check"), Sys("parameters")}

\* Units, planes, arcs, probes, the coolant, pauses and jogs.
Modes ==
  {G(<<C("G20"), X(-1)>>), G(<<C("G93"), C("G1"), Z(-1)>>),
   G(<<C("G18"), C("G2"), X(-2), <<"I", -1>>, F>>), G(<<C("G3"), X(-1), <<"R", 1>>>>),
   G(<<C("G80")>>), G(<<C("G382"), Z(-2), F>>), G(<<C("G385"), Z(-2), F>>),
   G(<<C("M8"), X(-1)>>), G(<<C("M9")>>), G(<<C("M104"), C("G1"), X(0), F>>),
   G(<<C("G4"), <<"P", 0>>>>), G(<<C("M0")>>), G(<<C("G30")>>), Sys("unlock"),
   J(<<C("G91"), X(-1), F>>), J(<<C("G90"), Z(-1)>>), J(<<C("G53"), X(0), F>>)}

\* Startup lines, settings, resets of the stored data, and lines that are refused.
Stores ==
  {N(0, <<C("G55")>>), N(1, <<C("M8")>>), N(0, <<C("G5")>>), N(2, EmptyText),
   Set(20, 1), Set(22, 1), Set(22, 0), Set(0, 2), Set(0, 5),
   Rst("all"), Rst("parameters"), Rst("settings"), Info("shop"), Sys("lines"), Sys("version"),
   G(<<C("G0"), X(1)>>), G(<<C("G10"), <<"L", 2>>, <<"P", 1>>, Z(-1)>>),
   G(<<C("G54"), C("G55")>>)}

MCLines == Offsets \cup Modes \cup Stores
=============================================================================
