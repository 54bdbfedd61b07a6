------------------------------ MODULE MCMotion ------------------------------
(* Motion with two axes, rings of three segments and two blocks. *)
EXTENDS Motion

TwoAxes == {"x", "z"}

Block(x, z, back, events) ==
  [id |-> 0, steps |-> [a \in TwoAxes |-> IF a = "x" THEN x ELSE z], back |-> back, events |-> events]

\* One along x, one along both axes, back along one.
There == Block(2, 0, {}, 2)
Slant == Block(1, 2, {"x"}, 2)
Up == Block(0, 2, {}, 2)

ZThenX == <<{"z"}, {"x"}>>
Far == [a \in TwoAxes |-> 9]
Near == [a \in TwoAxes |-> IF a = "z" THEN 2 ELSE 9]

Scenario(inputs, nLines, nCmds, moves, switch) ==
  [inputs |-> inputs, lines |-> nLines, cmds |-> nCmds, moves |-> moves, switch |-> switch]

Streaming == Scenario({"move", "reset"}, 2, 1, {There, Slant}, Far)
Holding == Scenario({"move", "hold", "start"}, 2, 2, {There, Slant}, Far)
Jogging == Scenario({"jog", "jogCancel", "hold", "move"}, 2, 1, {There, Slant}, Far)
Home == Scenario({"home", "unlock", "reset"}, 2, 1, {}, Near)
Limited == Scenario({"home", "move", "reset"}, 2, 1, {Up}, Near)
Probing == Scenario({"move", "probe", "probeAway", "hold", "start", "reset"}, 2, 1, {Slant}, Far)

AllScenarios == {Streaming, Holding, Jogging, Home, Limited, Probing}
ProbeScenario == {Probing}
=============================================================================
