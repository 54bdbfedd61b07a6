------------------------------ MODULE MCComms -------------------------------
(* Comms with receive rings of five bytes (six indices, eight slots), server  *)
(* buffers of five, lines of two and room for three answers.                    *)
EXTENDS Comms

Scenario(s, w, t, window, split, closes, sessions) ==
  [packets |-> <<s, w, t>>, window |-> window, split |-> split,
   closes |-> closes, sessions |-> sessions]

Wide == <<99, 99, 99>>
Counted == <<5, 5, 5>>

\* Blanks, comments in one another, a line too long, and an empty one, in bursts that split lines.
Comments ==
  Scenario(<< <<"x", "open">>, <<"semicolon", "close">>, <<"eol">>,
              <<"semicolon", "open", "eol">>, <<"x", "x", "x">>, <<"close", "eol">>,
              <<"open", "open", "close">>, <<"x", "eol">>, <<"blank", "close", "eol">>,
              <<"x", "eol", "x">>, <<"eol", "x", "eol">> >>,
           <<>>, <<>>, Counted, FALSE, FALSE, 0)
\* Two clients with whole lines each.
Together ==
  Scenario(<<>>, << <<"x", "blank">>, <<"open", "x", "eol", "x">>, <<"status">>, <<"x">> >>,
           << <<"x", "x", "eol">>, <<"x", "eol", "eol">> >>, Counted, FALSE, FALSE, 1)
\* Short frames that wrap around the buffer of the server, and a report among the answers.
Frames == Scenario(<<>>, << <<"x">>, <<"x">>, <<"x">>, <<>>, <<"status">>, <<"x">> >>, <<>>,
                   Counted, FALSE, FALSE, 0)
\* All three, not in step and faster than the rings allow.
Flood == Scenario(<< <<"x">>, <<"x", "x", "x", "x", "x", "eol">> >>,
                  << <<"x", "x">>, <<"eol", "x">> >>, << <<"x", "eol">> >>,
                  Wide, TRUE, FALSE, 1)
\* Soft resets in and between lines.
Resets ==
  Scenario(<< <<"x", "reset">>, <<"coarsePlus", "x", "eol">>, <<"reset", "x">>,
              <<"eol", "eol">> >>,
           << <<"x", "x">> >>, <<>>, Wide, FALSE, TRUE, 0)
\* Telnet and websocket come and go.
Reconnect == Scenario(<< <<"x", "eol">> >>, << <<"x">> >>, << <<"x">>, <<"x", "eol">> >>,
                      Wide, FALSE, TRUE, 2)
\* From 100% down to the minimum, with rises between.
Overrides ==
  Scenario([i \in 1 .. 12 |->
              IF i = 3 THEN <<"coarsePlus">>
              ELSE IF i = 6 THEN <<"coarseMinus", "fineMinus", "finePlus", "rapidLow">>
              ELSE IF i = 11 THEN <<"feedReset", "fineMinus", "rapidMedium">>
              ELSE <<"coarseMinus", "unknown">>],
           <<>>, <<>>, Counted, FALSE, FALSE, 0)

AllScenarios == {Comments, Together, Frames, Flood, Resets, Reconnect, Overrides}
=============================================================================
