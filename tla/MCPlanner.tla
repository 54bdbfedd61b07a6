----------------------------- MODULE MCPlanner -----------------------------
(***************************************************************************)
(* Jobs for the planner. Moves are too short to reach full speed, to brake  *)
(* from it, or both, so that plans span all the blocks of the ring.         *)
(***************************************************************************)
EXTENDS Planner

Move(rate, cap, rapid, junction, length) ==
  [rate |-> rate, cap |-> cap, rapid |-> rapid, junction |-> junction, length |-> length]

\* Feed override in units of 50%.
AtFeed(halves) == [feed |-> halves * halves, rapid |-> 4]

\* Feeds at one rate, straight on or round a corner; no override.
Steady ==
  [moves |-> {Move(4, 4, FALSE, 4, 1), Move(4, 4, FALSE, 1, 3)},
   blocks |-> 4, ahead |-> 3, overrides |-> {}, trend |-> "raise"]

\* Slow feeds and rapids; the feed rate is doubled.
Raising ==
  [moves |-> {Move(1, 4, FALSE, 4, 1), Move(4, 4, TRUE, 4, 2)},
   blocks |-> 3, ahead |-> 2, overrides |-> {AtFeed(4)}, trend |-> "raise"]

\* Feeds at one rate, straight on or round a corner; the rate is halved.
Braking ==
  [moves |-> {Move(4, 4, FALSE, 4, 2), Move(4, 4, FALSE, 1, 3)},
   blocks |-> 3, ahead |-> 2, overrides |-> {AtFeed(1)}, trend |-> "lower"]

\* Feeds and rapids; the feed rate is halved.
Mixed ==
  [moves |-> {Move(4, 9, FALSE, 4, 2), Move(9, 9, TRUE, 4, 3)},
   blocks |-> 3, ahead |-> 2, overrides |-> {AtFeed(1)}, trend |-> "lower"]

AllJobs == {Steady, Raising, Braking}
MixedJobs == {Mixed}
============================================================================
