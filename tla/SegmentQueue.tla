---------------------------- MODULE SegmentQueue ----------------------------
(***************************************************************************)
(* What the stepper's two rings promise: a first-in first-out queue of      *)
(* segments, each of which carries its own copy of its block's data. The    *)
(* timer takes one step event of the first segment at a time; the line is   *)
(* traced on from one segment of a block to the next, and anew where a      *)
(* block begins. Pipeline shows which rings and indices implement it.       *)
(***************************************************************************)
EXTENDS Integers, Sequences

CONSTANT Axes

VARIABLES
  queue,    \* segments published and not yet executed to the end
  count,    \* step events left of the first one; 0: not begun
  counter,  \* the line tracer's counter of each axis
  last,     \* the block the last segment begun belongs to
  pos       \* where the machine is, in steps

vars == <<queue, count, counter, last, pos>>

Zero == [a \in Axes |-> 0]

Init == queue = <<>> /\ count = 0 /\ counter = Zero /\ last = 0 /\ pos = Zero

\* The block of the newest segment.
Newest == IF queue = <<>> THEN last ELSE queue[Len(queue)].id

\* A segment is published behind the others, of the same block or a later one.
Put ==
  /\ Len(queue') = Len(queue) + 1
  /\ SubSeq(queue', 1, Len(queue)) = queue
  /\ queue'[Len(queue')].id >= Newest
  /\ UNCHANGED <<count, counter, last, pos>>

\* One step event of the first segment.
Step ==
  /\ queue # <<>>
  /\ LET s == Head(queue)
         left == IF count = 0 THEN s.n ELSE count
         begun == IF count = 0 /\ s.id # last THEN [a \in Axes |-> s.events \div 2] ELSE counter
         sum(a) == begun[a] + s.inc[a]
         steps == {a \in Axes : sum(a) > s.events}
     IN  /\ last' = s.id
         /\ counter' = [a \in Axes |-> IF a \in steps THEN sum(a) - s.events ELSE sum(a)]
         /\ pos' = [a \in Axes |-> IF a \notin steps THEN pos[a]
                                   ELSE IF a \in s.back THEN pos[a] - 1 ELSE pos[a] + 1]
         /\ count' = left - 1
         /\ queue' = IF left = 1 THEN Tail(queue) ELSE queue

\* The stepper is reset: what was queued is not executed.
Flush == queue' = <<>> /\ count' = 0 /\ counter' = Zero /\ last' = 0 /\ UNCHANGED pos

\* Homing takes the place it starts from as zero.
SetOrigin(S) ==
  /\ pos' = [a \in Axes |-> IF a \in S THEN 0 ELSE pos[a]]
  /\ UNCHANGED <<queue, count, counter, last>>

Next == Put \/ Step \/ Flush \/ \E S \in SUBSET Axes : SetOrigin(S)

Spec == Init /\ [][Next]_vars
=============================================================================
