---------------------------- MODULE MCStructures ----------------------------
(* Small instances of the structures of package structure but for the MPMC    *)
(* ring, for TLC: a behaviour is one of Structures (the SPSC ring, the ultra  *)
(* ring, offline and list rings, a clock), of queues that are quiescent, or   *)
(* of two clocks that merge.                                                  *)
EXTENDS Structures

NoneOrOnes == {<<>>, <<1, 1>>}
Two        == {2}
OneTwo     == {1, 2}

CONSTANTS Left, Right, k1, k2, k3, c1

VARIABLES queues, queuePushes, answer, queueCalls,
          clocks, merged, pushes

queueVars == <<queues, queuePushes, answer, queueCalls>>
mergeVars == <<clocks, merged, pushes>>

Queues == INSTANCE QueueRings WITH
  Sizes <- {1, 2}, MaxPushes <- 4, MaxRings <- 3,
  pushes <- queuePushes, calls <- queueCalls

\* Calls that overlap pushes, on one track; calls between pushes; and rings that
\* refuse what does not fit.  Calls of different kinds leave nothing to one
\* another but cuts.
TwoTracks   == {k1, k2}
OneConsumer == {c1}
ClockModes ==
  {[dropOldest |-> TRUE, overlap |-> overlaps, tracks |-> IF overlaps THEN {k1} ELSE {k1, k2},
    lastWall |-> IF overlaps THEN 1 ELSE 2, calls |-> calls] :
      overlaps \in BOOLEAN, calls \in {{"cut", "events"}, {"cut", "frame"}, {"aligned"}}}
   \cup {[dropOldest |-> FALSE, overlap |-> TRUE, tracks |-> {k1, k2}, lastWall |-> 1,
          calls |-> {"cut", "events"}]}

OwnerOf(k) == IF k = k3 THEN Right ELSE Left
TwoClocks == INSTANCE ClockMerge WITH
  Tracks <- {k1, k2, k3}, Owner <- OwnerOf, Capacity <- 2, TrackCapacity <- 2,
  LastWall <- 2, MaxPushes <- 5

ASSUME MergeAssumption == TwoClocks!ClockMergeAssumption

MCInit ==
  /\ part \in {"spsc", "lists", "offline", "queues", "ultra", "clock", "clocks"}
  /\ RingsInit /\ Queues!Init /\ TwoClocks!Init
  /\ part # "spsc" => ~dropOldestOnFull /\ ~overlap
  /\ part # "clock" => ~mode.dropOldest
MCNext ==
  \/ /\ RingsNext
     /\ UNCHANGED <<queueVars, mergeVars>>
  \/ /\ part = "queues" /\ Queues!Next
     /\ UNCHANGED <<ringsVars, mergeVars>>
  \/ /\ part = "clocks" /\ TwoClocks!Next
     /\ UNCHANGED <<ringsVars, queueVars>>
MCSpec == /\ MCInit
          /\ [][MCNext]_<<ringsVars, queueVars, mergeVars>>

\* Merge and Slice do to a list what their comments say.
ListCuts == Lists!ListCuts
\* A merge of two queues moves every value, in order and dropping none, and a
\* slice cuts one in two (Merge, Slice).
QueuesMerge == Queues!QueuesMerge
\* A merge loses no observation, and consumers go on with the absorbed clock's;
\* a new consumer reads all of a merged clock's timeline.
MergeKeeps == TwoClocks!MergeKeepsAll /\ TwoClocks!ConsumersGoOn
              /\ [](part = "clocks" => TwoClocks!Inv)
=============================================================================
