----------------------------- MODULE ClockMerge -----------------------------
(***************************************************************************)
(* ClockRing.Merge of structure/clock.go, and the merge of the two SPSC    *)
(* timelines under it (structure/spsc.go).  Merge is called when nothing   *)
(* else runs, so a call is one action; module Clock has the interleavings. *)
(*                                                                         *)
(* A clock absorbs another with other tracks: the other's observations     *)
(* follow its own, their ingest sequences moved up by its own sequence.    *)
(***************************************************************************)
EXTENDS Integers, Sequences, SequencesExt, FiniteSetsExt

CONSTANTS Left, Right,       \* the clocks; Left absorbs Right
          Tracks, None,
          Owner(_),          \* of each track, the clock that observes it
          Capacity, TrackCapacity,
          LastWall, MaxPushes   \* bounds

ClockMergeAssumption ==
  /\ Left # Right /\ Capacity \in Nat \ {0} /\ TrackCapacity \in Nat \ {0}
  /\ \A k \in Tracks : Owner(k) \in {Left, Right}
  /\ MaxPushes \in Nat /\ LastWall \in Nat

VARIABLES clocks,   \* of Left and Right
          merged,   \* history: the clocks just before the merge, or None
          pushes

vars == <<clocks, merged, pushes>>

Seqs  == 0..(2 * MaxPushes)
Walls == 1..LastWall
\* An observation: its name never changes, its ingest sequence may.
Slot  == [name : 1..MaxPushes, track : Tracks, wall : Walls, seq : Seqs]
Clock == [timeline : Seq(Slot), capacity : Nat, track : [Tracks -> Seq(Slot)],
          sequence : Seqs, timelineSize : Nat, first : [Tracks -> Seqs],
          rewritten : BOOLEAN]

TypeOK ==
  /\ pushes \in 0..MaxPushes
  /\ \A c \in {Left, Right} :
       LET clock == clocks[c] IN
         /\ clock \in Clock
         /\ Len(clock.timeline) <= clock.capacity
         /\ \A k \in Tracks : Len(clock.track[k]) <= TrackCapacity
  /\ clocks[Left].timelineSize = Len(clocks[Left].timeline)

Empty == [timeline |-> << >>, capacity |-> Capacity, track |-> [k \in Tracks |-> << >>],
          sequence |-> 0, timelineSize |-> 0, first |-> [k \in Tracks |-> 0],
          rewritten |-> FALSE]

Init == /\ clocks = [c \in {Left, Right} |-> Empty]
        /\ merged = None /\ pushes = 0

Least(i, j) == IF i < j THEN i ELSE j
\* Push of a drop-oldest ring.
Pushed(ring, slot, n) == IF Len(ring) < n THEN Append(ring, slot)
                         ELSE Append(Tail(ring), slot)

Observe(k, w) ==
  /\ pushes < MaxPushes
  /\ LET c == IF merged = None THEN Owner(k) ELSE Left
         clock == clocks[c]
         slot == [name |-> pushes + 1, track |-> k, wall |-> w,
                  seq |-> clock.sequence + 1]
         timeline == Pushed(clock.timeline, slot, clock.capacity) IN
       clocks' = [clocks EXCEPT ![c] =
         [clock EXCEPT !.sequence = slot.seq, !.timeline = timeline,
                       !.track[k] = Pushed(@, slot, TrackCapacity),
                       !.first[k] = IF @ = 0 THEN slot.seq ELSE @,
                       !.timelineSize = Least(@ + 1, Len(timeline))]]
  /\ pushes' = pushes + 1
  /\ UNCHANGED merged

\* retained: the slots timelineSize to 1 steps back; Select(-step) stops at
\* the oldest slot.
retained(clock) ==
  LET n == Len(clock.timeline)
      steps == [i \in 1..clock.timelineSize |-> clock.timelineSize + 1 - i]
      at(step) == IF step > n THEN 1 ELSE n + 1 - step
  IN IF n = 0 THEN << >> ELSE [i \in DOMAIN steps |-> clock.timeline[at(steps[i])]]

\* mergeSPSC: the least power of two above the number of slots, if they do
\* not fit: 1 << bits.Len(max(combined, 2)).
Grown(combined) == Min({n \in {2 ^ i : i \in 2..(combined + 2)} : n > combined})

\* Mutant: the timeline keeps its capacity.
MergedKeep(n, combined) == n

MergedCapacity(n, combined) == IF combined > n THEN Grown(combined) ELSE n

\* The other clock's slots with their ingest sequences moved up.
Moved(slots, offset) == [i \in DOMAIN slots |-> [slots[i] EXCEPT !.seq = @ + offset]]

\* resequence of an incoming track.
FirstMoved(first, offset) == first + offset

\* The tracks are disjoint: those with observations, or registered.
Absorbed(clock, other) ==
  LET offset == clock.sequence
      capacity == MergedCapacity(clock.capacity,
                                 Len(clock.timeline) + Len(other.timeline))
      push(ring, slot) == Pushed(ring, slot, capacity)
      timeline == FoldLeft(push, << >>,
                           retained(clock) \o Moved(retained(other), offset))
  IN [clock EXCEPT
       !.capacity = capacity, !.timeline = timeline,
       !.track = [k \in Tracks |-> IF Owner(k) = Right THEN Moved(other.track[k], offset)
                                   ELSE @[k]],
       !.first = [k \in Tracks |-> IF Owner(k) = Right
                                   THEN FirstMoved(other.first[k], offset) ELSE @[k]],
       !.sequence = offset + other.sequence,
       !.timelineSize = Least(@ + other.timelineSize, Len(timeline)),
       !.rewritten = TRUE]

\* The absorbed clock's timeline is drained, and it is not used any more.
Merge ==
  /\ merged = None
  /\ merged' = clocks
  /\ clocks' = [clocks EXCEPT ![Left] = Absorbed(@, clocks[Right]),
                              ![Right].timeline = << >>]
  /\ UNCHANGED pushes

Next == Merge \/ \E k \in Tracks, w \in Walls : Observe(k, w)
Spec == Init /\ [][Next]_vars

-----------------------------------------------------------------------------
(* What a consumer reads *)

\* EventsAfter(cursor, Cut).
EventsAfter(clock, cursor) ==
  LET oldest == clock.sequence - clock.timelineSize + 1
      after  == IF clock.timelineSize > 0 /\ cursor < oldest - 1 THEN oldest - 1
                ELSE cursor
      slots  == IF clock.rewritten THEN retained(clock) ELSE clock.timeline
  IN SelectSeq(slots, LAMBDA slot : slot.seq > after /\ slot.seq <= clock.sequence)

Names(slots) == [i \in DOMAIN slots |-> slots[i].name]

\* Frame(wall): of a track, the retained observation at or before wall with
\* the greatest wall, then sequence, as a set of at most one name.
Framed(clock, k, wall) ==
  LET fit == {slot \in Range(clock.track[k]) :
                slot.wall <= wall /\ slot.seq \in clock.first[k]..clock.sequence}
      last == {slot \in fit : \A other \in fit :
                 slot.wall > other.wall \/ (slot.wall = other.wall /\ slot.seq >= other.seq)}
  IN {slot.name : slot \in last}

-----------------------------------------------------------------------------
(* Properties *)

\* A merge loses no retained observation, and puts the absorbed clock's after
\* the others: the timeline is the two timelines, in ingress order, and every
\* frame of the merged clock is that of the two clocks put together.
MergeKeepsAll ==
  [][Merge =>
       /\ Names(clocks'[Left].timeline) =
            Names(clocks[Left].timeline) \o Names(clocks[Right].timeline)
       /\ LET t == clocks'[Left].timeline IN
            \A i, j \in DOMAIN t : i < j => t[i].seq < t[j].seq
       /\ \A k \in Tracks, w \in Walls :
            Framed(clocks'[Left], k, w) = Framed(clocks[Owner(k)], k, w)]_vars

\* A consumer that had read all of the clock reads all of the absorbed clock
\* next, and nothing twice.
ConsumersGoOn ==
  [][Merge => Names(EventsAfter(clocks'[Left], clocks[Left].sequence)) =
                Names(clocks[Right].timeline)]_vars

\* A new consumer reads the whole timeline, unless the absorbed clock had
\* overwritten observations: their sequence numbers are a gap, and EventsAfter
\* counts timelineSize back from the last number across it.
NewConsumersReadAll ==
  merged = None \/ merged[Right].sequence = Len(merged[Right].timeline) =>
    Names(EventsAfter(clocks[Left], 0)) = Names(clocks[Left].timeline)

\* The variables keep to their ranges, and a new consumer reads everything.
Inv == TypeOK /\ NewConsumersReadAll
=============================================================================
