----------------------------- MODULE QueueRings -----------------------------
(* structure/mpmc.go and structure/spsc.go between their Pushes and Pops: the *)
(* calls that want the queues quiescent, Merge, Slice, Snapshot, Do, Close.   *)
(* A queue is what it holds, which MPMCRing and SPSCRing show of the cells    *)
(* and slots; the values are numbered as they are pushed.  A ring that fits   *)
(* into itself is never merged with itself: the call would not return.        *)
EXTENDS Integers, SequencesExt

CONSTANTS Sizes,                               \* capacities, powers of two
          MaxPushes, MaxRings, MaxCalls        \* bounds

VARIABLES queues,   \* the rings, numbered as they are made
          pushes,
          answer,   \* of the last call to Push, Merge or Slice
          calls

queueVars == <<queues, pushes, answer, calls>>

Made == DOMAIN queues
Live(v) == queues[v].kind # "offline"
Queue == [kind : {"mpmc", "spsc", "offline"}, size : Nat, dropOldestOnFull : BOOLEAN,
          closed : BOOLEAN, values : Seq(1..MaxPushes), dropped : Nat, rejected : Nat]

Init == queues = <<>> /\ pushes = 0 /\ answer = TRUE /\ calls = 0
Ends == calls < MaxCalls /\ calls' = calls + 1
New(kind, size, drops, values) ==
  [kind |-> kind, size |-> size, dropOldestOnFull |-> drops, closed |-> FALSE,
   values |-> values, dropped |-> 0, rejected |-> 0]
Makes(before, ring) ==
  Len(queues) < MaxRings /\ queues' = Append(before, ring) /\ UNCHANGED pushes

\* An MPMC ring has two cells at least and drops nothing.  A bound: these rings
\* are made before any is used, and one is left for Slice and Select.
NewRing(kind, size, drops) ==
  /\ kind = "mpmc" => size >= 2 /\ ~drops
  /\ calls = 0 /\ Len(queues) < MaxRings - 1
  /\ Makes(queues, New(kind, size, drops, <<>>)) /\ UNCHANGED <<answer, calls>>

Full(ring) == Len(ring.values) >= ring.size
Takes(ring) == ~ring.closed /\ (Full(ring) => ring.dropOldestOnFull)
Pushed(ring, x) ==
  IF Takes(ring) THEN [ring EXCEPT !.values = Append(IF Full(ring) THEN Tail(@) ELSE @, x),
                                   !.dropped = IF Full(ring) THEN @ + 1 ELSE @]
  ELSE IF ring.kind = "spsc" /\ ~ring.closed THEN [ring EXCEPT !.rejected = @ + 1]
  ELSE ring

Push(v) ==
  /\ Ends /\ Live(v) /\ pushes < MaxPushes
  /\ pushes' = pushes + 1
  /\ queues' = [queues EXCEPT ![v] = Pushed(@, pushes + 1)]
  /\ answer' = Takes(queues[v])

Pop(v) ==
  /\ Ends /\ Live(v) /\ queues[v].values # <<>>
  /\ queues' = [queues EXCEPT ![v].values = Tail(@)]
  /\ UNCHANGED <<pushes, answer>>

\* 1 << bits.Len(max(n, 2)): the least power of two above n.
Grown(n) == LET most == IF n > 2 THEN n ELSE 2
            IN  CHOOSE size \in (most + 1)..2 * most : \E bits \in 0..most : size = 2 ^ bits

Drained(ring) == [ring EXCEPT !.values = <<>>]
PushedAll(ring, values) == FoldLeft(Pushed, ring, values)

\* What Push refuses has been popped: drainInto stops behind it.
Given(ring, target) ==
  LET room == IF target.closed THEN 0
              ELSE IF target.dropOldestOnFull THEN Len(ring.values)
              ELSE target.size - Len(target.values)
  IN  IF room < Len(ring.values) THEN room + 1 ELSE Len(ring.values)
drainInto(v, target) ==
  LET n == Given(queues[v], target)
  IN  [from |-> [queues[v] EXCEPT !.values = SubSeq(@, n + 1, Len(@))],
       to |-> PushedAll(target, SubSeq(queues[v].values, 1, n))]

\* Mutant: the ring grows only when it is full.
FitsOneMore(v, w) == Len(queues[v].values) + Len(queues[w].values) <= queues[v].size + 1
Fits(v, w) == Len(queues[v].values) + Len(queues[w].values) <= queues[v].size

MergeFitting(v, w) ==
  LET drained == drainInto(w, queues[v])
  IN  /\ v # w /\ Fits(v, w)
      /\ queues' = [queues EXCEPT ![v] = drained.to, ![w] = drained.from]
      /\ answer' = (queues[w].values = <<>> \/ Takes(queues[v]))

\* adopt: the cells and the positions of the larger ring, nothing else of it.
MergeGrowing(v, w) ==
  LET combined == Len(queues[v].values) + Len(queues[w].values)
      grown == PushedAll(New(queues[v].kind, Grown(combined), queues[v].dropOldestOnFull, <<>>),
                         queues[v].values \o IF v = w THEN <<>> ELSE queues[w].values)
  IN  /\ ~Fits(v, w)
      /\ queues' = [u \in Made |->
           IF u = v THEN [queues[v] EXCEPT !.values = grown.values, !.size = grown.size]
           ELSE IF u = w THEN Drained(queues[u]) ELSE queues[u]]
      /\ answer' = TRUE

\* Another kind of ring hands its values to Push by its Do, which empties a
\* queue and leaves an offline ring as it is.
MergeOther(v, w) ==
  LET into(i) == PushedAll(queues[v], SubSeq(queues[w].values, 1, i))
  IN  /\ queues' = [queues EXCEPT ![v] = into(Len(queues[w].values)),
                                  ![w] = IF Live(w) THEN Drained(@) ELSE @]
      /\ answer' = \A i \in DOMAIN queues[w].values : Takes(into(i - 1))

Merge(v, w) ==
  /\ Ends /\ Live(v)
  /\ IF queues[v].kind = queues[w].kind THEN MergeFitting(v, w) \/ MergeGrowing(v, w)
                                        ELSE MergeOther(v, w)
  /\ UNCHANGED pushes

Slice(v, count) ==
  LET ring == queues[v]
      n == IF count < Len(ring.values) THEN count ELSE Len(ring.values)
  IN  /\ Ends /\ Live(v) /\ count > 0
      /\ Makes([queues EXCEPT ![v].values = SubSeq(@, n + 1, Len(@))],
               PushedAll(New(ring.kind, Grown(count), FALSE, <<>>), SubSeq(ring.values, 1, n)))
      /\ UNCHANGED answer

\* Select moves the cursor of a Snapshot.
Snapshot(v) ==
  /\ Ends /\ Live(v)
  /\ Makes(queues, New("offline", 0, FALSE, queues[v].values)) /\ UNCHANGED answer

Do(v) ==
  /\ Ends /\ Live(v)
  /\ queues' = [queues EXCEPT ![v] = Drained(@)] /\ UNCHANGED <<pushes, answer>>

\* An MPMC ring leaves its values to the consumers; an SPSC ring drops them.
Close(v) ==
  /\ Ends /\ Live(v)
  /\ LET closed == [queues[v] EXCEPT !.closed = TRUE]
     IN  queues' = [queues EXCEPT ![v] = IF @.kind = "spsc" THEN Drained(closed) ELSE closed]
  /\ UNCHANGED <<pushes, answer>>

Next ==
  \/ \E kind \in {"mpmc", "spsc"}, size \in Sizes, drops \in BOOLEAN : NewRing(kind, size, drops)
  \/ \E v \in Made :
       \/ Push(v) \/ Pop(v) \/ Snapshot(v) \/ Do(v) \/ Close(v)
       \/ \E w \in Made : Merge(v, w)
       \/ \E count \in 1..MaxPushes : Slice(v, count)

-----------------------------------------------------------------------------
(* Properties *)

\* mergeMPMC and mergeSPSC "move every value from other into ring": behind its
\* own and in order, and a ring that drops its oldest on overflow drops none,
\* unless the ring is closed and has room, when one value is popped and lost.
\* Any other Merge that answers TRUE has lost none either, but for those that
\* are counted as dropped; and Slice and what it leaves are the queue it cut.
QueuesMerge ==
  [][\A v \in Made :
       /\ \A w \in Made : Merge(v, w) =>
            LET whole == queues[v].values \o IF v = w THEN <<>> ELSE queues[w].values
                ring == queues'[v]
                dropped == ring.dropped - queues[v].dropped
            IN  /\ ring \in Queue /\ Len(ring.values) <= ring.size
                /\ answer' => ring.values = SubSeq(whole, dropped + 1, Len(whole))
                /\ queues[v].kind = queues[w].kind =>
                     /\ dropped = 0 /\ ring.rejected = queues[v].rejected
                     /\ ~answer' => queues[v].closed /\ queues'[w].values = Tail(queues[w].values)
       /\ \A count \in 1..MaxPushes : Slice(v, count) =>
            Last(queues').values \o queues'[v].values = queues[v].values]_queueVars
=============================================================================
