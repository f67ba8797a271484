------------------------------ MODULE MPMCRing ------------------------------
(***************************************************************************)
(* structure/mpmc.go: the bounded multi-producer multi-consumer queue.     *)
(*                                                                         *)
(* Every atomic load, store, swap and compare-and-swap of the code is one  *)
(* action of one goroutine, so that TLC interleaves them as the Go memory  *)
(* model lets the goroutines interleave (sync/atomic is sequentially       *)
(* consistent).  A position is the code's monotonic uint64; the model does *)
(* not let it wrap, which takes 2^64 operations, but Len's subtraction     *)
(* wraps as the code's does.                                               *)
(***************************************************************************)
EXTENDS Integers, Sequences

CONSTANTS Capacity,    \* len(ring.buffer); ring.mask + 1
          Threads,     \* the goroutines that share the ring
          Pushers,     \* those that call Push
          Poppers,     \* those that call Pop
          Observers,   \* those that call Len and Snapshot
          MaxPushes    \* bound: Push calls that get past the closed check

\* NewMPMCRing refuses a capacity below two (or not a power of two, which
\* only makes position & mask the same as position % Capacity).
ASSUME RingAssumption == /\ Capacity \in Nat /\ Capacity >= 2
                         /\ MaxPushes \in Nat
                         /\ Pushers \subseteq Threads
                         /\ Poppers \subseteq Threads
                         /\ Observers \subseteq Threads

VARIABLES sequence,    \* cell.sequence of every slot
          data,        \* cell.data of every slot, Nil or a pushed value
          enqueuePos,
          dequeuePos,
          closed,
          pc,          \* the next atomic step of every goroutine
          op,          \* the operation it runs: "push", "pop" or "none"
          position,    \* pushpop's and Snapshot's position, Len's first load
          limit,       \* Snapshot's enqueue
          value,       \* the value being pushed, or the one popped
          pushed,      \* values handed to Push so far: 1..pushed
          claimed,     \* history: the value that won each position, in order
          returned     \* history: the values Pop has returned

shared  == <<sequence, data, enqueuePos, dequeuePos, closed>>
local   == <<pc, op, position, limit, value>>
history == <<pushed, claimed, returned>>
vars    == <<shared, local, history>>

Nil     == 0
Values  == 1..MaxPushes
Slots   == 0..(Capacity - 1)
Slot(p) == p % Capacity
Labels  == {"idle", "load", "seq", "cas", "store", "publish", "swap",
            "release", "len", "snapEnd", "snapRead"}

TypeOK == /\ sequence \in [Slots -> Nat]
          /\ data \in [Slots -> Values \cup {Nil}]
          /\ enqueuePos \in Nat /\ dequeuePos \in Nat
          /\ closed \in BOOLEAN
          /\ pc \in [Threads -> Labels]
          /\ op \in [Threads -> {"none", "push", "pop"}]
          /\ position \in [Threads -> Nat]
          /\ limit \in [Threads -> Nat]
          /\ value \in [Threads -> Values \cup {Nil}]
          /\ pushed \in 0..MaxPushes
          /\ claimed \in Seq(Values)
          /\ returned \in SUBSET (Values \cup {Nil})

\* NewMPMCRing: cell i's sequence starts at i.
Init == /\ sequence = [s \in Slots |-> s]
        /\ data = [s \in Slots |-> Nil]
        /\ enqueuePos = 0 /\ dequeuePos = 0
        /\ closed = FALSE
        /\ pc = [t \in Threads |-> "idle"]
        /\ op = [t \in Threads |-> "none"]
        /\ position = [t \in Threads |-> 0]
        /\ limit = [t \in Threads |-> 0]
        /\ value = [t \in Threads |-> Nil]
        /\ pushed = 0 /\ claimed = <<>> /\ returned = {}

-----------------------------------------------------------------------------
GoTo(t, label) == pc' = [pc EXCEPT ![t] = label]

\* A call that returns leaves its frame behind.
Done(t) == /\ GoTo(t, "idle")
           /\ op' = [op EXCEPT ![t] = "none"]
           /\ position' = [position EXCEPT ![t] = 0]
           /\ limit' = [limit EXCEPT ![t] = 0]
           /\ value' = [value EXCEPT ![t] = Nil]

\* Push finds the ring open and enters pushpop.  (A Push that finds it closed
\* returns false and changes nothing.)
PushCall(t) ==
  /\ t \in Pushers /\ pc[t] = "idle"
  /\ ~closed
  /\ pushed < MaxPushes
  /\ pushed' = pushed + 1
  /\ value' = [value EXCEPT ![t] = pushed + 1]
  /\ op' = [op EXCEPT ![t] = "push"]
  /\ GoTo(t, "load")
  /\ UNCHANGED <<shared, position, limit, claimed, returned>>

PopCall(t) ==
  /\ t \in Poppers /\ pc[t] = "idle"
  /\ op' = [op EXCEPT ![t] = "pop"]
  /\ GoTo(t, "load")
  /\ UNCHANGED <<shared, position, limit, value, history>>

-----------------------------------------------------------------------------
(* pushpop *)

LoadPosition(t) ==
  /\ pc[t] = "load"
  /\ position' = [position EXCEPT ![t] =
                    IF op[t] = "push" THEN enqueuePos ELSE dequeuePos]
  /\ GoTo(t, "seq")
  /\ UNCHANGED <<shared, op, limit, value, history>>

\* Mutant: Push and Pop both pass a positionAdd of 1.
DiffAddsOne(t) == sequence[Slot(position[t])] - (position[t] + 1)

\* diff of pushpop: positionAdd is 0 for Push and 1 for Pop.
Diff(t) == sequence[Slot(position[t])]
             - (position[t] + (IF op[t] = "pop" THEN 1 ELSE 0))

\* diff < 0: the claimed position is full (Push) or empty (Pop); return nil.
Refuse(t) ==
  /\ pc[t] = "seq" /\ Diff(t) < 0
  /\ Done(t)
  /\ UNCHANGED <<shared, history>>

\* diff > 0: another goroutine has moved the position on; start over.
Reload(t) ==
  /\ pc[t] = "seq" /\ Diff(t) > 0
  /\ GoTo(t, "load")
  /\ UNCHANGED <<shared, op, position, limit, value, history>>

TryClaim(t) ==
  /\ pc[t] = "seq" /\ Diff(t) = 0
  /\ GoTo(t, "cas")
  /\ UNCHANGED <<shared, op, position, limit, value, history>>

ClaimPush(t) ==
  /\ pc[t] = "cas" /\ op[t] = "push"
  /\ enqueuePos = position[t]
  /\ enqueuePos' = enqueuePos + 1
  /\ claimed' = Append(claimed, value[t])
  /\ GoTo(t, "store")
  /\ UNCHANGED <<sequence, data, dequeuePos, closed, op, position, limit,
                 value, pushed, returned>>

\* Mutant: a plain store of position + 1 instead of the compare-and-swap.
ClaimPopByStore(t) ==
  /\ pc[t] = "cas" /\ op[t] = "pop"
  /\ dequeuePos' = position[t] + 1
  /\ GoTo(t, "swap")
  /\ UNCHANGED <<sequence, data, enqueuePos, closed, op, position, limit,
                 value, history>>

ClaimPop(t) ==
  /\ pc[t] = "cas" /\ op[t] = "pop"
  /\ dequeuePos = position[t]
  /\ dequeuePos' = dequeuePos + 1
  /\ GoTo(t, "swap")
  /\ UNCHANGED <<sequence, data, enqueuePos, closed, op, position, limit,
                 value, history>>

\* The compare-and-swap fails.
LoseClaim(t) ==
  /\ pc[t] = "cas"
  /\ position[t] # (IF op[t] = "push" THEN enqueuePos ELSE dequeuePos)
  /\ GoTo(t, "load")
  /\ UNCHANGED <<shared, op, position, limit, value, history>>

StoreData(t) ==
  /\ pc[t] = "store"
  /\ data' = [data EXCEPT ![Slot(position[t])] = value[t]]
  /\ GoTo(t, "publish")
  /\ UNCHANGED <<sequence, enqueuePos, dequeuePos, closed, op, position,
                 limit, value, history>>

\* Mutant: the sequence is not advanced past the position.
PublishInPlace(t) ==
  /\ pc[t] = "publish"
  /\ sequence' = [sequence EXCEPT ![Slot(position[t])] = position[t]]
  /\ Done(t)
  /\ UNCHANGED <<data, enqueuePos, dequeuePos, closed, history>>

Publish(t) ==
  /\ pc[t] = "publish"
  /\ sequence' = [sequence EXCEPT ![Slot(position[t])] = position[t] + 1]
  /\ Done(t)
  /\ UNCHANGED <<data, enqueuePos, dequeuePos, closed, history>>

SwapData(t) ==
  /\ pc[t] = "swap"
  /\ value' = [value EXCEPT ![t] = data[Slot(position[t])]]
  /\ data' = [data EXCEPT ![Slot(position[t])] = Nil]
  /\ GoTo(t, "release")
  /\ UNCHANGED <<sequence, enqueuePos, dequeuePos, closed, op, position,
                 limit, history>>

\* sequence moves to the slot's next lap (position + mask + 1) and Pop returns.
Release(t) ==
  /\ pc[t] = "release"
  /\ sequence' = [sequence EXCEPT ![Slot(position[t])] =
                    position[t] + Capacity]
  /\ returned' = returned \cup {value[t]}
  /\ Done(t)
  /\ UNCHANGED <<data, enqueuePos, dequeuePos, closed, pushed, claimed>>

-----------------------------------------------------------------------------
(* Len, Snapshot, Close *)

\* Len loads enqueuePos first.
LenCall(t) ==
  /\ t \in Observers /\ pc[t] = "idle"
  /\ position' = [position EXCEPT ![t] = enqueuePos]
  /\ GoTo(t, "len")
  /\ UNCHANGED <<shared, op, limit, value, history>>

\* Then dequeuePos, and returns: the result changes no state of the ring.
LenReturn(t) ==
  /\ pc[t] = "len"
  /\ Done(t)
  /\ UNCHANGED <<shared, history>>

SnapshotCall(t) ==
  /\ t \in Observers /\ pc[t] = "idle"
  /\ position' = [position EXCEPT ![t] = dequeuePos]
  /\ GoTo(t, "snapEnd")
  /\ UNCHANGED <<shared, op, limit, value, history>>

SnapshotEnd(t) ==
  /\ pc[t] = "snapEnd"
  /\ limit' = [limit EXCEPT ![t] = enqueuePos]
  /\ GoTo(t, "snapRead")
  /\ UNCHANGED <<shared, op, position, value, history>>

\* One turn of Snapshot's loop; a Nil cell is skipped.
SnapshotRead(t) ==
  /\ pc[t] = "snapRead" /\ position[t] < limit[t]
  /\ position' = [position EXCEPT ![t] = @ + 1]
  /\ UNCHANGED <<shared, pc, op, limit, value, history>>

SnapshotReturn(t) ==
  /\ pc[t] = "snapRead" /\ position[t] >= limit[t]
  /\ Done(t)
  /\ UNCHANGED <<shared, history>>

Close ==
  /\ ~closed
  /\ closed' = TRUE
  /\ UNCHANGED <<sequence, data, enqueuePos, dequeuePos, local, history>>

-----------------------------------------------------------------------------
PushPop(t) == \/ LoadPosition(t) \/ Refuse(t) \/ Reload(t) \/ TryClaim(t)
              \/ ClaimPush(t) \/ ClaimPop(t) \/ LoseClaim(t)
              \/ StoreData(t) \/ Publish(t) \/ SwapData(t) \/ Release(t)

Observe(t) == \/ LenCall(t) \/ LenReturn(t)
              \/ SnapshotCall(t) \/ SnapshotEnd(t)
              \/ SnapshotRead(t) \/ SnapshotReturn(t)

Next == \/ \E t \in Threads :
             PushCall(t) \/ PopCall(t) \/ PushPop(t) \/ Observe(t)
        \/ Close

Spec == Init /\ [][Next]_vars

\* The Go scheduler runs every runnable goroutine eventually, and a consumer
\* polls: it calls Pop again after every return, as the consumers of
\* TestMPMCRingConcurrentNoLossOrDuplicate do.
Fairness == \A t \in Threads : WF_vars(PushPop(t)) /\ WF_vars(PopCall(t))

FairSpec == Spec /\ Fairness

-----------------------------------------------------------------------------
(* The inductive invariant: what a cell holds at every position *)

OperationOK ==
  \A t \in Threads :
    /\ pc[t] \in {"load", "seq", "cas"} => op[t] \in {"push", "pop"}
    /\ pc[t] \in {"store", "publish"}   => op[t] = "push"
    /\ pc[t] \in {"swap", "release"}    => op[t] = "pop"
    /\ pc[t] \in {"idle", "len", "snapEnd", "snapRead"} => op[t] = "none"

PositionsOK == /\ dequeuePos <= enqueuePos
               /\ enqueuePos <= dequeuePos + Capacity
               /\ Len(claimed) = enqueuePos

\* A position that is claimed by a Push and not yet by a Pop is published with
\* the value that claimed it, or still waits for its producer.
QueuedOK ==
  \A p \in dequeuePos..(enqueuePos - 1) :
    \/ sequence[Slot(p)] = p
    \/ sequence[Slot(p)] = p + 1 /\ data[Slot(p)] = claimed[p + 1]

\* The positions up to the end of the lap are free, or the Pop of the previous
\* lap has not released them.
FreeOK ==
  \A p \in enqueuePos..(dequeuePos + Capacity - 1) :
    sequence[Slot(p)] \in {p, p - Capacity + 1}

\* What a goroutine between the load of a position and the compare-and-swap
\* may rely on: positions only grow, and while the position has not moved the
\* sequence it has seen still stands.
ApproachOK ==
  \A t \in Threads :
    /\ pc[t] \in {"seq", "cas"} =>
         position[t] <= (IF op[t] = "push" THEN enqueuePos ELSE dequeuePos)
    /\ pc[t] = "cas" /\ op[t] = "push" /\ position[t] = enqueuePos =>
         sequence[Slot(position[t])] = position[t]
    /\ pc[t] = "cas" /\ op[t] = "pop" /\ position[t] = dequeuePos =>
         sequence[Slot(position[t])] = position[t] + 1

PushHolds(t) == pc[t] \in {"store", "publish"}
PopHolds(t)  == pc[t] \in {"swap", "release"}

ProducersOK ==
  \A t \in Threads : PushHolds(t) =>
    /\ dequeuePos <= position[t] /\ position[t] < enqueuePos
    /\ sequence[Slot(position[t])] = position[t]
    /\ value[t] = claimed[position[t] + 1]
    /\ pc[t] = "publish" => data[Slot(position[t])] = value[t]

ConsumersOK ==
  \A t \in Threads : PopHolds(t) =>
    /\ position[t] < dequeuePos /\ enqueuePos <= position[t] + Capacity
    /\ sequence[Slot(position[t])] = position[t] + 1
    /\ pc[t] = "swap" => data[Slot(position[t])] = claimed[position[t] + 1]
    /\ pc[t] = "release" => value[t] = claimed[position[t] + 1]

\* The compare-and-swap gives a position to one producer and one consumer.
HoldersDiffer ==
  \A t, u \in Threads :
    /\ t # u
    /\ \/ PushHolds(t) /\ PushHolds(u)
       \/ PopHolds(t) /\ PopHolds(u)
    => position[t] # position[u]

\* A value is pushed once, and claims one position.
ValuesOK ==
  /\ \A i \in 1..Len(claimed) : claimed[i] <= pushed
  /\ \A i, j \in 1..Len(claimed) : claimed[i] = claimed[j] => i = j
  /\ \A t \in Threads : op[t] = "push" =>
       /\ value[t] \in 1..pushed
       /\ ~PushHolds(t) => \A i \in 1..Len(claimed) : claimed[i] # value[t]
  /\ \A t, u \in Threads :
       t # u /\ op[t] = "push" /\ op[u] = "push" => value[t] # value[u]
  /\ \A v \in returned : \E i \in 1..dequeuePos : claimed[i] = v

IInv == /\ TypeOK /\ OperationOK /\ PositionsOK /\ QueuedOK /\ FreeOK
        /\ ApproachOK /\ ProducersOK /\ ConsumersOK /\ HoldersDiffer
        /\ ValuesOK

-----------------------------------------------------------------------------
(* Properties *)

\* pushpop, "Returns nil when the queue is empty (consumer) or full (producer)
\* at the claimed position": a Push is refused only when Capacity values are
\* queued or some Pop that has won its position is still emptying its cell, and
\* a Pop only when nothing is queued or the Push that won the oldest position
\* has not published it.
RefusalExplained ==
  [][\A t \in Threads : Refuse(t) =>
       \/ op[t] = "push" /\ (\/ enqueuePos - dequeuePos = Capacity
                             \/ \E u \in Threads : PopHolds(u))
       \/ op[t] = "pop"  /\ (\/ enqueuePos = dequeuePos
                             \/ \E u \in Threads :
                                  PushHolds(u) /\ position[u] = dequeuePos)]_vars

\* Snapshot allocates for enqueue - dequeue values and walks from one to the
\* other: the two loads never come out in the wrong order (a negative capacity
\* panics), and a cell it reads never yields a value of an earlier lap, one
\* that a Pop had consumed before the Snapshot began.
SnapshotFresh ==
  [][\A t \in Threads :
       /\ SnapshotEnd(t) => position[t] <= limit'[t]
       /\ SnapshotRead(t) =>
            \/ data[Slot(position[t])] = Nil
            \/ \E p \in (position[t] + 1)..Len(claimed) :
                 claimed[p] = data[Slot(position[t])]]_vars

\* Calls that other goroutines overtake answer rightly: Push and Pop refuse for
\* a reason that is there, and Snapshot reads no value consumed before it began.
CallsAnswered == RefusalExplained /\ SnapshotFresh

\* The queue the ring implements: a value is queued when its Push wins a
\* position and taken when a Pop wins that position.  A Pop that has swapped
\* the cell holds what the cell held, one that has not is owed what was pushed.
Queue == SubSeq(claimed, dequeuePos + 1, enqueuePos)
Hand(t) == CASE pc[t] = "swap"    -> claimed[position[t] + 1]
             [] pc[t] = "release" -> value[t]
             [] OTHER             -> Nil

Fifo == INSTANCE BoundedFifo
          WITH Clients <- Threads, None <- Nil, queue <- Queue,
               hand <- [t \in Threads |-> Hand(t)]

\* Whatever the interleaving, the ring is a bounded FIFO queue: never more
\* than Capacity values, taken in the order in which they were claimed, every
\* one returned by one Pop, none lost to a Nil or to another lap of its cell
\* (TestMPMCRingConcurrentNoLossOrDuplicate).
ImplementsFifo == Fifo!Spec

\* As long as consumers poll, every Pop and Push call ends and every value
\* that won a position is returned, also after Close ("queued values remain
\* until drained").
EventuallyReturned ==
  \A v \in Values : [](v \in {claimed[i] : i \in DOMAIN claimed}
                         => <>(v \in returned))
=============================================================================
