------------------------------ MODULE SPSCRing ------------------------------
(***************************************************************************)
(* structure/spsc.go: the single-producer single-consumer queue.           *)
(*                                                                         *)
(* One goroutine pushes, one pops, and every access to a cursor or a slot  *)
(* that the other goroutine can see is one action.  slots[i].value is a    *)
(* plain field: its accesses are actions too, and NoDataRace says that the *)
(* two goroutines never make conflicting ones at the same time.            *)
(***************************************************************************)
EXTENDS Integers, Sequences, FiniteSets

CONSTANTS Capacity,    \* len(ring.slots)
          MaxPushes    \* bound: Push calls

\* NewSPSCRing refuses a capacity below one (or not a power of two).
ASSUME SPSCAssumption == /\ Capacity \in Nat /\ Capacity >= 1
                         /\ MaxPushes \in Nat

VARIABLES dropOldestOnFull,  \* the overflow policy the ring was built with
          overlap,     \* do the producer's calls and the consumer's overlap?
          head, tail,
          values,      \* slots[i].value
          ready,       \* slots[i].ready
          dropped, rejected, closed,
          pushPc, pushTail, pushValue,   \* the producer: next step, its tail, v
          popPc, popTail, popValue,      \* the consumer: next step, tail, value
          draining,    \* the consumer is in Close's Do loop
          pushed,      \* values handed to Push so far: 1..pushed
          accepted,    \* history: the values Push has published, in order
          returned,    \* history: the values Pop has returned
          evicted      \* history: the positions Push has evicted

policy   == <<dropOldestOnFull, overlap>>
ring     == <<head, tail, values, ready, dropped, rejected, closed>>
producer == <<pushPc, pushTail, pushValue>>
consumer == <<popPc, popTail, popValue, draining>>
history  == <<pushed, accepted, returned, evicted>>
vars     == <<policy, ring, producer, consumer, history>>

Zero     == 0
Values   == 1..MaxPushes
Slots    == 0..(Capacity - 1)
Slot(p)  == p % Capacity

TypeOK ==
  /\ dropOldestOnFull \in BOOLEAN /\ overlap \in BOOLEAN
  /\ head \in Nat /\ tail \in Nat
  /\ values \in [Slots -> Values \cup {Zero}]
  /\ ready \in [Slots -> BOOLEAN]
  /\ dropped \in Nat /\ rejected \in Nat /\ closed \in BOOLEAN
  /\ pushPc \in {"idle", "full", "evict", "unready", "advance", "write",
                 "ready", "publish"}
  /\ pushTail \in Nat /\ pushValue \in Values \cup {Zero}
  /\ popPc \in {"idle", "head", "ready", "read", "clear", "unready",
                "advance", "return"}
  /\ popTail \in Nat /\ popValue \in Values \cup {Zero}
  /\ draining \in BOOLEAN
  /\ pushed \in 0..MaxPushes
  /\ accepted \in Seq(Values)
  /\ returned \in SUBSET (Values \cup {Zero})
  /\ evicted \in SUBSET Nat

\* A caller chooses the policy, and whether its goroutines take turns.
Init == /\ dropOldestOnFull \in BOOLEAN /\ overlap \in BOOLEAN
        /\ head = 0 /\ tail = 0
        /\ values = [s \in Slots |-> Zero]
        /\ ready = [s \in Slots |-> FALSE]
        /\ dropped = 0 /\ rejected = 0 /\ closed = FALSE
        /\ pushPc = "idle" /\ pushTail = 0 /\ pushValue = Zero
        /\ popPc = "idle" /\ popTail = 0 /\ popValue = Zero
        /\ draining = FALSE
        /\ pushed = 0 /\ accepted = <<>> /\ returned = {} /\ evicted = {}

-----------------------------------------------------------------------------
(* Push *)

\* The ring is open.  head is the producer's own, so its load needs no step.
\* (A Push that finds the ring closed returns false and changes nothing.)
PushCall ==
  /\ pushPc = "idle" /\ ~closed /\ pushed < MaxPushes
  /\ overlap \/ (popPc = "idle" /\ ~draining)
  /\ pushed' = pushed + 1
  /\ pushValue' = pushed + 1
  /\ pushPc' = "full"
  /\ UNCHANGED <<ring, pushTail, consumer, accepted, returned, evicted>>

\* tail is loaded and the ring found full or not.
PushReject ==
  /\ pushPc = "full" /\ head - tail >= Capacity /\ ~dropOldestOnFull
  /\ rejected' = rejected + 1
  /\ pushPc' = "idle" /\ pushValue' = Zero
  /\ UNCHANGED <<head, tail, values, ready, dropped, closed, pushTail,
                 consumer, history>>

PushRoom ==
  /\ pushPc = "full" /\ head - tail < Capacity
  /\ pushPc' = "write"
  /\ UNCHANGED <<ring, pushTail, pushValue, consumer, history>>

PushEvict ==
  /\ pushPc = "full" /\ head - tail >= Capacity /\ dropOldestOnFull
  /\ pushTail' = tail
  /\ pushPc' = "evict"
  /\ UNCHANGED <<ring, pushValue, consumer, history>>

EvictClear ==
  /\ pushPc = "evict"
  /\ values' = [values EXCEPT ![Slot(pushTail)] = Zero]
  /\ pushPc' = "unready"
  /\ UNCHANGED <<head, tail, ready, dropped, rejected, closed, pushTail,
                 pushValue, consumer, history>>

EvictUnready ==
  /\ pushPc = "unready"
  /\ ready' = [ready EXCEPT ![Slot(pushTail)] = FALSE]
  /\ pushPc' = "advance"
  /\ UNCHANGED <<head, tail, values, dropped, rejected, closed, pushTail,
                 pushValue, consumer, history>>

\* Mutant: the eviction cursor is not moved past the cleared slot.
EvictInPlace ==
  /\ pushPc = "advance"
  /\ dropped' = dropped + 1
  /\ evicted' = evicted \cup {pushTail}
  /\ pushTail' = 0 /\ pushPc' = "write"
  /\ UNCHANGED <<head, tail, values, ready, rejected, closed, pushValue,
                 consumer, pushed, accepted, returned>>

\* tail.Store(tail + 1), then dropped.Add(1), which nothing else reads.
EvictAdvance ==
  /\ pushPc = "advance"
  /\ tail' = pushTail + 1
  /\ dropped' = dropped + 1
  /\ evicted' = evicted \cup {pushTail}
  /\ pushTail' = 0 /\ pushPc' = "write"
  /\ UNCHANGED <<head, values, ready, rejected, closed, pushValue, consumer,
                 pushed, accepted, returned>>

PushWrite ==
  /\ pushPc = "write"
  /\ values' = [values EXCEPT ![Slot(head)] = pushValue]
  /\ pushPc' = "ready"
  /\ UNCHANGED <<head, tail, ready, dropped, rejected, closed, pushTail,
                 pushValue, consumer, history>>

\* Mutant: ready is not set.
PushNotReady ==
  /\ pushPc = "ready"
  /\ pushPc' = "publish"
  /\ UNCHANGED <<ring, pushTail, pushValue, consumer, history>>

PushReady ==
  /\ pushPc = "ready"
  /\ ready' = [ready EXCEPT ![Slot(head)] = TRUE]
  /\ pushPc' = "publish"
  /\ UNCHANGED <<head, tail, values, dropped, rejected, closed, pushTail,
                 pushValue, consumer, history>>

PushPublish ==
  /\ pushPc = "publish"
  /\ head' = head + 1
  /\ accepted' = Append(accepted, pushValue)
  /\ pushPc' = "idle" /\ pushValue' = Zero
  /\ UNCHANGED <<tail, values, ready, dropped, rejected, closed, pushTail,
                 consumer, pushed, returned, evicted>>

-----------------------------------------------------------------------------
(* Pop, Close *)

\* Pop loads tail.
PopCall ==
  /\ popPc = "idle"
  /\ overlap \/ pushPc = "idle"
  /\ popTail' = tail
  /\ popPc' = "head"
  /\ UNCHANGED <<ring, producer, popValue, draining, history>>

PopReturnsEmpty == /\ popPc' = "idle" /\ popTail' = 0
                   /\ draining' = FALSE
                   /\ UNCHANGED <<ring, producer, popValue, history>>

\* tail >= head, or the slot is not ready: Pop returns false, and Close's Do
\* loop ends.
PopEmpty    == popPc = "head"  /\ popTail >= head /\ PopReturnsEmpty
PopNotReady == popPc = "ready" /\ ~ready[Slot(popTail)] /\ PopReturnsEmpty

\* Mutant: a Pop that does not look at head.
PopBlind ==
  /\ popPc = "head"
  /\ popPc' = "ready"
  /\ UNCHANGED <<ring, producer, popTail, popValue, draining, history>>

PopSome ==
  /\ popPc = "head" /\ popTail < head
  /\ popPc' = "ready"
  /\ UNCHANGED <<ring, producer, popTail, popValue, draining, history>>

PopReady ==
  /\ popPc = "ready" /\ ready[Slot(popTail)]
  /\ popPc' = "read"
  /\ UNCHANGED <<ring, producer, popTail, popValue, draining, history>>

\* Mutant: tail moves before the slot is emptied.
PopAdvanceEarly ==
  /\ popPc = "read"
  /\ popValue' = values[Slot(popTail)]
  /\ tail' = popTail + 1
  /\ popPc' = "clear"
  /\ UNCHANGED <<head, values, ready, dropped, rejected, closed, producer,
                 popTail, draining, history>>

PopRead ==
  /\ popPc = "read"
  /\ popValue' = values[Slot(popTail)]
  /\ popPc' = "clear"
  /\ UNCHANGED <<ring, producer, popTail, draining, history>>

\* Mutant: Pop moves on without emptying the slot.
PopKeeps ==
  /\ popPc = "clear"
  /\ popPc' = "advance"
  /\ UNCHANGED <<ring, producer, popTail, popValue, draining, history>>

PopClear ==
  /\ popPc = "clear"
  /\ values' = [values EXCEPT ![Slot(popTail)] = Zero]
  /\ popPc' = "unready"
  /\ UNCHANGED <<head, tail, ready, dropped, rejected, closed, producer,
                 popTail, popValue, draining, history>>

PopUnready ==
  /\ popPc = "unready"
  /\ ready' = [ready EXCEPT ![Slot(popTail)] = FALSE]
  /\ popPc' = "advance"
  /\ UNCHANGED <<head, tail, values, dropped, rejected, closed, producer,
                 popTail, popValue, draining, history>>

PopAdvance ==
  /\ popPc = "advance"
  /\ tail' = popTail + 1
  /\ popPc' = "return"
  /\ UNCHANGED <<head, values, ready, dropped, rejected, closed, producer,
                 popTail, popValue, draining, history>>

\* The value reaches Pop's caller (or Do's visitor, which calls Pop again).
PopReturn ==
  /\ popPc = "return"
  /\ returned' = returned \cup {popValue}
  /\ popPc' = "idle" /\ popTail' = 0 /\ popValue' = Zero
  /\ UNCHANGED <<ring, producer, draining, pushed, accepted, evicted>>

\* Close, called by the goroutine that may Pop: it sets closed and pops until
\* the ring is empty.
Close ==
  /\ ~closed /\ popPc = "idle"
  /\ overlap \/ pushPc = "idle"
  /\ closed' = TRUE
  /\ draining' = TRUE
  /\ UNCHANGED <<head, tail, values, ready, dropped, rejected, producer,
                 popPc, popTail, popValue, history>>

-----------------------------------------------------------------------------
Push == \/ PushCall \/ PushReject \/ PushRoom \/ PushEvict
        \/ EvictClear \/ EvictUnready \/ EvictAdvance
        \/ PushWrite \/ PushReady \/ PushPublish

Pop  == \/ PopCall \/ PopEmpty \/ PopNotReady \/ PopSome \/ PopReady
        \/ PopRead \/ PopClear \/ PopUnready \/ PopAdvance \/ PopReturn

\* Nothing changes the policy.
Next == (Push \/ Pop \/ Close) /\ UNCHANGED policy

Spec == Init /\ [][Next]_vars

-----------------------------------------------------------------------------
(* The inductive invariant *)

\* The header promises a ring without further synchronization.  It holds for a
\* ring that rejects when full; one that drops the oldest needs a caller that
\* takes turns, for its eviction moves tail, which Pop moves too.
Disciplined == dropOldestOnFull => ~overlap

Filled(p) == ready[Slot(p)] /\ values[Slot(p)] = accepted[p + 1]
Blank(p)  == ~ready[Slot(p)] /\ values[Slot(p)] = Zero

CursorsOK == /\ tail <= head /\ head <= tail + Capacity
             /\ Len(accepted) = head

Emptying == \/ popPc \in {"clear", "unready", "advance"}
            \/ pushPc \in {"unready", "advance"}

\* Every queued position is filled, unless Pop or an eviction is emptying it.
QueuedOK == \A p \in tail..(head - 1) : Filled(p) \/ (p = tail /\ Emptying)

\* Every position up to the end of the lap is blank, unless Push is filling it.
BlankOK == \A p \in head..(tail + Capacity - 1) :
             \/ Blank(p)
             \/ p = head /\ pushPc \in {"ready", "publish"}

TurnsOK == overlap \/ pushPc = "idle" \/ popPc = "idle"

Evicting == pushPc \in {"evict", "unready", "advance"}

ProducerOK ==
  /\ Evicting => /\ dropOldestOnFull /\ ~overlap
                 /\ pushTail = tail /\ head = tail + Capacity
  /\ pushPc = "evict" => Filled(tail)
  /\ pushPc = "unready" => ready[Slot(tail)] /\ values[Slot(tail)] = Zero
  /\ pushPc = "advance" => Blank(tail)
  /\ pushPc \in {"write", "ready", "publish"} => head < tail + Capacity
  /\ pushPc \in {"ready", "publish"} => values[Slot(head)] = pushValue
  /\ pushPc = "ready" => ~ready[Slot(head)]
  /\ pushPc = "publish" => ready[Slot(head)]

ConsumerOK ==
  /\ popPc \in {"head", "ready", "read", "clear", "unready", "advance"} =>
       popTail = tail
  /\ popPc \in {"ready", "read", "clear", "unready", "advance"} => tail < head
  /\ popPc \in {"clear", "unready", "advance"} => popValue = accepted[tail + 1]
  /\ popPc = "clear" => Filled(tail)
  /\ popPc = "unready" => ready[Slot(tail)] /\ values[Slot(tail)] = Zero
  /\ popPc = "advance" => Blank(tail)
  /\ popPc = "return" => tail \in 1..head /\ popValue = accepted[tail]

ValuesOK ==
  /\ \A i \in 1..Len(accepted) : accepted[i] <= pushed
  /\ \A i, j \in 1..Len(accepted) : accepted[i] = accepted[j] => i = j
  /\ pushPc # "idle" =>
       /\ pushValue \in 1..pushed
       /\ \A i \in 1..Len(accepted) : accepted[i] # pushValue
  /\ \A v \in returned : \E i \in 1..tail : accepted[i] = v

SlotsOK == /\ TypeOK /\ CursorsOK /\ QueuedOK /\ BlankOK /\ TurnsOK
           /\ ProducerOK /\ ConsumerOK /\ ValuesOK

\* The slot discipline of a ring used within what it can bear: the positions
\* from tail to head are filled with what was pushed, in that order, the rest
\* of the lap is blank, and each goroutine holds only the slot it is at.
IInv == Disciplined => SlotsOK

-----------------------------------------------------------------------------
(* Properties *)

\* "Exactly one goroutine may Push and exactly one may Pop without external
\* synchronization": the plain value field of a slot is never written by one
\* goroutine while the other is at an access to it.
NoDataRace ==
  Disciplined =>
    /\ pushPc = "write" /\ popPc \in {"read", "clear"} =>
         Slot(head) # Slot(popTail)
    /\ pushPc = "evict" /\ popPc \in {"read", "clear"} =>
         Slot(pushTail) # Slot(popTail)

\* Every value Push has published is still queued where Pop will find it, in
\* the hands of Pop or of an eviction, returned, or dropped and so counted: no
\* cursor passes a value that nobody gets, and no value is both dropped and
\* returned.  That holds of a ring that rejects, however its calls overlap, and
\* of a ring that drops when they do not; an eviction that overlaps a Pop can
\* lose a value or hand it out twice.
Conserved ==
  Disciplined =>
    /\ \A p \in 0..(Len(accepted) - 1) :
         \/ accepted[p + 1] \in returned
         \/ p \in evicted
         \/ pushPc \in {"unready", "advance"} /\ pushTail = p
         \/ popPc # "idle" /\ popValue = accepted[p + 1]
         \/ p >= tail /\ Filled(p)
    /\ dropped = Cardinality(evicted)
    /\ \A p \in evicted : p < Len(accepted) /\ accepted[p + 1] \notin returned

\* Whatever an eviction does to the slots under a Pop that is running, no value
\* is handed out twice: a Pop that lost its slot to the producer returns a
\* newer value or the zero value, and a cursor that moves back leads to slots
\* that are empty or hold newer values.
AtMostOnce == [][PopReturn => popValue = Zero \/ popValue \notin returned]_vars

Queue == SubSeq(accepted, tail + 1, head)
Hand  == IF popPc = "return" THEN popValue ELSE Zero

Fifo == INSTANCE BoundedFifo
          WITH Clients <- {"consumer"}, None <- Zero, queue <- Queue,
               hand <- [c \in {"consumer"} |-> Hand]

\* The ring is a bounded FIFO queue: a value is queued when Push advances head
\* and taken when Pop advances tail.  One that drops the oldest evicts only from
\* a full queue, and so keeps the Capacity newest values.
ImplementsFifo ==
  /\ Fifo!Init
  /\ [][\/ Fifo!Next
        \/ dropOldestOnFull /\ (overlap \/ Fifo!Evict)]_(Fifo!vars)
=============================================================================
