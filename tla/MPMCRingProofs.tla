--------------------------- MODULE MPMCRingProofs ---------------------------
(***************************************************************************)
(* For every capacity, every set of goroutines and every number of pushes: *)
(* the cell discipline IInv of MPMCRing is an invariant of the ring.       *)
(***************************************************************************)
EXTENDS MPMCRing, CommonLemmas

-----------------------------------------------------------------------------
(* Slots *)

\* Two positions that share a slot are at least one lap apart.
LEMMA SlotApart ==
  ASSUME NEW p \in Nat, NEW q \in Nat, Slot(p) = Slot(q), p < q
  PROVE  q >= p + Capacity
<1>1. p % Capacity = q % Capacity /\ Capacity \in Nat /\ Capacity >= 1
  BY RingAssumption DEF Slot
<1>. QED BY <1>1, ModApart, Zenon

\* A lap later the slot is the same one.
LEMMA SlotLap ==
  ASSUME NEW p \in Nat
  PROVE  Slot(p + Capacity) = Slot(p)
<1>1. Capacity \in Nat /\ Capacity >= 1
  BY RingAssumption
<1>. QED BY <1>1, ModLap, Zenon DEF Slot

\* The first lap numbers the slots.
LEMMA SlotFirst ==
  ASSUME NEW p \in 0..(Capacity - 1)
  PROVE  Slot(p) = p
<1>1. Capacity \in Nat /\ Capacity >= 1
  BY RingAssumption
<1>. QED BY <1>1, ModFirst, Zenon DEF Slot

LEMMA SlotType ==
  ASSUME NEW p \in Nat
  PROVE  Slot(p) \in Slots
BY RingAssumption DEF Slot, Slots

-----------------------------------------------------------------------------
(* IInv is inductive *)

LEMMA InitIInv == Init => IInv
<1> SUFFICES ASSUME Init PROVE IInv
  OBVIOUS
<1> USE RingAssumption DEF Init
<1>1. TypeOK
  <2>1. sequence \in [Slots -> Nat] /\ data \in [Slots -> Values \cup {Nil}]
    BY DEF Slots
  <2>2. pushed \in 0..MaxPushes /\ claimed \in Seq(Values)
    OBVIOUS
  <2>. QED BY <2>1, <2>2 DEF TypeOK, Labels
<1>2. OperationOK /\ PositionsOK /\ QueuedOK
  BY DEF OperationOK, PositionsOK, QueuedOK
<1>3. FreeOK
  BY SlotFirst DEF FreeOK, Slots
<1>4. ApproachOK /\ ProducersOK /\ ConsumersOK /\ HoldersDiffer
  BY DEF ApproachOK, ProducersOK, ConsumersOK, HoldersDiffer, PushHolds, PopHolds
<1>5. ValuesOK
  BY DEF ValuesOK
<1>. QED BY <1>1, <1>2, <1>3, <1>4, <1>5 DEF IInv

\* A step that touches neither the cells nor the positions nor the history, and
\* leaves every other goroutine alone, keeps what the invariant says of them;
\* what is left to show is what it says of the goroutine that moved.
LEMMA QuietStep ==
  ASSUME IInv, TypeOK', NEW t \in Threads,
         UNCHANGED <<shared, claimed, returned>>,
         pushed <= pushed',
         ~PushHolds(t)', ~PopHolds(t)',
         \A u \in Threads \ {t} :
           /\ pc'[u] = pc[u] /\ op'[u] = op[u] /\ value'[u] = value[u]
           /\ position'[u] = position[u],
         OperationOK', ApproachOK', ValuesOK'
  PROVE  IInv'
<1> USE DEF IInv, shared
<1>1. PositionsOK' /\ QueuedOK' /\ FreeOK'
  BY DEF PositionsOK, QueuedOK, FreeOK
<1>2. ProducersOK' /\ ConsumersOK' /\ HoldersDiffer'
  BY DEF ProducersOK, ConsumersOK, HoldersDiffer, PushHolds, PopHolds
<1>. QED BY <1>1, <1>2

LEMMA PushCallStep ==
  ASSUME IInv, NEW t \in Threads, PushCall(t)
  PROVE  IInv'
<1> USE DEF PushCall, GoTo, shared
<1>1. TypeOK'
  BY RingAssumption DEF IInv, TypeOK, Labels, Values
<1>2. OperationOK' /\ ApproachOK'
  BY DEF IInv, TypeOK, OperationOK, ApproachOK
<1>3. ValuesOK'
  <2>1. op' = [op EXCEPT ![t] = "push"] /\ value' = [value EXCEPT ![t] = pushed']
        /\ pushed' = pushed + 1 /\ claimed' = claimed /\ returned' = returned
        /\ dequeuePos' = dequeuePos /\ pushed \in Nat /\ op[t] = "none"
    BY DEF IInv, TypeOK, OperationOK
  <2>2. \A i \in 1..Len(claimed) : claimed[i] \in Nat
    <3>1. claimed \in Seq(Values)
      BY DEF IInv, TypeOK
    <3>2. \A i \in 1..Len(claimed) : claimed[i] \in Values
      BY <3>1
    <3>. QED BY <3>2, RingAssumption DEF Values
  <2>3. \A u \in Threads : op[u] = "push" => value[u] # pushed'
    BY <2>1 DEF IInv, ValuesOK
  <2>4. \A u \in Threads : u # t => (PushHolds(u)' <=> PushHolds(u))
    BY DEF IInv, TypeOK, PushHolds
  <2>5. \A u \in Threads : op'[u] = "push" =>
          /\ value'[u] \in 1..pushed'
          /\ ~PushHolds(u)' =>
               \A i \in 1..Len(claimed) : claimed[i] # value'[u]
    BY <2>1, <2>2, <2>4 DEF IInv, TypeOK, ValuesOK
  <2>. QED BY <2>1, <2>2, <2>3, <2>5 DEF IInv, TypeOK, ValuesOK
<1>4. ~PushHolds(t)' /\ ~PopHolds(t)' /\ pushed <= pushed'
  BY DEF IInv, TypeOK, PushHolds, PopHolds
<1>. QED BY <1>1, <1>2, <1>3, <1>4, QuietStep DEF IInv, TypeOK

LEMMA PopCallStep ==
  ASSUME IInv, NEW t \in Threads, PopCall(t)
  PROVE  IInv'
<1> USE DEF PopCall, GoTo, shared, history
<1>1. TypeOK'
  BY DEF IInv, TypeOK, Labels
<1>2. OperationOK' /\ ApproachOK'
  BY DEF IInv, TypeOK, OperationOK, ApproachOK
<1>3. ValuesOK'
  BY DEF IInv, TypeOK, ValuesOK, PushHolds, OperationOK
<1>4. ~PushHolds(t)' /\ ~PopHolds(t)' /\ pushed <= pushed'
  BY DEF IInv, TypeOK, PushHolds, PopHolds
<1>. QED BY <1>1, <1>2, <1>3, <1>4, QuietStep DEF IInv, TypeOK



LEMMA LoadPositionStep ==
  ASSUME IInv, NEW t \in Threads, LoadPosition(t)
  PROVE  IInv'
<1> USE DEF LoadPosition, GoTo, shared, history
<1>1. TypeOK' /\ OperationOK'
  BY DEF IInv, TypeOK, Labels, OperationOK
<1>2. ApproachOK'
  BY DEF IInv, TypeOK, ApproachOK
<1>3. ValuesOK'
  BY DEF IInv, TypeOK, ValuesOK, PushHolds
<1>4. ~PushHolds(t)' /\ ~PopHolds(t)' /\ pushed <= pushed'
  BY DEF IInv, TypeOK, PushHolds, PopHolds
<1>. QED BY <1>1, <1>2, <1>3, <1>4, QuietStep DEF IInv, TypeOK

LEMMA TryClaimStep ==
  ASSUME IInv, NEW t \in Threads, TryClaim(t)
  PROVE  IInv'
<1> USE DEF TryClaim, GoTo, shared, history
<1>1. TypeOK' /\ OperationOK'
  BY DEF IInv, TypeOK, Labels, OperationOK
<1>2. ApproachOK'
  <2>1. op[t] = "push" => sequence[Slot(position[t])] = position[t]
    BY SlotType DEF IInv, TypeOK, Diff
  <2>2. op[t] = "pop" => sequence[Slot(position[t])] = position[t] + 1
    BY SlotType DEF IInv, TypeOK, Diff
  <2>. QED BY <2>1, <2>2 DEF IInv, TypeOK, ApproachOK
<1>3. ValuesOK'
  BY DEF IInv, TypeOK, ValuesOK, PushHolds
<1>4. ~PushHolds(t)' /\ ~PopHolds(t)' /\ pushed <= pushed'
  BY DEF IInv, TypeOK, PushHolds, PopHolds
<1>. QED BY <1>1, <1>2, <1>3, <1>4, QuietStep DEF IInv, TypeOK

LEMMA RestartStep ==
  ASSUME IInv, NEW t \in Threads, Reload(t) \/ LoseClaim(t)
  PROVE  IInv'
<1>1. /\ pc' = [pc EXCEPT ![t] = "load"]
      /\ pc[t] \in {"seq", "cas"}
      /\ UNCHANGED <<shared, op, position, limit, value, history>>
  BY DEF Reload, LoseClaim, GoTo
<1> USE <1>1 DEF shared, history
<1>2. TypeOK' /\ OperationOK'
  BY DEF IInv, TypeOK, Labels, OperationOK
<1>3. ApproachOK'
  BY DEF IInv, TypeOK, ApproachOK
<1>4. ValuesOK'
  BY DEF IInv, TypeOK, ValuesOK, PushHolds
<1>5. ~PushHolds(t)' /\ ~PopHolds(t)' /\ pushed <= pushed'
  BY DEF IInv, TypeOK, PushHolds, PopHolds
<1>. QED BY <1>2, <1>3, <1>4, <1>5, QuietStep DEF IInv, TypeOK

LEMMA RefuseStep ==
  ASSUME IInv, NEW t \in Threads, Refuse(t)
  PROVE  IInv'
<1> USE DEF Refuse, Done, GoTo, shared, history
<1>1. TypeOK'
  BY DEF IInv, TypeOK, Labels
<1>2. OperationOK' /\ ApproachOK'
  BY DEF IInv, TypeOK, OperationOK, ApproachOK
<1>3. ValuesOK'
  BY DEF IInv, TypeOK, ValuesOK, PushHolds
<1>4. ~PushHolds(t)' /\ ~PopHolds(t)' /\ pushed <= pushed'
  BY DEF IInv, TypeOK, PushHolds, PopHolds
<1>. QED BY <1>1, <1>2, <1>3, <1>4, QuietStep DEF IInv, TypeOK

\* Len and Snapshot only move their own frame.
LEMMA ObserveStep ==
  ASSUME IInv, NEW t \in Threads, Observe(t)
  PROVE  IInv'
<1> DEFINE Quiet == {"idle", "len", "snapEnd", "snapRead"}
<1> USE DEF IInv, TypeOK
<1>1. /\ pc[t] \in Quiet /\ pc'[t] \in Quiet
      /\ pc' \in [Threads -> Labels]
      /\ op' = op \/ op' = [op EXCEPT ![t] = "none"]
      /\ value' = value \/ value' = [value EXCEPT ![t] = Nil]
      /\ position' \in [Threads -> Nat]
      /\ limit' \in [Threads -> Nat]
      /\ \A u \in Threads \ {t} : pc'[u] = pc[u] /\ position'[u] = position[u]
      /\ UNCHANGED <<shared, history>>
  <2> USE DEF Done, GoTo, Labels
  <2>1. CASE LenCall(t)
    BY <2>1 DEF LenCall, shared
  <2>2. CASE LenReturn(t)
    BY <2>2 DEF LenReturn
  <2>3. CASE SnapshotCall(t)
    BY <2>3 DEF SnapshotCall, shared
  <2>4. CASE SnapshotEnd(t)
    BY <2>4 DEF SnapshotEnd, shared
  <2>5. CASE SnapshotRead(t)
    BY <2>5 DEF SnapshotRead
  <2>6. CASE SnapshotReturn(t)
    BY <2>6 DEF SnapshotReturn
  <2>. QED BY <2>1, <2>2, <2>3, <2>4, <2>5, <2>6 DEF Observe
<1>2. op[t] = "none"
  BY <1>1 DEF OperationOK
<1>3. op' = op
  BY <1>1, <1>2
<1>4. /\ \A u \in Threads : op[u] = "push" => value'[u] = value[u]
      /\ \A u \in Threads \ {t} : value'[u] = value[u]
      /\ value' \in [Threads -> Values \cup {Nil}]
  BY <1>1, <1>2
<1>5. TypeOK'
  BY <1>1, <1>3, <1>4 DEF shared, history
<1>6. OperationOK' /\ ApproachOK'
  <2>1. OperationOK'
    <3> SUFFICES ASSUME NEW u \in Threads
                 PROVE  /\ pc'[u] \in {"load", "seq", "cas"} => op[u] \in {"push", "pop"}
                        /\ pc'[u] \in {"store", "publish"}   => op[u] = "push"
                        /\ pc'[u] \in {"swap", "release"}    => op[u] = "pop"
                        /\ pc'[u] \in Quiet                  => op[u] = "none"
      BY <1>3 DEF OperationOK
    <3>. QED BY <1>1, <1>2 DEF OperationOK
  <2>2. \A u \in Threads : pc'[u] \in {"seq", "cas"} =>
          pc'[u] = pc[u] /\ position'[u] = position[u]
    BY <1>1
  <2>3. UNCHANGED <<sequence, enqueuePos, dequeuePos>>
    BY <1>1 DEF shared
  <2>4. ApproachOK'
    BY <2>2, <2>3, <1>3 DEF ApproachOK
  <2>. QED BY <2>1, <2>4
<1>7. ~PushHolds(t)' /\ ~PopHolds(t)' /\ pushed <= pushed'
  BY <1>1 DEF PushHolds, PopHolds, history
<1>8. ValuesOK'
  <2>1. \A u \in Threads : op[u] = "push" => (PushHolds(u)' <=> PushHolds(u))
    BY <1>1, <1>2 DEF PushHolds
  <2>2. UNCHANGED <<claimed, returned, pushed, dequeuePos>>
    BY <1>1 DEF shared, history
  <2>. QED BY <1>3, <1>4, <2>1, <2>2 DEF ValuesOK
<1>. QED BY <1>1, <1>3, <1>4, <1>5, <1>6, <1>7, <1>8, QuietStep DEF history

-----------------------------------------------------------------------------
(* The steps that move a position or a cell *)

LEMMA ClaimPushStep ==
  ASSUME IInv, NEW t \in Threads, ClaimPush(t)
  PROVE  IInv'
<1> DEFINE p == position[t]
<1> USE RingAssumption DEF IInv, TypeOK, ClaimPush, GoTo
<1>1. /\ p = enqueuePos /\ enqueuePos' = p + 1 /\ p \in Nat
      /\ sequence[Slot(p)] = p
      /\ Slot(p) \in Slots
  BY SlotType DEF ApproachOK
<1>2. p < dequeuePos + Capacity
  <2> dequeuePos \in Nat /\ enqueuePos <= dequeuePos + Capacity
    BY DEF PositionsOK
  <2> HIDE DEF IInv, TypeOK, ClaimPush, GoTo
  <2>1. SUFFICES ASSUME p = dequeuePos + Capacity PROVE FALSE
    BY <1>1
  <2>2. Slot(p) = Slot(dequeuePos)
    BY <2>1, SlotLap
  <2>3. sequence[Slot(dequeuePos)] \in {dequeuePos, dequeuePos + 1}
    BY <2>1, <1>1 DEF IInv, QueuedOK
  <2>. QED BY <2>1, <2>2, <2>3, <1>1
<1>3. /\ Len(claimed') = p + 1 /\ claimed'[p + 1] = value[t]
      /\ \A i \in 1..p : claimed'[i] = claimed[i]
      /\ Len(claimed) = p
  BY <1>1 DEF PositionsOK
<1>4. /\ op[t] = "push" /\ value[t] \in 1..pushed
      /\ \A i \in 1..Len(claimed) : claimed[i] # value[t]
  BY DEF ValuesOK, PushHolds
<1>5. TypeOK'
  BY <1>1, <1>4 DEF Labels, Values
<1>6. OperationOK' /\ PositionsOK'
  BY <1>1, <1>2, <1>3 DEF OperationOK, PositionsOK
<1>7. QueuedOK'
  BY <1>1, <1>3 DEF QueuedOK, PositionsOK
<1>8. FreeOK'
  BY <1>1 DEF FreeOK
<1>9. ApproachOK'
  BY <1>1 DEF ApproachOK
<1>10. ProducersOK'
  BY <1>1, <1>3 DEF ProducersOK, PushHolds, PositionsOK
<1>11. ConsumersOK'
  <2>1. ASSUME NEW u \in Threads, PopHolds(u), position[u] + Capacity = p
        PROVE  FALSE
    <3>1. Slot(position[u]) = Slot(p)
      BY <2>1, SlotLap
    <3>. QED BY <3>1, <2>1, <1>1 DEF ConsumersOK
  <2>2. ASSUME NEW u \in Threads, PopHolds(u)'
        PROVE  /\ PopHolds(u) /\ pc'[u] = pc[u]
               /\ position[u] + 1 \in 1..p
               /\ enqueuePos' <= position[u] + Capacity
    BY <2>1, <2>2, <1>1 DEF ConsumersOK, PopHolds, PositionsOK
  <2>3. \A u \in Threads : PopHolds(u)' => claimed'[position[u] + 1] = claimed[position[u] + 1]
    BY <2>2, <1>3
  <2>. QED BY <2>2, <2>3, <1>1 DEF ConsumersOK
<1>12. HoldersDiffer'
  BY <1>1 DEF HoldersDiffer, ProducersOK, PushHolds, PopHolds
<1>13. ValuesOK'
  <2>1. \A i \in 1..Len(claimed') : claimed'[i] \in Nat /\ claimed'[i] <= pushed
    BY <1>3, <1>4 DEF ValuesOK, Values
  <2>2. \A i, j \in 1..Len(claimed') : claimed'[i] = claimed'[j] => i = j
    BY <1>1, <1>3, <1>4 DEF ValuesOK
  <2>3. \A u \in Threads \ {t} : op[u] = "push" /\ ~PushHolds(u)' =>
          \A i \in 1..Len(claimed') : claimed'[i] # value[u]
    BY <1>1, <1>3, <1>4 DEF ValuesOK, PushHolds
  <2>4. PushHolds(t)'
    BY DEF PushHolds
  <2>5. \A v \in returned : \E i \in 1..dequeuePos : claimed'[i] = v
    <3>1. \A v \in returned : \E i \in 1..dequeuePos : claimed[i] = v
      BY DEF ValuesOK
    <3>2. 1..dequeuePos \subseteq 1..p
      BY <1>1 DEF PositionsOK
    <3> HIDE DEF IInv, TypeOK, ClaimPush, GoTo
    <3>. QED BY <3>1, <3>2, <1>3
  <2>6. /\ \A u \in Threads : op[u] = "push" => value[u] \in 1..pushed
        /\ \A u, w \in Threads :
             u # w /\ op[u] = "push" /\ op[w] = "push" => value[u] # value[w]
    BY DEF ValuesOK
  <2>7. UNCHANGED <<dequeuePos, op, value, pushed, returned>>
    OBVIOUS
  <2> HIDE DEF IInv, TypeOK, ClaimPush, GoTo, history
  <2>. QED BY <2>1, <2>2, <2>3, <2>4, <2>5, <2>6, <2>7 DEF ValuesOK
<1>. QED BY <1>5, <1>6, <1>7, <1>8, <1>9, <1>10, <1>11, <1>12, <1>13

LEMMA ClaimPopStep ==
  ASSUME IInv, NEW t \in Threads, ClaimPop(t)
  PROVE  IInv'
<1> DEFINE p == position[t]
<1> USE RingAssumption DEF IInv, TypeOK, ClaimPop, GoTo, history
<1>1. /\ p = dequeuePos /\ dequeuePos' = p + 1 /\ p \in Nat
      /\ sequence[Slot(p)] = p + 1
      /\ Slot(p) \in Slots
  BY SlotType DEF ApproachOK
<1>2. p < enqueuePos
  <2>1. SUFFICES ASSUME enqueuePos = dequeuePos PROVE FALSE
    BY <1>1 DEF PositionsOK
  <2>2. sequence[Slot(p)] \in {p, p - Capacity + 1}
    <3>1. p \in enqueuePos..(dequeuePos + Capacity - 1) /\ FreeOK
      BY <2>1, <1>1
    <3> HIDE DEF IInv, TypeOK, ClaimPop, GoTo, history
    <3>. QED BY <3>1 DEF FreeOK
  <2>. QED BY <2>2, <1>1
<1>3. data[Slot(p)] = claimed[p + 1]
  <2> HIDE DEF IInv, TypeOK, ClaimPop, GoTo
  <2>1. p \in dequeuePos..(enqueuePos - 1) /\ QueuedOK
    BY <1>1, <1>2 DEF IInv, TypeOK
  <2>. QED BY <2>1, <1>1 DEF QueuedOK
<1>4. TypeOK' /\ OperationOK'
  BY <1>1 DEF Labels, OperationOK
<1>5. PositionsOK' /\ QueuedOK'
  BY <1>1, <1>2 DEF PositionsOK, QueuedOK
<1>6. FreeOK'
  <2>1. Slot(p + Capacity) = Slot(p)
    BY <1>1, SlotLap
  <2>2. UNCHANGED <<enqueuePos, sequence>> /\ enqueuePos \in Nat /\ FreeOK
    OBVIOUS
  <2> HIDE DEF IInv, TypeOK, ClaimPop, GoTo
  <2>3. SUFFICES ASSUME NEW q \in enqueuePos..(p + Capacity)
                 PROVE  sequence[Slot(q)] \in {q, q - Capacity + 1}
    BY <1>1, <2>2 DEF FreeOK
  <2>4. CASE q = p + Capacity
    BY <2>1, <2>4, <1>1
  <2>5. CASE q # p + Capacity
    BY <2>2, <2>5, <1>1 DEF FreeOK
  <2>. QED BY <2>4, <2>5
<1>7. ApproachOK'
  BY <1>1 DEF ApproachOK
<1>8. ProducersOK'
  BY <1>1 DEF ProducersOK, PushHolds
<1>9. ConsumersOK'
  BY <1>1, <1>2, <1>3 DEF ConsumersOK, PopHolds, PositionsOK
<1>10. HoldersDiffer'
  BY <1>1 DEF HoldersDiffer, ConsumersOK, PushHolds, PopHolds
<1>11. ValuesOK'
  BY <1>1 DEF ValuesOK, PushHolds
<1>. QED BY <1>4, <1>5, <1>6, <1>7, <1>8, <1>9, <1>10, <1>11

\* While a goroutine owns a cell, the cells of the other positions that the
\* invariant speaks of are other cells.
LEMMA ProducerAlone ==
  ASSUME IInv, NEW t \in Threads, PushHolds(t)
  PROVE  /\ \A q \in dequeuePos..(dequeuePos + Capacity - 1) :
              Slot(q) = Slot(position[t]) => q = position[t]
         /\ \A u \in Threads \ {t} :
              PushHolds(u) => Slot(position[u]) # Slot(position[t])
         /\ \A u \in Threads :
              PopHolds(u) => Slot(position[u]) # Slot(position[t])
         /\ position[t] \in dequeuePos..(enqueuePos - 1)
         /\ enqueuePos <= dequeuePos + Capacity
         /\ Slot(position[t]) \in Slots
<1> DEFINE p == position[t]
<1>1. /\ p \in Nat /\ dequeuePos \in Nat /\ enqueuePos \in Nat
      /\ dequeuePos <= p /\ p < enqueuePos
      /\ enqueuePos <= dequeuePos + Capacity
      /\ sequence[Slot(p)] = p
  BY DEF IInv, TypeOK, ProducersOK, PositionsOK
<1>2. \A q \in dequeuePos..(dequeuePos + Capacity - 1) : Slot(q) = Slot(p) => q = p
  BY <1>1, SlotApart, RingAssumption
<1>3. \A u \in Threads \ {t} : PushHolds(u) => Slot(position[u]) # Slot(p)
  BY <1>1 DEF IInv, HoldersDiffer, ProducersOK
<1>4. ASSUME NEW u \in Threads, PopHolds(u), Slot(position[u]) = Slot(p)
      PROVE  FALSE
  <2>1. position[u] \in Nat /\ position[u] + 1 = p
    BY <1>1, <1>4 DEF IInv, TypeOK, ConsumersOK
  <2>2. p >= position[u] + Capacity
    BY <2>1, <1>1, <1>4, SlotApart
  <2>. QED BY <2>1, <2>2, <1>1, RingAssumption
<1>. QED BY <1>1, <1>2, <1>3, <1>4, SlotType

LEMMA ConsumerAlone ==
  ASSUME IInv, NEW t \in Threads, PopHolds(t)
  PROVE  /\ \A q \in dequeuePos..(enqueuePos - 1) :
              Slot(q) = Slot(position[t]) => sequence[Slot(q)] # q + 1
         /\ \A q \in enqueuePos..(dequeuePos + Capacity - 1) :
              Slot(q) = Slot(position[t]) => q = position[t] + Capacity
         /\ \A u \in Threads :
              PushHolds(u) => Slot(position[u]) # Slot(position[t])
         /\ \A u \in Threads \ {t} :
              PopHolds(u) => Slot(position[u]) # Slot(position[t])
         /\ \A q \in dequeuePos..(enqueuePos - 1) :
              Slot(q) # Slot(position[t])
         /\ Slot(position[t]) \in Slots
<1> DEFINE p == position[t]
<1>1. /\ p \in Nat /\ dequeuePos \in Nat /\ enqueuePos \in Nat
      /\ p < dequeuePos /\ enqueuePos <= p + Capacity
      /\ dequeuePos <= enqueuePos
      /\ sequence[Slot(p)] = p + 1
  BY DEF IInv, TypeOK, ConsumersOK, PositionsOK
<1>2. \A q \in dequeuePos..(enqueuePos - 1) : Slot(q) # Slot(p)
  BY <1>1, SlotApart, RingAssumption
<1>3. ASSUME NEW q \in enqueuePos..(dequeuePos + Capacity - 1), Slot(q) = Slot(p)
      PROVE  q = p + Capacity
  <2>1. Slot(p + Capacity) = Slot(p) /\ p + Capacity \in Nat
    BY <1>1, SlotLap, RingAssumption
  <2>2. q >= p + Capacity
    BY <1>1, <1>3, SlotApart, RingAssumption
  <2>3. ASSUME q > p + Capacity PROVE FALSE
    <3>1. q >= p + Capacity + Capacity
      BY <2>1, <2>3, <1>1, <1>3, SlotApart, RingAssumption
    <3>. QED BY <3>1, <1>1, <1>3, <2>3, RingAssumption
  <2>. QED BY <2>1, <2>2, <2>3, <1>1, RingAssumption
<1>4. \A u \in Threads : PushHolds(u) => Slot(position[u]) # Slot(p)
  BY ProducerAlone
<1>5. \A u \in Threads \ {t} : PopHolds(u) => Slot(position[u]) # Slot(p)
  BY <1>1 DEF IInv, TypeOK, HoldersDiffer, ConsumersOK
<1>. QED BY <1>1, <1>2, <1>3, <1>4, <1>5, SlotType

LEMMA StoreDataStep ==
  ASSUME IInv, NEW t \in Threads, StoreData(t)
  PROVE  IInv'
<1> DEFINE p == position[t]
<1> USE DEF StoreData, GoTo, history
<1>1. PushHolds(t) /\ op[t] = "push"
  BY DEF IInv, PushHolds, OperationOK
<1>2. /\ Slot(p) \in Slots
      /\ \A s \in Slots : s # Slot(p) => data'[s] = data[s]
      /\ data'[Slot(p)] = value[t]
  BY <1>1, ProducerAlone DEF IInv, TypeOK
<1>3. TypeOK'
  BY <1>2 DEF IInv, TypeOK, Labels
<1>4. OperationOK' /\ PositionsOK' /\ FreeOK' /\ ApproachOK'
  BY <1>1 DEF IInv, TypeOK, OperationOK, PositionsOK, FreeOK, ApproachOK
<1>5. QueuedOK'
  <2>1. sequence[Slot(p)] = p /\ dequeuePos \in Nat /\ enqueuePos \in Nat
    BY <1>1 DEF IInv, TypeOK, ProducersOK
  <2>2. \A q \in dequeuePos..(enqueuePos - 1) : Slot(q) = Slot(p) => sequence[Slot(q)] = q
    BY <1>1, <2>1, ProducerAlone, RingAssumption
  <2>3. \A q \in dequeuePos..(enqueuePos - 1) : Slot(q) \in Slots
    BY SlotType DEF IInv, TypeOK
  <2>. QED BY <2>2, <2>3, <1>2 DEF IInv, QueuedOK
<1>6. ProducersOK'
  <2>1. \A u \in Threads : PushHolds(u)' <=> PushHolds(u)
    BY <1>1 DEF IInv, TypeOK, PushHolds
  <2>2. \A u \in Threads \ {t} : pc'[u] = pc[u]
    BY DEF IInv, TypeOK
  <2>3. \A u \in Threads : Slot(position[u]) \in Slots
    BY SlotType DEF IInv, TypeOK
  <2>. QED BY <1>1, <1>2, <2>1, <2>2, <2>3, ProducerAlone DEF IInv, ProducersOK
<1>7. ConsumersOK'
  <2>1. \A u \in Threads : PopHolds(u)' => PopHolds(u) /\ pc'[u] = pc[u]
    BY DEF IInv, TypeOK, PopHolds
  <2>2. \A u \in Threads : Slot(position[u]) \in Slots
    BY SlotType DEF IInv, TypeOK
  <2>. QED BY <1>1, <1>2, <2>1, <2>2, ProducerAlone DEF IInv, ConsumersOK
<1>8. HoldersDiffer' /\ ValuesOK'
  <2>1. \A u \in Threads : (PushHolds(u)' <=> PushHolds(u)) /\ (PopHolds(u)' <=> PopHolds(u))
    BY <1>1 DEF IInv, TypeOK, PushHolds, PopHolds
  <2>. QED BY <2>1 DEF IInv, HoldersDiffer, ValuesOK
<1>. QED BY <1>3, <1>4, <1>5, <1>6, <1>7, <1>8 DEF IInv

LEMMA PublishStep ==
  ASSUME IInv, NEW t \in Threads, Publish(t)
  PROVE  IInv'
<1> DEFINE p == position[t]
<1> USE DEF Publish, Done, GoTo, history
<1>1. PushHolds(t) /\ op[t] = "push" /\ p \in Nat
  BY DEF IInv, TypeOK, PushHolds, OperationOK
<1>2. /\ Slot(p) \in Slots
      /\ \A s \in Slots : s # Slot(p) => sequence'[s] = sequence[s]
      /\ sequence'[Slot(p)] = p + 1 /\ sequence[Slot(p)] = p
      /\ data[Slot(p)] = claimed[p + 1]
  BY <1>1, ProducerAlone DEF IInv, TypeOK, ProducersOK
<1>3. \A q \in Nat : Slot(q) \in Slots
  BY SlotType
<1>4. /\ \A u \in Threads \ {t} : /\ pc'[u] = pc[u] /\ position'[u] = position[u]
                                   /\ value'[u] = value[u] /\ op'[u] = op[u]
      /\ pc'[t] = "idle" /\ op'[t] = "none"
  BY DEF IInv, TypeOK
<1>5. /\ \A u \in Threads : PushHolds(u)' => PushHolds(u) /\ u # t
      /\ \A u \in Threads : PopHolds(u)' => PopHolds(u) /\ u # t
  BY <1>4 DEF PushHolds, PopHolds
<1>6. TypeOK'
  <2>1. sequence' \in [Slots -> Nat]
    <3>1. p + 1 \in Nat
      BY <1>1
    <3>. QED BY <3>1 DEF IInv, TypeOK
  <2>2. /\ pc' \in [Threads -> Labels]
        /\ op' \in [Threads -> {"none", "push", "pop"}]
        /\ position' \in [Threads -> Nat]
        /\ limit' \in [Threads -> Nat]
        /\ value' \in [Threads -> Values \cup {Nil}]
    BY DEF IInv, TypeOK, Labels
  <2>. QED BY <2>1, <2>2 DEF IInv, TypeOK
<1>7. OperationOK' /\ PositionsOK'
  BY <1>4 DEF IInv, OperationOK, PositionsOK
<1>8. QueuedOK' /\ FreeOK'
  <2>1. /\ p \in dequeuePos..(enqueuePos - 1)
        /\ dequeuePos \in Nat /\ enqueuePos \in Nat
        /\ enqueuePos <= dequeuePos + Capacity
    BY <1>1, ProducerAlone DEF IInv, TypeOK
  <2>2. \A q \in dequeuePos..(dequeuePos + Capacity - 1) :
          q # p => sequence'[Slot(q)] = sequence[Slot(q)]
    BY <1>1, <1>2, <1>3, <2>1, ProducerAlone, RingAssumption
  <2>3. QueuedOK'
    BY <2>1, <2>2, <1>2, RingAssumption DEF IInv, QueuedOK
  <2>4. FreeOK'
    BY <2>1, <2>2, RingAssumption DEF IInv, FreeOK
  <2>. QED BY <2>3, <2>4
<1>9. ApproachOK'
  <2>1. ASSUME NEW u \in Threads \ {t}, pc[u] = "cas", op[u] = "push",
               position[u] = enqueuePos
        PROVE  Slot(position[u]) # Slot(p)
    BY <2>1, <1>1, <1>2, ProducerAlone DEF IInv, TypeOK, ApproachOK
  <2>2. ASSUME NEW u \in Threads \ {t}, pc[u] = "cas", op[u] = "pop",
               position[u] = dequeuePos
        PROVE  Slot(position[u]) # Slot(p)
    <3>1. sequence[Slot(position[u])] = position[u] + 1 /\ position[u] \in Nat
      BY <2>2 DEF IInv, TypeOK, ApproachOK
    <3>2. Slot(position[u]) = Slot(p) => p = position[u]
      BY <2>2, <1>1, ProducerAlone, RingAssumption DEF IInv, TypeOK
    <3>. QED BY <3>1, <3>2, <1>2
  <2>3. \A u \in Threads : position[u] \in Nat
    BY DEF IInv, TypeOK
  <2>4. ApproachOK /\ UNCHANGED <<enqueuePos, dequeuePos>>
    BY DEF IInv
  <2> HIDE DEF Publish, Done, GoTo
  <2>. QED BY <2>1, <2>2, <2>3, <2>4, <1>2, <1>3, <1>4 DEF ApproachOK
<1>10. ProducersOK' /\ ConsumersOK'
  <2>1. \A u \in Threads : position[u] \in Nat
    BY DEF IInv, TypeOK
  <2>2. \A u \in Threads \ {t} : PushHolds(u) \/ PopHolds(u) =>
          sequence'[Slot(position[u])] = sequence[Slot(position[u])]
    BY <1>1, <1>2, <1>3, <2>1, ProducerAlone
  <2>. QED BY <2>2, <1>4, <1>5 DEF IInv, ProducersOK, ConsumersOK
<1>11. HoldersDiffer' /\ ValuesOK'
  BY <1>4, <1>5 DEF IInv, HoldersDiffer, ValuesOK, PushHolds
<1>. QED BY <1>6, <1>7, <1>8, <1>9, <1>10, <1>11 DEF IInv

LEMMA SwapDataStep ==
  ASSUME IInv, NEW t \in Threads, SwapData(t)
  PROVE  IInv'
<1> DEFINE p == position[t]
<1> USE DEF SwapData, GoTo, history
<1>1. PopHolds(t) /\ op[t] = "pop" /\ p \in Nat
  BY DEF IInv, TypeOK, PopHolds, OperationOK
<1>2. /\ Slot(p) \in Slots
      /\ \A s \in Slots : s # Slot(p) => data'[s] = data[s]
      /\ value'[t] = claimed[p + 1]
      /\ data[Slot(p)] \in Values \cup {Nil}
  BY <1>1, ConsumerAlone DEF IInv, TypeOK, ConsumersOK
<1>3. \A q \in Nat : Slot(q) \in Slots
  BY SlotType
<1>4. /\ \A u \in Threads \ {t} : pc'[u] = pc[u] /\ value'[u] = value[u]
      /\ pc'[t] = "release"
  BY DEF IInv, TypeOK
<1>5. /\ \A u \in Threads : PushHolds(u)' => PushHolds(u) /\ u # t
      /\ \A u \in Threads : PopHolds(u)' => PopHolds(u)
      /\ \A u \in Threads : op[u] = "push" => (PushHolds(u)' <=> PushHolds(u)) /\ u # t
  BY <1>1, <1>4 DEF PushHolds, PopHolds
<1>6. TypeOK'
  BY <1>2 DEF IInv, TypeOK, Labels
<1>7. OperationOK' /\ PositionsOK' /\ FreeOK'
  BY <1>1, <1>4 DEF IInv, OperationOK, PositionsOK, FreeOK
<1>8. QueuedOK'
  <2>1. \A q \in dequeuePos..(enqueuePos - 1) : q \in Nat
    BY DEF IInv, TypeOK
  <2>. QED BY <1>1, <1>2, <1>3, <2>1, ConsumerAlone DEF IInv, QueuedOK
<1>9. ApproachOK'
  BY <1>4 DEF IInv, ApproachOK
<1>10. ProducersOK' /\ ConsumersOK'
  <2>1. \A u \in Threads : position[u] \in Nat
    BY DEF IInv, TypeOK
  <2>2. \A u \in Threads \ {t} : PushHolds(u) \/ PopHolds(u) =>
          data'[Slot(position[u])] = data[Slot(position[u])]
    BY <1>1, <1>2, <1>3, <2>1, ConsumerAlone
  <2>. QED BY <2>2, <1>1, <1>2, <1>4, <1>5 DEF IInv, ProducersOK, ConsumersOK
<1>11. HoldersDiffer' /\ ValuesOK'
  BY <1>4, <1>5 DEF IInv, HoldersDiffer, ValuesOK
<1>. QED BY <1>6, <1>7, <1>8, <1>9, <1>10, <1>11 DEF IInv

LEMMA ReleaseStep ==
  ASSUME IInv, NEW t \in Threads, Release(t)
  PROVE  IInv'
<1> DEFINE p == position[t]
<1> USE DEF Release, Done, GoTo
<1>1. PopHolds(t) /\ op[t] = "pop" /\ p \in Nat
  BY DEF IInv, TypeOK, PopHolds, OperationOK
<1>2. /\ Slot(p) \in Slots
      /\ \A s \in Slots : s # Slot(p) => sequence'[s] = sequence[s]
      /\ sequence'[Slot(p)] = p + Capacity /\ sequence[Slot(p)] = p + 1
      /\ value[t] = claimed[p + 1] /\ p < dequeuePos
  BY <1>1, ConsumerAlone DEF IInv, TypeOK, ConsumersOK
<1>3. \A q \in Nat : Slot(q) \in Slots
  BY SlotType
<1>4. /\ \A u \in Threads \ {t} : /\ pc'[u] = pc[u] /\ position'[u] = position[u]
                                   /\ value'[u] = value[u] /\ op'[u] = op[u]
      /\ pc'[t] = "idle" /\ op'[t] = "none"
  BY DEF IInv, TypeOK
<1>5. /\ \A u \in Threads : PushHolds(u)' => PushHolds(u) /\ u # t
      /\ \A u \in Threads : PopHolds(u)' => PopHolds(u) /\ u # t
  BY <1>4 DEF PushHolds, PopHolds
<1>6. TypeOK'
  <2>1. sequence' \in [Slots -> Nat]
    <3>1. p + Capacity \in Nat
      BY <1>1, RingAssumption
    <3>. QED BY <3>1 DEF IInv, TypeOK
  <2>2. /\ pc' \in [Threads -> Labels]
        /\ op' \in [Threads -> {"none", "push", "pop"}]
        /\ position' \in [Threads -> Nat]
        /\ limit' \in [Threads -> Nat]
        /\ value' \in [Threads -> Values \cup {Nil}]
        /\ returned' \in SUBSET (Values \cup {Nil})
    BY DEF IInv, TypeOK, Labels
  <2>. QED BY <2>1, <2>2 DEF IInv, TypeOK
<1>7. OperationOK' /\ PositionsOK'
  BY <1>4 DEF IInv, OperationOK, PositionsOK
<1>8. dequeuePos \in Nat /\ enqueuePos \in Nat
  BY DEF IInv, TypeOK
<1>9. QueuedOK'
  BY <1>1, <1>2, <1>3, <1>8, ConsumerAlone DEF IInv, QueuedOK
<1>10. FreeOK'
  <2>1. SUFFICES ASSUME NEW q \in enqueuePos..(dequeuePos + Capacity - 1)
                 PROVE  sequence'[Slot(q)] \in {q, q - Capacity + 1}
    BY DEF FreeOK
  <2>2. q \in Nat /\ (Slot(q) = Slot(p) => q = p + Capacity)
    BY <1>1, <1>8, ConsumerAlone, RingAssumption
  <2>. QED BY <2>2, <1>2, <1>3 DEF IInv, FreeOK
<1>11. ApproachOK'
  <2>1. ASSUME NEW u \in Threads \ {t}, pc[u] = "cas", op[u] = "push",
               position[u] = enqueuePos
        PROVE  Slot(position[u]) # Slot(p)
    <3>1. sequence[Slot(position[u])] = enqueuePos /\ dequeuePos <= enqueuePos
      BY <2>1 DEF IInv, ApproachOK, PositionsOK
    <3>2. Slot(position[u]) = Slot(p) => enqueuePos = p + 1
      BY <3>1, <1>2
    <3>3. enqueuePos = p + 1 => dequeuePos = enqueuePos
      BY <3>1, <1>1, <1>2, <1>8
    <3>4. Slot(position[u]) = Slot(p) => enqueuePos = p + Capacity
      BY <3>1, <3>2, <3>3, <2>1, <1>1, <1>8, ConsumerAlone, RingAssumption
    <3>. QED BY <3>2, <3>4, <1>1, RingAssumption
  <2>2. ASSUME NEW u \in Threads \ {t}, pc[u] = "cas", op[u] = "pop",
               position[u] = dequeuePos
        PROVE  Slot(position[u]) # Slot(p)
    BY <2>2, <1>1, <1>2, <1>8 DEF IInv, ApproachOK
  <2>3. \A u \in Threads : position[u] \in Nat
    BY DEF IInv, TypeOK
  <2>4. ApproachOK /\ UNCHANGED <<enqueuePos, dequeuePos>>
    BY DEF IInv
  <2> HIDE DEF Release, Done, GoTo
  <2>. QED BY <2>1, <2>2, <2>3, <2>4, <1>2, <1>3, <1>4 DEF ApproachOK
<1>12. ProducersOK' /\ ConsumersOK'
  <2>1. \A u \in Threads : position[u] \in Nat
    BY DEF IInv, TypeOK
  <2>2. \A u \in Threads \ {t} : PushHolds(u) \/ PopHolds(u) =>
          sequence'[Slot(position[u])] = sequence[Slot(position[u])]
    BY <1>1, <1>2, <1>3, <2>1, ConsumerAlone
  <2>. QED BY <2>2, <1>4, <1>5 DEF IInv, ProducersOK, ConsumersOK
<1>13. HoldersDiffer'
  BY <1>4, <1>5 DEF IInv, HoldersDiffer
<1>14. ValuesOK'
  <2>1. p + 1 \in 1..dequeuePos
    BY <1>1, <1>2, <1>8
  <2>2. \A v \in returned' : \E i \in 1..dequeuePos : claimed[i] = v
    BY <2>1, <1>2 DEF IInv, ValuesOK
  <2>. QED BY <2>2, <1>4, <1>5 DEF IInv, ValuesOK, PushHolds
<1>. QED BY <1>6, <1>7, <1>9, <1>10, <1>11, <1>12, <1>13, <1>14 DEF IInv

LEMMA CloseStep ==
  ASSUME IInv, Close
  PROVE  IInv'
BY DEF Close, local, history, IInv, TypeOK, OperationOK, PositionsOK, QueuedOK,
       FreeOK, ApproachOK, ProducersOK, ConsumersOK, HoldersDiffer, ValuesOK,
       PushHolds, PopHolds

LEMMA StutterStep ==
  ASSUME IInv, UNCHANGED vars
  PROVE  IInv'
BY DEF vars, shared, local, history, IInv, TypeOK, OperationOK, PositionsOK,
       QueuedOK, FreeOK, ApproachOK, ProducersOK, ConsumersOK, HoldersDiffer,
       ValuesOK, PushHolds, PopHolds

\* The cell discipline holds in every reachable state of every instance.
THEOREM Invariance == Spec => []IInv
<1>1. IInv /\ [Next]_vars => IInv'
  <2> SUFFICES ASSUME IInv, [Next]_vars PROVE IInv'
    OBVIOUS
  <2>1. ASSUME NEW t \in Threads, PushCall(t) \/ PopCall(t) PROVE IInv'
    BY <2>1, PushCallStep, PopCallStep
  <2>2. ASSUME NEW t \in Threads, PushPop(t) PROVE IInv'
    BY <2>2, LoadPositionStep, RefuseStep, RestartStep, TryClaimStep,
       ClaimPushStep, ClaimPopStep, StoreDataStep, PublishStep, SwapDataStep,
       ReleaseStep DEF PushPop
  <2>3. ASSUME NEW t \in Threads, Observe(t) PROVE IInv'
    BY <2>3, ObserveStep
  <2>4. CASE Close
    BY <2>4, CloseStep
  <2>5. CASE UNCHANGED vars
    BY <2>5, StutterStep
  <2>. QED BY <2>1, <2>2, <2>3, <2>4, <2>5 DEF Next
<1>. QED BY InitIInv, <1>1, PTL DEF Spec

-----------------------------------------------------------------------------
(* The ring implements the bounded FIFO queue *)

\* Queue and Hand as functions of the positions, without SubSeq.
LEMMA QueueIs ==
  ASSUME IInv
  PROVE  /\ Queue \in Seq(Values)
         /\ Len(Queue) = enqueuePos - dequeuePos
         /\ \A i \in 1..(enqueuePos - dequeuePos) : Queue[i] = claimed[dequeuePos + i]
<1>1. /\ claimed \in Seq(Values) /\ Len(claimed) = enqueuePos
      /\ dequeuePos \in Nat /\ enqueuePos \in Nat /\ dequeuePos <= enqueuePos
  BY DEF IInv, TypeOK, PositionsOK
<1>. QED BY <1>1 DEF Queue

\* A step that leaves the positions and the claims alone leaves the queue alone.
LEMMA QuietRefines ==
  ASSUME UNCHANGED <<claimed, enqueuePos, dequeuePos, returned>>,
         \A t \in Threads : Hand(t)' = Hand(t)
  PROVE  UNCHANGED Fifo!vars
BY DEF Fifo!vars, Queue

LEMMA InitRefines == Init => Fifo!Init
<1> SUFFICES ASSUME Init PROVE Fifo!Init
  OBVIOUS
<1>1. Queue = <<>>
  BY DEF Init, Queue
<1>2. [t \in Threads |-> Hand(t)] = [t \in Threads |-> Nil]
  BY DEF Init, Hand
<1>. QED BY <1>1, <1>2 DEF Init, Fifo!Init

LEMMA ClaimPushRefines ==
  ASSUME IInv, IInv', NEW t \in Threads, ClaimPush(t)
  PROVE  Fifo!Put(value[t])
<1> DEFINE v == value[t]
<1>1. /\ op[t] = "push" /\ enqueuePos' = enqueuePos + 1
      /\ claimed' = Append(claimed, v) /\ claimed \in Seq(Values)
      /\ Len(claimed) = enqueuePos
      /\ UNCHANGED <<dequeuePos, returned>>
      /\ dequeuePos \in Nat /\ enqueuePos \in Nat /\ dequeuePos <= enqueuePos
      /\ Capacity \in Nat
  BY RingAssumption DEF ClaimPush, IInv, TypeOK, PositionsOK
<1>2. /\ v \in Values
      /\ \A i \in 1..enqueuePos : claimed[i] # v
  <2>1. v \in 1..pushed /\ pushed \in 0..MaxPushes
    BY <1>1 DEF IInv, TypeOK, ValuesOK
  <2>2. ~PushHolds(t)
    BY DEF ClaimPush, PushHolds
  <2>. QED BY <2>1, <2>2, <1>1, RingAssumption DEF IInv, ValuesOK, Values
<1>3. enqueuePos + 1 <= dequeuePos + Capacity
  BY <1>1 DEF IInv, PositionsOK
<1>4. Len(Queue) < Capacity
  BY <1>1, <1>3, QueueIs
<1>5. v \notin returned
  BY <1>1, <1>2 DEF IInv, ValuesOK
<1>6. \A i \in DOMAIN Queue : Queue[i] # v
  <2>1. DOMAIN Queue = 1..(enqueuePos - dequeuePos)
    BY QueueIs
  <2>2. \A i \in 1..(enqueuePos - dequeuePos) : dequeuePos + i \in 1..enqueuePos
    BY <1>1
  <2>. QED BY <2>1, <2>2, <1>2, QueueIs
<1>7. \A u \in Threads : Hand(u) # v
  <2>1. ASSUME NEW u \in Threads, PopHolds(u) PROVE Hand(u) = claimed[position[u] + 1]
    BY <2>1 DEF IInv, ConsumersOK, Hand, PopHolds
  <2>2. ASSUME NEW u \in Threads, PopHolds(u) PROVE position[u] + 1 \in 1..enqueuePos
    BY <2>2, <1>1 DEF IInv, TypeOK, ConsumersOK
  <2>3. ASSUME NEW u \in Threads, ~PopHolds(u) PROVE Hand(u) = Nil
    BY <2>3 DEF Hand, PopHolds
  <2>4. Nil # v
    BY <1>2 DEF Values, Nil
  <2>. QED BY <2>1, <2>2, <2>3, <2>4, <1>2
<1>8. Queue' = Append(Queue, v)
  BY <1>1, <1>2, SuffixGrows DEF Queue
<1>9. [u \in Threads |-> Hand(u)]' = [u \in Threads |-> Hand(u)]
  <2>1. \A u \in Threads : Hand(u)' = Hand(u)
    <3>1. \A u \in Threads : PopHolds(u) => position[u] + 1 \in 1..enqueuePos
      BY <1>1 DEF IInv, TypeOK, ConsumersOK
    <3>2. \A i \in 1..enqueuePos : claimed'[i] = claimed[i]
      BY <1>1, <1>2
    <3>. QED BY <3>1, <3>2, <1>1
         DEF ClaimPush, GoTo, Hand, PopHolds, IInv, TypeOK
  <2>. QED BY <2>1
<1>. QED BY <1>1, <1>4, <1>5, <1>6, <1>7, <1>8, <1>9 DEF Fifo!Put

LEMMA ClaimPopRefines ==
  ASSUME IInv, IInv', NEW t \in Threads, ClaimPop(t)
  PROVE  Fifo!Take(t)
<1>1. /\ position[t] = dequeuePos /\ dequeuePos' = dequeuePos + 1
      /\ pc[t] = "cas" /\ pc' = [pc EXCEPT ![t] = "swap"]
      /\ UNCHANGED <<enqueuePos, claimed, returned, position, value>>
      /\ claimed \in Seq(Values) /\ Len(claimed) = enqueuePos
      /\ dequeuePos \in Nat /\ enqueuePos \in Nat
      /\ dequeuePos' <= enqueuePos'
      /\ pc \in [Threads -> Labels]
  BY DEF ClaimPop, GoTo, history, IInv, TypeOK, PositionsOK
<1>2. dequeuePos < enqueuePos
  BY <1>1
<1>3. /\ Queue # <<>> /\ Head(Queue) = claimed[dequeuePos + 1]
      /\ Queue' = Tail(Queue)
  <2>1. dequeuePos' + 1 = dequeuePos + 2
    BY <1>1
  <2>2. Queue' = SubSeq(claimed, dequeuePos + 2, enqueuePos)
    BY <1>1, <2>1 DEF Queue
  <2>3. /\ claimed \in Seq(Values) /\ enqueuePos \in Nat /\ enqueuePos = Len(claimed)
        /\ dequeuePos \in Nat /\ dequeuePos < enqueuePos
    BY <1>1, <1>2
  <2>4. /\ SubSeq(claimed, dequeuePos + 1, enqueuePos) # <<>>
        /\ Head(SubSeq(claimed, dequeuePos + 1, enqueuePos)) = claimed[dequeuePos + 1]
        /\ SubSeq(claimed, dequeuePos + 2, enqueuePos)
             = Tail(SubSeq(claimed, dequeuePos + 1, enqueuePos))
    BY <2>3, SuffixShrinks
  <2>. QED BY <2>2, <2>4 DEF Queue
<1>4. Hand(t) = Nil
  BY <1>1 DEF Hand
<1>5. [u \in Threads |-> Hand(u)]'
        = [[u \in Threads |-> Hand(u)] EXCEPT ![t] = Head(Queue)]
  <2>1. \A u \in Threads \ {t} : Hand(u)' = Hand(u)
    BY <1>1 DEF Hand
  <2>2. Hand(t)' = Head(Queue)
    BY <1>1, <1>3 DEF Hand
  <2>. QED BY <2>1, <2>2
<1>. QED BY <1>1, <1>3, <1>4, <1>5 DEF Fifo!Take

LEMMA ReleaseRefines ==
  ASSUME IInv, NEW t \in Threads, Release(t)
  PROVE  Fifo!Return(t)
<1>1. /\ pc[t] = "release" /\ pc' = [pc EXCEPT ![t] = "idle"]
      /\ position' = [position EXCEPT ![t] = 0]
      /\ value' = [value EXCEPT ![t] = Nil]
      /\ UNCHANGED <<enqueuePos, dequeuePos, claimed>>
      /\ returned' = returned \cup {value[t]}
      /\ pc \in [Threads -> Labels] /\ value \in [Threads -> Values \cup {Nil}]
      /\ position \in [Threads -> Nat]
  BY DEF Release, Done, GoTo, IInv, TypeOK
<1>2. Hand(t) = value[t] /\ Hand(t) # Nil
  <2>1. /\ value[t] = claimed[position[t] + 1] /\ position[t] \in Nat
        /\ position[t] < enqueuePos /\ Len(claimed) = enqueuePos
        /\ claimed \in Seq(Values) /\ enqueuePos \in Nat
    BY <1>1 DEF IInv, TypeOK, ConsumersOK, PopHolds, PositionsOK
  <2>2. claimed[position[t] + 1] \in Values
    BY <2>1
  <2>. QED BY <2>1, <2>2, <1>1 DEF Hand, Values, Nil
<1>3. [u \in Threads |-> Hand(u)]'
        = [[u \in Threads |-> Hand(u)] EXCEPT ![t] = Nil]
  <2>1. \A u \in Threads \ {t} : Hand(u)' = Hand(u)
    BY <1>1 DEF Hand
  <2>2. Hand(t)' = Nil
    BY <1>1 DEF Hand
  <2>. QED BY <2>1, <2>2
<1>4. Queue' = Queue
  BY <1>1 DEF Queue
<1>. QED BY <1>1, <1>2, <1>3, <1>4 DEF Fifo!Return

\* Every other step of pushpop leaves the queue as it is.
LEMMA PushPopRefines ==
  ASSUME IInv, IInv', NEW t \in Threads, PushPop(t)
  PROVE  [Fifo!Next]_(Fifo!vars)
<1> DEFINE Same == UNCHANGED <<claimed, enqueuePos, dequeuePos, returned>>
<1>1. CASE ClaimPush(t)
  <2>1. value[t] \in Values
    BY <1>1, RingAssumption DEF IInv, TypeOK, ValuesOK, ClaimPush, Values
  <2>. QED BY <1>1, <2>1, ClaimPushRefines DEF Fifo!Next
<1>2. CASE ClaimPop(t)
  BY <1>2, ClaimPopRefines DEF Fifo!Next
<1>3. CASE Release(t)
  BY <1>3, ReleaseRefines DEF Fifo!Next
<1>4. CASE SwapData(t)
  <2>1. /\ Same /\ pc[t] = "swap" /\ pc' = [pc EXCEPT ![t] = "release"]
        /\ value' = [value EXCEPT ![t] = data[Slot(position[t])]]
        /\ UNCHANGED position
    BY <1>4 DEF SwapData, GoTo, history
  <2>2. data[Slot(position[t])] = claimed[position[t] + 1]
    BY <2>1 DEF IInv, ConsumersOK, PopHolds
  <2>3. \A u \in Threads : Hand(u)' = Hand(u)
    BY <2>1, <2>2 DEF Hand, IInv, TypeOK
  <2>. QED BY <2>1, <2>3, QuietRefines
<1>5. CASE LoadPosition(t) \/ Refuse(t) \/ Reload(t) \/ TryClaim(t)
             \/ LoseClaim(t) \/ StoreData(t) \/ Publish(t)
  <2>1. /\ Same
        /\ pc[t] \notin {"swap", "release"} /\ pc'[t] \notin {"swap", "release"}
        /\ \A u \in Threads \ {t} : /\ pc'[u] = pc[u] /\ value'[u] = value[u]
                                     /\ position'[u] = position[u]
    <3> USE DEF GoTo, Done, shared, history, IInv, TypeOK
    <3>1. CASE LoadPosition(t)
      BY <3>1 DEF LoadPosition
    <3>2. CASE Refuse(t)
      BY <3>2 DEF Refuse
    <3>3. CASE Reload(t) \/ TryClaim(t) \/ LoseClaim(t)
      BY <3>3 DEF Reload, TryClaim, LoseClaim
    <3>4. CASE StoreData(t)
      BY <3>4 DEF StoreData
    <3>5. CASE Publish(t)
      BY <3>5 DEF Publish
    <3>. QED BY <3>1, <3>2, <3>3, <3>4, <3>5, <1>5
  <2>2. \A u \in Threads : Hand(u)' = Hand(u)
    BY <2>1 DEF Hand
  <2>. QED BY <2>1, <2>2, QuietRefines
<1>. QED BY <1>1, <1>2, <1>3, <1>4, <1>5 DEF PushPop

\* Calls, Len, Snapshot and Close leave the queue as it is.
LEMMA OtherRefines ==
  ASSUME IInv, NEW t \in Threads, PushCall(t) \/ PopCall(t) \/ Observe(t)
  PROVE  UNCHANGED Fifo!vars
<1>1. /\ UNCHANGED <<claimed, enqueuePos, dequeuePos, returned>>
      /\ pc[t] \notin {"swap", "release"} /\ pc'[t] \notin {"swap", "release"}
      /\ \A u \in Threads \ {t} : /\ pc'[u] = pc[u] /\ value'[u] = value[u]
                                   /\ position'[u] = position[u]
  <2> USE DEF GoTo, Done, shared, history, IInv, TypeOK
  <2>1. CASE PushCall(t)
    BY <2>1 DEF PushCall
  <2>2. CASE PopCall(t)
    BY <2>2 DEF PopCall
  <2>3. CASE LenCall(t) \/ SnapshotCall(t)
    BY <2>3 DEF LenCall, SnapshotCall
  <2>4. CASE LenReturn(t) \/ SnapshotReturn(t)
    BY <2>4 DEF LenReturn, SnapshotReturn
  <2>5. CASE SnapshotEnd(t) \/ SnapshotRead(t)
    BY <2>5 DEF SnapshotEnd, SnapshotRead
  <2>. QED BY <2>1, <2>2, <2>3, <2>4, <2>5 DEF Observe
<1>2. \A u \in Threads : Hand(u)' = Hand(u)
  BY <1>1 DEF Hand
<1>. QED BY <1>1, <1>2, QuietRefines

\* MPMCRing is linearizable to the bounded FIFO queue: no interleaving of its
\* atomic steps loses, duplicates or reorders a value or overfills the ring.
THEOREM Refinement == Spec => ImplementsFifo
<1>1. IInv /\ IInv' /\ [Next]_vars => [Fifo!Next]_(Fifo!vars)
  <2> SUFFICES ASSUME IInv, IInv', [Next]_vars
               PROVE  [Fifo!Next]_(Fifo!vars)
    OBVIOUS
  <2>1. ASSUME NEW t \in Threads, PushCall(t) \/ PopCall(t) \/ Observe(t)
        PROVE  UNCHANGED Fifo!vars
    BY <2>1, OtherRefines
  <2>2. ASSUME NEW t \in Threads, PushPop(t)
        PROVE  [Fifo!Next]_(Fifo!vars)
    BY <2>2, PushPopRefines
  <2>3. CASE Close \/ UNCHANGED vars
    BY <2>3, QuietRefines DEF Close, vars, shared, local, history, Hand
  <2>. QED BY <2>1, <2>2, <2>3 DEF Next
<1>. QED BY InitRefines, Invariance, <1>1, PTL DEF Spec, ImplementsFifo, Fifo!Spec
=============================================================================
