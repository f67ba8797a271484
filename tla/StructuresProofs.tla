-------------------------- MODULE StructuresProofs --------------------------
(***************************************************************************)
(* A ring of either overflow policy, for every capacity: the slot          *)
(* discipline IInv is invariant, the two goroutines never race on a slot,  *)
(* and the ring implements the bounded FIFO queue and loses no value.      *)
(* However the calls overlap, it hands no value out twice.                 *)
(* Then UltraRing, the ring of the same two goroutines without a flag for  *)
(* each slot: the sequences alone keep the publisher off what is read;     *)
(* offline rings, which share an array only within a family; the clock,    *)
(* read while it is written; and list rings, whose lists stay whole        *)
(* however they are merged and sliced.                                     *)
(***************************************************************************)
EXTENDS Structures, CommonLemmas, FiniteSetTheorems

LEMMA SlotType ==
  ASSUME NEW p \in Nat
  PROVE  Slot(p) \in Slots
BY SPSCAssumption DEF Slot, Slots

LEMMA SlotApart ==
  ASSUME NEW p \in Nat, NEW q \in Nat, Slot(p) = Slot(q), p < q
  PROVE  q >= p + Capacity
<1>1. p % Capacity = q % Capacity /\ Capacity \in Nat /\ Capacity >= 1
  BY SPSCAssumption DEF Slot
<1>. QED BY <1>1, ModApart, Zenon

LEMMA SlotLap ==
  ASSUME NEW p \in Nat
  PROVE  Slot(p + Capacity) = Slot(p)
<1>1. Capacity \in Nat /\ Capacity >= 1
  BY SPSCAssumption
<1>. QED BY <1>1, ModLap, Zenon DEF Slot

\* Within one lap from tail every position has a slot of its own.
LEMMA Window ==
  ASSUME SlotsOK, NEW p \in tail..(tail + Capacity - 1),
         NEW q \in tail..(tail + Capacity - 1), Slot(p) = Slot(q)
  PROVE  p = q
<1>1. p \in Nat /\ q \in Nat /\ tail \in Nat /\ Capacity \in Nat
  BY SPSCAssumption DEF SlotsOK, TypeOK
<1>2. ~(p < q)
  BY <1>1, SlotApart
<1>3. ~(q < p)
  BY <1>1, SlotApart
<1>. QED BY <1>1, <1>2, <1>3

LEMMA InitSlotsOK == Init => SlotsOK
<1> SUFFICES ASSUME Init PROVE SlotsOK
  OBVIOUS
<1> USE SPSCAssumption DEF Init
<1>1. TypeOK
  <2>1. accepted \in Seq(Values) /\ pushed \in 0..MaxPushes
    OBVIOUS
  <2>2. values \in [Slots -> Values \cup {Zero}] /\ ready \in [Slots -> BOOLEAN]
    OBVIOUS
  <2>. QED BY <2>1, <2>2 DEF TypeOK
<1>2. CursorsOK /\ QueuedOK /\ TurnsOK /\ ProducerOK /\ ConsumerOK /\ ValuesOK
  BY DEF CursorsOK, QueuedOK, TurnsOK, ProducerOK, ConsumerOK, ValuesOK, Evicting
<1>3. BlankOK
  BY SlotType DEF BlankOK, Blank
<1>. QED BY <1>1, <1>2, <1>3 DEF SlotsOK

\* What every step preserves without looking at the ring: the steps that touch
\* neither a cursor nor a slot nor the history.
LEMMA QuietPush ==
  ASSUME SlotsOK, Disciplined, UNCHANGED policy,
        
         PushCall \/ PushReject \/ PushRoom
  PROVE  SlotsOK'
<1> USE SPSCAssumption DEF SlotsOK, PushCall, PushReject, PushRoom, policy,
        ring, consumer, history
<1>1. TypeOK'
  <2>1. CASE PushCall
    <3>1. pushed' \in 0..MaxPushes /\ pushValue' \in Values \cup {Zero}
      BY <2>1 DEF TypeOK, Values
    <3>. QED BY <2>1, <3>1 DEF TypeOK
  <2>2. CASE PushReject
    BY <2>2 DEF TypeOK
  <2>3. CASE PushRoom
    BY <2>3 DEF TypeOK
  <2>. QED BY <2>1, <2>2, <2>3
<1>2. CursorsOK' /\ QueuedOK' /\ ConsumerOK' /\ TurnsOK'
  BY DEF CursorsOK, QueuedOK, ConsumerOK, TurnsOK, Emptying, Filled, Blank
<1>3. BlankOK'
  BY DEF BlankOK, Blank
<1>4. ProducerOK'
  BY DEF TypeOK, ProducerOK, Evicting
<1>5. ValuesOK'
  <2>1. CASE PushCall
    <3>1. \A i \in 1..Len(accepted) : accepted[i] \in Nat
      <4>1. accepted \in Seq(Values)
        BY DEF TypeOK
      <4>2. \A i \in 1..Len(accepted) : accepted[i] \in Values
        BY <4>1
      <4>. QED BY <4>2 DEF Values
    <3>. QED BY <2>1, <3>1 DEF TypeOK, ValuesOK
  <2>2. CASE PushReject \/ PushRoom
    BY <2>2 DEF TypeOK, ValuesOK
  <2>. QED BY <2>1, <2>2
<1>. QED BY <1>1, <1>2, <1>3, <1>4, <1>5

\* Push fills the slot at head, which is not one that Pop is at.
LEMMA FillPush ==
  ASSUME SlotsOK, Disciplined, UNCHANGED policy,
         PushWrite \/ PushReady
  PROVE  SlotsOK'
<1> USE SPSCAssumption DEF PushWrite, PushReady, policy, consumer, history
<1>1. /\ tail \in Nat /\ head \in Nat /\ tail <= head /\ head < tail + Capacity
      /\ Slot(head) \in Slots /\ Len(accepted) = head
      /\ UNCHANGED <<head, tail>>
  BY SlotType DEF SlotsOK, TypeOK, CursorsOK, ProducerOK
<1>2. \A p \in tail..(tail + Capacity - 1) : p # head => Slot(p) # Slot(head)
  BY <1>1, Window
<1>3. \A p \in tail..(tail + Capacity - 1) : Slot(p) \in Slots
  BY <1>1, SlotType
<1>4. \A s \in Slots : s # Slot(head) => values'[s] = values[s] /\ ready'[s] = ready[s]
  BY DEF SlotsOK, TypeOK
<1>5. TypeOK'
  BY <1>1 DEF SlotsOK, TypeOK
<1>6. \A p \in tail..(tail + Capacity - 1) : p # head =>
        (Filled(p)' <=> Filled(p)) /\ (Blank(p)' <=> Blank(p))
  BY <1>2, <1>3, <1>4 DEF Filled, Blank
<1>7. QueuedOK'
  BY <1>1, <1>6 DEF SlotsOK, QueuedOK, Emptying
<1>8. BlankOK'
  BY <1>1, <1>6 DEF SlotsOK, BlankOK
<1>9. ProducerOK'
  BY <1>1 DEF SlotsOK, TypeOK, ProducerOK, BlankOK, Blank, Evicting
<1>10. ConsumerOK'
  <2>1. tail < head => /\ tail \in tail..(tail + Capacity - 1) /\ tail # head
    BY <1>1
  <2>2. tail < head => /\ (Filled(tail)' <=> Filled(tail))
                       /\ (Blank(tail)' <=> Blank(tail))
                       /\ values'[Slot(tail)] = values[Slot(tail)]
                       /\ ready'[Slot(tail)] = ready[Slot(tail)]
    BY <2>1, <1>2, <1>3, <1>4, <1>6
  <2>3. popPc \in {"ready", "read", "clear", "unready", "advance"} => tail < head
    BY DEF SlotsOK, ConsumerOK
  <2>4. UNCHANGED <<popPc, popTail, popValue, accepted>>
    OBVIOUS
  <2> HIDE DEF PushWrite, PushReady
  <2>. QED BY <2>2, <2>3, <2>4, <1>1 DEF SlotsOK, ConsumerOK, Filled, Blank
<1>11. CursorsOK' /\ ValuesOK' /\ TurnsOK'
  BY DEF SlotsOK, CursorsOK, ValuesOK, TurnsOK
<1>. QED BY <1>5, <1>7, <1>8, <1>9, <1>10, <1>11 DEF SlotsOK

LEMMA PublishPush ==
  ASSUME SlotsOK, Disciplined, UNCHANGED policy,
         PushPublish
  PROVE  SlotsOK'
<1> USE SPSCAssumption DEF PushPublish, policy, consumer
<1>1. /\ tail \in Nat /\ head \in Nat /\ tail <= head /\ head < tail + Capacity
      /\ Len(accepted) = head /\ accepted \in Seq(Values)
      /\ head' = head + 1 /\ pushValue \in Values
  BY DEF SlotsOK, TypeOK, CursorsOK, ProducerOK, ValuesOK, Values
<1>2. /\ Len(accepted') = head + 1 /\ accepted'[head + 1] = pushValue
      /\ \A i \in 1..head : accepted'[i] = accepted[i]
      /\ accepted' \in Seq(Values)
  BY <1>1
<1>3. /\ ready[Slot(head)] /\ values[Slot(head)] = accepted'[head + 1]
      /\ UNCHANGED <<ready, values, tail>>
  BY <1>2 DEF SlotsOK, ProducerOK
<1>4. \A p \in tail..(head - 1) : Filled(p) => Filled(p)'
  BY <1>1, <1>2, <1>3 DEF Filled
<1>5. TypeOK'
  BY <1>1, <1>2 DEF SlotsOK, TypeOK
<1>6. CursorsOK' /\ TurnsOK'
  BY <1>1, <1>2 DEF CursorsOK, TurnsOK
<1>7. QueuedOK'
  <2>1. \A p \in tail..(head - 1) : Filled(p) \/ (p = tail /\ Emptying)
    BY DEF SlotsOK, QueuedOK
  <2>2. (\A p \in {head} : Filled(p)') /\ (Emptying => Emptying')
    BY <1>1, <1>3 DEF Filled, Emptying
  <2>3. \A p \in tail..head : p = head \/ p \in tail..(head - 1)
    BY <1>1
  <2>4. tail' = tail /\ head' - 1 = head
    BY <1>1
  <2>5. \A p \in tail..head : Filled(p)' \/ (p = tail /\ Emptying')
    <3> HIDE DEF PushPublish
    <3> QED BY <1>4, <2>1, <2>2, <2>3
  <2> QED BY <2>4, <2>5 DEF QueuedOK
<1>8. BlankOK'
  BY <1>1, <1>3 DEF SlotsOK, BlankOK, Blank
<1>9. ProducerOK'
  BY DEF ProducerOK, Evicting
<1>10. ConsumerOK'
  <2>1. tail < head => /\ Filled(tail) => Filled(tail)'
                       /\ accepted'[tail + 1] = accepted[tail + 1]
    BY <1>1, <1>2, <1>3 DEF Filled
  <2>2. tail \in 1..head => accepted'[tail] = accepted[tail]
    BY <1>2
  <2>3. popPc \in {"ready", "read", "clear", "unready", "advance"} => tail < head
    BY DEF SlotsOK, ConsumerOK
  <2>4. UNCHANGED <<popPc, popTail, popValue, tail, ready, values>>
    OBVIOUS
  <2> HIDE DEF PushPublish
  <2>. QED BY <2>1, <2>2, <2>3, <2>4, <1>1 DEF SlotsOK, ConsumerOK, Blank, Filled
<1>11. ValuesOK'
  <2>1. /\ \A i \in 1..head : accepted[i] <= pushed /\ accepted[i] # pushValue
        /\ pushValue \in 1..pushed /\ pushed \in Nat
        /\ \A i, j \in 1..head : accepted[i] = accepted[j] => i = j
    BY <1>1 DEF SlotsOK, TypeOK, ValuesOK
  <2>2. \A i \in 1..(head + 1) : accepted'[i] <= pushed
    BY <1>1, <1>2, <2>1
  <2>3. \A i, j \in 1..(head + 1) : accepted'[i] = accepted'[j] => i = j
    BY <1>1, <1>2, <2>1
  <2>4. \A v \in returned : \E i \in 1..tail : accepted'[i] = v
    <3>1. \A v \in returned : \E i \in 1..tail : accepted[i] = v
      BY DEF SlotsOK, ValuesOK
    <3>2. 1..tail \subseteq 1..head
      BY <1>1
    <3>. QED BY <3>1, <3>2, <1>2
  <2>. QED BY <1>2, <2>2, <2>3, <2>4 DEF ValuesOK
<1>. QED BY <1>5, <1>6, <1>7, <1>8, <1>9, <1>10, <1>11 DEF SlotsOK

\* Push finds the ring full and makes the oldest slot its own: Pop is not at it,
\* for the calls of a ring that drops take turns.
LEMMA StartEviction ==
  ASSUME SlotsOK, Disciplined, UNCHANGED policy, PushEvict
  PROVE  SlotsOK'
<1> USE SPSCAssumption DEF PushEvict, policy, ring, consumer, history
<1>1. /\ ~overlap /\ popPc = "idle" /\ pushPc = "full" /\ pushTail' = tail
      /\ tail \in Nat /\ head \in Nat /\ head = tail + Capacity
  BY DEF Disciplined, SlotsOK, TypeOK, TurnsOK, CursorsOK
<1>2. Filled(tail)
  BY <1>1 DEF SlotsOK, QueuedOK, Emptying
<1>3. TypeOK'
  BY <1>1 DEF SlotsOK, TypeOK
<1>4. CursorsOK' /\ QueuedOK' /\ BlankOK' /\ TurnsOK'
  BY <1>1 DEF SlotsOK, CursorsOK, QueuedOK, Emptying, BlankOK, TurnsOK, Filled, Blank
<1>5. ProducerOK' /\ ConsumerOK'
  BY <1>1, <1>2 DEF SlotsOK, ProducerOK, ConsumerOK, Evicting, Filled
<1>6. ValuesOK'
  BY <1>1 DEF SlotsOK, ValuesOK
<1>. QED BY <1>3, <1>4, <1>5, <1>6 DEF SlotsOK

\* What an eviction may rely on.
LEMMA OldestSlot ==
  ASSUME SlotsOK, Evicting
  PROVE  /\ ~overlap /\ popPc = "idle" /\ pushTail = tail
         /\ tail \in Nat /\ head \in Nat /\ head = tail + Capacity
         /\ Slot(tail) \in Slots
         /\ \A p \in (tail + 1)..(tail + Capacity - 1) : Slot(p) # Slot(tail)
         /\ \A p \in tail..(tail + Capacity) : Slot(p) \in Slots
<1> USE SPSCAssumption
<1>1. /\ ~overlap /\ popPc = "idle" /\ pushTail = tail
      /\ tail \in Nat /\ head \in Nat /\ head = tail + Capacity
  BY DEF SlotsOK, TypeOK, TurnsOK, ProducerOK, Evicting
<1>2. \A p \in (tail + 1)..(tail + Capacity - 1) : Slot(p) # Slot(tail)
  BY <1>1, Window
<1>3. \A p \in tail..(tail + Capacity) : Slot(p) \in Slots
  BY <1>1, SlotType
<1>. QED BY <1>1, <1>2, <1>3

LEMMA EmptySlot ==
  ASSUME SlotsOK, Disciplined, UNCHANGED policy, EvictClear \/ EvictUnready
  PROVE  SlotsOK'
<1> USE SPSCAssumption DEF EvictClear, EvictUnready, policy, consumer, history
<1>1. /\ Evicting /\ pushPc' \in {"unready", "advance"}
      /\ UNCHANGED <<head, tail, pushTail, pushValue, popPc, accepted, pushed, returned>>
  BY DEF Evicting
<1>2. /\ ~overlap /\ popPc = "idle" /\ pushTail = tail
      /\ tail \in Nat /\ head \in Nat /\ head = tail + Capacity
      /\ Slot(tail) \in Slots
      /\ \A p \in (tail + 1)..(tail + Capacity - 1) : Slot(p) # Slot(tail)
      /\ \A p \in tail..(tail + Capacity) : Slot(p) \in Slots
  BY <1>1, OldestSlot
<1>3. \A s \in Slots : s # Slot(tail) => values'[s] = values[s] /\ ready'[s] = ready[s]
  BY <1>2 DEF SlotsOK, TypeOK
<1>4. TypeOK'
  BY <1>2 DEF SlotsOK, TypeOK
<1>5. \A p \in (tail + 1)..(tail + Capacity - 1) : Filled(p)' <=> Filled(p)
  BY <1>1, <1>2, <1>3 DEF Filled
<1>6. QueuedOK'
  BY <1>1, <1>2, <1>5 DEF SlotsOK, QueuedOK, Emptying
<1>7. BlankOK'
  BY <1>1, <1>2 DEF BlankOK
<1>8. ProducerOK'
  <2>1. CASE EvictClear
    BY <2>1, <1>2 DEF SlotsOK, TypeOK, ProducerOK, Evicting, Filled
  <2>2. CASE EvictUnready
    BY <2>2, <1>2 DEF SlotsOK, TypeOK, ProducerOK, Evicting, Blank
  <2>. QED BY <2>1, <2>2
<1>9. ConsumerOK' /\ TurnsOK'
  BY <1>1, <1>2 DEF ConsumerOK, TurnsOK
<1>10. CursorsOK' /\ ValuesOK'
  BY <1>1, <1>2 DEF SlotsOK, CursorsOK, ValuesOK
<1>. QED BY <1>4, <1>6, <1>7, <1>8, <1>9, <1>10 DEF SlotsOK

LEMMA AdvanceEviction ==
  ASSUME SlotsOK, Disciplined, UNCHANGED policy, EvictAdvance
  PROVE  SlotsOK'
<1> USE SPSCAssumption DEF EvictAdvance, policy, consumer
<1>1. /\ ~overlap /\ popPc = "idle" /\ pushTail = tail /\ tail' = tail + 1
      /\ tail \in Nat /\ head \in Nat /\ head = tail + Capacity
      /\ Blank(tail)
  BY OldestSlot DEF SlotsOK, ProducerOK, Evicting
<1>2. TypeOK'
  <2>1. evicted' \in SUBSET Nat /\ tail' \in Nat /\ dropped' \in Nat
    BY <1>1 DEF SlotsOK, TypeOK
  <2>. QED BY <2>1 DEF SlotsOK, TypeOK
<1>3. CursorsOK' /\ QueuedOK'
  BY <1>1 DEF SlotsOK, CursorsOK, QueuedOK, Filled
<1>4. BlankOK'
  <2>1. SUFFICES ASSUME NEW p \in head..(tail + Capacity)
                 PROVE  Blank(p)'
    BY <1>1 DEF BlankOK
  <2>2. p = tail + Capacity
    BY <1>1
  <2>3. Slot(p) = Slot(tail)
    BY <2>2, <1>1, SlotLap
  <2>. QED BY <2>3, <1>1 DEF Blank
<1>5. ProducerOK' /\ ConsumerOK' /\ TurnsOK'
  BY <1>1 DEF ProducerOK, ConsumerOK, TurnsOK, Evicting
<1>6. ValuesOK'
  <2>1. 1..tail \subseteq 1..(tail + 1)
    BY <1>1
  <2>. QED BY <2>1, <1>1 DEF SlotsOK, ValuesOK
<1>. QED BY <1>2, <1>3, <1>4, <1>5, <1>6 DEF SlotsOK

LEMMA QuietPop ==
  ASSUME SlotsOK, Disciplined, UNCHANGED policy,
         PopCall \/ PopEmpty \/ PopNotReady \/ PopSome \/ PopReady
  PROVE  SlotsOK'
<1> USE SPSCAssumption DEF PopCall, PopEmpty, PopNotReady, PopSome, PopReady,
        PopReturnsEmpty, policy, ring, producer, history
<1>1. TypeOK'
  <2>1. CASE PopCall \/ PopSome \/ PopReady
    <3>1. CASE PopCall
      BY <3>1 DEF SlotsOK, TypeOK
    <3>2. CASE PopSome
      BY <3>2 DEF SlotsOK, TypeOK
    <3>3. CASE PopReady
      BY <3>3 DEF SlotsOK, TypeOK
    <3>. QED BY <2>1, <3>1, <3>2, <3>3
  <2>2. CASE PopEmpty \/ PopNotReady
    <3>1. /\ popPc' = "idle" /\ popTail' = 0 /\ draining' = FALSE
          /\ UNCHANGED <<head, tail, values, ready, dropped, rejected, closed>>
          /\ UNCHANGED <<pushPc, pushTail, pushValue, popValue>>
          /\ UNCHANGED <<pushed, accepted, returned, evicted>>
      BY <2>2
    <3> HIDE DEF PopEmpty, PopNotReady, PopReturnsEmpty
    <3>. QED BY <3>1 DEF SlotsOK, TypeOK
  <2>. QED BY <2>1, <2>2
<1>2. CursorsOK' /\ BlankOK' /\ ValuesOK'
  BY DEF SlotsOK, CursorsOK, BlankOK, Blank, ValuesOK
<1>5. TurnsOK' /\ ProducerOK'
  BY DEF SlotsOK, TurnsOK, ProducerOK, Evicting, Filled, Blank
<1>3. QueuedOK'
  BY DEF SlotsOK, QueuedOK, Emptying, Filled
<1>4. ConsumerOK'
  BY DEF SlotsOK, TypeOK, ConsumerOK, Filled, Blank
<1>. QED BY <1>1, <1>2, <1>3, <1>4, <1>5 DEF SlotsOK

\* The slot at tail is Pop's own, and Filled when Pop reads it.
LEMMA TailSlot ==
  ASSUME SlotsOK, popPc \in {"read", "clear", "unready", "advance"}
  PROVE  /\ popTail = tail /\ tail < head /\ tail \in Nat /\ head \in Nat
         /\ Slot(tail) \in Slots /\ head <= tail + Capacity
         /\ \A p \in (tail + 1)..(tail + Capacity - 1) : Slot(p) # Slot(tail)
         /\ \A p \in tail..(tail + Capacity) : Slot(p) \in Slots
         /\ ~Evicting
         /\ popPc = "read" => Filled(tail)
         /\ pushPc \in {"write", "ready", "publish"} => Slot(head) # Slot(tail)
<1> USE SPSCAssumption
<1>1. /\ popTail = tail /\ tail < head /\ tail \in Nat /\ head \in Nat
      /\ head <= tail + Capacity
  BY DEF SlotsOK, TypeOK, ConsumerOK, CursorsOK
<1>2. \A p \in (tail + 1)..(tail + Capacity - 1) : Slot(p) # Slot(tail)
  BY <1>1, Window
<1>3. \A p \in tail..(tail + Capacity) : Slot(p) \in Slots
  BY <1>1, SlotType
<1>6. ~Evicting
  BY DEF SlotsOK, TurnsOK, ProducerOK, Evicting
<1>4. popPc = "read" => Filled(tail)
  BY <1>1, <1>6 DEF SlotsOK, QueuedOK, Emptying, Evicting
<1>5. pushPc \in {"write", "ready", "publish"} => Slot(head) # Slot(tail)
  BY <1>1, <1>2 DEF SlotsOK, ProducerOK
<1>. QED BY <1>1, <1>2, <1>3, <1>4, <1>5, <1>6

LEMMA EmptyPop ==
  ASSUME SlotsOK, Disciplined, UNCHANGED policy,
         PopRead \/ PopClear \/ PopUnready
  PROVE  SlotsOK'
<1> USE SPSCAssumption DEF PopRead, PopClear, PopUnready, policy, producer, ring, history
<1>1. /\ popPc \in {"read", "clear", "unready"}
      /\ popPc' \in {"clear", "unready", "advance"}
      /\ UNCHANGED <<head, tail, popTail, pushPc, pushValue, accepted, pushed, returned>>
  OBVIOUS
<1>2. /\ popTail = tail /\ tail < head /\ tail \in Nat /\ head \in Nat
      /\ Slot(tail) \in Slots /\ head <= tail + Capacity
      /\ \A p \in (tail + 1)..(tail + Capacity - 1) : Slot(p) # Slot(tail)
      /\ \A p \in tail..(tail + Capacity) : Slot(p) \in Slots
      /\ ~Evicting
      /\ popPc = "read" => Filled(tail)
      /\ pushPc \in {"write", "ready", "publish"} => Slot(head) # Slot(tail)
  BY <1>1, TailSlot
<1>3. \A s \in Slots : s # Slot(tail) => values'[s] = values[s] /\ ready'[s] = ready[s]
  BY <1>2 DEF SlotsOK, TypeOK
<1>4. TypeOK'
  BY <1>2 DEF SlotsOK, TypeOK
<1>5. \A p \in (tail + 1)..(tail + Capacity - 1) :
        (Filled(p)' <=> Filled(p)) /\ (Blank(p)' <=> Blank(p))
  BY <1>1, <1>2, <1>3 DEF Filled, Blank
<1>6. QueuedOK'
  BY <1>1, <1>2, <1>5 DEF SlotsOK, QueuedOK, Emptying, Evicting
<1>7. BlankOK'
  BY <1>1, <1>2, <1>5 DEF SlotsOK, BlankOK
<1>8. ProducerOK'
  <2>1. pushPc \in {"write", "ready", "publish"} => Slot(head) \in Slots
    BY <1>2
  <2>. QED BY <1>1, <1>2, <1>3, <2>1 DEF SlotsOK, ProducerOK, Evicting
<1>9. ConsumerOK'
  <2>1. CASE PopRead
    BY <2>1, <1>2 DEF SlotsOK, TypeOK, ConsumerOK, Filled
  <2>2. CASE PopClear
    BY <2>2, <1>2 DEF SlotsOK, TypeOK, ConsumerOK, Filled
  <2>3. CASE PopUnready
    BY <2>3, <1>2 DEF SlotsOK, TypeOK, ConsumerOK, Blank
  <2>. QED BY <2>1, <2>2, <2>3
<1>10. CursorsOK' /\ ValuesOK' /\ TurnsOK'
  BY <1>1 DEF SlotsOK, CursorsOK, ValuesOK, TurnsOK
<1>. QED BY <1>4, <1>6, <1>7, <1>8, <1>9, <1>10 DEF SlotsOK

LEMMA AdvancePop ==
  ASSUME SlotsOK, Disciplined, UNCHANGED policy,
         PopAdvance
  PROVE  SlotsOK'
<1> USE SPSCAssumption DEF PopAdvance, policy, producer, history
<1>1. /\ popTail = tail /\ tail < head /\ tail \in Nat /\ head \in Nat
      /\ Slot(tail) \in Slots /\ head <= tail + Capacity
      /\ ~Evicting
      /\ tail' = tail + 1 /\ popValue = accepted[tail + 1]
  BY TailSlot DEF SlotsOK, ConsumerOK
<1>2. TypeOK'
  BY <1>1 DEF SlotsOK, TypeOK
<1>3. CursorsOK' /\ QueuedOK'
  BY <1>1 DEF SlotsOK, CursorsOK, QueuedOK, Emptying, Evicting, Filled
<1>4. BlankOK'
  <2>1. SUFFICES ASSUME NEW p \in head..(tail + Capacity)
                 PROVE  Blank(p)' \/ (p = head /\ pushPc \in {"ready", "publish"})
    BY <1>1 DEF BlankOK
  <2>2. CASE p = tail + Capacity
    <3>1. Slot(p) = Slot(tail) /\ Blank(tail)
      BY <2>2, <1>1, SlotLap DEF SlotsOK, ConsumerOK
    <3>. QED BY <3>1 DEF Blank
  <2>3. CASE p # tail + Capacity
    BY <2>3, <1>1 DEF SlotsOK, BlankOK, Blank
  <2>. QED BY <2>2, <2>3
<1>5. ProducerOK' /\ ConsumerOK' /\ TurnsOK'
  BY <1>1 DEF SlotsOK, ProducerOK, ConsumerOK, TurnsOK, Evicting
<1>6. ValuesOK'
  <2>1. 1..tail \subseteq 1..(tail + 1)
    BY <1>1
  <2>. QED BY <2>1, <1>1 DEF SlotsOK, ValuesOK
<1>. QED BY <1>2, <1>3, <1>4, <1>5, <1>6 DEF SlotsOK

LEMMA ReturnPop ==
  ASSUME SlotsOK, Disciplined, UNCHANGED policy,
         PopReturn
  PROVE  SlotsOK'
<1> USE DEF PopReturn, policy, ring, producer, history
<1>1. TypeOK'
  BY DEF SlotsOK, TypeOK
<1>2. CursorsOK' /\ QueuedOK' /\ BlankOK' /\ ConsumerOK'
  BY DEF SlotsOK, CursorsOK, QueuedOK, Emptying, BlankOK, ConsumerOK, Filled, Blank
<1>4. ProducerOK' /\ TurnsOK'
  BY DEF SlotsOK, ProducerOK, TurnsOK, Evicting, Filled, Blank
<1>3. ValuesOK'
  <2>1. tail \in 1..head /\ popValue = accepted[tail]
    BY DEF SlotsOK, ConsumerOK
  <2>. QED BY <2>1 DEF SlotsOK, ValuesOK
<1>. QED BY <1>1, <1>2, <1>3, <1>4 DEF SlotsOK

LEMMA CloseOrStutter ==
  ASSUME SlotsOK, Disciplined, UNCHANGED policy,
         Close \/ UNCHANGED vars
  PROVE  SlotsOK'
<1>1. /\ UNCHANGED <<head, tail, values, ready, dropped, rejected, producer,
                     popPc, popTail, popValue, history>>
      /\ closed' \in BOOLEAN /\ draining' \in BOOLEAN
  BY DEF Close, vars, ring, consumer, SlotsOK, TypeOK
<1> USE <1>1 DEF SlotsOK, policy, producer, history
<1>2. TypeOK'
  BY DEF TypeOK
<1>3. CursorsOK' /\ QueuedOK' /\ BlankOK' /\ ValuesOK'
  BY DEF CursorsOK, QueuedOK, Emptying, BlankOK, ValuesOK, Filled, Blank
<1>4. ProducerOK' /\ ConsumerOK' /\ TurnsOK'
  BY DEF ProducerOK, ConsumerOK, TurnsOK, Evicting, Filled, Blank
<1>. QED BY <1>2, <1>3, <1>4

\* The slot discipline, under either overflow policy.
THEOREM Invariance == Spec => []IInv
<1>1. Disciplined /\ SlotsOK /\ [Next]_vars => SlotsOK'
  <2> SUFFICES ASSUME Disciplined, SlotsOK, [Next]_vars PROVE SlotsOK'
    OBVIOUS
  <2>1. UNCHANGED policy
    BY DEF Next, vars
  <2>. QED BY <2>1, QuietPush, StartEviction, EmptySlot, AdvanceEviction,
              FillPush, PublishPush, QuietPop, EmptyPop, AdvancePop, ReturnPop,
              CloseOrStutter DEF Next, Push, Pop
<1>2. IInv /\ [Next]_vars => IInv'
  <2>1. [Next]_vars => UNCHANGED policy
    BY DEF Next, vars
  <2>2. UNCHANGED policy => (Disciplined' <=> Disciplined)
    BY DEF policy, Disciplined
  <2>. QED BY <1>1, <2>1, <2>2 DEF IInv
<1>3. Init => IInv
  BY InitSlotsOK DEF IInv
<1>. QED BY <1>2, <1>3, PTL DEF Spec

\* No schedule of one producer and one consumer makes them touch the same
\* slot's plain value at the same time.
THEOREM RaceFreedom == Spec => []NoDataRace
<1>1. IInv => NoDataRace
  BY TailSlot DEF NoDataRace, IInv, SlotsOK, TurnsOK, ProducerOK, Evicting
<1>. QED BY Invariance, <1>1, PTL

-----------------------------------------------------------------------------
(* Refinement *)

LEMMA QueueIs ==
  ASSUME SlotsOK
  PROVE  /\ Queue \in Seq(Values) /\ Len(Queue) = head - tail
         /\ \A i \in 1..(head - tail) : Queue[i] = accepted[tail + i]
<1>1. /\ accepted \in Seq(Values) /\ Len(accepted) = head
      /\ head \in Nat /\ tail \in 0..head
  BY DEF SlotsOK, TypeOK, CursorsOK
<1>. QED BY <1>1, SuffixIs DEF Queue

LEMMA InitRefines == Init => Fifo!Init
<1> SUFFICES ASSUME Init PROVE Fifo!Init
  OBVIOUS
<1>1. Queue = <<>>
  BY DEF Init, Queue
<1>. QED BY <1>1 DEF Init, Hand, Fifo!Init

\* A step that moves no cursor and gives no value to a caller is a stutter.
LEMMA QuietRefines ==
  ASSUME UNCHANGED <<accepted, head, tail, returned>>, Hand' = Hand
  PROVE  UNCHANGED Fifo!vars
BY DEF Fifo!vars, Queue

\* Push queues its value when it advances head.
LEMMA PublishRefines ==
  ASSUME SlotsOK, PushPublish
  PROVE  Fifo!Next
<1> DEFINE v == pushValue
<1>1. /\ accepted' = Append(accepted, v) /\ head' = head + 1
      /\ UNCHANGED <<tail, popPc, popValue, returned>>
      /\ accepted \in Seq(Values) /\ Len(accepted) = head
      /\ head \in Nat /\ tail \in 0..head /\ Capacity \in Nat
      /\ head < tail + Capacity
  BY SPSCAssumption DEF PushPublish, consumer, SlotsOK, TypeOK, CursorsOK, ProducerOK
<1>2. v \in Values /\ \A i \in 1..head : accepted[i] # v
  BY <1>1, SPSCAssumption DEF PushPublish, SlotsOK, TypeOK, ValuesOK, Values
<1>3. Len(Queue) < Capacity
  BY <1>1, QueueIs
<1>4. v \notin returned
  BY <1>1, <1>2 DEF SlotsOK, ValuesOK
<1>5. \A i \in DOMAIN Queue : Queue[i] # v
  <2>1. DOMAIN Queue = 1..(head - tail)
    BY QueueIs
  <2>2. \A i \in 1..(head - tail) : tail + i \in 1..head
    BY <1>1
  <2>. QED BY <2>1, <2>2, <1>2, QueueIs
<1>6. Hand # v
  <2>1. CASE popPc = "return"
    BY <2>1, <1>1, <1>2 DEF Hand, SlotsOK, ConsumerOK
  <2>2. CASE popPc # "return"
    BY <2>2, <1>2 DEF Hand, Values, Zero
  <2>. QED BY <2>1, <2>2
<1>7. Queue' = Append(Queue, v)
  BY <1>1, <1>2, SuffixGrows DEF Queue
<1>8. Hand' = Hand
  BY <1>1 DEF Hand
<1>9. Fifo!Put(v)
  BY <1>1, <1>3, <1>4, <1>5, <1>6, <1>7, <1>8 DEF Fifo!Put
<1>. QED BY <1>2, <1>9 DEF Fifo!Next

\* The first value leaves the queue when tail moves up by one.
LEMMA TailMoves ==
  ASSUME SlotsOK, tail < head, tail' = tail + 1, UNCHANGED <<head, accepted>>
  PROVE  /\ Queue # <<>> /\ Head(Queue) = accepted[tail + 1]
         /\ Queue' = Tail(Queue)
<1>1. /\ accepted \in Seq(Values) /\ Len(accepted) = head
      /\ head \in Nat /\ tail \in Nat
  BY DEF SlotsOK, TypeOK, CursorsOK
<1>2. tail' + 1 = tail + 2
  BY <1>1
<1>. QED BY <1>1, <1>2, SuffixShrinks DEF Queue

\* Pop takes its value when it advances tail.
LEMMA AdvanceRefines ==
  ASSUME SlotsOK, PopAdvance
  PROVE  Fifo!Next
<1>1. /\ popPc = "advance" /\ popPc' = "return"
      /\ tail' = tail + 1 /\ tail < head /\ popValue = accepted[tail + 1]
      /\ UNCHANGED <<head, accepted, returned, popValue>>
  BY DEF PopAdvance, history, SlotsOK, ConsumerOK
<1>2. Hand = Zero /\ Hand' = Head(Queue)
  BY <1>1, TailMoves DEF Hand
<1>3. Fifo!Take("consumer")
  BY <1>1, <1>2, TailMoves DEF Fifo!Take
<1>. QED BY <1>3 DEF Fifo!Next

\* An eviction takes the oldest value of a full queue.
LEMMA EvictRefines ==
  ASSUME SlotsOK, Disciplined, EvictAdvance
  PROVE  Fifo!Evict
<1>1. /\ tail' = tail + 1 /\ head = tail + Capacity
      /\ UNCHANGED <<head, accepted, returned, popPc, popValue>>
  BY DEF EvictAdvance, consumer, SlotsOK, ProducerOK, Evicting
<1>2. /\ head \in Nat /\ tail \in Nat /\ Capacity \in Nat /\ Capacity >= 1
  BY SPSCAssumption DEF SlotsOK, TypeOK
<1>3. Len(Queue) = Capacity /\ Queue' = Tail(Queue)
  BY <1>1, <1>2, TailMoves, QueueIs
<1>4. Hand' = Hand
  BY <1>1 DEF Hand
<1>. QED BY <1>1, <1>3, <1>4 DEF Fifo!Evict

\* Pop returns what it has taken.
LEMMA ReturnRefines ==
  ASSUME SlotsOK, PopReturn
  PROVE  Fifo!Next
<1>1. /\ popPc = "return" /\ popPc' = "idle" /\ popValue = accepted[tail]
      /\ returned' = returned \cup {popValue}
      /\ UNCHANGED <<head, tail, accepted>>
      /\ tail \in 1..head /\ Len(accepted) = head /\ accepted \in Seq(Values)
  BY DEF PopReturn, ring, SlotsOK, TypeOK, CursorsOK, ConsumerOK
<1>2. popValue # Zero
  <2>1. accepted[tail] \in Values
    BY <1>1
  <2>. QED BY <2>1, <1>1 DEF Values, Zero
<1>3. Hand = popValue /\ Hand' = Zero /\ Queue' = Queue
  BY <1>1 DEF Hand, Queue
<1>4. Fifo!Return("consumer")
  BY <1>1, <1>2, <1>3 DEF Fifo!Return
<1>. QED BY <1>4 DEF Fifo!Next

\* The steps of Push that touch slots and its own variables only.
LEMMA PushQuiet ==
  ASSUME \/ PushCall \/ PushReject \/ PushRoom \/ PushEvict
         \/ EvictClear \/ EvictUnready \/ PushWrite \/ PushReady
  PROVE  UNCHANGED Fifo!vars
<1>1. UNCHANGED <<accepted, head, tail, returned, popPc, popValue>>
  BY DEF PushCall, PushReject, PushRoom, PushEvict, EvictClear, EvictUnready,
         PushWrite, PushReady, ring, consumer, history
<1>2. Hand' = Hand
  BY <1>1 DEF Hand
<1>. QED BY <1>1, <1>2, QuietRefines

\* The steps of Pop before it advances tail, and Close.
LEMMA PopQuiet ==
  ASSUME \/ PopCall \/ PopEmpty \/ PopNotReady \/ PopSome \/ PopReady
         \/ PopRead \/ PopClear \/ PopUnready \/ Close \/ UNCHANGED vars
  PROVE  UNCHANGED Fifo!vars
<1>1. UNCHANGED <<accepted, head, tail, returned>>
  BY DEF PopCall, PopEmpty, PopNotReady, PopSome, PopReady, PopRead, PopClear,
         PopUnready, PopReturnsEmpty, Close, ring, history, vars
<1>2. \/ popPc # "return" /\ popPc' # "return"
      \/ UNCHANGED <<popPc, popValue>>
  BY DEF PopCall, PopEmpty, PopNotReady, PopSome, PopReady, PopRead, PopClear,
         PopUnready, PopReturnsEmpty, Close, consumer, vars
<1>3. Hand' = Hand
  BY <1>2 DEF Hand
<1>. QED BY <1>1, <1>3, QuietRefines

\* The ring implements the bounded FIFO queue: a rejecting ring under every
\* overlap of its calls, one that drops the oldest, whose evictions take the
\* oldest of a full queue, when they take turns.
THEOREM Refinement == Spec => ImplementsFifo
<1> DEFINE Evicts == dropOldestOnFull /\ (overlap \/ Fifo!Evict)
<1>1. IInv /\ [Next]_vars => [Fifo!Next \/ Evicts]_(Fifo!vars)
  <2> SUFFICES ASSUME IInv, [Next]_vars
               PROVE  [Fifo!Next \/ Evicts]_(Fifo!vars)
    OBVIOUS
  <2>1. CASE ~Disciplined
    BY <2>1 DEF Disciplined
  <2>2. CASE Disciplined /\ EvictAdvance
    <3>1. SlotsOK
      BY <2>2 DEF IInv
    <3>2. dropOldestOnFull
      BY <2>2, <3>1 DEF SlotsOK, ProducerOK, Evicting, EvictAdvance
    <3>. QED BY <2>2, <3>1, <3>2, EvictRefines
  <2>3. CASE Disciplined /\ ~EvictAdvance
    <3>1. SlotsOK
      BY <2>3 DEF IInv
    <3>. QED BY <2>3, <3>1, PublishRefines, AdvanceRefines, ReturnRefines,
                PushQuiet, PopQuiet DEF Next, Push, Pop
  <2>. QED BY <2>1, <2>2, <2>3
<1>. QED BY InitRefines, Invariance, <1>1, PTL DEF Spec, ImplementsFifo

-----------------------------------------------------------------------------
(* Conservation *)

\* Where the values behind tail are: returned, in the hand of the Pop that
\* took the last of them, or dropped, and never two of these.
HistoryOK ==
  /\ evicted \subseteq 0..(tail - 1) /\ dropped = Cardinality(evicted)
  /\ \A p \in 0..(tail - 1) : \/ accepted[p + 1] \in returned
                              \/ p \in evicted
                              \/ popPc = "return" /\ p = tail - 1
  /\ \A p \in evicted : /\ accepted[p + 1] \notin returned
                        /\ ~(popPc = "return" /\ p = tail - 1)

LEMMA InitHistory == Init => HistoryOK
BY FS_EmptySet DEF Init, HistoryOK

\* Push queues one more value behind the others.
LEMMA PublishHistory ==
  ASSUME SlotsOK, HistoryOK, PushPublish
  PROVE  HistoryOK'
<1>1. /\ accepted' = Append(accepted, pushValue)
      /\ UNCHANGED <<tail, dropped, evicted, returned, popPc>>
      /\ accepted \in Seq(Values) /\ Len(accepted) = head
      /\ tail \in 0..head /\ head \in Nat
  BY DEF PushPublish, consumer, SlotsOK, TypeOK, CursorsOK
<1>2. \A i \in 1..head : accepted'[i] = accepted[i]
  BY <1>1
<1>3. \A p \in 0..(tail - 1) : p + 1 \in 1..head
  BY <1>1
<1>4. \A p \in 0..(tail - 1) : accepted'[p + 1] = accepted[p + 1]
  BY <1>2, <1>3
<1>. QED BY <1>1, <1>4 DEF HistoryOK

\* An eviction drops the value at tail, which nobody has taken.
LEMMA EvictHistory ==
  ASSUME SlotsOK, HistoryOK, EvictAdvance
  PROVE  HistoryOK'
<1>1. /\ tail' = tail + 1 /\ dropped' = dropped + 1
      /\ evicted' = evicted \cup {tail}
      /\ UNCHANGED <<accepted, returned, popPc>>
      /\ popPc = "idle" /\ tail < head
      /\ tail \in Nat /\ head \in Nat /\ Len(accepted) = head
  BY SPSCAssumption DEF EvictAdvance, consumer, SlotsOK, TypeOK, CursorsOK,
                        ProducerOK, TurnsOK, Evicting
<1>2. IsFiniteSet(evicted) /\ tail \notin evicted
  <2>1. IsFiniteSet(0..(tail - 1))
    BY <1>1, FS_Interval
  <2>2. evicted \in SUBSET (0..(tail - 1)) /\ tail \notin 0..(tail - 1)
    BY <1>1 DEF HistoryOK
  <2>3. IsFiniteSet(evicted)
    BY <2>1, <2>2, FS_Subset
  <2>. QED BY <2>2, <2>3
<1>3. dropped' = Cardinality(evicted')
  BY <1>1, <1>2, FS_AddElement DEF HistoryOK
<1>4. accepted[tail + 1] \notin returned
  <2>1. \A i \in 1..tail : accepted[i] # accepted[tail + 1]
    BY <1>1 DEF SlotsOK, ValuesOK
  <2>. QED BY <2>1 DEF SlotsOK, ValuesOK
<1>5. \A p \in 0..(tail' - 1) : p = tail \/ p \in 0..(tail - 1)
  BY <1>1
<1>. QED BY <1>1, <1>3, <1>4, <1>5 DEF HistoryOK

\* Pop takes the value at tail, which is not dropped.
LEMMA AdvanceHistory ==
  ASSUME SlotsOK, HistoryOK, PopAdvance
  PROVE  HistoryOK'
<1>1. /\ tail' = tail + 1 /\ popPc = "advance" /\ popPc' = "return"
      /\ UNCHANGED <<accepted, returned, dropped, evicted>>
      /\ tail \in Nat
  BY DEF PopAdvance, history, SlotsOK, TypeOK, ConsumerOK
<1>2. \A p \in 0..(tail' - 1) : p = tail' - 1 \/ p \in 0..(tail - 1)
  BY <1>1
<1>3. evicted' \subseteq 0..(tail' - 1) /\ \A p \in evicted' : p # tail' - 1
  BY <1>1 DEF HistoryOK
<1>. QED BY <1>1, <1>2, <1>3 DEF HistoryOK

\* Pop returns the value it took, which no eviction dropped.
LEMMA ReturnHistory ==
  ASSUME SlotsOK, HistoryOK, PopReturn
  PROVE  HistoryOK'
<1>1. /\ popPc = "return" /\ popPc' = "idle" /\ popValue = accepted[tail]
      /\ returned' = returned \cup {popValue}
      /\ UNCHANGED <<tail, accepted, dropped, evicted>>
      /\ head \in Nat /\ tail \in 1..head /\ Len(accepted) = head
  BY DEF PopReturn, ring, SlotsOK, TypeOK, CursorsOK, ConsumerOK
<1>2. \A p \in evicted : accepted[p + 1] # popValue
  <2>1. \A p \in evicted : p + 1 \in 1..head /\ p + 1 # tail
    BY <1>1 DEF HistoryOK
  <2>. QED BY <2>1, <1>1 DEF SlotsOK, ValuesOK
<1>3. \A p \in 0..(tail - 1) : accepted[p + 1] \in returned' \/ p \in evicted
  BY <1>1 DEF HistoryOK
<1>. QED BY <1>1, <1>2, <1>3 DEF HistoryOK

\* No other step moves tail, gives a value to a caller or drops one.
LEMMA OtherHistory ==
  ASSUME HistoryOK,
         \/ PushCall \/ PushReject \/ PushRoom \/ PushEvict
         \/ EvictClear \/ EvictUnready \/ PushWrite \/ PushReady
         \/ PopCall \/ PopEmpty \/ PopNotReady \/ PopSome \/ PopReady
         \/ PopRead \/ PopClear \/ PopUnready \/ Close \/ UNCHANGED vars
  PROVE  HistoryOK'
<1>1. UNCHANGED <<accepted, tail, returned, evicted, dropped>>
  BY DEF PushCall, PushReject, PushRoom, PushEvict, EvictClear, EvictUnready,
         PushWrite, PushReady, PopCall, PopEmpty, PopNotReady, PopSome, PopReady,
         PopRead, PopClear, PopUnready, PopReturnsEmpty, Close, ring, history, vars
<1>2. popPc' = "return" <=> popPc = "return"
  BY DEF PushCall, PushReject, PushRoom, PushEvict, EvictClear, EvictUnready,
         PushWrite, PushReady, PopCall, PopEmpty, PopNotReady, PopSome, PopReady,
         PopRead, PopClear, PopUnready, PopReturnsEmpty, Close, consumer, vars
<1>. QED BY <1>1, <1>2 DEF HistoryOK

LEMMA HistoryConserved ==
  ASSUME SlotsOK, HistoryOK
  PROVE  Conserved
<1>1. /\ tail \in 0..head /\ head \in Nat /\ Len(accepted) = head
  BY DEF SlotsOK, TypeOK, CursorsOK
<1>2. ASSUME NEW p \in 0..(tail - 1)
      PROVE  \/ accepted[p + 1] \in returned
             \/ p \in evicted
             \/ popPc # "idle" /\ popValue = accepted[p + 1]
  BY <1>1 DEF HistoryOK, SlotsOK, ConsumerOK
<1>3. ASSUME NEW p \in tail..(head - 1)
      PROVE  \/ pushPc \in {"unready", "advance"} /\ pushTail = p
             \/ popPc # "idle" /\ popValue = accepted[p + 1]
             \/ p >= tail /\ Filled(p)
  BY <1>1 DEF SlotsOK, QueuedOK, Emptying, ProducerOK, ConsumerOK, Evicting
<1>4. \A p \in 0..(Len(accepted) - 1) : p \in 0..(tail - 1) \/ p \in tail..(head - 1)
  BY <1>1
<1>5. \A p \in evicted : p < Len(accepted) /\ accepted[p + 1] \notin returned
  BY <1>1 DEF HistoryOK
<1>. QED BY <1>2, <1>3, <1>4, <1>5 DEF Conserved, HistoryOK

\* A value Push has published is queued, taken, returned or dropped: no step
\* of a ring used as it can bear loses one, and Dropped() counts exactly.
THEOREM Conservation == Spec => []Conserved
<1> DEFINE HInv == Disciplined => HistoryOK
<1>1. Init => HInv
  BY InitHistory
<1>2. IInv /\ HInv /\ [Next]_vars => HInv'
  <2> SUFFICES ASSUME IInv, HInv, [Next]_vars, Disciplined' PROVE HistoryOK'
    OBVIOUS
  <2>1. SlotsOK /\ HistoryOK
    BY DEF Next, vars, policy, Disciplined, IInv
  <2>. QED BY <2>1, PublishHistory, EvictHistory, AdvanceHistory, ReturnHistory,
              OtherHistory DEF Next, Push, Pop
<1>3. IInv /\ HInv => Conserved
  BY HistoryConserved DEF IInv, Conserved
<1>. QED BY Invariance, <1>1, <1>2, <1>3, PTL DEF Spec

-----------------------------------------------------------------------------
(* AtMostOnce: a value is in one place, however the calls overlap          *)

\* The value in the hands of Push is in no slot yet.
Unwritten == pushPc \in {"full", "evict", "unready", "advance", "write"}

HandsOK ==
  /\ pushPc # "idle" => pushValue \in 1..pushed
  /\ popPc \notin {"clear", "unready", "advance", "return"} => popValue = Zero
  /\ popValue <= pushed
  /\ popValue # Zero => popValue \notin returned
  /\ \A v \in returned : v <= pushed

FreshOK == Unwritten => /\ \A s \in Slots : values[s] # pushValue
                        /\ popValue # pushValue /\ pushValue \notin returned

ApartOK == /\ \A s \in Slots : values[s] <= pushed
           /\ \A s, t \in Slots : values[s] = values[t] => s = t \/ values[s] = Zero
           /\ \A s \in Slots : values[s] # Zero => values[s] \notin returned
           /\ \A s \in Slots : values[s] = popValue =>
                popValue = Zero \/ (popPc = "clear" /\ s = Slot(popTail))

OnceOK == TypeOK /\ HandsOK /\ FreshOK /\ ApartOK

LEMMA OnceTypes == ASSUME OnceOK, Next PROVE TypeOK'
<1> USE SPSCAssumption DEF TypeOK
<1>1. TypeOK /\ UNCHANGED policy /\ (pushPc # "idle" => pushValue \in Values)
  <2>1. \A v \in 1..pushed : v \in Values
    BY DEF OnceOK, Values
  <2> QED BY <2>1 DEF OnceOK, HandsOK, Next
<1>2. values \in [Slots -> Values \cup {Zero}] /\ ready \in [Slots -> BOOLEAN]
  BY <1>1
<1>3. ASSUME PushCall PROVE TypeOK'
  BY <1>1, <1>3 DEF PushCall, Values, policy, ring, consumer
<1>4. CASE PushReject \/ PushRoom \/ PushEvict
  <2>1. CASE PushReject
    BY <1>1, <2>1 DEF PushReject, policy, consumer, history
  <2>2. CASE PushRoom
    BY <1>1, <2>2 DEF PushRoom, policy, ring, consumer, history
  <2>3. CASE PushEvict
    BY <1>1, <2>3 DEF PushEvict, policy, ring, consumer, history
  <2> QED BY <1>4, <2>1, <2>2, <2>3
<1>5. CASE EvictClear \/ EvictUnready \/ EvictAdvance
  <2>1. CASE EvictClear
    BY <1>1, <2>1 DEF EvictClear, policy, consumer, history
  <2>2. CASE EvictUnready
    BY <1>1, <2>2 DEF EvictUnready, policy, consumer, history
  <2>3. CASE EvictAdvance
    BY <1>1, <2>3 DEF EvictAdvance, policy, consumer, history
  <2> QED BY <1>5, <2>1, <2>2, <2>3
<1>6. CASE PushWrite
  BY <1>1, <1>6 DEF PushWrite, policy, consumer, history
<1>7. CASE PushReady
  BY <1>1, <1>7 DEF PushReady, policy, consumer, history
<1>8. CASE PushPublish
  BY <1>1, <1>8 DEF PushPublish, policy, consumer
<1>9. CASE PopCall \/ PopEmpty \/ PopNotReady \/ PopSome \/ PopReady
  <2>1. CASE PopCall
    BY <1>1, <2>1 DEF PopCall, policy, ring, producer, history
  <2>2. CASE PopReturnsEmpty
    BY <1>1, <2>2 DEF PopReturnsEmpty, policy, ring, producer, history
  <2>3. CASE PopSome
    BY <1>1, <2>3 DEF PopSome, policy, ring, producer, history
  <2>4. CASE PopReady
    BY <1>1, <2>4 DEF PopReady, policy, ring, producer, history
  <2> QED BY <1>9, <2>1, <2>2, <2>3, <2>4 DEF PopEmpty, PopNotReady
<1>10. CASE PopRead
  BY <1>1, <1>2, <1>10, SlotType DEF PopRead, policy, ring, producer, history
<1>11. CASE PopClear \/ PopUnready \/ PopAdvance
  <2>1. CASE PopClear
    BY <1>1, <2>1 DEF PopClear, policy, producer, history
  <2>2. CASE PopUnready
    BY <1>1, <2>2 DEF PopUnready, policy, producer, history
  <2>3. CASE PopAdvance
    BY <1>1, <2>3 DEF PopAdvance, policy, producer, history
  <2> QED BY <1>11, <2>1, <2>2, <2>3
<1>12. CASE PopReturn
  BY <1>1, <1>12 DEF PopReturn, policy, ring, producer
<1>13. CASE Close
  BY <1>1, <1>13 DEF Close, policy, producer, history
<1> QED BY <1>3, <1>4, <1>5, <1>6, <1>7, <1>8, <1>9, <1>10, <1>11, <1>12, <1>13
        DEF Next, Push, Pop

\* What the step leaves alone, when it puts nothing anywhere.
LEMMA OnceRests ==
  ASSUME OnceOK, UNCHANGED <<values, popValue, returned, pushed>>,
         Unwritten' => Unwritten /\ pushValue' = pushValue,
         pushPc' # "idle" => pushPc # "idle" /\ pushValue' = pushValue,
         popPc' # popPc => popPc # "clear" /\ (popValue # Zero => popPc' \in {"advance", "return"}),
         popPc' = "clear" => popTail' = popTail
  PROVE  HandsOK' /\ FreshOK' /\ ApartOK'
<1>1. HandsOK'
  BY DEF OnceOK, HandsOK
<1>2. FreshOK'
  BY DEF OnceOK, FreshOK
<1>3. ApartOK'
  <2>1. popPc = "clear" => popPc' = "clear" /\ popTail' = popTail
    OBVIOUS
  <2>2. \A s \in Slots : values[s] = popValue =>
          popValue = Zero \/ (popPc = "clear" /\ s = Slot(popTail))
    BY DEF OnceOK, ApartOK
  <2>3. \A s \in Slots : values[s] = popValue =>
          popValue = Zero \/ (popPc' = "clear" /\ s = Slot(popTail'))
    BY <2>1, <2>2
  <2>4. /\ \A s, t \in Slots : values[s] = values[t] => s = t \/ values[s] = Zero
        /\ \A s \in Slots : values[s] <= pushed
        /\ \A s \in Slots : values[s] # Zero => values[s] \notin returned
    BY DEF OnceOK, ApartOK
  <2> QED BY <2>3, <2>4 DEF ApartOK
<1> QED BY <1>1, <1>2, <1>3

LEMMA OnceCalls == ASSUME OnceOK, PushCall PROVE HandsOK' /\ FreshOK' /\ ApartOK'
<1>1. /\ pushValue' = pushed + 1 /\ pushed' = pushed + 1 /\ pushed \in Nat
      /\ UNCHANGED <<values, popPc, popTail, popValue, returned>>
  BY DEF PushCall, ring, consumer, OnceOK, TypeOK
<1>2. /\ popValue \in Nat /\ values \in [Slots -> Nat] /\ returned \subseteq Nat
  BY DEF OnceOK, TypeOK, Values, Zero
<1>3. /\ popValue <= pushed /\ \A s \in Slots : values[s] <= pushed
      /\ \A v \in returned : v <= pushed
  BY DEF OnceOK, HandsOK, ApartOK
<1>4. \A n \in Nat : n <= pushed => n <= pushed' /\ n # pushed + 1
  BY <1>1
<1>5. \A s \in Slots : values[s] \in Nat
  BY <1>2
<1>6. HandsOK'
  BY <1>1, <1>2, <1>3, <1>4 DEF OnceOK, HandsOK
<1>7. FreshOK'
  BY <1>1, <1>2, <1>3, <1>4, <1>5 DEF FreshOK
<1>8. ApartOK'
  BY <1>1, <1>3, <1>4, <1>5 DEF OnceOK, ApartOK
<1> QED BY <1>6, <1>7, <1>8

LEMMA OnceWrites == ASSUME OnceOK, PushWrite PROVE HandsOK' /\ FreshOK' /\ ApartOK'
<1>1. /\ values' = [values EXCEPT ![Slot(head)] = pushValue] /\ values \in [Slots -> Values \cup {Zero}]
      /\ Slot(head) \in Slots /\ pushPc = "write" /\ pushPc' = "ready"
      /\ UNCHANGED <<pushValue, pushed, popPc, popTail, popValue, returned>>
  BY SlotType DEF PushWrite, consumer, history, OnceOK, TypeOK
<1>2. values'[Slot(head)] = pushValue /\ \A s \in Slots : s # Slot(head) => values'[s] = values[s]
  BY <1>1
<1>3. /\ \A s \in Slots : values[s] # pushValue
      /\ popValue # pushValue /\ pushValue \notin returned /\ pushValue <= pushed
  <2>1. pushValue \in 1..pushed /\ pushed \in Nat
    BY <1>1 DEF OnceOK, HandsOK, TypeOK
  <2> QED BY <2>1, <1>1 DEF OnceOK, FreshOK, Unwritten
<1>4. HandsOK'
  BY <1>1 DEF OnceOK, HandsOK
<1>5. FreshOK'
  BY <1>1 DEF FreshOK, Unwritten
<1>6. /\ \A s \in Slots : values'[s] <= pushed
      /\ \A s \in Slots : values'[s] # Zero => values'[s] \notin returned
  BY <1>2, <1>3 DEF OnceOK, ApartOK
<1>9. \A s \in Slots : values'[s] = popValue =>
        popValue = Zero \/ (popPc = "clear" /\ s = Slot(popTail))
  BY <1>2, <1>3 DEF OnceOK, ApartOK
<1>7. \A s, t \in Slots : values'[s] = values'[t] => s = t \/ values'[s] = Zero
  BY <1>2, <1>3 DEF OnceOK, ApartOK
<1>8. UNCHANGED <<pushed, returned, popValue, popPc>> /\ Slot(popTail)' = Slot(popTail)
  BY <1>1 DEF Slot
<1> QED BY <1>4, <1>5, <1>6, <1>7, <1>8, <1>9 DEF ApartOK

\* A slot is emptied, by an eviction or by Pop.
LEMMA OnceClears ==
  ASSUME OnceOK, EvictClear \/ PopClear PROVE HandsOK' /\ FreshOK' /\ ApartOK'
<1>1. PICK p \in Nat : /\ values' = [values EXCEPT ![Slot(p)] = Zero]
                       /\ PopClear => p = popTail /\ popPc = "clear" /\ popPc' = "unready"
                       /\ EvictClear => popPc' = popPc
  BY DEF EvictClear, PopClear, consumer, OnceOK, TypeOK
<1>2. values \in [Slots -> Values \cup {Zero}] /\ Slot(p) \in Slots
  BY SlotType DEF OnceOK, TypeOK
<1>3. values'[Slot(p)] = Zero /\ \A s \in Slots : s # Slot(p) => values'[s] = values[s]
  BY <1>1, <1>2
<1>4. UNCHANGED <<pushValue, popTail, popValue, pushed, returned>> /\ Slot(popTail)' = Slot(popTail)
  BY DEF EvictClear, PopClear, producer, consumer, history, Slot
<1>5. pushed \in Nat /\ Zero = 0
  BY DEF OnceOK, TypeOK, Zero
<1>6. HandsOK'
  BY <1>4 DEF EvictClear, PopClear, producer, consumer, OnceOK, HandsOK
<1>7. FreshOK'
  <2>1. Unwritten' => Unwritten /\ pushValue # Zero
    BY <1>5 DEF EvictClear, PopClear, producer, OnceOK, HandsOK, Unwritten
  <2> QED BY <1>3, <1>4, <2>1 DEF OnceOK, FreshOK
<1>8. /\ \A s \in Slots : values'[s] <= pushed
      /\ \A s, t \in Slots : values'[s] = values'[t] => s = t \/ values'[s] = Zero
      /\ \A s \in Slots : values'[s] # Zero => values'[s] \notin returned
  BY <1>3, <1>5 DEF OnceOK, ApartOK
<1>9. \A s \in Slots : values'[s] = popValue =>
        popValue = Zero \/ (popPc' = "clear" /\ s = Slot(popTail))
  <2>1. \A s \in Slots : values[s] = popValue => popValue = Zero \/ (popPc = "clear" /\ s = Slot(popTail))
    BY DEF OnceOK, ApartOK
  <2>2. CASE PopClear
    BY <1>1, <1>3, <2>1, <2>2
  <2>3. CASE EvictClear
    <3>1. popPc' = popPc
      BY <1>1, <2>3
    <3> HIDE <2>3
    <3> QED BY <1>3, <2>1, <3>1
  <2> QED BY <2>2, <2>3
<1>10. ApartOK'
  BY <1>4, <1>8, <1>9 DEF ApartOK
<1> QED BY <1>6, <1>7, <1>10

LEMMA OnceReads == ASSUME OnceOK, PopRead PROVE HandsOK' /\ FreshOK' /\ ApartOK'
<1>1. /\ popValue' = values[Slot(popTail)] /\ Slot(popTail) \in Slots /\ popPc' = "clear"
      /\ UNCHANGED <<values, pushPc, pushValue, popTail, pushed, returned>>
  BY SlotType DEF PopRead, ring, producer, history, OnceOK, TypeOK
<1>2. HandsOK'
  BY <1>1 DEF OnceOK, HandsOK, ApartOK
<1>3. FreshOK'
  BY <1>1 DEF OnceOK, FreshOK, Unwritten
<1>4. Slot(popTail)' = Slot(popTail)
  BY <1>1 DEF Slot
<1>5. ApartOK'
  <2>1. /\ \A s, t \in Slots : values[s] = values[t] => s = t \/ values[s] = Zero
        /\ \A s \in Slots : values[s] <= pushed
        /\ \A s \in Slots : values[s] # Zero => values[s] \notin returned
    BY DEF OnceOK, ApartOK
  <2>2. \A s \in Slots : values'[s] = popValue' => popValue' = Zero \/ s = Slot(popTail)'
    BY <1>1, <1>4, <2>1
  <2>3. /\ \A s, t \in Slots : values'[s] = values'[t] => s = t \/ values'[s] = Zero
        /\ \A s \in Slots : values'[s] <= pushed'
        /\ \A s \in Slots : values'[s] # Zero => values'[s] \notin returned'
    BY <1>1, <2>1
  <2> QED BY <1>1, <2>2, <2>3 DEF ApartOK
<1> QED BY <1>2, <1>3, <1>5

LEMMA OnceReturns == ASSUME OnceOK, PopReturn PROVE HandsOK' /\ FreshOK' /\ ApartOK'
<1>1. /\ returned' = returned \cup {popValue} /\ popValue' = Zero /\ popPc = "return" /\ popPc' = "idle"
      /\ UNCHANGED <<values, pushPc, pushValue, pushed>> /\ pushed \in Nat /\ Zero = 0
  BY DEF PopReturn, ring, producer, OnceOK, TypeOK, Zero
<1>2. HandsOK'
  BY <1>1 DEF OnceOK, HandsOK
<1>3. FreshOK'
  <2>1. Unwritten' => Unwritten /\ pushValue # Zero
    BY <1>1 DEF OnceOK, HandsOK, Unwritten
  <2> QED BY <1>1, <2>1 DEF OnceOK, FreshOK
<1>4. ApartOK'
  <2>1. /\ \A s, t \in Slots : values[s] = values[t] => s = t \/ values[s] = Zero
        /\ \A s \in Slots : values[s] <= pushed
        /\ \A s \in Slots : values[s] # Zero => values[s] \notin returned
        /\ \A s \in Slots : values[s] = popValue => popValue = Zero
    BY <1>1 DEF OnceOK, ApartOK
  <2>2. /\ \A s \in Slots : values'[s] # Zero => values'[s] \notin returned'
        /\ \A s, t \in Slots : values'[s] = values'[t] => s = t \/ values'[s] = Zero
        /\ \A s \in Slots : values'[s] <= pushed'
    BY <1>1, <2>1
  <2>3. popValue' = Zero
    BY <1>1
  <2> QED BY <2>2, <2>3 DEF ApartOK
<1> QED BY <1>2, <1>3, <1>4

LEMMA OnceKeeps == ASSUME OnceOK, [Next]_vars PROVE OnceOK'
<1>1. CASE UNCHANGED vars
  BY <1>1 DEF vars, policy, ring, producer, consumer, history, OnceOK, TypeOK, HandsOK, FreshOK,
       Unwritten, ApartOK, Slot
<1>2. CASE Next
  <2>1. CASE PushReject \/ PushRoom \/ PushEvict \/ EvictUnready \/ EvictAdvance
    <3>1. HandsOK' /\ FreshOK' /\ ApartOK'
      BY <2>1, OnceRests DEF PushReject, PushRoom, PushEvict, EvictUnready, EvictAdvance,
           ring, consumer, history, Unwritten
    <3> QED BY <1>2, <3>1, OnceTypes DEF OnceOK
  <2>2. CASE PushReady \/ PushPublish
    <3>1. HandsOK' /\ FreshOK' /\ ApartOK'
      BY <2>2, OnceRests DEF PushReady, PushPublish, consumer, history, Unwritten
    <3> QED BY <1>2, <3>1, OnceTypes DEF OnceOK
  <2>3. CASE PopCall \/ PopEmpty \/ PopNotReady \/ PopSome \/ PopReady
    <3>0. popValue = Zero
      BY <2>3 DEF PopCall, PopEmpty, PopNotReady, PopSome, PopReady, OnceOK, HandsOK
    <3>1. HandsOK' /\ FreshOK' /\ ApartOK'
      BY <2>3, <3>0, OnceRests DEF PopCall, PopEmpty, PopNotReady, PopReturnsEmpty, PopSome, PopReady,
           ring, producer, history, Unwritten
    <3> QED BY <1>2, <3>1, OnceTypes DEF OnceOK
  <2>4. CASE PopUnready \/ PopAdvance \/ Close
    <3>1. HandsOK' /\ FreshOK' /\ ApartOK'
      BY <2>4, OnceRests DEF PopUnready, PopAdvance, Close, producer, history, Unwritten
    <3> QED BY <1>2, <3>1, OnceTypes DEF OnceOK
  <2>5. CASE PushCall \/ PushWrite \/ EvictClear \/ PopClear \/ PopRead \/ PopReturn
    BY <1>2, <2>5, OnceTypes, OnceCalls, OnceWrites, OnceClears, OnceReads, OnceReturns DEF OnceOK
  <2> QED BY <1>2, <2>1, <2>2, <2>3, <2>4, <2>5 DEF Next, Push, Pop
<1> QED BY <1>1, <1>2

\* Whatever the capacity and the policy, and however the calls overlap, no value
\* is handed out twice (Push, Pop): it is in one slot at most, and once Pop has
\* emptied that in none.
THEOREM HandsOutOnce == Spec => AtMostOnce
<1>1. Init => OnceOK
  <2> SUFFICES ASSUME Init PROVE OnceOK
    OBVIOUS
  <2>1. TypeOK
    <3>1. accepted \in Seq(Values) /\ pushed \in 0..MaxPushes
      BY SPSCAssumption DEF Init
    <3>2. values \in [Slots -> Values \cup {Zero}] /\ ready \in [Slots -> BOOLEAN]
      BY DEF Init
    <3> QED BY <3>1, <3>2 DEF Init, TypeOK
  <2>2. HandsOK /\ FreshOK /\ ApartOK
    BY DEF Init, HandsOK, FreshOK, Unwritten, ApartOK, Zero
  <2> QED BY <2>1, <2>2 DEF OnceOK
<1>2. OnceOK /\ [Next]_vars => OnceOK'
  BY OnceKeeps
<1>3. OnceOK => [PopReturn => popValue = Zero \/ popValue \notin returned]_vars
  BY DEF OnceOK, HandsOK
<1> QED BY <1>1, <1>2, <1>3, PTL DEF Spec, AtMostOnce

-----------------------------------------------------------------------------
(* The ultra ring: the words of an event that the consumer may read are       *)
(* those of that event, since the publisher is never a whole buffer ahead     *)

UltraTypes ==
  /\ slots \in [0..(BufferSize - 1) -> [1..2 -> Nat]]
  /\ published \in Nat /\ committed \in Nat /\ writing \in 0..2
  /\ reading \in Nat \ {0} /\ available \in Nat /\ word \in Nat
  /\ handled \in Seq(Nat \X Nat)

\* The word w of the slot of event n is that of event n.
Holds(n, w) == slots[n % BufferSize][w] = n

UltraOK ==
  /\ UltraTypes
  /\ committed <= reading - 1 /\ reading - 1 <= available /\ available <= published
  /\ available - committed <= Limit + 1 /\ published <= committed + BufferSize
  /\ writing > 0 => published < committed + BufferSize /\ Holds(published + 1, 1)
  /\ writing = 2 => Holds(published + 1, 2)
  /\ \A n \in Nat : committed < n /\ n <= published => Holds(n, 1) /\ Holds(n, 2)
  /\ word # 0 => word = reading /\ reading <= available
  /\ Len(handled) = reading - 1
  /\ \A i \in 1..(reading - 1) : handled[i] = <<i, i>>

LEMMA UltraSlot ==
  ASSUME Ultra!UltraAssumption, NEW n \in Nat
  PROVE  n % BufferSize \in 0..(BufferSize - 1)
  BY DEF Ultra!UltraAssumption

\* Events of the buffer have slots of their own.
LEMMA UltraApart ==
  ASSUME Ultra!UltraAssumption, NEW p \in Nat, NEW n \in Nat, n < p, p - n < BufferSize
  PROVE  n % BufferSize # p % BufferSize
<1>1. BufferSize \in Nat /\ BufferSize >= 1
  BY DEF Ultra!UltraAssumption
<1> SUFFICES ASSUME n % BufferSize = p % BufferSize PROVE FALSE
  OBVIOUS
<1>2. p >= n + BufferSize
  BY <1>1, ModApart, Zenon
<1> QED BY <1>1, <1>2

\* What writing a word of a slot leaves of the buffer.
UltraWritten(s, w, v) == [slots EXCEPT ![s][w] = v]

LEMMA UltraWrites ==
  ASSUME slots \in [0..(BufferSize - 1) -> [1..2 -> Nat]],
         NEW s \in 0..(BufferSize - 1), NEW w \in 1..2, NEW v \in Nat,
         slots' = UltraWritten(s, w, v)
  PROVE  /\ slots' \in [0..(BufferSize - 1) -> [1..2 -> Nat]] /\ slots'[s][w] = v
         /\ \A x \in 1..2 : x # w => slots'[s][x] = slots[s][x]
         /\ \A r \in 0..(BufferSize - 1) : r # s => slots'[r] = slots[r]
<1> DEFINE e == [slots[s] EXCEPT ![w] = v]
           S == 0..(BufferSize - 1)
           E == [1..2 -> Nat]
<1>1. slots[s] \in [1..2 -> Nat]
  OBVIOUS
<1>2. e \in E /\ e[w] = v /\ \A x \in 1..2 : x # w => e[x] = slots[s][x]
  BY <1>1
<1>3. slots' = [slots EXCEPT ![s] = e]
  BY DEF UltraWritten
<1>4. slots \in [S -> E] /\ s \in S
  OBVIOUS
<1> HIDE DEF e, S, E
<1>5. slots' \in [S -> E] /\ slots'[s] = e /\ \A r \in S : r # s => slots'[r] = slots[r]
  BY <1>2, <1>3, <1>4
<1> QED BY <1>2, <1>5 DEF S, E

LEMMA UltraInit == ASSUME Ultra!UltraAssumption, Ultra!Init PROVE UltraOK
<1> USE DEF Ultra!Init, Ultra!UltraAssumption
<1>1. <<0, 0>> \in [1..2 -> Nat]
  OBVIOUS
<1>2. slots \in [0..(BufferSize - 1) -> [1..2 -> Nat]]
  BY <1>1
<1>3. handled \in Seq(Nat \X Nat) /\ Len(handled) = 0
  OBVIOUS
<1> QED BY <1>2, <1>3 DEF UltraOK, UltraTypes

LEMMA UltraPublish ==
  ASSUME Ultra!UltraAssumption, UltraOK, Ultra!Publish PROVE UltraOK'
<1> DEFINE p == published + 1
           s == p % BufferSize
           w == writing + 1
<1>0. UltraTypes /\ BufferSize \in Nat /\ BufferSize >= 1
  BY DEF UltraOK, Ultra!UltraAssumption
<1>1. /\ slots' = UltraWritten(s, w, p) /\ writing' = writing + 1 /\ writing \in 0..1
      /\ UNCHANGED <<published, committed, reading, available, word, handled>>
  BY <1>0 DEF Ultra!Publish, Ultra!Slot, UltraWritten, UltraTypes
<1>2. writing = 0 => committed >= p - BufferSize
  BY DEF Ultra!Publish, Ultra!Free
<1>3. published < committed + BufferSize
  BY <1>0, <1>1, <1>2 DEF UltraOK, UltraTypes
<1>4. p \in Nat /\ s \in 0..(BufferSize - 1) /\ w \in 1..2
  BY <1>0, <1>1, UltraSlot DEF UltraTypes
<1>5. /\ slots' \in [0..(BufferSize - 1) -> [1..2 -> Nat]] /\ slots'[s][w] = p
      /\ \A x \in 1..2 : x # w => slots'[s][x] = slots[s][x]
      /\ \A r \in 0..(BufferSize - 1) : r # s => slots'[r] = slots[r]
  <2> HIDE DEF p, s, w
  <2> QED BY <1>0, <1>1, <1>4, UltraWrites DEF UltraTypes
<1>6. ASSUME NEW n \in Nat, committed < n, n <= published
      PROVE  Holds(n, 1)' /\ Holds(n, 2)'
  <2>1. n % BufferSize \in 0..(BufferSize - 1)
    BY UltraSlot
  <2>2. n % BufferSize # s
    <3>1. n < p /\ p - n < BufferSize
      BY <1>0, <1>3, <1>6 DEF UltraTypes
    <3> HIDE DEF p
    <3> QED BY <3>1, <1>4, UltraApart DEF s
  <2>3. Holds(n, 1) /\ Holds(n, 2)
    BY <1>6 DEF UltraOK
  <2> QED BY <2>1, <2>2, <2>3, <1>5 DEF Holds
<1>7. writing' > 0 /\ writing' \in 0..2
  BY <1>1
<1>8. slots'[s][1] = p
  <2>1. CASE w = 1
    BY <2>1, <1>5
  <2>2. CASE w = 2
    <3>1. Holds(p, 1)
      BY <2>2, <1>1 DEF UltraOK
    <3> QED BY <3>1, <2>2, <1>5 DEF Holds
  <2> QED BY <2>1, <2>2, <1>4
<1>9. writing' = 2 => slots'[s][2] = p
  BY <1>1, <1>5
<1> HIDE DEF s
<1>10. UltraTypes'
  BY <1>0, <1>1, <1>5, <1>7 DEF UltraTypes
<1>11. Holds(published + 1, 1)' /\ (writing' = 2 => Holds(published + 1, 2)')
  BY <1>1, <1>8, <1>9 DEF Holds, s
<1> HIDE DEF p, w
<1> QED BY <1>1, <1>3, <1>6, <1>10, <1>11 DEF UltraOK

LEMMA UltraRelease ==
  ASSUME Ultra!UltraAssumption, UltraOK, Ultra!Release PROVE UltraOK'
<1>1. /\ writing = 2 /\ published' = published + 1 /\ writing' = 0
      /\ UNCHANGED <<slots, committed, reading, available, word, handled>>
  BY DEF Ultra!Release
<1>2. /\ published \in Nat /\ committed \in Nat /\ BufferSize \in Nat
      /\ available \in Nat /\ UltraTypes
  BY DEF UltraOK, UltraTypes, Ultra!UltraAssumption
<1>3. UltraTypes'
  BY <1>1, <1>2 DEF UltraTypes
<1>4. published' <= committed + BufferSize /\ available <= published'
  BY <1>1, <1>2 DEF UltraOK
<1>5. ASSUME NEW n \in Nat, committed < n, n <= published'
      PROVE  Holds(n, 1)' /\ Holds(n, 2)'
  <2>1. CASE n = published + 1
    BY <2>1, <1>1 DEF UltraOK, Holds
  <2>2. CASE n <= published
    BY <2>2, <1>1, <1>5 DEF UltraOK, Holds
  <2> QED BY <2>1, <2>2, <1>1, <1>2, <1>5
<1> QED BY <1>1, <1>3, <1>4, <1>5 DEF UltraOK

LEMMA UltraLoads ==
  ASSUME Ultra!UltraAssumption, UltraOK, Ultra!LoadAvailable PROVE UltraOK'
<1>1. /\ available < reading /\ committed = reading - 1 /\ reading <= published
      /\ available' = IF published - reading > Limit THEN reading + Limit ELSE published
      /\ UNCHANGED <<slots, published, committed, writing, reading, word, handled>>
  BY DEF Ultra!LoadAvailable
<1>2. /\ published \in Nat /\ committed \in Nat /\ Limit \in Nat /\ available \in Nat
      /\ reading \in Nat /\ UltraTypes
  BY DEF UltraOK, UltraTypes, Ultra!UltraAssumption
<1>3. /\ available' \in Nat /\ reading <= available' /\ available' <= published
      /\ available' - committed <= Limit + 1 /\ reading - 1 <= available'
  BY <1>1, <1>2
<1>4. UltraTypes'
  BY <1>1, <1>2, <1>3 DEF UltraTypes
<1>5. \A n : (Holds(n, 1)' <=> Holds(n, 1)) /\ (Holds(n, 2)' <=> Holds(n, 2))
  BY <1>1 DEF Holds
<1> QED BY <1>1, <1>3, <1>4, <1>5 DEF UltraOK

LEMMA UltraHandles ==
  ASSUME Ultra!UltraAssumption, UltraOK, Ultra!Handle PROVE UltraOK'
<1>1. /\ reading <= available
      /\ UNCHANGED <<slots, published, committed, writing, available>>
  BY DEF Ultra!Handle
<1>2. /\ published \in Nat /\ committed \in Nat /\ available \in Nat
      /\ reading \in Nat /\ UltraTypes
  BY DEF UltraOK, UltraTypes
<1>3. Holds(reading, 1) /\ Holds(reading, 2)
  BY <1>1, <1>2 DEF UltraOK
<1>4. \A n : (Holds(n, 1)' <=> Holds(n, 1)) /\ (Holds(n, 2)' <=> Holds(n, 2))
  BY <1>1 DEF Holds
<1>5. CASE word = 0
  <2>1. word' = reading /\ UNCHANGED <<reading, handled>>
    BY <1>3, <1>5 DEF Ultra!Handle, Ultra!Slot, Holds
  <2>2. UltraTypes'
    BY <2>1, <1>1, <1>2 DEF UltraTypes
  <2> QED BY <2>1, <2>2, <1>1, <1>4 DEF UltraOK
<1>6. CASE word # 0
  <2>1. /\ handled' = Append(handled, <<reading, reading>>)
        /\ reading' = reading + 1 /\ word' = 0
    BY <1>3, <1>6 DEF Ultra!Handle, Ultra!Slot, Holds, UltraOK
  <2>2. /\ handled \in Seq(Nat \X Nat) /\ Len(handled) = reading - 1
        /\ <<reading, reading>> \in Nat \X Nat
    BY <1>2 DEF UltraOK, UltraTypes
  <2>3. /\ handled' \in Seq(Nat \X Nat) /\ Len(handled') = reading
        /\ handled'[reading] = <<reading, reading>>
        /\ \A i \in 1..(reading - 1) : handled'[i] = handled[i]
    BY <2>1, <2>2, <1>2, AppendProperties
  <2>4. \A i \in 1..(reading - 1) : handled[i] = <<i, i>>
    BY DEF UltraOK
  <2>5. \A i \in 1..reading : i = reading \/ i \in 1..(reading - 1)
    BY <1>2
  <2>6. \A i \in 1..reading : handled'[i] = <<i, i>>
    BY <2>3, <2>4, <2>5
  <2>7. reading' - 1 = reading /\ reading' \in Nat \ {0} /\ reading - 1 \in Int
        /\ reading - 1 <= reading
    BY <2>1, <1>2
  <2>8. UltraTypes'
    BY <2>1, <2>3, <2>7, <1>1, <1>2 DEF UltraTypes
  <2>9. committed <= reading' - 1
    <3>1. committed <= reading - 1
      BY DEF UltraOK
    <3>2. committed <= reading
      BY <3>1, <2>7, <1>2
    <3> QED BY <3>2, <2>7
  <2> QED BY <2>1, <2>3, <2>6, <2>7, <2>8, <2>9, <1>1, <1>4 DEF UltraOK
<1> QED BY <1>5, <1>6

LEMMA UltraCommits ==
  ASSUME Ultra!UltraAssumption, UltraOK, Ultra!CommitBatch PROVE UltraOK'
<1>1. PICK m \in Int : m = reading - 1
  BY DEF UltraOK, UltraTypes
<1>2. /\ reading > available /\ committed' = m
      /\ UNCHANGED <<slots, published, writing, reading, available, word, handled>>
  BY <1>1 DEF Ultra!CommitBatch
<1>3. /\ published \in Nat /\ committed \in Nat /\ available \in Nat
      /\ reading \in Nat /\ BufferSize \in Nat /\ Limit \in Nat
  BY DEF UltraOK, UltraTypes, Ultra!UltraAssumption
<1>4. /\ committed <= reading - 1 /\ published <= committed + BufferSize
      /\ writing > 0 => published < committed + BufferSize
  BY DEF UltraOK
<1>5. /\ m \in Nat /\ m <= reading - 1 /\ committed <= m /\ available - m <= Limit + 1
      /\ published <= m + BufferSize /\ (writing > 0 => published < m + BufferSize)
  BY <1>1, <1>2, <1>3, <1>4
<1>6. UltraTypes'
  BY <1>2, <1>5 DEF UltraOK, UltraTypes
<1>7. \A n : (Holds(n, 1)' <=> Holds(n, 1)) /\ (Holds(n, 2)' <=> Holds(n, 2))
  BY <1>2 DEF Holds
<1>8. \A n \in Nat : m < n /\ n <= published => Holds(n, 1) /\ Holds(n, 2)
  <2>1. \A n \in Nat : m < n => committed < n
    BY <1>3, <1>5
  <2> QED BY <2>1 DEF UltraOK
<1> QED BY <1>2, <1>5, <1>6, <1>7, <1>8 DEF UltraOK

LEMMA UltraKeeps ==
  ASSUME Ultra!UltraAssumption, UltraOK, [Ultra!Next]_(Ultra!ultraVars) PROVE UltraOK'
<1>1. CASE UNCHANGED Ultra!ultraVars
  BY <1>1 DEF Ultra!ultraVars, UltraOK, UltraTypes, Holds
<1>2. CASE Ultra!Next
  BY <1>2, UltraPublish, UltraRelease, UltraLoads, UltraHandles, UltraCommits
     DEF Ultra!Next
<1> QED BY <1>1, <1>2

LEMMA UltraSays ==
  ASSUME Ultra!UltraAssumption, UltraOK PROVE Ultra!UltraExact
<1>1. /\ handled \in Seq(Nat \X Nat) /\ reading \in Nat /\ Len(handled) = reading - 1
      /\ published \in Nat /\ committed \in Nat /\ available \in Nat /\ Limit \in Nat
  BY DEF UltraOK, UltraTypes, Ultra!UltraAssumption
<1>2. \A i \in DOMAIN handled : handled[i] = <<i, i>>
  BY <1>1, LenProperties DEF UltraOK
<1>3. /\ committed <= reading - 1 /\ reading - 1 <= available /\ available <= published
      /\ available - committed <= Limit + 1 /\ published <= committed + BufferSize
  BY DEF UltraOK
<1>4. reading - 1 <= published /\ reading - 1 - committed <= Limit + 1
  BY <1>1, <1>3
<1> QED BY <1>1, <1>2, <1>3, <1>4 DEF Ultra!UltraExact

\* Every event reaches the handler whole, once and in order, for a buffer of any
\* size and batches of any limit: the publisher, which goes round the buffer
\* without a lock, never writes a word of a slot that has not been committed
\* (Publish, ConsumeBatch).
THEOREM UltraHandsOver == RingsSpec => []UltraExact
<1>1. RingsSpec => Ultra!Spec
  <2>1. RingsInit => Ultra!Init
    BY DEF RingsInit
  <2>2. [RingsNext]_ringsVars => [Ultra!Next]_(Ultra!ultraVars)
    BY DEF RingsNext, ringsVars, offlineVars, ultraVars, Ultra!ultraVars
  <2> QED BY <2>1, <2>2, PTL DEF RingsSpec, Ultra!Spec
<1>2. Ultra!Init => UltraOK
  BY UltraAssumption, UltraInit
<1>3. UltraOK /\ [Ultra!Next]_(Ultra!ultraVars) => UltraOK'
  BY UltraAssumption, UltraKeeps
<1>4. UltraOK => UltraExact
  BY UltraAssumption, UltraSays DEF UltraExact
<1> QED BY <1>1, <1>2, <1>3, <1>4, PTL DEF Ultra!Spec

-----------------------------------------------------------------------------
(* OfflineRing: views that share an array are of one family                *)

Held == Pushable \cup {Zero} \cup UNION {{s[i] : i \in DOMAIN s} : s \in Slices}
OfflineViews == [array : Nat, len : Nat, cursor : Nat]

\* The view x is of an array there is, and ends and points inside it.
Fits(x, backing) == /\ x \in OfflineViews
                    /\ x.array \in 1..Len(backing)
                    /\ x.len <= Len(backing[x.array]) /\ x.cursor <= x.len

OfflineTypes == /\ arrays \in Seq(Seq(Held))
                /\ views \in Seq(OfflineViews)
                /\ family \in Seq(Nat) /\ Len(family) = Len(views)

\* A call that gives a view room of its own leaves its family: those that stay
\* with an array are of one family.
OfflineOK ==
  /\ OfflineTypes
  /\ \A v \in 1..Len(views) : Fits(views[v], arrays)
  /\ \A v, w \in 1..Len(views) : views[v].array = views[w].array => family[v] = family[w]

\* The arrays grow in number, and none changes its length.
Kept(before, after) ==
  /\ after \in Seq(Seq(Held)) /\ Len(before) <= Len(after)
  /\ \A a \in 1..Len(before) : Len(after[a]) = Len(before[a])

LEMMA SliceIsHeld == ASSUME NEW s \in Slices PROVE s \in Seq(Held)
<1> DEFINE S == {s[i] : i \in DOMAIN s}
<1>1. s \in Seq(S)
  BY OfflineAssumption
<1>2. S \in {{t[i] : i \in DOMAIN t} : t \in Slices}
  OBVIOUS
<1>3. S \subseteq Held
  BY <1>2, Zenon DEF Held
<1> QED BY <1>1, <1>3, SeqMonotonic

LEMMA RoomyIs ==
  ASSUME NEW s \in Seq(Held), NEW room \in {0, 1}
  PROVE  /\ Offline!Roomy(s, room) \in Seq(Held)
         /\ Len(Offline!Roomy(s, room)) = Len(s) + room
<1> DEFINE r == [i \in 1..room |-> Zero]
<1>1. r \in Seq(Held) /\ Len(r) = room
  BY DEF Held
<1> HIDE DEF r
<1>2. s \o r \in Seq(Held) /\ Len(s \o r) = Len(s) + room
  BY <1>1, ConcatProperties
<1> QED BY <1>2 DEF Offline!Roomy, r

\* An array that is written between two places keeps its length.
Spliced(old, s, n, k) == SubSeq(old, 1, n) \o s \o SubSeq(old, n + k + 1, Len(old))

LEMMA SplicedIs ==
  ASSUME NEW S, NEW old \in Seq(S), NEW s \in Seq(S), NEW n \in Nat,
         NEW k \in Nat, k = Len(s), n + k <= Len(old)
  PROVE  Spliced(old, s, n, k) \in Seq(S) /\ Len(Spliced(old, s, n, k)) = Len(old)
<1> DEFINE a == SubSeq(old, 1, n)
           b == SubSeq(old, n + k + 1, Len(old))
<1>1. Len(s) \in Nat /\ Len(old) \in Nat /\ \A i \in 1..Len(old) : old[i] \in S
  OBVIOUS
<1>2. a \in Seq(S) /\ Len(a) = n
  BY <1>1, SubSeqProperties
<1>3. b \in Seq(S) /\ Len(b) = Len(old) - n - Len(s)
  BY <1>1, SubSeqProperties
<1> HIDE DEF a, b
<1>4. a \o s \in Seq(S) /\ Len(a \o s) = n + Len(s)
  BY <1>2, ConcatProperties
<1>5. (a \o s) \o b \in Seq(S) /\ Len((a \o s) \o b) = Len(old)
  BY <1>1, <1>3, <1>4, ConcatProperties
<1> QED BY <1>5 DEF a, b, Spliced

LEMMA ContentsAre ==
  ASSUME OfflineOK, NEW v \in 1..Len(views)
  PROVE  Offline!Contents(v) \in Seq(Held) /\ Len(Offline!Contents(v)) = views[v].len
<1> DEFINE s == arrays[views[v].array]
           n == views[v].len
<1>1. s \in Seq(Held) /\ n \in Nat /\ n <= Len(s)
  <2>1. arrays \in Seq(Seq(Held)) /\ Fits(views[v], arrays)
    BY DEF OfflineOK, OfflineTypes
  <2>2. views[v].array \in 1..Len(arrays) /\ n \in Nat /\ n <= Len(s)
    BY <2>1 DEF Fits, OfflineViews
  <2> QED BY <2>1, <2>2
<1> HIDE DEF s, n
<1>2. Len(s) \in Nat /\ \A i \in 1..Len(s) : s[i] \in Held
  BY <1>1
<1>3. SubSeq(s, 1, n) \in Seq(Held) /\ Len(SubSeq(s, 1, n)) = n
  BY <1>1, <1>2, SubSeqProperties
<1> QED BY <1>3 DEF Offline!Contents, s, n

\* One array is rewritten.
LEMMA Rewritten ==
  ASSUME OfflineTypes, NEW a \in 1..Len(arrays), NEW new \in Seq(Held), Len(new) = Len(arrays[a])
  PROVE  LET r == [arrays EXCEPT ![a] = new]
         IN  /\ Kept(arrays, r) /\ Len(r) = Len(arrays)
             /\ \A b \in 1..Len(arrays) : b # a => r[b] = arrays[b]
<1>1. arrays \in Seq(Seq(Held)) /\ Len(arrays) \in Nat
  BY DEF OfflineTypes
<1>2. /\ [arrays EXCEPT ![a] = new] \in Seq(Seq(Held)) /\ Len([arrays EXCEPT ![a] = new]) = Len(arrays)
      /\ \A b \in 1..Len(arrays) : [arrays EXCEPT ![a] = new][b] = IF b = a THEN new ELSE arrays[b]
  BY <1>1, ExceptSeq
<1> QED BY <1>1, <1>2 DEF Kept

\* An array is made, after those that are kept.
LEMMA Enlarged ==
  ASSUME OfflineTypes, NEW r, Kept(arrays, r), Len(r) = Len(arrays), NEW new \in Seq(Held)
  PROVE  /\ Kept(arrays, Append(r, new)) /\ Len(Append(r, new)) = Len(arrays) + 1
         /\ Append(r, new)[Len(arrays) + 1] = new
         /\ \A b \in 1..Len(arrays) : Append(r, new)[b] = r[b]
<1>1. r \in Seq(Seq(Held)) /\ Len(arrays) \in Nat /\ \A b \in 1..Len(arrays) : Len(r[b]) = Len(arrays[b])
  BY DEF Kept, OfflineTypes
<1>2. /\ Append(r, new) \in Seq(Seq(Held)) /\ Len(Append(r, new)) = Len(arrays) + 1
      /\ Append(r, new)[Len(arrays) + 1] = new
      /\ \A b \in 1..Len(arrays) : Append(r, new)[b] = r[b]
  BY <1>1
<1> QED BY <1>1, <1>2 DEF Kept

\* A view is made: of a family of its own, or with an array of its family.
LEMMA Joins ==
  ASSUME OfflineOK, Kept(arrays, arrays'), NEW x, NEW f \in Nat, Fits(x, arrays'),
         views' = Append(views, x), family' = Append(family, f),
         \A v \in 1..Len(views) : views[v].array = x.array => family[v] = f
  PROVE  OfflineOK'
<1>1. /\ OfflineTypes /\ x \in OfflineViews /\ Len(views) \in Nat /\ Len(family) = Len(views)
      /\ Len(arrays) \in Nat /\ Len(arrays') \in Nat
  BY DEF OfflineOK, OfflineTypes, Fits, Kept
<1>2. OfflineTypes'
  <2>1. views' \in Seq(OfflineViews) /\ Len(views') = Len(views) + 1
    BY <1>1 DEF OfflineTypes
  <2>2. family' \in Seq(Nat) /\ Len(family') = Len(family) + 1
    BY <1>1 DEF OfflineTypes
  <2> QED BY <1>1, <2>1, <2>2 DEF OfflineTypes, Kept
<1>3. /\ \A v \in 1..Len(views) : views'[v] = views[v] /\ family'[v] = family[v]
      /\ views'[Len(views) + 1] = x /\ family'[Len(views) + 1] = f
      /\ Len(views') = Len(views) + 1
  BY <1>1 DEF OfflineTypes
<1>4. \A v \in 1..Len(views') : v \in 1..Len(views) \/ v = Len(views) + 1
  BY <1>1, <1>3
<1>5. ASSUME NEW w \in 1..Len(views) PROVE Fits(views[w], arrays')
  <2>1. /\ views[w] \in OfflineViews /\ views[w].array \in 1..Len(arrays)
        /\ views[w].len <= Len(arrays[views[w].array]) /\ views[w].cursor <= views[w].len
    BY DEF OfflineOK, Fits
  <2>2. Len(arrays) <= Len(arrays') /\ Len(arrays'[views[w].array]) = Len(arrays[views[w].array])
    BY <2>1 DEF Kept
  <2> QED BY <1>1, <2>1, <2>2 DEF Fits
<1>6. ASSUME NEW v \in 1..Len(views') PROVE Fits(views'[v], arrays')
  <2>1. CASE v \in 1..Len(views)
    BY <2>1, <1>3, <1>5
  <2>2. CASE v = Len(views) + 1
    <3>1. views'[v] = x
      BY <2>2, <1>3
    <3> QED BY <3>1
  <2> QED BY <1>4, <2>1, <2>2
<1>7. ASSUME NEW v \in 1..Len(views'), NEW w \in 1..Len(views'), views'[v].array = views'[w].array
      PROVE  family'[v] = family'[w]
  <2>1. CASE v \in 1..Len(views) /\ w \in 1..Len(views)
    <3>1. /\ views'[v] = views[v] /\ family'[v] = family[v]
          /\ views'[w] = views[w] /\ family'[w] = family[w]
      BY <2>1, <1>3
    <3>2. views[v].array = views[w].array => family[v] = family[w]
      BY <2>1 DEF OfflineOK
    <3> QED BY <3>1, <3>2, <1>7
  <2>2. CASE v = Len(views) + 1 /\ w \in 1..Len(views)
    <3>1. views'[v] = x /\ family'[v] = f /\ views'[w] = views[w] /\ family'[w] = family[w]
      BY <2>2, <1>3
    <3> QED BY <2>2, <3>1, <1>7
  <2>3. CASE w = Len(views) + 1 /\ v \in 1..Len(views)
    <3>1. views'[w] = x /\ family'[w] = f /\ views'[v] = views[v] /\ family'[v] = family[v]
      BY <2>3, <1>3
    <3> QED BY <2>3, <3>1, <1>7
  <2> QED BY <1>4, <2>1, <2>2, <2>3
<1> QED BY <1>2, <1>6, <1>7 DEF OfflineOK

\* A view changes: it keeps its array, or gets one to itself.
LEMMA Changes ==
  ASSUME OfflineOK, Kept(arrays, arrays'), NEW v \in 1..Len(views), NEW x, Fits(x, arrays'),
         views' = [views EXCEPT ![v] = x], family' = family,
         x.array = views[v].array \/ x.array = Len(arrays) + 1
  PROVE  OfflineOK'
<1>1. /\ OfflineTypes /\ x \in OfflineViews /\ Len(views) \in Nat /\ Len(family) = Len(views)
      /\ Len(arrays) \in Nat /\ Len(arrays') \in Nat
  BY DEF OfflineOK, OfflineTypes, Fits, Kept
<1>3. /\ views' \in Seq(OfflineViews) /\ Len(views') = Len(views) /\ views'[v] = x
      /\ \A w \in 1..Len(views) : w # v => views'[w] = views[w]
  BY <1>1, ExceptSeq DEF OfflineTypes
<1>2. OfflineTypes'
  BY <1>1, <1>3 DEF OfflineTypes, Kept
<1>5. ASSUME NEW w \in 1..Len(views) PROVE Fits(views[w], arrays')
  <2>1. /\ views[w] \in OfflineViews /\ views[w].array \in 1..Len(arrays)
        /\ views[w].len <= Len(arrays[views[w].array]) /\ views[w].cursor <= views[w].len
    BY DEF OfflineOK, Fits
  <2>2. Len(arrays) <= Len(arrays') /\ Len(arrays'[views[w].array]) = Len(arrays[views[w].array])
    BY <2>1 DEF Kept
  <2> QED BY <1>1, <2>1, <2>2 DEF Fits
<1>6. \A w \in 1..Len(views') : Fits(views'[w], arrays')
  BY <1>3, <1>5
<1>7. \A w, u \in 1..Len(views') : views'[w].array = views'[u].array => family'[w] = family'[u]
  <2>1. \A w \in 1..Len(views) : views[w].array # Len(arrays) + 1
    BY <1>1 DEF OfflineOK, Fits
  <2> QED BY <1>3, <2>1 DEF OfflineOK
<1> QED BY <1>2, <1>6, <1>7 DEF OfflineOK

LEMMA ViewIs ==
  ASSUME OfflineOK, NEW v \in 1..Len(views)
  PROVE  /\ views[v] \in OfflineViews /\ views[v].array \in 1..Len(arrays)
         /\ views[v].len \in Nat /\ views[v].cursor \in Nat
         /\ views[v].cursor <= views[v].len
         /\ arrays[views[v].array] \in Seq(Held) /\ Len(arrays[views[v].array]) \in Nat
         /\ views[v].len <= Len(arrays[views[v].array])
         /\ Offline!Contents(v) \in Seq(Held) /\ Len(Offline!Contents(v)) = views[v].len
         /\ Offline!Made = 1..Len(views) /\ Len(arrays) \in Nat /\ Kept(arrays, arrays)
<1>1. views[v] \in OfflineViews /\ Offline!Made = 1..Len(views)
  BY DEF OfflineOK, OfflineTypes, Offline!Made
<1>2. arrays \in Seq(Seq(Held)) /\ Fits(views[v], arrays)
  BY DEF OfflineOK, OfflineTypes
<1> QED BY <1>1, <1>2, ContentsAre DEF Fits, OfflineViews, Kept

LEMMA NewRing ==
  ASSUME OfflineOK, NEW s \in Slices, NEW room \in {0, 1}, Offline!NewOfflineRing(s, room)
  PROVE  OfflineOK'
<1> DEFINE new == Offline!Roomy(s, room)
           x == [array |-> Len(arrays) + 1, len |-> Len(s), cursor |-> 0]
<1>1. s \in Seq(Held) /\ Len(s) \in Nat /\ new \in Seq(Held) /\ Len(new) = Len(s) + room
  BY SliceIsHeld, RoomyIs
<1>2. /\ arrays' = Append(arrays, new) /\ views' = Append(views, x)
      /\ family' = Append(family, Len(views) + 1)
  BY DEF Offline!NewOfflineRing
<1>3. OfflineTypes /\ Kept(arrays, arrays) /\ Len(arrays) \in Nat /\ Len(views) \in Nat
  BY DEF OfflineOK, OfflineTypes, Kept
<1> HIDE DEF new
<1>4. /\ Kept(arrays, arrays') /\ Len(arrays') = Len(arrays) + 1
      /\ arrays'[Len(arrays) + 1] = new
  BY <1>1, <1>2, <1>3, Enlarged
<1>5. Fits(x, arrays')
  BY <1>1, <1>3, <1>4 DEF Fits, OfflineViews
<1>6. \A v \in 1..Len(views) : views[v].array # x.array
  BY <1>3, ViewIs
<1> HIDE DEF x
<1> QED BY <1>2, <1>3, <1>4, <1>5, <1>6, Joins

LEMMA Selects ==
  ASSUME OfflineOK, NEW v \in 1..Len(views), NEW step \in -MaxOfflineStep..MaxOfflineStep,
         Offline!Select(v, step)
  PROVE  OfflineOK'
<1> DEFINE n == Offline!Clamped(views[v].cursor + step, views[v].len)
           x == [views[v] EXCEPT !.cursor = n]
<1>1. views' = Append(views, x) /\ family' = Append(family, family[v]) /\ arrays' = arrays
  BY DEF Offline!Select
<1>2. /\ views[v] \in OfflineViews /\ Fits(views[v], arrays) /\ family[v] \in Nat
      /\ Kept(arrays, arrays)
  BY ViewIs DEF OfflineOK, OfflineTypes
<1>3. n \in Nat /\ n <= views[v].len
  BY <1>2, OfflineAssumption DEF Offline!Clamped, OfflineViews
<1> HIDE DEF n
<1>4. x \in OfflineViews /\ x.array = views[v].array /\ x.len = views[v].len /\ x.cursor = n
  BY <1>2, <1>3 DEF OfflineViews
<1> HIDE DEF x
<1>5. Fits(x, arrays')
  BY <1>1, <1>2, <1>3, <1>4 DEF Fits
<1>6. \A w \in 1..Len(views) : views[w].array = x.array => family[w] = family[v]
  BY <1>4 DEF OfflineOK
<1> QED BY <1>1, <1>2, <1>5, <1>6, Joins

LEMMA CutIs ==
  ASSUME NEW S, NEW t \in Seq(S), NEW c \in Nat, NEW end \in Nat, c <= end,
         NEW n \in Nat, n = Len(t), end <= n
  PROVE  /\ SubSeq(t, c + 1, end) \in Seq(S)
         /\ Len(SubSeq(t, c + 1, end)) = end - c /\ end - c \in Nat
<1>1. \A i \in c + 1..end : t[i] \in S
  OBVIOUS
<1>2. c + 1 \in Int /\ end \in Int
  OBVIOUS
<1>3. /\ SubSeq(t, c + 1, end) \in Seq(S)
      /\ Len(SubSeq(t, c + 1, end)) = IF c + 1 <= end THEN end - (c + 1) + 1 ELSE 0
  BY <1>1, <1>2, SubSeqProperties, Zenon
<1> QED BY <1>3

LEMMA Cuts ==
  ASSUME OfflineOK, NEW v \in 1..Len(views), NEW count \in 0..MaxOfflineStep,
         NEW room \in {0, 1}, Offline!Slice(v, count, room)
  PROVE  OfflineOK'
<1> DEFINE end == Offline!Clamped(views[v].cursor + count, views[v].len)
           s == SubSeq(Offline!Contents(v), views[v].cursor + 1, end)
           new == Offline!Roomy(s, room)
           x == [array |-> Len(arrays) + 1, len |-> end - views[v].cursor, cursor |-> 0]
<1>1. /\ arrays' = Append(arrays, new) /\ views' = Append(views, x)
      /\ family' = Append(family, Len(views) + 1)
  BY DEF Offline!Slice, Offline!Copied
<1>2. OfflineTypes /\ Kept(arrays, arrays) /\ Len(arrays) \in Nat /\ Len(views) \in Nat
  BY DEF OfflineOK, OfflineTypes, Kept
<1>3. /\ views[v].cursor \in Nat /\ views[v].len \in Nat /\ views[v].cursor <= views[v].len
      /\ Offline!Contents(v) \in Seq(Held) /\ Len(Offline!Contents(v)) = views[v].len
  BY ViewIs
<1>4. end \in Nat /\ views[v].cursor <= end /\ end <= views[v].len
  BY <1>3, OfflineAssumption DEF Offline!Clamped
<1> HIDE DEF end
<1>5. s \in Seq(Held) /\ Len(s) = end - views[v].cursor /\ end - views[v].cursor \in Nat
  <2> DEFINE t == Offline!Contents(v)
             c == views[v].cursor
             n == views[v].len
             r == SubSeq(t, c + 1, end)
  <2>1. t \in Seq(Held) /\ c \in Nat /\ n \in Nat /\ n = Len(t) /\ c <= end /\ end <= n
    BY <1>3, <1>4
  <2>2. r \in Seq(Held) /\ Len(r) = end - c /\ end - c \in Nat
    <3> HIDE DEF t, c, n
    <3> QED BY <1>4, <2>1, CutIs
  <2> QED BY <2>2
<1> DEFINE k == end - views[v].cursor
<1> HIDE DEF s
<1>6. new \in Seq(Held) /\ Len(new) = Len(s) + room
  BY <1>5, RoomyIs
<1> HIDE DEF new
<1>7. /\ Kept(arrays, arrays') /\ Len(arrays') = Len(arrays) + 1
      /\ arrays'[Len(arrays) + 1] = new
  BY <1>1, <1>2, <1>6, Enlarged, Zenon
<1>8. Fits(x, arrays')
  <2>1. k \in Nat /\ Len(new) = k + room
    BY <1>5, <1>6
  <2>2. x = [array |-> Len(arrays) + 1, len |-> k, cursor |-> 0]
    OBVIOUS
  <2> HIDE DEF k, x
  <2>3. x \in OfflineViews /\ x.array = Len(arrays) + 1 /\ x.len = k /\ x.cursor = 0
    BY <1>2, <2>1, <2>2 DEF OfflineViews
  <2>4. k <= Len(new)
    BY <2>1
  <2> QED BY <1>2, <1>7, <2>1, <2>3, <2>4 DEF Fits
<1>9. \A w \in 1..Len(views) : views[w].array # x.array
  BY <1>2, ViewIs
<1>10. Len(views) + 1 \in Nat
  BY <1>2
<1> HIDE DEF x
<1> QED BY <1>1, <1>7, <1>8, <1>9, <1>10, Joins

\* The views of other arrays stay as they are.
Spared(v) == \A w \in 1..Len(views) : views[w].array # views[v].array =>
               views'[w] = views[w] /\ arrays'[views[w].array] = arrays[views[w].array]

\* A view that stays with its array, or moves to a new one.
LEMMA Stays ==
  ASSUME OfflineOK, NEW v \in 1..Len(views), NEW new \in Seq(Held), NEW x \in OfflineViews,
         Len(new) = Len(arrays[views[v].array]), arrays' = [arrays EXCEPT ![views[v].array] = new],
         views' = [views EXCEPT ![v] = x], family' = family,
         x.array = views[v].array, x.len <= Len(new), x.cursor <= x.len
  PROVE  OfflineOK' /\ Spared(v)
<1>1. /\ OfflineTypes /\ views[v].array \in 1..Len(arrays) /\ arrays \in Seq(Seq(Held))
      /\ views \in Seq(OfflineViews)
  BY ViewIs DEF OfflineOK, OfflineTypes
<1>2. /\ Kept(arrays, arrays') /\ Len(arrays') = Len(arrays)
      /\ \A b \in 1..Len(arrays) : b # views[v].array => arrays'[b] = arrays[b]
  BY <1>1, Rewritten
<1>3. arrays'[views[v].array] = new
  BY <1>1
<1>4. Fits(x, arrays')
  BY <1>1, <1>2, <1>3 DEF Fits
<1>5. OfflineOK'
  BY <1>2, <1>4, Changes
<1>6. \A w \in 1..Len(views) : views[w].array \in 1..Len(arrays)
  BY ViewIs
<1>7. \A w \in 1..Len(views) : w # v => views'[w] = views[w]
  BY <1>1
<1> QED BY <1>2, <1>5, <1>6, <1>7 DEF Spared

LEMMA Moves ==
  ASSUME OfflineOK, NEW v \in 1..Len(views), NEW r, NEW new \in Seq(Held),
         NEW n \in Nat, NEW cursor \in Nat, n <= Len(new), cursor <= n,
         Kept(arrays, r), Len(r) = Len(arrays),
         \A b \in 1..Len(arrays) : b # views[v].array => r[b] = arrays[b],
         arrays' = Append(r, new),
         views' = [views EXCEPT ![v] = [array |-> Len(arrays) + 1, len |-> n, cursor |-> cursor]],
         family' = family
  PROVE  OfflineOK' /\ Spared(v)
<1> DEFINE x == [array |-> Len(arrays) + 1, len |-> n, cursor |-> cursor]
<1>1. OfflineTypes /\ Len(arrays) \in Nat /\ views \in Seq(OfflineViews)
  BY ViewIs DEF OfflineOK, OfflineTypes
<1>4. /\ Kept(arrays, arrays') /\ Len(arrays') = Len(arrays) + 1
      /\ arrays'[Len(arrays) + 1] = new /\ \A b \in 1..Len(arrays) : arrays'[b] = r[b]
  BY <1>1, Enlarged, Zenon
<1>5. Fits(x, arrays') /\ x.array = Len(arrays) + 1
  <2>1. x \in OfflineViews /\ x.array = Len(arrays) + 1 /\ x.len = n /\ x.cursor = cursor
    BY <1>1 DEF OfflineViews
  <2> HIDE DEF x
  <2> QED BY <1>1, <1>4, <2>1 DEF Fits
<1>6. \A w \in 1..Len(views) : w # v => views'[w] = views[w]
  BY <1>1
<1>3. views' = [views EXCEPT ![v] = x]
  OBVIOUS
<1> HIDE DEF x
<1>7. OfflineOK'
  BY <1>3, <1>4, <1>5, Changes
<1>8. \A w \in 1..Len(views) : views[w].array \in 1..Len(arrays)
  BY ViewIs
<1> QED BY <1>4, <1>6, <1>7, <1>8 DEF Spared

\* append, at the end of a view: what is put there is s.
LEMMA Appends ==
  ASSUME OfflineOK, NEW v \in 1..Len(views), NEW s \in Seq(Held), NEW room \in {0, 1},
         NEW cursor \in Nat, cursor <= views[v].len + Len(s),
         Offline!Appended(v, s, room, cursor), family' = family
  PROVE  OfflineOK' /\ Spared(v)
<1> DEFINE old == arrays[views[v].array]
           end == views[v].len + Len(s)
           spliced == SubSeq(old, 1, views[v].len) \o s \o SubSeq(old, end + 1, Len(old))
           y == [views[v] EXCEPT !.len = end, !.cursor = cursor]
           new == Offline!Roomy(Offline!Contents(v) \o s, room)
<1>1. /\ views[v] \in OfflineViews /\ views[v].len \in Nat /\ Len(s) \in Nat
      /\ old \in Seq(Held) /\ Len(old) \in Nat /\ views[v].len <= Len(old)
      /\ Offline!Contents(v) \in Seq(Held) /\ Len(Offline!Contents(v)) = views[v].len
  BY ViewIs
<1>2. CASE end <= Len(old)
  <2>1. arrays' = [arrays EXCEPT ![views[v].array] = spliced] /\ views' = [views EXCEPT ![v] = y]
    BY <1>2 DEF Offline!Appended
  <2>2. spliced \in Seq(Held) /\ Len(spliced) = Len(old)
    <3>1. views[v].len + Len(s) <= Len(old)
      BY <1>2
    <3>2. old \in Seq(Held) /\ views[v].len \in Nat /\ Len(s) \in Nat
      BY <1>1
    <3>3. spliced = Spliced(old, s, views[v].len, Len(s))
      BY DEF Spliced
    <3> HIDE DEF old, spliced
    <3> QED BY <3>1, <3>2, <3>3, SplicedIs
  <2>3. end \in Nat
    BY <1>1
  <2>4. y \in OfflineViews /\ y.array = views[v].array /\ y.len = end /\ y.cursor = cursor
    <3>1. PICK rest \in OfflineViews : rest = views[v]
      BY <1>1
    <3>2. y = [rest EXCEPT !.len = end, !.cursor = cursor]
      BY <3>1
    <3> HIDE DEF end, y
    <3> QED BY <2>3, <3>1, <3>2 DEF OfflineViews
  <2>5. cursor <= y.len /\ y.len <= Len(spliced)
    BY <1>2, <2>2, <2>4
  <2> HIDE DEF spliced, y, end
  <2> QED BY <1>1, <2>1, <2>2, <2>4, <2>5, Stays
<1>3. CASE ~(end <= Len(old))
  <2>1. /\ arrays' = Append(arrays, new)
        /\ views' = [views EXCEPT ![v] = [array |-> Len(arrays) + 1, len |-> end, cursor |-> cursor]]
    BY <1>3 DEF Offline!Appended
  <2>2. Offline!Contents(v) \o s \in Seq(Held) /\ Len(Offline!Contents(v) \o s) = end
    <3> HIDE DEF old
    <3> QED BY <1>1, ConcatProperties
  <2>3. new \in Seq(Held) /\ Len(new) = end + room
    <3> HIDE DEF end
    <3> QED BY <2>2, RoomyIs
  <2>4. Kept(arrays, arrays) /\ end \in Nat /\ end <= end + room /\ cursor <= end
    BY <1>1, ViewIs
  <2> HIDE DEF new, end
  <2> QED BY <2>1, <2>3, <2>4, Moves
<1> QED BY <1>2, <1>3

LEMMA Pushes ==
  ASSUME OfflineOK, NEW v \in 1..Len(views), NEW x \in Pushable, NEW room \in {0, 1},
         Offline!Push(v, x, room)
  PROVE  OfflineOK' /\ Spared(v)
<1>1. /\ views[v] \in OfflineViews /\ views[v].len \in Nat /\ views[v].cursor \in Nat
      /\ views[v].cursor <= views[v].len /\ views[v].len <= Len(arrays[views[v].array])
      /\ arrays[views[v].array] \in Seq(Held) /\ Len(arrays[views[v].array]) \in Nat
      /\ family' = family
  BY ViewIs DEF Offline!Push
<1>2. x \in Held /\ <<x>> \in Seq(Held) /\ Len(<<x>>) = 1
  BY DEF Held
<1>3. CASE views[v].cursor < views[v].len
  <2> DEFINE old == arrays[views[v].array]
             c == views[v].cursor + 1
             new == [old EXCEPT ![c] = x]
             y == [views[v] EXCEPT !.cursor = c]
  <2>1. /\ arrays' = [arrays EXCEPT ![views[v].array][views[v].cursor + 1] = x]
        /\ views' = [views EXCEPT ![v].cursor = @ + 1]
    BY <1>3 DEF Offline!Push
  <2>2. arrays' = [arrays EXCEPT ![views[v].array] = new] /\ views' = [views EXCEPT ![v] = y]
    BY <2>1, Zenon
  <2>3. c \in 1..Len(old) /\ c \in Nat /\ c <= views[v].len
    BY <1>1, <1>3
  <2> HIDE DEF c
  <2>4. new \in Seq(Held) /\ Len(new) = Len(old)
    <3>1. old \in Seq(Held)
      BY <1>1
    <3> HIDE DEF old
    <3> QED BY <1>2, <2>3, <3>1, ExceptSeq
  <2>5. y \in OfflineViews /\ y.array = views[v].array /\ y.len = views[v].len /\ y.cursor = c
    <3>1. PICK rest \in OfflineViews : rest = views[v]
      BY <1>1
    <3>2. y = [rest EXCEPT !.cursor = c]
      BY <3>1
    <3> HIDE DEF y
    <3> QED BY <2>3, <3>1, <3>2 DEF OfflineViews
  <2> HIDE DEF new, y
  <2> QED BY <1>1, <2>2, <2>3, <2>4, <2>5, Stays
<1>4. CASE ~(views[v].cursor < views[v].len)
  <2>1. Offline!Appended(v, <<x>>, room, views[v].len + 1)
    BY <1>4 DEF Offline!Push
  <2> DEFINE s == <<x>>
             c == views[v].len + 1
  <2>2. s \in Seq(Held) /\ c \in Nat /\ c <= views[v].len + Len(s)
    BY <1>1, <1>2
  <2>3. Offline!Appended(v, s, room, c)
    BY <2>1
  <2> HIDE DEF s, c
  <2> QED BY <1>1, <2>2, <2>3, Appends
<1> QED BY <1>3, <1>4

LEMMA LessOf == ASSUME NEW m \in Int, NEW n \in Int
                PROVE  Offline!Min({m, n}) = IF m <= n THEN m ELSE n
<1> DEFINE least == IF m <= n THEN m ELSE n
<1>1. least \in {m, n} /\ \A y \in {m, n} : least <= y
  OBVIOUS
<1>2. \A x \in {m, n} : (\A y \in {m, n} : x <= y) => x = least
  OBVIOUS
<1> HIDE DEF least
<1>3. (CHOOSE x \in {m, n} : \A y \in {m, n} : x <= y) = least
  BY <1>1, <1>2
<1> QED BY <1>3 DEF Offline!Min, least

LEMMA RemainderIs ==
  ASSUME NEW i \in Nat, NEW n \in Nat, n > 0 PROVE i % n \in 0..i
<1>1. i % n \in 0..(n - 1)
  OBVIOUS
<1>2. i < n => i % n = i
  OBVIOUS
<1> QED BY <1>1, <1>2

LEMMA VisitedIs ==
  ASSUME OfflineOK, NEW v \in 1..Len(views), NEW w \in 1..Len(views)
  PROVE  /\ Offline!Visited(w, v) \in Seq(Held)
         /\ Len(Offline!Visited(w, v)) = views[w].len
<1> DEFINE s == Offline!Contents(w)
           n == views[v].len
           r == [i \in DOMAIN s |-> s[((i - 1) % n) + 1]]
<1>1. s \in Seq(Held) /\ Len(s) = views[w].len /\ n \in Nat /\ Len(s) \in Nat
  BY ViewIs
<1>2. (Offline!Visited(w, v) = r /\ n > 0) \/ Offline!Visited(w, v) = s
  BY DEF Offline!Visited
<1>3. CASE n > 0
  <2> HIDE DEF s, n
  <2>1. DOMAIN s = 1..Len(s) /\ \A i \in 1..Len(s) : s[i] \in Held
    BY <1>1
  <2>2. ASSUME NEW i \in 1..Len(s) PROVE ((i - 1) % n) + 1 \in 1..Len(s)
    <3>1. i - 1 \in Nat
      BY <1>1
    <3>2. (i - 1) % n \in 0..(i - 1)
      BY <1>1, <1>3, <3>1, RemainderIs
    <3> HIDE DEF r
    <3> QED BY <1>1, <3>2
  <2>3. r \in [1..Len(s) -> Held]
    BY <2>1, <2>2
  <2>4. r \in Seq(Held) /\ Len(r) = Len(s)
    <3> HIDE DEF r
    <3> QED BY <1>1, <2>3
  <2> QED BY <1>1, <1>2, <2>4
<1>4. CASE ~(n > 0)
  BY <1>1, <1>2, <1>4
<1> QED BY <1>3, <1>4

LEMMA FitsIs ==
  ASSUME NEW size \in Nat, NEW n \in Nat, NEW m \in Nat, n <= size
  PROVE  /\ Offline!Min({size - n, m}) \in Nat /\ Offline!Min({size - n, m}) <= m
         /\ n + Offline!Min({size - n, m}) <= size
<1>1. size - n \in Int /\ m \in Int
  OBVIOUS
<1>2. Offline!Min({size - n, m}) = IF size - n <= m THEN size - n ELSE m
  BY <1>1, LessOf, Zenon
<1> QED BY <1>2

\* What append writes into the room there is, and what there is in the end.
LEMMA Joined ==
  ASSUME NEW old \in Seq(Held), NEW mine \in Seq(Held), NEW given \in Seq(Held),
         NEW n \in Nat, NEW m \in Nat, n = Len(mine), m = Len(given), n <= Len(old),
         NEW fits \in Nat, fits <= m, n + fits <= Len(old)
  PROVE  /\ Spliced(old, SubSeq(given, 1, fits), n, fits) \in Seq(Held)
         /\ Len(Spliced(old, SubSeq(given, 1, fits), n, fits)) = Len(old)
         /\ mine \o given \in Seq(Held) /\ Len(mine \o given) = n + m
         /\ fits = m => n + m <= Len(old)
<1>3. Len(old) \in Nat
  OBVIOUS
<1>4. SubSeq(given, 1, fits) \in Seq(Held) /\ Len(SubSeq(given, 1, fits)) = fits
  <2>1. \A i \in 1..fits : given[i] \in Held
    BY <1>3
  <2>2. fits \in Int /\ 1 \in Int
    BY <1>3
  <2>3. /\ SubSeq(given, 1, fits) \in Seq(Held)
        /\ Len(SubSeq(given, 1, fits)) = fits
    BY <2>1, <2>2, SubSeqProperties
  <2> QED BY <2>3
<1>5. mine \o given \in Seq(Held) /\ Len(mine \o given) = n + m
  BY ConcatProperties
<1>6. /\ Spliced(old, SubSeq(given, 1, fits), n, fits) \in Seq(Held)
      /\ Len(Spliced(old, SubSeq(given, 1, fits), n, fits)) = Len(old)
  <2> DEFINE put == SubSeq(given, 1, fits)
  <2>1. put \in Seq(Held) /\ fits = Len(put)
    BY <1>4
  <2> HIDE DEF put
  <2>2. Spliced(old, put, n, fits) \in Seq(Held) /\ Len(Spliced(old, put, n, fits)) = Len(old)
    BY <1>3, <2>1, SplicedIs
  <2> QED BY <2>2 DEF put
<1> QED BY <1>3, <1>5, <1>6

LEMMA Merges ==
  ASSUME OfflineOK, NEW v \in 1..Len(views), NEW w \in 1..Len(views), NEW room \in {0, 1},
         Offline!Merge(v, w, room)
  PROVE  OfflineOK' /\ Spared(v)
<1> DEFINE old == arrays[views[v].array]
           mine == Offline!Contents(v)
           given == Offline!Visited(w, v)
           n == views[v].len
           m == views[w].len
           cursor == views[v].cursor
           fits == Offline!Min({Len(old) - n, m})
           spliced == Spliced(old, SubSeq(given, 1, fits), n, fits)
           filled == [arrays EXCEPT ![views[v].array] = spliced]
           whole == mine \o given
           new == Offline!Roomy(whole, room)
           y == [views[v] EXCEPT !.len = Len(whole)]
<1>1. /\ old \in Seq(Held) /\ mine \in Seq(Held) /\ n \in Nat /\ n = Len(mine) /\ n <= Len(old)
      /\ m \in Nat /\ cursor \in Nat /\ cursor <= n /\ Len(old) \in Nat
  BY ViewIs
<1>2. /\ OfflineTypes /\ family' = family /\ views[v] \in OfflineViews
      /\ views[v].array \in 1..Len(arrays)
  BY ViewIs DEF OfflineOK, Offline!Merge
<1>3. given \in Seq(Held) /\ m = Len(given)
  BY VisitedIs
<1>4. IF fits = m
      THEN arrays' = filled /\ views' = [views EXCEPT ![v] = y]
      ELSE /\ arrays' = Append(filled, new)
           /\ views' = [views EXCEPT ![v] = [array |-> Len(arrays) + 1, len |-> Len(whole),
                                             cursor |-> cursor]]
  BY Zenon DEF Offline!Merge, Spliced
<1> HIDE DEF mine, given, n, m, cursor
<1>5. /\ spliced \in Seq(Held) /\ Len(spliced) = Len(old)
      /\ whole \in Seq(Held) /\ Len(whole) = n + m
      /\ fits = m => n + m <= Len(old)
  <2>1. fits \in Nat /\ fits <= m /\ n + fits <= Len(old)
    <3> HIDE DEF old
    <3> QED BY <1>1, FitsIs, Zenon
  <2>2. spliced = Spliced(old, SubSeq(given, 1, fits), n, fits) /\ whole = mine \o given
    OBVIOUS
  <2> HIDE DEF old, fits, spliced, whole
  <2> QED BY <1>1, <1>3, <2>1, <2>2, Joined
<1> HIDE DEF spliced, whole, fits
<1>6. Len(whole) \in Nat /\ cursor <= Len(whole) /\ (fits = m => Len(whole) <= Len(spliced))
  <2> HIDE DEF old
  <2> QED BY <1>1, <1>5
<1>7. CASE fits = m
  <2>1. y \in OfflineViews /\ y.array = views[v].array /\ y.len = Len(whole) /\ y.cursor = cursor
    <3>1. PICK rest \in OfflineViews : rest = views[v]
      BY <1>2
    <3>2. y = [rest EXCEPT !.len = Len(whole)]
      BY <3>1
    <3>3. cursor = rest.cursor
      BY <3>1 DEF cursor
    <3> HIDE DEF y
    <3> QED BY <1>6, <3>1, <3>2, <3>3 DEF OfflineViews
  <2>2. arrays' = [arrays EXCEPT ![views[v].array] = spliced] /\ views' = [views EXCEPT ![v] = y]
    BY <1>4, <1>7
  <2>3. y.len <= Len(spliced) /\ y.cursor <= y.len
    BY <1>6, <1>7, <2>1
  <2> HIDE DEF y
  <2> QED BY <1>2, <1>5, <2>1, <2>2, <2>3, Stays
<1>8. CASE fits # m
  <2>1. /\ Kept(arrays, filled) /\ Len(filled) = Len(arrays)
        /\ \A b \in 1..Len(arrays) : b # views[v].array => filled[b] = arrays[b]
    BY <1>2, <1>5, Rewritten
  <2>2. new \in Seq(Held) /\ Len(new) = Len(whole) + room
    BY <1>5, RoomyIs
  <2>3. /\ arrays' = Append(filled, new)
        /\ views' = [views EXCEPT ![v] = [array |-> Len(arrays) + 1, len |-> Len(whole),
                                          cursor |-> cursor]]
    BY <1>4, <1>8
  <2> HIDE DEF filled, new, old
  <2>4. Len(whole) <= Len(new) /\ cursor \in Nat
    BY <1>1, <1>6, <2>2
  <2> QED BY <1>2, <1>6, <2>1, <2>2, <2>3, <2>4, Moves
<1> QED BY <1>7, <1>8

LEMMA OfflineKeeps ==
  ASSUME OfflineOK, [Offline!Next]_(Offline!offlineVars) PROVE OfflineOK'
<1>1. Offline!Made = 1..Len(views)
  BY DEF OfflineOK, OfflineTypes, Offline!Made
<1>2. CASE UNCHANGED Offline!offlineVars
  BY <1>2 DEF Offline!offlineVars, OfflineOK, OfflineTypes, Fits
<1>3. CASE Offline!Next
  <2>1. ASSUME NEW s \in Slices, NEW room \in {0, 1}, Offline!NewOfflineRing(s, room) PROVE OfflineOK'
    BY <2>1, NewRing
  <2>2. ASSUME NEW v \in 1..Len(views), NEW x \in Pushable, NEW room \in {0, 1},
               Offline!Push(v, x, room)
        PROVE  OfflineOK'
    BY <2>2, Pushes
  <2>3. ASSUME NEW v \in 1..Len(views), NEW step \in -MaxOfflineStep..MaxOfflineStep,
               Offline!Select(v, step)
        PROVE  OfflineOK'
    BY <2>3, Selects
  <2>4. ASSUME NEW v \in 1..Len(views), NEW w \in 1..Len(views), NEW room \in {0, 1},
               Offline!Merge(v, w, room)
        PROVE  OfflineOK'
    BY <2>4, Merges
  <2>5. ASSUME NEW v \in 1..Len(views), NEW count \in 0..MaxOfflineStep, NEW room \in {0, 1},
               Offline!Slice(v, count, room)
        PROVE  OfflineOK'
    BY <2>5, Cuts
  <2> QED BY <1>1, <1>3, <2>1, <2>2, <2>3, <2>4, <2>5 DEF Offline!Next
<1> QED BY <1>2, <1>3

\* What a ring holds depends on its own view and on the array of that.
LEMMA Apart ==
  ASSUME OfflineOK, NEW v \in 1..Len(views), NEW w \in 1..Len(views), Spared(v),
         family[w] # family[v]
  PROVE  Offline!Contents(w)' = Offline!Contents(w)
<1>1. views[w].array # views[v].array
  BY DEF OfflineOK
<1>2. views'[w] = views[w] /\ arrays'[views[w].array] = arrays[views[w].array]
  BY <1>1 DEF Spared
<1> QED BY <1>2 DEF Offline!Contents

\* Calls to an offline ring change only what it holds and what the rings hold
\* that Select has made from it or it from them, and no cursor leaves its ring,
\* whatever the slices, the values and the number of rings (Push, Select, Merge,
\* Slice): two views share an array only in one family.
THEOREM OfflineRingsApart == RingsSpec => OfflineApart
<1>1. RingsInit => OfflineOK
  BY DEF RingsInit, Offline!Init, OfflineOK, OfflineTypes
<1>2. OfflineOK /\ [RingsNext]_ringsVars => OfflineOK'
  <2>1. [RingsNext]_ringsVars => [Offline!Next]_(Offline!offlineVars)
    BY DEF RingsNext, ringsVars, offlineVars, Offline!offlineVars
  <2> QED BY <2>1, OfflineKeeps
<1> DEFINE Step ==
  /\ \A v \in Offline!Made : views[v].cursor \in 0..views[v].len
  /\ \A v, u \in Offline!Made, room \in {0, 1} :
       (\E x \in Pushable : Offline!Push(v, x, room)) \/ Offline!Merge(v, u, room) =>
         \A w \in Offline!Made : family[w] # family[v] => Offline!Contents(w)' = Offline!Contents(w)
<1>3. OfflineOK => Step
  <2> SUFFICES ASSUME OfflineOK PROVE Step
    OBVIOUS
  <2>1. Offline!Made = 1..Len(views)
    BY DEF OfflineOK, OfflineTypes, Offline!Made
  <2>2. \A v \in Offline!Made : views[v].cursor \in 0..views[v].len
    BY <2>1, ViewIs
  <2>3. \A v, u \in 1..Len(views), room \in {0, 1} :
          (\E x \in Pushable : Offline!Push(v, x, room)) \/ Offline!Merge(v, u, room) =>
            Spared(v)
    BY Pushes, Merges
  <2> QED BY <2>1, <2>2, <2>3, Apart
<1>4. OfflineOK => [Step]_(Offline!offlineVars)
  BY <1>3
<1> QED BY <1>1, <1>2, <1>4, PTL DEF RingsSpec, OfflineApart, Offline!OfflineApart
-----------------------------------------------------------------------------
(***************************************************************************)
(* A clock.  Clock!IInv is inductive: its first part follows the producer  *)
(* of an observation through the rings and fields, its second says what    *)
(* each consumer's call knows.                                             *)
(***************************************************************************)

LEMMA Constants ==
  /\ Timeline \notin Tracks /\ Tracks \subseteq Clock!Rings /\ Timeline \in Clock!Rings
  /\ ClockCapacity \in Nat /\ ClockCapacity >= 1 /\ TrackCapacity \in Nat /\ TrackCapacity >= 1
  /\ \A r \in Clock!Rings : Clock!CapacityOf(r) \in Nat /\ Clock!CapacityOf(r) >= 1
  /\ Clock!CapacityOf(Timeline) = ClockCapacity /\ \A k \in Tracks : Clock!CapacityOf(k) = TrackCapacity
  /\ Nanos \in Nat /\ Nanos >= 1 /\ LastWall \in Nat /\ MaxObservations \in Nat
  /\ \A m \in Modes : m \in Clock!Mode
  /\ None \notin [item : Nat, seq : Nat]
BY ClockAssumption DEF Clock!ClockAssumption, Clock!Rings, Clock!CapacityOf

LEMMA SlotIs ==
  ASSUME NEW r \in Clock!Rings, NEW p \in Nat
  PROVE  Clock!Slot(r, p) \in Clock!Slots(r)
BY Constants DEF Clock!Slot, Clock!Slots

LEMMA SlotsApart ==
  ASSUME NEW r \in Clock!Rings, NEW p \in Nat, NEW q \in Nat, p < q, q - p < Clock!CapacityOf(r)
  PROVE  Clock!Slot(r, p) # Clock!Slot(r, q)
<1>1. Clock!CapacityOf(r) \in Nat /\ Clock!CapacityOf(r) >= 1
  BY Constants
<1> SUFFICES ASSUME Clock!Slot(r, p) = Clock!Slot(r, q) PROVE FALSE
  OBVIOUS
<1>2. q >= p + Clock!CapacityOf(r)
  <2>1. (p % Clock!CapacityOf(r)) = (q % Clock!CapacityOf(r))
    BY DEF Clock!Slot
  <2> QED BY <2>1, <1>1, ModApart, Zenon
<1> QED BY <1>1, <1>2

\* Storing in a slot of a ring leaves its other slots and the other rings.
LEMMA SetIs ==
  ASSUME NEW f, DOMAIN f = Clock!Rings, NEW r \in Clock!Rings, NEW s \in Clock!Slots(r), NEW x, NEW S, x \in S,
         f[r] \in [Clock!Slots(r) -> S]
  PROVE  LET g == [f EXCEPT ![r][s] = x] IN
         /\ DOMAIN g = Clock!Rings /\ g[r] \in [Clock!Slots(r) -> S] /\ g[r][s] = x
         /\ \A t \in Clock!Slots(r) : t # s => g[r][t] = f[r][t]
         /\ \A q \in Clock!Rings : q # r => g[q] = f[q]
<1> DEFINE e == [f[r] EXCEPT ![s] = x]
           g == [f EXCEPT ![r] = e]
<1>1. e \in [Clock!Slots(r) -> S] /\ e[s] = x /\ \A t \in Clock!Slots(r) : t # s => e[t] = f[r][t]
  OBVIOUS
<1> HIDE DEF e
<1>2. DOMAIN g = Clock!Rings /\ g[r] = e /\ \A q \in Clock!Rings : q # r => g[q] = f[q]
  OBVIOUS
<1>3. g = [f EXCEPT ![r][s] = x]
  BY DEF e
<1> HIDE DEF g
<1> QED BY <1>1, <1>2, <1>3

-----------------------------------------------------------------------------
(* The producer's record *)

LEMMA PushGoes ==
  ASSUME push \in Clock!Pushes, NEW l \in Clock!Labels, Clock!GoTo(l)
  PROVE  /\ push' \in Clock!Pushes /\ push'.pc = l /\ push'.track = push.track
         /\ push'.wall = push.wall /\ push'.seq = push.seq /\ push'.into = push.into
BY DEF Clock!Pushes, Clock!GoTo

LEMMA PushRests ==
  ASSUME push' = Clock!Idle
  PROVE  push' \in Clock!Pushes /\ push'.pc = "idle" /\ push'.into = Timeline /\ push'.track = None
BY Constants DEF Clock!Pushes, Clock!Idle, Clock!Labels, Clock!Seqs

\* What every step but Observe leaves: the histories.
LEMMA HistoryRests ==
  ASSUME Clock!HistoryOK, UNCHANGED <<mode, sequence, Clock!history>>,
         push' \in Clock!Pushes, err' \in BOOLEAN, err' => Clock!At("idle")',
         ~Clock!At("idle")' => ~Clock!At("idle") /\ push'.track = push.track /\ push'.seq = push.seq
                         /\ push'.wall = push.wall /\ push'.into \in {push.into, push.track},
         Clock!At("first")' => push'.into = Timeline,
         push'.pc \in Clock!Sizing \ Clock!Pushing => push'.into = push'.track
  PROVE  Clock!HistoryOK'
<1> USE DEF Clock!HistoryOK, Clock!history
<1>1. ~Clock!At("idle")' => /\ push'.track \in Tracks /\ push'.into \in {Timeline, push'.track}
                            /\ push'.seq = sequence' /\ sequence' >= 1
                            /\ log'[sequence'].wall = push'.wall
                            /\ \A r \in {Timeline, push'.track} :
                                 Len(made'[r]) >= 1 /\ made'[r][Len(made'[r])] = sequence'
  OBVIOUS
<1> QED BY <1>1, Zenon DEF Clock!At

Observing == \E k \in mode.tracks, w \in 1..mode.lastWall : Clock!Observe(k, w)
Storing == \/ Clock!First \/ Clock!PushFails \/ Clock!PushStart \/ Clock!EvictClear \/ Clock!EvictUnready \/ Clock!EvictAdvance
           \/ Clock!PushWrite \/ Clock!PushReady \/ Clock!PushPublish
           \/ Clock!LatestSeconds \/ Clock!LatestNanos \/ Clock!Count \/ Clock!Size \/ Clock!SizeCap

LEMMA ModeIs ==
  ASSUME Clock!HistoryOK
  PROVE  /\ mode.tracks \subseteq Tracks /\ mode.lastWall \in 1..LastWall
         /\ mode.dropOldest \in BOOLEAN /\ mode.overlap \in BOOLEAN
BY Constants DEF Clock!HistoryOK, Clock!Mode

\* What Observe does to the histories and the producer.
Observed(k, w) ==
  /\ Clock!At("idle") /\ ~err /\ sequence \in Nat /\ sequence < MaxObservations
  /\ sequence' = sequence + 1
  /\ push' = [pc |-> "first", track |-> k, wall |-> w, seq |-> sequence + 1,
              into |-> Timeline]
  /\ log' \in Seq([track : Tracks, wall : Clock!Walls]) /\ Len(log') = sequence + 1
  /\ \A i \in 1..sequence : log'[i] = log[i]
  /\ log'[sequence + 1].wall = w
  /\ made' \in [Clock!Rings -> Seq(Nat)]
  /\ \A r \in Clock!Rings \ {Timeline, k} : made'[r] = made[r]
  /\ \A r \in {Timeline, k} : /\ Len(made'[r]) = Len(made[r]) + 1
                              /\ made'[r][Len(made[r]) + 1] = sequence + 1
  /\ \A r \in Clock!Rings : /\ Len(made[r]) \in Nat
                            /\ \A i \in 1..Len(made[r]) : made'[r][i] = made[r][i]

LEMMA ObservedIs ==
  ASSUME Clock!HistoryOK, NEW k \in Tracks, NEW w \in Clock!Walls, Clock!Observe(k, w)
  PROVE  Observed(k, w)
<1>1. /\ Clock!At("idle") /\ ~err /\ sequence' = sequence + 1 /\ sequence < MaxObservations
      /\ push' = [pc |-> "first", track |-> k, wall |-> w, seq |-> sequence + 1,
                  into |-> Timeline]
      /\ sequence \in Nat
  BY Constants DEF Clock!Observe, Clock!HistoryOK, Clock!Seqs
<1>2. /\ log' \in Seq([track : Tracks, wall : Clock!Walls]) /\ Len(log') = sequence + 1
      /\ \A i \in 1..sequence : log'[i] = log[i]
      /\ log'[sequence + 1].wall = w
  <2> DEFINE e == [track |-> k, wall |-> w]
             S == [track : Tracks, wall : Clock!Walls]
  <2>1. e \in S /\ e.wall = w /\ log \in Seq(S) /\ Len(log) = sequence
    BY DEF Clock!HistoryOK
  <2>2. log' = Append(log, e)
    BY DEF Clock!Observe
  <2> HIDE DEF e, S
  <2>3. log' \in Seq(S) /\ Len(log') = Len(log) + 1 /\ log'[Len(log) + 1] = e
        /\ \A i \in 1..Len(log) : log'[i] = log[i]
    BY <2>1, <2>2, AppendProperties
  <2> QED BY <2>1, <2>3 DEF S
<1>3. /\ made' \in [Clock!Rings -> Seq(Nat)]
      /\ \A r \in Clock!Rings \ {Timeline, k} : made'[r] = made[r]
      /\ \A r \in {Timeline, k} : made'[r] = Append(made[r], sequence + 1)
  <2>1. Timeline \in Clock!Rings /\ k \in Clock!Rings /\ k # Timeline /\ made \in [Clock!Rings -> Seq(Nat)]
    BY Constants DEF Clock!HistoryOK
  <2>2. made' = [made EXCEPT ![Timeline] = Append(@, sequence + 1),
                             ![k] = Append(@, sequence + 1)]
    BY DEF Clock!Observe
  <2>3. \A r \in Clock!Rings : Append(made[r], sequence + 1) \in Seq(Nat)
    BY <1>1, <2>1, AppendProperties
  <2> QED BY <2>1, <2>2, <2>3
<1>4. ASSUME NEW r \in {Timeline, k}
      PROVE  /\ Len(made'[r]) = Len(made[r]) + 1
             /\ \A i \in 1..Len(made[r]) : made'[r][i] = made[r][i]
             /\ made'[r][Len(made[r]) + 1] = sequence + 1
  <2> DEFINE s == made[r]
             n == sequence + 1
  <2>1. s \in Seq(Nat) /\ n \in Nat
    BY <1>1, Constants DEF Clock!HistoryOK
  <2>3. made'[r] = Append(s, n)
    BY <1>3
  <2> HIDE DEF s, n
  <2>2. /\ Len(Append(s, n)) = Len(s) + 1 /\ Append(s, n)[Len(s) + 1] = n
        /\ \A i \in 1..Len(s) : Append(s, n)[i] = s[i]
    BY <2>1, AppendProperties
  <2> QED BY <2>2, <2>3 DEF s, n
<1>5. \A r \in Clock!Rings : Len(made[r]) \in Nat
  BY DEF Clock!HistoryOK
<1> QED BY <1>1, <1>2, <1>3, <1>4, <1>5 DEF Observed

LEMMA ObserveHistory ==
  ASSUME Clock!HistoryOK, NEW k \in Tracks, NEW w \in Clock!Walls, Observed(k, w), err' = err, mode' = mode
  PROVE  Clock!HistoryOK'
<1> USE DEF Observed
<1>1. /\ log' \in Seq([track : Tracks, wall : Clock!Walls])
      /\ sequence' = Len(log') /\ sequence' \in Clock!Seqs /\ sequence' = sequence + 1
      /\ sequence \in Nat
      /\ push'.pc = "first" /\ push'.track = k /\ push'.wall = w
      /\ push'.seq = sequence + 1 /\ push'.into = Timeline
  BY Constants DEF Clock!Seqs
<1>2. push' \in Clock!Pushes
  BY <1>1, Constants DEF Clock!Pushes, Clock!Labels, Clock!Sizing, Clock!Counting, Clock!Timing,
     Clock!Pushing, Clock!Walls, Clock!Seqs
<1>3. \A r \in Clock!Rings : /\ made[r] \in Seq(Nat) /\ Len(made[r]) \in Nat
                             /\ \A i \in 1..Len(made[r]) : made[r][i] \in 1..sequence
                             /\ \A i, j \in 1..Len(made[r]) : i < j => made[r][i] < made[r][j]
  BY DEF Clock!HistoryOK
<1>4. ASSUME NEW r \in Clock!Rings
      PROVE  /\ \A i \in 1..Len(made'[r]) : made'[r][i] \in 1..(sequence + 1)
             /\ \A i, j \in 1..Len(made'[r]) : i < j => made'[r][i] < made'[r][j]
  <2>1. CASE r \in {Timeline, k}
    <3>1. /\ Len(made'[r]) = Len(made[r]) + 1
          /\ made'[r][Len(made[r]) + 1] = sequence + 1
          /\ \A i \in 1..Len(made[r]) : made'[r][i] = made[r][i]
      BY <2>1
    <3> DEFINE m == Len(made[r])
    <3>2. \A i \in 1..Len(made'[r]) : i \in 1..m \/ i = m + 1
      BY <3>1, <1>3
    <3>3. /\ \A i \in 1..m : made'[r][i] \in 1..sequence
          /\ \A i, j \in 1..m : i < j => made'[r][i] < made'[r][j]
      BY <3>1, <1>3
    <3>4. made'[r][m + 1] = sequence + 1 /\ m \in Nat
      BY <3>1, <1>3
    <3> HIDE DEF m, Observed
    <3>5. sequence + 1 \in 1..(sequence + 1)
          /\ \A a \in 1..sequence : a \in 1..(sequence + 1) /\ a < sequence + 1
      BY <1>1
    <3>6. \A i \in 1..Len(made'[r]) : made'[r][i] \in 1..(sequence + 1)
      BY <3>2, <3>3, <3>4, <3>5
    <3>7. \A i \in 1..m : made'[r][i] < sequence + 1
      BY <3>3, <3>5
    <3>8. \A i, j \in 1..Len(made'[r]) : i < j => i \in 1..m
      BY <3>2, <3>4
    <3>9. \A i, j \in 1..Len(made'[r]) : i < j => made'[r][i] < made'[r][j]
      BY <3>2, <3>3, <3>4, <3>7, <3>8
    <3> QED BY <3>6, <3>9
  <2>2. CASE r \notin {Timeline, k}
    <3>1. made'[r] = made[r]
      BY <2>2
    <3> QED BY <3>1, <1>1, <1>3
  <2> QED BY <2>1, <2>2
<1>5. Len(made'[Timeline]) = sequence' /\ \A i \in 1..sequence' : made'[Timeline][i] = i
  <2>1. /\ Len(made[Timeline]) = sequence /\ \A i \in 1..sequence : made[Timeline][i] = i
        /\ Len(made'[Timeline]) = sequence + 1 /\ made'[Timeline][sequence + 1] = sequence + 1
        /\ \A i \in 1..sequence : made'[Timeline][i] = made[Timeline][i]
    BY Constants DEF Clock!HistoryOK
  <2>2. \A i \in 1..(sequence + 1) : i \in 1..sequence \/ i = sequence + 1
    BY <1>1
  <2> HIDE DEF Observed
  <2> QED BY <1>1, <2>1, <2>2
<1>6. \A r \in {Timeline, k} : Len(made'[r]) >= 1 /\ made'[r][Len(made'[r])] = sequence'
  <2> TAKE r \in {Timeline, k}
  <2>1. /\ Len(made'[r]) = Len(made[r]) + 1 /\ r \in Clock!Rings
        /\ made'[r][Len(made[r]) + 1] = sequence + 1
    BY Constants
  <2> QED BY <2>1, <1>1, <1>3
<1>7. log'[sequence'].wall = push'.wall /\ sequence' >= 1
  BY <1>1
<1>8. err' \in BOOLEAN /\ ~err'
  BY DEF Clock!HistoryOK
<1>9. push'.pc \notin Clock!Sizing \ Clock!Pushing
  BY <1>1 DEF Clock!Pushing
<1>10. made' \in [Clock!Rings -> Seq(Nat)] /\ mode' \in Modes
  BY DEF Clock!HistoryOK
<1> QED BY <1>1, <1>2, <1>4, <1>5, <1>6, <1>7, <1>8, <1>9, <1>10, SMTT(30) DEF Clock!HistoryOK,
   Clock!At

LEMMA StoringHistory ==
  ASSUME Clock!HistoryOK, Storing, mode' = mode
  PROVE  Clock!HistoryOK'
<1> USE DEF Clock!GoTo, Clock!UnchangedScalars, Clock!ring, Clock!track, Clock!clock,
   Clock!history, Clock!At
<1>1. push \in Clock!Pushes /\ err \in BOOLEAN
  BY DEF Clock!HistoryOK
<1>2. UNCHANGED <<mode, sequence, Clock!history>>
  BY DEF Storing, Clock!First, Clock!PushFails, Clock!PushStart, Clock!EvictClear,
     Clock!EvictUnready, Clock!EvictAdvance,
         Clock!PushWrite, Clock!PushReady, Clock!PushPublish, Clock!LatestSeconds,
            Clock!LatestNanos, Clock!Count, Clock!Size, Clock!SizeCap
<1>3. CASE push' = Clock!Idle /\ err' \in BOOLEAN
  BY <1>2, <1>3, PushRests, HistoryRests DEF Clock!Sizing, Clock!Counting, Clock!Timing,
     Clock!Pushing
<1>4. CASE err' = err /\ \E l \in Clock!Labels \ {"idle", "first"} :
             /\ Clock!GoTo(l) /\ push.pc # "idle"
             /\ l \in Clock!Sizing \ Clock!Pushing => push.into = push.track
  <2>1. PICK l \in Clock!Labels \ {"idle", "first"} :
             /\ Clock!GoTo(l) /\ push.pc # "idle"
             /\ l \in Clock!Sizing \ Clock!Pushing => push.into = push.track
    BY <1>4
  <2>2. /\ push' \in Clock!Pushes /\ push'.pc = l /\ push'.track = push.track
        /\ push'.wall = push.wall /\ push'.seq = push.seq /\ push'.into = push.into
    BY <1>1, <2>1, PushGoes
  <2>3. err' => Clock!At("idle")'
    BY <1>4, <2>1 DEF Clock!HistoryOK
  <2> QED BY <1>1, <1>2, <1>4, <2>1, <2>2, <2>3, HistoryRests
<1>5. CASE Clock!PushPublish
  <2>1. err' = err /\ push.pc = "publish" /\ ~err
    BY <1>5 DEF Clock!PushPublish, Clock!HistoryOK
  <2>2. CASE push.into = Timeline
    <3>1. push' = [push EXCEPT !.pc = "push", !.into = push.track]
      BY <1>5, <2>2 DEF Clock!PushPublish
    <3>2. push.track \in Clock!Rings
      BY <2>1, Constants DEF Clock!HistoryOK
    <3>3. /\ push' \in Clock!Pushes /\ push'.pc = "push" /\ push'.track = push.track
          /\ push'.wall = push.wall /\ push'.seq = push.seq /\ push'.into = push.track
      BY <1>1, <3>1, <3>2 DEF Clock!Pushes, Clock!Labels, Clock!Sizing, Clock!Counting,
         Clock!Timing, Clock!Pushing
    <3> QED BY <1>1, <1>2, <2>1, <3>3, HistoryRests DEF Clock!Pushing
  <2>3. CASE push.into # Timeline
    <3>1. Clock!GoTo("seconds")
      BY <1>5, <2>3 DEF Clock!PushPublish
    <3>2. "seconds" \in Clock!Labels \ {"idle", "first"} /\ push.into = push.track
      BY <2>1, <2>3 DEF Clock!Labels, Clock!Sizing, Clock!Counting, Clock!Timing, Clock!HistoryOK
    <3> QED BY <1>4, <2>1, <3>1, <3>2
  <2> QED BY <2>2, <2>3
<1>6. {"push", "clear", "write", "unready", "advance", "ready", "publish", "seconds", "nanos",
       "count", "size", "cap"} = Clock!Labels \ {"idle", "first"}
  BY DEF Clock!Labels, Clock!Sizing, Clock!Counting, Clock!Timing, Clock!Pushing
<1>7. "cap" \notin Clock!Sizing \ Clock!Pushing
  BY DEF Clock!Sizing, Clock!Counting, Clock!Timing, Clock!Pushing
<1>8. push.pc \in {"seconds", "nanos", "count", "size"} => push.into = push.track
  BY DEF Clock!HistoryOK, Clock!Sizing, Clock!Counting, Clock!Timing, Clock!Pushing
<1>9. {"push", "clear", "write", "unready", "advance", "ready", "publish"} \subseteq Clock!Pushing
  BY DEF Clock!Pushing
<1>10. CASE Clock!First \/ Clock!PushStart \/ Clock!EvictClear \/ Clock!EvictUnready \/ Clock!EvictAdvance \/ Clock!PushWrite \/ Clock!PushReady
  BY <1>10, <1>4, <1>6, <1>9 DEF Clock!First, Clock!PushStart, Clock!EvictClear,
     Clock!EvictUnready, Clock!EvictAdvance,
     Clock!PushWrite, Clock!PushReady
<1>11. CASE Clock!LatestSeconds \/ Clock!LatestNanos \/ Clock!Count
  BY <1>11, <1>4, <1>6, <1>8 DEF Clock!LatestSeconds, Clock!LatestNanos, Clock!Count
<1>12. CASE Clock!Size
  BY <1>1, <1>12, <1>3, <1>4, <1>6, <1>7 DEF Clock!Size
<1>13. CASE Clock!PushFails \/ Clock!SizeCap
  BY <1>1, <1>13, <1>3 DEF Clock!PushFails, Clock!SizeCap
<1> QED BY <1>5, <1>10, <1>11, <1>12, <1>13 DEF Storing

-----------------------------------------------------------------------------
(* The rings: what a push does to the ring that it is in, and to the others *)

RingOK(r) == Clock!WindowOK(r) /\ Clock!SlotsOK(r)
Away(r)   == ~Clock!On(r, Clock!Evicting \cup Clock!Writing)

\* A ring that a step does not touch.
LEMMA RingStays ==
  ASSUME NEW r \in Clock!Rings, RingOK(r), Away(r), Away(r)',
         heads'[r] = heads[r], tails'[r] = tails[r], slotValues'[r] = slotValues[r], slotReady'[r] = slotReady[r],
         err' \in BOOLEAN, err => err',
         ~err' => /\ Clock!Published(r)' = Clock!Published(r)
                  /\ \A p \in Nat : p < heads[r] => made'[r][p + 1] = made[r][p + 1]
  PROVE  RingOK(r)'
<1>1. /\ ~Clock!On(r, Clock!Evicting) /\ ~Clock!On(r, Clock!Writing) /\ ~Clock!On(r, {"unready", "advance"})
      /\ ~Clock!On(r, {"advance"}) /\ ~Clock!On(r, {"ready", "publish"}) /\ ~Clock!On(r, {"publish"})
  BY DEF Away, Clock!On, Clock!Evicting, Clock!Writing
<1>2. /\ ~Clock!On(r, Clock!Evicting)' /\ ~Clock!On(r, Clock!Writing)' /\ ~Clock!On(r, {"unready", "advance"})'
      /\ ~Clock!On(r, {"advance"})' /\ ~Clock!On(r, {"ready", "publish"})' /\ ~Clock!On(r, {"publish"})'
  BY DEF Away, Clock!On, Clock!Evicting, Clock!Writing
<1>3. Clock!WindowOK(r)'
  BY <1>1, <1>2 DEF RingOK, Clock!WindowOK
<1>4. Clock!SlotsOK(r)'
  <2>1. /\ slotValues[r] \in [Clock!Slots(r) -> Clock!Seqs] /\ slotReady[r] \in [Clock!Slots(r) -> BOOLEAN]
        /\ ~err => \A p \in Nat : tails[r] <= p /\ p < heads[r] =>
             slotValues[r][Clock!Slot(r, p)] = made[r][p + 1] /\ slotReady[r][Clock!Slot(r, p)]
    BY <1>1 DEF RingOK, Clock!SlotsOK
  <2>2. ~err' => \A p \in Nat : tails'[r] <= p /\ p < heads'[r] =>
             slotValues'[r][Clock!Slot(r, p)] = made'[r][p + 1] /\ slotReady'[r][Clock!Slot(r, p)]
    BY <2>1
  <2> QED BY <2>1, <2>2, <1>2 DEF Clock!SlotsOK
<1> QED BY <1>3, <1>4 DEF RingOK

\* A step that stores no label of a push in the ring and moves no other one.
LEMMA OthersStay ==
  ASSUME Clock!HistoryOK, Clock!RingsOK, Storing, NEW r \in Clock!Rings, r # push.into,
         heads'[r] = heads[r], tails'[r] = tails[r], slotValues'[r] = slotValues[r], slotReady'[r] = slotReady[r],
         made' = made, err' \in BOOLEAN, err => err',
         Away(r)', ~err' => Clock!Published(r)' = Clock!Published(r)
  PROVE  RingOK(r)'
<1>1. RingOK(r) /\ Away(r)
  BY DEF Clock!RingsOK, RingOK, Away, Clock!On
<1> QED BY <1>1, RingStays

\* The numbers of the ring that is pushed to.
LEMMA Busy ==
  ASSUME Clock!HistoryOK, Clock!RingsOK, push.pc \in Clock!Evicting \cup Clock!Writing \cup {"push"}
  PROVE  /\ ~err /\ push.into \in Clock!Rings /\ RingOK(push.into)
         /\ heads[push.into] \in Nat /\ tails[push.into] \in Nat
         /\ tails[push.into] <= heads[push.into]
         /\ heads[push.into] <= tails[push.into] + Clock!CapacityOf(push.into)
         /\ Clock!CapacityOf(push.into) \in Nat /\ Clock!CapacityOf(push.into) >= 1
         /\ Clock!Published(push.into) = Len(made[push.into]) - 1
         /\ heads[push.into] = Len(made[push.into]) - 1
         /\ push.seq = sequence /\ sequence \in Clock!Seqs
         /\ made[push.into][Len(made[push.into])] = sequence
<1>1. push.pc \in Clock!Pushing /\ push.pc # "idle"
  BY DEF Clock!Evicting, Clock!Writing, Clock!Pushing
<1>2. ~err /\ push.into \in Clock!Rings /\ push.into \in {Timeline, push.track}
  BY <1>1, Constants DEF Clock!HistoryOK, Clock!At
<1>3. RingOK(push.into)
  BY <1>2 DEF Clock!RingsOK, RingOK
<1>4. Clock!Published(push.into) = Len(made[push.into]) - 1
  BY <1>1 DEF Clock!Published
<1>5. push.seq = sequence /\ sequence \in Clock!Seqs /\ made[push.into][Len(made[push.into])] = sequence
  BY <1>1, <1>2 DEF Clock!HistoryOK, Clock!At
<1> QED BY <1>2, <1>3, <1>4, <1>5, Constants DEF RingOK, Clock!WindowOK

LEMMA StartRing ==
  ASSUME Clock!HistoryOK, Clock!RingsOK, Clock!PushStart, mode' = mode PROVE Clock!RingsOK'
<1>1. Clock!At("push") /\ UNCHANGED <<Clock!clock, Clock!history>> /\ push \in Clock!Pushes
  BY DEF Clock!PushStart, Clock!HistoryOK
<1>0. PICK r \in Clock!Rings : r = push.into
  BY <1>1, Busy DEF Clock!At
<1>2. UNCHANGED <<heads, tails, slotValues, slotReady, made, err>>
  BY <1>1 DEF Clock!clock, Clock!ring, Clock!history
<1>3. PICK l \in {"clear", "write"} : Clock!GoTo(l) /\ (l = "clear" <=> Clock!Full)
  BY DEF Clock!PushStart
<1>4. push'.pc = l /\ push'.into = push.into /\ push'.track = push.track
  BY <1>1, <1>3, PushGoes DEF Clock!Labels, Clock!Sizing, Clock!Counting, Clock!Timing,
     Clock!Pushing
<1>5. \A q \in Clock!Rings : Clock!Published(q)' = Clock!Published(q)
  BY <1>1, <1>2, <1>4 DEF Clock!Published, Clock!Pushing, Clock!At
<1>6. ASSUME NEW q \in Clock!Rings, q # r PROVE RingOK(q)'
  <2>1. Away(q)'
    BY <1>0, <1>4, <1>6 DEF Away, Clock!On
  <2> QED BY <1>0, <1>1, <1>2, <1>5, <1>6, <2>1, OthersStay DEF Storing, Clock!HistoryOK
<1>7. /\ ~err /\ r \in Clock!Rings /\ RingOK(r) /\ heads[r] \in Nat /\ tails[r] \in Nat
      /\ Clock!CapacityOf(r) \in Nat /\ heads[r] <= tails[r] + Clock!CapacityOf(r)
  BY <1>0, <1>1, Busy DEF Clock!At
<1>8. Clock!WindowOK(r)'
  <2>1. /\ heads[r] = Clock!Published(r) /\ tails[r] = Clock!Most(0, heads[r] - Clock!CapacityOf(r))
        /\ tails[r] <= heads[r]
    BY <1>0, <1>1, <1>7 DEF RingOK, Clock!WindowOK, Clock!On, Clock!Writing, Clock!At
  <2>2. l = "clear" => heads[r] = tails[r] + Clock!CapacityOf(r)
    BY <1>0, <1>3, <1>7 DEF Clock!Full, Clock!Queued
  <2>3. l = "write" => tails[r] = Clock!Most(0, heads[r] - Clock!CapacityOf(r) + 1)
    BY <1>0, <1>3, <1>7, <2>1 DEF Clock!Full, Clock!Queued, Clock!Most
  <2>4. (Clock!On(r, Clock!Evicting)' <=> l = "clear") /\ (Clock!On(r, Clock!Writing)' <=> l = "write")
    BY <1>0, <1>4 DEF Clock!On, Clock!Evicting, Clock!Writing
  <2> QED BY <1>2, <1>5, <1>7, <2>1, <2>2, <2>3, <2>4 DEF Clock!WindowOK
<1>9. Clock!SlotsOK(r)'
  BY <1>0, <1>1, <1>2, <1>3, <1>4, <1>7 DEF RingOK, Clock!SlotsOK, Clock!On, Clock!At
<1> QED BY <1>2, <1>6, <1>8, <1>9 DEF Clock!RingsOK, RingOK

\* A step that stores in the ring that is pushed to, or moves its head or tail.
LEMMA RingMoves ==
  ASSUME Clock!HistoryOK, Clock!RingsOK, Storing, NEW r \in Clock!Rings, r = push.into, RingOK(r)',
         made' = made, err' = err,
         heads' \in [Clock!Rings -> Nat], tails' \in [Clock!Rings -> Nat],
         DOMAIN slotValues' = Clock!Rings, DOMAIN slotReady' = Clock!Rings,
         \A q \in Clock!Rings : q # r => /\ heads'[q] = heads[q] /\ tails'[q] = tails[q]
                                         /\ slotValues'[q] = slotValues[q] /\ slotReady'[q] = slotReady[q]
                                         /\ Away(q)' /\ Clock!Published(q)' = Clock!Published(q)
  PROVE  Clock!RingsOK'
<1>1. err' \in BOOLEAN /\ (err => err')
  BY DEF Clock!HistoryOK
<1>2. ASSUME NEW q \in Clock!Rings, q # r PROVE RingOK(q)'
  BY <1>1, <1>2, OthersStay
<1> QED BY <1>2 DEF Clock!RingsOK, RingOK

LEMMA InTheRing ==
  ASSUME push \in Clock!Pushes, made' = made, push.pc \in Clock!Pushing, NEW l \in Clock!Pushing, Clock!GoTo(l)
  PROVE  /\ push'.pc = l /\ push'.into = push.into /\ push'.seq = push.seq
         /\ \A q \in Clock!Rings : Clock!Published(q)' = Clock!Published(q)
         /\ \A q \in Clock!Rings : q # push.into => Away(q)'
<1>1. push'.pc = l /\ push'.into = push.into /\ push'.track = push.track /\ push'.seq = push.seq
  BY PushGoes DEF Clock!Labels, Clock!Sizing, Clock!Counting, Clock!Timing
<1> QED BY <1>1 DEF Clock!Published, Away, Clock!On

LEMMA EvictClearRing ==
  ASSUME Clock!HistoryOK, Clock!RingsOK, Clock!EvictClear PROVE Clock!RingsOK'
<1>1. /\ Clock!At("clear") /\ Clock!GoTo("unready") /\ Storing /\ push \in Clock!Pushes
      /\ slotValues' = Clock!Set(slotValues, tails, 0)
      /\ UNCHANGED <<heads, tails, slotReady, made, err>>
  BY DEF Clock!EvictClear, Storing, Clock!UnchangedScalars, Clock!HistoryOK, Clock!history
<1>2. PICK r \in Clock!Rings : r = push.into
  BY <1>1, Busy DEF Clock!At, Clock!Evicting
<1>3. /\ ~err /\ RingOK(r) /\ heads[r] \in Nat /\ tails[r] \in Nat
      /\ Clock!CapacityOf(r) \in Nat /\ heads[r] <= tails[r] + Clock!CapacityOf(r)
  BY <1>1, <1>2, Busy DEF Clock!At, Clock!Evicting
<1>4. /\ push'.pc = "unready" /\ push'.into = push.into
      /\ \A q \in Clock!Rings : Clock!Published(q)' = Clock!Published(q)
      /\ \A q \in Clock!Rings : q # r => Away(q)'
  BY <1>1, <1>2, InTheRing DEF Clock!Pushing, Clock!At
<1>5. /\ DOMAIN slotValues' = Clock!Rings /\ slotValues'[r] \in [Clock!Slots(r) -> Clock!Seqs]
      /\ \A t \in Clock!Slots(r) : t # Clock!Slot(r, tails[r]) => slotValues'[r][t] = slotValues[r][t]
      /\ \A q \in Clock!Rings : q # r => slotValues'[q] = slotValues[q]
  <2> DEFINE s == Clock!Slot(r, tails[r])
  <2>1. s \in Clock!Slots(r) /\ 0 \in Clock!Seqs /\ DOMAIN slotValues = Clock!Rings /\ slotValues[r] \in [Clock!Slots(r) -> Clock!Seqs]
    BY <1>3, SlotIs, Constants DEF Clock!RingsOK, Clock!SlotsOK, RingOK, Clock!Seqs
  <2>2. slotValues' = [slotValues EXCEPT ![r][s] = 0]
    BY <1>1, <1>2 DEF Clock!Set
  <2> HIDE DEF s
  <2>3. /\ DOMAIN slotValues' = Clock!Rings /\ slotValues'[r] \in [Clock!Slots(r) -> Clock!Seqs]
        /\ \A t \in Clock!Slots(r) : t # s => slotValues'[r][t] = slotValues[r][t]
        /\ \A q \in Clock!Rings : q # r => slotValues'[q] = slotValues[q]
    BY <2>1, <2>2, SetIs
  <2> QED BY <2>3 DEF s
<1>6. Clock!WindowOK(r)'
  BY <1>1, <1>2, <1>3, <1>4 DEF RingOK, Clock!WindowOK, Clock!On, Clock!Evicting, Clock!Writing,
     Clock!At
<1>7. Clock!SlotsOK(r)'
  <2>1. ASSUME NEW p \in Nat, tails[r] <= p, p < heads[r]
        PROVE  /\ slotValues'[r][Clock!Slot(r, p)] = made[r][p + 1] \/ p = tails[r]
               /\ slotReady[r][Clock!Slot(r, p)]
    <3>1. /\ slotValues[r][Clock!Slot(r, p)] = made[r][p + 1]
          /\ slotReady[r][Clock!Slot(r, p)]
      BY <1>1, <1>3, <2>1 DEF RingOK, Clock!SlotsOK, Clock!On, Clock!At
    <3>2. p # tails[r] => Clock!Slot(r, tails[r]) # Clock!Slot(r, p)
      <4>1. p - tails[r] < Clock!CapacityOf(r)
        BY <1>3, <2>1
      <4> QED BY <1>3, <2>1, <4>1, SlotsApart
    <3> QED BY <1>5, <3>1, <3>2, SlotIs
  <2>2. slotReady[r] \in [Clock!Slots(r) -> BOOLEAN]
    BY <1>3 DEF RingOK, Clock!SlotsOK
  <2>3. Clock!On(r, {"unready", "advance"})' /\ ~Clock!On(r, {"ready", "publish"})' /\ ~Clock!On(r, {"publish"})'
    BY <1>2, <1>4 DEF Clock!On
  <2> QED BY <1>1, <1>5, <2>1, <2>2, <2>3 DEF Clock!SlotsOK
<1>8. heads' \in [Clock!Rings -> Nat] /\ tails' \in [Clock!Rings -> Nat] /\ DOMAIN slotReady' = Clock!Rings
  BY <1>1 DEF Clock!RingsOK
<1> QED BY <1>1, <1>2, <1>4, <1>5, <1>6, <1>7, <1>8, RingMoves DEF RingOK

LEMMA EvictUnreadyRing ==
  ASSUME Clock!HistoryOK, Clock!RingsOK, Clock!EvictUnready PROVE Clock!RingsOK'
<1>1. /\ Clock!At("unready") /\ Clock!GoTo("advance") /\ Storing /\ push \in Clock!Pushes
      /\ slotReady' = Clock!Set(slotReady, tails, FALSE)
      /\ UNCHANGED <<heads, tails, slotValues, made, err>>
  BY DEF Clock!EvictUnready, Storing, Clock!UnchangedScalars, Clock!HistoryOK, Clock!history
<1>2. PICK r \in Clock!Rings : r = push.into
  BY <1>1, Busy DEF Clock!At, Clock!Evicting
<1>3. /\ ~err /\ RingOK(r) /\ heads[r] \in Nat /\ tails[r] \in Nat
      /\ Clock!CapacityOf(r) \in Nat /\ heads[r] <= tails[r] + Clock!CapacityOf(r)
  BY <1>1, <1>2, Busy DEF Clock!At, Clock!Evicting
<1>4. /\ push'.pc = "advance" /\ push'.into = push.into
      /\ \A q \in Clock!Rings : Clock!Published(q)' = Clock!Published(q)
      /\ \A q \in Clock!Rings : q # r => Away(q)'
  BY <1>1, <1>2, InTheRing DEF Clock!Pushing, Clock!At
<1>5. /\ DOMAIN slotReady' = Clock!Rings /\ slotReady'[r] \in [Clock!Slots(r) -> BOOLEAN]
      /\ \A t \in Clock!Slots(r) : t # Clock!Slot(r, tails[r]) => slotReady'[r][t] = slotReady[r][t]
      /\ \A q \in Clock!Rings : q # r => slotReady'[q] = slotReady[q]
  <2> DEFINE s == Clock!Slot(r, tails[r])
  <2>1. s \in Clock!Slots(r) /\ DOMAIN slotReady = Clock!Rings /\ slotReady[r] \in [Clock!Slots(r) -> BOOLEAN]
    BY <1>3, SlotIs DEF Clock!RingsOK, Clock!SlotsOK, RingOK
  <2>2. slotReady' = [slotReady EXCEPT ![r][s] = FALSE]
    BY <1>1, <1>2 DEF Clock!Set
  <2> HIDE DEF s
  <2>3. /\ DOMAIN slotReady' = Clock!Rings /\ slotReady'[r] \in [Clock!Slots(r) -> BOOLEAN]
        /\ \A t \in Clock!Slots(r) : t # s => slotReady'[r][t] = slotReady[r][t]
        /\ \A q \in Clock!Rings : q # r => slotReady'[q] = slotReady[q]
    BY <2>1, <2>2, SetIs
  <2> QED BY <2>3 DEF s
<1>6. Clock!WindowOK(r)'
  BY <1>1, <1>2, <1>3, <1>4 DEF RingOK, Clock!WindowOK, Clock!On, Clock!Evicting, Clock!Writing,
     Clock!At
<1>7. Clock!SlotsOK(r)'
  <2>1. ASSUME NEW p \in Nat, tails[r] <= p, p < heads[r]
        PROVE  /\ slotValues[r][Clock!Slot(r, p)] = made[r][p + 1] \/ p = tails[r]
               /\ slotReady'[r][Clock!Slot(r, p)] \/ p = tails[r]
    <3>1. /\ slotValues[r][Clock!Slot(r, p)] = made[r][p + 1] \/ p = tails[r]
          /\ slotReady[r][Clock!Slot(r, p)]
      BY <1>1, <1>3, <2>1 DEF RingOK, Clock!SlotsOK, Clock!On, Clock!At
    <3>2. p # tails[r] => Clock!Slot(r, tails[r]) # Clock!Slot(r, p)
      <4>1. p - tails[r] < Clock!CapacityOf(r)
        BY <1>3, <2>1
      <4> QED BY <1>3, <2>1, <4>1, SlotsApart
    <3> QED BY <1>5, <3>1, <3>2, SlotIs
  <2>2. slotValues[r] \in [Clock!Slots(r) -> Clock!Seqs]
    BY <1>3 DEF RingOK, Clock!SlotsOK
  <2>3. /\ Clock!On(r, {"unready", "advance"})' /\ Clock!On(r, {"advance"})'
        /\ ~Clock!On(r, {"ready", "publish"})' /\ ~Clock!On(r, {"publish"})'
    BY <1>2, <1>4 DEF Clock!On
  <2> QED BY <1>1, <1>5, <2>1, <2>2, <2>3 DEF Clock!SlotsOK
<1>8. heads' \in [Clock!Rings -> Nat] /\ tails' \in [Clock!Rings -> Nat] /\ DOMAIN slotValues' = Clock!Rings
  BY <1>1 DEF Clock!RingsOK
<1> QED BY <1>1, <1>2, <1>4, <1>5, <1>6, <1>7, <1>8, RingMoves DEF RingOK

LEMMA EvictAdvanceRing ==
  ASSUME Clock!HistoryOK, Clock!RingsOK, Clock!EvictAdvance PROVE Clock!RingsOK'
<1>1. /\ Clock!At("advance") /\ Clock!GoTo("write") /\ Storing /\ push \in Clock!Pushes
      /\ tails' = [tails EXCEPT ![push.into] = @ + 1]
      /\ UNCHANGED <<heads, slotValues, slotReady, made, err>>
  BY DEF Clock!EvictAdvance, Storing, Clock!UnchangedScalars, Clock!HistoryOK, Clock!history
<1>2. PICK r \in Clock!Rings : r = push.into
  BY <1>1, Busy DEF Clock!At, Clock!Evicting
<1>3. /\ ~err /\ RingOK(r) /\ heads[r] \in Nat /\ tails[r] \in Nat
      /\ Clock!CapacityOf(r) \in Nat /\ Clock!CapacityOf(r) >= 1 /\ heads[r] <= tails[r] + Clock!CapacityOf(r)
  BY <1>1, <1>2, Busy DEF Clock!At, Clock!Evicting
<1>4. /\ push'.pc = "write" /\ push'.into = push.into
      /\ \A q \in Clock!Rings : Clock!Published(q)' = Clock!Published(q)
      /\ \A q \in Clock!Rings : q # r => Away(q)'
  BY <1>1, <1>2, InTheRing DEF Clock!Pushing, Clock!At
<1>5. /\ tails' \in [Clock!Rings -> Nat] /\ tails'[r] = tails[r] + 1
      /\ \A q \in Clock!Rings : q # r => tails'[q] = tails[q]
  BY <1>1, <1>2, <1>3 DEF Clock!RingsOK
<1>6. Clock!WindowOK(r)'
  <2>1. /\ heads[r] = tails[r] + Clock!CapacityOf(r) /\ heads[r] = Clock!Published(r)
        /\ tails[r] = Clock!Most(0, heads[r] - Clock!CapacityOf(r))
    BY <1>1, <1>2, <1>3 DEF RingOK, Clock!WindowOK, Clock!On, Clock!Evicting, Clock!Writing,
       Clock!At
  <2>2. ~Clock!On(r, Clock!Evicting)' /\ Clock!On(r, Clock!Writing)'
    BY <1>2, <1>4 DEF Clock!On, Clock!Evicting, Clock!Writing
  <2> QED BY <1>1, <1>3, <1>4, <1>5, <2>1, <2>2 DEF Clock!WindowOK, Clock!Most
<1>7. Clock!SlotsOK(r)'
  <2>1. /\ slotValues[r] \in [Clock!Slots(r) -> Clock!Seqs] /\ slotReady[r] \in [Clock!Slots(r) -> BOOLEAN]
        /\ \A p \in Nat : tails[r] <= p /\ p < heads[r] =>
             /\ slotValues[r][Clock!Slot(r, p)] = made[r][p + 1] \/ p = tails[r]
             /\ slotReady[r][Clock!Slot(r, p)] \/ p = tails[r]
    BY <1>1, <1>3 DEF RingOK, Clock!SlotsOK
  <2>2. \A p \in Nat : tails[r] + 1 <= p /\ p < heads[r] =>
             slotValues[r][Clock!Slot(r, p)] = made[r][p + 1] /\ slotReady[r][Clock!Slot(r, p)]
    BY <1>3, <2>1
  <2>3. ~Clock!On(r, {"ready", "publish"})' /\ ~Clock!On(r, {"publish"})'
    BY <1>2, <1>4 DEF Clock!On
  <2> QED BY <1>1, <1>5, <2>1, <2>2, <2>3 DEF Clock!SlotsOK
<1>8. heads' \in [Clock!Rings -> Nat] /\ DOMAIN slotValues' = Clock!Rings /\ DOMAIN slotReady' = Clock!Rings
  BY <1>1 DEF Clock!RingsOK
<1> QED BY <1>1, <1>2, <1>4, <1>5, <1>6, <1>7, <1>8, RingMoves DEF RingOK

\* Below the head there is room for one more.
LEMMA Room ==
  ASSUME Clock!HistoryOK, Clock!RingsOK, push.pc \in Clock!Writing
  PROVE  /\ heads[push.into] < tails[push.into] + Clock!CapacityOf(push.into)
         /\ tails[push.into] = Clock!Most(0, heads[push.into] - Clock!CapacityOf(push.into) + 1)
<1>1. /\ ~err /\ push.into \in Clock!Rings /\ RingOK(push.into)
      /\ heads[push.into] \in Nat /\ Clock!CapacityOf(push.into) \in Nat /\ Clock!CapacityOf(push.into) >= 1
  BY Busy
<1>2. tails[push.into] = Clock!Most(0, heads[push.into] - Clock!CapacityOf(push.into) + 1)
  BY <1>1 DEF RingOK, Clock!WindowOK, Clock!On
<1> QED BY <1>1, <1>2 DEF Clock!Most

LEMMA PushWriteRing ==
  ASSUME Clock!HistoryOK, Clock!RingsOK, Clock!PushWrite PROVE Clock!RingsOK'
<1>1. /\ Clock!At("write") /\ Clock!GoTo("ready") /\ Storing /\ push \in Clock!Pushes
      /\ slotValues' = Clock!Set(slotValues, heads, push.seq)
      /\ UNCHANGED <<heads, tails, slotReady, made, err>>
  BY DEF Clock!PushWrite, Storing, Clock!UnchangedScalars, Clock!HistoryOK, Clock!history
<1>2. PICK r \in Clock!Rings : r = push.into
  BY <1>1, Busy DEF Clock!At, Clock!Writing
<1>3. /\ ~err /\ RingOK(r) /\ heads[r] \in Nat /\ tails[r] \in Nat
      /\ Clock!CapacityOf(r) \in Nat /\ heads[r] < tails[r] + Clock!CapacityOf(r)
      /\ push.seq \in Clock!Seqs
  BY <1>1, <1>2, Busy, Room DEF Clock!At, Clock!Writing
<1>4. /\ push'.pc = "ready" /\ push'.into = push.into /\ push'.seq = push.seq
      /\ \A q \in Clock!Rings : Clock!Published(q)' = Clock!Published(q)
      /\ \A q \in Clock!Rings : q # r => Away(q)'
  BY <1>1, <1>2, InTheRing DEF Clock!Pushing, Clock!At
<1>5. /\ DOMAIN slotValues' = Clock!Rings /\ slotValues'[r] \in [Clock!Slots(r) -> Clock!Seqs]
      /\ slotValues'[r][Clock!Slot(r, heads[r])] = push.seq
      /\ \A t \in Clock!Slots(r) : t # Clock!Slot(r, heads[r]) => slotValues'[r][t] = slotValues[r][t]
      /\ \A q \in Clock!Rings : q # r => slotValues'[q] = slotValues[q]
  <2> DEFINE s == Clock!Slot(r, heads[r])
             x == push.seq
  <2>1. s \in Clock!Slots(r) /\ x \in Clock!Seqs /\ DOMAIN slotValues = Clock!Rings /\ slotValues[r] \in [Clock!Slots(r) -> Clock!Seqs]
    BY <1>3, SlotIs DEF Clock!RingsOK, Clock!SlotsOK, RingOK
  <2>2. slotValues' = [slotValues EXCEPT ![r][s] = x]
    BY <1>1, <1>2 DEF Clock!Set
  <2> HIDE DEF s, x
  <2>3. /\ DOMAIN slotValues' = Clock!Rings /\ slotValues'[r] \in [Clock!Slots(r) -> Clock!Seqs] /\ slotValues'[r][s] = x
        /\ \A t \in Clock!Slots(r) : t # s => slotValues'[r][t] = slotValues[r][t]
        /\ \A q \in Clock!Rings : q # r => slotValues'[q] = slotValues[q]
    BY <2>1, <2>2, SetIs
  <2> QED BY <2>3 DEF s, x
<1>6. Clock!WindowOK(r)'
  BY <1>1, <1>2, <1>3, <1>4 DEF RingOK, Clock!WindowOK, Clock!On, Clock!Evicting, Clock!Writing,
     Clock!At
<1>7. Clock!SlotsOK(r)'
  <2>1. ASSUME NEW p \in Nat, tails[r] <= p, p < heads[r]
        PROVE  slotValues'[r][Clock!Slot(r, p)] = made[r][p + 1] /\ slotReady[r][Clock!Slot(r, p)]
    <3>1. slotValues[r][Clock!Slot(r, p)] = made[r][p + 1] /\ slotReady[r][Clock!Slot(r, p)]
      BY <1>1, <1>3, <2>1 DEF RingOK, Clock!SlotsOK, Clock!On, Clock!At
    <3>2. Clock!Slot(r, p) # Clock!Slot(r, heads[r])
      <4>1. heads[r] - p < Clock!CapacityOf(r)
        BY <1>3, <2>1
      <4> QED BY <1>3, <2>1, <4>1, SlotsApart
    <3> QED BY <1>5, <3>1, <3>2, SlotIs
  <2>2. slotReady[r] \in [Clock!Slots(r) -> BOOLEAN]
    BY <1>3 DEF RingOK, Clock!SlotsOK
  <2>3. ~Clock!On(r, {"publish"})'
    BY <1>2, <1>4 DEF Clock!On
  <2> QED BY <1>1, <1>4, <1>5, <2>1, <2>2, <2>3 DEF Clock!SlotsOK
<1>8. heads' \in [Clock!Rings -> Nat] /\ tails' \in [Clock!Rings -> Nat] /\ DOMAIN slotReady' = Clock!Rings
  BY <1>1 DEF Clock!RingsOK
<1> QED BY <1>1, <1>2, <1>4, <1>5, <1>6, <1>7, <1>8, RingMoves DEF RingOK

LEMMA PushReadyRing ==
  ASSUME Clock!HistoryOK, Clock!RingsOK, Clock!PushReady PROVE Clock!RingsOK'
<1>1. /\ Clock!At("ready") /\ Clock!GoTo("publish") /\ Storing /\ push \in Clock!Pushes
      /\ slotReady' = Clock!Set(slotReady, heads, TRUE)
      /\ UNCHANGED <<heads, tails, slotValues, made, err>>
  BY DEF Clock!PushReady, Storing, Clock!UnchangedScalars, Clock!HistoryOK, Clock!history
<1>2. PICK r \in Clock!Rings : r = push.into
  BY <1>1, Busy DEF Clock!At, Clock!Writing
<1>3. /\ ~err /\ RingOK(r) /\ heads[r] \in Nat /\ tails[r] \in Nat
      /\ Clock!CapacityOf(r) \in Nat /\ heads[r] < tails[r] + Clock!CapacityOf(r)
  BY <1>1, <1>2, Busy, Room DEF Clock!At, Clock!Writing
<1>4. /\ push'.pc = "publish" /\ push'.into = push.into /\ push'.seq = push.seq
      /\ \A q \in Clock!Rings : Clock!Published(q)' = Clock!Published(q)
      /\ \A q \in Clock!Rings : q # r => Away(q)'
  BY <1>1, <1>2, InTheRing DEF Clock!Pushing, Clock!At
<1>5. /\ DOMAIN slotReady' = Clock!Rings /\ slotReady'[r] \in [Clock!Slots(r) -> BOOLEAN]
      /\ slotReady'[r][Clock!Slot(r, heads[r])]
      /\ \A t \in Clock!Slots(r) : t # Clock!Slot(r, heads[r]) => slotReady'[r][t] = slotReady[r][t]
      /\ \A q \in Clock!Rings : q # r => slotReady'[q] = slotReady[q]
  <2> DEFINE s == Clock!Slot(r, heads[r])
  <2>1. s \in Clock!Slots(r) /\ DOMAIN slotReady = Clock!Rings /\ slotReady[r] \in [Clock!Slots(r) -> BOOLEAN]
    BY <1>3, SlotIs DEF Clock!RingsOK, Clock!SlotsOK, RingOK
  <2>2. slotReady' = [slotReady EXCEPT ![r][s] = TRUE]
    BY <1>1, <1>2 DEF Clock!Set
  <2> HIDE DEF s
  <2>3. /\ DOMAIN slotReady' = Clock!Rings /\ slotReady'[r] \in [Clock!Slots(r) -> BOOLEAN] /\ slotReady'[r][s] = TRUE
        /\ \A t \in Clock!Slots(r) : t # s => slotReady'[r][t] = slotReady[r][t]
        /\ \A q \in Clock!Rings : q # r => slotReady'[q] = slotReady[q]
    BY <2>1, <2>2, SetIs
  <2> QED BY <2>3 DEF s
<1>6. Clock!WindowOK(r)'
  BY <1>1, <1>2, <1>3, <1>4 DEF RingOK, Clock!WindowOK, Clock!On, Clock!Evicting, Clock!Writing,
     Clock!At
<1>7. Clock!SlotsOK(r)'
  <2>1. ASSUME NEW p \in Nat, tails[r] <= p, p < heads[r]
        PROVE  slotValues[r][Clock!Slot(r, p)] = made[r][p + 1] /\ slotReady'[r][Clock!Slot(r, p)]
    <3>1. slotValues[r][Clock!Slot(r, p)] = made[r][p + 1] /\ slotReady[r][Clock!Slot(r, p)]
      BY <1>1, <1>3, <2>1 DEF RingOK, Clock!SlotsOK, Clock!On, Clock!At
    <3>2. Clock!Slot(r, p) # Clock!Slot(r, heads[r])
      <4>1. heads[r] - p < Clock!CapacityOf(r)
        BY <1>3, <2>1
      <4> QED BY <1>3, <2>1, <4>1, SlotsApart
    <3> QED BY <1>5, <3>1, <3>2, SlotIs
  <2>2. slotValues[r] \in [Clock!Slots(r) -> Clock!Seqs] /\ slotValues[r][Clock!Slot(r, heads[r])] = push.seq
    BY <1>1, <1>2, <1>3 DEF RingOK, Clock!SlotsOK, Clock!On, Clock!At
  <2> QED BY <1>1, <1>4, <1>5, <2>1, <2>2 DEF Clock!SlotsOK
<1>8. heads' \in [Clock!Rings -> Nat] /\ tails' \in [Clock!Rings -> Nat] /\ DOMAIN slotValues' = Clock!Rings
  BY <1>1 DEF Clock!RingsOK
<1> QED BY <1>1, <1>2, <1>4, <1>5, <1>6, <1>7, <1>8, RingMoves DEF RingOK

LEMMA PushPublishRing ==
  ASSUME Clock!HistoryOK, Clock!RingsOK, Clock!PushPublish PROVE Clock!RingsOK'
<1>1. /\ Clock!At("publish") /\ Storing /\ push \in Clock!Pushes
      /\ heads' = [heads EXCEPT ![push.into] = @ + 1]
      /\ push' = IF push.into = Timeline
                 THEN [push EXCEPT !.pc = "push", !.into = push.track]
                 ELSE [push EXCEPT !.pc = "seconds"]
      /\ UNCHANGED <<tails, slotValues, slotReady, made, err>>
  BY DEF Clock!PushPublish, Storing, Clock!UnchangedScalars, Clock!HistoryOK, Clock!history
<1>2. PICK r \in Clock!Rings : r = push.into
  BY <1>1, Busy DEF Clock!At, Clock!Writing
<1>3. /\ ~err /\ RingOK(r) /\ heads[r] \in Nat /\ tails[r] \in Nat /\ tails[r] <= heads[r]
      /\ Clock!CapacityOf(r) \in Nat /\ Clock!CapacityOf(r) >= 1 /\ heads[r] < tails[r] + Clock!CapacityOf(r)
      /\ tails[r] = Clock!Most(0, heads[r] - Clock!CapacityOf(r) + 1)
      /\ heads[r] = Len(made[r]) - 1 /\ made[r][Len(made[r])] = push.seq
      /\ r \in {Timeline, push.track} /\ push.track \in Tracks /\ Len(made[r]) \in Nat
  <2>1. push.pc \in Clock!Writing /\ push.pc # "idle"
    BY <1>1 DEF Clock!At, Clock!Writing
  <2>2. /\ heads[r] < tails[r] + Clock!CapacityOf(r)
        /\ tails[r] = Clock!Most(0, heads[r] - Clock!CapacityOf(r) + 1)
    BY <1>2, <2>1, Room, Zenon
  <2>3. /\ ~err /\ RingOK(r) /\ heads[r] \in Nat /\ tails[r] \in Nat /\ tails[r] <= heads[r]
        /\ Clock!CapacityOf(r) \in Nat /\ Clock!CapacityOf(r) >= 1
        /\ heads[r] = Len(made[r]) - 1 /\ made[r][Len(made[r])] = push.seq
    BY <1>2, <2>1, Busy
  <2>4. r \in {Timeline, push.track} /\ push.track \in Tracks /\ Len(made[r]) \in Nat
    BY <1>2, <2>1 DEF Clock!At, Clock!HistoryOK
  <2> QED BY <2>2, <2>3, <2>4
<1>4. /\ Clock!Published(r)' = Len(made[r])
      /\ \A q \in Clock!Rings : q # r => Clock!Published(q)' = Clock!Published(q)
      /\ \A q \in Clock!Rings : Away(q)'
  <2>1. CASE r = Timeline
    <3>1. push'.pc = "push" /\ push'.into = push.track /\ push'.track = push.track
      BY <1>1, <1>2, <2>1 DEF Clock!Pushes
    <3>2. r \notin {push.track}
      BY <2>1, <1>3, Constants
    <3>3. \A q \in Clock!Rings : Away(q)'
      BY <3>1 DEF Away, Clock!On, Clock!Evicting, Clock!Writing
    <3>4. push.pc \in Clock!Pushing /\ push'.pc \in Clock!Pushing
      BY <1>1, <3>1 DEF Clock!Pushing, Clock!At
    <3>5. \A q \in Clock!Rings : q # r => (q \in {push'.into, push'.track} <=> q \in {push.into, push.track})
      BY <1>2, <2>1, <3>1
    <3>6. r \notin {push'.into, push'.track}
      BY <3>1, <3>2
    <3>7. Clock!Published(r)' = Len(made'[r]) - 0
      BY <3>6, Zenon DEF Clock!Published
    <3>8. \A q \in Clock!Rings : q # r => Clock!Published(q)' = Clock!Published(q)
      BY <1>1, <3>4, <3>5, Zenon DEF Clock!Published
    <3> QED BY <1>1, <1>3, <3>3, <3>7, <3>8
  <2>2. CASE r # Timeline
    <3>1. push'.pc = "seconds" /\ push'.into = r /\ push'.track = push.track
      BY <1>1, <1>2, <2>2 DEF Clock!Pushes
    <3>2. r = push.track
      BY <2>2, <1>3
    <3>3. \A q \in Clock!Rings : Away(q)'
      BY <3>1 DEF Away, Clock!On, Clock!Evicting, Clock!Writing
    <3>4. push'.pc \notin Clock!Pushing /\ \A q \in Clock!Rings : q # r => q \notin {push.into, push.track}
      BY <1>2, <3>1, <3>2 DEF Clock!Pushing
    <3>7. Clock!Published(r)' = Len(made'[r]) - 0
      BY <3>4, Zenon DEF Clock!Published
    <3>8. \A q \in Clock!Rings : q # r => Clock!Published(q)' = Clock!Published(q)
      BY <1>1, <3>4, Zenon DEF Clock!Published
    <3> QED BY <1>1, <1>3, <3>3, <3>7, <3>8
  <2> QED BY <2>1, <2>2
<1>5. /\ heads' \in [Clock!Rings -> Nat] /\ heads'[r] = heads[r] + 1
      /\ \A q \in Clock!Rings : q # r => heads'[q] = heads[q]
  BY <1>1, <1>2, <1>3 DEF Clock!RingsOK
<1>6. ~Clock!On(r, Clock!Evicting)' /\ ~Clock!On(r, Clock!Writing)' /\ ~Clock!On(r, {"ready", "publish"})' /\ ~Clock!On(r, {"publish"})'
  BY <1>4 DEF Away, Clock!On, Clock!Writing
<1>7. Clock!WindowOK(r)'
  BY <1>1, <1>3, <1>4, <1>5, <1>6 DEF Clock!WindowOK, Clock!Most
<1>8. Clock!SlotsOK(r)'
  <2>1. /\ slotValues[r] \in [Clock!Slots(r) -> Clock!Seqs] /\ slotReady[r] \in [Clock!Slots(r) -> BOOLEAN]
        /\ slotValues[r][Clock!Slot(r, heads[r])] = made[r][heads[r] + 1] /\ slotReady[r][Clock!Slot(r, heads[r])]
    BY <1>1, <1>2, <1>3 DEF RingOK, Clock!SlotsOK, Clock!On, Clock!At
  <2>2. \A p \in Nat : tails[r] <= p /\ p < heads[r] =>
             slotValues[r][Clock!Slot(r, p)] = made[r][p + 1] /\ slotReady[r][Clock!Slot(r, p)]
    BY <1>1, <1>3 DEF RingOK, Clock!SlotsOK, Clock!On, Clock!At
  <2>3. \A p \in Nat : tails[r] <= p /\ p < heads[r] + 1 =>
             slotValues[r][Clock!Slot(r, p)] = made[r][p + 1] /\ slotReady[r][Clock!Slot(r, p)]
    <3> TAKE p \in Nat
    <3>1. p < heads[r] + 1 => p < heads[r] \/ p = heads[r]
      BY <1>3
    <3> QED BY <2>1, <2>2, <3>1
  <2> QED BY <1>1, <1>5, <1>6, <2>1, <2>3 DEF Clock!SlotsOK
<1>9. tails' \in [Clock!Rings -> Nat] /\ DOMAIN slotValues' = Clock!Rings /\ DOMAIN slotReady' = Clock!Rings
  BY <1>1 DEF Clock!RingsOK
<1> QED BY <1>1, <1>2, <1>4, <1>5, <1>7, <1>8, <1>9, RingMoves DEF RingOK

\* A step that leaves the rings, while the producer is in none of them.
LEMMA RingsRest ==
  ASSUME Clock!RingsOK, UNCHANGED Clock!ring, err' \in BOOLEAN, err => err',
         push.pc \notin Clock!Evicting \cup Clock!Writing, push'.pc \notin Clock!Evicting \cup Clock!Writing,
         ~err' => \A r \in Clock!Rings :
           /\ Clock!Published(r)' = Clock!Published(r)
           /\ \A p \in Nat : p < heads[r] => made'[r][p + 1] = made[r][p + 1]
  PROVE  Clock!RingsOK'
<1>1. UNCHANGED <<heads, tails, slotValues, slotReady>>
  BY DEF Clock!ring
<1>2. ASSUME NEW r \in Clock!Rings PROVE RingOK(r)'
  <2>1. Away(r) /\ Away(r)' /\ RingOK(r)
    BY DEF Away, Clock!On, Clock!RingsOK, RingOK
  <2> QED BY <1>1, <2>1, RingStays
<1> QED BY <1>1, <1>2 DEF Clock!RingsOK, RingOK

LEMMA ObserveRings ==
  ASSUME Clock!HistoryOK, Clock!RingsOK, NEW k \in Tracks, NEW w, Observed(k, w), UNCHANGED <<Clock!ring, err>>
  PROVE  Clock!RingsOK'
<1>1. /\ push.pc = "idle" /\ push'.pc = "first" /\ push'.into = Timeline /\ push'.track = k
      /\ ~err
  BY DEF Observed, Clock!At
<1>2. push.pc \notin Clock!Evicting \cup Clock!Writing /\ push'.pc \notin Clock!Evicting \cup Clock!Writing
  BY <1>1 DEF Clock!Evicting, Clock!Writing
<1>3. err' \in BOOLEAN /\ (err => err')
  BY DEF Clock!HistoryOK
<1>4. ASSUME NEW r \in Clock!Rings
      PROVE  /\ Clock!Published(r)' = Clock!Published(r)
             /\ \A p \in Nat : p < heads[r] => made'[r][p + 1] = made[r][p + 1]
  <2>1. Clock!Published(r) = Len(made[r]) /\ Len(made[r]) \in Nat
    BY <1>1 DEF Clock!Published, Clock!Pushing, Clock!HistoryOK
  <2>2. Clock!Published(r)' = Len(made[r])
    <3>1. CASE r \in {Timeline, k}
      <4>1. Len(made'[r]) = Len(made[r]) + 1
        BY <3>1 DEF Observed
      <4>2. push'.pc \in Clock!Pushing /\ r \in {push'.into, push'.track}
        BY <1>1, <3>1 DEF Clock!Pushing
      <4>3. Clock!Published(r)' = Len(made'[r]) - 1
        BY <4>2, Zenon DEF Clock!Published
      <4> QED BY <2>1, <4>1, <4>3
    <3>2. CASE r \notin {Timeline, k}
      <4>1. made'[r] = made[r]
        BY <3>2 DEF Observed
      <4>3. Clock!Published(r)' = Len(made'[r]) - 0
        BY <1>1, <3>2, Zenon DEF Clock!Published
      <4> QED BY <2>1, <4>1, <4>3
    <3> QED BY <3>1, <3>2
  <2>3. heads[r] \in Nat /\ heads[r] = Len(made[r])
    BY <1>1, <2>1 DEF Clock!RingsOK, Clock!WindowOK
  <2>4. \A i \in 1..Len(made[r]) : made'[r][i] = made[r][i]
    BY DEF Observed
  <2> QED BY <2>1, <2>2, <2>3, <2>4
<1> QED BY <1>2, <1>3, <1>4, RingsRest

\* The steps of the producer outside the rings.
Outside == Clock!First \/ Clock!PushFails \/ Clock!LatestSeconds \/ Clock!LatestNanos \/ Clock!Count \/ Clock!Size \/ Clock!SizeCap

LEMMA OutsideRings ==
  ASSUME Clock!HistoryOK, Clock!RingsOK, Outside, mode' = mode
  PROVE  Clock!RingsOK'
<1>1. UNCHANGED Clock!ring /\ made' = made
  BY DEF Outside, Clock!First, Clock!PushFails, Clock!LatestSeconds, Clock!LatestNanos,
     Clock!Count, Clock!Size, Clock!SizeCap, Clock!history
<1>2. push \in Clock!Pushes /\ err \in BOOLEAN
  BY DEF Clock!HistoryOK
<1>3. CASE Clock!PushFails
  <2>1. err' = TRUE /\ push.pc = "push" /\ push'.pc = "idle"
    BY <1>3, PushRests DEF Clock!PushFails, Clock!At
  <2>2. push.pc \notin Clock!Evicting \cup Clock!Writing /\ push'.pc \notin Clock!Evicting \cup Clock!Writing
    BY <2>1 DEF Clock!Evicting, Clock!Writing
  <2> QED BY <1>1, <2>1, <2>2, RingsRest
<1>4. CASE Clock!First
  <2>1. push.pc = "first" /\ Clock!GoTo("push") /\ err' = err
    BY <1>4 DEF Clock!First, Clock!At
  <2>2. push'.pc = "push" /\ push'.into = push.into /\ push'.track = push.track
    BY <1>2, <2>1, PushGoes DEF Clock!Labels, Clock!Sizing, Clock!Counting, Clock!Timing,
       Clock!Pushing
  <2>3. push.pc \notin Clock!Evicting \cup Clock!Writing /\ push'.pc \notin Clock!Evicting \cup Clock!Writing
    BY <2>1, <2>2 DEF Clock!Evicting, Clock!Writing
  <2>4. push.pc \in Clock!Pushing /\ push'.pc \in Clock!Pushing
    BY <2>1, <2>2 DEF Clock!Pushing
  <2>5. \A r \in Clock!Rings : Clock!Published(r)' = Clock!Published(r)
    BY <1>1, <2>2, <2>4, Zenon DEF Clock!Published
  <2> QED BY <1>1, <1>2, <2>1, <2>3, <2>5, RingsRest
<1>5. CASE Clock!LatestSeconds \/ Clock!LatestNanos \/ Clock!Count \/ Clock!Size \/ Clock!SizeCap
  <2>1. push.pc \in {"seconds", "nanos", "count", "size", "cap"} /\ err' = err
    BY <1>5 DEF Clock!LatestSeconds, Clock!LatestNanos, Clock!Count, Clock!Size, Clock!SizeCap,
       Clock!At
  <2>2. push'.pc \in {"nanos", "count", "size", "cap", "idle"}
    <3>1. \A l \in {"nanos", "count", "size", "cap"} : Clock!GoTo(l) => push'.pc = l
      BY <1>2, PushGoes DEF Clock!Labels, Clock!Sizing, Clock!Counting, Clock!Timing, Clock!Pushing
    <3>2. push' = Clock!Idle => push'.pc = "idle"
      BY PushRests
    <3>3. \/ Clock!GoTo("nanos") \/ Clock!GoTo("count") \/ Clock!GoTo("size") \/ Clock!GoTo("cap") \/ push' = Clock!Idle
      BY <1>5 DEF Clock!LatestSeconds, Clock!LatestNanos, Clock!Count, Clock!Size, Clock!SizeCap
    <3> QED BY <3>1, <3>2, <3>3
  <2>3. push.pc \notin Clock!Evicting \cup Clock!Writing /\ push'.pc \notin Clock!Evicting \cup Clock!Writing
    BY <2>1, <2>2 DEF Clock!Evicting, Clock!Writing
  <2>4. push.pc \notin Clock!Pushing /\ push'.pc \notin Clock!Pushing
    BY <2>1, <2>2 DEF Clock!Pushing
  <2>5. \A r \in Clock!Rings : Clock!Published(r)' = Clock!Published(r)
    BY <1>1, <2>4, Zenon DEF Clock!Published
  <2> QED BY <1>1, <1>2, <2>1, <2>3, <2>5, RingsRest
<1> QED BY <1>3, <1>4, <1>5 DEF Outside

LEMMA StoringRings ==
  ASSUME Clock!HistoryOK, Clock!RingsOK, Storing, mode' = mode
  PROVE  Clock!RingsOK'
BY StartRing, EvictClearRing, EvictUnreadyRing, EvictAdvanceRing, PushWriteRing, PushReadyRing,
   PushPublishRing, OutsideRings DEF Storing, Outside

-----------------------------------------------------------------------------
(* The atomic fields *)

\* A field of a track that the producer does not come to in the step, ...
LEMMA SeenStays ==
  ASSUME made' = made, NEW L, push.pc \in L <=> push'.pc \in L,
         push'.track = push.track \/ push.pc \notin L
  PROVE  \A k \in Tracks : Clock!Seen(k, L)' = Clock!Seen(k, L)
<1>1. \A k \in Tracks : (push.pc \in L /\ k = push.track) <=> (push'.pc \in L /\ k = push'.track)
  OBVIOUS
<1> QED BY <1>1, Zenon DEF Clock!Seen

\* ... and one that has now seen the last observation.
LEMMA SeenGrows ==
  ASSUME made' = made, NEW L, push.pc \in L, push'.pc \notin L,
         \A k \in Tracks : Len(made[k]) \in Nat
  PROVE  \A k \in Tracks : /\ Clock!Seen(k, L)' = Len(made[k])
                           /\ k = push.track => Clock!Seen(k, L) = Len(made[k]) - 1
                           /\ k # push.track => Clock!Seen(k, L) = Len(made[k])
<1> TAKE k \in Tracks
<1>1. Clock!Seen(k, L)' = Len(made[k]) - 0
  BY Zenon DEF Clock!Seen
<1>2. k = push.track => Clock!Seen(k, L) = Len(made[k]) - 1
  BY Zenon DEF Clock!Seen
<1>3. k # push.track => Clock!Seen(k, L) = Len(made[k]) - 0
  BY Zenon DEF Clock!Seen
<1> QED BY <1>1, <1>2, <1>3

LEMMA SeenObserved ==
  ASSUME Clock!HistoryOK, NEW k \in Tracks, NEW w, Observed(k, w), NEW L,
         "idle" \notin L, "first" \in L
  PROVE  \A l \in Tracks : Clock!Seen(l, L)' = Clock!Seen(l, L) /\ Clock!Seen(l, L) = Len(made[l])
<1> TAKE l \in Tracks
<1>1. push.pc = "idle" /\ push'.pc = "first" /\ push'.track = k
  BY DEF Observed, Clock!At
<1>2. Len(made[l]) \in Nat
  BY Constants DEF Clock!HistoryOK
<1>3. Clock!Seen(l, L) = Len(made[l]) - 0
  BY <1>1, Zenon DEF Clock!Seen
<1>4. CASE l = k
  <2>1. Len(made'[l]) = Len(made[l]) + 1
    BY <1>4 DEF Observed
  <2>2. Clock!Seen(l, L)' = Len(made'[l]) - 1
    BY <1>1, <1>4, Zenon DEF Clock!Seen
  <2> QED BY <1>2, <1>3, <2>1, <2>2
<1>5. CASE l # k
  <2>1. made'[l] = made[l]
    BY <1>5, Constants DEF Observed
  <2>2. Clock!Seen(l, L)' = Len(made'[l]) - 0
    BY <1>1, <1>5, Zenon DEF Clock!Seen
  <2> QED BY <1>2, <1>3, <2>1, <2>2
<1> QED BY <1>4, <1>5

\* The observations that the timeline and the fields of a track have seen.
LEMMA Counts ==
  ASSUME Clock!HistoryOK
  PROVE  /\ \A r \in Clock!Rings : Len(made[r]) \in Nat /\ \A i \in 1..Len(made[r]) : made[r][i] \in 1..sequence
         /\ sequence \in Nat /\ Len(made[Timeline]) = sequence
         /\ push.pc # "idle" => push.track \in Tracks /\ Len(made[push.track]) >= 1
                                /\ made[push.track][Len(made[push.track])] = push.seq
                                /\ sequence >= 1 /\ ~err
<1>1. /\ \A r \in Clock!Rings : Len(made[r]) \in Nat /\ \A i \in 1..Len(made[r]) : made[r][i] \in 1..sequence
      /\ sequence \in Nat /\ Len(made[Timeline]) = sequence
  BY Constants DEF Clock!HistoryOK, Clock!Seqs
<1>2. push.pc # "idle" => push.track \in Tracks /\ Len(made[push.track]) >= 1
                          /\ made[push.track][Len(made[push.track])] = push.seq
                          /\ sequence >= 1 /\ ~err
  BY Zenon DEF Clock!HistoryOK, Clock!At
<1> QED BY <1>1, <1>2

FirstOK(k) == first[k] = IF Clock!Seen(k, {"first"}) = 0 THEN 0 ELSE made[k][1]
CountOK(k) == /\ counts[k] <= TrackCapacity
              /\ ~err => counts[k] = Clock!Least(TrackCapacity, Clock!Seen(k, Clock!Counting))
SizeOK == /\ timelineSize \in 0..(ClockCapacity + 1)
          /\ ~err => timelineSize = Clock!Least(IF Clock!At("cap") THEN ClockCapacity + 1 ELSE ClockCapacity,
                                          sequence - IF push.pc \in Clock!Sizing THEN 1 ELSE 0)
          /\ Clock!At("cap") => timelineSize = ClockCapacity + 1

LEMMA ScalarsAre ==
  Clock!ScalarsOK <=> /\ first \in [Tracks -> Clock!Seqs] /\ counts \in [Tracks -> Nat]
                      /\ seconds \in [Tracks -> Nat] /\ nanos \in [Tracks -> Nat]
                      /\ \A k \in Tracks : FirstOK(k) /\ CountOK(k)
                      /\ SizeOK
BY DEF Clock!ScalarsOK, FirstOK, CountOK, SizeOK

LEMMA ScalarsNext ==
  ASSUME first' \in [Tracks -> Clock!Seqs], counts' \in [Tracks -> Nat],
         seconds' \in [Tracks -> Nat], nanos' \in [Tracks -> Nat],
         \A k \in Tracks : FirstOK(k)' /\ CountOK(k)', SizeOK'
  PROVE  Clock!ScalarsOK'
BY DEF Clock!ScalarsOK, FirstOK, CountOK, SizeOK

LEMMA FirstRests ==
  ASSUME NEW k \in Tracks, FirstOK(k), Clock!Seen(k, {"first"})' = Clock!Seen(k, {"first"}), first'[k] = first[k],
         Clock!Seen(k, {"first"}) # 0 => made'[k][1] = made[k][1]
  PROVE  FirstOK(k)'
BY DEF FirstOK

LEMMA CountRests ==
  ASSUME NEW k \in Tracks, CountOK(k), ~err' => Clock!Seen(k, Clock!Counting)' = Clock!Seen(k, Clock!Counting),
         counts'[k] = counts[k], err => err'
  PROVE  CountOK(k)'
BY DEF CountOK

LEMMA SizeRests ==
  ASSUME SizeOK, timelineSize' = timelineSize, err' = err, sequence' = sequence,
         push.pc \in Clock!Sizing, push'.pc \in Clock!Sizing
  PROVE  SizeOK'
BY DEF SizeOK, Clock!At, Clock!Sizing, Clock!Counting, Clock!Timing, Clock!Pushing

\* How many the window of a ring holds when no push is in it.
LEMMA QueuedIs ==
  ASSUME Clock!HistoryOK, Clock!RingsOK, ~err, NEW r \in Clock!Rings, push.pc \notin Clock!Pushing
  PROVE  Clock!Queued(r) = Clock!Least(Clock!CapacityOf(r), Len(made[r])) /\ Clock!Queued(r) \in Nat
<1>1. Clock!Published(r) = Len(made[r]) /\ Len(made[r]) \in Nat
  BY DEF Clock!Published, Clock!HistoryOK
<1>2. ~Clock!On(r, Clock!Writing)
  BY DEF Clock!On, Clock!Writing, Clock!Pushing
<1>3. Clock!CapacityOf(r) \in Nat
  BY Constants
<1>4. /\ heads[r] \in Nat /\ heads[r] = Clock!Published(r)
      /\ tails[r] = Clock!Most(0, heads[r] - Clock!CapacityOf(r))
  BY <1>2, <1>3 DEF Clock!RingsOK, Clock!WindowOK
<1> QED BY <1>1, <1>3, <1>4 DEF Clock!Queued, Clock!Most, Clock!Least

LEMMA ObserveScalars ==
  ASSUME Clock!HistoryOK, Clock!ScalarsOK, NEW k \in Tracks, NEW w, Observed(k, w),
         UNCHANGED <<timelineSize, err, Clock!track>>
  PROVE  Clock!ScalarsOK'
<1>1. UNCHANGED <<first, counts, seconds, nanos>>
  BY DEF Clock!track
<1>2. push.pc = "idle" /\ push'.pc = "first" /\ sequence' = sequence + 1 /\ sequence \in Nat
  BY DEF Observed, Clock!At
<1>3. ASSUME NEW l \in Tracks PROVE FirstOK(l)' /\ CountOK(l)'
  <2>1. /\ Clock!Seen(l, {"first"})' = Clock!Seen(l, {"first"}) /\ Clock!Seen(l, {"first"}) = Len(made[l])
        /\ Clock!Seen(l, Clock!Counting)' = Clock!Seen(l, Clock!Counting)
    BY SeenObserved DEF Clock!Counting, Clock!Timing, Clock!Pushing
  <2>2. FirstOK(l) /\ CountOK(l) /\ Len(made[l]) \in Nat
    BY ScalarsAre, Counts, Constants
  <2>3. Len(made[l]) # 0 => made'[l][1] = made[l][1]
    <3>1. l \in Clock!Rings /\ \A i \in 1..Len(made[l]) : made'[l][i] = made[l][i]
      BY Constants DEF Observed
    <3>2. Len(made[l]) # 0 => 1 \in 1..Len(made[l])
      BY <2>2
    <3> QED BY <3>1, <3>2, Zenon
  <2> QED BY <1>1, <2>1, <2>2, <2>3, FirstRests, CountRests
<1>4. SizeOK'
  <2>1. push.pc \notin Clock!Sizing /\ push'.pc \in Clock!Sizing /\ ~Clock!At("cap") /\ ~Clock!At("cap")'
    BY <1>2 DEF Clock!Sizing, Clock!Counting, Clock!Timing, Clock!Pushing, Clock!At
  <2>2. SizeOK
    BY ScalarsAre
  <2> QED BY <1>2, <2>1, <2>2 DEF SizeOK
<1> QED BY <1>1, <1>3, <1>4, ScalarsAre, ScalarsNext

LEMMA RingScalars ==
  ASSUME Clock!HistoryOK, Clock!ScalarsOK, made' = made, Clock!UnchangedScalars \/ UNCHANGED Clock!clock,
         push.pc \in Clock!Pushing \ {"first"}, push'.pc \in (Clock!Pushing \ {"first"}) \cup {"seconds"},
         push'.track = push.track
  PROVE  Clock!ScalarsOK'
<1>1. UNCHANGED <<first, counts, seconds, nanos, timelineSize, err, sequence>>
  BY DEF Clock!UnchangedScalars, Clock!clock, Clock!track
<1>2. ASSUME NEW k \in Tracks PROVE FirstOK(k)' /\ CountOK(k)'
  <2>1. /\ Clock!Seen(k, {"first"})' = Clock!Seen(k, {"first"})
        /\ Clock!Seen(k, Clock!Counting)' = Clock!Seen(k, Clock!Counting)
    <3>1. push.pc \in Clock!Counting /\ push'.pc \in Clock!Counting
      BY DEF Clock!Counting, Clock!Timing
    <3>2. push.pc \notin {"first"} /\ push'.pc \notin {"first"}
      BY DEF Clock!Pushing
    <3> QED BY <3>1, <3>2, SeenStays
  <2>2. FirstOK(k) /\ CountOK(k)
    BY ScalarsAre
  <2> QED BY <1>1, <2>1, <2>2, FirstRests, CountRests
<1>3. SizeOK'
  <2>1. push.pc \in Clock!Sizing /\ push'.pc \in Clock!Sizing
    BY DEF Clock!Sizing, Clock!Counting, Clock!Timing
  <2> QED BY <1>1, <2>1, SizeRests, ScalarsAre
<1> QED BY <1>1, <1>2, <1>3, ScalarsAre, ScalarsNext

LEMMA FailScalars ==
  ASSUME Clock!HistoryOK, Clock!ScalarsOK, Clock!PushFails
  PROVE  Clock!ScalarsOK'
<1>1. /\ UNCHANGED <<first, counts, seconds, nanos, timelineSize, sequence, made>> /\ err'
      /\ push.pc = "push" /\ push'.pc = "idle"
  BY PushRests DEF Clock!PushFails, Clock!track, Clock!history, Clock!At
<1>2. \A k \in Tracks : FirstOK(k)' /\ CountOK(k)'
  <2>1. \A k \in Tracks : Clock!Seen(k, {"first"})' = Clock!Seen(k, {"first"})
    BY <1>1, SeenStays
  <2> QED BY <1>1, <2>1, FirstRests, CountRests, ScalarsAre
<1>3. SizeOK'
  BY <1>1, ScalarsAre DEF SizeOK, Clock!At
<1> QED BY <1>1, <1>2, <1>3, ScalarsAre, ScalarsNext

LEMMA FirstScalars ==
  ASSUME Clock!HistoryOK, Clock!ScalarsOK, Clock!First
  PROVE  Clock!ScalarsOK'
<1>1. /\ UNCHANGED <<counts, seconds, nanos, timelineSize, sequence, err, made>> /\ Clock!GoTo("push")
      /\ push.pc = "first" /\ push \in Clock!Pushes
  BY DEF Clock!First, Clock!history, Clock!At, Clock!HistoryOK
<1>2. push'.pc = "push" /\ push'.track = push.track
  BY <1>1, PushGoes DEF Clock!Labels, Clock!Sizing, Clock!Counting, Clock!Timing, Clock!Pushing
<1>3. PICK r \in Tracks : r = push.track
  BY <1>1, Counts
<1>4. Len(made[r]) \in Nat /\ Len(made[r]) >= 1 /\ made[r][Len(made[r])] = push.seq
      /\ push.seq \in Clock!Seqs /\ \A i \in 1..Len(made[r]) : made[r][i] \in 1..sequence
      /\ sequence \in Nat
  BY <1>1, <1>3, Counts, Constants DEF Clock!Pushes
<1>5. /\ Clock!Seen(r, {"first"})' = Len(made[r]) /\ Clock!Seen(r, {"first"}) = Len(made[r]) - 1
      /\ \A k \in Tracks : k # r => Clock!Seen(k, {"first"})' = Clock!Seen(k, {"first"})
  BY <1>1, <1>2, <1>3, Counts, Constants, SeenGrows
<1>6. /\ first' = IF first[r] = 0 THEN [first EXCEPT ![r] = push.seq] ELSE first
      /\ first \in [Tracks -> Clock!Seqs]
  BY <1>3, ScalarsAre DEF Clock!First
<1>7. first' \in [Tracks -> Clock!Seqs] /\ \A k \in Tracks : k # r => first'[k] = first[k]
  BY <1>4, <1>6
<1>8. FirstOK(r)'
  <2>1. FirstOK(r)
    BY ScalarsAre
  <2>2. CASE Len(made[r]) = 1
    <3>1. first'[r] = push.seq
      BY <1>5, <1>6, <2>1, <2>2 DEF FirstOK
    <3> QED BY <1>1, <1>4, <1>5, <2>2, <3>1 DEF FirstOK
  <2>3. CASE Len(made[r]) # 1
    <3> DEFINE n == Len(made[r])
    <3>5. n \in Nat /\ n # 1 /\ n >= 1 /\ Clock!Seen(r, {"first"}) = n - 1
      BY <1>4, <1>5, <2>3
    <3>1. Clock!Seen(r, {"first"}) # 0 /\ 1 \in 1..n
      <4> HIDE DEF n
      <4> QED BY <3>5
    <3>2. first[r] = made[r][1] /\ made[r][1] \in 1..sequence
      BY <1>4, <2>1, <3>1 DEF FirstOK
    <3>3. first'[r] = made[r][1]
      BY <1>4, <1>6, <3>2
    <3>4. Clock!Seen(r, {"first"})' # 0
      BY <1>4, <1>5
    <3> QED BY <1>1, <3>3, <3>4 DEF FirstOK
  <2> QED BY <2>2, <2>3
<1>9. ASSUME NEW k \in Tracks PROVE FirstOK(k)' /\ CountOK(k)'
  <2>1. FirstOK(k) /\ CountOK(k)
    BY ScalarsAre
  <2>2. Clock!Seen(k, Clock!Counting)' = Clock!Seen(k, Clock!Counting)
    BY <1>1, <1>2, SeenStays DEF Clock!Counting, Clock!Timing, Clock!Pushing
  <2> QED BY <1>1, <1>5, <1>7, <1>8, <2>1, <2>2, FirstRests, CountRests
<1>10. SizeOK'
  <2>1. push.pc \in Clock!Sizing /\ push'.pc \in Clock!Sizing
    BY <1>1, <1>2 DEF Clock!Sizing, Clock!Counting, Clock!Timing, Clock!Pushing
  <2> QED BY <1>1, <2>1, SizeRests, ScalarsAre
<1> QED BY <1>1, <1>7, <1>9, <1>10, ScalarsAre, ScalarsNext

LEMMA LatestScalars ==
  ASSUME Clock!HistoryOK, Clock!ScalarsOK, Clock!LatestSeconds \/ Clock!LatestNanos,
         seconds' \in [Tracks -> Nat], nanos' \in [Tracks -> Nat]
  PROVE  Clock!ScalarsOK'
<1>1. /\ UNCHANGED <<first, counts, timelineSize, sequence, err, made>>
      /\ push.pc \in {"seconds", "nanos"} /\ push \in Clock!Pushes /\ (Clock!GoTo("nanos") \/ Clock!GoTo("count"))
  BY DEF Clock!LatestSeconds, Clock!LatestNanos, Clock!history, Clock!At, Clock!HistoryOK
<1>2. push'.pc \in {"nanos", "count"} /\ push'.track = push.track
  BY <1>1, PushGoes DEF Clock!Labels, Clock!Sizing, Clock!Counting, Clock!Timing, Clock!Pushing
<1>3. ASSUME NEW k \in Tracks PROVE FirstOK(k)' /\ CountOK(k)'
  <2>1. /\ Clock!Seen(k, {"first"})' = Clock!Seen(k, {"first"})
        /\ Clock!Seen(k, Clock!Counting)' = Clock!Seen(k, Clock!Counting)
    <3>1. push.pc \in Clock!Counting /\ push'.pc \in Clock!Counting
      BY <1>1, <1>2 DEF Clock!Counting, Clock!Timing
    <3>2. push.pc \notin {"first"} /\ push'.pc \notin {"first"}
      BY <1>1, <1>2
    <3> QED BY <1>1, <1>2, <3>1, <3>2, SeenStays
  <2>2. FirstOK(k) /\ CountOK(k)
    BY ScalarsAre
  <2> QED BY <1>1, <2>1, <2>2, FirstRests, CountRests
<1>4. SizeOK'
  <2>1. push.pc \in Clock!Sizing /\ push'.pc \in Clock!Sizing
    BY <1>1, <1>2 DEF Clock!Sizing, Clock!Counting, Clock!Timing
  <2> QED BY <1>1, <2>1, SizeRests, ScalarsAre
<1> QED BY <1>1, <1>3, <1>4, ScalarsAre, ScalarsNext

LEMMA CountScalars ==
  ASSUME Clock!HistoryOK, Clock!RingsOK, Clock!ScalarsOK, Clock!Count
  PROVE  Clock!ScalarsOK'
<1>1. /\ UNCHANGED <<first, seconds, nanos, timelineSize, sequence, err, made>> /\ Clock!GoTo("size")
      /\ push.pc = "count" /\ push \in Clock!Pushes /\ ~err
  BY Counts DEF Clock!Count, Clock!history, Clock!At, Clock!HistoryOK
<1>2. push'.pc = "size" /\ push'.track = push.track
  BY <1>1, PushGoes DEF Clock!Labels, Clock!Sizing
<1>3. PICK r \in Tracks : r = push.track
  BY <1>1, Counts
<1>4. Len(made[r]) \in Nat /\ Len(made[r]) >= 1
  BY <1>1, <1>3, Counts, Constants
<1>5. /\ Clock!Seen(r, Clock!Counting)' = Len(made[r]) /\ Clock!Seen(r, Clock!Counting) = Len(made[r]) - 1
      /\ \A k \in Tracks : k # r => Clock!Seen(k, Clock!Counting)' = Clock!Seen(k, Clock!Counting)
  <2>1. push.pc \in Clock!Counting /\ push'.pc \notin Clock!Counting
    BY <1>1, <1>2 DEF Clock!Counting, Clock!Timing, Clock!Pushing
  <2>2. \A k \in Tracks : Len(made[k]) \in Nat
    BY Counts, Constants
  <2> QED BY <1>1, <1>3, <2>1, <2>2, SeenGrows
<1>6. Clock!Queued(r) = Clock!Least(TrackCapacity, Len(made[r])) /\ Clock!Queued(r) \in Nat
  BY <1>1, <1>3, QueuedIs, Constants DEF Clock!Pushing
<1>7. counts' = [counts EXCEPT ![r] = IF @ < Clock!Queued(r) THEN @ + 1 ELSE Clock!Queued(r)]
      /\ counts \in [Tracks -> Nat]
  BY <1>3, ScalarsAre DEF Clock!Count
<1>8. counts' \in [Tracks -> Nat] /\ \A k \in Tracks : k # r => counts'[k] = counts[k]
  BY <1>6, <1>7
<1>9. CountOK(r)'
  <2>1. counts[r] = Clock!Least(TrackCapacity, Len(made[r]) - 1)
    BY <1>1, <1>5, ScalarsAre DEF CountOK
  <2>2. counts'[r] = IF counts[r] < Clock!Queued(r) THEN counts[r] + 1 ELSE Clock!Queued(r)
    BY <1>7
  <2>3. counts'[r] = Clock!Least(TrackCapacity, Len(made[r])) /\ counts'[r] <= TrackCapacity
    BY <1>4, <1>6, <2>1, <2>2, Constants DEF Clock!Least
  <2> QED BY <1>5, <2>3 DEF CountOK
<1>10. ASSUME NEW k \in Tracks PROVE FirstOK(k)' /\ CountOK(k)'
  <2>1. Clock!Seen(k, {"first"})' = Clock!Seen(k, {"first"})
    BY <1>1, <1>2, SeenStays
  <2>2. FirstOK(k) /\ CountOK(k)
    BY ScalarsAre
  <2> QED BY <1>1, <1>5, <1>8, <1>9, <2>1, <2>2, FirstRests, CountRests
<1>11. SizeOK'
  <2>1. push.pc \in Clock!Sizing /\ push'.pc \in Clock!Sizing
    BY <1>1, <1>2 DEF Clock!Sizing, Clock!Counting
  <2> QED BY <1>1, <2>1, SizeRests, ScalarsAre
<1> QED BY <1>1, <1>8, <1>10, <1>11, ScalarsAre, ScalarsNext

LEMMA SizeScalars ==
  ASSUME Clock!HistoryOK, Clock!RingsOK, Clock!ScalarsOK, Clock!Size \/ Clock!SizeCap
  PROVE  Clock!ScalarsOK'
<1>1. /\ UNCHANGED <<first, counts, seconds, nanos, sequence, err, made>>
      /\ push.pc \in {"size", "cap"} /\ push \in Clock!Pushes /\ ~err /\ sequence \in Nat /\ sequence >= 1
  BY Counts DEF Clock!Size, Clock!SizeCap, Clock!track, Clock!history, Clock!At, Clock!HistoryOK
<1>2. /\ Clock!GoTo("cap") => push'.pc = "cap" /\ push'.track = push.track
      /\ push' = Clock!Idle => push'.pc = "idle"
      /\ Clock!GoTo("cap") \/ push' = Clock!Idle
  BY <1>1, PushGoes, PushRests DEF Clock!Labels, Clock!Sizing, Clock!Size, Clock!SizeCap
<1>3. ASSUME NEW k \in Tracks PROVE FirstOK(k)' /\ CountOK(k)'
  <2>1. /\ Clock!Seen(k, {"first"})' = Clock!Seen(k, {"first"})
        /\ Clock!Seen(k, Clock!Counting)' = Clock!Seen(k, Clock!Counting)
    <3>1. push.pc \notin Clock!Counting /\ push'.pc \notin Clock!Counting
      BY <1>1, <1>2 DEF Clock!Counting, Clock!Timing, Clock!Pushing
    <3>2. push.pc \notin {"first"} /\ push'.pc \notin {"first"}
      BY <1>1, <1>2
    <3> QED BY <1>1, <3>1, <3>2, SeenStays
  <2>2. FirstOK(k) /\ CountOK(k)
    BY ScalarsAre
  <2> QED BY <1>1, <2>1, <2>2, FirstRests, CountRests
<1>4. Clock!Queued(Timeline) = Clock!Least(ClockCapacity, sequence)
  BY <1>1, QueuedIs, Constants, Counts DEF Clock!Pushing
<1>5. SizeOK
  BY ScalarsAre
<1>6. "size" \in Clock!Sizing /\ "cap" \notin Clock!Sizing /\ "idle" \notin Clock!Sizing
  BY DEF Clock!Sizing, Clock!Counting, Clock!Timing, Clock!Pushing
<1>7. CASE Clock!Size
  <2>1. /\ push.pc = "size" /\ timelineSize' = timelineSize + 1
        /\ IF timelineSize + 1 > Clock!Queued(Timeline) THEN Clock!GoTo("cap") ELSE push' = Clock!Idle
    BY <1>7 DEF Clock!Size, Clock!At
  <2>2. timelineSize = Clock!Least(ClockCapacity, sequence - 1)
    BY <1>1, <1>5, <1>6, <2>1 DEF SizeOK, Clock!At
  <2>3. CASE sequence > ClockCapacity
    <3>1. timelineSize' = ClockCapacity + 1 /\ push'.pc = "cap"
      BY <1>1, <1>2, <1>4, <2>1, <2>2, <2>3, Constants DEF Clock!Least
    <3>2. SizeOK'
      BY <1>1, <1>6, <2>3, <3>1, Constants DEF SizeOK, Clock!At, Clock!Least
    <3> QED BY <1>1, <1>3, <3>2, ScalarsAre, ScalarsNext
  <2>4. CASE sequence <= ClockCapacity
    <3>1. timelineSize' = sequence /\ push'.pc = "idle"
      BY <1>1, <1>2, <1>4, <2>1, <2>2, <2>4, Constants DEF Clock!Least
    <3>2. SizeOK'
      BY <1>1, <1>6, <2>4, <3>1, Constants DEF SizeOK, Clock!At, Clock!Least
    <3> QED BY <1>1, <1>3, <3>2, ScalarsAre, ScalarsNext
  <2> QED BY <1>1, <2>3, <2>4, Constants
<1>8. CASE Clock!SizeCap
  <2>1. timelineSize' = Clock!Queued(Timeline) /\ push'.pc = "idle"
    BY <1>8, <1>2 DEF Clock!SizeCap
  <2>2. SizeOK'
    BY <1>1, <1>4, <1>6, <2>1, Constants DEF SizeOK, Clock!At, Clock!Least
  <2> QED BY <1>1, <1>3, <2>2, ScalarsAre, ScalarsNext
<1> QED BY <1>7, <1>8

-----------------------------------------------------------------------------
(* The latest walls *)

LEMMA DivisionIs ==
  ASSUME NEW w \in Nat, NEW n \in Nat, n >= 1
  PROVE  /\ w \div n \in Nat /\ w % n \in Nat /\ w % n < n
         /\ (w \div n) * n + (w % n) = w /\ (w \div n) * n <= w
OBVIOUS

LEMMA WallsRest ==
  ASSUME NEW k \in Tracks, Clock!WallsOK(k), seconds'[k] = seconds[k], nanos'[k] = nanos[k],
         err => err', ~(Clock!At("nanos") /\ k = push.track), ~(Clock!At("nanos") /\ k = push.track)',
         ~err' => /\ Clock!Seen(k, Clock!Timing)' = Clock!Seen(k, Clock!Timing)
                  /\ \A i \in 1..Clock!Seen(k, Clock!Timing) : Clock!Wall(made[k][i])' = Clock!Wall(made[k][i])
  PROVE  Clock!WallsOK(k)'
BY DEF Clock!WallsOK, Clock!Latestof, Clock!Latest

LEMMA ObserveWalls ==
  ASSUME Clock!HistoryOK, \A k \in Tracks : Clock!WallsOK(k), NEW l \in Tracks, NEW w, Observed(l, w),
         UNCHANGED <<err, Clock!track>>
  PROVE  \A k \in Tracks : Clock!WallsOK(k)'
<1> TAKE k \in Tracks
<1>1. UNCHANGED <<seconds, nanos, err>> /\ push.pc = "idle" /\ push'.pc = "first"
  BY DEF Clock!track, Observed, Clock!At
<1>2. Clock!Seen(k, Clock!Timing)' = Clock!Seen(k, Clock!Timing) /\ Clock!Seen(k, Clock!Timing) = Len(made[k])
  BY SeenObserved DEF Clock!Timing, Clock!Pushing
<1>3. ASSUME NEW i \in 1..Len(made[k]) PROVE Clock!Wall(made[k][i])' = Clock!Wall(made[k][i])
  <2>1. made'[k][i] = made[k][i] /\ made[k][i] \in 1..sequence
    BY Counts, Constants DEF Observed
  <2>2. log'[made[k][i]] = log[made[k][i]]
    BY <2>1 DEF Observed
  <2> QED BY <2>1, <2>2 DEF Clock!Wall
<1> QED BY <1>1, <1>2, <1>3, WallsRest DEF Clock!At

LEMMA OtherWalls ==
  ASSUME Clock!HistoryOK, \A k \in Tracks : Clock!WallsOK(k), UNCHANGED <<seconds, nanos, made, log>>,
         err => err',
         ~err' => ((push.pc \in Clock!Timing <=> push'.pc \in Clock!Timing)
                   /\ (push'.track = push.track \/ push.pc \notin Clock!Timing)),
         push.pc # "nanos", push'.pc # "nanos"
  PROVE  \A k \in Tracks : Clock!WallsOK(k)'
<1> TAKE k \in Tracks
<1>1. ~err' => Clock!Seen(k, Clock!Timing)' = Clock!Seen(k, Clock!Timing)
  BY SeenStays
<1>2. \A i \in 1..Clock!Seen(k, Clock!Timing) : Clock!Wall(made[k][i])' = Clock!Wall(made[k][i])
  BY DEF Clock!Wall
<1> QED BY <1>1, <1>2, WallsRest DEF Clock!At

LEMMA WallIs ==
  ASSUME Clock!HistoryOK, NEW i \in 1..sequence
  PROVE  Clock!Wall(i) \in 1..LastWall /\ i # 0 /\ Clock!Wall(i) = log[i].wall
<1> DEFINE S == [track : Tracks, wall : Clock!Walls]
<1>1. i # 0 /\ i \in 1..Len(log) /\ log \in Seq(S)
  BY Counts DEF Clock!HistoryOK
<1>2. log[i] \in S
  <2> HIDE DEF S
  <2> QED BY <1>1
<1> QED BY <1>1, <1>2 DEF Clock!Wall, Clock!Walls

LEMMA LatestIs ==
  ASSUME NEW s \in Nat, NEW m \in Nat, NEW n \in Nat
  PROVE  s * n + m \in Nat
OBVIOUS

\* The wall of the observation that the producer is at.
LEMMA LastIs ==
  ASSUME Clock!HistoryOK, push.pc # "idle"
  PROVE  /\ push.track \in Tracks /\ Len(made[push.track]) \in Nat /\ Len(made[push.track]) >= 1
         /\ Clock!Wall(made[push.track][Len(made[push.track])]) = push.wall
         /\ push.wall \in 1..LastWall /\ ~err
<1>1. /\ push.track \in Tracks /\ Len(made[push.track]) \in Nat /\ Len(made[push.track]) >= 1
      /\ made[push.track][Len(made[push.track])] = sequence /\ sequence >= 1 /\ sequence \in Nat
      /\ ~err
  BY Counts, Constants DEF Clock!HistoryOK, Clock!At
<1>2. log[sequence].wall = push.wall
  BY DEF Clock!HistoryOK, Clock!At
<1>3. Clock!Wall(sequence) \in 1..LastWall /\ Clock!Wall(sequence) = log[sequence].wall
  BY <1>1, WallIs
<1> QED BY <1>1, <1>2, <1>3

LEMMA LatestofMore ==
  ASSUME NEW k, NEW n \in Nat, NEW w \in Nat, Clock!Latestof(k, n, w),
         Clock!Wall(made[k][n + 1]) \in Nat, Clock!Wall(made[k][n + 1]) <= w,
            Clock!Wall(made[k][n + 1]) >= 1
  PROVE  Clock!Latestof(k, n + 1, w)
<1>1. n > 0
  <2> SUFFICES ASSUME n = 0 PROVE FALSE
    OBVIOUS
  <2>1. w = 0
    BY DEF Clock!Latestof
  <2> QED BY <2>1
<1>2. \A i \in 1..(n + 1) : i \in 1..n \/ i = n + 1
  OBVIOUS
<1>3. \A i \in 1..n : i \in 1..(n + 1)
  OBVIOUS
<1> QED BY <1>1, <1>2, <1>3 DEF Clock!Latestof

LEMMA LatestWalls ==
  ASSUME Clock!HistoryOK, Clock!ScalarsOK, \A k \in Tracks : Clock!WallsOK(k), Clock!LatestSeconds \/ Clock!LatestNanos
  PROVE  /\ seconds' \in [Tracks -> Nat] /\ nanos' \in [Tracks -> Nat]
         /\ \A k \in Tracks : Clock!WallsOK(k)'
<1>1. /\ push.pc \in {"seconds", "nanos"} /\ push \in Clock!Pushes /\ push.pc # "idle"
      /\ UNCHANGED <<made, log, err>> /\ (Clock!GoTo("nanos") \/ Clock!GoTo("count"))
  BY DEF Clock!LatestSeconds, Clock!LatestNanos, Clock!At, Clock!HistoryOK, Clock!history
<1>2. PICK r \in Tracks : r = push.track
  BY <1>1, LastIs
<1>3. PICK n \in Nat : Len(made[r]) = n + 1
  <2>1. Len(made[r]) \in Nat /\ Len(made[r]) >= 1
    BY <1>1, <1>2, LastIs
  <2>2. Len(made[r]) - 1 \in Nat /\ Len(made[r]) = (Len(made[r]) - 1) + 1
    BY <2>1
  <2> QED BY <2>2
<1>4. PICK w \in 1..LastWall : w = push.wall /\ Clock!Wall(made[r][n + 1]) = w
  BY <1>1, <1>2, <1>3, LastIs
<1>5. /\ seconds \in [Tracks -> Nat] /\ nanos \in [Tracks -> Nat] /\ ~err
  BY <1>1, LastIs, ScalarsAre
<1>6. /\ Clock!GoTo("nanos") => push'.pc = "nanos"
      /\ Clock!GoTo("count") => push'.pc = "count"
      /\ push'.track = r /\ push'.wall = w
  BY <1>1, <1>2, <1>4, PushGoes DEF Clock!Labels, Clock!Sizing, Clock!Counting, Clock!Timing
<1>7. Clock!Seen(r, Clock!Timing) = n
  <2>1. push.pc \in Clock!Timing
    BY <1>1 DEF Clock!Timing
  <2>2. Clock!Seen(r, Clock!Timing) = Len(made[r]) - 1
    BY <1>2, <2>1, Zenon DEF Clock!Seen
  <2> QED BY <1>3, <2>2
<1>8. \A i : Clock!Wall(made[r][i])' = Clock!Wall(made[r][i])
  BY <1>1 DEF Clock!Wall
<1>9. /\ push'.pc = "nanos" => Clock!Seen(r, Clock!Timing)' = n
      /\ push'.pc = "count" => Clock!Seen(r, Clock!Timing)' = n + 1
  <2>1. "nanos" \in Clock!Timing /\ "count" \notin Clock!Timing
    BY DEF Clock!Timing, Clock!Pushing
  <2>2. push'.pc = "nanos" => Clock!Seen(r, Clock!Timing)' = Len(made'[r]) - 1
    BY <1>6, <2>1, Zenon DEF Clock!Seen
  <2>3. push'.pc = "count" => Clock!Seen(r, Clock!Timing)' = Len(made'[r]) - 0
    BY <1>6, <2>1, Zenon DEF Clock!Seen
  <2> QED BY <1>1, <1>3, <2>2, <2>3
<1>10. LastWall \in Nat /\ Nanos \in Nat /\ Nanos >= 1
       /\ w \div Nanos \in Nat /\ w % Nanos \in Nat /\ w % Nanos < Nanos
       /\ (w \div Nanos) * Nanos + (w % Nanos) = w /\ (w \div Nanos) * Nanos <= w
  BY Constants, DivisionIs
<1>11. Clock!WallsOK(r) /\ seconds[r] \in Nat /\ nanos[r] \in Nat
  BY <1>5
<1>12. seconds' \in [Tracks -> Nat] /\ nanos' \in [Tracks -> Nat]
       /\ \A k \in Tracks : k # r => seconds'[k] = seconds[k] /\ nanos'[k] = nanos[k]
  BY <1>2, <1>4, <1>5, <1>10 DEF Clock!LatestSeconds, Clock!LatestNanos
<1>13. ASSUME NEW k \in Tracks, k # r PROVE Clock!WallsOK(k)'
  <2>1. Clock!Seen(k, Clock!Timing)' = Clock!Seen(k, Clock!Timing)
    BY <1>1, <1>2, <1>6, <1>13, Zenon DEF Clock!Seen
  <2>2. \A i \in 1..Clock!Seen(k, Clock!Timing) : Clock!Wall(made[k][i])' = Clock!Wall(made[k][i])
    BY <1>1 DEF Clock!Wall
  <2>3. ~(Clock!At("nanos") /\ k = push.track) /\ ~(Clock!At("nanos") /\ k = push.track)'
    BY <1>2, <1>6, <1>13
  <2>4. Clock!WallsOK(k) /\ seconds'[k] = seconds[k] /\ nanos'[k] = nanos[k] /\ (err => err')
    BY <1>1, <1>12, <1>13
  <2> QED BY <2>1, <2>2, <2>3, <2>4, WallsRest
<1>14. Clock!WallsOK(r)'
  <2>1. CASE Clock!LatestSeconds /\ w > Clock!Latest(r)
    <3>1. seconds'[r] = w \div Nanos /\ nanos'[r] = nanos[r] /\ push'.pc = "nanos" /\ push.pc = "seconds"
      BY <2>1, <1>2, <1>4, <1>5, <1>6 DEF Clock!LatestSeconds, Clock!At
    <3>2. Clock!Latestof(r, n, Clock!Latest(r))
      BY <1>5, <1>7, <1>11, <3>1 DEF Clock!WallsOK, Clock!At
    <3>3. /\ \A i \in 1..n : Clock!Wall(made[r][i]) <= Clock!Latest(r)
          /\ Clock!Latest(r) \in Nat
      BY <1>10, <1>11, <3>2, LatestIs DEF Clock!Latestof, Clock!Latest
    <3>4. \A i \in 1..n : Clock!Wall(made[r][i]) \in Nat
      <4> TAKE i \in 1..n
      <4>1. made[r][i] \in 1..sequence
        BY <1>3, Counts, Constants
      <4>2. Clock!Wall(made[r][i]) \in 1..LastWall
        BY <4>1, WallIs
      <4> QED BY <4>2, Constants
    <3>5. \A i \in 1..n : Clock!Wall(made[r][i]) < w
      BY <2>1, <3>3, <3>4
    <3>6. (Clock!At("nanos") /\ r = push.track)'
      BY <1>6, <3>1 DEF Clock!At
    <3>7. /\ seconds[r] * Nanos <= LastWall /\ nanos[r] < Nanos /\ seconds'[r] * Nanos <= LastWall
      BY <1>10, <1>11, <3>1 DEF Clock!WallsOK
    <3> QED BY <1>6, <1>8, <1>9, <1>10, <1>11, <3>1, <3>5, <3>6, <3>7 DEF Clock!WallsOK
  <2>2. CASE Clock!LatestSeconds /\ ~(w > Clock!Latest(r))
    <3>1. seconds' = seconds /\ nanos' = nanos /\ push'.pc = "count" /\ push.pc = "seconds"
      BY <2>2, <1>2, <1>4, <1>6 DEF Clock!LatestSeconds, Clock!At
    <3>2. Clock!Latestof(r, n, Clock!Latest(r)) /\ Clock!Latest(r) \in Nat
      BY <1>5, <1>7, <1>10, <1>11, <3>1, LatestIs DEF Clock!WallsOK, Clock!At, Clock!Latest
    <3>3. Clock!Latestof(r, n + 1, Clock!Latest(r))
      BY <1>4, <2>2, <3>2, LatestofMore
    <3>4. Clock!Latestof(r, n + 1, Clock!Latest(r))'
      BY <1>8, <3>1, <3>3 DEF Clock!Latestof, Clock!Latest
    <3>5. ~(Clock!At("nanos") /\ r = push.track)'
      BY <3>1 DEF Clock!At
    <3> QED BY <1>9, <1>11, <3>1, <3>4, <3>5 DEF Clock!WallsOK
  <2>3. CASE Clock!LatestNanos
    <3>1. seconds' = seconds /\ nanos'[r] = w % Nanos /\ push'.pc = "count" /\ push.pc = "nanos"
      BY <2>3, <1>2, <1>4, <1>5, <1>6 DEF Clock!LatestNanos, Clock!At
    <3>2. seconds[r] = w \div Nanos /\ \A i \in 1..n : Clock!Wall(made[r][i]) < w
      BY <1>2, <1>4, <1>5, <1>7, <1>11, <3>1 DEF Clock!WallsOK, Clock!At
    <3>3. Clock!Latest(r)' = w
      BY <1>10, <3>1, <3>2 DEF Clock!Latest
    <3>4. \A i \in 1..(n + 1) : i \in 1..n \/ i = n + 1
      OBVIOUS
    <3>5. \A i \in 1..(n + 1) : Clock!Wall(made[r][i]) <= w
      <4>1. \A i \in 1..n : Clock!Wall(made[r][i]) \in Nat
        <5> TAKE i \in 1..n
        <5>1. made[r][i] \in 1..sequence
          BY <1>3, Counts, Constants
        <5> QED BY <1>10, <5>1, WallIs
      <4> QED BY <1>4, <3>2, <3>4, <4>1
    <3>6. Clock!Latestof(r, n + 1, w)
      BY <1>4, <3>5 DEF Clock!Latestof
    <3>7. Clock!Latestof(r, n + 1, Clock!Latest(r))'
      BY <1>8, <3>3, <3>6 DEF Clock!Latestof
    <3>8. ~(Clock!At("nanos") /\ r = push.track)'
      BY <3>1 DEF Clock!At
    <3>9. nanos'[r] \in Nat /\ nanos'[r] < Nanos /\ seconds[r] * Nanos <= LastWall
      BY <1>10, <1>11, <3>1 DEF Clock!WallsOK
    <3> QED BY <1>9, <1>11, <3>1, <3>7, <3>8, <3>9 DEF Clock!WallsOK
  <2> QED BY <2>1, <2>2, <2>3
<1> QED BY <1>12, <1>13, <1>14

-----------------------------------------------------------------------------
(* The producer keeps its part of the invariant, and what the calls know *)

InRing == \/ Clock!PushStart \/ Clock!EvictClear \/ Clock!EvictUnready \/ Clock!EvictAdvance
          \/ Clock!PushWrite \/ Clock!PushReady \/ Clock!PushPublish

LEMMA InRingIs ==
  ASSUME Clock!HistoryOK, InRing
  PROVE  /\ made' = made /\ log' = log /\ sequence' = sequence
         /\ UNCHANGED <<err, first, counts, seconds, nanos>> /\ (Clock!UnchangedScalars \/ UNCHANGED Clock!clock)
         /\ push.pc \in Clock!Pushing \ {"first"}
         /\ push'.pc \in (Clock!Pushing \ {"first"}) \cup {"seconds"}
         /\ push'.track = push.track
<1>1. push \in Clock!Pushes
  BY DEF Clock!HistoryOK
<1>2. CASE InRing /\ ~Clock!PushPublish
  <2>1. /\ made' = made /\ log' = log /\ sequence' = sequence
        /\ UNCHANGED <<err, first, counts, seconds, nanos>> /\ (Clock!UnchangedScalars \/ UNCHANGED Clock!clock)
        /\ push.pc \in Clock!Pushing \ {"first"}
    BY <1>2 DEF InRing, Clock!PushStart, Clock!EvictClear, Clock!EvictUnready, Clock!EvictAdvance,
       Clock!PushWrite, Clock!PushReady,
       Clock!UnchangedScalars, Clock!clock, Clock!history, Clock!track, Clock!At, Clock!Pushing
  <2>2. \E l \in Clock!Pushing \ {"first"} : Clock!GoTo(l)
    <3>1. {"clear", "write", "unready", "advance", "ready", "publish"} \subseteq Clock!Pushing \ {"first"}
      BY DEF Clock!Pushing
    <3>2. \E l \in {"clear", "write", "unready", "advance", "ready", "publish"} : Clock!GoTo(l)
      BY <1>2 DEF InRing, Clock!PushStart, Clock!EvictClear, Clock!EvictUnready,
         Clock!EvictAdvance, Clock!PushWrite, Clock!PushReady
    <3> QED BY <3>1, <3>2
  <2>3. push'.pc \in Clock!Pushing \ {"first"} /\ push'.track = push.track
    BY <1>1, <2>2, PushGoes DEF Clock!Labels, Clock!Sizing, Clock!Counting, Clock!Timing
  <2> QED BY <2>1, <2>3
<1>3. CASE Clock!PushPublish
  <2>1. /\ made' = made /\ log' = log /\ sequence' = sequence
        /\ UNCHANGED <<err, first, counts, seconds, nanos>> /\ Clock!UnchangedScalars
        /\ push.pc \in Clock!Pushing \ {"first"}
    BY <1>3 DEF Clock!PushPublish, Clock!UnchangedScalars, Clock!history, Clock!track, Clock!At,
       Clock!Pushing
  <2>2. push' = IF push.into = Timeline
                THEN [push EXCEPT !.pc = "push", !.into = push.track]
                ELSE [push EXCEPT !.pc = "seconds"]
    BY <1>3 DEF Clock!PushPublish
  <2>3. push'.pc \in {"push", "seconds"} /\ push'.track = push.track
    BY <1>1, <2>2 DEF Clock!Pushes
  <2> QED BY <2>1, <2>3 DEF Clock!Pushing
<1> QED BY <1>2, <1>3

LEMMA ProducerSteps ==
  ASSUME Clock!ProducerOK, Clock!Producer, mode' = mode
  PROVE  Clock!ProducerOK'
<1> USE DEF Clock!ProducerOK
<1>1. CASE Observing
  <2>1. PICK k \in mode.tracks, w \in 1..mode.lastWall : Clock!Observe(k, w)
    BY <1>1 DEF Observing
  <2>2. k \in Tracks /\ w \in Clock!Walls
    BY ModeIs, Constants DEF Clock!Walls
  <2>3. Observed(k, w)
    BY <2>1, <2>2, ObservedIs
  <2>4. UNCHANGED <<timelineSize, err, Clock!ring, Clock!track>>
    BY <2>1 DEF Clock!Observe
  <2> HIDE DEF Clock!ProducerOK
  <2>5. Clock!HistoryOK /\ Clock!RingsOK /\ Clock!ScalarsOK /\ \A l \in Tracks : Clock!WallsOK(l)
    BY DEF Clock!ProducerOK
  <2>6. Clock!HistoryOK'
    BY <2>2, <2>3, <2>4, <2>5, ObserveHistory
  <2>7. Clock!RingsOK'
    BY <2>2, <2>3, <2>4, <2>5, ObserveRings
  <2>8. Clock!ScalarsOK'
    BY <2>2, <2>3, <2>4, <2>5, ObserveScalars
  <2>9. \A l \in Tracks : Clock!WallsOK(l)'
    BY <2>2, <2>3, <2>4, <2>5, ObserveWalls
  <2> QED BY <2>6, <2>7, <2>8, <2>9 DEF Clock!ProducerOK
<1>2. CASE Storing
  <2>1. Clock!HistoryOK' /\ Clock!RingsOK'
    BY <1>2, StoringHistory, StoringRings
  <2>2. CASE InRing
    <3>1. Clock!ScalarsOK'
      BY <2>2, InRingIs, RingScalars
    <3>2. \A k \in Tracks : Clock!WallsOK(k)'
      <4>1. push.pc \in Clock!Timing /\ push'.pc \in Clock!Timing /\ push.pc # "nanos" /\ push'.pc # "nanos"
        BY <2>2, InRingIs DEF Clock!Timing, Clock!Pushing
      <4> QED BY <2>2, <4>1, InRingIs, OtherWalls
    <3> QED BY <2>1, <3>1, <3>2
  <2>3. CASE Clock!PushFails
    <3>1. Clock!ScalarsOK'
      BY <2>3, FailScalars
    <3>2. /\ UNCHANGED <<seconds, nanos, made, log>> /\ err'
          /\ push.pc = "push" /\ push'.pc = "idle"
      BY <2>3, PushRests DEF Clock!PushFails, Clock!track, Clock!history, Clock!At
    <3> QED BY <2>1, <3>1, <3>2, OtherWalls
  <2>4. CASE Clock!First
    <3>1. Clock!ScalarsOK'
      BY <2>4, FirstScalars
    <3>2. /\ UNCHANGED <<seconds, nanos, made, log, err>>
          /\ push.pc = "first" /\ Clock!GoTo("push") /\ push \in Clock!Pushes
      BY <2>4 DEF Clock!First, Clock!history, Clock!At, Clock!HistoryOK
    <3>3. push'.pc = "push" /\ push'.track = push.track
      BY <3>2, PushGoes DEF Clock!Labels, Clock!Sizing, Clock!Counting, Clock!Timing, Clock!Pushing
    <3>4. push.pc \in Clock!Timing /\ push'.pc \in Clock!Timing
      BY <3>2, <3>3 DEF Clock!Timing, Clock!Pushing
    <3> QED BY <2>1, <3>1, <3>2, <3>3, <3>4, OtherWalls
  <2>5. CASE Clock!LatestSeconds \/ Clock!LatestNanos
    BY <2>1, <2>5, LatestWalls, LatestScalars
  <2>6. CASE Clock!Count \/ Clock!Size \/ Clock!SizeCap
    <3>1. Clock!ScalarsOK'
      BY <2>6, CountScalars, SizeScalars
    <3>2. /\ UNCHANGED <<seconds, nanos, made, log, err>> /\ push \in Clock!Pushes
          /\ push.pc \in {"count", "size", "cap"}
          /\ Clock!GoTo("size") \/ Clock!GoTo("cap") \/ push' = Clock!Idle
      BY <2>6 DEF Clock!Count, Clock!Size, Clock!SizeCap, Clock!track, Clock!history, Clock!At,
         Clock!HistoryOK
    <3>3. push'.pc \in {"size", "cap", "idle"}
      BY <3>2, PushGoes, PushRests DEF Clock!Labels, Clock!Sizing
    <3>4. push.pc \notin Clock!Timing /\ push'.pc \notin Clock!Timing
      BY <3>2, <3>3 DEF Clock!Timing, Clock!Pushing
    <3> QED BY <2>1, <3>1, <3>2, <3>3, <3>4, OtherWalls
  <2> QED BY <1>2, <2>2, <2>3, <2>4, <2>5, <2>6 DEF Storing, InRing
<1> QED BY <1>1, <1>2 DEF Clock!Producer, Observing, Storing

LEMMA ProducerCalls ==
  ASSUME Clock!ProducerOK, Clock!ProducerOK', Clock!ConsumersOK, Clock!Producer, mode' = mode
  PROVE  Clock!ConsumersOK'
<1>1. UNCHANGED <<cursors, cuts, call>>
  BY DEF Clock!Producer
<1>2. sequence \in Nat /\ sequence' \in Nat /\ sequence' >= sequence
  <2>1. sequence \in Nat /\ sequence' \in Nat
    BY Constants DEF Clock!ProducerOK, Clock!HistoryOK, Clock!Seqs
  <2>2. sequence' = sequence \/ sequence' = sequence + 1
    BY DEF Clock!Producer, Clock!Observe, Clock!First, Clock!PushFails, Clock!PushStart,
       Clock!EvictClear, Clock!EvictUnready, Clock!EvictAdvance,
       Clock!PushWrite, Clock!PushReady, Clock!PushPublish, Clock!LatestSeconds, Clock!LatestNanos,
          Clock!Count, Clock!Size, Clock!SizeCap,
       Clock!UnchangedScalars, Clock!clock
  <2> QED BY <2>1, <2>2
<1>3. mode.overlap \/ ~Clock!At("idle") \/ \A c \in Consumers : call[c] = None
  BY DEF Clock!Producer, Clock!Observe, Clock!First, Clock!PushFails, Clock!PushStart,
     Clock!EvictClear, Clock!EvictUnready, Clock!EvictAdvance,
     Clock!PushWrite, Clock!PushReady, Clock!PushPublish, Clock!LatestSeconds, Clock!LatestNanos,
        Clock!Count, Clock!Size, Clock!SizeCap, Clock!At
<1>4. ASSUME NEW c \in Consumers, call[c] # None
      PROVE  Clock!CallOK(call[c], cursors[c]) /\ mode.overlap
  BY <1>3, <1>4 DEF Clock!ConsumersOK
<1>5. ASSUME NEW c \in Consumers
      PROVE  cuts[c] = None \/ (cuts[c] \in Clock!Cuts /\ cuts[c].through <= sequence')
  BY <1>2, Constants DEF Clock!ConsumersOK, Clock!Cuts, Clock!Seqs
<1>6. ASSUME NEW c \in Consumers, call'[c] # None
      PROVE  Clock!CallOK(call[c], cursors[c])' /\ mode'.overlap
  BY <1>1, <1>4, <1>6 DEF Clock!CallOK
<1> QED BY <1>1, <1>5, <1>6 DEF Clock!ConsumersOK

-----------------------------------------------------------------------------
(* The consumers: what a call knows, as its record goes from x to y *)

Knows(x, from) == /\ Clock!CallOK(x, from)
                  /\ ~mode.overlap => Clock!At("idle") /\ ~err /\ Clock!ReadOK(x, from)

\* A call reads the state that the others know of, and changes none of it.
Unchanged == UNCHANGED <<mode, Clock!clock, push, Clock!history>>

LEMMA FramedSame ==
  ASSUME Unchanged, NEW x, NEW k
  PROVE  Clock!Framed(x, k)' <=> Clock!Framed(x, k)
<1>1. Clock!Retained(k)' = Clock!Retained(k)
  BY DEF Unchanged, Clock!history, Clock!Retained, Clock!LastOf
<1>2. \A i : Clock!Wall(i)' = Clock!Wall(i)
  BY DEF Unchanged, Clock!history, Clock!Wall
<1>3. made' = made
  BY DEF Unchanged, Clock!history
<1> QED BY <1>1, <1>2, <1>3, Zenon DEF Clock!Framed

LEMMA BestSame ==
  ASSUME Unchanged, NEW x, NEW seen
  PROVE  Clock!BestOf(x, seen)' <=> Clock!BestOf(x, seen)
<1>1. \A i : Clock!Wall(i)' = Clock!Wall(i)
  BY DEF Unchanged, Clock!history, Clock!Wall
<1>2. \A z : Clock!Eligible(x, z)' <=> Clock!Eligible(x, z)
  BY <1>1 DEF Clock!Eligible
<1> QED BY <1>1, <1>2 DEF Clock!BestOf, Clock!Whole

LEMMA TrackSame ==
  ASSUME Unchanged, NEW x
  PROVE  Clock!TrackOK(x)' <=> Clock!TrackOK(x)
<1>1. \A i : Clock!Wall(i)' = Clock!Wall(i)
  BY DEF Unchanged, Clock!history, Clock!Wall
<1>2. Clock!Passed(x)' = Clock!Passed(x) /\ Clock!Retained(x.ring)' = Clock!Retained(x.ring)
  BY DEF Unchanged, Clock!history, Clock!clock, Clock!ring, Clock!Passed, Clock!Retained,
     Clock!LastOf
<1>3. first' = first
  BY DEF Unchanged, Clock!clock, Clock!track
<1>4. /\ Clock!BestOf(x, Clock!Passed(x))' <=> Clock!BestOf(x, Clock!Passed(x))
      /\ Clock!BestOf(x, Clock!Retained(x.ring))' <=> Clock!BestOf(x, Clock!Retained(x.ring))
  BY <1>2, BestSame
<1> QED BY <1>1, <1>2, <1>3, <1>4 DEF Clock!TrackOK

LEMMA LeastSame ==
  ASSUME Unchanged, NEW ks, NEW w
  PROVE  Clock!LeastOf(ks, w)' <=> Clock!LeastOf(ks, w)
BY DEF Unchanged, Clock!history, Clock!clock, Clock!track, Clock!LeastOf, Clock!Latest

LEMMA ReadSame ==
  ASSUME Unchanged, NEW x, NEW from
  PROVE  Clock!ReadOK(x, from)' <=> Clock!ReadOK(x, from)
<1>1. UNCHANGED <<sequence, heads, tails, slotValues, seconds, made>>
  BY DEF Unchanged, Clock!clock, Clock!ring, Clock!track, Clock!history
<1>2. Clock!WalkOK(x)' <=> Clock!WalkOK(x)
  BY <1>1 DEF Clock!WalkOK, Clock!Value
<1>3. Clock!EventsOK(x, from)' <=> Clock!EventsOK(x, from)
  BY <1>1 DEF Clock!EventsOK
<1>4. Clock!FrameOK(x)' <=> Clock!FrameOK(x)
  <2>1. Clock!TrackOK(x)' <=> Clock!TrackOK(x)
    BY TrackSame
  <2>2. \A k : Clock!Framed(x, k)' <=> Clock!Framed(x, k)
    BY FramedSame
  <2> QED BY <1>1, <2>1, <2>2 DEF Clock!FrameOK
<1>5. Clock!AlignedOK(x)' <=> Clock!AlignedOK(x)
  <2>1. \A ks, w : Clock!LeastOf(ks, w)' <=> Clock!LeastOf(ks, w)
    BY LeastSame
  <2> QED BY <1>1, <1>4, <2>1 DEF Clock!AlignedOK
<1> QED BY <1>2, <1>3, <1>4, <1>5 DEF Clock!ReadOK

LEMMA CallMoves ==
  ASSUME Clock!ConsumersOK, Unchanged, NEW c \in Consumers, NEW y, Clock!Becomes(c, y),
         y = None \/ Knows(y, cursors[c])
  PROVE  Clock!ConsumersOK'
<1>1. /\ call' = [call EXCEPT ![c] = y] /\ cursors' = cursors /\ cuts' = cuts
      /\ DOMAIN call = Consumers
  BY DEF Clock!Becomes, Clock!ConsumersOK
<1>2. UNCHANGED <<mode, sequence, err, push>>
  BY DEF Unchanged, Clock!clock
<1>3. ASSUME NEW d \in Consumers, NEW x, x = call'[d], x # None
      PROVE  Knows(x, cursors[d])
  BY <1>1, <1>3 DEF Clock!ConsumersOK, Knows
<1>4. ASSUME NEW d \in Consumers, call'[d] # None
      PROVE  /\ Clock!CallOK(call[d], cursors[d])'
             /\ (~mode.overlap => Clock!At("idle") /\ ~err /\ Clock!ReadOK(call[d], cursors[d]))'
  <2>1. PICK x, from : x = call'[d] /\ from = cursors[d]
    OBVIOUS
  <2>2. Knows(x, from)
    BY <1>3, <1>4, <2>1
  <2>3. Clock!ReadOK(x, from)' <=> Clock!ReadOK(x, from)
    BY ReadSame
  <2>4. Clock!CallOK(x, from)
    BY <2>2 DEF Knows
  <2>5. ~mode.overlap => Clock!At("idle")' /\ ~err' /\ Clock!ReadOK(x, from)'
    BY <1>2, <2>2, <2>3 DEF Knows, Clock!At
  <2>6. x = call'[d] /\ from = cursors'[d]
    BY <1>1, <2>1
  <2> QED BY <1>2, <2>4, <2>5, <2>6
<1> QED BY <1>1, <1>2, <1>4 DEF Clock!ConsumersOK

\* Where the last of a sequence begin, ...
LEMMA LastBegins ==
  ASSUME NEW n \in Nat, NEW cap \in Nat, NEW d \in Nat, d = Clock!Most(0, n - cap)
  PROVE  /\ d \in 0..n /\ n - d \in Nat /\ n - d = Clock!Least(cap, n)
         /\ n <= cap => d = 0
         /\ ~(n <= cap) => n - cap = d
BY DEF Clock!Most, Clock!Least

\* ... and what they are.
LEMMA LastIndexed ==
  ASSUME NEW s \in Seq(Nat), NEW n \in Nat, Len(s) = n, NEW d \in 0..n
  PROVE  /\ SubSeq(s, d + 1, n) \in Seq(Nat) /\ Len(SubSeq(s, d + 1, n)) = n - d
         /\ \A i \in 1..(n - d) : SubSeq(s, d + 1, n)[i] = s[d + i]
OBVIOUS

\* The rings between two pushes.
LEMMA AtRest ==
  ASSUME Clock!ProducerOK, Clock!At("idle"), ~err, NEW r \in Clock!Rings
  PROVE  /\ heads[r] = Len(made[r]) /\ heads[r] \in Nat /\ tails[r] \in Nat
         /\ tails[r] = Clock!Most(0, heads[r] - Clock!CapacityOf(r)) /\ tails[r] <= heads[r]
         /\ Clock!CapacityOf(r) \in Nat /\ Clock!CapacityOf(r) >= 1
         /\ made[r] \in Seq(Nat)
         /\ \A p \in Nat : tails[r] <= p /\ p < heads[r] =>
              /\ slotValues[r][Clock!Slot(r, p)] = made[r][p + 1] /\ slotReady[r][Clock!Slot(r, p)]
              /\ made[r][p + 1] \in 1..sequence
<1>1. push.pc = "idle" /\ "idle" \notin Clock!Pushing
  BY DEF Clock!At, Clock!Pushing
<1>2. Clock!Published(r) = Len(made[r]) - 0
  BY <1>1, Zenon DEF Clock!Published
<1>3. /\ made[r] \in Seq(Nat) /\ \A i \in 1..Len(made[r]) : made[r][i] \in 1..sequence
      /\ Len(made[r]) \in Nat
  <2>1. /\ made \in [Clock!Rings -> Seq(Nat)]
        /\ \A i \in 1..Len(made[r]) : made[r][i] \in 1..sequence
    BY Zenon DEF Clock!ProducerOK, Clock!HistoryOK
  <2> QED BY <2>1
<1>4. \A labels : labels \subseteq Clock!Pushing => ~Clock!On(r, labels)
  BY <1>1 DEF Clock!On
<1>5. ~Clock!On(r, Clock!Writing) /\ ~Clock!On(r, {"unready", "advance"}) /\ ~Clock!On(r, {"advance"})
  BY <1>4 DEF Clock!Writing, Clock!Pushing
<1>6. /\ heads[r] = Len(made[r]) /\ heads[r] \in Nat /\ tails[r] \in Nat
      /\ tails[r] = Clock!Most(0, heads[r] - Clock!CapacityOf(r)) /\ tails[r] <= heads[r]
  BY <1>2, <1>3, <1>5, Constants DEF Clock!ProducerOK, Clock!RingsOK, Clock!WindowOK, Clock!Most
<1>7. \A p \in Nat : tails[r] <= p /\ p < heads[r] =>
         slotValues[r][Clock!Slot(r, p)] = made[r][p + 1] /\ slotReady[r][Clock!Slot(r, p)]
  BY <1>5 DEF Clock!ProducerOK, Clock!RingsOK, Clock!SlotsOK
<1>8. \A p \in Nat : tails[r] <= p /\ p < heads[r] => made[r][p + 1] \in 1..sequence
  BY <1>3, <1>6
<1> QED BY <1>3, <1>6, <1>7, <1>8, Constants

LEMMA LastAre ==
  ASSUME Clock!ProducerOK, Clock!At("idle"), ~err, NEW r \in Clock!Rings
  PROVE  /\ Clock!LastOf(r) \in Seq(Nat) /\ Len(Clock!LastOf(r)) = heads[r] - tails[r]
         /\ Len(Clock!LastOf(r)) = Clock!Least(Clock!CapacityOf(r), Len(made[r]))
         /\ \A i \in 1..(heads[r] - tails[r]) : Clock!LastOf(r)[i] = made[r][tails[r] + i]
         /\ Clock!Retained(r) = {made[r][p + 1] : p \in tails[r]..(heads[r] - 1)}
         /\ \A i \in Clock!Retained(r) : i \in 1..sequence
<1> DEFINE s == made[r]
           n == heads[r]
           d == tails[r]
           cap == Clock!CapacityOf(r)
           l == Clock!LastOf(r)
<1>1. /\ n = Len(s) /\ n \in Nat /\ d \in Nat /\ d = Clock!Most(0, n - cap) /\ d <= n /\ cap \in Nat
      /\ s \in Seq(Nat) /\ \A p \in Nat : d <= p /\ p < n => s[p + 1] \in 1..sequence
  BY AtRest
<1>2. l = (IF n <= cap THEN s ELSE SubSeq(s, n - cap + 1, n))
  BY <1>1 DEF Clock!LastOf
<1>7. n \in Nat /\ d \in Nat /\ d = Clock!Most(0, n - cap) /\ cap \in Nat
  BY <1>1
<1> HIDE DEF s, n, d, cap, l
<1>3. /\ l \in Seq(Nat) /\ Len(l) = n - d /\ n - d = Clock!Least(cap, n)
      /\ \A i \in 1..(n - d) : l[i] = s[d + i]
  <2>1. /\ d \in 0..n /\ n - d \in Nat /\ n - d = Clock!Least(cap, n)
        /\ n <= cap => d = 0
        /\ ~(n <= cap) => n - cap = d
    BY <1>7, LastBegins
  <2>2. CASE n <= cap
    <3>1. d = 0 /\ l = s
      BY <1>2, <2>1, <2>2
    <3> QED BY <1>1, <2>1, <3>1
  <2>3. CASE ~(n <= cap)
    <3> DEFINE m == SubSeq(s, d + 1, n)
    <3>1. m \in Seq(Nat) /\ Len(m) = n - d /\ \A i \in 1..(n - d) : m[i] = s[d + i]
      BY <1>1, <2>1, LastIndexed
    <3>2. l = m
      BY <1>2, <2>1, <2>3
    <3> HIDE DEF m
    <3> QED BY <2>1, <3>1, <3>2
  <2> QED BY <2>2, <2>3
<1>4. DOMAIN l = 1..(n - d)
  BY <1>3
<1>5. {l[i] : i \in DOMAIN l} = {s[p + 1] : p \in d..(n - 1)}
  <2>1. ASSUME NEW i \in 1..(n - d) PROVE \E p \in d..(n - 1) : l[i] = s[p + 1]
    <3>1. d + i - 1 \in d..(n - 1) /\ (d + i - 1) + 1 = d + i
      BY <1>1
    <3> QED BY <1>3, <3>1
  <2>2. ASSUME NEW p \in d..(n - 1) PROVE \E i \in 1..(n - d) : l[i] = s[p + 1]
    <3>1. p + 1 - d \in 1..(n - d) /\ d + (p + 1 - d) = p + 1
      BY <1>1
    <3> QED BY <1>3, <3>1
  <2>3. \A v : v \in {l[i] : i \in DOMAIN l} => v \in {s[p + 1] : p \in d..(n - 1)}
    BY <1>4, <2>1, Zenon
  <2>4. \A v : v \in {s[p + 1] : p \in d..(n - 1)} => v \in {l[i] : i \in DOMAIN l}
    BY <1>4, <2>2, Zenon
  <2> QED BY <2>3, <2>4, Zenon
<1>6. \A i \in {s[p + 1] : p \in d..(n - 1)} : i \in 1..sequence
  BY <1>1
<1> QED BY <1>1, <1>3, <1>5, <1>6 DEF s, n, d, cap, l, Clock!Retained

\* What the atomic fields say between two pushes.
LEMMA FieldsAtRest ==
  ASSUME Clock!ProducerOK, Clock!At("idle"), ~err, NEW k \in Tracks
  PROVE  /\ first[k] \in Clock!Seqs /\ made[k] \in Seq(Nat) /\ Len(made[k]) \in Nat
         /\ first[k] = IF made[k] = << >> THEN 0 ELSE made[k][1]
         /\ counts[k] = Clock!Least(TrackCapacity, Len(made[k]))
         /\ Clock!Latestof(k, Len(made[k]), Clock!Latest(k)) /\ Clock!Latest(k) \in Nat
         /\ made[k] # << >> => Clock!Latest(k) # 0
<1>1. push.pc = "idle" /\ "idle" \notin Clock!Counting /\ "idle" \notin Clock!Timing
  BY DEF Clock!At, Clock!Counting, Clock!Timing, Clock!Pushing
<1>2. made[k] \in Seq(Nat) /\ Len(made[k]) \in Nat
  BY Constants DEF Clock!ProducerOK, Clock!HistoryOK
<1>3. \A L : "idle" \notin L => Clock!Seen(k, L) = Len(made[k])
  <2> TAKE L
  <2>1. "idle" \notin L => Clock!Seen(k, L) = Len(made[k]) - 0
    BY <1>1, Zenon DEF Clock!Seen
  <2> QED BY <1>2, <2>1
<1>4. FirstOK(k) /\ CountOK(k) /\ first[k] \in Clock!Seqs /\ Clock!WallsOK(k)
  BY ScalarsAre DEF Clock!ProducerOK
<1>5. first[k] = IF made[k] = << >> THEN 0 ELSE made[k][1]
  BY <1>2, <1>3, <1>4, EmptySeq DEF FirstOK
<1>6. counts[k] = Clock!Least(TrackCapacity, Len(made[k]))
  BY <1>1, <1>3, <1>4 DEF CountOK
<1>7. Clock!Latestof(k, Len(made[k]), Clock!Latest(k)) /\ Clock!Latest(k) \in Nat
  BY <1>1, <1>3, <1>4, LatestIs, Constants DEF Clock!WallsOK, Clock!At, Clock!Latest
<1>8. made[k] # << >> => Clock!Latest(k) # 0
  <2> SUFFICES ASSUME made[k] # << >> PROVE Clock!Latest(k) # 0
    OBVIOUS
  <2>1. Len(made[k]) > 0
    BY <1>2, EmptySeq
  <2>2. PICK i \in 1..Len(made[k]) : Clock!Wall(made[k][i]) = Clock!Latest(k)
    BY <1>7, <2>1 DEF Clock!Latestof
  <2>3. made[k][i] \in 1..sequence
    BY Constants DEF Clock!ProducerOK, Clock!HistoryOK
  <2> QED BY <2>2, <2>3, WallIs DEF Clock!ProducerOK
<1> QED BY <1>2, <1>4, <1>5, <1>6, <1>7, <1>8

-----------------------------------------------------------------------------
(* The walk of a ring *)

LEMMA CallIs ==
  ASSUME NEW x \in Clock!Calls
  PROVE  /\ x.op \in Clock!Operations /\ x.through \in Nat /\ x.at \in Nat /\ x.seq \in Nat
         /\ x.floor \in Nat /\ x.ring \in Clock!Rings /\ x.lo \in Nat /\ x.hi \in Nat
         /\ x.copy \in Clock!Copy /\ x.got \in Seq(Clock!Copy) /\ x.best \in Clock!Copy \cup {None}
         /\ x.todo \subseteq Tracks /\ x.again \in BOOLEAN /\ x.sec \in Nat
         /\ x.frame \in [Tracks -> Clock!Copy \cup {None}]
<1>1. /\ x.op \in Clock!Operations /\ x.ring \in Clock!Rings /\ x.lo \in Nat /\ x.hi \in Nat
      /\ x.copy \in Clock!Copy /\ x.got \in Seq(Clock!Copy) /\ x.best \in Clock!Copy \cup {None}
      /\ x.todo \subseteq Tracks /\ x.again \in BOOLEAN
      /\ x.frame \in [Tracks -> Clock!Copy \cup {None}]
  BY DEF Clock!Calls
<1>2. /\ x.through \in Clock!Seqs /\ x.at \in Clock!Times /\ x.seq \in Clock!Seqs /\ x.floor \in Clock!Seqs
      /\ x.sec \in 0..LastWall
  BY DEF Clock!Calls
<1>3. Clock!Seqs \subseteq Nat /\ Clock!Times \subseteq Nat /\ 0..LastWall \subseteq Nat
  BY Constants DEF Clock!Seqs, Clock!Times
<1> QED BY <1>1, <1>2, <1>3

LEMMA InCall ==
  ASSUME Clock!ConsumersOK, NEW c \in Consumers, call[c] # None
  PROVE  Knows(call[c], cursors[c]) /\ call[c] \in Clock!Calls /\ cursors[c] \in Clock!Seqs
BY DEF Clock!ConsumersOK, Knows, Clock!CallOK

\* A step of a walk leaves what the call has loaded before.
Alike(x, y) == /\ y.op = x.op /\ y.at = x.at /\ y.through = x.through /\ y.seq = x.seq
               /\ y.todo = x.todo /\ y.frame = x.frame /\ y.sec = x.sec
               /\ y.floor = x.floor /\ y.ring = x.ring /\ y.again = x.again

LEMMA FramedLike ==
  ASSUME NEW x, NEW y, NEW k, y.at = x.at, y.through = x.through, y.frame[k] = x.frame[k]
  PROVE  Clock!Framed(y, k) <=> Clock!Framed(x, k)
BY DEF Clock!Framed

LEMMA EligibleLike ==
  ASSUME NEW x, NEW y, Alike(x, y), NEW z
  PROVE  Clock!Eligible(y, z) <=> Clock!Eligible(x, z)
BY DEF Clock!Eligible, Alike

LEMMA BestLike ==
  ASSUME NEW x, NEW y, Alike(x, y), y.best = x.best, NEW seen
  PROVE  Clock!BestOf(y, seen) <=> Clock!BestOf(x, seen)
BY EligibleLike DEF Clock!BestOf

LEMMA WalkKnows ==
  ASSUME NEW x, NEW y \in Clock!Calls, NEW from, Alike(x, y), Knows(x, from), x.pc \in Clock!Walking,
         y.pc \in Clock!Walking \/ y.pc = IF x.op = "events" THEN "done" ELSE "visit",
         \/ y.got = x.got
         \/ \A i \in DOMAIN y.got : y.got[i].seq > x.floor /\ y.got[i].seq <= x.through,
         ~mode.overlap => /\ Clock!WalkOK(y)
                          /\ IF x.op = "events" THEN Clock!EventsOK(y, from) ELSE Clock!TrackOK(y)
  PROVE  Knows(y, from)
<1> USE DEF Alike
<1>1. /\ x \in Clock!Calls /\ x.op \in Clock!Operations /\ x.pc # "size" /\ x.pc \notin {"seconds", "nanos", "sequence"}
      /\ y.pc \notin {"size", "seconds", "nanos", "sequence", "tracks"} /\ x.pc # "tracks"
      /\ x.pc # "done" /\ Clock!CallOK(x, from)
  BY DEF Knows, Clock!CallOK, Clock!Calls, Clock!Walking
<1>2. Clock!CallOK(y, from)
  BY <1>1 DEF Clock!CallOK
<1>3. ASSUME ~mode.overlap PROVE Clock!ReadOK(y, from)
  <2>1. Clock!ReadOK(x, from) /\ Clock!WalkOK(y)
    BY <1>3 DEF Knows
  <2>2. CASE x.op = "events"
    BY <1>3, <2>1, <2>2 DEF Clock!ReadOK
  <2>3. CASE x.op # "events"
    <3>1. Clock!FrameOK(x)
      <4>1. x.op = "frame" \/ x.op = "aligned"
        BY <1>1, <2>3 DEF Clock!CallOK, Clock!Operations
      <4> QED BY <1>1, <2>1, <4>1, Zenon DEF Clock!ReadOK, Clock!AlignedOK
    <3>2. Clock!TrackOK(y) /\ y.pc \in Clock!Walking \cup {"visit"} /\ y.pc # "done"
      BY <1>3, <2>3 DEF Clock!Walking
    <3>3. \A k : Clock!Framed(y, k) <=> Clock!Framed(x, k)
      BY FramedLike
    <3>4. Clock!FrameOK(y)
      BY <1>1, <3>1, <3>2, <3>3 DEF Clock!FrameOK
    <3> QED BY <1>1, <2>1, <2>3, <3>4 DEF Clock!ReadOK, Clock!AlignedOK
  <2> QED BY <2>2, <2>3
<1> QED BY <1>2, <1>3 DEF Knows

\* A frame, of its own or within an Aligned, looks at a track.
LEMMA FrameTracks ==
  ASSUME NEW x, NEW from, Knows(x, from), ~mode.overlap, x.pc \in Clock!Walking \cup {"visit"},
         x.op # "events"
  PROVE  Clock!FrameOK(x) /\ Clock!TrackOK(x)
<1>1. Clock!CallOK(x, from) /\ Clock!ReadOK(x, from) /\ x \in Clock!Calls
  BY DEF Knows, Clock!CallOK
<1>2. x.op = "frame" \/ x.op = "aligned"
  BY <1>1 DEF Clock!CallOK, Clock!Calls, Clock!Operations
<1>3. x.pc \notin {"seconds", "nanos", "sequence"}
  BY DEF Clock!Walking
<1>4. Clock!FrameOK(x)
  BY <1>1, <1>2, <1>3, Zenon DEF Clock!ReadOK, Clock!AlignedOK
<1> QED BY <1>4 DEF Clock!FrameOK

LEMMA TailKnows ==
  ASSUME Clock!ProducerOK, Clock!ConsumersOK, Unchanged, NEW c \in Consumers, Clock!WalkTail(c)
  PROVE  Clock!ConsumersOK'
<1>1. PICK x, from, y :
         /\ x \in Clock!Calls /\ from \in Clock!Seqs /\ x = call[c] /\ from = cursors[c] /\ Knows(x, from) /\ x.pc = "tail"
         /\ y = [x EXCEPT !.lo = tails[x.ring], !.pc = "head"] /\ Clock!Becomes(c, y)
  BY InCall DEF Clock!WalkTail, Clock!In
<1>2. x.ring \in Clock!Rings /\ tails[x.ring] \in Nat
  BY <1>1 DEF Clock!Calls, Clock!ProducerOK, Clock!RingsOK
<1>3. y \in Clock!Calls /\ Alike(x, y) /\ y.pc = "head" /\ y.lo = tails[y.ring] /\ y.got = x.got
      /\ y.best = x.best
  BY <1>1, <1>2 DEF Clock!Calls, Alike
<1>4. ASSUME ~mode.overlap
      PROVE  Clock!WalkOK(y) /\ IF x.op = "events" THEN Clock!EventsOK(y, from) ELSE Clock!TrackOK(y)
  <2>1. Clock!WalkOK(y)
    BY <1>3 DEF Clock!WalkOK
  <2>2. x.op = "events" => Clock!EventsOK(y, from)
    BY <1>1, <1>3, <1>4 DEF Knows, Clock!ReadOK, Clock!EventsOK, Alike
  <2>3. x.op # "events" => Clock!TrackOK(y)
    <3>1. x.op # "events" => Clock!TrackOK(x)
      BY <1>1, <1>4, FrameTracks DEF Clock!Walking
    <3> QED BY <1>1, <1>3, <3>1 DEF Clock!TrackOK, Alike
  <2> QED BY <2>1, <2>2, <2>3
<1>5. Knows(y, from)
  BY <1>1, <1>3, <1>4, WalkKnows DEF Clock!Walking
<1> QED BY <1>1, <1>5, CallMoves

LEMMA HeadKnows ==
  ASSUME Clock!ProducerOK, Clock!ConsumersOK, Unchanged, NEW c \in Consumers, Clock!WalkHead(c)
  PROVE  Clock!ConsumersOK'
<1>1. PICK x, from, y :
         /\ x \in Clock!Calls /\ from \in Clock!Seqs /\ x = call[c] /\ from = cursors[c] /\ Knows(x, from) /\ x.pc = "head"
         /\ y = [x EXCEPT !.hi = heads[x.ring], !.pc = "slot"] /\ Clock!Becomes(c, y)
  BY InCall DEF Clock!WalkHead, Clock!In
<1>2. x.ring \in Clock!Rings /\ heads[x.ring] \in Nat
  BY <1>1 DEF Clock!Calls, Clock!ProducerOK, Clock!RingsOK
<1>3. y \in Clock!Calls /\ Alike(x, y) /\ y.pc = "slot" /\ y.lo = x.lo /\ y.hi = heads[y.ring]
      /\ y.got = x.got /\ y.best = x.best
  BY <1>1, <1>2 DEF Clock!Calls, Alike
<1>4. ASSUME ~mode.overlap
      PROVE  Clock!WalkOK(y) /\ IF x.op = "events" THEN Clock!EventsOK(y, from) ELSE Clock!TrackOK(y)
  <2>1. Clock!At("idle") /\ ~err /\ Clock!ReadOK(x, from)
    BY <1>1, <1>4 DEF Knows
  <2>2. y.lo = tails[y.ring] /\ y.ring = x.ring
    BY <1>1, <1>3, <2>1 DEF Clock!ReadOK, Clock!WalkOK, Alike
  <2>3. Clock!WalkOK(y)
    BY <1>2, <1>3, <2>1, <2>2, AtRest DEF Clock!WalkOK
  <2>4. ASSUME x.op = "events" PROVE Clock!EventsOK(y, from)
    <3>1. /\ y.ring = Timeline /\ y.seq = sequence /\ y.through <= sequence
          /\ y.floor = Clock!Most(from, sequence - ClockCapacity) /\ y.got = << >>
      BY <1>1, <1>3, <2>1, <2>4 DEF Clock!ReadOK, Clock!EventsOK, Alike
    <3>2. y.lo = Clock!Most(0, sequence - ClockCapacity) /\ sequence \in Nat
      BY <2>1, <2>2, <3>1, AtRest, Constants, Counts DEF Clock!ProducerOK
    <3>3. y.through \in Nat /\ from \in Nat /\ ClockCapacity \in Nat
      BY <1>1, <1>3, CallIs, Constants DEF Clock!Seqs
    <3>4. 0 = Clock!Most(0, Clock!Least(y.lo, y.through) - y.floor)
      BY <3>1, <3>2, <3>3 DEF Clock!Most, Clock!Least
    <3> QED BY <1>3, <3>1, <3>4 DEF Clock!EventsOK
  <2>5. ASSUME x.op # "events" PROVE Clock!TrackOK(y)
    <3>1. Clock!TrackOK(x) /\ x.best = None
      BY <1>1, <1>4, <2>5, FrameTracks DEF Clock!Walking, Clock!TrackOK
    <3>2. tails[y.ring] \in Nat
      BY <1>2, <2>2 DEF Clock!ProducerOK, Clock!RingsOK
    <3>3. Clock!Passed(y) = {}
      BY <2>2, <3>2 DEF Clock!Passed
    <3>4. Clock!BestOf(y, Clock!Passed(y))
      BY <1>3, <3>1, <3>3 DEF Clock!BestOf
    <3> QED BY <1>1, <1>3, <3>1, <3>4 DEF Clock!TrackOK, Alike
  <2> QED BY <2>3, <2>4, <2>5
<1>5. Knows(y, from)
  BY <1>1, <1>3, <1>4, WalkKnows DEF Clock!Walking
<1> QED BY <1>1, <1>5, CallMoves

\* The walk is over: it has passed the window.
LEMMA EndKnows ==
  ASSUME Clock!ProducerOK, Clock!ConsumersOK, Unchanged, NEW c \in Consumers, Clock!WalkEnd(c)
  PROVE  Clock!ConsumersOK'
<1>1. PICK x, from, y :
         /\ x \in Clock!Calls /\ from \in Clock!Seqs /\ x = call[c] /\ from = cursors[c] /\ Knows(x, from) /\ x.pc = "slot" /\ x.lo = x.hi
         /\ y = [x EXCEPT !.pc = IF x.op = "events" THEN "done" ELSE "visit"] /\ Clock!Becomes(c, y)
  BY InCall DEF Clock!WalkEnd, Clock!In
<1>2. x.ring \in Clock!Rings
  BY <1>1 DEF Clock!Calls
<1>3. /\ y \in Clock!Calls /\ Alike(x, y) /\ y.pc = (IF x.op = "events" THEN "done" ELSE "visit")
      /\ y.lo = x.lo /\ y.hi = x.hi /\ y.got = x.got /\ y.best = x.best /\ y.copy = x.copy
  BY <1>1, <1>2 DEF Clock!Calls, Alike
<1>4. ASSUME ~mode.overlap
      PROVE  Clock!WalkOK(y) /\ IF x.op = "events" THEN Clock!EventsOK(y, from) ELSE Clock!TrackOK(y)
  <2>1. Clock!At("idle") /\ ~err /\ Clock!ReadOK(x, from)
    BY <1>1, <1>4 DEF Knows
  <2>2. x.lo = heads[x.ring] /\ y.ring = x.ring
    BY <1>1, <1>3, <2>1 DEF Clock!ReadOK, Clock!WalkOK, Alike
  <2>3. Clock!WalkOK(y)
    BY <1>3 DEF Clock!WalkOK
  <2>4. ASSUME x.op = "events" PROVE Clock!EventsOK(y, from)
    <3>1. Clock!EventsOK(x, from)
      BY <2>1, <2>4 DEF Clock!ReadOK
    <3>2. x.lo = sequence /\ sequence \in Nat
      BY <2>1, <2>2, <3>1, AtRest, Constants, Counts DEF Clock!ProducerOK, Clock!EventsOK
    <3> QED BY <1>1, <1>3, <2>4, <3>1, <3>2 DEF Clock!EventsOK, Alike
  <2>5. ASSUME x.op # "events" PROVE Clock!TrackOK(y)
    <3>1. Clock!TrackOK(x)
      BY <1>1, <1>4, <2>5, FrameTracks DEF Clock!Walking
    <3>2. Clock!Passed(x) = Clock!Retained(x.ring)
      BY <1>2, <2>1, <2>2, LastAre DEF Clock!Passed
    <3>3. Clock!BestOf(y, Clock!Retained(y.ring))
      <4>1. Clock!BestOf(x, Clock!Retained(x.ring))
        BY <1>1, <3>1, <3>2 DEF Clock!TrackOK
      <4> QED BY <1>3, <2>2, <4>1, BestLike
    <3> QED BY <1>1, <1>3, <2>5, <3>1, <3>3 DEF Clock!TrackOK, Alike
  <2> QED BY <2>3, <2>4, <2>5
<1>5. Knows(y, from)
  BY <1>1, <1>3, <1>4, WalkKnows DEF Clock!Walking
<1> QED BY <1>1, <1>5, CallMoves

LEMMA ValueIs ==
  ASSUME Clock!ProducerOK, NEW x \in Clock!Calls
  PROVE  Clock!Value(x) \in Clock!Seqs /\ Clock!Copied(x) \in Clock!Copy
<1>1. x.ring \in Clock!Rings /\ x.lo \in Nat /\ x.copy \in Clock!Copy
  BY CallIs
<1>2. Clock!Slot(x.ring, x.lo) \in Clock!Slots(x.ring) /\ slotValues[x.ring] \in [Clock!Slots(x.ring) -> Clock!Seqs]
  BY <1>1, SlotIs DEF Clock!ProducerOK, Clock!RingsOK, Clock!SlotsOK
<1>3. Clock!Value(x) \in Clock!Seqs
  BY <1>2 DEF Clock!Value
<1> QED BY <1>1, <1>3 DEF Clock!Copied, Clock!Copy

\* Between two pushes a slot of the walk is ready, and its copy is whole.
LEMMA WalkedIs ==
  ASSUME Clock!ProducerOK, NEW x \in Clock!Calls, Clock!At("idle"), ~err, Clock!WalkOK(x), x.pc \in {"slot", "item", "seq"},
         x.lo < x.hi
  PROVE  /\ Clock!Ready(x) /\ Clock!Value(x) = made[x.ring][x.lo + 1] /\ Clock!Value(x) \in 1..sequence
         /\ tails[x.ring] <= x.lo /\ x.lo < heads[x.ring] /\ x.hi = heads[x.ring]
         /\ tails[x.ring] \in Nat /\ heads[x.ring] \in Nat
         /\ x.pc \in {"item", "seq"} => Clock!Copied(x) = Clock!Whole(Clock!Value(x))
<1>1. /\ x.ring \in Clock!Rings /\ x.lo \in Nat /\ x.hi = heads[x.ring] /\ tails[x.ring] <= x.lo
      /\ x.pc = "seq" => x.copy.item = Clock!Value(x)
      /\ x.pc = "item" => x.copy.seq = Clock!Value(x)
  BY CallIs DEF Clock!WalkOK
<1>2. x.pc \in {"item", "seq"} => Clock!Copied(x) = Clock!Whole(Clock!Value(x))
  BY <1>1 DEF Clock!Copied, Clock!Whole
<1> QED BY <1>1, <1>2, AtRest DEF Clock!Ready, Clock!Value

LEMMA SkipKnows ==
  ASSUME Clock!ProducerOK, Clock!ConsumersOK, Unchanged, NEW c \in Consumers, Clock!WalkSkip(c)
  PROVE  Clock!ConsumersOK'
<1>1. PICK x, from, y :
         /\ x \in Clock!Calls /\ from \in Clock!Seqs /\ x = call[c] /\ from = cursors[c]
         /\ Knows(x, from) /\ x.pc = "slot" /\ x.lo < x.hi /\ ~Clock!Ready(x)
         /\ y = [x EXCEPT !.lo = @ + 1] /\ Clock!Becomes(c, y)
  BY InCall DEF Clock!WalkSkip, Clock!In
<1>2. x.lo + 1 \in Nat
  BY <1>1, CallIs
<1>3. y \in Clock!Calls /\ Alike(x, y) /\ y.pc = "slot" /\ y.got = x.got
  BY <1>1, <1>2 DEF Clock!Calls, Alike
<1>4. mode.overlap
  BY <1>1, WalkedIs DEF Knows, Clock!ReadOK
<1>5. Knows(y, from)
  BY <1>1, <1>3, <1>4, WalkKnows DEF Clock!Walking
<1> QED BY <1>1, <1>5, CallMoves

LEMMA HalfKnows ==
  ASSUME Clock!ProducerOK, Clock!ConsumersOK, Unchanged, NEW c \in Consumers, Clock!WalkHalf(c)
  PROVE  Clock!ConsumersOK'
<1>1. PICK x, from, y :
         /\ x \in Clock!Calls /\ from \in Clock!Seqs /\ x = call[c] /\ from = cursors[c]
         /\ Knows(x, from) /\ x.pc = "slot" /\ x.lo < x.hi
         /\ \/ y = [x EXCEPT !.copy = [item |-> Clock!Value(x), seq |-> 0], !.pc = "seq"]
            \/ y = [x EXCEPT !.copy = [item |-> 0, seq |-> Clock!Value(x)], !.pc = "item"]
         /\ Clock!Becomes(c, y)
  BY InCall DEF Clock!WalkHalf, Clock!In
<1>2. Clock!Value(x) \in Clock!Seqs /\ 0 \in Clock!Seqs
  BY <1>1, ValueIs, Constants DEF Clock!Seqs
<1>3. /\ y \in Clock!Calls /\ Alike(x, y) /\ y.pc \in {"seq", "item"} /\ y.got = x.got
      /\ y.best = x.best /\ y.lo = x.lo /\ y.hi = x.hi /\ y.ring = x.ring
      /\ y.pc = "seq" => y.copy.item = Clock!Value(x)
      /\ y.pc = "item" => y.copy.seq = Clock!Value(x)
  <2>1. CASE y = [x EXCEPT !.copy = [item |-> Clock!Value(x), seq |-> 0], !.pc = "seq"]
    BY <1>1, <1>2, <2>1 DEF Clock!Calls, Alike, Clock!Copy
  <2>2. CASE y = [x EXCEPT !.copy = [item |-> 0, seq |-> Clock!Value(x)], !.pc = "item"]
    BY <1>1, <1>2, <2>2 DEF Clock!Calls, Alike, Clock!Copy
  <2> QED BY <1>1, <2>1, <2>2
<1>4. ASSUME ~mode.overlap
      PROVE  Clock!WalkOK(y) /\ IF x.op = "events" THEN Clock!EventsOK(y, from) ELSE Clock!TrackOK(y)
  <2>1. Clock!At("idle") /\ ~err /\ Clock!ReadOK(x, from)
    BY <1>1, <1>4 DEF Knows
  <2>2. Clock!WalkOK(y)
    BY <1>1, <1>3, <2>1 DEF Clock!ReadOK, Clock!WalkOK, Clock!Value
  <2>3. ASSUME x.op = "events" PROVE Clock!EventsOK(y, from)
    BY <1>1, <1>3, <2>1, <2>3 DEF Clock!ReadOK, Clock!EventsOK, Alike
  <2>4. ASSUME x.op # "events" PROVE Clock!TrackOK(y)
    <3>1. Clock!TrackOK(x)
      BY <1>1, <1>4, <2>4, FrameTracks DEF Clock!Walking
    <3>2. Clock!Passed(y) = Clock!Passed(x)
      BY <1>3 DEF Clock!Passed
    <3>3. Clock!BestOf(y, Clock!Passed(y))
      <4>1. Clock!BestOf(x, Clock!Passed(x))
        BY <1>1, <3>1 DEF Clock!TrackOK
      <4> QED BY <1>3, <3>2, <4>1, BestLike
    <3> QED BY <1>1, <1>3, <3>1, <3>3 DEF Clock!TrackOK, Alike
  <2> QED BY <2>2, <2>3, <2>4
<1>5. Knows(y, from)
  BY <1>1, <1>3, <1>4, WalkKnows DEF Clock!Walking
<1> QED BY <1>1, <1>5, CallMoves

\* The visits: the copy is made, and the walk goes on.
LEMMA OnwardIs ==
  ASSUME NEW x \in Clock!Calls
  PROVE  /\ Clock!Onward(x) \in Clock!Calls /\ Alike(x, Clock!Onward(x)) /\ Clock!Onward(x).pc = "slot"
         /\ Clock!Onward(x).lo = x.lo + 1 /\ Clock!Onward(x).hi = x.hi
         /\ Clock!Onward(x).got = x.got /\ Clock!Onward(x).best = x.best
<1>1. x.lo + 1 \in Nat
  BY CallIs
<1> QED BY <1>1 DEF Clock!Onward, Clock!Calls, Alike

LEMMA AppendedIs ==
  ASSUME NEW S, NEW s \in Seq(S), NEW v \in S
  PROVE  /\ Append(s, v) \in Seq(S) /\ Len(Append(s, v)) = Len(s) + 1 /\ Len(s) \in Nat
         /\ \A i \in DOMAIN Append(s, v) : \/ i \in DOMAIN s /\ Append(s, v)[i] = s[i]
                                           \/ i = Len(s) + 1 /\ Append(s, v)[i] = v
<1>1. /\ DOMAIN Append(s, v) = 1..(Len(s) + 1) /\ DOMAIN s = 1..Len(s) /\ Len(s) \in Nat
      /\ \A i \in 1..Len(s) : Append(s, v)[i] = s[i]
      /\ Append(s, v)[Len(s) + 1] = v
      /\ Append(s, v) \in Seq(S) /\ Len(Append(s, v)) = Len(s) + 1
  OBVIOUS
<1>2. \A i \in 1..(Len(s) + 1) : i \in 1..Len(s) \/ i = Len(s) + 1
  BY <1>1
<1> QED BY <1>1, <1>2

LEMMA EventsVisitKnows ==
  ASSUME Clock!ProducerOK, Clock!ConsumersOK, Unchanged, NEW c \in Consumers, Clock!EventsVisit(c)
  PROVE  Clock!ConsumersOK'
<1>1. PICK x, from, z, g, y :
         /\ x \in Clock!Calls /\ from \in Clock!Seqs /\ x = call[c] /\ from = cursors[c]
         /\ Knows(x, from) /\ x.pc \in {"item", "seq"} /\ x.op = "events"
         /\ z = Clock!Copied(x) /\ g = (IF Clock!Takes(x, z) THEN Append(x.got, z) ELSE x.got)
         /\ y = [Clock!Onward(x) EXCEPT !.got = IF Clock!Takes(x, z) THEN Append(@, z) ELSE @]
         /\ Clock!Becomes(c, y)
  BY InCall DEF Clock!EventsVisit, Clock!In
<1>2. /\ z \in Clock!Copy /\ x.got \in Seq(Clock!Copy) /\ x.floor \in Nat /\ x.through \in Nat
      /\ x.lo \in Nat /\ x.best \in Clock!Copy \cup {None}
  BY <1>1, ValueIs, CallIs
<1>3. g \in Seq(Clock!Copy) /\ \A i \in DOMAIN g : \/ i \in DOMAIN x.got /\ g[i] = x.got[i]
                                                   \/ Clock!Takes(x, z) /\ i = Len(x.got) + 1 /\ g[i] = z
  BY <1>1, <1>2, AppendedIs
<1>4. /\ y \in Clock!Calls /\ Alike(x, y) /\ y.pc = "slot" /\ y.lo = x.lo + 1 /\ y.hi = x.hi
      /\ y.got = g /\ y.ring = x.ring
  <2>1. PICK w : w = Clock!Onward(x)
    OBVIOUS
  <2>2. /\ w \in Clock!Calls /\ Alike(x, w) /\ w.pc = "slot" /\ w.lo = x.lo + 1 /\ w.hi = x.hi
        /\ w.got = x.got
    BY <1>1, <2>1, OnwardIs
  <2>3. y = [w EXCEPT !.got = g]
    BY <1>1, <2>1, <2>2 DEF Clock!Calls
  <2> QED BY <1>3, <2>2, <2>3 DEF Clock!Calls, Alike
<1>5. \A i \in DOMAIN g : g[i].seq > x.floor /\ g[i].seq <= x.through
  <2>1. \A i \in DOMAIN x.got : x.got[i].seq > x.floor /\ x.got[i].seq <= x.through
    BY <1>1 DEF Knows, Clock!CallOK
  <2> QED BY <1>3, <2>1 DEF Clock!Takes
<1>6. ASSUME ~mode.overlap PROVE Clock!WalkOK(y) /\ Clock!EventsOK(y, from)
  <2>1. Clock!At("idle") /\ ~err /\ Clock!WalkOK(x) /\ Clock!EventsOK(x, from)
    BY <1>1, <1>6 DEF Knows, Clock!ReadOK
  <2>2. x.lo < x.hi
    BY <1>1, <2>1 DEF Clock!WalkOK
  <2>3. /\ z = Clock!Whole(Clock!Value(x)) /\ Clock!Value(x) = made[x.ring][x.lo + 1] /\ x.lo < heads[x.ring]
        /\ tails[x.ring] <= x.lo /\ x.hi = heads[x.ring] /\ tails[x.ring] \in Nat /\ heads[x.ring] \in Nat
    BY <1>1, <2>1, <2>2, WalkedIs
  <2>4. Clock!WalkOK(y)
    BY <1>2, <1>4, <2>3 DEF Clock!WalkOK
  <2>5. Clock!Value(x) = x.lo + 1
    <3>1. x.ring = Timeline /\ heads[Timeline] = sequence
          /\ \A i \in 1..sequence : made[Timeline][i] = i
      BY <2>1, AtRest, Constants DEF Clock!EventsOK, Clock!ProducerOK, Clock!HistoryOK
    <3>2. x.lo + 1 \in 1..sequence
      BY <1>2, <2>3, <3>1
    <3> QED BY <2>3, <3>1, <3>2
  <2>6. z.seq = x.lo + 1 /\ z = [item |-> x.lo + 1, seq |-> x.lo + 1]
    BY <2>3, <2>5 DEF Clock!Whole
  <2>7. Len(x.got) = Clock!Most(0, Clock!Least(x.lo, x.through) - x.floor)
        /\ \A i \in DOMAIN x.got : x.got[i] = [item |-> x.floor + i, seq |-> x.floor + i]
    BY <1>1, <2>1 DEF Clock!EventsOK
  <2>8. Len(x.got) \in Nat
    BY <1>2
  <2>9. /\ Clock!Takes(x, z) => /\ x.floor + (Len(x.got) + 1) = x.lo + 1
                                /\ Len(x.got) + 1 = Clock!Most(0, Clock!Least(x.lo + 1, x.through) - x.floor)
        /\ ~Clock!Takes(x, z) => Len(x.got) = Clock!Most(0, Clock!Least(x.lo + 1, x.through) - x.floor)
    <3> DEFINE n == Len(x.got)
    <3>1. n = Clock!Most(0, Clock!Least(x.lo, x.through) - x.floor) /\ n \in Nat
      BY <2>7, <2>8
    <3> HIDE DEF n
    <3>2. /\ x.lo + 1 > x.floor /\ x.lo + 1 <= x.through =>
              /\ n + x.floor + 1 = x.lo + 1
              /\ n + 1 = Clock!Most(0, Clock!Least(x.lo + 1, x.through) - x.floor)
          /\ ~(x.lo + 1 > x.floor /\ x.lo + 1 <= x.through) =>
                 n = Clock!Most(0, Clock!Least(x.lo + 1, x.through) - x.floor)
      <4>1. PICK floor \in Nat, through \in Nat, lo \in Nat, m \in Nat :
              floor = x.floor /\ through = x.through /\ lo = x.lo /\ m = n
        BY <1>2, <3>1
      <4>2. m = Clock!Most(0, Clock!Least(lo, through) - floor)
        BY <3>1, <4>1
      <4>3. /\ lo + 1 > floor /\ lo + 1 <= through =>
              /\ m + floor + 1 = lo + 1
              /\ m + 1 = Clock!Most(0, Clock!Least(lo + 1, through) - floor)
            /\ ~(lo + 1 > floor /\ lo + 1 <= through) =>
                 m = Clock!Most(0, Clock!Least(lo + 1, through) - floor)
        BY <4>2 DEF Clock!Most, Clock!Least
      <4> QED BY <4>1, <4>3
    <3>3. x.floor + (n + 1) = n + x.floor + 1
      BY <1>2, <3>1
    <3>4. Clock!Takes(x, z) <=> x.lo + 1 > x.floor /\ x.lo + 1 <= x.through
      BY <2>6 DEF Clock!Takes
    <3>5. /\ Clock!Takes(x, z) => /\ x.floor + (n + 1) = x.lo + 1
                                  /\ n + 1 = Clock!Most(0, Clock!Least(x.lo + 1, x.through) - x.floor)
          /\ ~Clock!Takes(x, z) => n = Clock!Most(0, Clock!Least(x.lo + 1, x.through) - x.floor)
      BY <3>2, <3>3, <3>4
    <3> QED BY <3>5 DEF n
  <2>10. Len(g) = Clock!Most(0, Clock!Least(y.lo, y.through) - y.floor)
    <3>1. Clock!Takes(x, z) => Len(g) = Len(x.got) + 1
      BY <1>1, <1>2, AppendedIs
    <3>2. ~Clock!Takes(x, z) => g = x.got
      BY <1>1
    <3> QED BY <1>4, <2>9, <3>1, <3>2 DEF Alike
  <2>11. \A i \in DOMAIN g : g[i] = [item |-> x.floor + i, seq |-> x.floor + i]
    BY <1>3, <2>6, <2>7, <2>9
  <2>12. Clock!EventsOK(y, from)
    <3>1. /\ y.ring = Timeline /\ y.seq = sequence /\ y.through <= sequence
          /\ y.floor = Clock!Most(from, sequence - ClockCapacity)
      BY <1>1, <1>4, <2>1 DEF Clock!EventsOK, Alike
    <3>2. \A i \in DOMAIN y.got : y.got[i] = [item |-> y.floor + i, seq |-> y.floor + i]
      BY <1>4, <2>11 DEF Alike
    <3> QED BY <1>4, <2>10, <3>1, <3>2 DEF Clock!EventsOK
  <2> QED BY <2>4, <2>12
<1>7. Knows(y, from)
  BY <1>1, <1>4, <1>5, <1>6, WalkKnows DEF Clock!Walking
<1> QED BY <1>1, <1>7, CallMoves

\* The best of the slots passed, and of one more.
LEMMA BestGrows ==
  ASSUME Clock!ProducerOK, NEW x, NEW y, Alike(x, y), NEW seen, NEW i \in 1..sequence, NEW z, z = Clock!Whole(i),
         Clock!BestOf(x, seen), \A j \in seen : j \in 1..sequence,
         y.best = IF Clock!Eligible(x, z) /\ (x.best = None \/ Clock!Better(z, x.best)) THEN z ELSE x.best
  PROVE  Clock!BestOf(y, seen \cup {i})
<1>1. Clock!Whole(i) # None /\ z.item = i /\ z.seq = i
  BY Constants, Counts DEF Clock!Whole, Clock!ProducerOK
<1>2. \A v : Clock!Eligible(y, v) <=> Clock!Eligible(x, v)
  BY EligibleLike
<1>3. /\ Clock!Wall(i) \in Int /\ i \in Int /\ \A j \in seen : Clock!Wall(j) \in Int /\ j \in Int
  BY WallIs, Constants DEF Clock!ProducerOK
<1>4. CASE x.best = None
  <2>1. \A j \in seen : ~Clock!Eligible(x, Clock!Whole(j))
    BY <1>4 DEF Clock!BestOf
  <2>2. CASE Clock!Eligible(x, z)
    <3>1. y.best = Clock!Whole(i)
      BY <1>4, <2>2
    <3> QED BY <1>1, <1>2, <1>3, <2>1, <2>2, <3>1 DEF Clock!BestOf
  <2>3. CASE ~Clock!Eligible(x, z)
    BY <1>2, <1>4, <2>1, <2>3 DEF Clock!BestOf
  <2> QED BY <2>2, <2>3
<1>5. CASE x.best # None
  <2>1. PICK a \in seen : /\ x.best = Clock!Whole(a) /\ Clock!Eligible(x, x.best)
                          /\ \A j \in seen : Clock!Eligible(x, Clock!Whole(j)) =>
                               Clock!Wall(j) < Clock!Wall(a) \/ (Clock!Wall(j) = Clock!Wall(a) /\ j <= a)
    BY <1>5 DEF Clock!BestOf
  <2>2. x.best.item = a /\ x.best.seq = a
    BY <2>1 DEF Clock!Whole
  <2>3. Clock!Better(z, x.best) <=> Clock!Wall(i) > Clock!Wall(a) \/ (Clock!Wall(i) = Clock!Wall(a) /\ i >= a)
    BY <1>1, <2>2 DEF Clock!Better
  <2>4. CASE Clock!Eligible(x, z) /\ Clock!Better(z, x.best)
    <3>1. y.best = Clock!Whole(i) /\ y.best # None
      BY <1>1, <2>4
    <3>2. \A j \in seen \cup {i} : Clock!Eligible(x, Clock!Whole(j)) =>
            Clock!Wall(j) < Clock!Wall(i) \/ (Clock!Wall(j) = Clock!Wall(i) /\ j <= i)
      BY <1>3, <2>1, <2>3, <2>4
    <3> QED BY <1>2, <2>4, <3>1, <3>2 DEF Clock!BestOf
  <2>5. CASE ~(Clock!Eligible(x, z) /\ Clock!Better(z, x.best))
    <3>1. y.best = Clock!Whole(a) /\ y.best = x.best
      BY <1>5, <2>1, <2>5
    <3>2. \A j \in seen \cup {i} : Clock!Eligible(x, Clock!Whole(j)) =>
            Clock!Wall(j) < Clock!Wall(a) \/ (Clock!Wall(j) = Clock!Wall(a) /\ j <= a)
      BY <1>3, <2>1, <2>3, <2>5
    <3> QED BY <1>2, <1>5, <2>1, <3>1, <3>2 DEF Clock!BestOf
  <2> QED BY <2>4, <2>5
<1> QED BY <1>4, <1>5

LEMMA FrameVisitKnows ==
  ASSUME Clock!ProducerOK, Clock!ConsumersOK, Unchanged, NEW c \in Consumers, Clock!FrameVisit(c)
  PROVE  Clock!ConsumersOK'
<1>1. PICK x, from, z, b, y :
         /\ x \in Clock!Calls /\ from \in Clock!Seqs /\ x = call[c] /\ from = cursors[c]
         /\ Knows(x, from) /\ x.pc \in {"item", "seq"} /\ x.op # "events" /\ z = Clock!Copied(x)
         /\ b = (IF Clock!Eligible(x, z) /\ (x.best = None \/ Clock!Better(z, x.best)) THEN z ELSE x.best)
         /\ y = [Clock!Onward(x) EXCEPT !.best = b]
         /\ Clock!Becomes(c, y)
  BY InCall DEF Clock!FrameVisit, Clock!In
<1>2. b \in Clock!Copy \cup {None} /\ x.ring \in Clock!Rings /\ x.lo \in Nat
  BY <1>1, ValueIs, CallIs
<1>3. /\ y \in Clock!Calls /\ Alike(x, y) /\ y.pc = "slot" /\ y.lo = x.lo + 1 /\ y.hi = x.hi
      /\ y.got = x.got /\ y.best = b
  <2>1. PICK w : w = Clock!Onward(x)
    OBVIOUS
  <2>2. /\ w \in Clock!Calls /\ Alike(x, w) /\ w.pc = "slot" /\ w.lo = x.lo + 1 /\ w.hi = x.hi
        /\ w.got = x.got
    BY <1>1, <2>1, OnwardIs
  <2>3. y = [w EXCEPT !.best = b]
    BY <1>1, <2>1
  <2> QED BY <1>2, <2>2, <2>3 DEF Clock!Calls, Alike
<1>4. ASSUME ~mode.overlap PROVE Clock!WalkOK(y) /\ Clock!TrackOK(y)
  <2>1. Clock!At("idle") /\ ~err /\ Clock!WalkOK(x) /\ Clock!TrackOK(x)
    BY <1>1, <1>4, FrameTracks DEF Knows, Clock!ReadOK, Clock!Walking
  <2>2. x.lo < x.hi
    BY <1>1, <2>1 DEF Clock!WalkOK
  <2>3. /\ z = Clock!Whole(Clock!Value(x)) /\ Clock!Value(x) = made[x.ring][x.lo + 1] /\ x.lo < heads[x.ring]
        /\ tails[x.ring] <= x.lo /\ x.hi = heads[x.ring] /\ tails[x.ring] \in Nat /\ heads[x.ring] \in Nat
        /\ Clock!Value(x) \in 1..sequence
    BY <1>1, <2>1, <2>2, WalkedIs
  <2>4. Clock!WalkOK(y)
    BY <1>2, <1>3, <2>3 DEF Clock!WalkOK, Alike
  <2>5. Clock!Passed(y) = Clock!Passed(x) \cup {Clock!Value(x)}
    <3>1. tails[x.ring]..(x.lo + 1 - 1) = (tails[x.ring]..(x.lo - 1)) \cup {x.lo}
      BY <1>2, <2>3
    <3>2. y.ring = x.ring
      BY <1>3 DEF Alike
    <3> QED BY <1>3, <2>3, <3>1, <3>2 DEF Clock!Passed
  <2>6. \A j \in Clock!Passed(x) : j \in 1..sequence
    <3>1. \A p \in tails[x.ring]..(x.lo - 1) : p \in Nat /\ tails[x.ring] <= p /\ p < heads[x.ring]
      BY <1>2, <2>3
    <3> QED BY <1>2, <2>1, <3>1, AtRest DEF Clock!Passed
  <2>7. Clock!BestOf(y, Clock!Passed(y))
    <3>1. Clock!BestOf(x, Clock!Passed(x))
      BY <1>1, <2>1 DEF Clock!TrackOK
    <3>2. PICK seen, i : seen = Clock!Passed(x) /\ i = Clock!Value(x)
      OBVIOUS
    <3>3. /\ Clock!ProducerOK /\ Alike(x, y) /\ i \in 1..sequence /\ z = Clock!Whole(i)
          /\ Clock!BestOf(x, seen) /\ \A j \in seen : j \in 1..sequence
          /\ y.best = IF Clock!Eligible(x, z) /\ (x.best = None \/ Clock!Better(z, x.best))
                      THEN z ELSE x.best
      BY <1>1, <1>3, <2>3, <2>6, <3>1, <3>2, Zenon
    <3>4. Clock!BestOf(y, seen \cup {i})
      BY <3>3, BestGrows
    <3> QED BY <2>5, <3>2, <3>4
  <2>8. Clock!TrackOK(y)
    BY <1>3, <2>1, <2>7 DEF Clock!TrackOK, Alike
  <2> QED BY <2>4, <2>8
<1>5. Knows(y, from)
  BY <1>1, <1>3, <1>4, WalkKnows DEF Clock!Walking
<1> QED BY <1>1, <1>5, CallMoves

-----------------------------------------------------------------------------
(* The frames *)

Framing == Clock!Walking \cup {"tracks", "visit", "done"}

LEMMA FrameKnows ==
  ASSUME NEW x, NEW y \in Clock!Calls, NEW from, Knows(x, from), x.pc \in {"tracks", "visit"},
         y.pc \in Framing, y.pc \in Clock!Walking \cup {"visit"} => y.ring \in Tracks, y.op = x.op, y.at = x.at, y.sec = x.sec,
         ~mode.overlap => Clock!FrameOK(y) /\ y.pc \notin {"head", "slot", "item", "seq"}
  PROVE  Knows(y, from)
<1>1. Clock!CallOK(x, from) /\ x.op # "events" /\ x.op \in Clock!Operations
  BY DEF Knows, Clock!CallOK, Clock!Calls, Clock!Walking
<1>2. Clock!CallOK(y, from)
  BY <1>1 DEF Clock!CallOK, Framing, Clock!Walking
<1>3. ASSUME ~mode.overlap PROVE Clock!ReadOK(y, from)
  <2>1. Clock!ReadOK(x, from) /\ Clock!FrameOK(y) /\ Clock!WalkOK(y)
    BY <1>3 DEF Knows, Clock!WalkOK
  <2>2. y.pc \notin {"seconds", "nanos", "sequence"}
    BY DEF Framing, Clock!Walking
  <2>3. x.op = "aligned" => Clock!AlignedOK(y)
    <3>1. x.op = "aligned" => x.at # 0 /\ Clock!LeastOf(Tracks, x.at)
      BY <2>1, Zenon DEF Clock!ReadOK, Clock!AlignedOK
    <3> QED BY <2>1, <2>2, <3>1, Zenon DEF Clock!AlignedOK
  <2> QED BY <1>1, <2>1, <2>3 DEF Clock!ReadOK
<1> QED BY <1>2, <1>3 DEF Knows

\* A frame between its tracks.
LEMMA FrameTracked ==
  ASSUME NEW x, NEW from, Knows(x, from), ~mode.overlap, x.pc \in {"tracks", "visit"}
  PROVE  Clock!FrameOK(x) /\ Clock!At("idle") /\ ~err
<1>1. Clock!CallOK(x, from) /\ Clock!ReadOK(x, from) /\ x \in Clock!Calls /\ x.op # "events" /\ Clock!At("idle") /\ ~err
  BY DEF Knows, Clock!CallOK, Clock!Walking
<1>2. x.op = "frame" \/ x.op = "aligned"
  BY <1>1 DEF Clock!CallOK, Clock!Calls, Clock!Operations
<1>3. x.pc \notin {"seconds", "nanos", "sequence"}
  OBVIOUS
<1> QED BY <1>1, <1>2, <1>3, Zenon DEF Clock!ReadOK, Clock!AlignedOK

\* A frame begins to walk the ring of a track.
LEMMA LooksIs ==
  ASSUME NEW x \in Clock!Calls, NEW k \in Tracks, first[k] \in Clock!Seqs, NEW again \in BOOLEAN,
         NEW y, y = Clock!Looks(x, k, again)
  PROVE  /\ y \in Clock!Calls /\ y.pc = "tail" /\ y.op = x.op /\ y.at = x.at
         /\ y.through = x.through /\ y.seq = x.seq /\ y.frame = x.frame /\ y.sec = x.sec
         /\ y.todo = x.todo \ {k} /\ y.again = again /\ y.ring = k /\ y.floor = first[k]
         /\ y.best = None
BY DEF Clock!Looks, Clock!Calls, Clock!Rings

LEMMA TrackKnows ==
  ASSUME Clock!ProducerOK, Clock!ConsumersOK, Unchanged, NEW c \in Consumers, Clock!FrameTrack(c)
  PROVE  Clock!ConsumersOK'
<1>1. PICK x, from, k, y :
         /\ x \in Clock!Calls /\ from \in Clock!Seqs /\ x = call[c] /\ from = cursors[c]
         /\ Knows(x, from) /\ x.pc = "tracks" /\ k \in x.todo
         /\ y = Clock!Looks(x, k, FALSE) /\ Clock!Becomes(c, y)
  BY InCall DEF Clock!FrameTrack, Clock!In
<1>2. k \in Tracks /\ first[k] \in Clock!Seqs /\ x.todo \subseteq Tracks
  BY <1>1, CallIs, ScalarsAre DEF Clock!ProducerOK
<1>3. /\ y \in Clock!Calls /\ y.pc = "tail" /\ y.op = x.op /\ y.at = x.at
      /\ y.through = x.through /\ y.seq = x.seq /\ y.frame = x.frame /\ y.sec = x.sec
      /\ y.todo = x.todo \ {k} /\ y.again = FALSE /\ y.ring = k /\ y.floor = first[k]
      /\ y.best = None
  <2>1. PICK again \in BOOLEAN : again = FALSE
    OBVIOUS
  <2>2. x \in Clock!Calls /\ k \in Tracks /\ first[k] \in Clock!Seqs /\ y = Clock!Looks(x, k, again)
    BY <1>1, <1>2, <2>1
  <2> QED BY <2>1, <2>2, LooksIs
<1>4. ASSUME ~mode.overlap PROVE Clock!FrameOK(y)
  <2>1. Clock!FrameOK(x)
    BY <1>1, <1>4, FrameTracked
  <2>2. Clock!TrackOK(y)
    BY <1>2, <1>3 DEF Clock!TrackOK
  <2>3. ASSUME NEW l \in Tracks \ y.todo PROVE l = y.ring \/ Clock!Framed(y, l)
    <3>1. l = k \/ l \in Tracks \ x.todo
      BY <1>3
    <3>2. l \in Tracks \ x.todo => Clock!Framed(x, l)
      BY <1>1, <2>1 DEF Clock!FrameOK
    <3> QED BY <1>3, <3>1, <3>2, FramedLike
  <2> QED BY <1>1, <1>3, <2>1, <2>2, <2>3 DEF Clock!FrameOK, Clock!Walking
<1>5. Knows(y, from)
  <2>1. y.pc \in Framing /\ y.ring \in Tracks
    BY <1>2, <1>3 DEF Framing, Clock!Walking
  <2> QED BY <1>1, <1>3, <1>4, <2>1, FrameKnows
<1> QED BY <1>1, <1>5, CallMoves

\* The first observation of a track is the oldest.
LEMMA FirstBefore ==
  ASSUME Clock!ProducerOK, Clock!At("idle"), ~err, NEW k \in Tracks, NEW i \in Clock!Retained(k)
  PROVE  /\ i >= first[k] /\ i \in Nat /\ i <= sequence /\ Clock!Wall(i) \in Int
         /\ made[k] # << >> /\ first[k] = made[k][1]
<1>1. PICK p \in tails[k]..(heads[k] - 1) : i = made[k][p + 1]
  <2>1. Clock!Retained(k) = {made[k][p + 1] : p \in tails[k]..(heads[k] - 1)}
    BY LastAre, Constants
  <2> QED BY <2>1
<1>2. /\ made[k] \in Seq(Nat) /\ Len(made[k]) \in Nat /\ p + 1 \in 1..Len(made[k])
      /\ 1 \in 1..Len(made[k]) /\ i \in 1..sequence
  <2>1. /\ made[k] \in Seq(Nat) /\ heads[k] = Len(made[k]) /\ heads[k] \in Nat /\ tails[k] \in Nat
        /\ \A q \in Nat : tails[k] <= q /\ q < heads[k] => made[k][q + 1] \in 1..sequence
    BY AtRest, Constants
  <2>2. p \in Nat /\ tails[k] <= p /\ p < heads[k]
    BY <1>1, <2>1
  <2>3. made[k][p + 1] \in 1..sequence
    BY <2>1, <2>2
  <2> QED BY <1>1, <2>1, <2>2, <2>3
<1>3. \A a, b \in 1..Len(made[k]) : a < b => made[k][a] < made[k][b]
  BY Constants DEF Clock!ProducerOK, Clock!HistoryOK
<1>4. made[k][1] <= i /\ made[k] # << >>
  <2>1. CASE p = 0
    BY <1>1, <1>2, <2>1
  <2>2. CASE p # 0
    <3>1. 1 < p + 1
      BY <1>2, <2>2
    <3>2. made[k][1] < i /\ made[k][1] \in Nat
      BY <1>1, <1>2, <1>3, <3>1
    <3> QED BY <1>2, <3>2
  <2> QED BY <2>1, <2>2
<1>5. first[k] = made[k][1]
  BY <1>4, FieldsAtRest
<1> QED BY <1>2, <1>4, <1>5, WallIs, Constants, Counts DEF Clock!ProducerOK

\* The window of a track has no slot that is not after the cut.
LEMMA AgainKnows ==
  ASSUME Clock!ProducerOK, Clock!ConsumersOK, Unchanged, NEW c \in Consumers, Clock!FrameAgain(c)
  PROVE  Clock!ConsumersOK'
<1>1. PICK x, from, k, y :
         /\ x \in Clock!Calls /\ from \in Clock!Seqs /\ x = call[c] /\ from = cursors[c]
         /\ Knows(x, from) /\ x.pc = "visit" /\ k = x.ring /\ Clock!Missed(x)
         /\ y = Clock!Looks(x, k, TRUE) /\ Clock!Becomes(c, y)
  BY InCall DEF Clock!FrameAgain, Clock!In
<1>2. k \in Tracks /\ first[k] \in Clock!Seqs /\ x.op # "events"
  <2>1. x.op # "events" /\ k \in Tracks
    BY <1>1 DEF Knows, Clock!CallOK, Clock!Walking
  <2> QED BY <2>1, ScalarsAre DEF Clock!ProducerOK
<1>3. /\ y \in Clock!Calls /\ y.pc = "tail" /\ y.op = x.op /\ y.at = x.at
      /\ y.through = x.through /\ y.seq = x.seq /\ y.frame = x.frame /\ y.sec = x.sec
      /\ y.todo = x.todo \ {k} /\ y.again = TRUE /\ y.ring = k /\ y.floor = first[k]
      /\ y.best = None
  <2>1. PICK again \in BOOLEAN : again = TRUE
    OBVIOUS
  <2>2. x \in Clock!Calls /\ k \in Tracks /\ first[k] \in Clock!Seqs /\ y = Clock!Looks(x, k, again)
    BY <1>1, <1>2, <2>1
  <2>3. /\ y \in Clock!Calls /\ y.pc = "tail" /\ y.op = x.op /\ y.at = x.at
        /\ y.through = x.through /\ y.seq = x.seq /\ y.frame = x.frame /\ y.sec = x.sec
        /\ y.todo = x.todo \ {k} /\ y.again = again /\ y.ring = k /\ y.floor = first[k]
        /\ y.best = None
    BY <2>2, LooksIs
  <2> QED BY <2>1, <2>3, Zenon
<1>4. ASSUME ~mode.overlap PROVE Clock!FrameOK(y)
  <2>1. Clock!FrameOK(x) /\ Clock!TrackOK(x) /\ Clock!At("idle") /\ ~err
    BY <1>1, <1>4, FrameTracked DEF Clock!FrameOK
  <2>2. k \in Tracks \ x.todo /\ y.todo = x.todo
    <3>1. k \in Tracks \ x.todo
      BY <1>1, <2>1 DEF Clock!TrackOK
    <3>2. x.todo \ {k} = x.todo
      BY <3>1
    <3> QED BY <1>3, <3>1, <3>2
  <2>3. \A i \in Clock!Retained(k) : i > x.through \/ Clock!Wall(i) > x.at
    <3> TAKE i \in Clock!Retained(k)
    <3>1. ~Clock!Eligible(x, Clock!Whole(i))
      BY <1>1, <2>1 DEF Clock!TrackOK, Clock!BestOf, Clock!Missed
    <3>2. i >= first[k] /\ i \in Nat /\ Clock!Wall(i) \in Int
      BY <1>2, <2>1, FirstBefore, Constants
    <3>3. x.floor = first[k] /\ ~x.again /\ x.through \in Nat /\ x.at \in Nat
      BY <1>1, <2>1, CallIs DEF Clock!TrackOK, Clock!Missed
    <3> QED BY <3>1, <3>2, <3>3 DEF Clock!Eligible, Clock!Whole
  <2>4. Clock!TrackOK(y)
    BY <1>1, <1>3, <2>2, <2>3 DEF Clock!TrackOK, Clock!Missed
  <2>5. ASSUME NEW l \in Tracks \ y.todo PROVE l = y.ring \/ Clock!Framed(y, l)
    <3>1. l # k => Clock!Framed(x, l)
      BY <1>1, <2>1, <2>2, <2>5 DEF Clock!FrameOK
    <3> QED BY <1>3, <3>1, FramedLike
  <2> QED BY <1>1, <1>3, <2>1, <2>4, <2>5 DEF Clock!FrameOK, Clock!Walking
<1>5. Knows(y, from)
  BY <1>1, <1>2, <1>3, <1>4, FrameKnows DEF Framing, Clock!Walking
<1> QED BY <1>1, <1>5, CallMoves

\* A frame keeps of a track what it should.
LEMMA KeepFramed ==
  ASSUME Clock!ProducerOK, Clock!At("idle"), ~err, NEW x \in Clock!Calls, Clock!FrameOK(x), x.pc = "visit", ~Clock!Missed(x),
         NEW k, k = x.ring, NEW y, y.at = x.at, y.through = x.through, y.frame[k] = x.best
  PROVE  Clock!Framed(y, k)
<1> DEFINE fit  == {i \in Clock!Retained(k) : Clock!Wall(i) <= x.at}
           in   == {i \in fit : i <= x.through}
           pick == IF in # {} THEN in
                   ELSE IF made[k] # << >> /\ made[k][1] <= x.through THEN fit ELSE {}
<1>1. /\ k \in Tracks /\ x.floor = first[k] /\ Clock!BestOf(x, Clock!Retained(k)) /\ x.seq = sequence
      /\ x.again => /\ first[k] <= x.through
                    /\ \A i \in Clock!Retained(k) : i > x.through \/ Clock!Wall(i) > x.at
  BY DEF Clock!FrameOK, Clock!TrackOK
<1>2. \A i \in Clock!Retained(k) : /\ i >= first[k] /\ i \in Nat /\ i <= sequence /\ Clock!Wall(i) \in Int
                                   /\ made[k] # << >> /\ first[k] = made[k][1]
  BY <1>1, FirstBefore
<1>3. \A i \in Clock!Retained(k) : Clock!Eligible(x, Clock!Whole(i)) <=>
        Clock!Wall(i) <= x.at /\ (x.again \/ i <= x.through)
  BY <1>1, <1>2 DEF Clock!Eligible, Clock!Whole
<1>4. x.through \in Nat /\ x.at \in Nat /\ first[k] \in Nat
      /\ first[k] = (IF made[k] = << >> THEN 0 ELSE made[k][1])
  <2>1. first[k] \in Clock!Seqs /\ first[k] = (IF made[k] = << >> THEN 0 ELSE made[k][1])
    BY <1>1, FieldsAtRest
  <2> QED BY <2>1, CallIs, Constants DEF Clock!Seqs
\* The observations that it looks for are those that are eligible.
<1>5. pick = {i \in Clock!Retained(k) : Clock!Eligible(x, Clock!Whole(i))} \/ (pick = {} /\ x.best = None)
  <2>1. CASE x.again
    <3>1. in = {} /\ fit = {i \in Clock!Retained(k) : Clock!Eligible(x, Clock!Whole(i))}
      BY <1>1, <1>2, <1>3, <1>4, <2>1
    <3>2. fit # {} => made[k] # << >> /\ made[k][1] <= x.through
      BY <1>1, <1>2, <2>1
    <3> QED BY <3>1, <3>2
  <2>2. CASE ~x.again
    <3>1. in = {i \in Clock!Retained(k) : Clock!Eligible(x, Clock!Whole(i))}
      BY <1>3, <2>2
    <3>2. CASE in # {}
      BY <3>1, <3>2
    <3>3. CASE in = {}
      <4>1. x.best = None
        BY <1>1, <3>1, <3>3 DEF Clock!BestOf
      <4>2. first[k] > x.through
        BY <1>1, <1>4, <2>2, <4>1 DEF Clock!Missed
      <4>3. ~(made[k] # << >> /\ made[k][1] <= x.through)
        BY <1>4, <4>2
      <4> QED BY <3>3, <4>1, <4>3
    <3> QED BY <3>2, <3>3
  <2> QED BY <2>1, <2>2
<1>6. pick = {} <=> x.best = None
  BY <1>1, <1>5 DEF Clock!BestOf
<1>7. ASSUME x.best # None
      PROVE  LET i == x.best.item IN
             /\ x.best.seq = i /\ i \in pick
             /\ \A j \in pick : Clock!Wall(j) < Clock!Wall(i) \/ (Clock!Wall(j) = Clock!Wall(i) /\ j <= i)
  <2>1. PICK i \in Clock!Retained(k) : /\ x.best = Clock!Whole(i) /\ Clock!Eligible(x, x.best)
                                       /\ \A j \in Clock!Retained(k) : Clock!Eligible(x, Clock!Whole(j)) =>
                                            Clock!Wall(j) < Clock!Wall(i) \/ (Clock!Wall(j) = Clock!Wall(i) /\ j <= i)
    BY <1>1, <1>7 DEF Clock!BestOf
  <2>2. x.best.item = i /\ x.best.seq = i
    BY <2>1 DEF Clock!Whole
  <2>3. pick = {j \in Clock!Retained(k) : Clock!Eligible(x, Clock!Whole(j))}
    BY <1>5, <1>7
  <2> HIDE DEF pick
  <2> QED BY <2>1, <2>2, <2>3
<1>8. Clock!Framed(y, k) <=>
        IF pick = {} THEN y.frame[k] = None
        ELSE LET i == y.frame[k].item IN
             /\ y.frame[k].seq = i /\ i \in pick
             /\ \A j \in pick : Clock!Wall(j) < Clock!Wall(i) \/ (Clock!Wall(j) = Clock!Wall(i) /\ j <= i)
  BY DEF Clock!Framed
<1> HIDE DEF pick
<1> QED BY <1>6, <1>7, <1>8

LEMMA KeepKnows ==
  ASSUME Clock!ProducerOK, Clock!ConsumersOK, Unchanged, NEW c \in Consumers, Clock!FrameKeep(c)
  PROVE  Clock!ConsumersOK'
<1>1. PICK x, from, k, y :
         /\ x \in Clock!Calls /\ from \in Clock!Seqs /\ x = call[c] /\ from = cursors[c]
         /\ Knows(x, from) /\ x.pc = "visit" /\ k = x.ring /\ ~Clock!Missed(x)
         /\ y = [x EXCEPT !.frame[k] = x.best, !.pc = "tracks"] /\ Clock!Becomes(c, y)
  BY InCall DEF Clock!FrameKeep, Clock!In
<1>2. k \in Tracks /\ x.best \in Clock!Copy \cup {None} /\ x.frame \in [Tracks -> Clock!Copy \cup {None}]
  <2>1. x.op # "events" /\ k \in Tracks
    BY <1>1 DEF Knows, Clock!CallOK, Clock!Walking
  <2> QED BY <1>1, <2>1, CallIs
<1>3. PICK f : f = [x.frame EXCEPT ![k] = x.best]
  OBVIOUS
<1>4. f \in [Tracks -> Clock!Copy \cup {None}] /\ f[k] = x.best /\ \A l \in Tracks : l # k => f[l] = x.frame[l]
  BY <1>2, <1>3
<1>5. y = [x EXCEPT !.frame = f, !.pc = "tracks"]
  BY <1>1, <1>3
<1>6. /\ y \in Clock!Calls /\ y.pc = "tracks" /\ y.op = x.op /\ y.at = x.at
      /\ y.through = x.through /\ y.seq = x.seq /\ y.frame = f /\ y.sec = x.sec
      /\ y.todo = x.todo
  BY <1>1, <1>4, <1>5 DEF Clock!Calls
<1>7. ASSUME ~mode.overlap PROVE Clock!FrameOK(y)
  <2>1. Clock!FrameOK(x) /\ Clock!At("idle") /\ ~err
    BY <1>1, <1>7, FrameTracked
  <2>2. Clock!Framed(y, k)
    <3>1. y.frame[k] = x.best /\ y.at = x.at /\ y.through = x.through
      BY <1>4, <1>6
    <3>2. x \in Clock!Calls /\ x.pc = "visit" /\ k = x.ring /\ ~Clock!Missed(x)
      BY <1>1
    <3> QED BY <2>1, <3>1, <3>2, KeepFramed
  <2>3. ASSUME NEW l \in Tracks \ y.todo, l # k PROVE Clock!Framed(y, l)
    <3>1. Clock!Framed(x, l)
      BY <1>1, <1>6, <2>1, <2>3 DEF Clock!FrameOK
    <3> QED BY <1>4, <1>6, <2>3, <3>1, FramedLike
  <2> QED BY <1>6, <2>1, <2>2, <2>3 DEF Clock!FrameOK, Clock!Walking
<1>8. Knows(y, from)
  <2>1. y.pc \in Framing /\ y.pc \notin Clock!Walking \cup {"visit"}
    BY <1>6 DEF Framing, Clock!Walking
  <2> QED BY <1>1, <1>6, <1>7, <2>1, FrameKnows
<1> QED BY <1>1, <1>8, CallMoves

LEMMA FrameEndKnows ==
  ASSUME Clock!ProducerOK, Clock!ConsumersOK, Unchanged, NEW c \in Consumers, Clock!FrameEnd(c)
  PROVE  Clock!ConsumersOK'
<1>1. PICK x, from, y :
         /\ x \in Clock!Calls /\ from \in Clock!Seqs /\ x = call[c] /\ from = cursors[c]
         /\ Knows(x, from) /\ x.pc = "tracks" /\ x.todo = {}
         /\ y = [x EXCEPT !.pc = "done"] /\ Clock!Becomes(c, y)
  BY InCall DEF Clock!FrameEnd, Clock!In
<1>2. /\ y \in Clock!Calls /\ y.pc = "done" /\ y.op = x.op /\ y.at = x.at
      /\ y.through = x.through /\ y.seq = x.seq /\ y.frame = x.frame /\ y.sec = x.sec
      /\ y.todo = {}
  BY <1>1 DEF Clock!Calls
<1>3. ASSUME ~mode.overlap PROVE Clock!FrameOK(y)
  <2>1. Clock!FrameOK(x)
    BY <1>1, <1>3, FrameTracked
  <2>2. ASSUME NEW l \in Tracks PROVE Clock!Framed(y, l)
    <3>1. Clock!Framed(x, l)
      BY <1>1, <2>1 DEF Clock!FrameOK
    <3> QED BY <1>2, <3>1, FramedLike
  <2> QED BY <1>2, <2>1, <2>2 DEF Clock!FrameOK, Clock!Walking
<1>4. Knows(y, from)
  <2>1. y.pc \in Framing /\ y.pc \notin Clock!Walking \cup {"visit"}
    BY <1>2 DEF Framing, Clock!Walking
  <2> QED BY <1>1, <1>2, <1>3, <2>1, FrameKnows
<1> QED BY <1>1, <1>4, CallMoves

-----------------------------------------------------------------------------
(* The calls begin and end *)

LEMMA BlankIs ==
  /\ Clock!Blank \in Clock!Calls /\ Clock!Blank.got = << >> /\ Clock!Blank.todo = Tracks /\ Clock!Blank.at = 0 /\ Clock!Blank.op = "events"
  /\ Clock!Blank.sec = 0 /\ Clock!Blank.ring = Timeline
<1>1. /\ 0 \in Clock!Seqs /\ 0 \in Clock!Times /\ 0 \in 0..LastWall /\ Timeline \in Clock!Rings
      /\ << >> \in Seq(Clock!Copy)
  BY Constants DEF Clock!Seqs, Clock!Times
<1>2. [item |-> 0, seq |-> 0] \in Clock!Copy /\ [k \in Tracks |-> None] \in [Tracks -> Clock!Copy \cup {None}]
  BY <1>1 DEF Clock!Copy
<1> QED BY <1>1, <1>2 DEF Clock!Blank, Clock!Calls, Clock!Operations

LEMMA MayCallIs ==
  ASSUME NEW c, Clock!MayCall(c)
  PROVE  ~mode.overlap => Clock!At("idle") /\ ~err
BY DEF Clock!MayCall

LEMMA EventsCallKnows ==
  ASSUME Clock!ProducerOK, Clock!ConsumersOK, Unchanged, NEW c \in Consumers, Clock!EventsCall(c)
  PROVE  Clock!ConsumersOK'
<1>1. PICK from, cut, y :
         /\ from \in Clock!Seqs /\ from = cursors[c] /\ cut = cuts[c] /\ cut # None
         /\ y = [Clock!Blank EXCEPT !.pc = "size", !.seq = sequence, !.through = cut.through]
         /\ Clock!Becomes(c, y)
  BY DEF Clock!EventsCall, Clock!ConsumersOK
<1>2. cut.through \in Clock!Seqs /\ cut.through <= sequence /\ sequence \in Clock!Seqs
  BY <1>1 DEF Clock!ConsumersOK, Clock!Cuts, Clock!ProducerOK, Clock!HistoryOK
<1>3. /\ y \in Clock!Calls /\ y.pc = "size" /\ y.op = "events" /\ y.got = << >> /\ y.sec = 0
      /\ y.ring = Timeline /\ y.seq = sequence /\ y.through <= sequence
  BY <1>1, <1>2, BlankIs DEF Clock!Calls
<1>4. Clock!CallOK(y, from)
  BY <1>3, Constants DEF Clock!CallOK
<1>5. ~mode.overlap => Clock!At("idle") /\ ~err /\ Clock!ReadOK(y, from)
  <2>1. Clock!EventsOK(y, from) /\ Clock!WalkOK(y)
    BY <1>3 DEF Clock!EventsOK, Clock!WalkOK
  <2>2. ~mode.overlap => Clock!At("idle") /\ ~err
    BY MayCallIs DEF Clock!EventsCall
  <2> QED BY <1>3, <2>1, <2>2 DEF Clock!ReadOK
<1> QED BY <1>1, <1>4, <1>5, CallMoves DEF Knows

LEMMA EventsSizeKnows ==
  ASSUME Clock!ProducerOK, Clock!ConsumersOK, Unchanged, NEW c \in Consumers, Clock!EventsSize(c)
  PROVE  Clock!ConsumersOK'
<1>1. PICK x, from, before, after, y :
         /\ x \in Clock!Calls /\ from \in Clock!Seqs /\ x = call[c] /\ from = cursors[c]
         /\ Knows(x, from) /\ x.pc = "size"
         /\ before = (IF timelineSize > x.seq THEN MaxObservations ELSE x.seq - timelineSize)
         /\ after = (IF timelineSize > 0 /\ from < before THEN before ELSE from)
         /\ y = [x EXCEPT !.floor = after, !.pc = "tail"] /\ Clock!Becomes(c, y)
  BY InCall DEF Clock!EventsSize, Clock!In
<1>2. /\ timelineSize \in Nat /\ x.seq \in Clock!Seqs /\ from \in Nat /\ MaxObservations \in Nat
      /\ x.seq \in Nat /\ x.seq <= MaxObservations
  <2>1. timelineSize \in Nat
    BY ScalarsAre, Constants DEF SizeOK, Clock!ProducerOK
  <2>2. x.seq \in Clock!Seqs
    BY <1>1 DEF Clock!Calls
  <2> QED BY <1>1, <2>1, <2>2, Constants DEF Clock!Seqs
<1>3. after \in Clock!Seqs /\ after >= from
  <2>1. before \in Clock!Seqs
    BY <1>1, <1>2 DEF Clock!Seqs
  <2> QED BY <1>1, <1>2, <2>1 DEF Clock!Seqs
<1>4. /\ y \in Clock!Calls /\ y.pc = "tail" /\ y.op = x.op /\ y.got = x.got /\ y.sec = x.sec
      /\ y.ring = x.ring /\ y.seq = x.seq /\ y.through = x.through /\ y.floor = after
  BY <1>1, <1>3 DEF Clock!Calls
<1>5. x.op = "events"
  <2>1. Clock!CallOK(x, from) /\ x.op \in Clock!Operations
    BY <1>1, CallIs DEF Knows
  <2> QED BY <1>1, <2>1 DEF Clock!CallOK
<1>6. Clock!CallOK(y, from)
  BY <1>1, <1>3, <1>4, <1>5 DEF Clock!CallOK, Knows, Clock!Walking
<1>7. ASSUME ~mode.overlap PROVE Clock!ReadOK(y, from)
  <2>1. Clock!EventsOK(x, from) /\ Clock!At("idle") /\ ~err
    BY <1>1, <1>5, <1>7 DEF Knows, Clock!ReadOK
  <2>2. x.seq = sequence /\ sequence \in Nat /\ ClockCapacity \in Nat /\ ClockCapacity >= 1
    BY <2>1, Counts, Constants DEF Clock!EventsOK, Clock!ProducerOK
  <2>3. timelineSize = Clock!Least(ClockCapacity, sequence)
    <3>1. push.pc = "idle" /\ "idle" \notin Clock!Sizing
      BY <2>1 DEF Clock!At, Clock!Sizing, Clock!Counting, Clock!Timing, Clock!Pushing
    <3> QED BY <2>1, <2>2, <3>1, ScalarsAre DEF SizeOK, Clock!ProducerOK, Clock!At
  <2>4. after = Clock!Most(from, sequence - ClockCapacity)
    BY <1>1, <1>2, <2>2, <2>3 DEF Clock!Least, Clock!Most
  <2>5. Clock!EventsOK(y, from) /\ Clock!WalkOK(y)
    BY <1>1, <1>4, <2>1, <2>4 DEF Clock!EventsOK, Clock!WalkOK
  <2> QED BY <1>4, <1>5, <2>5 DEF Clock!ReadOK
<1>8. Knows(y, from)
  BY <1>1, <1>6, <1>7 DEF Knows
<1> QED BY <1>1, <1>8, CallMoves

LEMMA FrameCallKnows ==
  ASSUME Clock!ProducerOK, Clock!ConsumersOK, Unchanged, NEW c \in Consumers, Clock!FrameCall(c)
  PROVE  Clock!ConsumersOK'
<1>1. PICK from, cut, y :
         /\ from \in Clock!Seqs /\ from = cursors[c] /\ cut = cuts[c] /\ cut # None
         /\ y = [Clock!Blank EXCEPT !.op = "frame", !.pc = "tracks", !.seq = sequence,
                              !.through = cut.through, !.at = cut.at]
         /\ Clock!Becomes(c, y)
  BY DEF Clock!FrameCall, Clock!ConsumersOK
<1>2. cut.through \in Clock!Seqs /\ cut.through <= sequence /\ sequence \in Clock!Seqs /\ cut.at \in Clock!Times
  <2>1. cut.through \in Clock!Seqs /\ cut.through <= sequence /\ sequence \in Clock!Seqs /\ cut.at \in Clock!Walls
    BY <1>1 DEF Clock!ConsumersOK, Clock!Cuts, Clock!ProducerOK, Clock!HistoryOK
  <2> QED BY <2>1, Constants DEF Clock!Walls, Clock!Times
<1>3. /\ y \in Clock!Calls /\ y.pc = "tracks" /\ y.op = "frame" /\ y.sec = 0
      /\ y.seq = sequence /\ y.through <= sequence /\ y.todo = Tracks
  BY <1>1, <1>2, BlankIs DEF Clock!Calls, Clock!Operations
<1>4. Clock!CallOK(y, from)
  BY <1>3, Constants DEF Clock!CallOK, Clock!Walking
<1>5. ~mode.overlap => Clock!At("idle") /\ ~err /\ Clock!ReadOK(y, from)
  <2>1. Clock!FrameOK(y) /\ Clock!WalkOK(y)
    BY <1>3 DEF Clock!FrameOK, Clock!WalkOK, Clock!Walking
  <2>2. ~mode.overlap => Clock!At("idle") /\ ~err
    BY MayCallIs DEF Clock!FrameCall
  <2> QED BY <1>3, <2>1, <2>2 DEF Clock!ReadOK
<1> QED BY <1>1, <1>4, <1>5, CallMoves DEF Knows

\* What an Aligned knows.
LEMMA AlignedCallIs ==
  ASSUME NEW x, NEW from, Knows(x, from), x.pc \in {"seconds", "nanos", "sequence"}
  PROVE  /\ x.op = "aligned" /\ x \in Clock!Calls /\ x.sec * Nanos <= LastWall
         /\ ~mode.overlap => Clock!At("idle") /\ ~err /\ Clock!AlignedOK(x)
         /\ x.pc = "nanos" => x.ring \in Tracks
BY DEF Knows, Clock!CallOK, Clock!ReadOK

LEMMA AlignedKnows ==
  ASSUME NEW y \in Clock!Calls, NEW from, y.op = "aligned", y.sec * Nanos <= LastWall,
         y.pc \in {"seconds", "nanos", "sequence", "tracks"}, y.pc = "nanos" => y.ring \in Tracks,
         ~mode.overlap => Clock!At("idle") /\ ~err /\ Clock!AlignedOK(y)
  PROVE  Knows(y, from)
<1>1. Clock!CallOK(y, from)
  BY DEF Clock!CallOK, Clock!Walking
<1>2. Clock!WalkOK(y)
  BY DEF Clock!WalkOK
<1> QED BY <1>1, <1>2 DEF Knows, Clock!ReadOK

LEMMA AlignedCallKnows ==
  ASSUME Clock!ProducerOK, Clock!ConsumersOK, Unchanged, NEW c \in Consumers, Clock!AlignedCall(c)
  PROVE  Clock!ConsumersOK'
<1>1. PICK from, y :
         /\ from = cursors[c]
         /\ y = [Clock!Blank EXCEPT !.op = "aligned", !.pc = "seconds"] /\ Clock!Becomes(c, y)
  BY DEF Clock!AlignedCall
<1>2. /\ y \in Clock!Calls /\ y.pc = "seconds" /\ y.op = "aligned" /\ y.sec = 0
      /\ y.todo = Tracks /\ y.at = 0
  BY <1>1, BlankIs DEF Clock!Calls, Clock!Operations
<1>3. Clock!AlignedOK(y)
  BY <1>2 DEF Clock!AlignedOK, Clock!LeastOf
<1>4. y.sec * Nanos <= LastWall
  BY <1>2, Constants
<1>5. Knows(y, from)
  BY <1>2, <1>3, <1>4, AlignedKnows, MayCallIs DEF Clock!AlignedCall
<1> QED BY <1>1, <1>5, CallMoves

LEMMA AlignedSecondsKnows ==
  ASSUME Clock!ProducerOK, Clock!ConsumersOK, Unchanged, NEW c \in Consumers, Clock!AlignedSeconds(c)
  PROVE  Clock!ConsumersOK'
<1>1. PICK x, from, k, y :
         /\ x \in Clock!Calls /\ x = call[c] /\ from = cursors[c]
         /\ Knows(x, from) /\ x.pc = "seconds" /\ k \in x.todo
         /\ y = [x EXCEPT !.ring = k, !.sec = seconds[k], !.todo = @ \ {k}, !.pc = "nanos"]
         /\ Clock!Becomes(c, y)
  BY InCall DEF Clock!AlignedSeconds, Clock!In
<1>2. k \in Tracks /\ x.todo \subseteq Tracks
  BY <1>1, CallIs
<1>3. seconds[k] * Nanos <= LastWall /\ seconds[k] \in 0..LastWall
  <2>1. seconds[k] \in Nat /\ seconds[k] * Nanos <= LastWall
    BY <1>2 DEF Clock!ProducerOK, Clock!WallsOK
  <2>2. seconds[k] <= seconds[k] * Nanos
    BY <2>1, Constants
  <2> QED BY <2>1, <2>2, Constants
<1>4. /\ y \in Clock!Calls /\ y.pc = "nanos" /\ y.op = x.op /\ y.sec = seconds[k] /\ y.at = x.at
      /\ y.ring = k /\ y.todo = x.todo \ {k}
  BY <1>1, <1>2, <1>3 DEF Clock!Calls, Clock!Rings
<1>5. ASSUME ~mode.overlap PROVE Clock!At("idle") /\ ~err /\ Clock!AlignedOK(y)
  <2>1. Clock!At("idle") /\ ~err /\ Clock!AlignedOK(x)
    BY <1>1, <1>5, AlignedCallIs
  <2>2. Clock!LeastOf(Tracks \ x.todo, x.at)
    BY <1>1, <2>1 DEF Clock!AlignedOK
  <2>3. (Tracks \ y.todo) \ {y.ring} = Tracks \ x.todo /\ y.ring \in Tracks \ y.todo
    BY <1>1, <1>2, <1>4
  <2>4. Clock!AlignedOK(y) <=> /\ y.ring \in Tracks \ y.todo /\ y.sec = seconds[y.ring]
                               /\ Clock!LeastOf((Tracks \ y.todo) \ {y.ring}, y.at)
    BY <1>4 DEF Clock!AlignedOK
  <2> QED BY <1>4, <2>1, <2>2, <2>3, <2>4
<1>6. Knows(y, from)
  <2>1. x.op = "aligned"
    BY <1>1, AlignedCallIs
  <2> QED BY <1>2, <1>3, <1>4, <1>5, <2>1, AlignedKnows
<1> QED BY <1>1, <1>6, CallMoves

\* The least so far, and one track more.
LEMMA LeastMore ==
  ASSUME Clock!ProducerOK, Clock!At("idle"), ~err, NEW ks \in SUBSET Tracks, NEW w \in Nat, Clock!LeastOf(ks, w),
         NEW k \in Tracks
  PROVE  Clock!LeastOf(ks \cup {k}, IF counts[k] = 0 \/ (w # 0 /\ Clock!Latest(k) >= w) THEN w ELSE Clock!Latest(k))
<1> DEFINE v == IF counts[k] = 0 \/ (w # 0 /\ Clock!Latest(k) >= w) THEN w ELSE Clock!Latest(k)
<1>1. \A l \in Tracks : Clock!Latest(l) \in Nat /\ (made[l] # << >> => Clock!Latest(l) # 0)
  BY FieldsAtRest
<1>2. counts[k] = 0 <=> made[k] = << >>
  <2>1. counts[k] = Clock!Least(TrackCapacity, Len(made[k])) /\ Len(made[k]) \in Nat /\ made[k] \in Seq(Nat)
    BY FieldsAtRest
  <2>2. Len(made[k]) = 0 <=> made[k] = << >>
    BY <2>1, EmptySeq
  <2> QED BY <2>1, <2>2, Constants DEF Clock!Least
<1> DEFINE L(l) == Clock!Latest(l)
           M(l) == made[l] = << >>
<1>3. /\ w = 0 => \A l \in ks : M(l)
      /\ w # 0 => \E l \in ks : ~M(l) /\ L(l) = w
      /\ \A l \in ks : ~M(l) => L(l) >= w
  BY DEF Clock!LeastOf
<1>4. \A l \in Tracks : L(l) \in Nat /\ (~M(l) => L(l) # 0)
  BY <1>1
<1>5. v = IF M(k) \/ (w # 0 /\ L(k) >= w) THEN w ELSE L(k)
  <2>1. (counts[k] = 0 \/ (w # 0 /\ L(k) >= w)) <=> (M(k) \/ (w # 0 /\ L(k) >= w))
    BY <1>2
  <2>2. CASE M(k) \/ (w # 0 /\ L(k) >= w)
    <3>1. v = w
      BY <2>1, <2>2, Zenon
    <3> HIDE DEF v, M, L
    <3> QED BY <2>2, <3>1, Zenon
  <2>3. CASE ~(M(k) \/ (w # 0 /\ L(k) >= w))
    <3>1. v = L(k)
      BY <2>1, <2>3, Zenon
    <3> HIDE DEF v, M, L
    <3> QED BY <2>3, <3>1, Zenon
  <2> QED BY <2>2, <2>3, Zenon
<1>6. /\ v = 0 => \A l \in ks \cup {k} : M(l)
      /\ v # 0 => \E l \in ks \cup {k} : ~M(l) /\ L(l) = v
      /\ \A l \in ks \cup {k} : ~M(l) => L(l) >= v
  <2> HIDE DEF L, M, v
  <2>1. CASE M(k)
    BY <1>3, <1>4, <1>5, <2>1
  <2>2. CASE ~M(k) /\ w # 0 /\ L(k) >= w
    BY <1>3, <1>4, <1>5, <2>2
  <2>3. CASE ~M(k) /\ ~(w # 0 /\ L(k) >= w)
    <3>1. v = L(k) /\ v # 0 /\ (w = 0 \/ L(k) < w)
      BY <1>4, <1>5, <2>3
    <3>2. \A l \in ks : ~M(l) => L(l) >= v
      BY <1>3, <1>4, <3>1
    <3>3. L(k) >= v
      BY <1>4, <3>1
    <3> QED BY <2>3, <3>1, <3>2, <3>3, Zenon
  <2> QED BY <2>1, <2>2, <2>3, Zenon
<1>7. Clock!LeastOf(ks \cup {k}, v)
  <2> HIDE DEF v
  <2> QED BY <1>6 DEF Clock!LeastOf
<1> QED BY <1>7

LEMMA AlignedNanosKnows ==
  ASSUME Clock!ProducerOK, Clock!ConsumersOK, Unchanged, NEW c \in Consumers, Clock!AlignedNanos(c)
  PROVE  Clock!ConsumersOK'
<1>1. PICK x, from, k, latest, at, y :
         /\ x \in Clock!Calls /\ x = call[c] /\ from = cursors[c]
         /\ Knows(x, from) /\ x.pc = "nanos" /\ k = x.ring
         /\ latest = x.sec * Nanos + nanos[k]
         /\ at = (IF counts[k] = 0 \/ (x.at # 0 /\ latest >= x.at) THEN x.at ELSE latest)
         /\ y = [x EXCEPT !.at = at, !.pc = "seconds"]
         /\ Clock!Becomes(c, y)
  BY InCall DEF Clock!AlignedNanos, Clock!In
<1>2. k \in Tracks /\ x.op = "aligned" /\ x.sec * Nanos <= LastWall /\ x.at \in Clock!Times /\ x.sec \in Nat
  BY <1>1, AlignedCallIs, CallIs DEF Clock!Calls
<1>3. at \in Clock!Times
  <2>1. nanos[k] \in Nat /\ nanos[k] < Nanos
    BY <1>2 DEF Clock!ProducerOK, Clock!WallsOK
  <2>2. x.sec * Nanos \in Nat
    BY <1>2, Constants
  <2>3. latest \in Clock!Times
    BY <1>1, <1>2, <2>1, <2>2, Constants DEF Clock!Times
  <2> QED BY <1>1, <1>2, <2>3
<1>4. /\ y \in Clock!Calls /\ y.pc = "seconds" /\ y.op = x.op /\ y.sec = x.sec /\ y.at = at
      /\ y.todo = x.todo
  BY <1>1, <1>3 DEF Clock!Calls
<1>5. ASSUME ~mode.overlap PROVE Clock!At("idle") /\ ~err /\ Clock!AlignedOK(y)
  <2>1. Clock!At("idle") /\ ~err /\ Clock!AlignedOK(x)
    BY <1>1, <1>5, AlignedCallIs
  <2>2. /\ k \in Tracks \ x.todo /\ x.sec = seconds[k]
        /\ Clock!LeastOf((Tracks \ x.todo) \ {k}, x.at)
    BY <1>1, <2>1 DEF Clock!AlignedOK
  <2>3. latest = Clock!Latest(k) /\ x.at \in Nat
    BY <1>1, <2>2, CallIs DEF Clock!Latest
  <2>4. ((Tracks \ x.todo) \ {k}) \cup {k} = Tracks \ x.todo
    BY <2>2
  <2>5. Clock!LeastOf(((Tracks \ x.todo) \ {k}) \cup {k}, at)
    <3>1. PICK ks : ks = (Tracks \ x.todo) \ {k}
      OBVIOUS
    <3>2. ks \in SUBSET Tracks /\ Clock!LeastOf(ks, x.at) /\ k \in Tracks
      BY <2>2, <3>1
    <3>3. PICK w : w = x.at /\ w \in Nat
      BY <2>3
    <3>4. at = IF counts[k] = 0 \/ (w # 0 /\ Clock!Latest(k) >= w) THEN w ELSE Clock!Latest(k)
      BY <1>1, <2>3, <3>3
    <3>5. Clock!LeastOf(ks \cup {k}, IF counts[k] = 0 \/ (w # 0 /\ Clock!Latest(k) >= w) THEN w ELSE Clock!Latest(k))
      BY <2>1, <3>2, <3>3, LeastMore
    <3> QED BY <3>1, <3>4, <3>5
  <2>6. Clock!AlignedOK(y) <=> Clock!LeastOf(Tracks \ y.todo, y.at)
    BY <1>4 DEF Clock!AlignedOK
  <2> QED BY <1>4, <2>1, <2>4, <2>5, <2>6
<1>6. Knows(y, from)
  BY <1>2, <1>4, <1>5, AlignedKnows
<1> QED BY <1>1, <1>6, CallMoves

LEMMA AlignedThroughKnows ==
  ASSUME Clock!ProducerOK, Clock!ConsumersOK, Unchanged, NEW c \in Consumers, Clock!AlignedThrough(c)
  PROVE  Clock!ConsumersOK'
<1>1. PICK x, from, y :
         /\ x \in Clock!Calls /\ x = call[c] /\ from = cursors[c]
         /\ Knows(x, from) /\ x.pc = "seconds" /\ x.todo = {} /\ x.at # 0
         /\ y = [x EXCEPT !.through = sequence, !.pc = "sequence"]
         /\ Clock!Becomes(c, y)
  BY InCall DEF Clock!AlignedThrough, Clock!In
<1>2. sequence \in Clock!Seqs
  BY DEF Clock!ProducerOK, Clock!HistoryOK
<1>3. /\ y \in Clock!Calls /\ y.pc = "sequence" /\ y.op = x.op /\ y.sec = x.sec /\ y.at = x.at
      /\ y.through = sequence
  BY <1>1, <1>2 DEF Clock!Calls
<1>4. ASSUME ~mode.overlap PROVE Clock!At("idle") /\ ~err /\ Clock!AlignedOK(y)
  <2>1. Clock!At("idle") /\ ~err /\ Clock!AlignedOK(x)
    BY <1>1, <1>4, AlignedCallIs
  <2>2. Clock!LeastOf(Tracks, x.at)
    <3>1. Tracks \ x.todo = Tracks
      BY <1>1
    <3>2. Clock!LeastOf(Tracks \ x.todo, x.at)
      BY <1>1, <2>1 DEF Clock!AlignedOK
    <3> QED BY <3>1, <3>2
  <2>3. Clock!AlignedOK(y) <=> y.at # 0 /\ Clock!LeastOf(Tracks, y.at) /\ y.through = sequence
    BY <1>3, Zenon DEF Clock!AlignedOK
  <2> QED BY <1>1, <1>3, <2>1, <2>2, <2>3
<1>5. Knows(y, from)
  <2>1. x.op = "aligned" /\ x.sec * Nanos <= LastWall
    BY <1>1, AlignedCallIs
  <2> QED BY <1>3, <1>4, <2>1, AlignedKnows
<1> QED BY <1>1, <1>5, CallMoves

LEMMA AlignedFrameKnows ==
  ASSUME Clock!ProducerOK, Clock!ConsumersOK, Unchanged, NEW c \in Consumers, Clock!AlignedFrame(c)
  PROVE  Clock!ConsumersOK'
<1>1. PICK x, from, y :
         /\ x \in Clock!Calls /\ x = call[c] /\ from = cursors[c]
         /\ Knows(x, from) /\ x.pc = "sequence"
         /\ y = [x EXCEPT !.seq = sequence, !.todo = Tracks, !.pc = "tracks"]
         /\ Clock!Becomes(c, y)
  BY InCall DEF Clock!AlignedFrame, Clock!In
<1>2. sequence \in Clock!Seqs /\ sequence \in Nat
  BY Counts DEF Clock!ProducerOK, Clock!HistoryOK
<1>3. /\ y \in Clock!Calls /\ y.pc = "tracks" /\ y.op = x.op /\ y.sec = x.sec /\ y.at = x.at
      /\ y.through = x.through /\ y.seq = sequence /\ y.todo = Tracks
  BY <1>1, <1>2 DEF Clock!Calls
<1>4. ASSUME ~mode.overlap PROVE Clock!At("idle") /\ ~err /\ Clock!AlignedOK(y)
  <2>1. Clock!At("idle") /\ ~err /\ Clock!AlignedOK(x)
    BY <1>1, <1>4, AlignedCallIs
  <2>2. x.at # 0 /\ Clock!LeastOf(Tracks, x.at) /\ x.through = sequence
    BY <1>1, <2>1, Zenon DEF Clock!AlignedOK
  <2>3. Clock!FrameOK(y)
    BY <1>2, <1>3, <2>2 DEF Clock!FrameOK, Clock!Walking
  <2>4. Clock!AlignedOK(y) <=> y.at # 0 /\ Clock!LeastOf(Tracks, y.at) /\ Clock!FrameOK(y)
    BY <1>3, Zenon DEF Clock!AlignedOK
  <2> QED BY <1>3, <2>1, <2>2, <2>3, <2>4
<1>5. Knows(y, from)
  <2>1. x.op = "aligned" /\ x.sec * Nanos <= LastWall
    BY <1>1, AlignedCallIs
  <2> QED BY <1>3, <1>4, <2>1, AlignedKnows
<1> QED BY <1>1, <1>5, CallMoves

LEMMA AlignedEmptyKnows ==
  ASSUME Clock!ConsumersOK, Unchanged, NEW c \in Consumers, Clock!AlignedEmpty(c)
  PROVE  Clock!ConsumersOK'
<1>1. PICK y : y = None /\ Clock!Becomes(c, y)
  BY DEF Clock!AlignedEmpty
<1> QED BY <1>1, CallMoves

LEMMA ReturnKnows ==
  ASSUME Clock!ConsumersOK, Unchanged, NEW c \in Consumers, Clock!Return(c)
  PROVE  Clock!ConsumersOK'
<1>1. /\ call' = [call EXCEPT ![c] = None] /\ cuts' = cuts /\ DOMAIN call = Consumers
      /\ cursors \in [Consumers -> Clock!Seqs] /\ DOMAIN cuts = Consumers
  BY DEF Clock!Return, Clock!ConsumersOK
<1>2. /\ cursors' \in [Consumers -> Clock!Seqs]
      /\ \A d \in Consumers : d # c => cursors'[d] = cursors[d]
  <2>1. PICK x : x = call[c] /\ x.through \in Clock!Seqs
    <3>1. call[c] \in Clock!Calls
      BY InCall DEF Clock!Return, Clock!In
    <3> QED BY <3>1 DEF Clock!Calls
  <2>2. cursors' = cursors \/ cursors' = [cursors EXCEPT ![c] = x.through]
    BY <2>1 DEF Clock!Return
  <2> QED BY <1>1, <2>1, <2>2
<1>3. UNCHANGED <<mode, sequence, err, push>>
  BY DEF Unchanged, Clock!clock
<1>4. ASSUME NEW d \in Consumers, call'[d] # None
      PROVE  /\ Clock!CallOK(call[d], cursors[d])'
             /\ (~mode.overlap => Clock!At("idle") /\ ~err /\ Clock!ReadOK(call[d], cursors[d]))'
  <2>1. d # c /\ call'[d] = call[d] /\ cursors'[d] = cursors[d]
    BY <1>1, <1>2, <1>4
  <2>2. PICK x, from : x = call[d] /\ from = cursors[d] /\ Knows(x, from)
    BY <1>4, <2>1, InCall
  <2>3. Clock!ReadOK(x, from)' <=> Clock!ReadOK(x, from)
    BY ReadSame
  <2>4. Clock!CallOK(x, from)
    BY <2>2 DEF Knows
  <2>5. ~mode.overlap => Clock!At("idle")' /\ ~err' /\ Clock!ReadOK(x, from)'
    BY <1>3, <2>2, <2>3 DEF Knows, Clock!At
  <2>6. x = call'[d] /\ from = cursors'[d]
    BY <2>1, <2>2
  <2> QED BY <1>3, <2>4, <2>5, <2>6
<1> QED BY <1>1, <1>2, <1>3, <1>4 DEF Clock!ConsumersOK

LEMMA CutKnows ==
  ASSUME Clock!ProducerOK, Clock!ConsumersOK, Unchanged, NEW c \in Consumers, NEW t \in 1..mode.lastWall, Clock!Cut(c, t)
  PROVE  Clock!ConsumersOK'
<1>1. /\ cuts' = [cuts EXCEPT ![c] = [through |-> sequence, at |-> t]] /\ call' = call
      /\ cursors' = cursors /\ DOMAIN cuts = Consumers /\ DOMAIN call = Consumers
      /\ cursors \in [Consumers -> Clock!Seqs]
  BY DEF Clock!Cut, Clock!ConsumersOK
<1>2. UNCHANGED <<mode, sequence, err, push>>
  BY DEF Unchanged, Clock!clock
<1>3. t \in Clock!Walls /\ sequence \in Clock!Seqs /\ sequence \in Nat
  <2>1. Clock!HistoryOK /\ sequence \in Clock!Seqs
    BY DEF Clock!ProducerOK, Clock!HistoryOK
  <2>2. mode.lastWall \in 1..LastWall /\ LastWall \in Nat
    BY <2>1, ModeIs, Constants
  <2> QED BY <2>1, <2>2, Counts DEF Clock!Walls
<1>4. ASSUME NEW d \in Consumers
      PROVE  cuts'[d] = None \/ (cuts'[d] \in Clock!Cuts /\ cuts'[d].through <= sequence)
  BY <1>1, <1>3 DEF Clock!ConsumersOK, Clock!Cuts
<1>5. ASSUME NEW d \in Consumers, call'[d] # None
      PROVE  /\ Clock!CallOK(call[d], cursors[d])'
             /\ (~mode.overlap => Clock!At("idle") /\ ~err /\ Clock!ReadOK(call[d], cursors[d]))'
  <2>1. PICK x, from : x = call[d] /\ from = cursors[d] /\ Knows(x, from)
    BY <1>1, <1>5, InCall
  <2>2. Clock!ReadOK(x, from)' <=> Clock!ReadOK(x, from)
    BY ReadSame
  <2>3. Clock!CallOK(x, from)
    BY <2>1 DEF Knows
  <2>4. ~mode.overlap => Clock!At("idle")' /\ ~err' /\ Clock!ReadOK(x, from)'
    BY <1>2, <2>1, <2>2 DEF Knows, Clock!At
  <2>5. x = call'[d] /\ from = cursors'[d]
    BY <1>1, <2>1
  <2> QED BY <1>2, <2>3, <2>4, <2>5
<1> QED BY <1>1, <1>2, <1>4, <1>5 DEF Clock!ConsumersOK

-----------------------------------------------------------------------------
(* The invariant *)

LEMMA InitHolds ==
  Clock!Init => Clock!IInv
<1> SUFFICES ASSUME Clock!Init PROVE Clock!IInv
  OBVIOUS
<1>1. /\ push.pc = "idle" /\ push.track = None /\ push.wall = 0 /\ push.seq = 0 /\ push.into = Timeline
      /\ Clock!At("idle") /\ sequence = 0 /\ err = FALSE /\ mode \in Modes /\ timelineSize = 0
      /\ \A r \in Clock!Rings : made[r] = << >> /\ heads[r] = 0 /\ tails[r] = 0
      /\ \A k \in Tracks : first[k] = 0 /\ counts[k] = 0 /\ seconds[k] = 0 /\ nanos[k] = 0
  BY DEF Clock!Init, Clock!Idle, Clock!At, Clock!Rings
<1>2. Timeline \in Clock!Rings /\ 0 \in Clock!Seqs /\ \A k \in Tracks : k \in Clock!Rings
  BY Constants DEF Clock!Rings, Clock!Seqs
<1>3. Clock!HistoryOK
  <2>1. push \in Clock!Pushes
    BY <1>2 DEF Clock!Init, Clock!Idle, Clock!Pushes, Clock!Labels
  <2>2. log = << >> /\ log \in Seq([track : Tracks, wall : Clock!Walls]) /\ Len(log) = 0
    BY DEF Clock!Init
  <2>3. made \in [Clock!Rings -> Seq(Nat)]
    BY DEF Clock!Init
  <2>4. \A r \in Clock!Rings : Len(made[r]) = 0 /\ 1..Len(made[r]) = {}
    BY <1>1
  <2>5. push.pc \notin Clock!Sizing \ Clock!Pushing /\ ~Clock!At("first") /\ 1..sequence = {}
    BY <1>1 DEF Clock!Sizing, Clock!Counting, Clock!Timing, Clock!Pushing, Clock!At
  <2> QED BY <1>1, <1>2, <2>1, <2>2, <2>3, <2>4, <2>5 DEF Clock!HistoryOK
<1>4. Clock!RingsOK
  <2>1. /\ heads \in [Clock!Rings -> Nat] /\ tails \in [Clock!Rings -> Nat]
        /\ DOMAIN slotValues = Clock!Rings /\ DOMAIN slotReady = Clock!Rings
    BY DEF Clock!Init
  <2>2. ASSUME NEW r \in Clock!Rings PROVE Clock!WindowOK(r) /\ Clock!SlotsOK(r)
    <3>1. \A L : "idle" \notin L => ~Clock!On(r, L)
      BY <1>1 DEF Clock!On
    <3>2. /\ ~Clock!On(r, Clock!Evicting) /\ ~Clock!On(r, Clock!Writing) /\ ~Clock!On(r, {"ready", "publish"}) /\ ~Clock!On(r, {"publish"})
      BY <3>1 DEF Clock!Evicting, Clock!Writing
    <3>3. Clock!Published(r) = 0
      <4>1. push.pc \notin Clock!Pushing
        BY <1>1 DEF Clock!Pushing
      <4>2. Clock!Published(r) = Len(made[r]) - 0
        BY <4>1, Zenon DEF Clock!Published
      <4> QED BY <1>1, <4>2
    <3>4. Clock!CapacityOf(r) \in Nat /\ Clock!CapacityOf(r) >= 1
      BY Constants
    <3>5. heads[r] = 0 /\ tails[r] = 0
      BY <1>1
    <3>6. Clock!WindowOK(r)
      BY <3>2, <3>3, <3>4, <3>5 DEF Clock!WindowOK, Clock!Most
    <3>7. slotValues[r] \in [Clock!Slots(r) -> Clock!Seqs] /\ slotReady[r] \in [Clock!Slots(r) -> BOOLEAN]
      BY <1>2 DEF Clock!Init
    <3>8. Clock!SlotsOK(r)
      BY <3>2, <3>5, <3>7 DEF Clock!SlotsOK
    <3> QED BY <3>6, <3>8
  <2> QED BY <2>1, <2>2 DEF Clock!RingsOK
<1>5. \A k \in Tracks : \A L : "idle" \notin L => Clock!Seen(k, L) = 0
  <2> TAKE k \in Tracks
  <2> TAKE L
  <2>1. "idle" \notin L => Clock!Seen(k, L) = Len(made[k]) - 0
    BY <1>1, Zenon DEF Clock!Seen
  <2>2. Len(made[k]) = 0
    BY <1>1, <1>2
  <2> QED BY <2>1, <2>2
<1>6. "idle" \notin Clock!Timing /\ "idle" \notin Clock!Counting /\ "idle" \notin Clock!Sizing /\ "idle" \notin {"first"}
  BY DEF Clock!Timing, Clock!Counting, Clock!Sizing, Clock!Pushing
<1>7. Clock!ScalarsOK
  <2>1. /\ first \in [Tracks -> Clock!Seqs] /\ counts \in [Tracks -> Nat]
        /\ seconds \in [Tracks -> Nat] /\ nanos \in [Tracks -> Nat]
    BY <1>2 DEF Clock!Init
  <2>2. ASSUME NEW k \in Tracks
        PROVE  /\ first[k] = IF Clock!Seen(k, {"first"}) = 0 THEN 0 ELSE made[k][1]
               /\ counts[k] <= TrackCapacity /\ counts[k] = Clock!Least(TrackCapacity, Clock!Seen(k, Clock!Counting))
    <3>1. Clock!Seen(k, {"first"}) = 0 /\ Clock!Seen(k, Clock!Counting) = 0
      BY <1>5, <1>6
    <3> QED BY <1>1, <3>1, Constants DEF Clock!Least
  <2>3. timelineSize \in 0..(ClockCapacity + 1) /\ ~Clock!At("cap") /\ push.pc \notin Clock!Sizing
    BY <1>1, <1>6, Constants DEF Clock!At
  <2>4. timelineSize = Clock!Least(ClockCapacity, 0)
    BY <1>1, Constants DEF Clock!Least
  <2> QED BY <1>1, <2>1, <2>2, <2>3, <2>4 DEF Clock!ScalarsOK
<1>8. ASSUME NEW k \in Tracks PROVE Clock!WallsOK(k)
  <2>1. Clock!Seen(k, Clock!Timing) = 0 /\ ~Clock!At("nanos")
    BY <1>1, <1>5, <1>6 DEF Clock!At
  <2>2. seconds[k] = 0 /\ nanos[k] = 0 /\ Nanos \in Nat /\ Nanos >= 1 /\ LastWall \in Nat
    BY <1>1, Constants
  <2>3. Clock!Latest(k) = 0
    BY <2>2 DEF Clock!Latest
  <2>4. Clock!Latestof(k, 0, 0)
    BY DEF Clock!Latestof
  <2> QED BY <2>1, <2>2, <2>3, <2>4 DEF Clock!WallsOK
<1>9. Clock!ConsumersOK
  <2>1. /\ cursors \in [Consumers -> Clock!Seqs] /\ DOMAIN call = Consumers /\ DOMAIN cuts = Consumers
        /\ \A c \in Consumers : cuts[c] = None /\ call[c] = None
    BY <1>2 DEF Clock!Init
  <2> QED BY <2>1 DEF Clock!ConsumersOK
<1> QED BY <1>3, <1>4, <1>7, <1>8, <1>9 DEF Clock!IInv, Clock!ProducerOK

\* The producer's part says nothing of the consumers.
LEMMA ProducerRests ==
  ASSUME Clock!ProducerOK, Unchanged
  PROVE  Clock!ProducerOK'
<1>1. UNCHANGED <<mode, sequence, timelineSize, err, heads, tails, slotValues, slotReady, first, counts, seconds,
                  nanos, push, log, made>>
  BY DEF Unchanged, Clock!clock, Clock!ring, Clock!track, Clock!history
<1>2. Clock!HistoryOK'
  BY <1>1 DEF Clock!ProducerOK, Clock!HistoryOK, Clock!At
<1>3. Clock!RingsOK'
  <2>1. ASSUME NEW r \in Clock!Rings PROVE Clock!WindowOK(r)' /\ Clock!SlotsOK(r)'
    <3>1. Clock!Published(r)' = Clock!Published(r)
      BY <1>1 DEF Clock!Published
    <3>2. \A L : Clock!On(r, L)' <=> Clock!On(r, L)
      BY <1>1 DEF Clock!On
    <3>3. Clock!WindowOK(r) /\ Clock!SlotsOK(r)
      BY DEF Clock!ProducerOK, Clock!RingsOK
    <3>4. Clock!WindowOK(r)'
      BY <1>1, <3>1, <3>2, <3>3 DEF Clock!WindowOK
    <3>5. Clock!SlotsOK(r)'
      BY <1>1, <3>2, <3>3 DEF Clock!SlotsOK
    <3> QED BY <3>4, <3>5
  <2> QED BY <1>1, <2>1 DEF Clock!ProducerOK, Clock!RingsOK
<1>4. Clock!ScalarsOK'
  BY <1>1 DEF Clock!ProducerOK, Clock!ScalarsOK, Clock!Seen, Clock!At
<1>5. ASSUME NEW k \in Tracks PROVE Clock!WallsOK(k)'
  BY <1>1 DEF Clock!ProducerOK, Clock!WallsOK, Clock!Seen, Clock!At, Clock!Latestof, Clock!Latest,
     Clock!Wall
<1> QED BY <1>2, <1>3, <1>4, <1>5 DEF Clock!ProducerOK

LEMMA ConsumerSteps ==
  ASSUME Clock!IInv, Unchanged, NEW c \in Consumers, Clock!Consumer(c)
  PROVE  Clock!IInv'
<1> USE DEF Clock!IInv
<1>1. Clock!ProducerOK'
  BY ProducerRests
<1>2. Clock!ConsumersOK'
  <2>1. ASSUME NEW t \in 1..mode.lastWall, Clock!Cut(c, t) PROVE Clock!ConsumersOK'
    BY <2>1, CutKnows
  <2>2. CASE Clock!EventsCall(c)      BY <2>2, EventsCallKnows
  <2>3. CASE Clock!EventsSize(c)      BY <2>3, EventsSizeKnows
  <2>4. CASE Clock!EventsVisit(c)     BY <2>4, EventsVisitKnows
  <2>5. CASE Clock!WalkTail(c)        BY <2>5, TailKnows
  <2>6. CASE Clock!WalkHead(c)        BY <2>6, HeadKnows
  <2>7. CASE Clock!WalkEnd(c)         BY <2>7, EndKnows
  <2>8. CASE Clock!WalkSkip(c)        BY <2>8, SkipKnows
  <2>9. CASE Clock!WalkHalf(c)        BY <2>9, HalfKnows
  <2>10. CASE Clock!FrameCall(c)      BY <2>10, FrameCallKnows
  <2>11. CASE Clock!FrameTrack(c)     BY <2>11, TrackKnows
  <2>12. CASE Clock!FrameVisit(c)     BY <2>12, FrameVisitKnows
  <2>13. CASE Clock!FrameAgain(c)     BY <2>13, AgainKnows
  <2>14. CASE Clock!FrameKeep(c)      BY <2>14, KeepKnows
  <2>15. CASE Clock!FrameEnd(c)       BY <2>15, FrameEndKnows
  <2>16. CASE Clock!AlignedCall(c)    BY <2>16, AlignedCallKnows
  <2>17. CASE Clock!AlignedSeconds(c) BY <2>17, AlignedSecondsKnows
  <2>18. CASE Clock!AlignedNanos(c)   BY <2>18, AlignedNanosKnows
  <2>19. CASE Clock!AlignedEmpty(c)   BY <2>19, AlignedEmptyKnows
  <2>20. CASE Clock!AlignedThrough(c) BY <2>20, AlignedThroughKnows
  <2>21. CASE Clock!AlignedFrame(c)   BY <2>21, AlignedFrameKnows
  <2>22. CASE Clock!Return(c)         BY <2>22, ReturnKnows
  <2> QED BY <2>1, <2>2, <2>3, <2>4, <2>5, <2>6, <2>7, <2>8, <2>9, <2>10, <2>11, <2>12, <2>13,
             <2>14, <2>15, <2>16, <2>17, <2>18, <2>19, <2>20, <2>21, <2>22 DEF Clock!Consumer
<1> QED BY <1>1, <1>2

LEMMA StepsHold ==
  Clock!IInv /\ [Clock!Next]_(Clock!vars) => Clock!IInv'
<1> SUFFICES ASSUME Clock!IInv, [Clock!Next]_(Clock!vars) PROVE Clock!IInv'
  OBVIOUS
<1>1. CASE Clock!Producer /\ UNCHANGED mode
  BY <1>1, ProducerSteps, ProducerCalls DEF Clock!IInv
<1>2. CASE (\E c \in Consumers : Clock!Consumer(c) /\ UNCHANGED <<Clock!clock, push, Clock!history>>) /\ UNCHANGED mode
  <2>1. Unchanged
    BY <1>2 DEF Unchanged
  <2> QED BY <1>2, <2>1, ConsumerSteps
<1>3. CASE UNCHANGED Clock!vars
  <2>1. Unchanged /\ UNCHANGED <<cursors, cuts, call>>
    BY <1>3 DEF Clock!vars, Unchanged
  <2>2. UNCHANGED <<sequence, mode, err, push>>
    BY <2>1 DEF Unchanged, Clock!clock
  <2>3. ASSUME NEW c \in Consumers, call'[c] # None
        PROVE  /\ Clock!CallOK(call[c], cursors[c])'
               /\ (~mode.overlap => Clock!At("idle") /\ ~err /\ Clock!ReadOK(call[c], cursors[c]))'
    <3>1. PICK x, from : x = call[c] /\ from = cursors[c] /\ Knows(x, from)
      BY <2>1, <2>3, InCall DEF Clock!IInv
    <3>2. Clock!ReadOK(x, from)' <=> Clock!ReadOK(x, from)
      BY <2>1, ReadSame
    <3>3. Clock!CallOK(x, from)
      BY <3>1 DEF Knows
    <3>4. ~mode.overlap => Clock!At("idle")' /\ ~err' /\ Clock!ReadOK(x, from)'
      BY <2>2, <3>1, <3>2 DEF Knows, Clock!At
    <3>5. x = call'[c] /\ from = cursors'[c]
      BY <2>1, <3>1
    <3> QED BY <2>2, <3>3, <3>4, <3>5
  <2>4. Clock!ConsumersOK'
    BY <2>1, <2>2, <2>3 DEF Clock!IInv, Clock!ConsumersOK
  <2> QED BY <2>1, <2>4, ProducerRests DEF Clock!IInv
<1> QED BY <1>1, <1>2, <1>3 DEF Clock!Next


-----------------------------------------------------------------------------
(* What it implies *)

LEMMA ScalarTypes ==
  ASSUME Clock!ProducerOK
  PROVE  Clock!TypeOK \/ ~Clock!ConsumersOK
<1>1. /\ mode \in Modes /\ sequence = Len(log) /\ err \in BOOLEAN /\ push.seq \in Clock!Seqs /\ push.into \in Clock!Rings
      /\ log \in Seq([track : Tracks, wall : Clock!Walls]) /\ timelineSize \in 0..(ClockCapacity + 1)
  BY DEF Clock!ProducerOK, Clock!HistoryOK, Clock!ScalarsOK, Clock!Pushes
<1>2. ASSUME NEW r \in Clock!Rings
      PROVE  /\ Clock!Queued(r) \in 0..Clock!CapacityOf(r)
             /\ slotValues[r] \in [Clock!Slots(r) -> Clock!Seqs] /\ slotReady[r] \in [Clock!Slots(r) -> BOOLEAN]
  <2>1. Clock!WindowOK(r) /\ Clock!SlotsOK(r) /\ Clock!CapacityOf(r) \in Nat
    BY Constants DEF Clock!ProducerOK, Clock!RingsOK
  <2> QED BY <2>1 DEF Clock!WindowOK, Clock!SlotsOK, Clock!Queued
<1>3. first \in [Tracks -> Clock!Seqs] /\ counts \in [Tracks -> 0..TrackCapacity]
  <2>1. counts \in [Tracks -> Nat] /\ \A k \in Tracks : counts[k] <= TrackCapacity
    BY DEF Clock!ProducerOK, Clock!ScalarsOK
  <2>2. TrackCapacity \in Nat
    BY Constants
  <2>3. ASSUME NEW k \in Tracks PROVE counts[k] \in 0..TrackCapacity
    <3>1. counts[k] \in Nat /\ counts[k] <= TrackCapacity
      BY <2>1
    <3> QED BY <2>2, <3>1
  <2>4. counts \in [Tracks -> 0..TrackCapacity]
    BY <2>1, <2>3
  <2> QED BY <2>4 DEF Clock!ProducerOK, Clock!ScalarsOK
<1>4. ASSUME NEW k \in Tracks PROVE Clock!Latest(k) \in Clock!Times
  <2>1. /\ seconds[k] \in Nat /\ nanos[k] \in Nat /\ nanos[k] < Nanos
        /\ seconds[k] * Nanos <= LastWall
    BY DEF Clock!ProducerOK, Clock!WallsOK
  <2>2. seconds[k] * Nanos \in Nat
    BY <2>1, Constants
  <2> QED BY <2>1, <2>2, Constants DEF Clock!Latest, Clock!Times
<1>5. ASSUME Clock!ConsumersOK
      PROVE  /\ cursors \in [Consumers -> Clock!Seqs]
             /\ \A c \in Consumers : /\ call[c] = None \/ call[c] \in Clock!Calls
                                     /\ cuts[c] = None \/ cuts[c] \in Clock!Cuts
  BY <1>5 DEF Clock!ConsumersOK, Clock!CallOK
<1> QED BY <1>1, <1>2, <1>3, <1>4, <1>5 DEF Clock!TypeOK

\* Between two pushes the rings hold the last observations, and the fields
\* agree with them.
LEMMA WindowHolds ==
  ASSUME Clock!ProducerOK
  PROVE  Clock!RetainedWindow
<1> SUFFICES ASSUME Clock!At("idle"), ~err
    PROVE  /\ \A r \in Clock!Rings : Clock!Contents(r) = Clock!LastOf(r)
           /\ timelineSize = Len(Clock!LastOf(Timeline))
           /\ \A k \in Tracks :
                /\ counts[k] = Len(Clock!LastOf(k))
                /\ made[k] # << >> =>
                     /\ first[k] = made[k][1]
                     /\ \A i \in DOMAIN made[k] : Clock!Wall(made[k][i]) <= Clock!Latest(k)
                     /\ \E i \in DOMAIN made[k] : Clock!Wall(made[k][i]) = Clock!Latest(k)
  BY DEF Clock!RetainedWindow
<1>1. ASSUME NEW r \in Clock!Rings PROVE Clock!Contents(r) = Clock!LastOf(r)
  <2> DEFINE n == heads[r] - tails[r]
             l == Clock!LastOf(r)
  <2>1. /\ n \in Nat /\ tails[r] \in Nat /\ heads[r] \in Nat
        /\ \A p \in Nat : tails[r] <= p /\ p < heads[r] => slotValues[r][Clock!Slot(r, p)] = made[r][p + 1]
    BY AtRest
  <2>2. l \in Seq(Nat) /\ Len(l) = n /\ \A i \in 1..n : l[i] = made[r][tails[r] + i]
    BY LastAre
  <2>3. ASSUME NEW i \in 1..n PROVE slotValues[r][Clock!Slot(r, tails[r] + i - 1)] = l[i]
    <3>1. PICK p \in Nat : p = tails[r] + i - 1 /\ tails[r] <= p /\ p < heads[r] /\ p + 1 = tails[r] + i
      BY <2>1
    <3> QED BY <2>1, <2>2, <3>1
  <2>4. l = [i \in 1..n |-> l[i]]
    BY <2>1, <2>2
  <2>5. Clock!Contents(r) = [i \in 1..n |-> slotValues[r][Clock!Slot(r, tails[r] + i - 1)]]
    BY DEF Clock!Contents, Clock!Queued
  <2> HIDE DEF n, l
  <2>6. Clock!Contents(r) = l
    BY <2>3, <2>4, <2>5, Zenon
  <2> QED BY <2>6 DEF l
<1>2. timelineSize = Len(Clock!LastOf(Timeline))
  <2>1. push.pc = "idle" /\ "idle" \notin Clock!Sizing /\ ~Clock!At("cap")
    BY DEF Clock!At, Clock!Sizing, Clock!Counting, Clock!Timing, Clock!Pushing
  <2>2. sequence \in Nat /\ Len(made[Timeline]) = sequence /\ Timeline \in Clock!Rings
    BY Counts, Constants DEF Clock!ProducerOK, Clock!Rings
  <2>3. Len(Clock!LastOf(Timeline)) = Clock!Least(ClockCapacity, sequence)
    <3>1. Clock!CapacityOf(Timeline) = ClockCapacity
      BY DEF Clock!CapacityOf
    <3> QED BY <2>2, <3>1, LastAre
  <2> QED BY <2>1, <2>2, <2>3, ScalarsAre DEF SizeOK, Clock!ProducerOK
<1>3. ASSUME NEW k \in Tracks
      PROVE  /\ counts[k] = Len(Clock!LastOf(k))
             /\ made[k] # << >> =>
                  /\ first[k] = made[k][1]
                  /\ \A i \in DOMAIN made[k] : Clock!Wall(made[k][i]) <= Clock!Latest(k)
                  /\ \E i \in DOMAIN made[k] : Clock!Wall(made[k][i]) = Clock!Latest(k)
  <2>1. Len(Clock!LastOf(k)) = Clock!Least(TrackCapacity, Len(made[k]))
    <3>1. Clock!CapacityOf(k) = TrackCapacity /\ k \in Clock!Rings
      BY Constants DEF Clock!CapacityOf, Clock!Rings, Clock!ClockAssumption
    <3> QED BY <3>1, LastAre
  <2>2. made[k] \in Seq(Nat) /\ Clock!Latestof(k, Len(made[k]), Clock!Latest(k)) /\ Len(made[k]) \in Nat
    BY FieldsAtRest
  <2>3. DOMAIN made[k] = 1..Len(made[k]) /\ (made[k] # << >> => Len(made[k]) > 0)
    BY <2>2, EmptySeq
  <2> QED BY <2>1, <2>2, <2>3, FieldsAtRest DEF Clock!Latestof
<1> QED BY <1>1, <1>2, <1>3

LEMMA EventsWithin ==
  ASSUME Clock!ConsumersOK
  PROVE  Clock!EventsWithinCut
<1> SUFFICES ASSUME NEW c \in Consumers, Clock!Done(c, "events"), NEW i \in DOMAIN call[c].got
             PROVE  call[c].got[i].seq \in (cursors[c] + 1)..call[c].through
  BY DEF Clock!EventsWithinCut
<1>1. PICK x, from : x = call[c] /\ from = cursors[c] /\ Knows(x, from) /\ from \in Clock!Seqs
                     /\ x.pc = "done" /\ x.op = "events" /\ i \in DOMAIN x.got /\ x \in Clock!Calls
  BY InCall DEF Clock!Done, Clock!In
<1>2. x.floor >= from /\ x.got[i].seq > x.floor /\ x.got[i].seq <= x.through
  BY <1>1 DEF Knows, Clock!CallOK
<1>3. x.got[i].seq \in Nat /\ x.floor \in Nat /\ x.through \in Nat /\ from \in Nat
  <2>1. x.got \in Seq(Clock!Copy)
    BY <1>1, CallIs
  <2>2. x.got[i] \in Clock!Copy
    BY <1>1, <2>1
  <2>3. x.got[i].seq \in Clock!Seqs /\ Clock!Seqs \subseteq Nat
    BY <2>2, Constants DEF Clock!Copy, Clock!Seqs
  <2>4. x.floor \in Nat /\ x.through \in Nat
    BY <1>1, CallIs
  <2> QED BY <1>1, <2>3, <2>4
<1>4. x.got[i].seq \in (from + 1)..x.through
  BY <1>2, <1>3
<1> QED BY <1>1, <1>4

\* The numbers that follow a beginning and go to the end.
LEMMA RunOf ==
  ASSUME NEW got \in Seq(Clock!Copy), NEW f \in Nat, NEW t \in Nat, NEW s \in Nat, NEW n \in Nat,
         Len(got) = n, n = Clock!Most(0, Clock!Least(s, t) - f), t <= s,
         \A i \in DOMAIN got : got[i] = [item |-> f + i, seq |-> f + i]
  PROVE  /\ \A i \in DOMAIN got : got[i].item = got[i].seq
         /\ \A i, j \in DOMAIN got : i < j => got[i].seq < got[j].seq
         /\ {got[i].seq : i \in DOMAIN got} = (f + 1)..t
<1>1. DOMAIN got = 1..n
  OBVIOUS
<1>2. \A i \in 1..n : got[i].item = f + i /\ got[i].seq = f + i
  BY <1>1
<1>3. f + n = t \/ (n = 0 /\ t <= f)
  BY DEF Clock!Most, Clock!Least
<1>4. ASSUME NEW i \in 1..n PROVE got[i].seq \in (f + 1)..t
  BY <1>2, <1>3
<1>5. ASSUME NEW v \in (f + 1)..t PROVE \E i \in 1..n : got[i].seq = v
  <2>1. v - f \in 1..n /\ f + (v - f) = v
    BY <1>3
  <2> QED BY <1>2, <2>1
<1>6. {got[i].seq : i \in DOMAIN got} = (f + 1)..t
  BY <1>1, <1>4, <1>5
<1> QED BY <1>1, <1>2, <1>6

LEMMA EventsExactly ==
  ASSUME Clock!ProducerOK, Clock!ConsumersOK
  PROVE  Clock!EventsExact
<1> SUFFICES ASSUME NEW c \in Consumers, ~mode.overlap, Clock!Done(c, "events")
             PROVE  LET got == call[c].got IN
                    /\ \A i \in DOMAIN got : got[i].item = got[i].seq
                    /\ \A i, j \in DOMAIN got : i < j => got[i].seq < got[j].seq
                    /\ {got[i].seq : i \in DOMAIN got}
                         = {i \in Clock!Retained(Timeline) : i > cursors[c] /\ i <= call[c].through}
  BY DEF Clock!EventsExact
<1>1. PICK x, from, got : /\ x = call[c] /\ from = cursors[c] /\ Knows(x, from) /\ from \in Clock!Seqs
                          /\ x.pc = "done" /\ x.op = "events" /\ x \in Clock!Calls /\ got = x.got
  BY InCall DEF Clock!Done, Clock!In
<1>2. Clock!At("idle") /\ ~err /\ Clock!EventsOK(x, from)
  BY <1>1 DEF Knows, Clock!ReadOK
<1>3. /\ sequence \in Nat /\ x.through \in Nat /\ x.floor \in Nat /\ from \in Nat
      /\ got \in Seq(Clock!Copy)
  BY <1>1, CallIs, Counts, Constants DEF Clock!ProducerOK, Clock!Seqs
<1>4. /\ x.floor = Clock!Most(from, sequence - ClockCapacity) /\ x.through <= sequence
      /\ Len(got) = Clock!Most(0, Clock!Least(sequence, x.through) - x.floor)
      /\ \A i \in DOMAIN got : got[i] = [item |-> x.floor + i, seq |-> x.floor + i]
  BY <1>1, <1>2 DEF Clock!EventsOK
<1>5. PICK f, t : f = x.floor /\ t = x.through /\ f \in Nat /\ t \in Nat
  BY <1>3
<1>6. /\ \A i \in DOMAIN got : got[i].item = got[i].seq
      /\ \A i, j \in DOMAIN got : i < j => got[i].seq < got[j].seq
      /\ {got[i].seq : i \in DOMAIN got} = (f + 1)..t
  <2>1. Len(got) \in Nat
    BY <1>3
  <2>2. /\ Len(got) = Clock!Most(0, Clock!Least(sequence, t) - f) /\ t <= sequence
        /\ \A i \in DOMAIN got : got[i] = [item |-> f + i, seq |-> f + i]
    BY <1>4, <1>5
  <2> QED BY <1>3, <1>5, <2>1, <2>2, RunOf
\* The timeline holds the last numbers, as many as it has room for.
<1>7. Clock!Retained(Timeline) = (tails[Timeline] + 1)..sequence
  <2>1. /\ heads[Timeline] = sequence /\ tails[Timeline] \in Nat /\ tails[Timeline] <= sequence
        /\ \A i \in 1..sequence : made[Timeline][i] = i
    BY <1>2, AtRest, Counts, Constants DEF Clock!ProducerOK, Clock!HistoryOK
  <2>2. Clock!Retained(Timeline) = {made[Timeline][p + 1] : p \in tails[Timeline]..(heads[Timeline] - 1)}
    BY <1>2, LastAre, Constants
  <2>3. \A p \in tails[Timeline]..(sequence - 1) : made[Timeline][p + 1] = p + 1
    BY <1>3, <2>1
  <2>4. {p + 1 : p \in tails[Timeline]..(sequence - 1)} = (tails[Timeline] + 1)..sequence
    <3>1. ASSUME NEW v \in (tails[Timeline] + 1)..sequence
          PROVE  \E p \in tails[Timeline]..(sequence - 1) : v = p + 1
      <4>1. v - 1 \in tails[Timeline]..(sequence - 1) /\ v = (v - 1) + 1
        BY <1>3, <2>1
      <4> QED BY <4>1
    <3>2. ASSUME NEW p \in tails[Timeline]..(sequence - 1)
          PROVE  p + 1 \in (tails[Timeline] + 1)..sequence
      BY <1>3, <2>1
    <3> QED BY <3>1, <3>2
  <2>5. Clock!Retained(Timeline) = {p + 1 : p \in tails[Timeline]..(sequence - 1)}
    BY <2>1, <2>2, <2>3
  <2> QED BY <2>4, <2>5
<1>8. tails[Timeline] = Clock!Most(0, sequence - ClockCapacity) /\ ClockCapacity \in Nat
  BY <1>2, AtRest, Counts, Constants DEF Clock!ProducerOK
<1>9. (f + 1)..t = {i \in Clock!Retained(Timeline) : i > from /\ i <= t}
  <2>1. f = Clock!Most(from, sequence - ClockCapacity) /\ t <= sequence
    BY <1>4, <1>5
  <2>2. \A i \in Nat : i \in (f + 1)..t <=> i \in (tails[Timeline] + 1)..sequence /\ i > from /\ i <= t
    BY <1>3, <1>5, <1>8, <2>1 DEF Clock!Most
  <2>3. \A i \in (f + 1)..t : i \in Nat
    BY <1>5
  <2>4. \A i \in (tails[Timeline] + 1)..sequence : i \in Nat
    BY <1>3, <1>8 DEF Clock!Most
  <2> QED BY <1>7, <2>2, <2>3, <2>4
<1> QED BY <1>1, <1>5, <1>6, <1>9

\* A frame that is done has looked at every track.
LEMMA FramedAll ==
  ASSUME NEW x, Clock!FrameOK(x), x.pc = "done"
  PROVE  \A k \in Tracks : Clock!Framed(x, k)
BY DEF Clock!FrameOK

LEMMA FramesExactly ==
  ASSUME Clock!ConsumersOK
  PROVE  Clock!FrameExact
<1> SUFFICES ASSUME NEW c \in Consumers, ~mode.overlap, Clock!Done(c, "frame"), NEW k \in Tracks
             PROVE  Clock!Framed(call[c], k)
  BY DEF Clock!FrameExact
<1>1. PICK x, from : x = call[c] /\ Knows(x, from) /\ x.pc = "done" /\ x.op = "frame"
  BY InCall DEF Clock!Done, Clock!In
<1>2. Clock!FrameOK(x)
  BY <1>1 DEF Knows, Clock!ReadOK
<1>3. Clock!Framed(x, k)
  BY <1>1, <1>2, FramedAll
<1> QED BY <1>1, <1>3

LEMMA AlignedExactly ==
  ASSUME Clock!ProducerOK, Clock!ConsumersOK
  PROVE  Clock!AlignedWatermark
<1> SUFFICES ASSUME NEW c \in Consumers, ~mode.overlap, Clock!Done(c, "aligned")
             PROVE  /\ \E k \in Tracks : made[k] # << >> /\ Clock!Latest(k) = call[c].at
                    /\ \A k \in Tracks : made[k] # << >> =>
                         \E i \in DOMAIN made[k] : Clock!Wall(made[k][i]) >= call[c].at
                    /\ \A k \in Tracks : Clock!Framed(call[c], k)
  BY DEF Clock!AlignedWatermark
<1>1. PICK x, from : x = call[c] /\ Knows(x, from) /\ x.pc = "done" /\ x.op = "aligned"
  BY InCall DEF Clock!Done, Clock!In
<1>2. Clock!At("idle") /\ ~err /\ x.at # 0 /\ Clock!LeastOf(Tracks, x.at) /\ Clock!FrameOK(x)
  <2>1. Clock!At("idle") /\ ~err /\ Clock!AlignedOK(x)
    BY <1>1 DEF Knows, Clock!ReadOK
  <2> QED BY <1>1, <2>1, Zenon DEF Clock!AlignedOK
<1>3. \E k \in Tracks : made[k] # << >> /\ Clock!Latest(k) = x.at
  BY <1>2 DEF Clock!LeastOf
<1>4. ASSUME NEW k \in Tracks, made[k] # << >>
      PROVE  \E i \in DOMAIN made[k] : Clock!Wall(made[k][i]) >= x.at
  <2>1. Clock!Latest(k) >= x.at
    BY <1>2, <1>4 DEF Clock!LeastOf
  <2>2. made[k] \in Seq(Nat) /\ Clock!Latestof(k, Len(made[k]), Clock!Latest(k)) /\ Len(made[k]) \in Nat
    BY <1>2, FieldsAtRest
  <2>3. DOMAIN made[k] = 1..Len(made[k]) /\ Len(made[k]) > 0
    BY <1>4, <2>2, EmptySeq
  <2>4. PICK i \in 1..Len(made[k]) : Clock!Wall(made[k][i]) = Clock!Latest(k)
    BY <2>2, <2>3 DEF Clock!Latestof
  <2> QED BY <2>1, <2>3, <2>4
<1>5. \A k \in Tracks : Clock!Framed(x, k)
  BY <1>1, <1>2, FramedAll
<1> QED BY <1>1, <1>3, <1>4, <1>5

LEMMA ClockImplied ==
  Clock!IInv => Clock!Inv /\ Clock!EventsExact /\ Clock!FrameExact /\ Clock!EventsWithinCut /\ Clock!AlignedWatermark
BY ScalarTypes, WindowHolds, EventsWithin, EventsExactly, FramesExactly,
   AlignedExactly DEF Clock!IInv, Clock!Inv

LEMMA ClockKeeps ==
  RingsSpec => [](part = "clock" => Clock!IInv)
<1>1. RingsInit => (part = "clock" => Clock!IInv)
  BY InitHolds DEF RingsInit
<1>2. (part = "clock" => Clock!IInv) /\ [RingsNext]_ringsVars
        => (part = "clock" => Clock!IInv)'
  <2> SUFFICES ASSUME part = "clock" => Clock!IInv,
                      [RingsNext]_ringsVars,
                      part' = "clock"
               PROVE  Clock!IInv'
    OBVIOUS
  <2>1. part = "clock" /\ Clock!IInv
    BY DEF RingsNext, ringsVars
  <2>2. [Clock!Next]_(Clock!vars)
    BY <2>1 DEF RingsNext, ringsVars, clockVars, Clock!vars, Clock!clock, Clock!ring, Clock!track, Clock!history
  <2> QED BY <2>1, <2>2, StepsHold
<1> QED BY <1>1, <1>2, PTL DEF RingsSpec

(***************************************************************************)
(* For rings of any capacity, any tracks, walls and consumers, and either  *)
(* policy: between two observations that no ring has refused, the timeline *)
(* and every track hold the newest observations in order, and the counts,  *)
(* first and latest times that readers load agree with them (Observe).     *)
(***************************************************************************)
THEOREM ClockRetains == RingsSpec => []ClockHolds
<1>1. (part = "clock" => Clock!IInv) => ClockHolds
  BY ClockImplied DEF ClockHolds
<1> QED BY <1>1, ClockKeeps, PTL

(***************************************************************************)
(* What EventsAfter hands out is newer than the cursor and not newer than  *)
(* the cut, however it overlaps an Observe; and when it does not, it hands *)
(* out every retained observation between the two, whole and in order,     *)
(* FrameThrough shows of each track the latest within the cut, and Aligned *)
(* is at the least of the tracks' latest times.                            *)
(***************************************************************************)
THEOREM ClockReads == RingsSpec => []ReadsExact
<1>1. (part = "clock" => Clock!IInv) => ReadsExact
  BY ClockImplied DEF ReadsExact
<1> QED BY <1>1, ClockKeeps, PTL

-----------------------------------------------------------------------------
(* Walks of a list *)

\* A step can be taken again and again.
Steppable(step, from, n) ==
  \E f : f = [i \in 0..n |-> IF i = 0 THEN from ELSE step[f[i - 1]]]

LEMMA Stepping ==
  ASSUME NEW step, NEW from, NEW n \in Nat
  PROVE  Steppable(step, from, n)
<1> DEFINE Is(f, m) == f = [i \in 0..m |-> IF i = 0 THEN from ELSE step[f[i - 1]]]
           T == {m \in 0..n : ~\E f : Is(f, m)}
<1>1. SUFFICES ASSUME T # {} PROVE FALSE
  <2>1. n \in 0..n
    OBVIOUS
  <2> QED BY <2>1, Zenon DEF Steppable
<1>2. PICK m \in T : \A k \in T : m <= k
  <2>1. T \in SUBSET Nat
    OBVIOUS
  <2> HIDE DEF T
  <2> QED BY <1>1, <2>1, Smallest
<1>3. CASE m = 0
  <2>1. Is([l \in {0} |-> from], 0)
    <3>1. 0..0 = {0}
      OBVIOUS
    <3> QED BY <3>1, Zenon
  <2>2. \E f : Is(f, m)
    BY <1>3, <2>1, Zenon
  <2> QED BY <1>2, <2>2, Zenon
<1>4. CASE m # 0
  <2>1. m - 1 \in 0..n /\ m - 1 \notin T /\ m \in Nat
    <3>1. m \in 0..n
      OBVIOUS
    <3>2. m - 1 \in 0..n /\ m \in Nat /\ ~(m <= m - 1)
      BY <1>4, <3>1
    <3> HIDE DEF T
    <3> QED BY <1>2, <3>2
  <2>2. PICK f : Is(f, m - 1)
    BY <2>1, Zenon
  <2>3. PICK g : g = [l \in 0..m |-> IF l = m THEN step[f[m - 1]] ELSE f[l]]
    OBVIOUS
  <2>4. \A l \in 0..m : g[l] = IF l = 0 THEN from ELSE step[g[l - 1]]
    <3>1. SUFFICES ASSUME NEW l \in 0..m
                   PROVE  g[l] = IF l = 0 THEN from ELSE step[g[l - 1]]
      OBVIOUS
    <3>2. CASE l = m
      <4>1. m - 1 \in 0..m /\ m - 1 # m
        BY <2>1, <1>4
      <4>2. g[l] = step[f[m - 1]] /\ g[l - 1] = f[m - 1]
        BY <2>3, <3>2, <4>1, Zenon
      <4> QED BY <1>4, <3>2, <4>2
    <3>3. CASE l # m
      <4>1. l \in 0..(m - 1) /\ g[l] = f[l]
        BY <2>1, <2>3, <3>3
      <4>2. f[l] = IF l = 0 THEN from ELSE step[f[l - 1]]
        BY <2>2, <4>1, Zenon
      <4>3. l # 0 => g[l - 1] = f[l - 1]
        <5>1. l # 0 => l - 1 \in 0..m /\ l - 1 # m
          BY <2>1, <4>1
        <5> QED BY <2>3, <5>1, Zenon
      <4> QED BY <4>1, <4>2, <4>3
    <3> QED BY <3>2, <3>3
  <2>5. Is(g, m)
    <3>1. g = [l \in 0..m |-> g[l]]
      BY <2>3, Zenon
    <3> QED BY <2>4, <3>1, Zenon
  <2> QED BY <1>2, <2>5
<1> QED BY <1>3, <1>4

\* The steps from one, as Walk takes them.
Steps(at, step, from) ==
  at = [i \in 0..MaxNodes |-> IF i = 0 THEN from ELSE step[at[i - 1]]]
Walked(at, from) == [i \in 1..Lists!Min({j \in 1..MaxNodes : at[j] = from}) |-> at[i - 1]]

LEMMA WalkIs ==
  ASSUME NEW step, NEW from
  PROVE  \E at : Steps(at, step, from) /\ Lists!Walk(step, from) = Walked(at, from)
<1>1. \E at : Steps(at, step, from)
  <2>1. MaxNodes \in Nat
    BY ListAssumption DEF Lists!ListAssumption
  <2>2. Steppable(step, from, MaxNodes)
    BY <2>1, Stepping
  <2> QED BY <2>2, Zenon DEF Steppable, Steps
<1> DEFINE at == CHOOSE f : f = [i \in 0..MaxNodes |-> IF i = 0 THEN from ELSE step[f[i - 1]]]
<1>2. Steps(at, step, from)
  BY <1>1, Zenon DEF Steps
<1>3. Lists!Walk(step, from) = Walked(at, from)
  BY Zenon DEF Lists!Walk, Walked
<1> QED BY <1>2, <1>3, Zenon

\* The loop of nodes from one, each once.
Goes(w, step, from) ==
  /\ w \in Seq(Nat) /\ Len(w) \in 1..MaxNodes /\ w[1] = from /\ step[w[Len(w)]] = from
  /\ \A i \in 1..(Len(w) - 1) : w[i + 1] = step[w[i]] /\ w[i + 1] # from

LEMMA MinIs ==
  ASSUME NEW S \in SUBSET Nat, NEW m \in S, \A x \in S : m <= x
  PROVE  Lists!Min(S) = m
<1>1. \E x \in S : \A y \in S : x <= y
  OBVIOUS
<1>2. PICK x : x = Lists!Min(S)
  OBVIOUS
<1>3. x \in S /\ \A y \in S : x <= y
  BY <1>1, <1>2, Zenon DEF Lists!Min
<1>4. x <= m /\ m <= x
  BY <1>3
<1> QED BY <1>2, <1>3, <1>4

\* A walk is the only loop.
LEMMA WalkOnly ==
  ASSUME NEW step, NEW from, NEW w, Goes(w, step, from)
  PROVE  Lists!Walk(step, from) = w
<1>1. PICK at : Steps(at, step, from) /\ Lists!Walk(step, from) = Walked(at, from)
  BY WalkIs
<1>2. MaxNodes \in Nat
  BY ListAssumption DEF Lists!ListAssumption
<1>3. PICK n \in 1..MaxNodes : n = Len(w)
  BY DEF Goes
<1>4. at[0] = from /\ \A i \in 1..MaxNodes : at[i] = step[at[i - 1]]
  BY <1>1, <1>2 DEF Steps
<1>5. \A i \in 1..n : at[i - 1] = w[i]
  <2> DEFINE T == {i \in 1..n : at[i - 1] # w[i]}
  <2>1. SUFFICES ASSUME T # {} PROVE FALSE
    OBVIOUS
  <2>2. PICK i \in T : \A j \in T : i <= j
    <3>1. T \in SUBSET Nat
      OBVIOUS
    <3> HIDE DEF T
    <3> QED BY <2>1, <3>1, Smallest
  <2>3. i # 1
    BY <1>4, <2>2 DEF Goes
  <2>4. i - 1 \in 1..(n - 1) /\ i - 1 \notin T
    BY <2>2, <2>3
  <2>5. at[(i - 1) - 1] = w[i - 1]
    BY <2>4
  <2>6. at[i - 1] = step[at[(i - 1) - 1]]
    BY <1>2, <1>4, <2>4
  <2>7. w[(i - 1) + 1] = step[w[i - 1]]
    BY <1>3, <2>4 DEF Goes
  <2> QED BY <2>2, <2>5, <2>6, <2>7
<1>6. at[n] = from
  <2>1. at[n] = step[at[n - 1]] /\ at[n - 1] = w[n]
    BY <1>3, <1>4, <1>5
  <2> QED BY <1>3, <2>1 DEF Goes
<1>7. \A j \in 1..(n - 1) : at[j] # from
  <2> SUFFICES ASSUME NEW j \in 1..(n - 1) PROVE at[j] # from
    OBVIOUS
  <2>1. at[(j + 1) - 1] = w[j + 1]
    BY <1>5
  <2>2. w[j + 1] # from
    BY <1>3 DEF Goes
  <2> QED BY <2>1, <2>2
<1>8. Lists!Min({j \in 1..MaxNodes : at[j] = from}) = n
  <2> DEFINE S == {j \in 1..MaxNodes : at[j] = from}
  <2>1. S \in SUBSET Nat /\ n \in S
    BY <1>6
  <2>2. \A x \in S : n <= x
    BY <1>7
  <2> HIDE DEF S
  <2>3. Lists!Min(S) = n
    BY <2>1, <2>2, MinIs
  <2> QED BY <2>3 DEF S
<1>9. Walked(at, from) = [i \in 1..n |-> w[i]]
  BY <1>5, <1>8 DEF Walked
<1>10. w = [i \in 1..n |-> w[i]]
  BY <1>3 DEF Goes
<1> QED BY <1>1, <1>9, <1>10

\* The nodes 1 to n, linked both ways.
Linked(step, back, n) ==
  /\ step \in [1..n -> 1..n] /\ back \in [1..n -> 1..n]
  /\ \A i \in 1..n : back[step[i]] = i /\ step[back[i]] = i

LEMMA LinkedApart ==
  ASSUME NEW n, NEW step, NEW back, Linked(step, back, n), NEW i \in 1..n, NEW j \in 1..n
  PROVE  /\ step[i] \in 1..n /\ back[i] \in 1..n
         /\ step[i] = step[j] => i = j
         /\ back[i] = back[j] => i = j
BY Zenon DEF Linked

On(step, from) == Lists!Range(Lists!Walk(step, from))

\* From every node there is a loop, for there are not nodes enough to go on.
LEMMA WalkGoes ==
  ASSUME NEW n \in 0..MaxNodes, NEW step, NEW back, Linked(step, back, n), NEW from \in 1..n
  PROVE  /\ Goes(Lists!Walk(step, from), step, from)
         /\ \A i \in 1..Len(Lists!Walk(step, from)) : Lists!Walk(step, from)[i] \in 1..n
         /\ On(step, from)
              = {Lists!Walk(step, from)[i] : i \in 1..Len(Lists!Walk(step, from))}
<1>1. PICK at : Steps(at, step, from) /\ Lists!Walk(step, from) = Walked(at, from)
  BY WalkIs
<1>2. MaxNodes \in Nat /\ n \in Nat /\ n <= MaxNodes
  BY ListAssumption DEF Lists!ListAssumption
<1>3. at[0] = from /\ \A i \in 1..MaxNodes : at[i] = step[at[i - 1]]
  BY <1>1, <1>2 DEF Steps
<1>4. \A i \in 0..MaxNodes : at[i] \in 1..n
  <2> DEFINE T == {i \in 0..MaxNodes : at[i] \notin 1..n}
  <2>1. SUFFICES ASSUME T # {} PROVE FALSE
    OBVIOUS
  <2>2. PICK i \in T : \A j \in T : i <= j
    <3>1. T \in SUBSET Nat
      BY <1>2
    <3> HIDE DEF T
    <3> QED BY <2>1, <3>1, Smallest
  <2>3. i # 0
    BY <1>3, <2>2
  <2>4. i \in 1..MaxNodes /\ i - 1 \in 0..MaxNodes /\ ~(i <= i - 1)
    BY <1>2, <2>2, <2>3
  <2>5. at[i - 1] \in 1..n
    <3>1. i - 1 \notin T
      <4> HIDE DEF T
      <4> QED BY <2>2, <2>4
    <3> QED BY <2>4, <3>1
  <2>6. step[at[i - 1]] \in 1..n
    BY <2>5 DEF Linked
  <2> QED BY <1>3, <2>2, <2>4, <2>6
<1> DEFINE Back == {j \in 1..MaxNodes : at[j] = from}
<1>5. Back # {}
  <2> DEFINE f == [i \in 0..n |-> at[i]]
  <2>1. IsFiniteSet(0..n) /\ IsFiniteSet(1..n) /\ Cardinality(0..n) = n + 1 /\ Cardinality(1..n) = n
    <3>1. 0 \in Int /\ 1 \in Int /\ n \in Int /\ ~(0 > n) /\ (1 > n <=> n = 0)
      BY <1>2
    <3>2. IsFiniteSet(0..n) /\ Cardinality(0..n) = n - 0 + 1
      BY <3>1, FS_Interval
    <3>3. IsFiniteSet(1..n) /\ Cardinality(1..n) = IF 1 > n THEN 0 ELSE n - 1 + 1
      BY <3>1, FS_Interval
    <3> QED BY <1>2, <3>1, <3>2, <3>3
  <2>2. f \in [0..n -> 1..n]
    BY <1>2, <1>4
  <2>3. Cardinality(1..n) < Cardinality(0..n)
    BY <1>2, <2>1
  <2> HIDE DEF f
  <2>4. PICK x, y \in 0..n : x # y /\ f[x] = f[y]
    BY <2>1, <2>2, <2>3, FS_PigeonHole
  <2>5. PICK i, j \in 0..n : i < j /\ f[i] = f[j]
    <3>1. x < y \/ y < x
      BY <1>2, <2>4
    <3> QED BY <2>4, <3>1
  <2>6. at[i] = at[j] /\ i \in Nat /\ j \in Nat
    BY <1>2, <2>5 DEF f
  <2> DEFINE T == {k \in 0..i : at[k] = at[k + (j - i)]}
  <2>7. i \in T
    BY <1>2, <2>5, <2>6
  <2>8. PICK k \in T : \A l \in T : k <= l
    <3>1. T \in SUBSET Nat
      BY <2>6
    <3> HIDE DEF T
    <3> QED BY <2>7, <3>1, Smallest
  <2>9. k = 0
    <3>1. SUFFICES ASSUME k # 0 PROVE FALSE
      OBVIOUS
    <3>2. /\ k - 1 \in 0..i /\ k \in 1..MaxNodes /\ k + (j - i) \in 1..MaxNodes
          /\ k - 1 \in 0..MaxNodes /\ (k + (j - i)) - 1 \in 0..MaxNodes
          /\ (k + (j - i)) - 1 = (k - 1) + (j - i) /\ ~(k <= k - 1)
      BY <1>2, <2>5, <2>6, <2>8, <3>1
    <3>3. at[k] = step[at[k - 1]] /\ at[k + (j - i)] = step[at[(k - 1) + (j - i)]]
      BY <1>3, <3>2
    <3>4. at[k] = at[k + (j - i)]
      BY <2>8
    <3>5. at[k - 1] \in 1..n /\ at[(k - 1) + (j - i)] \in 1..n
      BY <1>4, <3>2
    <3>6. at[k - 1] = at[(k - 1) + (j - i)]
      <4>1. PICK a, b : a = at[k - 1] /\ b = at[(k - 1) + (j - i)]
        OBVIOUS
      <4>2. a \in 1..n /\ b \in 1..n /\ step[a] = step[b]
        BY <3>3, <3>4, <3>5, <4>1
      <4> QED BY <4>1, <4>2, LinkedApart
    <3>7. k - 1 \in T
      BY <3>2, <3>6
    <3> HIDE DEF T
    <3> QED BY <2>8, <3>2, <3>7
  <2>10. at[j - i] = from /\ j - i \in 1..MaxNodes
    <3>1. at[0] = at[0 + (j - i)] /\ 0 + (j - i) = j - i
      BY <2>6, <2>8, <2>9
    <3> QED BY <1>2, <1>3, <2>5, <2>6, <3>1
  <2> QED BY <2>10
<1>6. PICK m \in Back : \A j \in Back : m <= j
  <2>1. Back \in SUBSET Nat
    OBVIOUS
  <2> HIDE DEF Back
  <2> QED BY <1>5, <2>1, Smallest
<1>7. m \in 1..MaxNodes /\ m \in Nat /\ at[m] = from
  BY <1>6
<1>8. Lists!Min(Back) = m
  <2>1. Back \in SUBSET Nat
    OBVIOUS
  <2> HIDE DEF Back
  <2> QED BY <1>6, <2>1, MinIs
<1>9. PICK w : w = Lists!Walk(step, from)
  OBVIOUS
<1>10. w = [i \in 1..m |-> at[i - 1]]
  BY <1>1, <1>8, <1>9, Zenon DEF Walked
<1>11. \A i \in 1..m : i - 1 \in 0..MaxNodes
  BY <1>2, <1>7
<1>12. w \in Seq(1..n) /\ Len(w) = m /\ DOMAIN w = 1..m /\ \A i \in 1..m : w[i] = at[i - 1]
  <2>1. \A i \in 1..m : at[i - 1] \in 1..n
    BY <1>4, <1>11
  <2>2. w \in [1..m -> 1..n]
    BY <1>10, <2>1
  <2> QED BY <1>7, <1>10, <2>2
<1>13. Goes(w, step, from)
  <2>1. w \in Seq(Nat)
    <3>1. w \in [1..m -> Nat]
      BY <1>12
    <3> QED BY <1>7, <3>1
  <2>2. w[1] = from
    BY <1>3, <1>7, <1>12
  <2>3. step[w[m]] = from
    <3>1. w[m] = at[m - 1] /\ at[m] = step[at[m - 1]]
      BY <1>3, <1>7, <1>12
    <3> QED BY <1>7, <3>1
  <2>4. ASSUME NEW i \in 1..(m - 1) PROVE w[i + 1] = step[w[i]] /\ w[i + 1] # from
    <3>1. i \in 1..m /\ i + 1 \in 1..m /\ (i + 1) - 1 = i /\ i \in 1..MaxNodes /\ ~(m <= i)
      BY <1>2, <1>7
    <3>2. w[i + 1] = at[i] /\ w[i] = at[i - 1] /\ at[i] = step[at[i - 1]]
      BY <1>3, <1>12, <3>1
    <3>3. i \notin Back
      <4> HIDE DEF Back
      <4> QED BY <1>6, <3>1
    <3> QED BY <3>1, <3>2, <3>3
  <2> QED BY <1>7, <1>12, <2>1, <2>2, <2>3, <2>4 DEF Goes
<1>14. \A i \in 1..Len(w) : w[i] \in 1..n
  BY <1>12
<1>15. On(step, from) = {w[i] : i \in 1..Len(w)}
  BY <1>9, <1>12 DEF On, Lists!Range
<1> QED BY <1>9, <1>13, <1>14, <1>15

\* The loop from a node, with its length.
IsLoop(w, m, n, step, from) ==
  /\ w = Lists!Walk(step, from) /\ m = Len(w) /\ m \in Nat /\ m >= 1 /\ m \in 1..MaxNodes
  /\ w \in Seq(Nat) /\ w[1] = from /\ step[w[m]] = from
  /\ \A i \in 1..(m - 1) : w[i + 1] = step[w[i]] /\ w[i + 1] # from
  /\ \A i \in 1..m : w[i] \in 1..n
  /\ On(step, from) = {w[i] : i \in 1..m}

LEMMA LoopIs ==
  ASSUME NEW n \in 0..MaxNodes, NEW step, NEW back, Linked(step, back, n), NEW from \in 1..n
  PROVE  \E w, m : IsLoop(w, m, n, step, from)
<1>1. PICK w : w = Lists!Walk(step, from)
  OBVIOUS
<1>2. Goes(w, step, from)
  BY <1>1, WalkGoes
<1>3. \A i \in 1..Len(w) : w[i] \in 1..n
  BY <1>1, WalkGoes
<1>4. On(step, from) = {w[i] : i \in 1..Len(w)}
  BY <1>1, WalkGoes
<1>5. Len(w) \in Nat /\ Len(w) >= 1 /\ Len(w) \in 1..MaxNodes
  BY <1>2, ListAssumption DEF Goes, Lists!ListAssumption
<1>6. IsLoop(w, Len(w), n, step, from)
  BY <1>1, <1>2, <1>3, <1>4, <1>5 DEF IsLoop, Goes
<1> QED BY <1>6

\* Every node of a loop is there once.
LEMMA LoopApart ==
  ASSUME NEW n, NEW step, NEW back, Linked(step, back, n), NEW from,
         NEW w, NEW m, IsLoop(w, m, n, step, from)
  PROVE  \A i, j \in 1..m : w[i] = w[j] => i = j
<1>1. m \in Nat
  BY DEF IsLoop
<1> DEFINE T == {i \in 1..m : \E j \in 1..m : i < j /\ w[i] = w[j]}
<1>2. T = {}
  <2>1. SUFFICES ASSUME T # {} PROVE FALSE
    OBVIOUS
  <2>2. PICK i \in T : \A j \in T : i <= j
    <3>1. T \in SUBSET Nat
      OBVIOUS
    <3> HIDE DEF T
    <3> QED BY <2>1, <3>1, Smallest
  <2>3. PICK j \in 1..m : i < j /\ w[i] = w[j]
    BY <2>2
  <2>4. j - 1 \in 1..(m - 1) /\ j - 1 \in 1..m /\ (j - 1) + 1 = j /\ i \in 1..m
    BY <1>1, <2>2, <2>3
  <2>5. w[j] = step[w[j - 1]] /\ w[j] # from /\ w[j - 1] \in 1..n
    BY <2>4 DEF IsLoop
  <2>6. i # 1
    BY <2>3, <2>5 DEF IsLoop
  <2>7. i - 1 \in 1..(m - 1) /\ i - 1 \in 1..m /\ (i - 1) + 1 = i /\ i - 1 < j - 1 /\ ~(i <= i - 1)
    BY <1>1, <2>3, <2>4, <2>6
  <2>8. w[i] = step[w[i - 1]] /\ w[i - 1] \in 1..n
    BY <2>7 DEF IsLoop
  <2>9. w[i - 1] = w[j - 1]
    <3>1. PICK a, b \in 1..n : a = w[i - 1] /\ b = w[j - 1]
      BY <2>5, <2>8
    <3>2. step[a] = step[b]
      BY <2>3, <2>5, <2>8, <3>1
    <3> QED BY <3>1, <3>2, LinkedApart
  <2>10. i - 1 \in T
    BY <2>4, <2>7, <2>9
  <2> HIDE DEF T
  <2> QED BY <2>2, <2>7, <2>10
<1>3. \A i, j \in 1..m : i < j => w[i] # w[j]
  BY <1>2
<1>4. \A i, j \in 1..m : i < j \/ j < i \/ i = j
  BY <1>1
<1> QED BY <1>3, <1>4

\* What a loop is from its second node.
Turned(w) == [i \in 1..Len(w) |-> IF i < Len(w) THEN w[i + 1] ELSE w[1]]

LEMMA WalkNext ==
  ASSUME NEW n \in 0..MaxNodes, NEW step, NEW back, Linked(step, back, n), NEW a \in 1..n
  PROVE  /\ Lists!Walk(step, step[a]) = Turned(Lists!Walk(step, a))
         /\ Len(Lists!Walk(step, step[a])) = Len(Lists!Walk(step, a))
         /\ On(step, step[a]) = On(step, a)
<1>0. PICK w, m : IsLoop(w, m, n, step, a)
  BY LoopIs
<1>1. w = Lists!Walk(step, a) /\ m = Len(w)
  BY <1>0 DEF IsLoop
<1>2. /\ w \in Seq(Nat) /\ m \in 1..MaxNodes /\ m \in Nat /\ m >= 1
      /\ w[1] = a /\ step[w[m]] = a
      /\ \A i \in 1..(m - 1) : w[i + 1] = step[w[i]] /\ w[i + 1] # a
      /\ \A i \in 1..m : w[i] \in 1..n
      /\ On(step, a) = {w[i] : i \in 1..m}
  BY <1>0 DEF IsLoop
<1>3. PICK r : r = [i \in 1..m |-> IF i < m THEN w[i + 1] ELSE w[1]]
  OBVIOUS
<1>4. /\ r \in Seq(Nat) /\ Len(r) = m
      /\ \A i \in 1..(m - 1) : r[i] = w[i + 1]
      /\ r[m] = a
  <2>1. \A i \in 1..m : i < m => i + 1 \in 1..m
    BY <1>2
  <2>2. \A i \in 1..m : w[i] \in Nat
    BY <1>2
  <2>3. r \in [1..m -> Nat]
    BY <1>2, <1>3, <2>1, <2>2
  <2>4. r \in Seq(Nat) /\ Len(r) = m
    BY <1>2, <1>3, <2>3
  <2> QED BY <1>2, <1>3, <2>4
<1>5. Goes(r, step, step[a])
  <2>1. r[1] = step[a]
    <3>1. CASE m = 1
      BY <1>2, <1>4, <3>1
    <3>2. CASE m > 1
      <4>1. 1 \in 1..(m - 1)
        BY <1>2, <3>2
      <4> QED BY <1>2, <1>4, <4>1
    <3> QED BY <1>2, <3>1, <3>2
  <2>2. ASSUME NEW i \in 1..(m - 1) PROVE r[i + 1] = step[r[i]] /\ r[i + 1] # step[a]
    <3>1. r[i] = w[i + 1] /\ w[i + 1] # a /\ w[i + 1] \in 1..n /\ i + 1 \in 1..m
      <4>1. i + 1 \in 1..m
        BY <1>2
      <4> QED BY <1>2, <1>4, <4>1
    <3>2. r[i + 1] = step[w[i + 1]]
      <4>1. CASE i + 1 = m
        BY <1>2, <1>4, <4>1
      <4>2. CASE i + 1 # m
        <5>1. i + 1 \in 1..(m - 1)
          BY <1>2, <4>2
        <5> QED BY <1>2, <1>4, <5>1
      <4> QED BY <4>1, <4>2
    <3>3. step[w[i + 1]] # step[a]
      BY <3>1, LinkedApart
    <3> QED BY <3>1, <3>2, <3>3
  <2> QED BY <1>2, <1>4, <2>1, <2>2 DEF Goes
<1>6. Lists!Walk(step, step[a]) = r
  BY <1>5, WalkOnly
<1>7. On(step, step[a]) = {r[i] : i \in 1..m}
  <2>1. DOMAIN r = 1..m
    BY <1>3
  <2> QED BY <1>6, <2>1 DEF On, Lists!Range
<1>8. {r[i] : i \in 1..m} = {w[i] : i \in 1..m}
  <2>1. ASSUME NEW i \in 1..m PROVE \E j \in 1..m : r[i] = w[j]
    <3>1. i \in 1..(m - 1) \/ i = m
      BY <1>2
    <3>2. 1 \in 1..m /\ \A j \in 1..(m - 1) : j + 1 \in 1..m
      BY <1>2
    <3> QED BY <1>2, <1>4, <3>1, <3>2
  <2>2. ASSUME NEW i \in 1..m PROVE \E j \in 1..m : w[i] = r[j]
    <3>1. CASE i = 1
      <4>1. m \in 1..m /\ w[i] = r[m]
        BY <1>2, <1>4, <3>1
      <4> QED BY <4>1
    <3>2. CASE i # 1
      <4>1. i - 1 \in 1..(m - 1) /\ i - 1 \in 1..m /\ (i - 1) + 1 = i
        BY <1>2, <3>2
      <4>2. r[i - 1] = w[i]
        BY <1>4, <4>1
      <4> QED BY <4>1, <4>2
    <3> QED BY <3>1, <3>2
  <2> QED BY <2>1, <2>2
<1> QED BY <1>1, <1>2, <1>3, <1>4, <1>6, <1>7, <1>8 DEF Turned

\* Every node of a loop is one the same loop can be walked from.
LEMMA OnSame ==
  ASSUME NEW n \in 0..MaxNodes, NEW step, NEW back, Linked(step, back, n),
         NEW a \in 1..n, NEW b \in On(step, a)
  PROVE  /\ b \in 1..n
         /\ Len(Lists!Walk(step, b)) = Len(Lists!Walk(step, a))
         /\ On(step, b) = On(step, a)
<1>0. PICK w, m : IsLoop(w, m, n, step, a)
  BY LoopIs
<1>1. w = Lists!Walk(step, a) /\ m = Len(w)
  BY <1>0 DEF IsLoop
<1>2. /\ m \in Nat /\ m >= 1
      /\ w[1] = a
      /\ \A i \in 1..(m - 1) : w[i + 1] = step[w[i]]
      /\ \A i \in 1..m : w[i] \in 1..n
      /\ On(step, a) = {w[i] : i \in 1..m}
  BY <1>0 DEF IsLoop
<1> DEFINE Same(x) == Len(Lists!Walk(step, x)) = m /\ On(step, x) = On(step, a)
           T == {i \in 1..m : ~Same(w[i])}
<1>3. T = {}
  <2>1. SUFFICES ASSUME T # {} PROVE FALSE
    OBVIOUS
  <2>2. PICK i \in T : \A j \in T : i <= j
    <3>1. T \in SUBSET Nat
      OBVIOUS
    <3> HIDE DEF T
    <3> QED BY <2>1, <3>1, Smallest
  <2>3. i # 1
    BY <1>1, <1>2, <2>2
  <2>4. i - 1 \in 1..(m - 1) /\ i - 1 \in 1..m /\ (i - 1) + 1 = i /\ ~(i <= i - 1)
    BY <1>2, <2>2, <2>3
  <2>5. Same(w[i - 1])
    <3>1. i - 1 \notin T
      <4> HIDE DEF T
      <4> QED BY <2>2, <2>4
    <3> QED BY <2>4, <3>1
  <2>6. w[i] = step[w[i - 1]] /\ w[i - 1] \in 1..n
    BY <1>2, <2>4
  <2>7. /\ Len(Lists!Walk(step, w[i])) = Len(Lists!Walk(step, w[i - 1]))
        /\ On(step, w[i]) = On(step, w[i - 1])
    <3>1. PICK b1 \in 1..n : b1 = w[i - 1]
      BY <2>6
    <3>2. /\ Len(Lists!Walk(step, step[b1])) = Len(Lists!Walk(step, b1))
          /\ On(step, step[b1]) = On(step, b1)
      BY WalkNext
    <3> QED BY <2>6, <3>1, <3>2
  <2>8. Same(w[i])
    BY <2>5, <2>7
  <2> QED BY <2>2, <2>8
<1>4. PICK i \in 1..m : b = w[i]
  BY <1>2
<1> QED BY <1>1, <1>2, <1>3, <1>4

\* A loop begins where it is walked from, and no step leaves it.
LEMMA OnStays ==
  ASSUME NEW n \in 0..MaxNodes, NEW step, NEW back, Linked(step, back, n), NEW a \in 1..n
  PROVE  /\ a \in On(step, a) /\ On(step, a) \subseteq 1..n
         /\ \A b \in 1..n : /\ step[b] \in On(step, a) <=> b \in On(step, a)
                            /\ back[b] \in On(step, a) <=> b \in On(step, a)
<1>1. \A b \in 1..n : b \in On(step, b)
  <2> SUFFICES ASSUME NEW b \in 1..n PROVE b \in On(step, b)
    OBVIOUS
  <2>1. PICK w, m : IsLoop(w, m, n, step, b)
    BY LoopIs
  <2>2. m \in Nat /\ m >= 1 /\ w[1] = b /\ On(step, b) = {w[i] : i \in 1..m}
    BY <2>1 DEF IsLoop
  <2>3. 1 \in 1..m
    BY <2>2
  <2> QED BY <2>2, <2>3
<1>2. \A b \in 1..n : step[b] \in 1..n /\ back[b] \in 1..n /\ step[back[b]] = b
  BY DEF Linked
<1>3. \A b \in On(step, a) : b \in 1..n /\ On(step, b) = On(step, a)
  BY OnSame
<1>4. \A b \in 1..n : On(step, step[b]) = On(step, b)
  BY WalkNext
<1>5. \A b \in 1..n : step[b] \in On(step, a) <=> b \in On(step, a)
  BY <1>1, <1>2, <1>3, <1>4
<1> QED BY <1>1, <1>2, <1>3, <1>5

\* Links that change elsewhere leave a loop as it is.
LEMMA WalkKeeps ==
  ASSUME NEW n \in 0..MaxNodes, NEW step, NEW back, Linked(step, back, n), NEW a \in 1..n,
         NEW new, \A b \in On(step, a) : new[b] = step[b]
  PROVE  Lists!Walk(new, a) = Lists!Walk(step, a) /\ On(new, a) = On(step, a)
<1>0. PICK w, m : IsLoop(w, m, n, step, a)
  BY LoopIs
<1>1. w = Lists!Walk(step, a) /\ m = Len(w)
  BY <1>0 DEF IsLoop
<1>2. Goes(w, step, a) /\ On(step, a) = {w[i] : i \in 1..m} /\ m \in Nat /\ m >= 1
  BY <1>0 DEF IsLoop, Goes
<1>3. \A i \in 1..m : new[w[i]] = step[w[i]]
  BY <1>2
<1>4. Goes(w, new, a)
  <2>1. m \in 1..m /\ \A i \in 1..(m - 1) : i \in 1..m
    BY <1>2
  <2> QED BY <1>1, <1>2, <1>3, <2>1 DEF Goes
<1>5. Lists!Walk(new, a) = w
  BY <1>4, WalkOnly
<1> QED BY <1>1, <1>5 DEF On

-----------------------------------------------------------------------------
(* The views over the nodes *)

\* A ring used through one view: what it shows are the values pushed last.
Shows(step, value, view, l) ==
  LET w == Lists!Walk(step, view.first)
      k == Len(l)
      m == Len(w)
  IN  /\ view.size = m /\ view.writes = Lists!AtMost(k, m)
      /\ view.cursor = IF k < m THEN w[k + 1] ELSE w[1]
      /\ \A i \in 1..m : value[w[i]] = IF k >= m THEN l[(k - m) + i]
                                      ELSE IF i <= k THEN l[i] ELSE Zero

ListRecords(n) == [cursor : 1..n, first : 1..n, writes : Nat, size : Nat]

ListTypes ==
  /\ stored \in Seq(ListValues \cup {Zero}) /\ Len(stored) \in 0..MaxNodes
  /\ Linked(next, prev, Len(stored))
  /\ rings \in Seq(ListRecords(Len(stored))) /\ stale \subseteq 1..Len(rings)
  /\ DOMAIN listLog \subseteq 1..Len(rings)
  /\ \A v \in DOMAIN listLog : listLog[v] \in Seq(ListValues)
  /\ listLog = [v \in DOMAIN listLog |-> listLog[v]]

\* A view that is not stale counts its list.
Counted(step, view) == view.size = Len(Lists!Walk(step, view.cursor))
ViewsOK == \A v \in 1..Len(rings) : /\ rings[v].writes <= rings[v].size
                                    /\ v \notin stale => Counted(next, rings[v])

\* A logged view shares its list with no other.
Alone(v) == \A u \in 1..Len(rings) : rings[u].cursor \in On(next, rings[v].cursor) => u = v
LogsOK == \A v \in DOMAIN listLog : /\ v \notin stale /\ Alone(v)
                                    /\ Shows(next, stored, rings[v], listLog[v])

ListOK == ListTypes /\ ViewsOK /\ LogsOK

LEMMA ListBegins == Lists!Init => ListOK
<1> SUFFICES ASSUME Lists!Init PROVE ListOK
  OBVIOUS
<1> USE DEF Lists!Init
<1>1. MaxNodes \in Nat
  BY ListAssumption DEF Lists!ListAssumption
<1>2. Len(stored) = 0 /\ Len(rings) = 0 /\ 1..0 = {}
  OBVIOUS
<1>3. Linked(next, prev, 0)
  <2>1. << >> \in [1..0 -> 1..0]
    OBVIOUS
  <2> QED BY <1>2, <2>1 DEF Linked
<1>4. stored \in Seq(ListValues \cup {Zero}) /\ rings \in Seq(ListRecords(Len(stored)))
  OBVIOUS
<1>5. DOMAIN listLog = {} /\ listLog = [v \in DOMAIN listLog |-> listLog[v]]
  OBVIOUS
<1>6. ListTypes
  BY <1>1, <1>2, <1>3, <1>4, <1>5 DEF ListTypes
<1> QED BY <1>2, <1>5, <1>6 DEF ListOK, ViewsOK, LogsOK

\* A view is a record of two nodes and two numbers.
LEMMA ViewOf ==
  ASSUME ListTypes, NEW v \in 1..Len(rings)
  PROVE  /\ rings[v] \in ListRecords(Len(stored))
         /\ rings[v].cursor \in 1..Len(stored) /\ rings[v].first \in 1..Len(stored)
         /\ rings[v].writes \in Nat /\ rings[v].size \in Nat
         /\ Len(stored) \in 0..MaxNodes /\ MaxNodes \in Nat
<1>1. rings[v] \in ListRecords(Len(stored))
  BY DEF ListTypes
<1>2. Len(stored) \in 0..MaxNodes /\ MaxNodes \in Nat
  BY ListAssumption DEF ListTypes, Lists!ListAssumption
<1> QED BY <1>1, <1>2 DEF ListRecords

\* The cursor of a logged view is on the loop of its first node.
LEMMA ShownOn ==
  ASSUME NEW n \in 0..MaxNodes, NEW step, NEW back, Linked(step, back, n),
         NEW value, NEW view, view.first \in 1..n, NEW S, NEW l \in Seq(S),
         Shows(step, value, view, l)
  PROVE  /\ view.cursor \in On(step, view.first)
         /\ On(step, view.cursor) = On(step, view.first)
         /\ Len(Lists!Walk(step, view.cursor)) = view.size
<1>1. PICK w, m : IsLoop(w, m, n, step, view.first)
  BY LoopIs
<1>2. PICK k \in Nat : k = Len(l)
  OBVIOUS
<1>3. view.cursor \in {w[i] : i \in 1..m} /\ view.size = m /\ m = Len(Lists!Walk(step, view.first))
  <2>1. /\ view.cursor = IF k < m THEN w[k + 1] ELSE w[1]
        /\ view.size = m /\ m \in Nat /\ m >= 1 /\ m = Len(Lists!Walk(step, view.first))
    BY <1>1, <1>2 DEF IsLoop, Shows
  <2>2. 1 \in 1..m /\ (k < m => k + 1 \in 1..m)
    BY <2>1
  <2> QED BY <2>1, <2>2
<1>4. view.cursor \in On(step, view.first)
  BY <1>1, <1>3 DEF IsLoop
<1> QED BY <1>3, <1>4, OnSame

\* What changes elsewhere leaves what a logged view shows.
LEMMA ShownKeeps ==
  ASSUME NEW n \in 0..MaxNodes, NEW step, NEW back, Linked(step, back, n),
         NEW value, NEW view, view.first \in 1..n, NEW S, NEW l \in Seq(S),
         Shows(step, value, view, l), NEW new, NEW newValue,
         \A b \in On(step, view.cursor) : new[b] = step[b] /\ newValue[b] = value[b]
  PROVE  Shows(new, newValue, view, l)
<1>1. On(step, view.cursor) = On(step, view.first)
  BY ShownOn
<1>2. Lists!Walk(new, view.first) = Lists!Walk(step, view.first)
  BY <1>1, WalkKeeps
<1>3. PICK w, m : IsLoop(w, m, n, step, view.first)
  BY LoopIs
<1>4. w = Lists!Walk(step, view.first) /\ m = Len(w) /\ \A i \in 1..m : w[i] \in On(step, view.first)
  BY <1>3 DEF IsLoop
<1>5. \A i \in 1..m : newValue[w[i]] = value[w[i]]
  BY <1>1, <1>4
<1> QED BY <1>2, <1>4, <1>5 DEF Shows

\* A push overwrites the oldest value once the ring is full.
LEMMA ShownPushed ==
  ASSUME NEW n \in 0..MaxNodes, NEW step, NEW back, Linked(step, back, n),
         NEW value, DOMAIN value = 1..n, NEW view \in ListRecords(n),
         NEW S, NEW l \in Seq(S), NEW x \in S, Shows(step, value, view, l)
  PROVE  Shows(step, [value EXCEPT ![view.cursor] = x],
               IF view.writes < view.size
               THEN [view EXCEPT !.cursor = step[view.cursor], !.writes = @ + 1]
               ELSE [view EXCEPT !.cursor = step[view.cursor], !.first = step[view.cursor]],
               Append(l, x))
<1>1. view.first \in 1..n /\ view.cursor \in 1..n /\ view.writes \in Nat /\ view.size \in Nat
  BY DEF ListRecords
<1>2. PICK w, m : IsLoop(w, m, n, step, view.first)
  BY <1>1, LoopIs
<1>3. /\ w = Lists!Walk(step, view.first) /\ m = Len(w) /\ m \in Nat /\ m >= 1 /\ w[1] = view.first
      /\ step[w[m]] = view.first
      /\ \A i \in 1..(m - 1) : w[i + 1] = step[w[i]] /\ w[i + 1] # view.first
      /\ \A i \in 1..m : w[i] \in 1..n
  BY <1>2 DEF IsLoop
<1>4. \A i, j \in 1..m : w[i] = w[j] => i = j
  BY <1>2, LoopApart
<1>5. PICK k \in Nat : k = Len(l)
  OBVIOUS
<1>6. /\ view.size = m /\ view.writes = Lists!AtMost(k, m)
      /\ view.cursor = IF k < m THEN w[k + 1] ELSE w[1]
      /\ \A i \in 1..m : value[w[i]] = IF k >= m THEN l[(k - m) + i]
                                      ELSE IF i <= k THEN l[i] ELSE Zero
  BY <1>3, <1>5 DEF Shows
<1>0. m \in Nat /\ m >= 1 /\ k \in Nat
  BY <1>3
<1>7. PICK grown : grown = Append(l, x)
  OBVIOUS
<1>8. grown \in Seq(S) /\ Len(grown) = k + 1 /\ grown[k + 1] = x /\ \A i \in 1..k : grown[i] = l[i]
  BY <1>5, <1>7
<1>9. PICK put : put = [value EXCEPT ![view.cursor] = x]
  OBVIOUS
<1>10. put[view.cursor] = x /\ \A b \in 1..n : b # view.cursor => put[b] = value[b]
  BY <1>1, <1>9
<1>11. CASE k < m
  <2>1. PICK new : new = [view EXCEPT !.cursor = step[view.cursor], !.writes = @ + 1]
    OBVIOUS
  <2>2. /\ new.first = view.first /\ new.size = m /\ new.writes = view.writes + 1
        /\ new.cursor = step[view.cursor]
    BY <1>6, <2>1 DEF ListRecords
  <2>3. view.writes = k /\ view.writes < view.size
    BY <1>3, <1>6, <1>11 DEF Lists!AtMost
  <2>4. k + 1 \in 1..m
    BY <1>3, <1>11
  <2>5. new.writes = Lists!AtMost(k + 1, m)
    BY <1>3, <1>11, <2>2, <2>3 DEF Lists!AtMost
  <2>6. new.cursor = IF k + 1 < m THEN w[(k + 1) + 1] ELSE w[1]
    <3>1. new.cursor = step[w[k + 1]]
      BY <1>6, <1>11, <2>2
    <3>2. CASE k + 1 < m
      <4>1. k + 1 \in 1..(m - 1)
        BY <1>3, <3>2
      <4> QED BY <1>3, <3>1, <3>2, <4>1
    <3>3. CASE ~(k + 1 < m)
      <4>1. k + 1 = m
        BY <1>3, <1>11, <3>3
      <4> QED BY <1>3, <3>1, <3>3, <4>1
    <3> QED BY <3>2, <3>3
  <2>7. ASSUME NEW i \in 1..m
        PROVE  put[w[i]] = IF k + 1 >= m THEN grown[((k + 1) - m) + i]
                           ELSE IF i <= k + 1 THEN grown[i] ELSE Zero
    <3>1. put[w[i]] = IF i = k + 1 THEN x ELSE value[w[i]]
      <4>1. w[i] = w[k + 1] <=> i = k + 1
        BY <1>4, <2>4
      <4> QED BY <1>3, <1>6, <1>10, <1>11, <4>1
    <3>2. i # k + 1 => value[w[i]] = IF i <= k THEN l[i] ELSE Zero
      <4>1. ~(k >= m)
        BY <1>0, <1>11
      <4> QED BY <1>6, <4>1
    <3>3. i <= k => i \in 1..k
      OBVIOUS
    <3>4. k + 1 >= m => ((k + 1) - m) + i = i /\ i <= k + 1
      BY <1>0, <1>11
    <3> QED BY <1>8, <3>1, <3>2, <3>3, <3>4
  <2>8. Shows(step, put, new, grown)
    BY <1>3, <1>8, <2>2, <2>5, <2>6, <2>7 DEF Shows
  <2> QED BY <1>7, <1>9, <2>1, <2>3, <2>8
<1>12. CASE ~(k < m)
  <2>1. PICK new : new = [view EXCEPT !.cursor = step[view.cursor], !.first = step[view.cursor]]
    OBVIOUS
  <2>2. /\ new.first = step[view.first] /\ new.size = m /\ new.writes = view.writes
        /\ new.cursor = step[view.first] /\ view.cursor = w[1] /\ view.cursor = view.first
    BY <1>3, <1>6, <1>12, <2>1 DEF ListRecords
  <2>3. view.writes = m /\ ~(view.writes < view.size) /\ Lists!AtMost(k + 1, m) = m
    BY <1>3, <1>6, <1>12 DEF Lists!AtMost
  <2>4. Lists!Walk(step, new.first) = Turned(w)
    BY <1>1, <1>3, <2>2, WalkNext
  <2>5. PICK r : r = Turned(w)
    OBVIOUS
  <2>6. Len(r) = m /\ r[m] = w[1] /\ \A i \in 1..(m - 1) : r[i] = w[i + 1]
    <3>1. r = [i \in 1..m |-> IF i < m THEN w[i + 1] ELSE w[1]]
      BY <1>3, <2>5 DEF Turned
    <3> QED BY <1>3, <3>1
  <2>7. new.cursor = r[1]
    <3>1. CASE m = 1
      BY <1>3, <2>2, <2>6, <3>1
    <3>2. CASE m # 1
      <4>1. 1 \in 1..(m - 1)
        BY <1>0, <3>2
      <4> QED BY <1>3, <2>2, <2>6, <4>1
    <3> QED BY <3>1, <3>2
  <2>8. ASSUME NEW i \in 1..m PROVE put[r[i]] = grown[((k + 1) - m) + i]
    <3>1. CASE i = m
      <4>1. ((k + 1) - m) + i = k + 1
        BY <1>3, <3>1
      <4> QED BY <1>8, <1>10, <2>2, <2>6, <3>1, <4>1
    <3>2. CASE i # m
      <4>1. i \in 1..(m - 1) /\ i + 1 \in 1..m /\ i + 1 # 1 /\ 1 \in 1..m
        BY <1>3, <3>2
      <4>2. r[i] = w[i + 1] /\ w[i + 1] # w[1] /\ w[i + 1] \in 1..n
        BY <1>3, <1>4, <2>6, <4>1
      <4>3. put[r[i]] = value[w[i + 1]]
        BY <1>10, <2>2, <4>2
      <4>4. value[w[i + 1]] = l[(k - m) + (i + 1)]
        <5>1. k >= m
          BY <1>0, <1>12
        <5> QED BY <1>6, <4>1, <5>1
      <4>5. (k - m) + (i + 1) = ((k + 1) - m) + i /\ ((k + 1) - m) + i \in 1..k
        BY <1>3, <1>12, <4>1
      <4>6. grown[((k + 1) - m) + i] = l[((k + 1) - m) + i]
        BY <1>8, <4>5
      <4> QED BY <4>3, <4>4, <4>5, <4>6
    <3> QED BY <3>1, <3>2
  <2>9. Shows(step, put, new, grown)
    <3>1. ~(k + 1 < m) /\ k + 1 >= m
      BY <1>3, <1>12
    <3> QED BY <1>8, <2>2, <2>3, <2>4, <2>5, <2>6, <2>7, <2>8, <3>1 DEF Shows
  <2> QED BY <1>7, <1>9, <2>1, <2>3, <2>9
<1> QED BY <1>11, <1>12

-----------------------------------------------------------------------------
(* The calls *)

\* Links that differ for two nodes at most.
ButFor(a, b, new, step, n) == \A c \in 1..n : c # a /\ c # b => new[c] = step[c]

\* link swaps what two nodes are followed by: the lists stay linked both ways.
LEMMA Relinked ==
  ASSUME NEW n, NEW step, NEW back, Linked(step, back, n), NEW node \in 1..n, NEW other \in 1..n,
         NEW new, new = [step EXCEPT ![node] = other, ![back[other]] = step[node]],
         NEW newBack, newBack = [back EXCEPT ![other] = node, ![step[node]] = back[other]]
  PROVE  /\ Linked(new, newBack, n)
         /\ ButFor(node, back[other], new, step, n)
<1>1. PICK after, tail0 \in 1..n : after = step[node] /\ tail0 = back[other]
  BY DEF Linked
<1>2. /\ step \in [1..n -> 1..n] /\ back \in [1..n -> 1..n]
      /\ step[tail0] = other /\ back[after] = node
  BY <1>1 DEF Linked
<1>3. /\ new \in [1..n -> 1..n] /\ new[tail0] = after
      /\ \A b \in 1..n : b # node /\ b # tail0 => new[b] = step[b]
      /\ node # tail0 => new[node] = other
  BY <1>1, <1>2
<1>4. /\ newBack \in [1..n -> 1..n] /\ newBack[after] = tail0
      /\ \A b \in 1..n : b # other /\ b # after => newBack[b] = back[b]
      /\ other # after => newBack[other] = node
  BY <1>1, <1>2
<1>5. node = tail0 <=> other = after
  BY <1>1, <1>2
<1>6. ASSUME NEW b \in 1..n PROVE newBack[new[b]] = b
  <2>1. CASE b = tail0
    BY <1>3, <1>4, <2>1
  <2>2. CASE b = node /\ b # tail0
    BY <1>3, <1>4, <1>5, <2>2
  <2>3. CASE b # node /\ b # tail0
    <3>1. new[b] = step[b] /\ step[b] \in 1..n /\ back[step[b]] = b
      BY <1>3, <2>3 DEF Linked
    <3>2. step[b] # other /\ step[b] # after
      BY <1>1, <1>2, <2>3, <3>1 DEF Linked
    <3> QED BY <1>4, <3>1, <3>2
  <2> QED BY <2>1, <2>2, <2>3
<1>7. ASSUME NEW b \in 1..n PROVE new[newBack[b]] = b
  <2>1. CASE b = after
    BY <1>3, <1>4, <2>1
  <2>2. CASE b = other /\ b # after
    BY <1>3, <1>4, <1>5, <2>2
  <2>3. CASE b # other /\ b # after
    <3>1. newBack[b] = back[b] /\ back[b] \in 1..n /\ step[back[b]] = b
      BY <1>4, <2>3 DEF Linked
    <3>2. back[b] # node /\ back[b] # tail0
      BY <1>1, <1>2, <2>3, <3>1 DEF Linked
    <3> QED BY <1>3, <3>1, <3>2
  <2> QED BY <2>1, <2>2, <2>3
<1>8. Linked(new, newBack, n)
  BY <1>3, <1>4, <1>6, <1>7 DEF Linked
<1> QED BY <1>1, <1>3, <1>8 DEF ButFor

\* Loops that neither node is on stay as they are.
LEMMA Elsewhere ==
  ASSUME NEW n \in 0..MaxNodes, NEW step, NEW back, Linked(step, back, n),
         NEW node \in 1..n, NEW other \in 1..n,
         NEW new, ButFor(node, back[other], new, step, n),
         NEW a \in 1..n, a \notin On(step, node), a \notin On(step, other)
  PROVE  \A b \in On(step, a) : new[b] = step[b]
<1>1. a \in On(step, a) /\ On(step, a) \subseteq 1..n
  BY OnStays
<1>2. node \notin On(step, a)
  <2>1. node \in On(step, a) => On(step, node) = On(step, a)
    BY OnSame
  <2> QED BY <1>1, <2>1
<1>3. back[other] \notin On(step, a)
  <2>1. back[other] \in On(step, a) => other \in On(step, a)
    BY OnStays
  <2>2. other \in On(step, a) => On(step, other) = On(step, a)
    BY OnSame
  <2> QED BY <1>1, <2>1, <2>2
<1> QED BY <1>1, <1>2, <1>3 DEF ButFor

\* Being on one loop goes both ways.
LEMMA OnBoth ==
  ASSUME NEW n \in 0..MaxNodes, NEW step, NEW back, Linked(step, back, n),
         NEW a \in 1..n, NEW b \in 1..n
  PROVE  b \in On(step, a) <=> a \in On(step, b)
<1>1. a \in On(step, a) /\ b \in On(step, b)
  BY OnStays
<1>2. b \in On(step, a) => On(step, b) = On(step, a)
  BY OnSame
<1>3. a \in On(step, b) => On(step, a) = On(step, b)
  BY OnSame
<1> QED BY <1>1, <1>2, <1>3

\* A logged view is as it was after what happens to other lists.
LEMMA LogKeeps ==
  ASSUME ListOK, NEW u \in DOMAIN listLog, rings'[u] = rings[u], listLog'[u] = listLog[u],
         \A b \in On(next, rings[u].cursor) : next'[b] = next[b] /\ stored'[b] = stored[b],
         \A x \in 1..Len(rings') : x # u => rings'[x].cursor \notin On(next, rings[u].cursor)
  PROVE  Shows(next', stored', rings'[u], listLog'[u]) /\ Alone(u)'
<1>1. u \in 1..Len(rings) /\ listLog[u] \in Seq(ListValues)
  BY DEF ListOK, ListTypes
<1>2. PICK n \in 0..MaxNodes : /\ Linked(next, prev, n) /\ n = Len(stored)
                               /\ rings[u].cursor \in 1..n /\ rings[u].first \in 1..n
  BY <1>1, ViewOf DEF ListOK, ListTypes
<1>3. Shows(next, stored, rings[u], listLog[u])
  BY DEF ListOK, LogsOK
<1>4. Shows(next', stored', rings[u], listLog[u])
  BY <1>1, <1>2, <1>3, ShownKeeps
<1>5. On(next', rings[u].cursor) = On(next, rings[u].cursor)
  BY <1>2, WalkKeeps
<1>6. Alone(u)'
  BY <1>5 DEF Alone
<1> QED BY <1>4, <1>6

LEMMA ListPushes ==
  ASSUME ListOK, NEW v \in 1..Len(rings), NEW x \in ListValues, Lists!Push(v, x)
  PROVE  ListOK'
<1>1. PICK n \in 0..MaxNodes : n = Len(stored) /\ Linked(next, prev, n)
  BY DEF ListOK, ListTypes
<1>2. PICK r : r = rings[v]
  OBVIOUS
<1>3. /\ r \in ListRecords(n) /\ r.cursor \in 1..n /\ r.first \in 1..n
      /\ r.writes \in Nat /\ r.size \in Nat /\ n \in Nat
  BY <1>1, <1>2, ViewOf DEF ListOK
<1>4. PICK after \in 1..n : after = next[r.cursor]
  BY <1>1, <1>3 DEF Linked
<1>5. PICK new : new = IF r.writes < r.size
                       THEN [r EXCEPT !.cursor = after, !.writes = @ + 1]
                       ELSE [r EXCEPT !.cursor = after, !.first = after]
  OBVIOUS
<1>6. /\ new \in ListRecords(n) /\ new.cursor = after /\ new.size = r.size
      /\ r.writes <= r.size => new.writes <= new.size
  <2>2. CASE r.writes < r.size
    <3>1. new = [cursor |-> after, first |-> r.first, writes |-> r.writes + 1, size |-> r.size]
      BY <1>3, <1>5, <2>2 DEF ListRecords
    <3>2. r.writes + 1 \in Nat /\ r.writes + 1 <= r.size
      BY <1>3, <2>2
    <3> QED BY <1>3, <3>1, <3>2 DEF ListRecords
  <2>3. CASE ~(r.writes < r.size)
    <3>1. new = [cursor |-> after, first |-> after, writes |-> r.writes, size |-> r.size]
      BY <1>3, <1>5, <2>3 DEF ListRecords
    <3> QED BY <1>3, <3>1 DEF ListRecords
  <2> QED BY <2>2, <2>3
<1>7. /\ stored' = [stored EXCEPT ![r.cursor] = x] /\ rings' = [rings EXCEPT ![v] = new]
      /\ next' = next /\ prev' = prev /\ stale' = stale
      /\ listLog' = IF v \in DOMAIN listLog
                    THEN [listLog EXCEPT ![v] = Append(@, x)] ELSE listLog
  BY <1>2, <1>4, <1>5 DEF Lists!Push
<1>8. /\ rings \in Seq(ListRecords(n)) /\ stored \in Seq(ListValues \cup {Zero})
      /\ DOMAIN stored = 1..n
  BY <1>1 DEF ListOK, ListTypes
<1>9. /\ rings' \in Seq(ListRecords(n)) /\ Len(rings') = Len(rings)
      /\ \A u \in 1..Len(rings) : rings'[u] = IF u = v THEN new ELSE rings[u]
  BY <1>6, <1>7, <1>8, ExceptSeq
<1>10. /\ stored' \in Seq(ListValues \cup {Zero}) /\ Len(stored') = n
       /\ \A b \in 1..n : b # r.cursor => stored'[b] = stored[b]
  BY <1>1, <1>3, <1>7, <1>8, ExceptSeq
<1>11. /\ DOMAIN listLog' = DOMAIN listLog
       /\ \A u \in DOMAIN listLog : listLog'[u] = IF u = v THEN Append(listLog[u], x) ELSE listLog[u]
       /\ listLog' = [u \in DOMAIN listLog' |-> listLog'[u]]
  BY <1>7 DEF ListOK, ListTypes
<1>12. \A u \in DOMAIN listLog : listLog[u] \in Seq(ListValues) /\ u \in 1..Len(rings)
  BY DEF ListOK, ListTypes
<1>13. \A u \in DOMAIN listLog : listLog'[u] \in Seq(ListValues)
  <2> SUFFICES ASSUME NEW u \in DOMAIN listLog PROVE listLog'[u] \in Seq(ListValues)
    OBVIOUS
  <2>1. PICK l \in Seq(ListValues) : l = listLog[u]
    BY <1>12
  <2>2. Append(l, x) \in Seq(ListValues)
    OBVIOUS
  <2> QED BY <1>11, <2>1, <2>2
<1>14. ListTypes'
  BY <1>1, <1>7, <1>9, <1>10, <1>11, <1>12, <1>13 DEF ListOK, ListTypes
<1>15. /\ Len(Lists!Walk(next, after)) = Len(Lists!Walk(next, r.cursor))
       /\ On(next, after) = On(next, r.cursor)
  BY <1>1, <1>3, <1>4, WalkNext
<1>16. ViewsOK'
  <2> SUFFICES ASSUME NEW u \in 1..Len(rings')
               PROVE  /\ rings'[u].writes <= rings'[u].size
                      /\ u \notin stale' => Counted(next', rings'[u])
    BY DEF ViewsOK
  <2>1. /\ u \in 1..Len(rings) /\ rings[u].writes <= rings[u].size
        /\ u \notin stale => Counted(next, rings[u])
    BY <1>9 DEF ListOK, ViewsOK
  <2>2. CASE u = v
    BY <1>2, <1>6, <1>7, <1>9, <1>15, <2>1, <2>2 DEF Counted
  <2>3. CASE u # v
    BY <1>7, <1>9, <2>1, <2>3
  <2> QED BY <2>2, <2>3
<1>17. LogsOK'
  <2> SUFFICES ASSUME NEW u \in DOMAIN listLog'
               PROVE  /\ u \notin stale' /\ Alone(u)'
                      /\ Shows(next', stored', rings'[u], listLog'[u])
    BY DEF LogsOK
  <2>1. /\ u \in DOMAIN listLog /\ u \in 1..Len(rings) /\ u \notin stale /\ Alone(u)
        /\ Shows(next, stored, rings[u], listLog[u])
    BY <1>11, <1>12 DEF ListOK, LogsOK
  <2>2. CASE u = v
    <3>1. Shows(next', stored', rings'[u], listLog'[u])
      <4>1. Shows(next, stored, r, listLog[u]) /\ listLog[u] \in Seq(ListValues)
        BY <1>2, <1>12, <2>1, <2>2
      <4>2. Shows(next, [stored EXCEPT ![r.cursor] = x],
                  IF r.writes < r.size
                  THEN [r EXCEPT !.cursor = next[r.cursor], !.writes = @ + 1]
                  ELSE [r EXCEPT !.cursor = next[r.cursor], !.first = next[r.cursor]],
                  Append(listLog[u], x))
        BY <1>1, <1>3, <1>8, <4>1, ShownPushed
      <4>3. Shows(next, stored', new, Append(listLog[u], x))
        BY <1>4, <1>5, <1>7, <4>2
      <4> QED BY <1>7, <1>9, <1>11, <2>1, <2>2, <4>3
    <3>2. Alone(u)'
      <4>1. On(next', rings'[u].cursor) = On(next, rings[u].cursor)
        BY <1>2, <1>6, <1>7, <1>9, <1>15, <2>1, <2>2
      <4> QED BY <1>9, <2>1, <2>2, <4>1 DEF Alone
    <3> QED BY <1>7, <2>1, <3>1, <3>2
  <2>3. CASE u # v
    <3>1. PICK c \in 1..n : c = rings[u].cursor
      BY <1>1, <2>1, ViewOf DEF ListOK
    <3>2. r.cursor \notin On(next, c)
      BY <1>2, <2>1, <2>3, <3>1 DEF Alone
    <3>3. after \notin On(next, c) /\ On(next, c) \subseteq 1..n
      BY <1>1, <1>3, <1>4, <3>2, OnStays
    <3>4. \A b \in On(next, rings[u].cursor) : next'[b] = next[b] /\ stored'[b] = stored[b]
      BY <1>7, <1>10, <3>1, <3>2, <3>3
    <3>5. \A y \in 1..Len(rings') : y # u => rings'[y].cursor \notin On(next, rings[u].cursor)
      BY <1>6, <1>9, <2>1, <3>1, <3>3 DEF Alone
    <3>6. rings'[u] = rings[u] /\ listLog'[u] = listLog[u]
      BY <1>9, <1>11, <2>1, <2>3
    <3>7. Shows(next', stored', rings'[u], listLog'[u]) /\ Alone(u)'
      BY <2>1, <3>4, <3>5, <3>6, LogKeeps
    <3> QED BY <1>7, <2>1, <3>7
  <2> QED BY <2>2, <2>3
<1> QED BY <1>14, <1>16, <1>17 DEF ListOK

\* Moving the cursor does not leave the list.
LEMMA MovesOn ==
  ASSUME ListOK, NEW v \in 1..Len(rings), NEW step \in (-MaxSelect)..(MaxSelect + MaxCount + 1)
  PROVE  Lists!move(v, step) \in On(next, rings[v].cursor)
<1>1. PICK n \in 0..MaxNodes : n = Len(stored) /\ Linked(next, prev, n)
  BY DEF ListOK, ListTypes
<1>2. PICK c \in 1..n : c = rings[v].cursor
  BY <1>1, ViewOf DEF ListOK
<1>3. MaxSelect \in Nat /\ MaxCount \in Nat
  BY ListAssumption DEF Lists!ListAssumption
<1>4. PICK top \in Nat : top = MaxSelect + MaxCount + 1
  BY <1>3
<1>5. PICK link : link = IF step < 0 THEN prev ELSE next
  OBVIOUS
<1>6. Steppable(IF step < 0 THEN prev ELSE next, rings[v].cursor, MaxSelect + MaxCount + 1)
  BY <1>4, Stepping
<1> DEFINE there == CHOOSE f : f = [i \in 0..(MaxSelect + MaxCount + 1) |->
                      IF i = 0 THEN rings[v].cursor ELSE (IF step < 0 THEN prev ELSE next)[f[i - 1]]]
<1>7. there = [i \in 0..(MaxSelect + MaxCount + 1) |->
                 IF i = 0 THEN rings[v].cursor ELSE (IF step < 0 THEN prev ELSE next)[there[i - 1]]]
  BY <1>6, Zenon DEF Steppable
<1>8. Lists!move(v, step) = there[IF step < 0 THEN -step ELSE step]
  BY Zenon DEF Lists!move
<1> HIDE DEF there
<1>9. there[0] = c /\ \A i \in 1..top : there[i] = link[there[i - 1]]
  BY <1>2, <1>4, <1>5, <1>7
<1> DEFINE T == {i \in 0..top : there[i] \notin On(next, c)}
<1>10. T = {}
  <2>1. SUFFICES ASSUME T # {} PROVE FALSE
    OBVIOUS
  <2>2. PICK i \in T : \A j \in T : i <= j
    <3>1. T \in SUBSET Nat
      OBVIOUS
    <3> HIDE DEF T
    <3> QED BY <2>1, <3>1, Smallest
  <2>3. c \in On(next, c) /\ On(next, c) \subseteq 1..n
    BY <1>1, OnStays
  <2>4. i # 0
    BY <1>9, <2>2, <2>3
  <2>5. i \in 1..top /\ i - 1 \in 0..top /\ ~(i <= i - 1)
    BY <1>4, <2>2, <2>4
  <2>6. there[i - 1] \in On(next, c)
    <3>1. i - 1 \notin T
      <4> HIDE DEF T
      <4> QED BY <2>2, <2>5
    <3> QED BY <2>5, <3>1
  <2>7. PICK b \in 1..n : b = there[i - 1]
    BY <2>3, <2>6
  <2>8. next[b] \in On(next, c) /\ prev[b] \in On(next, c)
    BY <1>1, <2>6, <2>7, OnStays
  <2>9. there[i] \in On(next, c)
    BY <1>5, <1>9, <2>5, <2>7, <2>8
  <2> QED BY <2>2, <2>9
<1>11. (IF step < 0 THEN -step ELSE step) \in 0..top
  BY <1>3, <1>4
<1> QED BY <1>2, <1>8, <1>10, <1>11

LEMMA ListSelects ==
  ASSUME ListOK, NEW v \in 1..Len(rings), NEW step \in (-MaxSelect)..MaxSelect,
         Lists!Select(v, step)
  PROVE  ListOK'
<1>1. PICK n \in 0..MaxNodes : n = Len(stored) /\ Linked(next, prev, n)
  BY DEF ListOK, ListTypes
<1>2. PICK r : r = rings[v]
  OBVIOUS
<1>3. /\ r \in ListRecords(n) /\ r.cursor \in 1..n /\ r.first \in 1..n
      /\ r.writes \in Nat /\ r.size \in Nat
  BY <1>1, <1>2, ViewOf DEF ListOK
<1>4. PICK there : there = Lists!move(v, step)
  OBVIOUS
<1>5. there \in On(next, r.cursor) /\ there \in 1..n
  <2>1. step \in (-MaxSelect)..(MaxSelect + MaxCount + 1)
    BY ListAssumption DEF Lists!ListAssumption
  <2>2. there \in On(next, r.cursor)
    BY <1>2, <1>4, <2>1, MovesOn
  <2>3. On(next, r.cursor) \subseteq 1..n
    BY <1>1, <1>3, OnStays
  <2> QED BY <2>2, <2>3
<1>6. PICK new : new = [r EXCEPT !.cursor = there]
  OBVIOUS
<1>7. new \in ListRecords(n) /\ new.cursor = there /\ new.size = r.size /\ new.writes = r.writes
  BY <1>3, <1>5, <1>6 DEF ListRecords
<1>8. PICK m \in Nat : m = Len(rings)
  BY DEF ListOK, ListTypes
<1>9. /\ rings' = Append(rings, new) /\ stale' = IF v \in stale THEN stale \cup {m + 1} ELSE stale
      /\ next' = next /\ prev' = prev /\ stored' = stored
      /\ listLog' = [u \in DOMAIN listLog \ {v} |-> listLog[u]]
  BY <1>2, <1>4, <1>6, <1>8 DEF Lists!Select, Lists!New, Lists!Unlogged
<1>10. rings \in Seq(ListRecords(n))
  BY <1>1 DEF ListOK, ListTypes
<1>11. /\ rings' \in Seq(ListRecords(n)) /\ Len(rings') = m + 1 /\ rings'[m + 1] = new
       /\ \A u \in 1..m : rings'[u] = rings[u]
  BY <1>7, <1>8, <1>9, <1>10, AppendProperties
<1>12. /\ DOMAIN listLog' = DOMAIN listLog \ {v} /\ \A u \in DOMAIN listLog' : listLog'[u] = listLog[u]
       /\ listLog' = [u \in DOMAIN listLog' |-> listLog'[u]]
  BY <1>9
<1>13. ListTypes'
  <2>1. \A u \in DOMAIN listLog : listLog[u] \in Seq(ListValues) /\ u \in 1..m
    BY <1>8 DEF ListOK, ListTypes
  <2>2. stale \subseteq 1..m /\ stale' \subseteq 1..(m + 1) /\ 1..m \subseteq 1..(m + 1)
    <3>1. stale \subseteq 1..m
      BY <1>8 DEF ListOK, ListTypes
    <3>2. 1..m \subseteq 1..(m + 1) /\ m + 1 \in 1..(m + 1)
      BY <1>8
    <3> QED BY <1>9, <3>1, <3>2
  <2>3. DOMAIN listLog' \subseteq 1..Len(rings')
    BY <1>11, <1>12, <2>1, <2>2
  <2>4. \A u \in DOMAIN listLog' : listLog'[u] \in Seq(ListValues)
    BY <1>12, <2>1
  <2> QED BY <1>1, <1>9, <1>11, <1>12, <2>2, <2>3, <2>4 DEF ListOK, ListTypes
<1>14. ViewsOK'
  <2> SUFFICES ASSUME NEW u \in 1..Len(rings')
               PROVE  /\ rings'[u].writes <= rings'[u].size
                      /\ u \notin stale' => Counted(next', rings'[u])
    BY DEF ViewsOK
  <2>1. \A y \in 1..m : /\ rings[y].writes <= rings[y].size
                        /\ y \notin stale => Counted(next, rings[y])
    BY <1>8 DEF ListOK, ViewsOK
  <2>2. CASE u = m + 1
    <3>1. Len(Lists!Walk(next, there)) = Len(Lists!Walk(next, r.cursor))
      BY <1>1, <1>3, <1>5, OnSame
    <3>2. u \notin stale' => v \notin stale
      BY <1>9, <2>2
    <3> QED BY <1>2, <1>7, <1>8, <1>9, <1>11, <2>1, <2>2, <3>1, <3>2 DEF Counted
  <2>3. CASE u # m + 1
    <3>1. u \in 1..m /\ (u \notin stale' => u \notin stale)
      BY <1>8, <1>9, <1>11, <2>3
    <3> QED BY <1>9, <1>11, <2>1, <3>1
  <2> QED BY <2>2, <2>3
<1>15. LogsOK'
  <2> SUFFICES ASSUME NEW u \in DOMAIN listLog'
               PROVE  /\ u \notin stale' /\ Alone(u)'
                      /\ Shows(next', stored', rings'[u], listLog'[u])
    BY DEF LogsOK
  <2>1. /\ u \in DOMAIN listLog /\ u \in 1..m /\ u \notin stale /\ Alone(u) /\ u # v
        /\ listLog'[u] = listLog[u] /\ rings'[u] = rings[u]
    BY <1>8, <1>11, <1>12 DEF ListOK, ListTypes, LogsOK
  <2>2. PICK c \in 1..n : c = rings[u].cursor
    BY <1>1, <1>8, <2>1, ViewOf DEF ListOK
  <2>3. r.cursor \notin On(next, c)
    BY <1>2, <2>1, <2>2 DEF Alone
  <2>4. there \notin On(next, c)
    <3>1. there \in On(next, c) => On(next, there) = On(next, c)
      BY <1>1, OnSame
    <3>2. On(next, there) = On(next, r.cursor) /\ r.cursor \in On(next, r.cursor)
      BY <1>1, <1>3, <1>5, OnSame, OnStays
    <3> QED BY <2>3, <3>1, <3>2
  <2>5. \A y \in 1..Len(rings') : y # u => rings'[y].cursor \notin On(next, rings[u].cursor)
    <3> SUFFICES ASSUME NEW y \in 1..Len(rings'), y # u
                 PROVE  rings'[y].cursor \notin On(next, rings[u].cursor)
      OBVIOUS
    <3>1. y = m + 1 \/ y \in 1..m
      BY <1>8, <1>11
    <3> QED BY <1>7, <1>8, <1>11, <2>1, <2>2, <2>4, <3>1 DEF Alone
  <2>6. Shows(next', stored', rings'[u], listLog'[u]) /\ Alone(u)'
    BY <1>9, <2>1, <2>5, LogKeeps
  <2>7. u \notin stale'
    BY <1>8, <1>9, <2>1
  <2> QED BY <2>6, <2>7
<1> QED BY <1>13, <1>14, <1>15 DEF ListOK

\* link, called on the cursor of a view: lists that neither node is on stay.
LEMMA Relinking ==
  ASSUME ListOK, NEW v \in 1..Len(rings), NEW other \in 1..Len(stored),
         Lists!link(rings[v].cursor, other)
  PROVE  /\ Linked(next', prev', Len(stored))
         /\ \A u \in 1..Len(rings) :
              /\ rings[u].cursor \notin On(next, rings[v].cursor)
              /\ rings[u].cursor \notin On(next, other)
              => /\ \A b \in On(next, rings[u].cursor) : next'[b] = next[b]
                 /\ Len(Lists!Walk(next', rings[u].cursor)) = Len(Lists!Walk(next, rings[u].cursor))
<1>1. PICK n \in 0..MaxNodes : n = Len(stored) /\ Linked(next, prev, n)
  BY DEF ListOK, ListTypes
<1>2. PICK node \in 1..n : node = rings[v].cursor /\ other \in 1..n
  BY <1>1, ViewOf DEF ListOK
<1>3. /\ next' = [next EXCEPT ![node] = other, ![prev[other]] = next[node]]
      /\ prev' = [prev EXCEPT ![other] = node, ![next[node]] = prev[other]]
  BY <1>2 DEF Lists!link
<1>4. Linked(next', prev', n) /\ ButFor(node, prev[other], next', next, n)
  <2>1. PICK new, newBack : new = next' /\ newBack = prev'
    OBVIOUS
  <2>2. Linked(new, newBack, n) /\ ButFor(node, prev[other], new, next, n)
    BY <1>1, <1>2, <1>3, <2>1, Relinked
  <2> QED BY <2>1, <2>2
<1>5. ASSUME NEW u \in 1..Len(rings), rings[u].cursor \notin On(next, node),
             rings[u].cursor \notin On(next, other)
      PROVE  /\ \A b \in On(next, rings[u].cursor) : next'[b] = next[b]
             /\ Len(Lists!Walk(next', rings[u].cursor)) = Len(Lists!Walk(next, rings[u].cursor))
  <2>1. PICK c \in 1..n : c = rings[u].cursor
    BY <1>1, ViewOf DEF ListOK
  <2>2. \A b \in On(next, c) : next'[b] = next[b]
    <3>1. c \notin On(next, node) /\ c \notin On(next, other) /\ other \in 1..n
      BY <1>2, <1>5, <2>1
    <3> QED BY <1>1, <1>4, <3>1, Elsewhere
  <2>3. Lists!Walk(next', c) = Lists!Walk(next, c)
    BY <1>1, <2>2, WalkKeeps
  <2> QED BY <2>1, <2>2, <2>3
<1> QED BY <1>1, <1>2, <1>4, <1>5

\* The views that share the list of one.
LEMMA SharingIs ==
  ASSUME NEW v \in 1..Len(rings), rings \in Seq(ListRecords(Len(stored)))
  PROVE  Lists!Sharing(v) = {u \in 1..Len(rings) : rings[u].cursor \in On(next, rings[v].cursor)}
<1>1. DOMAIN rings = 1..Len(rings)
  OBVIOUS
<1> QED BY <1>1, Zenon DEF Lists!Sharing, Lists!Made, Lists!List, On

LEMMA ListMerges ==
  ASSUME ListOK, NEW v \in 1..Len(rings), NEW w \in 1..Len(rings), Lists!Merge(v, w)
  PROVE  ListOK'
<1>1. PICK n \in 0..MaxNodes : n = Len(stored) /\ Linked(next, prev, n)
  BY DEF ListOK, ListTypes
<1>2. PICK r, other : r = rings[v] /\ other = rings[w].cursor
  OBVIOUS
<1>3. /\ r \in ListRecords(n) /\ r.cursor \in 1..n /\ r.first \in 1..n
      /\ r.writes \in Nat /\ r.size \in Nat
  BY <1>1, <1>2, ViewOf DEF ListOK
<1>4. other \in 1..n /\ rings[w].writes \in Nat
  BY <1>1, <1>2, ViewOf DEF ListOK
<1>5. /\ Lists!link(r.cursor, other) /\ stored' = stored
      /\ stale' = (stale \cup Lists!Sharing(v) \cup Lists!Sharing(w)) \ {v}
      /\ listLog' = [u \in DOMAIN listLog \ {v, w} |-> listLog[u]]
  BY <1>2 DEF Lists!Merge, Lists!Unlogged
<1>6. PICK size : size = Len(Lists!Walk(next', r.cursor))
  OBVIOUS
<1>7. PICK total : total = r.writes + rings[w].writes
  OBVIOUS
<1>8. rings' = [rings EXCEPT ![v].size = size, ![v].writes = Lists!AtMost(total, size)]
  BY <1>2, <1>6, <1>7 DEF Lists!Merge, Lists!measure
<1>9. /\ Linked(next', prev', n)
      /\ \A u \in 1..Len(rings) :
           /\ rings[u].cursor \notin On(next, r.cursor)
           /\ rings[u].cursor \notin On(next, other)
           => /\ \A b \in On(next, rings[u].cursor) : next'[b] = next[b]
              /\ Len(Lists!Walk(next', rings[u].cursor)) = Len(Lists!Walk(next, rings[u].cursor))
  BY <1>1, <1>2, <1>4, <1>5, Relinking
<1>10. size \in Nat /\ total \in Nat /\ Lists!AtMost(total, size) \in Nat
       /\ Lists!AtMost(total, size) <= size
  <2>1. \E x, m : IsLoop(x, m, n, next', r.cursor)
    BY <1>3, <1>9, LoopIs
  <2>2. size \in Nat
    BY <1>6, <2>1 DEF IsLoop
  <2>3. total \in Nat
    BY <1>3, <1>4, <1>7
  <2> QED BY <2>2, <2>3 DEF Lists!AtMost
<1>11. PICK new : new = [r EXCEPT !.size = size, !.writes = Lists!AtMost(total, size)]
  OBVIOUS
<1>12. /\ new \in ListRecords(n) /\ new.cursor = r.cursor /\ new.size = size
       /\ new.writes = Lists!AtMost(total, size)
  BY <1>3, <1>10, <1>11 DEF ListRecords
<1>13. rings \in Seq(ListRecords(n))
  BY <1>1 DEF ListOK, ListTypes
<1>14. rings' = [rings EXCEPT ![v] = new]
  BY <1>2, <1>8, <1>11, <1>13
<1>15. /\ rings' \in Seq(ListRecords(n)) /\ Len(rings') = Len(rings)
       /\ \A u \in 1..Len(rings) : rings'[u] = IF u = v THEN new ELSE rings[u]
  BY <1>12, <1>13, <1>14, ExceptSeq
<1>16. /\ DOMAIN listLog' = DOMAIN listLog \ {v, w}
       /\ \A u \in DOMAIN listLog' : listLog'[u] = listLog[u]
       /\ listLog' = [u \in DOMAIN listLog' |-> listLog'[u]]
  BY <1>5
<1>17. /\ Lists!Sharing(v) = {u \in 1..Len(rings) : rings[u].cursor \in On(next, r.cursor)}
       /\ Lists!Sharing(w) = {u \in 1..Len(rings) : rings[u].cursor \in On(next, other)}
  BY <1>1, <1>2, <1>13, SharingIs
<1>18. ListTypes'
  <2>1. \A u \in DOMAIN listLog : listLog[u] \in Seq(ListValues) /\ u \in 1..Len(rings)
    BY DEF ListOK, ListTypes
  <2>2. stale' \subseteq 1..Len(rings)
    BY <1>5, <1>17 DEF ListOK, ListTypes
  <2>3. \A u \in DOMAIN listLog' : listLog'[u] \in Seq(ListValues)
    BY <1>16, <2>1
  <2>4. DOMAIN listLog' \subseteq 1..Len(rings')
    BY <1>15, <1>16, <2>1
  <2> QED BY <1>1, <1>5, <1>9, <1>15, <1>16, <2>2, <2>3, <2>4 DEF ListOK, ListTypes
<1>19. ViewsOK'
  <2> SUFFICES ASSUME NEW u \in 1..Len(rings')
               PROVE  /\ rings'[u].writes <= rings'[u].size
                      /\ u \notin stale' => Counted(next', rings'[u])
    BY DEF ViewsOK
  <2>1. CASE u = v
    BY <1>6, <1>10, <1>12, <1>15, <2>1 DEF Counted
  <2>2. CASE u # v
    <3>1. /\ u \in 1..Len(rings) /\ rings'[u] = rings[u] /\ rings[u].writes <= rings[u].size
          /\ u \notin stale => Counted(next, rings[u])
      BY <1>15, <2>2 DEF ListOK, ViewsOK
    <3>2. u \notin stale' => /\ u \notin stale /\ rings[u].cursor \notin On(next, r.cursor)
                            /\ rings[u].cursor \notin On(next, other)
      BY <1>5, <1>17, <2>2, <3>1
    <3> QED BY <1>9, <3>1, <3>2 DEF Counted
  <2> QED BY <2>1, <2>2
<1>20. LogsOK'
  <2> SUFFICES ASSUME NEW u \in DOMAIN listLog'
               PROVE  /\ u \notin stale' /\ Alone(u)'
                      /\ Shows(next', stored', rings'[u], listLog'[u])
    BY DEF LogsOK
  <2>1. /\ u \in DOMAIN listLog /\ u \in 1..Len(rings) /\ u \notin stale /\ Alone(u)
        /\ u # v /\ u # w
        /\ listLog'[u] = listLog[u] /\ rings'[u] = rings[u]
    BY <1>15, <1>16 DEF ListOK, ListTypes, LogsOK
  <2>2. PICK c \in 1..n : c = rings[u].cursor
    BY <1>1, <2>1, ViewOf DEF ListOK
  <2>3. r.cursor \notin On(next, c) /\ other \notin On(next, c)
    BY <1>2, <2>1, <2>2 DEF Alone
  <2>4. c \notin On(next, r.cursor) /\ c \notin On(next, other)
    BY <1>1, <1>3, <1>4, <2>3, OnBoth
  <2>5. \A b \in On(next, rings[u].cursor) : next'[b] = next[b] /\ stored'[b] = stored[b]
    BY <1>5, <1>9, <2>1, <2>2, <2>4
  <2>6. \A y \in 1..Len(rings') : y # u => rings'[y].cursor \notin On(next, rings[u].cursor)
    BY <1>2, <1>12, <1>15, <2>1 DEF Alone
  <2>7. Shows(next', stored', rings'[u], listLog'[u]) /\ Alone(u)'
    BY <2>1, <2>5, <2>6, LogKeeps
  <2>8. u \notin stale'
    BY <1>5, <1>17, <2>1, <2>2, <2>4
  <2> QED BY <2>7, <2>8
<1> QED BY <1>18, <1>19, <1>20 DEF ListOK

LEMMA ListSlices ==
  ASSUME ListOK, NEW v \in 1..Len(rings), NEW count \in 1..MaxCount, Lists!Slice(v, count)
  PROVE  ListOK'
<1>1. PICK n \in 0..MaxNodes : n = Len(stored) /\ Linked(next, prev, n)
  BY DEF ListOK, ListTypes
<1>2. PICK r, other, removed : /\ r = rings[v] /\ other = Lists!move(v, count + 1)
                              /\ removed = next[r.cursor]
  OBVIOUS
<1>3. /\ r \in ListRecords(n) /\ r.cursor \in 1..n /\ r.first \in 1..n
      /\ r.writes \in Nat /\ r.size \in Nat
  BY <1>1, <1>2, ViewOf DEF ListOK
<1>4. /\ other \in 1..n /\ On(next, other) = On(next, r.cursor)
      /\ removed \in 1..n /\ removed \in On(next, r.cursor)
  <2>1. count + 1 \in (-MaxSelect)..(MaxSelect + MaxCount + 1)
    BY ListAssumption DEF Lists!ListAssumption
  <2>2. other \in On(next, r.cursor)
    BY <1>2, <2>1, MovesOn
  <2>3. removed \in 1..n
    BY <1>1, <1>2, <1>3 DEF Linked
  <2> QED BY <1>1, <1>2, <1>3, <2>2, <2>3, OnSame, OnStays
<1>5. /\ Lists!link(r.cursor, other) /\ stored' = stored
      /\ stale' = (stale \cup Lists!Sharing(v)) \ {v}
      /\ listLog' = [u \in DOMAIN listLog \ {v} |-> listLog[u]]
  BY <1>2 DEF Lists!Slice, Lists!Cut, Lists!Unlogged
<1>6. PICK size, sliced : /\ size = Len(Lists!Walk(next', r.cursor))
                         /\ sliced = Len(Lists!Walk(next', removed))
  OBVIOUS
<1>7. PICK cut : cut = [cursor |-> removed, first |-> removed,
                        writes |-> Lists!AtMost(count, sliced), size |-> sliced]
  OBVIOUS
<1>8. rings' = Append([rings EXCEPT ![v].size = size, ![v].writes = Lists!AtMost(@, size)], cut)
  BY <1>2, <1>6, <1>7 DEF Lists!Slice, Lists!measure
<1>9. /\ Linked(next', prev', n)
      /\ \A u \in 1..Len(rings) :
           /\ rings[u].cursor \notin On(next, r.cursor)
           /\ rings[u].cursor \notin On(next, other)
           => /\ \A b \in On(next, rings[u].cursor) : next'[b] = next[b]
              /\ Len(Lists!Walk(next', rings[u].cursor)) = Len(Lists!Walk(next, rings[u].cursor))
  BY <1>1, <1>2, <1>4, <1>5, Relinking
<1>10. /\ size \in Nat /\ Lists!AtMost(r.writes, size) \in Nat /\ Lists!AtMost(r.writes, size) <= size
       /\ sliced \in Nat /\ Lists!AtMost(count, sliced) \in Nat /\ Lists!AtMost(count, sliced) <= sliced
  <2>1. \A a \in 1..n : \E x, m : IsLoop(x, m, n, next', a)
    BY <1>9, LoopIs
  <2>2. size \in Nat /\ sliced \in Nat
    BY <1>3, <1>4, <1>6, <2>1 DEF IsLoop
  <2>3. count \in Nat
    OBVIOUS
  <2> QED BY <1>3, <2>2, <2>3 DEF Lists!AtMost
<1>11. PICK new : new = [r EXCEPT !.size = size, !.writes = Lists!AtMost(@, size)]
  OBVIOUS
<1>12. /\ new \in ListRecords(n) /\ new.cursor = r.cursor /\ new.size = size
       /\ new.writes = Lists!AtMost(r.writes, size)
  BY <1>3, <1>10, <1>11 DEF ListRecords
<1>13. /\ cut \in ListRecords(n) /\ cut.cursor = removed /\ cut.size = sliced
       /\ cut.writes = Lists!AtMost(count, sliced)
  BY <1>4, <1>7, <1>10 DEF ListRecords
<1>14. rings \in Seq(ListRecords(n))
  BY <1>1 DEF ListOK, ListTypes
<1>15. rings' = Append([rings EXCEPT ![v] = new], cut)
  BY <1>2, <1>8, <1>11, <1>14
<1>16. PICK m \in Nat : m = Len(rings)
  BY <1>14
<1>17. /\ rings' \in Seq(ListRecords(n)) /\ Len(rings') = m + 1 /\ rings'[m + 1] = cut
       /\ \A u \in 1..m : rings'[u] = IF u = v THEN new ELSE rings[u]
  <2>1. PICK mid : mid = [rings EXCEPT ![v] = new]
    OBVIOUS
  <2>2. /\ mid \in Seq(ListRecords(n)) /\ Len(mid) = m
        /\ \A u \in 1..m : mid[u] = IF u = v THEN new ELSE rings[u]
    BY <1>12, <1>14, <1>16, <2>1, ExceptSeq
  <2>3. /\ Append(mid, cut) \in Seq(ListRecords(n)) /\ Len(Append(mid, cut)) = m + 1
        /\ Append(mid, cut)[m + 1] = cut /\ \A u \in 1..m : Append(mid, cut)[u] = mid[u]
    BY <1>13, <2>2, AppendProperties
  <2> QED BY <1>15, <2>1, <2>2, <2>3
<1>18. /\ DOMAIN listLog' = DOMAIN listLog \ {v}
       /\ \A u \in DOMAIN listLog' : listLog'[u] = listLog[u]
       /\ listLog' = [u \in DOMAIN listLog' |-> listLog'[u]]
  BY <1>5
<1>19. Lists!Sharing(v) = {u \in 1..m : rings[u].cursor \in On(next, r.cursor)}
  BY <1>1, <1>2, <1>14, <1>16, SharingIs
<1>20. v \in 1..m /\ m + 1 \notin 1..m /\ stale \subseteq 1..m
       /\ \A u \in 1..(m + 1) : u = m + 1 \/ u \in 1..m
  BY <1>16 DEF ListOK, ListTypes
<1>21. ListTypes'
  <2>1. \A u \in DOMAIN listLog : listLog[u] \in Seq(ListValues) /\ u \in 1..m
    BY <1>16 DEF ListOK, ListTypes
  <2>2. 1..m \subseteq 1..Len(rings')
    BY <1>17
  <2>3. stale' \subseteq 1..Len(rings')
    BY <1>5, <1>19, <1>20, <2>2
  <2>4. \A u \in DOMAIN listLog' : listLog'[u] \in Seq(ListValues)
    BY <1>18, <2>1
  <2>5. DOMAIN listLog' \subseteq 1..Len(rings')
    BY <1>18, <2>1, <2>2
  <2> QED BY <1>1, <1>5, <1>9, <1>17, <1>18, <2>3, <2>4, <2>5 DEF ListOK, ListTypes
<1>22. ViewsOK'
  <2> SUFFICES ASSUME NEW u \in 1..Len(rings')
               PROVE  /\ rings'[u].writes <= rings'[u].size
                      /\ u \notin stale' => Counted(next', rings'[u])
    BY DEF ViewsOK
  <2>1. CASE u = v
    BY <1>6, <1>10, <1>12, <1>17, <1>20, <2>1 DEF Counted
  <2>2. CASE u = m + 1
    BY <1>6, <1>10, <1>13, <1>17, <2>2 DEF Counted
  <2>3. CASE u # v /\ u # m + 1
    <3>1. /\ u \in 1..m /\ rings'[u] = rings[u] /\ rings[u].writes <= rings[u].size
          /\ u \notin stale => Counted(next, rings[u])
      BY <1>16, <1>17, <1>20, <2>3 DEF ListOK, ViewsOK
    <3>2. u \notin stale' => u \notin stale /\ rings[u].cursor \notin On(next, r.cursor)
      BY <1>5, <1>19, <2>3, <3>1
    <3> QED BY <1>4, <1>9, <1>16, <3>1, <3>2 DEF Counted
  <2> QED BY <2>1, <2>2, <2>3
<1>23. LogsOK'
  <2> SUFFICES ASSUME NEW u \in DOMAIN listLog'
               PROVE  /\ u \notin stale' /\ Alone(u)'
                      /\ Shows(next', stored', rings'[u], listLog'[u])
    BY DEF LogsOK
  <2>1. /\ u \in DOMAIN listLog /\ u \in 1..m /\ u \notin stale /\ Alone(u) /\ u # v
        /\ listLog'[u] = listLog[u] /\ rings'[u] = rings[u]
    BY <1>16, <1>17, <1>18 DEF ListOK, ListTypes, LogsOK
  <2>2. PICK c \in 1..n : c = rings[u].cursor
    BY <1>1, <1>16, <2>1, ViewOf DEF ListOK
  <2>3. r.cursor \notin On(next, c)
    BY <1>2, <1>16, <2>1, <2>2 DEF Alone
  <2>4. c \notin On(next, r.cursor) /\ removed \notin On(next, c)
    BY <1>1, <1>2, <1>3, <2>3, OnBoth, OnStays
  <2>5. \A b \in On(next, rings[u].cursor) : next'[b] = next[b] /\ stored'[b] = stored[b]
    BY <1>4, <1>5, <1>9, <1>16, <2>1, <2>2, <2>4
  <2>6. \A y \in 1..Len(rings') : y # u => rings'[y].cursor \notin On(next, rings[u].cursor)
    <3> SUFFICES ASSUME NEW y \in 1..Len(rings'), y # u
                 PROVE  rings'[y].cursor \notin On(next, rings[u].cursor)
      OBVIOUS
    <3>1. y = m + 1 \/ y \in 1..m
      BY <1>17, <1>20
    <3>2. y \in 1..m => rings'[y].cursor = rings[y].cursor
      BY <1>2, <1>12, <1>17
    <3> QED BY <1>13, <1>16, <1>17, <2>1, <2>2, <2>4, <3>1, <3>2 DEF Alone
  <2>7. Shows(next', stored', rings'[u], listLog'[u]) /\ Alone(u)'
    BY <2>1, <2>5, <2>6, LogKeeps
  <2>8. u \notin stale'
    BY <1>5, <1>19, <2>1, <2>2, <2>4
  <2> QED BY <2>7, <2>8
<1> QED BY <1>21, <1>22, <1>23 DEF ListOK

LEMMA FunctionIsSeq ==
  ASSUME NEW S, NEW n \in Nat, NEW f \in [1..n -> S]
  PROVE  f \in Seq(S) /\ Len(f) = n
OBVIOUS

\* What two sequences joined are.
Concatenates(joined, s, n, t, m, S) ==
  /\ joined \in [1..(n + m) -> S]
  /\ \A i \in 1..n : joined[i] = s[i]
  /\ \A i \in 1..m : joined[n + i] = t[i]

LEMMA ConcatIs ==
  ASSUME NEW S, NEW n \in Nat, NEW m \in Nat, NEW s \in [1..n -> S], NEW t \in [1..m -> S]
  PROVE  Concatenates(s \o t, s, n, t, m, S)
<1>1. s \in Seq(S) /\ Len(s) = n /\ t \in Seq(S) /\ Len(t) = m
  BY FunctionIsSeq
<1>2. PICK r : r = s \o t
  OBVIOUS
<1>3. /\ r \in Seq(S) /\ Len(r) = n + m
      /\ \A i \in 1..(n + m) : r[i] = IF i <= n THEN s[i] ELSE t[i - n]
  BY <1>1, <1>2, ConcatProperties
<1>4. r \in [1..(n + m) -> S]
  BY <1>3, LenProperties
<1>5. \A i \in 1..n : i \in 1..(n + m) /\ i <= n
  OBVIOUS
<1>6. \A i \in 1..m : n + i \in 1..(n + m) /\ ~(n + i <= n) /\ (n + i) - n = i
  OBVIOUS
<1>7. \A i \in 1..n : r[i] = s[i]
  BY <1>3, <1>5
<1>8. \A i \in 1..m : r[n + i] = t[i]
  BY <1>3, <1>6
<1> QED BY <1>2, <1>4, <1>7, <1>8 DEF Concatenates

\* What the nodes of a new list are followed and preceded by.
Ahead(n, size) == [i \in 1..size |-> IF i = size THEN n + 1 ELSE n + 1 + i]
Behind(n, size) == [i \in 1..size |-> IF i = 1 THEN n + size ELSE n + 1 + i - 2]
Numbers(n, size) == [i \in 1..size |-> n + i]

LEMMA NewLinks ==
  ASSUME NEW n \in Nat, NEW size \in Nat \ {0}
  PROVE  Ahead(n, size) \in [1..size -> 1..(n + size)] /\ Behind(n, size) \in [1..size -> 1..(n + size)]
<1>1. \A i \in 1..size : i # size => n + 1 + i \in 1..(n + size)
  OBVIOUS
<1>2. \A i \in 1..size : i # 1 => n + 1 + i - 2 \in 1..(n + size)
  OBVIOUS
<1>3. n + 1 \in 1..(n + size) /\ n + size \in 1..(n + size)
  OBVIOUS
<1> QED BY <1>1, <1>2, <1>3 DEF Ahead, Behind

\* The nodes of a new list, counted from the nodes there were.
LEMMA Numbered ==
  ASSUME NEW n \in Nat, NEW size \in Nat \ {0}, NEW i \in 1..size
  PROVE  /\ n + i \in 1..(n + size) /\ n + i \notin 1..n
         /\ n + 1 + i = n + (i + 1) /\ n + 1 + i - 2 = n + (i - 1)
         /\ 1 \in 1..size /\ size \in 1..size
         /\ i # size => i + 1 \in 1..size /\ i + 1 # 1 /\ (i + 1) - 1 = i
         /\ i # 1 => i - 1 \in 1..size /\ i - 1 # size /\ (i - 1) + 1 = i
OBVIOUS

LEMMA Numbering ==
  ASSUME NEW n \in Nat, NEW size \in Nat \ {0}, NEW b \in 1..(n + size), b \notin 1..n
  PROVE  \E i \in 1..size : b = n + i
<1>1. b - n \in 1..size /\ b = n + (b - n)
  OBVIOUS
<1> QED BY <1>1

\* A list of its own behind the nodes there are.
Grown(new, newBack, step, back, n, size) ==
  /\ n \in Nat /\ n \in 0..MaxNodes /\ size \in Nat \ {0} /\ n + size <= MaxNodes
  /\ Linked(step, back, n)
  /\ new \in [1..(n + size) -> 1..(n + size)] /\ newBack \in [1..(n + size) -> 1..(n + size)]
  /\ \A i \in 1..n : new[i] = step[i] /\ newBack[i] = back[i]
  /\ \A i \in 1..size : new[n + i] = Ahead(n, size)[i] /\ newBack[n + i] = Behind(n, size)[i]

LEMMA NewSteps ==
  ASSUME NEW n, NEW size, NEW step, NEW back, NEW new, NEW newBack,
         Grown(new, newBack, step, back, n, size), NEW i \in 1..size
  PROVE  /\ new[n + i] = IF i = size THEN n + 1 ELSE n + (i + 1)
         /\ newBack[n + i] = IF i = 1 THEN n + size ELSE n + (i - 1)
<1>1. n \in Nat /\ size \in Nat \ {0}
  BY DEF Grown
<1>2. n + 1 + i = n + (i + 1) /\ n + 1 + i - 2 = n + (i - 1)
  BY <1>1, Numbered
<1>3. new[n + i] = Ahead(n, size)[i] /\ newBack[n + i] = Behind(n, size)[i]
  BY Zenon DEF Grown
<1>4. /\ Ahead(n, size)[i] = IF i = size THEN n + 1 ELSE n + 1 + i
      /\ Behind(n, size)[i] = IF i = 1 THEN n + size ELSE n + 1 + i - 2
  BY Zenon DEF Ahead, Behind
<1> QED BY <1>2, <1>3, <1>4, Zenon

LEMMA NewNodes ==
  ASSUME NEW n, NEW size, NEW step, NEW back, NEW new, NEW newBack,
         Grown(new, newBack, step, back, n, size)
  PROVE  /\ Linked(new, newBack, n + size)
         /\ Lists!Walk(new, n + 1) = Numbers(n, size)
<1>1. n \in Nat /\ size \in Nat \ {0} /\ n + size <= MaxNodes /\ MaxNodes \in Nat
  BY ListAssumption DEF Grown, Lists!ListAssumption
<1>2. \A b \in 1..n : b \in 1..(n + size)
  BY <1>1
<1>3. \A i \in 1..size : /\ new[n + i] = IF i = size THEN n + 1 ELSE n + (i + 1)
                         /\ newBack[n + i] = IF i = 1 THEN n + size ELSE n + (i - 1)
  BY NewSteps
<1>4. Linked(new, newBack, n + size)
  <2>1. ASSUME NEW b \in 1..(n + size) PROVE newBack[new[b]] = b /\ new[newBack[b]] = b
    <3>1. CASE b \in 1..n
      <4>1. step[b] \in 1..n /\ back[b] \in 1..n /\ back[step[b]] = b /\ step[back[b]] = b
        BY <3>1, Zenon DEF Grown, Linked
      <4>2. new[b] = step[b] /\ newBack[b] = back[b]
        BY <3>1, Zenon DEF Grown
      <4>3. newBack[step[b]] = back[step[b]] /\ new[back[b]] = step[back[b]]
        BY <4>1, Zenon DEF Grown
      <4> QED BY <4>1, <4>2, <4>3, Zenon
    <3>2. CASE b \notin 1..n
      <4>1. PICK i \in 1..size : b = n + i
        BY <1>1, <3>2, Numbering
      <4>2. /\ 1 \in 1..size /\ size \in 1..size
            /\ i # size => i + 1 \in 1..size /\ i + 1 # 1 /\ (i + 1) - 1 = i
            /\ i # 1 => i - 1 \in 1..size /\ i - 1 # size /\ (i - 1) + 1 = i
        BY <1>1, Numbered
      <4>3. newBack[new[b]] = b
        <5>1. CASE i = size
          <6>1. new[b] = n + 1
            BY <4>1, <5>1, <1>3, Zenon
          <6>2. newBack[n + 1] = n + size
            BY <4>2, <1>3, Zenon
          <6> QED BY <4>1, <5>1, <6>1, <6>2
        <5>2. CASE i # size
          <6>1. new[b] = n + (i + 1)
            BY <4>1, <5>2, <1>3, Zenon
          <6>2. newBack[n + (i + 1)] = n + ((i + 1) - 1)
            BY <4>2, <5>2, <1>3, Zenon
          <6> QED BY <4>1, <4>2, <5>2, <6>1, <6>2, Zenon
        <5> QED BY <5>1, <5>2
      <4>4. new[newBack[b]] = b
        <5>1. CASE i = 1
          <6>1. newBack[b] = n + size
            BY <4>1, <5>1, <1>3, Zenon
          <6>2. new[n + size] = n + 1
            BY <4>2, <1>3, Zenon
          <6> QED BY <4>1, <5>1, <6>1, <6>2
        <5>2. CASE i # 1
          <6>1. newBack[b] = n + (i - 1)
            BY <4>1, <5>2, <1>3, Zenon
          <6>2. new[n + (i - 1)] = n + ((i - 1) + 1)
            BY <4>2, <5>2, <1>3, Zenon
          <6> QED BY <4>1, <4>2, <5>2, <6>1, <6>2, Zenon
        <5> QED BY <5>1, <5>2
      <4> QED BY <4>3, <4>4
    <3> QED BY <3>1, <3>2
  <2> QED BY <2>1, Zenon DEF Linked, Grown
<1>5. PICK w : w = [i \in 1..size |-> n + i]
  OBVIOUS
<1>6. Goes(w, new, n + 1)
  <2>1. w \in Seq(Nat) /\ Len(w) = size
    <3>1. \A i \in 1..size : n + i \in Nat
      BY <1>1
    <3>2. w \in [1..size -> Nat]
      BY <1>5, <3>1, Zenon
    <3> QED BY <1>1, <3>2, FunctionIsSeq
  <2>2. size \in 1..MaxNodes /\ 1 \in 1..size /\ size \in 1..size
    BY <1>1
  <2>3. ASSUME NEW i \in 1..(size - 1) PROVE w[i + 1] = new[w[i]] /\ w[i + 1] # n + 1
    <3>1. i \in 1..size /\ i + 1 \in 1..size /\ i # size /\ n + (i + 1) # n + 1
      BY <1>1
    <3>2. w[i + 1] = n + (i + 1) /\ w[i] = n + i
      BY <1>5, <3>1, Zenon
    <3>3. new[n + i] = n + (i + 1)
      BY <3>1, <1>3, Zenon
    <3> QED BY <3>1, <3>2, <3>3, Zenon
  <2>4. w[1] = n + 1 /\ new[w[size]] = n + 1
    <3>1. w[1] = n + 1 /\ w[size] = n + size
      BY <1>5, <2>2, Zenon
    <3>2. new[n + size] = n + 1
      BY <2>2, <1>3, Zenon
    <3> QED BY <3>1, <3>2, Zenon
  <2> QED BY <2>1, <2>2, <2>3, <2>4, Zenon DEF Goes
<1> QED BY <1>4, <1>5, <1>6, WalkOnly, Zenon DEF Numbers

LEMMA ListMakes ==
  ASSUME ListOK, NEW size \in 1..MaxNodes, Lists!NewListRing(size)
  PROVE  ListOK'
<1>1. PICK n \in 0..MaxNodes : n = Len(stored) /\ Linked(next, prev, n)
  BY DEF ListOK, ListTypes
<1>2. PICK m \in Nat : m = Len(rings)
  BY DEF ListOK, ListTypes
<1>3. PICK t : t = n + size
  OBVIOUS
<1>4. MaxNodes \in Nat /\ n \in Nat /\ size \in Nat \ {0} /\ size \in 1..size
  BY ListAssumption DEF Lists!ListAssumption
<1>5. /\ t <= MaxNodes
      /\ next' = next \o Ahead(n, size) /\ prev' = prev \o Behind(n, size)
      /\ stored' = stored \o [i \in 1..size |-> Zero]
      /\ rings' = Append(rings, [cursor |-> n + 1, first |-> n + 1, writes |-> 0, size |-> size])
      /\ listLog' = [u \in DOMAIN listLog \cup {m + 1} |-> IF u = m + 1 THEN << >> ELSE listLog[u]]
      /\ stale' = stale
  BY <1>1, <1>2, <1>3, Zenon DEF Lists!NewListRing, Lists!New, Ahead, Behind
<1>6. t \in 0..MaxNodes /\ 1..n \subseteq 1..t /\ n + 1 \in 1..t /\ n + 1 \notin 1..n
  BY <1>3, <1>4, <1>5
<1>7. Grown(next', prev', next, prev, n, size)
  <2>1. next \in [1..n -> 1..n] /\ prev \in [1..n -> 1..n]
    BY <1>1 DEF Linked
  <2>2. next \in [1..n -> 1..t] /\ prev \in [1..n -> 1..t]
    BY <1>6, <2>1
  <2>3. Ahead(n, size) \in [1..size -> 1..t] /\ Behind(n, size) \in [1..size -> 1..t]
    BY <1>3, <1>4, NewLinks
  <2>4. /\ next' \in [1..t -> 1..t] /\ \A i \in 1..n : next'[i] = next[i]
        /\ \A i \in 1..size : next'[n + i] = Ahead(n, size)[i]
    <3>1. PICK s, f : s = next /\ f = Ahead(n, size)
      OBVIOUS
    <3>2. s \in [1..n -> 1..t] /\ f \in [1..size -> 1..t]
      BY <2>2, <2>3, <3>1
    <3>3. Concatenates(s \o f, s, n, f, size, 1..t)
      BY <1>4, <3>2, ConcatIs
    <3> QED BY <1>3, <1>5, <3>1, <3>3 DEF Concatenates
  <2>5. /\ prev' \in [1..t -> 1..t] /\ \A i \in 1..n : prev'[i] = prev[i]
        /\ \A i \in 1..size : prev'[n + i] = Behind(n, size)[i]
    <3>1. PICK s, f : s = prev /\ f = Behind(n, size)
      OBVIOUS
    <3>2. s \in [1..n -> 1..t] /\ f \in [1..size -> 1..t]
      BY <2>2, <2>3, <3>1
    <3>3. Concatenates(s \o f, s, n, f, size, 1..t)
      BY <1>4, <3>2, ConcatIs
    <3> QED BY <1>3, <1>5, <3>1, <3>3 DEF Concatenates
  <2> QED BY <1>1, <1>3, <1>4, <1>5, <2>4, <2>5, Zenon DEF Grown
<1>8. Linked(next', prev', t) /\ Lists!Walk(next', n + 1) = Numbers(n, size)
  <2>1. PICK new, newBack : new = next' /\ newBack = prev'
    OBVIOUS
  <2>2. Grown(new, newBack, next, prev, n, size)
    BY <1>7, <2>1
  <2>3. Linked(new, newBack, n + size) /\ Lists!Walk(new, n + 1) = Numbers(n, size)
    BY <2>2, NewNodes
  <2> QED BY <1>3, <2>1, <2>3, Zenon
<1>9. \A i \in 1..n : next'[i] = next[i]
  BY <1>7 DEF Grown
<1>10. PICK w : w = Lists!Walk(next', n + 1)
  OBVIOUS
<1>11. Len(w) = size /\ \A i \in 1..size : w[i] = n + i
  <2>1. w = [i \in 1..size |-> n + i] /\ size \in Nat
    BY <1>4, <1>8, <1>10 DEF Numbers
  <2> QED BY <2>1
<1>12. /\ stored' \in Seq(ListValues \cup {Zero}) /\ Len(stored') = t
       /\ \A i \in 1..n : stored'[i] = stored[i]
       /\ \A i \in 1..size : stored'[n + i] = Zero
  <2>1. stored \in [1..n -> ListValues \cup {Zero}]
    BY <1>1 DEF ListOK, ListTypes
  <2>2. PICK zeros : zeros = [i \in 1..size |-> Zero]
    OBVIOUS
  <2>3. zeros \in [1..size -> ListValues \cup {Zero}] /\ \A i \in 1..size : zeros[i] = Zero
    BY <2>2
  <2>4. /\ stored' \in [1..t -> ListValues \cup {Zero}]
        /\ \A i \in 1..n : stored'[i] = stored[i]
        /\ \A i \in 1..size : stored'[n + i] = zeros[i]
    <3>1. PICK s, S : s = stored /\ S = ListValues \cup {Zero}
      OBVIOUS
    <3>2. s \in [1..n -> S] /\ zeros \in [1..size -> S]
      BY <2>1, <2>3, <3>1
    <3>3. Concatenates(s \o zeros, s, n, zeros, size, S)
      BY <1>4, <3>2, ConcatIs
    <3> QED BY <1>3, <1>5, <2>2, <3>1, <3>3 DEF Concatenates
  <2>5. t \in Nat
    BY <1>3, <1>4
  <2>6. stored' \in Seq(ListValues \cup {Zero}) /\ Len(stored') = t
    BY <2>4, <2>5
  <2> QED BY <2>3, <2>4, <2>6
<1>13. PICK new : new = [cursor |-> n + 1, first |-> n + 1, writes |-> 0, size |-> size]
  OBVIOUS
<1>14. /\ new \in ListRecords(t) /\ new.cursor = n + 1 /\ new.first = n + 1
       /\ new.writes = 0 /\ new.size = size
  BY <1>4, <1>6, <1>13 DEF ListRecords
<1>15. rings \in Seq(ListRecords(t))
  <2>1. rings \in Seq(ListRecords(n))
    BY <1>1 DEF ListOK, ListTypes
  <2>2. ListRecords(n) \subseteq ListRecords(t)
    BY <1>6 DEF ListRecords
  <2> QED BY <2>1, <2>2
<1>16. /\ rings' \in Seq(ListRecords(t)) /\ Len(rings') = m + 1 /\ rings'[m + 1] = new
       /\ \A u \in 1..m : rings'[u] = rings[u]
  BY <1>2, <1>5, <1>13, <1>14, <1>15, AppendProperties
<1>17. /\ DOMAIN listLog' = DOMAIN listLog \cup {m + 1} /\ listLog'[m + 1] = << >>
       /\ \A u \in DOMAIN listLog : u # m + 1 => listLog'[u] = listLog[u]
       /\ listLog' = [u \in DOMAIN listLog' |-> listLog'[u]]
  BY <1>5, Zenon
<1>18. /\ \A u \in DOMAIN listLog : listLog[u] \in Seq(ListValues) /\ u \in 1..m
       /\ stale \subseteq 1..m
  BY <1>2 DEF ListOK, ListTypes
<1>19. 1..m \subseteq 1..(m + 1) /\ m + 1 \in 1..(m + 1) /\ m + 1 \notin 1..m
  BY <1>2
<1>20. ListTypes'
  <2>1. DOMAIN listLog' \subseteq 1..Len(rings') /\ stale' \subseteq 1..Len(rings')
    BY <1>5, <1>16, <1>17, <1>18, <1>19
  <2>2. \A u \in DOMAIN listLog' : listLog'[u] \in Seq(ListValues)
    <3>1. << >> \in Seq(ListValues)
      OBVIOUS
    <3> QED BY <1>17, <1>18, <3>1
  <2> QED BY <1>6, <1>8, <1>12, <1>16, <1>17, <2>1, <2>2 DEF ListTypes
\* The lists there were are where they were.
<1>21. \A u \in 1..m : /\ rings[u].cursor \in 1..n
                       /\ Lists!Walk(next', rings[u].cursor) = Lists!Walk(next, rings[u].cursor)
                       /\ On(next', rings[u].cursor) = On(next, rings[u].cursor)
                       /\ On(next, rings[u].cursor) \subseteq 1..n
  <2> SUFFICES ASSUME NEW u \in 1..m
               PROVE  /\ rings[u].cursor \in 1..n
                      /\ Lists!Walk(next', rings[u].cursor) = Lists!Walk(next, rings[u].cursor)
                      /\ On(next', rings[u].cursor) = On(next, rings[u].cursor)
                      /\ On(next, rings[u].cursor) \subseteq 1..n
    OBVIOUS
  <2>1. PICK c \in 1..n : c = rings[u].cursor
    BY <1>1, <1>2, ViewOf DEF ListOK
  <2>2. On(next, c) \subseteq 1..n
    BY <1>1, OnStays
  <2>3. \A b \in On(next, c) : next'[b] = next[b]
    BY <1>9, <2>2
  <2>4. Lists!Walk(next', c) = Lists!Walk(next, c) /\ On(next', c) = On(next, c)
    BY <1>1, <2>3, WalkKeeps
  <2> QED BY <2>1, <2>2, <2>4
<1>22. ViewsOK'
  <2> SUFFICES ASSUME NEW u \in 1..Len(rings')
               PROVE  /\ rings'[u].writes <= rings'[u].size
                      /\ u \notin stale' => Counted(next', rings'[u])
    BY DEF ViewsOK
  <2>1. CASE u = m + 1
    BY <1>4, <1>10, <1>11, <1>14, <1>16, <2>1 DEF Counted
  <2>2. CASE u # m + 1
    <3>1. u \in 1..m
      BY <1>2, <1>16, <2>2
    <3>2. rings[u].writes <= rings[u].size /\ (u \notin stale => Counted(next, rings[u]))
      BY <1>2, <3>1 DEF ListOK, ViewsOK
    <3> QED BY <1>5, <1>16, <1>21, <3>1, <3>2 DEF Counted
  <2> QED BY <2>1, <2>2
<1>23. LogsOK'
  <2> SUFFICES ASSUME NEW u \in DOMAIN listLog'
               PROVE  /\ u \notin stale' /\ Alone(u)'
                      /\ Shows(next', stored', rings'[u], listLog'[u])
    BY DEF LogsOK
  <2>1. CASE u = m + 1
    <3>1. Shows(next', stored', new, << >>)
      <4>1. Len(<< >>) = 0 /\ 0 < size /\ ~(0 >= size) /\ 0 + 1 = 1 /\ 1 \in 1..size /\ ~(0 > size)
        BY <1>4
      <4>2. w[0 + 1] = n + 1
        BY <1>11, <4>1
      <4>3. \A i \in 1..size : ~(i <= 0)
        BY <1>4
      <4>4. \A i \in 1..size : stored'[w[i]] = Zero
        BY <1>11, <1>12
      <4> QED BY <1>10, <1>11, <1>14, <4>1, <4>2, <4>3, <4>4, Zenon DEF Shows, Lists!AtMost
    <3>2. On(next', n + 1) = {w[i] : i \in 1..size}
      BY <1>4, <1>8, <1>10, <1>11 DEF On, Lists!Range
    <3>3. \A b \in On(next', n + 1) : b \notin 1..n
      BY <1>4, <1>11, <3>2
    <3>4. Alone(u)'
      <4> SUFFICES ASSUME NEW y \in 1..Len(rings'), rings'[y].cursor \in On(next', rings'[u].cursor)
                   PROVE  y = u
        BY DEF Alone
      <4>1. rings'[y].cursor \notin 1..n
        BY <1>14, <1>16, <2>1, <3>3
      <4>2. y \in 1..m => rings'[y].cursor \in 1..n
        BY <1>16, <1>21
      <4>3. y \in 1..m \/ y = m + 1
        BY <1>2, <1>16
      <4> QED BY <2>1, <4>1, <4>2, <4>3
    <3>5. u \notin stale'
      BY <1>5, <1>18, <1>19, <2>1
    <3> QED BY <1>16, <1>17, <2>1, <3>1, <3>4, <3>5
  <2>2. CASE u # m + 1
    <3>1. /\ u \in DOMAIN listLog /\ u \in 1..m /\ u \notin stale /\ Alone(u)
          /\ rings'[u] = rings[u] /\ listLog'[u] = listLog[u]
      BY <1>16, <1>17, <1>18, <2>2 DEF ListOK, LogsOK
    <3>2. \A b \in On(next, rings[u].cursor) : next'[b] = next[b] /\ stored'[b] = stored[b]
      BY <1>9, <1>12, <1>21, <3>1
    <3>3. \A y \in 1..Len(rings') : y # u => rings'[y].cursor \notin On(next, rings[u].cursor)
      <4> SUFFICES ASSUME NEW y \in 1..Len(rings'), y # u
                   PROVE  rings'[y].cursor \notin On(next, rings[u].cursor)
        OBVIOUS
      <4>1. y \in 1..m \/ y = m + 1
        BY <1>2, <1>16
      <4>2. y = m + 1 => rings'[y].cursor \notin 1..n
        BY <1>6, <1>14, <1>16
      <4>3. y \in 1..m => rings'[y].cursor = rings[y].cursor /\ y \in 1..Len(rings)
        BY <1>2, <1>16
      <4> QED BY <1>21, <3>1, <4>1, <4>2, <4>3 DEF Alone
    <3>4. Shows(next', stored', rings'[u], listLog'[u]) /\ Alone(u)'
      BY <3>1, <3>2, <3>3, LogKeeps
    <3> QED BY <1>5, <3>1, <3>4
  <2> QED BY <2>1, <2>2
<1> QED BY <1>20, <1>22, <1>23 DEF ListOK

\* The values of the list from its first node: the last that were pushed, and
\* zeros where none was.
Shown(step, value, view, l) ==
  LET w == Lists!Walk(step, view.first)
      kept == Lists!LastOf(l, view.size)
  IN  [i \in DOMAIN w |-> value[w[i]]] = kept \o [i \in 1..(view.size - Len(kept)) |-> Zero]

LEMMA ShownLast ==
  ASSUME NEW n \in 0..MaxNodes, NEW step, NEW back, Linked(step, back, n),
         NEW value, NEW view, view.first \in 1..n, NEW S, NEW l \in Seq(S),
         Shows(step, value, view, l)
  PROVE  Shown(step, value, view, l)
<1>1. PICK w, m : IsLoop(w, m, n, step, view.first)
  BY LoopIs
<1>2. w = Lists!Walk(step, view.first) /\ m = Len(w) /\ m \in Nat /\ DOMAIN w = 1..m
  BY <1>1 DEF IsLoop
<1>3. PICK k \in Nat : k = Len(l)
  OBVIOUS
<1>4. view.size = m /\ \A i \in 1..m : value[w[i]] = IF k >= m THEN l[(k - m) + i]
                                                     ELSE IF i <= k THEN l[i] ELSE Zero
  BY <1>2, <1>3 DEF Shows
<1>5. PICK kept : kept = Lists!LastOf(l, m)
  OBVIOUS
<1>6. PICK p \in Nat : /\ kept \in Seq(S) /\ Len(kept) = p /\ p <= m
                       /\ k >= m => p = m /\ \A i \in 1..p : kept[i] = l[(k - m) + i]
                       /\ k < m => p = k /\ \A i \in 1..p : kept[i] = l[i]
  <2>1. CASE k <= m
    <3>1. kept = l
      BY <1>3, <1>5, <2>1 DEF Lists!LastOf
    <3>2. k >= m => k = m /\ \A i \in 1..k : (k - m) + i = i
      BY <1>2, <2>1
    <3> QED BY <1>3, <2>1, <3>1, <3>2
  <2>2. CASE ~(k <= m)
    <3>1. kept = SubSeq(l, k - m + 1, k)
      BY <1>3, <1>5, <2>2 DEF Lists!LastOf
    <3>2. PICK d \in 0..k : d = k - m
      BY <1>2, <2>2
    <3>3. kept = SubSeq(l, d + 1, k) /\ k - d = m /\ k > m
      BY <1>2, <2>2, <3>1, <3>2
    <3>4. /\ SubSeq(l, d + 1, k) \in Seq(S) /\ Len(SubSeq(l, d + 1, k)) = k - d
          /\ \A i \in 1..(k - d) : SubSeq(l, d + 1, k)[i] = l[d + i]
      BY <1>3, SuffixIs
    <3>5. kept \in Seq(S) /\ Len(kept) = m /\ \A i \in 1..m : kept[i] = l[(k - m) + i]
      BY <3>2, <3>3, <3>4
    <3>6. m <= m /\ ~(k < m) /\ m \in Nat
      BY <1>2, <2>2
    <3> QED BY <3>5, <3>6
  <2> QED BY <2>1, <2>2
<1>7. PICK T : T = S \cup {Zero}
  OBVIOUS
<1>8. PICK zeros : zeros = [i \in 1..(m - p) |-> Zero]
  OBVIOUS
<1>9. m - p \in Nat /\ p + (m - p) = m
  BY <1>2, <1>6
<1>10. /\ kept \in [1..p -> T] /\ zeros \in [1..(m - p) -> T]
       /\ \A i \in 1..(m - p) : zeros[i] = Zero
  <2>1. kept \in [1..p -> S]
    BY <1>6
  <2> QED BY <1>7, <1>8, <2>1
<1>11. PICK joined : joined = kept \o zeros
  OBVIOUS
<1>12. Concatenates(joined, kept, p, zeros, m - p, T)
  BY <1>9, <1>10, <1>11, ConcatIs
<1>13. /\ joined \in [1..m -> T] /\ \A i \in 1..p : joined[i] = kept[i]
       /\ \A i \in 1..(m - p) : joined[p + i] = Zero
  BY <1>9, <1>10, <1>12, Zenon DEF Concatenates
<1>14. ASSUME NEW i \in 1..m PROVE joined[i] = value[w[i]]
  <2>1. CASE i <= p
    <3>1. i \in 1..p
      BY <2>1
    <3>2. joined[i] = kept[i]
      BY <1>13, <3>1
    <3>3. k >= m \/ (k < m /\ i <= k)
      BY <1>2, <1>6, <2>1
    <3> QED BY <1>4, <1>6, <3>1, <3>2, <3>3
  <2>2. CASE ~(i <= p)
    <3>1. i - p \in 1..(m - p) /\ p + (i - p) = i
      BY <1>2, <2>2
    <3>2. joined[i] = Zero
      BY <1>13, <3>1
    <3>3. ~(k >= m) /\ ~(i <= k)
      BY <1>2, <1>6, <2>2
    <3> QED BY <1>4, <3>2, <3>3
  <2> QED BY <2>1, <2>2
<1>15. [i \in 1..m |-> value[w[i]]] = joined
  BY <1>13, <1>14
<1>16. view.size - Len(kept) = m - p
  BY <1>4, <1>6
<1>17. [i \in DOMAIN w |-> value[w[i]]] = kept \o [i \in 1..(view.size - Len(kept)) |-> Zero]
  BY <1>2, <1>8, <1>11, <1>15, <1>16
<1> QED BY <1>2, <1>4, <1>5, <1>17, Zenon DEF Shown

LEMMA ListImplied == ListOK => Lists!ListsWhole
<1> SUFFICES ASSUME ListOK PROVE Lists!ListsWhole
  OBVIOUS
<1>1. PICK n \in 0..MaxNodes : n = Len(stored) /\ Linked(next, prev, n)
  BY DEF ListOK, ListTypes
<1>2. DOMAIN stored = 1..n /\ DOMAIN rings = 1..Len(rings)
  BY <1>1 DEF ListOK, ListTypes
<1>3. \A b \in Lists!Nodes : prev[next[b]] = b /\ next[prev[b]] = b
  BY <1>1, <1>2 DEF Linked, Lists!Nodes
<1>4. \A v \in Lists!Made : /\ rings[v] \in Lists!ListView /\ rings[v].writes <= rings[v].size
                            /\ v \notin stale => rings[v].size = Len(Lists!List(v))
  <2> SUFFICES ASSUME NEW v \in 1..Len(rings)
               PROVE  /\ rings[v] \in Lists!ListView /\ rings[v].writes <= rings[v].size
                      /\ v \notin stale => rings[v].size = Len(Lists!List(v))
    BY <1>2 DEF Lists!Made
  <2>1. rings[v] \in ListRecords(n)
    BY <1>1, ViewOf DEF ListOK
  <2>2. rings[v] \in Lists!ListView
    BY <1>2, <2>1 DEF ListRecords, Lists!ListView, Lists!Nodes
  <2> QED BY <2>2 DEF ListOK, ViewsOK, Counted, Lists!List
<1>5. ASSUME NEW v \in DOMAIN listLog
      PROVE  Shown(next, stored, rings[v], listLog[v])
  <2>1. v \in 1..Len(rings) /\ listLog[v] \in Seq(ListValues) /\ Shows(next, stored, rings[v], listLog[v])
    BY DEF ListOK, ListTypes, LogsOK
  <2>2. rings[v].first \in 1..n
    BY <1>1, <2>1, ViewOf DEF ListOK
  <2>3. PICK view, l, value, step :
          view = rings[v] /\ l = listLog[v] /\ value = stored /\ step = next
    OBVIOUS
  <2>4. Shown(step, value, view, l)
    BY <1>1, <2>1, <2>2, <2>3, ShownLast
  <2> QED BY <2>3, <2>4
<1> QED BY <1>3, <1>4, <1>5, Zenon DEF Lists!ListsWhole, Shown, Lists!Do

LEMMA ListKeeps == ListOK /\ [Lists!Next]_(Lists!listVars) => ListOK'
<1> SUFFICES ASSUME ListOK, [Lists!Next]_(Lists!listVars) PROVE ListOK'
  OBVIOUS
<1>1. CASE UNCHANGED Lists!listVars
  BY <1>1 DEF Lists!listVars, ListOK, ListTypes, ViewsOK, LogsOK, Alone
<1>2. CASE \E size \in 1..MaxNodes : Lists!NewListRing(size)
  BY <1>2, ListMakes
<1>3. CASE \E v \in Lists!Made :
             \/ \E x \in ListValues : Lists!Push(v, x)
             \/ \E step \in -MaxSelect..MaxSelect : Lists!Select(v, step)
             \/ \E count \in 1..MaxCount : Lists!Slice(v, count)
             \/ \E w \in Lists!Made : Lists!Merge(v, w)
  <2>1. Lists!Made = 1..Len(rings)
    BY DEF ListOK, ListTypes, Lists!Made
  <2> QED BY <1>3, <2>1, ListPushes, ListSelects, ListSlices, ListMerges
<1> QED BY <1>1, <1>2, <1>3 DEF Lists!Next

(***************************************************************************)
(* For rings of any number of nodes, any values and any calls: the lists   *)
(* stay circular both ways whatever Merge and Slice relink, a view has no  *)
(* more writes than nodes and counts the nodes of its list unless another  *)
(* view cut or grew it, and a ring used through one view shows the values  *)
(* pushed last, oldest first.                                              *)
(***************************************************************************)
THEOREM ListsStayWhole == RingsSpec => []ListsWhole
<1>1. RingsInit => (part = "lists" => ListOK)
  BY ListBegins DEF RingsInit
<1>2. (part = "lists" => ListOK) /\ [RingsNext]_ringsVars => (part = "lists" => ListOK)'
  <2> SUFFICES ASSUME part = "lists" => ListOK, [RingsNext]_ringsVars, part' = "lists"
               PROVE  ListOK'
    OBVIOUS
  <2>1. part = "lists" /\ ListOK
    BY DEF RingsNext, ringsVars
  <2>2. [Lists!Next]_(Lists!listVars)
    BY <2>1 DEF RingsNext, ringsVars, listVars, Lists!listVars
  <2> QED BY <2>1, <2>2, ListKeeps
<1>3. (part = "lists" => ListOK) => ListsWhole
  BY ListImplied DEF ListsWhole
<1> QED BY <1>1, <1>2, <1>3, PTL DEF RingsSpec
=============================================================================
