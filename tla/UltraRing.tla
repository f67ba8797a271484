----------------------------- MODULE UltraRing ------------------------------
(* structure/ultra.go: one publisher and one consumer that spin.  An event is *)
(* two words of the slot, written and read one after the other; the sequences *)
(* are stored atomically.                                                     *)
EXTENDS Integers, Sequences

CONSTANTS Size,          \* of the buffer, a power of two
          Limit,         \* of ConsumeBatch
          MaxEvents      \* bound: events published

\* What is assumed of the constants.
UltraAssumption == Size \in Nat \ {0} /\ Limit \in Nat /\ MaxEvents \in Nat

VARIABLES slots, producer, consumer,     \* the buffer and the two sequences
          writing,                       \* words of the next event that are written
          reading, available, word,      \* ConsumeBatch: nextRead, the batch's end, the word read
          handled                        \* history: the events handed to the handler

ultraVars == <<slots, producer, consumer, writing, reading, available, word, handled>>

Slot(n) == n % Size   \* n & mask

Init ==
  /\ slots = [s \in 0..(Size - 1) |-> <<0, 0>>]
  /\ producer = 0 /\ consumer = 0 /\ writing = 0
  /\ reading = 1 /\ available = 0 /\ word = 0 /\ handled = <<>>

\* Mutant: the slot is taken one event early.
FreeEarly(n) == consumer >= n - (Size + 1)
Free(n) == consumer >= n - Size

Publish ==
  /\ writing < 2 /\ producer < MaxEvents
  /\ writing = 0 => Free(producer + 1)
  /\ slots' = [slots EXCEPT ![Slot(producer + 1)][writing + 1] = producer + 1]
  /\ writing' = writing + 1
  /\ UNCHANGED <<producer, consumer, reading, available, word, handled>>

Release ==
  /\ writing = 2
  /\ producer' = producer + 1 /\ writing' = 0
  /\ UNCHANGED <<slots, consumer, reading, available, word, handled>>

\* The batch ends Limit events after its first one, which makes Limit + 1.
LoadAvailable ==
  /\ available < reading /\ consumer = reading - 1
  /\ reading <= producer
  /\ available' = IF producer - reading > Limit THEN reading + Limit ELSE producer
  /\ UNCHANGED <<slots, producer, consumer, writing, reading, word, handled>>

Handle ==
  /\ reading <= available
  /\ IF word = 0
     THEN /\ word' = slots[Slot(reading)][1]
          /\ UNCHANGED <<reading, handled>>
     ELSE /\ handled' = Append(handled, <<word, slots[Slot(reading)][2]>>)
          /\ reading' = reading + 1 /\ word' = 0
  /\ UNCHANGED <<slots, producer, consumer, writing, available>>

CommitBatch ==
  /\ reading > available /\ consumer # reading - 1
  /\ consumer' = reading - 1
  /\ UNCHANGED <<slots, producer, writing, reading, available, word, handled>>

Next == Publish \/ Release \/ LoadAvailable \/ Handle \/ CommitBatch

Spec == Init /\ [][Next]_ultraVars

-----------------------------------------------------------------------------
(* Properties *)

\* Every event is handed over whole, once and in the order it was published,
\* although the publisher goes round the buffer behind the consumer; it is
\* never a buffer ahead of what has been committed, and a batch has at most
\* Limit + 1 events.
UltraExact ==
  /\ \A i \in DOMAIN handled : handled[i] = <<i, i>>
  /\ Len(handled) = reading - 1 /\ reading - 1 <= producer
  /\ consumer <= reading - 1 /\ producer <= consumer + Size
  /\ reading - 1 - consumer <= Limit + 1
=============================================================================
