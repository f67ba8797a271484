---------------------------- MODULE BoundedFifo ----------------------------
(***************************************************************************)
(* What a bounded queue of package structure promises its clients, with    *)
(* every operation atomic: Put appends at the producer edge, Take removes  *)
(* the oldest value on behalf of one client, Return hands that value to    *)
(* the client.  MPMCRing and SPSCRing implement this specification; the    *)
(* interleaving of their atomic loads and stores is what they add.         *)
(***************************************************************************)
EXTENDS Naturals, Sequences

CONSTANTS Capacity,   \* the most values the queue may hold
          Clients,    \* the goroutines that take values out
          Values,     \* what is pushed, each value at most once
          None        \* not a value

VARIABLES queue,      \* the values queued, oldest first
          hand,       \* hand[c]: the value client c has taken, or None
          returned    \* the values Pop has returned to its callers

vars == <<queue, hand, returned>>

Init == /\ queue = <<>>
        /\ hand = [c \in Clients |-> None]
        /\ returned = {}

Put(v) == /\ Len(queue) < Capacity
          /\ v \notin returned
          /\ \A i \in DOMAIN queue : queue[i] # v
          /\ \A c \in Clients : hand[c] # v
          /\ queue' = Append(queue, v)
          /\ UNCHANGED <<hand, returned>>

Take(c) == /\ hand[c] = None
           /\ queue # <<>>
           /\ hand' = [hand EXCEPT ![c] = Head(queue)]
           /\ queue' = Tail(queue)
           /\ UNCHANGED returned

Return(c) == /\ hand[c] # None
             /\ returned' = returned \cup {hand[c]}
             /\ hand' = [hand EXCEPT ![c] = None]
             /\ UNCHANGED queue

\* A queue that makes room by dropping its oldest value.
Evict == /\ Len(queue) = Capacity
         /\ queue' = Tail(queue)
         /\ UNCHANGED <<hand, returned>>

Next == \/ \E v \in Values : Put(v)
        \/ \E c \in Clients : Take(c) \/ Return(c)

Spec == Init /\ [][Next]_vars
=============================================================================
