------------------------------- MODULE Peers -------------------------------
(***************************************************************************)
(* dmt/peers.go and the connection part of dmt/network.go: connectLoop,    *)
(* connectToPeer and Close.                                                *)
(*                                                                         *)
(* The registry is an immutable list behind an atomic pointer, keyed by    *)
(* address.  The ticker starts a goroutine for every address without an    *)
(* entry; the goroutine dials, registers its connection, waits until the   *)
(* connection is done and removes the entry of its address.                *)
(***************************************************************************)
EXTENDS Integers, FiniteSets

CONSTANTS Addrs,       \* config.PeerAddrs
          Dials,       \* goroutines connectToPeer may run in: a bound
          None,
          MaxBreaks,   \* bound on the connections that break
          MaxFailures  \* bound on the dials that fail

ASSUME PeersAssumption ==
  /\ None \notin Addrs /\ None \notin Dials /\ MaxBreaks \in Nat /\ MaxFailures \in Nat

VARIABLES registry,   \* of each address: the connection registered, or None
          pc, addr,   \* of each goroutine: where it is, and for which address
          open,       \* the connections that are open
          seen,       \* the registry that a swap or Close started from
          toClose,    \* connections Close has yet to close
          node,       \* "running", "cancelled" (Close runs) or "closed"
          breaks, failures

vars == <<registry, pc, addr, open, seen, toClose, node, breaks, failures>>

\* A connection is named by the goroutine that dialled it.
Registry == [Addrs -> Dials \cup {None}]
Entries  == {registry[a] : a \in Addrs} \ {None}

TypeOK ==
  /\ registry \in Registry
  /\ pc \in [Dials -> {"new", "dial", "upsert", "wait", "remove", "end"}]
  /\ addr \in [Dials -> Addrs \cup {None}]
  /\ \A d \in Dials : (addr[d] = None) = (pc[d] = "new")
  /\ \A a \in Addrs : registry[a] # None => addr[registry[a]] = a
  /\ open \subseteq Dials
  /\ seen \in [Dials -> Registry]
  /\ toClose \subseteq Dials
  /\ node \in {"running", "cancelled", "closed"}
  /\ breaks \in 0..MaxBreaks /\ failures \in 0..MaxFailures

Nobody == [a \in Addrs |-> None]

Init ==
  /\ registry = Nobody
  /\ pc = [d \in Dials |-> "new"]
  /\ addr = [d \in Dials |-> None]
  /\ open = {} /\ toClose = {}
  /\ seen = [d \in Dials |-> Nobody]
  /\ node = "running"
  /\ breaks = 0 /\ failures = 0

GoTo(d, label) == pc' = [pc EXCEPT ![d] = label]

\* A tick finds no entry for a: it starts a goroutine, also when an earlier
\* one is still dialling.
connectLoop(a, d) ==
  /\ node = "running" /\ pc[d] = "new" /\ registry[a] = None
  /\ GoTo(d, "dial") /\ addr' = [addr EXCEPT ![d] = a]
  /\ UNCHANGED <<registry, open, seen, toClose, node, breaks, failures>>

DialFails(d) ==
  /\ pc[d] = "dial" /\ failures < MaxFailures
  /\ failures' = failures + 1
  /\ GoTo(d, "end")
  /\ UNCHANGED <<registry, addr, open, seen, toClose, node, breaks>>

Dial(d) ==
  /\ pc[d] = "dial"
  /\ open' = open \cup {d}
  /\ seen' = [seen EXCEPT ![d] = registry]
  /\ GoTo(d, "upsert")
  /\ UNCHANGED <<registry, addr, toClose, node, breaks, failures>>

\* A failed compare-and-swap of Upsert or Remove loads the registry again.
Reload(d) ==
  /\ pc[d] \in {"upsert", "remove"} /\ registry # seen[d]
  /\ seen' = [seen EXCEPT ![d] = registry]
  /\ UNCHANGED <<registry, pc, addr, open, toClose, node, breaks, failures>>

\* Mutant: the entry is stored without a compare-and-swap.
UpsertStore(d) ==
  /\ pc[d] = "upsert"
  /\ registry' = [seen[d] EXCEPT ![addr[d]] = d]
  /\ GoTo(d, "wait")
  /\ UNCHANGED <<addr, open, seen, toClose, node, breaks, failures>>

\* With replaces the entry of the address if there is one.
Upsert(d) ==
  /\ pc[d] = "upsert" /\ registry = seen[d]
  /\ registry' = [registry EXCEPT ![addr[d]] = d]
  /\ GoTo(d, "wait")
  /\ UNCHANGED <<addr, open, seen, toClose, node, breaks, failures>>

\* The connection breaks, at either end.
Break(d) ==
  /\ d \in open /\ breaks < MaxBreaks
  /\ breaks' = breaks + 1
  /\ open' = open \ {d}
  /\ UNCHANGED <<registry, pc, addr, seen, toClose, node, failures>>

Done(d) ==
  /\ pc[d] = "wait" /\ d \notin open
  /\ seen' = [seen EXCEPT ![d] = registry]
  /\ GoTo(d, "remove")
  /\ UNCHANGED <<registry, addr, open, toClose, node, breaks, failures>>

\* Mutant: the goroutine ends and leaves the entry.
RemoveNothing(d) ==
  /\ pc[d] = "remove" /\ registry = seen[d]
  /\ GoTo(d, "end")
  /\ UNCHANGED <<registry, addr, open, seen, toClose, node, breaks, failures>>

\* Without removes the entry of the address, whichever connection it is.
Remove(d) ==
  /\ pc[d] = "remove" /\ registry = seen[d]
  /\ registry' = [registry EXCEPT ![addr[d]] = None]
  /\ GoTo(d, "end")
  /\ UNCHANGED <<addr, open, seen, toClose, node, breaks, failures>>

connectToPeer(d) == \/ Dial(d) \/ DialFails(d) \/ Reload(d) \/ Upsert(d)
                    \/ Done(d) \/ Remove(d)

\* Close cancels the loops and loads the list of connections, ...
CloseCall ==
  /\ node = "running"
  /\ node' = "cancelled" /\ toClose' = Entries
  /\ UNCHANGED <<registry, pc, addr, open, seen, breaks, failures>>

\* ... closes each of them, ...
CloseOne(d) ==
  /\ node = "cancelled" /\ d \in toClose
  /\ toClose' = toClose \ {d} /\ open' = open \ {d}
  /\ UNCHANGED <<registry, pc, addr, seen, node, breaks, failures>>

\* ... and stores an empty registry.
CloseStore ==
  /\ node = "cancelled" /\ toClose = {}
  /\ registry' = Nobody
  /\ node' = "closed"
  /\ UNCHANGED <<pc, addr, open, seen, toClose, breaks, failures>>

Next ==
  \/ \E a \in Addrs, d \in Dials : connectLoop(a, d)
  \/ \E d \in Dials : connectToPeer(d) \/ Break(d) \/ CloseOne(d)
  \/ CloseCall \/ CloseStore

\* The ticker fires and goroutines run; connections need not break, and the
\* node need not be closed.
Fairness ==
  /\ \A a \in Addrs : WF_vars(\E d \in Dials : connectLoop(a, d))
  /\ \A d \in Dials : WF_vars(Dial(d) \/ Reload(d) \/ Upsert(d) \/ Done(d)
                              \/ Remove(d))

Spec     == Init /\ [][Next]_vars
FairSpec == Spec /\ Fairness

-----------------------------------------------------------------------------
(* Properties *)

\* The compare-and-swaps of two addresses do not undo each other: a waiting
\* goroutine's address has an entry unless a goroutine of the same address
\* removed it, or Close did.
EntriesStay ==
  node = "running" =>
    \A d \in Dials :
      pc[d] = "wait" /\ registry[addr[d]] = None =>
        \E e \in Dials : e # d /\ addr[e] = addr[d] /\ pc[e] = "end"

\* The variables keep to their ranges, an entry to its address, and a waiting
\* goroutine to its entry.
Inv == TypeOK /\ EntriesStay

\* A connection that broke does not stay in the registry: calls through it
\* fail, and the ticker would never dial the address again.
BrokenEntriesGo ==
  \A d \in Dials : d \in Entries /\ d \notin open
                  ~> d \notin Entries

=============================================================================
