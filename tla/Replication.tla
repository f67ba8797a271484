---------------------------- MODULE Replication ----------------------------
(***************************************************************************)
(* The replication part of dmt/network.go: forests on several nodes, kept  *)
(* alike by broadcasting every insert and by periodic synchronisation.     *)
(*                                                                         *)
(* Forest.Insert ends in BroadcastInsert, also when it is called by the    *)
(* handler of a broadcast, so every node passes on what it receives.  A    *)
(* node is its fastest tree (data), the leaves of its hash tree and those  *)
(* its root was last built from, its term and its last log index.          *)
(***************************************************************************)
EXTENDS Integers, FiniteSets

CONSTANTS Nodes,
          Keys, Values, None,
          Writers,      \* the nodes whose clients insert
          Once,         \* do clients insert each key once at most?
          MaxWrites,    \* bound on the clients' inserts
          Bounds        \* bounds a behaviour may have: on the calls that are
                        \* lost, the terms, where a log index stops growing,
                        \* and on the targeted syncs

ReplicationAssumption ==
  /\ None \notin Values /\ Writers \subseteq Nodes /\ Once \in BOOLEAN
  /\ MaxWrites \in Nat
  /\ Bounds \subseteq [lost : Nat, term : Nat, index : Nat, targeted : Nat]

VARIABLES bound,                 \* one of Bounds
          data, leaves, rooted,  \* of each node
          term, logIndex,        \* of each node's Election
          calls,                 \* Insert calls on their way, as a set
          handling,              \* Insert handlers between their two halves
          syncs,                 \* Sync calls: requests, and answers to apply
          writes, lost, targeted,
          written                \* history: the last value a client wrote

node == <<data, leaves, rooted, term, logIndex>>
net  == <<calls, handling, syncs>>
count == <<writes, lost, targeted>>
vars == <<bound, node, net, count, written>>

Map      == [Keys -> Values \cup {None}]
Nothing  == [k \in Keys |-> None]
Held(m)  == {k \in Keys : m[k] # None}
Call     == [to : Nodes, key : Keys, value : Values, term : 0..bound.term,
             index : 0..bound.index]
Job      == [kind : {"job"}, from : Nodes, to : Nodes, round : BOOLEAN, only : SUBSET Keys,
             term : 0..bound.term]
Request  == [kind : {"request"}, from : Nodes, to : Nodes, round : BOOLEAN, only : SUBSET Keys,
             root : Map, term : 0..bound.term]
Answer   == [kind : {"answer"}, from : Nodes, to : Nodes, round : BOOLEAN, only : SUBSET Keys,
             entries : Map, term : 0..bound.term, index : 0..bound.index]

TypeOK ==
  /\ bound \in Bounds
  /\ data \in [Nodes -> Map] /\ leaves \in [Nodes -> Map]
  /\ rooted \in [Nodes -> Map]
  /\ \A n \in Nodes : Held(rooted[n]) \subseteq Held(leaves[n])
  /\ \A n \in Nodes : Held(leaves[n]) \subseteq Held(data[n])
  /\ term \in [Nodes -> 0..bound.term] /\ logIndex \in [Nodes -> 0..bound.index]
  /\ calls \subseteq Call /\ handling \subseteq Call
  /\ syncs \subseteq Job \cup Request \cup Answer
  /\ writes \in 0..MaxWrites /\ lost \in 0..bound.lost
  /\ targeted \in 0..bound.targeted
  /\ written \in Map

Init ==
  /\ bound \in Bounds
  /\ data = [n \in Nodes |-> Nothing] /\ leaves = data /\ rooted = data
  /\ term = [n \in Nodes |-> 0] /\ logIndex = [n \in Nodes |-> 0]
  /\ calls = {} /\ handling = {} /\ syncs = {}
  /\ writes = 0 /\ lost = 0 /\ targeted = 0
  /\ written = Nothing

Capped(i) == IF i < bound.index THEN i ELSE bound.index
Later(i, j) == IF i < j THEN j ELSE i

\* BroadcastInsert: one call to every peer.
Broadcast(n, k, v) ==
  {[to |-> m, key |-> k, value |-> v, term |-> term[n],
    index |-> Capped(logIndex[n] + 1)] : m \in Nodes \ {n}}

\* forest.Insert: the tree, and the broadcast.
ForestInsert(n, k, v, others) ==
  /\ data' = [data EXCEPT ![n][k] = v]
  /\ calls' = others \cup Broadcast(n, k, v)

-----------------------------------------------------------------------------
(* Insert *)

\* A client calls Insert on its forest.
ClientInsert(n, k, v) ==
  /\ n \in Writers /\ writes < MaxWrites
  /\ Once => written[k] = None
  /\ writes' = writes + 1
  /\ written' = [written EXCEPT ![k] = v]
  /\ ForestInsert(n, k, v, calls)
  /\ UNCHANGED <<leaves, rooted, term, logIndex, handling, syncs, lost, targeted>>

\* The handler refuses a call of an earlier term ...
RefuseInsert(c) ==
  /\ c \in calls /\ c.term < term[c.to]
  /\ calls' = calls \ {c}
  /\ UNCHANGED <<node, handling, syncs, count, written>>

\* ... and applies any other, passing it on.
HandleInsert(c) ==
  /\ c \in calls /\ c.term >= term[c.to]
  /\ ForestInsert(c.to, c.key, c.value, calls \ {c})
  /\ handling' = handling \cup {c}
  /\ UNCHANGED <<leaves, rooted, term, logIndex, syncs, count, written>>

\* updateMerkleRoot: every pair of the fastest tree, then Rebuild.
FromForest(n, m) == [k \in Keys |-> IF data[n][k] # None THEN data[n][k] ELSE m[k]]

\* The second half of the handler: the hash tree and the log state.
FinishInsert(c) ==
  /\ c \in handling
  /\ LET n == c.to
         m == FromForest(n, [leaves[n] EXCEPT ![c.key] = c.value]) IN
       /\ leaves' = [leaves EXCEPT ![n] = m] /\ rooted' = [rooted EXCEPT ![n] = m]
       /\ logIndex' = [logIndex EXCEPT ![n] = Later(@, c.index)]
  /\ handling' = handling \ {c}
  /\ UNCHANGED <<data, term, calls, syncs, count, written>>

\* A call fails with its connection; BroadcastInsert does not try again.
LoseInsert(c) ==
  /\ c \in calls /\ lost < bound.lost
  /\ lost' = lost + 1 /\ calls' = calls \ {c}
  /\ UNCHANGED <<node, handling, syncs, writes, targeted, written>>

-----------------------------------------------------------------------------
(* Sync *)

\* syncWithPeers, on a tick of syncLoop: the root is rebuilt, and a job is
\* scheduled for every peer.  A bound: the previous round is over.
syncWithPeers(n) ==
  /\ \A s \in syncs : s.from # n \/ ~s.round
  /\ leaves' = [leaves EXCEPT ![n] = FromForest(n, @)]
  /\ rooted' = [rooted EXCEPT ![n] = leaves'[n]]
  /\ syncs' = syncs \cup {[kind |-> "job", from |-> n, to |-> m, term |-> term[n],
                            round |-> TRUE, only |-> Keys] : m \in Nodes \ {n}}
  /\ UNCHANGED <<data, term, logIndex, calls, handling, count, written>>

\* A peer is asked for what it has under a prefix.
StreamTargetedPrefixSync(n, m, keys) ==
  /\ leaves' = [leaves EXCEPT ![n] = FromForest(n, @)]
  /\ rooted' = [rooted EXCEPT ![n] = leaves'[n]]
  /\ syncs' = syncs \cup {[kind |-> "job", from |-> n, to |-> m, term |-> term[n],
                            round |-> FALSE, only |-> keys]}

\* After an Insert of a key, or a Get that found another one like it: is the
\* branch of the key an ambiguous one?  Whatever the data says of that.
EvaluateCuriosityAndTriggerSync(n, m, keys) ==
  /\ targeted < bound.targeted /\ n # m
  /\ StreamTargetedPrefixSync(n, m, keys)
  /\ targeted' = targeted + 1
  /\ UNCHANGED <<data, term, logIndex, calls, handling, writes, lost, written>>

\* The job calls Sync with the root there is by then.
SyncSend(j) ==
  /\ j \in syncs /\ j.kind = "job"
  /\ syncs' = (syncs \ {j}) \cup
       {[kind |-> "request", from |-> j.from, to |-> j.to, round |-> j.round, only |-> j.only,
         root |-> rooted[j.from], term |-> j.term]}
  /\ UNCHANGED <<node, calls, handling, count, written>>

\* Mutant: the handler does not step down.
SyncOutdatedStay(r) ==
  /\ r \in syncs /\ r.kind = "request" /\ r.term > term[r.to]
  /\ syncs' = syncs \ {r}
  /\ UNCHANGED <<node, calls, handling, count, written>>

\* The peer has a later term: the handler steps down and answers an error.
SyncOutdated(r) ==
  /\ r \in syncs /\ r.kind = "request" /\ r.term > term[r.to]
  /\ term' = [term EXCEPT ![r.to] = r.term]
  /\ syncs' = syncs \ {r}
  /\ UNCHANGED <<data, leaves, rooted, logIndex, calls, handling, count, written>>

\* Equal roots, or nothing to send: no entries.
SyncNothing(r) ==
  /\ r \in syncs /\ r.kind = "request" /\ r.term <= term[r.to]
  /\ r.root = rooted[r.to] \/ leaves[r.to] = Nothing
  /\ syncs' = syncs \ {r}
  /\ UNCHANGED <<node, calls, handling, count, written>>

\* Different roots: all leaves (a diff against an empty tree), each with the
\* value the fastest tree has now.
SyncDiff(r) ==
  /\ r \in syncs /\ r.kind = "request" /\ r.term <= term[r.to]
  /\ r.root # rooted[r.to] /\ leaves[r.to] # Nothing
  /\ syncs' = (syncs \ {r}) \cup
       {[kind |-> "answer", from |-> r.from, to |-> r.to, round |-> r.round, only |-> r.only,
         entries |-> [k \in Keys |-> IF leaves[r.to][k] # None
                                     THEN data[r.to][k] ELSE None],
         term |-> term[r.to], index |-> logIndex[r.to]]}
  /\ UNCHANGED <<node, calls, handling, count, written>>

\* Mutant: an entry of the answer goes to the hash tree only.
SyncApplyLeaf(a, k) ==
  /\ a \in syncs /\ a.kind = "answer" /\ a.entries[k] # None
  /\ leaves' = [leaves EXCEPT ![a.from][k] = a.entries[k]]
  /\ logIndex' = [logIndex EXCEPT ![a.from] = Later(@, Capped(a.index + 1))]
  /\ syncs' = (syncs \ {a}) \cup {[a EXCEPT !.entries[k] = None,
                                            !.index = Capped(@ + 1)]}
  /\ UNCHANGED <<data, rooted, term, calls, handling, count, written>>

\* One entry of the answer is applied, and so broadcast.  The entries are
\* numbered on from the answering node's last index.
SyncApply(a, k) ==
  /\ a \in syncs /\ a.kind = "answer" /\ a.entries[k] # None /\ k \in a.only
  /\ LET n == a.from IN
       /\ ForestInsert(n, k, a.entries[k], calls)
       /\ leaves' = [leaves EXCEPT ![n][k] = a.entries[k]]
       /\ logIndex' = [logIndex EXCEPT ![n] = Later(@, Capped(a.index + 1))]
  /\ syncs' = (syncs \ {a}) \cup {[a EXCEPT !.entries[k] = None,
                                            !.index = Capped(@ + 1)]}
  /\ UNCHANGED <<rooted, term, handling, count, written>>

\* applyFilteredSyncEntries leaves out what is not under the prefix.
SyncSkip(a, k) ==
  /\ a \in syncs /\ a.kind = "answer" /\ a.entries[k] # None /\ k \notin a.only
  /\ syncs' = (syncs \ {a}) \cup {[a EXCEPT !.entries[k] = None, !.index = Capped(@ + 1)]}
  /\ UNCHANGED <<node, calls, handling, count, written>>

SyncEnd(a) ==
  /\ a \in syncs /\ a.kind = "answer" /\ a.entries = Nothing
  /\ rooted' = [rooted EXCEPT ![a.from] = leaves[a.from]]
  /\ syncs' = syncs \ {a}
  /\ UNCHANGED <<data, leaves, term, logIndex, calls, handling, count, written>>

\* The connection of a Sync call breaks.
LoseSync(s) ==
  /\ s \in syncs /\ s.kind = "request" /\ lost < bound.lost
  /\ lost' = lost + 1 /\ syncs' = syncs \ {s}
  /\ UNCHANGED <<node, calls, handling, writes, targeted, written>>

\* An election raises a node's term.
ElectionTerm(n) ==
  /\ term[n] < bound.term
  /\ term' = [term EXCEPT ![n] = @ + 1]
  /\ UNCHANGED <<data, leaves, rooted, logIndex, net, count, written>>

Handlers ==
  \/ \E c \in calls : RefuseInsert(c) \/ HandleInsert(c)
  \/ \E c \in handling : FinishInsert(c)
  \/ \E s \in syncs : \/ SyncSend(s) \/ SyncOutdated(s) \/ SyncNothing(s) \/ SyncDiff(s)
                      \/ SyncEnd(s) \/ \E k \in Keys : SyncApply(s, k) \/ SyncSkip(s, k)

Step ==
  \/ \E n \in Nodes, k \in Keys, v \in Values : ClientInsert(n, k, v)
  \/ Handlers
  \/ \E c \in calls : LoseInsert(c)
  \/ \E s \in syncs : LoseSync(s)
  \/ \E n \in Nodes : syncWithPeers(n) \/ ElectionTerm(n)
  \/ \E n, m \in Nodes, keys \in SUBSET Keys : EvaluateCuriosityAndTriggerSync(n, m, keys)

Next == Step /\ UNCHANGED bound

AnswerInsert(n, k) ==
  /\ \E c \in calls : /\ c.to = n /\ c.key = k
                      /\ RefuseInsert(c) \/ HandleInsert(c)
  /\ UNCHANGED bound

EndInsert(n, k) ==
  /\ \E c \in handling : c.to = n /\ c.key = k /\ FinishInsert(c)
  /\ UNCHANGED bound

Synchronise(n, m) ==
  /\ \E s \in syncs :
       /\ s.from = n /\ s.to = m
       /\ \/ SyncSend(s) \/ SyncOutdated(s) \/ SyncNothing(s) \/ SyncDiff(s)
          \/ SyncEnd(s) \/ \E k \in Keys : SyncApply(s, k) \/ SyncSkip(s, k)
  /\ UNCHANGED bound

syncLoop(n) == syncWithPeers(n) /\ UNCHANGED bound

\* Calls that are not lost are answered, handlers run to their end, and the
\* ticker of syncLoop fires again and again.  Nobody has to insert, no call
\* has to be lost, and terms need not change.
Fairness ==
  /\ \A n \in Nodes, k \in Keys : /\ WF_vars(AnswerInsert(n, k))
                                  /\ WF_vars(EndInsert(n, k))
  /\ \A n, m \in Nodes : WF_vars(Synchronise(n, m))
  /\ \A n \in Nodes : WF_vars(syncLoop(n))

Spec     == Init /\ [][Next]_vars
FairSpec == Spec /\ Fairness

-----------------------------------------------------------------------------
(* Properties *)

\* If a key is inserted once, no node, no call and no answer holds another
\* value for it than the client's: neither a hash tree behind its forest nor
\* a sync that runs into an insert brings up a pair nobody wrote.
OnlyWritten ==
  Once => \A k \in Keys :
    /\ \A n \in Nodes : {data[n][k], leaves[n][k], rooted[n][k]} \subseteq {None, written[k]}
    /\ \A c \in calls \cup handling : c.key = k => c.value = written[k]
    /\ \A s \in syncs : s.kind = "answer" => s.entries[k] \in {None, written[k]}

\* The hash tree a node shows its peers has no key its forest lacks (TypeOK),
\* and what it shows was written.
ReplicasHold == TypeOK /\ OnlyWritten

\* What a client inserted once reaches every node, although calls and syncs
\* get lost and a change of terms makes nodes refuse calls.
EventuallyReplicated ==
  \A k \in Keys, v \in Values :
    written[k] = v ~> \A n \in Nodes : data[n][k] = v

\* From some time on all nodes have one root, and a sync transfers nothing.
RootsAgree == <>[](\A n, m \in Nodes : rooted[n] = rooted[m])

\* Nodes converge: what is inserted gets everywhere, and the roots the syncs
\* compare say so in the end.
Converges == EventuallyReplicated /\ RootsAgree
=============================================================================
