--------------------------- MODULE NetworkProofs ---------------------------
(***************************************************************************)
(* dmt/peers.go and dmt/network.go: the connections of a node, and the     *)
(* replication between nodes.                                              *)
(*                                                                         *)
(* Inv of Peers holds for any addresses, any number of goroutines and any  *)
(* bounds.  It is inductive as it stands: an entry names a goroutine of    *)
(* its address, so a swap of one address leaves the entries of the others, *)
(* and a goroutine that removes an entry is the witness EntriesStay asks   *)
(* the waiting goroutines of its address for.                              *)
(*                                                                         *)
(* ReplicasHold of Replication needs one more fact, that a handler between *)
(* its halves has put its key into the forest: then a hash tree rebuilt    *)
(* from the forest is the forest (Rebuilt), whatever came in between.      *)
(***************************************************************************)
EXTENDS Network, CommonLemmas

LEMMA InitInv == Init => Inv
  BY PeersAssumption DEF Init, Inv, TypeOK, EntriesStay, Registry, Nobody

\* A goroutine that starts was nobody's: it has no entry and nobody's witness.
LEMMA connectLoopInv ==
  ASSUME Inv, NEW a \in Addrs, NEW d \in Dials, connectLoop(a, d)
  PROVE  Inv'
<1> USE DEF Inv
<1>1. \A b \in Addrs : registry[b] # d
  BY PeersAssumption DEF connectLoop, TypeOK, Registry
<1>2. TypeOK'
  BY <1>1, PeersAssumption DEF connectLoop, TypeOK, Registry, GoTo
<1>3. ASSUME node = "running", NEW e \in Dials, pc'[e] = "wait", registry'[addr'[e]] = None
      PROVE  \E f \in Dials : f # e /\ addr'[f] = addr'[e] /\ pc'[f] = "end"
  <2>1. pc[e] = "wait" /\ e # d /\ addr'[e] = addr[e] /\ registry[addr[e]] = None
    BY <1>3 DEF connectLoop, TypeOK, GoTo
  <2>2. PICK f \in Dials : f # e /\ addr[f] = addr[e] /\ pc[f] = "end"
    BY <1>3, <2>1 DEF EntriesStay
  <2>3. addr'[f] = addr'[e] /\ pc'[f] = "end"
    BY <2>1, <2>2 DEF connectLoop, TypeOK, GoTo
  <2> QED BY <2>2, <2>3
<1>4. EntriesStay'
  BY <1>3 DEF connectLoop, EntriesStay
<1> QED BY <1>2, <1>4

\* Dialling, a failed swap and a break leave the registry and those who wait.
LEMMA DialInv ==
  ASSUME Inv, NEW d \in Dials, Dial(d) \/ DialFails(d) \/ Reload(d) \/ Break(d)
  PROVE  Inv'
<1> USE DEF Inv
<1>1. CASE Dial(d)
  BY <1>1 DEF Dial, TypeOK, EntriesStay, GoTo
<1>2. CASE DialFails(d)
  BY <1>2, PeersAssumption DEF DialFails, TypeOK, EntriesStay, GoTo
<1>3. CASE Reload(d)
  BY <1>3 DEF Reload, TypeOK, EntriesStay
<1>4. CASE Break(d)
  BY <1>4, PeersAssumption DEF Break, TypeOK, EntriesStay
<1> QED BY <1>1, <1>2, <1>3, <1>4

\* The entry an Upsert writes is its own goroutine's; it takes nobody's away.
LEMMA UpsertInv ==
  ASSUME Inv, NEW d \in Dials, Upsert(d)
  PROVE  Inv'
<1> USE DEF Inv
<1>1. addr[d] \in Addrs
  BY DEF Upsert, TypeOK
<1>2. registry' = [registry EXCEPT ![addr[d]] = d]
  BY DEF Upsert
<1>3. TypeOK'
  BY <1>1, <1>2, PeersAssumption DEF Upsert, TypeOK, Registry, GoTo
<1>4. ASSUME node = "running", NEW e \in Dials, pc'[e] = "wait",
             registry'[addr[e]] = None
      PROVE  pc[e] = "wait" /\ registry[addr[e]] = None
  <2>1. addr[e] # addr[d]
    BY <1>1, <1>2, <1>4, PeersAssumption DEF TypeOK, Registry
  <2> QED BY <1>1, <1>2, <1>4, <2>1 DEF Upsert, TypeOK, Registry, GoTo
<1>5. EntriesStay'
  BY <1>4 DEF Upsert, TypeOK, EntriesStay, GoTo
<1> QED BY <1>3, <1>5

LEMMA DoneInv ==
  ASSUME Inv, NEW d \in Dials, Done(d)
  PROVE  Inv'
  BY DEF Inv, Done, TypeOK, EntriesStay, GoTo

\* The goroutine that removes an entry ends: it is the witness for the others.
LEMMA RemoveInv ==
  ASSUME Inv, NEW d \in Dials, Remove(d)
  PROVE  Inv'
<1> USE DEF Inv
<1>1. addr[d] \in Addrs
  BY DEF Remove, TypeOK
<1>2. registry' = [registry EXCEPT ![addr[d]] = None]
  BY DEF Remove
<1>3. TypeOK'
  BY <1>1, <1>2, PeersAssumption DEF Remove, TypeOK, Registry, GoTo
<1>4. ASSUME node = "running", NEW e \in Dials, pc'[e] = "wait",
             registry'[addr[e]] = None
      PROVE  \E f \in Dials : f # e /\ addr[f] = addr[e] /\ pc'[f] = "end"
  <2>1. pc[e] = "wait" /\ e # d /\ addr[e] \in Addrs
    BY <1>4 DEF Remove, TypeOK, GoTo
  <2>2. CASE addr[e] = addr[d]
    BY <2>1, <2>2 DEF Remove, TypeOK, GoTo
  <2>3. CASE addr[e] # addr[d]
    <3>1. registry[addr[e]] = None
      BY <1>1, <1>2, <1>4, <2>1, <2>3 DEF TypeOK, Registry
    <3> QED BY <1>4, <2>1, <3>1 DEF Remove, TypeOK, EntriesStay, GoTo
  <2> QED BY <2>2, <2>3
<1>5. EntriesStay'
  BY <1>4 DEF Remove, TypeOK, EntriesStay
<1> QED BY <1>3, <1>5

LEMMA CloseInv ==
  ASSUME Inv, CloseCall \/ CloseStore \/ \E d \in Dials : CloseOne(d)
  PROVE  Inv'
<1> USE DEF Inv
<1>1. CASE CloseCall
  BY <1>1 DEF CloseCall, Entries, TypeOK, Registry, EntriesStay
<1>2. CASE CloseStore
  BY <1>2 DEF CloseStore, Nobody, TypeOK, Registry, EntriesStay
<1>3. CASE \E d \in Dials : CloseOne(d)
  BY <1>3 DEF CloseOne, TypeOK, EntriesStay
<1> QED BY <1>1, <1>2, <1>3

\* However many connections are dialled, registered, broken and removed at
\* once, no swap of the registry undoes another (peers.go, connectToPeer).
THEOREM Invariance == Spec => []Inv
<1>1. Inv /\ [Next]_vars => Inv'
  <2> SUFFICES ASSUME Inv, [Next]_vars PROVE Inv'
    OBVIOUS
  <2>1. ASSUME NEW a \in Addrs, NEW d \in Dials, connectLoop(a, d) PROVE Inv'
    BY <2>1, connectLoopInv
  <2>2. ASSUME NEW d \in Dials, connectToPeer(d) \/ Break(d) PROVE Inv'
    BY <2>2, DialInv, UpsertInv, DoneInv, RemoveInv DEF connectToPeer
  <2>3. CASE CloseCall \/ CloseStore \/ \E d \in Dials : CloseOne(d)
    BY <2>3, CloseInv
  <2>4. CASE UNCHANGED vars
    BY <2>4 DEF vars, Inv, TypeOK, EntriesStay
  <2> QED BY <2>1, <2>2, <2>3, <2>4 DEF Next
<1> QED BY <1>1, InitInv, PTL DEF Spec

-----------------------------------------------------------------------------
(* Replication between the forests of the nodes                            *)

\* A handler that is between its halves has put its key into the forest.
ReplicasOK ==
  /\ Replicas!ReplicasHold
  /\ \A c \in handling : data[c.to][c.key] # None

LEMMA InitReplicas ==
  ASSUME Replicas!ReplicationAssumption, Replicas!Init
  PROVE  ReplicasOK
<1>1. Replicas!Nothing \in Replicas!Map /\ Replicas!Held(Replicas!Nothing) = {}
  BY DEF Replicas!Map, Replicas!Nothing, Replicas!Held
<1>2. bound \in [lost : Nat, term : Nat, index : Nat, targeted : Nat]
  BY DEF Replicas!ReplicationAssumption, Replicas!Init
<1>3. Replicas!TypeOK
  BY <1>1, <1>2 DEF Replicas!Init, Replicas!TypeOK, Replicas!ReplicationAssumption
<1>4. Replicas!OnlyWritten
  BY DEF Replicas!Init, Replicas!OnlyWritten, Replicas!Nothing
<1> QED BY <1>3, <1>4 DEF ReplicasOK, Replicas!ReplicasHold, Replicas!Init

\* An index that is capped is an index, and so is the later of two.
LEMMA IndexesCapped ==
  ASSUME Replicas!ReplicationAssumption, bound \in Bounds
  PROVE  /\ \A i \in Nat : Replicas!Capped(i) \in 0..bound.index
         /\ \A i \in 0..bound.index : Replicas!Capped(i + 1) \in 0..bound.index
         /\ \A i, j \in 0..bound.index : Replicas!Later(i, j) \in 0..bound.index
<1>1. bound.index \in Nat
  BY DEF Replicas!ReplicationAssumption
<1> QED BY <1>1 DEF Replicas!Capped, Replicas!Later

\* The bounds stay, and so does what a call may be.
LEMMA CallsStay ==
  ASSUME bound' = bound
  PROVE  /\ Replicas!Call' = Replicas!Call /\ Replicas!Job' = Replicas!Job
         /\ Replicas!Request' = Replicas!Request /\ Replicas!Answer' = Replicas!Answer
BY DEF Replicas!Call, Replicas!Job, Replicas!Request, Replicas!Answer, Replicas!Map

\* A pair that is put into a node's forest and broadcast was written.
LEMMA ForestInsertDoes ==
  ASSUME Replicas!ReplicationAssumption, Replicas!TypeOK, bound' = bound,
         NEW n \in Nodes, NEW k \in Keys, NEW v \in Values,
         NEW others \in SUBSET Replicas!Call, Replicas!ForestInsert(n, k, v, others)
  PROVE  /\ data' \in [Nodes -> Replicas!Map]
         /\ data'[n][k] = v
         /\ \A m \in Nodes, j \in Keys : m # n \/ j # k => data'[m][j] = data[m][j]
         /\ calls' \subseteq Replicas!Call
         /\ \A c \in calls' : c \in others \/ (c.key = k /\ c.value = v)
<1>1. data \in [Nodes -> [Keys -> Values \cup {None}]]
  BY DEF Replicas!TypeOK, Replicas!Map
<1>2. data' = [data EXCEPT ![n][k] = v]
  BY DEF Replicas!ForestInsert
<1>3. /\ data' \in [Nodes -> Replicas!Map]
      /\ data'[n][k] = v
      /\ \A m \in Nodes, j \in Keys : m # n \/ j # k => data'[m][j] = data[m][j]
  BY <1>1, <1>2 DEF Replicas!Map
<1>4. Replicas!Broadcast(n, k, v) \subseteq Replicas!Call
  <2>1. term[n] \in 0..bound.term /\ logIndex[n] \in 0..bound.index /\ bound \in Bounds
    BY DEF Replicas!TypeOK
  <2>2. Replicas!Capped(logIndex[n] + 1) \in 0..bound.index
    BY <2>1, IndexesCapped
  <2> QED BY <2>1, <2>2 DEF Replicas!Broadcast, Replicas!Call
<1>5. \A c \in Replicas!Broadcast(n, k, v) : c.key = k /\ c.value = v
  BY DEF Replicas!Broadcast
<1>6. calls' = others \cup Replicas!Broadcast(n, k, v)
  BY DEF Replicas!ForestInsert
<1> QED BY <1>3, <1>4, <1>5, <1>6

LEMMA ClientInsertReplicas ==
  ASSUME Replicas!ReplicationAssumption, ReplicasOK, bound' = bound,
         NEW n \in Nodes, NEW k \in Keys, NEW v \in Values,
         Replicas!ClientInsert(n, k, v)
  PROVE  ReplicasOK'
<1>1. Replicas!TypeOK /\ Replicas!OnlyWritten
  BY DEF ReplicasOK, Replicas!ReplicasHold
<1>2. Replicas!ForestInsert(n, k, v, calls) /\ calls \subseteq Replicas!Call
  BY <1>1 DEF Replicas!ClientInsert, Replicas!TypeOK
<1>3. /\ data' \in [Nodes -> Replicas!Map]
      /\ data'[n][k] = v
      /\ \A m \in Nodes, j \in Keys : m # n \/ j # k => data'[m][j] = data[m][j]
      /\ calls' \subseteq Replicas!Call
      /\ \A c \in calls' : c \in calls \/ (c.key = k /\ c.value = v)
  BY <1>1, <1>2, ForestInsertDoes
<1>4. v # None
  BY DEF Replicas!ReplicationAssumption
<1>5. \A m \in Nodes : Replicas!Held(data[m]) \subseteq Replicas!Held(data'[m])
  BY <1>3, <1>4 DEF Replicas!Held
<1>6. Replicas!TypeOK'
  <2>1. written' \in Replicas!Map /\ writes' \in 0..MaxWrites
    BY <1>1 DEF Replicas!ClientInsert, Replicas!TypeOK, Replicas!Map, Replicas!ReplicationAssumption
  <2>2. /\ leaves' = leaves /\ rooted' = rooted /\ term' = term /\ logIndex' = logIndex
        /\ handling' = handling /\ syncs' = syncs /\ lost' = lost /\ targeted' = targeted
    BY DEF Replicas!ClientInsert
  <2>3. \A m \in Nodes : Replicas!Held(leaves[m]) \subseteq Replicas!Held(data'[m])
    BY <1>1, <1>5 DEF Replicas!TypeOK
  <2>4. \A m \in Nodes : Replicas!Held(leaves'[m]) \subseteq Replicas!Held(data'[m])
    BY <2>2, <2>3
  <2>5. \A m \in Nodes : Replicas!Held(rooted'[m]) \subseteq Replicas!Held(leaves'[m])
    BY <1>1, <2>2 DEF Replicas!TypeOK
  <2> QED BY <1>1, <1>3, <2>1, <2>2, <2>4, <2>5, CallsStay DEF Replicas!TypeOK
<1>7. Replicas!OnlyWritten'
  <2>1. SUFFICES ASSUME Once
                 PROVE  Replicas!OnlyWritten'
    BY DEF Replicas!OnlyWritten
  <2>2. /\ written[k] = None /\ written' = [written EXCEPT ![k] = v]
        /\ written \in [Keys -> Values \cup {None}]
    BY <1>1, <2>1 DEF Replicas!ClientInsert, Replicas!TypeOK, Replicas!Map
  <2>3. \A j \in Keys : written[j] \in {None, written'[j]} /\ (j # k => written'[j] = written[j])
    BY <2>2
  <2>4. ASSUME NEW j \in Keys, NEW m \in Nodes
        PROVE  {data'[m][j], leaves'[m][j], rooted'[m][j]} \subseteq {None, written'[j]}
    BY <1>1, <1>3, <2>1, <2>2, <2>3 DEF Replicas!ClientInsert, Replicas!OnlyWritten
  <2>5. ASSUME NEW c \in (calls \cup handling)', c.key \in Keys
        PROVE  c.value = written'[c.key]
    <3>1. c \in calls \cup handling \/ (c.key = k /\ c.value = v)
      BY <1>3 DEF Replicas!ClientInsert
    <3>2. CASE c \in calls \cup handling
      <4>1. c.value = written[c.key] /\ c.value # None
        BY <1>1, <2>1, <2>5, <3>2 DEF Replicas!OnlyWritten, Replicas!TypeOK, Replicas!Call,
           Replicas!ReplicationAssumption
      <4> QED BY <2>3, <2>5, <4>1
    <3> QED BY <2>2, <3>1, <3>2
  <2>6. ASSUME NEW s \in syncs', s.kind = "answer", NEW j \in Keys
        PROVE  s.entries[j] \in {None, written'[j]}
    BY <1>1, <2>1, <2>3, <2>6 DEF Replicas!ClientInsert, Replicas!OnlyWritten
  <2> QED BY <2>4, <2>5, <2>6 DEF Replicas!OnlyWritten
<1>8. \A c \in handling' : data'[c.to][c.key] # None
  <2>1. handling' = handling /\ \A c \in handling : c.to \in Nodes /\ c.key \in Keys
    BY <1>1 DEF Replicas!ClientInsert, Replicas!TypeOK, Replicas!Call
  <2> QED BY <1>3, <1>4, <2>1 DEF ReplicasOK
<1> QED BY <1>6, <1>7, <1>8 DEF ReplicasOK, Replicas!ReplicasHold

LEMMA HandleInsertReplicas ==
  ASSUME Replicas!ReplicationAssumption, ReplicasOK, bound' = bound,
         NEW c \in calls, Replicas!RefuseInsert(c) \/ Replicas!HandleInsert(c)
  PROVE  ReplicasOK'
<1>1. Replicas!TypeOK /\ Replicas!OnlyWritten
  BY DEF ReplicasOK, Replicas!ReplicasHold
<1>2. CASE Replicas!RefuseInsert(c)
  <2>1. /\ data' = data /\ leaves' = leaves /\ rooted' = rooted /\ term' = term
        /\ logIndex' = logIndex /\ handling' = handling /\ syncs' = syncs
        /\ writes' = writes /\ lost' = lost /\ targeted' = targeted /\ written' = written
        /\ calls' \subseteq calls
    BY <1>2 DEF Replicas!RefuseInsert, Replicas!node, Replicas!count
  <2>2. Replicas!TypeOK'
    BY <1>1, <2>1, CallsStay DEF Replicas!TypeOK, Replicas!Held, Replicas!Map
  <2>3. Replicas!OnlyWritten'
    BY <1>1, <2>1 DEF Replicas!OnlyWritten
  <2> QED BY <2>1, <2>2, <2>3 DEF ReplicasOK, Replicas!ReplicasHold
<1>3. CASE Replicas!HandleInsert(c)
  <2> DEFINE n == c.to
             k == c.key
             v == c.value
  <2>1. /\ n \in Nodes /\ k \in Keys /\ v \in Values /\ v # None
        /\ calls \subseteq Replicas!Call
    BY <1>1 DEF Replicas!TypeOK, Replicas!Call, Replicas!ReplicationAssumption
  <2>2. Replicas!ForestInsert(n, k, v, calls \ {c}) /\ calls \ {c} \subseteq Replicas!Call
    BY <1>3, <2>1 DEF Replicas!HandleInsert
  <2>3. /\ data' \in [Nodes -> Replicas!Map]
        /\ data'[n][k] = v
        /\ \A m \in Nodes, j \in Keys : m # n \/ j # k => data'[m][j] = data[m][j]
        /\ calls' \subseteq Replicas!Call
        /\ \A d \in calls' : d \in calls \ {c} \/ (d.key = k /\ d.value = v)
    BY <1>1, <2>1, <2>2, ForestInsertDoes
  <2>4. /\ leaves' = leaves /\ rooted' = rooted /\ term' = term
        /\ logIndex' = logIndex /\ handling' = handling \cup {c} /\ syncs' = syncs
        /\ writes' = writes /\ lost' = lost /\ targeted' = targeted /\ written' = written
    BY <1>3 DEF Replicas!HandleInsert, Replicas!count
  <2>5. \A m \in Nodes : Replicas!Held(data[m]) \subseteq Replicas!Held(data'[m])
    BY <2>1, <2>3 DEF Replicas!Held
  <2>6. Replicas!TypeOK'
    <3>1. \A m \in Nodes : Replicas!Held(leaves'[m]) \subseteq Replicas!Held(data'[m])
      BY <1>1, <2>4, <2>5 DEF Replicas!TypeOK
    <3>2. \A m \in Nodes : Replicas!Held(rooted'[m]) \subseteq Replicas!Held(leaves'[m])
      BY <1>1, <2>4 DEF Replicas!TypeOK
    <3> QED BY <1>1, <2>1, <2>3, <2>4, <3>1, <3>2, CallsStay DEF Replicas!TypeOK
  <2>7. Replicas!OnlyWritten'
    <3>1. SUFFICES ASSUME Once
                   PROVE  Replicas!OnlyWritten'
      BY DEF Replicas!OnlyWritten
    <3>2. v = written[k]
      BY <1>1, <2>1, <3>1 DEF Replicas!OnlyWritten
    <3>3. ASSUME NEW j \in Keys, NEW m \in Nodes
          PROVE  {data'[m][j], leaves'[m][j], rooted'[m][j]} \subseteq {None, written'[j]}
      BY <1>1, <2>3, <2>4, <3>1, <3>2 DEF Replicas!OnlyWritten
    <3>4. ASSUME NEW d \in (calls \cup handling)', d.key \in Keys
          PROVE  d.value = written'[d.key]
      BY <1>1, <2>3, <2>4, <3>1, <3>2, <3>4 DEF Replicas!OnlyWritten
    <3> HIDE DEF n, k, v
    <3> QED BY <1>1, <2>4, <3>1, <3>3, <3>4 DEF Replicas!OnlyWritten
  <2>8. \A d \in handling' : data'[d.to][d.key] # None
    <3>1. \A d \in handling : d.to \in Nodes /\ d.key \in Keys
      BY <1>1 DEF Replicas!TypeOK, Replicas!Call
    <3> QED BY <2>1, <2>3, <2>4, <3>1 DEF ReplicasOK
  <2> QED BY <2>6, <2>7, <2>8 DEF ReplicasOK, Replicas!ReplicasHold
<1> QED BY <1>2, <1>3

\* A rebuilt hash tree is the node's forest, whatever leaf it was given.
LEMMA Rebuilt ==
  ASSUME Replicas!ReplicationAssumption, Replicas!TypeOK, NEW n \in Nodes
  PROVE  /\ Replicas!FromForest(n, leaves[n]) = data[n]
         /\ \A k \in Keys : \A v : data[n][k] # None
              => Replicas!FromForest(n, [leaves[n] EXCEPT ![k] = v]) = data[n]
<1>1. /\ data[n] \in [Keys -> Values \cup {None}] /\ leaves[n] \in [Keys -> Values \cup {None}]
      /\ \A k \in Keys : data[n][k] = None => leaves[n][k] = None
  BY DEF Replicas!TypeOK, Replicas!Map, Replicas!Held
<1>2. Replicas!FromForest(n, leaves[n]) = data[n]
  BY <1>1 DEF Replicas!FromForest
<1>3. ASSUME NEW k \in Keys, NEW v, data[n][k] # None
      PROVE  Replicas!FromForest(n, [leaves[n] EXCEPT ![k] = v]) = data[n]
  BY <1>1, <1>3 DEF Replicas!FromForest
<1> QED BY <1>2, <1>3

\* A step that leaves the forests and hands out what they hold: a hash tree is
\* rebuilt from its forest or the root from the leaves, and no pair comes up
\* in an answer that was not there.
LEMMA ForestsStay ==
  ASSUME Replicas!ReplicationAssumption, ReplicasOK, bound' = bound,
         data' = data, written' = written, writes' = writes,
         calls' \subseteq calls, handling' \subseteq handling,
         lost' \in 0..bound.lost, targeted' \in 0..bound.targeted,
         term' \in [Nodes -> 0..bound.term], logIndex' \in [Nodes -> 0..bound.index],
         leaves' \in [Nodes -> Replicas!Map], rooted' \in [Nodes -> Replicas!Map],
         \A m \in Nodes :
           \/ leaves'[m] = leaves[m] /\ rooted'[m] = rooted[m]
           \/ leaves'[m] = data[m] /\ rooted'[m] = leaves'[m]
           \/ leaves'[m] = leaves[m] /\ rooted'[m] = leaves[m],
         syncs' \subseteq Replicas!Job \cup Replicas!Request \cup Replicas!Answer,
         Once => \A s \in syncs' : s.kind = "answer"
                   => \A k \in Keys : s.entries[k] \in {None, written[k]}
  PROVE  ReplicasOK'
<1>1. Replicas!TypeOK /\ Replicas!OnlyWritten
  BY DEF ReplicasOK, Replicas!ReplicasHold
<1>2. \A m \in Nodes : /\ Replicas!Held(rooted'[m]) \subseteq Replicas!Held(leaves'[m])
                      /\ Replicas!Held(leaves'[m]) \subseteq Replicas!Held(data'[m])
  BY <1>1 DEF Replicas!TypeOK
<1>3. Replicas!TypeOK'
  BY <1>1, <1>2, CallsStay DEF Replicas!TypeOK
<1>4. Replicas!OnlyWritten'
  <2>1. SUFFICES ASSUME Once
                 PROVE  Replicas!OnlyWritten'
    BY DEF Replicas!OnlyWritten
  <2>2. ASSUME NEW k \in Keys, NEW m \in Nodes
        PROVE  {data'[m][k], leaves'[m][k], rooted'[m][k]} \subseteq {None, written'[k]}
    <3>1. {data[m][k], leaves[m][k], rooted[m][k]} \subseteq {None, written[k]}
      BY <1>1, <2>1 DEF Replicas!OnlyWritten
    <3> QED BY <3>1
  <2> QED BY <1>1, <2>1, <2>2 DEF Replicas!OnlyWritten
<1>5. \A c \in handling' : data'[c.to][c.key] # None
  BY DEF ReplicasOK
<1> QED BY <1>3, <1>4, <1>5 DEF ReplicasOK, Replicas!ReplicasHold

LEMMA FinishInsertReplicas ==
  ASSUME Replicas!ReplicationAssumption, ReplicasOK, bound' = bound,
         NEW c \in handling, Replicas!FinishInsert(c)
  PROVE  ReplicasOK'
<1>1. Replicas!TypeOK /\ Replicas!OnlyWritten
  BY DEF ReplicasOK, Replicas!ReplicasHold
<1>2. c \in Replicas!Call /\ c.to \in Nodes /\ c.key \in Keys /\ c.index \in 0..bound.index
  BY <1>1 DEF Replicas!TypeOK, Replicas!Call
<1> DEFINE n == c.to
           m == Replicas!FromForest(n, [leaves[n] EXCEPT ![c.key] = c.value])
<1>3. m = data[n]
  BY <1>1, <1>2, Rebuilt DEF ReplicasOK
<1>4. /\ leaves' = [leaves EXCEPT ![n] = m] /\ rooted' = [rooted EXCEPT ![n] = m]
      /\ logIndex' = [logIndex EXCEPT ![n] = Replicas!Later(@, c.index)]
      /\ handling' = handling \ {c}
      /\ data' = data /\ term' = term /\ calls' = calls /\ syncs' = syncs
      /\ writes' = writes /\ lost' = lost /\ targeted' = targeted /\ written' = written
  BY DEF Replicas!FinishInsert, Replicas!count
<1>5. logIndex' \in [Nodes -> 0..bound.index]
  BY <1>1, <1>2, <1>4, IndexesCapped DEF Replicas!TypeOK
<1>6. /\ leaves' \in [Nodes -> Replicas!Map] /\ rooted' \in [Nodes -> Replicas!Map]
      /\ \A j \in Nodes :
           \/ leaves'[j] = leaves[j] /\ rooted'[j] = rooted[j]
           \/ leaves'[j] = data[j] /\ rooted'[j] = leaves'[j]
  <2> HIDE DEF m
  <2> QED BY <1>1, <1>2, <1>3, <1>4 DEF Replicas!TypeOK
<1> HIDE DEF n, m
<1>7. /\ term' \in [Nodes -> 0..bound.term]
      /\ lost' \in 0..bound.lost /\ targeted' \in 0..bound.targeted
      /\ syncs' \subseteq Replicas!Job \cup Replicas!Request \cup Replicas!Answer
      /\ Once => \A s \in syncs' : s.kind = "answer"
                   => \A k \in Keys : s.entries[k] \in {None, written[k]}
  BY <1>1, <1>4 DEF Replicas!TypeOK, Replicas!OnlyWritten
<1> QED BY <1>4, <1>5, <1>6, <1>7, ForestsStay

\* A sync that starts rebuilds its node's root and adds jobs.
LEMMA SyncStarts ==
  ASSUME Replicas!ReplicationAssumption, ReplicasOK, bound' = bound,
         NEW n \in Nodes, NEW others \in SUBSET Replicas!Job,
         leaves' = [leaves EXCEPT ![n] = Replicas!FromForest(n, @)],
         rooted' = [rooted EXCEPT ![n] = leaves'[n]],
         syncs' = syncs \cup others, targeted' \in 0..bound.targeted,
         UNCHANGED <<data, term, logIndex, calls, handling, writes, lost, written>>
  PROVE  ReplicasOK'
<1>1. Replicas!TypeOK /\ Replicas!OnlyWritten
  BY DEF ReplicasOK, Replicas!ReplicasHold
<1>2. Replicas!FromForest(n, leaves[n]) = data[n]
  BY <1>1, Rebuilt
<1>3. /\ leaves' \in [Nodes -> Replicas!Map] /\ rooted' \in [Nodes -> Replicas!Map]
      /\ \A j \in Nodes :
           \/ leaves'[j] = leaves[j] /\ rooted'[j] = rooted[j]
           \/ leaves'[j] = data[j] /\ rooted'[j] = leaves'[j]
  BY <1>1, <1>2 DEF Replicas!TypeOK
<1>4. /\ term' \in [Nodes -> 0..bound.term] /\ logIndex' \in [Nodes -> 0..bound.index]
      /\ lost' \in 0..bound.lost
      /\ syncs' \subseteq Replicas!Job \cup Replicas!Request \cup Replicas!Answer
  BY <1>1 DEF Replicas!TypeOK
<1>5. Once => \A s \in syncs' : s.kind = "answer"
                => \A k \in Keys : s.entries[k] \in {None, written[k]}
  BY <1>1 DEF Replicas!OnlyWritten, Replicas!Job
<1> QED BY <1>3, <1>4, <1>5, ForestsStay

LEMMA SyncStartsReplicas ==
  ASSUME Replicas!ReplicationAssumption, ReplicasOK, bound' = bound,
         \/ \E n \in Nodes : Replicas!syncWithPeers(n)
         \/ \E n, m \in Nodes, keys \in SUBSET Keys :
              Replicas!EvaluateCuriosityAndTriggerSync(n, m, keys)
  PROVE  ReplicasOK'
<1>1. Replicas!TypeOK
  BY DEF ReplicasOK, Replicas!ReplicasHold
<1>2. ASSUME NEW n \in Nodes, Replicas!syncWithPeers(n)
      PROVE  ReplicasOK'
  <2> DEFINE jobs == {[kind |-> "job", from |-> n, to |-> m, term |-> term[n],
                       round |-> TRUE, only |-> Keys] : m \in Nodes \ {n}}
  <2>1. jobs \in SUBSET Replicas!Job
    <3>1. term[n] \in 0..bound.term /\ Keys \in SUBSET Keys
      BY <1>1 DEF Replicas!TypeOK
    <3>2. ASSUME NEW m \in Nodes
          PROVE  [kind |-> "job", from |-> n, to |-> m, term |-> term[n], round |-> TRUE,
                  only |-> Keys] \in Replicas!Job
      BY <3>1 DEF Replicas!Job
    <3> QED BY <3>2
  <2>2. /\ leaves' = [leaves EXCEPT ![n] = Replicas!FromForest(n, @)]
        /\ rooted' = [rooted EXCEPT ![n] = leaves'[n]]
        /\ syncs' = syncs \cup jobs
        /\ UNCHANGED <<data, term, logIndex, calls, handling, writes, lost, written>>
        /\ targeted' = targeted
    BY <1>2 DEF Replicas!syncWithPeers, Replicas!count
  <2>3. targeted' \in 0..bound.targeted
    BY <1>1, <2>2 DEF Replicas!TypeOK
  <2> HIDE DEF jobs
  <2> QED BY <2>1, <2>2, <2>3, SyncStarts
<1>3. ASSUME NEW n \in Nodes, NEW m \in Nodes, NEW keys \in SUBSET Keys,
             Replicas!EvaluateCuriosityAndTriggerSync(n, m, keys)
      PROVE  ReplicasOK'
  <2> DEFINE jobs == {[kind |-> "job", from |-> n, to |-> m, term |-> term[n],
                       round |-> FALSE, only |-> keys]}
  <2>1. jobs \in SUBSET Replicas!Job
    BY <1>1 DEF Replicas!TypeOK, Replicas!Job
  <2>2. /\ leaves' = [leaves EXCEPT ![n] = Replicas!FromForest(n, @)]
        /\ rooted' = [rooted EXCEPT ![n] = leaves'[n]]
        /\ syncs' = syncs \cup jobs
        /\ UNCHANGED <<data, term, logIndex, calls, handling, writes, lost, written>>
        /\ targeted < bound.targeted /\ targeted' = targeted + 1
    BY <1>3 DEF Replicas!EvaluateCuriosityAndTriggerSync, Replicas!StreamTargetedPrefixSync
  <2>3. targeted' \in 0..bound.targeted
    <3>1. bound.targeted \in Nat /\ targeted \in 0..bound.targeted
      BY <1>1 DEF Replicas!TypeOK, Replicas!ReplicationAssumption
    <3> QED BY <2>2, <3>1
  <2> HIDE DEF jobs
  <2> QED BY <2>1, <2>2, <2>3, SyncStarts
<1> QED BY <1>2, <1>3

\* The steps of a sync but those that apply an entry leave the forests.
LEMMA SyncReplicas ==
  ASSUME Replicas!ReplicationAssumption, ReplicasOK, bound' = bound,
         NEW s \in syncs,
         \/ Replicas!SyncSend(s) \/ Replicas!SyncOutdated(s) \/ Replicas!SyncNothing(s)
         \/ Replicas!SyncDiff(s) \/ Replicas!SyncEnd(s)
         \/ \E k \in Keys : Replicas!SyncSkip(s, k)
  PROVE  ReplicasOK'
<1>1. Replicas!TypeOK /\ Replicas!OnlyWritten
  BY DEF ReplicasOK, Replicas!ReplicasHold
<1>2. /\ data \in [Nodes -> Replicas!Map] /\ leaves \in [Nodes -> Replicas!Map]
      /\ rooted \in [Nodes -> Replicas!Map]
      /\ term \in [Nodes -> 0..bound.term] /\ logIndex \in [Nodes -> 0..bound.index]
      /\ lost \in 0..bound.lost /\ targeted \in 0..bound.targeted
      /\ syncs \subseteq Replicas!Job \cup Replicas!Request \cup Replicas!Answer
      /\ s \in Replicas!Job \cup Replicas!Request \cup Replicas!Answer
  BY <1>1 DEF Replicas!TypeOK
<1>3. Once => \A r \in syncs : r.kind = "answer"
                => \A k \in Keys : r.entries[k] \in {None, written[k]}
  BY <1>1 DEF Replicas!OnlyWritten
<1>4. CASE Replicas!SyncSend(s)
  <2> DEFINE new == [kind |-> "request", from |-> s.from, to |-> s.to, round |-> s.round,
                     only |-> s.only, root |-> rooted[s.from], term |-> s.term]
  <2>1. s \in Replicas!Job
    BY <1>2, <1>4 DEF Replicas!SyncSend, Replicas!Request, Replicas!Answer
  <2>2. new \in Replicas!Request
    BY <1>2, <2>1 DEF Replicas!Job, Replicas!Request
  <2>3. /\ syncs' = (syncs \ {s}) \cup {new}
        /\ UNCHANGED <<data, leaves, rooted, term, logIndex, calls, handling, writes, lost,
                       targeted, written>>
    BY <1>4 DEF Replicas!SyncSend, Replicas!node, Replicas!count
  <2>4. new.kind = "request"
    OBVIOUS
  <2> HIDE DEF new
  <2> QED BY <1>2, <1>3, <2>2, <2>3, <2>4, ForestsStay
<1>5. CASE Replicas!SyncOutdated(s)
  <2>1. s \in Replicas!Request
    BY <1>2, <1>5 DEF Replicas!SyncOutdated, Replicas!Job, Replicas!Answer
  <2>2. s.term \in 0..bound.term
    BY <2>1 DEF Replicas!Request
  <2>3. /\ term' = [term EXCEPT ![s.to] = s.term]
        /\ syncs' = syncs \ {s}
        /\ UNCHANGED <<data, leaves, rooted, logIndex, calls, handling, writes, lost,
                       targeted, written>>
    BY <1>5 DEF Replicas!SyncOutdated, Replicas!count
  <2>4. term' \in [Nodes -> 0..bound.term]
    BY <1>2, <2>2, <2>3
  <2> QED BY <1>2, <1>3, <2>3, <2>4, ForestsStay
<1>6. CASE Replicas!SyncNothing(s)
  <2>1. /\ syncs' = syncs \ {s}
        /\ UNCHANGED <<data, leaves, rooted, term, logIndex, calls, handling, writes, lost,
                       targeted, written>>
    BY <1>6 DEF Replicas!SyncNothing, Replicas!node, Replicas!count
  <2> QED BY <1>2, <1>3, <2>1, ForestsStay
<1>7. CASE Replicas!SyncDiff(s)
  <2> DEFINE entries == [k \in Keys |-> IF leaves[s.to][k] # None THEN data[s.to][k] ELSE None]
             new == [kind |-> "answer", from |-> s.from, to |-> s.to, round |-> s.round,
                     only |-> s.only, entries |-> entries, term |-> term[s.to],
                     index |-> logIndex[s.to]]
  <2>1. s \in Replicas!Request /\ s.to \in Nodes
    BY <1>2, <1>7 DEF Replicas!SyncDiff, Replicas!Job, Replicas!Answer, Replicas!Request
  <2>2. entries \in Replicas!Map
    BY <1>2, <2>1 DEF Replicas!Map
  <2>3. Once => \A k \in Keys : entries[k] \in {None, written[k]}
    BY <1>1, <2>1 DEF Replicas!OnlyWritten
  <2>4. new \in Replicas!Answer /\ new.entries = entries
    <3> HIDE DEF entries
    <3> QED BY <1>2, <2>1, <2>2 DEF Replicas!Answer, Replicas!Request
  <2>5. /\ syncs' = (syncs \ {s}) \cup {new}
        /\ UNCHANGED <<data, leaves, rooted, term, logIndex, calls, handling, writes, lost,
                       targeted, written>>
    BY <1>7 DEF Replicas!SyncDiff, Replicas!node, Replicas!count
  <2> HIDE DEF entries, new
  <2> QED BY <1>2, <1>3, <2>3, <2>4, <2>5, ForestsStay
<1>8. CASE Replicas!SyncEnd(s)
  <2>1. s \in Replicas!Answer /\ s.from \in Nodes
    BY <1>2, <1>8 DEF Replicas!SyncEnd, Replicas!Job, Replicas!Answer, Replicas!Request
  <2>2. /\ rooted' = [rooted EXCEPT ![s.from] = leaves[s.from]]
        /\ syncs' = syncs \ {s}
        /\ UNCHANGED <<data, leaves, term, logIndex, calls, handling, writes, lost,
                       targeted, written>>
    BY <1>8 DEF Replicas!SyncEnd, Replicas!count
  <2>3. rooted' \in [Nodes -> Replicas!Map] /\ \A m \in Nodes : rooted'[m] \in {rooted[m], leaves[m]}
    BY <1>2, <2>1, <2>2
  <2> QED BY <1>2, <1>3, <2>2, <2>3, ForestsStay
<1>9. ASSUME NEW k \in Keys, Replicas!SyncSkip(s, k)
      PROVE  ReplicasOK'
  <2> DEFINE new == [s EXCEPT !.entries[k] = None, !.index = Replicas!Capped(@ + 1)]
  <2>1. s \in Replicas!Answer
    BY <1>2, <1>9 DEF Replicas!SyncSkip, Replicas!Job, Replicas!Request
  <2>2. new \in Replicas!Answer
    BY <1>1, <2>1, IndexesCapped DEF Replicas!Answer, Replicas!Map, Replicas!TypeOK
  <2>3. \A j \in Keys : new.entries[j] \in {None, s.entries[j]}
    BY <2>1 DEF Replicas!Answer, Replicas!Map
  <2>4. /\ syncs' = (syncs \ {s}) \cup {new} /\ s.kind = "answer"
        /\ UNCHANGED <<data, leaves, rooted, term, logIndex, calls, handling, writes, lost,
                       targeted, written>>
    BY <1>9 DEF Replicas!SyncSkip, Replicas!node, Replicas!count
  <2> HIDE DEF new
  <2> QED BY <1>2, <1>3, <2>2, <2>3, <2>4, ForestsStay
<1> QED BY <1>4, <1>5, <1>6, <1>7, <1>8, <1>9

\* An entry of an answer goes to the forest and to the hash tree.
LEMMA SyncApplyReplicas ==
  ASSUME Replicas!ReplicationAssumption, ReplicasOK, bound' = bound,
         NEW s \in syncs, NEW k \in Keys, Replicas!SyncApply(s, k)
  PROVE  ReplicasOK'
<1>1. Replicas!TypeOK /\ Replicas!OnlyWritten
  BY DEF ReplicasOK, Replicas!ReplicasHold
<1>2. s \in Replicas!Answer
  <2>1. s \in Replicas!Job \cup Replicas!Request \cup Replicas!Answer
    BY <1>1 DEF Replicas!TypeOK
  <2> QED BY <2>1 DEF Replicas!SyncApply, Replicas!Job, Replicas!Request
<1> DEFINE n == s.from
           v == s.entries[k]
           new == [s EXCEPT !.entries[k] = None, !.index = Replicas!Capped(@ + 1)]
<1>3. /\ n \in Nodes /\ v \in Values /\ v # None /\ s.index \in 0..bound.index
      /\ calls \in SUBSET Replicas!Call
  BY <1>1, <1>2 DEF Replicas!SyncApply, Replicas!Answer, Replicas!Map, Replicas!TypeOK
<1>4. new \in Replicas!Answer
  BY <1>1, <1>2, IndexesCapped DEF Replicas!Answer, Replicas!Map, Replicas!TypeOK
<1>5. \A j \in Keys : new.entries[j] \in {None, s.entries[j]}
  BY <1>2 DEF Replicas!Answer, Replicas!Map
<1>6. /\ Replicas!ForestInsert(n, k, v, calls)
      /\ leaves' = [leaves EXCEPT ![n][k] = v]
      /\ logIndex' = [logIndex EXCEPT ![n] = Replicas!Later(@, Replicas!Capped(s.index + 1))]
      /\ syncs' = (syncs \ {s}) \cup {new} /\ s.kind = "answer"
      /\ rooted' = rooted /\ term' = term /\ handling' = handling /\ writes' = writes
      /\ lost' = lost /\ targeted' = targeted /\ written' = written
  BY DEF Replicas!SyncApply, Replicas!count
<1> HIDE DEF n, v, new
<1>7. /\ data' \in [Nodes -> Replicas!Map]
      /\ data'[n][k] = v
      /\ \A m \in Nodes, j \in Keys : m # n \/ j # k => data'[m][j] = data[m][j]
      /\ calls' \subseteq Replicas!Call
      /\ \A c \in calls' : c \in calls \/ (c.key = k /\ c.value = v)
  BY <1>1, <1>3, <1>6, ForestInsertDoes
<1>8. /\ leaves' \in [Nodes -> Replicas!Map]
      /\ leaves'[n][k] = v
      /\ \A m \in Nodes, j \in Keys : m # n \/ j # k => leaves'[m][j] = leaves[m][j]
  BY <1>1, <1>3, <1>6 DEF Replicas!TypeOK, Replicas!Map
<1>9. Replicas!TypeOK'
  <2>1. \A m \in Nodes : Replicas!Held(leaves'[m]) \subseteq Replicas!Held(data'[m])
    BY <1>1, <1>3, <1>7, <1>8 DEF Replicas!TypeOK, Replicas!Held
  <2>2. \A m \in Nodes : Replicas!Held(rooted'[m]) \subseteq Replicas!Held(leaves'[m])
    BY <1>1, <1>3, <1>6, <1>8 DEF Replicas!TypeOK, Replicas!Held
  <2>3. logIndex' \in [Nodes -> 0..bound.index]
    <3>1. Replicas!Capped(s.index + 1) \in 0..bound.index
      BY <1>1, <1>3, IndexesCapped DEF Replicas!TypeOK
    <3> QED BY <1>1, <1>3, <1>6, <3>1, IndexesCapped DEF Replicas!TypeOK
  <2> QED BY <1>1, <1>4, <1>6, <1>7, <1>8, <2>1, <2>2, <2>3, CallsStay DEF Replicas!TypeOK
<1>10. Replicas!OnlyWritten'
  <2>1. SUFFICES ASSUME Once
                 PROVE  Replicas!OnlyWritten'
    BY DEF Replicas!OnlyWritten
  <2>2. v = written[k]
    BY <1>1, <1>3, <1>6, <2>1 DEF Replicas!OnlyWritten, v
  <2>3. ASSUME NEW j \in Keys, NEW m \in Nodes
        PROVE  {data'[m][j], leaves'[m][j], rooted'[m][j]} \subseteq {None, written'[j]}
    BY <1>1, <1>6, <1>7, <1>8, <2>1, <2>2 DEF Replicas!OnlyWritten
  <2>4. ASSUME NEW j \in Keys, NEW r \in syncs', r.kind = "answer"
        PROVE  r.entries[j] \in {None, written'[j]}
    BY <1>1, <1>5, <1>6, <2>1, <2>4 DEF Replicas!OnlyWritten
  <2>5. ASSUME NEW c \in (calls \cup handling)', c.key \in Keys
        PROVE  c.value = written'[c.key]
    BY <1>1, <1>6, <1>7, <2>1, <2>2, <2>5 DEF Replicas!OnlyWritten
  <2> QED BY <2>3, <2>4, <2>5 DEF Replicas!OnlyWritten
<1>11. \A c \in handling' : data'[c.to][c.key] # None
  <2>1. \A c \in handling : c.to \in Nodes /\ c.key \in Keys
    BY <1>1 DEF Replicas!TypeOK, Replicas!Call
  <2> QED BY <1>3, <1>6, <1>7, <2>1 DEF ReplicasOK
<1> QED BY <1>9, <1>10, <1>11 DEF ReplicasOK, Replicas!ReplicasHold

\* What the world does: calls and syncs get lost, and terms rise.
LEMMA WorldReplicas ==
  ASSUME Replicas!ReplicationAssumption, ReplicasOK, bound' = bound,
         \/ \E c \in calls : Replicas!LoseInsert(c)
         \/ \E s \in syncs : Replicas!LoseSync(s)
         \/ \E n \in Nodes : Replicas!ElectionTerm(n)
         \/ UNCHANGED Replicas!vars
  PROVE  ReplicasOK'
<1>1. Replicas!TypeOK /\ Replicas!OnlyWritten
  BY DEF ReplicasOK, Replicas!ReplicasHold
<1>2. /\ leaves \in [Nodes -> Replicas!Map] /\ rooted \in [Nodes -> Replicas!Map]
      /\ term \in [Nodes -> 0..bound.term] /\ logIndex \in [Nodes -> 0..bound.index]
      /\ lost \in 0..bound.lost /\ targeted \in 0..bound.targeted
      /\ syncs \subseteq Replicas!Job \cup Replicas!Request \cup Replicas!Answer
      /\ bound.lost \in Nat /\ bound.term \in Nat
  BY <1>1 DEF Replicas!TypeOK, Replicas!ReplicationAssumption
<1>3. Once => \A r \in syncs : r.kind = "answer"
                => \A k \in Keys : r.entries[k] \in {None, written[k]}
  BY <1>1 DEF Replicas!OnlyWritten
<1>4. /\ UNCHANGED <<data, leaves, rooted, logIndex, handling, writes, targeted, written>>
      /\ calls' \subseteq calls /\ syncs' \subseteq syncs
      /\ lost' = lost \/ (lost < bound.lost /\ lost' = lost + 1)
  BY DEF Replicas!LoseInsert, Replicas!LoseSync, Replicas!ElectionTerm, Replicas!vars,
         Replicas!node, Replicas!net, Replicas!count
<1>5. lost' \in 0..bound.lost
  BY <1>2, <1>4
<1>6. term' \in [Nodes -> 0..bound.term]
  <2>1. term' = term \/ \E n \in Nodes : /\ term[n] < bound.term
                                      /\ term' = [term EXCEPT ![n] = term[n] + 1]
    BY DEF Replicas!LoseInsert, Replicas!LoseSync, Replicas!ElectionTerm, Replicas!vars,
           Replicas!node
  <2> QED BY <1>2, <2>1
<1> QED BY <1>2, <1>3, <1>4, <1>5, <1>6, ForestsStay

\* A sync applied between an insert and the rebuild of its hash tree, a call
\* answered late, passed on or lost, and a changed term bring up no key that
\* the forest behind a hash tree lacks and no pair that was not written.
THEOREM NothingInvented == NetworkSpec => []ReplicasHold
<1> USE ReplicationAssumption
<1>1. Replicas!Init => ReplicasOK
  BY InitReplicas
<1>2. ReplicasOK /\ [Replicas!Next]_(Replicas!vars) => ReplicasOK'
  <2> SUFFICES ASSUME ReplicasOK, [Replicas!Next]_(Replicas!vars)
               PROVE  ReplicasOK'
    OBVIOUS
  <2>1. bound' = bound
    BY DEF Replicas!Next, Replicas!vars
  <2>2. ASSUME NEW n \in Nodes, NEW k \in Keys, NEW v \in Values, Replicas!ClientInsert(n, k, v)
        PROVE  ReplicasOK'
    BY <2>1, <2>2, ClientInsertReplicas
  <2>3. CASE Replicas!Handlers
    <3>1. ASSUME NEW c \in calls, Replicas!RefuseInsert(c) \/ Replicas!HandleInsert(c)
          PROVE  ReplicasOK'
      BY <2>1, <3>1, HandleInsertReplicas
    <3>2. ASSUME NEW c \in handling, Replicas!FinishInsert(c)
          PROVE  ReplicasOK'
      BY <2>1, <3>2, FinishInsertReplicas
    <3>3. ASSUME NEW s \in syncs, NEW k \in Keys, Replicas!SyncApply(s, k)
          PROVE  ReplicasOK'
      BY <2>1, <3>3, SyncApplyReplicas
    <3>4. ASSUME NEW s \in syncs,
                 \/ Replicas!SyncSend(s) \/ Replicas!SyncOutdated(s) \/ Replicas!SyncNothing(s)
                 \/ Replicas!SyncDiff(s) \/ Replicas!SyncEnd(s)
                 \/ \E k \in Keys : Replicas!SyncSkip(s, k)
          PROVE  ReplicasOK'
      BY <2>1, <3>4, SyncReplicas
    <3> QED BY <2>3, <3>1, <3>2, <3>3, <3>4 DEF Replicas!Handlers
  <2>4. CASE \/ \E n \in Nodes : Replicas!syncWithPeers(n)
             \/ \E n, m \in Nodes, keys \in SUBSET Keys :
                  Replicas!EvaluateCuriosityAndTriggerSync(n, m, keys)
    BY <2>1, <2>4, SyncStartsReplicas
  <2>5. CASE \/ \E c \in calls : Replicas!LoseInsert(c)
             \/ \E s \in syncs : Replicas!LoseSync(s)
             \/ \E n \in Nodes : Replicas!ElectionTerm(n)
             \/ UNCHANGED Replicas!vars
    BY <2>1, <2>5, WorldReplicas
  <2> QED BY <2>2, <2>3, <2>4, <2>5 DEF Replicas!Next, Replicas!Step
<1>3. ReplicasOK => ReplicasHold
  BY DEF ReplicasOK, ReplicasHold
<1>4. NetworkSpec => Replicas!Spec
  <2>1. NetworkInit => Replicas!Init
    BY DEF NetworkInit
  <2>2. [NetworkNext]_<<part, vars, replicaVars>> => [Replicas!Next]_(Replicas!vars)
    BY DEF NetworkNext, replicaVars, Replicas!vars, Replicas!node, Replicas!net, Replicas!count
  <2> QED BY <2>1, <2>2, PTL DEF NetworkSpec, Replicas!Spec
<1> QED BY <1>1, <1>2, <1>3, <1>4, PTL DEF Replicas!Spec
=============================================================================
