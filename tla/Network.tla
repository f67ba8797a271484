------------------------------ MODULE Network ------------------------------
(***************************************************************************)
(* What dmt/network.go does for a node, side by side: the connections it   *)
(* keeps to its peers, and the replication between nodes.  A behaviour is  *)
(* one of the two, and the other rests: replication takes a call to a peer *)
(* for a step that may be lost, whatever connection it goes through.       *)
(***************************************************************************)
EXTENDS Peers

CONSTANTS Nodes, Keys, Values, Writers, Once, MaxWrites, Bounds   \* of the replication

VARIABLES part,
          bound, data, leaves, rooted, term, logIndex, calls, handling, syncs,
          writes, lost, targeted, written

Replicas == INSTANCE Replication

ASSUME ReplicationAssumption == Replicas!ReplicationAssumption

replicaVars == <<bound, data, leaves, rooted, term, logIndex, calls, handling, syncs,
                 writes, lost, targeted, written>>

NetworkInit == part \in {"peers", "replication"} /\ Init /\ Replicas!Init
NetworkNext == \/ part = "peers" /\ Next /\ UNCHANGED <<part, replicaVars>>
               \/ part = "replication" /\ Replicas!Next /\ UNCHANGED <<part, vars>>
NetworkSpec == NetworkInit /\ [][NetworkNext]_<<part, vars, replicaVars>>

\* What Converges needs; Peers says what its own liveness needs.
NetworkFairness == part = "replication" => Replicas!Fairness

-----------------------------------------------------------------------------
(* Properties *)

\* Inserted once, a key has the client's value wherever it has one: in forests
\* and hash trees, in calls and in answers (handleInsert, Sync, applyDiffs).
ReplicasHold == part = "replication" => Replicas!ReplicasHold

\* A key that is inserted reaches all nodes, and their roots come to agree
\* (BroadcastInsert, syncLoop).
Converges == part = "replication" => Replicas!Converges
=============================================================================
