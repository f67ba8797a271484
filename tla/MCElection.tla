----------------------------- MODULE MCElection -----------------------------
(* Small clusters for TLC. *)
EXTENDS Election, TLC

CONSTANTS n1, n2, n3, nobody,
          Demands   \* does an election take every vote, or a majority?

Three == {n1, n2, n3}

\* The nodes are configured alike.
Alike == Permutations(Nodes)

VARIABLE unanimous   \* of Demands: QuorumSize is the number of nodes
Unanimous == INSTANCE Election WITH
  QuorumSize <- Cardinality(Nodes), MaxEvents <- 3, MaxTogether <- 2

MCInit == Init /\ unanimous \in Demands
MCNext == /\ IF unanimous THEN Unanimous!Next ELSE Next
          /\ UNCHANGED unanimous
MCSpec == MCInit /\ [][MCNext]_<<vars, unanimous>>

\* Fairness to the nodes (their fair steps do not depend on QuorumSize).
MCFairSpec == MCSpec /\ Fairness
=============================================================================
