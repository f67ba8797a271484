--------------------------- MODULE MCReplication ---------------------------
(* A small instance of Network for TLC: two replicas.  The connections have  *)
(* one address here, and more of them in MCConnections.                      *)
EXTENDS Network

CONSTANTS a1, d1, d2, n1, n2, k1, v1

OneAddr  == {a1}
TwoDials == {d1, d2}

TwoNodes  == {n1, n2}
FirstNode == {n1}
OneKey    == {k1}
OneValue  == {v1}

\* A call may get lost and terms change, or the log indexes grow, or one node
\* fetches a branch from the other.
TroubleOrLength == {[lost |-> 1, term |-> 1, index |-> 0, targeted |-> 0],
                    [lost |-> 0, term |-> 0, index |-> 2, targeted |-> 0],
                    [lost |-> 0, term |-> 0, index |-> 0, targeted |-> 1]}

\* The replicas make nothing of their bound while connections are made.
MCInit == NetworkInit /\ (part = "peers" => bound.targeted = 1)
MCSpec == MCInit /\ [][NetworkNext]_<<part, vars, replicaVars>> /\ NetworkFairness
=============================================================================
