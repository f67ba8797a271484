----------------------------- MODULE MCMPMCRing -----------------------------
(* A small instance of MPMCRing for TLC. *)
EXTENDS MPMCRing

CONSTANTS a, b, c, d

Goroutines == {a, b, c, d}
Producers  == {a, b}
Consumers  == {b, c}
Watchers   == {d}
=============================================================================
