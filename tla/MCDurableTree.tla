--------------------------- MODULE MCDurableTree ---------------------------
(* Small instances of DurableTree for TLC. *)
EXTENDS DurableTree

CONSTANTS k1, k2, w1, w2

BothKeys == {k1, k2}
Both     == {w1, w2}
=============================================================================
