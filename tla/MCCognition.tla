----------------------------- MODULE MCCognition -----------------------------
(* Two callers over tokens "a", "b" and "ab": the first is the beginning of   *)
(* the last, and an edit away from it.                                        *)
EXTENDS Cognition

CONSTANTS t1, t2

A == <<1>>
B == <<2>>
AB == <<1, 2>>

MCThreads == {t1, t2}
MCSequences == {<<A, B>>, <<AB>>}
MCRemembered == {<<AB>>}

\* One caller, and a path that is observed once and then fades.
OneThread == {t1}
DreamSequences == {<<A>>, <<A, A>>}
DreamRemembered == {<<A, A>>}

Symmetry == Permutations(MCThreads)
=============================================================================
