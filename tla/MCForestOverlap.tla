--------------------------- MODULE MCForestOverlap ---------------------------
(* A small instance of Forest in which an Insert may overlap with an AddTree. *)
EXTENDS Forest

CONSTANTS t1, t2, k1, c1, c2

BothTrees  == {t1, t2}
NoLog      == {}
OneKey     == {k1}
TwoCallers == {c1, c2}
NewTrees   == [t \in BothTrees |-> [k \in OneKey |-> None]]
AnyKey     == [c \in TwoCallers |-> OneKey]
Overlap    == {{{"insert", "add"}}}
=============================================================================
