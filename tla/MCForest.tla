------------------------------ MODULE MCForest ------------------------------
(* Small instances of NodeData for TLC: a tree and its log, a forest of three *)
(* trees, and two hash trees.                                                 *)
EXTENDS NodeData, TLC

CONSTANTS t1, t2, t3, k1, k2, v1, v2, c1, c2

BothKeys   == {k1, k2}
BothValues == {v1, v2}
TwoCallers == {c1, c2}

\* Trees that are new, since NewForest and AddTree get them empty.  Calls come
\* one at a time, or Inserts overlap with Inserts, of different keys, and
\* AddTrees with AddTrees.
ThreeTrees  == {t1, t2, t3}
FirstTree   == {t1}
NewTrees    == [t \in ThreeTrees |-> [k \in BothKeys |-> None]]
OneKeyEach  == [c \in TwoCallers |-> IF c = c1 THEN {k1} ELSE {k2}]
SerialOrNot == {{}, {{"insert"}, {"add"}}}

\* Values are alike, and so are the callers, each with the key it inserts.
Alike == Permutations(BothValues)
           \cup {k1 :> k2 @@ k2 :> k1 @@ c1 :> c2 @@ c2 :> c1}

\* Keys of which one is a prefix of another, the empty one among them, and values
\* such that different pairs have the same bytes: <<1>>, <<2, 3>> and <<1, 2>>, <<3>>.
TwoTrees    == {t1, t2}
PrefixKeys  == {<<>>, <<1>>, <<1, 2>>}
TailValues  == {<<3>>, <<2, 3>>}

\* Keys and values of which no two pairs have the same bytes.
PlainKeys    == {<<1>>, <<2>>, <<3>>}
PlainValues  == {<<4>>}

\* What the others make of overlap and together is nothing.
MCInit == /\ NodeInit
          /\ part # "forest" => together = {}
          /\ part = "forest" => ~overlap
MCSpec == MCInit /\ [][NodeNext]_all
=============================================================================
