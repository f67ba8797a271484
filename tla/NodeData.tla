------------------------------ MODULE NodeData ------------------------------
(***************************************************************************)
(* What a node of dmt/ keeps: a tree and its log, the forest its trees     *)
(* make up, and the hash trees they are compared by, side by side.  A      *)
(* behaviour is one of the three, and the others rest: they share no       *)
(* state, each takes the others' operations for single steps.              *)
(***************************************************************************)
EXTENDS DurableTree

CONSTANTS Trees, First, Persistent, Prior, Values, None, Callers, KeysOf,
          Disciplines, MaxForested,              \* of the forest
          Compared, ByteKeys, ByteValues,
          MaxHashed, MaxHashedTogether           \* of the hash trees

VARIABLES part,
          together, snapshot, forest, indexes, logged, op, forested, latest,
          snapshots, hashing, hashed, stored

Forests == INSTANCE Forest WITH
  MaxInserts <- MaxForested, root <- forest, logIndex <- indexes, inserts <- forested
HashTrees == INSTANCE Merkle WITH
  Trees <- Compared, Keys <- ByteKeys, Values <- ByteValues,
  MaxInserts <- MaxHashed, MaxTogether <- MaxHashedTogether,
  snapshot <- snapshots, op <- hashing, inserts <- hashed

ASSUME NodeAssumption ==
  /\ Forests!ForestAssumption /\ Forests!UsedInOrder /\ Forests!OnlyFirstPersistent
  /\ HashTrees!MerkleAssumption

forestVars == <<together, snapshot, forest, indexes, logged, op, forested, latest>>
hashVars   == <<snapshots, hashing, hashed, stored>>
treeVars   == <<raced, tree, store, status, writer, limits, ackedRoot>>
all        == <<part, overlap, treeVars, forestVars, hashVars>>

NodeInit == /\ part \in {"log", "forest", "hash trees"}
            /\ Init /\ Forests!Init /\ HashTrees!Init
NodeNext == \/ part = "log" /\ Next /\ UNCHANGED <<part, forestVars, hashVars>>
            \/ part = "forest" /\ Forests!Next
               /\ UNCHANGED <<part, overlap, treeVars, hashVars>>
            \/ part = "hash trees" /\ HashTrees!Next
               /\ UNCHANGED <<part, treeVars, forestVars>>
NodeSpec == NodeInit /\ [][NodeNext]_all

-----------------------------------------------------------------------------
(* Properties *)

\* Between calls the trees hold the same data, and index and roster are those
\* of the trees (Insert, AddTree).
ForestHolds == part = "forest" => Forests!ForestHolds

\* Nothing a returned Insert wrote is taken back, and a persistent tree's log,
\* unless a record of it was lost, replays to what the tree holds (Insert,
\* AddTree).
InsertsKept == part = "forest" => Forests!InsertsKept

\* Hash trees hold what was stored, whichever Inserts overlap (swap, rebuild).
HashTreesHold == part = "hash trees" => HashTrees!HashTreesHold

\* What GetDiff can be trusted with: between built trees it names no pair that
\* both hold; it misses none when the two have the same keys, but the value of an
\* empty key, or when the other was never built.  Between trees of different keys
\* it misses some: DiffNamesAll.
DiffAnswers == part = "hash trees" =>
  HashTrees!DiffSound /\ HashTrees!DiffComplete /\ HashTrees!SyncDiffWhole

\* What VerifyProof can be trusted with: it takes a key's proof for no bytes but
\* those of its pair, and takes it for them if the way up has a sibling on each
\* level.  Without one it refuses the pair itself: ProofVerifies.
ProofAnswers == part = "hash trees" =>
  HashTrees!ProofBinds /\ HashTrees!WholeProofVerified

\* "GetDiff returns keys that differ".
DiffNamesAll == part = "hash trees" => HashTrees!DiffNamesAll

\* "And the proof should be verifiable".
ProofVerifies == part = "hash trees" => HashTrees!ProofVerifies
=============================================================================
