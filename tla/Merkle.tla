------------------------------- MODULE Merkle -------------------------------
(***************************************************************************)
(* dmt/merkle.go and dmt/merkle_snapshot.go: hash trees over key-value     *)
(* pairs.  Insert and Rebuild replace an immutable snapshot with a         *)
(* compare-and-swap; GetDiff, GetProof and VerifyProof are functions of    *)
(* the snapshots they load.                                                *)
(*                                                                         *)
(* Bytes are naturals, keys and values byte sequences.  SHA-256 is a free  *)
(* constructor: hashing a concatenation is a tuple of what was written, so *)
(* that two hashes are equal when the same bytes went in.  A node of the   *)
(* built tree is its position <<level, index>>; leaves are at level 0.     *)
(***************************************************************************)
EXTENDS Integers, Sequences, FiniteSets

CONSTANTS Trees,          \* the hash trees
          Keys, Values,   \* byte sequences
          None,           \* not a value
          Callers,        \* goroutines that call Insert or Rebuild
          MaxInserts,     \* bound on the calls of Insert
          MaxTogether     \* bound on them, if calls overlap

MerkleAssumption ==
  /\ Keys \subseteq Seq(Nat) /\ Values \subseteq Seq(Nat) /\ None \notin Values
  /\ MaxInserts \in Nat /\ MaxTogether \in 0..MaxInserts

VARIABLES overlap,    \* may two calls run at a time?
          snapshot,   \* of each tree: the published snapshot
          op,         \* of each caller: the running call
          inserts,
          stored      \* history: of each tree, what the Inserts stored

vars == <<overlap, snapshot, op, inserts, stored>>

Leaf     == [key : Keys, value : Values]
\* The leaves in key order, the leaves the root was built from (none: a nil
\* root), and the keys whose leaf is one of those.
Snapshot == [leaves : Seq(Leaf), rooted : Seq(Leaf), linked : SUBSET Keys,
             modified : BOOLEAN]
EmptySnapshot == [leaves |-> <<>>, rooted |-> <<>>, linked |-> {},
                  modified |-> FALSE]

Idle     == [call |-> "none"]
Inserts  == [call : {"insert"}, tree : Trees, leaf : Leaf, seen : Snapshot]
Rebuilds == [call : {"rebuild"}, tree : Trees, seen : Snapshot]

\* bytes.Compare(a, b) < 0
Before(a, b) ==
  \/ Len(a) < Len(b) /\ \A i \in 1..Len(a) : a[i] = b[i]
  \/ \E i \in 1..Len(a) : /\ i <= Len(b) /\ a[i] < b[i]
                          /\ \A j \in 1..(i - 1) : a[j] = b[j]

Sorted(leaves) == \A i, j \in 1..Len(leaves) :
                    i < j => Before(leaves[i].key, leaves[j].key)

TypeOK ==
  /\ overlap \in BOOLEAN
  /\ snapshot \in [Trees -> Snapshot]
  /\ \A t \in Trees : Sorted(snapshot[t].leaves) /\ Sorted(snapshot[t].rooted)
  /\ op \in [Callers -> {Idle} \cup Inserts \cup Rebuilds]
  /\ inserts \in 0..MaxInserts
  /\ stored \in [Trees -> [Keys -> Values \cup {None}]]

Init ==
  /\ overlap \in BOOLEAN
  /\ snapshot = [t \in Trees |-> EmptySnapshot]
  /\ op = [c \in Callers |-> Idle]
  /\ inserts = 0
  /\ stored = [t \in Trees |-> [k \in Keys |-> None]]

-----------------------------------------------------------------------------
(* Insert and Rebuild *)

\* sort.Search: the first leaf whose key is not before k.
Found(leaves, k) ==
  CHOOSE i \in 1..(Len(leaves) + 1) :
    /\ \A j \in 1..(i - 1) : Before(leaves[j].key, k)
    /\ i <= Len(leaves) => ~Before(leaves[i].key, k)

\* The leaf takes the place of one with its key, or goes before the one found.
Stored(leaves, leaf) ==
  LET i == Found(leaves, leaf.key) IN
  IF i <= Len(leaves) /\ leaves[i].key = leaf.key THEN [leaves EXCEPT ![i] = leaf]
  ELSE SubSeq(leaves, 1, i - 1) \o <<leaf>> \o SubSeq(leaves, i, Len(leaves))

\* The next snapshot.  The root and the parents stay those of the last Rebuild.
WithLeaf(s, leaf) == [s EXCEPT !.leaves = Stored(@, leaf), !.linked = @ \ {leaf.key},
                               !.modified = TRUE]

Built(s) == [leaves |-> s.leaves, rooted |-> s.leaves,
             linked |-> {s.leaves[i].key : i \in 1..Len(s.leaves)},
             modified |-> FALSE]

MayStart(c) == op[c] = Idle /\ (overlap \/ \A d \in Callers : op[d] = Idle)

Now(c, call) == op' = [op EXCEPT ![c] = call]

InsertCall(c, t) ==
  /\ MayStart(c)
  /\ inserts < (IF overlap THEN MaxTogether ELSE MaxInserts)
  /\ inserts' = inserts + 1
  /\ \E leaf \in Leaf : Now(c, [call |-> "insert", tree |-> t, leaf |-> leaf,
                                seen |-> snapshot[t]])
  /\ UNCHANGED <<snapshot, stored>>

\* Mutant: the pointer is stored, not swapped.
InsertStore(c) ==
  /\ op[c].call = "insert"
  /\ LET t == op[c].tree  leaf == op[c].leaf IN
       /\ snapshot' = [snapshot EXCEPT ![t] = WithLeaf(op[c].seen, leaf)]
       /\ stored' = [stored EXCEPT ![t][leaf.key] = leaf.value]
  /\ Now(c, Idle)
  /\ UNCHANGED inserts

InsertSwap(c) ==
  /\ op[c].call = "insert" /\ snapshot[op[c].tree] = op[c].seen
  /\ LET t == op[c].tree  leaf == op[c].leaf IN
       /\ snapshot' = [snapshot EXCEPT ![t] = WithLeaf(op[c].seen, leaf)]
       /\ stored' = [stored EXCEPT ![t][leaf.key] = leaf.value]
  /\ Now(c, Idle)
  /\ UNCHANGED inserts

RebuildCall(c, t) ==
  /\ MayStart(c) /\ snapshot[t].modified
  /\ Now(c, [call |-> "rebuild", tree |-> t, seen |-> snapshot[t]])
  /\ UNCHANGED <<snapshot, inserts, stored>>

RebuildSwap(c) ==
  /\ op[c].call = "rebuild" /\ snapshot[op[c].tree] = op[c].seen
  /\ snapshot' = [snapshot EXCEPT ![op[c].tree] = Built(op[c].seen)]
  /\ Now(c, Idle)
  /\ UNCHANGED <<inserts, stored>>

\* A failed compare-and-swap loads the snapshot again; Rebuild returns when it
\* finds it built.
Retry(c) ==
  /\ op[c] # Idle /\ snapshot[op[c].tree] # op[c].seen
  /\ LET now == snapshot[op[c].tree] IN
       Now(c, IF op[c].call = "rebuild" /\ ~now.modified THEN Idle
              ELSE [op[c] EXCEPT !.seen = now])
  /\ UNCHANGED <<snapshot, inserts, stored>>

Call(c) == /\ \E t \in Trees : InsertCall(c, t) \/ RebuildCall(c, t)
           /\ UNCHANGED overlap

GoOn(c) == /\ InsertSwap(c) \/ RebuildSwap(c) \/ Retry(c)
           /\ UNCHANGED overlap

Next == \E c \in Callers : Call(c) \/ GoOn(c)

Spec == Init /\ [][Next]_vars

-----------------------------------------------------------------------------
(* The built tree *)

Half(n) == (n + 1) \div 2

\* How many nodes a level has: buildLevelZeroAlloc pairs them up.
Width(leaves) ==
  LET width[l \in 0..Len(leaves)] ==
        IF l = 0 THEN Len(leaves) ELSE Half(width[l - 1])
  IN width

Height(leaves) == CHOOSE h \in 0..Len(leaves) :
                    /\ Width(leaves)[h] = 1
                    /\ \A l \in 0..(h - 1) : Width(leaves)[l] > 1

Positions(leaves) ==
  UNION {{l} \X (1..Width(leaves)[l]) : l \in 0..Height(leaves)}

TopOf(leaves) == <<Height(leaves), 1>>
LeftOf(p)     == <<p[1] - 1, 2 * p[2] - 1>>
RightOf(p)    == <<p[1] - 1, 2 * p[2]>>

\* Mutant: the value is not written to the hasher.
hashKey(k, v) == <<"kv", k>>

hashKV(k, v) == <<"kv", k \o v>>
hashChildren(hashes) == <<"children", hashes>>

Hash(leaves) ==
  LET hash[p \in Positions(leaves)] ==
        IF p[1] = 0 THEN hashKV(leaves[p[2]].key, leaves[p[2]].value)
        ELSE hashChildren(IF RightOf(p) \in Positions(leaves)
                          THEN <<hash[LeftOf(p)], hash[RightOf(p)]>>
                          ELSE <<hash[LeftOf(p)]>>)
  IN hash

-----------------------------------------------------------------------------
(* GetDiff *)

Lookup(s, k) == {s.leaves[i].value : i \in {j \in 1..Len(s.leaves) :
                                              s.leaves[j].key = k}}

\* The entry for a leaf that the other snapshot lacks or holds differently.
LeafDiff(leaf, other) ==
  IF Lookup(other, leaf.key) = {leaf.value} THEN {}
  ELSE {[key |-> leaf.key, value |-> leaf.value,
         modified |-> Lookup(other, leaf.key) # {}]}

fullDiff(left, right) ==
  UNION {LeafDiff(left.leaves[i], right) : i \in 1..Len(left.leaves)}

\* diffNode walks both trees in step.  A leaf whose key is empty has a nil
\* Key and is taken for an inner node without children.
diffNode(left, right) ==
  LET ours  == Positions(left.rooted)
      other == Positions(right.rooted)
      diff[d \in ours \X other] ==
        LET p == d[1]  q == d[2] IN
        IF Hash(left.rooted)[p] = Hash(right.rooted)[q] THEN {}
        ELSE IF p[1] = 0
        THEN IF left.rooted[p[2]].key = <<>> THEN {}
             ELSE LeafDiff(left.rooted[p[2]], right)
        ELSE (IF q[1] > 0 THEN diff[<<LeftOf(p), LeftOf(q)>>] ELSE {})
             \cup (IF q[1] > 0 /\ RightOf(p) \in ours /\ RightOf(q) \in other
                   THEN diff[<<RightOf(p), RightOf(q)>>] ELSE {})
  IN diff[<<TopOf(left.rooted), TopOf(right.rooted)>>]

\* Mutant: only a leaf that the other tree lacks counts.
GetDiffMissing(left, right) ==
  IF left.rooted = <<>> \/ right.rooted = <<>> THEN fullDiff(left, right)
  ELSE {e \in diffNode(left, right) : ~e.modified}

GetDiff(left, right) ==
  IF left.rooted = <<>> \/ right.rooted = <<>> THEN fullDiff(left, right)
  ELSE diffNode(left, right)

-----------------------------------------------------------------------------
(* GetProof and VerifyProof *)

\* The siblings on the way up from the i-th leaf, each with the side it is
\* on.  A node without a sibling adds nothing.
GetProof(leaves, i) ==
  LET at[l \in 0..Height(leaves)] == IF l = 0 THEN i ELSE Half(at[l - 1])
      proof[l \in 0..Height(leaves)] ==
        IF l = 0 THEN <<>>
        ELSE LET p == <<l - 1, at[l - 1]>>  parent == <<l, at[l]>> IN
             proof[l - 1] \o
             (IF p # LeftOf(parent)
              THEN <<[side |-> "left", hash |-> Hash(leaves)[LeftOf(parent)]]>>
              ELSE IF RightOf(parent) \in Positions(leaves)
              THEN <<[side |-> "right", hash |-> Hash(leaves)[RightOf(parent)]]>>
              ELSE <<>>)
  IN proof[Height(leaves)]

VerifyProof(leaves, k, v, proof) ==
  LET hash[n \in 0..Len(proof)] ==
        IF n = 0 THEN hashKV(k, v)
        ELSE IF proof[n].side = "right"
        THEN hashChildren(<<hash[n - 1], proof[n].hash>>)
        ELSE hashChildren(<<proof[n].hash, hash[n - 1]>>)
  IN leaves # <<>> /\ hash[Len(proof)] = Hash(leaves)[TopOf(leaves)]

-----------------------------------------------------------------------------
(* Properties *)

Held(leaves) == {[key |-> leaves[i].key, value |-> leaves[i].value] :
                   i \in 1..Len(leaves)}
KeysIn(s)    == {e.key : e \in Held(s.leaves)}

\* What a diff of two snapshots is: the pairs of one that the other lacks or
\* holds with another value.
Differences(left, right) ==
  {[key |-> e.key, value |-> e.value, modified |-> e.key \in KeysIn(right)] :
     e \in Held(left.leaves) \ Held(right.leaves)}

\* Overlapping Inserts and Rebuilds of a tree lose nothing: its leaves are
\* what the Inserts stored, whatever snapshot each of them started from.
NoInsertLost ==
  \A t \in Trees :
    Held(snapshot[t].leaves) = {[key |-> k, value |-> stored[t][k]] :
                                  k \in {j \in Keys : stored[t][j] # None}}

\* A tree that does not report a pending rebuild has the root of its leaves: a
\* Rebuild that an Insert overtook does not publish.
RootIsCurrent ==
  \A t \in Trees : ~snapshot[t].modified => snapshot[t].rooted = snapshot[t].leaves

\* Leaves stay sorted and complete, and the root of a built tree is theirs.
HashTreesHold == TypeOK /\ NoInsertLost /\ RootIsCurrent

\* Between two built trees GetDiff reports no pair the other tree holds too,
\* and flags as modified just the keys that it holds differently.
DiffSound ==
  \A t, u \in Trees :
    ~snapshot[t].modified /\ ~snapshot[u].modified =>
      GetDiff(snapshot[t], snapshot[u]) \subseteq Differences(snapshot[t], snapshot[u])

\* Against a tree never built, as the network's Sync takes the diff, every leaf
\* is in it, also when this tree has a rebuild pending.
SyncDiffWhole ==
  \A t \in Trees :
    GetDiff(snapshot[t], EmptySnapshot) = Differences(snapshot[t], EmptySnapshot)

\* GetDiff misses no difference between two built trees with the same keys (the
\* trees have one shape, and diffNode meets each key in both of them), but in the
\* value of an empty key, whose leaf it takes for an inner node.
DiffComplete ==
  \A t, u \in Trees :
    /\ ~snapshot[t].modified /\ ~snapshot[u].modified
    /\ KeysIn(snapshot[t]) = KeysIn(snapshot[u])
    => GetDiff(snapshot[t], snapshot[u])
         = {e \in Differences(snapshot[t], snapshot[u]) : e.key # <<>>}

\* GetProof answers for the keys whose leaf is part of the built tree.
Provable(s) == {i \in 1..Len(s.rooted) : s.rooted[i].key \in s.linked}

Accepts(s, i, k, v) ==
  VerifyProof(s.rooted, k, v, GetProof(s.rooted, i))

\* A key's proof is verified for no pair but one of the same bytes, key and value
\* put together, hence for no value of the key but the one the tree holds, also
\* after later Inserts and before the next Rebuild.  (Where the key ends and the
\* value begins is not hashed: <<1>>, <<2, 3>> is taken for <<1, 2>>, <<3>>.)
ProofBinds ==
  \A t \in Trees : \A i \in Provable(snapshot[t]) : \A k \in Keys, v \in Values :
    LET s == snapshot[t]  leaf == s.rooted[i] IN
    Accepts(s, i, k, v) => /\ k \o v = leaf.key \o leaf.value
                           /\ leaf \in Held(s.leaves)
                           /\ k = leaf.key => v = leaf.value

\* A proof that has a sibling for every level is verified, also after later
\* Inserts and before the next Rebuild.  (A node without a sibling is hashed
\* once more on the way up, which VerifyProof does not do.)
WholeProofVerified ==
  \A t \in Trees : \A i \in Provable(snapshot[t]) :
    LET s == snapshot[t] IN
    Len(GetProof(s.rooted, i)) = Height(s.rooted)
      => Accepts(s, i, s.rooted[i].key, s.rooted[i].value)

\* "GetDiff returns keys that differ": of two built trees, whatever their keys.
DiffNamesAll ==
  \A t, u \in Trees :
    ~snapshot[t].modified /\ ~snapshot[u].modified =>
      GetDiff(snapshot[t], snapshot[u]) = Differences(snapshot[t], snapshot[u])

\* "And the proof should be verifiable": the proof of a key of a built tree, for
\* its value.
ProofVerifies ==
  \A t \in Trees : \A i \in Provable(snapshot[t]) :
    LET s == snapshot[t] IN Accepts(s, i, s.rooted[i].key, s.rooted[i].value)
=============================================================================
