------------------------------- MODULE Forest -------------------------------
(***************************************************************************)
(* dmt/forest.go and dmt/snapshot.go: a forest of trees that should all    *)
(* hold the same data.                                                     *)
(*                                                                         *)
(* Insert loads the list of trees once and inserts into each of them;      *)
(* AddTree appends a tree to the list and then copies the root of a        *)
(* reference tree over the roots of the others.  Nothing orders the two:   *)
(* each step between two loads or stores is an action.                     *)
(***************************************************************************)
EXTENDS Integers, Sequences

CONSTANTS Trees, First,   \* all trees, and the one NewForest starts with
          Prior,          \* what each tree holds when it is added
          Persistent,     \* the trees with a write-ahead log
          Keys, Values, None,
          Callers,        \* goroutines that call Insert or AddTree
          KeysOf,         \* the keys each caller inserts while others do
          Disciplines,    \* each a set of the sets of calls that may overlap
          MaxInserts      \* bound on the calls of Insert

\* What is assumed of the constants.
ForestAssumption ==
  /\ None \notin Values /\ First \in Trees /\ Persistent \subseteq Trees
  /\ KeysOf \in [Callers -> SUBSET Keys]
  /\ Disciplines \subseteq SUBSET SUBSET {"insert", "add"}
  /\ MaxInserts \in Nat

\* How the forest has to be used: Inserts that overlap are of different keys
\* and do not overlap with AddTrees, and trees are added empty.
UsedInOrder ==
  /\ \A c, d \in Callers : c # d => KeysOf[c] \cap KeysOf[d] = {}
  /\ \A d \in Disciplines : {"insert", "add"} \notin d
  /\ Prior = [t \in Trees |-> [k \in Keys |-> None]]

\* NewForest gives its first tree a log; the trees that are added have none.
OnlyFirstPersistent == Persistent \subseteq {First}

VARIABLES together,      \* the discipline the callers keep to
          snapshot,      \* the published list of trees
          root,          \* of each tree: its data, and which pointer that is
          logIndex,      \* of each tree
          logged,        \* what a persistent tree's log replays to; None: not
                         \* all of its records
          op,            \* of each caller: the running call
          inserts,
          latest         \* history: the last value a returned Insert wrote

vars == <<together, snapshot, root, logIndex, logged, op, inserts, latest>>

Map     == [Keys -> Values \cup {None}]
Pointer == Trees \X (0..MaxInserts)   \* allocated by which Insert in which tree
Root    == [data : Map, pointer : Pointer]
Empty   == [k \in Keys |-> None]

Idle    == [call |-> "none"]
Inserts == [call : {"insert"}, serial : 1..MaxInserts, key : Keys,
            value : Values, left : Seq(Trees), step : {"root", "log"}]
Adds    == [call : {"add"}, trees : Seq(Trees), left : Seq(Trees),
            step : {"choose", "load", "state", "copy", "store"},
            reference : Trees, refRoot : Root, refIndex : 0..MaxInserts]

Members(s) == {s[i] : i \in 1..Len(s)}

TypeOK ==
  /\ together \in Disciplines
  /\ snapshot \in Seq(Trees) /\ First \in Members(snapshot)
  /\ root \in [Trees -> Root]
  /\ logIndex \in [Trees -> 0..MaxInserts]
  /\ logged \in [Trees -> Map \cup {None}]
  /\ op \in [Callers -> {Idle} \cup Inserts \cup Adds]
  /\ inserts \in 0..MaxInserts
  /\ latest \in Map

\* NewForest has added its first tree.
Init ==
  /\ together \in Disciplines
  /\ snapshot = <<First>>
  /\ root = [t \in Trees |-> [data |-> Prior[t], pointer |-> <<t, 0>>]]
  /\ logIndex = [t \in Trees |-> 0]
  /\ logged = Prior
  /\ op = [c \in Callers |-> Idle]
  /\ inserts = 0
  /\ latest = Prior[First]

Quiet == \A c \in Callers : op[c] = Idle

\* One call at a time.
Serial == together = {}

\* The assumption about how calls may overlap.
MayStart(c, call) ==
  /\ op[c] = Idle
  /\ \A d \in Callers : op[d] # Idle => {call, op[d].call} \in together

Now(c, call) == op' = [op EXCEPT ![c] = call]

-----------------------------------------------------------------------------
(* Insert *)

InsertCall(c) ==
  /\ MayStart(c, "insert") /\ inserts < MaxInserts
  /\ inserts' = inserts + 1
  /\ \E k \in (IF Serial THEN Keys ELSE KeysOf[c]), v \in Values :
       Now(c, [call |-> "insert", serial |-> inserts', key |-> k, value |-> v,
               left |-> snapshot, step |-> "root"])
  /\ UNCHANGED <<snapshot, root, logIndex, logged, latest>>

\* tree.Insert: the new root, by compare-and-swap.
InsertRoot(c) ==
  /\ op[c].call = "insert" /\ op[c].left # <<>> /\ op[c].step = "root"
  /\ LET t == Head(op[c].left) IN
       root' = [root EXCEPT
                  ![t] = [data |-> [@.data EXCEPT ![op[c].key] = op[c].value],
                          pointer |-> <<t, op[c].serial>>]]
  /\ Now(c, [op[c] EXCEPT !.step = "log"])
  /\ UNCHANGED <<snapshot, logIndex, logged, inserts, latest>>

\* What a record makes of t's log.  It may lie between the pieces of another
\* Insert's, meet an error, or go with what a snapshot drops (DurableTree has
\* the steps of all three).
Relogged(c, t) ==
  IF t \in Persistent /\ logged[t] # None
  THEN {None, [logged[t] EXCEPT ![op[c].key] = op[c].value]}
  ELSE {logged[t]}

\* Mutant: an Insert that stops after its first tree.
InsertLogOnce(c) ==
  /\ op[c].call = "insert" /\ op[c].step = "log"
  /\ LET t == Head(op[c].left) IN
       /\ logIndex' = [logIndex EXCEPT ![t] = @ + 1]
       /\ \E log \in Relogged(c, t) : logged' = [logged EXCEPT ![t] = log]
  /\ Now(c, [op[c] EXCEPT !.left = <<>>, !.step = "root"])
  /\ UNCHANGED <<snapshot, root, inserts, latest>>

\* tree.Insert: the index, and the record in the tree's log.
InsertLog(c) ==
  /\ op[c].call = "insert" /\ op[c].step = "log"
  /\ LET t == Head(op[c].left) IN
       /\ logIndex' = [logIndex EXCEPT ![t] = @ + 1]
       /\ \E log \in Relogged(c, t) : logged' = [logged EXCEPT ![t] = log]
  /\ Now(c, [op[c] EXCEPT !.left = Tail(@), !.step = "root"])
  /\ UNCHANGED <<snapshot, root, inserts, latest>>

InsertReturn(c) ==
  /\ op[c].call = "insert" /\ op[c].left = <<>>
  /\ latest' = [latest EXCEPT ![op[c].key] = op[c].value]
  /\ Now(c, Idle)
  /\ UNCHANGED <<snapshot, root, logIndex, logged, inserts>>

Insert(c) == InsertCall(c) \/ InsertRoot(c) \/ InsertLog(c) \/ InsertReturn(c)

-----------------------------------------------------------------------------
(* AddTree and synchronizeTrees *)

\* The compare-and-swap that appends the tree; a failed one is retried.
AddAppend(c, t) ==
  /\ MayStart(c, "add") /\ t \notin Members(snapshot)
  /\ snapshot' = Append(snapshot, t)
  /\ Now(c, [call |-> "add", trees |-> snapshot', left |-> snapshot',
             step |-> "choose", reference |-> t, refRoot |-> root[t],
             refIndex |-> 0])
  /\ UNCHANGED <<root, logIndex, logged, inserts, latest>>

Holds(t) == root[t].data # Empty

\* Mutant: the fastest tree is the reference even when it is empty.
ChooseFastest(c, fastest) ==
  /\ op[c].call = "add" /\ op[c].step = "choose"
  /\ fastest \in Members(snapshot)
  /\ Now(c, [op[c] EXCEPT !.reference = fastest, !.step = "load"])
  /\ UNCHANGED <<snapshot, root, logIndex, logged, inserts, latest>>

\* syncReferenceTree: the fastest tree of the current list, unless it is
\* empty.  Any tree may have the least average latency; one that has not
\* served a request has average 0.
ChooseReference(c, fastest) ==
  /\ op[c].call = "add" /\ op[c].step = "choose"
  /\ fastest \in Members(snapshot)
  /\ LET trees == op[c].trees
         held  == {i \in 1..Len(trees) : Holds(trees[i])}
         first == IF held = {} THEN trees[1]
                  ELSE trees[CHOOSE i \in held : \A j \in held : i <= j]
     IN Now(c, [op[c] EXCEPT !.reference = IF Holds(fastest) THEN fastest
                                           ELSE first,
                             !.step = "load"])
  /\ UNCHANGED <<snapshot, root, logIndex, logged, inserts, latest>>

LoadReference(c) ==
  /\ op[c].call = "add" /\ op[c].step = "load"
  /\ Now(c, [op[c] EXCEPT !.refRoot = root[op[c].reference], !.step = "state"])
  /\ UNCHANGED <<snapshot, root, logIndex, logged, inserts, latest>>

LoadLogState(c) ==
  /\ op[c].call = "add" /\ op[c].step = "state"
  /\ Now(c, [op[c] EXCEPT !.refIndex = logIndex[op[c].reference],
                          !.step = "copy"])
  /\ UNCHANGED <<snapshot, root, logIndex, logged, inserts, latest>>

\* The reference itself and a tree that shares its root are passed over.
Skip(c) ==
  /\ op[c].call = "add" /\ op[c].step = "copy" /\ op[c].left # <<>>
  /\ LET t == Head(op[c].left) IN
       \/ t = op[c].reference
       \/ root[t].pointer = op[c].refRoot.pointer
  /\ Now(c, [op[c] EXCEPT !.left = Tail(@)])
  /\ UNCHANGED <<snapshot, root, logIndex, logged, inserts, latest>>

CopyRoot(c) ==
  /\ op[c].call = "add" /\ op[c].step = "copy" /\ op[c].left # <<>>
  /\ LET t == Head(op[c].left) IN
       /\ t # op[c].reference
       /\ root[t].pointer # op[c].refRoot.pointer
       /\ root' = [root EXCEPT ![t] = op[c].refRoot]
  /\ Now(c, [op[c] EXCEPT !.step = "store"])
  /\ UNCHANGED <<snapshot, logIndex, logged, inserts, latest>>

CopyIndex(c) ==
  /\ op[c].call = "add" /\ op[c].step = "store"
  /\ logIndex' = [logIndex EXCEPT ![Head(op[c].left)] = op[c].refIndex]
  /\ Now(c, [op[c] EXCEPT !.left = Tail(@), !.step = "copy"])
  /\ UNCHANGED <<snapshot, root, logged, inserts, latest>>

AddReturn(c) ==
  /\ op[c].call = "add" /\ op[c].step = "copy" /\ op[c].left = <<>>
  /\ Now(c, Idle)
  /\ UNCHANGED <<snapshot, root, logIndex, logged, inserts, latest>>

synchronizeTrees(c) ==
  \/ \E t \in Trees : ChooseReference(c, t)
  \/ LoadReference(c) \/ LoadLogState(c) \/ Skip(c) \/ CopyRoot(c)
  \/ CopyIndex(c) \/ AddReturn(c)

AddTree(c) == (\E t \in Trees : AddAppend(c, t)) \/ synchronizeTrees(c)

Next == /\ \E c \in Callers : Insert(c) \/ AddTree(c)
        /\ UNCHANGED together

Spec == Init /\ [][Next]_vars

-----------------------------------------------------------------------------
(* Properties *)

\* When no call runs, every tree of the forest holds the same data: Insert
\* works on every tree and AddTree brings the others along.
Agreement ==
  Quiet => \A t, u \in Members(snapshot) : root[t].data = root[u].data

\* When no call runs, every tree holds what the returned Inserts wrote: no
\* later Insert or AddTree took it back.
Retained ==
  Quiet => \A t \in Members(snapshot), k \in Keys :
             latest[k] # None => root[t].data[k] = latest[k]

\* When calls do not overlap, all trees claim the same log index between them:
\* as many inserts were applied to each, directly or through a copied root.
IndexAgreement ==
  Serial /\ Quiet =>
    \A t, u \in Members(snapshot) : logIndex[t] = logIndex[u]

\* The variables keep to their ranges, and the trees to one log index.
Inv == TypeOK /\ IndexAgreement

\* When no call runs, the log of a persistent tree, if no record of it was lost,
\* replays to the tree: AddTree, which writes no record, has not put into the
\* tree what the log does not hold, nor taken out what it does.
LogHoldsTree ==
  Quiet =>
    \A t \in Persistent \cap Members(snapshot) :
      logged[t] # None => logged[t] = root[t].data

\* Between calls the trees hold the same data, and the variables are in range.
ForestHolds == Inv /\ Agreement

\* Nothing a returned Insert wrote is taken back in the trees, nor by a restart
\* from a log that has lost no record.
InsertsKept == Retained /\ LogHoldsTree
=============================================================================
