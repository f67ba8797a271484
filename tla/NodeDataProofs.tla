--------------------------- MODULE NodeDataProofs ---------------------------
(***************************************************************************)
(* What NodeData promises holds for any keys, values, trees, callers and   *)
(* bounds.                                                                 *)
(*                                                                         *)
(* Of DurableTree, CallsOK is about every interleaving: what a running     *)
(* call carries fits the step it is at, and every piece of the log is of a *)
(* record of its kind.  TurnOK is about calls that come one after the      *)
(* other, beside which no snapshot runs, and a log whose writes do not     *)
(* fail: it follows one record from the index it takes to the sync, and a  *)
(* snapshot from file to file, and says of every prefix a crash can leave  *)
(* what a restart will make of it.                                         *)
(*                                                                         *)
(* HashTreesHold of Merkle is inductive.  What there is to prove is that   *)
(* the order of the keys is one (BeforeIsTotal, BeforeIsTransitive), so    *)
(* that a search ends where a leaf belongs (FoundIs, StoredDoes).          *)
(*                                                                         *)
(* Forest has proofs of its own (ForestProofs), which are used here.       *)
(***************************************************************************)
EXTENDS NodeData, CommonLemmas

-----------------------------------------------------------------------------
(* The invariant *)

InsertRecord   == [op : {"insert"}, key : Keys, value : Inserted, term : Nat,
                   index : Nat]
TermRecord     == [op : {"term"}, term : Nat]
SnapshotRecord == [op : {"snapshot"}, term : Nat, index : Nat]

Busy(w)     == pc[w] # "idle"
Logging(w)  == pc[w] \in {"frame", "key", "value", "flush", "sync", "store"}

\* What a call carries at each of its steps.
CarriesOK ==
  \A w \in Writers :
    /\ pc[w] \in {"swap", "index", "frame", "key", "value"} =>
         entry[w] \in InsertRecord
    /\ pc[w] = "term" => entry[w] \in TermRecord
    /\ pc[w] \in {"flush", "sync", "store"} =>
         entry[w] \in InsertRecord \cup TermRecord
    /\ Logging(w) /\ entry[w].op = "insert" => entry[w].index > 0

\* A root that is still published is the one that was loaded.
SeenOK ==
  \A w \in Writers : pc[w] = "swap" =>
    /\ seen[w].version <= version
    /\ seen[w].version = version => seen[w].root = root

\* Frames, keys and values are of inserts, which have an index.
Fits(p) == /\ p.part \in {"frame", "key", "value"} => p.of.op = "insert"
           /\ p.part = "whole" => p.of.op # "insert"
           /\ p.of.op = "insert" => p.of.index > 0

PiecesOK == /\ \A i \in 1..Len(file) : Fits(file[i])
            /\ \A i \in 1..Len(buffer) : Fits(buffer[i])

CallsOK == /\ CarriesOK /\ SeenOK /\ PiecesOK
           /\ status # "open" => Idle /\ snap = "none"

\* The records of a log are in the order of their indexes, each insert's after
\* that of the one before.
Ordered(log) ==
  \A i, j \in 1..Len(log) :
    i < j /\ log[i].of.op # "term" /\ log[j].of.op # "term" =>
      /\ log[i].of.index <= log[j].of.index
      /\ log[i].part = "value" /\ log[j].part = "value" =>
           log[i].of.index < log[j].of.index

\* What a crash leaves of a file.
Beginning(log, n) == SubSeq(log, 1, n)

\* The tree after a restart from a log, when no snapshot has replaced it.
Rebuilds(log, trees) == ~Snapshotted => Replay(log) \in trees

\* One whole record after the other, to the end.
Entire(log) == WellFormed(log) /\ ~Torn(log)

\* The file replays to what the calls that have returned made of the tree, or
\* to what the running call has made of it.
Returned == /\ ReplayTerm(file) = lastTerm /\ ReplayIndex(file) = lastIndex
            /\ Rebuilds(file, {ackedRoot}) /\ Entire(file)
Running  == /\ ReplayTerm(file) = term /\ ReplayIndex(file) = logIndex
            /\ Rebuilds(file, {root}) /\ Entire(file)

\* A log a crash may leave: that of the calls that had returned, with the
\* record of the running one, without it, or with a part of it.
CutOK(log) == /\ WellFormed(log) /\ Rebuilds(log, {ackedRoot, root})
              /\ Torn(log) => Rebuilds(log, {ackedRoot})

\* Nothing is left to write but a snapshot's record, and what was written is
\* synced.
Clean  == (snap = "none" => buffer = <<>>) /\ synced = Len(file)
Quiet  == root = ackedRoot /\ term = lastTerm /\ logIndex = lastIndex
Settled == Quiet /\ Clean /\ Returned

Part(w, piece) == [part |-> piece, of |-> entry[w]]

\* The pieces a call has written so far.
Written(w) ==
  CASE pc[w] = "key" -> <<Part(w, "frame")>>
    [] pc[w] = "value" -> <<Part(w, "frame"), Part(w, "key")>>
    [] pc[w] = "flush" ->
         IF entry[w].op = "insert"
         THEN <<Part(w, "frame"), Part(w, "key"), Part(w, "value")>>
         ELSE <<Part(w, "whole")>>
    [] OTHER -> <<>>

\* The record is of the term and, if of an insert, of the index that are next.
Current(w) ==
  /\ root = Acked(w) /\ entry[w].term = term
  /\ entry[w].op = "insert" =>
       entry[w].index = logIndex /\ logIndex = lastIndex + 1
  /\ entry[w].op = "term" => logIndex = lastIndex

\* How far the running call has got.
StepOK(w) ==
  /\ pc[w] = "swap" => Settled
  /\ pc[w] = "index" =>
       /\ root = Acked(w) /\ term = lastTerm /\ logIndex = lastIndex
       /\ Clean /\ Returned
  /\ pc[w] \in {"frame", "key", "value", "term", "flush"} =>
       /\ Current(w) /\ buffer = Written(w) /\ synced = Len(file) /\ Returned
  /\ pc[w] = "sync" =>
       /\ Current(w) /\ buffer = <<>> /\ Running
       /\ \A n \in synced..Len(file) : CutOK(Beginning(file, n))
  /\ pc[w] = "store" => Current(w) /\ Clean /\ Running

OneCall == \A v, w \in Writers : Busy(v) /\ Busy(w) => v = w

\* A snapshot is synced.
SnapshotOK ==
  \A i \in 1..Len(file) : file[i].of.op = "snapshot" => i <= synced

\* The file the store has open, as far as a snapshot has got.
HandleOK == /\ snap \in {"none", "replace"} => walFile = "log"
            /\ snap = "close" => walFile = "old"

TurnOK ==
  /\ Ordered(file) /\ SnapshotOK /\ HandleOK
  /\ snap # "none" => Idle
  /\ status = "open" => /\ ~treeError /\ OneCall
                        /\ Idle => Settled
                        /\ \A w \in Writers : Busy(w) => StepOK(w)
  /\ status = "down" => Clean /\ CutOK(file)

IInv == TypeOK /\ CallsOK /\ (LoggedInTurn => TurnOK)

-----------------------------------------------------------------------------
(* What a log replays to *)

\* The fields that the records of each kind have.
LEMMA RecordFields ==
  ASSUME NEW r \in Record
  PROVE  /\ r.term \in Nat /\ r.op \in {"insert", "term", "snapshot"}
         /\ r.op # "term" => r.index \in Nat
         /\ r.op = "insert" => r.key \in Keys /\ r.value \in Inserted
  BY DEF Record

LEMMA PieceFields ==
  ASSUME NEW p \in Piece
  PROVE  p.of \in Record /\ p.part \in {"frame", "key", "value", "whole"}
  BY DEF Piece

\* A key has the value of its last insert.
LEMMA ReplayLast ==
  ASSUME NEW log \in Seq(Piece), NEW k \in Keys, NEW i \in WrittenTo(log, k),
         \A j \in WrittenTo(log, k) : j <= i
  PROVE  Replay(log)[k] = log[i].of.value
<1>1. WrittenTo(log, k) \subseteq Nat
  BY DEF WrittenTo
<1> DEFINE c == CHOOSE m \in WrittenTo(log, k) :
                  \A j \in WrittenTo(log, k) : j <= m
<1>2. c \in WrittenTo(log, k) /\ \A j \in WrittenTo(log, k) : j <= c
  OBVIOUS
<1>3. c = i
  <2> HIDE DEF c
  <2> QED BY <1>1, <1>2
<1>4. WrittenTo(log, k) # {}
  OBVIOUS
<1> QED BY <1>3, <1>4 DEF Replay

LEMMA ReplayNone ==
  ASSUME NEW log \in Seq(Piece), NEW k \in Keys, WrittenTo(log, k) = {}
  PROVE  Replay(log)[k] = Absent
  BY DEF Replay

LEMMA LastWritten ==
  ASSUME NEW log \in Seq(Piece), NEW k \in Keys, WrittenTo(log, k) # {}
  PROVE  \E i \in WrittenTo(log, k) : \A j \in WrittenTo(log, k) : j <= i
<1>1. Len(log) \in Nat /\ WrittenTo(log, k) \in SUBSET (1..Len(log))
  BY DEF WrittenTo
<1> QED BY <1>1, Largest

LEMMA ReplayType ==
  ASSUME NEW log \in Seq(Piece), \A i \in 1..Len(log) : Fits(log[i])
  PROVE  Replay(log) \in Map
<1> SUFFICES ASSUME NEW k \in Keys
             PROVE  Replay(log)[k] \in Inserted \cup {Absent}
  BY DEF Replay, Map
<1>1. CASE WrittenTo(log, k) = {}
  BY <1>1, ReplayNone
<1>2. CASE WrittenTo(log, k) # {}
  <2>1. PICK i \in WrittenTo(log, k) : \A j \in WrittenTo(log, k) : j <= i
    BY <1>2, LastWritten
  <2>2. i \in 1..Len(log) /\ log[i].part = "value"
    BY DEF WrittenTo
  <2>3. log[i] \in Piece /\ Fits(log[i])
    BY <2>2
  <2>4. log[i].of.value \in Inserted
    BY <2>2, <2>3, PieceFields, RecordFields DEF Fits
  <2> QED BY <2>1, <2>4, ReplayLast
<1> QED BY <1>1, <1>2

\* One more piece changes the tree in its key when it is a value, and not at
\* all otherwise.
With(tr, p) == IF p.part = "value" THEN [tr EXCEPT ![p.of.key] = p.of.value]
               ELSE tr

LEMMA ReplayNext ==
  ASSUME NEW log \in Seq(Piece), NEW more \in Seq(Piece),
         Len(more) = Len(log) + 1,
         \A i \in 1..Len(log) : more[i] = log[i],
         NEW p, p = more[Len(more)]
  PROVE  Replay(more) = With(Replay(log), p)
<1>1. \A k \in Keys : WrittenTo(log, k) \subseteq 1..Len(log)
  BY DEF WrittenTo
<1>2. \A k \in Keys :
        WrittenTo(more, k) =
          IF p.part = "value" /\ p.of.key = k
          THEN WrittenTo(log, k) \cup {Len(more)} ELSE WrittenTo(log, k)
  <2>1. 1..Len(more) = (1..Len(log)) \cup {Len(more)}
    OBVIOUS
  <2> QED BY <2>1 DEF WrittenTo
<1>3. ASSUME NEW k \in Keys, ~(p.part = "value" /\ p.of.key = k)
      PROVE  Replay(more)[k] = Replay(log)[k]
  <2>1. WrittenTo(more, k) = WrittenTo(log, k)
    BY <1>2, <1>3
  <2>2. CASE WrittenTo(log, k) = {}
    BY <2>1, <2>2, ReplayNone
  <2>3. CASE WrittenTo(log, k) # {}
    <3>1. PICK i \in WrittenTo(log, k) : \A j \in WrittenTo(log, k) : j <= i
      BY <2>3, LastWritten
    <3>2. more[i] = log[i]
      BY <1>1, <3>1
    <3>3. Replay(log)[k] = log[i].of.value
      BY <3>1, ReplayLast
    <3>4. Replay(more)[k] = more[i].of.value
      BY <2>1, <3>1, ReplayLast
    <3> QED BY <3>2, <3>3, <3>4
  <2> QED BY <2>2, <2>3
<1>4. ASSUME NEW k \in Keys, p.part = "value", p.of.key = k
      PROVE  Replay(more)[k] = p.of.value
  <2>1. WrittenTo(more, k) = WrittenTo(log, k) \cup {Len(more)}
    BY <1>2, <1>4
  <2>2. \A j \in WrittenTo(more, k) : j <= Len(more)
    BY <1>1, <2>1
  <2> QED BY <2>1, <2>2, ReplayLast
<1>5. /\ Replay(more) = [k \in Keys |-> Replay(more)[k]]
      /\ Replay(log) = [k \in Keys |-> Replay(log)[k]]
  BY DEF Replay
<1>6. CASE p.part # "value"
  BY <1>3, <1>5, <1>6 DEF With
<1>7. CASE p.part = "value"
  <2>1. \A k \in Keys : Replay(more)[k] =
          [Replay(log) EXCEPT ![p.of.key] = p.of.value][k]
    BY <1>3, <1>4, <1>5, <1>7
  <2> QED BY <1>5, <1>7, <2>1 DEF With
<1> QED BY <1>6, <1>7

-----------------------------------------------------------------------------
(* The index and the term a restart goes on from *)

LEMMA IndexLast ==
  ASSUME NEW log \in Seq(Piece), NEW i \in Indexed(log),
         \A j \in Indexed(log) : j <= i
  PROVE  ReplayIndex(log) = log[i].of.index
<1>1. Indexed(log) \subseteq Nat
  BY DEF Indexed
<1> DEFINE c == CHOOSE m \in Indexed(log) : \A j \in Indexed(log) : j <= m
<1>2. c \in Indexed(log) /\ \A j \in Indexed(log) : j <= c
  OBVIOUS
<1>3. c = i
  <2> HIDE DEF c
  <2> QED BY <1>1, <1>2
<1>4. Indexed(log) # {}
  OBVIOUS
<1> QED BY <1>3, <1>4 DEF ReplayIndex

LEMMA LastIndexed ==
  ASSUME NEW log \in Seq(Piece), Indexed(log) # {}
  PROVE  \E i \in Indexed(log) : \A j \in Indexed(log) : j <= i
<1>1. Len(log) \in Nat /\ Indexed(log) \in SUBSET (1..Len(log))
  BY DEF Indexed
<1> QED BY <1>1, Largest

LEMMA IndexType ==
  ASSUME NEW log \in Seq(Piece)
  PROVE  ReplayIndex(log) \in Nat
<1>1. CASE Indexed(log) = {}
  BY <1>1 DEF ReplayIndex
<1>2. CASE Indexed(log) # {}
  <2>1. PICK i \in Indexed(log) : \A j \in Indexed(log) : j <= i
    BY <1>2, LastIndexed
  <2>2. i \in 1..Len(log) /\ log[i].of.op # "term" /\ log[i] \in Piece
    BY DEF Indexed
  <2> QED BY <2>1, <2>2, IndexLast, PieceFields, RecordFields
<1> QED BY <1>1, <1>2

LEMMA TermType ==
  ASSUME NEW log \in Seq(Piece)
  PROVE  ReplayTerm(log) \in Nat
<1>1. CASE log = <<>>
  BY <1>1 DEF ReplayTerm
<1>2. CASE log # <<>>
  <2>1. log[Len(log)] \in Piece
    BY <1>2
  <2> QED BY <1>2, <2>1, PieceFields, RecordFields DEF ReplayTerm
<1> QED BY <1>1, <1>2

\* In a log that is in order the index is the highest.
LEMMA IndexHighest ==
  ASSUME NEW log \in Seq(Piece), Ordered(log), NEW i \in Indexed(log)
  PROVE  log[i].of.index <= ReplayIndex(log)
<1>1. PICK m \in Indexed(log) : \A j \in Indexed(log) : j <= m
  BY LastIndexed
<1>2. ReplayIndex(log) = log[m].of.index
  BY <1>1, IndexLast
<1>3. /\ i \in 1..Len(log) /\ log[i].of.op # "term"
      /\ m \in 1..Len(log) /\ log[m].of.op # "term"
  BY DEF Indexed
<1>4. log[m].of.index \in Nat
  BY <1>2, IndexType
<1>5. CASE i = m
  BY <1>2, <1>4, <1>5
<1>6. CASE i # m
  <2>1. i < m
    BY <1>1, <1>3, <1>6
  <2> QED BY <1>2, <1>3, <2>1 DEF Ordered
<1> QED BY <1>5, <1>6

LEMMA IndexNext ==
  ASSUME NEW log \in Seq(Piece), NEW more \in Seq(Piece),
         Len(more) = Len(log) + 1,
         \A i \in 1..Len(log) : more[i] = log[i],
         NEW p, p = more[Len(more)]
  PROVE  ReplayIndex(more) =
           IF p.of.op = "term" THEN ReplayIndex(log) ELSE p.of.index
<1>1. Indexed(log) \subseteq 1..Len(log)
  BY DEF Indexed
<1>2. Indexed(more) = IF p.of.op = "term" THEN Indexed(log)
                      ELSE Indexed(log) \cup {Len(more)}
  <2>1. 1..Len(more) = (1..Len(log)) \cup {Len(more)}
    OBVIOUS
  <2> QED BY <2>1 DEF Indexed
<1>3. CASE p.of.op # "term"
  <2>1. \A j \in Indexed(more) : j <= Len(more)
    BY <1>1, <1>2
  <2>2. Len(more) \in Indexed(more)
    BY <1>2, <1>3
  <2>3. ReplayIndex(more) = more[Len(more)].of.index
    BY <2>1, <2>2, IndexLast
  <2> QED BY <1>3, <2>3
<1>4. CASE p.of.op = "term" /\ Indexed(log) = {}
  BY <1>2, <1>4 DEF ReplayIndex
<1>5. CASE p.of.op = "term" /\ Indexed(log) # {}
  <2>1. PICK i \in Indexed(log) : \A j \in Indexed(log) : j <= i
    BY <1>5, LastIndexed
  <2>2. more[i] = log[i]
    BY <1>1, <2>1
  <2>3. ReplayIndex(log) = log[i].of.index
    BY <2>1, IndexLast
  <2>4. Indexed(more) = Indexed(log)
    BY <1>2, <1>5
  <2>5. ReplayIndex(more) = more[i].of.index
    BY <2>1, <2>4, IndexLast
  <2> QED BY <1>5, <2>2, <2>3, <2>5
<1> QED BY <1>3, <1>4, <1>5

-----------------------------------------------------------------------------
(* A flush *)

LEMMA Kinds ==
  /\ \A r \in InsertRecord : /\ r \in Record /\ r.op = "insert"
                             /\ r.key \in Keys /\ r.value \in Inserted
                             /\ r.term \in Nat /\ r.index \in Nat
  /\ \A r \in TermRecord : r \in Record /\ r.op = "term" /\ r.term \in Nat
  BY DEF InsertRecord, TermRecord, Record

LEMMA Prefix ==
  ASSUME NEW log \in Seq(Piece), NEW n \in 0..Len(log)
  PROVE  /\ Beginning(log, n) \in Seq(Piece) /\ Len(Beginning(log, n)) = n
         /\ \A i \in 1..n : Beginning(log, n)[i] = log[i]
  BY DEF Beginning

LEMMA WholePrefix ==
  ASSUME NEW log \in Seq(Piece)
  PROVE  Beginning(log, Len(log)) = log
  BY DEF Beginning

LEMMA OrderedPrefix ==
  ASSUME NEW log \in Seq(Piece), NEW n \in 0..Len(log), Ordered(log)
  PROVE  Ordered(Beginning(log, n))
<1>1. /\ Len(Beginning(log, n)) = n
      /\ \A i \in 1..n : Beginning(log, n)[i] = log[i]
  BY Prefix
<1>2. \A i \in 1..n : i \in 1..Len(log)
  OBVIOUS
<1> QED BY <1>1, <1>2 DEF Ordered

\* A prefix with one piece more than another.
LEMMA PrefixNext ==
  ASSUME NEW log \in Seq(Piece), NEW n \in 0..Len(log), NEW m \in 1..Len(log),
         m = n + 1
  PROVE  /\ Beginning(log, n) \in Seq(Piece) /\ Beginning(log, m) \in Seq(Piece)
         /\ Len(Beginning(log, m)) = Len(Beginning(log, n)) + 1
         /\ \A i \in 1..Len(Beginning(log, n)) :
              Beginning(log, m)[i] = Beginning(log, n)[i]
         /\ log[m] = Beginning(log, m)[Len(Beginning(log, m))]
<1>1. m \in 0..Len(log)
  OBVIOUS
<1>2. /\ Beginning(log, n) \in Seq(Piece) /\ Len(Beginning(log, n)) = n
      /\ \A i \in 1..n : Beginning(log, n)[i] = log[i]
  BY Prefix
<1>3. /\ Beginning(log, m) \in Seq(Piece) /\ Len(Beginning(log, m)) = m
      /\ \A i \in 1..m : Beginning(log, m)[i] = log[i]
  BY <1>1, Prefix
<1>4. m \in 1..m /\ \A i \in 1..n : i \in 1..m
  OBVIOUS
<1> QED BY <1>2, <1>3, <1>4

LEMMA PrefixReplay ==
  ASSUME NEW log \in Seq(Piece), NEW n \in 0..Len(log), NEW m \in 1..Len(log),
         m = n + 1, NEW p, p = log[m]
  PROVE  /\ Replay(Beginning(log, m)) = With(Replay(Beginning(log, n)), p)
         /\ ReplayIndex(Beginning(log, m)) =
              IF p.of.op = "term" THEN ReplayIndex(Beginning(log, n))
              ELSE p.of.index
<1> DEFINE short == Beginning(log, n)
           long  == Beginning(log, m)
<1>1. /\ short \in Seq(Piece) /\ long \in Seq(Piece)
      /\ Len(long) = Len(short) + 1
      /\ \A i \in 1..Len(short) : long[i] = short[i]
      /\ p = long[Len(long)]
  BY PrefixNext
<1> HIDE DEF short, long
<1>2. Replay(long) = With(Replay(short), p)
  BY <1>1, ReplayNext
<1>3. ReplayIndex(long) =
        IF p.of.op = "term" THEN ReplayIndex(short) ELSE p.of.index
  BY <1>1, IndexNext
<1> QED BY <1>2, <1>3 DEF short, long

\* The three pieces of an insert.
LEMMA ThreePieces ==
  ASSUME NEW log \in Seq(Piece),
         NEW p \in Piece, NEW q \in Piece, NEW r \in Piece
  PROVE  LET more == log \o <<p, q, r>> IN
         /\ more \in Seq(Piece) /\ Len(more) = Len(log) + 3
         /\ \A i \in 1..Len(log) : more[i] = log[i]
         /\ more[Len(log) + 1] = p /\ more[Len(log) + 2] = q
         /\ more[Len(log) + 3] = r
         /\ Beginning(more, Len(log)) = log
<1>1. <<p, q, r>> \in Seq(Piece)
  OBVIOUS
<1> QED BY <1>1 DEF Beginning

LEMMA ThreeReplayed ==
  ASSUME NEW log \in Seq(Piece), NEW more \in Seq(Piece), NEW e,
         Len(more) = Len(log) + 3, Beginning(more, Len(log)) = log,
         e.op = "insert",
         more[Len(log) + 1] = [part |-> "frame", of |-> e],
         more[Len(log) + 2] = [part |-> "key", of |-> e],
         more[Len(log) + 3] = [part |-> "value", of |-> e]
  PROVE  /\ \A n \in Len(log)..(Len(log) + 2) :
              Replay(Beginning(more, n)) = Replay(log)
         /\ Replay(more) = [Replay(log) EXCEPT ![e.key] = e.value]
         /\ ReplayIndex(more) = e.index /\ ReplayTerm(more) = e.term
<1> DEFINE l  == Len(log)
           l1 == l + 1
           l2 == l + 2
           l3 == l + 3
           p  == more[l1]
           q  == more[l2]
           r  == more[l3]
<1>1. /\ p.part = "frame" /\ q.part = "key" /\ r.part = "value" /\ r.of = e
      /\ l \in Nat /\ Len(more) = l3
  OBVIOUS
<1>2. /\ l \in 0..Len(more) /\ l1 \in 0..Len(more) /\ l2 \in 0..Len(more)
      /\ l1 \in 1..Len(more) /\ l2 \in 1..Len(more) /\ l3 \in 1..Len(more)
      /\ l2 = l1 + 1 /\ l3 = l2 + 1 /\ l1 = l + 1
      /\ \A n \in l..l2 : n = l \/ n = l1 \/ n = l2
  BY <1>1
<1>3. Beginning(more, l) = log
  OBVIOUS
<1>4. Beginning(more, l3) = more
  BY <1>1, WholePrefix
<1>5. ReplayTerm(more) = e.term
  BY <1>1 DEF ReplayTerm
<1> HIDE DEF l, l1, l2, l3, p, q, r
<1>6. Replay(Beginning(more, l1)) = With(Replay(log), p)
  BY <1>2, <1>3, PrefixReplay DEF p
<1>7. Replay(Beginning(more, l2)) = With(Replay(Beginning(more, l1)), q)
  BY <1>2, PrefixReplay DEF q
<1>8. /\ Replay(Beginning(more, l3)) = With(Replay(Beginning(more, l2)), r)
      /\ ReplayIndex(Beginning(more, l3)) =
           IF r.of.op = "term" THEN ReplayIndex(Beginning(more, l2))
           ELSE r.of.index
  <2>1. r = more[l3]
    BY DEF r
  <2> QED BY <1>2, <2>1, PrefixReplay
<1>9. /\ Replay(Beginning(more, l1)) = Replay(log)
      /\ Replay(Beginning(more, l2)) = Replay(log)
  BY <1>1, <1>6, <1>7 DEF With
<1>10. /\ Replay(more) = [Replay(log) EXCEPT ![e.key] = e.value]
       /\ ReplayIndex(more) = e.index
  BY <1>1, <1>4, <1>8, <1>9 DEF With
<1>11. \A n \in l..l2 : Replay(Beginning(more, n)) = Replay(log)
  BY <1>2, <1>3, <1>9
<1> QED BY <1>5, <1>10, <1>11 DEF l, l2

\* The one piece of a term.
LEMMA OnePiece ==
  ASSUME NEW log \in Seq(Piece), NEW p \in Piece
  PROVE  LET more == log \o <<p>> IN
         /\ more \in Seq(Piece) /\ Len(more) = Len(log) + 1
         /\ \A i \in 1..Len(log) : more[i] = log[i]
         /\ more[Len(log) + 1] = p
         /\ Beginning(more, Len(log)) = log
<1>1. <<p>> \in Seq(Piece)
  OBVIOUS
<1> QED BY <1>1 DEF Beginning

LEMMA OneReplayed ==
  ASSUME NEW log \in Seq(Piece), NEW more \in Seq(Piece), NEW e,
         Len(more) = Len(log) + 1,
         \A i \in 1..Len(log) : more[i] = log[i], e.op = "term",
         more[Len(log) + 1] = [part |-> "whole", of |-> e]
  PROVE  /\ Replay(more) = Replay(log)
         /\ ReplayIndex(more) = ReplayIndex(log) /\ ReplayTerm(more) = e.term
<1> DEFINE p == more[Len(more)]
<1>1. p.part = "whole" /\ p.of = e /\ more # <<>>
  OBVIOUS
<1> HIDE DEF p
<1>2. Replay(more) = With(Replay(log), p)
  BY ReplayNext DEF p
<1>3. ReplayIndex(more) =
        IF p.of.op = "term" THEN ReplayIndex(log) ELSE p.of.index
  BY IndexNext DEF p
<1>4. ReplayTerm(more) = e.term
  BY <1>1 DEF ReplayTerm, p
<1> QED BY <1>1, <1>2, <1>3, <1>4 DEF With

-----------------------------------------------------------------------------
(* Every interleaving: types and what the calls carry *)

Calls == TypeOK /\ CallsOK

LEMMA CallsInit == Init => Calls
<1> SUFFICES ASSUME Init PROVE Calls
  OBVIOUS
<1> USE TreeAssumption
<1>1. Empty \in Map /\ NotSeen \in [version : Nat, root : Map]
  BY DEF Empty, Map, Absent, NotSeen
<1>2. <<>> \in Seq(Piece) /\ Len(<<>>) = 0
  OBVIOUS
<1>3. /\ pc \in [Writers -> Labels]
      /\ entry \in [Writers -> Record \cup {NoRecord}]
      /\ seen \in [Writers -> [version : Nat, root : Map]]
  BY <1>1 DEF Init, Labels
<1>4. TypeOK
  <2>1. /\ root \in Map /\ ackedRoot \in Map
        /\ buffer \in Seq(Piece) /\ file \in Seq(Piece)
    BY <1>1, <1>2 DEF Init
  <2>2. /\ synced \in 0..Len(file)
        /\ \A i \in 1..Len(file) : file[i].of.op = "insert" => file[i].of.index > 0
    BY <1>2 DEF Init
  <2> QED BY <1>3, <2>1, <2>2 DEF Init, TypeOK, Snapping, Handles
<1>5. CallsOK
  BY DEF Init, CallsOK, CarriesOK, SeenOK, PiecesOK, Idle, Logging
<1> QED BY <1>4, <1>5 DEF Calls

\* A call that returns carries nothing.
LEMMA ReturnKeeps ==
  ASSUME Calls, NEW w \in Writers, Return(w),
         UNCHANGED <<root, version, buffer, file, status>>, status = "open"
  PROVE  /\ CallsOK'
         /\ pc' \in [Writers -> Labels]
         /\ entry' \in [Writers -> Record \cup {NoRecord}]
         /\ seen' \in [Writers -> [version : Nat, root : Map]]
<1>1. NotSeen \in [version : Nat, root : Map]
  BY DEF NotSeen, Empty, Map, Absent
<1>2. /\ pc' = [pc EXCEPT ![w] = "idle"]
      /\ entry' = [entry EXCEPT ![w] = NoRecord]
      /\ seen' = [seen EXCEPT ![w] = NotSeen]
  BY DEF Return, GoTo
<1>3. /\ pc' \in [Writers -> Labels]
      /\ entry' \in [Writers -> Record \cup {NoRecord}]
      /\ seen' \in [Writers -> [version : Nat, root : Map]]
  BY <1>1, <1>2 DEF Calls, TypeOK, Labels
<1>4. /\ pc'[w] = "idle"
      /\ \A v \in Writers \ {w} : /\ pc'[v] = pc[v] /\ entry'[v] = entry[v]
                                  /\ seen'[v] = seen[v]
  BY <1>2 DEF Calls, TypeOK
<1>5. CarriesOK'
  BY <1>4 DEF Calls, CallsOK, CarriesOK, Logging
<1>6. SeenOK'
  BY <1>4 DEF Calls, CallsOK, SeenOK
<1>7. PiecesOK'
  BY DEF Calls, CallsOK, PiecesOK
<1> QED BY <1>3, <1>5, <1>6, <1>7 DEF CallsOK

\* What a returned insert wrote is a value of its key.
LEMMA AckedType ==
  ASSUME Calls, NEW w \in Writers,
         pc[w] # "idle"
  PROVE  Acked(w) \in Map
<1>1. entry[w] \in InsertRecord \cup TermRecord
  BY DEF Calls, TypeOK, CallsOK, CarriesOK, Labels
<1>2. CASE entry[w] \in InsertRecord
  <2>1. entry[w].key \in Keys /\ entry[w].value \in Inserted
    BY <1>2, Kinds
  <2> QED BY <2>1 DEF Acked, Calls, TypeOK, Map
<1>3. CASE entry[w] \in TermRecord
  BY <1>3, Kinds DEF Acked, Calls, TypeOK
<1> QED BY <1>1, <1>2, <1>3

\* Only a tree that is open has calls running.
LEMMA BusyOpen ==
  ASSUME Calls, NEW w \in Writers, pc[w] # "idle"
  PROVE  status = "open"
  BY DEF Calls, CallsOK, Idle

LEMMA InsertCallKeeps ==
  ASSUME Calls, NEW w \in Writers, NEW k \in Keys, InsertCall(w, k),
         UNCHANGED overlap,
         raced' \in BOOLEAN
  PROVE  Calls'
<1> DEFINE e == [op |-> "insert", key |-> k, value |-> inserts + 1, term |-> 0,
                 index |-> 0]
           s == [version |-> version, root |-> root]
<1>1. /\ pc' = [pc EXCEPT ![w] = "swap"] /\ entry' = [entry EXCEPT ![w] = e]
      /\ seen' = [seen EXCEPT ![w] = s] /\ inserts' = inserts + 1
      /\ status = "open"
      /\ UNCHANGED <<overlap, tree, store, status, crashes, failures, ackedRoot>>
  BY DEF InsertCall, GoTo
<1>2. e \in InsertRecord
  <2>1. inserts + 1 \in Inserted
    BY TreeAssumption DEF InsertCall, Inserted, Calls, TypeOK
  <2> QED BY <2>1 DEF InsertRecord
<1>3. s \in [version : Nat, root : Map]
  BY DEF Calls, TypeOK
<1> HIDE DEF e, s
<1>4. TypeOK'
  BY <1>1, <1>2, <1>3, Kinds DEF Calls, TypeOK, tree, store, handle, Labels
<1>5. /\ pc'[w] = "swap" /\ entry'[w] = e /\ seen'[w] = s
      /\ \A v \in Writers \ {w} : /\ pc'[v] = pc[v] /\ entry'[v] = entry[v]
                                  /\ seen'[v] = seen[v]
  BY <1>1 DEF Calls, TypeOK
<1>6. CarriesOK'
  BY <1>2, <1>5 DEF Calls, CallsOK, CarriesOK, Logging
<1>7. SeenOK'
  BY <1>1, <1>5 DEF Calls, CallsOK, SeenOK, TypeOK, tree, s
<1>8. PiecesOK'
  BY <1>1 DEF Calls, CallsOK, PiecesOK, store, handle
<1> QED BY <1>1, <1>4, <1>6, <1>7, <1>8 DEF Calls, CallsOK

LEMMA SwapKeeps ==
  ASSUME Calls, NEW w \in Writers, Swap(w), UNCHANGED overlap,
         raced' \in BOOLEAN
  PROVE  Calls'
<1>1. /\ pc[w] = "swap" /\ status = "open" /\ entry[w] \in InsertRecord
      /\ UNCHANGED <<overlap, term, logIndex, treeError, store, status, entry,
                     limits, ackedRoot>>
  BY BusyOpen DEF Swap, Calls, CallsOK, CarriesOK
<1>2. PiecesOK'
  BY <1>1 DEF Calls, CallsOK, PiecesOK, store, handle
<1>3. CASE /\ seen[w].version = version
           /\ root' = [seen[w].root EXCEPT ![entry[w].key] = entry[w].value]
           /\ version' = version + 1
           /\ pc' = [pc EXCEPT ![w] = "index"]
           /\ UNCHANGED seen
  <2>1. root' \in Map
    <3>1. /\ seen[w].root \in Map
          /\ entry[w].key \in Keys /\ entry[w].value \in Inserted
      BY <1>1, Kinds DEF Calls, TypeOK
    <3> QED BY <1>3, <3>1 DEF Map
  <2>2. TypeOK'
    BY <1>1, <1>3, <2>1 DEF Calls, TypeOK, store, handle, limits, Labels
  <2>3. /\ pc'[w] = "index"
        /\ \A v \in Writers \ {w} : pc'[v] = pc[v]
    BY <1>3 DEF Calls, TypeOK
  <2>4. CarriesOK'
    BY <1>1, <2>3 DEF Calls, CallsOK, CarriesOK, Logging
  <2>5. SeenOK'
    BY <1>3, <2>3 DEF Calls, CallsOK, SeenOK, TypeOK
  <2> QED BY <1>1, <1>2, <2>2, <2>4, <2>5 DEF Calls, CallsOK
<1>4. CASE /\ seen' = [seen EXCEPT ![w] = [version |-> version, root |-> root]]
           /\ UNCHANGED <<root, version, pc>>
  <2>1. TypeOK'
    BY <1>1, <1>4 DEF Calls, TypeOK, store, handle, limits
  <2>2. CarriesOK'
    BY <1>1, <1>4 DEF Calls, CallsOK, CarriesOK, Logging
  <2>3. /\ seen'[w] = [version |-> version, root |-> root]
        /\ \A v \in Writers \ {w} : seen'[v] = seen[v]
    BY <1>4 DEF Calls, TypeOK
  <2>4. SeenOK'
    BY <1>4, <2>3 DEF Calls, CallsOK, SeenOK, TypeOK
  <2> QED BY <1>1, <1>2, <2>1, <2>2, <2>4 DEF Calls, CallsOK
<1> QED BY <1>3, <1>4 DEF Swap, GoTo

LEMMA EntryIndexed ==
  ASSUME NEW r \in InsertRecord, NEW a \in Nat, NEW b \in Nat, NEW e,
         e = [r EXCEPT !.term = a, !.index = b]
  PROVE  /\ e \in InsertRecord /\ e.term = a /\ e.index = b
         /\ e.op = r.op /\ e.key = r.key /\ e.value = r.value
  BY DEF InsertRecord

\* What a record is when its index has been taken.
LEMMA IndexTaken ==
  ASSUME Calls, NEW w \in Writers, pc[w] = "index",
         entry' = [entry EXCEPT ![w].term = term, ![w].index = logIndex + 1]
  PROVE  /\ entry' = [entry EXCEPT ![w] = entry'[w]]
         /\ entry'[w] \in InsertRecord
         /\ entry'[w].term = term /\ entry'[w].index = logIndex + 1
         /\ entry'[w].op = entry[w].op /\ entry'[w].key = entry[w].key
         /\ entry'[w].value = entry[w].value
<1> DEFINE e == [entry[w] EXCEPT !.term = term, !.index = logIndex + 1]
<1>1. entry[w] \in InsertRecord /\ term \in Nat /\ logIndex + 1 \in Nat
  BY DEF Calls, TypeOK, CallsOK, CarriesOK
<1>2. entry' = [entry EXCEPT ![w] = e] /\ entry'[w] = e
  BY DEF Calls, TypeOK
<1>3. \A r \in InsertRecord, a, b \in Nat :
        e = [r EXCEPT !.term = a, !.index = b] =>
          /\ e \in InsertRecord /\ e.term = a /\ e.index = b
          /\ e.op = r.op /\ e.key = r.key /\ e.value = r.value
  <2> HIDE DEF e
  <2> QED BY EntryIndexed
<1>4. e = [entry[w] EXCEPT !.term = term, !.index = logIndex + 1]
  OBVIOUS
<1> HIDE DEF e
<1>5. /\ e \in InsertRecord /\ e.term = term /\ e.index = logIndex + 1
      /\ e.op = entry[w].op /\ e.key = entry[w].key /\ e.value = entry[w].value
  BY <1>1, <1>3, <1>4
<1> QED BY <1>2, <1>5

LEMMA TakeIndexKeeps ==
  ASSUME Calls, NEW w \in Writers, TakeIndex(w), UNCHANGED overlap,
         raced' \in BOOLEAN
  PROVE  Calls'
<1>1. /\ pc[w] = "index" /\ status = "open" /\ entry[w] \in InsertRecord
      /\ logIndex' = logIndex + 1
      /\ UNCHANGED <<overlap, root, version, term, treeError, store, status,
                     limits>>
  BY BusyOpen DEF TakeIndex, Calls, CallsOK, CarriesOK
<1>2. CASE Return(w)
  <2>1. /\ CallsOK'
        /\ pc' \in [Writers -> Labels]
        /\ entry' \in [Writers -> Record \cup {NoRecord}]
        /\ seen' \in [Writers -> [version : Nat, root : Map]]
    BY <1>1, <1>2, ReturnKeeps DEF store, handle
  <2>2. ackedRoot' \in Map
    BY <1>1, <1>2, AckedType DEF Return
  <2>3. TypeOK'
    <3>1. TypeOK /\ logIndex + 1 \in Nat
      BY DEF Calls, TypeOK
    <3>2. UNCHANGED <<lastTerm, lastIndex, buffer, file, synced, snapDue, snap,
                      walFile, inserts, crashes, failures>>
      BY <1>1 DEF store, handle, limits
    <3> QED BY <1>1, <2>1, <2>2, <3>1, <3>2 DEF TypeOK
  <2> QED BY <2>1, <2>3 DEF Calls
<1>3. CASE /\ entry' = [entry EXCEPT ![w].term = term,
                                     ![w].index = logIndex + 1]
           /\ pc' = [pc EXCEPT ![w] = "frame"]
           /\ UNCHANGED <<seen, ackedRoot>>
  <2>1. /\ entry' = [entry EXCEPT ![w] = entry'[w]]
        /\ entry'[w] \in InsertRecord /\ entry'[w].index = logIndex + 1
    BY <1>1, <1>3, IndexTaken
  <2>2. /\ pc' \in [Writers -> Labels]
        /\ entry' \in [Writers -> Record \cup {NoRecord}]
    BY <1>3, <2>1, Kinds DEF Calls, TypeOK, Labels
  <2>3. TypeOK'
    <3>1. TypeOK /\ logIndex + 1 \in Nat
      BY DEF Calls, TypeOK
    <3>2. UNCHANGED <<lastTerm, lastIndex, buffer, file, synced, snapDue, snap,
                      walFile, inserts, crashes, failures>>
      BY <1>1 DEF store, handle, limits
    <3> QED BY <1>1, <1>3, <2>2, <3>1, <3>2 DEF TypeOK
  <2>4. /\ pc'[w] = "frame"
        /\ \A v \in Writers \ {w} : pc'[v] = pc[v] /\ entry'[v] = entry[v]
    BY <1>3, <2>1 DEF Calls, TypeOK
  <2>5. entry'[w].index > 0
    BY <2>1 DEF Calls, TypeOK
  <2>6. CarriesOK'
    BY <2>1, <2>4, <2>5 DEF Calls, CallsOK, CarriesOK, Logging
  <2>7. SeenOK'
    BY <1>1, <1>3, <2>4 DEF Calls, CallsOK, SeenOK
  <2>8. PiecesOK'
    BY <1>1 DEF Calls, CallsOK, PiecesOK, store, handle
  <2> QED BY <1>1, <2>3, <2>6, <2>7, <2>8 DEF Calls, CallsOK
<1> QED BY <1>2, <1>3 DEF TakeIndex, GoTo

LEMMA UpdateTermKeeps ==
  ASSUME Calls, NEW w \in Writers, UpdateTerm(w), UNCHANGED overlap,
         raced' \in BOOLEAN
  PROVE  Calls'
<1>1. /\ status = "open" /\ term' = term + 1
      /\ UNCHANGED <<overlap, root, version, logIndex, treeError, store, status,
                     seen, limits, ackedRoot>>
  BY DEF UpdateTerm
<1>2. PiecesOK'
  BY <1>1 DEF Calls, CallsOK, PiecesOK, store, handle
<1>3. CASE UNCHANGED <<pc, entry>>
  <2>1. TypeOK'
    BY <1>1, <1>3 DEF Calls, TypeOK, store, handle, limits
  <2>2. CarriesOK' /\ SeenOK'
    BY <1>1, <1>3 DEF Calls, CallsOK, CarriesOK, SeenOK, Logging
  <2> QED BY <1>1, <1>2, <2>1, <2>2 DEF Calls, CallsOK
<1>4. CASE /\ entry' = [entry EXCEPT ![w] = [op |-> "term", term |-> term + 1]]
           /\ pc' = [pc EXCEPT ![w] = "term"]
  <2> DEFINE e == [op |-> "term", term |-> term + 1]
  <2>1. e \in TermRecord
    BY DEF TermRecord, Calls, TypeOK
  <2> HIDE DEF e
  <2>2. entry' = [entry EXCEPT ![w] = e]
    BY <1>4 DEF e
  <2>3. TypeOK'
    <3>1. TypeOK /\ term + 1 \in Nat
      BY DEF Calls, TypeOK
    <3>2. /\ pc' \in [Writers -> Labels]
          /\ entry' \in [Writers -> Record \cup {NoRecord}]
      BY <1>4, <2>1, <2>2, <3>1, Kinds DEF TypeOK, Labels
    <3>3. UNCHANGED <<lastTerm, lastIndex, buffer, file, synced, snapDue, snap,
                      walFile, inserts, crashes, failures>>
      BY <1>1 DEF store, handle, limits
    <3> QED BY <1>1, <3>1, <3>2, <3>3 DEF TypeOK
  <2>4. /\ pc'[w] = "term" /\ entry'[w] = e
        /\ \A v \in Writers \ {w} : pc'[v] = pc[v] /\ entry'[v] = entry[v]
    BY <1>4, <2>2 DEF Calls, TypeOK
  <2>5. CarriesOK'
    BY <2>1, <2>4 DEF Calls, CallsOK, CarriesOK, Logging
  <2>6. SeenOK'
    BY <1>1, <2>4 DEF Calls, CallsOK, SeenOK
  <2> QED BY <1>1, <1>2, <2>3, <2>5, <2>6 DEF Calls, CallsOK
<1> QED BY <1>3, <1>4 DEF UpdateTerm, GoTo

LEMMA WriteKeeps ==
  ASSUME Calls, NEW w \in Writers, Write(w), UNCHANGED overlap,
         raced' \in BOOLEAN
  PROVE  Calls'
<1> DEFINE p == [part |-> IF pc[w] = "term" THEN "whole" ELSE pc[w],
                 of |-> entry[w]]
<1>1. /\ pc[w] \in {"frame", "key", "value", "term"}
      /\ buffer' = Append(buffer, p) /\ pc' = [pc EXCEPT ![w] = After(pc[w])]
      /\ UNCHANGED <<overlap, tree, lastTerm, lastIndex, file, synced, snapDue,
                     handle, status, entry, seen, limits, ackedRoot>>
  BY DEF Write, GoTo
<1>2. /\ pc[w] = "term" => entry[w] \in TermRecord
      /\ pc[w] # "term" => entry[w] \in InsertRecord /\ entry[w].index > 0
  BY <1>1, Kinds DEF Calls, CallsOK, CarriesOK, Logging
<1>3. p \in Piece /\ Fits(p)
  <2>1. p \in Piece
    BY <1>1, <1>2, Kinds DEF Piece
  <2>2. Fits(p)
    BY <1>1, <1>2, Kinds DEF Fits
  <2> QED BY <2>1, <2>2
<1> HIDE DEF p
<1>4. After(pc[w]) \in {"key", "value", "flush"}
  BY <1>1 DEF After
<1>5. /\ buffer' \in Seq(Piece)
      /\ \A i \in 1..Len(buffer') : Fits(buffer'[i])
  <2>1. /\ buffer \in Seq(Piece) /\ \A i \in 1..Len(buffer) : Fits(buffer[i])
    BY DEF Calls, TypeOK, CallsOK, PiecesOK
  <2> QED BY <1>1, <1>3, <2>1
<1>6. TypeOK'
  BY <1>1, <1>4, <1>5 DEF Calls, TypeOK, tree, handle, limits, Labels
<1>7. /\ pc'[w] = After(pc[w])
      /\ \A v \in Writers \ {w} : pc'[v] = pc[v]
  BY <1>1 DEF Calls, TypeOK
<1>8. CarriesOK'
  <2>1. entry[w] \in InsertRecord \cup TermRecord
    BY <1>2
  <2>2. After(pc[w]) \in {"key", "value"} => entry[w] \in InsertRecord
    BY <1>1, <1>2 DEF After
  <2>3. entry[w].op = "insert" => entry[w].index > 0
    BY <1>2, Kinds
  <2> QED BY <1>1, <1>4, <1>7, <2>1, <2>2, <2>3
          DEF Calls, CallsOK, CarriesOK, Logging
<1>9. SeenOK'
  BY <1>1, <1>4, <1>7 DEF Calls, CallsOK, SeenOK, tree
<1>10. PiecesOK'
  BY <1>1, <1>5 DEF Calls, CallsOK, PiecesOK
<1>11. status' = "open"
  BY <1>1, BusyOpen
<1> QED BY <1>6, <1>8, <1>9, <1>10, <1>11 DEF Calls, CallsOK

LEMMA FlushKeeps ==
  ASSUME Calls, NEW w \in Writers, Flush(w), UNCHANGED overlap,
         raced' \in BOOLEAN
  PROVE  Calls'
<1>1. /\ pc[w] = "flush" /\ buffer' = <<>>
      /\ file' = file \o buffer \/ file' = file
      /\ pc' = [pc EXCEPT ![w] = "sync"]
      /\ UNCHANGED <<overlap, tree, lastTerm, lastIndex, synced, snapDue, handle,
                     status, entry, seen, limits, ackedRoot>>
  BY DEF Flush, GoTo
<1>2. /\ file \in Seq(Piece) /\ buffer \in Seq(Piece)
      /\ synced \in 0..Len(file)
      /\ \A i \in 1..Len(file) : Fits(file[i])
      /\ \A i \in 1..Len(buffer) : Fits(buffer[i])
  BY DEF Calls, TypeOK, CallsOK, PiecesOK
<1>3. ASSUME file' = file \o buffer
      PROVE  /\ file' \in Seq(Piece) /\ synced \in 0..Len(file')
             /\ \A i \in 1..Len(file') : Fits(file'[i])
  <2>1. /\ file' \in Seq(Piece) /\ Len(file') = Len(file) + Len(buffer)
        /\ \A i \in 1..Len(file') :
             file'[i] = IF i <= Len(file) THEN file[i] ELSE buffer[i - Len(file)]
    BY <1>2, <1>3
  <2>2. \A i \in 1..Len(file') :
          i \in 1..Len(file) \/ i - Len(file) \in 1..Len(buffer)
    BY <1>2, <2>1
  <2>3. \A i \in 1..Len(file') : Fits(file'[i])
    <3> TAKE i \in 1..Len(file')
    <3>1. CASE i <= Len(file)
      BY <1>2, <2>1, <3>1
    <3>2. CASE i > Len(file)
      <4>1. i - Len(file) \in 1..Len(buffer)
        BY <1>2, <2>2, <3>2
      <4>2. file'[i] = buffer[i - Len(file)]
        BY <1>2, <2>1, <3>2
      <4> DEFINE b == i - Len(file)
      <4> HIDE DEF b
      <4>3. b \in 1..Len(buffer) /\ file'[i] = buffer[b]
        BY <4>1, <4>2 DEF b
      <4> QED BY <1>2, <4>3
    <3> QED BY <3>1, <3>2, <1>2, <2>1
  <2> QED BY <1>2, <2>1, <2>3
<1>4. /\ file' \in Seq(Piece) /\ synced \in 0..Len(file')
      /\ \A i \in 1..Len(file') : Fits(file'[i])
      /\ \A i \in 1..Len(file') :
           file'[i].of.op = "insert" => file'[i].of.index > 0
  BY <1>1, <1>2, <1>3 DEF Fits
<1>5. buffer' \in Seq(Piece) /\ \A i \in 1..Len(buffer') : Fits(buffer'[i])
  BY <1>1
<1>6. TypeOK'
  <2>1. synced' \in 0..Len(file')
    BY <1>1, <1>4
  <2> QED BY <1>1, <1>4, <1>5, <2>1 DEF Calls, TypeOK, tree, handle, limits, Labels
<1>7. /\ pc'[w] = "sync"
      /\ \A v \in Writers \ {w} : pc'[v] = pc[v]
  BY <1>1 DEF Calls, TypeOK
<1>8. CarriesOK'
  BY <1>1, <1>7 DEF Calls, CallsOK, CarriesOK, Logging
<1>9. SeenOK'
  BY <1>1, <1>7 DEF Calls, CallsOK, SeenOK, tree
<1>10. PiecesOK'
  BY <1>4, <1>5 DEF PiecesOK
<1>11. status' = "open"
  BY <1>1, BusyOpen
<1> QED BY <1>6, <1>8, <1>9, <1>10, <1>11 DEF Calls, CallsOK

LEMMA SyncKeeps ==
  ASSUME Calls, NEW w \in Writers, Sync(w), UNCHANGED overlap,
         raced' \in BOOLEAN
  PROVE  Calls'
<1>1. /\ pc[w] = "sync" /\ synced' \in {synced, Len(file)}
      /\ pc' = [pc EXCEPT ![w] = "store"]
      /\ UNCHANGED <<overlap, tree, lastTerm, lastIndex, buffer, file, snapDue,
                     handle, status, entry, seen, limits, ackedRoot>>
  BY DEF Sync, GoTo
<1>2. synced' \in 0..Len(file)
  BY <1>1 DEF Calls, TypeOK
<1>3. TypeOK'
  BY <1>1, <1>2 DEF Calls, TypeOK, tree, handle, limits, Labels
<1>4. /\ pc'[w] = "store"
      /\ \A v \in Writers \ {w} : pc'[v] = pc[v]
  BY <1>1 DEF Calls, TypeOK
<1>5. CarriesOK'
  BY <1>1, <1>4 DEF Calls, CallsOK, CarriesOK, Logging
<1>6. SeenOK'
  BY <1>1, <1>4 DEF Calls, CallsOK, SeenOK, tree
<1>7. PiecesOK'
  BY <1>1 DEF Calls, CallsOK, PiecesOK
<1>8. status' = "open"
  BY <1>1, BusyOpen
<1> QED BY <1>3, <1>5, <1>6, <1>7, <1>8 DEF Calls, CallsOK

LEMMA LoggedKeeps ==
  ASSUME Calls, NEW w \in Writers, Logged(w), UNCHANGED overlap,
         raced' \in BOOLEAN
  PROVE  Calls'
<1>1. /\ pc[w] = "store" /\ status = "open" /\ lastTerm' = entry[w].term
      /\ Return(w)
      /\ UNCHANGED <<overlap, tree, buffer, file, synced, handle, status, limits>>
  BY BusyOpen DEF Logged
<1>2. entry[w] \in InsertRecord \cup TermRecord
  BY <1>1 DEF Calls, CallsOK, CarriesOK
<1>3. lastTerm' \in Nat
  BY <1>1, <1>2, Kinds
<1>4. lastIndex' \in Nat
  <2>1. CASE entry[w].op = "insert"
    BY <1>2, <2>1, Kinds DEF Logged
  <2>2. CASE entry[w].op # "insert"
    BY <2>2 DEF Logged, Calls, TypeOK
  <2> QED BY <2>1, <2>2
<1>5. snapDue' \in Nat
  BY DEF Logged, Calls, TypeOK
<1>6. /\ CallsOK'
      /\ pc' \in [Writers -> Labels]
      /\ entry' \in [Writers -> Record \cup {NoRecord}]
      /\ seen' \in [Writers -> [version : Nat, root : Map]]
  BY <1>1, ReturnKeeps DEF tree
<1>7. ackedRoot' \in Map
  BY <1>1, AckedType DEF Return
<1>8. TypeOK'
  BY <1>1, <1>3, <1>4, <1>5, <1>6, <1>7 DEF Calls, TypeOK, tree, handle, limits
<1> QED BY <1>6, <1>8 DEF Calls

LEMMA LogFailsKeeps ==
  ASSUME Calls, NEW w \in Writers, LogFails(w), UNCHANGED overlap,
         raced' \in BOOLEAN
  PROVE  Calls'
<1>1. /\ pc[w] # "idle" /\ status = "open" /\ Return(w)
      /\ failures' \in {failures, failures + 1} /\ treeError' = TRUE
      /\ snap' \in {snap, "none"} /\ walFile' \in {walFile, "closed", "nil"}
      /\ UNCHANGED <<overlap, root, version, term, logIndex, lastTerm, lastIndex,
                     buffer, file, synced, snapDue, status, inserts, crashes>>
  BY BusyOpen DEF LogFails, GiveUp, handle
<1>2. /\ CallsOK'
      /\ pc' \in [Writers -> Labels]
      /\ entry' \in [Writers -> Record \cup {NoRecord}]
      /\ seen' \in [Writers -> [version : Nat, root : Map]]
  BY <1>1, ReturnKeeps
<1>3. ackedRoot' \in Map
  BY <1>1, AckedType DEF Return
<1>4. TypeOK'
  <2>1. /\ failures' \in Nat /\ snap' \in Snapping /\ walFile' \in Handles
        /\ treeError' \in BOOLEAN
    BY <1>1 DEF Calls, TypeOK, Snapping, Handles
  <2> QED BY <1>1, <1>2, <1>3, <2>1 DEF Calls, TypeOK
<1> QED BY <1>2, <1>4 DEF Calls

\* The record of a snapshot is one.
LEMMA SnapshotFits ==
  ASSUME Calls
  PROVE  /\ SnapshotPiece \in Piece /\ Fits(SnapshotPiece)
         /\ SnapshotPiece.part = "whole" /\ SnapshotPiece.of.op = "snapshot"
         /\ SnapshotPiece.of.term = lastTerm /\ SnapshotPiece.of.index = lastIndex
  BY DEF SnapshotPiece, Piece, Record, Fits, Calls, TypeOK

\* The log a snapshot leaves.
LEMMA SnapshotLog ==
  ASSUME Calls, SnapshotReplace
  PROVE  /\ file' \in Seq(Piece) /\ Len(file') = 1 /\ file'[1] = SnapshotPiece
         /\ file' # <<>> /\ synced' = 1
<1>1. SnapshotPiece \in Piece
  BY SnapshotFits
<1> QED BY <1>1 DEF SnapshotReplace

LEMMA SnapshotKeeps ==
  ASSUME Calls, createSnapshot, UNCHANGED overlap,
         raced' \in BOOLEAN
  PROVE  Calls'
<1>1. /\ status = "open"
      /\ snapDue' \in Nat /\ snap' \in Snapping /\ walFile' \in Handles
      /\ failures' \in Nat
      /\ UNCHANGED <<overlap, tree, lastTerm, lastIndex, status, writer, inserts,
                     crashes, ackedRoot>>
  <2>1. status = "open"
    BY DEF createSnapshot, SnapshotBegin, SnapshotReplace, SnapshotClose,
           SnapshotOpen, SnapshotFails, GiveUp, Calls, CallsOK
  <2>2. snapDue' \in Nat
    BY DEF createSnapshot, SnapshotBegin, SnapshotReplace, SnapshotClose,
           SnapshotOpen, SnapshotFails, Calls, TypeOK
  <2>3. snap' \in Snapping /\ walFile' \in Handles
    BY DEF createSnapshot, SnapshotBegin, SnapshotReplace, SnapshotClose,
           SnapshotOpen, SnapshotFails, GiveUp, Calls, TypeOK, Snapping, Handles
  <2>4. failures' \in Nat
    BY DEF createSnapshot, SnapshotBegin, SnapshotReplace, SnapshotClose,
           SnapshotOpen, SnapshotFails, limits, Calls, TypeOK
  <2>5. UNCHANGED <<tree, lastTerm, lastIndex, status, writer, inserts, crashes,
                    ackedRoot>>
    BY DEF createSnapshot, SnapshotBegin, SnapshotReplace, SnapshotClose,
           SnapshotOpen, SnapshotFails, limits
  <2> QED BY <2>1, <2>2, <2>3, <2>4, <2>5
<1>2. CarriesOK' /\ SeenOK'
  BY <1>1 DEF Calls, CallsOK, CarriesOK, SeenOK, Logging, writer, tree
<1>3. /\ buffer \in Seq(Piece) /\ \A i \in 1..Len(buffer) : Fits(buffer[i])
      /\ file \in Seq(Piece) /\ \A i \in 1..Len(file) : Fits(file[i])
      /\ SnapshotPiece \in Piece /\ Fits(SnapshotPiece)
  BY SnapshotFits DEF Calls, TypeOK, CallsOK, PiecesOK
<1>4. buffer' \in Seq(Piece) /\ \A i \in 1..Len(buffer') : Fits(buffer'[i])
  <2>1. \/ buffer' = buffer \/ buffer' = <<>> \/ buffer' = Append(buffer, SnapshotPiece)
    BY DEF createSnapshot, SnapshotBegin, SnapshotReplace, SnapshotClose,
           SnapshotOpen, SnapshotFails
  <2>2. CASE buffer' = buffer
    BY <1>3, <2>2
  <2>3. CASE buffer' = <<>>
    BY <2>3
  <2>4. CASE buffer' = Append(buffer, SnapshotPiece)
    <3> HIDE DEF SnapshotPiece
    <3> QED BY <1>3, <2>4
  <2> QED BY <2>1, <2>2, <2>3, <2>4
<1>5. /\ file' \in Seq(Piece) /\ synced' \in 0..Len(file')
      /\ \A i \in 1..Len(file') : Fits(file'[i])
  <2>1. CASE SnapshotReplace
    <3>1. file' = <<SnapshotPiece>> /\ synced' = 1
      BY <2>1 DEF SnapshotReplace
    <3> HIDE DEF SnapshotPiece
    <3>2. file' \in Seq(Piece) /\ Len(file') = 1 /\ file'[1] = SnapshotPiece
      BY <1>3, <3>1
    <3> QED BY <1>3, <3>1, <3>2
  <2>2. CASE ~SnapshotReplace
    <3>1. UNCHANGED <<file, synced>>
      BY <2>2 DEF createSnapshot, SnapshotBegin, SnapshotClose, SnapshotOpen,
                  SnapshotFails
    <3> QED BY <1>3, <3>1 DEF Calls, TypeOK
  <2> QED BY <2>1, <2>2
<1>6. \A i \in 1..Len(file') : file'[i].of.op = "insert" => file'[i].of.index > 0
  BY <1>5 DEF Fits
<1>7. TypeOK'
  BY <1>1, <1>4, <1>5, <1>6 DEF Calls, TypeOK, tree, writer
<1>8. PiecesOK'
  BY <1>4, <1>5 DEF PiecesOK
<1> QED BY <1>1, <1>2, <1>7, <1>8 DEF Calls, CallsOK

LEMMA CrashKeeps ==
  ASSUME Calls, Crash, UNCHANGED overlap,
         raced' \in BOOLEAN
  PROVE  Calls'
<1>1. PICK kept \in synced..Len(file) :
        file' = SubSeq(file, 1, kept) /\ synced' = kept
  BY DEF Crash
<1>2. /\ pc' = [w \in Writers |-> "idle"]
      /\ entry' = [w \in Writers |-> NoRecord]
      /\ seen' = [w \in Writers |-> NotSeen]
      /\ crashes' = crashes + 1 /\ status' = "down"
      /\ buffer' = <<>> /\ snapDue' = 0 /\ snap' = "none" /\ walFile' = "log"
      /\ UNCHANGED <<overlap, tree, lastTerm, lastIndex, inserts, failures,
                     ackedRoot>>
  BY DEF Crash
<1>3. /\ file \in Seq(Piece) /\ kept \in 0..Len(file)
      /\ \A i \in 1..Len(file) : Fits(file[i])
  BY DEF Calls, TypeOK, CallsOK, PiecesOK
<1>4. /\ file' \in Seq(Piece) /\ Len(file') = kept
      /\ \A i \in 1..kept : file'[i] = file[i] /\ i \in 1..Len(file)
  BY <1>1, <1>3, Prefix DEF Beginning
<1>5. /\ synced' \in 0..Len(file')
      /\ \A i \in 1..Len(file') : Fits(file'[i])
  BY <1>1, <1>3, <1>4
<1>6. NotSeen \in [version : Nat, root : Map]
  BY DEF NotSeen, Empty, Map, Absent
<1>7. /\ pc' \in [Writers -> Labels]
      /\ entry' \in [Writers -> Record \cup {NoRecord}]
      /\ seen' \in [Writers -> [version : Nat, root : Map]]
  BY <1>2, <1>6 DEF Labels
<1>8. /\ buffer' \in Seq(Piece) /\ Len(buffer') = 0
  BY <1>2
<1>9. TypeOK'
  <2>1. \A i \in 1..Len(file') :
          file'[i].of.op = "insert" => file'[i].of.index > 0
    BY <1>5 DEF Fits
  <2> QED BY <1>2, <1>4, <1>5, <1>7, <1>8, <2>1
          DEF Calls, TypeOK, tree, Snapping, Handles
<1>10. CallsOK'
  BY <1>2, <1>5, <1>8
     DEF CallsOK, CarriesOK, SeenOK, PiecesOK, Idle, Logging
<1> QED BY <1>9, <1>10 DEF Calls

LEMMA RestartKeeps ==
  ASSUME Calls, Restart \/ RestartFails, UNCHANGED overlap,
         raced' \in BOOLEAN
  PROVE  Calls'
<1>1. /\ status = "down" /\ Idle /\ snap = "none"
      /\ UNCHANGED <<version, buffer, file, synced, snapDue, snap, walFile, writer,
                     limits>>
  BY DEF Restart, RestartFails, Calls, CallsOK, store, handle
<1>2. CallsOK'
  <2>1. Idle' /\ CarriesOK' /\ SeenOK'
    BY <1>1 DEF Idle, CarriesOK, SeenOK, Logging, writer
  <2>2. PiecesOK'
    BY <1>1 DEF Calls, CallsOK, PiecesOK
  <2> QED BY <1>1, <2>1, <2>2 DEF CallsOK
<1>3. CASE Restart
  <2>1. /\ file \in Seq(Piece) /\ \A i \in 1..Len(file) : Fits(file[i])
    BY DEF Calls, TypeOK, CallsOK, PiecesOK
  <2>2. /\ Replay(file) \in Map /\ ReplayTerm(file) \in Nat
        /\ ReplayIndex(file) \in Nat
    BY <2>1, ReplayType, TermType, IndexType
  <2>3. TypeOK'
    BY <1>1, <1>3, <2>2 DEF Restart, Calls, TypeOK, writer, limits
  <2> QED BY <1>2, <2>3 DEF Calls
<1>4. CASE RestartFails
  <2>1. Empty \in Map
    BY DEF Empty, Map, Absent
  <2>2. TypeOK'
    BY <1>1, <1>4, <2>1 DEF RestartFails, Calls, TypeOK, writer, limits, store, handle
  <2> QED BY <1>2, <2>2 DEF Calls
<1> QED BY <1>3, <1>4

LEMMA CallsNext == Calls /\ [Next]_vars => Calls'
<1> SUFFICES ASSUME Calls, [Next]_vars PROVE Calls'
  OBVIOUS
<1>1. ASSUME UNCHANGED overlap, raced' \in BOOLEAN, NEW w \in Writers,
             Insert(w) \/ UpdateTerm(w) \/ LogRecord(w)
      PROVE  Calls'
  BY <1>1, InsertCallKeeps, SwapKeeps, TakeIndexKeeps, UpdateTermKeeps,
     WriteKeeps, FlushKeeps, SyncKeeps, LoggedKeeps, LogFailsKeeps
     DEF Insert, LogRecord
<1>2. ASSUME UNCHANGED overlap, raced' \in BOOLEAN,
             createSnapshot \/ Crash \/ Restart \/ RestartFails
      PROVE  Calls'
  BY <1>2, SnapshotKeeps, CrashKeeps, RestartKeeps
<1>3. CASE UNCHANGED vars
  <2>1. TypeOK'
    BY <1>3 DEF Calls, TypeOK, vars, tree, store, handle, writer, limits
  <2>2. CallsOK'
    BY <1>3 DEF Calls, CallsOK, CarriesOK, SeenOK, PiecesOK, Idle, Logging, vars,
                tree, store, handle, writer
  <2> QED BY <2>1, <2>2 DEF Calls
<1>4. CASE Next
  <2>1. raced' \in BOOLEAN
    BY <1>4 DEF Next, Calls, TypeOK
  <2> QED BY <1>1, <1>2, <1>4, <2>1 DEF Next, Step
<1> QED BY <1>3, <1>4

-----------------------------------------------------------------------------
(* Calls in turn *)

\* What holds of a tree whose calls come in turn, and what an action of it may
\* take for granted.
Turn == Calls /\ ~overlap /\ TurnOK

LEMMA OthersIdle ==
  ASSUME Turn, NEW w \in Writers, pc[w] # "idle"
  PROVE  /\ status = "open" /\ ~treeError /\ StepOK(w)
         /\ Ordered(file) /\ SnapshotOK /\ HandleOK
         /\ snap = "none" /\ walFile = "log"
         /\ \A v \in Writers \ {w} : pc[v] = "idle"
<1>1. status = "open" /\ ~Idle
  BY BusyOpen DEF Turn, Idle
<1>2. snap = "none" /\ HandleOK
  BY <1>1 DEF Turn, TurnOK
<1> QED BY <1>1, <1>2 DEF Turn, TurnOK, OneCall, Busy, HandleOK

\* In turn a step that fails is counted.
LEMMA FailureCounted ==
  ASSUME Turn, (\E w \in Writers : LogFails(w)) \/ SnapshotFails
  PROVE  failures' = failures + 1
<1>1. ASSUME NEW w \in Writers, LogFails(w) PROVE failures' = failures + 1
  <2>1. walFile = "log"
    BY <1>1, OthersIdle DEF LogFails
  <2> QED BY <1>1, <2>1 DEF LogFails
<1>2. CASE SnapshotFails
  BY <1>2 DEF SnapshotFails, Turn, TurnOK, HandleOK
<1> QED BY <1>1, <1>2

\* After a step of the only call.
LEMMA StepDone ==
  ASSUME NEW w \in Writers,
         \A v \in Writers \ {w} : pc'[v] = "idle",
         status' = "open", ~treeError', Ordered(file)', SnapshotOK', HandleOK',
         snap' # "none" => Idle',
         pc'[w] = "idle" => Settled',
         pc'[w] # "idle" => StepOK(w)'
  PROVE  TurnOK'
<1>1. OneCall'
  BY DEF OneCall, Busy
<1>2. Idle' => Settled'
  BY DEF Idle
<1>3. \A v \in Writers : Busy(v)' => StepOK(v)'
  <2> TAKE v \in Writers
  <2>1. CASE v = w
    BY <2>1 DEF Busy
  <2>2. CASE v # w
    BY <2>2 DEF Busy
  <2> QED BY <2>1, <2>2
<1> QED BY <1>1, <1>2, <1>3 DEF TurnOK

\* The log is as it was.
LEMMA SameLog ==
  ASSUME Ordered(file), SnapshotOK, HandleOK,
         UNCHANGED <<file, synced, snap, walFile>>
  PROVE  /\ Ordered(file)' /\ SnapshotOK' /\ HandleOK'
         /\ (Snapshotted' <=> Snapshotted)
  BY DEF Ordered, SnapshotOK, HandleOK, Snapshotted

\* The call that returns is the only one.
LEMMA ReturnedIdle ==
  ASSUME Turn, NEW w \in Writers, pc[w] # "idle", Return(w)
  PROVE  /\ pc'[w] = "idle" /\ \A v \in Writers \ {w} : pc'[v] = "idle"
         /\ ackedRoot' = Acked(w)
  BY OthersIdle DEF Return, GoTo, Turn, Calls, TypeOK

LEMMA InsertCallTurns ==
  ASSUME Turn, NEW w \in Writers, NEW k \in Keys, InsertCall(w, k),
         (snap' # "none" => Idle')
  PROVE  TurnOK'
<1>1. /\ Idle /\ status = "open" /\ pc' = [pc EXCEPT ![w] = "swap"]
      /\ UNCHANGED <<tree, store, status, ackedRoot>>
  BY DEF InsertCall, GoTo, Turn
<1>2. ~treeError /\ Ordered(file) /\ SnapshotOK /\ HandleOK /\ Settled
  BY <1>1 DEF Turn, TurnOK
<1>3. pc'[w] = "swap" /\ \A v \in Writers \ {w} : pc'[v] = "idle"
  BY <1>1 DEF Turn, Calls, TypeOK, Idle
<1>4. /\ Ordered(file)' /\ SnapshotOK' /\ HandleOK'
      /\ (Snapshotted' <=> Snapshotted)
  BY <1>1, <1>2, SameLog DEF store, handle
<1>5. Settled'
  BY <1>1, <1>2, <1>4
     DEF Settled, Quiet, Clean, Returned, Rebuilds, tree, store, handle
<1>6. StepOK(w)'
  BY <1>3, <1>5 DEF StepOK
<1> QED BY <1>1, <1>2, <1>3, <1>4, <1>5, <1>6, StepDone DEF tree

LEMMA SwapTurns ==
  ASSUME Turn, NEW w \in Writers, Swap(w), (snap' # "none" => Idle')
  PROVE  TurnOK'
<1>1. /\ pc[w] = "swap" /\ entry[w] \in InsertRecord
      /\ UNCHANGED <<term, logIndex, treeError, store, status, entry, limits,
                     ackedRoot>>
  BY DEF Swap, Turn, Calls, CallsOK, CarriesOK
<1>2. /\ status = "open" /\ ~treeError
      /\ Ordered(file) /\ SnapshotOK /\ HandleOK /\ snap = "none"
      /\ \A v \in Writers \ {w} : pc[v] = "idle"
      /\ Settled
  BY <1>1, OthersIdle DEF StepOK
<1>3. /\ Ordered(file)' /\ SnapshotOK' /\ HandleOK'
      /\ (Snapshotted' <=> Snapshotted)
  BY <1>1, <1>2, SameLog DEF store, handle
<1>4. Clean' /\ Returned' /\ term' = lastTerm' /\ logIndex' = lastIndex'
  BY <1>1, <1>2, <1>3
     DEF Settled, Quiet, Clean, Returned, Rebuilds, store, handle
<1>5. CASE /\ seen[w].version = version
           /\ root' = [seen[w].root EXCEPT ![entry[w].key] = entry[w].value]
           /\ pc' = [pc EXCEPT ![w] = "index"]
  <2>1. pc'[w] = "index" /\ \A v \in Writers \ {w} : pc'[v] = "idle"
    BY <1>2, <1>5 DEF Turn, Calls, TypeOK
  <2>2. seen[w].root = ackedRoot
    BY <1>1, <1>2, <1>5 DEF Turn, Calls, CallsOK, SeenOK, Settled, Quiet
  <2>3. root' = Acked(w)'
    BY <1>1, <1>5, <2>2, Kinds DEF Acked
  <2>4. StepOK(w)'
    BY <1>4, <2>1, <2>3 DEF StepOK
  <2> QED BY <1>1, <1>2, <1>3, <2>1, <2>4, StepDone
<1>6. CASE UNCHANGED <<root, version, pc>>
  <2>1. Settled'
    BY <1>1, <1>2, <1>4, <1>6 DEF Settled, Quiet
  <2>2. StepOK(w)'
    BY <1>1, <1>6, <2>1 DEF StepOK
  <2> QED BY <1>1, <1>2, <1>3, <1>6, <2>1, <2>2, StepDone
<1> QED BY <1>5, <1>6 DEF Swap, GoTo

LEMMA TakeIndexTurns ==
  ASSUME Turn, NEW w \in Writers, TakeIndex(w), (snap' # "none" => Idle')
  PROVE  TurnOK'
<1>1. /\ pc[w] = "index" /\ logIndex' = logIndex + 1
      /\ UNCHANGED <<root, version, term, treeError, store, status, limits>>
  BY DEF TakeIndex
<1>2. /\ status = "open" /\ ~treeError
      /\ Ordered(file) /\ SnapshotOK /\ HandleOK /\ snap = "none"
      /\ \A v \in Writers \ {w} : pc[v] = "idle"
      /\ root = Acked(w) /\ term = lastTerm /\ logIndex = lastIndex
      /\ Clean /\ Returned
  BY <1>1, OthersIdle DEF StepOK
<1>3. /\ entry' = [entry EXCEPT ![w].term = term, ![w].index = logIndex + 1]
      /\ pc' = [pc EXCEPT ![w] = "frame"] /\ ackedRoot' = ackedRoot
  BY <1>2 DEF TakeIndex, GoTo
<1>4. /\ entry[w] \in InsertRecord /\ entry'[w] \in InsertRecord
      /\ entry'[w].term = term /\ entry'[w].index = logIndex + 1
      /\ entry'[w].key = entry[w].key /\ entry'[w].value = entry[w].value
  BY <1>1, <1>3, IndexTaken DEF Turn, Calls, CallsOK, CarriesOK
<1>5. pc'[w] = "frame" /\ \A v \in Writers \ {w} : pc'[v] = "idle"
  BY <1>2, <1>3 DEF Turn, Calls, TypeOK
<1>6. /\ Ordered(file)' /\ SnapshotOK' /\ HandleOK'
      /\ (Snapshotted' <=> Snapshotted)
  BY <1>1, <1>2, SameLog DEF store, handle
<1>7. Current(w)'
  <2>1. root' = Acked(w)'
    BY <1>1, <1>2, <1>3, <1>4, Kinds DEF Acked
  <2>2. entry'[w].op = "insert"
    BY <1>4, Kinds
  <2> QED BY <1>1, <1>2, <1>4, <2>1, <2>2 DEF Current, store, handle
<1>8. buffer' = Written(w)' /\ synced' = Len(file)' /\ Returned'
  BY <1>1, <1>2, <1>3, <1>5, <1>6
     DEF Clean, Written, Returned, Rebuilds, store, handle
<1>9. StepOK(w)'
  BY <1>5, <1>7, <1>8 DEF StepOK
<1> QED BY <1>1, <1>2, <1>5, <1>6, <1>9, StepDone

LEMMA UpdateTermTurns ==
  ASSUME Turn, NEW w \in Writers, UpdateTerm(w), (snap' # "none" => Idle')
  PROVE  TurnOK'
<1>1. /\ Idle /\ status = "open" /\ term' = term + 1
      /\ UNCHANGED <<root, version, logIndex, treeError, store, status, seen,
                     limits, ackedRoot>>
  BY DEF UpdateTerm, Turn
<1>2. ~treeError /\ Ordered(file) /\ SnapshotOK /\ HandleOK /\ Settled
  BY <1>1 DEF Turn, TurnOK
<1>3. /\ entry' = [entry EXCEPT ![w] = [op |-> "term", term |-> term + 1]]
      /\ pc' = [pc EXCEPT ![w] = "term"]
  BY <1>2 DEF UpdateTerm, GoTo
<1>4. /\ pc'[w] = "term" /\ \A v \in Writers \ {w} : pc'[v] = "idle"
      /\ entry'[w] = [op |-> "term", term |-> term + 1]
  BY <1>1, <1>3 DEF Turn, Calls, TypeOK, Idle
<1>5. /\ Ordered(file)' /\ SnapshotOK' /\ HandleOK'
      /\ (Snapshotted' <=> Snapshotted)
  BY <1>1, <1>2, SameLog DEF store, handle
<1>6. Current(w)'
  BY <1>1, <1>2, <1>4 DEF Current, Acked, Settled, Quiet, store, handle
<1>7. buffer' = Written(w)' /\ synced' = Len(file)' /\ Returned'
  <2>1. snap = "none"
    BY <1>1, <1>4 DEF Idle, store, handle
  <2> QED BY <1>1, <1>2, <1>4, <1>5, <2>1
     DEF Settled, Clean, Written, Returned, Rebuilds, store, handle
<1>8. StepOK(w)'
  BY <1>4, <1>6, <1>7 DEF StepOK
<1> QED BY <1>1, <1>2, <1>4, <1>5, <1>8, StepDone

LEMMA WriteTurns ==
  ASSUME Turn, NEW w \in Writers, Write(w), (snap' # "none" => Idle')
  PROVE  TurnOK'
<1>1. /\ pc[w] \in {"frame", "key", "value", "term"}
      /\ pc' = [pc EXCEPT ![w] = After(pc[w])]
      /\ buffer' = Append(buffer, Part(w, IF pc[w] = "term" THEN "whole"
                                          ELSE pc[w]))
      /\ UNCHANGED <<tree, lastTerm, lastIndex, file, synced, snapDue, snap,
                     walFile, status, entry, seen, limits, ackedRoot>>
  BY DEF Write, GoTo, Part, handle
<1>2. /\ status = "open" /\ ~treeError
      /\ Ordered(file) /\ SnapshotOK /\ HandleOK /\ snap = "none"
      /\ \A v \in Writers \ {w} : pc[v] = "idle"
      /\ Current(w) /\ buffer = Written(w) /\ synced = Len(file) /\ Returned
  BY <1>1, OthersIdle DEF StepOK
<1>3. pc'[w] = After(pc[w]) /\ \A v \in Writers \ {w} : pc'[v] = "idle"
  BY <1>1, <1>2 DEF Turn, Calls, TypeOK
<1>4. After(pc[w]) \in {"key", "value", "flush"}
  BY <1>1 DEF After
<1>5. /\ Ordered(file)' /\ SnapshotOK' /\ HandleOK'
      /\ (Snapshotted' <=> Snapshotted)
  BY <1>1, <1>2, SameLog
<1>6. Current(w)'
  BY <1>1, <1>2 DEF Current, Acked, tree
<1>7. synced' = Len(file)' /\ Returned'
  BY <1>1, <1>2, <1>5 DEF Returned, Rebuilds
<1>8. /\ pc[w] = "term" => entry[w].op = "term"
      /\ pc[w] # "term" => entry[w].op = "insert"
  BY <1>1, Kinds DEF Turn, Calls, CallsOK, CarriesOK
<1>9. buffer' = Written(w)'
  <2>1. CASE pc[w] = "frame"
    BY <1>1, <1>2, <1>3, <2>1 DEF Written, After, Part
  <2>2. CASE pc[w] = "key"
    BY <1>1, <1>2, <1>3, <2>2 DEF Written, After, Part
  <2>3. CASE pc[w] = "value"
    BY <1>1, <1>2, <1>3, <1>8, <2>3 DEF Written, After, Part
  <2>4. CASE pc[w] = "term"
    BY <1>1, <1>2, <1>3, <1>8, <2>4 DEF Written, After, Part
  <2> QED BY <1>1, <2>1, <2>2, <2>3, <2>4
<1>10. StepOK(w)'
  BY <1>3, <1>4, <1>6, <1>7, <1>9 DEF StepOK
<1> QED BY <1>1, <1>2, <1>3, <1>4, <1>5, <1>10, StepDone DEF tree

\* A log that grows keeps its snapshots.
LEMMA Grown ==
  ASSUME Len(file') >= Len(file), Len(file) \in Nat, Len(file') \in Nat,
         \A i \in 1..Len(file) : file'[i] = file[i], ~Snapshotted'
  PROVE  ~Snapshotted
  BY DEF Snapshotted

\* Records with higher indexes than any before keep a log in order.
LEMMA OrderedNext ==
  ASSUME NEW log \in Seq(Piece), NEW more \in Seq(Piece), Ordered(log),
         Len(more) >= Len(log),
         \A i \in 1..Len(log) : more[i] = log[i],
         NEW n \in Nat,
         \A i \in (Len(log) + 1)..Len(more) : more[i].of.index = n,
         \A i, j \in (Len(log) + 1)..Len(more) :
           more[i].part = "value" /\ more[j].part = "value" => i = j,
         ReplayIndex(log) < n
  PROVE  Ordered(more)
<1>1. Len(log) \in Nat /\ Len(more) \in Nat
  OBVIOUS
<1>2. \A i \in 1..Len(log) : log[i].of.op # "term" =>
        /\ log[i].of.index \in Nat /\ log[i].of.index < n
  <2> SUFFICES ASSUME NEW i \in 1..Len(log), log[i].of.op # "term"
               PROVE  log[i].of.index \in Nat /\ log[i].of.index < n
    OBVIOUS
  <2>1. log[i].of.index \in Nat
    BY PieceFields, RecordFields
  <2>2. log[i].of.index <= ReplayIndex(log)
    BY IndexHighest DEF Indexed
  <2> QED BY <2>1, <2>2, IndexType
<1> SUFFICES ASSUME NEW i \in 1..Len(more), NEW j \in 1..Len(more), i < j,
                    more[i].of.op # "term", more[j].of.op # "term"
             PROVE  /\ more[i].of.index <= more[j].of.index
                    /\ more[i].part = "value" /\ more[j].part = "value" =>
                         more[i].of.index < more[j].of.index
  BY DEF Ordered
<1>3. CASE j <= Len(log)
  <2>1. i \in 1..Len(log) /\ j \in 1..Len(log)
    BY <1>1, <1>3
  <2> QED BY <2>1 DEF Ordered
<1>4. CASE i <= Len(log) /\ j > Len(log)
  <2>1. i \in 1..Len(log) /\ j \in (Len(log) + 1)..Len(more)
    BY <1>1, <1>4
  <2> QED BY <1>2, <2>1
<1>5. CASE i > Len(log)
  <2>1. /\ i \in (Len(log) + 1)..Len(more) /\ j \in (Len(log) + 1)..Len(more)
        /\ i # j
    BY <1>1, <1>5
  <2> QED BY <2>1
<1> QED BY <1>1, <1>3, <1>4, <1>5

\* A term is in no order.
LEMMA OrderedTerm ==
  ASSUME NEW log \in Seq(Piece), NEW more \in Seq(Piece), Ordered(log),
         Len(more) = Len(log) + 1,
         \A i \in 1..Len(log) : more[i] = log[i],
         more[Len(more)].of.op = "term"
  PROVE  Ordered(more)
<1>1. \A i \in 1..Len(more) : more[i].of.op # "term" => i \in 1..Len(log)
  OBVIOUS
<1> QED BY <1>1 DEF Ordered

\* A whole record after whole records.
LEMMA ThreeEntire ==
  ASSUME NEW log \in Seq(Piece), NEW more \in Seq(Piece), NEW e, Entire(log),
         Len(more) = Len(log) + 3,
         \A i \in 1..Len(log) : more[i] = log[i],
         more[Len(log) + 1] = [part |-> "frame", of |-> e],
         more[Len(log) + 2] = [part |-> "key", of |-> e],
         more[Len(log) + 3] = [part |-> "value", of |-> e]
  PROVE  Entire(more)
<1> DEFINE l == Len(log)
<1>1. /\ l \in Nat /\ Len(more) = l + 3
      /\ more[l + 1].part = "frame" /\ more[l + 1].of = e
      /\ more[l + 2] = [part |-> "key", of |-> e] /\ more[l + 2].part = "key"
      /\ more[l + 3] = [part |-> "value", of |-> e] /\ more[l + 3].part = "value"
  OBVIOUS
<1>2. ~Torn(more)
  BY <1>1 DEF Torn
<1>3. ASSUME NEW i \in 1..l
      PROVE  /\ more[i].part = "frame" => i + 2 <= l
             /\ more[i].part = "key" => i > 1 /\ more[i - 1].part = "frame"
             /\ more[i].part = "value" => i > 1 /\ more[i - 1].part = "key"
  <2>1. more[i] = log[i] /\ (i > 1 => more[i - 1] = log[i - 1])
    BY <1>1, <1>3
  <2>2. more[i].part = "frame" => i + 2 <= l
    <3> SUFFICES ASSUME log[i].part = "frame", i + 2 > l PROVE FALSE
      BY <1>1, <2>1
    <3>1. i = l \/ i + 1 = l
      BY <1>1
    <3>2. CASE i = l
      BY <1>1, <3>2 DEF Entire, Torn
    <3>3. CASE i + 1 = l
      <4>1. log[l] = [part |-> "key", of |-> log[i].of]
        BY <1>1, <3>3 DEF Entire, WellFormed
      <4> QED BY <1>1, <4>1 DEF Entire, Torn
    <3> QED BY <3>1, <3>2, <3>3
  <2> QED BY <2>1, <2>2 DEF Entire, WellFormed
<1>4. ASSUME NEW i \in 1..l, more[i].part = "frame",
             NEW j \in (i + 1)..(i + 2)
      PROVE  more[j] = [part |-> IF j = i + 1 THEN "key" ELSE "value",
                        of |-> more[i].of]
  <2>1. j \in 1..l /\ more[i] = log[i] /\ more[j] = log[j]
    BY <1>1, <1>3, <1>4
  <2> QED BY <1>1, <1>4, <2>1 DEF Entire, WellFormed
<1>5. WellFormed(more)
  <2> SUFFICES ASSUME NEW i \in 1..Len(more)
      PROVE  /\ more[i].part = "frame" =>
                  \A j \in (i + 1)..(i + 2) : j <= Len(more) =>
                    more[j] = [part |-> IF j = i + 1 THEN "key" ELSE "value",
                               of |-> more[i].of]
             /\ more[i].part = "key" => i > 1 /\ more[i - 1].part = "frame"
             /\ more[i].part = "value" => i > 1 /\ more[i - 1].part = "key"
    BY DEF WellFormed
  <2>1. CASE i \in 1..l
    BY <1>3, <1>4, <2>1
  <2>2. CASE i = l + 1
    <3>1. \A j \in (i + 1)..(i + 2) : j = l + 2 \/ j = l + 3
      BY <1>1, <2>2
    <3> QED BY <1>1, <2>2, <3>1
  <2>3. CASE i = l + 2
    BY <1>1, <2>3
  <2>4. CASE i = l + 3
    BY <1>1, <2>4
  <2>5. i \in 1..l \/ i = l + 1 \/ i = l + 2 \/ i = l + 3
    BY <1>1
  <2> HIDE DEF l
  <2> QED BY <2>1, <2>2, <2>3, <2>4, <2>5
<1> QED BY <1>2, <1>5 DEF Entire

LEMMA OneEntire ==
  ASSUME NEW log \in Seq(Piece), NEW more \in Seq(Piece), NEW e, Entire(log),
         Len(more) = Len(log) + 1,
         \A i \in 1..Len(log) : more[i] = log[i],
         more[Len(log) + 1] = [part |-> "whole", of |-> e]
  PROVE  Entire(more)
<1> DEFINE l == Len(log)
<1>1. l \in Nat /\ Len(more) = l + 1 /\ more[l + 1].part = "whole"
  OBVIOUS
<1>2. ~Torn(more)
  BY <1>1 DEF Torn
<1>3. ASSUME NEW i \in 1..l, log[i].part = "frame" PROVE i < l
  BY <1>1, <1>3 DEF Entire, Torn
<1>4. ASSUME NEW i \in 1..l, log[i].part = "frame" PROVE i + 2 <= l
  <2> SUFFICES ASSUME i + 1 = l PROVE FALSE
    BY <1>1, <1>3, <1>4
  <2>1. log[l] = [part |-> "key", of |-> log[i].of]
    BY <1>1, <1>4 DEF Entire, WellFormed
  <2> QED BY <1>1, <2>1 DEF Entire, Torn
<1>5. ASSUME NEW i \in 1..l
      PROVE  /\ more[i] = log[i] /\ (i > 1 => more[i - 1] = log[i - 1])
             /\ log[i].part = "frame" => \A j \in (i + 1)..(i + 2) :
                  j \in 1..l /\ more[j] = log[j]
  BY <1>1, <1>4
<1>6. WellFormed(more)
  <2> SUFFICES ASSUME NEW i \in 1..Len(more)
      PROVE  /\ more[i].part = "frame" =>
                  \A j \in (i + 1)..(i + 2) : j <= Len(more) =>
                    more[j] = [part |-> IF j = i + 1 THEN "key" ELSE "value",
                               of |-> more[i].of]
             /\ more[i].part = "key" => i > 1 /\ more[i - 1].part = "frame"
             /\ more[i].part = "value" => i > 1 /\ more[i - 1].part = "key"
    BY DEF WellFormed
  <2>1. CASE i \in 1..l
    BY <1>1, <1>5, <2>1 DEF Entire, WellFormed
  <2>2. CASE i = l + 1
    BY <1>1, <2>2
  <2> QED BY <1>1, <2>1, <2>2
<1> QED BY <1>2, <1>6 DEF Entire

LEMMA PrefixWellFormed ==
  ASSUME NEW log \in Seq(Piece), NEW n \in 0..Len(log), WellFormed(log)
  PROVE  WellFormed(Beginning(log, n))
<1>1. /\ Len(Beginning(log, n)) = n /\ Len(log) \in Nat
      /\ \A i \in 1..n : Beginning(log, n)[i] = log[i] /\ i \in 1..Len(log)
  BY Prefix
<1> QED BY <1>1 DEF WellFormed

LEMMA FlushInsertTurns ==
  ASSUME Turn, NEW w \in Writers, Flush(w), entry[w] \in InsertRecord,
         (snap' # "none" => Idle')
  PROVE  TurnOK'
<1> DEFINE e == entry[w]
           frame == [part |-> "frame", of |-> e]
           key   == [part |-> "key", of |-> e]
           val   == [part |-> "value", of |-> e]
<1>1. /\ pc[w] = "flush" /\ buffer' = <<>> /\ file' = file \o buffer
      /\ pc' = [pc EXCEPT ![w] = "sync"]
      /\ UNCHANGED <<tree, lastTerm, lastIndex, synced, snapDue, snap, walFile,
                     status, entry, seen, limits, ackedRoot>>
  <2>1. pc[w] = "flush"
    BY DEF Flush
  <2>2. walFile = "log"
    BY <2>1, OthersIdle
  <2> QED BY <2>1, <2>2 DEF Flush, GoTo, handle
<1>2. /\ status = "open" /\ ~treeError
      /\ Ordered(file) /\ SnapshotOK /\ HandleOK /\ snap = "none"
      /\ \A v \in Writers \ {w} : pc[v] = "idle"
      /\ Current(w) /\ buffer = Written(w) /\ synced = Len(file) /\ Returned
  BY <1>1, OthersIdle DEF StepOK
<1>3. pc'[w] = "sync" /\ \A v \in Writers \ {w} : pc'[v] = "idle"
  BY <1>1, <1>2 DEF Turn, Calls, TypeOK
<1>4. /\ e \in Record /\ e.op = "insert" /\ e.index = logIndex
      /\ e.term = term /\ logIndex = lastIndex + 1 /\ e.index \in Nat
      /\ file \in Seq(Piece) /\ lastIndex \in Nat
  BY <1>2, Kinds DEF Current, Turn, Calls, TypeOK
<1>5. frame \in Piece /\ key \in Piece /\ val \in Piece
  BY <1>4 DEF Piece
<1>6. file' = file \o <<frame, key, val>>
  BY <1>1, <1>2, <1>4 DEF Written, Part
<1> HIDE DEF frame, key, val
<1>7. /\ file' \in Seq(Piece) /\ Len(file') = Len(file) + 3
      /\ \A i \in 1..Len(file) : file'[i] = file[i]
      /\ file'[Len(file) + 1] = frame /\ file'[Len(file) + 2] = key
      /\ file'[Len(file) + 3] = val /\ Beginning(file', Len(file)) = file
  BY <1>4, <1>5, <1>6, ThreePieces
<1>8. /\ Len(file) \in Nat /\ Len(file') \in Nat
      /\ \A i \in (Len(file) + 1)..Len(file') :
           i = Len(file) + 1 \/ i = Len(file) + 2 \/ i = Len(file) + 3
  BY <1>4, <1>7
<1>9. /\ \A n \in Len(file)..(Len(file) + 2) :
           Replay(Beginning(file', n)) = Replay(file)
      /\ Replay(file') = [Replay(file) EXCEPT ![e.key] = e.value]
      /\ ReplayIndex(file') = e.index /\ ReplayTerm(file') = e.term
  <2>1. /\ file'[Len(file) + 1] = [part |-> "frame", of |-> e]
        /\ file'[Len(file) + 2] = [part |-> "key", of |-> e]
        /\ file'[Len(file) + 3] = [part |-> "value", of |-> e]
    BY <1>7 DEF frame, key, val
  <2> HIDE DEF e
  <2> QED BY <1>4, <1>7, <2>1, ThreeReplayed
<1>10. \A i \in (Len(file) + 1)..Len(file') :
         /\ file'[i].of = e
         /\ file'[i].part = "value" => i = Len(file) + 3
  BY <1>7, <1>8 DEF frame, key, val
<1>11. Ordered(file)'
  <2>1. ReplayIndex(file) < e.index
    BY <1>2, <1>4 DEF Returned
  <2>2. /\ \A i \in (Len(file) + 1)..Len(file') : file'[i].of.index = e.index
        /\ \A i, j \in (Len(file) + 1)..Len(file') :
             file'[i].part = "value" /\ file'[j].part = "value" => i = j
    BY <1>10
  <2>3. Len(file') >= Len(file)
    BY <1>7, <1>8
  <2>4. Ordered(file')
    BY <1>2, <1>4, <1>7, <2>1, <2>2, <2>3, OrderedNext
  <2> QED BY <2>4 DEF Ordered
<1>12. SnapshotOK' /\ HandleOK'
  <2> SUFFICES ASSUME NEW i \in 1..Len(file'), file'[i].of.op = "snapshot"
               PROVE  i <= synced
    BY <1>1, <1>2 DEF SnapshotOK, HandleOK
  <2>1. CASE i <= Len(file)
    BY <1>2, <2>1
  <2>2. CASE i > Len(file)
    BY <1>4, <1>8, <1>10, <2>2
  <2> QED BY <1>8, <2>1, <2>2
<1>13. ~Snapshotted' => Replay(file) = ackedRoot
  BY <1>2, <1>7, <1>8, Grown DEF Returned, Rebuilds
<1>14. ~Snapshotted' => Replay(file') = root
  BY <1>2, <1>4, <1>9, <1>13 DEF Current, Acked
<1>15. Running' /\ Entire(file')
  <2>1. Entire(file)
    BY <1>2 DEF Returned
  <2>2. Entire(file')
    BY <1>4, <1>7, <2>1, ThreeEntire DEF frame, key, val
  <2> QED BY <1>1, <1>4, <1>9, <1>14, <2>2 DEF Running, Rebuilds, Entire, tree
<1>16. Current(w)'
  BY <1>1, <1>2 DEF Current, Acked, tree
<1>17. \A n \in synced'..Len(file') :
         /\ WellFormed(Beginning(file', n))
         /\ ~Snapshotted' => Replay(Beginning(file', n)) \in {ackedRoot', root'}
         /\ Torn(Beginning(file', n)) =>
              (~Snapshotted' => Replay(Beginning(file', n)) \in {ackedRoot'})
  <2> TAKE n \in synced'..Len(file')
  <2>1. n \in Len(file)..Len(file') /\ n \in 0..Len(file')
    BY <1>1, <1>2, <1>8
  <2>2. WellFormed(Beginning(file', n))
    BY <1>7, <1>15, <2>1, PrefixWellFormed DEF Entire
  <2>3. ackedRoot' = ackedRoot /\ root' = root
    BY <1>1 DEF tree
  <2>4. CASE n \in Len(file)..(Len(file) + 2)
    <3>1. Replay(Beginning(file', n)) = Replay(file)
      BY <1>9, <2>4
    <3> QED BY <1>13, <2>2, <2>3, <3>1
  <2>5. CASE n = Len(file')
    <3>1. Beginning(file', n) = file' /\ ~Torn(file')
      BY <1>7, <1>15, <2>5, WholePrefix DEF Entire
    <3> QED BY <1>14, <2>2, <2>3, <3>1
  <2> QED BY <1>7, <1>8, <2>1, <2>4, <2>5
<1>18. StepOK(w)'
  BY <1>1, <1>3, <1>15, <1>16, <1>17 DEF StepOK, CutOK, Rebuilds, Beginning
<1> QED BY <1>1, <1>2, <1>3, <1>11, <1>12, <1>18, StepDone DEF tree

LEMMA FlushTermTurns ==
  ASSUME Turn, NEW w \in Writers, Flush(w), entry[w] \in TermRecord,
         (snap' # "none" => Idle')
  PROVE  TurnOK'
<1> DEFINE e == entry[w]
           whole == [part |-> "whole", of |-> e]
<1>1. /\ pc[w] = "flush" /\ buffer' = <<>> /\ file' = file \o buffer
      /\ pc' = [pc EXCEPT ![w] = "sync"]
      /\ UNCHANGED <<tree, lastTerm, lastIndex, synced, snapDue, snap, walFile,
                     status, entry, seen, limits, ackedRoot>>
  <2>1. pc[w] = "flush"
    BY DEF Flush
  <2>2. walFile = "log"
    BY <2>1, OthersIdle
  <2> QED BY <2>1, <2>2 DEF Flush, GoTo, handle
<1>2. /\ status = "open" /\ ~treeError
      /\ Ordered(file) /\ SnapshotOK /\ HandleOK /\ snap = "none"
      /\ \A v \in Writers \ {w} : pc[v] = "idle"
      /\ Current(w) /\ buffer = Written(w) /\ synced = Len(file) /\ Returned
  BY <1>1, OthersIdle DEF StepOK
<1>3. pc'[w] = "sync" /\ \A v \in Writers \ {w} : pc'[v] = "idle"
  BY <1>1, <1>2 DEF Turn, Calls, TypeOK
<1>4. /\ e \in Record /\ e.op = "term" /\ e.term = term
      /\ logIndex = lastIndex /\ file \in Seq(Piece)
  BY <1>2, Kinds DEF Current, Turn, Calls, TypeOK
<1>5. whole \in Piece
  BY <1>4 DEF Piece
<1>6. file' = file \o <<whole>>
  BY <1>1, <1>2, <1>4 DEF Written, Part
<1> HIDE DEF whole
<1>7. /\ file' \in Seq(Piece) /\ Len(file') = Len(file) + 1
      /\ \A i \in 1..Len(file) : file'[i] = file[i]
      /\ file'[Len(file) + 1] = whole /\ Beginning(file', Len(file)) = file
  BY <1>4, <1>5, <1>6, OnePiece
<1>8. Len(file) \in Nat /\ Len(file') \in Nat
  BY <1>4, <1>7
<1>9. /\ Replay(file') = Replay(file)
      /\ ReplayIndex(file') = ReplayIndex(file) /\ ReplayTerm(file') = e.term
  BY <1>4, <1>7, OneReplayed DEF whole
<1>10. file'[Len(file')].of.op = "term"
  BY <1>4, <1>7 DEF whole
<1>11. Ordered(file)'
  <2>1. Ordered(file')
    BY <1>2, <1>4, <1>7, <1>10, OrderedTerm
  <2> QED BY <2>1 DEF Ordered
<1>12. SnapshotOK' /\ HandleOK'
  <2> SUFFICES ASSUME NEW i \in 1..Len(file'), file'[i].of.op = "snapshot"
               PROVE  i <= synced
    BY <1>1, <1>2 DEF SnapshotOK, HandleOK
  <2>1. i \in 1..Len(file)
    BY <1>7, <1>8, <1>10
  <2> QED BY <1>2, <2>1
<1>13. ~Snapshotted' => Replay(file) = ackedRoot
  BY <1>2, <1>7, <1>8, Grown DEF Returned, Rebuilds
<1>14. root = ackedRoot
  BY <1>2, <1>4 DEF Current, Acked
<1>15. Running' /\ Entire(file')
  <2>1. Entire(file)
    BY <1>2 DEF Returned
  <2>2. Entire(file')
    BY <1>4, <1>7, <2>1, OneEntire DEF whole
  <2> QED BY <1>1, <1>2, <1>4, <1>9, <1>13, <1>14, <2>2
          DEF Running, Returned, Rebuilds, Entire, tree
<1>16. Current(w)'
  BY <1>1, <1>2 DEF Current, Acked, tree
<1>17. \A n \in synced'..Len(file') :
         /\ WellFormed(Beginning(file', n))
         /\ ~Snapshotted' => Replay(Beginning(file', n)) \in {ackedRoot', root'}
         /\ Torn(Beginning(file', n)) =>
              (~Snapshotted' => Replay(Beginning(file', n)) \in {ackedRoot'})
  <2> TAKE n \in synced'..Len(file')
  <2>1. n \in Len(file)..Len(file') /\ n \in 0..Len(file')
    BY <1>1, <1>2, <1>8
  <2>2. WellFormed(Beginning(file', n))
    BY <1>7, <1>15, <2>1, PrefixWellFormed DEF Entire
  <2>3. ackedRoot' = ackedRoot /\ root' = root
    BY <1>1 DEF tree
  <2>4. Replay(Beginning(file', n)) = Replay(file)
    <3>1. CASE n = Len(file)
      BY <1>7, <3>1
    <3>2. CASE n = Len(file')
      BY <1>7, <1>9, <3>2, WholePrefix
    <3> QED BY <1>7, <1>8, <2>1, <3>1, <3>2
  <2> QED BY <1>13, <2>2, <2>3, <2>4
<1>18. StepOK(w)'
  BY <1>1, <1>3, <1>15, <1>16, <1>17 DEF StepOK, CutOK, Rebuilds, Beginning
<1> QED BY <1>1, <1>2, <1>3, <1>11, <1>12, <1>18, StepDone DEF tree

LEMMA FlushTurns ==
  ASSUME Turn, NEW w \in Writers, Flush(w), (snap' # "none" => Idle')
  PROVE  TurnOK'
<1>1. entry[w] \in InsertRecord \cup TermRecord
  BY DEF Flush, Turn, Calls, CallsOK, CarriesOK
<1> QED BY <1>1, FlushInsertTurns, FlushTermTurns

LEMMA SyncTurns ==
  ASSUME Turn, NEW w \in Writers, Sync(w), (snap' # "none" => Idle')
  PROVE  TurnOK'
<1>1. /\ pc[w] = "sync" /\ synced' = Len(file)
      /\ pc' = [pc EXCEPT ![w] = "store"]
      /\ UNCHANGED <<tree, lastTerm, lastIndex, buffer, file, snapDue, snap,
                     walFile, status, entry, seen, limits, ackedRoot>>
  <2>1. pc[w] = "sync"
    BY DEF Sync
  <2>2. walFile = "log"
    BY <2>1, OthersIdle
  <2> QED BY <2>1, <2>2 DEF Sync, GoTo, handle
<1>2. /\ status = "open" /\ ~treeError /\ Ordered(file) /\ HandleOK
      /\ \A v \in Writers \ {w} : pc[v] = "idle"
      /\ Current(w) /\ buffer = <<>> /\ Running
  BY <1>1, OthersIdle DEF StepOK
<1>3. pc'[w] = "store" /\ \A v \in Writers \ {w} : pc'[v] = "idle"
  BY <1>1, <1>2 DEF Turn, Calls, TypeOK
<1>4. /\ Ordered(file)' /\ SnapshotOK' /\ HandleOK'
      /\ (Snapshotted' <=> Snapshotted)
  BY <1>1, <1>2 DEF Ordered, SnapshotOK, HandleOK, Snapshotted
<1>5. Current(w)' /\ Clean' /\ Running'
  BY <1>1, <1>2, <1>4 DEF Current, Acked, Clean, Running, Rebuilds, tree
<1>6. StepOK(w)'
  BY <1>3, <1>5 DEF StepOK
<1> QED BY <1>1, <1>2, <1>3, <1>4, <1>6, StepDone DEF tree

LEMMA LoggedTurns ==
  ASSUME Turn, NEW w \in Writers, Logged(w), (snap' # "none" => Idle')
  PROVE  TurnOK'
<1>1. /\ pc[w] = "store" /\ lastTerm' = entry[w].term /\ Return(w)
      /\ UNCHANGED <<tree, buffer, file, synced, snap, walFile, status, limits>>
  BY DEF Logged, handle
<1>2. /\ status = "open" /\ ~treeError
      /\ Ordered(file) /\ SnapshotOK /\ HandleOK /\ snap = "none"
      /\ Current(w) /\ Clean /\ Running
  BY <1>1, OthersIdle DEF StepOK
<1>3. /\ pc'[w] = "idle" /\ \A v \in Writers \ {w} : pc'[v] = "idle"
      /\ ackedRoot' = Acked(w)
  BY <1>1, ReturnedIdle
<1>4. /\ Ordered(file)' /\ SnapshotOK' /\ HandleOK'
      /\ (Snapshotted' <=> Snapshotted)
  BY <1>1, <1>2, SameLog
<1>5. lastIndex' = logIndex
  BY <1>2 DEF Logged, Current
<1>6. Settled'
  BY <1>1, <1>2, <1>3, <1>4, <1>5
     DEF Settled, Quiet, Clean, Returned, Running, Current, Rebuilds, tree
<1> QED BY <1>1, <1>2, <1>3, <1>4, <1>6, StepDone DEF tree

\* A step that leaves alone what the invariant is about.
LEMMA Unmoved ==
  ASSUME TurnOK,
         UNCHANGED <<tree, status, pc, entry, ackedRoot, lastTerm, lastIndex,
                     buffer, file, synced, snap, walFile>>
  PROVE  TurnOK'
<1>1. /\ Ordered(file)' /\ SnapshotOK' /\ HandleOK'
      /\ (Snapshotted' <=> Snapshotted)
  BY SameLog DEF TurnOK
<1>2. /\ Clean => Clean'
      /\ Quiet => Quiet'
      /\ Returned => Returned'
      /\ Running => Running'
  BY <1>1 DEF Clean, Quiet, Returned, Running, Rebuilds, tree
<1>3. Settled => Settled'
  BY <1>2 DEF Settled
<1>4. ASSUME NEW w \in Writers, StepOK(w) PROVE StepOK(w)'
  <2>1. (Current(w) => Current(w)') /\ Written(w)' = Written(w)
    BY DEF Current, Acked, Written, Part, tree
  <2>2. \A n \in synced..Len(file) :
          CutOK(Beginning(file, n)) => CutOK(Beginning(file, n))'
    BY <1>1 DEF CutOK, Rebuilds, Beginning, tree
  <2>3. /\ root' = root /\ term' = term /\ logIndex' = logIndex
        /\ root = Acked(w) => root' = Acked(w)'
    BY DEF Acked, tree
  <2>4. CASE pc[w] = "sync"
    BY <1>2, <1>4, <2>1, <2>2, <2>3, <2>4 DEF StepOK
  <2>5. CASE pc[w] # "sync"
    BY <1>2, <1>3, <1>4, <2>1, <2>3, <2>5 DEF StepOK
  <2> QED BY <2>4, <2>5
<1>5. /\ OneCall => OneCall'
      /\ Idle' <=> Idle
      /\ \A w \in Writers : Busy(w)' => Busy(w)
  BY DEF OneCall, Busy, Idle
<1>6. CutOK(file) => CutOK(file)'
  BY <1>1 DEF CutOK, Rebuilds, tree
<1> QED BY <1>1, <1>2, <1>3, <1>4, <1>5, <1>6 DEF TurnOK, tree

\* After a step of a snapshot, beside which no call runs.
LEMMA SnapshotDone ==
  ASSUME Turn, status = "open", Idle, UNCHANGED <<tree, status, writer, ackedRoot>>,
         Ordered(file)', SnapshotOK', HandleOK', Settled'
  PROVE  TurnOK'
<1>1. ~treeError' /\ status' = "open"
  BY DEF Turn, TurnOK, tree
<1>2. Idle' /\ OneCall' /\ \A w \in Writers : ~Busy(w)'
  BY DEF Idle, OneCall, Busy, writer
<1> QED BY <1>1, <1>2 DEF TurnOK

LEMMA SnapshotBeginTurns ==
  ASSUME Turn, SnapshotBegin, (snap' # "none" => Idle')
  PROVE  TurnOK'
<1>1. /\ status = "open"
      /\ UNCHANGED <<tree, lastTerm, lastIndex, file, synced, walFile, status,
                     writer, ackedRoot>>
  BY DEF SnapshotBegin
<1>2. CASE UNCHANGED <<buffer, snap>>
  BY <1>1, <1>2, Unmoved DEF Turn, writer
<1>3. CASE snap = "none" /\ snap' = "replace"
  <2>1. Idle
    BY <1>1, <1>3 DEF Idle, writer
  <2>2. Ordered(file) /\ SnapshotOK /\ HandleOK /\ Settled
    BY <1>1, <2>1 DEF Turn, TurnOK
  <2>3. /\ Ordered(file)' /\ SnapshotOK' /\ HandleOK'
        /\ (Snapshotted' <=> Snapshotted)
    BY <1>1, <1>3, <2>2 DEF Ordered, SnapshotOK, HandleOK, Snapshotted
  <2>4. Settled'
    BY <1>1, <1>3, <2>2, <2>3 DEF Settled, Quiet, Clean, Returned, Rebuilds, tree
  <2> QED BY <1>1, <2>1, <2>3, <2>4, SnapshotDone
<1> QED BY <1>2, <1>3 DEF SnapshotBegin

LEMMA SnapshotReplaceTurns ==
  ASSUME Turn, SnapshotReplace
  PROVE  TurnOK'
<1>1. /\ snap = "replace" /\ snap' = "close"
      /\ walFile' = IF walFile = "log" THEN "old" ELSE "closed"
      /\ UNCHANGED <<tree, lastTerm, lastIndex, status, writer, ackedRoot>>
  BY DEF SnapshotReplace
<1>2. status = "open" /\ Idle /\ HandleOK /\ Settled
  BY <1>1 DEF Turn, TurnOK, Calls, CallsOK
<1> DEFINE p == SnapshotPiece
<1>3. /\ file' \in Seq(Piece) /\ Len(file') = 1 /\ file'[1] = p
      /\ file' # <<>> /\ synced' = 1
      /\ p.part = "whole" /\ p.of.op = "snapshot" /\ p.of.term = lastTerm
      /\ p.of.index = lastIndex
  BY SnapshotLog, SnapshotFits DEF Turn
<1> HIDE DEF p
<1>4. Snapshotted'
  BY <1>3 DEF Snapshotted
<1>5. Ordered(file)' /\ SnapshotOK' /\ HandleOK'
  BY <1>1, <1>2, <1>3 DEF Ordered, SnapshotOK, HandleOK
<1>6. ReplayTerm(file)' = lastTerm
  BY <1>3 DEF ReplayTerm
<1>7. ReplayIndex(file)' = lastIndex
  <2>1. 1 \in Indexed(file') /\ \A j \in Indexed(file') : j <= 1
    BY <1>3 DEF Indexed
  <2>2. ReplayIndex(file') = file'[1].of.index
    BY <1>3, <2>1, IndexLast
  <2> QED BY <1>3, <2>2 DEF ReplayIndex, Indexed
<1>8. Entire(file)'
  BY <1>3 DEF Entire, WellFormed, Torn
<1>9. Settled'
  BY <1>1, <1>2, <1>3, <1>4, <1>6, <1>7, <1>8
     DEF Settled, Quiet, Clean, Returned, Rebuilds, tree
<1> QED BY <1>1, <1>2, <1>5, <1>9, SnapshotDone

LEMMA SnapshotHandleTurns ==
  ASSUME Turn, SnapshotClose \/ SnapshotOpen
  PROVE  TurnOK'
<1>1. /\ snap # "none"
      /\ UNCHANGED <<tree, lastTerm, lastIndex, file, synced, status, writer,
                     ackedRoot>>
      /\ HandleOK' /\ (snap' = "none" => buffer' = <<>>)
  BY DEF SnapshotClose, SnapshotOpen, HandleOK
<1>2. status = "open" /\ Idle /\ Ordered(file) /\ SnapshotOK /\ Settled
  BY <1>1 DEF Turn, TurnOK, Calls, CallsOK
<1>3. Ordered(file)' /\ SnapshotOK' /\ (Snapshotted' <=> Snapshotted)
  BY <1>1, <1>2 DEF Ordered, SnapshotOK, Snapshotted
<1>4. Settled'
  BY <1>1, <1>2, <1>3 DEF Settled, Quiet, Clean, Returned, Rebuilds, tree
<1> QED BY <1>1, <1>2, <1>3, <1>4, SnapshotDone

\* What a crash leaves of the file replays to the tree with or without the
\* running call.
LEMMA CrashPrefix ==
  ASSUME Turn, status = "open", NEW kept \in synced..Len(file)
  PROVE  /\ Ordered(file) /\ SnapshotOK
         /\ CutOK(Beginning(file, kept))
<1>1. Ordered(file) /\ SnapshotOK
  BY DEF Turn, TurnOK
<1>2. file \in Seq(Piece) /\ synced \in 0..Len(file)
  BY DEF Turn, Calls, TypeOK
<1>3. CASE Idle
  <2>1. Settled
    BY <1>3 DEF Turn, TurnOK
  <2>2. kept = Len(file)
    BY <1>2, <2>1 DEF Settled, Clean
  <2> QED BY <1>1, <1>2, <2>1, <2>2, WholePrefix
          DEF Settled, Returned, Rebuilds, CutOK, Entire
<1>4. CASE ~Idle
  <2>1. PICK w \in Writers : pc[w] # "idle"
    BY <1>4 DEF Idle
  <2>2. StepOK(w)
    BY <2>1, OthersIdle
  <2>3. CASE pc[w] = "sync"
    BY <1>1, <2>2, <2>3 DEF StepOK
  <2>4. CASE pc[w] # "sync"
    <3>1. synced = Len(file) /\ (Returned \/ Running)
      BY <2>1, <2>2, <2>4
         DEF StepOK, Settled, Clean, Turn, Calls, TypeOK, Labels
    <3>2. kept = Len(file)
      BY <1>2, <3>1
    <3> QED BY <1>1, <1>2, <3>1, <3>2, WholePrefix
            DEF Returned, Running, Rebuilds, CutOK, Entire
  <2> QED BY <2>3, <2>4
<1> QED BY <1>3, <1>4

LEMMA CrashTurns ==
  ASSUME Turn, Crash, (snap' # "none" => Idle')
  PROVE  TurnOK'
<1>1. PICK kept \in synced..Len(file) :
        file' = Beginning(file, kept) /\ synced' = kept
  BY DEF Crash, Beginning
<1>2. /\ status = "open" /\ status' = "down" /\ buffer' = <<>>
      /\ snap' = "none" /\ walFile' = "log"
      /\ UNCHANGED <<tree, ackedRoot>>
  BY DEF Crash
<1>3. /\ file \in Seq(Piece) /\ synced \in 0..Len(file) /\ kept \in 0..Len(file)
  BY DEF Turn, Calls, TypeOK
<1>4. /\ Ordered(file) /\ SnapshotOK
      /\ CutOK(Beginning(file, kept))
  BY <1>2, CrashPrefix
<1>5. /\ Len(file') = kept
      /\ \A i \in 1..kept : file'[i] = file[i] /\ i \in 1..Len(file)
  BY <1>1, <1>3, Prefix
<1>6. Ordered(file)'
  <2>1. Ordered(file')
    BY <1>1, <1>3, <1>4, OrderedPrefix
  <2> QED BY <2>1 DEF Ordered
<1>7. SnapshotOK' /\ HandleOK'
  BY <1>1, <1>2, <1>5 DEF SnapshotOK, HandleOK
<1>8. ~Snapshotted' => ~Snapshotted
  <2>1. \A i \in 1..Len(file) : i <= synced => i \in 1..kept
    BY <1>1, <1>3
  <2> QED BY <1>4, <1>5, <2>1 DEF Snapshotted, SnapshotOK
<1>9. CutOK(file)'
  BY <1>1, <1>2, <1>4, <1>8 DEF CutOK, Rebuilds, tree
<1> QED BY <1>1, <1>2, <1>5, <1>6, <1>7, <1>9 DEF TurnOK, Clean

LEMMA RestartTurns ==
  ASSUME Turn, Restart, (snap' # "none" => Idle')
  PROVE  TurnOK'
<1>1. /\ status = "down" /\ status' = "open" /\ ~treeError'
      /\ UNCHANGED <<buffer, file, synced, snap, walFile, writer>>
      /\ Entire(file)
      /\ root' = Replay(file) /\ ackedRoot' = Replay(file)
      /\ term' = ReplayTerm(file) /\ lastTerm' = ReplayTerm(file)
      /\ logIndex' = ReplayIndex(file) /\ lastIndex' = ReplayIndex(file)
  BY DEF Restart, Entire, handle
<1>2. Ordered(file) /\ SnapshotOK /\ HandleOK /\ Clean /\ Idle
  BY <1>1 DEF Turn, TurnOK, Calls, CallsOK
<1>3. /\ Ordered(file)' /\ SnapshotOK' /\ HandleOK'
      /\ (Snapshotted' <=> Snapshotted)
  BY <1>1, <1>2, SameLog
<1>4. Settled'
  BY <1>1, <1>2 DEF Settled, Quiet, Clean, Returned, Rebuilds
<1>5. OneCall' /\ \A w \in Writers : ~Busy(w)'
  BY <1>1, <1>2 DEF Idle, OneCall, Busy, writer
<1> QED BY <1>1, <1>3, <1>4, <1>5 DEF TurnOK

LEMMA RestartFailsTurns ==
  ASSUME Turn, RestartFails, (snap' # "none" => Idle')
  PROVE  TurnOK'
<1>1. status' = "failed" /\ UNCHANGED <<file, synced, snap, walFile>>
  BY DEF RestartFails, store, handle
<1>2. Ordered(file)' /\ SnapshotOK' /\ HandleOK'
  BY <1>1, SameLog DEF Turn, TurnOK
<1> QED BY <1>1, <1>2 DEF TurnOK

-----------------------------------------------------------------------------
(* The invariant *)

LEMMA InitOK == Init => IInv
<1> SUFFICES ASSUME Init PROVE IInv
  OBVIOUS
<1>1. Calls
  BY CallsInit
<1>2. /\ file = <<>> /\ buffer = <<>> /\ synced = 0 /\ Len(file) = 0
      /\ snap = "none" /\ walFile = "log"
      /\ 1..Len(file) = {} /\ status = "open" /\ ~treeError
      /\ \A w \in Writers : pc[w] = "idle"
  BY DEF Init
<1>3. Ordered(file) /\ SnapshotOK /\ HandleOK /\ Entire(file)
  BY <1>2 DEF Ordered, SnapshotOK, HandleOK, Entire, WellFormed, Torn
<1>4. /\ ReplayTerm(file) = 0 /\ ReplayIndex(file) = 0
      /\ Replay(file) = Empty
  <2>1. Indexed(file) = {} /\ \A k \in Keys : WrittenTo(file, k) = {}
    BY <1>2 DEF Indexed, WrittenTo
  <2>2. Replay(file) = Empty
    BY <2>1 DEF Replay, Empty
  <2> QED BY <1>2, <2>1, <2>2 DEF ReplayTerm, ReplayIndex
<1>5. Settled
  BY <1>2, <1>3, <1>4 DEF Init, Settled, Quiet, Clean, Returned, Rebuilds
<1>6. TurnOK
  BY <1>2, <1>3, <1>5 DEF TurnOK, OneCall, Busy
<1> QED BY <1>1, <1>6 DEF Calls, IInv

LEMMA NextOK == IInv /\ [Next]_vars => IInv'
<1> SUFFICES ASSUME IInv, [Next]_vars PROVE IInv'
  OBVIOUS
<1>1. Calls'
  BY CallsNext DEF IInv, Calls
<1>2. ASSUME LoggedInTurn' PROVE TurnOK'
  <2>1. CASE UNCHANGED vars
    <3>1. LoggedInTurn
      BY <1>2, <2>1 DEF LoggedInTurn, vars, limits
    <3>2. TurnOK
      BY <3>1 DEF IInv
    <3> QED BY <2>1, <3>2, Unmoved DEF vars, writer, store, handle
  <2>2. CASE Next
    <3>1. ~overlap /\ ~raced /\ (snap' # "none" => Idle')
      BY <1>2, <2>2 DEF Next, LoggedInTurn
    <3>2. failures \in Nat /\ failures' = 0
      BY <1>2 DEF LoggedInTurn, IInv, TypeOK
    <3>3. failures = 0
      <4>1. \A w \in Writers, k \in Keys : InsertCall(w, k) => failures' = failures
        BY DEF InsertCall
      <4>2. \A w \in Writers :
              Swap(w) \/ TakeIndex(w) \/ UpdateTerm(w) => failures' = failures
        BY DEF Swap, TakeIndex, UpdateTerm, limits
      <4>3. \A w \in Writers :
              Write(w) \/ Flush(w) \/ Sync(w) \/ Logged(w) => failures' = failures
        BY DEF Write, Flush, Sync, Logged, limits
      <4>4. \A w \in Writers : LogFails(w) => failures' \in {failures, failures + 1}
        BY DEF LogFails
      <4>5. createSnapshot => failures' \in {failures, failures + 1}
        BY DEF createSnapshot, SnapshotBegin, SnapshotReplace, SnapshotClose,
               SnapshotOpen, SnapshotFails, limits
      <4>6. Crash \/ Restart \/ RestartFails => failures' = failures
        BY DEF Crash, Restart, RestartFails, limits
      <4>7. failures' = failures \/ failures' = failures + 1
        BY <2>2, <4>1, <4>2, <4>3, <4>4, <4>5, <4>6
           DEF Next, Step, Insert, LogRecord
      <4> QED BY <3>2, <4>7
    <3>4. Turn
      BY <3>1, <3>3 DEF Turn, IInv, Calls, LoggedInTurn
    <3>5. ~SnapshotFails /\ \A w \in Writers : ~LogFails(w)
      BY <3>2, <3>3, <3>4, FailureCounted
    <3>6. createSnapshot => TurnOK'
      BY <3>1, <3>4, <3>5, SnapshotBeginTurns, SnapshotReplaceTurns,
         SnapshotHandleTurns DEF createSnapshot
    <3> QED BY <2>2, <3>1, <3>4, <3>5, <3>6, InsertCallTurns, SwapTurns,
               TakeIndexTurns, UpdateTermTurns, WriteTurns, FlushTurns,
               SyncTurns, LoggedTurns, CrashTurns, RestartTurns,
               RestartFailsTurns DEF Next, Step, Insert, LogRecord
  <2> QED BY <2>1, <2>2
<1> QED BY <1>1, <1>2 DEF IInv, Calls

THEOREM Invariance == Spec => []IInv
<1>1. Init => IInv
  BY InitOK
<1>2. IInv /\ [Next]_vars => IInv'
  BY NextOK
<1> QED BY <1>1, <1>2, PTL DEF Spec

-----------------------------------------------------------------------------
(* The properties *)

LEMMA HoldsLog == IInv => LogHolds
<1> SUFFICES ASSUME IInv PROVE LogHolds
  OBVIOUS
<1>1. file \in Seq(Piece) /\ \A i \in 1..Len(file) : Fits(file[i])
  BY DEF IInv, TypeOK, CallsOK, PiecesOK
<1>2. IndexesGrow
  <2> SUFFICES ASSUME LoggedInTurn, NEW i \in 1..Len(file), NEW j \in 1..Len(file),
                      i < j, file[i].part = "value", file[j].part = "value"
               PROVE  file[i].of.index < file[j].of.index
    BY DEF IndexesGrow
  <2>1. file[i].of.op # "term" /\ file[j].of.op # "term"
    BY <1>1 DEF Fits
  <2> QED BY <2>1 DEF IInv, TurnOK, Ordered
<1>3. LoggedInTurn /\ status = "open" /\ Idle => Settled /\ Kept = file
  <2> SUFFICES ASSUME LoggedInTurn, status = "open", Idle
               PROVE  Settled /\ Kept = file
    OBVIOUS
  <2>1. Settled
    BY DEF IInv, TurnOK
  <2> QED BY <1>1, <2>1, WholePrefix DEF Settled, Clean, Kept, Beginning
<1>4. TreeDurable
  BY <1>3 DEF TreeDurable, WalDurable, Settled, Quiet, Returned, Rebuilds
<1> QED BY <1>2, <1>4 DEF LogHolds, Inv, IInv

\* In every reachable state the log is in the order of its indexes and holds
\* what a restart needs (LogInsert, createSnapshot, Replay).
THEOREM LogHoldsAlways == Spec => []LogHolds
  BY Invariance, HoldsLog, PTL

\* What a crash leaves restarts with the tree of the calls that had returned,
\* with or without the one that was running; or, only if that one's record is
\* cut, not at all, with all that had returned in front of it (Insert,
\* LogInsert, Replay, NewTree).
THEOREM CrashIsAtomic == Spec => CrashAtomic
<1> DEFINE Atomic ==
      LoggedInTurn /\ ~Snapshotted /\ status = "down" /\ status' # "down" =>
        \/ status' = "open" /\ root' \in {ackedRoot, root}
        \/ /\ status' = "failed" /\ root' = Empty
           /\ Torn(file) /\ Replay(file) = ackedRoot
<1>1. IInv /\ [Next]_vars => Atomic
  <2> SUFFICES ASSUME IInv, [Next]_vars, LoggedInTurn, ~Snapshotted,
                      status = "down", status' # "down"
               PROVE  \/ status' = "open" /\ root' \in {ackedRoot, root}
                      \/ /\ status' = "failed" /\ root' = Empty
                         /\ Torn(file) /\ Replay(file) = ackedRoot
    OBVIOUS
  <2>1. Idle /\ CutOK(file)
    BY DEF IInv, CallsOK, TurnOK
  <2>2. Restart \/ RestartFails
    BY DEF Next, Step, Insert, LogRecord, InsertCall, Swap, TakeIndex, UpdateTerm,
           Write, Flush, Sync, Logged, LogFails, createSnapshot, SnapshotBegin,
           SnapshotReplace, SnapshotClose, SnapshotOpen, SnapshotFails, Crash, vars
  <2>3. CASE Restart
    BY <2>1, <2>3 DEF Restart, CutOK, Rebuilds
  <2>4. CASE RestartFails
    BY <2>1, <2>4 DEF RestartFails, CutOK, Rebuilds
  <2> QED BY <2>2, <2>3, <2>4
<1>2. CrashAtomic <=> [][Atomic]_vars
  BY DEF CrashAtomic
<1> HIDE DEF Atomic
<1> QED BY <1>1, <1>2, Invariance, PTL DEF Spec

\* Whichever Inserts overlap, a running tree changes in one key at a time, to a
\* value that is being inserted (Insert's compare-and-swap).
THEOREM UpdatesKept == Spec => NoLostUpdate
<1> DEFINE Change ==
      status = "open" =>
        \A k \in Keys : root'[k] # root[k] =>
          /\ \A other \in Keys \ {k} : root'[other] = root[other]
          /\ \E w \in Writers : /\ entry[w].op = "insert" /\ entry[w].key = k
                                /\ entry[w].value = root'[k]
<1>1. IInv /\ [Next]_vars => Change
  <2> SUFFICES ASSUME IInv, [Next]_vars, status = "open", root' # root
               PROVE  \A k \in Keys : root'[k] # root[k] =>
                 /\ \A other \in Keys \ {k} : root'[other] = root[other]
                 /\ \E w \in Writers : /\ entry[w].op = "insert"
                                       /\ entry[w].key = k
                                       /\ entry[w].value = root'[k]
    OBVIOUS
  <2>1. PICK w \in Writers : Swap(w)
    BY DEF Next, Step, Insert, LogRecord, InsertCall, TakeIndex, UpdateTerm, Write,
           Flush, Sync, Logged, LogFails, createSnapshot, SnapshotBegin,
           SnapshotReplace, SnapshotClose, SnapshotOpen, SnapshotFails, Crash,
           Restart, RestartFails, vars, tree
  <2>2. /\ root' = [root EXCEPT ![entry[w].key] = entry[w].value]
        /\ root \in Map /\ entry[w] \in InsertRecord
    BY <2>1 DEF Swap, IInv, TypeOK, CallsOK, SeenOK, CarriesOK
  <2>3. entry[w].op = "insert" /\ entry[w].key \in Keys
    BY <2>2, Kinds
  <2> QED BY <2>2, <2>3 DEF Map
<1>2. NoLostUpdate <=> [][Change]_vars
  BY DEF NoLostUpdate
<1> HIDE DEF Change
<1> QED BY <1>1, <1>2, Invariance, PTL DEF Spec

-----------------------------------------------------------------------------
(* Hash trees *)

LEMMA BeforeIsStrict ==
  ASSUME NEW a \in Seq(Nat)
  PROVE  ~HashTrees!Before(a, a)
BY DEF HashTrees!Before

\* Sequences that differ, differ first somewhere, or one is the start of the other.
LEMMA BeforeIsTotal ==
  ASSUME NEW a \in Seq(Nat), NEW b \in Seq(Nat), a # b
  PROVE  HashTrees!Before(a, b) \/ HashTrees!Before(b, a)
<1>1. /\ Len(a) \in Nat /\ DOMAIN a = 1..Len(a) /\ \A i \in 1..Len(a) : a[i] \in Nat
      /\ Len(b) \in Nat /\ DOMAIN b = 1..Len(b) /\ \A i \in 1..Len(b) : b[i] \in Nat
  OBVIOUS
<1> DEFINE D == {i \in 1..Len(a) : i <= Len(b) /\ a[i] # b[i]}
<1>2. CASE D = {}
  <2>1. \A i \in 1..Len(a) : i <= Len(b) => a[i] = b[i]
    BY <1>2
  <2>2. Len(a) # Len(b)
    <3>1. SUFFICES ASSUME Len(a) = Len(b) PROVE a = b
      OBVIOUS
    <3>2. \A i \in 1..Len(a) : a[i] = b[i]
      BY <1>1, <2>1, <3>1
    <3> QED BY <3>1, <3>2, SeqEqual
  <2>3. CASE Len(a) < Len(b)
    <3>1. \A i \in 1..Len(a) : a[i] = b[i]
      BY <1>1, <2>1, <2>3
    <3> QED BY <2>3, <3>1 DEF HashTrees!Before
  <2>4. CASE Len(b) < Len(a)
    <3>1. \A i \in 1..Len(b) : b[i] = a[i]
      BY <1>1, <2>1, <2>4
    <3> QED BY <2>4, <3>1 DEF HashTrees!Before
  <2>5. Len(a) < Len(b) \/ Len(b) < Len(a)
    <3>1. \A m, n \in Nat : m # n => m < n \/ n < m
      OBVIOUS
    <3> QED BY <1>1, <2>2, <3>1, Zenon
  <2> QED BY <2>3, <2>4, <2>5
<1>3. CASE D # {}
  <2>1. D \in SUBSET Nat
    OBVIOUS
  <2> HIDE DEF D
  <2>2. PICK i \in D : \A j \in D : i <= j
    BY <1>3, <2>1, Smallest
  <2> USE DEF D
  <2>3. /\ i \in 1..Len(a) /\ i \in 1..Len(b) /\ a[i] # b[i]
        /\ \A j \in 1..(i - 1) : a[j] = b[j]
    BY <1>1, <2>2
  <2>4. i <= Len(a) /\ i <= Len(b) /\ \A j \in 1..(i - 1) : b[j] = a[j]
    BY <1>1, <2>3
  <2>5. CASE a[i] < b[i]
    BY <2>3, <2>4, <2>5 DEF HashTrees!Before
  <2>6. CASE b[i] < a[i]
    BY <2>3, <2>4, <2>6 DEF HashTrees!Before
  <2> QED BY <1>1, <2>3, <2>5, <2>6
<1> QED BY <1>2, <1>3

LEMMA BeforeIsTransitive ==
  ASSUME NEW a \in Seq(Nat), NEW b \in Seq(Nat), NEW c \in Seq(Nat),
         HashTrees!Before(a, b), HashTrees!Before(b, c)
  PROVE  HashTrees!Before(a, c)
<1>1. PICK m, n, o : m = Len(a) /\ n = Len(b) /\ o = Len(c)
  OBVIOUS
<1>2. /\ m \in Nat /\ n \in Nat /\ o \in Nat
      /\ \A i \in 1..m : a[i] \in Nat
      /\ \A i \in 1..n : b[i] \in Nat
      /\ \A i \in 1..o : c[i] \in Nat
  <2>1. \A s \in Seq(Nat) : Len(s) \in Nat /\ \A i \in 1..Len(s) : s[i] \in Nat
    OBVIOUS
  <2> QED BY <1>1, <2>1
\* How far two of them agree, and whether the first ends there.
<1>3. /\ \/ m < n /\ \A i \in 1..m : a[i] = b[i]
         \/ \E i \in 1..m : i <= n /\ a[i] < b[i] /\ \A j \in 1..(i - 1) : a[j] = b[j]
      /\ \/ n < o /\ \A i \in 1..n : b[i] = c[i]
         \/ \E i \in 1..n : i <= o /\ b[i] < c[i] /\ \A j \in 1..(i - 1) : b[j] = c[j]
  BY <1>1 DEF HashTrees!Before
<1>4. SUFFICES \/ m < o /\ \A i \in 1..m : a[i] = c[i]
               \/ \E i \in 1..m : i <= o /\ a[i] < c[i] /\ \A j \in 1..(i - 1) : a[j] = c[j]
  BY <1>1 DEF HashTrees!Before
<1>5. CASE /\ m < n /\ \A i \in 1..m : a[i] = b[i]
           /\ n < o /\ \A i \in 1..n : b[i] = c[i]
  <2>1. m < o /\ \A i \in 1..m : i \in 1..n
    BY <1>2, <1>5
  <2> QED BY <1>5, <2>1
<1>6. ASSUME m < n /\ \A i \in 1..m : a[i] = b[i],
             NEW i \in 1..n, i <= o /\ b[i] < c[i] /\ \A j \in 1..(i - 1) : b[j] = c[j]
      PROVE  \/ m < o /\ \A j \in 1..m : a[j] = c[j]
             \/ \E j \in 1..m : j <= o /\ a[j] < c[j] /\ \A l \in 1..(j - 1) : a[l] = c[l]
  <2>1. CASE i <= m
    <3>1. i \in 1..m /\ \A j \in 1..(i - 1) : j \in 1..m
      BY <1>2, <2>1
    <3>2. a[i] < c[i] /\ \A j \in 1..(i - 1) : a[j] = c[j]
      BY <1>6, <3>1
    <3> QED BY <1>6, <3>1, <3>2
  <2>2. CASE m < i
    <3>1. m < o /\ \A j \in 1..m : j \in 1..(i - 1)
      BY <1>2, <1>6, <2>2
    <3> QED BY <1>6, <3>1
  <2> QED BY <1>2, <2>1, <2>2
<1>7. ASSUME NEW i \in 1..m, i <= n /\ a[i] < b[i] /\ \A j \in 1..(i - 1) : a[j] = b[j],
             n < o /\ \A j \in 1..n : b[j] = c[j]
      PROVE  \E j \in 1..m : j <= o /\ a[j] < c[j] /\ \A l \in 1..(j - 1) : a[l] = c[l]
  <2>1. i <= o /\ i \in 1..n /\ \A j \in 1..(i - 1) : j \in 1..n
    BY <1>2, <1>7
  <2>2. a[i] < c[i] /\ \A j \in 1..(i - 1) : a[j] = c[j]
    BY <1>7, <2>1
  <2> QED BY <2>1, <2>2
<1>8. ASSUME NEW i \in 1..m, i <= n /\ a[i] < b[i] /\ \A j \in 1..(i - 1) : a[j] = b[j],
             NEW j \in 1..n, j <= o /\ b[j] < c[j] /\ \A l \in 1..(j - 1) : b[l] = c[l]
      PROVE  \E l \in 1..m : l <= o /\ a[l] < c[l] /\ \A h \in 1..(l - 1) : a[h] = c[h]
  <2>1. CASE i < j
    <3>1. i <= o /\ i \in 1..(j - 1) /\ \A l \in 1..(i - 1) : l \in 1..(j - 1)
      BY <1>2, <1>8, <2>1
    <3>2. a[i] < c[i] /\ \A l \in 1..(i - 1) : a[l] = c[l]
      BY <1>8, <3>1
    <3> QED BY <3>1, <3>2
  <2>2. CASE i = j
    <3>1. i \in 1..n /\ i \in 1..o
      BY <1>2, <1>8, <2>2
    <3>2. a[i] < c[i]
      BY <1>2, <1>8, <2>2, <3>1
    <3> QED BY <1>8, <2>2, <3>2
  <2>3. CASE j < i
    <3>1. j \in 1..m /\ j \in 1..(i - 1) /\ \A l \in 1..(j - 1) : l \in 1..(i - 1)
      BY <1>2, <1>8, <2>3
    <3>2. a[j] < c[j] /\ \A l \in 1..(j - 1) : a[l] = c[l]
      BY <1>8, <3>1
    <3> QED BY <1>8, <3>1, <3>2
  <2> QED BY <1>2, <2>1, <2>2, <2>3
<1> QED BY <1>3, <1>5, <1>6, <1>7, <1>8

\* The position a search ends at: the leaves before it have smaller keys, and
\* the others have not.
LEMMA FoundIs ==
  ASSUME HashTrees!MerkleAssumption, NEW s \in Seq(HashTrees!Leaf),
         HashTrees!Sorted(s), NEW k \in ByteKeys
  PROVE  LET i == HashTrees!Found(s, k) IN
           /\ i \in 1..(Len(s) + 1)
           /\ \A j \in 1..(i - 1) : HashTrees!Before(s[j].key, k)
           /\ \A j \in i..Len(s) : ~HashTrees!Before(s[j].key, k)
<1>1. Len(s) \in Nat /\ \A j \in 1..Len(s) : s[j].key \in Seq(Nat)
  <2>1. Len(s) \in Nat /\ \A j \in 1..Len(s) : s[j] \in HashTrees!Leaf
    OBVIOUS
  <2>2. \A e \in HashTrees!Leaf : e.key \in ByteKeys
    BY DEF HashTrees!Leaf
  <2> QED BY <2>1, <2>2 DEF HashTrees!MerkleAssumption
<1>2. k \in Seq(Nat)
  BY DEF HashTrees!MerkleAssumption
<1> DEFINE n == Len(s)
           D == {j \in 1..(n + 1) : j <= n => ~HashTrees!Before(s[j].key, k)}
           P(i) == /\ \A j \in 1..(i - 1) : HashTrees!Before(s[j].key, k)
                   /\ i <= n => ~HashTrees!Before(s[i].key, k)
<1>3. D \in SUBSET Nat /\ n + 1 \in D
  BY <1>1
<1>4. \E i \in 1..(n + 1) : P(i)
  <2>1. PICK i \in D : \A j \in D : i <= j
    <3> HIDE DEF D
    <3> QED BY <1>3, Smallest
  <2>2. \A j \in 1..(i - 1) : j \in 1..n /\ j \notin D
    BY <1>1, <2>1
  <2>3. P(i)
    BY <1>1, <2>1, <2>2
  <2> QED BY <2>1, <2>3
<1> DEFINE i == HashTrees!Found(s, k)
<1>5. i \in 1..(n + 1) /\ P(i)
  BY <1>4 DEF HashTrees!Found
<1> HIDE DEF i
<1>6. ASSUME NEW j \in i..n, HashTrees!Before(s[j].key, k)
      PROVE  FALSE
  <2>1. j \in 1..n /\ i \in 1..n
    BY <1>1, <1>5, <1>6
  <2>2. CASE j = i
    BY <1>5, <1>6, <2>1, <2>2
  <2>3. CASE i < j
    <3>1. HashTrees!Before(s[i].key, s[j].key)
      BY <2>1, <2>3 DEF HashTrees!Sorted
    <3>2. HashTrees!Before(s[i].key, k)
      BY <1>1, <1>2, <1>6, <2>1, <3>1, BeforeIsTransitive
    <3> QED BY <1>5, <2>1, <3>2
  <2> QED BY <1>1, <2>1, <2>2, <2>3
<1> QED BY <1>5, <1>6 DEF i

LEMMA HeldIs ==
  ASSUME NEW s \in Seq(HashTrees!Leaf)
  PROVE  HashTrees!Held(s) = {s[j] : j \in 1..Len(s)}
<1>1. \A e \in HashTrees!Leaf : [key |-> e.key, value |-> e.value] = e
  BY DEF HashTrees!Leaf
<1>2. \A j \in 1..Len(s) : [key |-> s[j].key, value |-> s[j].value] = s[j]
  BY <1>1
<1> QED BY <1>2 DEF HashTrees!Held

\* The leaves after an Insert: the new leaf, and the others but one of its key.
LEMMA StoredDoes ==
  ASSUME HashTrees!MerkleAssumption, NEW s \in Seq(HashTrees!Leaf),
         HashTrees!Sorted(s), NEW leaf \in HashTrees!Leaf
  PROVE  /\ HashTrees!Stored(s, leaf) \in Seq(HashTrees!Leaf)
         /\ HashTrees!Sorted(HashTrees!Stored(s, leaf))
         /\ HashTrees!Held(HashTrees!Stored(s, leaf))
              = {e \in HashTrees!Held(s) : e.key # leaf.key} \cup {leaf}
<1> DEFINE k == leaf.key
           i == HashTrees!Found(s, k)
           n == Len(s)
           t == HashTrees!Stored(s, leaf)
<1>1. /\ k \in ByteKeys /\ n \in Nat /\ k \in Seq(Nat)
      /\ \A j \in 1..n : s[j] \in HashTrees!Leaf /\ s[j].key \in Seq(Nat)
  <2>1. \A e \in HashTrees!Leaf : e.key \in ByteKeys /\ e.key \in Seq(Nat)
    BY DEF HashTrees!Leaf, HashTrees!MerkleAssumption
  <2> QED BY <2>1
<1>2. /\ i \in 1..(n + 1)
      /\ \A j \in 1..(i - 1) : HashTrees!Before(s[j].key, k)
      /\ \A j \in i..n : ~HashTrees!Before(s[j].key, k)
  BY <1>1, FoundIs
<1>3. \A j, l \in 1..n : j < l => HashTrees!Before(s[j].key, s[l].key)
  BY DEF HashTrees!Sorted
<1>4. \A u \in Seq(HashTrees!Leaf) : HashTrees!Held(u) = {u[j] : j \in 1..Len(u)}
  BY HeldIs
<1> HIDE DEF i
<1>5. CASE i <= n /\ s[i].key = k
  <2>1. t = [s EXCEPT ![i] = leaf]
    BY <1>5 DEF HashTrees!Stored, i
  <2> HIDE DEF t
  <2>2. /\ t \in Seq(HashTrees!Leaf) /\ Len(t) = n /\ t[i] = leaf
        /\ \A j \in 1..n : j # i => t[j] = s[j]
    BY <1>2, <1>5, <2>1
  <2>3. \A j \in 1..n : t[j].key = s[j].key
    BY <1>5, <2>2
  <2>4. HashTrees!Sorted(t)
    BY <1>3, <2>2, <2>3 DEF HashTrees!Sorted
  <2>5. \A j \in 1..n : j # i => s[j].key # k
    <3>1. ASSUME NEW j \in 1..n, j # i, s[j].key = k
          PROVE  FALSE
      <4>1. j < i \/ i < j
        BY <1>2, <3>1
      <4>2. HashTrees!Before(k, k)
        BY <1>2, <1>3, <1>5, <3>1, <4>1
      <4> QED BY <1>1, <4>2, BeforeIsStrict
    <3> QED BY <3>1
  <2>6. {t[j] : j \in 1..n} = {e \in {s[j] : j \in 1..n} : e.key # k} \cup {leaf}
    BY <1>2, <1>5, <2>2, <2>3, <2>5
  <2> QED BY <1>4, <2>2, <2>4, <2>6 DEF t
<1>6. CASE ~(i <= n /\ s[i].key = k)
  <2>1. t = SubSeq(s, 1, i - 1) \o <<leaf>> \o SubSeq(s, i, n)
    BY <1>6 DEF HashTrees!Stored, i
  <2> HIDE DEF t
  <2>2. /\ t \in Seq(HashTrees!Leaf) /\ Len(t) = n + 1 /\ t[i] = leaf
        /\ \A j \in 1..(i - 1) : t[j] = s[j]
        /\ \A j \in (i + 1)..(n + 1) : t[j] = s[j - 1]
    <3>1. PICK a : a = SubSeq(s, 1, i - 1)
      OBVIOUS
    <3>2. PICK b : b = SubSeq(s, i, n)
      OBVIOUS
    <3>3. /\ a \in Seq(HashTrees!Leaf) /\ Len(a) = i - 1
          /\ \A j \in 1..(i - 1) : a[j] = s[j]
      BY <1>1, <1>2, <3>1
    <3>4. /\ b \in Seq(HashTrees!Leaf) /\ Len(b) = n + 1 - i
          /\ \A j \in 1..(n + 1 - i) : b[j] = s[i - 1 + j]
      BY <1>1, <1>2, <3>2
    <3>5. t = a \o <<leaf>> \o b
      BY <2>1, <3>1, <3>2
    <3>6. \A j \in (i + 1)..(n + 1) : j - i \in 1..(n + 1 - i) /\ i - 1 + (j - i) = j - 1
      BY <1>1, <1>2
    <3>7. PICK x : x = a \o <<leaf>>
      OBVIOUS
    <3>8. /\ x \in Seq(HashTrees!Leaf) /\ Len(x) = i /\ x[i] = leaf
          /\ \A j \in 1..(i - 1) : x[j] = a[j]
      BY <1>1, <1>2, <3>3, <3>7
    <3>9. t = x \o b
      BY <3>5, <3>7
    <3>10. /\ t \in Seq(HashTrees!Leaf) /\ Len(t) = n + 1
           /\ \A j \in 1..i : t[j] = x[j]
           /\ \A j \in (i + 1)..(n + 1) : t[j] = b[j - i]
      <4>1. /\ x \o b \in Seq(HashTrees!Leaf) /\ Len(x \o b) = Len(x) + Len(b)
            /\ \A j \in 1..(Len(x) + Len(b)) :
                 (x \o b)[j] = IF j <= Len(x) THEN x[j] ELSE b[j - Len(x)]
        BY <3>4, <3>8, ConcatProperties
      <4>2. Len(x) = i /\ Len(x) + Len(b) = n + 1
        BY <1>1, <1>2, <3>4, <3>8
      <4>3. /\ \A j \in 1..i : j \in 1..(n + 1) /\ j <= i
            /\ \A j \in (i + 1)..(n + 1) : j \in 1..(n + 1) /\ ~(j <= i)
        BY <1>1, <1>2
      <4> QED BY <3>9, <4>1, <4>2, <4>3
    <3>11. \A j \in (i + 1)..(n + 1) : t[j] = s[j - 1]
      BY <3>4, <3>6, <3>10
    <3>12. /\ i \in 1..i /\ \A j \in 1..(i - 1) : j \in 1..i
      BY <1>2
    <3> QED BY <3>3, <3>8, <3>10, <3>11, <3>12
  <2>3. \A j \in i..n : HashTrees!Before(k, s[j].key)
    <3> SUFFICES ASSUME NEW j \in i..n
                 PROVE  HashTrees!Before(k, s[j].key)
      OBVIOUS
    <3>1. i \in 1..n /\ j \in 1..n
      BY <1>1, <1>2
    <3>2. HashTrees!Before(k, s[i].key)
      BY <1>1, <1>2, <1>6, <3>1, BeforeIsTotal
    <3>3. CASE i < j
      BY <1>1, <1>3, <3>1, <3>2, <3>3, BeforeIsTransitive
    <3> QED BY <1>2, <3>1, <3>2, <3>3
  <2>4. HashTrees!Sorted(t)
    <3> SUFFICES ASSUME NEW j \in 1..(n + 1), NEW l \in 1..(n + 1), j < l
                 PROVE  HashTrees!Before(t[j].key, t[l].key)
      BY <2>2 DEF HashTrees!Sorted
    <3>1. CASE l < i
      <4>1. j \in 1..(i - 1) /\ l \in 1..(i - 1) /\ j \in 1..n /\ l \in 1..n
        BY <1>1, <1>2, <3>1
      <4> QED BY <1>3, <2>2, <4>1
    <3>2. CASE l = i
      BY <1>1, <1>2, <2>2, <3>2
    <3>3. CASE j = i
      <4>1. l - 1 \in i..n /\ l \in (i + 1)..(n + 1)
        BY <1>1, <1>2, <3>3
      <4> QED BY <2>2, <2>3, <3>3, <4>1
    <3>4. CASE j < i /\ i < l
      <4>1. l - 1 \in i..n /\ l \in (i + 1)..(n + 1) /\ j \in 1..(i - 1)
        BY <1>1, <1>2, <3>4
      <4>2. j \in 1..n /\ l - 1 \in 1..n /\ j < l - 1
        BY <1>1, <1>2, <3>4, <4>1
      <4> QED BY <1>3, <2>2, <4>1, <4>2
    <3>5. CASE i < j
      <4>1. l \in (i + 1)..(n + 1) /\ j \in (i + 1)..(n + 1)
        BY <1>1, <1>2, <3>5
      <4>2. j - 1 \in 1..n /\ l - 1 \in 1..n /\ j - 1 < l - 1
        BY <1>1, <1>2, <3>5, <4>1
      <4> QED BY <1>3, <2>2, <4>1, <4>2
    <3> QED BY <1>2, <3>1, <3>2, <3>3, <3>4, <3>5
  <2>5. \A j \in 1..n : s[j].key # k
    <3>1. ASSUME NEW j \in 1..n, s[j].key = k
          PROVE  FALSE
      <4>1. HashTrees!Before(k, k)
        BY <1>1, <1>2, <2>3, <3>1
      <4> QED BY <1>1, <4>1, BeforeIsStrict
    <3> QED BY <3>1
  <2>6. {t[j] : j \in 1..(n + 1)} = {s[j] : j \in 1..n} \cup {leaf}
    <3>1. \A j \in 1..(n + 1) : t[j] = leaf \/ \E l \in 1..n : t[j] = s[l]
      <4> SUFFICES ASSUME NEW j \in 1..(n + 1)
                   PROVE  t[j] = leaf \/ \E l \in 1..n : t[j] = s[l]
        OBVIOUS
      <4>1. CASE j < i
        BY <1>1, <1>2, <2>2, <4>1
      <4>2. CASE i < j
        <5>1. j \in (i + 1)..(n + 1) /\ j - 1 \in 1..n
          BY <1>1, <1>2, <4>2
        <5> QED BY <2>2, <5>1
      <4> QED BY <1>2, <2>2, <4>1, <4>2
    <3>2. \A l \in 1..n : \E j \in 1..(n + 1) : t[j] = s[l]
      <4> SUFFICES ASSUME NEW l \in 1..n
                   PROVE  \E j \in 1..(n + 1) : t[j] = s[l]
        OBVIOUS
      <4>1. CASE l < i
        <5>1. l \in 1..(i - 1) /\ l \in 1..(n + 1)
          BY <1>1, <1>2, <4>1
        <5> QED BY <2>2, <5>1
      <4>2. CASE i <= l
        <5>1. l + 1 \in (i + 1)..(n + 1) /\ l + 1 \in 1..(n + 1) /\ (l + 1) - 1 = l
          BY <1>1, <1>2, <4>2
        <5>2. t[l + 1] = s[(l + 1) - 1]
          BY <2>2, <5>1
        <5> QED BY <5>1, <5>2
      <4> QED BY <1>2, <4>1, <4>2
    <3>3. \E j \in 1..(n + 1) : t[j] = leaf
      <4>1. i \in 1..(n + 1)
        BY <1>2
      <4>2. t[i] = leaf
        BY <2>2
      <4> QED BY <4>1, <4>2, Zenon
    <3> DEFINE before == {s[j] : j \in 1..n} \cup {leaf}
               after  == {t[j] : j \in 1..(n + 1)}
    <3>4. ASSUME NEW x \in after PROVE x \in before
      BY <3>1
    <3>5. ASSUME NEW x \in before PROVE x \in after
      <4>1. CASE x = leaf
        BY <3>3, <4>1
      <4>2. CASE \E j \in 1..n : x = s[j]
        BY <3>2, <4>2
      <4> QED BY <4>1, <4>2
    <3> HIDE DEF before, after
    <3>6. before = after
      BY <3>4, <3>5
    <3> QED BY <3>6 DEF before, after
  <2>7. {s[j] : j \in 1..n} = {e \in {s[j] : j \in 1..n} : e.key # k}
    BY <2>5
  <2> QED BY <1>4, <2>2, <2>4, <2>6, <2>7 DEF t
<1> QED BY <1>5, <1>6

LEMMA InitHashTrees ==
  ASSUME HashTrees!MerkleAssumption, HashTrees!Init
  PROVE  HashTrees!HashTreesHold
<1>1. HashTrees!EmptySnapshot \in HashTrees!Snapshot
  BY DEF HashTrees!EmptySnapshot, HashTrees!Snapshot
<1>2. HashTrees!Sorted(<<>>) /\ HashTrees!Held(<<>>) = {}
  BY DEF HashTrees!Sorted, HashTrees!Held
<1>3. HashTrees!TypeOK
  BY <1>1, <1>2 DEF HashTrees!Init, HashTrees!TypeOK, HashTrees!EmptySnapshot, HashTrees!Idle,
                    HashTrees!MerkleAssumption
<1>4. HashTrees!NoInsertLost /\ HashTrees!RootIsCurrent
  BY <1>2 DEF HashTrees!Init, HashTrees!NoInsertLost, HashTrees!RootIsCurrent,
              HashTrees!EmptySnapshot
<1> QED BY <1>3, <1>4 DEF HashTrees!HashTreesHold

\* A call that starts, or starts over, has read a snapshot that was published.
LEMMA CallsRead ==
  ASSUME HashTrees!MerkleAssumption, HashTrees!HashTreesHold, overlap' = overlap,
         NEW c \in Callers,
         \/ \E t \in Compared : HashTrees!InsertCall(c, t) \/ HashTrees!RebuildCall(c, t)
         \/ HashTrees!Retry(c)
  PROVE  HashTrees!HashTreesHold'
<1>1. HashTrees!TypeOK /\ HashTrees!NoInsertLost /\ HashTrees!RootIsCurrent
  BY DEF HashTrees!HashTreesHold
<1>2. snapshots' = snapshots /\ stored' = stored
  BY DEF HashTrees!InsertCall, HashTrees!RebuildCall, HashTrees!Retry
<1>3. hashed' \in 0..MaxHashed
  <2>1. hashed \in 0..MaxHashed
    BY <1>1 DEF HashTrees!TypeOK
  <2>2. CASE hashed' = hashed
    BY <2>1, <2>2
  <2>3. CASE hashed' = hashed + 1 /\ hashed < (IF overlap THEN MaxHashedTogether ELSE MaxHashed)
    BY <2>1, <2>3 DEF HashTrees!MerkleAssumption
  <2> QED BY <2>2, <2>3 DEF HashTrees!InsertCall, HashTrees!RebuildCall, HashTrees!Retry
<1>4. hashing' \in [Callers -> {HashTrees!Idle} \cup HashTrees!Inserts \cup HashTrees!Rebuilds]
  <2>1. /\ hashing \in [Callers -> {HashTrees!Idle} \cup HashTrees!Inserts \cup HashTrees!Rebuilds]
        /\ \A t \in Compared : snapshots[t] \in HashTrees!Snapshot
    BY <1>1 DEF HashTrees!TypeOK
  <2>2. ASSUME NEW t \in Compared, HashTrees!InsertCall(c, t) PROVE hashing'[c] \in HashTrees!Inserts
    BY <2>1, <2>2 DEF HashTrees!InsertCall, HashTrees!Now, HashTrees!Inserts
  <2>3. ASSUME NEW t \in Compared, HashTrees!RebuildCall(c, t) PROVE hashing'[c] \in HashTrees!Rebuilds
    BY <2>1, <2>3 DEF HashTrees!RebuildCall, HashTrees!Now, HashTrees!Rebuilds
  <2>4. ASSUME HashTrees!Retry(c)
        PROVE  hashing'[c] \in {HashTrees!Idle} \cup HashTrees!Inserts \cup HashTrees!Rebuilds
    <3>1. hashing[c] \in HashTrees!Inserts \cup HashTrees!Rebuilds /\ hashing[c].tree \in Compared
      BY <2>1, <2>4 DEF HashTrees!Retry, HashTrees!Inserts, HashTrees!Rebuilds
    <3>2. hashing'[c] \in {HashTrees!Idle, [hashing[c] EXCEPT !.seen = snapshots[hashing[c].tree]]}
      BY <2>1, <2>4 DEF HashTrees!Retry, HashTrees!Now
    <3>3. [hashing[c] EXCEPT !.seen = snapshots[hashing[c].tree]] \in HashTrees!Inserts \cup HashTrees!Rebuilds
      BY <2>1, <3>1 DEF HashTrees!Inserts, HashTrees!Rebuilds
    <3> QED BY <3>2, <3>3
  <2>5. \E call : hashing' = [hashing EXCEPT ![c] = call]
    BY DEF HashTrees!InsertCall, HashTrees!RebuildCall, HashTrees!Retry, HashTrees!Now
  <2> QED BY <2>1, <2>2, <2>3, <2>4, <2>5
<1>5. HashTrees!TypeOK'
  BY <1>1, <1>2, <1>3, <1>4 DEF HashTrees!TypeOK, HashTrees!Sorted
<1>6. HashTrees!NoInsertLost' /\ HashTrees!RootIsCurrent'
  BY <1>1, <1>2 DEF HashTrees!NoInsertLost, HashTrees!RootIsCurrent
<1> QED BY <1>5, <1>6 DEF HashTrees!HashTreesHold

\* An Insert that swaps has started from the snapshot it replaces.
LEMMA InsertSwapKeeps ==
  ASSUME HashTrees!MerkleAssumption, HashTrees!HashTreesHold, overlap' = overlap,
         NEW c \in Callers, HashTrees!InsertSwap(c)
  PROVE  HashTrees!HashTreesHold'
<1>1. HashTrees!TypeOK /\ HashTrees!NoInsertLost /\ HashTrees!RootIsCurrent
  BY DEF HashTrees!HashTreesHold
<1>2. PICK t, leaf : t = hashing[c].tree /\ leaf = hashing[c].leaf
  OBVIOUS
<1>3. t \in Compared /\ leaf \in HashTrees!Leaf /\ leaf.key \in ByteKeys /\ leaf.value \in ByteValues
  <2>1. hashing[c] \in HashTrees!Inserts
    BY <1>1 DEF HashTrees!TypeOK, HashTrees!InsertSwap, HashTrees!Idle, HashTrees!Rebuilds
  <2> QED BY <1>2, <2>1 DEF HashTrees!Inserts, HashTrees!Leaf
<1>4. PICK s : s = snapshots[t]
  OBVIOUS
<1>5. PICK u : u = HashTrees!Stored(s.leaves, leaf)
  OBVIOUS
<1>6. /\ s \in HashTrees!Snapshot /\ s.leaves \in Seq(HashTrees!Leaf)
      /\ HashTrees!Sorted(s.leaves) /\ HashTrees!Sorted(s.rooted)
  BY <1>1, <1>3, <1>4 DEF HashTrees!TypeOK, HashTrees!Snapshot
<1>7. /\ u \in Seq(HashTrees!Leaf) /\ HashTrees!Sorted(u)
      /\ HashTrees!Held(u) = {e \in HashTrees!Held(s.leaves) : e.key # leaf.key} \cup {leaf}
  BY <1>3, <1>5, <1>6, StoredDoes
<1>8. PICK new : new = HashTrees!WithLeaf(s, leaf)
  OBVIOUS
<1>9. /\ new \in HashTrees!Snapshot /\ new.leaves = u /\ new.rooted = s.rooted
      /\ new.modified = TRUE
  <2>1. new = [s EXCEPT !.leaves = u, !.linked = @ \ {leaf.key}, !.modified = TRUE]
    BY <1>5, <1>6, <1>8 DEF HashTrees!WithLeaf, HashTrees!Snapshot
  <2> QED BY <1>6, <1>7, <2>1 DEF HashTrees!Snapshot
<1>10. /\ snapshots' = [snapshots EXCEPT ![t] = new]
       /\ stored' = [stored EXCEPT ![t][leaf.key] = leaf.value]
       /\ hashing' = [hashing EXCEPT ![c] = HashTrees!Idle]
       /\ hashed' = hashed
  BY <1>2, <1>4, <1>8 DEF HashTrees!InsertSwap, HashTrees!Now
<1>11. HashTrees!TypeOK'
  <2>1. /\ snapshots' \in [Compared -> HashTrees!Snapshot]
        /\ \A r \in Compared : /\ HashTrees!Sorted(snapshots'[r].leaves)
                            /\ HashTrees!Sorted(snapshots'[r].rooted)
    BY <1>1, <1>3, <1>6, <1>7, <1>9, <1>10 DEF HashTrees!TypeOK
  <2>2. stored' \in [Compared -> [ByteKeys -> ByteValues \cup {None}]]
    BY <1>1, <1>3, <1>10 DEF HashTrees!TypeOK
  <2>3. hashing' \in [Callers -> {HashTrees!Idle} \cup HashTrees!Inserts \cup HashTrees!Rebuilds]
    BY <1>1, <1>10 DEF HashTrees!TypeOK
  <2> QED BY <1>1, <1>10, <2>1, <2>2, <2>3 DEF HashTrees!TypeOK
<1>12. HashTrees!NoInsertLost'
  <2> DEFINE Pairs(m) == {[key |-> k, value |-> m[k]] : k \in {j \in ByteKeys : m[j] # None}}
  <2>1. SUFFICES ASSUME NEW r \in Compared
                 PROVE  HashTrees!Held(snapshots'[r].leaves) = Pairs(stored'[r])
    BY DEF HashTrees!NoInsertLost
  <2>2. HashTrees!Held(snapshots[r].leaves) = Pairs(stored[r])
    BY <1>1, <2>1 DEF HashTrees!NoInsertLost
  <2>3. CASE r # t
    <3>1. snapshots'[r] = snapshots[r] /\ stored'[r] = stored[r]
      BY <1>1, <1>3, <1>10, <2>3 DEF HashTrees!TypeOK
    <3> HIDE DEF Pairs
    <3> QED BY <2>2, <3>1
  <2>4. CASE r = t
    <3>1. PICK m : m = stored[t]
      OBVIOUS
    <3>2. m \in [ByteKeys -> ByteValues \cup {None}]
      BY <1>1, <1>3, <3>1 DEF HashTrees!TypeOK
    <3>3. stored'[r] = [m EXCEPT ![leaf.key] = leaf.value]
      BY <1>1, <1>3, <1>10, <2>4, <3>1 DEF HashTrees!TypeOK
    <3>4. snapshots'[r].leaves = u
      BY <1>1, <1>3, <1>9, <1>10, <2>4 DEF HashTrees!TypeOK
    <3>5. leaf.value # None /\ leaf = [key |-> leaf.key, value |-> leaf.value]
      BY <1>3 DEF HashTrees!MerkleAssumption, HashTrees!Leaf
    <3>6. Pairs([m EXCEPT ![leaf.key] = leaf.value])
            = {e \in Pairs(m) : e.key # leaf.key} \cup {leaf}
      BY <1>3, <3>2, <3>5
    <3> HIDE DEF Pairs
    <3> QED BY <1>4, <1>7, <2>2, <2>4, <3>1, <3>3, <3>4, <3>6
  <2> QED BY <2>3, <2>4
<1>13. HashTrees!RootIsCurrent'
  BY <1>1, <1>3, <1>9, <1>10 DEF HashTrees!TypeOK, HashTrees!RootIsCurrent
<1> QED BY <1>11, <1>12, <1>13 DEF HashTrees!HashTreesHold

\* A Rebuild that swaps publishes the root of the leaves there are.
LEMMA RebuildSwapKeeps ==
  ASSUME HashTrees!MerkleAssumption, HashTrees!HashTreesHold, overlap' = overlap,
         NEW c \in Callers, HashTrees!RebuildSwap(c)
  PROVE  HashTrees!HashTreesHold'
<1>1. HashTrees!TypeOK /\ HashTrees!NoInsertLost /\ HashTrees!RootIsCurrent
  BY DEF HashTrees!HashTreesHold
<1>2. PICK t : t = hashing[c].tree
  OBVIOUS
<1>3. t \in Compared
  <2>1. hashing[c] \in HashTrees!Rebuilds
    BY <1>1 DEF HashTrees!TypeOK, HashTrees!RebuildSwap, HashTrees!Idle, HashTrees!Inserts
  <2> QED BY <1>2, <2>1 DEF HashTrees!Rebuilds
<1>4. PICK s, new : s = snapshots[t] /\ new = HashTrees!Built(s)
  OBVIOUS
<1>5. s \in HashTrees!Snapshot /\ HashTrees!Sorted(s.leaves)
  BY <1>1, <1>3, <1>4 DEF HashTrees!TypeOK
<1>6. /\ new \in HashTrees!Snapshot /\ new.leaves = s.leaves /\ new.rooted = s.leaves
  <2>1. s.leaves \in Seq(HashTrees!Leaf)
    BY <1>5 DEF HashTrees!Snapshot
  <2>2. {s.leaves[i].key : i \in 1..Len(s.leaves)} \subseteq ByteKeys
    <3>1. \A e \in HashTrees!Leaf : e.key \in ByteKeys
      BY DEF HashTrees!Leaf
    <3> QED BY <2>1, <3>1
  <2> QED BY <1>4, <2>1, <2>2 DEF HashTrees!Built, HashTrees!Snapshot
<1>7. /\ snapshots' = [snapshots EXCEPT ![t] = new] /\ stored' = stored
      /\ hashing' = [hashing EXCEPT ![c] = HashTrees!Idle] /\ hashed' = hashed
  BY <1>2, <1>4 DEF HashTrees!RebuildSwap, HashTrees!Now
<1>8. \A r \in Compared : snapshots'[r].leaves = snapshots[r].leaves
  BY <1>1, <1>3, <1>4, <1>6, <1>7 DEF HashTrees!TypeOK
<1>9. HashTrees!TypeOK'
  <2>1. /\ snapshots' \in [Compared -> HashTrees!Snapshot]
        /\ \A r \in Compared : /\ HashTrees!Sorted(snapshots'[r].leaves)
                            /\ HashTrees!Sorted(snapshots'[r].rooted)
    BY <1>1, <1>3, <1>5, <1>6, <1>7 DEF HashTrees!TypeOK
  <2>2. hashing' \in [Callers -> {HashTrees!Idle} \cup HashTrees!Inserts \cup HashTrees!Rebuilds]
    BY <1>1, <1>7 DEF HashTrees!TypeOK
  <2> QED BY <1>1, <1>7, <2>1, <2>2 DEF HashTrees!TypeOK
<1>10. HashTrees!NoInsertLost'
  BY <1>1, <1>7, <1>8 DEF HashTrees!NoInsertLost
<1>11. HashTrees!RootIsCurrent'
  BY <1>1, <1>3, <1>6, <1>7 DEF HashTrees!TypeOK, HashTrees!RootIsCurrent
<1> QED BY <1>9, <1>10, <1>11 DEF HashTrees!HashTreesHold

LEMMA HashTreesKeep ==
  ASSUME HashTrees!MerkleAssumption
  PROVE  HashTrees!Spec => []HashTrees!HashTreesHold
<1>1. HashTrees!Init => HashTrees!HashTreesHold
  BY InitHashTrees
<1>2. HashTrees!HashTreesHold /\ [HashTrees!Next]_(HashTrees!vars) => HashTrees!HashTreesHold'
  <2> SUFFICES ASSUME HashTrees!HashTreesHold, [HashTrees!Next]_(HashTrees!vars)
               PROVE  HashTrees!HashTreesHold'
    OBVIOUS
  <2>1. overlap' = overlap
    BY DEF HashTrees!Next, HashTrees!Call, HashTrees!GoOn, HashTrees!vars
  <2>2. ASSUME NEW c \in Callers, HashTrees!Call(c) \/ HashTrees!GoOn(c)
        PROVE  HashTrees!HashTreesHold'
    BY <2>1, <2>2, CallsRead, InsertSwapKeeps, RebuildSwapKeeps DEF HashTrees!Call, HashTrees!GoOn
  <2>3. CASE UNCHANGED HashTrees!vars
    BY <2>3 DEF HashTrees!vars, HashTrees!HashTreesHold, HashTrees!TypeOK, HashTrees!Sorted,
                HashTrees!NoInsertLost, HashTrees!RootIsCurrent
  <2> QED BY <2>2, <2>3 DEF HashTrees!Next
<1> QED BY <1>1, <1>2, PTL DEF HashTrees!Spec

LEMMA HashTreesRun == NodeSpec => HashTrees!Spec
<1>1. NodeInit => HashTrees!Init
  BY DEF NodeInit
<1>2. [NodeNext]_all => [HashTrees!Next]_(HashTrees!vars)
  BY DEF NodeNext, all, hashVars, HashTrees!vars, Next
<1> QED BY <1>1, <1>2, PTL DEF NodeSpec, HashTrees!Spec

\* However Inserts and Rebuilds of a hash tree overlap, its leaves are sorted
\* and those that were stored, and its root, unless it says that it waits for
\* a rebuild, is theirs (merkle.go, Insert and Rebuild).
THEOREM HashTreesStay == NodeSpec => []HashTreesHold
<1>1. HashTrees!MerkleAssumption
  BY NodeAssumption
<1>2. HashTrees!HashTreesHold => HashTreesHold
  BY DEF HashTreesHold
<1> QED BY <1>1, <1>2, HashTreesKeep, HashTreesRun, PTL

-----------------------------------------------------------------------------
(* The levels of a built hash tree *)

\* A number can be halved again and again.
LEMMA Halving ==
  ASSUME NEW a, NEW n \in Nat
  PROVE  \E f : f = [l \in 0..n |-> IF l = 0 THEN a ELSE HashTrees!Half(f[l - 1])]
<1> DEFINE Is(f, m) == f = [l \in 0..m |-> IF l = 0 THEN a ELSE HashTrees!Half(f[l - 1])]
           T == {m \in 0..n : ~\E f : Is(f, m)}
<1>1. SUFFICES ASSUME T # {} PROVE FALSE
  <2>1. n \in 0..n
    OBVIOUS
  <2> QED BY <2>1, Zenon
<1>2. PICK m \in T : \A k \in T : m <= k
  <2>1. T \in SUBSET Nat
    OBVIOUS
  <2> HIDE DEF T
  <2> QED BY <1>1, <2>1, Smallest
<1>3. CASE m = 0
  <2>1. Is([l \in {0} |-> a], 0)
    <3>1. 0..0 = {0}
      OBVIOUS
    <3> QED BY <3>1, Zenon
  <2>2. \E f : Is(f, m)
    BY <1>3, <2>1, Zenon
  <2> QED BY <1>2, <2>2, Zenon
<1>4. CASE m # 0
  <2>1. m - 1 \in 0..n /\ m - 1 \notin T /\ m \in Nat
    <3>1. m \in 0..n
      OBVIOUS
    <3>2. m - 1 \in 0..n /\ m \in Nat /\ ~(m <= m - 1)
      BY <1>4, <3>1
    <3> HIDE DEF T
    <3> QED BY <1>2, <3>2
  <2>2. PICK f : Is(f, m - 1)
    BY <2>1, Zenon
  <2>3. PICK g : g = [l \in 0..m |-> IF l = m THEN HashTrees!Half(f[m - 1]) ELSE f[l]]
    OBVIOUS
  <2>4. \A l \in 0..m : g[l] = IF l = 0 THEN a ELSE HashTrees!Half(g[l - 1])
    <3>1. SUFFICES ASSUME NEW l \in 0..m
                   PROVE  g[l] = IF l = 0 THEN a ELSE HashTrees!Half(g[l - 1])
      OBVIOUS
    <3>2. CASE l = m
      <4>1. m - 1 \in 0..m /\ m - 1 # m
        BY <2>1, <1>4
      <4>2. g[l] = HashTrees!Half(f[m - 1]) /\ g[l - 1] = f[m - 1]
        BY <2>3, <3>2, <4>1, Zenon
      <4> QED BY <1>4, <3>2, <4>2
    <3>3. CASE l # m
      <4>1. l \in 0..(m - 1) /\ g[l] = f[l]
        BY <2>1, <2>3, <3>3
      <4>2. f[l] = IF l = 0 THEN a ELSE HashTrees!Half(f[l - 1])
        BY <2>2, <4>1, Zenon
      <4>3. l # 0 => g[l - 1] = f[l - 1]
        <5>1. l # 0 => l - 1 \in 0..m /\ l - 1 # m
          BY <2>1, <4>1
        <5> QED BY <2>3, <5>1, Zenon
      <4> QED BY <4>1, <4>2, <4>3
    <3> QED BY <3>2, <3>3
  <2>5. Is(g, m)
    <3>1. g = [l \in 0..m |-> g[l]]
      BY <2>3, Zenon
    <3> QED BY <2>4, <3>1, Zenon
  <2> QED BY <1>2, <2>5
<1> QED BY <1>3, <1>4

\* The number of nodes of each level is defined from the one below.
LEMMA WidthIs ==
  ASSUME NEW s, Len(s) \in Nat
  PROVE  HashTrees!Width(s) = [l \in 0..Len(s) |-> IF l = 0 THEN Len(s)
                                ELSE HashTrees!Half(HashTrees!Width(s)[l - 1])]
<1>1. \E f : f = [l \in 0..Len(s) |-> IF l = 0 THEN Len(s) ELSE HashTrees!Half(f[l - 1])]
  BY Halving
<1> QED BY <1>1, Zenon DEF HashTrees!Width

\* Every level of leaves has a node, and half as many as the one below.
LEMMA WidthNext ==
  ASSUME NEW s, Len(s) \in Nat, Len(s) >= 1
  PROVE  /\ HashTrees!Width(s)[0] = Len(s)
         /\ \A l \in 0..Len(s) : HashTrees!Width(s)[l] \in Nat \ {0}
         /\ \A l \in 1..Len(s) :
              HashTrees!Width(s)[l] = (HashTrees!Width(s)[l - 1] + 1) \div 2
<1>1. PICK w : w = HashTrees!Width(s)
  OBVIOUS
<1>2. w = [l \in 0..Len(s) |-> IF l = 0 THEN Len(s) ELSE (w[l - 1] + 1) \div 2]
  BY <1>1, WidthIs DEF HashTrees!Half
<1>3. w[0] = Len(s)
  BY <1>2
<1>4. \A l \in 1..Len(s) : w[l] = (w[l - 1] + 1) \div 2
  BY <1>2
<1> DEFINE T == {l \in 0..Len(s) : w[l] \notin Nat \ {0}}
<1>5. ASSUME T # {} PROVE FALSE
  <2>1. PICK l \in T : \A m \in T : l <= m
    <3>1. T \in SUBSET Nat
      OBVIOUS
    <3> HIDE DEF T
    <3> QED BY <1>5, <3>1, Smallest
  <2>2. l # 0
    BY <1>3, <2>1
  <2>3. l \in 1..Len(s) /\ l - 1 \in 0..Len(s) /\ l - 1 \notin T
    BY <2>1, <2>2
  <2>4. \A v \in Nat \ {0} : (v + 1) \div 2 \in Nat \ {0}
    OBVIOUS
  <2> QED BY <1>4, <2>1, <2>3, <2>4
<1> QED BY <1>1, <1>3, <1>4, <1>5

\* The height is the first level of one node.
LEMMA HeightIs ==
  ASSUME NEW s, Len(s) \in Nat, Len(s) >= 1
  PROVE  /\ HashTrees!Height(s) \in 0..Len(s)
         /\ HashTrees!Width(s)[HashTrees!Height(s)] = 1
<1>1. PICK w, n : w = HashTrees!Width(s) /\ n = Len(s)
  OBVIOUS
<1>2. /\ w[0] = n /\ \A l \in 0..n : w[l] \in Nat \ {0}
      /\ \A l \in 1..n : w[l] = (w[l - 1] + 1) \div 2
  BY <1>1, WidthNext
<1> DEFINE Ones == {l \in 0..n : w[l] = 1}
           T == {l \in 0..n : w[l] > 1 /\ w[l] > n - l}
<1>3. T = {}
  <2>1. SUFFICES ASSUME T # {} PROVE FALSE
    OBVIOUS
  <2>2. PICK l \in T : \A m \in T : l <= m
    <3>1. T \in SUBSET Nat
      OBVIOUS
    <3> HIDE DEF T
    <3> QED BY <2>1, <3>1, Smallest
  <2>3. l # 0
    BY <1>1, <1>2, <2>2
  <2>4. l - 1 \in 0..n /\ l \in 1..n /\ l - 1 \notin T
    BY <1>1, <2>2, <2>3
  <2>5. /\ w[l] = (w[l - 1] + 1) \div 2 /\ w[l - 1] \in Nat \ {0}
        /\ w[l] > 1 /\ w[l] > n - l
        /\ ~(w[l - 1] > 1 /\ w[l - 1] > n - (l - 1))
    BY <1>2, <2>2, <2>4
  <2> QED BY <1>1, <2>4, <2>5
<1>4. Ones # {}
  <2>1. n \in Nat /\ n \in 0..n
    BY <1>1
  <2>2. ~(w[n] > 1 /\ w[n] > n - n)
    BY <1>3, <2>1, Zenon
  <2>3. w[n] \in Nat \ {0}
    BY <1>2, <2>1
  <2>4. w[n] = 1
    BY <2>1, <2>2, <2>3
  <2> QED BY <2>1, <2>4
<1>5. PICK h \in Ones : \A m \in Ones : h <= m
  <2>1. Ones \in SUBSET Nat
    OBVIOUS
  <2> HIDE DEF Ones
  <2> QED BY <1>4, <2>1, Smallest
<1>6. \E k \in 0..n : w[k] = 1 /\ \A l \in 0..(k - 1) : w[l] > 1
  <2>1. \A l \in 0..(h - 1) : l \in 0..n /\ l \notin Ones
    BY <1>1, <1>5
  <2>2. ASSUME NEW l \in 0..(h - 1) PROVE w[l] > 1
    <3>1. w[l] \in Nat \ {0} /\ w[l] # 1
      BY <1>2, <2>1
    <3> QED BY <3>1
  <2>3. h \in 0..n /\ w[h] = 1
    BY <1>5
  <2> QED BY <2>2, <2>3, Zenon
<1> QED BY <1>1, <1>6, Zenon DEF HashTrees!Height

LEMMA PositionsAre ==
  ASSUME NEW s, NEW l, NEW i
  PROVE  <<l, i>> \in HashTrees!Positions(s) <=>
           l \in 0..HashTrees!Height(s) /\ i \in 1..HashTrees!Width(s)[l]
BY DEF HashTrees!Positions

LEMMA PositionsPairs ==
  ASSUME NEW s, NEW p \in HashTrees!Positions(s)
  PROVE  p = <<p[1], p[2]>>
BY DEF HashTrees!Positions

\* A node of a level but the first has a left child; and every node of a level
\* but the last is a child of a node, its left or its right one.
LEMMA Children ==
  ASSUME NEW s, Len(s) \in Nat, Len(s) >= 1, NEW l \in 1..HashTrees!Height(s)
  PROVE  /\ \A i \in 1..HashTrees!Width(s)[l] :
              /\ <<l, i>> \in HashTrees!Positions(s)
              /\ HashTrees!LeftOf(<<l, i>>) \in HashTrees!Positions(s)
         /\ \A i \in 1..HashTrees!Width(s)[l - 1] :
              /\ HashTrees!Half(i) \in 1..HashTrees!Width(s)[l]
              /\ \/ <<l - 1, i>> = HashTrees!LeftOf(<<l, HashTrees!Half(i)>>)
                 \/ /\ <<l - 1, i>> # HashTrees!LeftOf(<<l, HashTrees!Half(i)>>)
                    /\ <<l - 1, i>> = HashTrees!RightOf(<<l, HashTrees!Half(i)>>)
<1>1. PICK w, n, h : w = HashTrees!Width(s) /\ n = Len(s) /\ h = HashTrees!Height(s)
  OBVIOUS
<1>2. /\ h \in 0..n /\ l \in 1..n /\ l - 1 \in 0..n /\ l \in 0..h /\ l - 1 \in 0..h
      /\ w[l] \in Nat /\ w[l - 1] \in Nat /\ w[l] = (w[l - 1] + 1) \div 2
  <2>1. h \in 0..n
    BY <1>1, HeightIs
  <2>2. l \in 1..n /\ l - 1 \in 0..n /\ l \in 0..n /\ l \in 0..h /\ l - 1 \in 0..h
    BY <1>1, <2>1
  <2> QED BY <1>1, <2>1, <2>2, WidthNext
<1>3. ASSUME NEW i \in 1..w[l]
      PROVE  /\ <<l, i>> \in HashTrees!Positions(s)
             /\ HashTrees!LeftOf(<<l, i>>) \in HashTrees!Positions(s)
  <2>1. HashTrees!LeftOf(<<l, i>>) = <<l - 1, 2 * i - 1>>
    BY DEF HashTrees!LeftOf
  <2>2. 2 * i - 1 \in 1..w[l - 1]
    BY <1>2
  <2> QED BY <1>1, <1>2, <2>1, <2>2, PositionsAre
<1>4. ASSUME NEW i \in 1..w[l - 1]
      PROVE  /\ HashTrees!Half(i) \in 1..w[l]
             /\ \/ <<l - 1, i>> = HashTrees!LeftOf(<<l, HashTrees!Half(i)>>)
                \/ /\ <<l - 1, i>> # HashTrees!LeftOf(<<l, HashTrees!Half(i)>>)
                   /\ <<l - 1, i>> = HashTrees!RightOf(<<l, HashTrees!Half(i)>>)
  <2>1. PICK j : j = HashTrees!Half(i)
    OBVIOUS
  <2>2. j \in 1..w[l] /\ (i = 2 * j - 1 \/ i = 2 * j)
    BY <1>2, <2>1 DEF HashTrees!Half
  <2>3. HashTrees!LeftOf(<<l, j>>) = <<l - 1, 2 * j - 1>> /\ HashTrees!RightOf(<<l, j>>) = <<l - 1, 2 * j>>
    BY DEF HashTrees!LeftOf, HashTrees!RightOf
  <2> QED BY <2>1, <2>2, <2>3
<1> QED BY <1>1, <1>3, <1>4

-----------------------------------------------------------------------------
(* Hashes *)

\* What a node adds to the hash, from the hashes below.
HashOf(s, f, p) ==
  IF p[1] = 0 THEN HashTrees!hashKV(s[p[2]].key, s[p[2]].value)
  ELSE HashTrees!hashChildren(IF HashTrees!RightOf(p) \in HashTrees!Positions(s)
                              THEN <<f[HashTrees!LeftOf(p)], f[HashTrees!RightOf(p)]>>
                              ELSE <<f[HashTrees!LeftOf(p)]>>)

LEMMA HashIs ==
  ASSUME NEW s, Len(s) \in Nat, Len(s) >= 1
  PROVE  \A p \in HashTrees!Positions(s) :
           HashTrees!Hash(s)[p] = HashOf(s, HashTrees!Hash(s), p)
<1> DEFINE All == HashTrees!Positions(s)
           Upto(n) == {p \in All : p[1] <= n}
           Is(f, n) == f = [p \in Upto(n) |-> HashOf(s, f, p)]
           h == HashTrees!Height(s)
           T == {n \in 0..h : ~\E f : Is(f, n)}
<1>1. h \in Nat /\ \A p \in All : p[1] \in 0..h
  BY HeightIs, PositionsAre, PositionsPairs
<1> HIDE DEF h
<1>2. Upto(h) = All
  BY <1>1
<1>3. SUFFICES \E f : Is(f, h)
  <2>1. \E f : f = [p \in All |-> HashOf(s, f, p)]
    BY <1>2, <1>3
  <2>2. HashTrees!Hash(s) = [p \in All |-> HashOf(s, HashTrees!Hash(s), p)]
    BY <2>1, Zenon DEF HashTrees!Hash, HashOf
  <2> QED BY <2>2, Zenon
<1>4. SUFFICES ASSUME T # {} PROVE FALSE
  <2>1. h \in 0..h
    BY <1>1
  <2> QED BY <2>1, Zenon
<1>5. PICK n \in T : \A m \in T : n <= m
  <2>1. T \in SUBSET Nat
    BY <1>1
  <2> HIDE DEF T
  <2> QED BY <1>4, <2>1, Smallest
<1>6. n \in Nat /\ n <= h
  BY <1>1, <1>5
\* The nodes of level n, from a function on those below it.
<1>7. \E f : n = 0 \/ Is(f, n - 1)
  <2>1. n # 0 => n - 1 \in 0..h /\ ~(n <= n - 1)
    BY <1>1, <1>6
  <2>2. ASSUME n # 0 PROVE \E f : Is(f, n - 1)
    <3>1. n - 1 \notin T
      <4> HIDE DEF T
      <4> QED BY <1>5, <2>1, <2>2
    <3> QED BY <2>1, <2>2, <3>1, Zenon
  <2> QED BY <2>2, Zenon
<1>8. PICK f : n = 0 \/ Is(f, n - 1)
  BY <1>7
<1>9. PICK g : g = [p \in Upto(n) |-> IF p[1] = n THEN HashOf(s, f, p) ELSE f[p]]
  OBVIOUS
<1>10. ASSUME NEW p \in Upto(n) PROVE g[p] = HashOf(s, g, p)
  <2>1. p \in All /\ p[1] \in 0..n /\ p = <<p[1], p[2]>>
    BY <1>1, <1>6, PositionsPairs
  <2>2. ASSUME p[1] # 0, NEW q \in {HashTrees!LeftOf(p), HashTrees!RightOf(p)}, q \in All
        PROVE  q \in Upto(n) /\ q \in Upto(n - 1) /\ q \in Upto(p[1] - 1) /\ q[1] # n /\ g[q] = f[q]
    <3>1. q[1] = p[1] - 1
      BY <2>2 DEF HashTrees!LeftOf, HashTrees!RightOf
    <3>2. q \in Upto(n) /\ q \in Upto(n - 1) /\ q \in Upto(p[1] - 1) /\ q[1] # n
      BY <1>6, <2>1, <2>2, <3>1
    <3> QED BY <1>9, <3>2, Zenon
  <2>3. p[1] # 0 => HashTrees!LeftOf(p) \in All
    <3>1. SUFFICES ASSUME p[1] # 0 PROVE HashTrees!LeftOf(<<p[1], p[2]>>) \in All
      BY <2>1
    <3>2. p[1] \in 1..h /\ p[2] \in 1..HashTrees!Width(s)[p[1]]
      <4>1. <<p[1], p[2]>> \in All
        BY <2>1
      <4>2. p[1] \in 0..h /\ p[2] \in 1..HashTrees!Width(s)[p[1]]
        BY <4>1, PositionsAre DEF h
      <4> QED BY <3>1, <4>2
    <3> QED BY <3>2, Children DEF h
  <2>4. HashOf(s, g, p) = HashOf(s, f, p)
    <3>1. CASE p[1] = 0
      BY <3>1 DEF HashOf
    <3>2. CASE p[1] # 0
      <4>1. g[HashTrees!LeftOf(p)] = f[HashTrees!LeftOf(p)]
        BY <2>2, <2>3, <3>2
      <4>2. HashTrees!RightOf(p) \in All => g[HashTrees!RightOf(p)] = f[HashTrees!RightOf(p)]
        BY <2>2, <3>2
      <4> QED BY <4>1, <4>2, Zenon DEF HashOf
    <3> QED BY <3>1, <3>2
  <2>5. CASE p[1] = n
    BY <1>9, <2>4, <2>5, Zenon
  <2>6. CASE p[1] # n
    <3>1. n # 0 /\ p \in Upto(n - 1)
      BY <1>6, <2>1, <2>6
    <3>2. f[p] = HashOf(s, f, p)
      BY <1>8, <3>1, Zenon
    <3>3. g[p] = f[p]
      BY <1>9, <2>6, Zenon
    <3> QED BY <2>4, <3>2, <3>3
  <2> QED BY <2>5, <2>6
<1>11. Is(g, n)
  <2>1. g = [p \in Upto(n) |-> g[p]]
    BY <1>9, Zenon
  <2> HIDE DEF Upto
  <2>2. [p \in Upto(n) |-> g[p]] = [p \in Upto(n) |-> HashOf(s, g, p)]
    BY <1>10, Zenon
  <2> QED BY <2>1, <2>2, Zenon
<1> QED BY <1>5, <1>11, Zenon

-----------------------------------------------------------------------------
(* The way up from a leaf *)

\* The node of each level that a leaf is below.
Up(s, i) ==
  LET at[l \in 0..HashTrees!Height(s)] == IF l = 0 THEN i ELSE HashTrees!Half(at[l - 1])
  IN  at

LEMMA UpIs ==
  ASSUME NEW s, Len(s) \in Nat, Len(s) >= 1, NEW i \in 1..Len(s)
  PROVE  LET h == HashTrees!Height(s) IN
         /\ Up(s, i)[0] = i
         /\ \A l \in 1..h : Up(s, i)[l] = HashTrees!Half(Up(s, i)[l - 1])
         /\ \A l \in 0..h : /\ Up(s, i)[l] \in 1..HashTrees!Width(s)[l]
                             /\ <<l, Up(s, i)[l]>> \in HashTrees!Positions(s)
         /\ <<h, Up(s, i)[h]>> = HashTrees!TopOf(s)
<1> DEFINE u == Up(s, i)
           h == HashTrees!Height(s)
           w == HashTrees!Width(s)
<1>1. h \in Nat /\ w[h] = 1 /\ w[0] = Len(s)
  BY HeightIs, WidthNext
<1>2. u = [l \in 0..h |-> IF l = 0 THEN i ELSE HashTrees!Half(u[l - 1])]
  <2>1. \E f : f = [l \in 0..h |-> IF l = 0 THEN i ELSE HashTrees!Half(f[l - 1])]
    BY <1>1, Halving
  <2> QED BY <2>1, Zenon DEF Up
<1>3. \A l \in 1..h : \A j \in 1..w[l - 1] : HashTrees!Half(j) \in 1..w[l]
  BY Children
<1> HIDE DEF u, h, w
<1>4. u[0] = i /\ \A l \in 1..h : u[l] = HashTrees!Half(u[l - 1])
  BY <1>1, <1>2
<1> DEFINE T == {l \in 0..h : u[l] \notin 1..w[l]}
<1>5. ASSUME T # {} PROVE FALSE
  <2>1. PICK l \in T : \A m \in T : l <= m
    <3>1. T \in SUBSET Nat
      BY <1>1
    <3> HIDE DEF T
    <3> QED BY <1>5, <3>1, Smallest
  <2>2. l # 0
    BY <1>1, <1>4, <2>1
  <2>3. l \in 1..h /\ l - 1 \in 0..h /\ ~(l <= l - 1)
    BY <1>1, <2>1, <2>2
  <2>4. u[l - 1] \in 1..w[l - 1]
    <3>1. l - 1 \notin T
      <4> HIDE DEF T
      <4> QED BY <2>1, <2>3
    <3> QED BY <2>3, <3>1
  <2> QED BY <1>3, <1>4, <2>1, <2>3, <2>4
<1>6. \A l \in 0..h : u[l] \in 1..w[l]
  BY <1>5
<1>7. \A l \in 0..h : <<l, u[l]>> \in HashTrees!Positions(s)
  BY <1>6, PositionsAre DEF h, w
<1>8. u[h] = 1
  <2>1. u[h] \in 1..w[h]
    BY <1>1, <1>6
  <2> QED BY <1>1, <2>1
<1>9. <<h, u[h]>> = HashTrees!TopOf(s)
  BY <1>8 DEF HashTrees!TopOf, h
<1> QED BY <1>4, <1>6, <1>7, <1>9 DEF u, h, w

-----------------------------------------------------------------------------
(* Proofs *)

\* Sequences can be put one behind the other.
LEMMA Joining ==
  ASSUME NEW c, NEW n \in Nat
  PROVE  \E f : f = [l \in 0..n |-> IF l = 0 THEN <<>> ELSE f[l - 1] \o c[l]]
<1> DEFINE Is(f, m) == f = [l \in 0..m |-> IF l = 0 THEN <<>> ELSE f[l - 1] \o c[l]]
           T == {m \in 0..n : ~\E f : Is(f, m)}
<1>1. SUFFICES ASSUME T # {} PROVE FALSE
  <2>1. n \in 0..n
    OBVIOUS
  <2> QED BY <2>1, Zenon
<1>2. PICK m \in T : \A k \in T : m <= k
  <2>1. T \in SUBSET Nat
    <3>1. 0..n \subseteq Nat
      OBVIOUS
    <3> QED BY <3>1, Zenon
  <2> HIDE DEF T
  <2> QED BY <1>1, <2>1, Smallest
<1>3. CASE m = 0
  <2>1. Is([l \in {0} |-> <<>>], 0)
    <3>1. 0..0 = {0}
      OBVIOUS
    <3> QED BY <3>1, Zenon
  <2>2. \E f : Is(f, m)
    BY <1>3, <2>1, Zenon
  <2> QED BY <1>2, <2>2, Zenon
<1>4. CASE m # 0
  <2>1. m - 1 \in 0..n /\ m - 1 \notin T /\ m \in Nat
    <3>1. m \in 0..n
      OBVIOUS
    <3>2. m - 1 \in 0..n /\ m \in Nat /\ ~(m <= m - 1)
      BY <1>4, <3>1
    <3> HIDE DEF T
    <3> QED BY <1>2, <3>2
  <2>2. PICK f : Is(f, m - 1)
    BY <2>1, Zenon
  <2>3. PICK g : g = [l \in 0..m |-> IF l = m THEN f[m - 1] \o c[m] ELSE f[l]]
    OBVIOUS
  <2>4. \A l \in 0..m : g[l] = IF l = 0 THEN <<>> ELSE g[l - 1] \o c[l]
    <3>1. SUFFICES ASSUME NEW l \in 0..m
                   PROVE  g[l] = IF l = 0 THEN <<>> ELSE g[l - 1] \o c[l]
      OBVIOUS
    <3>2. CASE l = m
      <4>1. m - 1 \in 0..m /\ m - 1 # m
        BY <2>1, <1>4
      <4>2. g[l] = f[m - 1] \o c[m] /\ g[l - 1] = f[m - 1]
        BY <2>3, <3>2, <4>1, Zenon
      <4> QED BY <1>4, <3>2, <4>2, Zenon
    <3>3. CASE l # m
      <4>1. l \in 0..(m - 1) /\ g[l] = f[l]
        BY <2>1, <2>3, <3>3
      <4>2. f[l] = IF l = 0 THEN <<>> ELSE f[l - 1] \o c[l]
        BY <2>2, <4>1, Zenon
      <4>3. l # 0 => g[l - 1] = f[l - 1]
        <5>1. l # 0 => l - 1 \in 0..m /\ l - 1 # m
          BY <2>1, <4>1
        <5> QED BY <2>3, <5>1, Zenon
      <4> QED BY <4>1, <4>2, <4>3, Zenon
    <3> QED BY <3>2, <3>3
  <2>5. Is(g, m)
    <3>1. g = [l \in 0..m |-> g[l]]
      BY <2>3, Zenon
    <3> QED BY <2>4, <3>1, Zenon
  <2> QED BY <1>2, <2>5
<1> QED BY <1>3, <1>4

\* The sequences of c, of one element at most, are joined one after the other.
Joins(f, c, n) ==
  /\ f[0] = <<>>
  /\ \A l \in 1..n : Len(c[l]) <= 1 /\ f[l] = f[l - 1] \o c[l]

\* What is joined grows by one at most, at the end.
Grows(f, R, n) ==
  /\ \A l \in 0..n : f[l] \in Seq(R) /\ Len(f[l]) <= l
  /\ \A l \in 0..n : /\ Len(f[l]) <= Len(f[n]) /\ Len(f[n]) - Len(f[l]) <= n - l
                     /\ \A j \in 1..Len(f[l]) : f[n][j] = f[l][j]

LEMMA JoinedIs ==
  ASSUME NEW n \in Nat, NEW R, NEW c \in [1..n -> Seq(R)], NEW f, Joins(f, c, n)
  PROVE  Grows(f, R, n)
<1> USE DEF Joins
<1> DEFINE T == {l \in 0..n : ~(f[l] \in Seq(R) /\ Len(f[l]) <= l)}
           U == {d \in 0..n : ~(/\ Len(f[n - d]) <= Len(f[n]) /\ Len(f[n]) - Len(f[n - d]) <= d
                                /\ \A j \in 1..Len(f[n - d]) : f[n][j] = f[n - d][j])}
<1>1. ASSUME T # {} PROVE FALSE
  <2>1. PICK l \in T : \A m \in T : l <= m
    <3>1. T \in SUBSET Nat
      <4>1. 0..n \subseteq Nat
        OBVIOUS
      <4> QED BY <4>1, Zenon
    <3> HIDE DEF T
    <3> QED BY <1>1, <3>1, Smallest
  <2>2. l \in 0..n /\ ~(f[l] \in Seq(R) /\ Len(f[l]) <= l)
    OBVIOUS
  <2>3. l # 0
    <3>1. <<>> \in Seq(R) /\ Len(<<>>) <= 0
      OBVIOUS
    <3>2. f[0] \in Seq(R) /\ Len(f[0]) <= 0
      BY <3>1
    <3> QED BY <2>2, <3>2, Zenon
  <2>4. l \in 1..n /\ l - 1 \in 0..n /\ ~(l <= l - 1)
    BY <2>2, <2>3
  <2>5. f[l - 1] \in Seq(R) /\ Len(f[l - 1]) <= l - 1
    <3>1. l - 1 \notin T
      <4> HIDE DEF T
      <4> QED BY <2>1, <2>4
    <3> QED BY <2>4, <3>1
  <2>6. f[l] = f[l - 1] \o c[l] /\ c[l] \in Seq(R) /\ Len(c[l]) <= 1
    BY <2>4
  <2>7. f[l] \in Seq(R) /\ Len(f[l]) = Len(f[l - 1]) + Len(c[l])
    BY <2>5, <2>6
  <2>8. Len(f[l - 1]) \in Nat /\ Len(c[l]) \in Nat
    BY <2>5, <2>6
  <2> QED BY <2>2, <2>4, <2>5, <2>6, <2>7, <2>8
<1>2. \A l \in 0..n : f[l] \in Seq(R) /\ Len(f[l]) <= l /\ Len(f[l]) \in Nat
  <2>1. \A l \in 0..n : f[l] \in Seq(R) /\ Len(f[l]) <= l
    BY <1>1
  <2>2. \A x \in Seq(R) : Len(x) \in Nat
    OBVIOUS
  <2> QED BY <2>1, <2>2
<1>3. ASSUME U # {} PROVE FALSE
  <2>1. PICK d \in U : \A e \in U : d <= e
    <3>1. U \in SUBSET Nat
      <4>1. 0..n \subseteq Nat
        OBVIOUS
      <4> QED BY <4>1, Zenon
    <3> HIDE DEF U
    <3> QED BY <1>3, <3>1, Smallest
  <2>2. PICK l : l = n - d
    OBVIOUS
  <2>3. /\ d \in 0..n /\ l \in 0..n /\ n - d = l
        /\ ~(/\ Len(f[l]) <= Len(f[n]) /\ Len(f[n]) - Len(f[l]) <= d
             /\ \A j \in 1..Len(f[l]) : f[n][j] = f[l][j])
    BY <2>2
  <2>4. d # 0
    <3>1. SUFFICES ASSUME d = 0 PROVE FALSE
      OBVIOUS
    <3>2. l = n /\ Len(f[n]) \in Nat
      BY <1>2, <2>3, <3>1
    <3> QED BY <2>3, <3>1, <3>2
  <2>5. d - 1 \in 0..n /\ l + 1 \in 1..n /\ n - (d - 1) = l + 1 /\ ~(d <= d - 1) /\ (l + 1) - 1 = l
    BY <2>3, <2>4
  <2>6. /\ Len(f[l + 1]) <= Len(f[n]) /\ Len(f[n]) - Len(f[l + 1]) <= d - 1
        /\ \A j \in 1..Len(f[l + 1]) : f[n][j] = f[l + 1][j]
    <3>1. d - 1 \notin U
      <4> HIDE DEF U
      <4> QED BY <2>1, <2>5
    <3> QED BY <2>5, <3>1
  <2>7. f[l + 1] = f[l] \o c[l + 1] /\ c[l + 1] \in Seq(R) /\ Len(c[l + 1]) <= 1 /\ f[l] \in Seq(R)
    BY <1>2, <2>3, <2>5
  <2>8. PICK a, b, e : a = f[l] /\ b = c[l + 1] /\ e = f[l + 1]
    OBVIOUS
  <2>9. /\ Len(e) = Len(a) + Len(b) /\ Len(a) \in Nat /\ Len(b) \in Nat
        /\ \A j \in 1..Len(a) : e[j] = a[j]
    <3>1. a \in Seq(R) /\ b \in Seq(R) /\ e = a \o b
      BY <2>7, <2>8
    <3> QED BY <3>1
  <2>10. Len(a) <= Len(f[n]) /\ Len(f[n]) - Len(a) <= d /\ Len(a) <= Len(e)
    <3>1. n \in 0..n
      OBVIOUS
    <3>2. Len(f[n]) \in Nat
      BY <1>2, <3>1
    <3>3. Len(e) <= Len(f[n]) /\ Len(f[n]) - Len(e) <= d - 1 /\ Len(b) <= 1
      BY <2>6, <2>7, <2>8
    <3>4. d \in Nat
      BY <2>3
    <3> QED BY <2>9, <3>2, <3>3, <3>4
  <2>11. \A j \in 1..Len(a) : f[n][j] = a[j]
    <3>1. \A j \in 1..Len(a) : j \in 1..Len(e)
      BY <2>9
    <3> QED BY <2>6, <2>8, <2>9, <3>1
  <2> QED BY <2>3, <2>8, <2>10, <2>11
<1>4. ASSUME NEW l \in 0..n
      PROVE  /\ Len(f[l]) <= Len(f[n]) /\ Len(f[n]) - Len(f[l]) <= n - l
             /\ \A j \in 1..Len(f[l]) : f[n][j] = f[l][j]
  <2>1. n - l \in 0..n /\ n - (n - l) = l
    OBVIOUS
  <2>2. n - l \notin U
    BY <1>3
  <2> QED BY <2>1, <2>2
<1>5. \A l \in 0..n : f[l] \in Seq(R) /\ Len(f[l]) <= l
  BY <1>2
<1> QED BY <1>4, <1>5, Zenon DEF Grows

\* What the proof of the i-th leaf holds of level l, and what it holds up to it.
Sibling(s, i, l) ==
  LET p == <<l - 1, Up(s, i)[l - 1]>>  parent == <<l, Up(s, i)[l]>> IN
  IF p # HashTrees!LeftOf(parent)
  THEN <<[side |-> "left", hash |-> HashTrees!Hash(s)[HashTrees!LeftOf(parent)]]>>
  ELSE IF HashTrees!RightOf(parent) \in HashTrees!Positions(s)
  THEN <<[side |-> "right", hash |-> HashTrees!Hash(s)[HashTrees!RightOf(parent)]]>>
  ELSE <<>>

Proof(s, i) ==
  LET proof[l \in 0..HashTrees!Height(s)] ==
        IF l = 0 THEN <<>> ELSE proof[l - 1] \o Sibling(s, i, l)
  IN  proof

Siblings(s, i) == {Sibling(s, i, l)[1] : l \in 1..HashTrees!Height(s)}

LEMMA ProofIs ==
  ASSUME NEW s, Len(s) \in Nat, Len(s) >= 1, NEW i \in 1..Len(s)
  PROVE  LET h == HashTrees!Height(s)  f == Proof(s, i) IN
         /\ HashTrees!GetProof(s, i) = f[h]
         /\ f[0] = <<>>
         /\ \A l \in 1..h : f[l] = f[l - 1] \o Sibling(s, i, l)
         /\ Grows(f, Siblings(s, i), h)
<1> DEFINE h == HashTrees!Height(s)
           f == Proof(s, i)
           c == [l \in 1..h |-> Sibling(s, i, l)]
           R == Siblings(s, i)
<1>1. h \in Nat
  BY HeightIs
<1>2. HashTrees!GetProof(s, i) = f[h]
  BY Zenon DEF HashTrees!GetProof, Proof, Sibling, Up
<1>3. \E g : g = [l \in 0..h |-> IF l = 0 THEN <<>> ELSE g[l - 1] \o Sibling(s, i, l)]
  <2> HIDE DEF h, c
  <2>1. PICK g : g = [l \in 0..h |-> IF l = 0 THEN <<>> ELSE g[l - 1] \o c[l]]
    BY <1>1, Joining
  <2>2. \A l \in 0..h : l # 0 => c[l] = Sibling(s, i, l)
    BY <1>1 DEF c
  <2>3. g = [l \in 0..h |-> IF l = 0 THEN <<>> ELSE g[l - 1] \o Sibling(s, i, l)]
    BY <2>1, <2>2, Zenon
  <2> QED BY <2>3, Zenon
<1>4. f = [l \in 0..h |-> IF l = 0 THEN <<>> ELSE f[l - 1] \o Sibling(s, i, l)]
  BY <1>3, Zenon DEF Proof
<1> HIDE DEF h, f
<1>5. f[0] = <<>>
  <2>1. 0 \in 0..h
    BY <1>1
  <2> QED BY <1>4, <2>1, Zenon
<1>6. \A l \in 1..h : f[l] = f[l - 1] \o Sibling(s, i, l)
  <2>1. \A l \in 1..h : l \in 0..h /\ l # 0
    BY <1>1
  <2> QED BY <1>4, <2>1, Zenon
<1>7. \A l \in 1..h : Sibling(s, i, l) \in Seq(R) /\ Len(Sibling(s, i, l)) <= 1
  <2>1. SUFFICES ASSUME NEW l \in 1..h
                 PROVE  Sibling(s, i, l) \in Seq(R) /\ Len(Sibling(s, i, l)) <= 1
    OBVIOUS
  <2>2. \E x : Sibling(s, i, l) = <<x>> \/ Sibling(s, i, l) = <<>>
    BY Zenon DEF Sibling
  <2>3. Sibling(s, i, l)[1] \in R
    BY Zenon DEF Siblings, h
  <2>4. PICK t, x : t = Sibling(s, i, l) /\ (t = <<x>> \/ t = <<>>)
    BY <2>2
  <2>5. t[1] \in R
    BY <2>3, <2>4
  <2> HIDE DEF R
  <2>6. t \in Seq(R) /\ Len(t) <= 1
    <3>1. CASE t = <<>>
      BY <3>1
    <3>2. CASE t = <<x>>
      <4>1. x \in R
        BY <2>5, <3>2
      <4> QED BY <3>2, <4>1
    <3> QED BY <2>4, <3>1, <3>2
  <2> QED BY <2>4, <2>6
<1>8. c \in [1..h -> Seq(R)] /\ \A l \in 1..h : Len(c[l]) <= 1 /\ f[l] = f[l - 1] \o c[l]
  BY <1>6, <1>7, Zenon
<1> HIDE DEF c, R
<1>9. Grows(f, R, h)
  <2>1. c \in [1..h -> Seq(R)]
    BY <1>8
  <2>2. Joins(f, c, h)
    BY <1>5, <1>8 DEF Joins
  <2> QED BY <1>1, <2>1, <2>2, JoinedIs
<1> QED BY <1>2, <1>5, <1>6, <1>9, Zenon DEF h, f, R

\* What a sibling makes of a hash.
HashedOn(e, x) ==
  IF e.side = "right" THEN HashTrees!hashChildren(<<x, e.hash>>)
  ELSE HashTrees!hashChildren(<<e.hash, x>>)

\* The node of a level is a child of the one of the next.
LEMMA ParentIs ==
  ASSUME NEW s, Len(s) \in Nat, Len(s) >= 1, NEW i \in 1..Len(s),
         NEW l \in 1..HashTrees!Height(s), NEW p, NEW q,
         p = <<l - 1, Up(s, i)[l - 1]>>, q = <<l, Up(s, i)[l]>>
  PROVE  /\ q \in HashTrees!Positions(s) /\ q[1] # 0
         /\ \/ p = HashTrees!LeftOf(q)
            \/ p # HashTrees!LeftOf(q) /\ p = HashTrees!RightOf(q)
         /\ p \in HashTrees!Positions(s)
<1>1. HashTrees!Height(s) \in Nat
  BY HeightIs
<1>2. l \in 0..HashTrees!Height(s) /\ l - 1 \in 0..HashTrees!Height(s) /\ l # 0
  BY <1>1
<1>3. /\ Up(s, i)[l] = HashTrees!Half(Up(s, i)[l - 1])
      /\ Up(s, i)[l - 1] \in 1..HashTrees!Width(s)[l - 1]
      /\ q \in HashTrees!Positions(s) /\ p \in HashTrees!Positions(s)
  BY <1>2, UpIs
<1> QED BY <1>2, <1>3, Children

\* The hash of a node, from the hash of a child and what the proof holds of the
\* level: one sibling, on its left or on its right, or none.
Beside(siblings, ours, parent) ==
  \/ siblings = <<>> /\ parent = HashTrees!hashChildren(<<ours>>)
  \/ \E e : siblings = <<e>> /\ parent = HashedOn(e, ours)

LEMMA SiblingIs ==
  ASSUME NEW s, Len(s) \in Nat, Len(s) >= 1, NEW i \in 1..Len(s),
         NEW l \in 1..HashTrees!Height(s)
  PROVE  Beside(Sibling(s, i, l), HashTrees!Hash(s)[<<l - 1, Up(s, i)[l - 1]>>],
                HashTrees!Hash(s)[<<l, Up(s, i)[l]>>])
<1> DEFINE H == HashTrees!Hash(s)
<1>1. PICK p, q : p = <<l - 1, Up(s, i)[l - 1]>> /\ q = <<l, Up(s, i)[l]>>
  OBVIOUS
<1>2. /\ q \in HashTrees!Positions(s) /\ q[1] # 0
      /\ \/ p = HashTrees!LeftOf(q)
         \/ p # HashTrees!LeftOf(q) /\ p = HashTrees!RightOf(q)
      /\ p \in HashTrees!Positions(s)
  BY <1>1, ParentIs
<1>3. H[q] = HashTrees!hashChildren(IF HashTrees!RightOf(q) \in HashTrees!Positions(s)
                              THEN <<H[HashTrees!LeftOf(q)], H[HashTrees!RightOf(q)]>>
                              ELSE <<H[HashTrees!LeftOf(q)]>>)
  BY <1>2, HashIs, Zenon DEF HashOf
<1>4. Sibling(s, i, l) = IF p # HashTrees!LeftOf(q)
        THEN <<[side |-> "left", hash |-> H[HashTrees!LeftOf(q)]]>>
        ELSE IF HashTrees!RightOf(q) \in HashTrees!Positions(s)
        THEN <<[side |-> "right", hash |-> H[HashTrees!RightOf(q)]]>>
        ELSE <<>>
  BY <1>1, Zenon DEF Sibling
<1> HIDE DEF H
<1>5. CASE p # HashTrees!LeftOf(q)
  <2>1. PICK e : e = [side |-> "left", hash |-> H[HashTrees!LeftOf(q)]]
    OBVIOUS
  <2>2. Sibling(s, i, l) = <<e>> /\ e.side = "left" /\ e.hash = H[HashTrees!LeftOf(q)]
    BY <1>4, <1>5, <2>1
  <2>3. H[q] = HashedOn(e, H[p])
    BY <1>2, <1>3, <1>5, <2>2 DEF HashedOn
  <2> QED BY <1>1, <2>2, <2>3, Zenon DEF H, Beside
<1>6. CASE p = HashTrees!LeftOf(q) /\ HashTrees!RightOf(q) \in HashTrees!Positions(s)
  <2>1. PICK e : e = [side |-> "right", hash |-> H[HashTrees!RightOf(q)]]
    OBVIOUS
  <2>2. Sibling(s, i, l) = <<e>> /\ e.side = "right" /\ e.hash = H[HashTrees!RightOf(q)]
    BY <1>4, <1>6, <2>1
  <2>3. H[q] = HashedOn(e, H[p])
    BY <1>3, <1>6, <2>2 DEF HashedOn
  <2> QED BY <1>1, <2>2, <2>3, Zenon DEF H, Beside
<1>7. CASE p = HashTrees!LeftOf(q) /\ HashTrees!RightOf(q) \notin HashTrees!Positions(s)
  <2>1. Sibling(s, i, l) = <<>>
    BY <1>4, <1>7
  <2>2. H[q] = HashTrees!hashChildren(<<H[p]>>)
    BY <1>3, <1>7
  <2> QED BY <1>1, <2>1, <2>2, Zenon DEF H, Beside
<1> QED BY <1>5, <1>6, <1>7, Zenon

\* The hashes that siblings make of one, one after the other.
Hashes(f, a, q, n) ==
  f = [l \in 0..n |-> IF l = 0 THEN a ELSE HashedOn(q[l], f[l - 1])]

LEMMA Hashing ==
  ASSUME NEW a, NEW q, NEW n \in Nat
  PROVE  \E f : Hashes(f, a, q, n)
<1> USE DEF Hashes
<1> DEFINE Is(f, m) == f = [l \in 0..m |-> IF l = 0 THEN a ELSE HashedOn(q[l], f[l - 1])]
           T == {m \in 0..n : ~\E f : Is(f, m)}
<1>1. SUFFICES ASSUME T # {} PROVE FALSE
  <2>1. n \in 0..n
    OBVIOUS
  <2> QED BY <2>1, Zenon
<1>2. PICK m \in T : \A k \in T : m <= k
  <2>1. T \in SUBSET Nat
    OBVIOUS
  <2> HIDE DEF T
  <2> QED BY <1>1, <2>1, Smallest
<1>3. CASE m = 0
  <2>1. Is([l \in {0} |-> a], 0)
    <3>1. 0..0 = {0}
      OBVIOUS
    <3> QED BY <3>1, Zenon
  <2>2. \E f : Is(f, m)
    BY <1>3, <2>1, Zenon
  <2> QED BY <1>2, <2>2, Zenon
<1>4. CASE m # 0
  <2>1. m - 1 \in 0..n /\ m - 1 \notin T /\ m \in Nat
    <3>1. m \in 0..n
      OBVIOUS
    <3>2. m - 1 \in 0..n /\ m \in Nat /\ ~(m <= m - 1)
      BY <1>4, <3>1
    <3> HIDE DEF T
    <3> QED BY <1>2, <3>2
  <2>2. PICK f : Is(f, m - 1)
    BY <2>1, Zenon
  <2>3. PICK g : g = [l \in 0..m |-> IF l = m THEN HashedOn(q[m], f[m - 1]) ELSE f[l]]
    OBVIOUS
  <2>4. \A l \in 0..m : g[l] = IF l = 0 THEN a ELSE HashedOn(q[l], g[l - 1])
    <3>1. SUFFICES ASSUME NEW l \in 0..m
                   PROVE  g[l] = IF l = 0 THEN a ELSE HashedOn(q[l], g[l - 1])
      OBVIOUS
    <3>2. CASE l = m
      <4>1. m - 1 \in 0..m /\ m - 1 # m
        BY <2>1, <1>4
      <4>2. g[l] = HashedOn(q[m], f[m - 1]) /\ g[l - 1] = f[m - 1]
        BY <2>3, <3>2, <4>1, Zenon
      <4> QED BY <1>4, <3>2, <4>2, Zenon
    <3>3. CASE l # m
      <4>1. l \in 0..(m - 1) /\ g[l] = f[l]
        BY <2>1, <2>3, <3>3
      <4>2. f[l] = IF l = 0 THEN a ELSE HashedOn(q[l], f[l - 1])
        BY <2>2, <4>1, Zenon
      <4>3. l # 0 => g[l - 1] = f[l - 1]
        <5>1. l # 0 => l - 1 \in 0..m /\ l - 1 # m
          BY <2>1, <4>1
        <5> QED BY <2>3, <5>1, Zenon
      <4> QED BY <4>1, <4>2, <4>3, Zenon
    <3> QED BY <3>2, <3>3
  <2>5. Is(g, m)
    <3>1. g = [l \in 0..m |-> g[l]]
      BY <2>3, Zenon
    <3> QED BY <2>4, <3>1, Zenon
  <2> QED BY <1>2, <2>5
<1> QED BY <1>3, <1>4

\* The hashes that VerifyProof goes through.
Chain(k, v, q) ==
  LET hash[n \in 0..Len(q)] ==
        IF n = 0 THEN HashTrees!hashKV(k, v) ELSE HashedOn(q[n], hash[n - 1])
  IN  hash

LEMMA ChainIs ==
  ASSUME NEW s, NEW k, NEW v, NEW q, Len(q) \in Nat
  PROVE  /\ Chain(k, v, q)[0] = HashTrees!hashKV(k, v)
         /\ \A n \in 1..Len(q) : Chain(k, v, q)[n] = HashedOn(q[n], Chain(k, v, q)[n - 1])
         /\ HashTrees!VerifyProof(s, k, v, q) <=>
              s # <<>> /\ Chain(k, v, q)[Len(q)] = HashTrees!Hash(s)[HashTrees!TopOf(s)]
<1> DEFINE f == Chain(k, v, q)
           a == HashTrees!hashKV(k, v)
<1>1. \E g : g = [l \in 0..Len(q) |-> IF l = 0 THEN a ELSE HashedOn(q[l], g[l - 1])]
  <2>1. \E g : Hashes(g, a, q, Len(q))
    BY Hashing
  <2> QED BY <2>1, Zenon DEF Hashes
<1>2. f = [l \in 0..Len(q) |-> IF l = 0 THEN a ELSE HashedOn(q[l], f[l - 1])]
  BY <1>1, Zenon DEF Chain
<1>3. HashTrees!VerifyProof(s, k, v, q) <=>
        s # <<>> /\ f[Len(q)] = HashTrees!Hash(s)[HashTrees!TopOf(s)]
  BY Zenon DEF HashTrees!VerifyProof, Chain, HashedOn
<1> HIDE DEF f, a
<1>4. f[0] = a
  <2>1. 0 \in 0..Len(q)
    OBVIOUS
  <2> QED BY <1>2, <2>1, Zenon
<1>5. \A n \in 1..Len(q) : f[n] = HashedOn(q[n], f[n - 1])
  <2>1. \A n \in 1..Len(q) : n \in 0..Len(q) /\ n # 0
    OBVIOUS
  <2> QED BY <1>2, <2>1, Zenon
<1> QED BY <1>3, <1>4, <1>5 DEF f, a

\* A level adds its sibling to the proof, and the hash of the node is what the
\* sibling makes of the child's; or it adds nothing and hashes once more.
Adds(s, i, l) ==
  LET H == HashTrees!Hash(s)
      q == HashTrees!GetProof(s, i)
      m == Len(Proof(s, i)[l - 1])
      ours == H[<<l - 1, Up(s, i)[l - 1]>>]
      parent == H[<<l, Up(s, i)[l]>>]
  IN  \/ /\ Len(Proof(s, i)[l]) = m /\ parent = HashTrees!hashChildren(<<ours>>)
      \/ /\ Len(Proof(s, i)[l]) = m + 1 /\ m + 1 \in 1..Len(q)
         /\ parent = HashedOn(q[m + 1], ours)

LEMMA ProofStep ==
  ASSUME NEW s, Len(s) \in Nat, Len(s) >= 1, NEW i \in 1..Len(s),
         NEW l \in 1..HashTrees!Height(s)
  PROVE  Adds(s, i, l)
<1> DEFINE P == Proof(s, i)
           h == HashTrees!Height(s)
           H == HashTrees!Hash(s)
           R == Siblings(s, i)
<1>1. /\ h \in Nat /\ HashTrees!GetProof(s, i) = P[h]
      /\ P[l] = P[l - 1] \o Sibling(s, i, l) /\ Grows(P, R, h)
  <2>1. h \in Nat
    BY HeightIs
  <2>2. /\ HashTrees!GetProof(s, i) = P[h] /\ Grows(P, R, h)
        /\ \A k \in 1..h : P[k] = P[k - 1] \o Sibling(s, i, k)
    BY ProofIs, Zenon
  <2> QED BY <2>1, <2>2, Zenon
<1>2. PICK a, b, q, e, ours, parent :
        /\ a = P[l - 1] /\ b = P[l] /\ q = P[h] /\ e = Sibling(s, i, l)
        /\ ours = H[<<l - 1, Up(s, i)[l - 1]>>] /\ parent = H[<<l, Up(s, i)[l]>>]
  OBVIOUS
<1> HIDE DEF P, h, H, R
<1>3. l - 1 \in 0..h /\ l \in 0..h /\ h \in 0..h
  BY <1>1 DEF h
<1>4. /\ a \in Seq(R) /\ b \in Seq(R) /\ q \in Seq(R) /\ b = a \o e
      /\ Len(b) <= Len(q) /\ \A j \in 1..Len(b) : q[j] = b[j]
  BY <1>1, <1>2, <1>3 DEF Grows
<1>5. \/ e = <<>> /\ parent = HashTrees!hashChildren(<<ours>>)
      \/ \E x : e = <<x>> /\ parent = HashedOn(x, ours)
  <2>1. Beside(e, ours, parent)
    BY <1>2, SiblingIs, Zenon DEF H
  <2> QED BY <2>1, Zenon DEF Beside
<1>6. CASE e = <<>> /\ parent = HashTrees!hashChildren(<<ours>>)
  <2>1. b = a
    BY <1>4, <1>6
  <2> QED BY <1>1, <1>2, <1>6, <2>1, Zenon DEF Adds, P, H
<1>7. ASSUME NEW x, e = <<x>>, parent = HashedOn(x, ours)
      PROVE  Adds(s, i, l)
  <2>1. Len(a) \in Nat /\ Len(b) = Len(a) + 1 /\ b[Len(a) + 1] = x /\ Len(q) \in Nat
    BY <1>4, <1>7
  <2>2. Len(a) + 1 \in 1..Len(q) /\ q[Len(a) + 1] = x
    BY <1>4, <2>1
  <2> QED BY <1>1, <1>2, <1>7, <2>1, <2>2, Zenon DEF Adds, P, H
<1> QED BY <1>5, <1>6, <1>7

\* Hashes are equal when the same was hashed (SHA-256 as a free constructor).
LEMMA HashesDiffer ==
  /\ \A k, v, x : HashTrees!hashKV(k, v) # HashTrees!hashChildren(x)
  /\ \A e, x, y : HashedOn(e, x) # HashTrees!hashChildren(<<y>>)
  /\ \A e, x, y : HashedOn(e, x) = HashedOn(e, y) => x = y
<1>1. \A k, v, x : HashTrees!hashKV(k, v) # HashTrees!hashChildren(x)
  BY DEF HashTrees!hashKV, HashTrees!hashChildren
<1>2. \A e, x, y : HashedOn(e, x) # HashTrees!hashChildren(<<y>>)
  BY DEF HashedOn, HashTrees!hashChildren
<1>3. \A e, x, y : HashedOn(e, x) = HashedOn(e, y) => x = y
  BY DEF HashedOn, HashTrees!hashChildren
<1> QED BY <1>1, <1>2, <1>3

LEMMA LeafHash ==
  ASSUME NEW s, Len(s) \in Nat, Len(s) >= 1, NEW i \in 1..Len(s)
  PROVE  HashTrees!Hash(s)[<<0, Up(s, i)[0]>>] = HashTrees!hashKV(s[i].key, s[i].value)
<1>1. PICK p : p = <<0, i>>
  OBVIOUS
<1>2. p \in HashTrees!Positions(s) /\ p = <<0, Up(s, i)[0]>>
  <2>1. 0 \in 0..HashTrees!Height(s)
    BY HeightIs
  <2> QED BY <1>1, <2>1, UpIs
<1>3. p[1] = 0 /\ p[2] = i
  BY <1>1
<1> QED BY <1>2, <1>3, HashIs, Zenon DEF HashOf

\* A proof that is verified for a value was made for a pair of the same bytes:
\* from the root down, what VerifyProof hashed is the hash of the node there.
LEMMA VerifiedIsHeld ==
  ASSUME NEW s, Len(s) \in Nat, Len(s) >= 1, NEW i \in 1..Len(s), NEW k, NEW v,
         HashTrees!VerifyProof(s, k, v, HashTrees!GetProof(s, i))
  PROVE  HashTrees!hashKV(k, v) = HashTrees!hashKV(s[i].key, s[i].value)
<1> DEFINE P == Proof(s, i)
           h == HashTrees!Height(s)
           H == HashTrees!Hash(s)
           q == HashTrees!GetProof(s, i)
           f == Chain(k, v, q)
           Agree(l) == f[Len(P[l])] = H[<<l, Up(s, i)[l]>>]
           T == {d \in 0..h : ~Agree(h - d)}
<1>1. /\ h \in Nat /\ q = P[h] /\ P[0] = <<>> /\ Grows(P, Siblings(s, i), h)
      /\ <<h, Up(s, i)[h]>> = HashTrees!TopOf(s)
  BY HeightIs, ProofIs, UpIs
<1>2. \A l \in 0..h : Len(P[l]) \in Nat
  <2>1. \A l \in 0..h : P[l] \in Seq(Siblings(s, i))
    BY <1>1 DEF Grows
  <2> HIDE DEF P, h
  <2> QED BY <2>1
<1>3. Len(q) \in Nat
  BY <1>1, <1>2
<1>4. /\ f[0] = HashTrees!hashKV(k, v)
      /\ \A n \in 1..Len(q) : f[n] = HashedOn(q[n], f[n - 1])
      /\ f[Len(q)] = H[HashTrees!TopOf(s)]
  BY <1>3, ChainIs
<1>5. \A l \in 1..h : Adds(s, i, l)
  BY ProofStep
<1>6. \A n \in 0..Len(q) : \A y : f[n] # HashTrees!hashChildren(<<y>>)
  <2> SUFFICES ASSUME NEW n \in 0..Len(q), NEW y PROVE f[n] # HashTrees!hashChildren(<<y>>)
    OBVIOUS
  <2> HIDE DEF f, q
  <2>1. CASE n = 0
    BY <1>4, <2>1, HashesDiffer
  <2>2. CASE n # 0
    <3>1. n \in 1..Len(q)
      BY <1>3, <2>2
    <3> QED BY <1>4, <3>1, HashesDiffer
  <2> QED BY <2>1, <2>2
<1> HIDE DEF P, h, H, q, f
<1>7. ASSUME NEW l \in 1..h, Agree(l) PROVE Agree(l - 1)
  <2>1. PICK m, n, ours, parent :
          /\ m = Len(P[l - 1]) /\ n = Len(P[l])
          /\ ours = H[<<l - 1, Up(s, i)[l - 1]>>] /\ parent = H[<<l, Up(s, i)[l]>>]
    OBVIOUS
  <2>2. \/ n = m /\ parent = HashTrees!hashChildren(<<ours>>)
        \/ n = m + 1 /\ m + 1 \in 1..Len(q) /\ parent = HashedOn(q[m + 1], ours)
    <3>1. Adds(s, i, l)
      BY <1>5
    <3> QED BY <2>1, <3>1, Zenon DEF Adds, P, H, q
  <2>3. f[n] = parent
    BY <1>7, <2>1
  <2>4. n \in 0..Len(q) /\ m \in Nat
    <3>1. l \in 0..h /\ l - 1 \in 0..h
      BY <1>1
    <3>2. n \in Nat /\ m \in Nat /\ n <= Len(q)
      BY <1>1, <1>2, <2>1, <3>1 DEF Grows
    <3> QED BY <3>2
  <2>5. CASE n = m /\ parent = HashTrees!hashChildren(<<ours>>)
    BY <1>6, <2>3, <2>4, <2>5
  <2>6. CASE n = m + 1 /\ m + 1 \in 1..Len(q) /\ parent = HashedOn(q[m + 1], ours)
    <3>1. f[m + 1] = HashedOn(q[m + 1], f[(m + 1) - 1]) /\ (m + 1) - 1 = m
      BY <1>4, <2>4, <2>6
    <3>2. HashedOn(q[m + 1], f[m]) = HashedOn(q[m + 1], ours)
      BY <2>3, <2>6, <3>1
    <3>3. f[m] = ours
      BY <3>2, HashesDiffer, Zenon
    <3> QED BY <2>1, <3>3
  <2> QED BY <2>2, <2>5, <2>6
<1>8. Agree(h)
  BY <1>1, <1>4 DEF q
<1>9. ASSUME T # {} PROVE FALSE
  <2>1. PICK d \in T : \A e \in T : d <= e
    <3>1. T \in SUBSET Nat
      <4>1. 0..h \subseteq Nat
        BY <1>1
      <4> QED BY <4>1, Zenon
    <3> HIDE DEF T
    <3> QED BY <1>9, <3>1, Smallest
  <2>2. d \in 0..h /\ ~Agree(h - d)
    OBVIOUS
  <2> HIDE DEF Agree
  <2>3. d # 0
    <3>1. h - 0 = h
      BY <1>1
    <3> QED BY <1>8, <2>2, <3>1
  <2>4. PICK l : l = h - d + 1
    OBVIOUS
  <2>5. /\ d - 1 \in 0..h /\ ~(d <= d - 1) /\ l \in 1..h /\ h - (d - 1) = l
        /\ l - 1 = h - d
    BY <1>1, <2>2, <2>3, <2>4
  <2>6. Agree(l)
    <3>1. d - 1 \notin T
      <4> HIDE DEF T
      <4> QED BY <2>1, <2>5
    <3>2. Agree(h - (d - 1))
      BY <2>5, <3>1, Zenon
    <3> QED BY <2>5, <3>2
  <2>7. Agree(l - 1)
    BY <1>7, <2>5, <2>6
  <2> QED BY <2>2, <2>5, <2>7
<1>10. Agree(0)
  <2>1. h \in 0..h /\ h - h = 0
    BY <1>1
  <2>2. Agree(h - h)
    BY <1>9, <2>1, Zenon
  <2> HIDE DEF Agree
  <2> QED BY <2>1, <2>2
<1>11. Len(P[0]) = 0
  BY <1>1
<1>12. H[<<0, Up(s, i)[0]>>] = HashTrees!hashKV(s[i].key, s[i].value)
  BY LeafHash DEF H
<1> QED BY <1>4, <1>10, <1>11, <1>12

\* A proof with a sibling for every level is verified for the value of its leaf:
\* from the leaf up, what VerifyProof hashed is the hash of the node there.
LEMMA WholeIsVerified ==
  ASSUME NEW s, Len(s) \in Nat, Len(s) >= 1, s # <<>>, NEW i \in 1..Len(s),
         Len(HashTrees!GetProof(s, i)) = HashTrees!Height(s)
  PROVE  HashTrees!VerifyProof(s, s[i].key, s[i].value, HashTrees!GetProof(s, i))
<1> DEFINE P == Proof(s, i)
           h == HashTrees!Height(s)
           H == HashTrees!Hash(s)
           q == HashTrees!GetProof(s, i)
           f == Chain(s[i].key, s[i].value, q)
           Agree(l) == f[l] = H[<<l, Up(s, i)[l]>>]
           T == {l \in 0..h : ~Agree(l)}
<1>1. /\ h \in Nat /\ q = P[h] /\ Grows(P, Siblings(s, i), h)
      /\ <<h, Up(s, i)[h]>> = HashTrees!TopOf(s)
  BY HeightIs, ProofIs, UpIs
<1>2. Len(q) = h
  OBVIOUS
<1>3. /\ f[0] = HashTrees!hashKV(s[i].key, s[i].value)
      /\ \A n \in 1..Len(q) : f[n] = HashedOn(q[n], f[n - 1])
      /\ HashTrees!VerifyProof(s, s[i].key, s[i].value, q) <=>
           s # <<>> /\ f[Len(q)] = H[HashTrees!TopOf(s)]
  <2>1. Len(q) \in Nat
    BY <1>1, <1>2
  <2> QED BY <2>1, ChainIs
<1>4. \A l \in 1..h : Adds(s, i, l)
  BY ProofStep
<1>5. f[0] = H[<<0, Up(s, i)[0]>>]
  BY <1>3, LeafHash
<1> HIDE DEF P, h, H, q, f
<1>6. \A l \in 0..h : Len(P[l]) = l
  <2> SUFFICES ASSUME NEW l \in 0..h PROVE Len(P[l]) = l
    OBVIOUS
  <2>1. P[l] \in Seq(Siblings(s, i)) /\ Len(P[l]) <= l /\ Len(P[h]) - Len(P[l]) <= h - l
    BY <1>1 DEF Grows
  <2>2. Len(P[l]) \in Nat /\ Len(P[h]) = h
    BY <1>1, <1>2, <2>1
  <2> QED BY <1>1, <2>1, <2>2
<1>7. ASSUME NEW l \in 1..h, Agree(l - 1) PROVE Agree(l)
  <2>1. l - 1 \in 0..h /\ l \in 0..h /\ l \in 1..Len(q)
    BY <1>1, <1>2
  <2>2. Len(P[l - 1]) = l - 1 /\ Len(P[l]) = l
    BY <1>6, <2>1
  <2>3. H[<<l, Up(s, i)[l]>>] = HashedOn(q[l], H[<<l - 1, Up(s, i)[l - 1]>>])
    <3>1. PICK m, n, ours, parent :
            /\ m = Len(P[l - 1]) /\ n = Len(P[l])
            /\ ours = H[<<l - 1, Up(s, i)[l - 1]>>] /\ parent = H[<<l, Up(s, i)[l]>>]
      OBVIOUS
    <3>2. \/ n = m /\ parent = HashTrees!hashChildren(<<ours>>)
          \/ n = m + 1 /\ m + 1 \in 1..Len(q) /\ parent = HashedOn(q[m + 1], ours)
      <4>1. Adds(s, i, l)
        BY <1>4
      <4> QED BY <3>1, <4>1, Zenon DEF Adds, P, H, q
    <3>3. n # m /\ m + 1 = l
      BY <2>2, <3>1
    <3> QED BY <3>1, <3>2, <3>3
  <2>4. f[l] = HashedOn(q[l], f[l - 1])
    BY <1>3, <2>1
  <2> QED BY <1>7, <2>3, <2>4
<1>8. ASSUME T # {} PROVE FALSE
  <2>1. PICK l \in T : \A e \in T : l <= e
    <3>1. T \in SUBSET Nat
      <4>1. 0..h \subseteq Nat
        BY <1>1
      <4> QED BY <4>1, Zenon
    <3> HIDE DEF T
    <3> QED BY <1>8, <3>1, Smallest
  <2>2. l \in 0..h /\ ~Agree(l)
    OBVIOUS
  <2>3. l # 0
    BY <1>5, <2>2
  <2> HIDE DEF Agree
  <2>4. l - 1 \in 0..h /\ l \in 1..h /\ ~(l <= l - 1)
    BY <1>1, <2>2, <2>3
  <2>5. Agree(l - 1)
    <3>1. l - 1 \notin T
      <4> HIDE DEF T
      <4> QED BY <2>1, <2>4
    <3> QED BY <2>4, <3>1, Zenon
  <2> QED BY <1>7, <2>2, <2>4, <2>5
<1>9. Agree(h)
  <2>1. h \in 0..h
    BY <1>1
  <2> QED BY <1>8, <2>1, Zenon
<1> QED BY <1>1, <1>2, <1>3, <1>9 DEF q

-----------------------------------------------------------------------------
(* The walk of diffNode *)

Pairs(left, right) == HashTrees!Positions(left.rooted) \X HashTrees!Positions(right.rooted)

\* What the pairs of the right children, if any, add.
RightDiff(left, right, f, d) ==
  IF d[2][1] > 0 /\ HashTrees!RightOf(d[1]) \in HashTrees!Positions(left.rooted)
                 /\ HashTrees!RightOf(d[2]) \in HashTrees!Positions(right.rooted)
  THEN f[<<HashTrees!RightOf(d[1]), HashTrees!RightOf(d[2])>>] ELSE {}

\* What a pair of nodes adds, from what the pairs of their children do.
DiffOf(left, right, f, d) ==
  IF HashTrees!Hash(left.rooted)[d[1]] = HashTrees!Hash(right.rooted)[d[2]] THEN {}
  ELSE IF d[1][1] = 0
  THEN IF left.rooted[d[1][2]].key = <<>> THEN {}
       ELSE HashTrees!LeafDiff(left.rooted[d[1][2]], right)
  ELSE (IF d[2][1] > 0
        THEN f[<<HashTrees!LeftOf(d[1]), HashTrees!LeftOf(d[2])>>] ELSE {})
       \cup RightDiff(left, right, f, d)

Diff(left, right) ==
  LET diff[d \in Pairs(left, right)] == DiffOf(left, right, diff, d) IN diff

\* A node above the leaves has a left child.
LEMMA LeftIn ==
  ASSUME NEW s, Len(s) \in Nat, Len(s) >= 1, NEW p \in HashTrees!Positions(s), p[1] # 0
  PROVE  HashTrees!LeftOf(p) \in HashTrees!Positions(s)
<1>1. PICK l, i : l = p[1] /\ i = p[2]
  OBVIOUS
<1>2. p = <<l, i>>
  BY <1>1, PositionsPairs
<1>3. l \in 0..HashTrees!Height(s) /\ i \in 1..HashTrees!Width(s)[l]
  BY <1>2, PositionsAre
<1>4. l \in 1..HashTrees!Height(s)
  BY <1>1, <1>3, HeightIs
<1> QED BY <1>2, <1>3, <1>4, Children

LEMMA DiffIs ==
  ASSUME NEW left, NEW right, Len(left.rooted) \in Nat, Len(left.rooted) >= 1,
         Len(right.rooted) \in Nat, Len(right.rooted) >= 1
  PROVE  /\ \A d \in Pairs(left, right) :
              Diff(left, right)[d] = DiffOf(left, right, Diff(left, right), d)
         /\ HashTrees!diffNode(left, right)
              = Diff(left, right)[<<HashTrees!TopOf(left.rooted), HashTrees!TopOf(right.rooted)>>]
<1> DEFINE All == Pairs(left, right)
           Upto(n) == {d \in All : d[1][1] <= n}
           Is(f, n) == f = [d \in Upto(n) |-> DiffOf(left, right, f, d)]
           h == HashTrees!Height(left.rooted)
           T == {n \in 0..h : ~\E f : Is(f, n)}
<1>1. h \in Nat /\ \A d \in All : /\ d = <<d[1], d[2]>> /\ d[1][1] \in 0..h
                                  /\ d[1] \in HashTrees!Positions(left.rooted)
                                  /\ d[2] \in HashTrees!Positions(right.rooted)
                                  /\ d[2][1] \in Nat
  <2>1. h \in Nat /\ HashTrees!Height(right.rooted) \in Nat
    BY HeightIs
  <2>2. /\ \A p \in HashTrees!Positions(left.rooted) : p[1] \in 0..h
        /\ \A p \in HashTrees!Positions(right.rooted) : p[1] \in 0..HashTrees!Height(right.rooted)
    BY PositionsAre, PositionsPairs
  <2> HIDE DEF h
  <2> QED BY <2>1, <2>2 DEF Pairs
<1> HIDE DEF h
<1>2. Upto(h) = All
  BY <1>1
<1>3. SUFFICES \E f : Is(f, h)
  <2>1. \E f : f = [d \in All |-> DiffOf(left, right, f, d)]
    BY <1>2, <1>3
  <2>2. Diff(left, right) = [d \in All |-> DiffOf(left, right, Diff(left, right), d)]
    BY <2>1, Zenon DEF Diff
  <2>3. HashTrees!diffNode(left, right)
          = Diff(left, right)[<<HashTrees!TopOf(left.rooted), HashTrees!TopOf(right.rooted)>>]
    BY Zenon DEF HashTrees!diffNode, Diff, DiffOf, RightDiff, Pairs
  <2> QED BY <2>2, <2>3, Zenon
<1>4. SUFFICES ASSUME T # {} PROVE FALSE
  <2>1. h \in 0..h
    BY <1>1
  <2> QED BY <2>1, Zenon
<1>5. PICK n \in T : \A m \in T : n <= m
  <2>1. T \in SUBSET Nat
    BY <1>1
  <2> HIDE DEF T
  <2> QED BY <1>4, <2>1, Smallest
<1>6. n \in Nat /\ n <= h
  BY <1>1, <1>5
<1>7. \E f : n = 0 \/ Is(f, n - 1)
  <2>1. n # 0 => n - 1 \in 0..h /\ ~(n <= n - 1)
    BY <1>1, <1>6
  <2>2. ASSUME n # 0 PROVE \E f : Is(f, n - 1)
    <3>1. n - 1 \notin T
      <4> HIDE DEF T
      <4> QED BY <1>5, <2>1, <2>2
    <3> QED BY <2>1, <2>2, <3>1, Zenon
  <2> QED BY <2>2, Zenon
<1>8. PICK f : n = 0 \/ Is(f, n - 1)
  BY <1>7
<1>9. PICK g : g = [d \in Upto(n) |-> IF d[1][1] = n THEN DiffOf(left, right, f, d) ELSE f[d]]
  OBVIOUS
<1>10. ASSUME NEW d \in Upto(n) PROVE g[d] = DiffOf(left, right, g, d)
  <2>1. d \in All /\ d[1][1] \in 0..n /\ d[2][1] \in Nat
    BY <1>1, <1>6
  <2>2. ASSUME d[1][1] # 0, NEW p, NEW q, p[1] = d[1][1] - 1,
               p \in HashTrees!Positions(left.rooted), q \in HashTrees!Positions(right.rooted)
        PROVE  g[<<p, q>>] = f[<<p, q>>]
    <3>1. <<p, q>> \in All /\ <<p, q>>[1][1] = d[1][1] - 1
      BY <2>2 DEF Pairs
    <3>2. <<p, q>> \in Upto(n) /\ <<p, q>>[1][1] # n
      BY <1>6, <2>1, <2>2, <3>1
    <3> QED BY <1>9, <3>2, Zenon
  <2>3. DiffOf(left, right, g, d) = DiffOf(left, right, f, d)
    <3>1. CASE d[1][1] = 0 \/ ~(d[2][1] > 0)
      BY <3>1, Zenon DEF DiffOf, RightDiff
    <3>2. CASE d[1][1] # 0 /\ d[2][1] > 0
      <4>1. /\ HashTrees!LeftOf(d[1]) \in HashTrees!Positions(left.rooted)
            /\ HashTrees!LeftOf(d[2]) \in HashTrees!Positions(right.rooted)
        <5>1. d[2][1] # 0
          BY <2>1, <3>2
        <5> QED BY <1>1, <2>1, <3>2, <5>1, LeftIn
      <4>2. HashTrees!LeftOf(d[1])[1] = d[1][1] - 1 /\ HashTrees!RightOf(d[1])[1] = d[1][1] - 1
        BY DEF HashTrees!LeftOf, HashTrees!RightOf
      <4>3. g[<<HashTrees!LeftOf(d[1]), HashTrees!LeftOf(d[2])>>]
              = f[<<HashTrees!LeftOf(d[1]), HashTrees!LeftOf(d[2])>>]
        BY <2>2, <3>2, <4>1, <4>2
      <4>4. RightDiff(left, right, g, d) = RightDiff(left, right, f, d)
        <5>1. CASE /\ HashTrees!RightOf(d[1]) \in HashTrees!Positions(left.rooted)
                   /\ HashTrees!RightOf(d[2]) \in HashTrees!Positions(right.rooted)
          <6>1. g[<<HashTrees!RightOf(d[1]), HashTrees!RightOf(d[2])>>]
                  = f[<<HashTrees!RightOf(d[1]), HashTrees!RightOf(d[2])>>]
            BY <2>2, <3>2, <4>2, <5>1
          <6> QED BY <6>1, Zenon DEF RightDiff
        <5> QED BY <5>1, Zenon DEF RightDiff
      <4> QED BY <4>3, <4>4, Zenon DEF DiffOf
    <3> QED BY <3>1, <3>2
  <2>4. CASE d[1][1] = n
    BY <1>9, <2>3, <2>4, Zenon
  <2>5. CASE d[1][1] # n
    <3>1. n # 0 /\ d \in Upto(n - 1)
      BY <1>6, <2>1, <2>5
    <3>2. f[d] = DiffOf(left, right, f, d)
      BY <1>8, <3>1, Zenon
    <3>3. g[d] = f[d]
      BY <1>9, <2>5, Zenon
    <3> QED BY <2>3, <3>2, <3>3
  <2> QED BY <2>4, <2>5
<1>11. Is(g, n)
  <2>1. g = [d \in Upto(n) |-> g[d]]
    BY <1>9, Zenon
  <2> HIDE DEF Upto
  <2>2. [d \in Upto(n) |-> g[d]] = [d \in Upto(n) |-> DiffOf(left, right, g, d)]
    BY <1>10, Zenon
  <2> QED BY <2>1, <2>2, Zenon
<1> QED BY <1>5, <1>11, Zenon

-----------------------------------------------------------------------------
(* What GetDiff reports *)

\* No two leaves have one key.
LEMMA KeysDiffer ==
  ASSUME HashTrees!MerkleAssumption, NEW s \in Seq(HashTrees!Leaf), HashTrees!Sorted(s),
         NEW i \in 1..Len(s), NEW j \in 1..Len(s), s[i].key = s[j].key
  PROVE  i = j
<1>1. s[i] \in HashTrees!Leaf /\ s[j] \in HashTrees!Leaf /\ i \in Nat /\ j \in Nat
  OBVIOUS
<1>2. s[i].key \in Seq(Nat)
  BY <1>1 DEF HashTrees!Leaf, HashTrees!MerkleAssumption
<1>3. ~HashTrees!Before(s[i].key, s[j].key) /\ ~HashTrees!Before(s[j].key, s[i].key)
  BY <1>2, BeforeIsStrict
<1>4. ~(i < j) /\ ~(j < i)
  BY <1>3 DEF HashTrees!Sorted
<1> QED BY <1>1, <1>4

\* What another tree holds for the key of a leaf: that leaf, another, or none.
LEMMA LeafDiffIs ==
  ASSUME HashTrees!MerkleAssumption, NEW right, right.leaves \in Seq(HashTrees!Leaf),
         HashTrees!Sorted(right.leaves), NEW leaf \in HashTrees!Leaf
  PROVE  HashTrees!LeafDiff(leaf, right)
           = IF leaf \in HashTrees!Held(right.leaves) THEN {}
             ELSE {[key |-> leaf.key, value |-> leaf.value,
                    modified |-> leaf.key \in HashTrees!KeysIn(right)]}
<1>1. PICK s, k, v : s = right.leaves /\ k = leaf.key /\ v = leaf.value
  OBVIOUS
<1>2. HashTrees!Held(s) = {s[j] : j \in 1..Len(s)}
  BY <1>1, HeldIs
<1>3. \A i \in 1..Len(s) : s[i] = leaf <=> s[i].key = k /\ s[i].value = v
  <2>1. \A d, e \in HashTrees!Leaf : d = e <=> d.key = e.key /\ d.value = e.value
    BY DEF HashTrees!Leaf
  <2>2. \A i \in 1..Len(s) : s[i] \in HashTrees!Leaf
    BY <1>1
  <2> QED BY <1>1, <2>1, <2>2
<1>4. HashTrees!Lookup(right, k) = {s[i].value : i \in {j \in 1..Len(s) : s[j].key = k}}
  BY <1>1 DEF HashTrees!Lookup
<1>5. HashTrees!Lookup(right, k) # {} <=> k \in HashTrees!KeysIn(right)
  <2>1. HashTrees!KeysIn(right) = {e.key : e \in {s[j] : j \in 1..Len(s)}}
    BY <1>1, <1>2 DEF HashTrees!KeysIn
  <2>2. ASSUME HashTrees!Lookup(right, k) # {} PROVE k \in HashTrees!KeysIn(right)
    <3>1. PICK i \in 1..Len(s) : s[i].key = k
      BY <1>4, <2>2
    <3> QED BY <2>1, <3>1, Zenon
  <2>3. ASSUME k \in HashTrees!KeysIn(right) PROVE HashTrees!Lookup(right, k) # {}
    <3>1. PICK i \in 1..Len(s) : s[i].key = k
      BY <2>1, <2>3, Zenon
    <3> QED BY <1>4, <3>1
  <2> QED BY <2>2, <2>3
<1>6. HashTrees!Lookup(right, k) = {v} <=> leaf \in HashTrees!Held(s)
  <2>1. ASSUME HashTrees!Lookup(right, k) = {v} PROVE leaf \in HashTrees!Held(s)
    <3>1. PICK i \in 1..Len(s) : s[i].key = k /\ s[i].value = v
      BY <1>4, <2>1
    <3> QED BY <1>2, <1>3, <3>1
  <2>2. ASSUME leaf \in HashTrees!Held(s) PROVE HashTrees!Lookup(right, k) = {v}
    <3>1. PICK i \in 1..Len(s) : s[i] = leaf
      BY <1>2, <2>2
    <3>2. s[i].key = k /\ s[i].value = v
      BY <1>1, <3>1
    <3>3. \A j \in 1..Len(s) : s[j].key = k => j = i
      BY <1>1, <3>2, KeysDiffer
    <3> QED BY <1>4, <3>2, <3>3
  <2> QED BY <2>1, <2>2
<1>7. (HashTrees!Lookup(right, leaf.key) # {}) = (leaf.key \in HashTrees!KeysIn(right))
  BY <1>1, <1>5
<1> QED BY <1>1, <1>6, <1>7, Zenon DEF HashTrees!LeafDiff

\* The leaves of a tree, and those of a tree without a rebuild pending.
Leaves(s) == s.leaves \in Seq(HashTrees!Leaf) /\ HashTrees!Sorted(s.leaves)
Fresh(s)  == Leaves(s) /\ s.rooted = s.leaves

\* A difference is the entry of a leaf.
LEMMA DifferencesAre ==
  ASSUME HashTrees!MerkleAssumption, NEW left, NEW right, Leaves(left), Leaves(right)
  PROVE  /\ \A i \in 1..Len(left.leaves) :
              HashTrees!LeafDiff(left.leaves[i], right) \subseteq HashTrees!Differences(left, right)
         /\ \A e \in HashTrees!Differences(left, right) : \E i \in 1..Len(left.leaves) :
              /\ e \in HashTrees!LeafDiff(left.leaves[i], right)
              /\ e.key = left.leaves[i].key
              /\ left.leaves[i] \notin HashTrees!Held(right.leaves)
<1>1. PICK s : s = left.leaves
  OBVIOUS
<1>2. s \in Seq(HashTrees!Leaf) /\ \A i \in 1..Len(s) : s[i] \in HashTrees!Leaf
  BY <1>1 DEF Leaves
<1>3. HashTrees!Held(s) = {s[j] : j \in 1..Len(s)}
  BY <1>2, HeldIs
<1> DEFINE Entry(e) == [key |-> e.key, value |-> e.value,
                        modified |-> e.key \in HashTrees!KeysIn(right)]
<1>4. ASSUME NEW i \in 1..Len(s)
      PROVE  HashTrees!LeafDiff(s[i], right)
               = IF s[i] \in HashTrees!Held(right.leaves) THEN {} ELSE {Entry(s[i])}
  <2>1. s[i] \in HashTrees!Leaf
    BY <1>2
  <2> QED BY <2>1, LeafDiffIs DEF Leaves
<1>5. HashTrees!Differences(left, right)
        = {Entry(e) : e \in HashTrees!Held(s) \ HashTrees!Held(right.leaves)}
  BY <1>1, Zenon DEF HashTrees!Differences
<1>6. \A e : Entry(e).key = e.key
  OBVIOUS
<1> HIDE DEF Entry
<1>7. ASSUME NEW i \in 1..Len(s)
      PROVE  HashTrees!LeafDiff(s[i], right) \subseteq HashTrees!Differences(left, right)
  <2>1. s[i] \in HashTrees!Held(s)
    BY <1>3
  <2>2. s[i] \notin HashTrees!Held(right.leaves) => Entry(s[i]) \in HashTrees!Differences(left, right)
    BY <1>5, <2>1, Zenon
  <2> QED BY <1>4, <2>2
<1>8. ASSUME NEW e \in HashTrees!Differences(left, right)
      PROVE  \E i \in 1..Len(s) : /\ e \in HashTrees!LeafDiff(s[i], right) /\ e.key = s[i].key
                                  /\ s[i] \notin HashTrees!Held(right.leaves)
  <2>1. PICK d \in HashTrees!Held(s) \ HashTrees!Held(right.leaves) : e = Entry(d)
    BY <1>5, Zenon
  <2>2. PICK i \in 1..Len(s) : s[i] = d
    BY <1>3, <2>1
  <2>3. e \in HashTrees!LeafDiff(s[i], right)
    BY <1>4, <2>1, <2>2
  <2> QED BY <1>6, <2>1, <2>2, <2>3
<1> QED BY <1>1, <1>7, <1>8

\* The whole list, when one of the trees is empty.
LEMMA FullDiffIs ==
  ASSUME HashTrees!MerkleAssumption, NEW left, NEW right, Leaves(left), Leaves(right)
  PROVE  HashTrees!fullDiff(left, right) = HashTrees!Differences(left, right)
BY DifferencesAre DEF HashTrees!fullDiff

\* What the walk reports for a pair of nodes are differences, in keys that are
\* not empty.
LEMMA WalkIsSound ==
  ASSUME HashTrees!MerkleAssumption, NEW left, NEW right, Fresh(left), Fresh(right),
         Len(left.rooted) \in Nat, Len(left.rooted) >= 1,
         Len(right.rooted) \in Nat, Len(right.rooted) >= 1
  PROVE  \A d \in Pairs(left, right) :
           Diff(left, right)[d]
             \subseteq {e \in HashTrees!Differences(left, right) : e.key # <<>>}
<1> DEFINE D == Diff(left, right)
           All == Pairs(left, right)
           Real == {e \in HashTrees!Differences(left, right) : e.key # <<>>}
           h == HashTrees!Height(left.rooted)
           T == {n \in 0..h : \E d \in All : d[1][1] = n /\ ~(D[d] \subseteq Real)}
<1>1. h \in Nat /\ \A d \in All : /\ d = <<d[1], d[2]>> /\ d[1][1] \in 0..h
                                  /\ d[1] \in HashTrees!Positions(left.rooted)
                                  /\ d[2] \in HashTrees!Positions(right.rooted)
                                  /\ d[2][1] \in Nat
  <2>1. h \in Nat /\ HashTrees!Height(right.rooted) \in Nat
    BY HeightIs
  <2>2. /\ \A p \in HashTrees!Positions(left.rooted) : p[1] \in 0..h
        /\ \A p \in HashTrees!Positions(right.rooted) : p[1] \in 0..HashTrees!Height(right.rooted)
    BY PositionsAre, PositionsPairs
  <2> HIDE DEF h
  <2> QED BY <2>1, <2>2 DEF Pairs
<1>2. \A d \in All : D[d] = DiffOf(left, right, D, d)
  BY DiffIs, Zenon
<1> HIDE DEF h, D
<1>3. SUFFICES ASSUME NEW b \in All, ~(D[b] \subseteq Real) PROVE FALSE
  BY Zenon DEF D
<1>4. PICK n \in T : \A m \in T : n <= m
  <2>1. b[1][1] \in 0..h
    BY <1>1
  <2>2. b[1][1] \in T
    BY <1>3, <2>1, Zenon
  <2>3. T \in SUBSET Nat /\ T # {}
    <3>1. 0..h \subseteq Nat
      BY <1>1
    <3> QED BY <2>2, <3>1, Zenon
  <2> HIDE DEF T
  <2> QED BY <2>3, Smallest
<1>5. PICK d \in All : d[1][1] = n /\ ~(D[d] \subseteq Real)
  BY <1>4, Zenon
<1>6. n \in 0..h /\ n \in Nat /\ d[2][1] \in Nat
  BY <1>1, <1>4
<1>7. ASSUME n # 0, NEW c \in All, c[1][1] = n - 1 PROVE D[c] \subseteq Real
  <2>1. n - 1 \in 0..h /\ ~(n <= n - 1)
    BY <1>1, <1>6, <1>7
  <2>2. n - 1 \notin T
    <3> HIDE DEF T
    <3> QED BY <1>4, <2>1
  <2> QED BY <1>7, <2>1, <2>2, Zenon
<1>8. CASE n = 0
  <2>1. d[1] = <<0, d[1][2]>> /\ d[1][2] \in 1..Len(left.rooted)
    <3>1. d[1] \in HashTrees!Positions(left.rooted) /\ d[1][1] = 0
      BY <1>1, <1>5, <1>8
    <3>2. d[1] = <<0, d[1][2]>>
      BY <3>1, PositionsPairs
    <3>3. d[1][2] \in 1..HashTrees!Width(left.rooted)[0]
      BY <3>1, <3>2, PositionsAre
    <3> QED BY <3>2, <3>3, WidthNext
  <2>2. PICK i, leaf : i = d[1][2] /\ leaf = left.rooted[i]
    OBVIOUS
  <2>3. D[d] \subseteq (IF leaf.key = <<>> THEN {} ELSE HashTrees!LeafDiff(leaf, right))
    <3>1. D[d] = DiffOf(left, right, D, d)
      BY <1>2
    <3>2. DiffOf(left, right, D, d) \in {{}, IF leaf.key = <<>> THEN {} ELSE HashTrees!LeafDiff(leaf, right)}
      BY <1>5, <1>8, <2>2, Zenon DEF DiffOf
    <3> QED BY <3>1, <3>2
  <2>4. leaf \in HashTrees!Leaf /\ leaf = left.leaves[i] /\ i \in 1..Len(left.leaves)
    BY <2>1, <2>2 DEF Fresh, Leaves
  <2>5. HashTrees!LeafDiff(leaf, right) \subseteq HashTrees!Differences(left, right)
    BY <2>4, DifferencesAre DEF Fresh
  <2>6. \A e \in HashTrees!LeafDiff(leaf, right) : e.key = leaf.key
    BY DEF HashTrees!LeafDiff
  <2>7. ~(D[d] \subseteq Real)
    BY <1>5
  <2> QED BY <2>3, <2>5, <2>6, <2>7
<1>9. CASE n # 0
  <2>1. ASSUME NEW p, NEW q, p[1] = n - 1, p \in HashTrees!Positions(left.rooted),
               q \in HashTrees!Positions(right.rooted)
        PROVE  D[<<p, q>>] \subseteq Real
    <3>1. <<p, q>> \in All /\ <<p, q>>[1][1] = n - 1
      BY <2>1 DEF Pairs
    <3> HIDE DEF All, Real
    <3> QED BY <1>7, <1>9, <3>1
  <2>2. HashTrees!LeftOf(d[1])[1] = n - 1 /\ HashTrees!RightOf(d[1])[1] = n - 1
    BY <1>5 DEF HashTrees!LeftOf, HashTrees!RightOf
  <2>3. RightDiff(left, right, D, d) \subseteq Real
    <3>1. CASE /\ HashTrees!RightOf(d[1]) \in HashTrees!Positions(left.rooted)
               /\ HashTrees!RightOf(d[2]) \in HashTrees!Positions(right.rooted)
      <4>1. D[<<HashTrees!RightOf(d[1]), HashTrees!RightOf(d[2])>>] \subseteq Real
        BY <2>1, <2>2, <3>1
      <4> HIDE DEF Real
      <4> QED BY <4>1 DEF RightDiff
    <3>2. CASE ~(/\ HashTrees!RightOf(d[1]) \in HashTrees!Positions(left.rooted)
                 /\ HashTrees!RightOf(d[2]) \in HashTrees!Positions(right.rooted))
      BY <3>2 DEF RightDiff
    <3> QED BY <3>1, <3>2
  <2>4. d[2][1] > 0 => D[<<HashTrees!LeftOf(d[1]), HashTrees!LeftOf(d[2])>>] \subseteq Real
    <3>1. SUFFICES ASSUME d[2][1] > 0
                   PROVE  D[<<HashTrees!LeftOf(d[1]), HashTrees!LeftOf(d[2])>>] \subseteq Real
      OBVIOUS
    <3>2. d[1][1] # 0 /\ d[2][1] # 0
      BY <1>5, <1>6, <1>9, <3>1
    <3>3. /\ HashTrees!LeftOf(d[1]) \in HashTrees!Positions(left.rooted)
          /\ HashTrees!LeftOf(d[2]) \in HashTrees!Positions(right.rooted)
      BY <1>1, <3>2, LeftIn
    <3> QED BY <2>1, <2>2, <3>3
  <2>5. DiffOf(left, right, D, d) \subseteq Real
    <3>1. DiffOf(left, right, D, d) \in
            {{}, (IF d[2][1] > 0
                  THEN D[<<HashTrees!LeftOf(d[1]), HashTrees!LeftOf(d[2])>>] ELSE {})
                 \cup RightDiff(left, right, D, d)}
      BY <1>5, <1>9, Zenon DEF DiffOf
    <3> HIDE DEF Real
    <3> QED BY <2>3, <2>4, <3>1
  <2> QED BY <1>2, <1>5, <2>5, Zenon
<1> QED BY <1>8, <1>9

\* Sorted leaves with the same keys have them at the same places.
LEMMA KeysAgree ==
  ASSUME HashTrees!MerkleAssumption,
         NEW s \in Seq(HashTrees!Leaf), HashTrees!Sorted(s),
         NEW t \in Seq(HashTrees!Leaf), HashTrees!Sorted(t),
         {s[i].key : i \in 1..Len(s)} = {t[i].key : i \in 1..Len(t)}
  PROVE  Len(s) = Len(t) /\ \A i \in 1..Len(s) : s[i].key = t[i].key
<1>1. PICK m, n : m = Len(s) /\ n = Len(t)
  OBVIOUS
<1>2. /\ m \in Nat /\ n \in Nat
      /\ \A i \in 1..m : s[i].key \in Seq(Nat)
      /\ \A i \in 1..n : t[i].key \in Seq(Nat)
  <2>1. \A e \in HashTrees!Leaf : e.key \in Seq(Nat)
    BY DEF HashTrees!Leaf, HashTrees!MerkleAssumption
  <2>2. /\ \A i \in 1..m : s[i] \in HashTrees!Leaf
        /\ \A i \in 1..n : t[i] \in HashTrees!Leaf
    BY <1>1
  <2> QED BY <1>1, <2>1, <2>2
<1>3. /\ \A i \in 1..m : \E j \in 1..n : s[i].key = t[j].key
      /\ \A j \in 1..n : \E i \in 1..m : t[j].key = s[i].key
  BY <1>1
<1>4. /\ \A i, j \in 1..m : s[i].key = s[j].key => i = j
      /\ \A i, j \in 1..n : t[i].key = t[j].key => i = j
  BY <1>1, KeysDiffer
<1>5. /\ \A i, j \in 1..m : i < j => HashTrees!Before(s[i].key, s[j].key)
      /\ \A i, j \in 1..n : i < j => HashTrees!Before(t[i].key, t[j].key)
  BY <1>1 DEF HashTrees!Sorted
<1> DEFINE T == {i \in 1..m : i <= n /\ s[i].key # t[i].key}
<1>6. ASSUME T # {} PROVE FALSE
  <2>1. PICK i \in T : \A j \in T : i <= j
    <3>1. T \in SUBSET Nat
      BY <1>2
    <3> HIDE DEF T
    <3> QED BY <1>6, <3>1, Smallest
  <2>2. i \in 1..m /\ i \in 1..n /\ s[i].key # t[i].key
    BY <1>2, <2>1
  <2>3. \A j \in 1..(i - 1) : j \in 1..m /\ j \in 1..n /\ s[j].key = t[j].key
    <3>1. \A j \in 1..(i - 1) : j \in 1..m /\ j \in 1..n /\ ~(i <= j)
      BY <1>2, <2>2
    <3>2. \A j \in 1..(i - 1) : j \notin T
      <4> HIDE DEF T
      <4> QED BY <2>1, <3>1
    <3> QED BY <1>2, <3>1, <3>2
  <2>4. PICK j \in 1..n : s[i].key = t[j].key
    BY <1>3, <2>2
  <2>5. PICK k \in 1..m : t[i].key = s[k].key
    BY <1>3, <2>2
  <2>6. i < j
    <3>1. j # i
      BY <2>2, <2>4
    <3>2. ~(j < i)
      <4> SUFFICES ASSUME j < i PROVE FALSE
        OBVIOUS
      <4>1. j \in 1..(i - 1)
        BY <1>2, <2>2
      <4>2. j \in 1..m /\ s[j].key = s[i].key
        BY <2>3, <2>4, <4>1
      <4> QED BY <1>4, <2>2, <3>1, <4>2
    <3> QED BY <1>2, <2>2, <3>1, <3>2
  <2>7. i < k
    <3>1. k # i
      BY <2>2, <2>5
    <3>2. ~(k < i)
      <4> SUFFICES ASSUME k < i PROVE FALSE
        OBVIOUS
      <4>1. k \in 1..(i - 1)
        BY <1>2, <2>2
      <4>2. k \in 1..n /\ t[k].key = t[i].key
        BY <2>3, <2>5, <4>1
      <4> QED BY <1>4, <2>2, <3>1, <4>2
    <3> QED BY <1>2, <2>2, <3>1, <3>2
  <2>8. PICK a, b : a = s[i].key /\ b = t[i].key
    OBVIOUS
  <2>9. HashTrees!Before(b, a) /\ HashTrees!Before(a, b)
    BY <1>5, <2>2, <2>4, <2>5, <2>6, <2>7, <2>8
  <2>10. a \in Seq(Nat) /\ b \in Seq(Nat)
    BY <1>2, <2>2, <2>8
  <2> QED BY <2>9, <2>10, BeforeIsTransitive, BeforeIsStrict
<1>7. \A i \in 1..m : i <= n => s[i].key = t[i].key
  BY <1>6
<1>8. m <= n
  <2> SUFFICES ASSUME n < m PROVE FALSE
    BY <1>2
  <2>1. n + 1 \in 1..m /\ \A j \in 1..n : j \in 1..m /\ j <= n /\ j # n + 1
    BY <1>2
  <2>2. PICK j \in 1..n : s[n + 1].key = t[j].key
    BY <1>3, <2>1
  <2> QED BY <1>4, <1>7, <2>1, <2>2
<1>9. n <= m
  <2> SUFFICES ASSUME m < n PROVE FALSE
    BY <1>2
  <2>1. m + 1 \in 1..n /\ \A j \in 1..m : j \in 1..n /\ j <= n /\ j # m + 1
    BY <1>2
  <2>2. PICK j \in 1..m : t[m + 1].key = s[j].key
    BY <1>3, <2>1
  <2> QED BY <1>4, <1>7, <2>1, <2>2
<1> QED BY <1>1, <1>2, <1>7, <1>8, <1>9

\* The shape of a tree is that of the number of its leaves.
WidthOf(n) ==
  LET width[l \in 0..n] == IF l = 0 THEN n ELSE HashTrees!Half(width[l - 1]) IN width
HeightOf(n) == CHOOSE h \in 0..n : /\ WidthOf(n)[h] = 1
                                   /\ \A l \in 0..(h - 1) : WidthOf(n)[l] > 1
PositionsOf(n) == UNION {{l} \X (1..WidthOf(n)[l]) : l \in 0..HeightOf(n)}
UpOf(n, i) ==
  LET at[l \in 0..HeightOf(n)] == IF l = 0 THEN i ELSE HashTrees!Half(at[l - 1]) IN at

LEMMA ShapeIs ==
  ASSUME NEW s
  PROVE  /\ HashTrees!Height(s) = HeightOf(Len(s))
         /\ HashTrees!Positions(s) = PositionsOf(Len(s))
         /\ HashTrees!TopOf(s) = <<HeightOf(Len(s)), 1>>
         /\ \A i : Up(s, i) = UpOf(Len(s), i)
<1>1. HashTrees!Width(s) = WidthOf(Len(s))
  BY Zenon DEF HashTrees!Width, WidthOf
<1>2. HashTrees!Height(s) = HeightOf(Len(s))
  BY <1>1, Zenon DEF HashTrees!Height, HeightOf
<1>3. HashTrees!Positions(s) = PositionsOf(Len(s))
  BY <1>1, <1>2, Zenon DEF HashTrees!Positions, PositionsOf
<1>4. ASSUME NEW i PROVE Up(s, i) = UpOf(Len(s), i)
  BY <1>2, Zenon DEF Up, UpOf
<1> QED BY <1>2, <1>3, <1>4, Zenon DEF HashTrees!TopOf

\* Of two trees of one shape, the parents of nodes that differ do.
LEMMA ParentsDiffer ==
  ASSUME NEW s, NEW t, Len(s) \in Nat, Len(s) >= 1, Len(t) = Len(s),
         NEW q \in HashTrees!Positions(s), q[1] # 0,
         NEW p, \/ p = HashTrees!LeftOf(q)
                \/ p = HashTrees!RightOf(q) /\ p \in HashTrees!Positions(s),
         HashTrees!Hash(s)[p] # HashTrees!Hash(t)[p]
  PROVE  HashTrees!Hash(s)[q] # HashTrees!Hash(t)[q]
<1>1. PICK H, G, l, r, nodes : /\ H = HashTrees!Hash(s) /\ G = HashTrees!Hash(t)
                             /\ l = HashTrees!LeftOf(q) /\ r = HashTrees!RightOf(q)
                             /\ nodes = HashTrees!Positions(s)
  OBVIOUS
<1>2. HashTrees!Positions(t) = nodes
  BY <1>1, ShapeIs
<1>3. H[q] = HashTrees!hashChildren(IF r \in nodes THEN <<H[l], H[r]>> ELSE <<H[l]>>)
  BY <1>1, HashIs, Zenon DEF HashOf
<1>4. G[q] = HashTrees!hashChildren(IF r \in nodes THEN <<G[l], G[r]>> ELSE <<G[l]>>)
  <2>1. G[q] = HashOf(t, G, q)
    BY <1>1, <1>2, HashIs
  <2> QED BY <1>1, <1>2, <2>1, Zenon DEF HashOf
<1>5. (p = l \/ (p = r /\ r \in nodes)) /\ H[p] # G[p]
  <2>1. p = l \/ (p = r /\ r \in nodes)
    BY <1>1, Zenon
  <2>2. H[p] # G[p]
    BY <1>1, Zenon
  <2> QED BY <2>1, <2>2
<1>6. CASE r \in nodes
  <2>1. H[q] = HashTrees!hashChildren(<<H[l], H[r]>>) /\ G[q] = HashTrees!hashChildren(<<G[l], G[r]>>)
    BY <1>3, <1>4, <1>6
  <2>2. H[l] # G[l] \/ H[r] # G[r]
    BY <1>5
  <2>3. H[q] # G[q]
    BY <2>1, <2>2 DEF HashTrees!hashChildren
  <2> QED BY <1>1, <2>3
<1>7. CASE r \notin nodes
  <2>1. H[q] = HashTrees!hashChildren(<<H[l]>>) /\ G[q] = HashTrees!hashChildren(<<G[l]>>)
    BY <1>3, <1>4, <1>7
  <2>2. H[l] # G[l]
    BY <1>5, <1>7
  <2>3. H[q] # G[q]
    BY <2>1, <2>2 DEF HashTrees!hashChildren
  <2> QED BY <1>1, <2>3
<1> QED BY <1>6, <1>7

\* The bytes of a key and of a value tell the value, when the key is known.
LEMMA ValueHashed ==
  ASSUME NEW k \in Seq(Nat), NEW v \in Seq(Nat), NEW w \in Seq(Nat),
         HashTrees!hashKV(k, v) = HashTrees!hashKV(k, w)
  PROVE  v = w
<1>1. k \o v = k \o w
  BY DEF HashTrees!hashKV
<1>2. Len(v) = Len(w) /\ Len(v) \in Nat /\ Len(k) \in Nat
  BY <1>1
<1>3. ASSUME NEW i \in 1..Len(v) PROVE v[i] = w[i]
  <2>1. (k \o v)[Len(k) + i] = v[i] /\ (k \o w)[Len(k) + i] = w[i]
    BY <1>2
  <2> QED BY <1>1, <2>1
<1> QED BY <1>2, <1>3

\* The walk down two trees of one shape meets a leaf that they hold differently:
\* the nodes that it is below differ, level by level, and the walk goes on.
LEMMA WalkMeets ==
  ASSUME NEW left, NEW right, Len(left.rooted) \in Nat, Len(left.rooted) >= 1,
         Len(right.rooted) = Len(left.rooted), NEW i \in 1..Len(left.rooted),
         left.rooted[i].key # <<>>,
         HashTrees!hashKV(left.rooted[i].key, left.rooted[i].value)
           # HashTrees!hashKV(right.rooted[i].key, right.rooted[i].value)
  PROVE  HashTrees!LeafDiff(left.rooted[i], right) \subseteq HashTrees!diffNode(left, right)
<1>1. PICK s, t, u, h, H, G, D :
        /\ s = left.rooted /\ t = right.rooted /\ u = Up(left.rooted, i)
        /\ h = HashTrees!Height(left.rooted)
        /\ H = HashTrees!Hash(left.rooted) /\ G = HashTrees!Hash(right.rooted)
        /\ D = Diff(left, right)
  OBVIOUS
<1> DEFINE nodes == HashTrees!Positions(s)
           Met(l) == H[<<l, u[l]>>] # G[<<l, u[l]>>]
                     /\ HashTrees!LeafDiff(s[i], right) \subseteq D[<<<<l, u[l]>>, <<l, u[l]>>>>]
           T == {l \in 0..h : ~Met(l)}
<1>2. /\ HashTrees!Positions(t) = nodes /\ HashTrees!TopOf(t) = HashTrees!TopOf(s)
      /\ Up(t, i) = u /\ h \in Nat
  <2>1. Len(t) = Len(s) /\ s = left.rooted
    BY <1>1
  <2>2. /\ HashTrees!Positions(s) = PositionsOf(Len(s)) /\ HashTrees!TopOf(s) = <<HeightOf(Len(s)), 1>>
        /\ Up(s, i) = UpOf(Len(s), i)
    BY ShapeIs
  <2>3. /\ HashTrees!Positions(t) = PositionsOf(Len(t)) /\ HashTrees!TopOf(t) = <<HeightOf(Len(t)), 1>>
        /\ Up(t, i) = UpOf(Len(t), i)
    BY ShapeIs
  <2>4. h \in Nat
    BY <1>1, HeightIs
  <2> QED BY <1>1, <2>1, <2>2, <2>3, <2>4
<1>3. /\ u[0] = i /\ <<h, u[h]>> = HashTrees!TopOf(s)
      /\ \A l \in 0..h : <<l, u[l]>> \in nodes
  BY <1>1, UpIs
<1>4. /\ \A d \in nodes \X nodes : D[d] = DiffOf(left, right, D, d)
      /\ HashTrees!diffNode(left, right) = D[<<HashTrees!TopOf(s), HashTrees!TopOf(s)>>]
  <2>1. Pairs(left, right) = nodes \X nodes
    BY <1>1, <1>2, Zenon DEF Pairs
  <2>2. /\ \A d \in Pairs(left, right) : D[d] = DiffOf(left, right, D, d)
        /\ HashTrees!diffNode(left, right) = D[<<HashTrees!TopOf(s), HashTrees!TopOf(t)>>]
    BY <1>1, DiffIs
  <2> QED BY <1>2, <2>1, <2>2
<1>5. Met(0)
  <2>1. PICK p : p = <<0, u[0]>>
    OBVIOUS
  <2>2. p \in nodes /\ p[1] = 0 /\ p[2] = i
    <3>1. 0 \in 0..h
      BY <1>2
    <3> QED BY <1>3, <2>1, <3>1
  <2>3. H[p] = HashTrees!hashKV(s[i].key, s[i].value)
    BY <1>1, <2>1, LeafHash
  <2>4. G[p] = HashTrees!hashKV(t[i].key, t[i].value)
    BY <1>1, <1>2, <2>1, LeafHash
  <2>5. H[p] # G[p]
    BY <1>1, <2>3, <2>4
  <2>6. PICK d : d = <<p, p>>
    OBVIOUS
  <2>7. d \in nodes \X nodes /\ d[1] = p /\ d[2] = p
    BY <2>2, <2>6
  <2>8. D[d] = HashTrees!LeafDiff(s[i], right)
    <3>1. D[d] = DiffOf(left, right, D, d)
      BY <1>4, <2>7
    <3> QED BY <1>1, <2>2, <2>5, <2>7, <3>1, Zenon DEF DiffOf
  <2> QED BY <2>1, <2>5, <2>6, <2>8
<1>6. ASSUME NEW l \in 1..h, Met(l - 1) PROVE Met(l)
  <2>1. PICK p, q : p = <<l - 1, u[l - 1]>> /\ q = <<l, u[l]>>
    OBVIOUS
  <2>2. /\ q \in nodes /\ q[1] # 0 /\ q[1] > 0 /\ p \in nodes
        /\ p = HashTrees!LeftOf(q) \/ p = HashTrees!RightOf(q)
    <3>1. q[1] = l /\ l > 0
      BY <2>1
    <3> QED BY <1>1, <2>1, <3>1, ParentIs
  <2>3. H[p] # G[p] /\ HashTrees!LeafDiff(s[i], right) \subseteq D[<<p, p>>]
    BY <1>6, <2>1
  <2>4. H[q] # G[q]
    BY <1>1, <2>2, <2>3, ParentsDiffer
  <2>5. PICK d : d = <<q, q>>
    OBVIOUS
  <2>6. d \in nodes \X nodes /\ d[1] = q /\ d[2] = q
    BY <2>2, <2>5
  <2>7. D[d] = (IF q[1] > 0 THEN D[<<HashTrees!LeftOf(q), HashTrees!LeftOf(q)>>] ELSE {})
               \cup RightDiff(left, right, D, d)
    <3>1. D[d] = DiffOf(left, right, D, d)
      BY <1>4, <2>6
    <3> QED BY <1>1, <2>2, <2>4, <2>6, <3>1, Zenon DEF DiffOf
  <2>8. D[<<p, p>>] \subseteq D[d]
    <3>1. CASE p = HashTrees!LeftOf(q)
      BY <2>2, <2>7, <3>1
    <3>2. CASE p = HashTrees!RightOf(q)
      <4>1. RightDiff(left, right, D, d) = D[<<p, p>>]
        BY <1>1, <1>2, <2>2, <2>6, <3>2, Zenon DEF RightDiff
      <4> QED BY <2>7, <4>1
    <3> QED BY <2>2, <3>1, <3>2
  <2> QED BY <2>1, <2>3, <2>4, <2>5, <2>8
<1>7. ASSUME T # {} PROVE FALSE
  <2>1. PICK l \in T : \A e \in T : l <= e
    <3>1. T \in SUBSET Nat
      <4>1. 0..h \subseteq Nat
        BY <1>2
      <4> QED BY <4>1, Zenon
    <3> HIDE DEF T
    <3> QED BY <1>7, <3>1, Smallest
  <2>2. l \in 0..h /\ ~Met(l)
    OBVIOUS
  <2>3. l # 0
    BY <1>5, <2>2
  <2> HIDE DEF Met
  <2>4. l - 1 \in 0..h /\ l \in 1..h /\ ~(l <= l - 1)
    BY <1>2, <2>2, <2>3
  <2>5. Met(l - 1)
    <3>1. l - 1 \notin T
      <4> HIDE DEF T
      <4> QED BY <2>1, <2>4
    <3> QED BY <2>4, <3>1, Zenon
  <2> QED BY <1>6, <2>2, <2>4, <2>5
<1>8. Met(h)
  <2>1. h \in 0..h
    BY <1>2
  <2> QED BY <1>7, <2>1, Zenon
<1> QED BY <1>1, <1>3, <1>4, <1>8

\* Between fresh trees the diff has differences only, and between such trees with
\* the same keys all of them but that of an empty key.
LEMMA DiffIsExact ==
  ASSUME HashTrees!MerkleAssumption, NEW left, NEW right, Fresh(left), Fresh(right)
  PROVE  /\ HashTrees!GetDiff(left, right) \subseteq HashTrees!Differences(left, right)
         /\ HashTrees!KeysIn(left) = HashTrees!KeysIn(right) =>
              HashTrees!GetDiff(left, right)
                = {e \in HashTrees!Differences(left, right) : e.key # <<>>}
<1>1. PICK s, t : s = left.rooted /\ t = right.rooted
  OBVIOUS
<1>2. /\ s = left.leaves /\ s \in Seq(HashTrees!Leaf) /\ HashTrees!Sorted(s)
      /\ t = right.leaves /\ t \in Seq(HashTrees!Leaf) /\ HashTrees!Sorted(t)
  BY <1>1 DEF Fresh, Leaves
<1>3. /\ HashTrees!Held(s) = {s[j] : j \in 1..Len(s)}
      /\ HashTrees!Held(t) = {t[j] : j \in 1..Len(t)}
  BY <1>2, HeldIs
<1>4. HashTrees!KeysIn(left) = HashTrees!KeysIn(right) =>
        Len(s) = Len(t) /\ \A i \in 1..Len(s) : s[i].key = t[i].key
  <2>1. HashTrees!KeysIn(left) = {e.key : e \in {s[j] : j \in 1..Len(s)}}
    BY <1>2, <1>3 DEF HashTrees!KeysIn
  <2>2. HashTrees!KeysIn(right) = {e.key : e \in {t[j] : j \in 1..Len(t)}}
    BY <1>2, <1>3 DEF HashTrees!KeysIn
  <2>3. /\ {e.key : e \in {s[j] : j \in 1..Len(s)}} = {s[j].key : j \in 1..Len(s)}
        /\ {e.key : e \in {t[j] : j \in 1..Len(t)}} = {t[j].key : j \in 1..Len(t)}
    OBVIOUS
  <2> QED BY <1>2, <2>1, <2>2, <2>3, KeysAgree
<1>5. CASE s = <<>> \/ t = <<>>
  <2>1. HashTrees!GetDiff(left, right) = HashTrees!Differences(left, right)
    BY <1>1, <1>5, FullDiffIs DEF HashTrees!GetDiff, Fresh
  <2>2. ASSUME HashTrees!KeysIn(left) = HashTrees!KeysIn(right)
        PROVE  HashTrees!Differences(left, right) = {}
    <3>1. Len(s) = 0
      BY <1>2, <1>4, <1>5, <2>2
    <3> QED BY <1>2, <3>1, DifferencesAre DEF Fresh
  <2> QED BY <2>1, <2>2
<1>6. CASE s # <<>> /\ t # <<>>
  <2>1. /\ Len(s) \in Nat /\ Len(s) >= 1 /\ Len(t) \in Nat /\ Len(t) >= 1
        /\ HashTrees!GetDiff(left, right) = HashTrees!diffNode(left, right)
    BY <1>1, <1>2, <1>6 DEF HashTrees!GetDiff
  <2>2. HashTrees!diffNode(left, right)
          \subseteq {e \in HashTrees!Differences(left, right) : e.key # <<>>}
    <3>1. HashTrees!TopOf(s) \in HashTrees!Positions(s) /\ HashTrees!TopOf(t) \in HashTrees!Positions(t)
      <4>1. /\ HashTrees!Height(s) \in 0..HashTrees!Height(s) /\ 1 \in 1..HashTrees!Width(s)[HashTrees!Height(s)]
            /\ HashTrees!Height(t) \in 0..HashTrees!Height(t) /\ 1 \in 1..HashTrees!Width(t)[HashTrees!Height(t)]
        BY <2>1, HeightIs
      <4> QED BY <4>1, PositionsAre DEF HashTrees!TopOf
    <3>2. PICK d : d = <<HashTrees!TopOf(s), HashTrees!TopOf(t)>>
      OBVIOUS
    <3>3. d \in Pairs(left, right)
      BY <1>1, <3>1, <3>2 DEF Pairs
    <3>4. HashTrees!diffNode(left, right) = Diff(left, right)[d]
      BY <1>1, <2>1, <3>2, DiffIs
    <3> QED BY <1>1, <2>1, <3>3, <3>4, WalkIsSound
  <2>3. ASSUME HashTrees!KeysIn(left) = HashTrees!KeysIn(right),
               NEW e \in HashTrees!Differences(left, right), e.key # <<>>
        PROVE  e \in HashTrees!diffNode(left, right)
    <3>1. PICK i \in 1..Len(s) : /\ e \in HashTrees!LeafDiff(s[i], right) /\ e.key = s[i].key
                                 /\ s[i] \notin HashTrees!Held(t)
      BY <1>2, <2>3, DifferencesAre DEF Fresh
    <3>2. Len(t) = Len(s) /\ i \in 1..Len(t) /\ s[i].key = t[i].key
      BY <1>4, <2>3
    <3>3. s[i] # t[i] /\ s[i] \in HashTrees!Leaf /\ t[i] \in HashTrees!Leaf
      BY <1>2, <1>3, <3>1, <3>2
    <3>4. \A a, b \in HashTrees!Leaf : a.key = b.key /\ a.value = b.value => a = b
      BY DEF HashTrees!Leaf
    <3>5. s[i].value # t[i].value
      BY <3>2, <3>3, <3>4
    <3>6. s[i].key \in Seq(Nat) /\ s[i].value \in Seq(Nat) /\ t[i].value \in Seq(Nat)
      BY <3>3 DEF HashTrees!Leaf, HashTrees!MerkleAssumption
    <3>7. HashTrees!hashKV(s[i].key, s[i].value) # HashTrees!hashKV(t[i].key, t[i].value)
      BY <3>2, <3>5, <3>6, ValueHashed
    <3>8. HashTrees!LeafDiff(s[i], right) \subseteq HashTrees!diffNode(left, right)
      BY <1>1, <2>1, <2>3, <3>1, <3>2, <3>7, WalkMeets
    <3> QED BY <3>1, <3>8
  <2> QED BY <2>1, <2>2, <2>3
<1> QED BY <1>5, <1>6

\* The diff against a tree never built is the whole list.
LEMMA SyncIsWhole ==
  ASSUME HashTrees!MerkleAssumption, HashTrees!HashTreesHold
  PROVE  HashTrees!SyncDiffWhole
<1>1. PICK e : e = HashTrees!EmptySnapshot
  OBVIOUS
<1>2. e.leaves = <<>> /\ e.rooted = <<>> /\ Leaves(e)
  BY <1>1 DEF HashTrees!EmptySnapshot, Leaves, HashTrees!Sorted
<1>3. \A t \in Compared : Leaves(snapshots[t])
  BY DEF Leaves, HashTrees!HashTreesHold, HashTrees!TypeOK, HashTrees!Snapshot
<1>4. \A t \in Compared :
        HashTrees!GetDiff(snapshots[t], e) = HashTrees!Differences(snapshots[t], e)
  BY <1>2, <1>3, FullDiffIs DEF HashTrees!GetDiff
<1> QED BY <1>1, <1>4 DEF HashTrees!SyncDiffWhole

LEMMA DiffHolds ==
  ASSUME HashTrees!MerkleAssumption, HashTrees!HashTreesHold
  PROVE  HashTrees!DiffSound /\ HashTrees!DiffComplete /\ HashTrees!SyncDiffWhole
<1>1. \A t \in Compared : ~snapshots[t].modified => Fresh(snapshots[t])
  BY DEF Fresh, Leaves, HashTrees!HashTreesHold, HashTrees!TypeOK, HashTrees!Snapshot,
         HashTrees!RootIsCurrent
<1>2. HashTrees!DiffSound
  BY <1>1, DiffIsExact DEF HashTrees!DiffSound
<1>3. HashTrees!DiffComplete
  BY <1>1, DiffIsExact DEF HashTrees!DiffComplete
<1> QED BY <1>2, <1>3, SyncIsWhole

-----------------------------------------------------------------------------
(* What GetProof answers for *)

\* The leaves the root was built from that GetProof answers for are still held:
\* an Insert takes the key it writes from those, and a Rebuild has them all.
LinkedOf(s) == \A i \in 1..Len(s.rooted) :
                 s.rooted[i].key \in s.linked => s.rooted[i] \in HashTrees!Held(s.leaves)
Linked == \A t \in Compared : LinkedOf(snapshots[t])

LEMMA LinkedNext ==
  ASSUME HashTrees!MerkleAssumption, HashTrees!HashTreesHold, Linked, HashTrees!Next
  PROVE  Linked'
<1>1. PICK c \in Callers : HashTrees!Call(c) \/ HashTrees!GoOn(c)
  BY DEF HashTrees!Next
<1>2. /\ snapshots \in [Compared -> HashTrees!Snapshot]
      /\ \A t \in Compared : HashTrees!Sorted(snapshots[t].leaves)
      /\ hashing[c] \in {HashTrees!Idle} \cup HashTrees!Inserts \cup HashTrees!Rebuilds
  BY DEF HashTrees!HashTreesHold, HashTrees!TypeOK
<1>3. CASE snapshots' = snapshots
  BY <1>3 DEF Linked, LinkedOf
<1>4. CASE HashTrees!InsertSwap(c)
  <2>1. PICK t, leaf, s, u, new : /\ t = hashing[c].tree /\ leaf = hashing[c].leaf
                                  /\ s = snapshots[t]
                                  /\ u = HashTrees!Stored(snapshots[t].leaves, leaf)
                                  /\ new = HashTrees!WithLeaf(snapshots[t], leaf)
    OBVIOUS
  <2>2. t \in Compared /\ leaf \in HashTrees!Leaf
    <3>1. hashing[c] \in HashTrees!Inserts
      BY <1>2, <1>4 DEF HashTrees!InsertSwap, HashTrees!Idle, HashTrees!Rebuilds
    <3> QED BY <2>1, <3>1 DEF HashTrees!Inserts
  <2>3. s \in HashTrees!Snapshot /\ s.leaves \in Seq(HashTrees!Leaf) /\ HashTrees!Sorted(s.leaves)
    BY <1>2, <2>1, <2>2 DEF HashTrees!Snapshot
  <2>4. HashTrees!Held(u) = {e \in HashTrees!Held(s.leaves) : e.key # leaf.key} \cup {leaf}
    BY <2>1, <2>2, <2>3, StoredDoes
  <2>5. new.leaves = u /\ new.rooted = s.rooted /\ new.linked = s.linked \ {leaf.key}
    BY <2>1, <2>3 DEF HashTrees!WithLeaf, HashTrees!Snapshot
  <2>6. snapshots' = [snapshots EXCEPT ![t] = new]
    BY <1>4, <2>1 DEF HashTrees!InsertSwap
  <2>7. LinkedOf(s)
    BY <2>1, <2>2 DEF Linked
  <2>8. LinkedOf(new)
    BY <2>4, <2>5, <2>7 DEF LinkedOf
  <2>9. \A r \in Compared : snapshots'[r] = snapshots[r] \/ snapshots'[r] = new
    BY <1>2, <2>2, <2>6
  <2>10. \A r \in Compared : LinkedOf(snapshots[r])
    BY DEF Linked
  <2>11. \A r \in Compared : LinkedOf(snapshots'[r])
    BY <2>8, <2>9, <2>10
  <2> QED BY <2>11 DEF Linked, LinkedOf
<1>5. CASE HashTrees!RebuildSwap(c)
  <2>1. PICK t, s, new : /\ t = hashing[c].tree /\ s = snapshots[t]
                         /\ new = HashTrees!Built(snapshots[t])
    OBVIOUS
  <2>2. t \in Compared
    <3>1. hashing[c] \in HashTrees!Rebuilds
      BY <1>2, <1>5 DEF HashTrees!RebuildSwap, HashTrees!Idle, HashTrees!Inserts
    <3> QED BY <2>1, <3>1 DEF HashTrees!Rebuilds
  <2>3. s.leaves \in Seq(HashTrees!Leaf)
    BY <1>2, <2>1, <2>2 DEF HashTrees!Snapshot
  <2>4. HashTrees!Held(s.leaves) = {s.leaves[j] : j \in 1..Len(s.leaves)}
    BY <2>3, HeldIs
  <2>5. new.leaves = s.leaves /\ new.rooted = s.leaves
    BY <2>1 DEF HashTrees!Built
  <2>6. snapshots' = [snapshots EXCEPT ![t] = new]
    BY <1>5, <2>1 DEF HashTrees!RebuildSwap
  <2>7. LinkedOf(new)
    BY <2>4, <2>5 DEF LinkedOf
  <2>8. \A r \in Compared : snapshots'[r] = snapshots[r] \/ snapshots'[r] = new
    BY <1>2, <2>2, <2>6
  <2>9. \A r \in Compared : LinkedOf(snapshots[r])
    BY DEF Linked
  <2>10. \A r \in Compared : LinkedOf(snapshots'[r])
    BY <2>7, <2>8, <2>9
  <2> QED BY <2>10 DEF Linked, LinkedOf
<1> QED BY <1>1, <1>3, <1>4, <1>5 DEF HashTrees!Call, HashTrees!GoOn, HashTrees!InsertCall,
           HashTrees!RebuildCall, HashTrees!Retry

LEMMA LinkedKeeps ==
  ASSUME HashTrees!MerkleAssumption
  PROVE  HashTrees!Spec => []Linked
<1>1. HashTrees!Init => Linked
  BY DEF HashTrees!Init, HashTrees!EmptySnapshot, Linked, LinkedOf
<1>2. HashTrees!HashTreesHold /\ Linked /\ [HashTrees!Next]_(HashTrees!vars) => Linked'
  BY LinkedNext DEF HashTrees!vars, Linked, LinkedOf
<1> QED BY <1>1, <1>2, HashTreesKeep, PTL DEF HashTrees!Spec

\* A proof verified for a value is that of a leaf with this value, and a whole one
\* is verified.
LEMMA ProofHolds ==
  ASSUME HashTrees!MerkleAssumption, HashTrees!HashTreesHold, Linked
  PROVE  HashTrees!ProofBinds /\ HashTrees!WholeProofVerified
<1>1. ASSUME NEW t \in Compared, NEW s, s = snapshots[t], NEW i \in HashTrees!Provable(s)
      PROVE  /\ s.rooted \in Seq(HashTrees!Leaf) /\ i \in 1..Len(s.rooted)
             /\ Len(s.rooted) \in Nat /\ Len(s.rooted) >= 1 /\ s.rooted # <<>>
             /\ s.rooted[i] \in HashTrees!Leaf /\ s.rooted[i] \in HashTrees!Held(s.leaves)
  <2>1. s.rooted \in Seq(HashTrees!Leaf)
    BY <1>1 DEF HashTrees!HashTreesHold, HashTrees!TypeOK, HashTrees!Snapshot
  <2>2. i \in 1..Len(s.rooted) /\ s.rooted[i].key \in s.linked
    BY <1>1 DEF HashTrees!Provable
  <2>3. LinkedOf(s)
    BY <1>1 DEF Linked
  <2>4. s.rooted[i] \in HashTrees!Held(s.leaves)
    BY <2>2, <2>3 DEF LinkedOf
  <2> QED BY <2>1, <2>2, <2>4
<1>2. ASSUME NEW t \in Compared, NEW s, s = snapshots[t], NEW i \in HashTrees!Provable(s),
             NEW k \in ByteKeys, NEW v \in ByteValues, HashTrees!Accepts(s, i, k, v)
      PROVE  /\ k \o v = s.rooted[i].key \o s.rooted[i].value
             /\ s.rooted[i] \in HashTrees!Held(s.leaves)
             /\ k = s.rooted[i].key => v = s.rooted[i].value
  <2>1. PICK r : r = s.rooted
    OBVIOUS
  <2>2. /\ i \in 1..Len(r) /\ Len(r) \in Nat /\ Len(r) >= 1
        /\ r[i] \in HashTrees!Leaf /\ r[i] \in HashTrees!Held(s.leaves)
    BY <1>1, <1>2, <2>1
  <2>3. HashTrees!hashKV(k, v) = HashTrees!hashKV(r[i].key, r[i].value)
    <3>1. HashTrees!VerifyProof(r, k, v, HashTrees!GetProof(r, i))
      BY <1>2, <2>1 DEF HashTrees!Accepts
    <3> QED BY <2>2, <3>1, VerifiedIsHeld
  <2>4. k \o v = r[i].key \o r[i].value
    BY <2>3 DEF HashTrees!hashKV
  <2>5. k = r[i].key => v = r[i].value
    <3>1. k \in Seq(Nat) /\ r[i].value \in Seq(Nat) /\ v \in Seq(Nat)
      BY <1>2, <2>2 DEF HashTrees!Leaf, HashTrees!MerkleAssumption
    <3> QED BY <2>3, <3>1, ValueHashed
  <2> QED BY <2>1, <2>2, <2>4, <2>5
<1>3. ASSUME NEW t \in Compared, NEW s, s = snapshots[t], NEW i \in HashTrees!Provable(s),
             Len(HashTrees!GetProof(s.rooted, i)) = HashTrees!Height(s.rooted)
      PROVE  HashTrees!Accepts(s, i, s.rooted[i].key, s.rooted[i].value)
  <2>1. PICK r : r = s.rooted
    OBVIOUS
  <2>2. i \in 1..Len(r) /\ Len(r) \in Nat /\ Len(r) >= 1 /\ r # <<>>
    BY <1>1, <1>3, <2>1
  <2>3. HashTrees!VerifyProof(r, r[i].key, r[i].value, HashTrees!GetProof(r, i))
    BY <1>3, <2>1, <2>2, WholeIsVerified
  <2> QED BY <2>1, <2>3 DEF HashTrees!Accepts
<1>4. HashTrees!ProofBinds
  BY <1>2 DEF HashTrees!ProofBinds
<1>5. HashTrees!WholeProofVerified
  BY <1>3 DEF HashTrees!WholeProofVerified
<1> QED BY <1>4, <1>5

\* Whatever a hash tree has been through, its diff against a tree never built,
\* which is what Sync sends a peer, is all of its leaves (GetDiff, Sync).
THEOREM DiffSendsAll ==
  ASSUME HashTrees!MerkleAssumption
  PROVE  HashTrees!Spec => []HashTrees!SyncDiffWhole
<1>1. HashTrees!HashTreesHold => HashTrees!SyncDiffWhole
  BY SyncIsWhole
<1> QED BY <1>1, HashTreesKeep, PTL

\* What GetDiff can be trusted with, for any two trees: between built trees it
\* names no pair that both hold, flags as modified what both hold differently, and
\* misses nothing when the trees have the same keys, but the value of an empty key;
\* against a tree never built it names all (merkle.go, GetDiff and diffNode).
THEOREM DiffsAnswer == NodeSpec => []DiffAnswers
<1>1. HashTrees!MerkleAssumption
  BY NodeAssumption
<1>2. HashTrees!HashTreesHold => DiffAnswers
  BY <1>1, DiffHolds DEF DiffAnswers
<1> QED BY <1>1, <1>2, HashTreesKeep, HashTreesRun, PTL

\* What VerifyProof can be trusted with, for any tree: whatever was inserted since,
\* it takes a key's proof for no bytes but those of the pair that the tree holds,
\* and takes it for them if the way up has a sibling on each level; without one it
\* may refuse them (merkle.go, GetProof and VerifyProof).
THEOREM ProofsAnswer == NodeSpec => []ProofAnswers
<1>1. HashTrees!MerkleAssumption
  BY NodeAssumption
<1>2. HashTrees!HashTreesHold /\ Linked => ProofAnswers
  BY <1>1, ProofHolds DEF ProofAnswers
<1> QED BY <1>1, <1>2, HashTreesKeep, LinkedKeeps, HashTreesRun, PTL

-----------------------------------------------------------------------------
(* The forest, which ForestProofs is about *)

ForestsKeep == INSTANCE ForestProofs WITH
  MaxInserts <- MaxForested, root <- forest, logIndex <- indexes, inserts <- forested

\* The forest of a node is a forest of ForestProofs.
LEMMA ForestIs ==
   /\ ForestsKeep!Assumed /\ ForestsKeep!OnlyFirstPersistent
   /\ Forests!Spec => ForestsKeep!Spec
   /\ ForestsKeep!ForestHolds => Forests!ForestHolds
   /\ ForestsKeep!InsertsKept => Forests!InsertsKept
<1>1. ForestsKeep!Assumed /\ ForestsKeep!OnlyFirstPersistent
  BY NodeAssumption DEF ForestsKeep!Assumed, ForestsKeep!OnlyFirstPersistent,
     ForestsKeep!ForestAssumption, ForestsKeep!UsedInOrder,
            Forests!OnlyFirstPersistent,
     Forests!ForestAssumption, Forests!UsedInOrder
<1>2. Forests!Init => ForestsKeep!Init
  BY DEF Forests!Init, ForestsKeep!Init, Forests!Idle, ForestsKeep!Idle
<1>3. [Forests!Next]_(Forests!vars) => [ForestsKeep!Next]_(ForestsKeep!vars)
  BY DEF Forests!Next, ForestsKeep!Next, Forests!Insert, ForestsKeep!Insert,
         Forests!AddTree, ForestsKeep!AddTree, Forests!InsertCall,
         ForestsKeep!InsertCall, Forests!InsertRoot, ForestsKeep!InsertRoot,
         Forests!InsertLog, ForestsKeep!InsertLog, Forests!Relogged,
         ForestsKeep!Relogged, Forests!InsertReturn,
         ForestsKeep!InsertReturn, Forests!AddAppend, ForestsKeep!AddAppend,
         Forests!synchronizeTrees, ForestsKeep!synchronizeTrees,
         Forests!ChooseReference, ForestsKeep!ChooseReference,
         Forests!LoadReference, ForestsKeep!LoadReference, Forests!LoadLogState,
         ForestsKeep!LoadLogState, Forests!Skip, ForestsKeep!Skip, Forests!CopyRoot,
         ForestsKeep!CopyRoot, Forests!CopyIndex, ForestsKeep!CopyIndex,
         Forests!AddReturn, ForestsKeep!AddReturn, Forests!MayStart,
         ForestsKeep!MayStart, Forests!Now, ForestsKeep!Now, Forests!Serial,
         ForestsKeep!Serial, Forests!Idle, ForestsKeep!Idle, Forests!Members,
         ForestsKeep!Members, Forests!Holds, ForestsKeep!Holds, Forests!Empty,
         ForestsKeep!Empty, Forests!vars, ForestsKeep!vars
<1>4. ForestsKeep!ForestHolds => Forests!ForestHolds
  BY DEF Forests!ForestHolds, ForestsKeep!ForestHolds, Forests!InsertsKept,
         ForestsKeep!InsertsKept, Forests!Inv, ForestsKeep!Inv, Forests!TypeOK,
         ForestsKeep!TypeOK, Forests!Agreement, ForestsKeep!Agreement,
         Forests!IndexAgreement, ForestsKeep!IndexAgreement, Forests!Retained,
         ForestsKeep!Retained, Forests!LogHoldsTree, ForestsKeep!LogHoldsTree,
         Forests!Quiet, ForestsKeep!Quiet, Forests!Serial, ForestsKeep!Serial,
         Forests!Idle, ForestsKeep!Idle, Forests!Members, ForestsKeep!Members,
         Forests!Root, ForestsKeep!Root, Forests!Map, ForestsKeep!Map,
         Forests!Pointer, ForestsKeep!Pointer, Forests!Inserts, ForestsKeep!Inserts,
         Forests!Adds, ForestsKeep!Adds
<1>5. ForestsKeep!InsertsKept => Forests!InsertsKept
  BY DEF Forests!ForestHolds, ForestsKeep!ForestHolds, Forests!InsertsKept,
         ForestsKeep!InsertsKept, Forests!Inv, ForestsKeep!Inv, Forests!TypeOK,
         ForestsKeep!TypeOK, Forests!Agreement, ForestsKeep!Agreement,
         Forests!IndexAgreement, ForestsKeep!IndexAgreement, Forests!Retained,
         ForestsKeep!Retained, Forests!LogHoldsTree, ForestsKeep!LogHoldsTree,
         Forests!Quiet, ForestsKeep!Quiet, Forests!Serial, ForestsKeep!Serial,
         Forests!Idle, ForestsKeep!Idle, Forests!Members, ForestsKeep!Members,
         Forests!Root, ForestsKeep!Root, Forests!Map, ForestsKeep!Map,
         Forests!Pointer, ForestsKeep!Pointer, Forests!Inserts, ForestsKeep!Inserts,
         Forests!Adds, ForestsKeep!Adds
<1>6.  Forests!Spec => ForestsKeep!Spec
  BY <1>2, <1>3, PTL DEF Forests!Spec, ForestsKeep!Spec
<1> QED BY <1>1, <1>4, <1>5, <1>6

LEMMA ForestRuns == NodeSpec => Forests!Spec
<1>1. NodeInit => Forests!Init
  BY DEF NodeInit
<1>2. [NodeNext]_all => [Forests!Next]_(Forests!vars)
  BY DEF NodeNext, all, forestVars, Forests!vars
<1> QED BY <1>1, <1>2, PTL DEF NodeSpec, Forests!Spec

\* Between calls all trees of a forest hold the same data, and when calls do not
\* overlap the same log index, and no counter passes the number of Inserts
\* (tree.Insert, AddTree, synchronizeTrees).
THEOREM ForestAgrees == NodeSpec => []ForestHolds
<1>1. Forests!ForestHolds => ForestHolds
  BY DEF ForestHolds
<1> QED BY <1>1, ForestIs, ForestRuns, ForestsKeep!TreesAndIndexesAgree, PTL

\* Nothing that a returned Insert wrote is taken back, and between calls the log
\* of the tree that has one replays to that tree (tree.Insert, synchronizeTrees,
\* NewForest).
THEOREM InsertsStay == NodeSpec => []InsertsKept
<1>1. Forests!InsertsKept => InsertsKept
  BY DEF InsertsKept
<1> QED BY <1>1, ForestIs, ForestRuns, ForestsKeep!InsertsSurvive, PTL
=============================================================================
