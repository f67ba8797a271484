---------------------------- MODULE DurableTree ----------------------------
(***************************************************************************)
(* dmt/tree.go and dmt/persist.go: a radix tree whose inserts are logged   *)
(* to a write-ahead log, and what a restart makes of that log.             *)
(*                                                                         *)
(* Insert publishes a new root with a compare-and-swap, takes an index,    *)
(* and only then writes three pieces (frame, key, value) to a bufio.Writer *)
(* that all goroutines share, flushes it and syncs the file.  Each of      *)
(* these is an action.  The log is a sequence of such pieces; a crash      *)
(* loses the buffer and any part of the file that was not synced.          *)
(*                                                                         *)
(* A snapshot runs in a goroutine of its own, which waits for no call: it  *)
(* renames a new file over the log, closes the old one and opens the new   *)
(* one, and a record may be on its way to the old file meanwhile.          *)
(***************************************************************************)
EXTENDS Integers, Sequences

CONSTANTS Keys,
          Writers,      \* goroutines that call Insert or UpdateTerm
          SnapCount,    \* ps.snapCount
          MaxInserts, MaxTerm, MaxCrashes, MaxFailures,   \* bounds
          MaxTogether   \* bound: inserts, if calls overlap

ASSUME TreeAssumption ==
  /\ SnapCount \in Nat \ {0}
  /\ MaxInserts \in Nat /\ MaxTogether \in 0..MaxInserts /\ MaxTerm \in Nat
  /\ MaxCrashes \in Nat /\ MaxFailures \in Nat

VARIABLES overlap,             \* may two calls run at a time?
          raced,               \* history: has a snapshot run beside a call?
          root,                \* the published tree
          version,             \* which root pointer that is
          term, logIndex,
          treeError,           \* tree.state.err, which nothing resets
          lastTerm, lastIndex, \* of the PersistentStore
          buffer, file,        \* what walWriter holds, what wal.log holds
          synced,              \* how much of the file a crash cannot take
          snapDue,             \* snapshot goroutines started
          snap,                \* the next step of the one that works
          walFile,             \* the file walFile and walWriter are open on
          status,              \* "open", "down", or NewTree's error
          pc, entry, seen,     \* of each writer: next step, record, root read
          inserts, crashes, failures,
          ackedRoot            \* history: the tree of the completed calls

tree   == <<root, version, term, logIndex, treeError>>
handle == <<snap, walFile>>
store  == <<lastTerm, lastIndex, buffer, file, synced, snapDue, handle>>
writer == <<pc, entry, seen>>
limits == <<inserts, crashes, failures>>
vars   == <<overlap, raced, tree, store, status, writer, limits, ackedRoot>>

Absent   == 0
Inserted == 1..MaxInserts          \* each insert has a value of its own
Map      == [Keys -> Inserted \cup {Absent}]
Empty    == [k \in Keys |-> Absent]

Record == [op : {"insert"}, key : Keys, value : Inserted, term : Nat,
           index : Nat]
          \cup [op : {"term"}, term : Nat]
          \cup [op : {"snapshot"}, term : Nat, index : Nat]
Piece  == [part : {"frame", "key", "value", "whole"}, of : Record]
NoRecord == [op |-> "none"]
NotSeen  == [version |-> 0, root |-> Empty]
Labels == {"idle", "swap", "index", "frame", "key", "value", "term", "flush",
           "sync", "store"}

\* "replace": the new file is made and renamed over wal.log; "close" the old
\* one; "open" the new one.
Snapping == {"none", "replace", "close", "open"}

\* wal.log; the file it was before a snapshot replaced it; a closed one; or
\* nil, while walWriter still writes to wal.log.
Handles == {"log", "old", "closed", "nil"}

TypeOK ==
  /\ overlap \in BOOLEAN /\ raced \in BOOLEAN
  /\ root \in Map /\ version \in Nat /\ term \in Nat /\ logIndex \in Nat
  /\ treeError \in BOOLEAN
  /\ lastTerm \in Nat /\ lastIndex \in Nat
  /\ buffer \in Seq(Piece) /\ file \in Seq(Piece) /\ synced \in 0..Len(file)
  /\ \A i \in 1..Len(file) : file[i].of.op = "insert" => file[i].of.index > 0
  /\ snapDue \in Nat /\ snap \in Snapping /\ walFile \in Handles
  /\ status \in {"open", "down", "failed"}
  /\ pc \in [Writers -> Labels]
  /\ entry \in [Writers -> Record \cup {NoRecord}]
  /\ seen \in [Writers -> [version : Nat, root : Map]]
  /\ inserts \in Nat /\ crashes \in Nat /\ failures \in Nat
  /\ ackedRoot \in Map

Init ==
  /\ overlap \in BOOLEAN /\ raced = FALSE
  /\ root = Empty /\ version = 0 /\ term = 0 /\ logIndex = 0
  /\ treeError = FALSE
  /\ lastTerm = 0 /\ lastIndex = 0
  /\ buffer = <<>> /\ file = <<>> /\ synced = 0
  /\ snapDue = 0 /\ snap = "none" /\ walFile = "log"
  /\ status = "open"
  /\ pc = [w \in Writers |-> "idle"]
  /\ entry = [w \in Writers |-> NoRecord]
  /\ seen = [w \in Writers |-> NotSeen]
  /\ inserts = 0 /\ crashes = 0 /\ failures = 0
  /\ ackedRoot = Empty

-----------------------------------------------------------------------------
(* Replay *)

\* The positions whose value piece completes an insert of k.
WrittenTo(log, k) ==
  {i \in 1..Len(log) : log[i].part = "value" /\ log[i].of.key = k}

\* Mutant: the first insert of a key wins.
ReplayFirst(log) ==
  [k \in Keys |->
     IF WrittenTo(log, k) = {} THEN Absent
     ELSE log[CHOOSE i \in WrittenTo(log, k) :
                \A j \in WrittenTo(log, k) : i <= j].of.value]

\* The tree NewTree builds from the entries: for each key its last insert.
Replay(log) ==
  [k \in Keys |->
     IF WrittenTo(log, k) = {} THEN Absent
     ELSE log[CHOOSE i \in WrittenTo(log, k) :
                \A j \in WrittenTo(log, k) : j <= i].of.value]

\* A record that reached the file in part: its frame announces a key and a
\* value that are not there.
Torn(log) == Len(log) > 0 /\ log[Len(log)].part \in {"frame", "key"}

\* Every frame is followed by its own key and value, as Replay reads them.
WellFormed(log) ==
  \A i \in 1..Len(log) :
    /\ log[i].part = "frame" =>
         \A j \in (i + 1)..(i + 2) : j <= Len(log) =>
           log[j] = [part |-> IF j = i + 1 THEN "key" ELSE "value",
                     of |-> log[i].of]
    /\ log[i].part = "key" => i > 1 /\ log[i - 1].part = "frame"
    /\ log[i].part = "value" => i > 1 /\ log[i - 1].part = "key"

\* lastTerm and lastIndex after Replay: those of the last record that has one.
ReplayTerm(log) == IF log = <<>> THEN 0 ELSE log[Len(log)].of.term

Indexed(log) == {i \in 1..Len(log) : log[i].of.op # "term"}
ReplayIndex(log) ==
  IF Indexed(log) = {} THEN 0
  ELSE log[CHOOSE i \in Indexed(log) :
             \A j \in Indexed(log) : j <= i].of.index

-----------------------------------------------------------------------------
(* Tree.Insert *)

Idle == \A w \in Writers : pc[w] = "idle"

GoTo(w, label) == pc' = [pc EXCEPT ![w] = label]

\* Insert loads the root.
InsertCall(w, k) ==
  /\ status = "open" /\ pc[w] = "idle" /\ (overlap \/ Idle)
  /\ inserts < (IF overlap THEN MaxTogether ELSE MaxInserts)
  /\ inserts' = inserts + 1
  /\ entry' = [entry EXCEPT ![w] =
       [op |-> "insert", key |-> k, value |-> inserts + 1, term |-> 0,
        index |-> 0]]
  /\ seen' = [seen EXCEPT ![w] = [version |-> version, root |-> root]]
  /\ GoTo(w, "swap")
  /\ UNCHANGED <<tree, store, status, crashes, failures, ackedRoot>>

\* Mutant: the new root is stored without a compare-and-swap.
SwapByStore(w) ==
  /\ pc[w] = "swap"
  /\ root' = [seen[w].root EXCEPT ![entry[w].key] = entry[w].value]
  /\ version' = version + 1
  /\ GoTo(w, "index")
  /\ UNCHANGED <<term, logIndex, treeError, store, status, entry, seen, limits,
                 ackedRoot>>

\* The compare-and-swap publishes the new root, made from the one that was
\* loaded, or the loop starts over.
Swap(w) ==
  /\ pc[w] = "swap"
  /\ \/ /\ seen[w].version = version
        /\ root' = [seen[w].root EXCEPT ![entry[w].key] = entry[w].value]
        /\ version' = version + 1
        /\ GoTo(w, "index")
        /\ UNCHANGED seen
     \/ /\ seen[w].version # version
        /\ seen' = [seen EXCEPT ![w] = [version |-> version, root |-> root]]
        /\ UNCHANGED <<root, version, pc>>
  /\ UNCHANGED <<term, logIndex, treeError, store, status, entry, limits,
                 ackedRoot>>

Acked(w) ==
  IF entry[w].op = "insert"
  THEN [ackedRoot EXCEPT ![entry[w].key] = entry[w].value] ELSE ackedRoot

Return(w) == /\ GoTo(w, "idle")
             /\ entry' = [entry EXCEPT ![w] = NoRecord]
             /\ seen' = [seen EXCEPT ![w] = NotSeen]
             /\ ackedRoot' = Acked(w)

\* logIndex.Add(1).  A tree that has met an error before skips the log and
\* returns.
TakeIndex(w) ==
  /\ pc[w] = "index"
  /\ logIndex' = logIndex + 1
  /\ \/ treeError /\ Return(w)
     \/ /\ ~treeError
        /\ entry' = [entry EXCEPT ![w].term = term,
                                  ![w].index = logIndex + 1]
        /\ GoTo(w, "frame")
        /\ UNCHANGED <<seen, ackedRoot>>
  /\ UNCHANGED <<root, version, term, treeError, store, status, limits>>

\* Tree.UpdateTerm, which a higher term calls for.
UpdateTerm(w) ==
  /\ status = "open" /\ pc[w] = "idle" /\ (overlap \/ Idle)
  /\ term < MaxTerm
  /\ term' = term + 1
  /\ \/ treeError /\ UNCHANGED <<pc, entry>>
     \/ /\ ~treeError
        /\ entry' = [entry EXCEPT ![w] = [op |-> "term", term |-> term + 1]]
        /\ GoTo(w, "term")
  /\ UNCHANGED <<root, version, logIndex, treeError, store, status, seen,
                 limits, ackedRoot>>

-----------------------------------------------------------------------------
(* PersistentStore *)

After(label) == CASE label = "frame" -> "key" [] label = "key" -> "value"
                  [] OTHER -> "flush"

\* One Write to the shared bufio.Writer.
Write(w) ==
  /\ pc[w] \in {"frame", "key", "value", "term"}
  /\ buffer' = Append(buffer,
       [part |-> IF pc[w] = "term" THEN "whole" ELSE pc[w], of |-> entry[w]])
  /\ GoTo(w, After(pc[w]))
  /\ UNCHANGED <<tree, lastTerm, lastIndex, file, synced, snapDue, handle,
                 status, entry, seen, limits, ackedRoot>>

\* Mutant: the buffer is left for a later flush.
FlushLater(w) ==
  /\ pc[w] = "flush"
  /\ GoTo(w, "sync")
  /\ UNCHANGED <<tree, store, status, entry, seen, limits, ackedRoot>>

\* What goes to the old file is lost.
Flush(w) ==
  /\ pc[w] = "flush" /\ (walFile = "closed" => buffer = <<>>)
  /\ file' = IF walFile \in {"log", "nil"} THEN file \o buffer ELSE file
  /\ buffer' = <<>>
  /\ GoTo(w, "sync")
  /\ UNCHANGED <<tree, lastTerm, lastIndex, synced, snapDue, handle, status,
                 entry, seen, limits, ackedRoot>>

Sync(w) ==
  /\ pc[w] = "sync" /\ walFile \in {"log", "old"}
  /\ synced' = IF walFile = "log" THEN Len(file) ELSE synced
  /\ GoTo(w, "store")
  /\ UNCHANGED <<tree, lastTerm, lastIndex, buffer, file, snapDue, handle,
                 status, entry, seen, limits, ackedRoot>>

\* The record is logged: lastTerm and lastIndex are stored, every SnapCount-th
\* insert starts a snapshot, and the call returns.
Logged(w) ==
  /\ pc[w] = "store"
  /\ lastTerm' = entry[w].term
  /\ \/ /\ entry[w].op = "insert"
        /\ lastIndex' = entry[w].index
        /\ snapDue' = IF entry[w].index % SnapCount = 0
                      THEN snapDue + 1 ELSE snapDue
     \/ /\ entry[w].op = "term"
        /\ UNCHANGED <<lastIndex, snapDue>>
  /\ Return(w)
  /\ UNCHANGED <<tree, buffer, file, synced, handle, status, limits>>

\* A snapshot that meets an error takes no further step: truncateWAL leaves
\* walFile nil, unless it had not come so far.
GiveUp ==
  /\ snap # "none" /\ snap' = "none"
  /\ \/ snap = "replace" /\ UNCHANGED walFile
     \/ walFile' = IF snap = "replace" /\ walFile # "closed" THEN "nil"
                   ELSE "closed"

\* A write, flush or sync fails, by itself or because a snapshot has closed
\* the file: tree.state keeps the error, and Insert still returns true.  (The
\* tree logs nothing after that, so what a failed write left in the buffer
\* does not matter.)  A running snapshot has the same batch and gives up, unless
\* it has looked at it before.
LogFails(w) ==
  /\ pc[w] \in {"frame", "key", "value", "term", "flush", "sync"}
  /\ failures' = IF walFile \in {"closed", "nil"} THEN failures
                 ELSE failures + 1
  /\ failures' <= MaxFailures
  /\ treeError' = TRUE
  /\ Return(w)
  /\ GiveUp \/ UNCHANGED handle
  /\ UNCHANGED <<root, version, term, logIndex, lastTerm, lastIndex, buffer,
                 file, synced, snapDue, status, inserts, crashes>>

-----------------------------------------------------------------------------
(* createSnapshot: a snapshot file of term and index only, and the log       *)
(* replaced by one record of them                                            *)

SnapshotPiece == [part |-> "whole",
                  of |-> [op |-> "snapshot", term |-> lastTerm,
                          index |-> lastIndex]]

\* The goroutine starts, whatever else runs.  Within a minute of the last
\* snapshot it does nothing.
SnapshotBegin ==
  /\ status = "open" /\ snapDue > 0
  /\ snapDue' = snapDue - 1
  /\ \/ UNCHANGED <<buffer, snap>>
     \/ /\ snap = "none" /\ snap' = "replace"
        /\ buffer' = Append(buffer, SnapshotPiece)
  /\ UNCHANGED <<tree, lastTerm, lastIndex, file, synced, walFile, status,
                 writer, limits, ackedRoot>>

SnapshotReplace ==
  /\ snap = "replace" /\ snap' = "close"
  /\ file' = <<SnapshotPiece>> /\ synced' = 1
  /\ walFile' = IF walFile = "log" THEN "old" ELSE "closed"
  /\ UNCHANGED <<tree, lastTerm, lastIndex, buffer, snapDue, status, writer,
                 limits, ackedRoot>>

SnapshotClose ==
  /\ snap = "close" /\ walFile = "old"
  /\ snap' = "open" /\ walFile' = "closed"
  /\ UNCHANGED <<tree, lastTerm, lastIndex, buffer, file, synced, snapDue,
                 status, writer, limits, ackedRoot>>

\* The new writer has a new buffer.
SnapshotOpen ==
  /\ snap = "open" /\ snap' = "none"
  /\ walFile' = "log" /\ buffer' = <<>>
  /\ UNCHANGED <<tree, lastTerm, lastIndex, file, synced, snapDue, status,
                 writer, limits, ackedRoot>>

\* A step of it fails; to close a file twice does.
SnapshotFails ==
  /\ GiveUp
  /\ failures' = IF snap = "close" /\ walFile = "closed" THEN failures
                 ELSE failures + 1
  /\ failures' <= MaxFailures
  /\ UNCHANGED <<tree, lastTerm, lastIndex, buffer, file, synced, snapDue,
                 status, writer, inserts, crashes, ackedRoot>>

-----------------------------------------------------------------------------
(* Crash and restart; a rename is taken to last *)

Crash ==
  /\ status = "open" /\ crashes < MaxCrashes
  /\ crashes' = crashes + 1
  /\ status' = "down"
  /\ \E kept \in synced..Len(file) : /\ file' = SubSeq(file, 1, kept)
                                     /\ synced' = kept
  /\ buffer' = <<>> /\ snapDue' = 0 /\ snap' = "none" /\ walFile' = "log"
  /\ pc' = [w \in Writers |-> "idle"]
  /\ entry' = [w \in Writers |-> NoRecord]
  /\ seen' = [w \in Writers |-> NotSeen]
  /\ UNCHANGED <<tree, lastTerm, lastIndex, inserts, failures, ackedRoot>>

\* NewTree and NewPersistentStore on a log that ends with a whole record.
Restart ==
  /\ status = "down" /\ WellFormed(file) /\ ~Torn(file)
  /\ status' = "open"
  /\ root' = Replay(file) /\ ackedRoot' = Replay(file)
  /\ term' = ReplayTerm(file) /\ lastTerm' = ReplayTerm(file)
  /\ logIndex' = ReplayIndex(file) /\ lastIndex' = ReplayIndex(file)
  /\ treeError' = FALSE
  /\ UNCHANGED <<version, buffer, file, synced, snapDue, handle, writer,
                 limits>>

\* On any other log Replay's batch keeps an error: NewPersistentStore fails,
\* NewTree skips the replay and returns an empty tree with that error.
RestartFails ==
  /\ status = "down" /\ (Torn(file) \/ ~WellFormed(file))
  /\ status' = "failed"
  /\ root' = Empty /\ ackedRoot' = Empty
  /\ treeError' = TRUE
  /\ UNCHANGED <<version, term, logIndex, store, writer, limits>>

-----------------------------------------------------------------------------
Insert(w) == (\E k \in Keys : InsertCall(w, k)) \/ Swap(w) \/ TakeIndex(w)

LogRecord(w) == Write(w) \/ Flush(w) \/ Sync(w) \/ Logged(w) \/ LogFails(w)

createSnapshot == \/ SnapshotBegin \/ SnapshotReplace \/ SnapshotClose
                  \/ SnapshotOpen \/ SnapshotFails

Step == \/ \E w \in Writers : Insert(w) \/ UpdateTerm(w) \/ LogRecord(w)
        \/ createSnapshot \/ Crash \/ Restart \/ RestartFails

Next == /\ Step
        /\ raced' = (raced \/ (snap' # "none" /\ ~Idle'))
        /\ UNCHANGED overlap

Spec == Init /\ [][Next]_vars

-----------------------------------------------------------------------------
(* Properties *)

Kept == SubSeq(file, 1, synced)   \* what no crash can take

\* Calls came one after the other, no snapshot ran beside one, and no step
\* of either failed.  Overlapping calls mix their pieces in the shared buffer,
\* and log in another order than they published; a snapshot takes the file
\* from under a call; the first error ends the logging for good.
LoggedInTurn == ~overlap /\ ~raced /\ failures = 0

\* createSnapshot replaces the log by a record that holds no data.
Snapshotted == \E i \in 1..Len(file) : file[i].of.op = "snapshot"

\* "uses a Write-Ahead Log (WAL) to ensure data durability": between calls
\* the part of the log that no crash can take gives back the tree as it is.
WalDurable == LoggedInTurn /\ status = "open" /\ Idle => Replay(Kept) = root

\* What the code keeps of that promise: the tree until a snapshot is taken, and
\* the term and the index that inserts are logged with, a snapshot
\* notwithstanding.
TreeDurable ==
  /\ ~Snapshotted => WalDurable
  /\ LoggedInTurn /\ status = "open" /\ Idle =>
       ReplayTerm(Kept) = term /\ ReplayIndex(Kept) = logIndex

\* What becomes of a crash: a restart builds the tree of the calls that had
\* returned, with or without the one call that was running; or, if the crash
\* cut that call's record, there is no restart, NewTree returns an empty tree
\* with an error, though the whole records in front of it hold what had
\* returned.
CrashAtomic ==
  [][LoggedInTurn /\ ~Snapshotted /\ status = "down" /\ status' # "down" =>
       \/ status' = "open" /\ root' \in {ackedRoot, root}
       \/ /\ status' = "failed" /\ root' = Empty
          /\ Torn(file) /\ Replay(file) = ackedRoot]_vars

\* "provides mechanisms for recovery in case of failures": a log that was
\* written without an error opens again, wherever a crash has cut it.
RestartOpens == LoggedInTurn => status # "failed"

\* "through the serialized worker pool": LogInserts write one whole record
\* after the other.
RecordsWhole == WellFormed(file)

\* "so it survives restart": a term that UpdateTerm has logged is the term of
\* the log.
TermSurvives ==
  ~overlap /\ failures = 0 /\ ~treeError /\ status = "open" /\ Idle /\ snap = "none"
    => ReplayTerm(Kept) = term

\* No index is logged twice, also across restarts and snapshots, and the log is
\* in the order of the indexes.
IndexesGrow ==
  LoggedInTurn =>
    \A i, j \in 1..Len(file) :
      i < j /\ file[i].part = "value" /\ file[j].part = "value" =>
         file[i].of.index < file[j].of.index

\* The variables keep to their ranges, and the log to the order of its indexes.
Inv == TypeOK /\ IndexesGrow

\* What is in the log is in order, and is what a restart needs of it: the tree,
\* its term and its index.
LogHolds == Inv /\ TreeDurable

\* Inserts that overlap do not undo one another, whatever becomes of their
\* records: a running tree changes in one key at a time, to a value that is
\* being inserted.
NoLostUpdate ==
  [][status = "open" =>
       \A k \in Keys : root'[k] # root[k] =>
         /\ \A other \in Keys \ {k} : root'[other] = root[other]
         /\ \E w \in Writers : /\ entry[w].op = "insert" /\ entry[w].key = k
                               /\ entry[w].value = root'[k]]_vars
=============================================================================
