# A verification project for datura

`datura` is a Go library: lock-free queues and a clock of event streams
(`structure/`), a distributed radix tree with its log, leader election and
replication (`dmt/`), message artifacts and the plumbing they flow through
(root package, `transport/`), and a few stores behind one interface
(`memory/` and clients of external services). It is written without locks
almost everywhere: state is an atomic pointer or counter, and an operation is
a sequence of loads, stores and compare-and-swaps that goroutines interleave.
That is what these modules model.

A module names the code's own functions; comments of the form "Mutant:" mark a
variant of the definition below them, a plausible bug of that code, which one
of the properties must reject. `PROJECT.json` holds the runs, which lines each
definition stands for, the mutants, the hazards and the theorems.

## 1. Inventory

| Part | State | Operations | Interacts with | What is hard | What makes it correct |
|---|---|---|---|---|---|
| MPMC ring, `structure/mpmc.go` | two positions, a sequence and a pointer per cell, closed | Push, Pop, Len, Snapshot, Close; Merge, Slice at rest | the election's vote ring | any number of producers and consumers, claim and publication apart | a bounded FIFO queue; refusals mean full or empty |
| SPSC ring, `structure/spsc.go` | head, tail, value and ready per slot, counters | Push (reject or drop oldest), Pop, Snapshot, Close; Merge, Slice at rest | the clock's timeline and tracks | eviction moves the consumer's cursor; plain values under atomic flags | no race, nothing lost or returned twice, exact counters |
| List ring, `list.go` | linked nodes; a view has a cursor, a first node and a size | Push, Pop, Select, Merge, Slice, Do | - | views that share nodes which one of them relinks | lists stay circular, a cut removes what it says |
| Offline ring, `offline.go` | a slice and a cursor | Push, Pop, Select, Merge, Slice, Do | what Snapshot and Select of the queues return | views share an array, and append writes into it while it has room | a segment cut off or merged in is apart |
| Ultra ring, `ultra.go` (build tag `hft`) | a buffer and two sequences | Publish, ConsumeBatch | nothing | slots are reused right behind the consumer | every event whole, once, in order |
| Clock ring, `clock*.go` | a timeline, a ring per track, sequence, latest walls, cursors | Observe, Cut, EventsAfter, FrameThrough, Aligned, Merge | SPSC rings | readers walk rings a producer rotates | newest observations retained, nothing read twice or past the cut |
| Election, `dmt/election.go` | role, term, vote, count of votes, log state, two timers, vote ring | campaign, vote, drain votes, heartbeat, step down | network node, MPMC ring | late answers, handlers that overlap, replaced timers, restarts | one leader per term, one vote per term, leaders that send heartbeats |
| Tree and log, `dmt/tree.go`, `persist.go` | root pointer, term, index, sticky error; writer, file, last state | Insert, UpdateTerm, snapshot, replay | forest | pieces of records, crashes, failing writes, truncation | a restart gives back what had returned |
| Forest, `dmt/forest.go`, `snapshot.go` | an immutable list of trees | Insert, AddTree, reads of the fastest tree | trees, network | copies that overlap inserts | trees that agree, with nothing taken back |
| Hash tree, `dmt/merkle*.go` | an immutable snapshot: leaves, root, pending flag | Insert, Rebuild, GetDiff, GetProof, VerifyProof | network's Sync | swaps that fail, trees of different shape, odd levels | nothing lost; diffs and proofs say what is there |
| Peers, `dmt/peers.go`, part of `network.go` | an immutable list of connections | register, remove, dial, close | broadcasts, elections | double dials, removal by address, Close | registrations survive, broken ones leave |
| Replication, `dmt/network.go` | forest, hash tree and log state of each node | broadcast, Insert and Sync handlers, periodic sync | all of `dmt` | lost calls, refused terms, duplicates | what is inserted arrives everywhere, roots agree |
| Guarded batches, `dmt/guard.go` | first error | guardStep, guardValue | every I/O sequence | an error skips later steps | inside the tree and the log |
| Metrics, latencies, node names | counters, a window of durations | record, average | choice of the fastest tree | - | no decision but that choice |
| Cognitive inference, `dmt/cognitive*.go` | keys of one tree in seven namespaces (paths, basins, lexicon, concepts, episodes), a step, a concept counter, two caches | train, teach, experience, replay, decay, dream; predict, classify, analyse, resolve | tree and its log, forest | weights read, raised and written back; batches built from one root and committed to another; counts that fade | nothing counted twice, nothing lost in turns, cached answers are those of the root |
| Forest intelligence, server, `forest_intelligence.go`, `server/` | table of connections | Write, Lookup, Client; EvaluateCuriosityAndTriggerSync | forest, network | a targeted sync beside rounds and inserts | what it leaves out comes later |
| Transport, `transport/` | buffers, `processed` flags | Read, Write, Flush, Close of chains and graphs; Copy | artifacts, rings | a stage that fails half way and is tried again | each piece passes each stage once, in order |
| Artifacts, root package | messages, a pool of maps, a stream's write buffer | accessors, pack, unpack, commit | transport | frames in parts, frames that do not unpack | the artifact is the last whole frame |
| Memory store, `memory/` | a map under a lock | Get, Put, Delete, Search | callers | documents share slices with callers | - |
| External stores, generated code, scripts | none of their own | requests | services | - | - |

How they interact: a client inserts into a *forest*, which inserts into each
of its *trees* (each logs to its own *store*) and hands the pair to the
*network node*, which schedules a call to every *peer*. The peer's handler
inserts into its own forest - and so broadcasts again - and into its *hash
tree*, whose root a periodic Sync compares. Calls carry the *election's* term
and log index; answers to vote requests go through an *MPMC ring*. A *clock
ring* is a timeline and one ring per track, all *SPSC rings*, filled by one
producer and read by any number of consumers with a cursor of their own. The
*cognitive* calls read and write keys of one tree, which is why they interleave
with every other insert. *Transport* components are written to and read from
by one owner each; a pipeline copies from stage to stage at a Read.

## 2. Modules

| Module | Models | State and actions |
|---|---|---|
| `BoundedFifo` | what a queue promises | Put, Take, Return, and Evict of a full queue |
| `MPMCRing` | `mpmc.go` | one action per atomic access of `pushpop`, Len, Snapshot; `pc`, `position`, `value` are a goroutine's locals; `claimed` is a history of the values in the order of their claims |
| `SPSCRing` | `spsc.go` | one action per access to a cursor, a ready flag or a value, for both policies; Close drains with Pop |
| `QueueRings` | `mpmc.go`, `spsc.go` at rest | queues as what they hold; Merge (into room, into a larger buffer, of another kind), Slice, Snapshot, Do, Close |
| `ListRing`, `OfflineRing` | `list.go`, `offline.go` | nodes or arrays, and the views over them; a call is an action |
| `UltraRing` | `ultra.go` | every store and read of a word of a slot, and the two sequences |
| `CommonLemmas`, `MPMCRingProofs`, `StructuresProofs`, `ElectionProofs`, `NodeDataProofs`, `ForestProofs`, `NetworkProofs`, `CognitionProofs` | - | the proofs |
| `Clock` | `clock.go`, `clock_cursor.go`, `clock_track.go` | the producer (`push`) and each consumer (`call`) step by step over SPSC rings; a slot is copied in two halves |
| `ClockMerge` | `ClockRing.Merge`, `mergeSPSC`, `resequence` | two clocks at rest; calls are atomic |
| `Election` | `election.go` and the handlers that call it | `judging`, `late` and `drainers` are handlers and drains in flight, `beats` the heartbeats still to be sent, `messages` the calls and answers; a timer is "watched" when the tick goroutine's select holds its channel, "replaced" when not, and "both" when an older one that the select holds will fire too |
| `DurableTree` | `tree.go`, `persist.go`, `guard.go` | writers step through Insert and LogInsert; `buffer` is what the `bufio.Writer` holds, `file` the pieces in the file, `synced` how many a crash leaves, `snap` where a snapshot's goroutine is, `walFile` the file the writer is open on |
| `Forest` | `forest.go`, `snapshot.go` | each caller's `op` is the call it is in, with what it has loaded |
| `Merkle` | `merkle.go`, `merkle_snapshot.go` | calls load a snapshot and swap; diffs and proofs are operators over snapshots; hashes are terms, so equal hashes mean equal bytes - including pairs that concatenate to the same bytes |
| `Peers` | `peers.go`, connections of `network.go` | `registry` is replaced by compare-and-swap; a goroutine dials, registers, waits, removes |
| `Replication` | `network.go`, `forest_intelligence.go` | calls and syncs in flight are sets, a handler has two halves, a targeted sync carries the keys it keeps; peers are connected throughout |
| `CognitiveSchema` | `cognitive_schema.go` and the helpers | keys as records of a namespace, class, path and time; weights as a count, a fraction and a step; decay, walks in key order, edit distance |
| `Inference` | what the cognitive calls answer | predictions, beams, both classifiers, surprisal, episodic and interpolated chances, symbols, analogs, generations, over one root and in exact fractions |
| `Cognition` | what the cognitive calls change | `todo` is the list of accesses a caller's call has still to make, `held` what it has read, `batch` what it will commit |
| `Transport` | `transport/`, `io.go`, Read and Write of `mpmc.go` | a call is an action that walks the components it is built over; a frame is a header and a body |
| `Structures`, `NodeData`, `Network` | - | components side by side: the SPSC, ultra, offline and list rings and a clock; a tree, its forest and its hash trees; connections and replication |
| `MC*` | - | constants for TLC, and in `MCStructures` and `MCConnections` components no theorem is about |

`Election` uses the vote ring as a queue, which is what `MPMCRing` is shown to
be; `Clock` inlines the SPSC ring's steps because its readers walk the slots;
`Replication` takes the term from `Election` (action `ElectionTerm`), the forest
from `Forest` (an insert reaches all trees) and diffs from `Merkle`
(`SyncDiffWhole`: a diff against a new tree is all its pairs). `QueueRings`
takes a ring at rest for the queue it holds, and `Cognition` an insert for one
step, which `DurableTree` takes apart.

`Structures`, `NodeData` and `Network` put components side by side that share no
state, since each takes the operations of the others for single steps: a
behaviour is one of a component (`part`), and a property speaks of its component
only. That keeps the runs few, and it is the composition, with any constants,
that the theorems of section 4 are about: a step of it is a step of one
component, so that an invariant of the component carries over.

## 3. Runs

Properties are conditional where the code keeps a promise only under a
condition. The condition is then named in the module, and the run still
contains the behaviours outside it (in `forest` two kinds of
overlap are left out, as said there). `Inv` of a module is its type
invariant together with the state invariants of its core. A name in
parentheses is a part of the property before it.

**mpmc** - two producers, two consumers (one goroutine is both) and an
observer on a two-cell ring; the third push starts the second lap, where a
cell is reused. The ring implements `BoundedFifo` step by step
(`ImplementsFifo`). `CallsAnswered`: a Push may be refused although less
than a capacity of values is queued, and a Pop although a completed Push is
queued, but only while a claim of somebody else is not yet published or
released (`RefusalExplained`), and a Snapshot never returns a value of an
earlier lap (`SnapshotFresh`). `EventuallyReturned`: fair consumers return
everything. `IInv` is the invariant of the proof.

**structures** - seven parts, each in behaviours of its own.

- *SPSC ring*: two slots, five pushes, each overflow policy, calls that
  overlap and calls that take turns. A rejecting ring keeps its promises under
  every overlap; one that drops the oldest keeps them when the two goroutines
  take turns (`Disciplined`), because its eviction clears the slot at the
  consumer's cursor and moves that cursor. `NoDataRace`: a plain value is never
  written while the other goroutine is at it. `Conserved`: no value leaves the
  ring but to Pop's caller or into the exact count of dropped ones.
  `ImplementsFifo`: the ring implements `BoundedFifo`. When calls overlap an
  eviction, what is left is `AtMostOnce`: no value is handed out twice, though
  one may be replaced by a zero value or skipped.
- *Lists*: four nodes, three views, every history of five calls. `ListsWhole`:
  lists stay circular both ways, a view counts its nodes right unless another
  view has cut or grown the list (Len is kept, not measured), and a ring with
  one view shows the last values in order. `ListCuts`: Slice and Merge do to the
  list what their comments say. Three things it allows: a Slice may leave the
  view's `first` among the removed nodes, so that Do visits those; a Slice of
  Len() nodes removes nothing and returns a second view; sizes of other
  views are stale.
- *Offline rings*: four values, three views, five calls, with and without room
  left by append. `OfflineApart`: a call changes what it is made on and the
  views Select relates to it, and nothing that was sliced off or merged in.
  Related views share even values one of them appends.
- *Queues*: two queues of capacity one or two, four pushes, five calls.
  `QueuesMerge`: Merge moves every value behind the ring's own, in order and
  dropping none, and Slice cuts a queue in two. It allows what the code does at
  the edges: a closed ring with room takes one value from the other and loses
  it, a closed ring that has to grow takes all, and rings of another kind are
  drained although Push refuses. A ring that is merged with itself and fits
  would drain into itself for ever, so it is not merged.
- *Ultra ring*: two slots, five events. `UltraExact`; a batch may have one event
  more than its limit.
- *Clock*: two tracks, rings of two slots, three observations, so that
  timeline and tracks rotate, and rings that refuse. Retained observations are
  the newest, in order, with the scalars that describe them (`ClockHolds`:
  `RetainedWindow`). `ReadsExact`: reads between pushes are exact
  (`EventsExact`, `FrameExact`, `AlignedWatermark`), and reads under pushes hand
  out nothing before the cursor or past the cut (`EventsWithinCut`). Calls of
  different kinds leave nothing to one another but cuts, so the modes of the
  run have one kind each.
- *Clocks*: clocks of one and two tracks, every history of up to five
  observations before and after their merge. `MergeKeeps`: timelines and frames
  carry over, and so do the cursors. A new consumer reads all of the merged
  timeline (in `MergeKeeps`) if the absorbed clock had not yet overwritten
  observations, whose numbers leave a gap that EventsAfter counts across.

**election**, **election_safety**, **election_failover** - three nodes, four
campaigns or other events (two when handlers overlap), symmetric; in behaviours
of their own, with one event less, every vote is needed, so that votes are
counted one after the other. Requests, answers and heartbeats are lost, late and
in any order; a heartbeat carries the term its sender has when it sends, not
when the timer fired. When handlers overlap, each load and store of term, role
and vote is a step; startElection and a turn of drainVotes stay whole, so these
behaviours show what can go wrong and not that nothing else can.
`ElectionSafety` fails: an answer is counted in the campaign the candidate is in
by then. `LeaderReplaced` fails under fair timers and messages: the followers'
timers were stopped when they voted, and tick waits for the stopped ones.
`VotesHold`: a node votes once per term (`VoteOnce`), and leaders whose votes
are of their own term are unique (`FreshVotesSafe`), so late answers are the
only way to two leaders. Both hold while requests are judged one at a time and
nobody restarts (`Orderly`): `votedFor` is compared and stored without a lock
and never persisted. With overlapping handlers a node does vote twice (a handler
clears the vote that a campaign has just given itself) and grants a term it has
left: section 5, `OneVotePerTerm` and `LowerTermRefused`. `LeaderAwake`: while
handlers take turns, the tick goroutine of a leader waits for a timer that
fires, unless a heartbeat of its term came from elsewhere and had its timer
reset: from another leader of the term, or from a node that had a heartbeat left
to send when it stopped leading. The second takes six events, more than the run
has; the theorem covers it. A leader elected for the first time sends its first
heartbeat only after its election timer has fired and it has been elected once
more, because the answers come after tick has entered its select again
(startElection is one step). `RolesFollowTerms`: while handlers take turns, no
term goes back and a role is given up only for a higher one.

**cognition**, **dreams** - two callers over two sequences whose tokens are a
byte, another one and the two together (a token that begins another and is an
edit away from it), a tree that may be opened over a log with an episode, two
calls of any kind, overlapping or in turns, and clean restarts. `Inv`: no count
exceeds what was observed: two callers may lose one another's updates
(`bumpCounter` and `TrainSensorySequence` read, then write), but count nothing
twice. `SerialExact`: in turns nothing is lost either, through replays, dreams
and decays, and the log index is the number of records. `CachedPure`: a cached
analysis was read from the root it is cached under and no other.
`AnswersFollowHistory`: lookahead names every token that followed a context, and
nothing else unless some lesson goes on within the context's last token; beams,
analogs and token resolution answer with what was learnt. Without that exception
lookahead does not (`LookaheadObserved`, section 5): paths are compared byte by
byte, and the rest of a longer token is taken for the next one.
`DistributionsWhole`: chances add up to one and none is zero, whatever has
faded. In `dreams`, with one caller and up to four calls on paths of one token
repeated, `DreamsAreNovel` fails: a path of count one fades to a count of zero
in a step, and is dreamt again.

**forest**, **forest_overlap**, **durable_snapshot** - three parts (in `forest`,
values are symmetric, and so are the callers, each with its key). *Trees*:
three empty trees, of which the first has a log, two callers, three inserts of
two keys; inserts of different keys overlap, AddTrees overlap, or calls take
turns. `ForestHolds`: between calls the trees hold the same data, and in turns
the same index. `InsertsKept`: nothing that returned is taken back, and the
first tree's log, as long as it has lost no record, replays to the tree (that of
a tree added later has no record of what it was given). A record may always be
lost here (`Relogged`): between the pieces of another one, to an error, or to a
snapshot, which are steps of `DurableTree`. Left out are two overlapping inserts
of one key (they reach trees in different orders) and an Insert under an
AddTree: in `forest_overlap`, with two trees and one key, `Agreement` fails: an
Insert that loaded the list before the new tree was in it misses that tree, and
the copy brings the root from before the Insert with the index from after it.
*Hash trees*: two trees, three keys that are prefixes of one another, the empty
one among them, values that make different pairs concatenate alike; every
history of five inserts one at a time, and of three that overlap with rebuilds.
Three leaves give an odd level and trees of different shape. `HashTreesHold`:
overlapping calls lose no insert, and a tree that is not pending has the root of
its leaves. `DiffAnswers`: a diff of two built trees names nothing that both
hold; it misses nothing for an unbuilt peer (the only diff the network asks for)
and for equal keys, but for the value of an empty key, whose leaf has a nil Key
and is taken for an inner node. Between trees of different keys it misses
differences (`DiffNamesAll`, section 5). `ProofAnswers`: a proof is accepted for
no bytes but those of its pair, key and value put together, and is accepted for
them if every level has a sibling: Rebuild hashes a lone node once more,
GetProof leaves that step out, so the last of three leaves has a proof that is
refused (`ProofVerifies`, section 5). *A log*: two keys, two writers, three
inserts (two when they overlap), one term change, one failing step, one crash; a
snapshot is due every second index, and its goroutine runs beside any call.
`WalDurable`, the promise of `persist.go`, fails in `durable_snapshot`: a
snapshot replaces the log by a record of term and index. `LogHolds` says what is
kept: without a snapshot, the tree of calls that are logged in turn
(`TreeDurable`); term and index with one as well; and a log in the order of its
indexes (`IndexesGrow`). `CrashAtomic` says what becomes of a crash, both ways:
a restart with or without the running call, or, if its record was cut, no
restart but an empty tree with an error and whole records in front of the cut.
These are conditional on `LoggedInTurn`: no two calls, and no call and a
snapshot, at a time, and no failed step. Otherwise (section 5) overlapping
LogInserts mix their pieces (`RecordsWhole`) and a snapshot beside a LogTerm
undoes its term (`TermSurvives`); and a cut record keeps the whole log from
opening again (`RestartOpens`). A first error ends the logging for good.
`NoLostUpdate` concerns the running tree, in every interleaving.

**connections** - two parts. *Peers*: two addresses, three dials, two breaks,
one failing dial, Close at any time. Concurrent registrations do not undo each
other (`EntriesStay`, in `Inv`), broken connections leave (`BrokenEntriesGo`). A
removal is by address, so an older connection's end takes a newer entry with it,
and a dial that completes after Close stays open; the properties are stated so
as to allow both. *Streams*, seven arrangements: a pump over a pipeline of a
buffer, a feedback with a gate behind it and a stream; a pipeline that starts
with a ring, copied with a large and a small buffer; a flip-flop over two
computing stages; a graph read through and a graph written to; an empty
pipeline; an artifact written in chunks. Five calls each, of which one meets a
read or a write that fails, at once or after one that works. `StreamsHold`: what
was delivered and what the stages hold is in the order it was written, nothing
doubled, and nothing missing unless a call failed otherwise than in a stream's
flush, which keeps its data and tries again. Data is lost by Copy when the
origin fails after a part was read or the destination refuses, and by a ring,
which pops before it knows that the buffer is large enough and takes the first
frame of what is written. A closed ring takes nothing more. `EofMeansEmpty`: a
pipeline read in parts of frames says EOF when its stages hold nothing, as long
as no call has failed and the last write was not empty; and what a feedback
returned was fed back. A graph says EOF whenever an edge's source is empty. The
two exceptions are violations of what Read says of itself: after a failed Copy
(`EofAfterFailure`) and after a write of nothing (`EofAfterNothing`, section 5)
the next Read copies from an empty first stage and says EOF while a later one
has data. `FramesWhole`: an artifact is the last whole frame of what was written
in frames and parts of them, as long as no chunk goes on behind the end of a
frame; Close fails for a half one, and a flip-flop without an error brings back
what the stages made. The chunks of the run are frames, halves, two frames at
once, and the end of one with the beginning of the next; with the last two
`ChunksAnywhere` (section 5) fails, since a commit throws away what follows the
frame it unpacks.

**replication** - two nodes and one key, with either a lost call and a change of
terms, or growing log indexes, or a targeted sync. `Converges`: an insert
arrives although its broadcast was lost or refused (`EventuallyReplicated`), and
the roots come to agree for good (`RootsAgree`). `ReplicasHold`: a hash tree
shows no key its forest lacks, and, of keys inserted once, no node, call or
answer holds a value the client did not write (`OnlyWritten`). It is about keys
inserted once: inserts are passed on by every receiver without end, and two
values of a key would chase each other. EvaluateCuriosityAndTriggerSync runs the
targeted sync in its caller, not later. The run is one of `Network`, whose other
part is a small instance of the connections: one address, dialled twice, that
breaks once.

### Bounds

Every bound is a constant that starts with `Max`, the size of a set, or a
field of `Bounds`, and is named where it guards an action. They are chosen so
that the interesting case happens at least once: a ring of two cells with a
third push laps; three nodes with four campaigns let a vote be late by one
campaign; a crash hits a log of several records, whole or cut; three leaves
make an odd level; two views and a third that is cut from them share nodes and
arrays; three steps of experience (`MaxSteps`) let a path be learnt, replayed
and fade. `CHECK_DEADLOCK FALSE` stands where a bound, or the end of all calls,
stops the system; in `mpmc` calls of Pop never end, and deadlock is checked.

### Fairness

`MPMCRing`: the Go scheduler runs a runnable goroutine, and consumers poll.
`Peers`: the ticker fires and goroutines run. `Election`: a timer that tick
waits for fires, messages between running nodes arrive, handlers and drains run
to their end. `Replication`: calls that are not lost are answered, handlers run
to their end, tickers fire. Nothing has to fail, be lost, be inserted, break or
be elected. All of it is weak fairness of single goroutines or connections.

## 4. Theorems

`MPMCRingProofs!Invariance` (`Spec => []IInv`) holds for every capacity, every
set of goroutines and any number of pushes, from `RingAssumption` alone. That
a cell is not lost or taken twice is not inductive by itself; `IInv` says what
each cell holds at each position: every position between the two counters is
published with the value that claimed it or waits for its producer
(`QueuedOK`), the rest of the lap is free or waits for its consumer (`FreeOK`),
what a goroutine has seen before its compare-and-swap still stands if its
position has not moved (`ApproachOK`), holders of one side have different
positions (`HoldersDiffer`), and their cells are as they left them
(`ProducersOK`, `ConsumersOK`). There is one lemma per action; the arithmetic
of slots (two positions of one slot are a lap apart) is in `CommonLemmas`.

`MPMCRingProofs!Refinement` (`Spec => ImplementsFifo`): a claim by a producer
maps to Put, a claim by a consumer to Take, a release to Return, and every
other step to a stutter; `IInv` supplies that what a Pop finds in its cell is
what its position was claimed with.

`StructuresProofs!Invariance` and `RaceFreedom`: the slot discipline of a ring,
for every capacity and every overlap of Push, Pop and Close of a rejecting
ring and every turn-taking use of a dropping one, and that it keeps the two
goroutines' accesses to a plain value apart. `IInv` says that the positions from
tail to head are filled with what was pushed (`QueuedOK`), the rest of the lap
is blank (`BlankOK`), and where each goroutine stands in the slot it holds
(`ProducerOK`, `ConsumerOK`).

`StructuresProofs!Refinement` (`Spec => ImplementsFifo`): the step that
publishes head maps to Put, Pop's advance of tail to Take, its return to Return,
and an eviction's advance of tail to Evict. `Conservation` (`Spec =>
[]Conserved`) adds to `IInv` where the values behind tail are (`HistoryOK`):
returned, in Pop's hand or dropped, never two of these, and as many dropped as
counted.

`ElectionProofs!Voting`, `Awake` and `Roles` hold for any finite set of nodes
and any quorum that is a majority of it (`ElectionAssumption`), with messages
delayed, reordered and lost; the bounds on campaigns and indexes are arbitrary.
`TurnInv` is about nodes whose handlers take turns, crashes and restarts
included: a request found good still fits the node's term and vote when the vote
is stored (`JudgedOK`), a heartbeat on its way is one that its sender has sent
(`SentOK`: with the term of that moment, whatever it leads by then), and a
candidate has its own vote and a timer that fires unless a heartbeat of its term
that came from another node had it reset (`RolesOK`); `Awake` and the last part
of `Roles` follow. All three theorems are about handlers in turn: where they
overlap, `OneVotePerTerm` and `LowerTermRefused` fail (section 5). `OrderInv` is
about nodes that stay up besides and follows a vote: asked for once and not cast
before (`RequestsOK`), of a term its voter still remembers or has left
(`VotesOK`), then on its way (`AnswersOK`), queued (`QueuedOK`) or counted
(`CountedOK`), never two of these, so that votesReceived counts different votes.
Neither `VoteOnce` nor `FreshVotesSafe` is inductive without it: that nobody
votes twice needs that a request is not answered twice, and that a leader has a
majority needs that no vote is counted twice. `Voting` then takes the voter two
majorities have in common.

`NodeDataProofs` is about any keys, any number of writers and any bounds
(`TreeAssumption`). Two of its facts hold of every interleaving: what a call
carries fits the step it is at (`CarriesOK`), and a root whose pointer has not
moved is the one that was loaded (`SeenOK`), from which `UpdatesKept` (`Spec =>
NoLostUpdate`) follows. The rest is about calls that come in turn, with no
snapshot beside one and no failed step, crashes and snapshots between calls
included (`TurnOK`): it follows the record
of the running call from the index it takes over the pieces it has written to
the sync (`StepOK`). `TreeDurable` speaks of the moments between calls and says
nothing of a crash in the middle of one, so it is not inductive: between the
flush and the sync the invariant says of every prefix of the file that it
replays to the tree with or without the running call. `LogHoldsAlways` (`Spec =>
[]LogHolds`) and `CrashIsAtomic` (`Spec => CrashAtomic`), which says what a cut
record leaves as well, follow. The lemmas on
`Replay`, `ReplayIndex` and `ReplayTerm` say what one more piece changes.

`ForestProofs!InsertsReachAll` (`Spec => [](Retained /\ Agreement)`) is about
any trees, keys, callers and bounds, and about calls that overlap as in the run:
Inserts of different keys with each other, AddTrees with each other, and trees
that are added empty (`UsedInOrder`, which TLC evaluates for the run's
constants). Both properties speak of the moments between calls. `RootsOK` says
what the trees hold meanwhile: a tree is up to date but for the keys that
running Inserts have written into it, or is empty and still ahead of a running
AddTree. It needs that a call meets each tree of its list once (`ListsOK`), that
what an AddTree has loaded is complete, even when it found no tree that holds
anything (`ReferenceOK`), and that a tree it passes over because the pointers
are equal has equal data (`PointersOK`: the root an Insert is going to publish
is new).

The rest of what the `forest` run says of forests has the same form.
`TreesAndIndexesAgree` adds the log indexes for calls in turn: trees differ in
theirs by what the running call still owes them (`IndexesOK`), and none counts
more than the Inserts there were (`BoundsOK`). `InsertsSurvive` is about the
forests the property speaks of, in which only the first tree has a log: that
log, until it loses a record, replays to the tree, but for the keys a running
Insert has written and not logged (`LogOK`). `NodeDataProofs!ForestAgrees`
(`NodeSpec => []ForestHolds`) and `InsertsStay` (`NodeSpec => []InsertsKept`)
instantiate `ForestProofs` for the forest of a node.

`StructuresProofs!HandsOutOnce` (`Spec => AtMostOnce`) is what is left of an
SPSC ring whose calls overlap its evictions, for any capacity and either policy.
There the cursors may cross and go back, and nothing of `IInv` holds. `OnceOK`
does without positions: a value is in one slot at most, in none while Push holds
it unwritten (`FreshOK`), and in none once Pop has taken it but for the slot Pop
is about to clear (`ApartOK`).

`StructuresProofs!UltraHandsOver` (`RingsSpec => []UltraExact`), for every
buffer and every batch limit: `UltraOK` says which event the words of each slot
are of, from the sequence the consumer has committed to the word the publisher
is writing, which is never one the consumer still has to read.

`StructuresProofs!OfflineRingsApart` (`RingsSpec => OfflineApart`), for any
slices and any number of rings: two views share an array only if one comes from
the other by Select (`OfflineOK`), because a view that runs out of room, a slice
and a new ring each get an array nobody has; no array changes its length, so
that every view stays inside its own.

`StructuresProofs!ClockRetains` (`RingsSpec => []ClockHolds`) and `ClockReads`
(`RingsSpec => []ReadsExact`), for rings of any capacity, any tracks, event
times and consumers, and either policy. Both properties speak of moments: the
window of the rings between two pushes, a read when it returns. `Clock!IInv`
fills in the rest. Its first half follows the producer, whatever readers do: a
ring's window is that of the observations the ring has taken (`WindowOK`), its
slots hold these but for the one that an eviction or a write is at (`SlotsOK`),
and each scalar is that of the observations it has seen (`Published`, `Seen`),
so that the latest wall is known also between its two stores (`WallsOK`). A ring
that refuses ends this: the clock has an error, and only ranges are kept. Its
second half is what a call knows. Under pushes that is `CallOK`: nothing taken
is before the cursor or past the cut. Without them it is `ReadOK`: where the
walk of the ring is (`WalkOK`), that EventsAfter has taken exactly the numbers
between its beginning and the walk (`EventsOK`), that a frame has the best of
the slots passed so far (`BestOf`, `TrackOK`), all of the retained ones when it
goes on or looks again (`FrameOK`), and that Aligned has the least of the walls
read so far (`AlignedOK`).

`StructuresProofs!ListsStayWhole` (`RingsSpec => []ListsWhole`), for list rings
of any number of nodes, any values, Selects and Slices of any length (the bounds
are natural numbers, `ListAssumption`): that a walk comes back to the node it
starts from is no matter of course, as `Walk` is a recursive function cut off at
the number of nodes there can be. `next` and `prev` are inverse (`Linked`),
which `link` keeps whatever two nodes it is called on (`Relinked`); so the first
node that a walk visits again is the one it starts from, and there is such a
node by the pigeonhole principle (`WalkGoes`). The walk is then the only loop
from that node (`WalkOnly`), two walks that meet have the same nodes (`OnSame`),
and one that a relinking does not touch stays as it was (`WalkKeeps`).
`ListsWhole` is not inductive: what a ring with one view shows depends on where
cursor and first node are. `ListOK` says so (`Shows`): after k pushes into m
nodes the cursor is k nodes from the first, or on it once k has reached m, and
node i holds the i-th of the last m values. It adds that no other view has its
cursor on that list (`Alone`), so that what is done to other lists does not
reach it (`LogKeeps`).

`NetworkProofs!Invariance` (`Spec => []Inv`): for any addresses and connections,
a goroutine that waits for its connection to end has an entry for its address,
unless another goroutine of that address has removed one or the node was closed
(`EntriesStay`); with the ranges of the variables it is inductive.

`NetworkProofs!NothingInvented` (`NetworkSpec => []ReplicasHold`), for any
nodes, keys, values and bounds and every choice of what is lost, refused or
late: `ReplicasOK` adds that a handler between its halves has put its key into
the forest, so that neither its second half nor a rebuild that comes first
shows a pair the forest lacks.

`NodeDataProofs!HashTreesStay` (`NodeSpec => []HashTreesHold`), for any
keys, values, trees and callers: the property is inductive, since a call swaps
only where the snapshot it started from still is. What is proved about the
operators is that the order of keys is total and transitive, so that
sort.Search ends where a leaf belongs (`FoundIs`) and the new leaves are the old
ones with that one stored (`StoredDoes`). `DiffSendsAll` adds that the diff of
a tree against a new one, the only diff the network asks for, has all its pairs
(`HashTrees!Spec => []HashTrees!SyncDiffWhole`).

`NodeDataProofs!DiffsAnswer` (`NodeSpec => []DiffAnswers`) and `ProofsAnswer`
(`NodeSpec => []ProofAnswers`) are about trees of any number of leaves, and need
what the recursive functions of `Merkle` compute. Each is shown to satisfy its
defining equation (`HashIs`, `ProofIs`, `DiffIs`) by extending a function on the
lower levels to the next one, and what holds of it is shown for the lowest level
where it might fail (`CommonLemmas!Smallest`): the prover lacks induction over
an operator, but has well-founded minima of a set. `DiffIsExact`: what the walk
reports for a pair of nodes is real (`WalkIsSound`); trees with the same keys
have one shape (`KeysAgree`, `ShapeIs`), so the hashes differ on the whole way
from a differing leaf to the root and the walk meets the leaf (`WalkMeets`).
`VerifiedIsHeld` goes down from the root: a hash on the way is the one
VerifyProof computed, and a node without a sibling is not on it, since
VerifyProof never hashes a single child. `WholeIsVerified` goes up from the
leaf. The one state invariant besides `HashTreesHold` is `Linked`: the leaves of
an outdated root that GetProof still answers for are held.

`CognitionProofs!CachesAreOfTheirRoot` (`Spec => []CachedPure`), for any callers
and whatever they learn: an analysis loads the root again and again while others
replace it. `CachesOK` follows the versions it has read through the accesses
that are still to be made (`Fits`): all are between the first one and the
current one, so if these are the same at the last check, all are of that one.
Everything else a call can do leaves both caches alone, and raises the version
when it replaces the root (`PlainStep`).

Only model-checked: liveness, the merge of clocks, everything about `Transport`,
what one call makes of a list (`ListCuts`), queues at rest, `BrokenEntriesGo` of
the registry; of the cognitive layer, all that sums over a history or a
distribution. Liveness is out of the prover's reach, and so are the theorems on
induction and folds, which take an operator. A recursive function can be proved
about by minimal counterexamples, as those of the hash tree and the walks of a
list are; it is not done for tallies and calls through components, and
`ListCuts` selects from a sequence by an operator. `Transport` uses RECURSIVE
operators besides.

## 5. Where code and comments disagree

Five disagreements have runs of their own:

- `dmt/election.go:136` counts a granted vote whatever campaign it answers,
  against "a consistent leader" (`dmt/election.go:3`): run `election_safety`.
- `dmt/election.go:217` stops the timer tick waits for and stores another one,
  against "handle leader failures gracefully" (`dmt/election.go:4`): run
  `election_failover`.
- `dmt/forest.go:119` copies a root from before an Insert that the new tree has
  missed, with the index from after it, against "ensuring that subsequent read
  operations will find the same data" (`dmt/forest.go:229`): run `forest_overlap`.
- `dmt/persist.go:484` drops the data with the log, against "to ensure data
  durability" (`dmt/persist.go:3`): run `durable_snapshot`.
- `dmt/cognitive_dream.go:166` takes a path whose count has faded for one that
  is not stored, against "Novelty means the sequence is not already a stored
  path" (`dmt/cognitive_dream.go:134`): run `dreams`.

The others lie outside what a passing run's properties promise: its behaviours
contain them, and a condition of a property names them. What the comment or test
says is stated as a formula beside the property. None of these formulas is
among the listed runs; written into the cfg named, in place of its properties
and its symmetry, each is refuted by TLC within seconds.

- `OneVotePerTerm`, `LowerTermRefused` (an action property), `Election.cfg` with
  `MaxTogether = 3`: `dmt/election.go:291` grants a second vote in the term of
  the node's own campaign, and `:280` a vote for a lower term, when the campaign
  starts while a handler has loaded the term. The tests "With already voted in
  term" and "With lower term" (`dmt/election_test.go:119`, `:114`) expect
  refusals.
- `RecordsWhole`, `DurableTreeSnapshot.cfg` with `MaxTogether = 2`:
  `dmt/persist.go:117` writes records of overlapping calls in pieces, against
  "through the serialized worker pool" (`dmt/persist.go:98`); runWal only calls
  its function.
- `TermSurvives`, `DurableTreeSnapshot.cfg`: `dmt/persist.go:146` starts a
  snapshot that undoes the term of a running LogTerm, against "so it survives
  restart" (`dmt/persist.go:227`).
- `RestartOpens`, `DurableTreeSnapshot.cfg`: `dmt/persist.go:297` fails on a
  record that a crash has cut, and NewTree starts empty with an error, against
  "mechanisms for recovery in case of failures" (`dmt/persist.go:4`).
- `DiffNamesAll`, `Forest.cfg` with `ByteKeys <- PlainKeys` and `ByteValues <-
  PlainValues` (so that neither empty keys nor equal concatenations are the
  cause): `dmt/merkle.go:226` compares nodes by their position only, against
  "returns keys that differ between this tree and other" (`dmt/merkle.go:170`).
- `ProofVerifies`, `Forest.cfg` with the same keys and values:
  `dmt/merkle.go:333` leaves out of a proof the level on which a lone node is
  hashed again, against "the proof should be verifiable"
  (`dmt/merkle_test.go:138`).
- `LookaheadObserved`, `Cognition.cfg`: `dmt/cognitive.go:211` answers with the
  rest of a longer token, against "lookahead into immediate child token
  branches" (`dmt/cognitive.go:119`): after a lesson of the token ab alone,
  lookahead on a answers b.
- `EofAfterNothing`, `EofAfterFailure`, `Connections.cfg`:
  `transport/pipeline.go:120` and `:57` say EOF while a stage holds data, after a
  write of nothing and after a failed Copy, against "Returns EOF when no more
  data is available" (`transport/pipeline.go:46`).
- `ChunksAnywhere`, `Connections.cfg`: `io.go:101` throws away what follows a
  frame in its chunk, against "for chunked streaming" (`io.go:12`).

Two more limits of the hash tree, which `DiffAnswers` and `ProofAnswers` name:
pairs with the same bytes, key and value put together, have the same hash, so
that a proof of one is accepted for the other and a diff between them can be
missed; and the leaf of an empty key is taken for an inner node, so that a
change of its value is missed. The conditions of section 3 are further places
where a reader of the code may expect more: each is listed with its line under
"hazards".

## 6. Not modelled

- Of the rings: RegisterTrack, Close, Select, Slice and Do of the clock, and
  option functions.
- Of the cognitive layer: entropy, branch ambiguity and contrastive divergence,
  and SelectStochasticToken's softmax by temperature (a free choice among the
  candidates here). They take logarithms and exponentials and change nothing.
  Surprisal is in whole bits where a learning rate depends on it, other
  probabilities are exact fractions; ages beyond three steps do not occur.
  Reads that load the root several times are taken at one root, except in
  analyses, where the cache makes the difference. A cached analysis is kept
  although the step may have moved since: the cache knows the root only.
- Of transport: io.ErrNoProgress, reads into an empty buffer (for which a
  pipeline says EOF as well), and rings that are full. A mixture of halves
  of two frames may unpack to a broken artifact, which the model leaves open.
- Of the server: the table of connections and the pipe, of artifacts: accessors,
  attributes, encryption and the map pool. They are used by one goroutine each,
  but for the table, whose concurrent use Go does not define.
- Metrics and latencies decide nothing but the fastest tree, a free choice in
  `Forest`. Node names are hashed, conversions are pure. The memory store is a
  map under one lock. External stores, generated code and scripts hold no state
  of this program.

## 7. Plan

1. Done: the rings with their proofs, their views and merges, election, durable
   tree, forest, hash tree, peers, replication with targeted syncs, clock and
   its merge, the cognitive layer, transport.
2. Next: the map pool, Select and Slice of the clock, metrics under concurrent
   recording. `Peers` and `Replication` are to be composed into one network, and
   `Clock` and `ClockMerge` into one clock, so that connections come and go
   under replication and readers see a merge.
3. Abstract specifications to add: a durable map for `DurableTree`, a
   replicated map for `Forest` and `Replication`, an event log with cursors
   for `Clock`.
4. Theorems: those of the rings, the election, the durable tree, the forest, the
   network, the hash tree, the caches of the cognitive layer, the clock and the
   lists are done. Next are the merge of clocks and what Slice and Merge do to a list.
