------------------------------- MODULE Clock -------------------------------
(***************************************************************************)
(* structure/clock.go, clock_cursor.go and clock_track.go: one producer    *)
(* observes items of several tracks; consumers cut, read the events since  *)
(* their cursor, and read frames, all without a lock.                      *)
(*                                                                         *)
(* The rings are SPSC rings read through Select(0).Do, a Snapshot, so a    *)
(* reader loads tail, head and each slot while the producer moves on.  An  *)
(* observation is named by its ingest sequence; a slot is a plain struct,  *)
(* and a racing copy takes its item (Track, Wall) and its IngestSequence   *)
(* from different observations.                                            *)
(***************************************************************************)
EXTENDS Integers, Sequences

CONSTANTS Tracks, Timeline,   \* the rings: one of each track, and the timeline
          Consumers, None,
          Capacity, TrackCapacity,   \* slots of the timeline, of a track
          Nanos,              \* nanoseconds in a second
          LastWall,           \* walls are 1..LastWall, in nanoseconds
          Modes,              \* how a clock is used: one of these records
          MaxPushes           \* bound

\* The overflow policy of the rings, whether a consumer's calls overlap the
\* producer's, and bounds: the tracks and walls observed, the calls made.
Operations == {"cut", "events", "frame", "aligned"}
Mode == [dropOldest : BOOLEAN, overlap : BOOLEAN, tracks : SUBSET Tracks,
         lastWall : 1..LastWall, calls : SUBSET Operations]

ClockAssumption ==
  /\ Timeline \notin Tracks /\ Capacity \in Nat \ {0} /\ TrackCapacity \in Nat \ {0}
  /\ Nanos \in Nat \ {0} /\ LastWall \in Nat /\ MaxPushes \in Nat
  /\ Modes \subseteq Mode
  /\ None \notin [item : Nat, seq : Nat]

VARIABLES mode,
          sequence, timelineSize, err,
          head, tail, value, ready,       \* of each ring; value and ready of its slots
          first, count, seconds, nanos,   \* the atomic fields of each track
          push,       \* the producer: pc, track, wall, seq, the ring pushed to
          cursor, cuts,  \* of each consumer
          call,       \* of each consumer: the call it is in, with its locals
          log,        \* history: the observations
          made        \* history: of each ring, the observations that it is to take

ring    == <<head, tail, value, ready>>
track   == <<first, count, seconds, nanos>>
clock   == <<sequence, timelineSize, err, ring, track>>
history == <<log, made>>
vars    == <<mode, clock, push, cursor, cuts, call, history>>

Seqs  == 0..MaxPushes      \* 0 is the zero slot
Rings == Tracks \cup {Timeline}
Walls == 1..LastWall
Times == 0..(LastWall + Nanos)
CapacityOf(r) == IF r = Timeline THEN Capacity ELSE TrackCapacity
Slots(r)  == 0..(CapacityOf(r) - 1)
Queued(r) == head[r] - tail[r]
Wall(i)   == IF i = 0 THEN 0 ELSE log[i].wall
Latest(k) == seconds[k] * Nanos + nanos[k]   \* latestWall, read at once

Copy  == [item : Seqs, seq : Seqs]
Calls == [op : Operations,
          pc : {"seconds", "nanos", "sequence", "size", "tracks", "tail", "head",
                "slot", "item", "seq", "visit", "done"},
          through : Seqs, at : Times, seq : Seqs, floor : Seqs,
          ring : Rings, lo : Nat, hi : Nat, copy : Copy,
          got : Seq(Copy), best : Copy \cup {None},
          todo : SUBSET Tracks, again : BOOLEAN, sec : 0..LastWall,
          frame : [Tracks -> Copy \cup {None}]]

Cuts  == [through : Seqs, at : Walls]

TypeOK ==
  /\ mode \in Modes
  /\ sequence = Len(log) /\ timelineSize \in 0..(Capacity + 1) /\ err \in BOOLEAN
  /\ \A r \in Rings : /\ Queued(r) \in 0..CapacityOf(r)
                      /\ value[r] \in [Slots(r) -> Seqs]
                      /\ ready[r] \in [Slots(r) -> BOOLEAN]
  /\ first \in [Tracks -> Seqs] /\ count \in [Tracks -> 0..TrackCapacity]
  /\ \A k \in Tracks : Latest(k) \in Times
  /\ push.seq \in Seqs /\ push.into \in Rings
  /\ cursor \in [Consumers -> Seqs]
  /\ \A c \in Consumers : /\ call[c] = None \/ call[c] \in Calls
                          /\ cuts[c] = None \/ cuts[c] \in Cuts
  /\ log \in Seq([track : Tracks, wall : Walls])

Idle == [pc |-> "idle", track |-> None, wall |-> 0, seq |-> 0, into |-> Timeline]

Init ==
  /\ mode \in Modes
  /\ sequence = 0 /\ timelineSize = 0 /\ err = FALSE
  /\ head = [r \in Rings |-> 0] /\ tail = head
  /\ value = [r \in Rings |-> [s \in Slots(r) |-> 0]]
  /\ ready = [r \in Rings |-> [s \in Slots(r) |-> FALSE]]
  /\ first = [k \in Tracks |-> 0] /\ count = first
  /\ seconds = first /\ nanos = first
  /\ push = Idle
  /\ cursor = [c \in Consumers |-> 0] /\ cuts = [c \in Consumers |-> None]
  /\ call = cuts
  /\ log = << >> /\ made = [r \in Rings |-> << >>]

-----------------------------------------------------------------------------
(* The producer: Observe *)

GoTo(label) == push' = [push EXCEPT !.pc = label]
At(label)   == push.pc = label
Slot(r, p)  == p % CapacityOf(r)
UnchangedScalars == UNCHANGED <<sequence, timelineSize, err, track>>

Observe(k, w) ==
  /\ At("idle") /\ ~err /\ Len(log) < MaxPushes
  /\ mode.overlap \/ \A c \in Consumers : call[c] = None
  /\ sequence' = sequence + 1
  /\ push' = [pc |-> "first", track |-> k, wall |-> w, seq |-> sequence + 1,
              into |-> Timeline]
  /\ log' = Append(log, [track |-> k, wall |-> w])
  /\ made' = [made EXCEPT ![Timeline] = Append(@, sequence + 1),
                          ![k] = Append(@, sequence + 1)]
  /\ UNCHANGED <<timelineSize, err, ring, track>>

First ==
  /\ At("first")
  /\ first' = IF first[push.track] = 0 THEN [first EXCEPT ![push.track] = push.seq]
              ELSE first
  /\ GoTo("push")
  /\ UNCHANGED <<sequence, timelineSize, err, ring, count, seconds, nanos, history>>

\* The SPSC Push, on the timeline and then on the track.
Full == Queued(push.into) = CapacityOf(push.into)

\* Mutant: a push that a ring refuses leaves no error.
PushFailsQuiet ==
  /\ At("push") /\ Full /\ ~mode.dropOldest
  /\ push' = Idle
  /\ UNCHANGED <<clock, history>>

PushFails ==
  /\ At("push") /\ Full /\ ~mode.dropOldest
  /\ err' = TRUE /\ push' = Idle
  /\ UNCHANGED <<sequence, timelineSize, ring, track, history>>

PushStart ==
  /\ At("push") /\ (Full => mode.dropOldest)
  /\ GoTo(IF Full THEN "clear" ELSE "write")
  /\ UNCHANGED <<clock, history>>

Set(f, position, x) == [f EXCEPT ![push.into][Slot(push.into, position[push.into])] = x]

EvictClear ==
  /\ At("clear") /\ value' = Set(value, tail, 0) /\ GoTo("unready")
  /\ UnchangedScalars /\ UNCHANGED <<head, tail, ready, history>>

EvictUnready ==
  /\ At("unready") /\ ready' = Set(ready, tail, FALSE) /\ GoTo("advance")
  /\ UnchangedScalars /\ UNCHANGED <<head, tail, value, history>>

EvictAdvance ==
  /\ At("advance") /\ tail' = [tail EXCEPT ![push.into] = @ + 1] /\ GoTo("write")
  /\ UnchangedScalars /\ UNCHANGED <<head, value, ready, history>>

PushWrite ==
  /\ At("write") /\ value' = Set(value, head, push.seq) /\ GoTo("ready")
  /\ UnchangedScalars /\ UNCHANGED <<head, tail, ready, history>>

PushReady ==
  /\ At("ready") /\ ready' = Set(ready, head, TRUE) /\ GoTo("publish")
  /\ UnchangedScalars /\ UNCHANGED <<head, tail, value, history>>

PushPublish ==
  /\ At("publish") /\ head' = [head EXCEPT ![push.into] = @ + 1]
  /\ push' = IF push.into = Timeline
             THEN [push EXCEPT !.pc = "push", !.into = push.track]
             ELSE [push EXCEPT !.pc = "seconds"]
  /\ UnchangedScalars /\ UNCHANGED <<tail, value, ready, history>>

\* storeLatest, when the wall is after the latest one.
LatestSeconds ==
  /\ At("seconds")
  /\ IF push.wall > Latest(push.track)
     THEN /\ seconds' = [seconds EXCEPT ![push.track] = push.wall \div Nanos]
          /\ GoTo("nanos")
     ELSE /\ GoTo("count") /\ UNCHANGED seconds
  /\ UNCHANGED <<sequence, timelineSize, err, ring, first, count, nanos, history>>

LatestNanos ==
  /\ At("nanos")
  /\ nanos' = [nanos EXCEPT ![push.track] = push.wall % Nanos]
  /\ GoTo("count")
  /\ UNCHANGED <<sequence, timelineSize, err, ring, first, count, seconds, history>>

\* The count, which readers compare with zero only, is capped in one step.
Count ==
  /\ At("count")
  /\ count' = [count EXCEPT ![push.track] =
                 IF @ < Queued(push.track) THEN @ + 1 ELSE Queued(push.track)]
  /\ GoTo("size")
  /\ UNCHANGED <<sequence, timelineSize, err, ring, first, seconds, nanos, history>>

Size ==
  /\ At("size") /\ timelineSize' = timelineSize + 1
  /\ IF timelineSize + 1 > Queued(Timeline) THEN GoTo("cap") ELSE push' = Idle
  /\ UNCHANGED <<sequence, err, ring, track, history>>

SizeCap ==
  /\ At("cap") /\ timelineSize' = Queued(Timeline)
  /\ push' = Idle
  /\ UNCHANGED <<sequence, err, ring, track, history>>

Producer ==
  /\ \/ \E k \in mode.tracks, w \in 1..mode.lastWall : Observe(k, w)
     \/ First \/ PushFails \/ PushStart \/ EvictClear \/ EvictUnready \/ EvictAdvance
     \/ PushWrite \/ PushReady \/ PushPublish
     \/ LatestSeconds \/ LatestNanos \/ Count \/ Size \/ SizeCap
  /\ UNCHANGED <<cursor, cuts, call>>

-----------------------------------------------------------------------------
(* Consumers *)

Blank == [op |-> "events", pc |-> "done", through |-> 0, at |-> 0, seq |-> 0,
          floor |-> 0, ring |-> Timeline, lo |-> 0, hi |-> 0,
          copy |-> [item |-> 0, seq |-> 0], got |-> << >>, best |-> None,
          todo |-> Tracks, again |-> FALSE, sec |-> 0,
          frame |-> [k \in Tracks |-> None]]

MayCall(c) == call[c] = None /\ ~err /\ (mode.overlap \/ At("idle"))
In(c, label) == call[c] # None /\ call[c].pc = label
Becomes(c, x) == call' = [call EXCEPT ![c] = x] /\ UNCHANGED <<cursor, cuts>>

\* Cut.  Frame is a Cut, then a FrameThrough.
Cut(c, t) ==
  /\ MayCall(c) /\ "cut" \in mode.calls
  /\ cuts' = [cuts EXCEPT ![c] = [through |-> sequence, at |-> t]]
  /\ UNCHANGED <<cursor, call>>

\* EventsAfter.  With a cut before the cursor it returns nothing.
EventsCall(c) ==
  /\ MayCall(c) /\ "events" \in mode.calls
  /\ cuts[c] # None /\ cursor[c] < cuts[c].through
  /\ Becomes(c, [Blank EXCEPT !.pc = "size", !.seq = sequence,
                              !.through = cuts[c].through])

\* The start of the retained window, sequence - timelineSize, wraps when the
\* timeline has grown since the sequence was loaded.
EventsSize(c) ==
  /\ In(c, "size")
  /\ LET before == IF timelineSize > call[c].seq THEN MaxPushes
                   ELSE call[c].seq - timelineSize
         after  == IF timelineSize > 0 /\ cursor[c] < before THEN before
                   ELSE cursor[c] IN
       Becomes(c, [call[c] EXCEPT !.floor = after, !.pc = "tail"])

\* Snapshot: tail, head, and the slots between.
WalkTail(c) ==
  /\ In(c, "tail")
  /\ Becomes(c, [call[c] EXCEPT !.lo = tail[call[c].ring], !.pc = "head"])

WalkHead(c) ==
  /\ In(c, "head")
  /\ Becomes(c, [call[c] EXCEPT !.hi = head[call[c].ring], !.pc = "slot"])

Value(x) == value[x.ring][Slot(x.ring, x.lo)]
Ready(x) == ready[x.ring][Slot(x.ring, x.lo)]

WalkEnd(c) ==
  /\ In(c, "slot") /\ call[c].lo = call[c].hi
  /\ Becomes(c, [call[c] EXCEPT !.pc = IF call[c].op = "events" THEN "done" ELSE "visit"])

WalkSkip(c) ==
  /\ In(c, "slot") /\ call[c].lo < call[c].hi /\ ~Ready(call[c])
  /\ Becomes(c, [call[c] EXCEPT !.lo = @ + 1])

\* One half of a ready slot is copied, ...
WalkHalf(c) ==
  /\ In(c, "slot") /\ call[c].lo < call[c].hi /\ Ready(call[c])
  /\ LET slot == Value(call[c]) IN
       \/ Becomes(c, [call[c] EXCEPT !.copy = [item |-> slot, seq |-> 0], !.pc = "seq"])
       \/ Becomes(c, [call[c] EXCEPT !.copy = [item |-> 0, seq |-> slot], !.pc = "item"])

\* ... and the other half.  What the visitor makes of the copy, after the walk,
\* depends on what the call has loaded before: it is decided here.
Copied(x) == IF x.pc = "seq" THEN [item |-> x.copy.item, seq |-> Value(x)]
             ELSE [item |-> Value(x), seq |-> x.copy.seq]
Onward(x) == [x EXCEPT !.lo = @ + 1, !.pc = "slot"]

\* Mutant: observations after the cut are handed out too.
TakesAll(x, copy) == copy.seq > x.floor

Takes(x, copy) == copy.seq > x.floor /\ copy.seq <= x.through
EventsVisit(c) ==
  /\ In(c, "seq") \/ In(c, "item")
  /\ call[c].op = "events"
  /\ LET copy == Copied(call[c]) IN
       Becomes(c, [Onward(call[c]) EXCEPT !.got = IF Takes(call[c], copy) THEN Append(@, copy)
                                                  ELSE @])

\* FrameThrough: frame loads the sequence and visits the tracks.
FrameCall(c) ==
  /\ MayCall(c) /\ "frame" \in mode.calls /\ cuts[c] # None
  /\ Becomes(c, [Blank EXCEPT !.op = "frame", !.pc = "tracks", !.seq = sequence,
                              !.through = cuts[c].through, !.at = cuts[c].at])

Looks(x, k, again) == [x EXCEPT !.ring = k, !.todo = @ \ {k}, !.again = again,
                                !.floor = first[k], !.best = None, !.pc = "tail"]
FrameTrack(c) ==
  /\ In(c, "tracks")
  /\ \E k \in call[c].todo : Becomes(c, Looks(call[c], k, FALSE))

\* at: the eligible slot with the greatest wall, then ingest sequence.
Better(copy, best) == \/ Wall(copy.item) > Wall(best.item)
                      \/ Wall(copy.item) = Wall(best.item) /\ copy.seq >= best.seq
Eligible(x, copy) ==
  /\ copy.seq >= x.floor /\ copy.seq <= (IF x.again THEN x.seq ELSE x.through)
  /\ Wall(copy.item) <= x.at
FrameVisit(c) ==
  /\ In(c, "seq") \/ In(c, "item")
  /\ call[c].op # "events"
  /\ LET copy == Copied(call[c]) best == call[c].best IN
       Becomes(c, [Onward(call[c]) EXCEPT
                     !.best = IF Eligible(call[c], copy) /\ (best = None \/ Better(copy, best))
                              THEN copy ELSE best])

\* A track without one that was there at the cut is read again, without it.
Missed(x) == x.best = None /\ ~x.again /\ first[x.ring] <= x.through
FrameAgain(c) ==
  /\ In(c, "visit") /\ Missed(call[c])
  /\ Becomes(c, Looks(call[c], call[c].ring, TRUE))

FrameKeep(c) ==
  /\ In(c, "visit") /\ ~Missed(call[c])
  /\ Becomes(c, [call[c] EXCEPT !.frame[call[c].ring] = call[c].best, !.pc = "tracks"])

FrameEnd(c) ==
  /\ In(c, "tracks") /\ call[c].todo = {}
  /\ Becomes(c, [call[c] EXCEPT !.pc = "done"])

\* Aligned: the least latest wall of the populated tracks, then a frame at it.
AlignedCall(c) ==
  /\ MayCall(c) /\ "aligned" \in mode.calls
  /\ Becomes(c, [Blank EXCEPT !.op = "aligned", !.pc = "seconds"])

AlignedSeconds(c) ==
  /\ In(c, "seconds")
  /\ \E k \in call[c].todo :
       Becomes(c, [call[c] EXCEPT !.ring = k, !.sec = seconds[k], !.todo = @ \ {k},
                                  !.pc = "nanos"])

AlignedNanos(c) ==
  /\ In(c, "nanos")
  /\ LET latest == call[c].sec * Nanos + nanos[call[c].ring]
         skip   == \/ count[call[c].ring] = 0
                   \/ call[c].at # 0 /\ latest >= call[c].at IN
       Becomes(c, [call[c] EXCEPT !.at = IF skip THEN @ ELSE latest, !.pc = "seconds"])

AlignedEmpty(c) ==
  /\ In(c, "seconds") /\ call[c].todo = {} /\ call[c].at = 0
  /\ Becomes(c, None)

AlignedThrough(c) ==
  /\ In(c, "seconds") /\ call[c].todo = {} /\ call[c].at # 0
  /\ Becomes(c, [call[c] EXCEPT !.through = sequence, !.pc = "sequence"])

AlignedFrame(c) ==
  /\ In(c, "sequence")
  /\ Becomes(c, [call[c] EXCEPT !.seq = sequence, !.todo = Tracks, !.pc = "tracks"])

\* The call returns; after EventsAfter the caller keeps the new cursor.
Return(c) ==
  /\ In(c, "done")
  /\ cursor' = IF call[c].op = "events" THEN [cursor EXCEPT ![c] = call[c].through]
               ELSE cursor
  /\ call' = [call EXCEPT ![c] = None]
  /\ UNCHANGED cuts

Consumer(c) ==
  \/ \E t \in 1..mode.lastWall : Cut(c, t)
  \/ EventsCall(c) \/ EventsSize(c) \/ EventsVisit(c)
  \/ WalkTail(c) \/ WalkHead(c) \/ WalkEnd(c) \/ WalkSkip(c) \/ WalkHalf(c)
  \/ FrameCall(c) \/ FrameTrack(c) \/ FrameVisit(c) \/ FrameAgain(c) \/ FrameKeep(c)
  \/ FrameEnd(c)
  \/ AlignedCall(c) \/ AlignedSeconds(c) \/ AlignedNanos(c) \/ AlignedEmpty(c)
  \/ AlignedThrough(c) \/ AlignedFrame(c)
  \/ Return(c)

Next == /\ \/ Producer
           \/ \E c \in Consumers : Consumer(c) /\ UNCHANGED <<clock, push, history>>
        /\ UNCHANGED mode

Spec == Init /\ [][Next]_vars

-----------------------------------------------------------------------------
(* Properties *)

\* What the rings should hold: the last observations, of all or of a track.
LastOf(r)   == LET n == Len(made[r]) capacity == CapacityOf(r) IN
                 IF n <= capacity THEN made[r] ELSE SubSeq(made[r], n - capacity + 1, n)
Retained(r) == {LastOf(r)[i] : i \in DOMAIN LastOf(r)}
Contents(r) == [i \in 1..Queued(r) |-> value[r][Slot(r, tail[r] + i - 1)]]

\* Between two pushes the timeline and every track hold the newest
\* observations in order, and the counters and latest walls agree with them.
RetainedWindow ==
  At("idle") /\ ~err =>
    /\ \A r \in Rings : Contents(r) = LastOf(r)
    /\ timelineSize = Len(LastOf(Timeline))
    /\ \A k \in Tracks :
         /\ count[k] = Len(LastOf(k))
         /\ made[k] # << >> =>
              /\ first[k] = made[k][1]
              /\ \A i \in DOMAIN made[k] : Wall(made[k][i]) <= Latest(k)
              /\ \E i \in DOMAIN made[k] : Wall(made[k][i]) = Latest(k)

\* The variables keep to their ranges, and the rings to the newest observations.
Inv == TypeOK /\ RetainedWindow

Done(c, op) == In(c, "done") /\ call[c].op = op

\* EventsAfter without overlapping pushes: exactly the retained observations
\* after the cursor and through the cut, whole and in ingress order.
EventsExact ==
  \A c \in Consumers : ~mode.overlap /\ Done(c, "events") =>
    LET got == call[c].got IN
      /\ \A i \in DOMAIN got : got[i].item = got[i].seq
      /\ \A i, j \in DOMAIN got : i < j => got[i].seq < got[j].seq
      /\ {got[i].seq : i \in DOMAIN got}
           = {i \in Retained(Timeline) : i > cursor[c] /\ i <= call[c].through}

\* A frame without overlapping pushes: of each track the retained observation
\* with the greatest event time within the cut; of a track that has cycled
\* past the cut, the one with the greatest event time not after the cut's.
Framed(x, k) ==
  LET fit  == {i \in Retained(k) : Wall(i) <= x.at}
      in   == {i \in fit : i <= x.through}
      pick == IF in # {} THEN in
              ELSE IF made[k] # << >> /\ made[k][1] <= x.through THEN fit ELSE {}
  IN IF pick = {} THEN x.frame[k] = None
     ELSE LET i == x.frame[k].item IN
            /\ x.frame[k].seq = i /\ i \in pick
            /\ \A j \in pick : Wall(j) < Wall(i) \/ (Wall(j) = Wall(i) /\ j <= i)
FrameExact ==
  \A c \in Consumers : ~mode.overlap /\ Done(c, "frame") =>
    \A k \in Tracks : Framed(call[c], k)

\* What EventsAfter hands out was not handed out before, and is not newer
\* than the cut, whatever the producer does meanwhile.
EventsWithinCut ==
  \A c \in Consumers : Done(c, "events") =>
    \A i \in DOMAIN call[c].got : call[c].got[i].seq \in (cursor[c] + 1)..call[c].through

\* Aligned without overlapping pushes: at the least of the tracks' greatest
\* event times ("the minimum latest timestamp across populated tracks"), and
\* its frame is that of a cut at that time.
AlignedWatermark ==
  \A c \in Consumers : ~mode.overlap /\ Done(c, "aligned") =>
    /\ \E k \in Tracks : made[k] # << >> /\ Latest(k) = call[c].at
    /\ \A k \in Tracks : made[k] # << >> =>
         \E i \in DOMAIN made[k] : Wall(made[k][i]) >= call[c].at
    /\ \A k \in Tracks : Framed(call[c], k)

-----------------------------------------------------------------------------
(* Why they hold: an inductive invariant *)

Least(i, j) == IF i <= j THEN i ELSE j
Most(i, j)  == IF i >= j THEN i ELSE j

\* The labels of a push until it has published in a ring, and until it has
\* stored the latest wall, the count, and the size of the timeline.
Pushing    == {"first", "push", "clear", "unready", "advance", "write", "ready", "publish"}
Evicting   == {"clear", "unready", "advance"}
Writing    == {"write", "ready", "publish"}
Timing     == Pushing \cup {"seconds", "nanos"}
Counting   == Timing \cup {"count"}
Sizing     == Counting \cup {"size"}
Labels     == Sizing \cup {"cap", "idle"}

\* How many of its observations a ring or a field of a track has seen.
Published(r)    == Len(made[r]) - IF push.pc \in Pushing /\ r \in {push.into, push.track}
                                  THEN 1 ELSE 0
Seen(k, labels) == Len(made[k]) - IF push.pc \in labels /\ k = push.track THEN 1 ELSE 0

Pushes == [pc : Labels, track : Tracks \cup {None}, wall : Nat, seq : Seqs, into : Rings]

\* The histories, and the producer's place in them.
HistoryOK ==
  /\ mode \in Modes
  /\ log \in Seq([track : Tracks, wall : Walls])
  /\ sequence = Len(log) /\ sequence \in Seqs
  /\ made \in [Rings -> Seq(Nat)]
  /\ \A r \in Rings : \A i \in 1..Len(made[r]) : made[r][i] \in 1..sequence
  /\ \A r \in Rings : \A i, j \in 1..Len(made[r]) : i < j => made[r][i] < made[r][j]
  /\ Len(made[Timeline]) = sequence /\ \A i \in 1..sequence : made[Timeline][i] = i
  /\ push \in Pushes /\ err \in BOOLEAN /\ (err => At("idle"))
  /\ ~At("idle") => /\ push.track \in Tracks /\ push.into \in {Timeline, push.track}
                    /\ push.seq = sequence /\ sequence >= 1
                    /\ log[sequence].wall = push.wall
                    /\ \A r \in {Timeline, push.track} :
                         Len(made[r]) >= 1 /\ made[r][Len(made[r])] = sequence
  /\ At("first") => push.into = Timeline
  /\ push.pc \in Sizing \ Pushing => push.into = push.track

\* Where the producer is in a ring.
On(r, labels) == r = push.into /\ push.pc \in labels

\* A ring's window is that of the observations that it has taken.
WindowOK(r) ==
  /\ head[r] \in Nat /\ tail[r] \in Nat /\ tail[r] <= head[r]
  /\ head[r] <= tail[r] + CapacityOf(r)
  /\ On(r, Evicting) => head[r] = tail[r] + CapacityOf(r)
  /\ ~err => /\ head[r] = Published(r)
             /\ tail[r] = Most(0, head[r] - CapacityOf(r) + IF On(r, Writing) THEN 1 ELSE 0)

SlotsOK(r) ==
  /\ value[r] \in [Slots(r) -> Seqs] /\ ready[r] \in [Slots(r) -> BOOLEAN]
  /\ ~err => \A p \in Nat : tail[r] <= p /\ p < head[r] =>
       /\ value[r][Slot(r, p)] = made[r][p + 1] \/ (On(r, {"unready", "advance"}) /\ p = tail[r])
       /\ ready[r][Slot(r, p)] \/ (On(r, {"advance"}) /\ p = tail[r])
  /\ On(r, {"ready", "publish"}) => value[r][Slot(r, head[r])] = push.seq
  /\ On(r, {"publish"}) => ready[r][Slot(r, head[r])]

\* The walls of n observations of a track are w at most, and one is, if any.
Latestof(k, n, w) ==
  /\ n = 0 => w = 0
  /\ \A i \in 1..n : Wall(made[k][i]) <= w
  /\ n > 0 => \E i \in 1..n : Wall(made[k][i]) = w

WallsOK(k) ==
  /\ seconds[k] \in Nat /\ nanos[k] \in Nat /\ nanos[k] < Nanos
  /\ seconds[k] * Nanos <= LastWall
  /\ ~err => LET n == Seen(k, Timing) IN
       IF At("nanos") /\ k = push.track
       THEN /\ seconds[k] = push.wall \div Nanos
            /\ \A i \in 1..n : Wall(made[k][i]) < push.wall
       ELSE Latestof(k, n, Latest(k))

ScalarsOK ==
  /\ first \in [Tracks -> Seqs] /\ count \in [Tracks -> Nat]
  /\ seconds \in [Tracks -> Nat] /\ nanos \in [Tracks -> Nat]
  /\ \A k \in Tracks : /\ first[k] = IF Seen(k, {"first"}) = 0 THEN 0 ELSE made[k][1]
                       /\ count[k] <= TrackCapacity
                       /\ ~err => count[k] = Least(TrackCapacity, Seen(k, Counting))
  /\ timelineSize \in 0..(Capacity + 1)
  /\ ~err => timelineSize = Least(IF At("cap") THEN Capacity + 1 ELSE Capacity,
                                  sequence - IF push.pc \in Sizing THEN 1 ELSE 0)
  /\ At("cap") => timelineSize = Capacity + 1

RingsOK == /\ head \in [Rings -> Nat] /\ tail \in [Rings -> Nat]
           /\ DOMAIN value = Rings /\ DOMAIN ready = Rings
           /\ \A r \in Rings : WindowOK(r) /\ SlotsOK(r)

ProducerOK == HistoryOK /\ RingsOK /\ ScalarsOK /\ \A k \in Tracks : WallsOK(k)

\* What a call knows, whatever the producer does: after a call of EventsAfter
\* has decided where to begin, it takes nothing that is not after the cursor.
Walking == {"tail", "head", "slot", "item", "seq"}
CallOK(x, from) ==
  /\ x \in Calls /\ x.op # "cut" /\ x.sec * Nanos <= LastWall
  /\ x.op = "events" =>
       /\ x.pc \in Walking \cup {"size", "done"}
       /\ x.pc # "size" => x.floor >= from
       /\ \A i \in DOMAIN x.got : x.got[i].seq > x.floor /\ x.got[i].seq <= x.through
       /\ x.pc = "size" => x.got = << >>
  /\ x.op # "events" /\ x.pc \in Walking \cup {"visit", "nanos"} => x.ring \in Tracks
  /\ x.pc = "size" => x.op = "events"
  /\ x.pc \in {"seconds", "nanos", "sequence"} => x.op = "aligned"

\* What it knows if no push overlaps.  Where the walk of the ring is:
WalkOK(x) ==
  /\ x.pc = "head" => x.lo = tail[x.ring]
  /\ x.pc \in {"slot", "item", "seq"} =>
       x.hi = head[x.ring] /\ tail[x.ring] <= x.lo /\ x.lo <= x.hi
  /\ x.pc \in {"item", "seq"} => x.lo < x.hi
  /\ x.pc = "seq" => x.copy.item = Value(x)
  /\ x.pc = "item" => x.copy.seq = Value(x)

\* An EventsAfter has taken what lies between its beginning and the walk.
EventsOK(x, from) ==
  /\ x.ring = Timeline /\ x.seq = sequence /\ x.through <= sequence
  /\ x.pc # "size" => x.floor = Most(from, sequence - Capacity)
  /\ x.pc \in {"size", "tail", "head"} => x.got = << >>
  /\ x.pc \in {"slot", "item", "seq", "done"} =>
       /\ Len(x.got) = Most(0, Least(IF x.pc = "done" THEN sequence ELSE x.lo, x.through)
                                 - x.floor)
       /\ \A i \in DOMAIN x.got : x.got[i] = [item |-> x.floor + i, seq |-> x.floor + i]

\* A frame has the best of the slots that the walk of a track has passed.
Whole(i) == [item |-> i, seq |-> i]
BestOf(x, seen) ==
  IF x.best = None THEN \A i \in seen : ~Eligible(x, Whole(i))
  ELSE \E i \in seen : /\ x.best = Whole(i) /\ Eligible(x, x.best)
                       /\ \A j \in seen : Eligible(x, Whole(j)) =>
                            Wall(j) < Wall(i) \/ (Wall(j) = Wall(i) /\ j <= i)
Passed(x) == {made[x.ring][p + 1] : p \in tail[x.ring]..(x.lo - 1)}
TrackOK(x) ==
  /\ x.ring \in Tracks \ x.todo /\ x.floor = first[x.ring]
  /\ x.pc \in {"tail", "head"} => x.best = None
  /\ x.pc \in {"slot", "item", "seq"} => BestOf(x, Passed(x))
  /\ x.pc = "visit" => BestOf(x, Retained(x.ring))
  /\ x.again => /\ first[x.ring] <= x.through
                /\ \A i \in Retained(x.ring) : i > x.through \/ Wall(i) > x.at
FrameOK(x) ==
  /\ x.pc \in Walking \cup {"tracks", "visit", "done"}
  /\ x.seq = sequence /\ x.through <= sequence
  /\ x.pc \in Walking \cup {"visit"} => TrackOK(x)
  /\ x.pc = "done" => x.todo = {}
  /\ \A k \in Tracks \ x.todo :
       (k = x.ring /\ x.pc \notin {"tracks", "done"}) \/ Framed(x, k)

\* An Aligned has the least of the latest walls of the tracks that it has read.
LeastOf(ks, w) ==
  /\ w = 0 => \A k \in ks : made[k] = << >>
  /\ w # 0 => \E k \in ks : made[k] # << >> /\ Latest(k) = w
  /\ \A k \in ks : made[k] # << >> => Latest(k) >= w
AlignedOK(x) ==
  IF x.pc = "seconds" THEN LeastOf(Tracks \ x.todo, x.at)
  ELSE IF x.pc = "nanos"
  THEN /\ x.ring \in Tracks \ x.todo /\ x.sec = seconds[x.ring]
       /\ LeastOf((Tracks \ x.todo) \ {x.ring}, x.at)
  ELSE /\ x.at # 0 /\ LeastOf(Tracks, x.at)
       /\ IF x.pc = "sequence" THEN x.through = sequence ELSE FrameOK(x)

ReadOK(x, from) ==
  /\ WalkOK(x)
  /\ x.op = "events" => EventsOK(x, from)
  /\ x.op = "frame" => FrameOK(x)
  /\ x.op = "aligned" => AlignedOK(x)

ConsumersOK ==
  /\ cursor \in [Consumers -> Seqs] /\ DOMAIN call = Consumers /\ DOMAIN cuts = Consumers
  /\ \A c \in Consumers :
       /\ cuts[c] = None \/ (cuts[c] \in Cuts /\ cuts[c].through <= sequence)
       /\ call[c] # None => /\ CallOK(call[c], cursor[c])
                            /\ ~mode.overlap => At("idle") /\ ~err /\ ReadOK(call[c], cursor[c])

IInv == ProducerOK /\ ConsumersOK
=============================================================================
