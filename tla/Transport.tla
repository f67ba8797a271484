------------------------------ MODULE Transport ------------------------------
(* transport/*.go, with the components of io.go and structure/mpmc.go that    *)
(* frames are copied through.                                                 *)
(*                                                                            *)
(* A component is read and written by its owner only, so a call is one        *)
(* action.  A call walks the components it is built over: Read, Write, Flush  *)
(* and Close take the world before them and return the world behind them,     *)
(* with what was read and the error.  A frame is two pieces, a header and a   *)
(* body: less than a frame does not unpack, and a short buffer holds one.     *)
EXTENDS Integers, SequencesExt

CONSTANTS Names, Kind,       \* the components, and what each one is
          Parts,             \* what a component is built over, in order
          Edges,             \* of a graph: from, to
          Values, None, Mixed,
          Reply(_),          \* what a computing stage makes of a value
          Dropped,           \* the values a gate's Transform drops
          Uses,              \* arrangements: see Use
          MaxCalls, MaxFaults   \* bounds

Piece == Values \X {1, 2}
Frame(v) == <<<<v, 1>>, <<v, 2>>>>
Header(v) == <<<<v, 1>>>>
Rest(v) == <<<<v, 2>>>>

\* A way of using some components: the ones a caller reads, writes and closes,
\* the streams a flip-flop puts around two of them, what it holds at first, the
\* ones whose reads or writes may fail, the size of the copy buffer, and the
\* stages on the way, the last one first.
Use == [reads : SUBSET Names, writes : SUBSET Names, flips : SUBSET (Names \X Names),
        chunks : SUBSET Seq(Piece), first : SUBSET Names, breaks : SUBSET Names, size : 1..2,
        flow : Seq(Names)]

\* What is assumed of the constants.
TransportAssumption ==
  /\ None \notin Values /\ Mixed \notin Values /\ Dropped \subseteq Values
  /\ MaxCalls \in Nat /\ MaxFaults \in Nat

VARIABLES use,
          world,      \* the state of the components
          written, delivered,   \* history: pieces accepted, pieces read
          told,       \* history: the chunks written to an artifact
          blank,      \* history: the last write had nothing in it
          failed,     \* history: a call has failed, or a ring has lost a value
          wasted,     \* history: otherwise than by the flush of a stream
          last,       \* the last call: what it was, its error
          calls, faults

vars == <<use, world, written, delivered, told, blank, failed, wasted, last, calls, faults>>

\* data: what a component has to read (a stream: what it has to flush); kept: a
\* write buffer in front of an artifact; holds: the artifact; processed: the
\* pipelines and graphs that have copied; shut: the rings that have been closed.
World == [data : [Names -> Seq(Piece)], kept : [Names -> Seq(Piece)],
          holds : [Names -> Values \cup {None, Mixed}],
          processed : SUBSET Names, shut : SUBSET Names,
          fault : [at : Names \cup {None}, verb : {"read", "write"}, skip : BOOLEAN],
          mixes : BOOLEAN, lost : BOOLEAN]
NoFault == [at |-> None, verb |-> "read", skip |-> FALSE]

Init ==
  /\ use \in Uses
  /\ \E v \in Values :
       world = [data |-> [c \in Names |-> IF c \in use.first THEN Frame(v) ELSE <<>>],
                kept |-> [c \in Names |-> <<>>],
                holds |-> [c \in Names |-> IF c \in use.first THEN v ELSE None],
                processed |-> {}, shut |-> {}, fault |-> NoFault, mixes |-> FALSE, lost |-> FALSE]
  /\ written = <<>> /\ delivered = <<>> /\ told = <<>>
  /\ blank = FALSE /\ failed = FALSE /\ wasted = FALSE
  /\ last = [call |-> "none", err |-> "none"]
  /\ calls = 0 /\ faults = 0

-----------------------------------------------------------------------------
(* Components *)

Result(w, data, err) == [w |-> w, data |-> data, err |-> err]
Failed(r) == r.err \notin {"none", "eof"}

\* The environment may have a read or a write of a component fail: the next
\* one in this call, or the one after it.
Fails(w, c, verb) == w.fault = [at |-> c, verb |-> verb, skip |-> FALSE]
Counted(w, c, verb) == IF w.fault.at = c /\ w.fault.verb = verb THEN [w EXCEPT !.fault.skip = FALSE] ELSE w
Hold(w, c, data) == [w EXCEPT !.data[c] = data]

\* Unpack, which a frame followed by more bytes passes; bytes that begin with a
\* frame's header and go on with something else may make a broken artifact.
Unpack(w, p) ==
  CASE Len(p) >= 2 /\ p[1][2] = 1 /\ p[2] = <<p[1][1], 2>> -> p[1][1]
    [] Len(p) >= 2 /\ p[1][2] = 1 /\ p[2] # <<p[1][1], 2>> /\ w.mixes -> Mixed
    [] OTHER -> None

\* PackInto: a complete frame, or an error.
PackInto(w, v, n) == Result(w, SubSeq(Frame(v), 1, n), IF n < 2 THEN "short" ELSE "eof")

\* A buffer, and the packed artifact behind an RWCStream.
ReadBuffer(w, c, n) ==
  CASE Fails(w, c, "read") -> Result([w EXCEPT !.fault = NoFault], <<>>, "broken")
    [] ~Fails(w, c, "read") /\ w.data[c] = <<>> -> Result(w, <<>>, "eof")
    [] OTHER -> LET m == IF n < Len(w.data[c]) THEN n ELSE Len(w.data[c])
                IN  Result(Counted(Hold(w, c, SubSeq(w.data[c], m + 1, Len(w.data[c]))), c, "read"),
                           SubSeq(w.data[c], 1, m), "none")
WriteBuffer(w, c, p) ==
  IF Fails(w, c, "write") THEN Result([w EXCEPT !.fault = NoFault], <<>>, "broken")
  ELSE Result(Counted(Hold(w, c, w.data[c] \o p), c, "write"), <<>>, "none")

\* MPMCRing.Read pops a value before it knows that the buffer is large enough;
\* MPMCRing.Write takes one frame, whatever comes behind it, and none once the
\* ring is closed.
ReadRing(w, c, n) ==
  IF w.data[c] = <<>> THEN Result(w, <<>>, "eof")
  ELSE PackInto([Hold(w, c, SubSeq(w.data[c], 3, Len(w.data[c]))) EXCEPT !.lost = @ \/ n < 2],
                w.data[c][1][1], n)
WriteRing(w, c, p) ==
  IF Unpack(w, p) \notin Values \/ c \in w.shut THEN Result(w, <<>>, "broken")
  ELSE Result([Hold(w, c, w.data[c] \o Frame(Unpack(w, p))) EXCEPT !.lost = @ \/ Len(p) > 2],
              <<>>, "none")

\* A computing stage collects what is written and answers it at every read.
ReadStage(w, c, n) ==
  IF Unpack(w, w.data[c]) \notin Values THEN Result(w, <<>>, "broken")
  ELSE PackInto([w EXCEPT !.kept[c] = <<>>], Reply(Unpack(w, w.data[c])), n)
WriteStage(w, c, p) ==
  Result([w EXCEPT !.kept[c] = @ \o p, !.data[c] = w.kept[c] \o p], <<>>, "none")

\* Mutant: what has been committed is kept.
CommitKeeps(w, c) ==
  LET v == Unpack(w, w.kept[c])
  IN  IF w.kept[c] = <<>> \/ v = None THEN w ELSE [w EXCEPT !.holds[c] = v]

\* commit: the buffer is kept until it unpacks.
Commit(w, c) ==
  LET v == Unpack(w, w.kept[c])
  IN  IF w.kept[c] = <<>> \/ v = None THEN w
      ELSE [w EXCEPT !.holds[c] = v, !.kept[c] = <<>>]
WriteArtifact(w, c, p) == Result(Commit([w EXCEPT !.kept[c] = @ \o p], c), <<>>, "none")
CloseArtifact(w, c) ==
  Result(Commit(w, c), <<>>, IF Commit(w, c).kept[c] = <<>> THEN "none" ELSE "broken")

\* A gate's Transform drops a slice for the header it begins with.
Forwarded(p) == p # <<>> /\ ~(p[1][2] = 1 /\ p[1][1] \in Dropped)

-----------------------------------------------------------------------------
(* Components over components *)

\* What a call to a component does: verb is one of Read, Write, Flush, Close and
\* Drain, and x what the call is given.
RECURSIVE Do(_, _, _, _)
Read(w, c, n) == Do(w, "read", c, n)
Write(w, c, p) == Do(w, "write", c, p)
Flush(w, c) == Do(w, "flush", c, 0)
Close(w, c) == Do(w, "close", c, 0)

\* io.TeeReader: what is read is written to the other side, whose error is the
\* reader's.
TeeEnds(r, copied) == Result(copied.w, r.data, IF copied.err = "none" THEN r.err ELSE copied.err)
Tee(r, backward) == IF r.data = <<>> THEN r ELSE TeeEnds(r, Write(r.w, backward, r.data))

\* readFrameWithBuffer: reads until an error; one that is not the end loses
\* what was read.
Prefixed(r, rest) == IF rest.err = "none" THEN [rest EXCEPT !.data = r.data \o @] ELSE rest
Drained(r, c, size) ==
  CASE r.err = "none" -> Prefixed(r, Do(r.w, "drain", c, size))
    [] r.err = "eof"  -> [r EXCEPT !.err = "none"]
    [] OTHER          -> Result(r.w, <<>>, r.err)
\* readFrame: a short buffer starts again with a larger one.
Larger(r, c) == IF r.err = "short" THEN Do(r.w, "drain", c, 2) ELSE r
readFrame(w, c) == Larger(Do(w, "drain", c, use.size), c)

\* Copy, which flushes a stream it has copied to whatever has happened.
Copied(f, destination) ==
  CASE f.err # "none" -> f
    [] f.err = "none" /\ f.data = <<>> -> Result(f.w, <<>>, "eof")
    [] OTHER -> Write(f.w, destination, f.data)
FirstError(r, f) == Result(f.w, <<>>, IF r.err = "none" THEN f.err ELSE r.err)
Flushed(r, destination) ==
  IF Kind[destination] = "stream" THEN FirstError(r, Flush(r.w, destination)) ELSE r
Copy(w, destination, origin) == Flushed(Copied(readFrame(w, origin), destination), destination)

Done(w) == Result(w, <<>>, "none")
\* Steps over a list of components or edges, up to the first error.
Steps(w, list, Step(_, _)) ==
  FoldLeft(LAMBDA r, x : IF r.err = "none" THEN Step(r.w, x) ELSE r, Done(w), list)

Again(r, c) == [r EXCEPT !.w.processed = @ \ {c}]   \* the next read copies again
ReadLast(r, c) ==
  IF r.err = "eof" \/ (r.err = "none" /\ r.data = <<>>) THEN Again([r EXCEPT !.err = "eof"], c)
  ELSE r
Pairs(parts) == [i \in 1..(Len(parts) - 1) |-> <<parts[i], parts[i + 1]>>]
PipelineRead(fed, c, n) ==
  CASE fed.err = "eof" -> Again([fed EXCEPT !.data = <<>>], c)
    [] fed.err = "none" -> ReadLast(Read([fed.w EXCEPT !.processed = @ \cup {c}], Last(Parts[c]), n), c)
    [] OTHER -> [fed EXCEPT !.data = <<>>]
ReadPipeline(w, c, n) ==
  IF Parts[c] = <<>> THEN Result(w, <<>>, "eof")
  ELSE PipelineRead(Steps(w, IF c \in w.processed THEN <<>> ELSE Pairs(Parts[c]),
                          LAMBDA v, pair : Copy(v, pair[2], pair[1])), c, n)

\* The edges of a graph in order; any error ends the read, the end of an edge's
\* source as well; edges to or from what is not a node are skipped.
GraphRead(done, c, n) ==
  IF done.err = "none" THEN Read([done.w EXCEPT !.processed = @ \cup {c}], Parts[c][1], n)
  ELSE [done EXCEPT !.data = <<>>]
ReadGraph(w, c, n) ==
  GraphRead(Steps(w, IF c \in w.processed THEN <<>>
                     ELSE SelectSeq(Edges, LAMBDA edge : edge[1] \in Names /\ edge[2] \in Names),
                  LAMBDA v, edge : Copy(v, edge[2], edge[1])), c, n)

ReadAny(w, c, n) ==
  CASE Kind[c] \in {"buffer", "artifact"} -> ReadBuffer(w, c, n)
    [] Kind[c] = "ring" -> ReadRing(w, c, n)
    [] Kind[c] = "stage" -> ReadStage(w, c, n)
    [] Kind[c] = "sink" -> Result(w, <<>>, "eof")
    [] Kind[c] \in {"gate", "stream", "pump"} -> Read(w, Parts[c][1], n)
    [] Kind[c] = "feedback" -> Tee(Read(w, Parts[c][1], n), Parts[c][2])
    [] Kind[c] = "pipeline" -> ReadPipeline(w, c, n)
    [] Kind[c] = "graph" -> ReadGraph(w, c, n)

\* Mutant: a write does not make the pipeline copy again.
ReopenedNever(w, c) == w
\* A write makes the next read of a pipeline or a graph copy again.
Reopened(w, c) == [w EXCEPT !.processed = @ \ {c}]

WriteFirst(w, c, p) ==
  IF Parts[c] = <<>> THEN Done(w) ELSE Write(Reopened(w, c), Parts[c][1], p)

WriteAny(w, c, p) ==
  CASE Kind[c] = "buffer" -> WriteBuffer(w, c, p)
    [] Kind[c] = "ring" -> WriteRing(w, c, p)
    [] Kind[c] = "stage" -> WriteStage(w, c, p)
    [] Kind[c] = "artifact" -> WriteArtifact(w, c, p)
    [] Kind[c] = "sink" -> Done(w)
    [] Kind[c] = "gate" -> IF Forwarded(p) THEN Write(w, Parts[c][1], p) ELSE Done(w)
    [] Kind[c] = "stream" -> Done(Hold(w, c, w.data[c] \o p))
    [] Kind[c] \in {"feedback", "pump"} -> Write(w, Parts[c][1], p)
    [] Kind[c] \in {"pipeline", "graph"} -> WriteFirst(w, c, p)

\* Mutant: a stream forgets what it could not write.
FlushedOut(r, c) == Result(Hold(r.w, c, <<>>), <<>>, r.err)
\* A stream keeps what it could not write for the next flush.
Emptied(r, c) == IF r.err = "none" THEN Done(Hold(r.w, c, <<>>)) ELSE r
Sent(r, c) == IF r.err = "none" THEN Flush(r.w, Parts[c][1]) ELSE r
FlushAny(w, c) ==
  CASE Kind[c] # "stream" -> Done(w)
    [] Kind[c] = "stream" /\ w.data[c] = <<>> -> Flush(w, Parts[c][1])
    [] OTHER -> Sent(Emptied(Write(w, Parts[c][1], w.data[c]), c), c)

\* Components are closed in order, up to the first error.
ClosedUnder(r, c) == IF r.err = "none" THEN Close(r.w, Parts[c][1]) ELSE r
CloseAny(w, c) ==
  CASE Kind[c] = "artifact" -> CloseArtifact(w, c)
    [] Kind[c] = "ring" -> Done([w EXCEPT !.shut = @ \cup {c}])
    [] Kind[c] = "stream" -> ClosedUnder(FlushAny(w, c), c)
    [] Kind[c] \in {"feedback", "pump", "pipeline", "graph"} -> Steps(w, Parts[c], Close)
    [] OTHER -> Done(w)

Do(w, verb, c, x) ==
  CASE verb = "read"  -> ReadAny(w, c, x)
    [] verb = "write" -> WriteAny(w, c, x)
    [] verb = "flush" -> FlushAny(w, c)
    [] verb = "close" -> CloseAny(w, c)
    [] verb = "drain" -> Drained(Read(w, c, x), c, x)

\* NewFlipFlop: there and back, through two new streams.
Back(there, from, to) == IF Failed(there) THEN there ELSE Copy(there.w, from, to)
EndsQuiet(back) == IF back.err = "eof" THEN Done(back.w) ELSE back
FlipFlop(w, from, to) ==
  EndsQuiet(Back(Copy(Hold(Hold(w, from, <<>>), to, <<>>), to, from), from, to))

-----------------------------------------------------------------------------
(* Calls *)

\* What a call may meet: one component fails, what does not unpack breaks.
Faults == {NoFault} \cup
  (IF faults = MaxFaults THEN {} ELSE [at : use.breaks, verb : {"read", "write"}, skip : BOOLEAN])
Mixes == {FALSE} \cup {Kind[c] = "artifact" : c \in use.writes}
Meeting(fault, mixes) == [world EXCEPT !.fault = fault, !.mixes = mixes]

\* The component that fails is written to by a stream.
OfFlush(fault) ==
  fault.verb = "write" /\ \E c \in Names : Kind[c] = "stream" /\ Parts[c] = <<fault.at>>

Ends(call, fault, r) ==
  /\ calls < MaxCalls
  /\ world' = [r.w EXCEPT !.fault = NoFault, !.mixes = FALSE, !.lost = FALSE]
  /\ failed' = (failed \/ r.err \in {"broken", "short"} \/ r.w.lost)
  /\ wasted' = (wasted \/ r.w.lost \/ (r.err \in {"broken", "short"} /\ ~OfFlush(fault)))
  /\ last' = [call |-> call, err |-> r.err]
  /\ faults' = IF fault # NoFault /\ r.w.fault = NoFault THEN faults + 1 ELSE faults
  /\ calls' = calls + 1

Written(c, p, r, fault) ==
  /\ Ends("write", fault, r)
  /\ written' = IF r.err = "none" THEN written \o p ELSE written
  /\ told' = IF Kind[c] = "artifact" THEN Append(told, p) ELSE told
  /\ blank' = (p = <<>>)
  /\ UNCHANGED <<use, delivered>>
WriteCall(c, p) ==
  \E fault \in Faults, mixes \in Mixes : Written(c, p, Write(Meeting(fault, mixes), c, p), fault)

Delivered(r, fault) ==
  /\ Ends("read", fault, r)
  /\ delivered' = delivered \o r.data
  /\ UNCHANGED <<use, written, told, blank>>
ReadCall(c, n) == \E fault \in Faults : Delivered(Read(Meeting(fault, FALSE), c, n), fault)

Settled(call, r, fault) ==
  /\ Ends(call, fault, r)
  /\ UNCHANGED <<use, written, delivered, told, blank>>
CloseCall(c) ==
  \E fault \in Faults, mixes \in Mixes : Settled("close", Close(Meeting(fault, mixes), c), fault)
FlipCall(from, to) ==
  \E fault \in Faults : Settled("flip", FlipFlop(Meeting(fault, FALSE), from, to), fault)

Next == \/ \E c \in use.writes, p \in use.chunks : WriteCall(c, p)
        \/ \E c \in use.reads, n \in {1, 2} : ReadCall(c, n)
        \/ \E c \in use.reads \cup use.writes : CloseCall(c)
        \/ \E flip \in use.flips : FlipCall(flip[1], flip[2])
Spec == Init /\ [][Next]_vars

-----------------------------------------------------------------------------
(* Properties *)

\* What is on the way, what is nearest to the reader first.
OnTheWay == FoldLeft(LAMBDA acc, c : acc \o world.data[c], delivered, use.flow)

IsSubsequence(s, t) ==
  LET matched[n \in 0..Len(s)] ==   \* the place in t up to which s[1..n] needs it
        IF n = 0 THEN 0
        ELSE LET later == {i \in (matched[n - 1] + 1)..Len(t) : t[i] = s[n]}
             IN  IF matched[n - 1] > Len(t) \/ later = {} THEN Len(t) + 1 ELSE Min(later)
  IN  matched[Len(s)] <= Len(t)

\* Every component keeps to its type, and what has been delivered followed by
\* what the stages still hold is, in order, what was written: no piece is
\* doubled or overtaken, whatever fails and is tried again (Copy, Flush,
\* Pipeline.Read), and none is missing unless a call has failed otherwise than
\* in a flush, after which a stream still has what it is to write.
Inv ==
  /\ world \in World /\ use \in Use
  /\ use.flow # <<>> =>
       /\ IsSubsequence(OnTheWay, written)
       /\ ~wasted => OnTheWay = written

\* A read that says EOF finds no stage holding anything, but for the ring at the
\* head, which is read a frame at a time.
EofAtEnd ==
  \A c \in use.reads : last = [call |-> "read", err |-> "eof"] /\ Kind[c] # "graph" =>
    \A i \in DOMAIN use.flow : Kind[use.flow[i]] # "ring" => world.data[use.flow[i]] = <<>>

\* What a feedback has returned has been fed back, the dropped values aside.
FedBack ==
  \A line, c, back \in Names :
    /\ use.size = 2 /\ use.flow # <<>>
    /\ Kind[line] = "pipeline" /\ c \in Range(Parts[line]) /\ Parts[line][1] = Last(use.flow)
    /\ Kind[c] = "feedback" /\ Parts[Parts[c][2]] = <<back>>
    => world.data[back] =
         SelectSeq(SubSeq(written, 1, Len(written) - Len(world.data[Parts[c][1]])
                                        - Len(world.data[Last(use.flow)])),
                   LAMBDA piece : piece[1] \notin Dropped)

\* A pipeline says EOF only when its stages hold nothing (Pipeline.Read), over
\* reads of parts of a frame, as long as no call has failed and the last write
\* has brought something; and nothing is returned by a feedback that has not
\* been fed back.
EofMeansEmpty == ~failed => FedBack /\ (~blank => EofAtEnd)

\* "Returns EOF when no more data is available" (Pipeline.Read), said of writes
\* of nothing as well: violated, for a write has the next read copy from the
\* first stage again, which is empty, while the last one still holds data.
EofAfterNothing == ~failed => EofAtEnd
\* The same, said of reads after one that has failed: violated, for the next
\* read copies from the first stage again, which the failed one has emptied.
EofAfterFailure == ~blank => EofAtEnd

\* The whole frames of a sequence of pieces that are written frame by frame.
InFrames(pieces) ==
  \A n \in DOMAIN pieces : pieces[n][2] = 1 <=> n % 2 = 1
Joined(pieces) ==
  \A n \in DOMAIN pieces : pieces[n][2] = 2 => n > 1 /\ pieces[n - 1] = <<pieces[n][1], 1>>

\* No chunk goes on behind the end of a frame.
WithinFrames(chunks) ==
  \A n \in DOMAIN chunks : \A i \in 1..(Len(chunks[n]) - 1) : chunks[n][i][2] = 1

\* After the pieces written to it an artifact is the last complete frame, and
\* Close fails for a half one.
LastFrame(c, pieces) ==
  InFrames(pieces) /\ Joined(pieces) =>
    /\ Len(pieces) >= 2 => world.holds[c] = pieces[2 * (Len(pieces) \div 2)][1]
    /\ world.kept[c] = SubSeq(pieces, 2 * (Len(pieces) \div 2) + 1, Len(pieces))
    /\ last.call = "close" => (last.err = "broken" <=> Len(pieces) % 2 = 1)

\* An artifact written in frames and parts of them, none of which goes on behind
\* the end of a frame, is the last complete one, and Close fails for a half one
\* (RWCStream); and a flip-flop that reports no error has brought back what the
\* stages made of the artifact.
FramesWhole ==
  /\ \A c \in use.writes : Kind[c] = "artifact" /\ WithinFrames(told) => LastFrame(c, FlattenSeq(told))
  /\ \A flip \in use.flips : last = [call |-> "flip", err |-> "none"] =>
       \A c \in use.first : \E v \in Values : world.holds[c] = Reply(Reply(v))

\* The same for chunks that begin and end anywhere ("chunked streaming",
\* RWCStream): violated, for a commit throws away what follows the frame.
ChunksAnywhere ==
  \A c \in use.writes : Kind[c] = "artifact" => LastFrame(c, FlattenSeq(told))
=============================================================================
