---------------------------- MODULE MCConnections ----------------------------
(* Small instances of Peers, the connections a node keeps, and of Transport,  *)
(* the streams frames go through, for TLC: a behaviour is one of either.      *)
EXTENDS Peers, Sequences, TLC

CONSTANTS a1, a2, d1, d2, d3

TwoAddrs   == {a1, a2}
ThreeDials == {d1, d2, d3}

\* A pipeline behind a pump, a pipeline that starts with a ring, two stages a
\* flip-flop goes through, a graph, and an artifact written in chunks.
Kind == [pump |-> "pump", pipe |-> "pipeline", src |-> "buffer",
         fb |-> "feedback", fwd |-> "buffer", gate |-> "gate", back |-> "buffer",
         out |-> "stream", end |-> "buffer",
         line |-> "pipeline", ring |-> "ring", fb2 |-> "feedback", sink |-> "sink",
         there |-> "stream", here |-> "stream", art |-> "artifact",
         work |-> "pipeline", one |-> "stage", two |-> "stage",
         graph |-> "graph", reg |-> "buffer", n1 |-> "buffer", n2 |-> "buffer",
         empty |-> "pipeline"]
Names == DOMAIN Kind
Parts ==
  [pump |-> <<"pipe">>, pipe |-> <<"src", "fb", "out">>, fb |-> <<"fwd", "gate">>,
   gate |-> <<"back">>, out |-> <<"end">>,
   line |-> <<"ring", "fb2", "out">>, fb2 |-> <<"fwd", "sink">>,
   here |-> <<"art">>, there |-> <<"work">>, work |-> <<"one", "fb2", "two">>,
   graph |-> <<"reg">>]
    @@ [c \in Names |-> <<>>]
Edges == <<<<"n1", "n2">>, <<"n1", "nowhere">>, <<"n2", "reg">>>>
Reply(v) == IF v = "a" THEN "b" ELSE "c"
Values == {"a", "b", "c"}

Half(v, n) == <<<<v, n>>>>
Frames == {Half(v, 1) \o Half(v, 2) : v \in {"a", "b"}}
\* One frame and the next, and the end of a frame with the beginning of the next.
AcrossFrames == {Half("a", 1) \o Half("a", 2) \o Half("b", 1) \o Half("b", 2), Half("a", 2) \o Half("b", 1)}
Nothing == [reads |-> {}, writes |-> {}, flips |-> {}, chunks |-> Frames, first |-> {},
            breaks |-> {}, size |-> 2, flow |-> <<>>]
Uses ==
  {[Nothing EXCEPT !.reads = {"pump"}, !.writes = {"pump"},
                   !.chunks = Frames \cup {<<>>}, !.breaks = {"src", "fwd", "back", "end"},
                   !.flow = <<"end", "out", "fwd", "src">>]}
    \cup {[Nothing EXCEPT !.reads = {"line"}, !.writes = {"line"}, !.size = size,
                          !.breaks = {"fwd", "end"}, !.flow = <<"end", "out", "fwd", "ring">>] : size \in {1, 2}}
    \cup {[Nothing EXCEPT !.flips = {<<"here", "there">>}, !.first = {"art"}, !.size = 1],
          [Nothing EXCEPT !.reads = {"graph"}, !.writes = {"n1"},
                   !.breaks = {"n1", "n2", "reg"}, !.flow = <<"reg", "n2", "n1">>],
          [Nothing EXCEPT !.reads = {"graph"}, !.writes = {"graph"}, !.flow = <<"reg">>],
          [Nothing EXCEPT !.reads = {"empty"}, !.writes = {"empty"}],
          [Nothing EXCEPT !.writes = {"art"},
                          !.chunks = Frames \cup AcrossFrames \cup {Half(v, n) : v \in {"a", "b"}, n \in {1, 2}}]}

VARIABLES part, use, world, written, delivered, told, blank, failed, wasted, last, calls, faults

Streams == INSTANCE Transport WITH
  Dropped <- {"b"}, None <- "none", Mixed <- "mixed", MaxCalls <- 5, MaxFaults <- 1

ASSUME StreamsAssumption == Streams!TransportAssumption

streamVars == <<use, world, written, delivered, told, blank, failed, wasted, last, calls, faults>>

MCInit == /\ part \in {"peers", "streams"}
          /\ Init /\ Streams!Init
          /\ part = "peers" => use.reads = {"empty"}
MCNext == \/ part = "peers" /\ Next /\ UNCHANGED <<part, streamVars>>
          \/ part = "streams" /\ Streams!Next /\ UNCHANGED <<part, vars>>
MCSpec == MCInit /\ [][MCNext]_<<part, vars, streamVars>> /\ (part = "peers" => Fairness)

\* What was written is delivered or on its way, in order and whole, unless a
\* call has failed (Copy, Flush, Pipeline.Read).
StreamsHold == part = "streams" => Streams!Inv
\* A reader is told EOF when nothing is left (Pipeline.Read).
EofMeansEmpty == part = "streams" => Streams!EofMeansEmpty
\* Artifacts written in chunks are whole frames (RWCStream, FlipFlop).
FramesWhole == part = "streams" => Streams!FramesWhole
\* Violated: EOF after a write of nothing (Pipeline.Write).
EofAfterNothing == part = "streams" => Streams!EofAfterNothing
\* Violated: EOF after a read that has failed (Pipeline.Read).
EofAfterFailure == part = "streams" => Streams!EofAfterFailure
\* Violated: what follows a frame in its chunk (RWCStream.commit).
ChunksAnywhere == part = "streams" => Streams!ChunksAnywhere
=============================================================================
