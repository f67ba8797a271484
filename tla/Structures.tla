----------------------------- MODULE Structures -----------------------------
(***************************************************************************)
(* Five structures of package structure side by side: the SPSC ring and    *)
(* the ultra ring, which one producer and one consumer share without a     *)
(* lock, offline rings, list rings, and a clock, which consumers read      *)
(* while it is written.  A behaviour takes the steps of one of them, and   *)
(* the others rest.                                                        *)
(***************************************************************************)
EXTENDS SPSCRing

CONSTANTS BufferSize, Limit, MaxEvents,               \* of the ultra ring
          Slices, Pushable, MaxLen, MaxOfflineStep,    \* of the offline rings
          ListValues, MaxNodes, MaxSelect, MaxCount,  \* of the list rings
          MaxViews, MaxCalls,                         \* of both
          Tracks, Timeline, Consumers, None, ClockCapacity, TrackCapacity,
          Nanos, LastWall, Modes, MaxObservations     \* of the clock

VARIABLES part,
          slots, published, committed, writing, reading, available, word, handled,
          arrays, views, family, offlineCalls,
          next, prev, stored, rings, stale, listLog, listCalls,
          mode, sequence, timelineSize, err, heads, tails, slotValues, slotReady,
          first, counts, seconds, nanos, push, cursors, cuts, call, log, made

ultraVars == <<slots, published, committed, writing, reading, available, word, handled>>
offlineVars == <<arrays, views, family, offlineCalls>>
listVars == <<next, prev, stored, rings, stale, listLog, listCalls>>
clockVars == <<mode, sequence, timelineSize, err, heads, tails, slotValues, slotReady,
               first, counts, seconds, nanos, push, cursors, cuts, call, log, made>>

Ultra == INSTANCE UltraRing WITH
  Size <- BufferSize, producer <- published, consumer <- committed
Offline == INSTANCE OfflineRing WITH
  First <- Slices, Values <- Pushable, MaxStep <- MaxOfflineStep, calls <- offlineCalls
Lists == INSTANCE ListRing WITH
  Values <- ListValues, MaxStep <- MaxSelect,
  value <- stored, log <- listLog, calls <- listCalls
Clock == INSTANCE Clock WITH
  Capacity <- ClockCapacity, MaxPushes <- MaxObservations,
  head <- heads, tail <- tails, value <- slotValues, ready <- slotReady,
  count <- counts, cursor <- cursors

ASSUME UltraAssumption == Ultra!UltraAssumption

\* Rings are made of slices: finite sequences.
ASSUME OfflineAssumption == /\ MaxOfflineStep \in Nat
                            /\ \A s \in Slices : s \in Seq({s[i] : i \in DOMAIN s})

ASSUME ListAssumption == Lists!ListAssumption

ASSUME ClockAssumption == Clock!ClockAssumption

RingsInit == Init /\ Ultra!Init /\ Offline!Init /\ Lists!Init /\ Clock!Init
ringsVars == <<part, vars, ultraVars, offlineVars, listVars, clockVars>>
RingsNext ==
  \/ part = "spsc" /\ Next /\ UNCHANGED <<part, ultraVars, offlineVars, listVars, clockVars>>
  \/ part = "ultra" /\ Ultra!Next /\ UNCHANGED <<part, vars, offlineVars, listVars, clockVars>>
  \/ part = "offline" /\ Offline!Next /\ UNCHANGED <<part, vars, ultraVars, listVars, clockVars>>
  \/ part = "lists" /\ Lists!Next /\ UNCHANGED <<part, vars, ultraVars, offlineVars, clockVars>>
  \/ part = "clock" /\ Clock!Next /\ UNCHANGED <<part, vars, ultraVars, offlineVars, listVars>>
RingsSpec == /\ part \in {"spsc", "ultra", "offline", "lists", "clock"} /\ RingsInit
             /\ [][RingsNext]_ringsVars

-----------------------------------------------------------------------------
(* Properties *)

\* Events are handed over whole, once and in order (Publish, ConsumeBatch).
UltraExact == part = "ultra" => Ultra!UltraExact

\* Calls to an offline ring change no other one, but for those Select made.
OfflineApart == Offline!OfflineApart

\* Lists stay circular, views' sizes right, and a ring of one view in order
\* (link, Push).
ListsWhole == part = "lists" => Lists!ListsWhole

\* A clock's rings hold the newest observations between two pushes, and its
\* counters and latest walls say so (Observe).
ClockHolds == part = "clock" => Clock!Inv

\* A consumer reads every event once, not past its cut, and all of them between
\* two pushes (EventsAfter); its frames show each track's latest within the cut,
\* and the watermark is the least of the tracks' (FrameThrough, Aligned).
ReadsExact == part = "clock" =>
  /\ Clock!EventsWithinCut /\ Clock!EventsExact
  /\ Clock!FrameExact /\ Clock!AlignedWatermark
=============================================================================
