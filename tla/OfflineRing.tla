---------------------------- MODULE OfflineRing -----------------------------
(* structure/offline.go: views of slices, which share an array when Select    *)
(* makes one from another, and share even what one appends as long as the     *)
(* array has room.  One goroutine uses the views; Pop, Len and Do only read.  *)
EXTENDS Integers, SequencesExt

CONSTANTS First, Values, Zero,    \* what rings are made of, what is pushed
          MaxLen, MaxStep, MaxViews, MaxCalls   \* bounds

VARIABLES arrays,    \* the backing arrays, by number; the length is the capacity
          views,     \* the rings, numbered as they are made
          family,    \* history: the ring that Select has made one from, and so on back
          calls

offlineVars == <<arrays, views, family, calls>>

Made == DOMAIN views
Contents(v) == SubSeq(arrays[views[v].array], 1, views[v].len)
Roomy(s, room) == s \o [i \in 1..room |-> Zero]

Ends == calls < MaxCalls /\ calls' = calls + 1
Makes == Ends /\ Len(views) < MaxViews
Init == arrays = <<>> /\ views = <<>> /\ family = <<>> /\ calls = 0

\* A snapshot's slice may have room: it is made for as many values as there
\* were when it began (MPMCRing.Snapshot); append leaves room as it likes.
NewOfflineRing(s, room) ==
  /\ Makes
  /\ arrays' = Append(arrays, Roomy(s, room))
  /\ views' = Append(views, [array |-> Len(arrays) + 1, len |-> Len(s), cursor |-> 0])
  /\ family' = Append(family, Len(views) + 1)

\* append: in place as long as there is room, whoever else looks at the array.
Appended(v, s, room, cursor) ==
  LET ring == views[v]
      old == arrays[ring.array]
      end == ring.len + Len(s)
  IN  IF end <= Len(old)
      THEN /\ arrays' = [arrays EXCEPT ![ring.array] =
                           SubSeq(old, 1, ring.len) \o s \o SubSeq(old, end + 1, Len(old))]
           /\ views' = [views EXCEPT ![v] = [ring EXCEPT !.len = end, !.cursor = cursor]]
      ELSE /\ arrays' = Append(arrays, Roomy(Contents(v) \o s, room))
           /\ views' = [views EXCEPT ![v] = [array |-> Len(arrays) + 1, len |-> end, cursor |-> cursor]]

Push(v, x, room) ==
  LET ring == views[v]
  IN  /\ Ends /\ ring.len < MaxLen
      /\ IF ring.cursor < ring.len
         THEN /\ arrays' = [arrays EXCEPT ![ring.array][ring.cursor + 1] = x]
              /\ views' = [views EXCEPT ![v].cursor = @ + 1]
         ELSE Appended(v, <<x>>, room, ring.len + 1)
      /\ UNCHANGED family

Clamped(n, most) == IF n < 0 THEN 0 ELSE IF n > most THEN most ELSE n
Select(v, step) ==
  /\ Makes
  /\ views' = Append(views, [views[v] EXCEPT !.cursor = Clamped(@ + step, views[v].len)])
  /\ family' = Append(family, family[v])
  /\ UNCHANGED arrays

\* What Do hands over while v grows: a longer view of the same array is
\* overwritten ahead of the visit.
Visited(w, v) ==
  LET s == Contents(w)
      n == views[v].len
  IN  IF views[w].array = views[v].array /\ n > 0
      THEN [i \in DOMAIN s |-> s[((i - 1) % n) + 1]] ELSE s

\* The values are appended one by one; an array that is left on the way has its
\* room filled first, where other views may see it.
Merge(v, w, room) ==
  LET ring == views[v]
      fits == Min({Len(arrays[ring.array]) - ring.len, views[w].len})
      filled == [arrays EXCEPT ![ring.array] =
                   SubSeq(@, 1, ring.len) \o SubSeq(Visited(w, v), 1, fits)
                     \o SubSeq(@, ring.len + fits + 1, Len(@))]
      whole == Contents(v) \o Visited(w, v)
  IN  /\ Ends /\ Len(whole) <= MaxLen
      /\ IF fits = views[w].len
         THEN /\ arrays' = filled /\ views' = [views EXCEPT ![v].len = Len(whole)]
         ELSE /\ arrays' = Append(filled, Roomy(whole, room))
              /\ views' = [views EXCEPT ![v] = [array |-> Len(arrays) + 1, len |-> Len(whole),
                                                cursor |-> ring.cursor]]
      /\ UNCHANGED family

\* Mutant: the segment is a slice of the array, not a copy.
Uncopied(v, end, room) ==
  /\ views' = Append(views, [array |-> views[v].array, len |-> end, cursor |-> 0])
  /\ UNCHANGED arrays
Copied(v, end, room) ==
  /\ arrays' = Append(arrays, Roomy(SubSeq(Contents(v), views[v].cursor + 1, end), room))
  /\ views' = Append(views, [array |-> Len(arrays) + 1, len |-> end - views[v].cursor, cursor |-> 0])
Slice(v, count, room) ==
  /\ Makes
  /\ Copied(v, Clamped(views[v].cursor + count, views[v].len), room)
  /\ family' = Append(family, Len(views) + 1)

Next ==
  \/ \E s \in First, room \in {0, 1} : NewOfflineRing(s, room)
  \/ \E v \in Made :
       \/ \E x \in Values, room \in {0, 1} : Push(v, x, room)
       \/ \E step \in -MaxStep..MaxStep : Select(v, step)
       \/ \E w \in Made, room \in {0, 1} : Merge(v, w, room)
       \/ \E count \in 0..MaxStep, room \in {0, 1} : Slice(v, count, room)

-----------------------------------------------------------------------------
(* Properties *)

\* "Navigation mutates only this offline view": a ring's values change only by
\* a call to it or to one that Select has made from it or from which it was
\* made, not by what was sliced off or merged in; and cursors stay inside.
OfflineApart ==
  [][/\ \A v \in Made : views[v].cursor \in 0..views[v].len
     /\ \A v, u \in Made, room \in {0, 1} :
          (\E x \in Values : Push(v, x, room)) \/ Merge(v, u, room) =>
            \A w \in Made : family[w] # family[v] => Contents(w)' = Contents(w)]_offlineVars
=============================================================================
