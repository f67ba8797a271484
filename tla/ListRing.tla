------------------------------ MODULE ListRing ------------------------------
(* structure/list.go: circular lists of nodes, seen through views that share  *)
(* the nodes.  NewListRing links every node, so the init of a node without    *)
(* neighbours is never needed.  One goroutine uses the views and a call is    *)
(* one action; Pop and Len only read.                                         *)
EXTENDS Integers, SequencesExt

CONSTANTS Values, Zero,
          MaxViews, MaxNodes,            \* bounds: views and nodes made
          MaxStep, MaxCount, MaxCalls    \* bounds: of Select, of Slice, all calls

VARIABLES next, prev, value,   \* of the nodes made so far, 1 to Len(value)
          rings,               \* the views, numbered as they are made
          stale,               \* history: views whose list another view has cut or grown
          log,                 \* history: the values pushed to a list that has one view
          calls

listVars == <<next, prev, value, rings, stale, log, calls>>

ListAssumption == {MaxNodes, MaxStep, MaxCount} \subseteq Nat

Made == DOMAIN rings
New == Len(rings) + 1   \* the number of the next view
Ends == calls < MaxCalls /\ calls' = calls + 1
Nodes == DOMAIN value
ListView == [cursor : Nodes, first : Nodes, writes : Nat, size : Nat]

\* The nodes from one on, walking next until it is reached again.
Walk(step, from) ==
  LET at[i \in 0..MaxNodes] == IF i = 0 THEN from ELSE step[at[i - 1]]
      length == Min({i \in 1..MaxNodes : at[i] = from})
  IN  [i \in 1..length |-> at[i - 1]]
measure(step, from) == Len(Walk(step, from))
Do(v) == Walk(next, rings[v].first)
List(v) == Walk(next, rings[v].cursor)
Sharing(v) == {u \in Made : rings[u].cursor \in Range(List(v))}
AtMost(writes, size) == IF writes > size THEN size ELSE writes

Init == /\ next = <<>> /\ prev = <<>> /\ value = <<>>
        /\ rings = <<>> /\ stale = {} /\ log = [v \in {} |-> 0] /\ calls = 0

NewListRing(size) ==
  LET head == Len(value) + 1
      tail == Len(value) + size
  IN  /\ Ends /\ Len(rings) < MaxViews /\ tail <= MaxNodes
      /\ next' = next \o [i \in 1..size |-> IF i = size THEN head ELSE head + i]
      /\ prev' = prev \o [i \in 1..size |-> IF i = 1 THEN tail ELSE head + i - 2]
      /\ value' = value \o [i \in 1..size |-> Zero]
      /\ rings' = Append(rings, [cursor |-> head, first |-> head, writes |-> 0, size |-> size])
      /\ log' = [v \in DOMAIN log \cup {New} |-> IF v = New THEN <<>> ELSE log[v]]
      /\ UNCHANGED stale

Push(v, x) ==
  LET ring == rings[v]
      after == next[ring.cursor]
  IN  /\ Ends
      /\ value' = [value EXCEPT ![ring.cursor] = x]
      /\ rings' = [rings EXCEPT ![v] = IF ring.writes < ring.size
                                       THEN [ring EXCEPT !.cursor = after, !.writes = @ + 1]
                                       ELSE [ring EXCEPT !.cursor = after, !.first = after]]
      /\ log' = IF v \in DOMAIN log THEN [log EXCEPT ![v] = Append(@, x)] ELSE log
      /\ UNCHANGED <<next, prev, stale>>

move(v, step) ==
  LET there[i \in 0..(MaxStep + MaxCount + 1)] ==
        IF i = 0 THEN rings[v].cursor ELSE (IF step < 0 THEN prev ELSE next)[there[i - 1]]
  IN  there[IF step < 0 THEN -step ELSE step]

\* A list that gets a second view has no log any more.
Unlogged(vs) == [v \in DOMAIN log \ vs |-> log[v]]

Select(v, step) ==
  /\ Ends /\ Len(rings) < MaxViews
  /\ rings' = Append(rings, [rings[v] EXCEPT !.cursor = move(v, step)])
  /\ stale' = IF v \in stale THEN stale \cup {New} ELSE stale
  /\ log' = Unlogged({v})
  /\ UNCHANGED <<next, prev, value>>

\* Mutant: link forgets the back link of the node that comes after.
linkForward(node, other) ==
  LET after == next[node]
      tail == prev[other]
  IN  /\ next' = [next EXCEPT ![node] = other, ![tail] = after]
      /\ prev' = [prev EXCEPT ![other] = node]
link(node, other) ==
  LET after == next[node]
      tail == prev[other]
  IN  /\ next' = [next EXCEPT ![node] = other, ![tail] = after]
      /\ prev' = [prev EXCEPT ![other] = node, ![after] = tail]

Merge(v, w) ==
  /\ Ends
  /\ link(rings[v].cursor, rings[w].cursor)
  /\ LET size == measure(next', rings[v].cursor)
         total == rings[v].writes + rings[w].writes
     IN  rings' = [rings EXCEPT ![v].size = size, ![v].writes = AtMost(total, size)]
  /\ stale' = (stale \cup Sharing(v) \cup Sharing(w)) \ {v}
  /\ log' = Unlogged({v, w})
  /\ UNCHANGED value

\* Mutant: the removed segment is one node short of count.
CutShort(v, count) == link(rings[v].cursor, move(v, count))
Cut(v, count) == link(rings[v].cursor, move(v, count + 1))
Slice(v, count) ==
  LET removed == next[rings[v].cursor]
  IN  /\ Ends /\ Len(rings) < MaxViews /\ count > 0
      /\ Cut(v, count)
      /\ LET size == measure(next', rings[v].cursor)
             sliced == measure(next', removed)
         IN  rings' = Append([rings EXCEPT ![v].size = size, ![v].writes = AtMost(@, size)],
                             [cursor |-> removed, first |-> removed,
                              writes |-> AtMost(count, sliced), size |-> sliced])
      /\ stale' = (stale \cup Sharing(v)) \ {v}
      /\ log' = Unlogged({v})
      /\ UNCHANGED value

Next ==
  \/ \E size \in 1..MaxNodes : NewListRing(size)
  \/ \E v \in Made :
       \/ \E x \in Values : Push(v, x)
       \/ \E step \in -MaxStep..MaxStep : Select(v, step)
       \/ \E count \in 1..MaxCount : Slice(v, count)
       \/ \E w \in Made : Merge(v, w)

-----------------------------------------------------------------------------
(* Properties *)

LastOf(s, n) == IF Len(s) <= n THEN s ELSE SubSeq(s, Len(s) - n + 1, Len(s))

\* The lists stay circular in both directions, whatever is merged and sliced
\* (link); a view has as many writes as nodes at most, and as many nodes as its
\* list, unless another view has cut or grown it (Len is kept, not measured);
\* and a ring used through one view shows the values pushed last, oldest first
\* (Push, Do).
ListsWhole ==
  /\ \A n \in Nodes : prev[next[n]] = n /\ next[prev[n]] = n
  /\ \A v \in Made : /\ rings[v] \in ListView /\ rings[v].writes <= rings[v].size
                     /\ v \notin stale => rings[v].size = Len(List(v))
  /\ \A v \in DOMAIN log :
       LET kept == LastOf(log[v], rings[v].size)
       IN  [i \in DOMAIN Do(v) |-> value[Do(v)[i]]]
             = kept \o [i \in 1..(rings[v].size - Len(kept)) |-> Zero]

\* "Slice removes count modulo Len() elements starting at the node after the
\* cursor" and makes them a list of their own, the rest keeping its order, and
\* Do still visits the rest unless its first node is among the removed; Merge
\* puts another list behind the cursor, and of one list it removes the nodes
\* "strictly between" the cursors.
ListCuts ==
  [][\A v \in Made :
       /\ \A count \in 1..MaxCount : Slice(v, count) =>
            LET whole == List(v)
                k == count % Len(whole)
            IN  /\ Walk(next', whole[1]) = <<whole[1]>> \o SubSeq(whole, k + 2, Len(whole))
                /\ k > 0 => Walk(next', Last(rings').cursor) = SubSeq(whole, 2, k + 1)
                /\ v \notin stale /\ rings[v].first \in Range(Walk(next', whole[1])) =>
                     Do(v)' = SelectSeq(Do(v), LAMBDA n : n \in Range(Walk(next', whole[1])))
       /\ \A u \in Made : Merge(v, u) =>
            LET whole == List(v)
                other == rings[u].cursor
            IN  Walk(next', whole[1]) =
                  <<whole[1]>> \o (IF other \in Range(whole)
                                   THEN SelectSeq(whole, LAMBDA n : n # whole[1] /\
                                          SelectInSeq(whole, LAMBDA m : m = n)
                                            >= SelectInSeq(whole, LAMBDA m : m = other)
                                          /\ other # whole[1])
                                   ELSE List(u) \o Tail(whole))]_listVars
=============================================================================
