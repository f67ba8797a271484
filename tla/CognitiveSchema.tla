--------------------------- MODULE CognitiveSchema ---------------------------
(* The layout of what the model learns, as it lies in the radix tree.         *)
(*                                                                            *)
(* A token is a sequence of letters and a sequence (a path) is a sequence of  *)
(* tokens: the '_' between tokens and the '/' behind a namespace are left to  *)
(* the structure, but what byte prefixes make of them is kept (BytePrefix).   *)
(* A key is <<namespace, class or time, path>>; a root maps keys to weights.  *)
(* Probabilities are exact fractions <<numerator, denominator>>.              *)
EXTENDS Integers, SequencesExt

NoClass == 0
EmptyPath == <<>>

sensoryStorageKey(path)        == <<"s", NoClass, path>>
vocabularyStorageKey(token)    == <<"v", NoClass, <<token>>>>
coOccurrenceStorageKey(l, r)   == <<"c", NoClass, <<l, r>>>>
conceptStorageKey(class)       == <<"k", class, EmptyPath>>
episodicStorageKey(at, path)   == <<"e", at, path>>
basinStorageKey(class, path)   == <<"b", class, path>>

Space(key) == key[1]
ClassOf(key) == key[2]
TimeOf(key) == key[2]
PathOf(key) == key[3]

-----------------------------------------------------------------------------
(* Fractions *)

Zero == <<0, 1>>
One  == <<1, 1>>

Divisor[a \in Nat, b \in Nat] == IF b = 0 THEN a ELSE Divisor[b, a % b]
By(g, n, d) == <<n \div g, d \div g>>
Fraction(n, d) == By(Divisor[n, d], n, d)
Less(x, y)  == x[1] * y[2] < y[1] * x[2]
Parts(x, y) == <<x[1] * y[1], x[2] * y[2]>>
Times(x, y) == Parts(Fraction(x[1], y[2]), Fraction(y[1], x[2]))
Sum2(x, y, g) == Fraction(x[1] * (y[2] \div g) + y[1] * (x[2] \div g), x[2] * (y[2] \div g))
Plus(x, y) == Sum2(x, y, Divisor[x[2], y[2]])
Over(x, y) == Times(x, <<y[2], y[1]>>)
Larger(x, y) == IF Less(x, y) THEN y ELSE x
Total(f, S) == FoldSet(LAMBDA i, acc : Plus(f[i], acc), Zero, S)
Whole(f, mass) == [i \in DOMAIN f |-> IF Less(Zero, mass) THEN Over(f[i], mass) ELSE f[i]]
wholeOf(f) == Whole(f, Total(f, DOMAIN f))
Product(f, S) == FoldSet(LAMBDA i, acc : Times(f[i], acc), One, S)

-----------------------------------------------------------------------------
(* Weights *)

\* The value under a key: the count, the probability and the step of the write.
\* A counter is a weight without a probability; an unstamped value has step 0.
Weight(count, probability, at) == [count |-> count, prob |-> probability, at |-> at]
NoWeight == Weight(0, Zero, 0)

Get(root, key) == IF key \in DOMAIN root THEN root[key] ELSE NoWeight
readCounter(root, key) == Get(root, key).count

\* Insert for every key of batch, as one transaction.
Commit(root, batch) ==
  [key \in DOMAIN root \cup DOMAIN batch |->
     IF key \in DOMAIN batch THEN batch[key] ELSE root[key]]

\* What 0.995 to the power of the age leaves of a weight.
Kept(age) == <<199 ^ age, 200 ^ age>>
decayMultiplier(at, step) == IF at >= step THEN One ELSE Kept(step - at)
Faded(weight, kept) ==
  [weight EXCEPT !.count = (@ * kept[1]) \div kept[2], !.prob = Times(@, kept)]
decayValue(weight, step) == Faded(weight, decayMultiplier(weight.at, step))
EffectiveWeight(root, key, step) == decayValue(Get(root, key), step)

-----------------------------------------------------------------------------
(* Paths and tokens *)

parentContextPath(path) == IF Len(path) <= 1 THEN EmptyPath ELSE Front(path)

\* The paths a training of the sequence writes, the shortest first.
sensoryPrefixPaths(path) == [n \in 1..Len(path) |-> SubSeq(path, 1, n)]

\* bytes.HasPrefix on paths: the last token of p may be the beginning of a
\* longer token.
BytePrefix(p, q) ==
  \/ p = EmptyPath
  \/ /\ Len(p) <= Len(q)
     /\ SubSeq(q, 1, Len(p) - 1) = Front(p)
     /\ IsPrefix(Last(p), q[Len(p)])

\* Mutant: what follows is cut at the last '_', not at the first.
LastTokenSuffix(prefix, path) ==
  LET n == Len(prefix)
  IN  IF n > 0 /\ Last(path) # Last(prefix) /\ Len(path) = n
      THEN SubSeq(path[n], Len(prefix[n]) + 1, Len(path[n])) ELSE Last(path)

\* The token that follows prefix in path, which has it as a byte prefix: the
\* rest of a token that is longer than the last one of prefix counts too.
immediateTokenSuffix(prefix, path) ==
  LET n == Len(prefix)
  IN  CASE n = 0 -> path[1]
        [] n > 0 /\ path[n] = prefix[n] -> path[n + 1]
        [] OTHER -> SubSeq(path[n], Len(prefix[n]) + 1, Len(path[n]))

\* The order of the tree: bytes, '_' before every letter.
Flat(path) == FoldLeft(LAMBDA acc, t : IF acc = <<>> THEN t ELSE acc \o <<0>> \o t,
                       <<>>, path)
Before(s, t) ==
  \E n \in 1..Len(t) : /\ Len(s) >= n - 1 /\ SubSeq(s, 1, n - 1) = SubSeq(t, 1, n - 1)
                       /\ Len(s) = n - 1 \/ s[n] < t[n]

\* The keys of a namespace under a class or time, and below a byte prefix.
Under(root, space, class, prefix) ==
  {key \in DOMAIN root : /\ Space(key) = space /\ ClassOf(key) = class
                         /\ BytePrefix(prefix, PathOf(key))}
Earlier(a, b) == \/ a[2] < b[2]
                 \/ a[2] = b[2] /\ Before(Flat(a[3]), Flat(b[3]))
InOrder(S, first(_, _)) ==
  [n \in 1..Cardinality(S) |->
     CHOOSE x \in S : Cardinality({y \in S : first(y, x)}) = n - 1]
Walk(keys) == InOrder(keys, Earlier)

\* The tokens that follow prefix among keys, and the keys that show token there.
Children(keys, prefix) ==
  {immediateTokenSuffix(prefix, PathOf(key)) :
     key \in {k \in keys : PathOf(k) # prefix}}
Showing(keys, prefix, token) ==
  {key \in keys : PathOf(key) # prefix /\ immediateTokenSuffix(prefix, PathOf(key)) = token}

-----------------------------------------------------------------------------
(* The lexicon *)

coOccurrenceWindow == 2
fuzzyEditBudget == 1

Near(i, n) == i - n \in -coOccurrenceWindow..coOccurrenceWindow
\* Mutant: a token is its own neighbour.
NeighboursAndItself(path, i) == SelectSeq([n \in 1..Len(path) |-> n], LAMBDA n : Near(i, n))
Neighbours(path, i) ==
  SelectSeq([n \in 1..Len(path) |-> n], LAMBDA n : n # i /\ Near(i, n))

\* The counters a sequence bumps, in order: every token and its neighbours.
LexiconKeys(path) ==
  LET keysOf(i, around) ==
        <<vocabularyStorageKey(path[i])>>
          \o [n \in DOMAIN around |-> coOccurrenceStorageKey(path[i], path[around[n]])]
  IN  FoldLeft(LAMBDA acc, i : acc \o keysOf(i, Neighbours(path, i)), <<>>,
               [i \in 1..Len(path) |-> i])

KnowsToken(root, token) == readCounter(root, vocabularyStorageKey(token)) > 0

\* The Levenshtein distance, row by row.
EditDistance(left, right) ==
  LET distance[i \in 0..Len(left), j \in 0..Len(right)] ==
        CASE i = 0 -> j
          [] j = 0 -> i
          [] OTHER ->
               LET cost == IF left[i] = right[j] THEN 0 ELSE 1
               IN  Min({distance[i - 1, j] + 1, distance[i, j - 1] + 1,
                        distance[i - 1, j - 1] + cost})
  IN  distance[Len(left), Len(right)]
Close(token, known) == EditDistance(token, known) <= fuzzyEditBudget
=============================================================================
