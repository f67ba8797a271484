------------------------------ MODULE Inference ------------------------------
(* What the model answers from one root: lookahead, beam search, the          *)
(* classes of a sequence, the interpolated distribution over next tokens, the *)
(* resolution of unknown tokens.  Every operator is a function of the root    *)
(* and, where weights fade, of the cognitive step.                            *)
(* Logarithms are left out: a sum of log-probabilities is the product of the  *)
(* probabilities, a surprisal is the probability it is the logarithm of.      *)
EXTENDS CognitiveSchema

CONSTANT ClassCapacity   \* classificationClassCapacity, 16 in the code

maximumBackoffOrder == 4

-----------------------------------------------------------------------------
(* Lookahead *)

\* The first capacity tokens of the walk below prefix, each with the largest
\* probability seen up to the key that filled the buffer.
Buffered(weights, tokens, kept, capacity) ==   \* kept: where the tokens first occur
  LET last == IF Len(kept) < capacity THEN Len(tokens) ELSE kept[capacity]
      likely(t) == FoldSet(LAMBDA n, acc : Larger(weights[n].prob, acc), Zero,
                           {n \in 1..last : tokens[n] = t})
  IN  [i \in 1..Min({capacity, Len(kept)}) |->
         [token |-> tokens[kept[i]], prob |-> likely(tokens[kept[i]])]]
FirstOf(tokens) ==
  InOrder({n \in DOMAIN tokens : \A m \in 1..(n - 1) : tokens[m] # tokens[n]}, <)
Lookahead(weights, tokens, capacity) == Buffered(weights, tokens, FirstOf(tokens), capacity)
predictNextTokensOnPrefix(root, keys, prefix, capacity) ==
  LET along(walk) == Lookahead([n \in DOMAIN walk |-> root[walk[n]]],
                               [n \in DOMAIN walk |-> immediateTokenSuffix(prefix, PathOf(walk[n]))],
                               capacity)
  IN  along(Walk({key \in keys : PathOf(key) # prefix}))

PredictNextTokens(root, key, capacity) ==
  predictNextTokensOnPrefix(root, Under(root, Space(key), ClassOf(key), PathOf(key)),
                            PathOf(key), capacity)
PredictNextSensoryTokens(root, path, capacity) ==
  PredictNextTokens(root, sensoryStorageKey(path), capacity)

\* Every beam grows by what it predicts; the best beamWidth of them go on, and
\* the last beams that grew are the result.
Best(beams, width) ==
  LET better(m, n) == \/ Less(beams[n].score, beams[m].score)
                      \/ (beams[m].score = beams[n].score /\ m < n)
      ranked == InOrder(DOMAIN beams, better)
  IN  [n \in 1..Min({width, Len(beams)}) |-> beams[ranked[n]]]
ExecuteBeamSearch(root, context, beamWidth, maxHops, capacity) ==
  LET extended(beam, next) ==
        [i \in DOMAIN next |-> [path  |-> Append(beam.path, next[i].token),
                               score |-> Times(beam.score, next[i].prob)]]
      grown(beams) ==
        FoldLeft(LAMBDA acc, beam :
                   acc \o extended(beam, PredictNextSensoryTokens(root, beam.path, capacity)),
                 <<>>, beams)
      hop(beams, next) == IF next = <<>> THEN beams ELSE Best(next, beamWidth)
      after[n \in 0..maxHops] ==
        IF n = 0 THEN <<[path |-> context, score |-> One]>>
        ELSE hop(after[n - 1], grown(after[n - 1]))
  IN  IF beamWidth <= 0 \/ maxHops <= 0 THEN <<>> ELSE after[maxHops]

-----------------------------------------------------------------------------
(* Classes *)

\* The probability a surprisal is computed from.
surprisalForWeight(weight, parentCount) ==
  IF Less(Zero, weight.prob) THEN weight.prob ELSE <<1, parentCount + 1>>

GetSurprisal(root, key) ==
  [n \in 1..Len(PathOf(key)) |->
     LET at(path) == Get(root, <<Space(key), ClassOf(key), path>>)
         path == SubSeq(PathOf(key), 1, n)
         parent == IF n = 1 THEN NoWeight ELSE at(parentContextPath(path))
     IN  surprisalForWeight(at(path), parent.count)]

\* Surprisal in whole bits.  The parent of a path is looked up without its
\* namespace and never found, so a path that was never trained costs no bit.
Bits(p) == IF Less(Zero, p) THEN Min({n \in 0..20 : 2 ^ n * p[1] >= p[2]}) ELSE 0
deriveLearningRate(root, path) ==
  LET prefixes == sensoryPrefixPaths(path)
      bits == FoldSet(LAMBDA n, acc : acc + Bits(Get(root, sensoryStorageKey(prefixes[n])).prob),
                      0, DOMAIN prefixes)
  IN  IF bits <= 0 THEN <<1, Len(path) + 1>> ELSE <<1, 1 + bits>>

onlineProbabilityAlignment(p, rate) == Plus(p, Times(rate, <<p[2] - p[1], p[2]>>))

basinMatchesSequence(basin, path) ==
  IF basin = EmptyPath THEN path = EmptyPath
  ELSE IsPrefix(basin, path) \/ BytePrefix(path, basin)

probabilityFloorFromWeight(weight, parentCount) == <<1, weight.count + parentCount + 1>>

\* The evidence each of the first ClassCapacity classes of the walk gathers.
classEvidence(root, path) ==
  LET matching == {key \in DOMAIN root :
                     Space(key) = "b" /\ basinMatchesSequence(PathOf(key), path)}
      classes == {ClassOf(key) : key \in matching}
      kept == {c \in classes : Cardinality({d \in classes : d < c}) < ClassCapacity}
      evidence(key) ==
        LET parent == Get(root, basinStorageKey(ClassOf(key), parentContextPath(PathOf(key))))
        IN  Larger(root[key].prob, probabilityFloorFromWeight(root[key], parent.count))
  IN  [c \in kept |-> Product([key \in matching |-> evidence(key)],
                              {key \in matching : ClassOf(key) = c})]

\* Log evidence through a softmax is every class's share of the evidence.
normalizeLogEvidence(evidence) == wholeOf(evidence)

\* A stable sort: of equal classes the first one of the walk wins.
winnerOf(scores) ==
  Min({c \in DOMAIN scores : \A d \in DOMAIN scores : ~Less(scores[c], scores[d])})

ResultOf(scores) ==
  LET winner == IF scores = <<>> THEN NoClass ELSE winnerOf(scores)
  IN  [scores |-> scores, winner |-> winner,
       highest |-> IF scores = <<>> THEN Zero ELSE scores[winner]]
Classify(root, path) == ResultOf(normalizeLogEvidence(classEvidence(root, path)))

KnownClasses(root) == {ClassOf(key) : key \in {k \in DOMAIN root : Space(k) \in {"k", "b"}}}

\* The basin weights a lesson writes: one per prefix path, each one observation
\* more and moved towards one by the learning rate.
buildUnsupervisedMutations(root, path, class, rate, step) ==
  [key \in {basinStorageKey(class, p) : p \in Range(sensoryPrefixPaths(path))} |->
     LET old == Get(root, key)
     IN  Weight(old.count + 1, onlineProbabilityAlignment(old.prob, rate), step)]

\* The symbols that tell classes apart: enough decayed evidence, and a larger
\* share of it than an even split would give.
minimumSymbolEvidence == 2
ExtractDiscriminativeSymbols(root, step) ==
  LET counted == {key \in DOMAIN root : /\ Space(key) = "b"
                                        /\ decayValue(root[key], step).count > 0}
      weightOf(key) == decayValue(root[key], step).count
      total(path) == FoldSet(LAMBDA key, acc : acc + weightOf(key), 0,
                             {key \in counted : PathOf(key) = path})
  IN  {key \in counted : /\ total(PathOf(key)) >= minimumSymbolEvidence
                         /\ weightOf(key) * Cardinality(KnownClasses(root)) > total(PathOf(key))}

-----------------------------------------------------------------------------
(* The interpolated distribution *)

\* The strongest child within the edit budget: the first key of the walk with
\* the largest decayed count names it.
Strongest(weights) ==
  Min({n \in DOMAIN weights : \A m \in DOMAIN weights : weights[m] <= weights[n]})
nearestChildToken(root, step, prefix, token) ==
  LET child(key) == immediateTokenSuffix(prefix, PathOf(key))
      walk == Walk({key \in Under(root, "s", NoClass, prefix) :
                      PathOf(key) # prefix /\ Close(token, child(key))})
      strongest(keys) ==
        IF keys = <<>> THEN {}
        ELSE {child(keys[Strongest([n \in DOMAIN keys |-> decayValue(root[keys[n]], step).count])])}
  IN  strongest(walk)

\* The stored path a context resolves to, or none ({}).
resolveContextPath(root, step, suffix) ==
  LET resolved(path, token) ==
        IF KnowsToken(root, token)
          THEN {t \in {token} : EffectiveWeight(root, sensoryStorageKey(Append(path, t)), step).count > 0}
          ELSE nearestChildToken(root, step, path, token)
      walked[n \in 0..Len(suffix)] ==
        IF n = 0 THEN {EmptyPath}
        ELSE UNION {{Append(path, t) : t \in resolved(path, suffix[n])} : path \in walked[n - 1]}
  IN  walked[Len(suffix)]

\* The decayed counts of what follows prefix; a basin's faded keys do not count.
candidateCounts(root, step, prefix, class) ==
  LET keys == IF class = NoClass THEN Under(root, "s", NoClass, prefix)
              ELSE {key \in Under(root, "b", class, prefix) :
                      decayValue(root[key], step).count > 0}
  IN  [t \in Children(keys, prefix) |->
         FoldSet(LAMBDA key, acc : acc + decayValue(root[key], step).count, 0,
                 Showing(keys, prefix, t))]

\* The last place a run of tokens occurs in an episode with a token behind it.
followingToken(episode, search) ==
  LET starts == {s \in 1..(Len(episode) - Len(search)) :
                   SubSeq(episode, s, s + Len(search) - 1) = search}
  IN  IF search = <<>> \/ starts = {} THEN <<>> ELSE episode[Max(starts) + Len(search)]

\* The retained episodes, the newest first.
episodesOf(root) ==
  LET newer(a, b) == \/ TimeOf(a) > TimeOf(b)
                     \/ TimeOf(a) = TimeOf(b) /\ Earlier(a, b)
      newest == InOrder({key \in DOMAIN root : Space(key) = "e" /\ root[key].count > 0}, newer)
  IN  [n \in DOMAIN newest |-> PathOf(newest[n])]

\* What the episodes say of the longest suffix of the context each one holds,
\* and the authority this earns: at most three tenths.  A vote is the token, the
\* rank of the episode and the share of the context it follows.
LastTokens(context, order) == SubSeq(context, Len(context) - order + 1, Len(context))
VotesOf(context, episodes) ==
  LET orders(n) == {o \in 1..Len(context) :
                      followingToken(episodes[n], LastTokens(context, o)) # <<>>}
      vote(n, o) == [token  |-> followingToken(episodes[n], LastTokens(context, o)),
                     rank   |-> n,
                     weight |-> Times(Fraction(9 ^ (n - 1), 10 ^ (n - 1)), <<o, Len(context)>>)]
  IN  UNION {{vote(n, Max(os)) : os \in {orders(n)} \ {{}}} : n \in DOMAIN episodes}
Counted(votes) ==
  LET weight == [v \in votes |-> v.weight]
      of(token) == {v \in votes : v.token = token}
  IN  [probs |-> [t \in {v.token : v \in votes} |-> Over(Total(weight, of(t)), Total(weight, votes))],
       coverage |-> Times(FoldSet(LAMBDA v, acc : Larger(v.weight, acc), Zero, votes), <<3, 10>>)]
episodicProbabilities(context, episodes) == Counted(VotesOf(context, episodes))

\* The candidates of every order of the context that has any.
levelsOf(root, step, context, class) ==
  LET found(order) == {candidateCounts(root, step, prefix, class) :
                         prefix \in resolveContextPath(root, step, LastTokens(context, order))}
  IN  UNION {{<<order, counts>> : counts \in found(order) \ {<<>>}} :
               order \in 0..Min({Len(context), maximumBackoffOrder})}

\* Mutant: a candidate whose count has faded is impossible.
NotSmoothed(count) == 10 * count
Smoothed(count) == 10 * count + 1

\* The mean of the orders' distributions, the longer ones weighing more, each
\* smoothed by a tenth of an observation per candidate.
Given(level, t) ==
  LET counts == level[2]
      observed == FoldSet(LAMBDA u, acc : acc + counts[u], 0, DOMAIN counts)
  IN  IF t \in DOMAIN counts
      THEN Fraction((level[1] + 1) * Smoothed(counts[t]), 10 * observed + Cardinality(DOMAIN counts))
      ELSE Zero
Mean(levels) ==
  LET mass == FoldSet(LAMBDA level, acc : acc + level[1] + 1, 0, levels)
  IN  [t \in UNION {DOMAIN level[2] : level \in levels} |->
         Times(Total([level \in levels |-> Given(level, t)], levels), <<1, mass>>)]
semanticProbabilities(root, step, context, class) == Mean(levelsOf(root, step, context, class))

blendEpisodic(semantic, episodic) ==
  LET rest == <<episodic.coverage[2] - episodic.coverage[1], episodic.coverage[2]>>
      of(f, t) == IF t \in DOMAIN f THEN f[t] ELSE Zero
  IN  wholeOf([t \in DOMAIN semantic \cup DOMAIN episodic.probs |->
                 Plus(Times(of(semantic, t), rest),
                      Times(of(episodic.probs, t), episodic.coverage))])

interpolatedProbabilities(root, step, context, class) ==
  blendEpisodic(semanticProbabilities(root, step, context, class),
                IF context = <<>> THEN [probs |-> <<>>, coverage |-> Zero]
                ELSE episodicProbabilities(context, episodesOf(root)))

\* What is not among the candidates has a thousandth.
unobservedProbabilityFloor == <<1, 1000>>
probabilityOf(root, step, context, token, class) ==
  LET in(chances) == IF token \in DOMAIN chances /\ Less(Zero, chances[token])
                       THEN chances[token] ELSE unobservedProbabilityFloor
  IN  in(interpolatedProbabilities(root, step, context, class))

\* Token by token, from at most four tokens before it.
interpolatedSurprisal(root, step, path, class) ==
  [n \in DOMAIN path |->
     probabilityOf(root, step, SubSeq(path, Max({1, n - maximumBackoffOrder}), n - 1),
                   path[n], class)]

classifyInterpolated(root, step, path) ==
  LET prior(c) == LET count == readCounter(root, conceptStorageKey(c))
                  IN  IF count > 0 THEN <<count, Max({step, 1})>> ELSE <<1, 10 * Max({step, 1})>>
      chances(c) == interpolatedSurprisal(root, step, path, c)
  IN  normalizeLogEvidence(
        [c \in KnownClasses(root) |-> Times(prior(c), Product(chances(c), DOMAIN path))])

-----------------------------------------------------------------------------
(* Generation, resolution, analogy *)

repetitionWindow == 3

\* What a generation scores its candidates with: half for a recent repetition.
generationScores(root, step, path, class) ==
  LET context == SubSeq(path, Max({1, Len(path) - maximumBackoffOrder + 1}), Len(path))
      recent == Range(SubSeq(path, Max({1, Len(path) - repetitionWindow + 1}), Len(path)))
      chances == interpolatedProbabilities(root, step, context, class)
  IN  [t \in DOMAIN chances |->
         IF t \in recent THEN Times(chances[t], <<1, 2>>) ELSE chances[t]]

\* Generations from the empty context; the selector is the caller's and may
\* take any candidate; the empty sequence where there is none.
GenerateSequence(root, step, class, maximumTokens) ==
  LET grown(path, next) == IF next = {} THEN {path} ELSE {Append(path, t) : t \in next}
      walks[n \in 0..maximumTokens] ==
        IF n = 0 THEN {EmptyPath}
        ELSE UNION {grown(path, DOMAIN generationScores(root, step, path, class)) :
                      path \in walks[n - 1]}
  IN  walks[maximumTokens]

\* The square of the cosine of two tokens' padded bigram profiles.
NgramSimilarity(left, right) ==
  LET padded(t) == <<0>> \o t \o <<-1>>
      grams(t) == {SubSeq(padded(t), n, n + 1) : n \in 1..(Len(t) + 1)}
      times(t, gram) == Cardinality({n \in 1..(Len(t) + 1) : SubSeq(padded(t), n, n + 1) = gram})
      dot(a, b) == FoldSet(LAMBDA gram, acc : acc + times(a, gram) * times(b, gram), 0, grams(a))
  IN  IF left = <<>> \/ right = <<>> THEN Zero
      ELSE Fraction(dot(left, right) ^ 2, dot(left, left) * dot(right, right))

\* A known token is itself; the first token within the edit budget stands in
\* for an unknown one, or else the one most alike.
Resolved(token, known) ==   \* known: the vocabulary in the order of the walk
  LET near == {n \in DOMAIN known : Close(token, known[n])}
      alike == [n \in DOMAIN known |-> NgramSimilarity(token, known[n])]
      best == {n \in DOMAIN known : /\ Less(Zero, alike[n])
                                    /\ \A m \in DOMAIN known : ~Less(alike[n], alike[m])}
      match(ns) == [mapped |-> known[Min(ns)], known |-> TRUE]
  IN  CASE near # {} -> match(near)
        [] near = {} /\ best # {} -> match(best)
        [] OTHER -> [mapped |-> token, known |-> FALSE]
Vocabulary(walk) == [n \in DOMAIN walk |-> Last(PathOf(walk[n]))]
ResolveToken(root, token) ==
  IF token # <<>> /\ KnowsToken(root, token) THEN [mapped |-> token, known |-> TRUE]
  ELSE Resolved(token, IF token = <<>> THEN <<>>
                       ELSE Vocabulary(Walk({k \in DOMAIN root : Space(k) = "v"})))

\* The sensory key that shares the longest run of bytes with an unknown one, if
\* it shares the first token, or half of a single token ("s/" is two bytes).
FindStructuralAnalog(root, path) ==
  LET shared(key) == 2 + Len(LongestCommonPrefix({Flat(PathOf(key)), Flat(path)}))
      walk == Walk({key \in DOMAIN root : Space(key) = "s"})
      best == {n \in DOMAIN walk : \A m \in DOMAIN walk : shared(walk[m]) <= shared(walk[n])}
      enough == IF Len(path) > 1 THEN 2 + Len(path[1]) + 1 ELSE (2 + Len(Flat(path)) + 1) \div 2
  IN  IF walk = <<>> THEN {}
      ELSE {PathOf(walk[n]) : n \in {m \in {Min(best)} : shared(walk[m]) >= enough}}

tokenSequenceSimilarity(left, right) ==
  IF left = <<>> \/ right = <<>> THEN Zero
  ELSE Fraction(Len(LongestCommonPrefix({left, right})), Max({Len(left), Len(right)}))
=============================================================================
