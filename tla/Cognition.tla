------------------------------ MODULE Cognition ------------------------------
(* The cognitive operations of a tree as its callers interleave them.         *)
(*                                                                            *)
(* Readers load the root, writers replace it by compare-and-swap, and nothing *)
(* else is shared but the cognitive step, the concept counter and the two     *)
(* caches.  An operation is a sequence of such accesses: todo[t] holds the    *)
(* ones thread t still has to make, held[t] what it has read for the first.   *)
EXTENDS Inference

CONSTANTS Threads, Sequences, Classes, Moments, \* callers, their sequences, classes, timestamps
          Remembered,                          \* the sequences an opened log may hold
          MaxTokens,                           \* the longest dream asked for
          MaxCalls, MaxSteps                   \* bounds: calls, steps of experience

ASSUME CognitionAssumption ==
  /\ Remembered \subseteq Sequences /\ Classes \subseteq 1..9
  /\ MaxTokens \in Nat \ {0} /\ ClassCapacity \in Nat \ {0}
  /\ MaxCalls \in Nat /\ MaxSteps \in 0..3

VARIABLES root, version,        \* the root, and how often it has been replaced
          step, concepts,       \* cognitiveStep, conceptCounter
          logIndex,             \* the index of the last log record
          analyses, recalled,   \* the analysis cache and the episode cache
          todo, held, batch,    \* per thread
          lessons, taught,      \* history: bags of sequences, of <<class, sequence>>
          records,              \* history: log records written
          overlapped, pruned,   \* history: writers overlapped; keys decay deleted
          calls

shared == <<root, version, logIndex, records>>
caches == <<analyses, recalled>>
history == <<lessons, taught, pruned>>
vars == <<root, version, step, concepts, logIndex, analyses, recalled, todo, held,
          batch, lessons, taught, records, overlapped, pruned, calls>>

NoBatch == [put |-> <<>>, gone |-> {}]
Concept(n) == 10 + n

\* A tree opened over a log that may hold episodes.
Init == /\ \E remembered \in SUBSET {episodicStorageKey(at, s) : at \in Moments, s \in Remembered} :
             /\ root = [key \in remembered |-> Weight(1, Zero, 0)]
             /\ logIndex = Cardinality(remembered)
        /\ records = logIndex
        /\ version = 0 /\ step = 0 /\ concepts = 0
        /\ analyses = [root |-> -1, of |-> <<>>]
        /\ recalled = [root |-> -1, episodes |-> <<>>]
        /\ todo = [t \in Threads |-> <<>>]
        /\ held = [t \in Threads |-> <<>>]
        /\ batch = [t \in Threads |-> NoBatch]
        /\ lessons = EmptyBag /\ taught = EmptyBag
        /\ overlapped = FALSE /\ pruned = {} /\ calls = 0

-----------------------------------------------------------------------------
(* Operations as sequences of accesses *)

\* A loop over things: the accesses for the first, then the loop over the rest.
Loop(kind, things) == IF things = <<>> THEN <<>> ELSE <<[do |-> kind, each |-> things]>>

\* TrainSensorySequence: the step, the lexicon, then every prefix path.
Train(path) ==
  <<[do |-> "advance", path |-> path]>>
    \o Loop("bump", LexiconKeys(path)) \o Loop("train", sensoryPrefixPaths(path))

Learn(path, class) ==
  <<[do |-> "learn", path |-> path, class |-> class], [do |-> "commit"], [do |-> "log"]>>

\* TeachSequence, and the end of ExperienceSequence.
Teach(path, class) ==
  Learn(path, class) \o Train(path) \o Loop("bump", <<conceptStorageKey(class)>>)

Writes(t) == todo[t] # <<>> /\ todo[t][1].do \notin
               {"analyze", "lookup", "episodes", "recall", "derive", "check", "store"}

Sleep == [do |-> "rem", window |-> Moments]
Dream == [do |-> "dreams"]
Operations ==
  {<<[do |-> kind, path |-> s]>> : kind \in {"unsupervised", "experience", "analyze"},
                                 s \in Sequences}
    \cup {Teach(s, c) : s \in Sequences, c \in Classes}
    \cup {<<[do |-> "episode", at |-> at, path |-> s]>> : at \in Moments, s \in Sequences}
    \cup {<<Sleep>>, <<Dream>>, <<Sleep, Dream>>}

Call(t) ==
  /\ todo[t] = <<>> /\ calls < MaxCalls
  /\ \E operation \in Operations : todo' = [todo EXCEPT ![t] = operation]
  /\ calls' = calls + 1
  /\ overlapped' = (overlapped \/ (Writes(t)' /\ \E u \in Threads : Writes(u)))
  /\ UNCHANGED <<shared, step, concepts, caches, held, batch, history>>

-----------------------------------------------------------------------------
(* Accesses *)

\* The next access of t is of this kind; it is replaced by more.
Now(t) == todo[t][1]
First(t) == Now(t).each[1]
Rest(t) == Loop(Now(t).do, Tail(Now(t).each))
At(t, kind) == todo[t] # <<>> /\ Now(t).do = kind
Then(t, more) == todo' = [todo EXCEPT ![t] = more \o Tail(@)]
Holds(t, weights) == held' = [held EXCEPT ![t] = weights]

\* Insert: the new root and its log record.
Insert(key, weight) ==
  /\ root' = Commit(root, key :> weight) /\ version' = version + 1
  /\ logIndex' = logIndex + 1 /\ records' = records + 1

AdvanceCognitiveStep(t) ==
  /\ At(t, "advance") /\ step < MaxSteps
  /\ step' = step + 1 /\ lessons' = lessons (+) SetToBag({Now(t).path})
  /\ Then(t, <<>>)
  /\ UNCHANGED <<shared, concepts, caches, held, batch, taught, overlapped, pruned, calls>>

\* bumpCounter: a read and a write of one more.
ReadCounter(t) ==
  /\ At(t, "bump") /\ held[t] = <<>>
  /\ Holds(t, <<Get(root, First(t))>>)
  /\ UNCHANGED <<shared, step, concepts, caches, todo, batch, history, overlapped, calls>>

BumpCounter(t) ==
  /\ At(t, "bump") /\ held[t] # <<>>
  /\ Insert(First(t), Weight(held[t][1].count + 1, Zero, 0))
  /\ Holds(t, <<>>) /\ Then(t, Rest(t))
  /\ UNCHANGED <<step, concepts, caches, batch, history, overlapped, calls>>

\* A prefix path of a training: its weight, its parent's, and the write.
GetSensoryWeight(t) ==
  LET path == First(t)
  IN  /\ At(t, "train") /\ Len(held[t]) < 2
      /\ Holds(t, Append(held[t], Get(root, sensoryStorageKey(
                    IF held[t] = <<>> THEN path ELSE parentContextPath(path)))))
      /\ UNCHANGED <<shared, step, concepts, caches, todo, batch, history, overlapped, calls>>

InsertSensoryWeight(t) ==
  LET path == First(t)
      count == held[t][1].count + 1
      probability == IF Len(path) = 1 THEN One ELSE Fraction(count, held[t][2].count + count)
  IN  /\ At(t, "train") /\ Len(held[t]) = 2
      /\ Insert(sensoryStorageKey(path), Weight(count, probability, step))
      /\ Holds(t, <<>>) /\ Then(t, Rest(t))
      /\ UNCHANGED <<step, concepts, caches, batch, history, overlapped, calls>>

\* CommitToEpisodicBuffer.
CommitToEpisodicBuffer(t) ==
  /\ At(t, "episode")
  /\ Insert(episodicStorageKey(Now(t).at, Now(t).path), Weight(1, Zero, 0))
  /\ Then(t, <<>>)
  /\ UNCHANGED <<step, concepts, caches, held, batch, history, overlapped, calls>>

\* UnsupervisedLearn: the winner of the classification is taught, if there is one.
UnsupervisedLearn(t) ==
  LET path == Now(t).path
      winner == Classify(root, path).winner
  IN  /\ At(t, "unsupervised")
      /\ Then(t, IF winner = NoClass THEN <<>> ELSE Learn(path, winner) \o Train(path))
      /\ UNCHANGED <<shared, step, concepts, caches, held, batch, history, overlapped, calls>>

\* ExperienceSequence: a sequence no class explains better than an even split
\* becomes a concept of its own.
Explained(path) ==
  LET known == KnownClasses(root)
      found == Classify(root, path)
  IN  /\ known # {} /\ found.winner # NoClass
      /\ ~Less(found.highest, <<1, Cardinality(known)>>)

RecogniseSequence(t) ==
  LET path == Now(t).path
  IN  /\ At(t, "experience") /\ Explained(path)
      /\ Then(t, Teach(path, Classify(root, path).winner))
      /\ UNCHANGED <<shared, step, concepts, caches, held, batch, history, overlapped, calls>>

SpawnConcept(t) ==
  LET path == Now(t).path
  IN  /\ At(t, "experience") /\ ~Explained(path)
      /\ concepts' = concepts + 1
      /\ Then(t, Teach(path, Concept(concepts + 1)))
      /\ UNCHANGED <<shared, step, caches, held, batch, history, overlapped, calls>>

\* The basin weights a lesson will write, from the weights there are now.
BuildMutations(t) ==
  LET path == Now(t).path class == Now(t).class
      put == buildUnsupervisedMutations(root, path, class, deriveLearningRate(root, path), step)
  IN  /\ At(t, "learn")
      /\ batch' = [batch EXCEPT ![t] = [put |-> put, gone |-> {}]]
      /\ taught' = taught (+) SetToBag({<<class, path>>})
      /\ Then(t, <<>>)
      /\ UNCHANGED <<shared, step, concepts, caches, held, lessons, pruned, overlapped, calls>>

\* commitLearnMutations and commitDecayMutations: the whole batch goes into the
\* root that is there by then.
CommitMutations(t) ==
  /\ At(t, "commit")
  /\ root' = [key \in DOMAIN Commit(root, batch[t].put) \ batch[t].gone |->
                Commit(root, batch[t].put)[key]]
  /\ version' = version + 1
  /\ pruned' = pruned \cup batch[t].gone
  /\ Then(t, <<>>)
  /\ UNCHANGED <<step, concepts, logIndex, records, caches, held, batch, lessons, taught,
                 overlapped, calls>>

\* logLearnMutations and logDecayMutations: the records are numbered from the
\* index read first, which is stored back when they are written.
LogState(t) ==
  /\ At(t, "log") /\ held[t] = <<>>
  /\ Holds(t, <<[index |-> logIndex]>>)
  /\ UNCHANGED <<shared, step, concepts, caches, todo, batch, history, overlapped, calls>>

\* Mutant: a record of a deletion takes no index.
NumberedWrites(changes) == Cardinality(DOMAIN changes.put)
Numbered(changes) == Cardinality(DOMAIN changes.put) + Cardinality(changes.gone)
LogMutations(t) ==
  /\ At(t, "log") /\ held[t] # <<>>
  /\ logIndex' = held[t][1].index + Numbered(batch[t])
  /\ records' = records + Cardinality(DOMAIN batch[t].put \cup batch[t].gone)
  /\ batch' = [batch EXCEPT ![t] = NoBatch]
  /\ Holds(t, <<>>) /\ Then(t, <<>>)
  /\ UNCHANGED <<root, version, step, concepts, caches, history, overlapped, calls>>

-----------------------------------------------------------------------------
(* Consolidation *)

\* ExecuteREMSleepConsolidation: the episodes of the window are collected, each
\* is trained and clustered, then what was not replayed decays.
CollectEpisodes(t) ==
  LET walk == Walk({key \in DOMAIN root : /\ Space(key) = "e" /\ root[key].count > 0
                                         /\ TimeOf(key) \in Now(t).window})
  IN  /\ At(t, "rem")
      /\ Then(t, Loop("replay", walk) \o <<[do |-> "decay", replayed |-> walk]>>)
      /\ UNCHANGED <<shared, step, concepts, caches, held, batch, history, overlapped, calls>>

ReplayEpisode(t) ==
  LET path == PathOf(First(t))
  IN  /\ At(t, "replay")
      /\ Then(t, Train(path) \o <<[do |-> "unsupervised", path |-> path]>> \o Rest(t))
      /\ UNCHANGED <<shared, step, concepts, caches, held, batch, history, overlapped, calls>>

\* ExecuteDecayConsolidation on the sensory namespace: what was not replayed
\* fades, by the share of the replay, or is deleted below the prune threshold.
Sensory == {key \in DOMAIN root : Space(key) = "s"}
sensoryKeyPreserved(key, replayed) ==
  \E n \in DOMAIN replayed : IsPrefix(PathOf(key), PathOf(replayed[n]))
pruneProbabilityThreshold(entries, weight) == <<1, entries * (weight.count + 1)>>

BuildDecay(t) ==
  LET replayed == Now(t).replayed
      entries == Cardinality(Sensory)
      factor == <<Len(replayed), Len(replayed) + entries>>
      faded(key) == Times(root[key].prob, factor)
      fading == {key \in Sensory : ~sensoryKeyPreserved(key, replayed)}
      gone == {key \in fading :
                 Less(faded(key), pruneProbabilityThreshold(entries, root[key]))}
  IN  /\ At(t, "decay")
      /\ IF Len(replayed) = 0 \/ fading = {}
           THEN Then(t, <<>>) /\ UNCHANGED batch
           ELSE /\ batch' = [batch EXCEPT ![t] =
                     [put  |-> [key \in fading \ gone |->
                                  Weight(root[key].count, faded(key), step)],
                      gone |-> gone]]
                /\ Then(t, <<[do |-> "commit"], [do |-> "log"]>>)
      /\ UNCHANGED <<shared, step, concepts, caches, held, history, overlapped, calls>>

\* ExecuteDreamConsolidation: one generation per class that is known now.
BeginDreams(t) ==
  LET known == KnownClasses(root)
      ordered == [n \in 1..Cardinality(known) |->
                    CHOOSE c \in known : Cardinality({d \in known : d < c}) = n - 1]
  IN  /\ At(t, "dreams")
      /\ Then(t, Loop("dream", ordered))
      /\ UNCHANGED <<shared, step, concepts, caches, held, batch, history, overlapped, calls>>

\* The two gates: the generation is new and comes back as its own class.
dreamNoveltyConfidence == <<17, 20>>
Novel(path) == EffectiveWeight(root, sensoryStorageKey(path), step).count = 0
Crisp(path, class) ==
  LET found == Classify(root, path)
  IN  found.winner = class /\ ~Less(found.highest, dreamNoveltyConfidence)

Dreams(class) == GenerateSequence(root, step, class, MaxTokens)

KeepDream(t, dream) ==
  LET class == First(t)
  IN  /\ dream # EmptyPath
      /\ Novel(dream) /\ Crisp(dream, class)
      /\ Then(t, Learn(dream, class) \o Train(dream) \o Rest(t))
      /\ UNCHANGED <<shared, step, concepts, caches, held, batch, history, overlapped, calls>>

\* A generation without a token is discarded as well.
DiscardDream(t, dream) ==
  LET class == First(t)
  IN  /\ dream # EmptyPath => ~(Novel(dream) /\ Crisp(dream, class))
      /\ Then(t, Rest(t))
      /\ UNCHANGED <<shared, step, concepts, caches, held, batch, history, overlapped, calls>>

-----------------------------------------------------------------------------
(* Analysis.  What an analysis says is taken to be the roots it was read from. *)

LoadRoot(t) ==
  /\ At(t, "analyze")
  /\ Then(t, <<[do |-> "lookup", path |-> Now(t).path, loaded |-> version]>>)
  /\ UNCHANGED <<shared, step, concepts, caches, held, batch, history, overlapped, calls>>

\* A hit returns the cached analysis; a miss computes one.
LookUp(t) ==
  LET path == Now(t).path loaded == Now(t).loaded
      hit == analyses.root = loaded /\ path \in DOMAIN analyses.of
  IN  /\ At(t, "lookup")
      /\ Then(t, IF hit THEN <<>> ELSE <<[do |-> "episodes", path |-> path, loaded |-> loaded]>>)
      /\ UNCHANGED <<shared, step, concepts, caches, held, batch, history, overlapped, calls>>

\* episodes: from the cache of the current root, or from the root.
LoadEpisodes(t) ==
  LET path == Now(t).path loaded == Now(t).loaded
  IN  /\ At(t, "episodes")
      /\ Then(t, (IF recalled.root = version THEN <<>>
                  ELSE <<[do |-> "recall", loaded |-> version, episodes |-> episodesOf(root)]>>)
                   \o <<[do |-> "derive", path |-> path, loaded |-> loaded,
                         basis |-> {version}, left |-> 2]>>)
      /\ UNCHANGED <<shared, step, concepts, caches, held, batch, history, overlapped, calls>>

CacheEpisodes(t) ==
  /\ At(t, "recall")
  /\ recalled' = [root |-> Now(t).loaded, episodes |-> Now(t).episodes]
  /\ Then(t, <<>>)
  /\ UNCHANGED <<shared, step, concepts, analyses, held, batch, history, overlapped, calls>>

\* classifyInterpolated and interpolatedSurprisal each load the root again.
Derive(t) ==
  LET path == Now(t).path loaded == Now(t).loaded
      basis == Now(t).basis \cup {version} left == Now(t).left - 1
  IN  /\ At(t, "derive")
      /\ Then(t, <<IF left > 0
                   THEN [do |-> "derive", path |-> path, loaded |-> loaded, basis |-> basis, left |-> left]
                   ELSE [do |-> "check", path |-> path, loaded |-> loaded, basis |-> basis]>>)
      /\ UNCHANGED <<shared, step, concepts, caches, held, batch, history, overlapped, calls>>

\* Mutant: what was computed is cached whatever root there is by now.
AnyRoot(loaded) == TRUE
Current(loaded) == version = loaded

\* An analysis is cached only if the root is still the one loaded first.
CheckRoot(t) ==
  LET path == Now(t).path loaded == Now(t).loaded basis == Now(t).basis
  IN  /\ At(t, "check")
      /\ Then(t, IF Current(loaded)
                 THEN <<[do |-> "store", path |-> path, loaded |-> loaded, basis |-> basis]>>
                 ELSE <<>>)
      /\ UNCHANGED <<shared, step, concepts, caches, held, batch, history, overlapped, calls>>

CacheAnalysis(t) ==
  LET path == Now(t).path loaded == Now(t).loaded basis == Now(t).basis
      kept == IF analyses.root = loaded THEN analyses.of ELSE <<>>
  IN  /\ At(t, "store")
      /\ analyses' = [root |-> loaded,
                     of   |-> [p \in DOMAIN kept \cup {path} |-> IF p = path THEN basis ELSE kept[p]]]
      /\ Then(t, <<>>)
      /\ UNCHANGED <<shared, step, concepts, recalled, held, batch, history, overlapped, calls>>

-----------------------------------------------------------------------------
(* A clean restart: the log gives back the root, nothing else is kept. *)

Reopen ==
  /\ \A t \in Threads : todo[t] = <<>>
  /\ step + concepts > 0
  /\ step' = 0 /\ concepts' = 0
  /\ analyses' = [root |-> -1, of |-> <<>>] /\ recalled' = [root |-> -1, episodes |-> <<>>]
  /\ UNCHANGED <<shared, todo, held, batch, history, overlapped, calls>>

Learning(t) ==
  \/ AdvanceCognitiveStep(t) \/ ReadCounter(t) \/ BumpCounter(t) \/ GetSensoryWeight(t)
  \/ InsertSensoryWeight(t) \/ CommitToEpisodicBuffer(t) \/ UnsupervisedLearn(t)
  \/ RecogniseSequence(t) \/ SpawnConcept(t) \/ BuildMutations(t) \/ CommitMutations(t)
  \/ LogState(t) \/ LogMutations(t)
Consolidating(t) ==
  \/ CollectEpisodes(t) \/ ReplayEpisode(t) \/ BuildDecay(t) \/ BeginDreams(t)
  \/ /\ At(t, "dream")
     /\ \E dream \in Dreams(First(t)) : KeepDream(t, dream) \/ DiscardDream(t, dream)
Analysing(t) ==
  \/ LoadRoot(t) \/ LookUp(t) \/ LoadEpisodes(t) \/ CacheEpisodes(t)
  \/ Derive(t) \/ CheckRoot(t) \/ CacheAnalysis(t)

Next == Reopen \/ \E t \in Threads : \/ Call(t) \/ Learning(t) \/ Consolidating(t)
                                     \/ Analysing(t)
Spec == Init /\ [][Next]_vars

-----------------------------------------------------------------------------
(* What the history says *)

Quiet == \A t \in Threads : todo[t] = <<>>
Serial == Quiet /\ ~overlapped

Tally(bag, worth(_)) == FoldSet(LAMBDA x, acc : acc + bag[x] * worth(x), 0, DOMAIN bag)

\* What the counts under a key ought to be.
Owed(key) ==
  LET path == PathOf(key)
      at(lesson, token) == {n \in DOMAIN lesson : lesson[n] = token}
      pairs(lesson) == {p \in at(lesson, path[1]) \X at(lesson, path[2]) :
                          /\ p[1] # p[2]
                          /\ p[1] - p[2] \in -coOccurrenceWindow..coOccurrenceWindow}
      one(condition) == IF condition THEN 1 ELSE 0
  IN  CASE Space(key) = "v" -> Tally(lessons, LAMBDA l : Cardinality(at(l, path[1])))
        [] Space(key) = "c" -> Tally(lessons, LAMBDA l : Cardinality(pairs(l)))
        [] Space(key) = "s" -> Tally(lessons, LAMBDA l : one(IsPrefix(path, l)))
        [] Space(key) \in {"b", "k"} ->
             Tally(taught, LAMBDA l : one(l[1] = ClassOf(key) /\ IsPrefix(path, l[2])))
        [] OTHER -> 1

\* The keys the history has written to.
Due ==
  UNION {Range(LexiconKeys(l)) \cup {sensoryStorageKey(p) : p \in Range(sensoryPrefixPaths(l))} :
           l \in DOMAIN lessons}
    \cup UNION {{basinStorageKey(l[1], p) : p \in Range(sensoryPrefixPaths(l[2]))} :
                  l \in DOMAIN taught}

Contexts == {EmptyPath} \cup UNION {Range(sensoryPrefixPaths(s)) : s \in Sequences}

\* The tokens that followed a context, and the lessons that go on within its last
\* token: only its bytes are a prefix of theirs.
Followers(context) ==
  LET n == Len(context)
  IN  {l[n + 1] : l \in {l \in DOMAIN lessons : Len(l) > n /\ IsPrefix(context, l)}}
GoingOn(context) ==
  {l \in DOMAIN lessons : BytePrefix(context, l) /\ ~IsPrefix(context, l)}

-----------------------------------------------------------------------------
(* Properties *)

\* The values are weights, and no count is larger than what was observed:
\* an update of a counter may be lost to another caller's (bumpCounter and
\* TrainSensorySequence read, then write), but none is ever counted twice.
Inv ==
  \A key \in DOMAIN root :
    /\ root[key].count \in 1..Owed(key)
    /\ root[key].prob[1] \in 0..root[key].prob[2]
    /\ root[key].at \in 0..MaxSteps

\* Callers that take turns lose nothing: after any number of lessons, replays,
\* dreams and decays every count is what was observed, for every key decay has
\* not deleted, and the log index is the number of records.
SerialExact ==
  Serial => /\ \A key \in Due \ pruned : Get(root, key).count = Owed(key)
            /\ logIndex = records

\* A cached analysis was read from the root it is cached under and from no
\* other, and the cached episodes are those of the root that is current
\* (AnalyzeInterpolated, episodes).
CachedPure ==
  /\ \A path \in DOMAIN analyses.of : analyses.of[path] = {analyses.root}
  /\ recalled.root = version => recalled.episodes = episodesOf(root)

\* What the lexicon and the sensory paths answer is what was observed: the
\* lookahead names each token that followed a context, and nothing else unless a
\* lesson goes on within the context's last token (LookaheadObserved); a wide
\* enough beam search reaches every lesson, an observed path is its own analog,
\* and a token resolves to one that was observed, within the edit budget if any is.
AnswersFollowHistory ==
  Serial /\ pruned = {} =>
    LET seen == {t \in UNION {Range(s) : s \in Sequences} : KnowsToken(root, t)}
        predicted(context, n) == PredictNextSensoryTokens(root, context, n)
    IN  /\ \A context \in Contexts :
             LET named == {p.token : p \in Range(predicted(context, 9))}
             IN  /\ Followers(context) \subseteq named
                 /\ GoingOn(context) = {} =>
                      /\ named = Followers(context)
                      /\ Len(predicted(context, 1)) = Min({1, Cardinality(named)})
        /\ \A l \in DOMAIN lessons :
             /\ \E beam \in Range(ExecuteBeamSearch(root, EmptyPath, 9, Len(l), 9)) : beam.path = l
             /\ FindStructuralAnalog(root, l) = {l}
             /\ \A s \in Sequences : tokenSequenceSimilarity(l, s) = One <=> l = s
        /\ \A t \in UNION {Range(s) : s \in Sequences} :
             LET match == ResolveToken(root, t)
             IN  /\ match.known => match.mapped \in seen
                 /\ t \in seen => match.mapped = t
                 /\ (\E u \in seen : Close(t, u)) => match.known /\ Close(t, match.mapped)

\* "PredictNextTokens performs prefix lookahead into immediate child token
\* branches": it names what followed the context and nothing else.
LookaheadObserved ==
  Serial /\ pruned = {} =>
    \A context \in Contexts :
      {p.token : p \in Range(PredictNextSensoryTokens(root, context, 9))} = Followers(context)

\* Every distribution is one: the interpolated chances and both classifiers'
\* posteriors add up to one, whatever faded or was deleted; a winner is a known
\* class with at least an even share; no token of a sequence is impossible; and
\* no symbol tells all the classes apart from each other.
DistributionsWhole ==
  Quiet =>
    LET known == KnownClasses(root)
        whole(f) == DOMAIN f = {} \/ (Total(f, DOMAIN f) = One /\ \A x \in DOMAIN f : Less(Zero, f[x]))
        possible(chances) == \A n \in DOMAIN chances : Less(Zero, chances[n]) /\ ~Less(One, chances[n])
        symbols == ExtractDiscriminativeSymbols(root, step)
    IN  /\ \A context \in Contexts, class \in known \cup {NoClass} :
             whole(interpolatedProbabilities(root, step, context, class))
        /\ \A s \in Sequences :
             LET found == Classify(root, s)
             IN  /\ whole(found.scores)
                 /\ found.scores # <<>> => /\ found.winner \in known
                                          /\ ~Less(found.highest, <<1, Cardinality(known)>>)
                 /\ possible(GetSurprisal(root, sensoryStorageKey(s)))
                 /\ possible(interpolatedSurprisal(root, step, s, NoClass))
                 /\ Len(s) = 1 => whole(classifyInterpolated(root, step, s))
        /\ \A key \in symbols :
             Cardinality({other \in symbols : PathOf(other) = PathOf(key)}) < Cardinality(known)

\* A dream that is kept is of a path that is not stored: "Novelty means the
\* sequence is not already a stored path, so nothing is double-counted."
DreamsAreNovel ==
  [][\A t \in Threads : At(t, "dream") =>
       \A dream \in Dreams(First(t)) \ {EmptyPath} :
         KeepDream(t, dream) => sensoryStorageKey(dream) \notin DOMAIN root]_vars
=============================================================================
