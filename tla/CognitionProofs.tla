-------------------------- MODULE CognitionProofs --------------------------
(***************************************************************************)
(* The two caches of a tree hold for any number of callers and whatever    *)
(* they learn: an analysis is stored under the root it was read from and   *)
(* from no other, and the episodes cached under the current root are its.  *)
(*                                                                         *)
(* An analysis reads the root several times while others replace it.  What *)
(* carries it through is in the accesses its caller still has to make      *)
(* (Fits): versions go up only, so that everything read between the first  *)
(* load and the last check is of one root when both find the same one.     *)
(***************************************************************************)
EXTENDS Cognition, TLAPS

\* The accesses of an analysis that say what has been read so far.
Reading == {"lookup", "episodes", "recall", "derive", "check", "store"}

Plain(x) == x.do \notin Reading

\* What such an access says, when v is the version and e its episodes.
Fits(x, v, e) ==
  /\ x.do \in Reading => x.loaded \in 0..v
  /\ x.do = "recall" => (x.loaded = v => x.episodes = e)
  /\ x.do \in {"derive", "check"} => x.basis # {} /\ \A b \in x.basis : b \in x.loaded..v
  /\ x.do = "store" => x.basis = {x.loaded}

PlainSeq(s) == \E S : s \in Seq(S) /\ \A x \in S : Plain(x)

AccessesOK ==
  \E S : todo \in [Threads -> Seq(S)] /\ \A x \in S : Fits(x, version, episodesOf(root))

CachesOK ==
  /\ version \in Nat /\ AccessesOK
  /\ recalled.root \in Int /\ recalled.root <= version
  /\ CachedPure

-----------------------------------------------------------------------------
(* Operations are sequences of accesses                                    *)

LEMMA PlainIs ==
  ASSUME NEW S, NEW s \in Seq(S), \A x \in S : Plain(x)
  PROVE  PlainSeq(s)
BY DEF PlainSeq

LEMMA PlainNone == PlainSeq(<<>>)
<1> PICK S : S = {}
  OBVIOUS
<1>1. <<>> \in Seq(S) /\ \A x \in S : Plain(x)
  OBVIOUS
<1> QED BY <1>1, PlainIs

LEMMA PlainOne ==
  ASSUME NEW x, Plain(x)
  PROVE  PlainSeq(<<x>>)
<1> PICK S : S = {x}
  OBVIOUS
<1>1. <<x>> \in Seq(S) /\ \A y \in S : Plain(y)
  OBVIOUS
<1> QED BY <1>1, PlainIs

LEMMA PlainTwo ==
  ASSUME NEW x, NEW y, Plain(x), Plain(y)
  PROVE  PlainSeq(<<x, y>>)
<1> PICK S : S = {x, y}
  OBVIOUS
<1>1. <<x, y>> \in Seq(S) /\ \A z \in S : Plain(z)
  OBVIOUS
<1> QED BY <1>1, PlainIs

LEMMA PlainBoth ==
  ASSUME NEW s, NEW r, PlainSeq(s), PlainSeq(r)
  PROVE  PlainSeq(s \o r)
<1>1. PICK S : s \in Seq(S) /\ \A x \in S : Plain(x)
  BY DEF PlainSeq
<1>2. PICK T : r \in Seq(T) /\ \A x \in T : Plain(x)
  BY DEF PlainSeq
<1>3. s \in Seq(S \cup T) /\ r \in Seq(S \cup T)
  BY <1>1, <1>2
<1>4. s \o r \in Seq(S \cup T)
  BY <1>3
<1> QED BY <1>1, <1>2, <1>4 DEF PlainSeq

LEMMA PlainLoop ==
  ASSUME NEW kind, kind \notin Reading, NEW things
  PROVE  PlainSeq(Loop(kind, things))
<1>1. Plain([do |-> kind, each |-> things])
  BY DEF Plain
<1> QED BY <1>1, PlainNone, PlainOne DEF Loop

LEMMA PlainTrain ==
  ASSUME NEW path
  PROVE  PlainSeq(Train(path))
<1>1. PlainSeq(<<[do |-> "advance", path |-> path]>>)
  BY PlainOne DEF Plain, Reading
<1>2. PlainSeq(Loop("bump", LexiconKeys(path))) /\ PlainSeq(Loop("train", sensoryPrefixPaths(path)))
  BY PlainLoop DEF Reading
<1> QED BY <1>1, <1>2, PlainBoth DEF Train

LEMMA PlainLearn ==
  ASSUME NEW path, NEW class
  PROVE  PlainSeq(Learn(path, class))
<1> DEFINE learn == [do |-> "learn", path |-> path, class |-> class]
           commit == [do |-> "commit"]
           log == [do |-> "log"]
<1>1. Plain(learn) /\ Plain(commit) /\ Plain(log)
  BY DEF Plain, Reading
<1>2. Learn(path, class) = <<learn, commit, log>>
  BY DEF Learn
<1> HIDE DEF learn, commit, log
<1> PICK S : S = {learn, commit, log}
  OBVIOUS
<1>3. <<learn, commit, log>> \in Seq(S) /\ \A x \in S : Plain(x)
  BY <1>1
<1> QED BY <1>2, <1>3, PlainIs

LEMMA PlainTeach ==
  ASSUME NEW path, NEW class
  PROVE  PlainSeq(Teach(path, class))
<1>1. PlainSeq(Learn(path, class)) /\ PlainSeq(Train(path))
  BY PlainLearn, PlainTrain
<1>2. PlainSeq(Loop("bump", <<conceptStorageKey(class)>>))
  BY PlainLoop DEF Reading
<1> QED BY <1>1, <1>2, PlainBoth DEF Teach

LEMMA PlainOperations ==
  ASSUME NEW operation \in Operations
  PROVE  PlainSeq(operation)
<1>1. ASSUME NEW kind \in {"unsupervised", "experience", "analyze"}, NEW s \in Sequences
      PROVE  PlainSeq(<<[do |-> kind, path |-> s]>>)
  BY PlainOne DEF Plain, Reading
<1>2. ASSUME NEW at \in Moments, NEW s \in Sequences
      PROVE  PlainSeq(<<[do |-> "episode", at |-> at, path |-> s]>>)
  BY PlainOne DEF Plain, Reading
<1>3. PlainSeq(<<Sleep>>) /\ PlainSeq(<<Dream>>)
  BY PlainOne DEF Plain, Reading, Sleep, Dream
<1>4. PlainSeq(<<Sleep, Dream>>)
  BY PlainTwo DEF Plain, Reading, Sleep, Dream
<1> QED BY <1>1, <1>2, <1>3, <1>4, PlainTeach DEF Operations

-----------------------------------------------------------------------------
(* Steps                                                                   *)

\* A root is replaced by one of a later version.
LEMMA FitsLater ==
  ASSUME NEW x, NEW v \in Nat, NEW e, NEW f, Fits(x, v, e)
  PROVE  Fits(x, v + 1, f)
<1>1. x.do \in Reading => x.loaded \in 0..(v + 1)
  BY DEF Fits
<1>2. x.do = "recall" => x.loaded # v + 1
  BY DEF Fits, Reading
<1>3. x.do \in {"derive", "check"} => x.basis # {} /\ \A b \in x.basis : b \in x.loaded..(v + 1)
  BY DEF Fits, Reading
<1> QED BY <1>1, <1>2, <1>3 DEF Fits

LEMMA PlainFits ==
  ASSUME NEW x, Plain(x), NEW v, NEW e
  PROVE  Fits(x, v, e)
BY DEF Plain, Fits, Reading

\* The next access is replaced by others that fit.
LEMMA GoesOn ==
  ASSUME AccessesOK, NEW t \in Threads, todo[t] # <<>>,
         NEW S, NEW more \in Seq(S), \A x \in S : Fits(x, version', episodesOf(root)'),
         \A x : Fits(x, version, episodesOf(root)) => Fits(x, version', episodesOf(root)'),
         Then(t, more)
  PROVE  AccessesOK'
<1>1. PICK T : todo \in [Threads -> Seq(T)] /\ \A x \in T : Fits(x, version, episodesOf(root))
  BY DEF AccessesOK
<1>2. Tail(todo[t]) \in Seq(T)
  BY <1>1
<1>3. more \o Tail(todo[t]) \in Seq(S \cup T)
  <2>1. more \in Seq(S \cup T) /\ Tail(todo[t]) \in Seq(S \cup T)
    BY <1>2
  <2> QED BY <2>1
<1>4. todo' \in [Threads -> Seq(S \cup T)]
  <2>1. todo \in [Threads -> Seq(S \cup T)]
    BY <1>1
  <2> QED BY <1>3, <2>1 DEF Then
<1>5. \A x \in S \cup T : Fits(x, version', episodesOf(root)')
  BY <1>1
<1> QED BY <1>4, <1>5 DEF AccessesOK

\* The access a caller makes next fits.
LEMMA NowFits ==
  ASSUME AccessesOK, NEW t \in Threads, todo[t] # <<>>
  PROVE  Fits(Now(t), version, episodesOf(root))
<1>1. PICK S : todo \in [Threads -> Seq(S)] /\ \A x \in S : Fits(x, version, episodesOf(root))
  BY DEF AccessesOK
<1>2. todo[t][1] \in S
  BY <1>1
<1> QED BY <1>1, <1>2 DEF Now

\* Steps that leave the caches and replace the root at most once.
PlainStep(t) ==
  /\ todo[t] # <<>> /\ UNCHANGED caches
  /\ todo' = todo \/ \E more : PlainSeq(more) /\ Then(t, more)
  /\ UNCHANGED <<root, version>> \/ version' = version + 1

LEMMA PlainStepKeeps ==
  ASSUME CachesOK, NEW t \in Threads, PlainStep(t)
  PROVE  CachesOK'
<1>1. version \in Nat /\ AccessesOK
  BY DEF CachesOK
<1>2. \A x : Fits(x, version, episodesOf(root)) => Fits(x, version', episodesOf(root)')
  <2>1. CASE UNCHANGED <<root, version>>
    BY <2>1
  <2>2. CASE version' = version + 1
    BY <1>1, <2>2, FitsLater
  <2> QED BY <2>1, <2>2 DEF PlainStep
<1>3. AccessesOK'
  <2>1. CASE todo' = todo
    BY <1>1, <1>2, <2>1 DEF AccessesOK
  <2>2. ASSUME NEW more, PlainSeq(more), Then(t, more)
        PROVE  AccessesOK'
    <3>1. PICK S : more \in Seq(S) /\ \A x \in S : Plain(x)
      BY <2>2 DEF PlainSeq
    <3>2. \A x \in S : Fits(x, version', episodesOf(root)')
      BY <3>1, PlainFits
    <3> QED BY <1>1, <1>2, <2>2, <3>1, <3>2, GoesOn DEF PlainStep
  <2> QED BY <2>1, <2>2 DEF PlainStep
<1>4. /\ analyses' = analyses /\ recalled' = recalled
      /\ recalled.root \in Int /\ recalled.root <= version
  BY DEF PlainStep, caches, CachesOK
<1>5. version' \in Nat /\ recalled'.root \in Int /\ recalled'.root <= version'
  BY <1>1, <1>4 DEF PlainStep
<1>6. CachedPure'
  <2>1. CASE UNCHANGED <<root, version>>
    BY <1>4, <2>1 DEF CachesOK, CachedPure
  <2>2. CASE version' = version + 1
    <3>1. recalled'.root # version'
      BY <1>1, <1>4, <2>2
    <3> QED BY <1>4, <3>1 DEF CachesOK, CachedPure
  <2> QED BY <2>1, <2>2 DEF PlainStep
<1> QED BY <1>3, <1>5, <1>6 DEF CachesOK

LEMMA InitCaches == Init => CachesOK
<1> SUFFICES ASSUME Init PROVE CachesOK
  OBVIOUS
<1>1. todo \in [Threads -> Seq({})]
  BY DEF Init
<1>2. AccessesOK
  BY <1>1 DEF AccessesOK
<1>3. version = 0 /\ analyses.of = <<>> /\ recalled.root = -1
  BY DEF Init
<1>4. CachedPure
  BY <1>3 DEF CachedPure
<1> QED BY <1>2, <1>3, <1>4 DEF CachesOK

LEMMA CallKeeps ==
  ASSUME CachesOK, NEW t \in Threads, Call(t)
  PROVE  CachesOK'
<1>1. PICK T : todo \in [Threads -> Seq(T)] /\ \A x \in T : Fits(x, version, episodesOf(root))
  BY DEF CachesOK, AccessesOK
<1>2. PICK operation \in Operations : todo' = [todo EXCEPT ![t] = operation]
  BY DEF Call
<1>3. PICK S : operation \in Seq(S) /\ \A x \in S : Plain(x)
  BY PlainOperations DEF PlainSeq
<1>4. UNCHANGED <<root, version, analyses, recalled>>
  BY DEF Call, shared, caches
<1>5. todo' \in [Threads -> Seq(S \cup T)]
  <2>1. todo \in [Threads -> Seq(S \cup T)]
    BY <1>1
  <2>2. operation \in Seq(S \cup T)
    BY <1>3
  <2> QED BY <1>2, <2>1, <2>2
<1>6. \A x \in S \cup T : Fits(x, version', episodesOf(root)')
  BY <1>1, <1>3, <1>4, PlainFits
<1>7. AccessesOK'
  BY <1>5, <1>6 DEF AccessesOK
<1> QED BY <1>4, <1>7 DEF CachesOK, CachedPure

LEMMA RestIsPlain ==
  ASSUME NEW t, Plain(Now(t))
  PROVE  PlainSeq(Rest(t))
BY PlainLoop DEF Rest, Plain

LEMMA LearningIsPlain ==
  ASSUME NEW t \in Threads, Learning(t), version \in Nat
  PROVE  PlainStep(t)
<1>1. CASE AdvanceCognitiveStep(t)
  BY <1>1, PlainNone DEF AdvanceCognitiveStep, At, PlainStep, shared
<1>2. CASE ReadCounter(t)
  BY <1>2 DEF ReadCounter, At, PlainStep, shared
<1>3. CASE BumpCounter(t)
  BY <1>3, RestIsPlain DEF BumpCounter, Insert, At, PlainStep, Plain, Reading
<1>4. CASE GetSensoryWeight(t)
  BY <1>4 DEF GetSensoryWeight, At, PlainStep, shared
<1>5. CASE InsertSensoryWeight(t)
  BY <1>5, RestIsPlain DEF InsertSensoryWeight, Insert, At, PlainStep, Plain, Reading
<1>6. CASE CommitToEpisodicBuffer(t)
  BY <1>6, PlainNone DEF CommitToEpisodicBuffer, Insert, At, PlainStep
<1>7. CASE UnsupervisedLearn(t)
  <2> DEFINE path == Now(t).path
             winner == Classify(root, path).winner
  <2>1. PlainSeq(Learn(path, winner) \o Train(path))
    BY PlainLearn, PlainTrain, PlainBoth
  <2> QED BY <1>7, <2>1, PlainNone DEF UnsupervisedLearn, At, PlainStep, shared
<1>8. CASE RecogniseSequence(t)
  BY <1>8, PlainTeach DEF RecogniseSequence, At, PlainStep, shared
<1>9. CASE SpawnConcept(t)
  BY <1>9, PlainTeach DEF SpawnConcept, At, PlainStep, shared
<1>10. CASE BuildMutations(t)
  BY <1>10, PlainNone DEF BuildMutations, At, PlainStep, shared
<1>11. CASE CommitMutations(t)
  BY <1>11, PlainNone DEF CommitMutations, At, PlainStep
<1>12. CASE LogState(t)
  BY <1>12 DEF LogState, At, PlainStep, shared
<1>13. CASE LogMutations(t)
  BY <1>13, PlainNone DEF LogMutations, At, PlainStep
<1> QED BY <1>1, <1>2, <1>3, <1>4, <1>5, <1>6, <1>7, <1>8, <1>9, <1>10, <1>11, <1>12, <1>13
        DEF Learning

LEMMA ConsolidatingIsPlain ==
  ASSUME NEW t \in Threads, Consolidating(t)
  PROVE  PlainStep(t)
<1>1. CASE CollectEpisodes(t)
  <2>1. PICK walk : Then(t, Loop("replay", walk) \o <<[do |-> "decay", replayed |-> walk]>>)
    BY <1>1 DEF CollectEpisodes
  <2>2. PlainSeq(<<[do |-> "decay", replayed |-> walk]>>)
    BY PlainOne DEF Plain, Reading
  <2>3. PlainSeq(Loop("replay", walk))
    BY PlainLoop DEF Reading
  <2> QED BY <1>1, <2>1, <2>2, <2>3, PlainBoth DEF CollectEpisodes, At, PlainStep, shared
<1>2. CASE ReplayEpisode(t)
  <2> DEFINE path == PathOf(First(t))
  <2>1. PlainSeq(<<[do |-> "unsupervised", path |-> path]>>)
    BY PlainOne DEF Plain, Reading
  <2>2. PlainSeq(Rest(t))
    BY <1>2, RestIsPlain DEF ReplayEpisode, At, Plain, Reading
  <2>3. PlainSeq(Train(path) \o <<[do |-> "unsupervised", path |-> path]>> \o Rest(t))
    BY <2>1, <2>2, PlainTrain, PlainBoth
  <2> QED BY <1>2, <2>3 DEF ReplayEpisode, At, PlainStep, shared
<1>3. CASE BuildDecay(t)
  <2>1. Then(t, <<>>) \/ Then(t, <<[do |-> "commit"], [do |-> "log"]>>)
    BY <1>3 DEF BuildDecay
  <2>2. PlainSeq(<<[do |-> "commit"], [do |-> "log"]>>)
    BY PlainTwo DEF Plain, Reading
  <2>3. todo[t] # <<>> /\ UNCHANGED caches /\ UNCHANGED <<root, version>>
    BY <1>3 DEF BuildDecay, At, shared
  <2> QED BY <2>1, <2>2, <2>3, PlainNone DEF PlainStep
<1>4. CASE BeginDreams(t)
  <2>1. PICK ordered : Then(t, Loop("dream", ordered))
    BY <1>4 DEF BeginDreams
  <2>2. PlainSeq(Loop("dream", ordered))
    BY PlainLoop DEF Reading
  <2> QED BY <1>4, <2>1, <2>2 DEF BeginDreams, At, PlainStep, shared
<1>5. ASSUME At(t, "dream"), NEW dream, KeepDream(t, dream) \/ DiscardDream(t, dream)
      PROVE  PlainStep(t)
  <2>1. PlainSeq(Rest(t))
    BY <1>5, RestIsPlain DEF At, Plain, Reading
  <2>2. PlainSeq(Learn(dream, First(t)) \o Train(dream) \o Rest(t))
    BY <2>1, PlainLearn, PlainTrain, PlainBoth
  <2>3. CASE KeepDream(t, dream)
    BY <1>5, <2>2, <2>3 DEF KeepDream, At, PlainStep, shared
  <2>4. CASE DiscardDream(t, dream)
    BY <1>5, <2>1, <2>4 DEF DiscardDream, At, PlainStep, shared
  <2> QED BY <1>5, <2>3, <2>4
<1> QED BY <1>1, <1>2, <1>3, <1>4, <1>5 DEF Consolidating

-----------------------------------------------------------------------------
(* Analysis: the root stays what it is                                     *)

\* One access of an analysis is replaced by more that fit.
LEMMA AnalysisKeeps ==
  ASSUME CachesOK, NEW t \in Threads, todo[t] # <<>>,
         NEW S, NEW more \in Seq(S), \A x \in S : Fits(x, version, episodesOf(root)),
         Then(t, more), UNCHANGED shared,
         recalled'.root \in Int, recalled'.root <= version, CachedPure'
  PROVE  CachesOK'
<1>1. version' = version /\ root' = root
  BY DEF shared
<1>2. \A x \in S : Fits(x, version', episodesOf(root)')
  BY <1>1
<1>3. \A x : Fits(x, version, episodesOf(root)) => Fits(x, version', episodesOf(root)')
  BY <1>1
<1>4. AccessesOK
  BY DEF CachesOK
<1>5. AccessesOK'
  BY <1>2, <1>3, <1>4, GoesOn
<1> QED BY <1>1, <1>5 DEF CachesOK

\* The caches are left alone.
LEMMA CachesLeft ==
  ASSUME CachesOK, UNCHANGED <<shared, caches>>
  PROVE  recalled'.root \in Int /\ recalled'.root <= version /\ CachedPure'
BY DEF CachesOK, CachedPure, shared, caches

LEMMA NothingMore ==
  ASSUME CachesOK, NEW t \in Threads, todo[t] # <<>>, Then(t, <<>>), UNCHANGED shared,
         recalled'.root \in Int, recalled'.root <= version, CachedPure'
  PROVE  CachesOK'
<1> PICK S : S = {}
  OBVIOUS
<1>1. <<>> \in Seq(S) /\ \A x \in S : Fits(x, version, episodesOf(root))
  OBVIOUS
<1> QED BY <1>1, AnalysisKeeps

LEMMA OneMore ==
  ASSUME CachesOK, NEW t \in Threads, todo[t] # <<>>,
         NEW x, Fits(x, version, episodesOf(root)), Then(t, <<x>>), UNCHANGED shared,
         recalled'.root \in Int, recalled'.root <= version, CachedPure'
  PROVE  CachesOK'
<1> PICK S : S = {x}
  OBVIOUS
<1>1. <<x>> \in Seq(S) /\ \A y \in S : Fits(y, version, episodesOf(root))
  OBVIOUS
<1> QED BY <1>1, AnalysisKeeps

LEMMA LoadRootKeeps ==
  ASSUME CachesOK, NEW t \in Threads, LoadRoot(t)
  PROVE  CachesOK'
<1> DEFINE x == [do |-> "lookup", path |-> Now(t).path, loaded |-> version]
<1>1. Fits(x, version, episodesOf(root))
  BY DEF CachesOK, Fits
<1>2. todo[t] # <<>> /\ Then(t, <<x>>) /\ UNCHANGED <<shared, caches>>
  BY DEF LoadRoot, At
<1> HIDE DEF x
<1> QED BY <1>1, <1>2, CachesLeft, OneMore

LEMMA LookUpKeeps ==
  ASSUME CachesOK, NEW t \in Threads, LookUp(t)
  PROVE  CachesOK'
<1> DEFINE x == [do |-> "episodes", path |-> Now(t).path, loaded |-> Now(t).loaded]
<1>1. todo[t] # <<>> /\ Now(t).do = "lookup" /\ UNCHANGED <<shared, caches>>
  BY DEF LookUp, At
<1>2. Fits(Now(t), version, episodesOf(root))
  BY <1>1, NowFits DEF CachesOK
<1>3. Fits(x, version, episodesOf(root))
  BY <1>1, <1>2 DEF Fits, Reading
<1>4. Then(t, <<>>) \/ Then(t, <<x>>)
  BY DEF LookUp
<1> HIDE DEF x
<1>5. recalled'.root \in Int /\ recalled'.root <= version /\ CachedPure'
  BY <1>1, CachesLeft
<1> QED BY <1>1, <1>3, <1>4, <1>5, OneMore, NothingMore

LEMMA LoadEpisodesKeeps ==
  ASSUME CachesOK, NEW t \in Threads, LoadEpisodes(t)
  PROVE  CachesOK'
<1> DEFINE recall == [do |-> "recall", loaded |-> version, episodes |-> episodesOf(root)]
           derive == [do |-> "derive", path |-> Now(t).path, loaded |-> Now(t).loaded,
                      basis |-> {version}, left |-> 2]
<1>1. todo[t] # <<>> /\ Now(t).do = "episodes" /\ UNCHANGED <<shared, caches>>
  BY DEF LoadEpisodes, At
<1>2. Fits(Now(t), version, episodesOf(root)) /\ version \in Nat
  BY <1>1, NowFits DEF CachesOK
<1>3. Now(t).loaded \in 0..version
  BY <1>1, <1>2 DEF Fits, Reading
<1>4. Fits(recall, version, episodesOf(root))
  BY <1>2 DEF Fits
<1>5. Fits(derive, version, episodesOf(root))
  BY <1>2, <1>3 DEF Fits
<1> PICK more : /\ more = (IF recalled.root = version THEN <<>> ELSE <<recall>>) \o <<derive>>
                /\ Then(t, more)
  BY Zenon DEF LoadEpisodes
<1> PICK S : S = {recall, derive}
  OBVIOUS
<1> HIDE DEF recall, derive
<1>6. more \in Seq(S) /\ \A x \in S : Fits(x, version, episodesOf(root))
  <2>1. <<>> \in Seq(S) /\ <<recall>> \in Seq(S) /\ <<derive>> \in Seq(S)
    OBVIOUS
  <2> QED BY <1>4, <1>5, <2>1
<1>7. recalled'.root \in Int /\ recalled'.root <= version /\ CachedPure'
  BY <1>1, CachesLeft
<1> QED BY <1>1, <1>6, <1>7, AnalysisKeeps

LEMMA CacheEpisodesKeeps ==
  ASSUME CachesOK, NEW t \in Threads, CacheEpisodes(t)
  PROVE  CachesOK'
<1>1. /\ todo[t] # <<>> /\ Now(t).do = "recall" /\ Then(t, <<>>)
      /\ UNCHANGED shared /\ UNCHANGED analyses
      /\ recalled' = [root |-> Now(t).loaded, episodes |-> Now(t).episodes]
  BY DEF CacheEpisodes, At
<1>2. Fits(Now(t), version, episodesOf(root)) /\ version \in Nat
  BY <1>1, NowFits DEF CachesOK
<1>3. /\ Now(t).loaded \in 0..version
      /\ Now(t).loaded = version => Now(t).episodes = episodesOf(root)
  BY <1>1, <1>2 DEF Fits, Reading
<1>4. recalled'.root = Now(t).loaded /\ recalled'.episodes = Now(t).episodes
  BY <1>1
<1>5. version' = version /\ root' = root
  BY <1>1 DEF shared
<1>6. CachedPure'
  BY <1>1, <1>3, <1>4, <1>5 DEF CachesOK, CachedPure
<1> QED BY <1>1, <1>2, <1>3, <1>4, <1>6, NothingMore

LEMMA DeriveKeeps ==
  ASSUME CachesOK, NEW t \in Threads, Derive(t)
  PROVE  CachesOK'
<1> DEFINE basis == Now(t).basis \cup {version}
           left == Now(t).left - 1
           again == [do |-> "derive", path |-> Now(t).path, loaded |-> Now(t).loaded,
                     basis |-> basis, left |-> left]
           check == [do |-> "check", path |-> Now(t).path, loaded |-> Now(t).loaded,
                     basis |-> basis]
<1>1. todo[t] # <<>> /\ Now(t).do = "derive" /\ UNCHANGED <<shared, caches>>
  BY DEF Derive, At
<1>2. Fits(Now(t), version, episodesOf(root)) /\ version \in Nat
  BY <1>1, NowFits DEF CachesOK
<1>3. Now(t).loaded \in 0..version /\ \A b \in Now(t).basis : b \in Now(t).loaded..version
  BY <1>1, <1>2 DEF Fits, Reading
<1>4. basis # {} /\ \A b \in basis : b \in Now(t).loaded..version
  BY <1>2, <1>3
<1>5. Fits(check, version, episodesOf(root)) /\ Fits(again, version, episodesOf(root))
  BY <1>3, <1>4 DEF Fits
<1>6. Then(t, <<again>>) \/ Then(t, <<check>>)
  BY Zenon DEF Derive
<1> HIDE DEF again, check
<1>7. recalled'.root \in Int /\ recalled'.root <= version /\ CachedPure'
  BY <1>1, CachesLeft
<1> QED BY <1>1, <1>5, <1>6, <1>7, OneMore

LEMMA CheckRootKeeps ==
  ASSUME CachesOK, NEW t \in Threads, CheckRoot(t)
  PROVE  CachesOK'
<1> DEFINE x == [do |-> "store", path |-> Now(t).path, loaded |-> Now(t).loaded,
                 basis |-> Now(t).basis]
<1>1. todo[t] # <<>> /\ Now(t).do = "check" /\ UNCHANGED <<shared, caches>>
  BY DEF CheckRoot, At
<1>2. Fits(Now(t), version, episodesOf(root)) /\ version \in Nat
  BY <1>1, NowFits DEF CachesOK
<1>3. /\ Now(t).loaded \in 0..version
      /\ Now(t).basis # {} /\ \A b \in Now(t).basis : b \in Now(t).loaded..version
  BY <1>1, <1>2 DEF Fits, Reading
<1>4. x.do = "store" /\ x.loaded = Now(t).loaded /\ x.basis = Now(t).basis
  OBVIOUS
<1>5. Then(t, <<>>) \/ (Current(Now(t).loaded) /\ Then(t, <<x>>))
  <2>1. Then(t, IF Current(Now(t).loaded) THEN <<x>> ELSE <<>>)
    BY DEF CheckRoot
  <2> HIDE DEF x
  <2> QED BY <2>1
<1> HIDE DEF x
<1>6. Current(Now(t).loaded) => Fits(x, version, episodesOf(root))
  \* Nothing was read but between the root loaded first and the one there is now.
  <2>1. ASSUME version = Now(t).loaded PROVE x.basis = {x.loaded}
    <3>1. \A b \in x.basis : b = x.loaded
      BY <1>2, <1>3, <1>4, <2>1
    <3>2. x.basis # {}
      BY <1>3, <1>4
    <3> QED BY <3>1, <3>2
  <2> QED BY <1>3, <1>4, <2>1 DEF Fits, Current
<1>7. recalled'.root \in Int /\ recalled'.root <= version /\ CachedPure'
  BY <1>1, CachesLeft
<1> QED BY <1>1, <1>5, <1>6, <1>7, OneMore, NothingMore

LEMMA CacheAnalysisKeeps ==
  ASSUME CachesOK, NEW t \in Threads, CacheAnalysis(t)
  PROVE  CachesOK'
<1> PICK path, loaded, basis, kept :
      /\ path = Now(t).path /\ loaded = Now(t).loaded /\ basis = Now(t).basis
      /\ kept = IF analyses.root = loaded THEN analyses.of ELSE <<>>
  OBVIOUS
<1>1. /\ todo[t] # <<>> /\ Now(t).do = "store" /\ Then(t, <<>>)
      /\ UNCHANGED shared /\ UNCHANGED recalled
  BY DEF CacheAnalysis, At
<1>2. analyses' = [root |-> loaded,
                   of   |-> [p \in DOMAIN kept \cup {path} |-> IF p = path THEN basis ELSE kept[p]]]
  BY Zenon DEF CacheAnalysis
<1>3. basis = {loaded}
  BY <1>1, NowFits DEF CachesOK, Fits
<1>4. \A p \in DOMAIN kept : kept[p] = {loaded}
  BY DEF CachesOK, CachedPure
<1>5. analyses'.root = loaded
  BY <1>2
<1>6. \A p \in DOMAIN analyses'.of : analyses'.of[p] = {loaded}
  BY <1>2, <1>3, <1>4
<1>7. version' = version /\ root' = root
  BY <1>1 DEF shared
<1>8. CachedPure'
  BY <1>1, <1>5, <1>6, <1>7, Zenon DEF CachesOK, CachedPure
<1> QED BY <1>1, <1>8, NothingMore DEF CachesOK

-----------------------------------------------------------------------------
(* The specification                                                       *)

LEMMA ReopenKeeps ==
  ASSUME CachesOK, Reopen
  PROVE  CachesOK'
<1>1. /\ todo' = todo /\ root' = root /\ version' = version
      /\ analyses' = [root |-> -1, of |-> <<>>] /\ recalled' = [root |-> -1, episodes |-> <<>>]
  BY DEF Reopen, shared
<1>2. analyses'.of = <<>> /\ recalled'.root = -1
  BY <1>1
<1>3. AccessesOK'
  BY <1>1 DEF CachesOK, AccessesOK
<1>4. CachedPure'
  BY <1>1, <1>2 DEF CachesOK, CachedPure
<1> QED BY <1>1, <1>2, <1>3, <1>4 DEF CachesOK

LEMMA StepKeepsCaches == CachesOK /\ [Next]_vars => CachesOK'
<1> SUFFICES ASSUME CachesOK, [Next]_vars PROVE CachesOK'
  OBVIOUS
<1>1. CASE Reopen
  BY <1>1, ReopenKeeps
<1>2. ASSUME NEW t \in Threads, Call(t) PROVE CachesOK'
  BY <1>2, CallKeeps
<1>3. ASSUME NEW t \in Threads, Learning(t) PROVE CachesOK'
  BY <1>3, LearningIsPlain, PlainStepKeeps DEF CachesOK
<1>4. ASSUME NEW t \in Threads, Consolidating(t) PROVE CachesOK'
  BY <1>4, ConsolidatingIsPlain, PlainStepKeeps
<1>5. ASSUME NEW t \in Threads, Analysing(t) PROVE CachesOK'
  BY <1>5, LoadRootKeeps, LookUpKeeps, LoadEpisodesKeeps, CacheEpisodesKeeps, DeriveKeeps,
     CheckRootKeeps, CacheAnalysisKeeps DEF Analysing
<1>6. CASE UNCHANGED vars
  BY <1>6 DEF vars, CachesOK, AccessesOK, CachedPure
<1> QED BY <1>1, <1>2, <1>3, <1>4, <1>5, <1>6 DEF Next

\* What is cached was read from the root it is cached under, and from no other,
\* however analyses, lessons, consolidations and reopenings interleave
\* (AnalyzeInterpolated checks the root again before it stores; episodes stores
\* under the root it read).
THEOREM CachesAreOfTheirRoot == Spec => []CachedPure
<1>1. CachesOK => CachedPure
  BY DEF CachesOK
<1> QED BY <1>1, InitCaches, StepKeepsCaches, PTL DEF Spec
=============================================================================
