CONSTANTS
  t1 = t1
  t2 = t2
  t3 = t3
  k1 = k1
  k2 = k2
  v1 = v1
  v2 = v2
  None = None
  c1 = c1
  c2 = c2
  Keys <- BothKeys
  Writers <- TwoCallers
  SnapCount = 2
  MaxInserts = 3
  MaxTogether = 2
  MaxTerm = 1
  MaxCrashes = 1
  MaxFailures = 1
  Trees <- ThreeTrees
  First = t1
  Persistent <- FirstTree
  Prior <- NewTrees
  Values <- BothValues
  Callers <- TwoCallers
  KeysOf <- OneKeyEach
  Disciplines <- SerialOrNot
  MaxForested = 3
  Compared <- TwoTrees
  ByteKeys <- PrefixKeys
  ByteValues <- TailValues
  MaxHashed = 5
  MaxHashedTogether = 3
SPECIFICATION MCSpec
SYMMETRY Alike
INVARIANTS LogHolds ForestHolds InsertsKept HashTreesHold DiffAnswers ProofAnswers
PROPERTIES CrashAtomic NoLostUpdate
CHECK_DEADLOCK FALSE
