SPECIFICATION Spec
CONSTANTS
  t1 = t1
  t2 = t2
  Threads <- MCThreads
  Sequences <- MCSequences
  Remembered <- MCRemembered
  Classes = {1}
  Moments = {1}
  ClassCapacity = 2
  MaxTokens = 2
  MaxCalls = 2
  MaxSteps = 3
INVARIANTS Inv SerialExact CachedPure AnswersFollowHistory DistributionsWhole
SYMMETRY Symmetry
CHECK_DEADLOCK FALSE
