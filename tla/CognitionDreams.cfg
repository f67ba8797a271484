SPECIFICATION Spec
CONSTANTS
  t1 = t1
  t2 = t2
  Threads <- OneThread
  Sequences <- DreamSequences
  Remembered <- DreamRemembered
  Classes = {1}
  Moments = {1}
  ClassCapacity = 2
  MaxTokens = 2
  MaxCalls = 4
  MaxSteps = 3
PROPERTY DreamsAreNovel
CHECK_DEADLOCK FALSE
