CONSTANTS
  t1 = t1
  t2 = t2
  k1 = k1
  c1 = c1
  c2 = c2
  None = None
  Trees <- BothTrees
  First = t1
  Prior <- NewTrees
  Persistent <- NoLog
  Keys <- OneKey
  Values = {v1, v2}
  Callers <- TwoCallers
  KeysOf <- AnyKey
  Disciplines <- Overlap
  MaxInserts = 2
SPECIFICATION Spec
INVARIANT Agreement
CHECK_DEADLOCK FALSE
