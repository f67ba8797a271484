CONSTANTS
  k1 = k1
  k2 = k2
  w1 = w1
  w2 = w2
  Keys <- BothKeys
  Writers <- Both
  SnapCount = 2
  MaxInserts = 2
  MaxTogether = 0
  MaxTerm = 1
  MaxCrashes = 1
  MaxFailures = 0
SPECIFICATION Spec
INVARIANTS WalDurable
CHECK_DEADLOCK FALSE
