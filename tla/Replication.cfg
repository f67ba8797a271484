\* Two nodes: a key is inserted once; one call may get lost, terms change, log
\* indexes grow, or a branch is fetched.  And an address that is dialled twice.
CONSTANTS
  a1 = a1
  d1 = d1
  d2 = d2
  n1 = n1
  n2 = n2
  k1 = k1
  v1 = v1
  None = None
  Addrs <- OneAddr
  Dials <- TwoDials
  MaxBreaks = 1
  MaxFailures = 0
  Nodes <- TwoNodes
  Keys <- OneKey
  Values <- OneValue
  Writers <- FirstNode
  Once = TRUE
  MaxWrites = 1
  Bounds <- TroubleOrLength
SPECIFICATION MCSpec
INVARIANTS ReplicasHold
PROPERTIES Converges
CHECK_DEADLOCK FALSE
