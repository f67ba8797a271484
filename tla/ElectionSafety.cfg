\* A vote of an earlier campaign is counted in the next.
CONSTANTS
  n1 = n1
  n2 = n2
  n3 = n3
  nobody = nobody
  None = nobody
  Nodes <- Three
  QuorumSize = 2
  Demands = {FALSE}
  MaxIndex = 0
  MaxEvents = 4
  MaxTogether = 0

SPECIFICATION MCSpec
SYMMETRY Alike

INVARIANTS ElectionSafety

CHECK_DEADLOCK FALSE
