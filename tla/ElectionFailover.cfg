\* A leader dies, and no follower waits for a timer that will fire.
CONSTANTS
  n1 = n1
  n2 = n2
  n3 = n3
  nobody = nobody
  None = nobody
  Nodes <- Three
  QuorumSize = 2
  Demands = {FALSE}
  MaxIndex = 0
  MaxEvents = 3
  MaxTogether = 0

SPECIFICATION MCFairSpec

PROPERTIES LeaderReplaced

CHECK_DEADLOCK FALSE
