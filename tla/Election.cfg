\* Four campaigns, Sync rounds, Insert calls and crashes in any mix (three if
\* the handlers of a node overlap); it stops when they are used up.
CONSTANTS
  n1 = n1
  n2 = n2
  n3 = n3
  nobody = nobody
  None = nobody
  Nodes <- Three
  QuorumSize = 2
  Demands = {TRUE, FALSE}
  MaxIndex = 1
  MaxEvents = 4
  MaxTogether = 2

SPECIFICATION MCSpec
SYMMETRY Alike

INVARIANTS VotesHold LeaderAwake
PROPERTIES RolesFollowTerms

CHECK_DEADLOCK FALSE
