\* Two addresses and one dial more than addresses; connections break, a dial
\* may fail, the node may be closed.
CONSTANTS
  a1 = a1
  a2 = a2
  d1 = d1
  d2 = d2
  d3 = d3
  None = None
  Addrs <- TwoAddrs
  Dials <- ThreeDials
  MaxBreaks = 2
  MaxFailures = 1
SPECIFICATION MCSpec
INVARIANTS Inv StreamsHold EofMeansEmpty FramesWhole
PROPERTIES BrokenEntriesGo
CHECK_DEADLOCK FALSE
