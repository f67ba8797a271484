\* An SPSC ring of two slots under each overflow policy, with calls that overlap
\* and with calls that take turns; list rings of four nodes and three views;
\* offline rings of four values; two queues of one or two values;
\* an ultra ring of two slots; a clock of two
\* tracks with a consumer; two clocks that merge after five observations.
CONSTANTS
  Capacity = 2
  MaxPushes = 5
  BufferSize = 2
  Limit = 0
  MaxEvents = 5
  Slices <- NoneOrOnes
  Pushable <- Two
  MaxLen = 4
  MaxOfflineStep = 1
  ListValues <- OneTwo
  MaxNodes = 4
  MaxSelect = 2
  MaxCount = 4
  MaxViews = 3
  MaxCalls = 5
  Tracks <- TwoTracks
  Timeline = Timeline
  Consumers <- OneConsumer
  None = None
  ClockCapacity = 2
  TrackCapacity = 2
  Nanos = 2
  LastWall = 2
  Modes <- ClockModes
  MaxObservations = 3
  Left = Left
  Right = Right
  k1 = k1
  k2 = k2
  k3 = k3
  c1 = c1
SPECIFICATION MCSpec
INVARIANTS IInv NoDataRace Conserved ListsWhole UltraExact ClockHolds ReadsExact
PROPERTIES ImplementsFifo AtMostOnce ListCuts OfflineApart QueuesMerge MergeKeeps
CHECK_DEADLOCK FALSE
