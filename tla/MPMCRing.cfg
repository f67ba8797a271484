\* Two producers and two consumers, one goroutine both, on a ring of two cells;
\* a fourth goroutine calls Len and Snapshot.  The third push starts a new lap.
CONSTANTS
  a = a
  b = b
  c = c
  d = d
  Capacity = 2
  Threads <- Goroutines
  Pushers <- Producers
  Poppers <- Consumers
  Observers <- Watchers
  MaxPushes = 3

SPECIFICATION FairSpec

INVARIANTS IInv
PROPERTIES ImplementsFifo CallsAnswered EventuallyReturned
