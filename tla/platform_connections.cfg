\* A pool that is just large enough: a connection that is not given back is missed.
SPECIFICATION Spec
CONSTANTS
  PoolSize = 3
  MaxBatch = 2
  MaxArrivals = 3
  MaxMalformed = 1
  MaxDrops = 1
  MaxOutages = 1
INVARIANTS TypeOK ConnectionAvailable
PROPERTIES StaysSubscribed HandlerEnds
\* A platform that could not connect, or that has handled all messages, rests.
CHECK_DEADLOCK FALSE
