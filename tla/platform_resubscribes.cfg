\* After an automatic reconnect the platform hears its devices again.
SPECIFICATION Spec
CONSTANTS
  PoolSize = 3
  MaxBatch = 2
  MaxArrivals = 3
  MaxMalformed = 1
  MaxDrops = 1
  MaxOutages = 1
PROPERTY Resubscribes
\* A platform that could not connect, or that has handled all messages, rests.
CHECK_DEADLOCK FALSE
