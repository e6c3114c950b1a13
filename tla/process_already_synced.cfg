\* A device told it is synced is, even if it once uploaded an id nobody knows.
SPECIFICATION Spec
CONSTANTS
  FirstWide = 1000
  Device = {d1, d2}
  Time = {0, 1}
  Modified = {1}
  MaxPid = 3
  InitRows = 1
  StrayIds = {9}
  MaxBatch = 1
  MaxRequests = 3
  MaxPlatformEdits = 0
  MaxCrashes = 0
  MaxFaults = 0
  Faulty = {}
PROPERTY AlreadySyncedIsTrue
\* The bounds on what the devices send stop every behaviour.
CHECK_DEADLOCK FALSE
