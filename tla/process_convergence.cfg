\* The newest upload of a row wins.
SPECIFICATION Spec
CONSTANTS
  FirstWide = 1000
  Device = {d1, d2}
  Time = {0, 1}
  Modified = {0, 1}
  MaxPid = 3
  InitRows = 1
  StrayIds = {9}
  MaxBatch = 1
  MaxRequests = 3
  MaxPlatformEdits = 0
  MaxCrashes = 1
  MaxFaults = 1
  Faulty = {"write", "ack", "abort"}
SYMMETRY Devices
INVARIANTS TypeOK NewestEditWins
\* The bounds on what the devices send and on crashes stop every behaviour.
CHECK_DEADLOCK FALSE
