\* No row is out of reach of a known device.
SPECIFICATION Spec
CONSTANTS
  FirstWide = 1000
  Device = {d1, d2}
  Time = {0, 1}
  Modified = {1}
  MaxPid = 3
  InitRows = 1
  StrayIds = {}
  MaxBatch = 1
  MaxRequests = 3
  MaxPlatformEdits = 1
  MaxCrashes = 1
  MaxFaults = 1
  Faulty = {"write", "ack"}
SYMMETRY Devices
INVARIANT NothingLostForGood
\* The bounds on what the devices send and on crashes stop every behaviour.
CHECK_DEADLOCK FALSE
