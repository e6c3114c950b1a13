\* The reset of is_modified takes effect.
SPECIFICATION Spec
CONSTANTS
  FirstWide = 1000
  Device = {d1, d2}
  Time = {0, 1}
  Modified = {1}
  MaxPid = 3
  InitRows = 1
  StrayIds = {}
  MaxBatch = 1
  MaxRequests = 3
  MaxPlatformEdits = 0
  MaxCrashes = 0
  MaxFaults = 0
  Faulty = {}
PROPERTY ResetClears
\* The bounds on what the devices send stop every behaviour.
CHECK_DEADLOCK FALSE
