\* Every answer leaves the device with nothing missing.
SPECIFICATION Spec
CONSTANTS
  FirstWide = 1000
  Device = {d1, d2}
  Time = {0, 1}
  Modified = {1}
  MaxPid = 3
  InitRows = 1
  StrayIds = {}
  MaxBatch = 2
  MaxRequests = 3
  MaxPlatformEdits = 0
  MaxCrashes = 0
  MaxFaults = 1
  Faulty = {"abort"}
SYMMETRY Devices
PROPERTY ReplyCoversUnseen
\* The bounds on what the devices send and on crashes stop every behaviour.
CHECK_DEADLOCK FALSE
