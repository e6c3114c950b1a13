\* An update is missed only if it overtook an answer.
SPECIFICATION Spec
CONSTANTS
  Device = {d1, d2}
  Record = {r1, r2}
  Everyone = Everyone
  Roleless = {r2}
  MaxTime = 2
  MaxEdits = 2
  MaxRequests = 3
  MaxFaults = 1
SYMMETRY Devices
INVARIANTS TypeOK MissedOnlyIfOvertaken
\* The bounds on time and on what is sent and edited stop every behaviour.
CHECK_DEADLOCK FALSE
