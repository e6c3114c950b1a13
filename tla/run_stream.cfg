\* A device streams to two pages.
SPECIFICATION Spec
CONSTANTS
  NaN = NaN
  Pages = {p1, p2}
  File <- MCFile
  MaxReadings <- MCReadings
  MaxOutages = 2
  MaxTime = 1
INVARIANTS TypeOK EveryReadingArrives ReadingsInOrder ChartEndsWithLatest
PROPERTIES PageGoesLive
\* The clock and the number of readings are bounded.
CHECK_DEADLOCK FALSE
