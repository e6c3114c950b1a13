\* What is drawn: two charts with different windows share a series.
SPECIFICATION Spec
CONSTANTS
  NaN = NaN
  c1 = c1
  c2 = c2
  Charts = {c1, c2}
  Series = {s1}
  Options <- LineOptions
  Readings = {1}
  One = 1
  SixthOfASecond = 3
  StartTime = 2
  MaxTime = 4
  MaxLateness = 1
  MaxAppends = 3
  MaxAdds = 2
  MaxStrays = 0
  MaxStops = 0
  MaxSwitches = 1
  MouseXs <- LineMouse
INVARIANTS SeriesInOrder NothingNeededDropped BoundsCoverData
PROPERTIES TooltipOnTheLine SeriesAreSignals
\* The clock stops at its bound.
CHECK_DEADLOCK FALSE
