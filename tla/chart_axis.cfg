\* The y-axis, the intervals and the animation of two charts.
SPECIFICATION Spec
CONSTANTS
  NaN = NaN
  c1 = c1
  c2 = c2
  Charts = {c1, c2}
  Series = {s1}
  Options <- AxisOptions
  Readings = {3}
  One = 10
  SixthOfASecond = 3
  StartTime = 2
  MaxTime = 3
  MaxLateness = 0
  MaxAppends = 2
  MaxAdds = 2
  MaxStrays = 1
  MaxStops = 1
  MaxSwitches = 0
  MouseXs <- AxisMouse
INVARIANTS TypeOK OneAnimation IntervalsFollowCharts
PROPERTIES AxisCoversLine BoundsTighten
\* The clock stops at its bound.
CHECK_DEADLOCK FALSE
