--------------------------- MODULE MCSmoothieChart ---------------------------
(***************************************************************************)
(* SmoothieChart on small instances.                                       *)
(***************************************************************************)
EXTENDS SmoothieChart

CONSTANTS c1, c2

\* the defaults of the library, and the scaleSmoothing of index.html in percent
Defaults ==
  [millisPerPixel |-> 1, width |-> 1, delay |-> 0, maxDataSetLength |-> 2,
   frameGap |-> 0, nonRealtimeData |-> FALSE, percentile |-> 100,
   scaleSmoothing |-> 85, scrollBackwards |-> FALSE, tooltip |-> FALSE,
   maxValue |-> NaN, minValue |-> NaN]

\* index.html fixes the ends of the axis
Fixed == [Defaults EXCEPT !.maxValue = One, !.minValue = 0]

\* a chart with a tooltip, and one that looks further back
LineOptions ==
  (c1 :> [Fixed EXCEPT !.tooltip = TRUE]) @@
  (c2 :> [Fixed EXCEPT !.millisPerPixel = 2])

\* the mouse is on the chart with the tooltip
LineMouse == (c1 :> {0}) @@ (c2 :> {})

\* a chart with the defaults, and one that keeps less than a line, limits its
\* frame rate and takes the time from its data
AxisOptions ==
  (c1 :> Defaults) @@
  (c2 :> [Fixed EXCEPT !.width = 3, !.maxDataSetLength = 1, !.frameGap = 2,
                         !.nonRealtimeData = TRUE, !.percentile = 50])

AxisMouse == [c \in Charts |-> {}]

=============================================================================
