--------------------------- MODULE SmoothieChart ---------------------------
(***************************************************************************)
(* Smoothie Charts (js/smoothie.js), which the pages of the web client     *)
(* draw the readings of a run with: charts, the time series they share,    *)
(* and the browser's two queues that call them, the animation frames and   *)
(* the intervals that recompute the bounds of a series.                    *)
(*                                                                         *)
(* JavaScript runs one callback at a time, so every call of the library is *)
(* one action.  An exception ends the callback where it is thrown.         *)
(*                                                                         *)
(* The page's own code calls the library at any time.  What is drawn is    *)
(* left out, except for which points are; a colour or a label says nothing *)
(* about them.                                                             *)
(***************************************************************************)
EXTENDS TimeSeries, FiniteSets

CONSTANTS
  Charts,
  Series,
  Options,      \* the options of each chart, its canvas and its delay
  Readings,     \* the values the page appends
  One,          \* the value 1, in the units that values are counted in
  SixthOfASecond,  \* 1000/6, in the model's milliseconds
  StartTime,    \* the clock when the page is loaded
  MaxTime,      \* bound: the clock
  MaxLateness,  \* bound: how old a time stamp can be when it is appended
  MaxAppends,   \* bound: points appended
  MaxAdds,      \* bound: calls of addTimeSeries
  MaxStrays,    \* bound: series removed from a chart that is not theirs
  MaxStops,     \* bound: calls of stop
  MaxSwitches,  \* bound: series cleared, disabled or enabled
  MouseXs       \* bound: of each chart, the places the mouse goes to

\* the mark of an interval that has been cleared
Cleared == "cleared"

ASSUME SmoothieChartAssumption ==
  /\ Readings \subseteq Int
  /\ One \in Nat
  /\ SixthOfASecond \in Nat \ {0}
  /\ StartTime \in Nat /\ MaxTime \in Nat /\ StartTime <= MaxTime
  /\ MaxLateness \in 0 .. StartTime
  /\ Cleared \notin Series
  /\ \A c \in Charts :
       /\ Options[c].millisPerPixel \in Nat \ {0}
       /\ Options[c].width \in Nat
       /\ Options[c].delay \in 0 .. StartTime
       /\ Options[c].maxDataSetLength \in Nat
       /\ Options[c].frameGap \in Nat
       /\ Options[c].maxValue \in Value /\ Options[c].minValue \in Value
       /\ Options[c].scaleSmoothing \in 0 .. 100
       /\ Options[c].percentile \in 0 .. 100
       /\ Options[c].nonRealtimeData \in BOOLEAN
       /\ Options[c].scrollBackwards \in BOOLEAN
       /\ Options[c].tooltip \in BOOLEAN
       /\ MouseXs[c] \subseteq Nat

VARIABLES
  now,                 \* Date.now()
  data, bounds,        \* of each series: its points, its maxValue and minValue
  disabled,            \* of each series
  resetBoundsTimerId,  \* of each series: its last interval
  intervals,           \* the interval timers ever set, a series or Cleared
  seriesSet,           \* of each chart: its series, in the order of drawing
  frame,               \* of each chart: the frame it has requested
  frames,              \* the requested frames of each chart
  listening,           \* of each chart: the mouse listeners are registered
  lastRenderTimeMillis, lastChartTimestamp,
  currentVisMinValue, currentValueRange, isAnimatingScale,
                       \* of each chart: its y-axis
  mouseX,              \* of each chart: where the mouse is, or NotOver
  tooltip,             \* of each chart: what its tooltip displays, or Hidden
  samples,   \* history: the value of each time appended since the last clear
  drawnBy,   \* history: the charts that have drawn the series since then
  doubled,   \* history: the series that have been in two places at once
  strayed,   \* history: those removed from a chart that was not theirs
  appends, stops, switches   \* counted against the bounds

timerVars  == <<resetBoundsTimerId, intervals>>
axisVars   == <<currentVisMinValue, currentValueRange, isAnimatingScale>>
renderVars == <<lastRenderTimeMillis, lastChartTimestamp, axisVars>>
frameVars  == <<frame, frames, listening>>
mouseVars  == <<mouseX, tooltip>>
misuse     == <<doubled, strayed>>
budget     == <<appends, stops, switches>>

vars == <<now, data, bounds, disabled, timerVars, seriesSet, frameVars,
          renderVars, mouseVars, samples, drawnBy, misuse, budget>>

-----------------------------------------------------------------------------
NoTimer  == 0
NoFrame  == 0
NotOver  == -1
Hidden   == [at |-> NotOver, points |-> {}]

Time == 0 .. MaxTime

\* the least of two
Less(a, b) == IF a < b THEN a ELSE b

Running(c) == frame[c] # NoFrame

In(s, c) == \E i \in DOMAIN seriesSet[c] : seriesSet[c][i] = s

Shown(s) == \E c \in Charts : In(s, c)

Nothing == [t \in {} |-> 0]

TypeOK ==
  /\ now \in Time
  /\ data \in [Series -> Seq(Point)]
  /\ bounds \in [Series -> Bounds]
  /\ disabled \in [Series -> BOOLEAN]
  /\ intervals \in Seq(Series \cup {Cleared})
  /\ resetBoundsTimerId \in [Series -> 0 .. Len(intervals)]
  /\ seriesSet \in [Charts -> Seq(Series)]
  /\ frame \in [Charts -> 0 .. 3]
  /\ frames \in [Charts -> SUBSET (1 .. 3)]
  /\ listening \in [Charts -> BOOLEAN]
  /\ lastRenderTimeMillis \in [Charts -> Time]
  /\ lastChartTimestamp \in [Charts -> Int]
  /\ currentVisMinValue \in [Charts -> Int]
  /\ currentValueRange \in [Charts -> Int]
  /\ isAnimatingScale \in [Charts -> BOOLEAN]
  /\ mouseX \in [Charts -> Int]

-----------------------------------------------------------------------------
Init ==
  /\ now = StartTime
  /\ data = [s \in Series |-> <<>>]
  /\ bounds = [s \in Series |-> NoBounds]
  /\ disabled = [s \in Series |-> FALSE]
  /\ resetBoundsTimerId = [s \in Series |-> NoTimer]
  /\ intervals = <<>>
  /\ seriesSet = [c \in Charts |-> <<>>]
  /\ frame = [c \in Charts |-> NoFrame]
  /\ frames = [c \in Charts |-> {}]
  /\ listening = [c \in Charts |-> FALSE]
  /\ lastRenderTimeMillis = [c \in Charts |-> 0]
  /\ lastChartTimestamp = [c \in Charts |-> 0]
  /\ currentVisMinValue = [c \in Charts |-> 0]
  /\ currentValueRange = [c \in Charts |-> One]
  /\ isAnimatingScale = [c \in Charts |-> FALSE]
  /\ mouseX = [c \in Charts |-> NotOver]
  /\ tooltip = [c \in Charts |-> Hidden]
  /\ samples = [s \in Series |-> Nothing]
  /\ drawnBy = [s \in Series |-> {}]
  /\ doubled = {} /\ strayed = {}
  /\ appends = 0 /\ stops = 0 /\ switches = 0

-----------------------------------------------------------------------------
(* The series: calls by the page, and the interval of resetBounds.          *)

AppendPoint(s, t, v, sum) ==
  /\ appends < MaxAppends
  /\ appends' = appends + 1
  /\ data' = [data EXCEPT ![s] = append(@, t, v, sum)]
  /\ bounds' = [bounds EXCEPT ![s] = Widen(@, ValueForBounds(data[s], t, v, sum))]
  /\ samples' = [samples EXCEPT ![s] =
                   [u \in DOMAIN @ \cup {t} |->
                      IF u = t THEN Stored(data[s], t, v, sum) ELSE @[u]]]
  /\ UNCHANGED <<now, disabled, timerVars, seriesSet, frameVars, renderVars,
                 mouseVars, drawnBy, misuse, stops, switches>>

Switch ==
  /\ switches < MaxSwitches
  /\ switches' = switches + 1
  /\ UNCHANGED <<now, timerVars, seriesSet, frameVars, renderVars, mouseVars,
                 misuse, appends, stops>>

Clear(s) ==
  /\ data[s] # <<>>
  /\ Switch
  /\ data' = [data EXCEPT ![s] = <<>>]
  /\ bounds' = [bounds EXCEPT ![s] = NoBounds]
  /\ samples' = [samples EXCEPT ![s] = Nothing]
  /\ drawnBy' = [drawnBy EXCEPT ![s] = {}]
  /\ UNCHANGED disabled

\* the page sets the property `disabled' of the series
Toggle(s) ==
  /\ Switch
  /\ disabled' = [disabled EXCEPT ![s] = ~ @]
  /\ UNCHANGED <<data, bounds, samples, drawnBy>>

\* Mutant: the bounds are only ever widened.
ResetBoundsWidening(i) ==
  /\ intervals[i] # Cleared
  /\ LET s == intervals[i]  b == resetBounds(data[s]) IN
       bounds' = [bounds EXCEPT ![s] =
         [max |-> Higher(@.max, b.max), min |-> Lower(@.min, b.min)]]
  /\ UNCHANGED <<now, data, disabled, timerVars, seriesSet, frameVars,
                 renderVars, mouseVars, samples, drawnBy, misuse, budget>>

\* An interval set by addTimeSeries fires.
ResetBounds(i) ==
  /\ intervals[i] # Cleared
  /\ LET s == intervals[i] IN
       bounds' = [bounds EXCEPT ![s] = resetBounds(data[s])]
  /\ UNCHANGED <<now, data, disabled, timerVars, seriesSet, frameVars,
                 renderVars, mouseVars, samples, drawnBy, misuse, budget>>

-----------------------------------------------------------------------------
(* The series of a chart.  A series can be in several charts, and in one    *)
(* chart several times; it remembers the last of its intervals only.        *)

\* Mutant: it remembers an interval that is not set.
addTimeSeriesOffByOne(c, s) ==
  /\ Len(intervals) < MaxAdds
  /\ seriesSet' = [seriesSet EXCEPT ![c] = Append(@, s)]
  /\ intervals' = Append(intervals, s)
  /\ resetBoundsTimerId' = [resetBoundsTimerId EXCEPT
                              ![s] = Len(intervals') + 1]
  /\ doubled' = IF Shown(s) THEN doubled \cup {s} ELSE doubled
  /\ UNCHANGED <<now, data, bounds, disabled, frameVars, renderVars,
                 mouseVars, samples, drawnBy, strayed, budget>>

addTimeSeries(c, s) ==
  /\ Len(intervals) < MaxAdds
  /\ seriesSet' = [seriesSet EXCEPT ![c] = Append(@, s)]
  /\ intervals' = Append(intervals, s)
  /\ resetBoundsTimerId' = [resetBoundsTimerId EXCEPT ![s] = Len(intervals')]
  /\ doubled' = IF Shown(s) THEN doubled \cup {s} ELSE doubled
  /\ UNCHANGED <<now, data, bounds, disabled, frameVars, renderVars,
                 mouseVars, samples, drawnBy, strayed, budget>>

\* the place of the first occurrence
FirstIn(s, c) ==
  CHOOSE i \in DOMAIN seriesSet[c] :
    /\ seriesSet[c][i] = s
    /\ \A j \in 1 .. i - 1 : seriesSet[c][j] # s

\* Mutant: all intervals of the series are cleared.
removeTimeSeriesAndIntervals(c, s) ==
  /\ In(s, c) \/ Cardinality(strayed) < MaxStrays
  /\ seriesSet' = IF In(s, c)
                  THEN [seriesSet EXCEPT ![c] = RemoveAt(@, FirstIn(s, c))]
                  ELSE seriesSet
  /\ intervals' = [i \in DOMAIN intervals |->
                     IF intervals[i] = s THEN Cleared ELSE intervals[i]]
  /\ strayed' = IF Shown(s) /\ ~ In(s, c) THEN strayed \cup {s} ELSE strayed
  /\ UNCHANGED <<now, data, bounds, disabled, resetBoundsTimerId, frameVars,
                 renderVars, mouseVars, samples, drawnBy, doubled, budget>>

\* Whether or not the chart shows the series, the interval is cleared.
removeTimeSeries(c, s) ==
  /\ In(s, c) \/ Cardinality(strayed) < MaxStrays
  /\ seriesSet' = IF In(s, c)
                  THEN [seriesSet EXCEPT ![c] = RemoveAt(@, FirstIn(s, c))]
                  ELSE seriesSet
  /\ intervals' = [intervals EXCEPT ![resetBoundsTimerId[s]] = Cleared]
  /\ strayed' = IF Shown(s) /\ ~ In(s, c) THEN strayed \cup {s} ELSE strayed
  /\ UNCHANGED <<now, data, bounds, disabled, resetBoundsTimerId, frameVars,
                 renderVars, mouseVars, samples, drawnBy, doubled, budget>>

bringToFront(c, s) ==
  /\ In(s, c)
  /\ seriesSet' = [seriesSet EXCEPT ![c] =
                     Append(RemoveAt(@, FirstIn(s, c)), s)]
  /\ UNCHANGED <<now, data, bounds, disabled, timerVars, frameVars,
                 renderVars, mouseVars, samples, drawnBy, misuse, budget>>

-----------------------------------------------------------------------------
(* The animation: each frame requests the next one.                         *)

\* an id that no requested frame has
FreshFrame(c) == CHOOSE f \in 1 .. 3 : f \notin frames[c] \cup {frame[c]}

\* Mutant: it does not look whether the chart is running.
startAgain(c) ==
  /\ frame' = [frame EXCEPT ![c] = FreshFrame(c)]
  /\ frames' = [frames EXCEPT ![c] = @ \cup {FreshFrame(c)}]
  /\ listening' = [listening EXCEPT ![c] = TRUE]
  /\ UNCHANGED <<now, data, bounds, disabled, timerVars, seriesSet,
                 renderVars, mouseVars, samples, drawnBy, misuse, budget>>

\* streamTo is start on a given canvas; on a running chart it does nothing.
start(c) ==
  /\ ~ Running(c)
  /\ frame' = [frame EXCEPT ![c] = FreshFrame(c)]
  /\ frames' = [frames EXCEPT ![c] = @ \cup {FreshFrame(c)}]
  /\ listening' = [listening EXCEPT ![c] = TRUE]
  /\ UNCHANGED <<now, data, bounds, disabled, timerVars, seriesSet,
                 renderVars, mouseVars, samples, drawnBy, misuse, budget>>

stop(c) ==
  /\ Running(c)
  /\ stops < MaxStops
  /\ stops' = stops + 1
  /\ frames' = [frames EXCEPT ![c] = @ \ {frame[c]}]
  /\ frame' = [frame EXCEPT ![c] = NoFrame]
  /\ listening' = [listening EXCEPT ![c] = FALSE]
  /\ UNCHANGED <<now, data, bounds, disabled, timerVars, seriesSet,
                 renderVars, mouseVars, samples, drawnBy, misuse,
                 appends, switches>>

\* frame f has run, and the next one is requested
RequestNext(c, f) ==
  LET next == CHOOSE g \in 1 .. 3 : g \notin frames[c] \ {f} IN
  /\ frames' = [frames EXCEPT ![c] = (@ \ {f}) \cup {next}]
  /\ frame' = [frame EXCEPT ![c] = next]
  /\ UNCHANGED listening

-----------------------------------------------------------------------------
(* render.                                                                  *)

RoundedDown(time, c) == time - (time % Options[c].millisPerPixel)

\* the x-range of the chart at a time
OldestValidTime(c, time) ==
  RoundedDown(time, c) - Options[c].width * Options[c].millisPerPixel

\* displayDataFromPercentile: the time of the point that is so far in the
\* series, counted from its first point
PercentileTime(c, s) ==
  LET n == Len(data[s])
      i == (Options[c].percentile * n + 50) \div 100
  IN  data[s][IF i < 1 THEN 1 ELSE IF i > n THEN n ELSE i].time

ChartTime(c) ==
  LET latest == {PercentileTime(c, s) :
                   s \in {r \in Series : In(r, c) /\ data[r] # <<>>}}
  IN  IF Options[c].nonRealtimeData /\ latest # {}
      THEN CHOOSE t \in latest : \A u \in latest : u <= t
      ELSE now - Options[c].delay

\* neither the frame rate limit nor the pace of the chart lets it skip
DueToRender(c) ==
  LET idle == now - lastRenderTimeMillis[c] IN
  /\ idle >= Options[c].frameGap
  /\ \/ isAnimatingScale[c]
     \/ idle >= Less(SixthOfASecond, Options[c].millisPerPixel)

\* updateValueRange: from all series that are not disabled, in any order,
\* unless the page has fixed it (NaN if it has not)
Ranging(c) == {s \in Series : In(s, c) /\ ~ disabled[s]}

ValueRange(c) ==
  LET highs == {bounds[s].max : s \in Ranging(c)} \ {NaN}
      lows  == {bounds[s].min : s \in Ranging(c)} \ {NaN}
  IN  [max |-> IF ~ isNaN(Options[c].maxValue) THEN Options[c].maxValue
               ELSE IF highs = {} THEN NaN
               ELSE CHOOSE m \in highs : \A n \in highs : n <= m,
       min |-> IF ~ isNaN(Options[c].minValue) THEN Options[c].minValue
               ELSE IF lows = {} THEN NaN
               ELSE CHOOSE m \in lows : \A n \in lows : n >= m]

Tenth == One \div 10

\* A value moves a share of the way to another, that many percent of it, rounded
\* up or down to a unit.
Closer(from, to, percent) ==
  {v \in (from .. to) \cup (to .. from) :
     100 * (v - from) - percent * (to - from) \in -99 .. 99}

\* The bottom of the axis and its length move towards their targets, which they
\* need not reach: as soon as both are within 0.1 of them the axis is taken to
\* be at rest.  While it is not every frame is rendered.
UpdateValueRange(c) ==
  LET target == ValueRange(c)
      length == target.max - target.min
      close  == /\ length - currentValueRange[c] \in -Tenth .. Tenth
                /\ target.min - currentVisMinValue[c] \in -Tenth .. Tenth
  IN  IF isNaN(target.max) \/ isNaN(target.min)
      THEN UNCHANGED axisVars
      ELSE /\ isAnimatingScale' = [isAnimatingScale EXCEPT ![c] = ~ close]
           /\ \E v \in Closer(currentValueRange[c], length,
                              Options[c].scaleSmoothing) :
                currentValueRange' = [currentValueRange EXCEPT ![c] = v]
           /\ \E v \in Closer(currentVisMinValue[c], target.min,
                              Options[c].scaleSmoothing) :
                currentVisMinValue' = [currentVisMinValue EXCEPT ![c] = v]

\* updateTooltip: of each series the first point right of the mouse
TooltipAt(c, time, points) ==
  LET pixels == IF Options[c].scrollBackwards
                THEN mouseX[c] ELSE Options[c].width - mouseX[c]
      at     == time - pixels * Options[c].millisPerPixel
      index  == [s \in Series |-> binarySearch(points[s], at)]
      found  == {s \in Ranging(c) : 0 < index[s] /\ index[s] < Len(points[s])}
  IN  IF mouseX[c] = NotOver \/ ~ Options[c].tooltip \/ found = {}
      THEN Hidden
      ELSE [at |-> at,
            points |-> {<<s, points[s][index[s] + 1]>> : s \in found}]

\* the series are drawn in order, up to one that throws
Throws(c, s, oldest) ==
  /\ ~ disabled[s]
  /\ LooksBeyond(data[s], oldest, Options[c].maxDataSetLength)

Drawn(c, oldest) ==
  {s \in Series : /\ ~ disabled[s]
                  /\ \E i \in DOMAIN seriesSet[c] :
                       /\ seriesSet[c][i] = s
                       /\ \A j \in 1 .. i :
                            ~ Throws(c, seriesSet[c][j], oldest)}

DropOldData(c, oldest) ==
  [s \in Series |->
     IF s \in Drawn(c, oldest)
     THEN dropOldData(data[s], oldest, Options[c].maxDataSetLength)
     ELSE data[s]]

\* what every rendered frame does, whether it gets to its end or not
Render(c) ==
  LET oldest == OldestValidTime(c, ChartTime(c)) IN
  /\ lastRenderTimeMillis' = [lastRenderTimeMillis EXCEPT ![c] = now]
  /\ lastChartTimestamp' = [lastChartTimestamp EXCEPT
                              ![c] = RoundedDown(ChartTime(c), c)]
  /\ UpdateValueRange(c)
  /\ data' = DropOldData(c, oldest)
  /\ drawnBy' = [s \in Series |->
                   drawnBy[s] \cup IF s \in Drawn(c, oldest) THEN {c} ELSE {}]
  /\ UNCHANGED <<now, bounds, disabled, timerVars, seriesSet, mouseX, samples,
                 misuse, budget>>

ThrowsIn(c) ==
  \E i \in DOMAIN seriesSet[c] :
    Throws(c, seriesSet[c][i], OldestValidTime(c, ChartTime(c)))

PaintFrame(c, f) ==
  /\ f \in frames[c]
  /\ DueToRender(c)
  /\ ~ ThrowsIn(c)
  /\ Render(c)
  /\ tooltip' = [tooltip EXCEPT
                   ![c] = TooltipAt(c, lastChartTimestamp'[c], data')]
  /\ RequestNext(c, f)

\* the exception leaves the frame's callback before it requests the next one
FrameThrows(c, f) ==
  /\ f \in frames[c]
  /\ DueToRender(c)
  /\ ThrowsIn(c)
  /\ Render(c)
  /\ tooltip' = [tooltip EXCEPT
                   ![c] = TooltipAt(c, lastChartTimestamp[c], data)]
  /\ frames' = [frames EXCEPT ![c] = @ \ {f}]
  /\ UNCHANGED <<frame, listening>>

SkipFrame(c, f) ==
  /\ f \in frames[c]
  /\ ~ DueToRender(c)
  /\ RequestNext(c, f)
  /\ UNCHANGED <<now, data, bounds, disabled, timerVars, seriesSet,
                 renderVars, mouseVars, samples, drawnBy, misuse, budget>>

Frame(c) ==
  \E f \in frames[c] : PaintFrame(c, f) \/ FrameThrows(c, f) \/ SkipFrame(c, f)

-----------------------------------------------------------------------------
(* The mouse, and the clock.                                                *)

MouseMove(c, x) ==
  /\ listening[c]
  /\ mouseX' = [mouseX EXCEPT ![c] = x]
  /\ UNCHANGED <<now, data, bounds, disabled, timerVars, seriesSet, frameVars,
                 renderVars, samples, drawnBy, misuse, budget>>
  /\ tooltip' = [tooltip EXCEPT
                   ![c] = TooltipAt(c, lastChartTimestamp[c], data)']

MouseOut(c) ==
  /\ listening[c]
  /\ mouseX[c] # NotOver
  /\ mouseX' = [mouseX EXCEPT ![c] = NotOver]
  /\ tooltip' = [tooltip EXCEPT ![c] = Hidden]
  /\ UNCHANGED <<now, data, bounds, disabled, timerVars, seriesSet, frameVars,
                 renderVars, samples, drawnBy, misuse, budget>>

Tick ==
  /\ now < MaxTime
  /\ now' = now + 1
  /\ UNCHANGED <<data, bounds, disabled, timerVars, seriesSet, frameVars,
                 renderVars, mouseVars, samples, drawnBy, misuse, budget>>

Next ==
  \/ \E s \in Series :
       \/ \E t \in now - MaxLateness .. now, v \in Readings, sum \in BOOLEAN :
            AppendPoint(s, t, v, sum)
       \/ Clear(s)
       \/ Toggle(s)
  \/ \E i \in DOMAIN intervals : ResetBounds(i)
  \/ \E c \in Charts, s \in Series :
       addTimeSeries(c, s) \/ removeTimeSeries(c, s) \/ bringToFront(c, s)
  \/ \E c \in Charts :
       \/ start(c)
       \/ stop(c)
       \/ Frame(c)
       \/ MouseOut(c)
       \/ \E x \in MouseXs[c] : MouseMove(c, x)
  \/ Tick

\* The browser serves the frames it has been asked for, and its timers.
Fairness ==
  /\ \A c \in Charts : WF_vars(Frame(c))
  /\ \A i \in 1 .. MaxAdds :
       WF_vars(i \in DOMAIN intervals /\ ResetBounds(i))

Spec == Init /\ [][Next]_vars /\ Fairness

-----------------------------------------------------------------------------
(* Properties.                                                              *)

\* At most one frame is requested of a chart, it is the one that stop would
\* cancel, and as long as there is one the mouse is listened to: whatever the
\* order of start and stop, the animation neither doubles nor dies.  Only a
\* chart with a maxDataSetLength below 2 can die, by an exception in its frame.
OneAnimation ==
  \A c \in Charts :
    /\ frames[c] \subseteq {frame[c]} \ {NoFrame}
    /\ listening[c] <=> Running(c)
    /\ Running(c) => \/ frames[c] = {frame[c]}
                     \/ Options[c].maxDataSetLength < 2

\* Every series is in chronological order, without a time stamp twice,
\* although points arrive late, repeat a time stamp or were dropped.
SeriesInOrder == \A s \in Series : Chronological(data[s])

\* a series that is in several charts is drawn by charts with shorter memory
NoNarrower(d, c) ==
  /\ ~ Options[d].nonRealtimeData
  /\ \A t \in StartTime .. MaxTime :
       OldestValidTime(d, t - Options[d].delay)
         <= OldestValidTime(c, t - Options[c].delay)

\* the times a chart needs to draw the line over its whole width: those it
\* shows, and the last one before them, where the line comes in from the left
Needed(c, s) ==
  LET oldest == OldestValidTime(c, ChartTime(c))
      expired == {t \in DOMAIN samples[s] : t < oldest}
  IN  {t \in DOMAIN samples[s] :
         t >= oldest \/ (t \in expired /\ \A u \in expired : u <= t)}

\* Nothing a chart needs is dropped: every sample appended is in the data,
\* with its last value, for as long as the chart could draw it.  A chart that
\* is drawn by itself, or together with charts that look no less far back, has
\* the whole line; the series of a chart with a longer window loses points to
\* one with a shorter window.  The chart follows the clock: one that takes its
\* time from the points goes back in time when the latest of its series is
\* removed, to points that it has dropped.
NothingNeededDropped ==
  \A c \in Charts, s \in Series :
    (/\ In(s, c) /\ ~ Options[c].nonRealtimeData
     /\ \A d \in drawnBy[s] : d = c \/ NoNarrower(d, c))
      => \A t \in Needed(c, s) :
           \E i \in DOMAIN data[s] :
             data[s][i] = [time |-> t, value |-> samples[s][t]]

\* The bounds of a series cover all its points, whatever was replaced, summed
\* or dropped since they were computed.
BoundsCoverData ==
  \A s \in Series : \A i \in DOMAIN data[s] :
    /\ ~ isNaN(bounds[s].max) /\ ~ isNaN(bounds[s].min)
    /\ bounds[s].min <= data[s][i].value
    /\ data[s][i].value <= bounds[s].max

\* As long as a series is in a chart an interval recomputes its bounds,
\* although the series knows only the last of its intervals; and the intervals
\* of a series that was never in two places at once end with its removal.  (A
\* chart that is told to remove another chart's series ends that one's interval.)
IntervalsFollowCharts ==
  \A s \in Series :
    LET live == {i \in DOMAIN intervals : intervals[i] = s} IN
    /\ Shown(s) => live # {} \/ s \in strayed
    /\ ~ Shown(s) /\ s \notin doubled => live = {}

\* The tooltip shows, for every series, the first point right of the mouse,
\* and only between two points of the line: the binary search relies on the
\* order that append keeps.
TooltipOnTheLine ==
  [][\A c \in Charts : tooltip'[c] # tooltip[c] =>
       \A p \in tooltip'[c].points :
         /\ p[2].time > tooltip'[c].at
         /\ \A q \in ToSet(data'[p[1]]) :
              q.time <= tooltip'[c].at \/ q.time >= p[2].time
         /\ \E q \in ToSet(data'[p[1]]) : q.time <= tooltip'[c].at]_vars

\* When the axis has come to rest everything the chart draws fits on it, up to
\* the ends the page has fixed, although the range is computed from bounds that
\* are older than the data: no point is more than 0.1 below the bottom, or more
\* than 0.2 above the top, where the tolerances of bottom and length add up.
AxisCoversLine ==
  [][\A c \in Charts :
       (/\ lastRenderTimeMillis'[c] # lastRenderTimeMillis[c]
        /\ ~ isAnimatingScale'[c])
         => \A s \in Ranging(c) : \A p \in ToSet(data'[s]) :
              /\ \/ ~ isNaN(Options[c].minValue)
                 \/ currentVisMinValue'[c] - Tenth <= p.value
              /\ \/ ~ isNaN(Options[c].maxValue)
                 \/ p.value <= currentVisMinValue'[c] + currentValueRange'[c]
                                 + 2 * Tenth
     ]_vars

\* Bounds that are wider than the data do not stay so: the axis shrinks again
\* after an extreme point has been dropped or replaced (unless a chart that did
\* not show the series was told to remove it).
BoundsTighten ==
  \A s \in Series :
    Shown(s) ~> \/ bounds[s] = resetBounds(data[s])
                \/ ~ Shown(s) \/ s \in strayed

\* the map from times to values that a series stands for
SamplesOf(points) ==
  [t \in {p.time : p \in ToSet(points)} |->
     (CHOOSE p \in ToSet(points) : p.time = t).value]

drawable == [s \in Series |-> SamplesOf(data[s])]

\* What a chart is given to draw is, for every series, a map from times to
\* values that forgets only from its old end and never its newest sample,
\* whichever charts draw it and however late the points arrive.
Signals == INSTANCE LiveSignal WITH SampleValue <- Value, samples <- drawable

SeriesAreSignals == Signals!Spec

=============================================================================
