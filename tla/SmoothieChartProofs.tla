------------------------- MODULE SmoothieChartProofs -------------------------
(***************************************************************************)
(* Theorems about SmoothieChart, for any number of charts and series, any  *)
(* options and any calls of the page.                                      *)
(***************************************************************************)
EXTENDS SmoothieChart, TimeSeriesProofs, FiniteSetTheorems

\* The series are series, and in order.
DataInv ==
  /\ now \in Int
  /\ data \in [Series -> Seq(Point)]
  /\ SeriesInOrder

\* The actions that touch no point.
LEMMA QuietData ==
  ASSUME DataInv, UNCHANGED <<now, data>>
  PROVE  DataInv'
BY DEF DataInv, SeriesInOrder, Chronological

LEMMA AppendPointKeepsData ==
  ASSUME DataInv, NEW s \in Series, NEW t \in now - MaxLateness .. now,
         NEW v \in Readings, NEW sum \in BOOLEAN, AppendPoint(s, t, v, sum)
  PROVE  DataInv'
<1>1. t \in Int /\ v \in Value
  BY SmoothieChartAssumption DEF DataInv, Value
<1>2. /\ data[s] \in Seq(Point) /\ Chronological(data[s])
      /\ \A r \in Series : data[r] \in Seq(Point) /\ Chronological(data[r])
  BY DEF DataInv, SeriesInOrder
<1>3. /\ append(data[s], t, v, sum) \in Seq(Point)
      /\ Chronological(append(data[s], t, v, sum))
  BY <1>1, <1>2, AppendKeepsOrder
<1>4. /\ now' = now
      /\ data' = [data EXCEPT ![s] = append(data[s], t, v, sum)]
  BY DEF AppendPoint
<1>5. data' \in [Series -> Seq(Point)]
  BY <1>3, <1>4 DEF DataInv
<1>6. \A r \in Series :
        data'[r] = IF r = s THEN append(data[s], t, v, sum) ELSE data[r]
  BY <1>4 DEF DataInv
<1>7. \A r \in Series : Chronological(data'[r])
  BY <1>2, <1>3, <1>6
<1>8. SeriesInOrder'
  BY <1>7 DEF SeriesInOrder, Chronological
<1> QED
  BY <1>4, <1>5, <1>8 DEF DataInv

LEMMA ClearKeepsData ==
  ASSUME DataInv, NEW s \in Series, Clear(s)
  PROVE  DataInv'
<1>1. now' = now /\ data' = [data EXCEPT ![s] = <<>>]
  BY DEF Clear, Switch
<1>2. data' \in [Series -> Seq(Point)]
  BY <1>1 DEF DataInv
<1>3. \A r \in Series : Chronological(data'[r])
  <2>1. Chronological(<<>>)
    BY DEF Chronological
  <2> QED
    BY <1>1, <2>1 DEF DataInv, SeriesInOrder
<1>4. SeriesInOrder'
  BY <1>3 DEF SeriesInOrder, Chronological
<1> QED
  BY <1>1, <1>2, <1>4 DEF DataInv

LEMMA RenderKeepsData ==
  ASSUME DataInv, NEW c \in Charts, Render(c)
  PROVE  DataInv'
<1> DEFINE oldest == OldestValidTime(c, ChartTime(c))
           max    == Options[c].maxDataSetLength
<1>1. now' = now /\ data' = DropOldData(c, oldest)
  BY DEF Render
<1>2. ASSUME NEW s \in Series
      PROVE  data'[s] \in Seq(Point) /\ Chronological(data'[s])
  <2>1. data[s] \in Seq(Point) /\ Chronological(data[s])
    BY DEF DataInv, SeriesInOrder
  <2>2. data'[s] = IF s \in Drawn(c, oldest)
                   THEN dropOldData(data[s], oldest, max)
                   ELSE data[s]
    BY <1>1 DEF DropOldData
  <2>3. /\ dropOldData(data[s], oldest, max) \in Seq(Point)
        /\ Chronological(dropOldData(data[s], oldest, max))
    BY <2>1, DropKeepsOrder
  <2> QED
    BY <2>1, <2>2, <2>3
<1>3. data' \in [Series -> Seq(Point)]
  <2>1. data' = [s \in Series |-> data'[s]]
    BY <1>1 DEF DropOldData
  <2> QED
    BY <1>2, <2>1
<1>4. SeriesInOrder'
  BY <1>2 DEF SeriesInOrder, Chronological
<1> QED
  BY <1>1, <1>3, <1>4 DEF DataInv

LEMMA DataStep ==
  ASSUME DataInv, [Next]_vars
  PROVE  DataInv'
<1>1. ASSUME NEW s \in Series, NEW t \in now - MaxLateness .. now,
             NEW v \in Readings, NEW sum \in BOOLEAN, AppendPoint(s, t, v, sum)
      PROVE  DataInv'
  BY <1>1, AppendPointKeepsData
<1>2. ASSUME NEW s \in Series, Clear(s)
      PROVE  DataInv'
  BY <1>2, ClearKeepsData
<1>3. ASSUME NEW s \in Series, Toggle(s)
      PROVE  DataInv'
  BY <1>3, QuietData DEF Toggle, Switch
<1>4. ASSUME NEW i \in DOMAIN intervals, ResetBounds(i)
      PROVE  DataInv'
  BY <1>4, QuietData DEF ResetBounds
<1>5. ASSUME NEW c \in Charts, NEW s \in Series,
             \/ addTimeSeries(c, s)
             \/ removeTimeSeries(c, s)
             \/ bringToFront(c, s)
      PROVE  DataInv'
  BY <1>5, QuietData DEF addTimeSeries, removeTimeSeries, bringToFront
<1>6. ASSUME NEW c \in Charts, start(c) \/ stop(c) \/ MouseOut(c)
      PROVE  DataInv'
  BY <1>6, QuietData DEF start, stop, MouseOut
<1>7. ASSUME NEW c \in Charts, NEW x \in MouseXs[c], MouseMove(c, x)
      PROVE  DataInv'
  BY <1>7, QuietData DEF MouseMove
<1>8. ASSUME NEW c \in Charts, Frame(c)
      PROVE  DataInv'
  <2>1. PICK f \in frames[c] :
          PaintFrame(c, f) \/ FrameThrows(c, f) \/ SkipFrame(c, f)
    BY <1>8 DEF Frame
  <2>2. Render(c) \/ UNCHANGED <<now, data>>
    BY <2>1 DEF PaintFrame, FrameThrows, SkipFrame
  <2> QED
    BY <2>2, QuietData, RenderKeepsData
<1>9. ASSUME Tick
      PROVE  DataInv'
  <2>1. now' = now + 1 /\ data' = data
    BY <1>9 DEF Tick
  <2> QED
    BY <2>1 DEF DataInv, SeriesInOrder, Chronological
<1>10. ASSUME UNCHANGED vars
       PROVE  DataInv'
  BY <1>10, QuietData DEF vars
<1> QED
  BY <1>1, <1>2, <1>3, <1>4, <1>5, <1>6, <1>7, <1>8, <1>9, <1>10 DEF Next

LEMMA DataStart ==
  ASSUME Init
  PROVE  DataInv
<1>1. now \in Int /\ data = [s \in Series |-> <<>>]
  BY SmoothieChartAssumption DEF Init
<1> QED
  BY <1>1 DEF DataInv, SeriesInOrder, Chronological

\* No series ever gets out of order or has a time stamp twice, for any points,
\* late, repeated or summed, and for any charts that drop points from it.
THEOREM OrderKept == Spec => []SeriesInOrder
<1>1. Init => DataInv
  BY DataStart
<1>2. DataInv /\ [Next]_vars => DataInv'
  BY DataStep
<1>3. DataInv => SeriesInOrder
  BY DEF DataInv
<1> QED
  BY <1>1, <1>2, <1>3, PTL DEF Spec

-----------------------------------------------------------------------------
(* The animation.  The frame that a chart remembers and the one the browser *)
(* owes it are the same as long as no frame throws, and none does if        *)
(* maxDataSetLength is at least 2 (NeverLooksBeyond).                       *)

\* The frames and the series of a chart have their types.
AnimationType ==
  /\ frame \in [Charts -> 0 .. 3]
  /\ frames \in [Charts -> SUBSET (1 .. 3)]
  /\ listening \in [Charts -> BOOLEAN]
  /\ seriesSet \in [Charts -> Seq(Series)]

AnimationInv == DataInv /\ AnimationType /\ OneAnimation

\* What OneAnimation says of one chart.
Animated(c, f, fs, l) ==
  /\ fs \subseteq {f} \ {NoFrame}
  /\ l <=> (f # NoFrame)
  /\ f # NoFrame => fs = {f} \/ Options[c].maxDataSetLength < 2

LEMMA OneAnimationByChart ==
  OneAnimation <=> \A c \in Charts :
                     Animated(c, frame[c], frames[c], listening[c])
BY Zenon DEF OneAnimation, Animated, Running

\* An action that changes the animation of one chart.
LEMMA AnimateOne ==
  ASSUME AnimationType, OneAnimation, NEW c \in Charts,
         NEW f \in 0 .. 3, NEW fs \in SUBSET (1 .. 3), NEW l \in BOOLEAN,
         Animated(c, f, fs, l),
         frame' = [frame EXCEPT ![c] = f],
         frames' = [frames EXCEPT ![c] = fs],
         listening' = [listening EXCEPT ![c] = l],
         UNCHANGED seriesSet
  PROVE  AnimationType' /\ OneAnimation'
<1>1. AnimationType'
  BY DEF AnimationType
<1>2. ASSUME NEW d \in Charts
      PROVE  Animated(d, frame'[d], frames'[d], listening'[d])
  <2>1. CASE d = c
    <3>1. frame'[c] = f /\ frames'[c] = fs /\ listening'[c] = l
      BY DEF AnimationType
    <3> QED
      BY <2>1, <3>1
  <2>2. CASE d # c
    <3>1. /\ frame'[d] = frame[d] /\ frames'[d] = frames[d]
          /\ listening'[d] = listening[d]
      BY <2>2 DEF AnimationType
    <3> QED
      BY <3>1, OneAnimationByChart
  <2> QED
    BY <2>1, <2>2
<1>3. OneAnimation'
  BY <1>2, Zenon DEF OneAnimation, Animated, Running
<1> QED
  BY <1>1, <1>3

\* The actions that touch no frame, and at most the series of a chart.
LEMMA QuietAnimation ==
  ASSUME AnimationType, OneAnimation, UNCHANGED frameVars,
         seriesSet' \in [Charts -> Seq(Series)]
  PROVE  AnimationType' /\ OneAnimation'
BY DEF AnimationType, OneAnimation, Running, frameVars

\* The place of a series that the chart has is one of its places.
LEMMA FirstInExists ==
  ASSUME AnimationType, NEW c \in Charts, NEW s \in Series, In(s, c)
  PROVE  /\ FirstIn(s, c) \in 1 .. Len(seriesSet[c])
         /\ seriesSet[c][FirstIn(s, c)] = s
<1> DEFINE places == {i \in DOMAIN seriesSet[c] : seriesSet[c][i] = s}
<1>1. seriesSet[c] \in Seq(Series)
  BY DEF AnimationType
<1>2. DOMAIN seriesSet[c] = 1 .. Len(seriesSet[c]) /\ Len(seriesSet[c]) \in Nat
  BY <1>1
<1>3. places \subseteq Nat /\ places # {}
  BY <1>2 DEF In
<1>4. PICK m \in places : \A n \in places : m <= n
  BY <1>3, Minimum
<1>5. /\ m \in DOMAIN seriesSet[c]
      /\ seriesSet[c][m] = s
      /\ \A j \in 1 .. m - 1 : seriesSet[c][j] # s
  <2>1. ASSUME NEW j \in 1 .. m - 1, seriesSet[c][j] = s
        PROVE  FALSE
    <3>1. j \in places /\ m \in Nat /\ j < m
      BY <1>2, <1>4, <2>1
    <3> QED
      BY <1>4, <3>1
  <2> QED
    BY <1>4, <2>1
<1>6. FirstIn(s, c) \in DOMAIN seriesSet[c] /\ seriesSet[c][FirstIn(s, c)] = s
  BY <1>5 DEF FirstIn
<1> QED
  BY <1>2, <1>6

\* Removing one series moves those after it one place forward.
LEMMA RemovedFrom ==
  ASSUME NEW q \in Seq(Series), NEW i \in 1 .. Len(q)
  PROVE  /\ RemoveAt(q, i) \in Seq(Series)
         /\ Len(RemoveAt(q, i)) = Len(q) - 1
         /\ \A j \in 1 .. Len(q) - 1 :
              RemoveAt(q, i)[j] = IF j < i THEN q[j] ELSE q[j + 1]
<1> DEFINE a == SubSeq(q, 1, i - 1)
           b == SubSeq(q, i + 1, Len(q))
<1>1. i \in Int /\ Len(q) \in Nat /\ \A j \in 1 .. Len(q) : q[j] \in Series
  OBVIOUS
<1>2. /\ a \in Seq(Series) /\ Len(a) = i - 1
      /\ \A j \in 1 .. i - 1 : a[j] = q[j]
  <2>1. \A j \in 1 .. i - 1 : q[j] \in Series
    BY <1>1
  <2>2. /\ a \in Seq(Series)
        /\ Len(a) = IF 1 <= i - 1 THEN (i - 1) - 1 + 1 ELSE 0
        /\ \A j \in 1 .. (i - 1) - 1 + 1 : a[j] = q[1 + j - 1]
    BY <1>1, <2>1, SubSeqProperties
  <2> QED
    BY <1>1, <2>2
<1>3. /\ b \in Seq(Series) /\ Len(b) = Len(q) - i
      /\ \A j \in 1 .. Len(q) - i : b[j] = q[i + j]
  <2>1. \A j \in i + 1 .. Len(q) : q[j] \in Series
    BY <1>1
  <2>2. /\ b \in Seq(Series)
        /\ Len(b) = IF i + 1 <= Len(q) THEN Len(q) - (i + 1) + 1 ELSE 0
        /\ \A j \in 1 .. Len(q) - (i + 1) + 1 : b[j] = q[(i + 1) + j - 1]
    BY <1>1, <2>1, SubSeqProperties
  <2> QED
    BY <1>1, <2>2
<1>4. RemoveAt(q, i) = a \o b
  BY DEF RemoveAt
<1> HIDE DEF a, b
<1>5. /\ a \o b \in Seq(Series) /\ Len(a \o b) = Len(q) - 1
      /\ \A j \in 1 .. Len(q) - 1 :
           (a \o b)[j] = IF j <= Len(a) THEN a[j] ELSE b[j - Len(a)]
  <2>1. Len(a) + Len(b) = Len(q) - 1
    BY <1>1, <1>2, <1>3
  <2>2. /\ a \o b \in Seq(Series) /\ Len(a \o b) = Len(a) + Len(b)
        /\ \A j \in 1 .. Len(a) + Len(b) :
             (a \o b)[j] = IF j <= Len(a) THEN a[j] ELSE b[j - Len(a)]
    BY <1>2, <1>3, ConcatProperties
  <2> QED
    BY <2>1, <2>2
<1>6. ASSUME NEW j \in 1 .. Len(q) - 1
      PROVE  (a \o b)[j] = IF j < i THEN q[j] ELSE q[j + 1]
  <2>1. CASE j < i
    <3>1. j <= Len(a) /\ j \in 1 .. i - 1
      BY <1>1, <1>2, <2>1
    <3> QED
      BY <1>2, <1>5, <2>1, <3>1
  <2>2. CASE ~ (j < i)
    <3>1. /\ ~ (j <= Len(a)) /\ j - Len(a) \in 1 .. Len(q) - i
          /\ i + (j - Len(a)) = j + 1
      BY <1>1, <1>2, <2>2
    <3>2. b[j - Len(a)] = q[j + 1]
      BY <1>3, <3>1
    <3> QED
      BY <1>5, <2>2, <3>1, <3>2
  <2> QED
    BY <2>1, <2>2
<1> QED
  BY <1>4, <1>5, <1>6

\* addTimeSeries, removeTimeSeries and bringToFront put series into charts.
LEMMA SeriesSetKept ==
  ASSUME AnimationType, NEW c \in Charts, NEW s \in Series,
         \/ addTimeSeries(c, s)
         \/ removeTimeSeries(c, s)
         \/ bringToFront(c, s)
  PROVE  seriesSet' \in [Charts -> Seq(Series)]
<1>1. seriesSet[c] \in Seq(Series) /\ seriesSet \in [Charts -> Seq(Series)]
  BY DEF AnimationType
<1>2. CASE addTimeSeries(c, s)
  <2>1. Append(seriesSet[c], s) \in Seq(Series)
    BY <1>1
  <2>2. seriesSet' = [seriesSet EXCEPT ![c] = Append(seriesSet[c], s)]
    BY <1>2 DEF addTimeSeries
  <2> QED
    BY <1>1, <2>1, <2>2
<1>3. ASSUME In(s, c)
      PROVE  RemoveAt(seriesSet[c], FirstIn(s, c)) \in Seq(Series)
  BY <1>1, <1>3, FirstInExists, RemovedFrom
<1>4. CASE removeTimeSeries(c, s)
  <2>1. CASE In(s, c)
    <3>1. seriesSet' = [seriesSet EXCEPT
                          ![c] = RemoveAt(seriesSet[c], FirstIn(s, c))]
      BY <1>4, <2>1 DEF removeTimeSeries
    <3> QED
      BY <1>1, <1>3, <2>1, <3>1
  <2>2. CASE ~ In(s, c)
    BY <1>1, <1>4, <2>2 DEF removeTimeSeries
  <2> QED
    BY <2>1, <2>2
<1>5. CASE bringToFront(c, s)
  <2> DEFINE rest == RemoveAt(seriesSet[c], FirstIn(s, c))
  <2>1. rest \in Seq(Series)
    BY <1>3, <1>5 DEF bringToFront
  <2>2. seriesSet' = [seriesSet EXCEPT ![c] = Append(rest, s)]
    BY <1>5 DEF bringToFront
  <2> HIDE DEF rest
  <2>3. Append(rest, s) \in Seq(Series)
    BY <2>1
  <2> QED
    BY <1>1, <2>2, <2>3
<1> QED
  BY <1>2, <1>4, <1>5

\* The frame that is requested while none is owed.
LEMMA FreshFrameFree ==
  ASSUME AnimationType, OneAnimation, NEW c \in Charts, ~ Running(c)
  PROVE  FreshFrame(c) \in 1 .. 3 /\ frames[c] = {}
<1>1. frame[c] = NoFrame /\ frames[c] \subseteq {frame[c]} \ {NoFrame}
  BY DEF OneAnimation, Running
<1>2. frames[c] = {}
  BY <1>1
<1>3. 1 \in 1 .. 3 /\ 1 \notin frames[c] \cup {frame[c]}
  BY <1>1, <1>2 DEF NoFrame
<1> QED
  BY <1>2, <1>3 DEF FreshFrame

LEMMA StartAnimates ==
  ASSUME AnimationType, OneAnimation, NEW c \in Charts, start(c)
  PROVE  AnimationType' /\ OneAnimation'
<1> DEFINE f == FreshFrame(c)
<1>1. f \in 1 .. 3 /\ frames[c] = {}
  BY FreshFrameFree DEF start
<1>2. /\ frame' = [frame EXCEPT ![c] = f]
      /\ frames' = [frames EXCEPT ![c] = frames[c] \cup {f}]
      /\ listening' = [listening EXCEPT ![c] = TRUE]
      /\ UNCHANGED seriesSet
  BY DEF start
<1> HIDE DEF f
<1>3. frames' = [frames EXCEPT ![c] = {f}]
  <2>1. frames[c] \cup {f} = {f}
    BY <1>1
  <2> QED
    BY <1>2, <2>1
<1>4. f \in 0 .. 3 /\ {f} \in SUBSET (1 .. 3) /\ f # NoFrame
  BY <1>1 DEF NoFrame
<1>5. Animated(c, f, {f}, TRUE)
  BY <1>4 DEF Animated
<1> QED
  BY <1>2, <1>3, <1>4, <1>5, AnimateOne

LEMMA StopAnimates ==
  ASSUME AnimationType, OneAnimation, NEW c \in Charts, stop(c)
  PROVE  AnimationType' /\ OneAnimation'
<1>1. /\ frame' = [frame EXCEPT ![c] = NoFrame]
      /\ frames' = [frames EXCEPT ![c] = frames[c] \ {frame[c]}]
      /\ listening' = [listening EXCEPT ![c] = FALSE]
      /\ UNCHANGED seriesSet
  BY DEF stop
<1>2. frames[c] \subseteq {frame[c]}
  BY DEF OneAnimation
<1>3. frames' = [frames EXCEPT ![c] = {}]
  <2>1. frames[c] \ {frame[c]} = {}
    BY <1>2
  <2> QED
    BY <1>1, <2>1
<1>4. Animated(c, NoFrame, {}, FALSE)
  BY DEF Animated
<1>5. NoFrame \in 0 .. 3 /\ {} \in SUBSET (1 .. 3)
  BY DEF NoFrame
<1> QED
  BY <1>1, <1>3, <1>4, <1>5, AnimateOne

LEMMA NextFrameAnimates ==
  ASSUME AnimationType, OneAnimation, NEW c \in Charts, NEW f \in frames[c],
         RequestNext(c, f), UNCHANGED seriesSet
  PROVE  AnimationType' /\ OneAnimation'
<1> DEFINE next == CHOOSE g \in 1 .. 3 : g \notin frames[c] \ {f}
<1>1. frames[c] \subseteq {frame[c]} \ {NoFrame}
  BY DEF OneAnimation
<1>2. frames[c] \ {f} = {} /\ frame[c] # NoFrame
  BY <1>1
<1>3. next \in 1 .. 3
  <2>1. 1 \in 1 .. 3 /\ 1 \notin frames[c] \ {f}
    BY <1>2
  <2> QED
    BY <2>1
<1>4. /\ frames' = [frames EXCEPT ![c] = (frames[c] \ {f}) \cup {next}]
      /\ frame' = [frame EXCEPT ![c] = next]
      /\ UNCHANGED listening
  BY DEF RequestNext
<1> HIDE DEF next
<1>5. frames' = [frames EXCEPT ![c] = {next}]
  <2>1. (frames[c] \ {f}) \cup {next} = {next}
    BY <1>2
  <2> QED
    BY <1>4, <2>1
<1>6. listening[c] <=> TRUE
  BY <1>2 DEF OneAnimation, Running
<1>7. listening' = [listening EXCEPT ![c] = TRUE]
  <2>1. listening[c] = TRUE
    BY <1>6 DEF AnimationType
  <2> QED
    BY <1>4, <2>1 DEF AnimationType
<1>8. next \in 0 .. 3 /\ {next} \in SUBSET (1 .. 3) /\ next # NoFrame
  BY <1>3 DEF NoFrame
<1>9. Animated(c, next, {next}, TRUE)
  BY <1>8 DEF Animated
<1> QED
  BY <1>4, <1>5, <1>7, <1>8, <1>9, AnimateOne

\* A frame throws only in a chart with a maxDataSetLength below 2.
LEMMA ThrowsOnlyBelowTwo ==
  ASSUME DataInv, AnimationType, NEW c \in Charts, ThrowsIn(c)
  PROVE  Options[c].maxDataSetLength < 2
<1> DEFINE oldest == OldestValidTime(c, ChartTime(c))
           max    == Options[c].maxDataSetLength
<1>1. PICK i \in DOMAIN seriesSet[c] : Throws(c, seriesSet[c][i], oldest)
  BY DEF ThrowsIn
<1>2. seriesSet[c][i] \in Series
  BY <1>1 DEF AnimationType
<1>3. data[seriesSet[c][i]] \in Seq(Point)
  BY <1>2 DEF DataInv
<1>4. max \in Nat
  BY SmoothieChartAssumption
<1>5. LooksBeyond(data[seriesSet[c][i]], oldest, max)
  BY <1>1 DEF Throws
<1> HIDE DEF oldest, max
<1>6. ~ (max >= 2)
  BY <1>3, <1>4, <1>5, NeverLooksBeyond
<1>7. max < 2
  BY <1>4, <1>6
<1> QED
  BY <1>7 DEF max

LEMMA ThrowAnimates ==
  ASSUME DataInv, AnimationType, OneAnimation, NEW c \in Charts,
         NEW f \in frames[c], FrameThrows(c, f)
  PROVE  AnimationType' /\ OneAnimation'
<1>1. /\ frames' = [frames EXCEPT ![c] = frames[c] \ {f}]
      /\ frame' = frame /\ listening' = listening /\ UNCHANGED seriesSet
  BY DEF FrameThrows, Render
<1>2. frames[c] \subseteq {frame[c]} \ {NoFrame}
  BY DEF OneAnimation
<1>3. /\ frame[c] \in 0 .. 3 /\ listening[c] \in BOOLEAN
      /\ frames[c] \ {f} \in SUBSET (1 .. 3)
  BY DEF AnimationType
<1>4. /\ frame' = [frame EXCEPT ![c] = frame[c]]
      /\ listening' = [listening EXCEPT ![c] = listening[c]]
  BY <1>1 DEF AnimationType
<1>5. Options[c].maxDataSetLength < 2
  BY ThrowsOnlyBelowTwo DEF FrameThrows
<1>6. Animated(c, frame[c], frames[c] \ {f}, listening[c])
  <2>1. listening[c] <=> (frame[c] # NoFrame)
    BY Zenon DEF OneAnimation, Running
  <2>2. frames[c] \ {f} \subseteq {frame[c]} \ {NoFrame}
    BY <1>2
  <2> QED
    BY <1>5, <2>1, <2>2, Zenon DEF Animated
<1> QED
  BY <1>1, <1>3, <1>4, <1>6, AnimateOne

LEMMA AnimationStep ==
  ASSUME AnimationInv, [Next]_vars
  PROVE  AnimationInv'
<1> USE DEF AnimationInv
<1>0. DataInv'
  BY DataStep
<1>1. seriesSet' = seriesSet => seriesSet' \in [Charts -> Seq(Series)]
  BY DEF AnimationType
<1>2. ASSUME NEW s \in Series,
             \/ Clear(s)
             \/ Toggle(s)
             \/ \E t \in now - MaxLateness .. now, v \in Readings,
                   sum \in BOOLEAN : AppendPoint(s, t, v, sum)
      PROVE  AnimationType' /\ OneAnimation'
  BY <1>1, <1>2, QuietAnimation DEF Clear, Toggle, Switch, AppendPoint
<1>3. ASSUME NEW i \in DOMAIN intervals, ResetBounds(i)
      PROVE  AnimationType' /\ OneAnimation'
  BY <1>1, <1>3, QuietAnimation DEF ResetBounds
<1>4. ASSUME NEW c \in Charts, NEW s \in Series,
             \/ addTimeSeries(c, s)
             \/ removeTimeSeries(c, s)
             \/ bringToFront(c, s)
      PROVE  AnimationType' /\ OneAnimation'
  <2>1. seriesSet' \in [Charts -> Seq(Series)]
    BY <1>4, SeriesSetKept
  <2>2. UNCHANGED frameVars
    BY <1>4 DEF addTimeSeries, removeTimeSeries, bringToFront
  <2> QED
    BY <2>1, <2>2, QuietAnimation
<1>5. ASSUME NEW c \in Charts, start(c) \/ stop(c)
      PROVE  AnimationType' /\ OneAnimation'
  BY <1>5, StartAnimates, StopAnimates
<1>6. ASSUME NEW c \in Charts,
             MouseOut(c) \/ \E x \in MouseXs[c] : MouseMove(c, x)
      PROVE  AnimationType' /\ OneAnimation'
  BY <1>1, <1>6, QuietAnimation DEF MouseOut, MouseMove
<1>7. ASSUME NEW c \in Charts, Frame(c)
      PROVE  AnimationType' /\ OneAnimation'
  <2>1. PICK f \in frames[c] :
          PaintFrame(c, f) \/ FrameThrows(c, f) \/ SkipFrame(c, f)
    BY <1>7 DEF Frame
  <2>2. CASE PaintFrame(c, f) \/ SkipFrame(c, f)
    <3>1. RequestNext(c, f) /\ UNCHANGED seriesSet
      BY <2>2 DEF PaintFrame, SkipFrame, Render
    <3> QED
      BY <3>1, NextFrameAnimates
  <2>3. CASE FrameThrows(c, f)
    BY <2>3, ThrowAnimates
  <2> QED
    BY <2>1, <2>2, <2>3
<1>8. ASSUME Tick \/ UNCHANGED vars
      PROVE  AnimationType' /\ OneAnimation'
  BY <1>1, <1>8, QuietAnimation DEF Tick, vars
<1>9. AnimationType' /\ OneAnimation'
  BY <1>2, <1>3, <1>4, <1>5, <1>6, <1>7, <1>8 DEF Next
<1> QED
  BY <1>0, <1>9

\* No order of start, stop and frames doubles the animation of a chart or ends
\* it, but for the charts whose maxDataSetLength lets a frame throw.
THEOREM AnimationGoesOn == Spec => []OneAnimation
<1>1. Init => AnimationInv
  <2> SUFFICES ASSUME Init PROVE AnimationInv
    OBVIOUS
  <2>1. AnimationType
    BY DEF Init, AnimationType, NoFrame
  <2>2. OneAnimation
    BY DEF Init, OneAnimation, Running
  <2> QED
    BY <2>1, <2>2, DataStart DEF AnimationInv
<1>2. AnimationInv /\ [Next]_vars => AnimationInv'
  BY AnimationStep
<1>3. AnimationInv => OneAnimation
  BY DEF AnimationInv
<1> QED
  BY <1>1, <1>2, <1>3, PTL DEF Spec

-----------------------------------------------------------------------------
(* What a chart needs.  Whatever is missing in a series is older than a     *)
(* sample that is itself too old to be shown.                               *)

\* the left end of a chart that follows the clock
LeftEnd(c) == OldestValidTime(c, now - Options[c].delay)

\* A chart that follows the clock, whose series no chart with a shorter memory
\* has drawn.
Undisturbed(c, s) ==
  /\ ~ Options[c].nonRealtimeData
  /\ \A d \in drawnBy[s] : d = c \/ NoNarrower(d, c)

Present(s, t) == \E p \in ToSet(data[s]) : p.time = t

Outdated(c, s, t) == \E u \in DOMAIN samples[s] : t < u /\ u < LeftEnd(c)

HistoryType ==
  /\ now \in StartTime .. MaxTime
  /\ samples = [s \in Series |-> samples[s]]
  /\ \A s \in Series : DOMAIN samples[s] \subseteq Int
  /\ drawnBy \in [Series -> SUBSET Charts]

\* The points are samples, with their last values.
PointsAreSamples ==
  \A s \in Series : \A p \in ToSet(data[s]) :
    p.time \in DOMAIN samples[s] /\ samples[s][p.time] = p.value

Remembered ==
  \A c \in Charts, s \in Series :
    Undisturbed(c, s) =>
      \A t \in DOMAIN samples[s] : Present(s, t) \/ Outdated(c, s, t)

MemoryInv == DataInv /\ HistoryType /\ PointsAreSamples /\ Remembered

LEMMA OldestValidTimeGrows ==
  ASSUME NEW c \in Charts, NEW a \in Int, NEW b \in Int, a <= b
  PROVE  /\ OldestValidTime(c, a) \in Int /\ OldestValidTime(c, b) \in Int
         /\ OldestValidTime(c, a) <= OldestValidTime(c, b)
<1> DEFINE m == Options[c].millisPerPixel
           w == Options[c].width * m
<1>1. m \in Nat \ {0} /\ Options[c].width \in Nat
  BY SmoothieChartAssumption
<1>2. w \in Int
  BY <1>1
<1>3. a - (a % m) <= b - (b % m)
  BY <1>1, RoundingGrows
<1>4. a % m \in Int /\ b % m \in Int
  BY <1>1
<1>5. /\ OldestValidTime(c, a) = a - (a % m) - w
      /\ OldestValidTime(c, b) = b - (b % m) - w
  BY DEF OldestValidTime, RoundedDown
<1> HIDE DEF m, w
<1> QED
  BY <1>2, <1>3, <1>4, <1>5

LEMMA LeftEndInt ==
  ASSUME HistoryType, NEW c \in Charts
  PROVE  now \in Int /\ Options[c].delay \in Int /\ LeftEnd(c) \in Int
<1>1. now \in Int /\ Options[c].delay \in Int
  BY SmoothieChartAssumption DEF HistoryType
<1>2. now - Options[c].delay \in Int /\ now - Options[c].delay <= now - Options[c].delay
  BY <1>1
<1> QED
  BY <1>1, <1>2, OldestValidTimeGrows DEF LeftEnd

\* The steps that touch neither points nor samples, while the clock does not
\* go back.
LEMMA QuietMemory ==
  ASSUME MemoryInv, DataInv', UNCHANGED <<data, samples, drawnBy>>,
         now' \in StartTime .. MaxTime, now <= now'
  PROVE  MemoryInv'
<1>1. HistoryType'
  BY DEF MemoryInv, HistoryType
<1>2. PointsAreSamples'
  BY DEF MemoryInv, PointsAreSamples
<1>3. ASSUME NEW c \in Charts
      PROVE  LeftEnd(c) \in Int /\ LeftEnd(c)' \in Int /\ LeftEnd(c) <= LeftEnd(c)'
  <2>1. /\ now - Options[c].delay \in Int /\ now' - Options[c].delay \in Int
        /\ now - Options[c].delay <= now' - Options[c].delay
    BY SmoothieChartAssumption DEF MemoryInv, HistoryType
  <2> QED
    BY <2>1, OldestValidTimeGrows DEF LeftEnd
<1>4. ASSUME NEW c \in Charts, NEW s \in Series, Undisturbed(c, s)',
             NEW t \in DOMAIN samples[s]
      PROVE  Present(s, t)' \/ Outdated(c, s, t)'
  <2>1. Undisturbed(c, s)
    BY <1>4 DEF Undisturbed
  <2>2. CASE Present(s, t)
    BY <2>2 DEF Present
  <2>3. CASE Outdated(c, s, t)
    <3>1. PICK u \in DOMAIN samples[s] : t < u /\ u < LeftEnd(c)
      BY <2>3 DEF Outdated
    <3>2. u \in Int
      BY DEF MemoryInv, HistoryType
    <3>3. u < LeftEnd(c)'
      BY <1>3, <3>1, <3>2
    <3> QED
      BY <3>1, <3>3 DEF Outdated
  <2> QED
    BY <2>1, <2>2, <2>3 DEF MemoryInv, Remembered
<1>5. Remembered'
  BY <1>4 DEF Remembered
<1> QED
  BY <1>1, <1>2, <1>5 DEF MemoryInv

LEMMA AppendPointRemembered ==
  ASSUME MemoryInv, DataInv', NEW s \in Series,
         NEW t \in now - MaxLateness .. now, NEW v \in Readings,
         NEW sum \in BOOLEAN, AppendPoint(s, t, v, sum)
  PROVE  MemoryInv'
<1>1. t \in Int /\ v \in Value
  BY SmoothieChartAssumption DEF MemoryInv, HistoryType, Value
<1>2. data[s] \in Seq(Point) /\ Chronological(data[s])
  BY DEF MemoryInv, DataInv, SeriesInOrder
<1> DEFINE new == [time |-> t, value |-> Stored(data[s], t, v, sum)]
           old == {p \in ToSet(data[s]) : p.time # t}
           sampled == [u \in DOMAIN samples[s] \cup {t} |->
                         IF u = t THEN Stored(data[s], t, v, sum)
                                  ELSE samples[s][u]]
<1>3. ToSet(append(data[s], t, v, sum)) = old \cup {new}
  BY <1>1, <1>2, AppendedPoints
<1>4. /\ data' = [data EXCEPT ![s] = append(data[s], t, v, sum)]
      /\ samples' = [samples EXCEPT ![s] = sampled]
      /\ UNCHANGED <<now, drawnBy>>
  BY DEF AppendPoint
<1>5. /\ ToSet(data'[s]) = old \cup {new}
      /\ \A r \in Series \ {s} : data'[r] = data[r]
  BY <1>3, <1>4 DEF MemoryInv, DataInv
<1>6. /\ new.time = t /\ new.value = Stored(data[s], t, v, sum)
      /\ DOMAIN sampled = DOMAIN samples[s] \cup {t}
      /\ sampled[t] = new.value
      /\ \A u \in DOMAIN samples[s] : u # t => sampled[u] = samples[s][u]
  OBVIOUS
<1>7. samples = [r \in Series |-> samples[r]]
  BY DEF MemoryInv, HistoryType
<1> HIDE DEF new, sampled
<1>8. samples'[s] = sampled /\ \A r \in Series \ {s} : samples'[r] = samples[r]
  BY <1>4, <1>7
<1>9. HistoryType'
  <2>1. samples' = [r \in Series |-> samples'[r]]
    BY <1>4, <1>7
  <2>2. \A r \in Series : DOMAIN samples'[r] \subseteq Int
    BY <1>1, <1>6, <1>8 DEF MemoryInv, HistoryType
  <2> QED
    BY <1>4, <2>1, <2>2 DEF MemoryInv, HistoryType
<1>10. PointsAreSamples'
  <2>1. ASSUME NEW p \in ToSet(data'[s])
        PROVE  p.time \in DOMAIN samples'[s] /\ samples'[s][p.time] = p.value
    BY <1>5, <1>6, <1>8, <2>1 DEF MemoryInv, PointsAreSamples
  <2> QED
    BY <1>5, <1>8, <2>1 DEF MemoryInv, PointsAreSamples
<1>11. ASSUME NEW c \in Charts, NEW r \in Series, Undisturbed(c, r)',
              NEW u \in DOMAIN samples'[r]
       PROVE  Present(r, u)' \/ Outdated(c, r, u)'
  <2>1. Undisturbed(c, r) /\ LeftEnd(c)' = LeftEnd(c)
    BY <1>4, <1>11 DEF Undisturbed, LeftEnd
  <2>2. CASE r # s
    BY <1>5, <1>8, <2>1, <2>2
    DEF MemoryInv, Remembered, Present, Outdated
  <2>3. CASE r = s /\ u = t
    BY <1>5, <1>6, <2>3 DEF Present
  <2>4. CASE r = s /\ u # t
    <3>1. u \in DOMAIN samples[s]
      BY <1>6, <1>8, <2>4
    <3>2. Present(s, u) \/ Outdated(c, s, u)
      BY <2>1, <2>4, <3>1 DEF MemoryInv, Remembered
    <3>3. Present(s, u) => Present(s, u)'
      BY <1>5, <2>4 DEF Present
    <3>4. Outdated(c, s, u) => Outdated(c, s, u)'
      BY <1>6, <1>8, <2>1 DEF Outdated
    <3> QED
      BY <2>4, <3>2, <3>3, <3>4
  <2> QED
    BY <2>2, <2>3, <2>4
<1>12. Remembered'
  BY <1>11 DEF Remembered
<1> QED
  BY <1>9, <1>10, <1>12 DEF MemoryInv

LEMMA ClearForgets ==
  ASSUME MemoryInv, DataInv', NEW s \in Series, Clear(s)
  PROVE  MemoryInv'
<1>1. /\ data' = [data EXCEPT ![s] = <<>>]
      /\ samples' = [samples EXCEPT ![s] = Nothing]
      /\ drawnBy' = [drawnBy EXCEPT ![s] = {}]
      /\ now' = now
  BY DEF Clear, Switch
<1>2. samples = [r \in Series |-> samples[r]]
  BY DEF MemoryInv, HistoryType
<1>3. /\ DOMAIN samples'[s] = {} /\ ToSet(data'[s]) = {}
      /\ \A r \in Series \ {s} : /\ samples'[r] = samples[r]
                                 /\ data'[r] = data[r]
                                 /\ drawnBy'[r] = drawnBy[r]
  BY <1>1, <1>2, EmptyQueue DEF Nothing, MemoryInv, DataInv, HistoryType
<1>4. HistoryType'
  <2>1. samples' = [r \in Series |-> samples'[r]]
    BY <1>1, <1>2
  <2>2. \A r \in Series : DOMAIN samples'[r] \subseteq Int
    BY <1>3 DEF MemoryInv, HistoryType
  <2> QED
    BY <1>1, <2>1, <2>2 DEF MemoryInv, HistoryType
<1>5. PointsAreSamples'
  BY <1>3 DEF MemoryInv, PointsAreSamples
<1>6. Remembered'
  BY <1>1, <1>3 DEF MemoryInv, Remembered, Undisturbed, Present, Outdated, LeftEnd
<1> QED
  BY <1>4, <1>5, <1>6 DEF MemoryInv

\* What a frame drops is followed by a point that is too old to be shown.
LEMMA DroppedAreOutdated ==
  ASSUME NEW d \in Seq(Point), Chronological(d), NEW oldest, NEW max
  PROVE  LET new == ToSet(dropOldData(d, oldest, max)) IN
         /\ new \subseteq ToSet(d)
         /\ \A p \in ToSet(d) : \/ p \in new
                                \/ \E q \in ToSet(d) :
                                     p.time < q.time /\ q.time < oldest
<1> DEFINE k == RemoveCount(d, oldest, max)
           after == dropOldData(d, oldest, max)
<1>1. /\ after \in Seq(Point) /\ Len(after) = Len(d) - k
      /\ \A j \in 1 .. Len(after) : after[j] = d[k + j]
      /\ \A j \in 1 .. k : j + 1 <= Len(d) /\ d[j + 1].time < oldest
  BY DropKeepsOrder
<1>2. k \in 0 .. Len(d) /\ Len(d) \in Nat
  BY RemovalStops
<1> HIDE DEF k, after
<1>3. /\ ToSet(d) = {d[j] : j \in 1 .. Len(d)}
      /\ ToSet(after) = {after[j] : j \in 1 .. Len(after)}
  BY <1>1 DEF ToSet
<1>4. ToSet(after) \subseteq ToSet(d)
  <2>1. \A j \in 1 .. Len(after) : k + j \in 1 .. Len(d)
    BY <1>1, <1>2
  <2> QED
    BY <1>1, <1>3, <2>1
<1>5. ASSUME NEW p \in ToSet(d), p \notin ToSet(after)
      PROVE  \E q \in ToSet(d) : p.time < q.time /\ q.time < oldest
  <2>1. PICK n \in 1 .. Len(d) : p = d[n]
    BY <1>3
  <2>2. n \in 1 .. k
    <3>1. ASSUME n > k PROVE FALSE
      <4>1. n - k \in 1 .. Len(after) /\ k + (n - k) = n
        BY <1>1, <1>2, <3>1
      <4>2. after[n - k] = p
        BY <1>1, <2>1, <4>1
      <4> QED
        BY <1>3, <1>5, <4>1, <4>2
    <3> QED
      BY <1>2, <3>1
  <2>3. n + 1 \in 1 .. Len(d) /\ d[n + 1].time < oldest
    BY <1>1, <1>2, <2>2
  <2>4. d[n].time < d[n + 1].time
    BY <2>3 DEF Chronological
  <2> QED
    BY <1>3, <2>1, <2>3, <2>4
<1> QED
  BY <1>4, <1>5 DEF after

LEMMA RenderRemembers ==
  ASSUME MemoryInv, DataInv', NEW d \in Charts, Render(d)
  PROVE  MemoryInv'
<1> DEFINE oldest == OldestValidTime(d, ChartTime(d))
           max    == Options[d].maxDataSetLength
<1>1. /\ data' = DropOldData(d, oldest)
      /\ drawnBy' = [s \in Series |->
                       drawnBy[s] \cup IF s \in Drawn(d, oldest) THEN {d} ELSE {}]
      /\ UNCHANGED <<now, samples>>
  BY DEF Render
<1>2. HistoryType'
  BY <1>1 DEF MemoryInv, HistoryType
<1>3. ASSUME NEW s \in Series
      PROVE  /\ ToSet(data'[s]) \subseteq ToSet(data[s])
             /\ s \notin Drawn(d, oldest) => data'[s] = data[s]
             /\ s \in Drawn(d, oldest) =>
                  \A p \in ToSet(data[s]) :
                    \/ p \in ToSet(data'[s])
                    \/ \E q \in ToSet(data[s]) :
                         p.time < q.time /\ q.time < oldest
  <2>1. data[s] \in Seq(Point) /\ Chronological(data[s])
    BY DEF MemoryInv, DataInv, SeriesInOrder
  <2>2. data'[s] = IF s \in Drawn(d, oldest)
                   THEN dropOldData(data[s], oldest, max) ELSE data[s]
    BY <1>1 DEF DropOldData
  <2> HIDE DEF oldest, max
  <2>3. CASE s \in Drawn(d, oldest)
    BY <2>1, <2>2, <2>3, DroppedAreOutdated
  <2> QED
    BY <2>2, <2>3
<1>4. PointsAreSamples'
  BY <1>1, <1>3 DEF MemoryInv, PointsAreSamples
<1>5. ASSUME NEW c \in Charts, NEW s \in Series, Undisturbed(c, s)'
      PROVE  /\ Undisturbed(c, s)
             /\ s \in Drawn(d, oldest) => /\ oldest \in Int
                                          /\ oldest <= LeftEnd(c)
  <2>1. drawnBy'[s] = drawnBy[s] \cup IF s \in Drawn(d, oldest) THEN {d} ELSE {}
    BY <1>1
  <2>2. Undisturbed(c, s)
    BY <1>5, <2>1 DEF Undisturbed
  <2>3. ASSUME s \in Drawn(d, oldest)
        PROVE  oldest \in Int /\ oldest <= LeftEnd(c)
    <3>1. d = c \/ NoNarrower(d, c)
      BY <1>5, <2>1, <2>3 DEF Undisturbed
    <3>2. ~ Options[d].nonRealtimeData
      BY <1>5, <3>1 DEF Undisturbed, NoNarrower
    <3>3. oldest = LeftEnd(d)
      BY <3>2 DEF ChartTime, LeftEnd
    <3>4. LeftEnd(d) \in Int /\ LeftEnd(c) \in Int
      BY LeftEndInt DEF MemoryInv
    <3>5. LeftEnd(d) <= LeftEnd(c)
      BY <3>1, <3>4 DEF NoNarrower, LeftEnd, MemoryInv, HistoryType
    <3> QED
      BY <3>3, <3>4, <3>5
  <2> QED
    BY <2>2, <2>3
<1> HIDE DEF oldest, max
<1>6. ASSUME NEW c \in Charts, NEW s \in Series, Undisturbed(c, s)',
             NEW t \in DOMAIN samples[s]
      PROVE  Present(s, t)' \/ Outdated(c, s, t)'
  <2>1. LeftEnd(c)' = LeftEnd(c) /\ LeftEnd(c) \in Int
    BY <1>1, LeftEndInt DEF LeftEnd, MemoryInv
  <2>2. CASE Outdated(c, s, t)
    BY <1>1, <2>1, <2>2 DEF Outdated
  <2>3. CASE Present(s, t)
    <3>1. PICK p \in ToSet(data[s]) : p.time = t
      BY <2>3 DEF Present
    <3>2. CASE p \in ToSet(data'[s])
      BY <3>1, <3>2 DEF Present
    <3>3. CASE p \notin ToSet(data'[s])
      <4>1. s \in Drawn(d, oldest)
        BY <1>3, <3>3
      <4>2. PICK q \in ToSet(data[s]) : t < q.time /\ q.time < oldest
        BY <1>3, <3>1, <3>3, <4>1
      <4>3. q.time \in DOMAIN samples[s] /\ q.time \in Int
        BY DEF MemoryInv, PointsAreSamples, HistoryType
      <4>4. q.time < LeftEnd(c)
        BY <1>5, <1>6, <2>1, <4>1, <4>2, <4>3
      <4> QED
        BY <1>1, <2>1, <4>2, <4>3, <4>4 DEF Outdated
    <3> QED
      BY <3>2, <3>3
  <2> QED
    BY <1>5, <1>6, <2>2, <2>3 DEF MemoryInv, Remembered
<1>7. Remembered'
  BY <1>1, <1>6 DEF Remembered
<1> QED
  BY <1>2, <1>4, <1>7 DEF MemoryInv

LEMMA MemoryStep ==
  ASSUME MemoryInv, [Next]_vars
  PROVE  MemoryInv'
<1>1. DataInv'
  BY DataStep DEF MemoryInv
<1>2. now \in StartTime .. MaxTime /\ now <= now
  BY SmoothieChartAssumption DEF MemoryInv, HistoryType
<1>3. ASSUME NEW s \in Series, NEW t \in now - MaxLateness .. now,
             NEW v \in Readings, NEW sum \in BOOLEAN, AppendPoint(s, t, v, sum)
      PROVE  MemoryInv'
  BY <1>1, <1>3, AppendPointRemembered
<1>4. ASSUME NEW s \in Series, Clear(s)
      PROVE  MemoryInv'
  BY <1>1, <1>4, ClearForgets
<1>5. ASSUME NEW s \in Series, Toggle(s)
      PROVE  MemoryInv'
  BY <1>1, <1>2, <1>5, QuietMemory DEF Toggle, Switch
<1>6. ASSUME NEW i \in DOMAIN intervals, ResetBounds(i)
      PROVE  MemoryInv'
  BY <1>1, <1>2, <1>6, QuietMemory DEF ResetBounds
<1>7. ASSUME NEW c \in Charts, NEW s \in Series,
             \/ addTimeSeries(c, s)
             \/ removeTimeSeries(c, s)
             \/ bringToFront(c, s)
      PROVE  MemoryInv'
  BY <1>1, <1>2, <1>7, QuietMemory
  DEF addTimeSeries, removeTimeSeries, bringToFront
<1>8. ASSUME NEW c \in Charts,
             \/ start(c) \/ stop(c) \/ MouseOut(c)
             \/ \E x \in MouseXs[c] : MouseMove(c, x)
      PROVE  MemoryInv'
  BY <1>1, <1>2, <1>8, QuietMemory DEF start, stop, MouseOut, MouseMove
<1>9. ASSUME NEW c \in Charts, Frame(c)
      PROVE  MemoryInv'
  <2>1. PICK f \in frames[c] :
          PaintFrame(c, f) \/ FrameThrows(c, f) \/ SkipFrame(c, f)
    BY <1>9 DEF Frame
  <2>2. Render(c) \/ UNCHANGED <<now, data, samples, drawnBy>>
    BY <2>1 DEF PaintFrame, FrameThrows, SkipFrame
  <2> QED
    BY <1>1, <1>2, <2>2, QuietMemory, RenderRemembers
<1>10. ASSUME Tick
       PROVE  MemoryInv'
  <2>1. /\ now' \in StartTime .. MaxTime /\ now <= now'
        /\ UNCHANGED <<data, samples, drawnBy>>
    BY <1>2, <1>10, SmoothieChartAssumption DEF Tick
  <2> QED
    BY <1>1, <2>1, QuietMemory
<1>11. ASSUME UNCHANGED vars
       PROVE  MemoryInv'
  BY <1>1, <1>2, <1>11, QuietMemory DEF vars
<1> QED
  BY <1>3, <1>4, <1>5, <1>6, <1>7, <1>8, <1>9, <1>10, <1>11 DEF Next

\* Nothing a chart needs is dropped: a chart that follows the clock, and shares
\* its series with no chart of a shorter memory, finds every sample it can
\* show, and the one before them, whatever comes late (dropOldData, render).
THEOREM NeededIsKept == Spec => []NothingNeededDropped
<1>1. Init => MemoryInv
  <2> SUFFICES ASSUME Init PROVE MemoryInv
    OBVIOUS
  <2>1. \A s \in Series : /\ DOMAIN samples[s] = {}
                          /\ ToSet(data[s]) = {}
    BY EmptyQueue DEF Init, Nothing
  <2>2. HistoryType
    <3>1. now \in StartTime .. MaxTime
      BY SmoothieChartAssumption DEF Init
    <3>2. samples = [s \in Series |-> samples[s]]
      BY DEF Init
    <3>3. drawnBy \in [Series -> SUBSET Charts]
      BY DEF Init
    <3> QED
      BY <2>1, <3>1, <3>2, <3>3 DEF HistoryType
  <2> QED
    BY <2>1, <2>2, DataStart DEF MemoryInv, PointsAreSamples, Remembered
<1>2. MemoryInv /\ [Next]_vars => MemoryInv'
  BY MemoryStep
<1>3. MemoryInv => NothingNeededDropped
  <2> SUFFICES ASSUME MemoryInv, NEW c \in Charts, NEW s \in Series,
                      Undisturbed(c, s), NEW t \in Needed(c, s)
               PROVE  \E i \in DOMAIN data[s] :
                        data[s][i] = [time |-> t, value |-> samples[s][t]]
    BY DEF NothingNeededDropped, Undisturbed
  <2>1. /\ OldestValidTime(c, ChartTime(c)) = LeftEnd(c)
        /\ LeftEnd(c) \in Int /\ DOMAIN samples[s] \subseteq Int
    BY LeftEndInt DEF Undisturbed, ChartTime, LeftEnd, MemoryInv, HistoryType
  <2>2. /\ t \in DOMAIN samples[s]
        /\ \/ t >= LeftEnd(c)
           \/ \A u \in DOMAIN samples[s] : u < LeftEnd(c) => u <= t
    BY <2>1 DEF Needed
  <2>3. ~ Outdated(c, s, t)
    BY <2>1, <2>2 DEF Outdated
  <2>4. PICK p \in ToSet(data[s]) : p.time = t
    BY <2>2, <2>3 DEF MemoryInv, Remembered, Present
  <2>5. PICK i \in DOMAIN data[s] : p = data[s][i]
    BY DEF ToSet
  <2>6. data[s] \in Seq(Point)
    BY DEF MemoryInv, DataInv
  <2>7. p \in Point
    BY <2>5, <2>6
  <2>8. p = [time |-> t, value |-> samples[s][t]]
    BY <2>4, <2>7 DEF MemoryInv, PointsAreSamples, Point
  <2> QED
    BY <2>5, <2>8
<1> QED
  BY <1>1, <1>2, <1>3, PTL DEF Spec

-----------------------------------------------------------------------------
(* The bounds of a series.                                                  *)

Covers(b, points) ==
  \A p \in ToSet(points) : /\ b.max \in Int /\ b.min \in Int
                           /\ b.min <= p.value /\ p.value <= b.max

NumbersOnly(points) == \A p \in ToSet(points) : p.value \in Int

BoundsInv ==
  /\ DataInv
  /\ intervals \in Seq(Series \cup {Cleared})
  /\ bounds \in [Series -> Bounds]
  /\ \A s \in Series : NumbersOnly(data[s]) /\ Covers(bounds[s], data[s])

LEMMA StoredNumber ==
  ASSUME NEW d \in Seq(Point), NumbersOnly(d), NEW t \in Int, NEW v \in Int,
         NEW sum
  PROVE  Stored(d, t, v, sum) \in Int
<1>1. CASE sum /\ Repeats(d, t)
  <2> DEFINE i == Rewind(d, t)
  <2>1. i \in 0 .. Len(d) /\ i > 0 /\ Len(d) \in Nat
    BY <1>1, RewindStops DEF Repeats
  <2>2. i \in 1 .. Len(d) /\ DOMAIN d = 1 .. Len(d)
    BY <2>1
  <2> HIDE DEF i
  <2>3. d[i] \in ToSet(d)
    BY <2>2, Zenon DEF ToSet
  <2>4. d[i].value \in Int
    BY <2>3 DEF NumbersOnly
  <2>5. Plus(d[i].value, v) \in Int
    BY <2>4, NaNAssumption DEF Plus, isNaN
  <2>6. Stored(d, t, v, sum) = Plus(d[i].value, v)
    BY <1>1 DEF Stored, i
  <2> QED
    BY <2>5, <2>6
<1>2. CASE ~ (sum /\ Repeats(d, t))
  BY <1>2 DEF Stored
<1> QED
  BY <1>1, <1>2

\* Widened bounds cover the new value, and what they covered before.
LEMMA WidenedBounds ==
  ASSUME NEW b \in Bounds, NEW x \in Int
  PROVE  LET new == Widen(b, x) IN
         /\ new \in Bounds /\ new.max \in Int /\ new.min \in Int
         /\ new.min <= x /\ x <= new.max
         /\ b.max \in Int => b.max <= new.max
         /\ b.min \in Int => new.min <= b.min
<1> DEFINE high == IF isNaN(b.max) THEN x ELSE Higher(b.max, x)
           low  == IF isNaN(b.min) THEN x ELSE Lower(b.min, x)
<1>1. b.max \in Value /\ b.min \in Value
  BY DEF Bounds
<1>2. high \in Int /\ x <= high /\ (b.max \in Int => b.max <= high)
  BY <1>1, NaNAssumption DEF isNaN, Higher, Value
<1>3. low \in Int /\ low <= x /\ (b.min \in Int => low <= b.min)
  BY <1>1, NaNAssumption DEF isNaN, Lower, Value
<1>4. Widen(b, x) = [max |-> high, min |-> low]
  BY DEF Widen
<1> HIDE DEF high, low
<1>5. Widen(b, x) \in Bounds
  BY <1>2, <1>3, <1>4 DEF Bounds, Value
<1> QED
  BY <1>2, <1>3, <1>4, <1>5

\* Recomputed bounds cover the points, if there were bounds that did.
LEMMA ResetCovers ==
  ASSUME NEW d \in Seq(Point), NumbersOnly(d), NEW b \in Bounds, Covers(b, d)
  PROVE  resetBounds(d) \in Bounds /\ Covers(resetBounds(d), d)
<1>0. Len(d) \in Nat /\ DOMAIN d = 1 .. Len(d)
  OBVIOUS
<1>1. Numbers(d) = {p.value : p \in ToSet(d)}
  <2>1. \A i \in DOMAIN d : d[i] \in ToSet(d)
    BY Zenon DEF ToSet
  <2>2. \A i \in DOMAIN d : d[i].value # NaN
    BY <2>1, NaNAssumption DEF NumbersOnly
  <2>3. Numbers(d) = {d[i].value : i \in DOMAIN d}
    BY <2>2 DEF Numbers
  <2>4. ToSet(d) = {d[i] : i \in DOMAIN d}
    BY DEF ToSet
  <2> QED
    BY <2>3, <2>4
<1>2. CASE d = <<>>
  <2>1. resetBounds(d) = NoBounds
    BY <1>2 DEF resetBounds
  <2>2. NoBounds \in Bounds
    BY DEF NoBounds, Bounds, Value
  <2>3. ToSet(d) = {}
    BY <1>2, EmptyQueue
  <2> QED
    BY <2>1, <2>2, <2>3 DEF Covers
<1>3. CASE d # <<>>
  <2>1. 1 \in DOMAIN d /\ d[1] \in ToSet(d)
    <3>1. 1 \in DOMAIN d
      BY <1>0, <1>3
    <3> QED
      BY <3>1, Zenon DEF ToSet
  <2>2. d[1].value \in Int /\ b.max \in Int /\ b.min \in Int
    BY <2>1 DEF Covers, NumbersOnly
  <2>3. Numbers(d) \subseteq b.min .. b.max
    BY <1>1, <2>2 DEF Covers, NumbersOnly
  <2>4. Numbers(d) # {}
    BY <1>1, <2>1
  <2>5. /\ \E m \in Numbers(d) : \A n \in Numbers(d) : n <= m
        /\ \E m \in Numbers(d) : \A n \in Numbers(d) : n >= m
    BY <2>2, <2>3, <2>4, Extremes
  <2>6. Greatest(d) \in Numbers(d) /\ \A n \in Numbers(d) : n <= Greatest(d)
    BY <2>5 DEF Greatest
  <2>7. Least(d) \in Numbers(d) /\ \A n \in Numbers(d) : n >= Least(d)
    BY <2>5 DEF Least
  <2>8. resetBounds(d) = [max |-> Greatest(d), min |-> Least(d)]
    BY <1>3, <2>2, NaNAssumption DEF resetBounds, isNaN
  <2>9. Greatest(d) \in Int /\ Least(d) \in Int /\ Numbers(d) \subseteq Int
    BY <2>2, <2>3, <2>6, <2>7
  <2>10. resetBounds(d) \in Bounds
    BY <2>8, <2>9 DEF Bounds, Value
  <2>11. ASSUME NEW p \in ToSet(d)
         PROVE  Least(d) <= p.value /\ p.value <= Greatest(d)
    <3>1. p.value \in Numbers(d)
      BY <1>1
    <3> QED
      BY <2>6, <2>7, <2>9, <3>1
  <2> QED
    BY <2>8, <2>9, <2>10, <2>11 DEF Covers
<1> QED
  BY <1>2, <1>3

LEMMA AppendPointKeepsBounds ==
  ASSUME BoundsInv, DataInv', NEW s \in Series,
         NEW t \in now - MaxLateness .. now, NEW v \in Readings,
         NEW sum \in BOOLEAN, AppendPoint(s, t, v, sum)
  PROVE  BoundsInv'
<1> DEFINE x   == Stored(data[s], t, v, sum)
           new == [time |-> t, value |-> x]
           wid == Widen(bounds[s], x)
<1>1. t \in Int /\ v \in Int /\ v \in Value
  BY SmoothieChartAssumption DEF BoundsInv, DataInv, Value
<1>2. /\ data[s] \in Seq(Point) /\ Chronological(data[s])
      /\ NumbersOnly(data[s]) /\ bounds[s] \in Bounds
      /\ Covers(bounds[s], data[s])
  BY DEF BoundsInv, DataInv, SeriesInOrder
<1>3. x \in Int
  BY <1>1, <1>2, StoredNumber
<1>4. ToSet(append(data[s], t, v, sum)) =
        {p \in ToSet(data[s]) : p.time # t} \cup {new}
  BY <1>1, <1>2, AppendedPoints
<1>5. new.value = x
  OBVIOUS
<1>6. /\ data' = [data EXCEPT ![s] = append(data[s], t, v, sum)]
      /\ bounds' = [bounds EXCEPT ![s] = wid]
      /\ UNCHANGED intervals
  BY DEF AppendPoint, ValueForBounds, timerVars
<1> HIDE DEF x, new, wid
<1>7. /\ wid \in Bounds /\ wid.max \in Int /\ wid.min \in Int
      /\ wid.min <= x /\ x <= wid.max
      /\ bounds[s].max \in Int => bounds[s].max <= wid.max
      /\ bounds[s].min \in Int => wid.min <= bounds[s].min
  BY <1>2, <1>3, WidenedBounds DEF wid
<1>8. /\ ToSet(data'[s]) = {p \in ToSet(data[s]) : p.time # t} \cup {new}
      /\ bounds'[s] = wid
      /\ \A r \in Series \ {s} : data'[r] = data[r] /\ bounds'[r] = bounds[r]
  BY <1>4, <1>6 DEF BoundsInv, DataInv
<1>9. ASSUME NEW p \in ToSet(data'[s])
      PROVE  /\ p.value \in Int
             /\ wid.min <= p.value /\ p.value <= wid.max
  <2>1. CASE p = new
    BY <1>3, <1>5, <1>7, <2>1
  <2>2. CASE p \in ToSet(data[s])
    <3>1. /\ p.value \in Int /\ bounds[s].max \in Int /\ bounds[s].min \in Int
          /\ bounds[s].min <= p.value /\ p.value <= bounds[s].max
      BY <1>2, <2>2 DEF Covers, NumbersOnly
    <3> QED
      BY <1>7, <3>1
  <2> QED
    BY <1>8, <2>1, <2>2
<1>10. NumbersOnly(data'[s]) /\ Covers(bounds'[s], data'[s])
  BY <1>7, <1>8, <1>9 DEF NumbersOnly, Covers
<1>11. \A r \in Series : NumbersOnly(data'[r]) /\ Covers(bounds'[r], data'[r])
  BY <1>8, <1>10 DEF BoundsInv
<1>12. bounds' \in [Series -> Bounds]
  BY <1>6, <1>7 DEF BoundsInv
<1> QED
  BY <1>6, <1>11, <1>12 DEF BoundsInv, NumbersOnly, Covers

LEMMA ClearKeepsBounds ==
  ASSUME BoundsInv, DataInv', NEW s \in Series, Clear(s)
  PROVE  BoundsInv'
<1>1. /\ data' = [data EXCEPT ![s] = <<>>]
      /\ bounds' = [bounds EXCEPT ![s] = NoBounds]
      /\ UNCHANGED intervals
  BY DEF Clear, Switch, timerVars
<1>2. NoBounds \in Bounds
  BY DEF NoBounds, Bounds, Value
<1>3. /\ ToSet(data'[s]) = {}
      /\ \A r \in Series \ {s} : data'[r] = data[r] /\ bounds'[r] = bounds[r]
  BY <1>1, EmptyQueue DEF BoundsInv, DataInv
<1>4. \A r \in Series : NumbersOnly(data'[r]) /\ Covers(bounds'[r], data'[r])
  BY <1>3 DEF BoundsInv, NumbersOnly, Covers
<1>5. bounds' \in [Series -> Bounds]
  BY <1>1, <1>2 DEF BoundsInv
<1> QED
  BY <1>1, <1>4, <1>5 DEF BoundsInv, NumbersOnly, Covers

LEMMA ResetKeepsBounds ==
  ASSUME BoundsInv, DataInv', NEW i \in DOMAIN intervals, ResetBounds(i)
  PROVE  BoundsInv'
<1> DEFINE s == intervals[i]
           new == resetBounds(data[s])
<1>1. /\ bounds' = [bounds EXCEPT ![s] = new]
      /\ UNCHANGED <<intervals, data>>
      /\ s # Cleared
  BY DEF ResetBounds, timerVars
<1>2. s \in Series
  BY <1>1 DEF BoundsInv
<1> HIDE DEF s, new
<1>3. /\ data[s] \in Seq(Point) /\ NumbersOnly(data[s])
      /\ bounds[s] \in Bounds /\ Covers(bounds[s], data[s])
  BY <1>2 DEF BoundsInv, DataInv
<1>4. new \in Bounds /\ Covers(new, data[s])
  BY <1>3, ResetCovers DEF new
<1>5. bounds' \in [Series -> Bounds]
  BY <1>1, <1>4 DEF BoundsInv
<1>6. \A r \in Series : bounds'[r] = IF r = s THEN new ELSE bounds[r]
  BY <1>1, <1>2 DEF BoundsInv
<1>7. \A r \in Series : NumbersOnly(data'[r]) /\ Covers(bounds'[r], data'[r])
  BY <1>1, <1>4, <1>6 DEF BoundsInv
<1> QED
  BY <1>1, <1>5, <1>7 DEF BoundsInv, NumbersOnly, Covers

\* A frame drops points, and touches no bounds.
LEMMA RenderKeepsPoints ==
  ASSUME DataInv, NEW c \in Charts, Render(c), NEW s \in Series
  PROVE  ToSet(data'[s]) \subseteq ToSet(data[s])
<1> DEFINE oldest == OldestValidTime(c, ChartTime(c))
           max    == Options[c].maxDataSetLength
<1>1. data'[s] = IF s \in Drawn(c, oldest)
                 THEN dropOldData(data[s], oldest, max) ELSE data[s]
  BY DEF Render, DropOldData
<1>2. data[s] \in Seq(Point) /\ Chronological(data[s])
  BY DEF DataInv, SeriesInOrder
<1> HIDE DEF oldest, max
<1>3. ToSet(dropOldData(data[s], oldest, max)) \subseteq ToSet(data[s])
  BY <1>2, DroppedAreOutdated
<1> QED
  BY <1>1, <1>3

LEMMA RenderKeepsBounds ==
  ASSUME BoundsInv, DataInv', NEW c \in Charts, Render(c)
  PROVE  BoundsInv'
<1>1. UNCHANGED <<bounds, intervals>>
  BY DEF Render, timerVars
<1>2. \A s \in Series : ToSet(data'[s]) \subseteq ToSet(data[s])
  BY RenderKeepsPoints DEF BoundsInv
<1> QED
  BY <1>1, <1>2 DEF BoundsInv, NumbersOnly, Covers

\* addTimeSeries, removeTimeSeries and bringToFront set and clear intervals.
LEMMA IntervalsKept ==
  ASSUME intervals \in Seq(Series \cup {Cleared}),
         NEW c \in Charts, NEW s \in Series,
         \/ addTimeSeries(c, s)
         \/ removeTimeSeries(c, s)
         \/ bringToFront(c, s)
  PROVE  intervals' \in Seq(Series \cup {Cleared})
<1>1. CASE addTimeSeries(c, s)
  BY <1>1, AppendProperties DEF addTimeSeries
<1>2. CASE removeTimeSeries(c, s)
  <2> DEFINE id == resetBoundsTimerId[s]
  <2>1. intervals' = [intervals EXCEPT ![id] = Cleared]
    BY <1>2 DEF removeTimeSeries
  <2> HIDE DEF id
  <2>2. CASE id \in 1 .. Len(intervals)
    BY <2>1, <2>2, ExceptSeq
  <2>3. CASE id \notin 1 .. Len(intervals)
    <3>1. DOMAIN intervals = 1 .. Len(intervals)
      OBVIOUS
    <3>2. intervals = [i \in DOMAIN intervals |-> intervals[i]]
      OBVIOUS
    <3>3. intervals' = intervals
      BY <2>1, <2>3, <3>1, <3>2
    <3> QED
      BY <3>3
  <2> QED
    BY <2>2, <2>3
<1>3. CASE bringToFront(c, s)
  BY <1>3 DEF bringToFront, timerVars
<1> QED
  BY <1>1, <1>2, <1>3

\* The steps that touch neither points nor bounds.
LEMMA QuietBounds ==
  ASSUME BoundsInv, DataInv', UNCHANGED <<data, bounds>>,
         intervals' \in Seq(Series \cup {Cleared})
  PROVE  BoundsInv'
BY DEF BoundsInv, NumbersOnly, Covers

LEMMA BoundsStep ==
  ASSUME BoundsInv, [Next]_vars
  PROVE  BoundsInv'
<1>1. DataInv' /\ (UNCHANGED intervals => intervals' \in Seq(Series \cup {Cleared}))
  BY DataStep DEF BoundsInv
<1>2. ASSUME NEW s \in Series, NEW t \in now - MaxLateness .. now,
             NEW v \in Readings, NEW sum \in BOOLEAN, AppendPoint(s, t, v, sum)
      PROVE  BoundsInv'
  BY <1>1, <1>2, AppendPointKeepsBounds
<1>3. ASSUME NEW s \in Series, Clear(s)
      PROVE  BoundsInv'
  BY <1>1, <1>3, ClearKeepsBounds
<1>4. ASSUME NEW s \in Series, Toggle(s)
      PROVE  BoundsInv'
  BY <1>1, <1>4, QuietBounds DEF Toggle, Switch, timerVars
<1>5. ASSUME NEW i \in DOMAIN intervals, ResetBounds(i)
      PROVE  BoundsInv'
  BY <1>1, <1>5, ResetKeepsBounds
<1>6. ASSUME NEW c \in Charts, NEW s \in Series,
             \/ addTimeSeries(c, s)
             \/ removeTimeSeries(c, s)
             \/ bringToFront(c, s)
      PROVE  BoundsInv'
  <2>1. intervals' \in Seq(Series \cup {Cleared})
    BY <1>6, IntervalsKept DEF BoundsInv
  <2>2. UNCHANGED <<data, bounds>>
    BY <1>6 DEF addTimeSeries, removeTimeSeries, bringToFront
  <2> QED
    BY <1>1, <2>1, <2>2, QuietBounds
<1>7. ASSUME NEW c \in Charts,
             \/ start(c) \/ stop(c) \/ MouseOut(c)
             \/ \E x \in MouseXs[c] : MouseMove(c, x)
      PROVE  BoundsInv'
  BY <1>1, <1>7, QuietBounds DEF start, stop, MouseOut, MouseMove, timerVars
<1>8. ASSUME NEW c \in Charts, Frame(c)
      PROVE  BoundsInv'
  <2>1. PICK f \in frames[c] :
          PaintFrame(c, f) \/ FrameThrows(c, f) \/ SkipFrame(c, f)
    BY <1>8 DEF Frame
  <2>2. Render(c) \/ UNCHANGED <<data, bounds, intervals>>
    BY <2>1 DEF PaintFrame, FrameThrows, SkipFrame, timerVars
  <2> QED
    BY <1>1, <2>2, QuietBounds, RenderKeepsBounds
<1>9. ASSUME Tick \/ UNCHANGED vars
      PROVE  BoundsInv'
  BY <1>1, <1>9, QuietBounds DEF Tick, vars, timerVars
<1> QED
  BY <1>2, <1>3, <1>4, <1>5, <1>6, <1>7, <1>8, <1>9 DEF Next

LEMMA BoundsStart ==
  ASSUME Init
  PROVE  BoundsInv
<1>1. \A s \in Series : ToSet(data[s]) = {}
  BY EmptyQueue DEF Init
<1>2. bounds \in [Series -> Bounds] /\ intervals \in Seq(Series \cup {Cleared})
  BY DEF Init, NoBounds, Bounds, Value
<1> QED
  BY <1>1, <1>2, DataStart DEF BoundsInv, NumbersOnly, Covers

\* The bounds of a series cover its points: append widens them, and resetBounds
\* finds a greatest and a least value, whatever was replaced, summed or dropped.
THEOREM BoundsCover == Spec => []BoundsCoverData
<1>1. Init => BoundsInv
  BY BoundsStart
<1>2. BoundsInv /\ [Next]_vars => BoundsInv'
  BY BoundsStep
<1>3. BoundsInv => BoundsCoverData
  <2> SUFFICES ASSUME BoundsInv, NEW s \in Series, NEW i \in DOMAIN data[s]
               PROVE  /\ ~ isNaN(bounds[s].max) /\ ~ isNaN(bounds[s].min)
                      /\ bounds[s].min <= data[s][i].value
                      /\ data[s][i].value <= bounds[s].max
    BY DEF BoundsCoverData
  <2>1. data[s][i] \in ToSet(data[s])
    BY Zenon DEF ToSet
  <2> QED
    BY <2>1, NaNAssumption DEF BoundsInv, Covers, isNaN
<1> QED
  BY <1>1, <1>2, <1>3, PTL DEF Spec

-----------------------------------------------------------------------------
(* Types.  A chart with nonRealtimeData shows the latest of its series, and *)
(* there is one: no point is later than the clock.                          *)

\* no point of a series is before 0, or later than the clock
TimesKnown == \A s \in Series : \A p \in ToSet(data[s]) : p.time \in 0 .. now

ClockType == now \in StartTime .. MaxTime

PageType ==
  /\ disabled \in [Series -> BOOLEAN]
  /\ resetBoundsTimerId \in [Series -> 0 .. Len(intervals)]
  /\ lastRenderTimeMillis \in [Charts -> Time]
  /\ lastChartTimestamp \in [Charts -> Int]
  /\ isAnimatingScale \in [Charts -> BOOLEAN]
  /\ currentVisMinValue \in [Charts -> Int]
  /\ currentValueRange \in [Charts -> Int]
  /\ mouseX \in [Charts -> Int]

ChartInv == AnimationInv /\ BoundsInv /\ ClockType /\ TimesKnown /\ PageType

\* the index that displayDataFromPercentile computes is that of a point
LEMMA PercentilePoint ==
  ASSUME NEW c \in Charts, NEW s \in Series, data[s] \in Seq(Point),
         data[s] # <<>>
  PROVE  \E p \in ToSet(data[s]) : PercentileTime(c, s) = p.time
<1> DEFINE n == Len(data[s])
           i == (Options[c].percentile * n + 50) \div 100
           j == IF i < 1 THEN 1 ELSE IF i > n THEN n ELSE i
<1>1. n \in Nat /\ n # 0 /\ DOMAIN data[s] = 1 .. n
  OBVIOUS
<1>2. i \in Int
  <2>1. Options[c].percentile \in Int
    <3>1. Options[c].percentile \in 0 .. 100
      BY SmoothieChartAssumption
    <3>2. 0 .. 100 \subseteq Int
      OBVIOUS
    <3> QED
      BY <3>1, <3>2
  <2>2. Options[c].percentile * n + 50 \in Int
    BY <1>1, <2>1
  <2> QED
    BY <2>2, Division
<1>3. PercentileTime(c, s) = data[s][j].time
  BY DEF PercentileTime
<1> HIDE DEF n, i
<1>4. j \in 1 .. n
  BY <1>1, <1>2
<1> HIDE DEF j
<1>5. data[s][j] \in ToSet(data[s])
  BY <1>1, <1>4, Zenon DEF ToSet
<1> QED
  BY <1>3, <1>5

LEMMA ChartTimeType ==
  ASSUME DataInv, ClockType, TimesKnown, NEW c \in Charts
  PROVE  ChartTime(c) \in Int /\ RoundedDown(ChartTime(c), c) \in Int
<1> DEFINE latest == {PercentileTime(c, s) :
                        s \in {r \in Series : In(r, c) /\ data[r] # <<>>}}
<1>1. now \in Nat /\ Options[c].delay \in Int
  BY SmoothieChartAssumption DEF ClockType
<1>2. latest \subseteq 0 .. now
  <2>1. ASSUME NEW s \in Series, data[s] # <<>>
        PROVE  PercentileTime(c, s) \in 0 .. now
    <3>1. data[s] \in Seq(Point)
      BY DEF DataInv
    <3>2. PICK p \in ToSet(data[s]) : PercentileTime(c, s) = p.time
      BY <2>1, <3>1, PercentilePoint
    <3> QED
      BY <3>2 DEF TimesKnown
  <2> QED
    BY <2>1
<1>3. latest # {} => (CHOOSE t \in latest : \A u \in latest : u <= t) \in latest
  <2> HIDE DEF latest
  <2> SUFFICES ASSUME latest # {}
               PROVE  (CHOOSE t \in latest : \A u \in latest : u <= t) \in latest
    OBVIOUS
  <2>1. \E t \in latest : \A u \in latest : u <= t
    BY <1>1, <1>2, BoundedMaximum
  <2> QED
    BY <2>1
<1>4. ChartTime(c) = IF Options[c].nonRealtimeData /\ latest # {}
                     THEN CHOOSE t \in latest : \A u \in latest : u <= t
                     ELSE now - Options[c].delay
  BY DEF ChartTime
<1> HIDE DEF latest
<1>5. ChartTime(c) \in Int
  <2>1. CASE Options[c].nonRealtimeData /\ latest # {}
    <3>1. ChartTime(c) \in latest
      BY <1>3, <1>4, <2>1
    <3>2. 0 .. now \subseteq Int
      OBVIOUS
    <3> QED
      BY <1>2, <3>1, <3>2
  <2>2. CASE ~ (Options[c].nonRealtimeData /\ latest # {})
    <3>1. ChartTime(c) = now - Options[c].delay
      BY <1>4, <2>2
    <3> QED
      BY <1>1, <3>1
  <2> QED
    BY <2>1, <2>2
<1>6. Options[c].millisPerPixel \in Nat \ {0}
  BY SmoothieChartAssumption
<1>7. ChartTime(c) % Options[c].millisPerPixel \in Int
  BY <1>5, <1>6, Division
<1> QED
  BY <1>5, <1>7 DEF RoundedDown

LEMMA AppendPointKeepsTimes ==
  ASSUME DataInv, ClockType, TimesKnown, NEW s \in Series,
         NEW t \in now - MaxLateness .. now, NEW v \in Readings,
         NEW sum \in BOOLEAN, AppendPoint(s, t, v, sum)
  PROVE  TimesKnown'
<1>1. /\ now \in Int /\ MaxLateness \in Int /\ MaxLateness <= StartTime
      /\ StartTime \in Int /\ StartTime <= now /\ v \in Value
  BY SmoothieChartAssumption DEF ClockType, Value
<1>2. t \in 0 .. now /\ t \in Int
  BY <1>1
<1>3. data[s] \in Seq(Point) /\ Chronological(data[s])
  BY DEF DataInv, SeriesInOrder
<1>4. ToSet(append(data[s], t, v, sum)) =
        {p \in ToSet(data[s]) : p.time # t}
          \cup {[time |-> t, value |-> Stored(data[s], t, v, sum)]}
  BY <1>1, <1>2, <1>3, AppendedPoints
<1>5. /\ data' = [data EXCEPT ![s] = append(data[s], t, v, sum)]
      /\ now' = now
  BY DEF AppendPoint
<1>6. /\ ToSet(data'[s]) =
           {p \in ToSet(data[s]) : p.time # t}
             \cup {[time |-> t, value |-> Stored(data[s], t, v, sum)]}
      /\ \A r \in Series \ {s} : data'[r] = data[r]
  BY <1>4, <1>5 DEF DataInv
<1> QED
  BY <1>2, <1>5, <1>6 DEF TimesKnown

\* A chart has finitely many series, so a number that each of them has is
\* greatest for one and least for another.
LEMMA SeriesExtremes ==
  ASSUME AnimationType, NEW c \in Charts, NEW f,
         \A s \in Series : f[s] \in Value
  PROVE  LET S == {f[s] : s \in Ranging(c)} \ {NaN} IN
         /\ S \subseteq Int
         /\ S # {} => /\ \E m \in S : \A n \in S : n <= m
                      /\ \E m \in S : \A n \in S : n >= m
<1> DEFINE S == {f[s] : s \in Ranging(c)} \ {NaN}
           N == Len(seriesSet[c])
           g == [i \in 1 .. N |-> IF f[seriesSet[c][i]] = NaN
                                  THEN 0 ELSE f[seriesSet[c][i]]]
<1>1. /\ N \in Nat /\ DOMAIN seriesSet[c] = 1 .. N
      /\ \A i \in 1 .. N : seriesSet[c][i] \in Series
  BY DEF AnimationType
<1>2. S \subseteq Int
  BY DEF Ranging, Value
<1>3. \A i \in 1 .. N : g[i] \in Int
  BY <1>1 DEF Value
<1>4. \A n \in S : \E i \in 1 .. N : n = g[i]
  <2>1. ASSUME NEW s \in Ranging(c), f[s] # NaN
        PROVE  \E i \in 1 .. N : f[s] = g[i]
    <3>1. PICK i \in 1 .. N : seriesSet[c][i] = s
      BY <1>1 DEF Ranging, In
    <3> QED
      BY <2>1, <3>1
  <2>2. ASSUME NEW n \in S
        PROVE  \E s \in Ranging(c) : n = f[s] /\ f[s] # NaN
    OBVIOUS
  <2> HIDE DEF g, N
  <2> QED
    BY <2>1, <2>2
<1> HIDE DEF g, N
<1>5. PICK a \in Int, b \in Int : \A i \in 1 .. N : a <= g[i] /\ g[i] <= b
  BY <1>1, <1>3, ListBounds
<1>6. S \subseteq a .. b
  <2>1. SUFFICES ASSUME NEW n \in S PROVE n \in a .. b
    OBVIOUS
  <2>2. PICK i \in 1 .. N : n = g[i]
    BY <1>4
  <2>3. n \in Int /\ a \in Int /\ b \in Int /\ a <= n /\ n <= b
    BY <1>2, <1>5, <2>2
  <2> QED
    BY <2>3
<1>7. a \in Int /\ b \in Int
  BY <1>5
<1> HIDE DEF S
<1>8. S # {} => /\ \E m \in S : \A n \in S : n <= m
                /\ \E m \in S : \A n \in S : n >= m
  BY <1>6, <1>7, Extremes
<1> QED
  BY <1>2, <1>8 DEF S

\* The ends of the range are numbers, or NaN.
LEMMA RangeType ==
  ASSUME AnimationType, bounds \in [Series -> Bounds], NEW c \in Charts
  PROVE  ValueRange(c).max \in Value /\ ValueRange(c).min \in Value
<1> DEFINE maxima == [r \in Series |-> bounds[r].max]
           minima == [r \in Series |-> bounds[r].min]
           highs  == {bounds[r].max : r \in Ranging(c)} \ {NaN}
           lows   == {bounds[r].min : r \in Ranging(c)} \ {NaN}
<1>1. /\ highs = {maxima[r] : r \in Ranging(c)} \ {NaN}
      /\ lows  = {minima[r] : r \in Ranging(c)} \ {NaN}
  BY DEF Ranging
<1>2. /\ \A r \in Series : maxima[r] \in Value
      /\ \A r \in Series : minima[r] \in Value
  BY DEF Bounds
<1>3. Options[c].maxValue \in Value /\ Options[c].minValue \in Value
  BY SmoothieChartAssumption
<1>4. /\ ValueRange(c).max = IF ~ isNaN(Options[c].maxValue)
                             THEN Options[c].maxValue
                             ELSE IF highs = {} THEN NaN
                             ELSE CHOOSE m \in highs : \A n \in highs : n <= m
      /\ ValueRange(c).min = IF ~ isNaN(Options[c].minValue)
                             THEN Options[c].minValue
                             ELSE IF lows = {} THEN NaN
                             ELSE CHOOSE m \in lows : \A n \in lows : n >= m
  BY DEF ValueRange
<1> HIDE DEF maxima, minima, highs, lows
<1>5. /\ highs \subseteq Int
      /\ highs # {} => \E m \in highs : \A n \in highs : n <= m
  <2> DEFINE S == {maxima[r] : r \in Ranging(c)} \ {NaN}
  <2>1. /\ S \subseteq Int
        /\ S # {} => \E m \in S : \A n \in S : n <= m
    BY <1>2, SeriesExtremes
  <2>2. S = highs
    BY <1>1
  <2> HIDE DEF S
  <2> QED
    BY <2>1, <2>2
<1>6. /\ lows \subseteq Int
      /\ lows # {} => \E m \in lows : \A n \in lows : n >= m
  <2> DEFINE S == {minima[r] : r \in Ranging(c)} \ {NaN}
  <2>1. /\ S \subseteq Int
        /\ S # {} => \E m \in S : \A n \in S : n >= m
    BY <1>2, SeriesExtremes
  <2>2. S = lows
    BY <1>1
  <2> HIDE DEF S
  <2> QED
    BY <2>1, <2>2
<1>7. highs # {} => (CHOOSE m \in highs : \A n \in highs : n <= m) \in Int
  BY <1>5
<1>8. lows # {} => (CHOOSE m \in lows : \A n \in lows : n >= m) \in Int
  BY <1>6
<1>9. NaN \in Value /\ Int \subseteq Value
  BY DEF Value
<1> QED
  BY <1>3, <1>4, <1>7, <1>8, <1>9

\* A value that moves towards another does not pass it.
LEMMA CloserBetween ==
  ASSUME NEW from \in Int, NEW to \in Int, NEW percent \in 0 .. 100,
         NEW v \in Closer(from, to, percent)
  PROVE  /\ v \in Int
         /\ \/ from <= v /\ v <= to
            \/ to <= v /\ v <= from
BY DEF Closer

\* the axis of one chart moves towards a range, or stays
LEMMA AxisMoves ==
  ASSUME AnimationType, bounds \in [Series -> Bounds], PageType,
         NEW c \in Charts, UpdateValueRange(c)
  PROVE  LET target == ValueRange(c)
             length == target.max - target.min IN
         \/ /\ isNaN(target.max) \/ isNaN(target.min)
            /\ UNCHANGED axisVars
         \/ /\ target.max \in Int /\ target.min \in Int
            /\ isAnimatingScale' = [isAnimatingScale EXCEPT ![c] =
                 ~ (/\ length - currentValueRange[c] \in -Tenth .. Tenth
                    /\ target.min - currentVisMinValue[c] \in -Tenth .. Tenth)]
            /\ \E v \in Closer(currentValueRange[c], length,
                               Options[c].scaleSmoothing) :
                 /\ v \in Int
                 /\ currentValueRange' = [currentValueRange EXCEPT ![c] = v]
            /\ \E v \in Closer(currentVisMinValue[c], target.min,
                               Options[c].scaleSmoothing) :
                 /\ v \in Int
                 /\ currentVisMinValue' = [currentVisMinValue EXCEPT ![c] = v]
<1> DEFINE target == ValueRange(c)
           length == target.max - target.min
<1>1. target.max \in Value /\ target.min \in Value
  BY RangeType
<1>2. CASE isNaN(target.max) \/ isNaN(target.min)
  BY <1>2 DEF UpdateValueRange
<1>3. CASE ~ (isNaN(target.max) \/ isNaN(target.min))
  <2>1. target.max \in Int /\ target.min \in Int
    BY <1>1, <1>3 DEF Value, isNaN
  <2>2. /\ length \in Int /\ currentValueRange[c] \in Int
        /\ currentVisMinValue[c] \in Int
        /\ Options[c].scaleSmoothing \in 0 .. 100
    BY <2>1, SmoothieChartAssumption DEF PageType
  <2>3. /\ isAnimatingScale' = [isAnimatingScale EXCEPT ![c] =
             ~ (/\ length - currentValueRange[c] \in -Tenth .. Tenth
                /\ target.min - currentVisMinValue[c] \in -Tenth .. Tenth)]
        /\ \E v \in Closer(currentValueRange[c], length,
                           Options[c].scaleSmoothing) :
             currentValueRange' = [currentValueRange EXCEPT ![c] = v]
        /\ \E v \in Closer(currentVisMinValue[c], target.min,
                           Options[c].scaleSmoothing) :
             currentVisMinValue' = [currentVisMinValue EXCEPT ![c] = v]
    BY <1>3, Zenon DEF UpdateValueRange
  <2> HIDE DEF target, length
  <2>4. /\ \A v \in Closer(currentValueRange[c], length,
                           Options[c].scaleSmoothing) : v \in Int
        /\ \A v \in Closer(currentVisMinValue[c], target.min,
                           Options[c].scaleSmoothing) : v \in Int
    BY <2>1, <2>2, CloserBetween
  <2> QED
    BY <2>1, <2>3, <2>4, Zenon DEF length, target
<1> QED
  BY <1>2, <1>3

\* What a frame writes of a chart, whether it gets to its end or not.
LEMMA RenderType ==
  ASSUME ChartInv, NEW c \in Charts, Render(c)
  PROVE  ClockType' /\ TimesKnown' /\ PageType'
<1>1. /\ lastRenderTimeMillis' = [lastRenderTimeMillis EXCEPT ![c] = now]
      /\ lastChartTimestamp' = [lastChartTimestamp EXCEPT
                                  ![c] = RoundedDown(ChartTime(c), c)]
      /\ UNCHANGED <<now, disabled, resetBoundsTimerId, intervals, mouseX>>
  BY DEF Render, timerVars
<1>2. now \in Time
  BY SmoothieChartAssumption DEF ChartInv, ClockType, Time
<1>3. RoundedDown(ChartTime(c), c) \in Int
  BY ChartTimeType DEF ChartInv, BoundsInv
<1>4. /\ isAnimatingScale' \in [Charts -> BOOLEAN]
      /\ currentVisMinValue' \in [Charts -> Int]
      /\ currentValueRange' \in [Charts -> Int]
  <2>1. \/ UNCHANGED axisVars
        \/ /\ \E b \in BOOLEAN :
                isAnimatingScale' = [isAnimatingScale EXCEPT ![c] = b]
           /\ \E v \in Int :
                currentValueRange' = [currentValueRange EXCEPT ![c] = v]
           /\ \E v \in Int :
                currentVisMinValue' = [currentVisMinValue EXCEPT ![c] = v]
    <3>1. UpdateValueRange(c)
      BY DEF Render
    <3>2. AnimationType /\ bounds \in [Series -> Bounds] /\ PageType
      BY DEF ChartInv, AnimationInv, BoundsInv
    <3> QED
      BY <3>1, <3>2, AxisMoves
  <2>2. /\ isAnimatingScale \in [Charts -> BOOLEAN]
        /\ currentVisMinValue \in [Charts -> Int]
        /\ currentValueRange \in [Charts -> Int]
    BY DEF ChartInv, PageType
  <2>3. isAnimatingScale' \in [Charts -> BOOLEAN]
    BY <2>1, <2>2 DEF axisVars
  <2>4. currentVisMinValue' \in [Charts -> Int]
    BY <2>1, <2>2 DEF axisVars
  <2>5. currentValueRange' \in [Charts -> Int]
    BY <2>1, <2>2 DEF axisVars
  <2> QED
    BY <2>3, <2>4, <2>5
<1>5. PageType'
  BY <1>1, <1>2, <1>3, <1>4 DEF ChartInv, PageType, Time
<1>6. \A s \in Series : ToSet(data'[s]) \subseteq ToSet(data[s])
  BY RenderKeepsPoints DEF ChartInv, BoundsInv
<1>7. TimesKnown'
  BY <1>1, <1>6 DEF ChartInv, TimesKnown
<1> QED
  BY <1>1, <1>5, <1>7 DEF ChartInv, ClockType

LEMMA ChartStep ==
  ASSUME ChartInv, [Next]_vars
  PROVE  ChartInv'
<1>1. AnimationInv' /\ BoundsInv'
  BY AnimationStep, BoundsStep DEF ChartInv
<1>2. (UNCHANGED now => ClockType') /\ (UNCHANGED <<now, data>> => TimesKnown')
  BY DEF ChartInv, ClockType, TimesKnown
<1>3. UNCHANGED <<disabled, resetBoundsTimerId, intervals,
                  lastRenderTimeMillis, lastChartTimestamp, axisVars,
                  mouseX>> => PageType'
  BY DEF ChartInv, PageType, Time, axisVars
<1> SUFFICES ClockType' /\ TimesKnown' /\ PageType'
  BY <1>1 DEF ChartInv
<1>4. ASSUME NEW s \in Series, NEW t \in now - MaxLateness .. now,
             NEW v \in Readings, NEW sum \in BOOLEAN, AppendPoint(s, t, v, sum)
      PROVE  ClockType' /\ TimesKnown' /\ PageType'
  <2>1. TimesKnown'
    BY <1>4, AppendPointKeepsTimes DEF ChartInv, BoundsInv
  <2> QED
    BY <1>2, <1>3, <1>4, <2>1
    DEF AppendPoint, timerVars, renderVars, axisVars, mouseVars
<1>5. ASSUME NEW s \in Series, Clear(s)
      PROVE  ClockType' /\ TimesKnown' /\ PageType'
  <2>1. /\ ToSet(data'[s]) = {}
        /\ \A r \in Series \ {s} : data'[r] = data[r]
    BY <1>5, EmptyQueue DEF Clear, ChartInv, BoundsInv, DataInv
  <2>2. TimesKnown'
    BY <1>5, <2>1 DEF Clear, Switch, ChartInv, TimesKnown
  <2> QED
    BY <1>2, <1>3, <1>5, <2>2
    DEF Clear, Switch, timerVars, renderVars, axisVars, mouseVars
<1>6. ASSUME NEW s \in Series, Toggle(s)
      PROVE  ClockType' /\ TimesKnown' /\ PageType'
  <2>1. disabled' = [disabled EXCEPT ![s] = ~ @]
    BY <1>6 DEF Toggle
  <2>2. disabled' \in [Series -> BOOLEAN]
    BY <2>1 DEF ChartInv, PageType
  <2>3. PageType'
    BY <1>6, <2>2 DEF Toggle, Switch, timerVars, renderVars, axisVars,
                      mouseVars, ChartInv, PageType, Time
  <2> QED
    BY <1>2, <1>6, <2>3 DEF Toggle, Switch
<1>7. ASSUME NEW i \in DOMAIN intervals, ResetBounds(i)
      PROVE  ClockType' /\ TimesKnown' /\ PageType'
  BY <1>2, <1>3, <1>7
  DEF ResetBounds, timerVars, renderVars, axisVars, mouseVars
<1>8. ASSUME NEW c \in Charts, NEW s \in Series, addTimeSeries(c, s)
      PROVE  ClockType' /\ TimesKnown' /\ PageType'
  <2>1. /\ intervals' = Append(intervals, s)
        /\ resetBoundsTimerId' = [resetBoundsTimerId EXCEPT ![s] = Len(intervals')]
    BY <1>8 DEF addTimeSeries
  <2>2. Len(intervals) \in Nat /\ Len(intervals') = Len(intervals) + 1
    BY <2>1, AppendProperties DEF ChartInv, BoundsInv
  <2>3. resetBoundsTimerId' \in [Series -> 0 .. Len(intervals')]
    BY <2>1, <2>2 DEF ChartInv, PageType
  <2>4. PageType'
    BY <1>8, <2>3 DEF addTimeSeries, renderVars, axisVars, mouseVars,
                      ChartInv, PageType, Time
  <2> QED
    BY <1>2, <1>8, <2>4 DEF addTimeSeries
<1>9. ASSUME NEW c \in Charts, NEW s \in Series, removeTimeSeries(c, s)
      PROVE  ClockType' /\ TimesKnown' /\ PageType'
  <2>1. intervals' = [intervals EXCEPT ![resetBoundsTimerId[s]] = Cleared]
    BY <1>9 DEF removeTimeSeries
  <2>2. DOMAIN intervals' = DOMAIN intervals
    BY <2>1
  <2>3. Len(intervals') = Len(intervals)
    BY <1>1, <2>2 DEF ChartInv, BoundsInv
  <2>4. PageType'
    BY <1>9, <2>3 DEF removeTimeSeries, renderVars, axisVars, mouseVars,
                      ChartInv, PageType, Time
  <2> QED
    BY <1>2, <1>9, <2>4 DEF removeTimeSeries
<1>10. ASSUME NEW c \in Charts, NEW s \in Series, bringToFront(c, s)
       PROVE  ClockType' /\ TimesKnown' /\ PageType'
  BY <1>2, <1>3, <1>10
  DEF bringToFront, timerVars, renderVars, axisVars, mouseVars
<1>11. ASSUME NEW c \in Charts, start(c) \/ stop(c)
       PROVE  ClockType' /\ TimesKnown' /\ PageType'
  BY <1>2, <1>3, <1>11
  DEF start, stop, timerVars, renderVars, axisVars, mouseVars
<1>12. ASSUME NEW c \in Charts,
              MouseOut(c) \/ \E x \in MouseXs[c] : MouseMove(c, x)
       PROVE  ClockType' /\ TimesKnown' /\ PageType'
  <2>1. PICK x \in Int : mouseX' = [mouseX EXCEPT ![c] = x]
    BY <1>12, SmoothieChartAssumption DEF MouseOut, MouseMove, NotOver
  <2>2. mouseX' \in [Charts -> Int]
    BY <2>1 DEF ChartInv, PageType
  <2>3. UNCHANGED <<now, data, disabled, timerVars, renderVars>>
    BY <1>12 DEF MouseOut, MouseMove
  <2>4. PageType'
    BY <2>2, <2>3 DEF timerVars, renderVars, axisVars, ChartInv, PageType, Time
  <2> QED
    BY <1>2, <2>3, <2>4
<1>13. ASSUME NEW c \in Charts, Frame(c)
       PROVE  ClockType' /\ TimesKnown' /\ PageType'
  <2>1. PICK f \in frames[c] :
          PaintFrame(c, f) \/ FrameThrows(c, f) \/ SkipFrame(c, f)
    BY <1>13 DEF Frame
  <2>2. CASE Render(c)
    BY <2>2, RenderType
  <2>3. CASE SkipFrame(c, f)
    BY <1>2, <1>3, <2>3
    DEF SkipFrame, timerVars, renderVars, axisVars, mouseVars
  <2> QED
    BY <2>1, <2>2, <2>3 DEF PaintFrame, FrameThrows
<1>14. ASSUME Tick
       PROVE  ClockType' /\ TimesKnown' /\ PageType'
  <2>1. /\ now' = now + 1 /\ now' <= MaxTime /\ now \in Int
        /\ MaxTime \in Int /\ StartTime \in Int
    BY <1>14, SmoothieChartAssumption DEF Tick, ChartInv, ClockType
  <2>2. ClockType'
    BY <2>1 DEF ChartInv, ClockType
  <2>3. TimesKnown'
    <3>1. data' = data
      BY <1>14 DEF Tick
    <3>2. 0 .. now \subseteq 0 .. now'
      BY <2>1
    <3> QED
      BY <3>1, <3>2 DEF ChartInv, TimesKnown
  <2> QED
    BY <1>3, <1>14, <2>2, <2>3
    DEF Tick, timerVars, renderVars, axisVars, mouseVars
<1>15. ASSUME UNCHANGED vars
       PROVE  ClockType' /\ TimesKnown' /\ PageType'
  BY <1>2, <1>3, <1>15
  DEF vars, timerVars, renderVars, axisVars, mouseVars
<1> QED
  BY <1>4, <1>5, <1>6, <1>7, <1>8, <1>9, <1>10, <1>11, <1>12, <1>13, <1>14,
     <1>15 DEF Next

LEMMA ChartStart ==
  ASSUME Init
  PROVE  ChartInv
<1>1. AnimationInv
  <2>1. AnimationType
    BY DEF Init, AnimationType, NoFrame
  <2>2. OneAnimation
    BY DEF Init, OneAnimation, Running
  <2> QED
    BY <2>1, <2>2, DataStart DEF AnimationInv
<1>2. ClockType
  BY SmoothieChartAssumption DEF Init, ClockType
<1>3. TimesKnown
  <2>1. \A s \in Series : ToSet(data[s]) = {}
    BY EmptyQueue DEF Init
  <2> QED
    BY <2>1 DEF TimesKnown
<1>4. PageType
  <2>1. 0 \in Time
    BY SmoothieChartAssumption DEF Time
  <2>2. Len(intervals) = 0
    BY DEF Init
  <2>3. One \in Int
    BY SmoothieChartAssumption
  <2> QED
    BY <2>1, <2>2, <2>3 DEF Init, PageType, NoTimer, NotOver
<1> QED
  BY <1>1, <1>2, <1>3, <1>4, BoundsStart DEF ChartInv

\* The state has its types: in particular a frame that takes its time from the
\* points always finds one, and every bound is a number or NaN.
THEOREM ChartTypes == Spec => []TypeOK
<1>1. Init => ChartInv
  BY ChartStart
<1>2. ChartInv /\ [Next]_vars => ChartInv'
  BY ChartStep
<1>3. ChartInv => TypeOK
  <2> SUFFICES ASSUME ChartInv PROVE TypeOK
    OBVIOUS
  <2>1. now \in Time
    BY SmoothieChartAssumption DEF ChartInv, ClockType, Time
  <2> QED
    BY <2>1 DEF ChartInv, AnimationInv, AnimationType, BoundsInv, DataInv,
                PageType, TypeOK
<1> QED
  BY <1>1, <1>2, <1>3, PTL DEF Spec

-----------------------------------------------------------------------------
(* The axis.  Its range is taken from the bounds, which cover the points.   *)

\* The range of the axis covers the bounds of every series that is drawn.
LEMMA RangeCoversBounds ==
  ASSUME AnimationType, bounds \in [Series -> Bounds], NEW c \in Charts,
         NEW s \in Ranging(c), bounds[s].max \in Int, bounds[s].min \in Int
  PROVE  LET target == ValueRange(c) IN
         /\ ~ isNaN(target.max) /\ ~ isNaN(target.min)
         /\ isNaN(Options[c].maxValue) => /\ target.max \in Int
                                          /\ bounds[s].max <= target.max
         /\ isNaN(Options[c].minValue) => /\ target.min \in Int
                                          /\ target.min <= bounds[s].min
<1> DEFINE maxima == [r \in Series |-> bounds[r].max]
           minima == [r \in Series |-> bounds[r].min]
           highs  == {bounds[r].max : r \in Ranging(c)} \ {NaN}
           lows   == {bounds[r].min : r \in Ranging(c)} \ {NaN}
<1>1. Ranging(c) \subseteq Series
  BY DEF Ranging
<1>2. \A r \in Series : maxima[r] \in Value /\ minima[r] \in Value
  BY DEF Bounds
<1>3. /\ highs = {maxima[r] : r \in Ranging(c)} \ {NaN}
      /\ lows  = {minima[r] : r \in Ranging(c)} \ {NaN}
  BY <1>1
<1>4. bounds[s].max \in highs /\ bounds[s].min \in lows
  BY NaNAssumption
<1>5. /\ ValueRange(c).max = IF ~ isNaN(Options[c].maxValue)
                             THEN Options[c].maxValue
                             ELSE IF highs = {} THEN NaN
                             ELSE CHOOSE m \in highs : \A n \in highs : n <= m
      /\ ValueRange(c).min = IF ~ isNaN(Options[c].minValue)
                             THEN Options[c].minValue
                             ELSE IF lows = {} THEN NaN
                             ELSE CHOOSE m \in lows : \A n \in lows : n >= m
  BY DEF ValueRange
<1> HIDE DEF maxima, minima, highs, lows
<1>6. highs # {} /\ lows # {}
  BY <1>4
<1>7. /\ \A r \in Series : maxima[r] \in Value
      /\ \A r \in Series : minima[r] \in Value
  BY <1>2
<1>8. /\ highs \subseteq Int
      /\ \E m \in highs : \A n \in highs : n <= m
  <2> DEFINE S == {maxima[r] : r \in Ranging(c)} \ {NaN}
  <2>1. /\ S \subseteq Int
        /\ S # {} => \E m \in S : \A n \in S : n <= m
    BY <1>7, SeriesExtremes
  <2>2. S = highs
    BY <1>3
  <2> HIDE DEF S
  <2> QED
    BY <1>6, <2>1, <2>2
<1>9. /\ lows \subseteq Int
      /\ \E m \in lows : \A n \in lows : n >= m
  <2> DEFINE S == {minima[r] : r \in Ranging(c)} \ {NaN}
  <2>1. /\ S \subseteq Int
        /\ S # {} => \E m \in S : \A n \in S : n >= m
    BY <1>7, SeriesExtremes
  <2>2. S = lows
    BY <1>3
  <2> HIDE DEF S
  <2> QED
    BY <1>6, <2>1, <2>2
<1>10. isNaN(Options[c].maxValue) => /\ ValueRange(c).max \in highs
                                    /\ \A n \in highs : n <= ValueRange(c).max
  BY <1>4, <1>5, <1>8
<1>11. isNaN(Options[c].minValue) => /\ ValueRange(c).min \in lows
                                    /\ \A n \in lows : n >= ValueRange(c).min
  BY <1>4, <1>5, <1>9
<1>12. isNaN(Options[c].maxValue) => /\ ValueRange(c).max \in Int
                                     /\ bounds[s].max <= ValueRange(c).max
  BY <1>4, <1>8, <1>10
<1>13. isNaN(Options[c].minValue) => /\ ValueRange(c).min \in Int
                                     /\ ValueRange(c).min <= bounds[s].min
  BY <1>4, <1>9, <1>11
<1>14. ~ isNaN(ValueRange(c).max) /\ ~ isNaN(ValueRange(c).min)
  BY <1>5, <1>12, <1>13, NaNAssumption DEF isNaN
<1> QED
  BY <1>12, <1>13, <1>14

\* Bottom and length of an axis at rest were within a tenth of their targets, and
\* have only come closer since.
LEMMA AxisCoversSeries ==
  ASSUME ChartInv, NEW c \in Charts, Render(c), ~ isAnimatingScale'[c],
         NEW s \in Ranging(c), NEW p \in ToSet(data'[s])
  PROVE  /\ \/ ~ isNaN(Options[c].minValue)
            \/ currentVisMinValue'[c] - Tenth <= p.value
         /\ \/ ~ isNaN(Options[c].maxValue)
            \/ p.value <= currentVisMinValue'[c] + currentValueRange'[c]
                            + 2 * Tenth
<1> DEFINE target == ValueRange(c)
           length == target.max - target.min
           bottom == currentVisMinValue[c]
           range  == currentValueRange[c]
<1>1. s \in Series /\ p \in ToSet(data[s])
  BY RenderKeepsPoints DEF Ranging, ChartInv, BoundsInv
<1>2. /\ bounds[s].max \in Int /\ bounds[s].min \in Int /\ p.value \in Int
      /\ bounds[s].min <= p.value /\ p.value <= bounds[s].max
  BY <1>1 DEF ChartInv, BoundsInv, Covers, NumbersOnly
<1>3. /\ AnimationType /\ bounds \in [Series -> Bounds] /\ PageType
      /\ UpdateValueRange(c)
  BY DEF ChartInv, AnimationInv, BoundsInv, Render
<1>4. /\ ~ isNaN(target.max) /\ ~ isNaN(target.min)
      /\ isNaN(Options[c].maxValue) => bounds[s].max <= target.max
      /\ isNaN(Options[c].minValue) => target.min <= bounds[s].min
  BY <1>2, <1>3, RangeCoversBounds
<1>5. /\ target.max \in Int /\ target.min \in Int
      /\ isAnimatingScale' = [isAnimatingScale EXCEPT ![c] =
           ~ (/\ length - range \in -Tenth .. Tenth
              /\ target.min - bottom \in -Tenth .. Tenth)]
      /\ \E v \in Closer(range, length, Options[c].scaleSmoothing) :
           currentValueRange' = [currentValueRange EXCEPT ![c] = v]
      /\ \E v \in Closer(bottom, target.min, Options[c].scaleSmoothing) :
           currentVisMinValue' = [currentVisMinValue EXCEPT ![c] = v]
  BY <1>3, <1>4, AxisMoves
<1>6. /\ isAnimatingScale \in [Charts -> BOOLEAN]
      /\ currentVisMinValue \in [Charts -> Int]
      /\ currentValueRange \in [Charts -> Int]
      /\ Options[c].scaleSmoothing \in 0 .. 100
  BY <1>3, SmoothieChartAssumption DEF PageType
<1>7. length \in Int /\ range \in Int /\ bottom \in Int
  BY <1>5, <1>6
<1>8. target.max = target.min + length
  BY <1>5
<1> HIDE DEF target, length, bottom, range
<1>9. /\ length - range \in -Tenth .. Tenth
      /\ target.min - bottom \in -Tenth .. Tenth
  BY <1>5, <1>6, Zenon
<1>10. /\ currentValueRange'[c] \in Closer(range, length, Options[c].scaleSmoothing)
       /\ currentVisMinValue'[c]
            \in Closer(bottom, target.min, Options[c].scaleSmoothing)
  BY <1>5, <1>6
<1>11. /\ currentValueRange'[c] \in Int
       /\ \/ range <= currentValueRange'[c] /\ currentValueRange'[c] <= length
          \/ length <= currentValueRange'[c] /\ currentValueRange'[c] <= range
  BY <1>6, <1>7, <1>10, CloserBetween
<1>12. /\ currentVisMinValue'[c] \in Int
       /\ \/ bottom <= currentVisMinValue'[c] /\ currentVisMinValue'[c] <= target.min
          \/ target.min <= currentVisMinValue'[c] /\ currentVisMinValue'[c] <= bottom
  BY <1>5, <1>6, <1>7, <1>10, CloserBetween
<1>13. Tenth \in Int
  BY SmoothieChartAssumption, Division DEF Tenth
<1>14. /\ currentVisMinValue'[c] - Tenth <= target.min
       /\ target.max <= currentVisMinValue'[c] + currentValueRange'[c] + 2 * Tenth
  BY <1>5, <1>7, <1>8, <1>9, <1>11, <1>12, <1>13
<1> QED
  BY <1>2, <1>4, <1>5, <1>11, <1>12, <1>13, <1>14

\* An axis at rest fits the line up to the tolerance it is taken to be at rest
\* with, and up to the ends that the page has fixed: what a frame draws is within
\* the bounds, the bounds within the range, and the bottom and the length of the
\* axis within 0.1 of those of the range (updateValueRange).
THEOREM AxisFits == Spec => AxisCoversLine
<1> DEFINE AxisStep ==
      \A c \in Charts :
        (/\ lastRenderTimeMillis'[c] # lastRenderTimeMillis[c]
         /\ ~ isAnimatingScale'[c])
          => \A s \in Ranging(c) : \A p \in ToSet(data'[s]) :
               /\ \/ ~ isNaN(Options[c].minValue)
                  \/ currentVisMinValue'[c] - Tenth <= p.value
               /\ \/ ~ isNaN(Options[c].maxValue)
                  \/ p.value <= currentVisMinValue'[c] + currentValueRange'[c]
                                  + 2 * Tenth
<1>1. Init => ChartInv
  BY ChartStart
<1>2. ChartInv /\ [Next]_vars => ChartInv'
  BY ChartStep
<1>3. ChartInv /\ [Next]_vars => [AxisStep]_vars
  <2> SUFFICES ASSUME ChartInv, [Next]_vars, NEW c \in Charts,
                      lastRenderTimeMillis'[c] # lastRenderTimeMillis[c],
                      ~ isAnimatingScale'[c],
                      NEW s \in Ranging(c), NEW p \in ToSet(data'[s])
               PROVE  /\ \/ ~ isNaN(Options[c].minValue)
                         \/ currentVisMinValue'[c] - Tenth <= p.value
                      /\ \/ ~ isNaN(Options[c].maxValue)
                         \/ p.value <= currentVisMinValue'[c]
                                         + currentValueRange'[c] + 2 * Tenth
    OBVIOUS
  <2>1. ASSUME UNCHANGED lastRenderTimeMillis PROVE FALSE
    BY <2>1
  <2>2. PICK d \in Charts : Frame(d)
    <3>1. \/ UNCHANGED lastRenderTimeMillis
          \/ \E d \in Charts : Frame(d)
      BY DEF Next, vars, AppendPoint, Clear, Toggle, Switch, ResetBounds,
             addTimeSeries, removeTimeSeries, bringToFront, start, stop,
             MouseOut, MouseMove, Tick, renderVars
    <3> QED
      BY <2>1, <3>1
  <2>3. Render(d)
    <3>1. PICK f \in frames[d] :
            PaintFrame(d, f) \/ FrameThrows(d, f) \/ SkipFrame(d, f)
      BY <2>2 DEF Frame
    <3>2. ~ SkipFrame(d, f)
      BY <2>1 DEF SkipFrame, renderVars
    <3> QED
      BY <3>1, <3>2 DEF PaintFrame, FrameThrows
  <2>4. d = c
    <3>1. lastRenderTimeMillis' = [lastRenderTimeMillis EXCEPT ![d] = now]
      BY <2>3 DEF Render
    <3>2. lastRenderTimeMillis \in [Charts -> Time]
      BY DEF ChartInv, PageType
    <3> QED
      BY <3>1, <3>2
  <2>5. Render(c)
    BY <2>3, <2>4
  <2> QED
    BY <2>5, AxisCoversSeries
<1> QED
  BY <1>1, <1>2, <1>3, PTL DEF Spec, AxisCoversLine

-----------------------------------------------------------------------------
(* The intervals.  A series has no more places in the charts than intervals *)
(* that recompute its bounds: each call of addTimeSeries makes one of each, *)
(* and removeTimeSeries takes a place for at most one interval, if the      *)
(* chart that is told to remove the series has it.                          *)

\* where a series is, in charts whose series are ss
Places(ss, s) == {p \in Charts \X Nat : /\ p[2] \in DOMAIN ss[p[1]]
                                        /\ ss[p[1]][p[2]] = s}

Live(s) == {i \in DOMAIN intervals : intervals[i] = s}

\* the interval that a series remembers is its own, if it is not cleared
OwnInterval ==
  \A s \in Series : \/ resetBoundsTimerId[s] = NoTimer
                    \/ intervals[resetBoundsTimerId[s]] \in {s, Cleared}

\* ... unless a chart that did not show the series was told to remove it
Paired ==
  \A s \in Series :
    /\ IsFiniteSet(Places(seriesSet, s))
    /\ \/ s \in strayed
       \/ Cardinality(Places(seriesSet, s)) <= Cardinality(Live(s))

\* a series that was never in two places has only the interval it remembers
OneInterval ==
  \A s \in Series \ doubled :
    /\ Live(s) \subseteq {resetBoundsTimerId[s]}
    /\ ~ Shown(s) => Live(s) = {}

PairingInv == ChartInv /\ OwnInterval /\ Paired /\ OneInterval

LEMMA LiveFinite ==
  ASSUME intervals \in Seq(Series \cup {Cleared}), NEW s
  PROVE  IsFiniteSet(Live(s)) /\ Cardinality(Live(s)) \in Nat
<1>1. Len(intervals) \in Nat /\ DOMAIN intervals = 1 .. Len(intervals)
  OBVIOUS
<1>2. IsFiniteSet(1 .. Len(intervals))
  BY <1>1, FS_Interval
<1>3. Live(s) \in SUBSET (1 .. Len(intervals))
  BY <1>1 DEF Live
<1>4. IsFiniteSet(Live(s))
  BY <1>2, <1>3, FS_Subset
<1> QED
  BY <1>4, FS_CardinalityType

LEMMA SomePlace ==
  ASSUME NEW ss \in [Charts -> Seq(Series)], NEW s
  PROVE  (\E c \in Charts : \E i \in DOMAIN ss[c] : ss[c][i] = s)
           <=> Places(ss, s) # {}
<1>1. ASSUME NEW c \in Charts, NEW i \in DOMAIN ss[c], ss[c][i] = s
      PROVE  Places(ss, s) # {}
  <2>1. i \in Nat
    OBVIOUS
  <2>2. <<c, i>> \in Places(ss, s)
    BY <1>1, <2>1 DEF Places
  <2> QED
    BY <2>2
<1>2. ASSUME Places(ss, s) # {}
      PROVE  \E c \in Charts : \E i \in DOMAIN ss[c] : ss[c][i] = s
  BY <1>2 DEF Places
<1> QED
  BY <1>1, <1>2

LEMMA ShownPlaces ==
  ASSUME AnimationType, AnimationType', NEW s
  PROVE  /\ Shown(s) <=> Places(seriesSet, s) # {}
         /\ Shown(s)' <=> Places(seriesSet', s) # {}
BY SomePlace DEF AnimationType, Shown, In

\* the series of the charts, with one put last in c
WithLast(ss, c, s) == [ss EXCEPT ![c] = Append(ss[c], s)]

\* the series of the charts, without the i-th of c
Without(ss, c, i) == [ss EXCEPT ![c] = RemoveAt(ss[c], i)]

\* Taking out one place shifts those after it, and loses no other.
LEMMA RemovedPlaces ==
  ASSUME NEW ss \in [Charts -> Seq(Series)], NEW c \in Charts,
         NEW i \in 1 .. Len(ss[c]), NEW r, IsFiniteSet(Places(ss, r))
  PROVE  LET new  == Without(ss, c, i)
             rest == Places(ss, r) \ {<<c, i>>} IN
         /\ new \in [Charts -> Seq(Series)]
         /\ IsFiniteSet(Places(new, r))
         /\ Cardinality(Places(new, r)) <= Cardinality(rest)
         /\ rest # {} => Places(new, r) # {}
<1> DEFINE new  == Without(ss, c, i)
           rest == Places(ss, r) \ {<<c, i>>}
           back == [p \in Places(new, r) |->
                      IF p[1] = c /\ p[2] >= i THEN <<c, p[2] + 1>> ELSE p]
<1>1. ss[c] \in Seq(Series) /\ Len(ss[c]) \in Nat /\ i \in Nat
  OBVIOUS
<1>2. /\ RemoveAt(ss[c], i) \in Seq(Series)
      /\ Len(RemoveAt(ss[c], i)) = Len(ss[c]) - 1
      /\ \A j \in 1 .. Len(ss[c]) - 1 :
           RemoveAt(ss[c], i)[j] = IF j < i THEN ss[c][j] ELSE ss[c][j + 1]
  BY <1>1, RemovedFrom
<1>3. /\ new \in [Charts -> Seq(Series)]
      /\ new[c] = RemoveAt(ss[c], i)
      /\ \A d \in Charts \ {c} : new[d] = ss[d]
  BY <1>2 DEF Without
<1> HIDE DEF new
<1>4. /\ DOMAIN new[c] = 1 .. Len(ss[c]) - 1
      /\ DOMAIN ss[c] = 1 .. Len(ss[c])
      /\ \A j \in 1 .. Len(ss[c]) - 1 :
           new[c][j] = IF j < i THEN ss[c][j] ELSE ss[c][j + 1]
  BY <1>1, <1>2, <1>3
<1>5. ASSUME NEW p \in Places(new, r)
      PROVE  /\ p \in Charts \X Nat
             /\ back[p] \in rest
             /\ back[p] = IF p[1] = c /\ p[2] >= i THEN <<c, p[2] + 1>> ELSE p
  <2>1. PICK d \in Charts, j \in Nat :
          p = <<d, j>> /\ j \in DOMAIN new[d] /\ new[d][j] = r
    BY DEF Places
  <2>2. back[p] = IF d = c /\ j >= i THEN <<c, j + 1>> ELSE <<d, j>>
    BY <2>1
  <2> HIDE DEF back
  <2>3. CASE d = c /\ j >= i
    <3>1. j + 1 \in DOMAIN ss[c] /\ ss[c][j + 1] = r /\ j + 1 # i
      BY <1>1, <1>4, <2>1, <2>3
    <3>2. <<c, j + 1>> \in Places(ss, r)
      BY <3>1 DEF Places
    <3>3. <<c, j + 1>> # <<c, i>>
      BY <3>1
    <3> QED
      BY <2>1, <2>2, <2>3, <3>2, <3>3
  <2>4. CASE d = c /\ ~ (j >= i)
    <3>1. j \in DOMAIN ss[c] /\ ss[c][j] = r /\ j # i
      BY <1>1, <1>4, <2>1, <2>4
    <3>2. <<c, j>> \in Places(ss, r)
      BY <3>1 DEF Places
    <3>3. <<c, j>> # <<c, i>>
      BY <3>1
    <3> QED
      BY <2>1, <2>2, <2>4, <3>2, <3>3
  <2>5. CASE d # c
    <3>1. <<d, j>> \in Places(ss, r)
      BY <1>3, <2>1, <2>5 DEF Places
    <3>2. <<d, j>> # <<c, i>>
      BY <2>5
    <3> QED
      BY <2>1, <2>2, <2>5, <3>1, <3>2
  <2> QED
    BY <2>3, <2>4, <2>5
<1>6. back \in Injection(Places(new, r), rest)
  <2>1. back \in [Places(new, r) -> rest]
    BY <1>5
  <2>2. ASSUME NEW p \in Places(new, r), NEW q \in Places(new, r),
               back[p] = back[q]
        PROVE  p = q
    <3>1. PICK d \in Charts, j \in Nat : p = <<d, j>>
      BY DEF Places
    <3>2. PICK e \in Charts, k \in Nat : q = <<e, k>>
      BY DEF Places
    <3> DEFINE x == IF d = c /\ j >= i THEN j + 1 ELSE j
               y == IF e = c /\ k >= i THEN k + 1 ELSE k
    <3>3. back[p] = <<d, x>> /\ back[q] = <<e, y>>
      BY <3>1, <3>2
    <3>4. back[p] = back[q]
      BY <2>2
    <3> HIDE DEF back, x, y
    <3>5. <<d, x>> = <<e, y>>
      BY <3>3, <3>4, Zenon
    <3>6. d = e /\ x = y
      BY <3>5
    <3>7. j = k
      BY <1>1, <3>6 DEF x, y
    <3> QED
      BY <3>1, <3>2, <3>6, <3>7
  <2> QED
    BY <2>1, <2>2 DEF Injection, IsInjective
<1>7. IsFiniteSet(rest)
  BY FS_RemoveElement
<1>8. ASSUME rest # {} PROVE Places(new, r) # {}
  <2>1. PICK d \in Charts, j \in Nat :
          /\ <<d, j>> # <<c, i>>
          /\ j \in DOMAIN ss[d] /\ ss[d][j] = r
    BY <1>8 DEF Places
  <2>2. CASE d # c
    <3>1. <<d, j>> \in Places(new, r)
      BY <1>3, <2>1, <2>2 DEF Places
    <3> QED
      BY <3>1
  <2>3. CASE d = c /\ j < i
    <3>1. j \in DOMAIN new[c] /\ new[c][j] = r
      BY <1>1, <1>4, <2>1, <2>3
    <3>2. <<c, j>> \in Places(new, r)
      BY <3>1 DEF Places
    <3> QED
      BY <3>2
  <2>4. CASE d = c /\ j > i
    <3>1. /\ j - 1 \in DOMAIN new[c] /\ j - 1 \in Nat /\ ~ (j - 1 < i)
          /\ (j - 1) + 1 = j
      BY <1>1, <1>4, <2>1, <2>4
    <3>2. new[c][j - 1] = r
      BY <1>4, <2>1, <2>4, <3>1
    <3>3. <<c, j - 1>> \in Places(new, r)
      BY <3>1, <3>2 DEF Places
    <3> QED
      BY <3>3
  <2>5. d = c => j < i \/ j > i
    BY <1>1, <2>1
  <2> QED
    BY <2>2, <2>3, <2>4, <2>5
<1> HIDE DEF back, rest
<1>9. IsFiniteSet(Places(new, r)) /\ Cardinality(Places(new, r)) <= Cardinality(rest)
  BY <1>6, <1>7, FS_Injection
<1> QED
  BY <1>3, <1>8, <1>9 DEF new, rest

\* Putting a series at the end gives it one place more.
LEMMA AppendedPlaces ==
  ASSUME NEW ss \in [Charts -> Seq(Series)], NEW c \in Charts, NEW s \in Series
  PROVE  LET new == WithLast(ss, c, s) IN
         /\ new \in [Charts -> Seq(Series)]
         /\ Places(new, s) = Places(ss, s) \cup {<<c, Len(ss[c]) + 1>>}
         /\ <<c, Len(ss[c]) + 1>> \notin Places(ss, s)
         /\ \A r : r # s => Places(new, r) = Places(ss, r)
<1> DEFINE new == WithLast(ss, c, s)
           n   == Len(ss[c])
<1>1. /\ Append(ss[c], s) \in Seq(Series) /\ n \in Nat
      /\ DOMAIN ss[c] = 1 .. n
      /\ DOMAIN Append(ss[c], s) = 1 .. n + 1
      /\ \A j \in 1 .. n : Append(ss[c], s)[j] = ss[c][j]
      /\ Append(ss[c], s)[n + 1] = s
  BY AppendProperties
<1>2. /\ new \in [Charts -> Seq(Series)]
      /\ new[c] = Append(ss[c], s)
      /\ \A d \in Charts \ {c} : new[d] = ss[d]
  BY <1>1 DEF WithLast
<1> HIDE DEF new, n
<1>3. ASSUME NEW r, NEW d \in Charts, NEW j \in Nat
      PROVE  <<d, j>> \in Places(new, r) <=>
               \/ <<d, j>> \in Places(ss, r)
               \/ d = c /\ j = n + 1 /\ r = s
  <2>1. CASE d # c
    BY <1>2, <2>1 DEF Places
  <2>2. CASE d = c
    <3>1. (j \in 1 .. n + 1 /\ new[c][j] = r)
            <=> (j \in 1 .. n /\ ss[c][j] = r) \/ (j = n + 1 /\ r = s)
      BY <1>1, <1>2
    <3>2. DOMAIN new[c] = 1 .. n + 1
      BY <1>1, <1>2
    <3> QED
      BY <1>1, <2>2, <3>1, <3>2 DEF Places
  <2> QED
    BY <2>1, <2>2
<1>4. ASSUME NEW r, NEW p \in Charts \X Nat
      PROVE  p \in Places(new, r) <=>
               p \in Places(ss, r) \/ (p = <<c, n + 1>> /\ r = s)
  <2>1. PICK d \in Charts, j \in Nat : p = <<d, j>>
    OBVIOUS
  <2> QED
    BY <1>3, <2>1
<1>5. /\ \A r : Places(new, r) \subseteq Charts \X Nat
      /\ \A r : Places(ss, r) \subseteq Charts \X Nat
      /\ <<c, n + 1>> \in Charts \X Nat
  BY <1>1 DEF Places
<1>6. Places(new, s) = Places(ss, s) \cup {<<c, n + 1>>}
  BY <1>4, <1>5, Zenon
<1>7. <<c, n + 1>> \notin Places(ss, s)
  BY <1>1 DEF Places
<1>8. \A r : r # s => Places(new, r) = Places(ss, r)
  BY <1>4, <1>5, Zenon
<1> QED
  BY <1>2, <1>6, <1>7, <1>8 DEF new, n

\* The place that removeTimeSeries and bringToFront take out is one of the
\* series'.
LEMMA FirstPlace ==
  ASSUME AnimationType, NEW c \in Charts, NEW s \in Series, In(s, c)
  PROVE  /\ FirstIn(s, c) \in 1 .. Len(seriesSet[c])
         /\ <<c, FirstIn(s, c)>> \in Places(seriesSet, s)
         /\ \A r : r # s => <<c, FirstIn(s, c)>> \notin Places(seriesSet, r)
<1>1. /\ FirstIn(s, c) \in 1 .. Len(seriesSet[c])
      /\ seriesSet[c][FirstIn(s, c)] = s
  BY FirstInExists
<1>2. DOMAIN seriesSet[c] = 1 .. Len(seriesSet[c]) /\ FirstIn(s, c) \in Nat
  BY <1>1 DEF AnimationType
<1> QED
  BY <1>1, <1>2 DEF Places

\* An added series has one place and one interval more.
LEMMA AddPairs ==
  ASSUME PairingInv, ChartInv', NEW c \in Charts, NEW s \in Series,
         addTimeSeries(c, s)
  PROVE  PairingInv'
<1> DEFINE n == Len(intervals) + 1
           place == <<c, Len(seriesSet[c]) + 1>>
<1>1. /\ seriesSet' = [seriesSet EXCEPT ![c] = Append(seriesSet[c], s)]
      /\ intervals' = Append(intervals, s)
      /\ resetBoundsTimerId' = [resetBoundsTimerId EXCEPT ![s] = Len(intervals')]
      /\ doubled' = IF Shown(s) THEN doubled \cup {s} ELSE doubled
      /\ strayed' = strayed
  BY DEF addTimeSeries
<1>2. /\ AnimationType /\ AnimationType'
      /\ intervals \in Seq(Series \cup {Cleared})
      /\ intervals' \in Seq(Series \cup {Cleared})
      /\ resetBoundsTimerId \in [Series -> 0 .. Len(intervals)]
  BY DEF PairingInv, ChartInv, AnimationInv, BoundsInv, PageType
<1>3. /\ n \in Nat /\ Len(intervals) \in Nat /\ Len(intervals') = n
      /\ DOMAIN intervals = 1 .. Len(intervals)
      /\ DOMAIN intervals' = 1 .. n
      /\ \A i \in 1 .. Len(intervals) : intervals'[i] = intervals[i]
      /\ intervals'[n] = s
  BY <1>1, <1>2, AppendProperties
<1>4. /\ Places(seriesSet', s) = Places(seriesSet, s) \cup {place}
      /\ place \notin Places(seriesSet, s)
      /\ \A r : r # s => Places(seriesSet', r) = Places(seriesSet, r)
  <2>1. seriesSet \in [Charts -> Seq(Series)]
    BY <1>2 DEF AnimationType
  <2>2. seriesSet' = WithLast(seriesSet, c, s)
    BY <1>1 DEF WithLast
  <2> QED
    BY <2>1, <2>2, AppendedPlaces DEF place
<1>5. /\ resetBoundsTimerId'[s] = n
      /\ \A r \in Series \ {s} : resetBoundsTimerId'[r] = resetBoundsTimerId[r]
  BY <1>1, <1>2, <1>3
<1> HIDE DEF n, place
<1>6. ASSUME NEW r \in Series
      PROVE  Live(r)' = Live(r) \cup IF r = s THEN {n} ELSE {}
  <2>1. /\ Live(r) = {i \in 1 .. Len(intervals) : intervals[i] = r}
        /\ Live(r)' = {i \in 1 .. n : intervals'[i] = r}
    BY <1>3 DEF Live
  <2>2. 1 .. n = (1 .. Len(intervals)) \cup {n}
    BY <1>3 DEF n
  <2> QED
    BY <1>3, <2>1, <2>2
<1>7. n \notin Live(s)
  BY <1>3 DEF Live, n
<1>8. \A r \in Series : /\ Shown(r) <=> Places(seriesSet, r) # {}
                        /\ Shown(r)' <=> Places(seriesSet', r) # {}
  BY <1>2, ShownPlaces
<1>9. OwnInterval'
  <2>1. ASSUME NEW r \in Series
        PROVE  \/ resetBoundsTimerId'[r] = NoTimer
               \/ intervals'[resetBoundsTimerId'[r]] \in {r, Cleared}
    <3>1. CASE r = s
      BY <1>3, <1>5, <3>1
    <3>2. CASE r # s
      <4>1. \/ resetBoundsTimerId[r] = NoTimer
            \/ intervals[resetBoundsTimerId[r]] \in {r, Cleared}
        BY DEF PairingInv, OwnInterval
      <4>2. resetBoundsTimerId[r] \in 0 .. Len(intervals)
        BY <1>2
      <4>3. resetBoundsTimerId[r] # NoTimer
              => resetBoundsTimerId[r] \in 1 .. Len(intervals)
        BY <1>3, <4>2 DEF NoTimer
      <4> QED
        BY <1>3, <1>5, <3>2, <4>1, <4>3
    <3> QED
      BY <3>1, <3>2
  <2> QED
    BY <2>1 DEF OwnInterval
<1>10. Paired'
  <2>1. ASSUME NEW r \in Series
        PROVE  /\ IsFiniteSet(Places(seriesSet', r))
               /\ \/ r \in strayed
                  \/ Cardinality(Places(seriesSet', r)) <= Cardinality(Live(r)')
    <3>1. /\ IsFiniteSet(Places(seriesSet, r))
          /\ \/ r \in strayed
             \/ Cardinality(Places(seriesSet, r)) <= Cardinality(Live(r))
          /\ IsFiniteSet(Live(r)) /\ Cardinality(Live(r)) \in Nat
      BY <1>2, LiveFinite DEF PairingInv, Paired
    <3>2. CASE r = s
      <4>1. /\ IsFiniteSet(Places(seriesSet, s) \cup {place})
            /\ Cardinality(Places(seriesSet, s) \cup {place})
                 = Cardinality(Places(seriesSet, s)) + 1
        BY <1>4, <3>1, <3>2, FS_AddElement
      <4>2. Cardinality(Live(s) \cup {n}) = Cardinality(Live(s)) + 1
        BY <1>7, <3>1, <3>2, FS_AddElement
      <4>3. Cardinality(Places(seriesSet, s)) \in Nat
        BY <3>1, <3>2, FS_CardinalityType
      <4>4. Live(s)' = Live(s) \cup {n}
        BY <1>6
      <4> QED
        BY <1>4, <3>1, <3>2, <4>1, <4>2, <4>3, <4>4
    <3>3. CASE r # s
      <4>1. Live(r)' = Live(r)
        BY <1>6, <3>3
      <4> QED
        BY <1>4, <3>1, <3>3, <4>1
    <3> QED
      BY <3>2, <3>3
  <2> QED
    BY <1>1, <2>1 DEF Paired, Places
<1>11. OneInterval'
  <2>1. ASSUME NEW r \in Series \ doubled'
        PROVE  /\ Live(r)' \subseteq {resetBoundsTimerId'[r]}
               /\ Shown(r)' \/ Live(r)' = {}
    <3>1. /\ r \notin doubled
          /\ Live(r) \subseteq {resetBoundsTimerId[r]}
          /\ ~ Shown(r) => Live(r) = {}
      BY <1>1 DEF PairingInv, OneInterval
    <3>2. CASE r = s
      <4>1. ~ Shown(s)
        BY <1>1, <2>1, <3>2
      <4>2. Live(s)' = {n}
        BY <1>6, <3>1, <3>2, <4>1
      <4>3. Shown(s)'
        BY <1>4, <1>8
      <4> QED
        BY <1>5, <3>2, <4>2, <4>3
    <3>3. CASE r # s
      BY <1>4, <1>5, <1>6, <1>8, <3>1, <3>3
    <3> QED
      BY <3>2, <3>3
  <2> QED
    BY <2>1 DEF OneInterval
<1> QED
  BY <1>9, <1>10, <1>11 DEF PairingInv

\* removeTimeSeries clears the interval that the series remembers, and no other
\* series' one, whether or not the chart shows the series.
LEMMA RemoveClears ==
  ASSUME PairingInv, ChartInv', NEW c \in Charts, NEW s \in Series,
         removeTimeSeries(c, s)
  PROVE  /\ Live(s)' = Live(s) \ {resetBoundsTimerId[s]}
         /\ \A r \in Series \ {s} : Live(r)' = Live(r)
         /\ OwnInterval'
<1> DEFINE id == resetBoundsTimerId[s]
<1>1. /\ intervals' = [intervals EXCEPT ![id] = Cleared]
      /\ UNCHANGED resetBoundsTimerId
  BY DEF removeTimeSeries
<1>2. /\ intervals \in Seq(Series \cup {Cleared})
      /\ intervals' \in Seq(Series \cup {Cleared})
      /\ resetBoundsTimerId \in [Series -> 0 .. Len(intervals)]
  BY DEF PairingInv, ChartInv, BoundsInv, PageType
<1>3. /\ DOMAIN intervals = 1 .. Len(intervals) /\ Len(intervals) \in Nat
      /\ DOMAIN intervals' = DOMAIN intervals
      /\ \A i \in DOMAIN intervals :
           intervals'[i] = IF i = id THEN Cleared ELSE intervals[i]
  BY <1>1, <1>2
<1>4. id \in DOMAIN intervals => intervals[id] \in {s, Cleared}
  BY <1>3 DEF PairingInv, OwnInterval, NoTimer
<1> HIDE DEF id
<1>5. /\ Live(s)' = Live(s) \ {id}
      /\ \A r \in Series \ {s} : Live(r)' = Live(r)
  <2>1. Cleared \notin Series
    BY SmoothieChartAssumption
  <2>2. ASSUME NEW r \in Series, NEW i \in DOMAIN intervals
        PROVE  intervals'[i] = r <=> intervals[i] = r /\ (r = s => i # id)
    BY <1>3, <1>4, <2>1
  <2>3. \A r : Live(r)' = {i \in DOMAIN intervals : intervals'[i] = r}
    BY <1>3 DEF Live
  <2>4. Live(s)' = Live(s) \ {id}
    BY <2>2, <2>3 DEF Live
  <2>5. ASSUME NEW r \in Series \ {s} PROVE Live(r)' = Live(r)
    BY <2>2, <2>3 DEF Live
  <2> QED
    BY <2>4, <2>5
<1>6. OwnInterval'
  <2>1. ASSUME NEW r \in Series
        PROVE  \/ resetBoundsTimerId'[r] = NoTimer
               \/ intervals'[resetBoundsTimerId'[r]] \in {r, Cleared}
    <3> DEFINE k == resetBoundsTimerId[r]
    <3>1. k = NoTimer \/ intervals[k] \in {r, Cleared}
      BY DEF PairingInv, OwnInterval
    <3>2. k # NoTimer => k \in DOMAIN intervals
      BY <1>2, <1>3 DEF NoTimer
    <3> QED
      BY <1>1, <1>3, <3>1, <3>2
  <2> QED
    BY <2>1 DEF OwnInterval
<1> QED
  BY <1>5, <1>6 DEF id

\* A removed place takes with it at most the interval that the series remembers.
LEMMA RemovePlacePairs ==
  ASSUME PairingInv, ChartInv', NEW c \in Charts, NEW s \in Series,
         removeTimeSeries(c, s), In(s, c)
  PROVE  PairingInv'
<1> DEFINE id == resetBoundsTimerId[s]
           place == <<c, FirstIn(s, c)>>
           rest(r) == Places(seriesSet, r) \ {place}
<1>1. /\ seriesSet' = Without(seriesSet, c, FirstIn(s, c))
      /\ UNCHANGED <<resetBoundsTimerId, misuse>>
  BY DEF removeTimeSeries, Without, misuse
<1>2. /\ AnimationType /\ AnimationType'
      /\ seriesSet \in [Charts -> Seq(Series)]
      /\ intervals \in Seq(Series \cup {Cleared})
      /\ intervals' \in Seq(Series \cup {Cleared})
      /\ resetBoundsTimerId \in [Series -> 0 .. Len(intervals)]
  BY DEF PairingInv, ChartInv, AnimationInv, AnimationType, BoundsInv, PageType
<1>3. /\ FirstIn(s, c) \in 1 .. Len(seriesSet[c])
      /\ place \in Places(seriesSet, s)
      /\ \A r : r # s => place \notin Places(seriesSet, r)
  BY <1>1, <1>2, FirstPlace
<1>4. /\ Live(s)' = Live(s) \ {id}
      /\ \A r \in Series \ {s} : Live(r)' = Live(r)
      /\ OwnInterval'
  BY RemoveClears
<1> HIDE DEF id, place
<1>5. ASSUME NEW r \in Series
      PROVE  /\ IsFiniteSet(Places(seriesSet, r))
             /\ IsFiniteSet(Places(seriesSet', r))
             /\ Cardinality(Places(seriesSet', r)) <= Cardinality(rest(r))
             /\ rest(r) # {} => Places(seriesSet', r) # {}
  <2>1. IsFiniteSet(Places(seriesSet, r))
    BY DEF PairingInv, Paired
  <2> QED
    BY <1>1, <1>2, <1>3, <2>1, RemovedPlaces DEF place
<1>6. \A r \in Series : /\ Shown(r) <=> Places(seriesSet, r) # {}
                        /\ Shown(r)' <=> Places(seriesSet', r) # {}
  BY <1>2, ShownPlaces
<1>7. \A r \in Series \ {s} : rest(r) = Places(seriesSet, r)
  BY <1>3
<1>8. Paired'
  <2>1. ASSUME NEW r \in Series
        PROVE  \/ r \in strayed
               \/ Cardinality(Places(seriesSet', r)) <= Cardinality(Live(r)')
    <3>1. /\ \/ r \in strayed
             \/ Cardinality(Places(seriesSet, r)) <= Cardinality(Live(r))
          /\ IsFiniteSet(Live(r)) /\ Cardinality(Live(r)) \in Nat
          /\ Cardinality(Places(seriesSet, r)) \in Nat
          /\ Cardinality(Places(seriesSet', r)) \in Nat
      BY <1>2, <1>5, LiveFinite, FS_CardinalityType DEF PairingInv, Paired
    <3>2. CASE r = s
      <4>1. Cardinality(rest(s)) = Cardinality(Places(seriesSet, s)) - 1
        BY <1>3, <1>5, FS_RemoveElement
      <4>2. /\ Cardinality(Live(s) \ {id}) >= Cardinality(Live(s)) - 1
            /\ Cardinality(Live(s) \ {id}) \in Nat
        <5>1. /\ IsFiniteSet(Live(s) \ {id})
              /\ Cardinality(Live(s) \ {id})
                   = IF id \in Live(s) THEN Cardinality(Live(s)) - 1
                                       ELSE Cardinality(Live(s))
          BY <3>1, <3>2, FS_RemoveElement
        <5> QED
          BY <3>1, <3>2, <5>1, FS_CardinalityType
      <4>3. Cardinality(Places(seriesSet', s)) <= Cardinality(rest(s))
        BY <1>5
      <4> QED
        BY <1>4, <3>1, <3>2, <4>1, <4>2, <4>3
    <3>3. CASE r # s
      <4>1. Cardinality(Places(seriesSet', r)) <= Cardinality(Places(seriesSet, r))
        BY <1>5, <1>7, <3>3
      <4>2. Live(r)' = Live(r)
        BY <1>4, <3>3
      <4> QED
        BY <3>1, <4>1, <4>2
    <3> QED
      BY <3>2, <3>3
  <2> QED
    BY <1>1, <1>5, <2>1 DEF Paired, Places, misuse
<1>9. OneInterval'
  <2>1. ASSUME NEW r \in Series \ doubled'
        PROVE  /\ Live(r)' \subseteq {resetBoundsTimerId'[r]}
               /\ Shown(r)' \/ Live(r)' = {}
    <3>1. /\ r \notin doubled
          /\ Live(r) \subseteq {resetBoundsTimerId[r]}
          /\ ~ Shown(r) => Live(r) = {}
      BY <1>1 DEF PairingInv, OneInterval, misuse
    <3>2. CASE r = s
      BY <1>4, <3>1, <3>2 DEF id
    <3>3. CASE r # s
      <4>1. Shown(r) => Shown(r)'
        BY <1>5, <1>6, <1>7, <3>3
      <4> QED
        BY <1>1, <1>4, <3>1, <3>3, <4>1
    <3> QED
      BY <3>2, <3>3
  <2> QED
    BY <2>1 DEF OneInterval
<1> QED
  BY <1>4, <1>8, <1>9 DEF PairingInv

\* A chart that is told to remove a series it does not show takes an interval and
\* no place: from then on the series has strayed, or is in no chart.
LEMMA StrayPairs ==
  ASSUME PairingInv, ChartInv', NEW c \in Charts, NEW s \in Series,
         removeTimeSeries(c, s), ~ In(s, c)
  PROVE  PairingInv'
<1>1. /\ UNCHANGED <<seriesSet, resetBoundsTimerId, doubled>>
      /\ strayed' = IF Shown(s) THEN strayed \cup {s} ELSE strayed
  BY DEF removeTimeSeries
<1>2. /\ Live(s)' = Live(s) \ {resetBoundsTimerId[s]}
      /\ \A r \in Series \ {s} : Live(r)' = Live(r)
      /\ OwnInterval'
  BY RemoveClears
<1>3. /\ AnimationType /\ AnimationType'
      /\ intervals' \in Seq(Series \cup {Cleared})
  BY DEF PairingInv, ChartInv, AnimationInv, BoundsInv
<1>4. Paired'
  <2>1. ASSUME NEW r \in Series
        PROVE  /\ IsFiniteSet(Places(seriesSet, r))
               /\ \/ r \in strayed'
                  \/ Cardinality(Places(seriesSet, r)) <= Cardinality(Live(r)')
    <3>1. /\ IsFiniteSet(Places(seriesSet, r))
          /\ \/ r \in strayed
             \/ Cardinality(Places(seriesSet, r)) <= Cardinality(Live(r))
      BY DEF PairingInv, Paired
    <3>2. CASE r # s
      BY <1>1, <1>2, <3>1, <3>2
    <3>3. CASE r = s /\ Shown(s)
      BY <1>1, <3>1, <3>3
    <3>4. CASE r = s /\ ~ Shown(s)
      <4>1. Places(seriesSet, r) = {}
        BY <1>3, <3>4, ShownPlaces
      <4>2. Cardinality(Places(seriesSet, r)) = 0
        BY <4>1, FS_EmptySet
      <4>3. Cardinality(Live(r)') \in Nat
        <5>1. IsFiniteSet(Live(r)) /\ Cardinality(Live(r)) \in Nat
          BY LiveFinite DEF PairingInv, ChartInv, BoundsInv
        <5>2. IsFiniteSet(Live(r)')
          BY <1>2, <3>4, <5>1, FS_RemoveElement
        <5> QED
          BY <5>2, FS_CardinalityType
      <4> QED
        BY <3>1, <4>2, <4>3
    <3> QED
      BY <3>2, <3>3, <3>4
  <2> QED
    BY <1>1, <2>1 DEF Paired, Places
<1>5. OneInterval'
  <2>1. \A r : Shown(r)' <=> Shown(r)
    BY <1>1 DEF Shown, In
  <2> QED
    BY <1>1, <1>2, <2>1 DEF PairingInv, OneInterval
<1> QED
  BY <1>2, <1>4, <1>5 DEF PairingInv

LEMMA RemovePairs ==
  ASSUME PairingInv, ChartInv', NEW c \in Charts, NEW s \in Series,
         removeTimeSeries(c, s)
  PROVE  PairingInv'
BY RemovePlacePairs, StrayPairs

\* bringToFront takes a place out and puts one at the end.
LEMMA FrontPairs ==
  ASSUME PairingInv, ChartInv', NEW c \in Charts, NEW s \in Series,
         bringToFront(c, s)
  PROVE  PairingInv'
<1> DEFINE i == FirstIn(s, c)
           mid == Without(seriesSet, c, i)
           place == <<c, i>>
           last == <<c, Len(mid[c]) + 1>>
<1>1. /\ In(s, c)
      /\ seriesSet' = [seriesSet EXCEPT ![c] = Append(RemoveAt(seriesSet[c], i), s)]
      /\ UNCHANGED <<intervals, resetBoundsTimerId, doubled, strayed>>
  BY DEF bringToFront, timerVars, misuse
<1>2. /\ AnimationType /\ AnimationType'
      /\ seriesSet \in [Charts -> Seq(Series)]
      /\ intervals \in Seq(Series \cup {Cleared})
  BY DEF PairingInv, ChartInv, AnimationInv, AnimationType, BoundsInv
<1>3. /\ i \in 1 .. Len(seriesSet[c])
      /\ place \in Places(seriesSet, s)
      /\ \A r : r # s => place \notin Places(seriesSet, r)
  BY <1>1, <1>2, FirstPlace
<1>4. seriesSet' = WithLast(mid, c, s)
  BY <1>1, <1>2 DEF WithLast, Without
<1> HIDE DEF i
<1>5. ASSUME NEW r \in Series
      PROVE  /\ IsFiniteSet(Places(seriesSet, r))
             /\ Cardinality(Places(seriesSet, r)) \in Nat
             /\ mid \in [Charts -> Seq(Series)]
             /\ IsFiniteSet(Places(mid, r))
             /\ Cardinality(Places(mid, r))
                  <= Cardinality(Places(seriesSet, r) \ {place})
             /\ Places(seriesSet, r) \ {place} # {} => Places(mid, r) # {}
  <2>1. IsFiniteSet(Places(seriesSet, r))
    BY DEF PairingInv, Paired
  <2> QED
    BY <1>2, <1>3, <2>1, RemovedPlaces, FS_CardinalityType
<1> HIDE DEF mid, place, last
<1>6. /\ Places(seriesSet', s) = Places(mid, s) \cup {last}
      /\ last \notin Places(mid, s)
      /\ \A r : r # s => Places(seriesSet', r) = Places(mid, r)
  <2>1. mid \in [Charts -> Seq(Series)]
    BY <1>5
  <2> QED
    BY <1>4, <2>1, AppendedPlaces DEF last
<1>7. ASSUME NEW r \in Series
      PROVE  /\ IsFiniteSet(Places(seriesSet', r))
             /\ Cardinality(Places(seriesSet', r))
                  <= Cardinality(Places(seriesSet, r))
             /\ Places(seriesSet, r) # {} => Places(seriesSet', r) # {}
  <2>1. CASE r = s
    <3>1. Cardinality(Places(seriesSet, s) \ {place})
            = Cardinality(Places(seriesSet, s)) - 1
      BY <1>3, <1>5, FS_RemoveElement
    <3>2. /\ IsFiniteSet(Places(mid, s) \cup {last})
          /\ Cardinality(Places(mid, s) \cup {last})
               = Cardinality(Places(mid, s)) + 1
      BY <1>5, <1>6, FS_AddElement
    <3>3. Cardinality(Places(mid, s)) \in Nat
      BY <1>5, FS_CardinalityType
    <3>4. Cardinality(Places(mid, s))
            <= Cardinality(Places(seriesSet, s) \ {place})
      BY <1>5
    <3>5. Cardinality(Places(seriesSet, s)) \in Nat
      BY <1>5
    <3>6. Cardinality(Places(mid, s)) + 1 <= Cardinality(Places(seriesSet, s))
      BY <3>1, <3>3, <3>4, <3>5
    <3>7. Places(seriesSet', s) # {}
      BY <1>6
    <3> QED
      BY <1>6, <2>1, <3>2, <3>6, <3>7
  <2>2. CASE r # s
    <3>1. Places(seriesSet, r) \ {place} = Places(seriesSet, r)
      BY <1>3, <2>2
    <3> QED
      BY <1>5, <1>6, <2>2, <3>1
  <2> QED
    BY <2>1, <2>2
<1>8. \A r \in Series : /\ Shown(r) <=> Places(seriesSet, r) # {}
                        /\ Shown(r)' <=> Places(seriesSet', r) # {}
  BY <1>2, ShownPlaces
<1>9. \A r \in Series : Live(r)' = Live(r)
  BY <1>1 DEF Live
<1>10. OwnInterval'
  BY <1>1 DEF PairingInv, OwnInterval
<1>11. Paired'
  <2>1. ASSUME NEW r \in Series
        PROVE  \/ r \in strayed
               \/ Cardinality(Places(seriesSet', r)) <= Cardinality(Live(r))
    <3>1. /\ \/ r \in strayed
             \/ Cardinality(Places(seriesSet, r)) <= Cardinality(Live(r))
          /\ Cardinality(Live(r)) \in Nat
          /\ Cardinality(Places(seriesSet, r)) \in Nat
          /\ Cardinality(Places(seriesSet', r)) \in Nat
      BY <1>2, <1>5, <1>7, LiveFinite, FS_CardinalityType
      DEF PairingInv, Paired
    <3> QED
      BY <1>7, <3>1
  <2> QED
    BY <1>1, <1>7, <1>9, <2>1 DEF Paired, Places
<1>12. OneInterval'
  BY <1>1, <1>7, <1>8, <1>9 DEF PairingInv, OneInterval
<1> QED
  BY <1>10, <1>11, <1>12 DEF PairingInv

\* The other steps touch neither places nor intervals.
LEMMA QuietPairs ==
  ASSUME PairingInv, ChartInv', UNCHANGED <<seriesSet, timerVars, misuse>>
  PROVE  PairingInv'
BY DEF PairingInv, OwnInterval, Paired, OneInterval, Places, Live, Shown, In,
       timerVars, misuse

LEMMA PairingStep ==
  ASSUME PairingInv, [Next]_vars
  PROVE  PairingInv'
<1>1. ChartInv'
  BY ChartStep DEF PairingInv
<1>2. ASSUME NEW c \in Charts, NEW s \in Series,
             \/ addTimeSeries(c, s)
             \/ removeTimeSeries(c, s)
             \/ bringToFront(c, s)
      PROVE  PairingInv'
  BY <1>1, <1>2, AddPairs, RemovePairs, FrontPairs
<1>3. ASSUME NEW c \in Charts, Frame(c)
      PROVE  UNCHANGED <<seriesSet, timerVars, misuse>>
  BY <1>3 DEF Frame, PaintFrame, FrameThrows, SkipFrame, Render
<1>4. ASSUME NEW s \in Series,
             \/ Clear(s)
             \/ Toggle(s)
             \/ \E t \in now - MaxLateness .. now, v \in Readings,
                   sum \in BOOLEAN : AppendPoint(s, t, v, sum)
      PROVE  UNCHANGED <<seriesSet, timerVars, misuse>>
  BY <1>4 DEF Clear, Toggle, Switch, AppendPoint
<1>5. ASSUME NEW c \in Charts,
             \/ start(c) \/ stop(c) \/ MouseOut(c)
             \/ \E x \in MouseXs[c] : MouseMove(c, x)
      PROVE  UNCHANGED <<seriesSet, timerVars, misuse>>
  BY <1>5 DEF start, stop, MouseOut, MouseMove
<1>6. ASSUME \/ \E i \in DOMAIN intervals : ResetBounds(i)
             \/ Tick
             \/ UNCHANGED vars
      PROVE  UNCHANGED <<seriesSet, timerVars, misuse>>
  BY <1>6 DEF ResetBounds, Tick, vars
<1> QED
  BY <1>1, <1>2, <1>3, <1>4, <1>5, <1>6, QuietPairs DEF Next

\* As long as a series is in a chart an interval recomputes its bounds, and the
\* intervals of a series that was never in two places end with its removal,
\* although the series remembers one only (addTimeSeries, removeTimeSeries).  A
\* series that a chart was told to remove while another one shows it has strayed.
THEOREM IntervalsFollow == Spec => []IntervalsFollowCharts
<1>1. Init => PairingInv
  <2> SUFFICES ASSUME Init PROVE PairingInv
    OBVIOUS
  <2>1. ChartInv
    BY ChartStart
  <2>2. OwnInterval
    BY DEF Init, OwnInterval
  <2>3. \A s : Live(s) = {} /\ Places(seriesSet, s) = {}
    <3>1. DOMAIN intervals = {} /\ \A c \in Charts : DOMAIN seriesSet[c] = {}
      BY DEF Init
    <3> QED
      BY <3>1 DEF Live, Places
  <2>4. Paired
    BY <2>3, FS_EmptySet DEF Paired
  <2>5. OneInterval
    BY <2>3 DEF OneInterval
  <2> QED
    BY <2>1, <2>2, <2>4, <2>5 DEF PairingInv
<1>2. PairingInv /\ [Next]_vars => PairingInv'
  BY PairingStep
<1>3. PairingInv => IntervalsFollowCharts
  <2> SUFFICES ASSUME PairingInv, NEW s \in Series
               PROVE  /\ Shown(s) => Live(s) # {} \/ s \in strayed
                      /\ ~ Shown(s) /\ s \notin doubled => Live(s) = {}
    BY DEF IntervalsFollowCharts, Live
  <2>1. ~ Shown(s) /\ s \notin doubled => Live(s) = {}
    BY DEF PairingInv, OneInterval
  <2>2. ASSUME Shown(s), Live(s) = {}, s \notin strayed PROVE FALSE
    <3>1. seriesSet \in [Charts -> Seq(Series)]
      BY DEF PairingInv, ChartInv, AnimationInv, AnimationType
    <3>2. Places(seriesSet, s) # {}
      BY <2>2, <3>1, SomePlace DEF Shown, In
    <3>3. /\ IsFiniteSet(Places(seriesSet, s))
          /\ Cardinality(Places(seriesSet, s)) <= Cardinality(Live(s))
      BY <2>2 DEF PairingInv, Paired
    <3>4. Cardinality(Live(s)) = 0
      BY <2>2, FS_EmptySet
    <3>5. /\ Cardinality(Places(seriesSet, s)) \in Nat
          /\ Cardinality(Places(seriesSet, s)) # 0
      BY <3>2, <3>3, FS_EmptySet, FS_CardinalityType
    <3> QED
      BY <3>3, <3>4, <3>5
  <2> QED
    BY <2>1, <2>2
<1> QED
  BY <1>1, <1>2, <1>3, PTL DEF Spec

=============================================================================
