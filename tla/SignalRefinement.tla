-------------------------- MODULE SignalRefinement --------------------------
(***************************************************************************)
(* SmoothieChart implements LiveSignal: what charts are given to draw is,  *)
(* of every series, a map from times to values that forgets only from its  *)
(* old end.  The map is well defined because a series has no time twice    *)
(* (OrderKept).                                                            *)
(***************************************************************************)
EXTENDS SmoothieChartProofs

-----------------------------------------------------------------------------
(* The map of a series.                                                     *)

\* It has the times of the points, and their values.
LEMMA SamplesOfPoints ==
  ASSUME NEW d \in Seq(Point), Chronological(d)
  PROVE  /\ DOMAIN SamplesOf(d) = {p.time : p \in ToSet(d)}
         /\ \A p \in ToSet(d) : SamplesOf(d)[p.time] = p.value
<1>1. DOMAIN SamplesOf(d) = {p.time : p \in ToSet(d)}
  BY DEF SamplesOf
<1>2. ASSUME NEW p \in ToSet(d)
      PROVE  SamplesOf(d)[p.time] = p.value
  <2> DEFINE chosen == CHOOSE q \in ToSet(d) : q.time = p.time
  <2>1. chosen \in ToSet(d) /\ chosen.time = p.time
    OBVIOUS
  <2>2. SamplesOf(d)[p.time] = chosen.value
    BY DEF SamplesOf
  <2> HIDE DEF chosen
  <2>3. chosen = p
    BY <2>1, OnePointPerTime
  <2> QED
    BY <2>2, <2>3
<1> QED
  BY <1>1, <1>2

\* append writes one sample into the map.
LEMMA RecordedSample ==
  ASSUME NEW d \in Seq(Point), Chronological(d),
         NEW t \in Int, NEW v \in Value, NEW sum \in BOOLEAN
  PROVE  /\ DOMAIN SamplesOf(append(d, t, v, sum)) =
              DOMAIN SamplesOf(d) \cup {t}
         /\ SamplesOf(append(d, t, v, sum))[t] = Stored(d, t, v, sum)
         /\ \A u \in DOMAIN SamplesOf(d) :
              u # t => SamplesOf(append(d, t, v, sum))[u] = SamplesOf(d)[u]
<1> DEFINE after == append(d, t, v, sum)
           w == Stored(d, t, v, sum)
           new == [time |-> t, value |-> w]
           rest == {p \in ToSet(d) : p.time # t}
<1>1. after \in Seq(Point) /\ Chronological(after)
  BY AppendKeepsOrder
<1>2. ToSet(after) = rest \cup {new}
  BY AppendedPoints
<1>3. new.time = t /\ new.value = w
  OBVIOUS
<1> HIDE DEF after, w, new
<1>4. /\ DOMAIN SamplesOf(after) = {p.time : p \in ToSet(after)}
      /\ \A p \in ToSet(after) : SamplesOf(after)[p.time] = p.value
  BY <1>1, SamplesOfPoints
<1>5. /\ DOMAIN SamplesOf(d) = {p.time : p \in ToSet(d)}
      /\ \A p \in ToSet(d) : SamplesOf(d)[p.time] = p.value
  BY SamplesOfPoints
<1>6. DOMAIN SamplesOf(after) = DOMAIN SamplesOf(d) \cup {t}
  <2>1. {p.time : p \in ToSet(after)} = {p.time : p \in ToSet(d)} \cup {t}
    BY <1>2, <1>3
  <2> QED
    BY <1>4, <1>5, <2>1
<1>7. SamplesOf(after)[t] = w
  BY <1>2, <1>3, <1>4
<1>8. ASSUME NEW u \in DOMAIN SamplesOf(d), u # t
      PROVE  SamplesOf(after)[u] = SamplesOf(d)[u]
  <2>1. PICK p \in ToSet(d) : p.time = u
    BY <1>5
  <2>2. p \in ToSet(after)
    BY <1>2, <1>8, <2>1
  <2> QED
    BY <1>4, <1>5, <2>1, <2>2
<1> QED
  BY <1>6, <1>7, <1>8 DEF after, w

\* dropOldData forgets samples from the old end of the map.
LEMMA ForgottenSamples ==
  ASSUME NEW d \in Seq(Point), Chronological(d), NEW oldest, NEW max
  PROVE  LET new == SamplesOf(dropOldData(d, oldest, max)) IN
         /\ DOMAIN new \in Signals!Recent(DOMAIN SamplesOf(d))
         /\ new = [t \in DOMAIN new |-> SamplesOf(d)[t]]
<1> DEFINE after == dropOldData(d, oldest, max)
           new == SamplesOf(after)
           old == SamplesOf(d)
<1>1. after \in Seq(Point) /\ Chronological(after)
  BY DropKeepsOrder
<1>2. \/ ToSet(after) = ToSet(d)
      \/ \E q \in ToSet(d) : ToSet(after) = {p \in ToSet(d) : p.time >= q.time}
  BY KeptPoints
<1> HIDE DEF after
<1>3. /\ DOMAIN new = {p.time : p \in ToSet(after)}
      /\ \A p \in ToSet(after) : new[p.time] = p.value
  BY <1>1, SamplesOfPoints
<1>4. /\ DOMAIN old = {p.time : p \in ToSet(d)}
      /\ \A p \in ToSet(d) : old[p.time] = p.value
  BY SamplesOfPoints
<1>5. new = [t \in DOMAIN new |-> new[t]]
  BY DEF SamplesOf
<1> HIDE DEF new, old
<1>6. ToSet(after) \subseteq ToSet(d)
  BY <1>2
<1>7. ASSUME NEW t \in DOMAIN new
      PROVE  new[t] = old[t]
  <2>1. PICK p \in ToSet(after) : p.time = t
    BY <1>3
  <2> QED
    BY <1>3, <1>4, <1>6, <2>1
<1>8. new = [t \in DOMAIN new |-> old[t]]
  BY <1>5, <1>7
<1>9. DOMAIN new \in Signals!Recent(DOMAIN old)
  <2>1. CASE ToSet(after) = ToSet(d)
    <3>1. DOMAIN new = DOMAIN old
      BY <1>3, <1>4, <2>1
    <3> QED
      BY <3>1 DEF Signals!Recent
  <2>2. ASSUME NEW q \in ToSet(d),
               ToSet(after) = {p \in ToSet(d) : p.time >= q.time}
        PROVE  DOMAIN new \in Signals!Recent(DOMAIN old)
    <3>1. DOMAIN new = {u \in DOMAIN old : u >= q.time}
      BY <1>3, <1>4, <2>2
    <3>2. q.time \in DOMAIN old
      BY <1>4
    <3> QED
      BY <3>1, <3>2 DEF Signals!Recent
  <2> QED
    BY <1>2, <2>1, <2>2
<1> QED
  BY <1>8, <1>9 DEF new, old, after

-----------------------------------------------------------------------------
(* The steps.                                                               *)

\* A series without points stands for the map without times.
LEMMA EmptyMap == SamplesOf(<<>>) = Signals!Nothing
<1>1. ToSet(<<>>) = {}
  BY DEF ToSet
<1> QED
  BY <1>1 DEF SamplesOf, Signals!Nothing

LEMMA StartsEmpty ==
  ASSUME Init
  PROVE  Signals!Init
<1>1. data = [s \in Series |-> <<>>]
  BY DEF Init
<1>2. drawable = [s \in Series |-> Signals!Nothing]
  BY <1>1, EmptyMap DEF drawable
<1> QED
  BY <1>2 DEF Signals!Init

LEMMA AppendPointRecords ==
  ASSUME DataInv, NEW s \in Series, NEW t \in now - MaxLateness .. now,
         NEW v \in Readings, NEW sum \in BOOLEAN, AppendPoint(s, t, v, sum)
  PROVE  Signals!Next
<1>1. now \in Int /\ MaxLateness \in Int /\ v \in Value
  BY SmoothieChartAssumption DEF DataInv, Value
<1>2. t \in Int
  BY <1>1
<1>3. data[s] \in Seq(Point) /\ Chronological(data[s])
  BY DEF DataInv, SeriesInOrder
<1> DEFINE w == Stored(data[s], t, v, sum)
           old == SamplesOf(data[s])
           new == [u \in DOMAIN old \cup {t} |-> IF u = t THEN w ELSE old[u]]
<1>4. w \in Value
  BY <1>1, <1>2, <1>3, StoredValue
<1>5. SamplesOf(append(data[s], t, v, sum)) = new
  <2> DEFINE after == SamplesOf(append(data[s], t, v, sum))
  <2>1. /\ DOMAIN after = DOMAIN old \cup {t}
        /\ after[t] = w
        /\ \A u \in DOMAIN old : u # t => after[u] = old[u]
    BY <1>1, <1>2, <1>3, RecordedSample
  <2>2. after = [u \in DOMAIN after |-> after[u]]
    BY DEF SamplesOf
  <2> HIDE DEF after, w, old
  <2> QED
    BY <2>1, <2>2 DEF after
<1>0. data' = [data EXCEPT ![s] = append(data[s], t, v, sum)]
  BY DEF AppendPoint
<1>6. drawable[s] = old
  BY DEF drawable
<1> HIDE DEF w, old
<1>7. drawable' = [drawable EXCEPT ![s] = new]
  <2>1. \A r \in Series :
          data'[r] = IF r = s THEN append(data[s], t, v, sum) ELSE data[r]
    BY <1>0 DEF DataInv
  <2>2. \A r \in Series :
          SamplesOf(data'[r]) = IF r = s THEN new ELSE SamplesOf(data[r])
    BY <1>5, <2>1
  <2>3. drawable' = [r \in Series |-> SamplesOf(data'[r])]
    BY DEF drawable, SamplesOf
  <2>4. drawable = [r \in Series |-> SamplesOf(data[r])]
    BY DEF drawable
  <2> HIDE DEF new
  <2> QED
    BY <2>2, <2>3, <2>4
<1>8. drawable'[s] = new
  BY <1>7 DEF drawable
<1>9. t \in DOMAIN drawable'[s] /\ drawable'[s][t] = w
  BY <1>8
<1>10. drawable' =
         [drawable EXCEPT ![s] =
            [u \in DOMAIN drawable[s] \cup {t} |->
               IF u = t THEN w ELSE drawable[s][u]]]
  BY <1>6, <1>7
<1>11. w \in {drawable'[s][t]} \cap Value
  BY <1>4, <1>9
<1>12. Signals!Record(s, t)
  BY <1>10, <1>11 DEF Signals!Record
<1> QED
  BY <1>9, <1>12 DEF Signals!Next

LEMMA ClearClears ==
  ASSUME DataInv, NEW s \in Series, Clear(s)
  PROVE  Signals!Next
<1>1. data' = [data EXCEPT ![s] = <<>>]
  BY DEF Clear
<1>2. \A r \in Series :
        SamplesOf(data'[r]) = IF r = s THEN Signals!Nothing
                                       ELSE SamplesOf(data[r])
  BY <1>1, EmptyMap DEF DataInv
<1>3. /\ drawable' = [r \in Series |-> SamplesOf(data'[r])]
      /\ drawable = [r \in Series |-> SamplesOf(data[r])]
  BY DEF drawable, SamplesOf
<1>4. drawable' = [drawable EXCEPT ![s] = Signals!Nothing]
  BY <1>2, <1>3
<1>5. Signals!Clear(s)
  BY <1>4 DEF Signals!Clear
<1> QED
  BY <1>5 DEF Signals!Next

LEMMA RenderForgets ==
  ASSUME DataInv, NEW c \in Charts, Render(c)
  PROVE  Signals!Next
<1> DEFINE oldest == OldestValidTime(c, ChartTime(c))
           max    == Options[c].maxDataSetLength
<1>1. data' = DropOldData(c, oldest)
  BY DEF Render
<1>2. ASSUME NEW s \in Series
      PROVE  /\ DOMAIN SamplesOf(data'[s])
                  \in Signals!Recent(DOMAIN SamplesOf(data[s]))
             /\ SamplesOf(data'[s]) =
                  [t \in DOMAIN SamplesOf(data'[s]) |-> SamplesOf(data[s])[t]]
  <2>1. data[s] \in Seq(Point) /\ Chronological(data[s])
    BY DEF DataInv, SeriesInOrder
  <2>2. data'[s] = IF s \in Drawn(c, oldest)
                   THEN dropOldData(data[s], oldest, max)
                   ELSE data[s]
    BY <1>1 DEF DropOldData
  <2>3. CASE s \in Drawn(c, oldest)
    BY <2>1, <2>2, <2>3, ForgottenSamples
  <2>4. CASE s \notin Drawn(c, oldest)
    <3>1. data'[s] = data[s]
      BY <2>2, <2>4
    <3>2. DOMAIN SamplesOf(data[s])
            \in Signals!Recent(DOMAIN SamplesOf(data[s]))
      BY DEF Signals!Recent
    <3>3. SamplesOf(data[s]) =
            [t \in DOMAIN SamplesOf(data[s]) |-> SamplesOf(data[s])[t]]
      BY DEF SamplesOf
    <3> QED
      BY <3>1, <3>2, <3>3
  <2> QED
    BY <2>3, <2>4
<1>3. /\ drawable' = [s \in Series |-> SamplesOf(data'[s])]
      /\ drawable = [s \in Series |-> SamplesOf(data[s])]
  BY DEF drawable, SamplesOf
<1>4. \A s \in Series : /\ drawable'[s] = SamplesOf(data'[s])
                        /\ drawable[s] = SamplesOf(data[s])
  BY <1>3
<1>5. \A s \in Series :
        DOMAIN drawable'[s] \in Signals!Recent(DOMAIN drawable[s])
  BY <1>2, <1>4
<1>6. drawable' =
        [s \in Series |-> [t \in DOMAIN drawable'[s] |-> drawable[s][t]]]
  <2>1. \A s \in Series :
          SamplesOf(data'[s]) = [t \in DOMAIN drawable'[s] |-> drawable[s][t]]
    BY <1>2, <1>4
  <2> QED
    BY <1>3, <2>1
<1>7. Signals!Forget
  BY <1>5, <1>6 DEF Signals!Forget
<1> QED
  BY <1>7 DEF Signals!Next

\* The actions that touch no point touch no map.
LEMMA QuietSignals ==
  ASSUME UNCHANGED data
  PROVE  UNCHANGED drawable
BY DEF drawable, SamplesOf

LEMMA SignalStep ==
  ASSUME DataInv, [Next]_vars
  PROVE  [Signals!Next]_drawable
<1>1. ASSUME NEW s \in Series, NEW t \in now - MaxLateness .. now,
             NEW v \in Readings, NEW sum \in BOOLEAN, AppendPoint(s, t, v, sum)
      PROVE  Signals!Next
  BY <1>1, AppendPointRecords
<1>2. ASSUME NEW s \in Series, Clear(s)
      PROVE  Signals!Next
  BY <1>2, ClearClears
<1>3. ASSUME NEW s \in Series, Toggle(s)
      PROVE  UNCHANGED data
  BY <1>3 DEF Toggle
<1>4. ASSUME NEW i \in DOMAIN intervals, ResetBounds(i)
      PROVE  UNCHANGED data
  BY <1>4 DEF ResetBounds
<1>5. ASSUME NEW c \in Charts, NEW s \in Series,
             \/ addTimeSeries(c, s)
             \/ removeTimeSeries(c, s)
             \/ bringToFront(c, s)
      PROVE  UNCHANGED data
  BY <1>5 DEF addTimeSeries, removeTimeSeries, bringToFront
<1>6. ASSUME NEW c \in Charts,
             \/ start(c)
             \/ stop(c)
             \/ MouseOut(c)
             \/ \E x \in MouseXs[c] : MouseMove(c, x)
      PROVE  UNCHANGED data
  BY <1>6 DEF start, stop, MouseOut, MouseMove
<1>7. ASSUME NEW c \in Charts, Frame(c)
      PROVE  Signals!Next \/ UNCHANGED data
  <2>1. PICK f \in frames[c] :
          PaintFrame(c, f) \/ FrameThrows(c, f) \/ SkipFrame(c, f)
    BY <1>7 DEF Frame
  <2>2. Render(c) \/ UNCHANGED data
    BY <2>1 DEF PaintFrame, FrameThrows, SkipFrame
  <2> QED
    BY <2>2, RenderForgets
<1>8. ASSUME Tick \/ UNCHANGED vars
      PROVE  UNCHANGED data
  BY <1>8 DEF Tick, vars
<1>9. Signals!Next \/ UNCHANGED data
  BY <1>1, <1>2, <1>3, <1>4, <1>5, <1>6, <1>7, <1>8 DEF Next
<1> QED
  BY <1>9, QuietSignals

\* The series of the charts implement the abstract specification of signals,
\* for any charts that share them and any calls of the page.
THEOREM SeriesImplementSignals == Spec => SeriesAreSignals
<1>1. Init => DataInv /\ Signals!Init
  BY DataStart, StartsEmpty
<1>2. DataInv /\ [Next]_vars => DataInv' /\ [Signals!Next]_drawable
  BY DataStep, SignalStep
<1> QED
  BY <1>1, <1>2, PTL DEF Spec, SeriesAreSignals, Signals!Spec

=============================================================================
