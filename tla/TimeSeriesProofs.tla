-------------------------- MODULE TimeSeriesProofs --------------------------
(***************************************************************************)
(* What append and dropOldData do to any series in chronological order.    *)
(***************************************************************************)
EXTENDS TimeSeries, ProofFacts

\* The times of the points of a series are numbers.
LEMMA PointsHaveTimes ==
  ASSUME NEW data \in Seq(Point), NEW j \in 1 .. Len(data)
  PROVE  data[j] \in Point /\ data[j].time \in Int
<1>1. data[j] \in Point
  OBVIOUS
<1>2. \A p \in Point : p.time \in Int
  BY DEF Point
<1> QED
  BY <1>1, <1>2

\* The rewinding of append ends at the last point that is not later.
LEMMA RewindStops ==
  ASSUME NEW data \in Seq(Point), NEW time \in Int
  PROVE  LET i == Rewind(data, time) IN
         /\ i \in 0 .. Len(data)
         /\ i > 0 => data[i].time <= time
         /\ \A j \in i + 1 .. Len(data) : data[j].time > time
<1> DEFINE S == {i \in 0 .. Len(data) : i > 0 => data[i].time <= time}
<1>1. Len(data) \in Nat /\ 0 \in S
  OBVIOUS
<1>2. S \in SUBSET (0 .. Len(data)) /\ S # {}
  BY <1>1
<1>3. PICK m \in S : \A n \in S : n <= m
  BY <1>1, <1>2, BoundedMaximum
<1>4. \A j \in m + 1 .. Len(data) : data[j].time > time
  <2>1. SUFFICES ASSUME NEW j \in m + 1 .. Len(data)
                 PROVE  data[j].time > time
    OBVIOUS
  <2>2. j \in 1 .. Len(data) /\ ~ (j <= m)
    BY <1>1
  <2>3. data[j].time \in Int
    BY <2>2, PointsHaveTimes
  <2>4. j \notin S
    BY <1>3, <2>2
  <2> QED
    BY <2>2, <2>3, <2>4
<1>5. \E i \in 0 .. Len(data) :
        /\ i > 0 => data[i].time <= time
        /\ \A j \in i + 1 .. Len(data) : data[j].time > time
  BY <1>4
<1> QED
  BY <1>5 DEF Rewind

\* An insertion moves the points behind it one place.
LEMMA Inserted ==
  ASSUME NEW data \in Seq(Point), NEW i \in 0 .. Len(data), NEW p \in Point
  PROVE  /\ InsertAt(data, i + 1, p) \in Seq(Point)
         /\ Len(InsertAt(data, i + 1, p)) = Len(data) + 1
         /\ \A k \in 1 .. Len(data) + 1 :
              InsertAt(data, i + 1, p)[k] =
                IF k <= i THEN data[k] ELSE IF k = i + 1 THEN p ELSE data[k - 1]
<1> DEFINE before == SubSeq(data, 1, i)
           after  == SubSeq(data, i + 1, Len(data))
           start  == before \o <<p>>
<1>0. Len(data) \in Nat /\ i \in Int /\ (i + 1) - 1 = i
  OBVIOUS
<1>1. /\ before \in Seq(Point) /\ Len(before) = i
      /\ \A k \in 1 .. i : before[k] = data[k]
  <2>1. \A k \in 1 .. i : data[k] \in Point
    BY <1>0
  <2>2. /\ before \in Seq(Point)
        /\ Len(before) = IF 1 <= i THEN i - 1 + 1 ELSE 0
        /\ \A k \in 1 .. i - 1 + 1 : before[k] = data[1 + k - 1]
    BY <1>0, <2>1, SubSeqProperties
  <2> QED
    BY <1>0, <2>2
<1>2. /\ after \in Seq(Point) /\ Len(after) = Len(data) - i
      /\ \A k \in 1 .. Len(data) - i : after[k] = data[i + k]
  <2>1. \A k \in i + 1 .. Len(data) : data[k] \in Point
    BY <1>0
  <2>2. /\ after \in Seq(Point)
        /\ Len(after) = IF i + 1 <= Len(data) THEN Len(data) - (i + 1) + 1
                                              ELSE 0
        /\ \A k \in 1 .. Len(data) - (i + 1) + 1 : after[k] = data[i + 1 + k - 1]
    BY <1>0, <2>1, SubSeqProperties
  <2> QED
    BY <1>0, <2>2
<1>3. <<p>> \in Seq(Point) /\ Len(<<p>>) = 1 /\ <<p>>[1] = p
  OBVIOUS
<1> HIDE DEF before, after
<1>4. /\ start \in Seq(Point) /\ Len(start) = i + 1
      /\ \A k \in 1 .. i + 1 : start[k] = IF k <= i THEN data[k] ELSE p
  <2>1. /\ start \in Seq(Point) /\ Len(start) = Len(before) + 1
        /\ \A k \in 1 .. Len(before) + 1 :
             start[k] = IF k <= Len(before) THEN before[k]
                                            ELSE <<p>>[k - Len(before)]
    BY <1>1, <1>3, ConcatProperties
  <2> QED
    BY <1>0, <1>1, <1>3, <2>1
<1> HIDE DEF start
<1>5. InsertAt(data, i + 1, p) = start \o after
  BY <1>0 DEF InsertAt, before, after, start
<1>6. /\ start \o after \in Seq(Point)
      /\ Len(start \o after) = Len(start) + Len(after)
      /\ \A k \in 1 .. Len(start) + Len(after) :
           (start \o after)[k] = IF k <= Len(start) THEN start[k]
                                                    ELSE after[k - Len(start)]
  BY <1>2, <1>4, ConcatProperties
<1>7. \A k \in 1 .. Len(data) + 1 :
        (start \o after)[k] =
          IF k <= i THEN data[k] ELSE IF k = i + 1 THEN p ELSE data[k - 1]
  <2>1. SUFFICES ASSUME NEW k \in 1 .. Len(data) + 1
                 PROVE  (start \o after)[k] =
                          IF k <= i THEN data[k]
                          ELSE IF k = i + 1 THEN p ELSE data[k - 1]
    OBVIOUS
  <2>2. Len(start) + Len(after) = Len(data) + 1
    BY <1>0, <1>2, <1>4
  <2>3. CASE k <= i + 1
    <3>1. k \in 1 .. i + 1 /\ k <= Len(start)
      BY <1>0, <1>4, <2>3
    <3>2. (start \o after)[k] = start[k]
      BY <1>6, <2>2, <3>1
    <3> QED
      BY <1>0, <1>4, <3>1, <3>2
  <2>4. CASE ~ (k <= i + 1)
    <3>1. ~ (k <= Len(start)) /\ ~ (k <= i) /\ k # i + 1
      BY <1>0, <1>4, <2>4
    <3>2. k - (i + 1) \in 1 .. Len(data) - i /\ i + (k - (i + 1)) = k - 1
      BY <1>0, <2>4
    <3>3. (start \o after)[k] = after[k - (i + 1)]
      BY <1>4, <1>6, <2>2, <3>1
    <3>4. after[k - (i + 1)] = data[i + (k - (i + 1))]
      BY <1>2, <3>2
    <3> QED
      BY <3>1, <3>2, <3>3, <3>4
  <2> QED
    BY <2>3, <2>4
<1>8. start \o after \in Seq(Point) /\ Len(start \o after) = Len(data) + 1
  BY <1>0, <1>2, <1>4, <1>6
<1> DEFINE whole == start \o after
<1> HIDE DEF whole
<1>9. /\ whole \in Seq(Point) /\ Len(whole) = Len(data) + 1
      /\ \A k \in 1 .. Len(data) + 1 :
           whole[k] = IF k <= i THEN data[k]
                      ELSE IF k = i + 1 THEN p ELSE data[k - 1]
  BY <1>7, <1>8, Zenon DEF whole
<1>10. InsertAt(data, i + 1, p) = whole
  BY <1>5 DEF whole
<1> QED
  BY <1>9, <1>10, Zenon

-----------------------------------------------------------------------------
(* append.                                                                  *)

\* The value that is stored is a number or NaN.
LEMMA StoredValue ==
  ASSUME NEW data \in Seq(Point), NEW time \in Int, NEW value \in Value,
         NEW sum \in BOOLEAN
  PROVE  Stored(data, time, value, sum) \in Value
<1>1. \A a, b \in Value : Plus(a, b) \in Value
  BY DEF Plus, Value, isNaN
<1>2. Repeats(data, time) => data[Rewind(data, time)].value \in Value
  <2>1. SUFFICES ASSUME Repeats(data, time)
                 PROVE  data[Rewind(data, time)].value \in Value
    OBVIOUS
  <2>2. Rewind(data, time) \in 1 .. Len(data)
    BY <2>1, RewindStops DEF Repeats
  <2>3. data[Rewind(data, time)] \in Point
    BY <2>2, PointsHaveTimes
  <2> QED
    BY <2>3 DEF Point
<1> QED
  BY <1>1, <1>2 DEF Stored

\* append keeps a series a series, in order or not.
LEMMA AppendTyped ==
  ASSUME NEW data \in Seq(Point), NEW time \in Int, NEW value \in Value,
         NEW sum \in BOOLEAN
  PROVE  append(data, time, value, sum) \in Seq(Point)
<1> DEFINE i == Rewind(data, time)
           p == [time |-> time, value |-> Stored(data, time, value, sum)]
<1>1. p \in Point
  BY StoredValue DEF Point
<1>2. i \in 0 .. Len(data)
  BY RewindStops
<1> HIDE DEF i, p
<1>3. CASE Repeats(data, time)
  <2>1. i \in 1 .. Len(data)
    BY <1>2, <1>3 DEF Repeats, i
  <2>2. [data EXCEPT ![i] = p] \in Seq(Point)
    BY <1>1, <2>1, ExceptSeq
  <2> QED
    BY <1>3, <2>2 DEF append, i, p
<1>4. CASE ~ Repeats(data, time)
  <2>1. InsertAt(data, i + 1, p) \in Seq(Point)
    BY <1>1, <1>2, Inserted
  <2> QED
    BY <1>4, <2>1 DEF append, i, p
<1> QED
  BY <1>3, <1>4

\* append keeps a series a series, and in order: a late point gets its place,
\* and a repeated time stamp no second one.
THEOREM AppendKeepsOrder ==
  ASSUME NEW data \in Seq(Point), Chronological(data),
         NEW time \in Int, NEW value \in Value, NEW sum \in BOOLEAN
  PROVE  /\ append(data, time, value, sum) \in Seq(Point)
         /\ Chronological(append(data, time, value, sum))
<1> DEFINE i == Rewind(data, time)
           p == [time |-> time, value |-> Stored(data, time, value, sum)]
<1>1. p \in Point /\ p.time = time
  BY StoredValue DEF Point
<1>2. /\ i \in 0 .. Len(data)
      /\ i > 0 => data[i].time <= time
      /\ \A j \in i + 1 .. Len(data) : data[j].time > time
  BY RewindStops
<1>3. \A j \in 1 .. Len(data) : data[j].time \in Int
  BY PointsHaveTimes
<1>4. \A j, k \in 1 .. Len(data) : j < k => data[j].time < data[k].time
  BY DEF Chronological
<1>5. Len(data) \in Nat
  OBVIOUS
<1> HIDE DEF i, p
<1>6. CASE Repeats(data, time)
  <2> DEFINE new == [data EXCEPT ![i] = p]
  <2>1. append(data, time, value, sum) = new
    BY <1>6 DEF append, i, p
  <2>2. i \in 1 .. Len(data) /\ data[i].time = time
    BY <1>2, <1>6 DEF Repeats, i
  <2>3. /\ new \in Seq(Point) /\ Len(new) = Len(data)
        /\ \A j \in 1 .. Len(data) : new[j] = IF j = i THEN p ELSE data[j]
    BY <1>1, <2>2, ExceptSeq
  <2> HIDE DEF new
  <2>4. \A j \in 1 .. Len(data) : new[j].time = data[j].time
    BY <1>1, <2>2, <2>3
  <2>5. Chronological(new)
    BY <1>4, <2>3, <2>4 DEF Chronological
  <2> QED
    BY <2>1, <2>3, <2>5
<1>7. CASE ~ Repeats(data, time)
  <2> DEFINE new == InsertAt(data, i + 1, p)
  <2>1. append(data, time, value, sum) = new
    BY <1>7 DEF append, i, p
  <2>2. /\ new \in Seq(Point) /\ Len(new) = Len(data) + 1
        /\ \A k \in 1 .. Len(data) + 1 :
             new[k] = IF k <= i THEN data[k]
                      ELSE IF k = i + 1 THEN p ELSE data[k - 1]
    BY <1>1, <1>2, Inserted
  <2> HIDE DEF new
  <2>3. i > 0 => data[i].time < time
    BY <1>2, <1>3, <1>5, <1>7 DEF Repeats, i
  <2>4. \A k \in 1 .. i : data[k].time < time
    <3>1. SUFFICES ASSUME NEW k \in 1 .. i PROVE data[k].time < time
      OBVIOUS
    <3>2. k \in 1 .. Len(data) /\ i \in 1 .. Len(data) /\ i > 0
      BY <1>2, <1>5
    <3>3. data[k].time <= data[i].time
      BY <1>3, <1>4, <3>2
    <3> QED
      BY <1>3, <2>3, <3>2, <3>3
  <2>5. SUFFICES ASSUME NEW j \in 1 .. Len(data) + 1,
                        NEW k \in 1 .. Len(data) + 1, j < k
                 PROVE  new[j].time < new[k].time
    BY <2>1, <2>2 DEF Chronological
  <2>6. CASE k <= i
    <3>1. /\ j \in 1 .. Len(data) /\ k \in 1 .. Len(data)
          /\ new[j] = data[j] /\ new[k] = data[k]
      BY <1>2, <1>5, <2>2, <2>5, <2>6
    <3> QED
      BY <1>4, <2>5, <3>1
  <2>7. CASE k = i + 1
    <3>1. j \in 1 .. i /\ new[j] = data[j] /\ new[k] = p
      BY <1>2, <1>5, <2>2, <2>5, <2>7
    <3> QED
      BY <1>1, <2>4, <3>1
  <2>8. CASE k > i + 1
    <3>1. k - 1 \in i + 1 .. Len(data) /\ k - 1 \in 1 .. Len(data)
      BY <1>2, <1>5, <2>8
    <3>2. new[k] = data[k - 1]
      BY <1>2, <1>5, <2>2, <2>8
    <3>3. CASE j <= i
      <4>1. j \in 1 .. i /\ j \in 1 .. Len(data) /\ new[j] = data[j]
        BY <1>2, <1>5, <2>2, <3>3
      <4>2. data[j].time < time /\ time < data[k - 1].time
        BY <1>2, <2>4, <3>1, <4>1
      <4> QED
        BY <1>3, <3>1, <3>2, <4>1, <4>2
    <3>4. CASE j = i + 1
      <4>1. new[j] = p
        BY <1>2, <1>5, <2>2, <3>4
      <4>2. data[k - 1].time > time
        BY <1>2, <3>1
      <4> QED
        BY <1>1, <1>3, <3>1, <3>2, <4>1, <4>2
    <3>5. CASE j > i + 1
      <4>1. j - 1 \in 1 .. Len(data) /\ j - 1 < k - 1 /\ new[j] = data[j - 1]
        BY <1>2, <1>5, <2>2, <2>5, <3>5
      <4> QED
        BY <1>4, <3>1, <3>2, <4>1
    <3> QED
      BY <1>2, <3>3, <3>4, <3>5
  <2> QED
    BY <1>2, <2>6, <2>7, <2>8
<1> QED
  BY <1>6, <1>7

-----------------------------------------------------------------------------
(* dropOldData.                                                             *)

\* The loop of dropOldData ends, with as many points removed as expire one
\* after another.
LEMMA RemovalStops ==
  ASSUME NEW data \in Seq(Point), NEW oldest, NEW max
  PROVE  LET k == RemoveCount(data, oldest, max) IN
         /\ k \in 0 .. Len(data)
         /\ \A j \in 0 .. k - 1 : Expired(data, j, oldest, max)
         /\ ~ Expired(data, k, oldest, max)
<1> DEFINE S == {k \in 0 .. Len(data) : ~ Expired(data, k, oldest, max)}
<1>1. Len(data) \in Nat
  OBVIOUS
<1>2. Len(data) \in S
  BY <1>1 DEF Expired
<1>3. S \in SUBSET Nat /\ S # {}
  BY <1>1, <1>2
<1>4. PICK k \in S : \A n \in S : k <= n
  BY <1>3, Minimum
<1>5. \A j \in 0 .. k - 1 : Expired(data, j, oldest, max)
  <2>1. SUFFICES ASSUME NEW j \in 0 .. k - 1
                 PROVE  Expired(data, j, oldest, max)
    OBVIOUS
  <2>2. k \in 0 .. Len(data)
    OBVIOUS
  <2>3. j \in 0 .. Len(data) /\ ~ (k <= j)
    BY <1>1, <2>2
  <2> QED
    BY <1>4, <2>3
<1>6. \E n \in 0 .. Len(data) :
        /\ \A j \in 0 .. n - 1 : Expired(data, j, oldest, max)
        /\ ~ Expired(data, n, oldest, max)
  BY <1>5
<1> QED
  BY <1>6 DEF RemoveCount

\* What is left is the end of the series, in order; every point that is dropped
\* is followed by one that is too old to be shown.
THEOREM DropKeepsOrder ==
  ASSUME NEW data \in Seq(Point), Chronological(data), NEW oldest, NEW max
  PROVE  LET new == dropOldData(data, oldest, max)
             k   == RemoveCount(data, oldest, max) IN
         /\ new \in Seq(Point)
         /\ Len(new) = Len(data) - k
         /\ \A j \in 1 .. Len(new) : new[j] = data[k + j]
         /\ Chronological(new)
         /\ \A j \in 1 .. k : j + 1 <= Len(data) /\ data[j + 1].time < oldest
<1> DEFINE new == dropOldData(data, oldest, max)
           k   == RemoveCount(data, oldest, max)
<1>1. /\ k \in 0 .. Len(data)
      /\ \A j \in 0 .. k - 1 : Expired(data, j, oldest, max)
  BY RemovalStops
<1>2. Len(data) \in Nat
  OBVIOUS
<1>3. new = SubSeq(data, k + 1, Len(data))
  BY DEF dropOldData
<1> HIDE DEF new, k
<1>4. \A j \in k + 1 .. Len(data) : data[j] \in Point
  BY <1>1, <1>2
<1>5. /\ new \in Seq(Point)
      /\ Len(new) = IF k + 1 <= Len(data) THEN Len(data) - (k + 1) + 1 ELSE 0
      /\ \A j \in 1 .. Len(data) - (k + 1) + 1 : new[j] = data[(k + 1) + j - 1]
  BY <1>1, <1>2, <1>3, <1>4, SubSeqProperties
<1>6. Len(new) = Len(data) - k
  BY <1>1, <1>2, <1>5
<1>7. \A j \in 1 .. Len(new) : new[j] = data[k + j]
  BY <1>1, <1>2, <1>5, <1>6
<1>8. Chronological(new)
  <2>1. SUFFICES ASSUME NEW i \in 1 .. Len(new), NEW j \in 1 .. Len(new), i < j
                 PROVE  new[i].time < new[j].time
    BY DEF Chronological
  <2>2. /\ k + i \in 1 .. Len(data) /\ k + j \in 1 .. Len(data)
        /\ k + i < k + j
    BY <1>1, <1>2, <1>6, <2>1
  <2>3. data[k + i].time < data[k + j].time
    BY <2>2 DEF Chronological
  <2> QED
    BY <1>7, <2>1, <2>3
<1>9. \A j \in 1 .. k : j + 1 <= Len(data) /\ data[j + 1].time < oldest
  <2>1. SUFFICES ASSUME NEW j \in 1 .. k
                 PROVE  j + 1 <= Len(data) /\ data[j + 1].time < oldest
    OBVIOUS
  <2>2. j - 1 \in 0 .. k - 1 /\ (j - 1) + 2 = j + 1
    BY <1>1
  <2>3. Expired(data, j - 1, oldest, max)
    BY <1>1, <2>2
  <2> QED
    BY <2>2, <2>3 DEF Expired
<1> QED
  BY <1>5, <1>6, <1>7, <1>8, <1>9 DEF new, k

\* The loop can only look beyond the last point if a set of one point or none
\* is too long for it.
THEOREM NeverLooksBeyond ==
  ASSUME NEW data \in Seq(Point), NEW oldest, NEW max \in Nat, max >= 2
  PROVE  ~ LooksBeyond(data, oldest, max)
<1> DEFINE k == RemoveCount(data, oldest, max)
<1>1. k \in 0 .. Len(data) /\ Len(data) \in Nat
  BY RemovalStops
<1> HIDE DEF k
<1>2. ~ (Len(data) - k >= max /\ k + 2 > Len(data))
  BY <1>1
<1> QED
  BY <1>2 DEF LooksBeyond, k

-----------------------------------------------------------------------------
\* A point that is not earlier than any other is put at the end, or replaces
\* the last one: the series ends with it.
THEOREM LatestAtTheEnd ==
  ASSUME NEW data \in Seq(Point), NEW time \in Int, NEW value \in Value,
         \A j \in 1 .. Len(data) : data[j].time <= time
  PROVE  LET new == append(data, time, value, FALSE) IN
         /\ new \in Seq(Point) /\ new # <<>>
         /\ Last(new).value = value
         /\ \A j \in 1 .. Len(new) : new[j].time <= time
<1> DEFINE i == Rewind(data, time)
           p == [time |-> time, value |-> Stored(data, time, value, FALSE)]
           new == append(data, time, value, FALSE)
<1>1. p \in Point /\ p.time = time /\ p.value = value
  BY StoredValue DEF Point, Stored
<1>2. i \in 0 .. Len(data) /\ \A j \in i + 1 .. Len(data) : data[j].time > time
  BY RewindStops
<1>3. Len(data) \in Nat /\ \A j \in 1 .. Len(data) : data[j].time \in Int
  BY PointsHaveTimes
<1>4. i = Len(data)
  <2>1. ASSUME i # Len(data) PROVE FALSE
    <3>1. Len(data) \in i + 1 .. Len(data) /\ Len(data) \in 1 .. Len(data)
      BY <1>2, <1>3, <2>1
    <3>2. data[Len(data)].time > time /\ data[Len(data)].time <= time
      BY <1>2, <3>1
    <3> QED
      BY <1>3, <3>1, <3>2
  <2> QED
    BY <2>1
<1> HIDE DEF i, p, new
<1>5. CASE Repeats(data, time)
  <2>1. new = [data EXCEPT ![i] = p]
    BY <1>5 DEF append, i, p, new
  <2>2. i \in 1 .. Len(data)
    BY <1>2, <1>3, <1>5 DEF Repeats, i
  <2>3. /\ new \in Seq(Point) /\ Len(new) = Len(data)
        /\ \A j \in 1 .. Len(data) : new[j] = IF j = i THEN p ELSE data[j]
    BY <1>1, <2>1, <2>2, ExceptSeq
  <2>4. \A j \in 1 .. Len(new) : new[j].time <= time
    BY <1>1, <2>3
  <2>5. Last(new) = p /\ new # <<>>
    BY <1>4, <2>2, <2>3 DEF Last
  <2> QED
    BY <1>1, <2>3, <2>4, <2>5 DEF new
<1>6. CASE ~ Repeats(data, time)
  <2> DEFINE ins == InsertAt(data, i + 1, p)
  <2>1. /\ ins \in Seq(Point) /\ Len(ins) = Len(data) + 1
        /\ \A k \in 1 .. Len(data) + 1 :
             ins[k] = IF k <= i THEN data[k]
                      ELSE IF k = i + 1 THEN p ELSE data[k - 1]
    BY <1>1, <1>2, Inserted
  <2>2. new = ins
    BY <1>6 DEF append, i, p, new
  <2> HIDE DEF ins
  <2>3. /\ new \in Seq(Point) /\ Len(new) = Len(data) + 1
        /\ \A k \in 1 .. Len(data) + 1 :
             new[k] = IF k <= i THEN data[k]
                      ELSE IF k = i + 1 THEN p ELSE data[k - 1]
    BY <2>1, <2>2
  <2>4. Len(data) + 1 \in 1 .. Len(data) + 1 /\ ~ (Len(data) + 1 <= Len(data))
    BY <1>3
  <2>5. Last(new) = p /\ new # <<>>
    BY <1>4, <2>3, <2>4 DEF Last
  <2>6. ASSUME NEW j \in 1 .. Len(new) PROVE new[j].time <= time
    <3>1. CASE j \in 1 .. Len(data)
      BY <1>3, <1>4, <2>3, <3>1
    <3>2. CASE j = Len(data) + 1
      BY <1>1, <2>3, <2>5, <3>2 DEF Last
    <3> QED
      BY <1>3, <2>3, <3>1, <3>2
  <2> QED
    BY <1>1, <2>3, <2>5, <2>6 DEF new
<1> QED
  BY <1>5, <1>6

-----------------------------------------------------------------------------
(* The points of a series, as a set.                                        *)

\* A series in order has one point per time.
LEMMA OnePointPerTime ==
  ASSUME NEW d \in Seq(Point), Chronological(d),
         NEW p \in ToSet(d), NEW q \in ToSet(d), p.time = q.time
  PROVE  p = q
<1>1. PICK i \in 1 .. Len(d) : p = d[i]
  BY DEF ToSet
<1>2. PICK j \in 1 .. Len(d) : q = d[j]
  BY DEF ToSet
<1>3. Len(d) \in Nat /\ d[i].time \in Int /\ d[j].time \in Int
  BY PointsHaveTimes
<1>4. ~ (i < j) /\ ~ (j < i)
  BY <1>1, <1>2, <1>3 DEF Chronological
<1>5. i = j
  BY <1>3, <1>4
<1> QED
  BY <1>1, <1>2, <1>5

\* append replaces the point of the same time, or adds one.
LEMMA AppendedPoints ==
  ASSUME NEW d \in Seq(Point), Chronological(d),
         NEW t \in Int, NEW v \in Value, NEW sum \in BOOLEAN
  PROVE  ToSet(append(d, t, v, sum)) =
           {p \in ToSet(d) : p.time # t}
             \cup {[time |-> t, value |-> Stored(d, t, v, sum)]}
<1> DEFINE i == Rewind(d, t)
           new == [time |-> t, value |-> Stored(d, t, v, sum)]
           others == {p \in ToSet(d) : p.time # t}
<1>1. new \in Point
  BY StoredValue DEF Point
<1>2. /\ i \in 0 .. Len(d)
      /\ i > 0 => d[i].time <= t
      /\ \A j \in i + 1 .. Len(d) : d[j].time > t
  BY RewindStops
<1>3. \A j \in 1 .. Len(d) : d[j].time \in Int
  BY PointsHaveTimes
<1>4. \A j, k \in 1 .. Len(d) : j < k => d[j].time < d[k].time
  BY DEF Chronological
<1>5. Len(d) \in Nat /\ ToSet(d) = {d[j] : j \in 1 .. Len(d)}
  BY DEF ToSet
<1> HIDE DEF i, new
<1>6. CASE Repeats(d, t)
  <2> DEFINE after == [d EXCEPT ![i] = new]
  <2>1. append(d, t, v, sum) = after
    BY <1>6 DEF append, i, new
  <2>2. i \in 1 .. Len(d) /\ d[i].time = t
    BY <1>2, <1>6 DEF Repeats, i
  <2>3. /\ after \in Seq(Point) /\ Len(after) = Len(d)
        /\ \A j \in 1 .. Len(d) : after[j] = IF j = i THEN new ELSE d[j]
    BY <1>1, <2>2, ExceptSeq
  <2> HIDE DEF after
  <2>4. \A j \in 1 .. Len(d) : d[j].time # t <=> j # i
    BY <1>3, <1>4, <1>5, <2>2
  <2>5. ToSet(after) = {after[j] : j \in 1 .. Len(d)}
    BY <2>3 DEF ToSet
  <2>6. ToSet(after) \subseteq others \cup {new}
    <3>1. SUFFICES ASSUME NEW j \in 1 .. Len(d)
                   PROVE  after[j] \in others \cup {new}
      BY <2>5
    <3> QED
      BY <1>5, <2>3, <2>4
  <2>7. others \cup {new} \subseteq ToSet(after)
    <3>1. new \in ToSet(after)
      BY <2>2, <2>3, <2>5
    <3>2. ASSUME NEW p \in others
          PROVE  p \in ToSet(after)
      <4>1. PICK j \in 1 .. Len(d) : p = d[j]
        BY <1>5
      <4>2. after[j] = p
        BY <2>3, <2>4, <4>1
      <4> QED
        BY <2>5, <4>2
    <3> QED
      BY <3>1, <3>2
  <2>8. ToSet(after) = others \cup {new}
    BY <2>6, <2>7
  <2> QED
    BY <2>1, <2>8 DEF new
<1>7. CASE ~ Repeats(d, t)
  <2> DEFINE after == InsertAt(d, i + 1, new)
  <2>1. append(d, t, v, sum) = after
    BY <1>7 DEF append, i, new
  <2>2. /\ after \in Seq(Point) /\ Len(after) = Len(d) + 1
        /\ \A k \in 1 .. Len(d) + 1 :
             after[k] = IF k <= i THEN d[k]
                        ELSE IF k = i + 1 THEN new ELSE d[k - 1]
    BY <1>1, <1>2, Inserted
  <2> HIDE DEF after
  <2>3. \A j \in 1 .. Len(d) : d[j].time # t
    <3>1. SUFFICES ASSUME NEW j \in 1 .. Len(d), d[j].time = t PROVE FALSE
      OBVIOUS
    <3>2. ~ (j \in i + 1 .. Len(d))
      BY <1>2, <1>3, <3>1
    <3>3. j <= i /\ i \in 1 .. Len(d)
      BY <1>2, <1>5, <3>2
    <3>4. d[i].time <= t /\ d[i].time # t
      BY <1>2, <1>7, <3>3 DEF Repeats, i
    <3>5. d[j].time <= d[i].time
      BY <1>3, <1>4, <1>5, <3>3
    <3> QED
      BY <1>3, <3>1, <3>3, <3>4, <3>5
  <2>4. ToSet(after) = {after[k] : k \in 1 .. Len(d) + 1}
    BY <2>2 DEF ToSet
  <2>5. ToSet(after) \subseteq others \cup {new}
    <3>1. SUFFICES ASSUME NEW k \in 1 .. Len(d) + 1
                   PROVE  after[k] \in others \cup {new}
      BY <2>4
    <3>2. \A j \in 1 .. Len(d) : d[j] \in others
      BY <1>5, <2>3
    <3>3. CASE k <= i
      BY <1>2, <1>5, <2>2, <3>2, <3>3
    <3>4. CASE k = i + 1
      BY <1>2, <1>5, <2>2, <3>4
    <3>5. CASE k > i + 1
      <4>1. k - 1 \in 1 .. Len(d) /\ after[k] = d[k - 1]
        BY <1>2, <1>5, <2>2, <3>5
      <4> QED
        BY <3>2, <4>1
    <3> QED
      BY <1>2, <1>5, <3>3, <3>4, <3>5
  <2>6. others \cup {new} \subseteq ToSet(after)
    <3>1. new \in ToSet(after)
      <4>1. i + 1 \in 1 .. Len(d) + 1 /\ after[i + 1] = new
        BY <1>2, <1>5, <2>2
      <4> QED
        BY <2>4, <4>1
    <3>2. ASSUME NEW p \in others
          PROVE  p \in ToSet(after)
      <4>1. PICK j \in 1 .. Len(d) : p = d[j]
        BY <1>5
      <4>2. CASE j <= i
        <5>1. j \in 1 .. Len(d) + 1 /\ after[j] = p
          BY <1>2, <1>5, <2>2, <4>1, <4>2
        <5> QED
          BY <2>4, <5>1
      <4>3. CASE j > i
        <5>1. j + 1 \in 1 .. Len(d) + 1 /\ after[j + 1] = p
          BY <1>2, <1>5, <2>2, <4>1, <4>3
        <5> QED
          BY <2>4, <5>1
      <4> QED
        BY <1>2, <1>5, <4>2, <4>3
    <3> QED
      BY <3>1, <3>2
  <2>7. ToSet(after) = others \cup {new}
    BY <2>5, <2>6
  <2> QED
    BY <2>1, <2>7 DEF new
<1> QED
  BY <1>6, <1>7

\* dropOldData keeps all points, or those from one point on.
LEMMA KeptPoints ==
  ASSUME NEW d \in Seq(Point), Chronological(d), NEW oldest, NEW max
  PROVE  LET new == ToSet(dropOldData(d, oldest, max)) IN
         \/ new = ToSet(d)
         \/ \E q \in ToSet(d) : new = {p \in ToSet(d) : p.time >= q.time}
<1> DEFINE k == RemoveCount(d, oldest, max)
           after == dropOldData(d, oldest, max)
<1>1. /\ after \in Seq(Point) /\ Len(after) = Len(d) - k
      /\ \A j \in 1 .. Len(after) : after[j] = d[k + j]
      /\ \A j \in 1 .. k : j + 1 <= Len(d) /\ d[j + 1].time < oldest
  BY DropKeepsOrder
<1>2. k \in 0 .. Len(d) /\ Len(d) \in Nat
  BY RemovalStops
<1>3. \A j \in 1 .. Len(d) : d[j].time \in Int
  BY PointsHaveTimes
<1>4. \A j, n \in 1 .. Len(d) : j < n => d[j].time < d[n].time
  BY DEF Chronological
<1> HIDE DEF k, after
<1>5. /\ ToSet(d) = {d[j] : j \in 1 .. Len(d)}
      /\ ToSet(after) = {after[j] : j \in 1 .. Len(after)}
  BY <1>1 DEF ToSet
<1>6. CASE k = 0
  <2>1. Len(after) = Len(d) /\ \A j \in 1 .. Len(d) : after[j] = d[j]
    BY <1>1, <1>2, <1>6
  <2>2. ToSet(after) = ToSet(d)
    BY <1>5, <2>1
  <2> QED
    BY <2>2 DEF after
<1>7. CASE k > 0
  <2> DEFINE q == d[k + 1]
             late == {p \in ToSet(d) : p.time >= q.time}
  <2>1. k \in 1 .. k /\ k + 1 \in 1 .. Len(d)
    BY <1>1, <1>2, <1>7
  <2>2. q \in ToSet(d) /\ q.time \in Int
    BY <1>3, <1>5, <2>1
  <2>3. ToSet(after) \subseteq late
    <3>1. SUFFICES ASSUME NEW j \in 1 .. Len(after) PROVE after[j] \in late
      BY <1>5
    <3>2. k + j \in 1 .. Len(d) /\ k + 1 <= k + j /\ after[j] = d[k + j]
      BY <1>1, <1>2
    <3>3. d[k + j].time >= q.time
      BY <1>2, <1>3, <1>4, <2>1, <3>2
    <3> QED
      BY <1>5, <3>2, <3>3
  <2>4. late \subseteq ToSet(after)
    <3>1. SUFFICES ASSUME NEW p \in late PROVE p \in ToSet(after)
      OBVIOUS
    <3>2. PICK n \in 1 .. Len(d) : p = d[n]
      BY <1>5
    <3>3. ~ (n < k + 1)
      BY <1>3, <1>4, <2>1, <2>2, <3>2
    <3>4. /\ n - k \in 1 .. Len(after) /\ k + (n - k) = n
          /\ after[n - k] = d[k + (n - k)]
      BY <1>1, <1>2, <3>2, <3>3
    <3>5. after[n - k] = p
      BY <3>2, <3>4
    <3> QED
      BY <1>5, <3>4, <3>5
  <2>5. ToSet(after) = late
    BY <2>3, <2>4
  <2> HIDE DEF q
  <2>6. \E r \in ToSet(d) :
          ToSet(after) = {p \in ToSet(d) : p.time >= r.time}
    BY <2>2, <2>5
  <2> QED
    BY <2>6 DEF after
<1> QED
  BY <1>2, <1>6, <1>7

=============================================================================
