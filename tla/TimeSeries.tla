----------------------------- MODULE TimeSeries -----------------------------
(***************************************************************************)
(* The operations of a TimeSeries of Smoothie Charts (js/smoothie.js) as   *)
(* operators on its data, a sequence of points, and on its bounds, the     *)
(* greatest and the least value.                                           *)
(*                                                                         *)
(* A value is a number or NaN, which every comparison is false of; a time  *)
(* is a whole number of milliseconds.                                      *)
(***************************************************************************)
EXTENDS Integers, Sequences, SequencesExt

CONSTANT NaN

ASSUME NaNAssumption == NaN \notin Int

isNaN(v) == v = NaN

Value == Int \cup {NaN}

Point == [time : Int, value : Value]

Bounds == [max : Value, min : Value]

Plus(a, b) == IF isNaN(a) \/ isNaN(b) THEN NaN ELSE a + b

\* Math.max and Math.min: NaN if one of the two is
Higher(a, b) == IF isNaN(a) \/ isNaN(b) THEN NaN ELSE IF a > b THEN a ELSE b
Lower(a, b)  == IF isNaN(a) \/ isNaN(b) THEN NaN ELSE IF a < b THEN a ELSE b

NoBounds == [max |-> NaN, min |-> NaN]

-----------------------------------------------------------------------------
(* append.  The loop rewinds from the end to the last point that is not     *)
(* later than the new one, and leaves 0 if there is none.                   *)

\* Mutant: it stops one point early at a point of the same time.
RewindPastEqual(data, time) ==
  CHOOSE i \in 0 .. Len(data) :
    /\ i > 0 => data[i].time < time
    /\ \A j \in i + 1 .. Len(data) : data[j].time >= time

\* Mutant: it does not rewind, as if no point came late.
RewindNever(data, time) == Len(data)

Rewind(data, time) ==
  CHOOSE i \in 0 .. Len(data) :
    /\ i > 0 => data[i].time <= time
    /\ \A j \in i + 1 .. Len(data) : data[j].time > time

Repeats(data, time) ==
  LET i == Rewind(data, time) IN i > 0 /\ data[i].time = time

\* the value that is stored: a repeated time stamp replaces or is summed
Stored(data, time, value, sum) ==
  IF sum /\ Repeats(data, time)
  THEN Plus(data[Rewind(data, time)].value, value)
  ELSE value

\* Mutant: after a sum the bounds are widened to the value itself.
ValueForBoundsUnsummed(data, time, value, sum) == value

\* what the variable `value' is in the end
ValueForBounds(data, time, value, sum) == Stored(data, time, value, sum)

append(data, time, value, sum) ==
  LET i == Rewind(data, time)
      point == [time |-> time, value |-> Stored(data, time, value, sum)]
  IN  IF Repeats(data, time) THEN [data EXCEPT ![i] = point]
                             ELSE InsertAt(data, i + 1, point)

\* Mutant: the bounds are left to resetBounds once they have a value.
WidenOnce(bounds, value) ==
  [max |-> IF isNaN(bounds.max) THEN value ELSE bounds.max,
   min |-> IF isNaN(bounds.min) THEN value ELSE bounds.min]

\* append also widens the bounds, and starts them afresh if they are NaN
Widen(bounds, value) ==
  [max |-> IF isNaN(bounds.max) THEN value ELSE Higher(bounds.max, value),
   min |-> IF isNaN(bounds.min) THEN value ELSE Lower(bounds.min, value)]

-----------------------------------------------------------------------------
(* resetBounds.  The loop starts with the first value, and no comparison    *)
(* with NaN succeeds: a NaN in front stays, one further back is passed by.  *)

Numbers(data) == {data[i].value : i \in DOMAIN data} \ {NaN}

Greatest(data) == CHOOSE m \in Numbers(data) : \A n \in Numbers(data) : n <= m
Least(data)    == CHOOSE m \in Numbers(data) : \A n \in Numbers(data) : n >= m

resetBounds(data) ==
  IF data = <<>> \/ isNaN(data[1].value)
  THEN NoBounds
  ELSE [max |-> Greatest(data), min |-> Least(data)]

-----------------------------------------------------------------------------
(* dropOldData.  One expired point stays, for the line that comes into the  *)
(* chart from the left.  With maxDataSetLength below 2 the loop can look    *)
(* beyond the last point, which throws.                                     *)

\* Mutant: the point is dropped although the next one is still shown.
ExpiredByItself(data, k, oldestValidTime, maxDataSetLength) ==
  /\ Len(data) - k >= maxDataSetLength
  /\ k + 2 <= Len(data)
  /\ data[k + 1].time < oldestValidTime

\* with k points removed, there is one more to remove
Expired(data, k, oldestValidTime, maxDataSetLength) ==
  /\ Len(data) - k >= maxDataSetLength
  /\ k + 2 <= Len(data)
  /\ data[k + 2].time < oldestValidTime

RemoveCount(data, oldestValidTime, maxDataSetLength) ==
  CHOOSE k \in 0 .. Len(data) :
    /\ \A j \in 0 .. k - 1 :
         Expired(data, j, oldestValidTime, maxDataSetLength)
    /\ ~ Expired(data, k, oldestValidTime, maxDataSetLength)

LooksBeyond(data, oldestValidTime, maxDataSetLength) ==
  LET k == RemoveCount(data, oldestValidTime, maxDataSetLength)
  IN  Len(data) - k >= maxDataSetLength /\ k + 2 > Len(data)

dropOldData(data, oldestValidTime, maxDataSetLength) ==
  SubSeq(data, RemoveCount(data, oldestValidTime, maxDataSetLength) + 1,
         Len(data))

-----------------------------------------------------------------------------
(* Util.binarySearch: how many points are not later than a time, if they    *)
(* are in chronological order.                                              *)

binarySearch(data, time) ==
  LET search[low, high \in 0 .. Len(data)] ==
        LET mid == (low + high) \div 2 IN
        IF low >= high THEN low
        ELSE IF time < data[mid + 1].time THEN search[low, mid]
                                          ELSE search[mid + 1, high]
  IN  search[0, Len(data)]

-----------------------------------------------------------------------------
\* The order append preserves: chronological, and no time stamp twice.
Chronological(data) ==
  \A i, j \in 1 .. Len(data) : i < j => data[i].time < data[j].time

=============================================================================
