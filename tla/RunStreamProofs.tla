-------------------------- MODULE RunStreamProofs ---------------------------
(***************************************************************************)
(* Theorems of RunStream: its types, that no reading is dropped on its way *)
(* to a page, that none overtakes another, and that the chart of a page    *)
(* ends with the latest.                                                   *)
(***************************************************************************)
EXTENDS RunStream, TimeSeriesProofs

-----------------------------------------------------------------------------
(* Types.                                                                   *)

\* What is loaded is all of a file, or nothing yet.
LoadedFromFile == \A r \in Params : points[r] \in {<<>>, File[r]}

TypeInv == TypeOK /\ LoadedFromFile

Reading == [param : Params, value : Int]

Timer == [param : Params, count : Nat, alive : BOOLEAN]

\* Of the types, what says that a timer does not run beyond its list.
TimersInList ==
  \A i \in DOMAIN timers :
    timers[i].alive /\ timers[i].count > 0
      => timers[i].count < Len(points[timers[i].param])

LEMMA InitType == Init => TypeInv
<1> SUFFICES ASSUME Init PROVE TypeInv
  OBVIOUS
<1>1. \A S : <<>> \in Seq(S)
  OBVIOUS
<1>2. DOMAIN timers = {} /\ 0 \in 0 .. MaxTime
  BY RunStreamAssumption DEF Init
<1>3. TimersInList
  BY <1>2 DEF TimersInList
<1>4. /\ readings \in Seq([param : Params, value : Int])
      /\ toPlatform \in Seq({Request} \cup DOMAIN readings)
      /\ timers \in Seq([param : Params, count : Nat, alive : BOOLEAN])
  BY <1>1 DEF Init
<1>5. /\ points \in [Params -> Seq(Int)]
      /\ events \in [Pages -> Seq(DOMAIN readings)]
      /\ shown \in [Pages -> Seq(DOMAIN readings)]
      /\ series \in [Pages -> Seq(Point)]
      /\ console \in [Pages -> Seq(Int)]
      /\ missed \in [Pages -> SUBSET DOMAIN readings]
  BY <1>1 DEF Init
<1>6. LoadedFromFile
  BY DEF Init, LoadedFromFile
<1> QED
  BY <1>2, <1>3, <1>4, <1>5, <1>6 DEF Init, TypeInv, TypeOK, TimersInList

\* Loading a file again changes nothing under the timers of its parameter.
LEMMA LoadType ==
  ASSUME TypeInv, NEW r \in Params, Load(r)
  PROVE  /\ points' \in [Params -> Seq(Int)]
         /\ LoadedFromFile'
         /\ \A q \in Params : Len(points[q]) > 0 => points'[q] = points[q]
<1>1. /\ \A q \in Params : File[q] \in Seq(Int)
      /\ points \in [Params -> Seq(Int)]
      /\ \A q \in Params : points[q] \in {<<>>, File[q]}
  BY RunStreamAssumption DEF TypeInv, TypeOK, LoadedFromFile
<1>2. \A q \in Params : points'[q] \in {points[q], File[q]}
  BY <1>1 DEF Load
<1>3. points' \in [Params -> Seq(Int)]
  BY <1>1 DEF Load
<1>4. ASSUME NEW q \in Params, Len(points[q]) > 0
      PROVE  points'[q] = points[q]
  <2>1. points[q] # <<>>
    BY <1>4
  <2> QED
    BY <1>1, <1>2, <2>1
<1>5. LoadedFromFile'
  BY <1>1, <1>2 DEF LoadedFromFile
<1> QED
  BY <1>3, <1>4, <1>5

LEMMA StartType ==
  ASSUME TypeInv, NEW r \in Params, Load(r), Start(r)
  PROVE  timers' \in Seq(Timer) /\ TimersInList'
<1> DEFINE new == [param |-> r, count |-> 0, alive |-> TRUE]
<1>1. timers \in Seq(Timer) /\ TimersInList
  BY DEF TypeInv, TypeOK, TimersInList, Timer
<1>2. new \in Timer
  BY DEF Timer
<1>3. timers' = Append(timers, new)
  BY DEF Start
<1>4. /\ timers' \in Seq(Timer)
      /\ Len(timers') = Len(timers) + 1
      /\ \A i \in 1 .. Len(timers) : timers'[i] = timers[i]
      /\ timers'[Len(timers) + 1] = new
  BY <1>1, <1>2, <1>3, AppendProperties
<1>5. ASSUME NEW i \in DOMAIN timers', timers'[i].alive, timers'[i].count > 0
      PROVE  timers'[i].count < Len(points'[timers'[i].param])
  <2>1. i \in 1 .. Len(timers) + 1 /\ Len(timers) \in Nat
    BY <1>1, <1>4
  <2>2. i # Len(timers) + 1
    BY <1>4, <1>5
  <2>3. i \in DOMAIN timers /\ timers'[i] = timers[i] /\ timers[i] \in Timer
    BY <1>1, <1>4, <2>1, <2>2
  <2>4. timers[i].count < Len(points[timers[i].param])
    BY <1>1, <1>5, <2>3 DEF TimersInList
  <2>5. /\ timers[i].param \in Params /\ timers[i].count \in Nat
        /\ Len(points[timers[i].param]) \in Nat
    BY <2>3 DEF Timer, TypeInv, TypeOK
  <2>6. points'[timers[i].param] = points[timers[i].param]
    BY <2>4, <2>5, LoadType
  <2> QED
    BY <2>3, <2>4, <2>6
<1> QED
  BY <1>4, <1>5 DEF TimersInList

\* The steps of the device that load and start.
LEMMA DeviceType == TypeInv /\ Device => TypeInv'
<1> SUFFICES ASSUME TypeInv, Device PROVE TypeInv'
  OBVIOUS
<1>1. CASE mqttRunRequest
  <2>1. toPlatform' \in Seq({Request} \cup DOMAIN readings)
    BY <1>1, AppendProperties DEF mqttRunRequest, TypeInv, TypeOK
  <2> QED
    BY <1>1, <2>1 DEF mqttRunRequest, TypeInv, TypeOK, LoadedFromFile,
       timerVars, pageVars, history
<1>2. CASE ResponseArrives
  <2>1. /\ points' \in [Params -> Seq(Int)] /\ LoadedFromFile'
        /\ timers' \in Seq(Timer) /\ TimersInList'
    BY <1>2, LoadType, StartType DEF ResponseArrives, Params
  <2> QED
    BY <1>2, <2>1 DEF ResponseArrives, TypeInv, TypeOK, Timer, TimersInList,
       deviceVars, pageVars, history
<1>3. CASE mqttPublishParam2Stream
  <2>1. /\ points' \in [Params -> Seq(Int)] /\ LoadedFromFile'
        /\ timers' \in Seq(Timer) /\ TimersInList'
    BY <1>3, LoadType, StartType DEF mqttPublishParam2Stream, Params
  <2> QED
    BY <1>3, <2>1 DEF mqttPublishParam2Stream, TypeInv, TypeOK, Timer,
       TimersInList, deviceVars, platformVars, pageVars, history
<1>4. CASE DeviceReconnects
  BY <1>4 DEF DeviceReconnects, TypeInv, TypeOK, LoadedFromFile, timerVars,
     platformVars, pageVars, history
<1> QED
  BY <1>1, <1>2, <1>3, <1>4 DEF Device

LEMMA TimersTyped ==
  ASSUME TypeInv, NEW i \in DOMAIN timers
  PROVE  timers \in Seq(Timer) /\ timers[i] \in Timer
<1>1. timers \in Seq(Timer)
  BY DEF TypeInv, TypeOK, Timer
<1> QED
  BY <1>1

\* A timer that changes stays within its list.
LEMMA TimerChanged ==
  ASSUME TypeInv, NEW i \in DOMAIN timers, NEW timer \in Timer,
         timer.alive /\ timer.count > 0 => timer.count < Len(points[timer.param]),
         timers' = [timers EXCEPT ![i] = timer], UNCHANGED points
  PROVE  timers' \in Seq(Timer) /\ TimersInList'
<1>1. timers \in Seq(Timer) /\ TimersInList
  BY DEF TypeInv, TypeOK, TimersInList, Timer
<1>2. i \in 1 .. Len(timers)
  BY <1>1
<1>3. /\ timers' \in Seq(Timer) /\ Len(timers') = Len(timers)
      /\ \A j \in 1 .. Len(timers) :
           timers'[j] = IF j = i THEN timer ELSE timers[j]
  BY <1>1, <1>2, ExceptSeq
<1>4. DOMAIN timers' = 1 .. Len(timers) /\ DOMAIN timers = 1 .. Len(timers)
  BY <1>1, <1>3
<1> QED
  BY <1>1, <1>3, <1>4 DEF TimersInList

\* The readings grow by one; what was a reading remains one.
LEMMA ReadingsGrow ==
  ASSUME TypeInv, NEW reading \in Reading, readings' = Append(readings, reading)
  PROVE  /\ readings' \in Seq(Reading)
         /\ DOMAIN readings = 1 .. Len(readings) /\ Len(readings) \in Nat
         /\ Len(readings') = Len(readings) + 1
         /\ DOMAIN readings' = DOMAIN readings \cup {Len(readings) + 1}
         /\ \A n \in DOMAIN readings : readings'[n] = readings[n]
<1>1. readings \in Seq(Reading)
  BY DEF TypeInv, TypeOK, Reading
<1>2. /\ readings' \in Seq(Reading)
      /\ Len(readings') = Len(readings) + 1
      /\ \A n \in 1 .. Len(readings) : readings'[n] = readings[n]
  BY <1>1, AppendProperties
<1>3. /\ DOMAIN readings = 1 .. Len(readings) /\ Len(readings) \in Nat
      /\ DOMAIN readings' = 1 .. Len(readings) + 1
  BY <1>1, <1>2
<1> QED
  BY <1>2, <1>3

\* What a timer does when it fires, put as the proofs use it.
LEMMA Fired ==
  ASSUME TypeInv, NEW i \in DOMAIN timers, TimerFires(i)
  PROVE  LET n == Len(readings) + 1
             timer == [timers[i] EXCEPT !.count = NextCount(i)]
         IN /\ \E reading \in Reading : readings' = Append(readings, reading)
            /\ timer \in Timer
            /\ timer.alive /\ timer.count > 0
                 => timer.count < Len(points[timer.param])
            /\ timers' = [timers EXCEPT ![i] = timer]
            /\ \/ toPlatform' = Append(toPlatform, n) /\ UNCHANGED missed
               \/ /\ missed' = [p \in Pages |-> missed[p] \cup {n}]
                  /\ UNCHANGED toPlatform
<1> DEFINE list == points[timers[i].param]
           timer == [timers[i] EXCEPT !.count = NextCount(i)]
<1>1. timers \in Seq(Timer) /\ timers[i] \in Timer
  BY TimersTyped
<1>2. list \in Seq(Int) /\ Len(list) \in Nat
  BY <1>1 DEF TypeInv, TypeOK, Timer
<1>3. timers[i].count \in Nat /\ timers[i].count < Len(list)
  BY <1>1 DEF TimerFires, Timer
<1>4. NextCount(i) \in Nat /\ (NextCount(i) > 0 => NextCount(i) < Len(list))
  BY <1>2, <1>3 DEF NextCount
<1>5. timer \in Timer /\ timer.count = NextCount(i) /\ timer.param = timers[i].param
  BY <1>1, <1>4 DEF Timer
<1>6. list[timers[i].count + 1] \in Int
  BY <1>2, <1>3
<1>7. [param |-> timers[i].param, value |-> list[timers[i].count + 1]] \in Reading
  BY <1>1, <1>6 DEF Reading, Timer
<1>8. \E reading \in Reading : readings' = Append(readings, reading)
  BY <1>7 DEF TimerFires
<1>9. timers' = [timers EXCEPT ![i] = timer]
  BY <1>1 DEF TimerFires
<1>10. \/ toPlatform' = Append(toPlatform, Len(readings) + 1) /\ UNCHANGED missed
       \/ /\ missed' = [p \in Pages |-> missed[p] \cup {Len(readings) + 1}]
          /\ UNCHANGED toPlatform
  BY DEF TimerFires
<1> QED
  BY <1>4, <1>5, <1>8, <1>9, <1>10

LEMMA FireType ==
  ASSUME TypeInv, NEW i \in DOMAIN timers, TimerFires(i)
  PROVE  TypeInv'
<1> DEFINE n == Len(readings) + 1
<1>1. PICK reading \in Reading : readings' = Append(readings, reading)
  BY Fired
<1>2. /\ readings' \in Seq(Reading)
      /\ DOMAIN readings' = DOMAIN readings \cup {n}
  BY <1>1, ReadingsGrow
<1>3. timers' \in Seq(Timer) /\ TimersInList'
  BY Fired, TimerChanged DEF TimerFires
<1>4. toPlatform' \in Seq({Request} \cup DOMAIN readings')
  <2> DEFINE S == {Request} \cup DOMAIN readings'
  <2>1. toPlatform \in Seq(S) /\ n \in S
    BY <1>2, SeqMonotonic DEF TypeInv, TypeOK
  <2> HIDE DEF S, n
  <2>2. Append(toPlatform, n) \in Seq(S)
    BY <2>1, AppendProperties
  <2>3. toPlatform' \in {toPlatform, Append(toPlatform, n)}
    BY Fired DEF n
  <2> QED
    BY <2>1, <2>2, <2>3 DEF S
<1>5. missed' \in [Pages -> SUBSET DOMAIN readings']
  <2>1. \A p \in Pages : missed[p] \subseteq DOMAIN readings
    BY DEF TypeInv, TypeOK
  <2>2. missed \in [Pages -> SUBSET DOMAIN readings']
    BY <1>2, <2>1 DEF TypeInv, TypeOK
  <2> HIDE DEF n
  <2>3. [p \in Pages |-> missed[p] \cup {n}] \in [Pages -> SUBSET DOMAIN readings']
    BY <1>2, <2>1
  <2>4. missed' \in {missed, [p \in Pages |-> missed[p] \cup {n}]}
    BY Fired DEF n
  <2> QED
    BY <2>2, <2>3, <2>4
<1>6. /\ events \in [Pages -> Seq(DOMAIN readings')]
      /\ shown \in [Pages -> Seq(DOMAIN readings')]
  BY <1>2, SeqMonotonic DEF TypeInv, TypeOK
<1> HIDE DEF n
<1> QED
  BY <1>2, <1>3, <1>4, <1>5, <1>6
  DEF TimerFires, TypeInv, TypeOK, LoadedFromFile, Reading, Timer,
      TimersInList, deviceVars, pageVars

LEMMA DieType ==
  ASSUME TypeInv, NEW i \in DOMAIN timers, TimerDies(i)
  PROVE  TypeInv'
<1> DEFINE timer == [timers[i] EXCEPT !.alive = FALSE]
<1>1. timers \in Seq(Timer) /\ timers[i] \in Timer
  BY TimersTyped
<1>2. timer \in Timer /\ ~timer.alive /\ timers' = [timers EXCEPT ![i] = timer]
  BY <1>1 DEF TimerDies, Timer
<1> HIDE DEF timer
<1>3. timers' \in Seq(Timer) /\ TimersInList'
  BY <1>2, TimerChanged DEF TimerDies
<1> QED
  BY <1>3 DEF TimerDies, TypeInv, TypeOK, LoadedFromFile, Timer, TimersInList,
     deviceVars, platformVars, pageVars, history

LEMMA FirstRemoved ==
  ASSUME NEW S, NEW q \in Seq(S), q # <<>>
  PROVE  RemoveAt(q, 1) = Tail(q)
<1>1. SubSeq(q, 1, 1 - 1) = <<>>
  BY SubSeqEmpty
<1>2. SubSeq(q, 1 + 1, Len(q)) = Tail(q) /\ Tail(q) \in Seq(S)
  BY TailIsSubSeq, HeadTailProperties
<1>3. <<>> \o Tail(q) = Tail(q)
  BY <1>2, ConcatEmptySeq
<1> QED
  BY <1>1, <1>2, <1>3 DEF RemoveAt

\* What happens to the reading that is handed over: it goes to the pages that
\* are connected, and passes the others by.
LEMMA Broadcast ==
  ASSUME TypeInv, NEW i \in DOMAIN toPlatform, ReadingArrives(i)
  PROVE  /\ toPlatform # <<>> /\ toPlatform' = Tail(toPlatform)
         /\ Head(toPlatform) # Request
         /\ Head(toPlatform) \in DOMAIN readings
         /\ events' \in [Pages -> Seq(DOMAIN readings)]
         /\ missed' \in [Pages -> SUBSET DOMAIN readings]
         /\ \A p \in Pages :
              \/ /\ events'[p] = Append(events[p], Head(toPlatform))
                 /\ missed'[p] = missed[p]
              \/ /\ events'[p] = events[p]
                 /\ missed'[p] = missed[p] \cup {Head(toPlatform)}
<1> DEFINE n == Head(toPlatform)
<1>1. toPlatform \in Seq({Request} \cup DOMAIN readings)
  BY DEF TypeInv, TypeOK
<1>2. i = 1 /\ toPlatform # <<>>
  BY <1>1 DEF ReadingArrives, HandedOver
<1>3. toPlatform[1] = n /\ n \in {Request} \cup DOMAIN readings
  BY <1>1, <1>2
<1>4. toPlatform' = Tail(toPlatform)
  BY <1>1, <1>2, FirstRemoved DEF ReadingArrives
<1>5. n # Request /\ n \in DOMAIN readings
  BY <1>2, <1>3 DEF ReadingArrives
<1>6. /\ events' = [p \in Pages |-> IF p \in connected THEN Append(events[p], n)
                                                      ELSE events[p]]
      /\ missed' = [p \in Pages |-> IF p \in connected THEN missed[p]
                                                      ELSE missed[p] \cup {n}]
  BY <1>2, <1>3 DEF ReadingArrives, Recipients
<1> HIDE DEF n
<1>7. \A p \in Pages : /\ events[p] \in Seq(DOMAIN readings)
                       /\ Append(events[p], n) \in Seq(DOMAIN readings)
                       /\ missed[p] \subseteq DOMAIN readings
  BY <1>5, AppendProperties DEF TypeInv, TypeOK
<1>8. /\ events' \in [Pages -> Seq(DOMAIN readings)]
      /\ missed' \in [Pages -> SUBSET DOMAIN readings]
  BY <1>5, <1>6, <1>7
<1>9. \A p \in Pages :
        \/ events'[p] = Append(events[p], n) /\ missed'[p] = missed[p]
        \/ events'[p] = events[p] /\ missed'[p] = missed[p] \cup {n}
  BY <1>6
<1> QED
  BY <1>2, <1>4, <1>5, <1>8, <1>9 DEF n

LEMMA PlatformType == TypeInv /\ Platform => TypeInv'
<1> SUFFICES ASSUME TypeInv, Platform PROVE TypeInv'
  OBVIOUS
<1>1. toPlatform # <<>> =>
        Tail(toPlatform) \in Seq({Request} \cup DOMAIN readings)
  BY HeadTailProperties DEF TypeInv, TypeOK
<1>2. CASE PlatformSubscribes
  BY <1>2 DEF PlatformSubscribes, TypeInv, TypeOK, LoadedFromFile, deviceVars,
     timerVars, pageVars, history
<1>3. CASE RunRequestArrives
  BY <1>1, <1>3 DEF RunRequestArrives, TypeInv, TypeOK, LoadedFromFile,
     deviceVars, timerVars, pageVars, history
<1>4. ASSUME NEW i \in DOMAIN toPlatform, ReadingArrives(i) PROVE TypeInv'
  BY <1>1, <1>4, Broadcast DEF ReadingArrives, TypeInv, TypeOK, LoadedFromFile,
     deviceVars, timerVars
<1> QED
  BY <1>2, <1>3, <1>4 DEF Platform

\* What a page does with the reading it receives.
LEMMA Received ==
  ASSUME TypeInv, NEW p \in Pages, PageReceives(p)
  PROVE  LET n == Head(events[p]) IN
         /\ events[p] # <<>> /\ n \in DOMAIN readings
         /\ readings[n] \in Reading
         /\ events' \in [Pages -> Seq(DOMAIN readings)]
         /\ shown' \in [Pages -> Seq(DOMAIN readings)]
         /\ events'[p] = Tail(events[p]) /\ shown'[p] = Append(shown[p], n)
         /\ \A q \in Pages \ {p} : /\ events'[q] = events[q]
                                   /\ shown'[q] = shown[q]
<1> DEFINE n == Head(events[p])
<1>1. /\ events[p] \in Seq(DOMAIN readings) /\ events[p] # <<>>
      /\ shown[p] \in Seq(DOMAIN readings)
      /\ readings \in Seq(Reading)
  BY DEF PageReceives, TypeInv, TypeOK, Reading
<1>2. n \in DOMAIN readings /\ Tail(events[p]) \in Seq(DOMAIN readings)
  BY <1>1, HeadTailProperties
<1>3. readings[n] \in Reading
  BY <1>1, <1>2
<1>4. /\ events' = [events EXCEPT ![p] = Tail(@)]
      /\ shown' = [shown EXCEPT ![p] = Append(@, n)]
  BY DEF PageReceives
<1> HIDE DEF n
<1>5. Append(shown[p], n) \in Seq(DOMAIN readings)
  BY <1>1, <1>2, AppendProperties
<1>6. /\ events' \in [Pages -> Seq(DOMAIN readings)]
      /\ shown' \in [Pages -> Seq(DOMAIN readings)]
      /\ events'[p] = Tail(events[p]) /\ shown'[p] = Append(shown[p], n)
      /\ \A q \in Pages \ {p} : events'[q] = events[q] /\ shown'[q] = shown[q]
  BY <1>2, <1>4, <1>5 DEF TypeInv, TypeOK
<1> QED
  BY <1>1, <1>2, <1>3, <1>6 DEF n

LEMMA PageType ==
  ASSUME TypeInv, NEW p \in Pages, Page(p)
  PROVE  TypeInv'
<1>1. CASE PageConnects(p)
  BY <1>1 DEF PageConnects, TypeInv, TypeOK, LoadedFromFile, deviceVars,
     timerVars, platformVars, history
<1>2. CASE PageReceives(p)
  <2> DEFINE reading == readings[Head(events[p])]
  <2>1. reading \in Reading
    BY <1>2, Received
  <2>2. reading.value \in Int /\ reading.value \in Value /\ now \in Int
    <3>1. now \in 0 .. MaxTime
      BY DEF TypeInv, TypeOK
    <3>2. now \in Int
      BY <3>1
    <3>3. reading.value \in Int
      BY <2>1 DEF Reading
    <3> QED
      BY <3>2, <3>3 DEF Value
  <2>3. append(series[p], now, reading.value, FALSE) \in Seq(Point)
    <3>1. series[p] \in Seq(Point)
      BY DEF TypeInv, TypeOK
    <3> QED
      BY <2>2, <3>1, AppendTyped
  <2>4. <<reading.value>> \o console[p] \in Seq(Int)
    <3>1. console[p] \in Seq(Int) /\ <<reading.value>> \in Seq(Int)
      BY <2>2 DEF TypeInv, TypeOK
    <3> QED
      BY <3>1, ConcatProperties
  <2>5. \/ /\ series' = [series EXCEPT
                           ![p] = append(@, now, reading.value, FALSE)]
           /\ UNCHANGED console
        \/ /\ console' = [console EXCEPT ![p] = <<reading.value>> \o @]
           /\ UNCHANGED series
    BY <1>2 DEF PageReceives
  <2> HIDE DEF reading
  <2>6. series' \in [Pages -> Seq(Point)] /\ console' \in [Pages -> Seq(Int)]
    BY <2>3, <2>4, <2>5 DEF TypeInv, TypeOK
  <2> QED
    BY <1>2, <2>6, Received DEF PageReceives, TypeInv, TypeOK, LoadedFromFile,
       deviceVars, timerVars, platformVars
<1> QED
  BY <1>1, <1>2 DEF Page

\* What is lost on the way to the platform is a set of readings.
LEMMA NumberedType ==
  ASSUME TypeInv
  PROVE  Numbered(toPlatform) \subseteq DOMAIN readings
<1>1. toPlatform \in Seq({Request} \cup DOMAIN readings)
  BY DEF TypeInv, TypeOK
<1>2. ToSet(toPlatform) \subseteq {Request} \cup DOMAIN readings
  BY <1>1, QueuedType
<1> QED
  BY <1>2 DEF Numbered

LEMMA OutageType ==
  ASSUME TypeInv,
         \/ PlatformDisconnects \/ PlatformRestarts \/ DeviceDisconnects \/ Tick
         \/ \E p \in Pages : PageDisconnects(p)
  PROVE  TypeInv'
<1>1. /\ Numbered(toPlatform) \subseteq DOMAIN readings
      /\ \A p \in Pages : ToSet(events[p]) \subseteq DOMAIN readings
      /\ \A p \in Pages : missed[p] \subseteq DOMAIN readings
  BY NumberedType, QueuedType DEF TypeInv, TypeOK
<1>2. outages \in Nat /\ outages + 1 \in Nat
  BY DEF TypeInv, TypeOK
<1>3. \A S : <<>> \in Seq(S)
  OBVIOUS
<1>4. CASE PlatformDisconnects
  <2>1. missed' \in [Pages -> SUBSET DOMAIN readings]
    BY <1>1, <1>4 DEF PlatformDisconnects
  <2>2. toPlatform' \in Seq({Request} \cup DOMAIN readings)
    BY <1>3, <1>4 DEF PlatformDisconnects
  <2> QED
    BY <1>2, <1>4, <2>1, <2>2 DEF PlatformDisconnects, Break, TypeInv, TypeOK,
       LoadedFromFile, deviceVars, timerVars, pageVars
<1>5. CASE PlatformRestarts
  <2>1. missed' \in [Pages -> SUBSET DOMAIN readings]
    BY <1>1, <1>5 DEF PlatformRestarts
  <2>2. /\ toPlatform' \in Seq({Request} \cup DOMAIN readings)
        /\ events' \in [Pages -> Seq(DOMAIN readings)]
    BY <1>3, <1>5 DEF PlatformRestarts
  <2> QED
    BY <1>2, <1>5, <2>1, <2>2 DEF PlatformRestarts, Break, TypeInv, TypeOK,
       LoadedFromFile, deviceVars, timerVars
<1>6. CASE DeviceDisconnects
  <2>1. device' \in {"connecting", "asked", "silent", "exited"}
    BY <1>6 DEF DeviceDisconnects, TypeInv, TypeOK
  <2> QED
    BY <1>2, <1>6, <2>1 DEF DeviceDisconnects, Break, TypeInv, TypeOK,
       LoadedFromFile, timerVars, pageVars, history
<1>7. CASE Tick
  BY <1>7, RunStreamAssumption DEF Tick, TypeInv, TypeOK, LoadedFromFile,
     deviceVars, timerVars, platformVars, history
<1>8. ASSUME NEW p \in Pages, PageDisconnects(p) PROVE TypeInv'
  <2>1. missed' \in [Pages -> SUBSET DOMAIN readings]
    BY <1>1, <1>8 DEF PageDisconnects, TypeInv, TypeOK
  <2>2. events' \in [Pages -> Seq(DOMAIN readings)]
    BY <1>3, <1>8 DEF PageDisconnects, TypeInv, TypeOK
  <2> QED
    BY <1>2, <1>8, <2>1, <2>2 DEF PageDisconnects, Break, TypeInv, TypeOK,
       LoadedFromFile, deviceVars, timerVars, platformVars
<1> QED
  BY <1>4, <1>5, <1>6, <1>7, <1>8

LEMMA TypeStep == TypeInv /\ [Next]_vars => TypeInv'
<1>1. TypeInv /\ UNCHANGED vars => TypeInv'
  BY DEF TypeInv, TypeOK, LoadedFromFile, vars, deviceVars, timerVars,
     platformVars, pageVars, history
<1> QED
  BY <1>1, DeviceType, FireType, DieType, PlatformType, PageType, OutageType
  DEF Next

\* Queues, charts and timers have their types; a timer that has published once
\* never looks beyond the end of its list (mqttPublishParam1Stream).
THEOREM StreamTypes == Spec => []TypeOK
<1>1. TypeInv => TypeOK
  BY DEF TypeInv
<1> QED
  BY <1>1, InitType, TypeStep, PTL DEF Spec

-----------------------------------------------------------------------------
(* No reading gets lost between two queues.                                 *)

\* A message that leaves the queue of the platform, or joins it.
LEMMA NumberedTail ==
  ASSUME TypeInv, toPlatform # <<>>
  PROVE  Numbered(toPlatform) = ({Head(toPlatform)} \ {Request})
                                  \cup Numbered(Tail(toPlatform))
<1>1. toPlatform \in Seq({Request} \cup DOMAIN readings)
  BY DEF TypeInv, TypeOK
<1>2. ToSet(toPlatform) = {Head(toPlatform)} \cup ToSet(Tail(toPlatform))
  BY <1>1, Dequeued
<1> QED
  BY <1>2 DEF Numbered

LEMMA NumberedAppend ==
  ASSUME TypeInv, NEW m \in Nat
  PROVE  Numbered(Append(toPlatform, m)) = Numbered(toPlatform) \cup ({m} \ {Request})
<1> DEFINE S == {Request} \cup DOMAIN readings \cup {m}
<1>1. toPlatform \in Seq({Request} \cup DOMAIN readings)
  BY DEF TypeInv, TypeOK
<1>2. toPlatform \in Seq(S) /\ m \in S
  BY <1>1, SeqMonotonic
<1> HIDE DEF S
<1>3. ToSet(Append(toPlatform, m)) = ToSet(toPlatform) \cup {m}
  BY <1>2, Enqueued
<1> QED
  BY <1>3 DEF Numbered

\* Where a reading can be, from the point of view of a page.
Whereabouts(p) ==
  ToSet(shown[p]) \cup ToSet(events[p]) \cup Numbered(toPlatform) \cup missed[p]

\* Nothing moves.
LEMMA NothingMoves ==
  ASSUME UNCHANGED <<shown, events, missed, toPlatform>>, NEW p \in Pages
  PROVE  Whereabouts(p)' = Whereabouts(p)
BY DEF Whereabouts, Numbered

LEMMA RequestsMoveNoReading ==
  ASSUME TypeInv, mqttRunRequest \/ RunRequestArrives, NEW p \in Pages
  PROVE  Whereabouts(p)' = Whereabouts(p)
<1>1. UNCHANGED <<shown, events, missed>>
  BY DEF mqttRunRequest, RunRequestArrives, pageVars, history
<1>2. Numbered(toPlatform') = Numbered(toPlatform)
  <2>1. CASE mqttRunRequest
    <3>1. Request \in Nat
      BY DEF Request
    <3>2. Numbered(Append(toPlatform, Request)) = Numbered(toPlatform)
      BY <3>1, NumberedAppend
    <3>3. toPlatform' \in {toPlatform, Append(toPlatform, Request)}
      BY <2>1 DEF mqttRunRequest
    <3> QED
      BY <3>2, <3>3
  <2>2. CASE RunRequestArrives
    BY <2>2, NumberedTail DEF RunRequestArrives
  <2> QED
    BY <2>1, <2>2
<1> QED
  BY <1>1, <1>2 DEF Whereabouts, Numbered

LEMMA FireWhereabouts ==
  ASSUME TypeInv, NEW i \in DOMAIN timers, TimerFires(i), NEW p \in Pages
  PROVE  Whereabouts(p)' = Whereabouts(p) \cup {Len(readings) + 1}
<1> DEFINE n == Len(readings) + 1
<1>1. n \in Nat /\ n # Request
  BY DEF TypeInv, TypeOK, Request
<1>2. UNCHANGED <<shown, events>>
  BY DEF TimerFires, pageVars
<1>3. \/ toPlatform' = Append(toPlatform, n) /\ UNCHANGED missed
      \/ /\ missed' = [q \in Pages |-> missed[q] \cup {n}]
         /\ UNCHANGED toPlatform
  BY Fired
<1> HIDE DEF n
<1>4. Numbered(Append(toPlatform, n)) = Numbered(toPlatform) \cup {n}
  BY <1>1, NumberedAppend
<1>5. CASE toPlatform' = Append(toPlatform, n) /\ UNCHANGED missed
  <2>1. Numbered(toPlatform)' = Numbered(toPlatform) \cup {n}
    BY <1>4, <1>5 DEF Numbered
  <2>2. Whereabouts(p)' = Whereabouts(p) \cup {n}
    BY <1>2, <1>5, <2>1 DEF Whereabouts
  <2> QED
    BY <2>2 DEF n
<1>6. CASE missed' = [q \in Pages |-> missed[q] \cup {n}] /\ UNCHANGED toPlatform
  <2>1. missed'[p] = missed[p] \cup {n} /\ Numbered(toPlatform)' = Numbered(toPlatform)
    BY <1>6 DEF Numbered
  <2>2. Whereabouts(p)' = Whereabouts(p) \cup {n}
    BY <1>2, <2>1 DEF Whereabouts
  <2> QED
    BY <2>2 DEF n
<1> QED
  BY <1>3, <1>5, <1>6

LEMMA BroadcastWhereabouts ==
  ASSUME TypeInv, NEW i \in DOMAIN toPlatform, ReadingArrives(i), NEW p \in Pages
  PROVE  Whereabouts(p)' = Whereabouts(p)
<1>1. PICK n \in DOMAIN readings : n = Head(toPlatform)
  BY Broadcast
<1>2. Numbered(toPlatform) = {n} \cup Numbered(toPlatform)'
  BY <1>1, Broadcast, NumberedTail DEF Numbered
<1>3. shown' = shown
  BY DEF ReadingArrives
<1>4. events[p] \in Seq(DOMAIN readings)
  BY DEF TypeInv, TypeOK
<1>5. ToSet(Append(events[p], n)) = ToSet(events[p]) \cup {n}
  BY <1>4, Enqueued
<1>6. \/ events'[p] = Append(events[p], n) /\ missed'[p] = missed[p]
      \/ events'[p] = events[p] /\ missed'[p] = missed[p] \cup {n}
  BY <1>1, Broadcast
<1>7. ToSet(events'[p]) \cup missed'[p] = ToSet(events[p]) \cup missed[p] \cup {n}
  BY <1>5, <1>6
<1> QED
  BY <1>2, <1>3, <1>7 DEF Whereabouts

LEMMA ReceivedWhereabouts ==
  ASSUME TypeInv, NEW q \in Pages, PageReceives(q), NEW p \in Pages
  PROVE  Whereabouts(p)' = Whereabouts(p)
<1>1. UNCHANGED <<toPlatform, missed>>
  BY DEF PageReceives, platformVars
<1>2. CASE p # q
  <2>1. events'[p] = events[p] /\ shown'[p] = shown[p]
    BY <1>2, Received
  <2> QED
    BY <1>1, <2>1 DEF Whereabouts, Numbered
<1>3. CASE p = q
  <2>1. PICK n \in DOMAIN readings : n = Head(events[p])
    BY <1>3, Received
  <2>2. /\ events[p] # <<>> /\ events'[p] = Tail(events[p])
        /\ shown'[p] = Append(shown[p], n)
    BY <1>3, <2>1, Received
  <2>3. events[p] \in Seq(DOMAIN readings) /\ shown[p] \in Seq(DOMAIN readings)
    BY DEF TypeInv, TypeOK
  <2>4. ToSet(events[p]) = {n} \cup ToSet(events'[p])
    BY <2>1, <2>2, <2>3, Dequeued
  <2>5. ToSet(shown'[p]) = ToSet(shown[p]) \cup {n}
    BY <2>2, <2>3, Enqueued
  <2> QED
    BY <1>1, <2>4, <2>5 DEF Whereabouts, Numbered
<1> QED
  BY <1>2, <1>3

\* What a broken connection takes away has passed the page by.
LEMMA OutageWhereabouts ==
  ASSUME TypeInv, NEW p \in Pages,
         \/ PlatformDisconnects \/ PlatformRestarts
         \/ \E q \in Pages : PageDisconnects(q)
  PROVE  Whereabouts(p)' = Whereabouts(p)
<1>1. ToSet(<<>>) = {} /\ Numbered(<<>>) = {}
  BY EmptyQueue DEF Numbered
<1>2. CASE PlatformDisconnects
  <2>1. /\ UNCHANGED <<shown, events>> /\ Numbered(toPlatform)' = {}
        /\ missed'[p] = missed[p] \cup Numbered(toPlatform)
    BY <1>1, <1>2 DEF PlatformDisconnects, pageVars, Numbered
  <2> QED
    BY <2>1 DEF Whereabouts
<1>3. CASE PlatformRestarts
  <2>1. /\ UNCHANGED shown /\ Numbered(toPlatform)' = {}
        /\ ToSet(events'[p]) = {}
        /\ missed'[p] = missed[p] \cup Numbered(toPlatform) \cup ToSet(events[p])
    BY <1>1, <1>3 DEF PlatformRestarts, Numbered
  <2> QED
    BY <2>1 DEF Whereabouts
<1>4. ASSUME NEW q \in Pages, PageDisconnects(q)
      PROVE  Whereabouts(p)' = Whereabouts(p)
  <2>1. /\ UNCHANGED <<shown, toPlatform>>
        /\ \/ events'[p] = events[p] /\ missed'[p] = missed[p]
           \/ /\ events'[p] = <<>>
              /\ missed'[p] = missed[p] \cup ToSet(events[p])
    BY <1>4 DEF PageDisconnects, platformVars, TypeInv, TypeOK
  <2> QED
    BY <1>1, <2>1 DEF Whereabouts, Numbered
<1> QED
  BY <1>2, <1>3, <1>4

\* The steps that have nothing to do with the queues.
IdleStep ==
  \/ ResponseArrives \/ mqttPublishParam2Stream \/ DeviceReconnects
  \/ \E i \in DOMAIN timers : TimerDies(i)
  \/ PlatformSubscribes
  \/ \E p \in Pages : PageConnects(p)
  \/ DeviceDisconnects \/ Tick \/ UNCHANGED vars

LEMMA IdleSteps ==
  IdleStep => UNCHANGED <<readings, shown, events, missed, toPlatform, series>>
BY DEF IdleStep, ResponseArrives, mqttPublishParam2Stream, DeviceReconnects,
   TimerDies, PlatformSubscribes, PageConnects, DeviceDisconnects, Tick, vars,
   deviceVars, timerVars, platformVars, pageVars, history

\* Every step is one of these.
LEMMA Steps ==
  ASSUME [Next]_vars
  PROVE  \/ IdleStep
         \/ mqttRunRequest \/ RunRequestArrives
         \/ \E i \in DOMAIN timers : TimerFires(i)
         \/ \E i \in DOMAIN toPlatform : ReadingArrives(i)
         \/ \E p \in Pages : PageReceives(p)
         \/ PlatformDisconnects \/ PlatformRestarts
         \/ \E p \in Pages : PageDisconnects(p)
BY DEF IdleStep, Next, Device, Platform, Page

\* Every reading gets to every page, in the end or already, except for those
\* that pass a page by while one of the connections on its way is broken: the
\* callback of the platform passes each on to all pages (runMessageArrived,
\* getBroadcastOperations).
THEOREM NoReadingDropped == Spec => []EveryReadingArrives
<1> DEFINE Inv == TypeInv /\ \A p \in Pages : DOMAIN readings = Whereabouts(p)
<1>1. Init => Inv
  <2> SUFFICES ASSUME Init, NEW p \in Pages PROVE DOMAIN readings = Whereabouts(p)
    BY InitType
  <2>1. DOMAIN readings = {} /\ Numbered(toPlatform) = {} /\ missed[p] = {}
    BY EmptyQueue DEF Init, Numbered
  <2>2. ToSet(shown[p]) = {} /\ ToSet(events[p]) = {}
    BY EmptyQueue DEF Init
  <2> QED
    BY <2>1, <2>2 DEF Whereabouts
<1>2. Inv /\ [Next]_vars => Inv'
  <2> SUFFICES ASSUME Inv, [Next]_vars, NEW p \in Pages
               PROVE  DOMAIN readings' = Whereabouts(p)'
    BY TypeStep
  <2>1. CASE IdleStep
    BY <2>1, IdleSteps, NothingMoves
  <2>2. CASE mqttRunRequest \/ RunRequestArrives
    BY <2>2, RequestsMoveNoReading DEF mqttRunRequest, RunRequestArrives, history
  <2>3. ASSUME NEW i \in DOMAIN timers, TimerFires(i)
        PROVE  DOMAIN readings' = Whereabouts(p)'
    <3>1. PICK reading \in Reading : readings' = Append(readings, reading)
      BY <2>3, Fired
    <3>2. DOMAIN readings' = DOMAIN readings \cup {Len(readings) + 1}
      BY <3>1, ReadingsGrow
    <3> QED
      BY <2>3, <3>2, FireWhereabouts
  <2>4. ASSUME NEW i \in DOMAIN toPlatform, ReadingArrives(i)
        PROVE  DOMAIN readings' = Whereabouts(p)'
    BY <2>4, BroadcastWhereabouts DEF ReadingArrives
  <2>5. ASSUME NEW q \in Pages, PageReceives(q)
        PROVE  DOMAIN readings' = Whereabouts(p)'
    BY <2>5, ReceivedWhereabouts DEF PageReceives
  <2>6. CASE PlatformDisconnects \/ PlatformRestarts
               \/ \E q \in Pages : PageDisconnects(q)
    BY <2>6, OutageWhereabouts DEF PlatformDisconnects, PlatformRestarts,
       PageDisconnects
  <2> QED
    BY <2>1, <2>2, <2>3, <2>4, <2>5, <2>6, Steps
<1>3. Inv => EveryReadingArrives
  BY DEF EveryReadingArrives, Whereabouts
<1> QED
  BY <1>1, <1>2, <1>3, PTL DEF Spec

-----------------------------------------------------------------------------
(* No reading overtakes another: a queue is in the order of publication, and *)
(* what is in one queue is older than what is in the one behind it.          *)

Ordered(s) ==
  \A i, j \in 1 .. Len(s) :
    i < j /\ s[i] # Request /\ s[j] # Request => s[i] < s[j]

Older(S, T) == \A x \in S \ {Request}, y \in T \ {Request} : x < y

LEMMA OrderedAppend ==
  ASSUME NEW s \in Seq(Nat), Ordered(s), NEW n \in Nat, Older(ToSet(s), {n})
  PROVE  Ordered(Append(s, n))
<1> DEFINE t == Append(s, n)
<1>1. /\ Len(s) \in Nat /\ Len(t) = Len(s) + 1
      /\ \A i \in 1 .. Len(s) : t[i] = s[i]
      /\ t[Len(s) + 1] = n
  BY AppendProperties
<1>2. \A i \in 1 .. Len(s) : s[i] \in ToSet(s)
  BY DEF ToSet
<1> HIDE DEF t
<1>3. ASSUME NEW i \in 1 .. Len(t), NEW j \in 1 .. Len(t), i < j,
             t[i] # Request, t[j] # Request
      PROVE  t[i] < t[j]
  <2>1. i \in 1 .. Len(s) /\ t[i] = s[i]
    BY <1>1, <1>3
  <2>2. CASE j \in 1 .. Len(s)
    BY <1>1, <1>3, <2>1, <2>2 DEF Ordered
  <2>3. CASE j = Len(s) + 1
    BY <1>1, <1>2, <1>3, <2>1, <2>3 DEF Older
  <2> QED
    BY <1>1, <2>2, <2>3
<1>4. Ordered(t)
  BY <1>3 DEF Ordered
<1> QED
  BY <1>4 DEF t

LEMMA OrderedTail ==
  ASSUME NEW s \in Seq(Nat), Ordered(s), s # <<>>
  PROVE  Ordered(Tail(s)) /\ Older({Head(s)}, ToSet(Tail(s)))
<1> DEFINE t == Tail(s)
<1>1. /\ Len(s) \in Nat \ {0} /\ Head(s) = s[1]
      /\ Len(t) = Len(s) - 1 /\ DOMAIN t = 1 .. Len(t)
      /\ \A i \in 1 .. Len(t) : t[i] = s[i + 1]
  BY HeadTailProperties
<1> HIDE DEF t
<1>2. Ordered(t)
  <2> SUFFICES ASSUME NEW i \in 1 .. Len(t), NEW j \in 1 .. Len(t), i < j,
                      t[i] # Request, t[j] # Request
               PROVE  t[i] < t[j]
    BY DEF Ordered
  <2>1. i + 1 \in 1 .. Len(s) /\ j + 1 \in 1 .. Len(s) /\ i + 1 < j + 1
    BY <1>1
  <2> QED
    BY <1>1, <2>1 DEF Ordered
<1>3. ASSUME NEW j \in 1 .. Len(t), t[j] # Request, s[1] # Request
      PROVE  s[1] < t[j]
  <2>1. 1 \in 1 .. Len(s) /\ j + 1 \in 1 .. Len(s) /\ 1 < j + 1
    BY <1>1
  <2> QED
    BY <1>1, <1>3, <2>1 DEF Ordered
<1>4. Older({Head(s)}, ToSet(t))
  BY <1>1, <1>3 DEF Older, ToSet
<1> QED
  BY <1>2, <1>4 DEF t

LEMMA OrderedConcat ==
  ASSUME NEW s \in Seq(Nat), NEW t \in Seq(Nat), Ordered(s), Ordered(t),
         Older(ToSet(s), ToSet(t))
  PROVE  /\ s \o t \in Seq(Nat) /\ Ordered(s \o t)
         /\ ToSet(s \o t) \subseteq ToSet(s) \cup ToSet(t)
<1> DEFINE u == s \o t
<1>1. /\ u \in Seq(Nat) /\ Len(u) = Len(s) + Len(t)
      /\ \A i \in 1 .. Len(u) : u[i] = IF i <= Len(s) THEN s[i]
                                                    ELSE t[i - Len(s)]
  BY ConcatProperties
<1>2. /\ Len(s) \in Nat /\ Len(t) \in Nat
      /\ \A i \in 1 .. Len(s) : s[i] \in ToSet(s)
      /\ \A i \in 1 .. Len(t) : t[i] \in ToSet(t)
  BY DEF ToSet
<1> HIDE DEF u
<1>3. \A i \in 1 .. Len(u) : \/ i \in 1 .. Len(s) /\ u[i] = s[i]
                             \/ /\ i - Len(s) \in 1 .. Len(t)
                                /\ i > Len(s) /\ u[i] = t[i - Len(s)]
  BY <1>1, <1>2
<1>4. ASSUME NEW i \in 1 .. Len(u), NEW j \in 1 .. Len(u), i < j,
             u[i] # Request, u[j] # Request
      PROVE  u[i] < u[j]
  <2>1. CASE i \in 1 .. Len(s) /\ u[i] = s[i] /\ j \in 1 .. Len(s) /\ u[j] = s[j]
    BY <1>4, <2>1 DEF Ordered
  <2>2. CASE /\ i \in 1 .. Len(s) /\ u[i] = s[i]
             /\ j - Len(s) \in 1 .. Len(t) /\ u[j] = t[j - Len(s)]
    BY <1>2, <1>4, <2>2 DEF Older
  <2>3. CASE /\ i - Len(s) \in 1 .. Len(t) /\ u[i] = t[i - Len(s)]
             /\ j - Len(s) \in 1 .. Len(t) /\ u[j] = t[j - Len(s)]
    <3>1. i - Len(s) < j - Len(s)
      BY <1>2, <1>4
    <3> QED
      BY <1>4, <2>3, <3>1 DEF Ordered
  <2> QED
    BY <1>1, <1>2, <1>3, <1>4, <2>1, <2>2, <2>3
<1>5. ToSet(u) \subseteq ToSet(s) \cup ToSet(t)
  <2>1. DOMAIN u = 1 .. Len(u)
    BY <1>1
  <2>2. \A i \in 1 .. Len(u) : u[i] \in ToSet(s) \cup ToSet(t)
    BY <1>2, <1>3
  <2> QED
    BY <2>1, <2>2, Zenon DEF ToSet
<1>6. Ordered(u)
  BY <1>4 DEF Ordered
<1> QED
  BY <1>1, <1>5, <1>6 DEF u

\* The order of the way to a page: nothing older stands further back.
InOrder(p) ==
  /\ Ordered(shown[p]) /\ Ordered(events[p])
  /\ Older(ToSet(shown[p]), ToSet(events[p]))
  /\ Older(ToSet(shown[p]), ToSet(toPlatform))
  /\ Older(ToSet(events[p]), ToSet(toPlatform))

OrderInv == TypeInv /\ Ordered(toPlatform) /\ \A p \in Pages : InOrder(p)

\* What is on its way has been published.
LEMMA Published ==
  ASSUME TypeInv
  PROVE  /\ Len(readings) \in Nat
         /\ toPlatform \in Seq(Nat)
         /\ \A n \in ToSet(toPlatform) : n \in Nat /\ n <= Len(readings)
         /\ \A p \in Pages :
              /\ shown[p] \in Seq(Nat) /\ events[p] \in Seq(Nat)
              /\ \A n \in ToSet(shown[p]) \cup ToSet(events[p]) :
                   n \in Nat /\ n <= Len(readings)
<1>1. /\ Len(readings) \in Nat
      /\ \A n \in {Request} \cup DOMAIN readings :
           n \in Nat /\ n <= Len(readings)
  BY DEF TypeInv, TypeOK, Request
<1>2. {Request} \cup DOMAIN readings \subseteq Nat /\ DOMAIN readings \subseteq Nat
  BY <1>1
<1>3. /\ toPlatform \in Seq({Request} \cup DOMAIN readings)
      /\ \A p \in Pages : /\ shown[p] \in Seq(DOMAIN readings)
                          /\ events[p] \in Seq(DOMAIN readings)
  BY DEF TypeInv, TypeOK
<1>4. /\ toPlatform \in Seq(Nat)
      /\ \A p \in Pages : shown[p] \in Seq(Nat) /\ events[p] \in Seq(Nat)
  BY <1>2, <1>3, SeqMonotonic
<1>5. /\ ToSet(toPlatform) \subseteq {Request} \cup DOMAIN readings
      /\ \A p \in Pages : /\ ToSet(shown[p]) \subseteq DOMAIN readings
                          /\ ToSet(events[p]) \subseteq DOMAIN readings
  BY <1>3, QueuedType
<1> QED
  BY <1>1, <1>4, <1>5

\* A queue grows at its end by something younger, or by a request.
LEMMA PlatformQueueGrows ==
  ASSUME OrderInv, NEW n \in Nat, n = Request \/ n > Len(readings),
         toPlatform' = Append(toPlatform, n), UNCHANGED <<shown, events>>
  PROVE  Ordered(toPlatform') /\ \A p \in Pages : InOrder(p)'
<1>1. /\ Len(readings) \in Nat /\ toPlatform \in Seq(Nat)
      /\ \A m \in ToSet(toPlatform) : m \in Nat /\ m <= Len(readings)
  BY Published DEF OrderInv
<1>2. Older(ToSet(toPlatform), {n})
  BY <1>1 DEF Older
<1>3. Ordered(toPlatform')
  BY <1>1, <1>2, OrderedAppend DEF OrderInv
<1>4. ToSet(toPlatform') = ToSet(toPlatform) \cup {n}
  BY <1>1, Enqueued
<1>5. ASSUME NEW p \in Pages PROVE InOrder(p)'
  <2>1. \A m \in ToSet(shown[p]) \cup ToSet(events[p]) :
          m \in Nat /\ m <= Len(readings)
    BY Published DEF OrderInv
  <2>2. /\ Older(ToSet(shown[p]), ToSet(toPlatform'))
        /\ Older(ToSet(events[p]), ToSet(toPlatform'))
    BY <1>1, <1>4, <2>1 DEF OrderInv, InOrder, Older
  <2> QED
    BY <2>2 DEF OrderInv, InOrder
<1> QED
  BY <1>3, <1>5

\* A queue that is emptied from the front, or lost, is still in order.
LEMMA QueuesShrink ==
  ASSUME OrderInv, UNCHANGED shown,
         \/ toPlatform' \in {toPlatform, <<>>}
         \/ toPlatform # <<>> /\ toPlatform' = Tail(toPlatform),
         \A p \in Pages : events'[p] \in {events[p], <<>>}
  PROVE  Ordered(toPlatform') /\ \A p \in Pages : InOrder(p)'
<1>1. toPlatform \in Seq(Nat)
  BY Published DEF OrderInv
<1>2. Ordered(<<>>) /\ ToSet(<<>>) = {}
  BY EmptyQueue DEF Ordered
<1>3. Ordered(toPlatform') /\ ToSet(toPlatform') \subseteq ToSet(toPlatform)
  <2>1. CASE toPlatform' \in {toPlatform, <<>>}
    BY <1>2, <2>1 DEF OrderInv
  <2>2. CASE toPlatform # <<>> /\ toPlatform' = Tail(toPlatform)
    <3>1. Ordered(Tail(toPlatform))
      BY <1>1, <2>2, OrderedTail DEF OrderInv
    <3>2. ToSet(Tail(toPlatform)) \subseteq ToSet(toPlatform)
      BY <1>1, <2>2, Dequeued
    <3> QED
      BY <2>2, <3>1, <3>2
  <2> QED
    BY <2>1, <2>2
<1>4. ASSUME NEW p \in Pages PROVE InOrder(p)'
  <2>1. ToSet(events'[p]) \subseteq ToSet(events[p]) /\ Ordered(events'[p])
    BY <1>2 DEF OrderInv, InOrder
  <2> QED
    BY <1>3, <2>1 DEF OrderInv, InOrder, Older
<1> QED
  BY <1>3, <1>4

LEMMA BroadcastInOrder ==
  ASSUME OrderInv, NEW i \in DOMAIN toPlatform, ReadingArrives(i)
  PROVE  Ordered(toPlatform') /\ \A p \in Pages : InOrder(p)'
<1>1. PICK n \in DOMAIN readings : n = Head(toPlatform)
  BY Broadcast DEF OrderInv
<1>2. toPlatform \in Seq(Nat) /\ toPlatform # <<>> /\ toPlatform' = Tail(toPlatform)
  BY Broadcast, Published DEF OrderInv
<1>3. /\ Ordered(toPlatform') /\ Older({n}, ToSet(toPlatform'))
      /\ ToSet(toPlatform') \subseteq ToSet(toPlatform)
      /\ n \in ToSet(toPlatform) /\ n \in Nat
  BY <1>1, <1>2, OrderedTail, Dequeued DEF OrderInv
<1>4. UNCHANGED shown
  BY DEF ReadingArrives
<1>5. ASSUME NEW p \in Pages PROVE InOrder(p)'
  <2>1. /\ Ordered(shown[p]) /\ Ordered(events[p])
        /\ Older(ToSet(shown[p]), ToSet(events[p]))
        /\ Older(ToSet(shown[p]), ToSet(toPlatform))
        /\ Older(ToSet(events[p]), ToSet(toPlatform))
        /\ events[p] \in Seq(Nat)
    BY Published DEF OrderInv, InOrder
  <2>2. CASE events'[p] = events[p]
    BY <1>3, <1>4, <2>1, <2>2 DEF InOrder, Older
  <2>3. CASE events'[p] = Append(events[p], n)
    <3>1. ToSet(events'[p]) = ToSet(events[p]) \cup {n}
      BY <1>3, <2>1, <2>3, Enqueued
    <3>2. Older(ToSet(events[p]), {n})
      BY <1>3, <2>1 DEF Older
    <3>3. Ordered(events'[p])
      BY <1>3, <2>1, <2>3, <3>2, OrderedAppend
    <3> QED
      BY <1>3, <1>4, <2>1, <3>1, <3>3 DEF InOrder, Older
  <2> QED
    BY <1>1, <2>2, <2>3, Broadcast DEF OrderInv
<1> QED
  BY <1>3, <1>5

LEMMA ReceivedInOrder ==
  ASSUME OrderInv, NEW q \in Pages, PageReceives(q)
  PROVE  Ordered(toPlatform') /\ \A p \in Pages : InOrder(p)'
<1>1. UNCHANGED toPlatform
  BY DEF PageReceives, platformVars
<1>2. ASSUME NEW p \in Pages \ {q} PROVE InOrder(p)'
  <2>1. events'[p] = events[p] /\ shown'[p] = shown[p]
    BY Received DEF OrderInv
  <2> QED
    BY <1>1, <2>1 DEF OrderInv, InOrder
<1>3. InOrder(q)'
  <2>1. PICK n \in DOMAIN readings : n = Head(events[q])
    BY Received DEF OrderInv
  <2>2. /\ events[q] # <<>> /\ events'[q] = Tail(events[q])
        /\ shown'[q] = Append(shown[q], n)
    BY <2>1, Received DEF OrderInv
  <2>3. /\ Ordered(shown[q]) /\ Ordered(events[q])
        /\ Older(ToSet(shown[q]), ToSet(events[q]))
        /\ Older(ToSet(shown[q]), ToSet(toPlatform))
        /\ Older(ToSet(events[q]), ToSet(toPlatform))
        /\ events[q] \in Seq(Nat) /\ shown[q] \in Seq(Nat)
    BY Published DEF OrderInv, InOrder
  <2>4. /\ Ordered(events'[q]) /\ Older({n}, ToSet(events'[q]))
        /\ n \in ToSet(events[q]) /\ n \in Nat
        /\ ToSet(events'[q]) \subseteq ToSet(events[q])
    BY <2>1, <2>2, <2>3, OrderedTail, Dequeued
  <2>5. ToSet(shown'[q]) = ToSet(shown[q]) \cup {n}
    BY <2>2, <2>3, <2>4, Enqueued
  <2>6. Older(ToSet(shown[q]), {n})
    BY <2>3, <2>4 DEF Older
  <2>7. Ordered(shown'[q])
    BY <2>2, <2>3, <2>4, <2>6, OrderedAppend
  <2> QED
    BY <1>1, <2>3, <2>4, <2>5, <2>7 DEF InOrder, Older
<1> QED
  BY <1>1, <1>2, <1>3 DEF OrderInv

\* No page sees a reading twice, or one before an older one: the queues of the
\* broker and of socket.io keep their order, and the client library hands the
\* platform one message after another (runMessageArrived, index.html).
THEOREM NoReadingOvertakes == Spec => []ReadingsInOrder
<1>1. Init => OrderInv
  <2> SUFFICES ASSUME Init
               PROVE  Ordered(toPlatform) /\ \A p \in Pages : InOrder(p)
    BY InitType DEF OrderInv
  <2>1. /\ toPlatform = <<>>
        /\ \A p \in Pages : shown[p] = <<>> /\ events[p] = <<>>
    BY DEF Init
  <2>2. Ordered(<<>>) /\ Older(ToSet(<<>>), ToSet(<<>>))
    BY EmptyQueue DEF Ordered, Older
  <2> QED
    BY <2>1, <2>2 DEF InOrder
<1>2. OrderInv /\ [Next]_vars => OrderInv'
  <2> SUFFICES ASSUME OrderInv, [Next]_vars
               PROVE  Ordered(toPlatform') /\ \A p \in Pages : InOrder(p)'
    BY TypeStep DEF OrderInv
  <2>1. CASE IdleStep
    BY <2>1, IdleSteps DEF OrderInv, InOrder
  <2>2. CASE mqttRunRequest
    <3>1. UNCHANGED <<shown, events>> /\ Request \in Nat
      BY <2>2 DEF mqttRunRequest, pageVars, history, Request
    <3>2. CASE toPlatform' = Append(toPlatform, Request)
      BY <3>1, <3>2, PlatformQueueGrows
    <3>3. CASE toPlatform' = toPlatform
      BY <3>1, <3>3 DEF OrderInv, InOrder
    <3> QED
      BY <2>2, <3>2, <3>3 DEF mqttRunRequest
  <2>3. ASSUME NEW i \in DOMAIN timers, TimerFires(i)
        PROVE  Ordered(toPlatform') /\ \A p \in Pages : InOrder(p)'
    <3> DEFINE n == Len(readings) + 1
    <3>1. UNCHANGED <<shown, events>> /\ n \in Nat /\ n > Len(readings)
      BY <2>3, Published DEF TimerFires, pageVars, OrderInv
    <3>2. toPlatform' \in {toPlatform, Append(toPlatform, n)}
      BY <2>3, Fired DEF OrderInv
    <3> HIDE DEF n
    <3>3. CASE toPlatform' = Append(toPlatform, n)
      BY <3>1, <3>3, PlatformQueueGrows
    <3>4. CASE toPlatform' = toPlatform
      BY <3>1, <3>4 DEF OrderInv, InOrder
    <3> QED
      BY <3>2, <3>3, <3>4
  <2>4. CASE RunRequestArrives
    BY <2>4, QueuesShrink DEF RunRequestArrives, pageVars, history
  <2>5. CASE PlatformDisconnects \/ PlatformRestarts
               \/ \E q \in Pages : PageDisconnects(q)
    <3>1. UNCHANGED shown /\ toPlatform' \in {toPlatform, <<>>}
      BY <2>5 DEF PlatformDisconnects, PlatformRestarts, PageDisconnects,
         platformVars
    <3>2. \A p \in Pages : events'[p] \in {events[p], <<>>}
      BY <2>5 DEF PlatformDisconnects, PlatformRestarts, PageDisconnects,
         pageVars, OrderInv, TypeInv, TypeOK
    <3> QED
      BY <3>1, <3>2, QueuesShrink
  <2> QED
    BY <2>1, <2>2, <2>3, <2>4, <2>5, BroadcastInOrder, ReceivedInOrder, Steps
<1>3. OrderInv => ReadingsInOrder
  <2> SUFFICES ASSUME OrderInv, NEW p \in Pages
               PROVE  LET way == shown[p] \o events[p] \o toPlatform
                      IN  /\ DOMAIN way = 1 .. Len(way) /\ Ordered(way)
    BY DEF ReadingsInOrder, Ordered
  <2> DEFINE front == shown[p] \o events[p]
  <2>1. /\ shown[p] \in Seq(Nat) /\ events[p] \in Seq(Nat)
        /\ toPlatform \in Seq(Nat)
    BY Published DEF OrderInv
  <2>2. /\ front \in Seq(Nat) /\ Ordered(front)
        /\ ToSet(front) \subseteq ToSet(shown[p]) \cup ToSet(events[p])
    BY <2>1, OrderedConcat DEF OrderInv, InOrder
  <2> HIDE DEF front
  <2>3. Older(ToSet(front), ToSet(toPlatform))
    BY <2>2 DEF OrderInv, InOrder, Older
  <2>4. front \o toPlatform \in Seq(Nat) /\ Ordered(front \o toPlatform)
    BY <2>1, <2>2, <2>3, OrderedConcat DEF OrderInv
  <2>5. DOMAIN (front \o toPlatform) = 1 .. Len(front \o toPlatform)
    BY <2>4
  <2> QED
    BY <2>4, <2>5 DEF front
<1> QED
  BY <1>1, <1>2, <1>3, PTL DEF Spec

-----------------------------------------------------------------------------
(* The chart of a page ends with the latest.                                *)

\* the k-th reading the page has received is one of the chart
Charted(p, k) == readings[shown[p][k]].param = "param1"

Latest(p, k) == /\ Charted(p, k)
                /\ \A l \in k + 1 .. Len(shown[p]) : ~ Charted(p, l)

ChartOf(p) ==
  /\ Chronological(series[p])
  /\ \A j \in 1 .. Len(series[p]) : series[p][j].time <= now
  /\ \A k \in 1 .. Len(shown[p]) :
       Latest(p, k) => /\ series[p] # <<>>
                       /\ Last(series[p]).value = readings[shown[p][k]].value

ChartInv == TypeInv /\ \A p \in Pages : ChartOf(p)

\* Time that passes and readings that come in change nothing in a chart.
LEMMA ChartStays ==
  ASSUME ChartInv, UNCHANGED <<shown, series>>, now' \in Nat, now <= now',
         \A n \in DOMAIN readings : readings'[n] = readings[n],
         NEW p \in Pages
  PROVE  ChartOf(p)'
<1>1. /\ shown[p] \in Seq(DOMAIN readings) /\ series[p] \in Seq(Point)
      /\ now \in Int /\ now' \in Int
  BY DEF ChartInv, TypeInv, TypeOK
<1>2. \A k \in 1 .. Len(shown[p]) : shown[p][k] \in DOMAIN readings
  BY <1>1
<1>3. ASSUME NEW k \in 1 .. Len(shown[p]), Latest(p, k)' PROVE Latest(p, k)
  <2>1. \A l \in 1 .. Len(shown[p]) : Charted(p, l)' <=> Charted(p, l)
    BY <1>2 DEF Charted
  <2>2. \A l \in k + 1 .. Len(shown[p]) : l \in 1 .. Len(shown[p])
    BY <1>1
  <2> QED
    BY <1>3, <2>1, <2>2 DEF Latest
<1>4. \A j \in 1 .. Len(series[p]) : series[p][j].time <= now'
  <2>1. \A j \in 1 .. Len(series[p]) : series[p][j].time \in Int
    BY <1>1, PointsHaveTimes
  <2>2. \A j \in 1 .. Len(series[p]) : series[p][j].time <= now
    BY DEF ChartInv, ChartOf
  <2> QED
    BY <1>1, <2>1, <2>2
<1>5. Chronological(series[p])
  BY DEF ChartInv, ChartOf
<1>6. ASSUME NEW k \in 1 .. Len(shown[p]), Latest(p, k)'
      PROVE  /\ series[p] # <<>>
             /\ Last(series[p]).value = readings'[shown[p][k]].value
  <2>1. Latest(p, k) /\ readings'[shown[p][k]] = readings[shown[p][k]]
    BY <1>2, <1>3, <1>6
  <2> QED
    BY <2>1 DEF ChartInv, ChartOf
<1> QED
  BY <1>4, <1>5, <1>6 DEF ChartOf

\* Only a page that receives touches its chart.
LEMMA OthersLeaveCharts ==
  ASSUME ChartInv, [Next]_vars, ~ \E p \in Pages : PageReceives(p)
  PROVE  /\ UNCHANGED <<shown, series>> /\ now' \in Nat /\ now <= now'
         /\ \A n \in DOMAIN readings : readings'[n] = readings[n]
<1>1. now \in Nat /\ now \in Int /\ now <= now
  BY DEF ChartInv, TypeInv, TypeOK
<1>2. CASE Tick
  BY <1>1, <1>2 DEF Tick, history
<1>3. ASSUME NEW i \in DOMAIN timers, TimerFires(i)
      PROVE  /\ UNCHANGED <<shown, series>> /\ now' \in Nat /\ now <= now'
             /\ \A n \in DOMAIN readings : readings'[n] = readings[n]
  <2>1. PICK reading \in Reading : readings' = Append(readings, reading)
    BY <1>3, Fired DEF ChartInv
  <2>2. \A n \in DOMAIN readings : readings'[n] = readings[n]
    BY <2>1, ReadingsGrow DEF ChartInv
  <2> QED
    BY <1>1, <1>3, <2>2 DEF TimerFires, pageVars
<1>4. CASE IdleStep /\ ~ Tick
  <2>1. UNCHANGED now
    BY <1>4 DEF IdleStep, ResponseArrives, mqttPublishParam2Stream,
       DeviceReconnects, TimerDies, PlatformSubscribes, PageConnects,
       DeviceDisconnects, vars, pageVars
  <2> QED
    BY <1>1, <1>4, <2>1, IdleSteps
<1>5. CASE mqttRunRequest \/ RunRequestArrives \/ PlatformDisconnects
             \/ PlatformRestarts \/ \E p \in Pages : PageDisconnects(p)
  BY <1>1, <1>5 DEF mqttRunRequest, RunRequestArrives, PlatformDisconnects,
     PlatformRestarts, PageDisconnects, pageVars, history
<1>6. CASE \E i \in DOMAIN toPlatform : ReadingArrives(i)
  BY <1>1, <1>6 DEF ReadingArrives
<1> QED
  BY <1>2, <1>3, <1>4, <1>5, <1>6, Steps

LEMMA ReceiverCharts ==
  ASSUME ChartInv, NEW p \in Pages, PageReceives(p)
  PROVE  ChartOf(p)'
<1>1. PICK n \in DOMAIN readings : n = Head(events[p])
  BY Received DEF ChartInv
<1>2. readings[n] \in Reading /\ shown'[p] = Append(shown[p], n)
  BY <1>1, Received DEF ChartInv
<1>3. UNCHANGED <<readings, now>> /\ now \in Int
  BY DEF PageReceives, ChartInv, TypeInv, TypeOK
<1>4. shown[p] \in Seq(DOMAIN readings) /\ series[p] \in Seq(Point)
  BY DEF ChartInv, TypeInv, TypeOK
<1>5. /\ Len(shown[p]) \in Nat /\ Len(shown'[p]) = Len(shown[p]) + 1
      /\ \A k \in 1 .. Len(shown[p]) : shown'[p][k] = shown[p][k]
      /\ shown'[p][Len(shown[p]) + 1] = n
  BY <1>2, <1>4, AppendProperties
<1>6. CASE readings[n].param = "param1"
  <2> DEFINE value == readings[n].value
             new == append(series[p], now, value, FALSE)
  <2>1. value \in Value
    BY <1>2 DEF Reading, Value
  <2>2. \A j \in 1 .. Len(series[p]) : series[p][j].time <= now
    BY DEF ChartInv, ChartOf
  <2> HIDE DEF value
  <2>3. new \in Seq(Point) /\ Chronological(new)
    BY <1>3, <1>4, <2>1, AppendKeepsOrder DEF ChartInv, ChartOf
  <2>4. /\ new # <<>> /\ Last(new).value = value
        /\ \A j \in 1 .. Len(new) : new[j].time <= now
    BY <1>3, <1>4, <2>1, <2>2, LatestAtTheEnd
  <2>5. series'[p] = new
    BY <1>1, <1>6 DEF PageReceives, ChartInv, TypeInv, TypeOK, value
  <2> HIDE DEF new
  <2>6. ASSUME NEW k \in 1 .. Len(shown'[p]), Latest(p, k)'
        PROVE  k = Len(shown[p]) + 1
    <3>1. ASSUME k # Len(shown[p]) + 1 PROVE FALSE
      <4>1. Len(shown[p]) + 1 \in k + 1 .. Len(shown'[p])
        BY <1>5, <3>1
      <4>2. readings'[shown'[p][Len(shown[p]) + 1]].param = "param1"
        BY <1>3, <1>5, <1>6
      <4> QED
        BY <2>6, <4>1, <4>2 DEF Latest, Charted
    <3> QED
      BY <3>1
  <2>7. ASSUME NEW k \in 1 .. Len(shown'[p]), Latest(p, k)'
        PROVE  /\ series'[p] # <<>>
               /\ Last(series'[p]).value = readings'[shown'[p][k]].value
    BY <1>3, <1>5, <2>4, <2>5, <2>6, <2>7 DEF value
  <2>8. /\ Chronological(series'[p])
        /\ \A j \in 1 .. Len(series'[p]) : series'[p][j].time <= now'
    BY <1>3, <2>3, <2>4, <2>5
  <2> QED
    BY <2>7, <2>8 DEF ChartOf
<1>7. CASE readings[n].param # "param1"
  <2>1. series'[p] = series[p]
    BY <1>1, <1>7 DEF PageReceives
  <2>2. ASSUME NEW k \in 1 .. Len(shown'[p]), Latest(p, k)'
        PROVE  k \in 1 .. Len(shown[p]) /\ Latest(p, k)
    <3>1. k # Len(shown[p]) + 1
      BY <1>3, <1>5, <1>7, <2>2 DEF Latest, Charted
    <3>2. k \in 1 .. Len(shown[p])
      BY <1>5, <3>1
    <3>3. \A l \in 1 .. Len(shown[p]) : Charted(p, l)' <=> Charted(p, l)
      BY <1>3, <1>5 DEF Charted
    <3>4. \A l \in k + 1 .. Len(shown[p]) :
            l \in k + 1 .. Len(shown'[p]) /\ l \in 1 .. Len(shown[p])
      BY <1>5
    <3> QED
      BY <2>2, <3>2, <3>3, <3>4 DEF Latest
  <2>3. ASSUME NEW k \in 1 .. Len(shown'[p]), Latest(p, k)'
        PROVE  /\ series'[p] # <<>>
               /\ Last(series'[p]).value = readings'[shown'[p][k]].value
    <3>1. k \in 1 .. Len(shown[p]) /\ Latest(p, k)
      BY <2>2, <2>3
    <3>2. shown'[p][k] = shown[p][k]
      BY <1>5, <3>1
    <3> QED
      BY <1>3, <2>1, <3>1, <3>2 DEF ChartInv, ChartOf
  <2>4. /\ Chronological(series'[p])
        /\ \A j \in 1 .. Len(series'[p]) : series'[p][j].time <= now'
    BY <1>3, <2>1 DEF ChartInv, ChartOf
  <2> QED
    BY <2>3, <2>4 DEF ChartOf
<1> QED
  BY <1>6, <1>7

\* The chart of a page ends with the latest reading the page has received, and
\* is in order: a point is put where its time stamp belongs, and the clock of
\* the page does not go back (index.html, TimeSeries.prototype.append).
THEOREM ChartShowsLatest == Spec => []ChartEndsWithLatest
<1>1. Init => ChartInv
  <2> SUFFICES ASSUME Init, NEW p \in Pages PROVE ChartOf(p)
    BY InitType DEF ChartInv
  <2>1. series[p] = <<>> /\ shown[p] = <<>>
    BY DEF Init
  <2> QED
    BY <2>1 DEF ChartOf, Chronological
<1>2. ChartInv /\ [Next]_vars => ChartInv'
  <2> SUFFICES ASSUME ChartInv, [Next]_vars, NEW p \in Pages PROVE ChartOf(p)'
    BY TypeStep DEF ChartInv
  <2>1. CASE ~ \E q \in Pages : PageReceives(q)
    BY <2>1, OthersLeaveCharts, ChartStays
  <2>2. ASSUME NEW q \in Pages, PageReceives(q) PROVE ChartOf(p)'
    <3>1. CASE q = p
      BY <2>2, <3>1, ReceiverCharts
    <3>2. CASE q # p
      <4>1. shown'[p] = shown[p] /\ series'[p] = series[p]
        BY <2>2, <3>2, Received DEF PageReceives, ChartInv, TypeInv, TypeOK
      <4>2. UNCHANGED <<readings, now>>
        BY <2>2 DEF PageReceives
      <4> QED
        BY <4>1, <4>2 DEF ChartInv, ChartOf, Latest, Charted
    <3> QED
      BY <3>1, <3>2
  <2> QED
    BY <2>1, <2>2
<1>3. ChartInv => ChartEndsWithLatest
  <2> SUFFICES ASSUME ChartInv PROVE ChartEndsWithLatest
    OBVIOUS
  <2>1. \A p \in Pages : DOMAIN shown[p] = 1 .. Len(shown[p])
    BY DEF ChartInv, TypeInv, TypeOK
  <2> QED
    BY <2>1 DEF ChartInv, ChartOf, ChartEndsWithLatest, Latest, Charted
<1> QED
  BY <1>1, <1>2, <1>3, PTL DEF Spec

=============================================================================
