------------------------------ MODULE RunStream ------------------------------
(***************************************************************************)
(* A run: a device asks the platform for a run, streams the readings of    *)
(* two parameters from its files, and the platform passes each on to every *)
(* page that is connected to it (publisher MqttUtil and SimpleCallback;    *)
(* platform MqttMessageHandler, RunService and EventHandler; index.html).  *)
(*                                                                         *)
(* Every hop keeps the order of messages and has at most one copy of each, *)
(* and whoever is away when one passes misses it: the topics have QoS 0,   *)
(* the sessions are clean, and socket.io repeats no event.                 *)
(***************************************************************************)
EXTENDS TimeSeries, FiniteSets

CONSTANTS
  Pages,         \* the pages of the web client
  File,          \* of each parameter: the readings in its file on the device
  MaxReadings,   \* bound: of each parameter, readings taken from its file
  MaxOutages,    \* bound: connections that break
  MaxTime        \* bound: the clock of the pages

Params == {"param1", "param2"}

ASSUME RunStreamAssumption ==
  /\ File \in [Params -> Seq(Int)]
  /\ MaxReadings \in [Params -> Nat]
  /\ MaxOutages \in Nat /\ MaxTime \in Nat

VARIABLES
  device,        \* "connecting", "asked", "silent" or "exited"
  deviceUp,      \* the device is connected to the broker
  subscribed,    \* the broker has the device's subscription to run responses
  readable,      \* the files can be read
  points,        \* of each parameter: the readings the device has loaded
  timers,        \* the timers of the device
  threads,       \* threads that are to start a timer of param2
  platform,      \* "starting", "subscribed" to run/# or "deaf"
  toPlatform,    \* what the broker has for the platform
  responses,     \* run responses the broker has for the device
  connected,     \* the pages that are connected to the platform
  events,        \* of each page: events on the way to it
  series,        \* of each page: the data of its chart
  console,       \* of each page: what it lists, latest first
  now,           \* the clock of the pages
  readings,      \* history: the readings published
  shown,         \* history: of each page, the readings it has received
  missed,        \* history: of each page, the readings that passed it by
  outages        \* counted against the bound

deviceVars   == <<device, deviceUp, subscribed, readable>>
timerVars    == <<points, timers, threads>>
platformVars == <<platform, toPlatform, responses>>
pageVars     == <<connected, events, series, console, now>>
history      == <<readings, shown, missed>>

vars == <<deviceVars, timerVars, platformVars, pageVars, history, outages>>

-----------------------------------------------------------------------------
\* A reading on its way is the number under which it was published.
Request == 0

Count(r) == Cardinality({n \in DOMAIN readings : readings[n].param = r})

Numbered(queue) == ToSet(queue) \ {Request}

TypeOK ==
  /\ device \in {"connecting", "asked", "silent", "exited"}
  /\ deviceUp \in BOOLEAN /\ subscribed \in BOOLEAN
  /\ readable \in [Params -> BOOLEAN]
  /\ points \in [Params -> Seq(Int)]
  /\ timers \in Seq([param : Params, count : Nat, alive : BOOLEAN])
  /\ \A i \in DOMAIN timers :
       timers[i].alive /\ timers[i].count > 0
         => timers[i].count < Len(points[timers[i].param])
  /\ threads \in Nat /\ responses \in Nat /\ outages \in Nat
  /\ platform \in {"starting", "subscribed", "deaf"}
  /\ readings \in Seq([param : Params, value : Int])
  /\ toPlatform \in Seq({Request} \cup DOMAIN readings)
  /\ connected \subseteq Pages
  /\ events \in [Pages -> Seq(DOMAIN readings)]
  /\ series \in [Pages -> Seq(Point)]
  /\ console \in [Pages -> Seq(Int)]
  /\ shown \in [Pages -> Seq(DOMAIN readings)]
  /\ missed \in [Pages -> SUBSET DOMAIN readings]
  /\ now \in 0 .. MaxTime

Init ==
  /\ device = "connecting"
  /\ deviceUp = TRUE /\ subscribed = FALSE
  /\ readable \in [Params -> BOOLEAN]
  /\ points = [r \in Params |-> <<>>]
  /\ timers = <<>> /\ threads = 0
  /\ platform = "starting" /\ toPlatform = <<>> /\ responses = 0
  /\ connected = {}
  /\ events = [p \in Pages |-> <<>>]
  /\ series = [p \in Pages |-> <<>>]
  /\ console = [p \in Pages |-> <<>>]
  /\ now = 0
  /\ readings = <<>>
  /\ shown = [p \in Pages |-> <<>>]
  /\ missed = [p \in Pages |-> {}]
  /\ outages = 0

-----------------------------------------------------------------------------
(* The device.                                                              *)

\* The subscription to the run responses has succeeded: the device asks for a
\* run, once.
mqttRunRequest ==
  /\ device = "connecting"
  /\ device' = "asked"
  /\ subscribed' = TRUE
  /\ toPlatform' = IF platform = "subscribed" THEN Append(toPlatform, Request)
                                              ELSE toPlatform
  /\ UNCHANGED <<deviceUp, readable, timerVars, platform, responses,
                 pageVars, history, outages>>

\* A file that cannot be read leaves what was loaded before.
Load(r) == points' = [points EXCEPT ![r] = IF readable[r] THEN File[r] ELSE @]

Start(r) ==
  timers' = Append(timers, [param |-> r, count |-> 0, alive |-> TRUE])

\* messageArrived of the device: a run response
ResponseArrives ==
  /\ responses > 0
  /\ responses' = responses - 1
  /\ Load("param1")
  /\ Start("param1")
  /\ threads' = threads + 1
  /\ UNCHANGED <<deviceVars, platform, toPlatform, pageVars, history,
                 outages>>

\* the thread that messageArrived starts
mqttPublishParam2Stream ==
  /\ threads > 0
  /\ threads' = threads - 1
  /\ Load("param2")
  /\ Start("param2")
  /\ UNCHANGED <<deviceVars, platformVars, pageVars, history, outages>>

\* get(count) is beyond the list of a file that was not read: the exception
\* ends the timer.
TimerDies(i) ==
  /\ timers[i].alive
  /\ timers[i].count >= Len(points[timers[i].param])
  /\ timers' = [timers EXCEPT ![i].alive = FALSE]
  /\ UNCHANGED <<deviceVars, points, threads, platformVars, pageVars, history,
                 outages>>

\* Mutant: the count starts again one reading too late.
NextCountLate(i) ==
  IF timers[i].count = Len(points[timers[i].param]) THEN 0
                                                   ELSE timers[i].count + 1

NextCount(i) ==
  IF timers[i].count + 1 = Len(points[timers[i].param]) THEN 0
                                                       ELSE timers[i].count + 1

\* A timer publishes the next reading, and goes on to the one after it
\* whether that succeeds or not.
TimerFires(i) ==
  LET list == points[timers[i].param]  n == Len(readings) + 1 IN
  /\ Count(timers[i].param) < MaxReadings[timers[i].param]
  /\ timers[i].alive
  /\ timers[i].count < Len(list)
  /\ timers' = [timers EXCEPT ![i].count = NextCount(i)]
  /\ readings' = Append(readings, [param |-> timers[i].param,
                                   value |-> list[timers[i].count + 1]])
  /\ IF deviceUp /\ platform = "subscribed"
     THEN /\ toPlatform' = Append(toPlatform, n)
          /\ UNCHANGED missed
     ELSE /\ missed' = [p \in Pages |-> missed[p] \cup {n}]
          /\ UNCHANGED toPlatform
  /\ UNCHANGED <<deviceVars, points, threads, platform, responses, pageVars,
                 shown, outages>>

-----------------------------------------------------------------------------
(* The platform.                                                            *)

\* its subscription to run/# has succeeded: at the start, and after a restart
PlatformSubscribes ==
  /\ platform = "starting"
  /\ platform' = "subscribed"
  /\ UNCHANGED <<deviceVars, timerVars, toPlatform, responses, pageVars,
                 history, outages>>

\* Mutant: the request is not answered.
RunRequestUnanswered ==
  /\ toPlatform # <<>> /\ Head(toPlatform) = Request
  /\ toPlatform' = Tail(toPlatform)
  /\ UNCHANGED <<deviceVars, timerVars, platform, responses, pageVars, history,
                 outages>>

\* runMessageArrived, RunService.generateRunId: the request is answered, for a
\* device that can get the answer.
RunRequestArrives ==
  /\ toPlatform # <<>> /\ Head(toPlatform) = Request
  /\ toPlatform' = Tail(toPlatform)
  /\ responses' = IF subscribed THEN responses + 1 ELSE responses
  /\ UNCHANGED <<deviceVars, timerVars, platform, pageVars, history,
                 outages>>

\* Mutant: messages are handed to a pool of threads, which overtake each other.
HandedOverByPool == DOMAIN toPlatform

\* the position of the message that is next: the MQTT client hands them over
\* one after another
HandedOver == DOMAIN toPlatform \cap {1}

\* Mutant: the event is sent to one client only.
RecipientsOne(pages) ==
  IF pages = {} THEN {} ELSE {CHOOSE p \in pages : TRUE}

\* getBroadcastOperations: everyone who is connected
Recipients(pages) == pages

\* runMessageArrived, EventHandler.onParam1Data and onParam2Data
ReadingArrives(i) ==
  LET n == toPlatform[i] IN
  /\ i \in HandedOver
  /\ n # Request
  /\ toPlatform' = RemoveAt(toPlatform, i)
  /\ events' = [p \in Pages |->
                  IF p \in Recipients(connected) THEN Append(events[p], n)
                                                 ELSE events[p]]
  /\ missed' = [p \in Pages |->
                  IF p \in connected THEN missed[p] ELSE missed[p] \cup {n}]
  /\ UNCHANGED <<deviceVars, timerVars, platform, responses, connected,
                 series, console, now, readings, shown, outages>>

-----------------------------------------------------------------------------
(* The pages.                                                               *)

PageConnects(p) ==
  /\ p \notin connected
  /\ connected' = connected \cup {p}
  /\ UNCHANGED <<deviceVars, timerVars, platformVars, events, series, console,
                 now, history, outages>>

\* the listeners of run/param1 and run/param2
PageReceives(p) ==
  /\ events[p] # <<>>
  /\ events' = [events EXCEPT ![p] = Tail(@)]
  /\ shown' = [shown EXCEPT ![p] = Append(@, Head(events[p]))]
  /\ LET reading == readings[Head(events[p])] IN
       IF reading.param = "param1"
       THEN /\ series' = [series EXCEPT
                            ![p] = append(@, now, reading.value, FALSE)]
            /\ UNCHANGED console
       ELSE /\ console' = [console EXCEPT ![p] = <<reading.value>> \o @]
            /\ UNCHANGED series
  /\ UNCHANGED <<deviceVars, timerVars, platformVars, connected, now, readings,
                 missed, outages>>

-----------------------------------------------------------------------------
(* Connections that break, and the clock.                                   *)

Break == outages < MaxOutages /\ outages' = outages + 1

\* The session is clean, and connectComplete subscribes to nothing: what is on
\* the way is lost, and only a restart brings the subscription back.
PlatformDisconnects ==
  /\ platform = "subscribed" /\ Break
  /\ platform' = "deaf"
  /\ toPlatform' = <<>>
  /\ missed' = [p \in Pages |-> missed[p] \cup Numbered(toPlatform)]
  /\ UNCHANGED <<deviceVars, timerVars, responses, pageVars, readings, shown>>

\* the pages lose their connections with it
PlatformRestarts ==
  /\ platform # "starting" /\ Break
  /\ platform' = "starting"
  /\ toPlatform' = <<>>
  /\ connected' = {}
  /\ events' = [p \in Pages |-> <<>>]
  /\ missed' = [p \in Pages |-> missed[p] \cup Numbered(toPlatform)
                                          \cup ToSet(events[p])]
  /\ UNCHANGED <<deviceVars, timerVars, responses, series, console, now,
                 readings, shown>>

\* The device loses its subscription with the session, and the answer with it.
\* If it had not asked yet, the subscription fails, or the request after it,
\* which makes it exit.
DeviceDisconnects ==
  /\ deviceUp /\ Break
  /\ deviceUp' = FALSE /\ subscribed' = FALSE /\ responses' = 0
  /\ device' \in IF device = "connecting" THEN {"silent", "exited"}
                                           ELSE {device}
  /\ UNCHANGED <<readable, timerVars, platform, toPlatform, pageVars, history>>

\* by itself, without its subscriptions
DeviceReconnects ==
  /\ ~ deviceUp /\ device # "exited"
  /\ deviceUp' = TRUE
  /\ UNCHANGED <<device, subscribed, readable, timerVars, platformVars,
                 pageVars, history, outages>>

PageDisconnects(p) ==
  /\ p \in connected /\ Break
  /\ connected' = connected \ {p}
  /\ events' = [events EXCEPT ![p] = <<>>]
  /\ missed' = [missed EXCEPT ![p] = @ \cup ToSet(events[p])]
  /\ UNCHANGED <<deviceVars, timerVars, platformVars, series, console, now,
                 readings, shown>>

Tick ==
  /\ now < MaxTime
  /\ now' = now + 1
  /\ UNCHANGED <<deviceVars, timerVars, platformVars, connected, events,
                 series, console, history, outages>>

Device ==
  \/ mqttRunRequest
  \/ ResponseArrives
  \/ mqttPublishParam2Stream
  \/ DeviceReconnects

Platform ==
  \/ PlatformSubscribes
  \/ RunRequestArrives
  \/ \E i \in DOMAIN toPlatform : ReadingArrives(i)

Page(p) == PageConnects(p) \/ PageReceives(p)

Next ==
  \/ Device
  \/ \E i \in DOMAIN timers : TimerFires(i) \/ TimerDies(i)
  \/ Platform
  \/ \E p \in Pages : Page(p) \/ PageDisconnects(p)
  \/ PlatformDisconnects
  \/ PlatformRestarts
  \/ DeviceDisconnects
  \/ Tick

\* The timers fire, and the client threads deliver what has arrived.  Nothing
\* makes the platform start, or a page connect.
Fairness ==
  /\ WF_vars(Device)
  /\ WF_vars(\E i \in DOMAIN timers :
               timers[i].param = "param1" /\ TimerFires(i))
  /\ WF_vars(RunRequestArrives)
  /\ WF_vars(\E i \in DOMAIN toPlatform : ReadingArrives(i))
  /\ \A p \in Pages : WF_vars(PageReceives(p))

Spec == Init /\ [][Next]_vars /\ Fairness

-----------------------------------------------------------------------------
(* Properties.                                                              *)

\* Every reading gets to every page, in the end or already, except for those
\* that pass a page by while one of the connections on its way is broken: none
\* is dropped between two threads, or for the sake of another page.
EveryReadingArrives ==
  \A p \in Pages :
    DOMAIN readings = ToSet(shown[p]) \cup ToSet(events[p])
                        \cup Numbered(toPlatform) \cup missed[p]

\* No page sees a reading twice, or one before an older one, whatever breaks
\* and comes back on the way.
ReadingsInOrder ==
  \A p \in Pages :
    LET way == shown[p] \o events[p] \o toPlatform
    IN  \A i, j \in DOMAIN way :
          i < j /\ way[i] # Request /\ way[j] # Request => way[i] < way[j]

\* The chart of a page ends with the latest reading the page has received, and
\* has one for each of its milliseconds, the later ones further right: the time
\* stamp of a point is when the page received it, and several readings can
\* arrive within the same millisecond.
ChartEndsWithLatest ==
  \A p \in Pages :
    LET Charted(k) == readings[shown[p][k]].param = "param1"
    IN  /\ Chronological(series[p])
        /\ \A k \in DOMAIN shown[p] :
             Charted(k) /\ (\A l \in k + 1 .. Len(shown[p]) : ~Charted(l)) =>
               /\ series[p] # <<>>
               /\ Last(series[p]).value = readings[shown[p][k]].value

\* The stream gets under way: if the platform has the device's request, every
\* page that is connected gets a reading, unless something breaks meanwhile or
\* the device cannot read its file.  (A request that finds no platform is
\* never repeated.)
PageGoesLive ==
  \A p \in Pages :
    (Request \in ToSet(toPlatform) /\ p \in connected)
      ~> \/ series[p] # <<>>
         \/ outages > 0
         \/ ~ readable["param1"]

=============================================================================

