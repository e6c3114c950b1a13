# Verification of the MQTT synchronisation platform

This directory models the back end of the platform that keeps AMS devices (the
tablets and controllers that execute processes) in step with a central database,
over MQTT. The program is Java: `src/src/main/java/boston/mqtt` is the
platform, `src/publisher` a sample device; `src/BE-web-socket-client` is the
JavaScript of the pages that show a run live, with the chart library they draw
it with. The modules are translated from that code; comments of the code appear
only where a run shows that the code does something else.

## 1. Inventory

### Components

| component | state it keeps | operations | what makes it correct |
| --- | --- | --- | --- |
| process sync (`ProcessDAO`, `ProcessSyncLog`, `ProcessPublishUtil`) | tables `process_master` and `ams_process_sync` | answer a request with a list; store an upload detail by detail; unsync the other devices; record an acknowledgement; reset the flags | the newest edit of a process wins; no device gets into a state in which it lacks a row and is not sent it; "synced" means synced; an upload is answered |
| id generation (`ProcessIdGenerator`) | none (reads `max(process_id)`) | `generate` | a generated id is new |
| dispatch and acknowledgements (`MqttMessageHandler`) | none | one case per topic | an acknowledgement is only counted for what it acknowledges |
| user sync, schedule sync (`UserDAO`, `UserSyncLog`, `ScheduleDAO`, `ScheduleSyncLog`, ...) | `last_synced_on` per device; reads the tables of users and schedules | answer with what was updated since; record an acknowledgement | no update falls between two windows |
| MQTT connection (`config/MqttUtil`, `SimpleCallback`, `SrvRunner`) | client, connected or not, subscriptions | connect, subscribe, reconnect, shut down on an escaping exception | the platform is, or will be again, subscribed |
| connection pool (`DBConnection`) | Hikari pool of 12 | get, close (rolls back) | nothing leaks, nobody waits for himself |
| runs (`RunService`, `RunPublishUtil`, `EventHandler`) | web-socket sessions | answer a run request; broadcast each reading | every reading gets to every page that is connected, once and in order |
| live page (`index.html`) | one chart, one series, one list | connect; append a reading with the page's time | the chart ends with the latest reading |
| chart library (`smoothie.js`) | per series: points, bounds, an interval; per chart: series, requested frame, y-axis, mouse | append, drop old points, reset bounds; add, remove, reorder series; start, stop, render a frame; tooltip | what is drawn is what was appended; the animation neither doubles nor dies; the axis and the tooltip fit the line |
| response publisher (`PublishResponse`) | none | publish | - |
| sample device (`src/publisher`) | the readings of two files; timers | acknowledgement of each answer and the next request; run request; a reading per timer tick | the stream gets under way |
| query loading (`ResourceManager`) | the query texts | load once | - |
| application start, CORS, `ClientService`, event page | none | - | not modelled, see section 8 |

### How they interact

* The platform subscribes to its topics with QoS 0 over a clean session. The
  Paho client calls `messageArrived` on one thread, so **handlers never overlap
  one another**; a handler that throws an exception out of `messageArrived`
  shuts the connection down.
* Every DAO method takes a connection of its own from the pool. Those that
  write call `setAutoCommit(false)`, and the commit, where there is one, ends
  the method. Closing a connection without a commit rolls back. A handler is
  thus a **sequence of small transactions**, and a crash, a failing
  statement or another writer can fall between any two of them.
* `process_master`, `user_master`, `schedule_master` and the tables about them
  belong to another application, which edits them at any time. It is outside
  this repository; what is assumed of it is in section 6.
* A device publishes a request, gets an answer on its own topic and publishes
  an acknowledgement, which names the client and says `received`, but **not
  which answer it is of**. The platform decides from `ams_process_sync` (a flag)
  or from `last_synced_on` (a time) what the next answer contains.
* In a run the device asks once, is answered with a run id and starts two
  timers, one per parameter. A reading passes four hands: **device, broker,
  callback thread of the platform, web socket of a page**. None of them repeats
  one, and who is away when it passes misses it.
* A page is one JavaScript thread: socket events, animation frames, intervals and
  mouse events run one after another, in any order. A chart is animated by
  **each frame requesting the next one**; a series can be shared by charts, each of
  which drops the points that it no longer needs.

### What is hard here

* a message can be lost between any two steps, in both directions, and nothing
  in the platform repeats one;
* devices restart and ask again, while earlier messages are still on their way;
* acknowledgements arrive late: after another device's upload, or after another
  edit;
* what a device is sent rests on what all earlier answers contained: one
  answer that leaves a row out is not repaired by a later one;
* statements fail one by one, their exceptions are caught at four different
  levels, and some of them are counted as successes;
* timestamps are in whole seconds, and many things happen in one;
* a connection breaks with readings on their way, and comes back with other
  subscriptions than it had;
* points of a series arrive late or with the same time stamp, while its bounds are
  recomputed only now and then and old points are dropped under it;
* an exception in a frame ends the animation of a chart, which keeps thinking
  that it is running.

`PROJECT.json` lists these at the lines where they bite ("hazards").

## 2. The modules

| module | contents |
| --- | --- |
| `ProcessIdGenerator` | an id is its number; `StringLess` is what MySQL's string comparison does to the order of the numbers |
| `ProcessSync` | the process catalogue: platform handlers, devices, network, the table's other owner; EXTENDS `ProcessIdGenerator` |
| `MCProcessSync` | symmetry of the devices, for TLC |
| `ProcessSyncProofs` | the theorems about `ProcessIdGenerator` and `ProcessSync` |
| `RecordSync` | users and schedules |
| `MCRecordSync` | symmetry, for TLC |
| `RecordSyncProofs` | the theorems about `RecordSync` |
| `PlatformConnections` | the callback thread with its MQTT connection and its database connections |
| `PlatformConnectionsProofs` | the theorems about it |
| `TimeSeries` | the operations of a series of the chart library, as operators on its points |
| `TimeSeriesProofs` | the theorems about them |
| `LiveSignal` | abstract specification of what series promise to the charts: maps from times to values that forget only from their old end |
| `SmoothieChart` | charts, the series they share, animation, axis, tooltip; EXTENDS `TimeSeries`, implements `LiveSignal` |
| `MCSmoothieChart` | the options of the charts, for TLC |
| `SmoothieChartProofs` | the theorems about `SmoothieChart` |
| `SignalRefinement` | the theorem that `SmoothieChart` implements `LiveSignal` |
| `RunStream` | a run: device, broker, platform and pages, composed; each page's series is one of `TimeSeries` |
| `MCRunStream` | the files of the device, for TLC |
| `RunStreamProofs` | the theorems about `RunStream` |
| `ProofFacts` | facts that the proofs share: sets and lists of numbers have a least and a greatest, rounding down keeps order, what is in a queue when something joins or leaves it |

### ProcessSync and the code

| model | code |
| --- | --- |
| `master[p]` | the row of `process_master`: `is_modified`, `updated_on`, and `ver`, which stands for title, text, steps and everything else and counts the writes (0: no row) |
| `log[d]` | `ams_process_sync`: no record, `is_synced` 1, `is_synced` 0 |
| `handler` | the call in progress on the callback thread: where it is, the client, the details still to do, `updatedIds`, the ids for the answer |
| `toPlatform[d]`, `toDevice[d]` | the topics, per device, as lossy queues in order |
| `waiting[d]`, `held[d]` | the device: has asked and not heard; what it has stored |
| `best[p]` | a history variable: the newest stamp processed for the row |

A stamp is compared as the code compares it: first `modified`, then the time
(`Newer`). One action is one committed step:

* `sync/process`: `FetchProcessList` (an upload without details);
  `UpdateProcessList`, then for each detail `CompareDetail` and `UpdateProcess`,
  or `InsertProcess`, or `ProcessNotFound` (which drops the rest of the upload),
  then `UnsyncedOtherAmsDevices` and `GetAllModifiedProcessAndPublish`, or
  `NothingTouched` (which answers nothing);
* `sync/ack/process`: `SaveAmsProcessSyncLog`, `CountNotSyncedAmsDevices`,
  `UpdateProcessModifiedStatus`; `RejectAck` for `received = false`;
* failures: `UpdateProcessFails` and `InsertProcessFails` (swallowed, counted as
  done), `SaveAmsProcessSyncLogFails` (logged, the handler goes on),
  `HandlerException` (caught outside, the rest is skipped);
* the environment: `Crash`, `LoseToPlatform`, `LoseToDevice`, `PlatformEdit`,
  and the device's `SendRequest`, `ReceiveReply`, `Restart`.

`UpdateProcessModifiedStatus` goes through `AfterClose`: the method turns
autocommit off, updates and returns, so the database holds what it held before.

### RecordSync and the code

Users and schedules are the same protocol with different queries, so they are
one module: `owner[r]` is the `ams_id` of a schedule or `Everyone` for a user,
and the initial states contain both tables. `Selected` is the two queries (with `BETWEEN
last_synced_on AND now`), `Sent` leaves out users without a role, of whom no
message is built, `GetService` the answer, `GetServiceFails` the builder that
throws on a NULL, `SaveSyncLog` the acknowledgement, which stores the time of
its own arrival. A handler reads one snapshot and publishes once, so it is one
action. `OfInterest` is what the queries select apart from the time: a device's
own schedules, and the users with `token_status = 'VERIFIED'`; `unverified` holds the
others, and `Edit` may put a user in or out of it.

The clock counts half seconds, because two conversions differ in what they do with a
fraction: `CURRENT_TIMESTAMP` cuts it off (`Second`), while the acknowledgement's
`System.currentTimeMillis()` is sent with its milliseconds and rounded by the
column, which has none (`Rounded`): in the second half of a second it is stored as
the next one. `overtaken[d][r]` is a history variable: the current version was
written while an answer to `d`, or its acknowledgement, was on its way, or before the
second had begun that `d` is dated with (`DatedAhead`).

### PlatformConnections and the code

| model | code |
| --- | --- |
| `client`, `onSuccess`, `pending`, `subscribed`, `inbox` | the Paho client: its connection, the callback of `connect`, the two subscriptions, the messages it holds |
| `stack` | the methods the callback thread is in; `messageArrived` at the bottom, then DAO methods, each with the calls it still makes |
| `inUse` | connections taken from the pool |
| `database` | whether the pool still gets connections; a statement can fail before it finds out |

What the statements do is left to the other modules; here only calls, returns
and failures matter. `Calls` gives for each method what it calls: an upload calls
`updateProcess` or `insertProcess` once per detail it writes, then
`unsyncedOtherAmsDevices` and the answer; `insertProcess` calls `generate`.
`StatementFails` is an exception that the method catches. In
`CallWithoutConnection`, `getConnection` returns null: the catch clause calls
`con.rollback()` on the null, and the `NullPointerException` reaches the caller. A
DAO method that calls catches it, rolls back its own connection and returns;
`messageArrived` does not, and the client library shuts its connection down
(`ConnectionLost`) and then reconnects by itself. `ParseFails` is the one exception
that `messageArrived` declares, `InvalidProtocolBufferException`: a payload that does
not parse is thrown out of it before any DAO method is called, with the same
consequence.

The module says what `HandlerException` of `ProcessSync` stands for: one of its
causes is a nested call without a connection.

### TimeSeries, SmoothieChart and the code

A series is a sequence of points with a time and a value; a value is a number or
`NaN`. The loops of `smoothie.js` become what they compute: `Rewind` is the place
where the loop of `append` stops, `RemoveCount` the one of `dropOldData`;
`binarySearch` is a recursive function with the same halving. `LooksBeyond` is
the access behind the last point that `dropOldData` makes if
`maxDataSetLength` is below 2.

| model | code |
| --- | --- |
| `data`, `bounds`, `disabled` | of a series: `data`, `maxValue` and `minValue`, `disabled` |
| `intervals`, `resetBoundsTimerId` | the browser's intervals, and the one a series remembers |
| `seriesSet` | of a chart, in order; a series can be in it twice |
| `frame`, `frames`, `listening` | the frame a chart remembers, the frames the browser still owes it, its mouse listeners |
| `currentVisMinValue`, `currentValueRange`, `isAnimatingScale` | the axis: its bottom, its length, and whether it is still moving |
| `mouseX`, `tooltip` | where the mouse is, and what is displayed for it |
| `samples`, `drawnBy`, `doubled`, `strayed` | history: what was appended, by whom it was drawn, which series have been in two places, and which a chart was told to remove that did not show them |

A call of the library is one action. A frame is one of `PaintFrame`,
`FrameThrows` (an exception in the middle: the series before it are done, those
after it are not, the next frame is not requested) and `SkipFrame` (nothing is
due). `Render` is the part that the first two have in common. Bottom and length of
the y-axis each move a share of their way (`Closer`, with `scaleSmoothing`) with
every frame; the axis is taken to be at rest as soon as both were within 0.1 of their
targets, and until then every frame is painted (`UpdateValueRange`). `One` says how
many units the value 1 has, so that 0.1 is `Tenth` of them; a share that is no whole
number of units is rounded either way. A frame takes its time from the
clock, or from the points for `nonRealtimeData` (`ChartTime`).

`removeTimeSeries` clears the interval that the series remembers whether or not the
chart shows the series; told of a series that only another chart shows, it ends that
one's interval.

`SmoothieChart` implements `LiveSignal` (`SeriesAreSignals`): the refinement mapping takes the
points of a series to the map from their times to their values. A frame that
drops points of several series at once is one step `Forget`.

### RunStream and the code

| model | code |
| --- | --- |
| `device`, `deviceUp`, `subscribed` | the device: has it asked; its connection; the broker's subscription to `ams/run/response/1002` |
| `readable`, `points`, `timers`, `threads` | its files, the static lists they are loaded to, its `Timer`s with their `count`, the threads that are to start the second one |
| `platform`, `toPlatform`, `responses` | the platform's subscription to `run/#`, the messages on the way in, the run responses on the way out |
| `connected`, `events` | socket.io: the pages, and the events on the way to each |
| `series`, `console` | of a page: the data of its chart, its list of values |
| `readings`, `shown`, `missed` | history: what was published, what each page got, what passed it by |

A reading on its way is its number in `readings`. `TimerFires` is a tick of a timer:
the count goes on whether the publish succeeds or not; `TimerDies` is the tick that
looks for a reading in a list that was never loaded. `ReadingArrives(i)` is the
platform's `messageArrived` for the message in place `HandedOver`, the first one,
since the client library hands them over one after another; it broadcasts to who is
connected at that moment.
`PlatformDisconnects` leaves the platform deaf (finding 4), `PlatformRestarts` makes it
subscribe again and takes the pages' connections with it, `DeviceDisconnects`
loses the subscription for the response.

## 3. Properties that hold

* **`NewestEditWins`** (`ProcessSync`): every row carries the newest stamp that
  was ever processed for it. The row is read in one transaction and written in
  another, and uploads of several devices arrive in any order.
* **`ReplyCoversUnseen`** (`ProcessSync`): every list, and every "already
  synced", leaves its receiver with nothing missing. It relates the content of
  an answer to everything the device got or lost before.
* **`NothingLostForGood`** (`ProcessSync`): a device with a record is only
  ever sent rows with `is_modified = 1`. So a row that it lacks must have that
  flag; otherwise no request would ever bring it.
* **`MissedOnlyIfOvertaken`** (`RecordSync`): the only updates that a device can
  miss for good are those made while an answer, or its acknowledgement, was
  under way, and those made in the rest of a second in whose second half its
  acknowledgement arrived. All the others survive losses, failed acknowledgements and
  restarts, also within one second.
* **`ConnectionAvailable`** (`PlatformConnections`): a method that is about to take
  a connection finds one, so the thread never waits for a connection it holds
  itself, or that an earlier handler did not give back. An insert needs three.
* **`StaysSubscribed`**: the subscriptions end with the network, with an
  outage of the database, or with a payload that does not parse, and never by a
  statement that fails or for want of a connection. That they do not come back is
  finding 4.
* **`HandlerEnds`** (liveness): every handler comes to an end, even if the database
  never comes back.
* **`SeriesInOrder`** (`SmoothieChart`): a series is in chronological order and has
  no time stamp twice, whatever arrives late, repeats a time or is dropped.
* **`SeriesAreSignals`** (refinement): what the charts draw is a map
  from times to values that forgets only from its old end, and never its newest
  sample, whichever charts drop points from it.
* **`NothingNeededDropped`**: a chart that draws its series by itself, or together with charts that
  look no less far back, finds every sample it could still draw, with its last
  value, and one before those, from which the line comes in at the left. With a
  chart of a shorter memory this fails, which the property's condition says; and it
  is about charts that follow the clock (see the last point of section 4).
* **`BoundsCoverData`**, **`AxisCoversLine`**, **`BoundsTighten`** (liveness): the bounds of a
  series cover its points at all times; an axis that has come to rest shows
  every point drawn, up to 0.1 below its bottom and 0.2 above its top, where the
  tolerances of bottom and length add up; and bounds that are too wide do not stay so. The three
  relate points, bounds and axis, which the code updates at different times.
* **`TooltipOnTheLine`**: the tooltip names, for every series, the first point right
  of the mouse, and only where there is a line.
* **`OneAnimation`**: at most one frame is requested of a chart, it is the one that
  `stop` cancels, and the mouse is listened to exactly while it runs. It exempts
  a chart with `maxDataSetLength` below 2, whose frames can throw; the run
  includes one, and it does die.
* **`IntervalsFollowCharts`**: as long as a series is in a chart, an interval
  recomputes its bounds, and a series that was never in two places leaves no
  interval behind. (One that was leaves one behind: it remembers only the
  last. `graph.js` adds its first series twice. And a series that a chart was told to
  remove while only another one shows it loses its interval; `BoundsTighten` exempts
  it too.)
* **`EveryReadingArrives`** (`RunStream`): at any time every reading has reached a page,
  is on its way to it, or passed by while a connection was broken.
  **`ReadingsInOrder`**: no page sees one twice or before an older one.
* **`ChartEndsWithLatest`**: the last point of a page's chart is the last reading it
  received. The time stamp is the page's own, so readings that arrive within one
  millisecond replace each other, and it must be the last that stays.
* **`PageGoesLive`** (liveness): once the platform has the device's request, every
  page that is connected gets a reading, unless something breaks or the
  device cannot read its file. A request that finds no platform is not repeated,
  and nothing is promised for it.
* One type invariant per module (`TypeOK`); in `RecordSync` it includes that no update
  lies in the future and no acknowledgement further than rounding puts it, in
  `RunStream` that a timer never counts beyond its list.

The second and third property hold **because of a defect**: `is_modified` is
never reset (finding 1), so a known device is sent every row that was ever
modified, again and again. The mutant `UpdateProcessModifiedStatusCommitted`,
which is what one would write to repair it, violates `ReplyCoversUnseen`: a late
acknowledgement of an older list makes the platform believe that all devices are
synced (finding 2), and the flags they still depend on are cleared. Whoever adds
the missing commit must also make an acknowledgement name its list.

## 4. Findings

Each is a run of its own that TLC must find violated.

1. `process_reset` / `ResetClears`. `updateProcessModifiedStatus` never commits;
   the log says that the status was changed to 0.
2. `process_all_synced` / `AllSyncedIsTrue`. "All ams devices have been synced"
   is concluded from an acknowledgement of a list older than the last upload.
3. `process_already_synced` / `AlreadySyncedIsTrue`. A device acknowledges the
   not-found message too, gets a record in `ams_process_sync`, and is from then
   on told that it is synced though it was never sent the list.
4. `platform_resubscribes` / `Resubscribes`. After an automatic reconnect the
   client is connected to a clean session and subscribed to nothing; the place
   for it says "Make or re-make subscriptions here". Together with
   `CallWithoutConnection` an outage of the database of 20 seconds is enough to
   make the platform deaf until it is restarted; with `ParseFails`, one message that
   does not parse.

Six more things the models do, as the code does, that a maintainer should know
of. They have no run of their own:

* an upload of which no detail is newer gets no answer (`NothingTouched`);
* a failed insert or update is counted as done (`UpdateProcessFails`,
  `InsertProcessFails`);
* `last_synced_on` is the time at which the acknowledgement arrives: an update
  between the query and that moment is never sent, and neither is one in the rest of
  that second if the time is rounded up (`MissedOnlyIfOvertaken` says that
  nothing else is missed);
* a chart with `maxDataSetLength` 1 can stop for good with an exception, and `start`
  does not revive it (`FrameThrows`);
* `removeTimeSeries` ends the interval of a series that only another chart shows, and
  the bounds of that one are only ever widened from then on;
* a chart with `nonRealtimeData` takes its time from the latest of its series. When
  that series is removed the chart goes back in time, to points of the others that
  it has already dropped (`ChartTime`).

## 5. Runs and bounds

| run | module | result | instance | distinct states |
| --- | --- | --- | --- | --- |
| `process_convergence` | ProcessSync | holds | details with `modified` 0 and 1, two times, a foreign id, 1 crash, 1 fault of any kind | 2.3 million |
| `process_delivery` | ProcessSync | holds | up to two details per upload, 1 handler exception | 1.7 million |
| `process_durability` | ProcessSync | holds | 1 edit by the table's owner, 1 crash, 1 failed write or acknowledgement | 2.7 million |
| `record_sync` | RecordSync | holds | users and schedules, 2 records (one roleless, users verified or not), a second and a half by halves, 2 edits, 1 failed acknowledgement | 3.3 million |
| `platform_connections` | PlatformConnections | holds | pool of 3, uploads of up to 2 details, 3 messages, 1 network loss, 1 outage, 1 payload that does not parse, any number of failing statements | 7 thousand |
| `chart_line` | SmoothieChart | holds | two charts with windows of 1 ms and 2 ms, one series, 3 points up to 1 ms late, replaced or summed, 1 clear or switch, 2 calls of `addTimeSeries`, a mouse over the first chart | 348 thousand |
| `chart_axis` | SmoothieChart | holds | a chart with the defaults; one with `maxDataSetLength` 1, a frame rate limit and `nonRealtimeData`; 2 points that can add up, 1 stop, 2 calls of `addTimeSeries`, 1 series removed from a chart that does not show it; 10 units to the value 1 | 206 thousand |
| `run_stream` | RunStream | holds | two pages, 2 readings and 1, 2 connections that break, files that can or cannot be read | 112 thousand |
| the four of section 4 | ProcessSync, PlatformConnections | violated | smallest instance that shows it | - |

Common to the process and record runs: two devices and three requests in total; in the process runs one
initial row and ids 1..3. The bounds that appear in the guards are the constants
marked "bound". Why this is enough for the cases of interest:

* two devices are one that uploads and one that must learn of it; a third would
  be another of the second kind, since a handler treats all others alike;
* three requests allow an upload, another upload that competes with it, and a
  request whose answer reveals the damage; each also gives an acknowledgement;
* two times give older, equal and newer; of the half seconds of `RecordSync`, the
  first and second of one second and the first of the next give an update before, in
  and after a window, and an acknowledgement that is rounded down, up, and up to a
  second that then begins;
* one fault at every possible place, combined with unlimited losses and
  restarts.

* a pool of three (the code has 12) is the smallest that works, so that the first
  connection that is not given back is missed by one of the next two messages.
* three points give one that is dropped, one that stays for the line and one that
  is shown; a lateness of 1 ms with two pixels gives every order of their
  times; two charts give one window inside the other, in both orders of drawing;
* two calls of `addTimeSeries` give a series in two charts, twice in one, and
  removed and added again, with the interval it has forgotten, and a series removed
  from the chart that does not show it (in `chart_line` a chart is only told to remove
  what it shows);
* ten units to the value 1 give an axis that is a tenth away from where it is going,
  further away, and there; two points with the value 0.3 that may be summed make it grow,
  and dropping one makes it shrink;
* two outages give one that breaks what the other brought back, and two readings
  give one before and one after; the third, of the other parameter, overtakes
  them where it can;
* the scale of a chart is 1 or 2 ms per pixel and a sixth of a second is 3 ms: only
  the order of these numbers matters to a guard.

The number of lost messages is not bounded. `CHECK_DEADLOCK FALSE`: the bounds on
requests let every behaviour come to rest. Symmetry (permutations of the
devices) is used for invariants and action properties, which do not depend on a
device's name; there is no liveness property among them.

**Fairness.** `ProcessSync` and `RecordSync` assume none, and claim no liveness:
under the losses modelled nothing needs to arrive, since the platform and the
sample device never repeat a message. `PlatformConnections` assumes weak fairness
of what the threads of the client library do (`OnSuccess`, `Subscribed`,
`Reconnect`, `MessageArrived`) and of `HandlerStep`: a call either gets a
connection, or its null after `connectionTimeout` (20 s), and a method that has
made its calls returns. Nothing is assumed of the database's recovery, of
statements failing or of messages arriving. `SmoothieChart` assumes that the
browser serves the frames and the intervals it was asked for; `start`, and
everything else the page does, is not assumed. `RunStream` assumes that timers fire
and that the client threads of device, platform and page deliver what has arrived;
it does not assume that the platform starts or a page connects.

## 6. Assumptions

* `process_delivery` and `process_durability`, and the theorems about their
  properties, take devices that upload what they
  have changed (`Modified = {1}`) and name only ids they were given
  (`StrayIds = {}`). With `Modified = {0, 1}` an upload can store a row with
  `is_modified = 0` over an older one, which no known device is ever sent; with
  stray ids finding 3 breaks both properties. `process_delivery` has no failing
  writes (`"write" \notin Faulty`) and no edits by the table's owner
  (`MaxPlatformEdits = 0`): a write that is counted as done
  (`UpdateProcessFails`), or an edit between an upload and its answer, which leaves
  out what the upload named, breaks it. `process_durability` has both.
* `NewestEditWins` takes the platform to be the only writer of `process_master`
  (`MaxPlatformEdits = 0`). Between `CompareDetail` and `UpdateProcess` another
  writer's edit would be overwritten.
* An edit by the table's owner sets `is_modified`; one that does not is
  not seen by any known device, and nothing in this repository could help.
* A device keeps what it has stored when it restarts, and stores a list wholly or
  not at all. It acknowledges every answer, the two response messages included,
  as `SimpleCallback` of the sample device does.
* Per topic and client, messages are not reordered or duplicated (QoS 0); nor are the
  events of one web socket.
* A series has the default options (an interval of 3 s, which here fires at any
  time). The callbacks an application can pass to the library do not call back into
  it. The clock of a page is not set back. `scaleSmoothing` is a whole percentage, and
  the numbers of the axis are whole units, where the code computes with floating-point
  numbers.
* Every edit of a user or schedule, a change of `token_status` included, sets
  `updated_on` to the database's `CURRENT_TIMESTAMP`, in whole seconds; platform and
  database have the same clock.
* The scales of the axis (`maxValueScale`, `minValueScale`) are 1 and there is no
  `yRangeFunction`. `index.html` and `graph.js` fix both ends of the axis, which
  makes the scales irrelevant; charts with fixed ends are in both runs.
* Readings are integers, as if `index.html` parsed them. It appends the strings it
  gets; they are of equal width in the device's file.
* The device has the id 1002 that `SimpleCallback` compares topics with, so there
  is one device in `RunStream`. Its timers fire at any time: `scheduleAtFixedRate`
  catches up in bursts.

## 7. Proofs

`tlapm` checks every proof. The theorems hold for every number of devices, rows,
times, requests, crashes and faults.

* **`TypeCorrect`**: `Spec => []TypeOK`. `TypeOK` is not inductive: a
  write takes the head of `handler.rest` and indexes `process_master` with it.
  `WriteDecided` says that a handler about to write has such a detail, and that
  its row exists; `TypeInv == TypeOK /\ WriteDecided` is inductive
  (`TypeInvariant`). There is a lemma per group of actions: the handlers of
  uploads, those of acknowledgements, the environment.
* **`NewestUploadWins`**: `Spec => []NewestEditWins`, assuming
  `MaxPlatformEdits = 0`. The strengthening is `ConvergenceInv`: the history variable is exact for
  every id, the unused ones included (`StampsAreBest`), and what a handler is
  about to write is newer than the row *as it is now*, not only as it was when
  read (`WriteIsNewer`). The second part is where the single callback thread and the
  single writer are needed. An insert needs `GenerateFresh` to know that it does
  not overwrite a row; this is why `MaxPid < FirstWide` is assumed.
* **`GenerateFresh`**: as long as every number is below the last one of the
  format's width (999), the generated id is new and larger than all others.
  **`GenerateSticks`**: once the row of the last such number exists, the
  generator returns the next one for ever, because `PR-1000` sorts before
  `PR-999` as a string. No run reaches this limit; the theorems say what
  happens on both sides of it.
* **`NothingOutOfReach`**: `Spec => []NothingLostForGood`, assuming
  `Modified = {1}` and `StrayIds = {}` (section 6). The property says nothing of what is under way, and
  is not inductive. `DurabilityInv` adds, besides the types: no device is ahead of
  the table, and a row without the flag is as it was created (`VersionsExist`); a
  known device holds all unflagged rows (`HoldsUnflagged`); every answer
  under way leaves its device with them (`GoodReply`), so that its
  acknowledgement may make the device known (`GoodMessage`); and uploads, waiting or
  half processed, name only rows that their device has (`GoodHandler`). One lemma
  per action says which of these it could disturb; `Grows` says that every
  step only adds versions and flags, which is what keeps late answers good. That
  the flag is never reset (finding 1) is used there.
* **`RepliesLeaveNothingOut`**: `Spec => ReplyCoversUnseen`, assuming also that the
  platform is the only writer and that no write fails. To `DurabilityInv` it adds
  `TouchedCovered`: what an upload has touched and the answer leaves out, its
  sender holds or learns from the ids in the answer.

* **`RecordTypes`**: `Spec => []TypeOK` of `RecordSync`; `TypeOK` is inductive, since
  neither `Second` nor `Rounded` goes back (`ClockMonotone`).
* **`OnlyOvertakenMissed`**: `Spec => []MissedOnlyIfOvertaken`. `RecordInv` says
  where an update is that a device lacks and that was not overtaken (`PendingOnItsWay`): every
  answer under way lists it, no acknowledgement is under way, and
  `last_synced_on` is not after it. A device acknowledges
  only what it has stored, so an acknowledgement never dates it past such an update;
  rounding can, but then the update counts as overtaken, by `DatedAhead`.
  Answers must also be truthful (`AnswersTruthful`): each record once, in a
  version it has had.

* **`PoolSuffices`**: `Spec => []ConnectionAvailable`, assuming `PoolSize >= 3`.
  The strengthening is `NestingInv`: a method sits on the stack at its own depth
  (`Depth`), what it still has to call is one deeper, and all but
  `messageArrived` hold one connection. Nothing is deeper than three.
* **`OnlyOutagesUnsubscribe`**: `Spec => StaysSubscribed`, from the same
  invariant: with a connection available, a null means that the database is out of
  reach, and what else leaves `messageArrived` is a payload that does not parse.

* **`AppendKeepsOrder`**, **`DropKeepsOrder`** (`TimeSeriesProofs`): for any series in
  order, so are what `append` and `dropOldData` return. `RewindStops` shows that
  the place where the loop stops exists, with `BoundedMaximum` of `ProofFacts`;
  `Inserted` follows the point that is spliced in.
* **`NeverLooksBeyond`**: with `maxDataSetLength` at least 2 `dropOldData` never looks
  beyond the last point, so no frame throws. The default is 2: it is the least
  value that works, and no check in the code says so.
* **`OrderKept`** (`SmoothieChartProofs`): `Spec => []SeriesInOrder`, for any number of
  charts and series, any options, lateness and calls. The invariant is `DataInv`:
  the clock is a number, series are sequences of points, and in order.
* **`AnimationGoesOn`**: `Spec => []OneAnimation`, for any charts and options. The
  invariant is `AnimationInv`: the data are in order, the frame a chart remembers
  and the one the browser owes agree, and the mouse listeners are there exactly
  while one is remembered. A frame is lost only by an exception, and by
  `NeverLooksBeyond` there is none unless `maxDataSetLength` is below 2.
* **`SeriesImplementSignals`** (`SignalRefinement`): `Spec => SeriesAreSignals`. In a
  series in order no time occurs twice (`DataInv`), so its points are the graph of a map;
  `AppendedPoints` and `KeptPoints` say what `append` and `dropOldData` do to the set
  of points, `RecordedSample` and `ForgottenSamples` what they do to the map. Then
  `AppendPoint` is `Record`, `clear` is `Clear`, a frame is `Forget`, which may
  forget nothing, and everything else stutters.
* **`PlatformTypes`**: `Spec => []TypeOK` of `PlatformConnections`, from `NestingInv`.
* **`NeededIsKept`**: `Spec => []NothingNeededDropped`, for any number of charts, any
  options and lateness. `MemoryInv`: the points are samples with their last values
  (`PointsAreSamples`), and a sample that is missing in a series is older than
  another that is itself left of the chart (`Remembered`). Since the clock is not set
  back, and rounding to pixels keeps the order of times (`RoundingGrows`), what is
  left of the chart stays there; and the condition on the other charts makes
  theirs the same argument.
* **`BoundsCover`**: `Spec => []BoundsCoverData`. `BoundsInv` adds to the property that all
  values are numbers and that the browser's intervals belong to series.
  `WidenedBounds` is `append`, `ResetCovers` the interval that computes the bounds
  anew; dropping points takes nothing away from bounds.
* **`ChartTypes`**: `Spec => []TypeOK` of `SmoothieChart`. Its interval numbers and times
  need `ChartInv`: no point is later than the clock (`TimesKnown`), so the time a
  `nonRealtimeData` chart finds among its points is one (`PercentilePoint`).
* **`AxisFits`**: `Spec => AxisCoversLine`, from `ChartInv`, for any `scaleSmoothing` and
  any rounding: a frame takes its range from the bounds of all series it draws, and
  these cover the points (`SeriesExtremes`, `RangeCoversBounds`). At rest, bottom and
  length were each within a tenth of that range before the frame moved them, and a value
  that moves closer to another does not pass it (`CloserBetween`,
  `AxisCoversSeries`).
* **`IntervalsFollow`**: `Spec => []IntervalsFollowCharts`. The property is not inductive,
  because a series may be in several places and remembers one interval. `PairingInv`
  counts: a series has at least as many live intervals as it has places in charts
  (`Paired`), unless it has strayed;
  what it remembers is its own (`OwnInterval`); and one that was never in
  two places has no other (`OneInterval`). There is a lemma per operation of a
  chart: `AddPairs`, `RemovePlacePairs` and `StrayPairs` for the two cases of
  `removeTimeSeries`, `FrontPairs`.

* **`StreamTypes`**: `Spec => []TypeOK` of `RunStream`. `TypeInv` adds that a list
  that is loaded is all of its file, so that a timer's `count` stays within it.
* **`NoReadingDropped`**: `Spec => []EveryReadingArrives`. The property with
  its parts named (`Whereabouts`) is inductive with the types: each action moves a
  reading from one place to the next, or into `missed`.
* **`NoReadingOvertakes`**: `Spec => []ReadingsInOrder`. `OrderInv`: each of the queues a
  reading passes is ordered, and everything in one is newer than everything in those
  after it.
* **`ChartShowsLatest`**: `Spec => []ChartEndsWithLatest`. A page's clock is not set
  back, so no point of its chart is later than a reading that comes in; `LatestAtTheEnd`
  of `TimeSeriesProofs` says that `append` puts such a point last, or in the place of the
  last one with the same time, and `AppendKeepsOrder` that the order stays.

Assumptions of the proofs are `ProcessSyncAssumption`, `FirstWideAssumption`,
`RecordSyncAssumption`, `PlatformConnectionsAssumption`, `NaNAssumption`,
`SmoothieChartAssumption` and `RunStreamAssumption`, which TLC evaluates in the
passing runs. They give the constants their types, name the least of what the code
needs (a chart has at least one millisecond per pixel), and keep marks apart
from what they mark (`NaN` is no number, a cleared interval is no series).

Every invariant and action property of the passing runs but one is a theorem.
Only model-checked are:

* `TooltipOnTheLine`: what `binarySearch` finds in a series of any length is an
  induction over the data, which the provers cannot instantiate;
* the liveness properties `HandlerEnds`, `BoundsTighten` and
  `PageGoesLive`: liveness under fairness is beyond the prover.

## 8. Not modelled

* What is drawn of the points: grid, labels, colours, curves, the size of the canvas
  (`resize`) and the canvas state (`save` without `restore` for a disabled
  series). Hence also that `maxValueScale` pads a negative maximum downwards.
* The device's chain of requests, from an acknowledgement to the next request:
  each part is modelled, the chain is not composed. The device never starts it (the
  calls at `MqttUtil.java:109` and `162` are commented out), and it stops at the
  first lost message.
* The id of a run, a constant; the files' contents beyond their order.
* `graph.js` makes calls of the library that `SmoothieChart` has in every order;
  what it does with data never runs, because parsing the empty response throws first.
* `Application` and `CORSFilter` are configuration, `ClientService` and its
  `Device` are called by nobody, `event-index.html` and its like are chat examples of the
  socket library with events the platform does not send. The socket library, moment
  and jQuery are vendored.
* Deletion of rows; product names; changes of roles and managers that do not
  touch `updated_on`; a device that loses its storage.
* The `CROSS JOIN` of the user and schedule queries, which repeats each record
  once per device in the log: the copies do not change what a device holds.
* Client id 0 in an acknowledgement: rejected like `received = false`.

## 9. Plan

1. `ProcessIdGenerator`, `ProcessSync`, `RecordSync`, type correctness and
   `NewestUploadWins`: done.
2. `PlatformConnections` with `PlatformTypes`, `PoolSuffices` and
   `OnlyOutagesUnsubscribe`: done. Of
   its hazards a failed first connect, which is never repeated, has no property,
   because nothing in the repository says that it should be.
3. `TimeSeries`, `SmoothieChart`, `OrderKept`, `AnimationGoesOn`, its refinement of
   `LiveSignal` with `SeriesImplementSignals`: done.
4. `RunStream`, with connections that break and `PageGoesLive`: done.
5. `NothingOutOfReach`, `RepliesLeaveNothingOut`, `OnlyOvertakenMissed`, and the
   theorems about `RunStream` and about the rest of `SmoothieChart`: done.
6. Left: an abstract catalogue (rows with their newest stamp, devices that hold
   versions of them) that `ProcessSync` implements.
