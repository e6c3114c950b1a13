------------------------- MODULE PlatformConnections -------------------------
(***************************************************************************)
(* The two connections that every handler of the platform lives on: the    *)
(* one to the broker (config/MqttUtil, SimpleCallback) and those it takes  *)
(* from the pool (DBConnection).                                           *)
(*                                                                         *)
(* The MQTT client calls messageArrived on one thread, and the thread      *)
(* calls the DAO methods.  Each of them takes a connection of its own      *)
(* and closes it in a finally block, and catches its own exceptions.  Two  *)
(* get past it: if getConnection returns null, the catch clause            *)
(* dereferences the null too, and what it throws reaches the caller; and a *)
(* payload that does not parse throws before any DAO method is called.     *)
(* Out of messageArrived, they make the client shut its connection down.   *)
(*                                                                         *)
(* The client reconnects by itself, to a clean session.                    *)
(***************************************************************************)
EXTENDS Naturals, Sequences

CONSTANTS
  PoolSize,      \* connections in the pool
  MaxBatch,      \* bound: process details in one upload
  MaxArrivals,   \* bound: messages that arrive
  MaxMalformed,  \* bound: payloads that do not parse
  MaxDrops,      \* bound: losses of the network connection
  MaxOutages     \* bound: outages of the database

ASSUME PlatformConnectionsAssumption ==
  /\ PoolSize \in Nat
  /\ MaxBatch \in Nat

VARIABLES
  client,      \* the MQTT client
  onSuccess,   \* the callback of its connect: "notYet", "due", "done"
  pending,     \* subscriptions asked for
  subscribed,  \* subscriptions the broker has
  inbox,       \* messages the client has not handed over yet, by topic
  stack,       \* the methods the callback thread is in, outermost first
  inUse,       \* connections taken from the pool
  database,    \* the pool gets connections to the database
  arrivals, malformed, drops, outages

mqtt == <<client, onSuccess, pending, subscribed, inbox>>

budget == <<arrivals, malformed, drops, outages>>

vars == <<mqtt, stack, inUse, database, budget>>

-----------------------------------------------------------------------------
(* What the methods call.                                                   *)

Topic == {"sync", "run"}

TopLevel == {"getUsersService", "getSchedulesService", "fetchProcessList",
             "updateProcessList", "saveAmsUserSyncLog",
             "saveAmsScheduleSyncLog", "saveAmsProcessSyncLog",
             "countNotSyncedAmsDevices", "updateProcessModifiedStatus"}

Nested == {"updateProcess", "insertProcess", "unsyncedOtherAmsDevices",
           "getAllModifiedProcessAndPublish"}

Method == {"messageArrived"} \cup TopLevel \cup Nested \cup {"generate"}

\* The writes of an upload: updates and inserts in some order.
Writes == UNION {[1 .. n -> {"updateProcess", "insertProcess"}] :
                 n \in 0 .. MaxBatch}

\* messageArrived: the data of a run needs no database, nor does an
\* acknowledgement with received = false.
Handling(topic) ==
  IF topic = "run" THEN {<<>>}
  ELSE {<<>>, <<"saveAmsProcessSyncLog", "countNotSyncedAmsDevices">>,
        <<"saveAmsProcessSyncLog", "countNotSyncedAmsDevices",
          "updateProcessModifiedStatus">>}
       \cup {<<m>> : m \in TopLevel \ {"saveAmsProcessSyncLog",
                                       "countNotSyncedAmsDevices",
                                       "updateProcessModifiedStatus"}}

\* The calls a DAO method makes.  An upload with a foreign id ends after the
\* writes before it, one without a write makes no call at all.
Uploading ==
  Writes \cup {w \o <<"unsyncedOtherAmsDevices", "getAllModifiedProcessAndPublish">> :
               w \in Writes \ {<<>>}}

Calls(method) ==
  IF method = "updateProcessList" THEN Uploading
  ELSE IF method = "insertProcess" THEN {<<"generate">>} ELSE {<<>>}

\* todo: the calls still to make
Frame(method, todo) == [method |-> method, todo |-> todo]

-----------------------------------------------------------------------------
Init ==
  /\ client = "connecting" /\ onSuccess = "notYet"
  /\ pending = {} /\ subscribed = {} /\ inbox = <<>>
  /\ stack = <<>> /\ inUse = 0
  /\ database = TRUE
  /\ arrivals = 0 /\ malformed = 0 /\ drops = 0 /\ outages = 0

(* MqttUtil and SimpleCallback.                                             *)

Connect ==
  /\ client = "connecting"
  /\ client' = "connected"
  /\ onSuccess' = "due"
  /\ UNCHANGED <<pending, subscribed, inbox, stack, inUse, database, budget>>

\* It is logged, and nobody tries again; or the program ends.
ConnectFails ==
  /\ client = "connecting"
  /\ client' = "failed"
  /\ UNCHANGED <<onSuccess, pending, subscribed, inbox, stack, inUse, database,
                 budget>>

\* If the connection is lost by now, subscribe throws, and that is all.
OnSuccess ==
  /\ onSuccess = "due"
  /\ onSuccess' = "done"
  /\ pending' = IF client = "connected" THEN Topic ELSE {}
  /\ UNCHANGED <<client, subscribed, inbox, stack, inUse, database, budget>>

Subscribed(topic) ==
  /\ topic \in pending
  /\ pending' = pending \ {topic}
  /\ subscribed' = subscribed \cup {topic}
  /\ UNCHANGED <<client, onSuccess, inbox, stack, inUse, database, budget>>

\* The broker forgets a clean session, and the client what is in its queue.
ConnectionLost ==
  /\ client' = "lost"
  /\ pending' = {} /\ subscribed' = {} /\ inbox' = <<>>
  /\ UNCHANGED onSuccess

\* A handler that is running goes on.
NetworkDrops ==
  /\ client = "connected"
  /\ drops < MaxDrops
  /\ drops' = drops + 1
  /\ ConnectionLost
  /\ UNCHANGED <<stack, inUse, database, arrivals, malformed, outages>>

\* connectComplete(reconnect = true) only logs.
Reconnect ==
  /\ client = "lost"
  /\ stack = <<>>
  /\ client' = "connected"
  /\ UNCHANGED <<onSuccess, pending, subscribed, inbox, stack, inUse, database,
                 budget>>

Arrive(topic) ==
  /\ topic \in subscribed
  /\ arrivals < MaxArrivals
  /\ arrivals' = arrivals + 1
  /\ inbox' = Append(inbox, topic)
  /\ UNCHANGED <<client, onSuccess, pending, subscribed, stack, inUse,
                 database, malformed, drops, outages>>

MessageArrived ==
  /\ stack = <<>>
  /\ inbox # <<>>
  /\ \E todo \in Handling(Head(inbox)) :
       stack' = <<Frame("messageArrived", todo)>>
  /\ inbox' = Tail(inbox)
  /\ UNCHANGED <<client, onSuccess, pending, subscribed, inUse, database,
                 budget>>

\* parseFrom throws the exception that messageArrived declares.  (With a
\* message in its queue the client is connected.)
ParseFails ==
  /\ stack = <<>>
  /\ inbox # <<>>
  /\ malformed < MaxMalformed
  /\ malformed' = malformed + 1
  /\ ConnectionLost
  /\ UNCHANGED <<stack, inUse, database, arrivals, drops, outages>>

(* The DAO methods and DBConnection.                                        *)

Top == stack[Len(stack)]

Calling == stack # <<>> /\ Top.todo # <<>>

Callee == Head(Top.todo)

InDAO == Len(stack) > 1

\* The callback thread's innermost method is left.
Left == SubSeq(stack, 1, Len(stack) - 1)

NoConnection == ~database \/ inUse >= PoolSize

\* getConnection, and into the method.
Call ==
  /\ Calling
  /\ ~NoConnection
  /\ inUse' = inUse + 1
  /\ \E todo \in Calls(Callee) :
       stack' = Append([stack EXCEPT ![Len(stack)].todo = Tail(@)],
                       Frame(Callee, todo))
  /\ UNCHANGED <<mqtt, database, budget>>

\* Mutant: no timeout while waiting for a connection.
CallWithoutConnectionWaits == FALSE /\ UNCHANGED vars

\* getConnection times out and returns null.  The caller catches what is
\* thrown, rolls back, closes its own connection and returns; if the caller
\* is messageArrived, nothing catches it.
CallWithoutConnection ==
  /\ Calling
  /\ NoConnection
  /\ IF InDAO
     THEN stack' = Left /\ inUse' = inUse - 1 /\ UNCHANGED mqtt
     ELSE stack' = <<>> /\ UNCHANGED inUse /\
          (IF client = "connected" THEN ConnectionLost ELSE UNCHANGED mqtt)
  /\ UNCHANGED <<database, budget>>

\* Mutant: messageArrived, too, gives a connection back.
ReturnTwice ==
  /\ stack # <<>> /\ Top.todo = <<>>
  /\ stack' = Left
  /\ inUse' = inUse - 1
  /\ UNCHANGED <<mqtt, database, budget>>

\* closeConnection, in the finally block.
Return ==
  /\ stack # <<>> /\ Top.todo = <<>>
  /\ stack' = Left
  /\ inUse' = IF InDAO THEN inUse - 1 ELSE inUse
  /\ UNCHANGED <<mqtt, database, budget>>

\* Those whose result decides whether the caller goes on.
Decisive == {"unsyncedOtherAmsDevices", "countNotSyncedAmsDevices"}

\* The exception is caught: the method returns false, null or nothing, and its
\* caller goes on, unless the result was decisive.
FailedCall ==
  [i \in 1 .. Len(stack) - 1 |->
     IF i = Len(stack) - 1 /\ Top.method \in Decisive
     THEN Frame(stack[i].method, <<>>) ELSE stack[i]]

\* Mutant: the finally block is missing.
StatementFailsLeaking ==
  /\ InDAO
  /\ stack' = FailedCall
  /\ UNCHANGED <<inUse, mqtt, database, budget>>

\* Mutant: the catch clause is missing.
StatementFailsUncaught ==
  /\ InDAO
  /\ stack' = <<>> /\ inUse' = 0
  /\ IF client = "connected" THEN ConnectionLost ELSE UNCHANGED mqtt
  /\ UNCHANGED <<database, budget>>

\* A statement fails for its own reasons, or because its connection is dead and
\* the pool has not noticed.
StatementFails ==
  /\ InDAO
  /\ stack' = FailedCall
  /\ inUse' = inUse - 1
  /\ UNCHANGED <<mqtt, database, budget>>

DatabaseFails ==
  /\ database
  /\ outages < MaxOutages
  /\ outages' = outages + 1
  /\ database' = FALSE
  /\ UNCHANGED <<mqtt, stack, inUse, arrivals, malformed, drops>>

DatabaseRecovers ==
  /\ ~database
  /\ database' = TRUE
  /\ UNCHANGED <<mqtt, stack, inUse, budget>>

-----------------------------------------------------------------------------
HandlerStep == Call \/ CallWithoutConnection \/ Return

Next ==
  \/ Connect \/ ConnectFails \/ OnSuccess \/ NetworkDrops \/ Reconnect
  \/ \E topic \in Topic : Subscribed(topic) \/ Arrive(topic)
  \/ MessageArrived \/ ParseFails \/ HandlerStep \/ StatementFails
  \/ DatabaseFails \/ DatabaseRecovers

\* The client's threads run; every call returns, getConnection by its
\* timeout of 20 seconds; the automatic reconnect tries for ever.  Nothing
\* is assumed of the database, and no message has to arrive.
Fairness ==
  /\ WF_vars(OnSuccess) /\ WF_vars(Reconnect) /\ WF_vars(MessageArrived)
  /\ \A topic \in Topic : WF_vars(Subscribed(topic))
  /\ WF_vars(HandlerStep)

Spec == Init /\ [][Next]_vars /\ Fairness

-----------------------------------------------------------------------------
FrameType == [method : Method, todo : Seq(Method \ {"messageArrived"})]

\* The types of the client, of the stack of the callback thread, and of the
\* counters.
TypeOK ==
  /\ client \in {"connecting", "failed", "connected", "lost"}
  /\ onSuccess \in {"notYet", "due", "done"}
  /\ pending \subseteq Topic /\ subscribed \subseteq Topic
  /\ inbox \in Seq(Topic)
  /\ stack \in Seq(FrameType)
  /\ inUse \in Nat
  /\ database \in BOOLEAN
  /\ arrivals \in Nat /\ malformed \in Nat /\ drops \in Nat /\ outages \in Nat

\* How deep in a handler a method is called.
Depth(method) ==
  IF method = "messageArrived" THEN 0
  ELSE IF method \in TopLevel THEN 1
  ELSE IF method \in Nested THEN 2 ELSE 3

\* What makes ConnectionAvailable inductive: a method sits on the stack at its
\* depth and calls only methods one deeper, and all but messageArrived hold
\* one connection.
Nesting ==
  /\ inUse = IF stack = <<>> THEN 0 ELSE Len(stack) - 1
  /\ \A i \in DOMAIN stack :
       /\ Depth(stack[i].method) = i - 1
       /\ \A j \in DOMAIN stack[i].todo : Depth(stack[i].todo[j]) = i

NestingInv == TypeOK /\ Nesting

\* A method about to take a connection finds one: the thread never waits for
\* one that it holds itself, further out on its own stack, or that an earlier
\* handler has not given back.  An upload that inserts needs three at once.
ConnectionAvailable == Calling => inUse < PoolSize

\* The platform's subscriptions end with the network connection, by a message
\* that does not parse, or because the database is out of reach: never by a
\* failure of a statement, nor for want of a connection that the thread itself
\* holds or has not given back.
StaysSubscribed ==
  [][subscribed' \subseteq subscribed /\ subscribed' # subscribed
       => drops' # drops \/ malformed' # malformed \/ ~database]_vars

\* Every handler comes to an end, also if the database never comes back: the
\* callback thread is free again for the next message.
HandlerEnds == (stack # <<>>) ~> (stack = <<>>)

\* "Make or re-make subscriptions here": as long as the client is connected,
\* the platform hears its devices, or soon will.
Resubscribes ==
  (client = "connected") ~> (subscribed = Topic \/ client # "connected")

=============================================================================
