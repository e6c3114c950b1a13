---------------------- MODULE PlatformConnectionsProofs ----------------------
(***************************************************************************)
(* The callback thread never runs out of database connections by itself,   *)
(* and only the network, the database or a message that does not parse can *)
(* cost the platform its subscriptions, for uploads of every size and      *)
(* every pool of at least three connections.                               *)
(***************************************************************************)
EXTENDS PlatformConnections, SequenceTheorems, TLAPS

CallSeq == Seq(Method \ {"messageArrived"})

-----------------------------------------------------------------------------
(* What may be called from where.                                           *)

\* A method with nothing to call.
LEMMA NothingToCall ==
  <<>> \in CallSeq /\ DOMAIN <<>> = {}
<1>1. DOMAIN <<>> = {}
  OBVIOUS
<1>2. <<>> \in CallSeq
  BY DEF CallSeq
<1> QED
  BY <1>1, <1>2

\* The writes of an upload are calls of nested methods.
LEMMA WritesAreNested ==
  ASSUME NEW w \in Writes
  PROVE  w \in Seq(Nested)
<1>1. PICK n \in 0 .. MaxBatch : w \in [1 .. n -> {"updateProcess", "insertProcess"}]
  BY DEF Writes
<1>2. n \in Nat
  BY PlatformConnectionsAssumption
<1>3. w \in [1 .. n -> Nested]
  BY <1>1 DEF Nested
<1> QED
  BY <1>2, <1>3

\* A DAO method calls methods one level deeper than itself.
LEMMA CallsDeeper ==
  ASSUME NEW m \in Method \ {"messageArrived"}, NEW todo \in Calls(m)
  PROVE  todo \in CallSeq /\ \A j \in DOMAIN todo : Depth(todo[j]) = Depth(m) + 1
<1>1. CASE m = "updateProcessList"
  <2>1. \A w \in Seq(Nested) : w \in CallSeq /\ \A j \in DOMAIN w : Depth(w[j]) = 2
    <3>1. \A x \in Nested : x \in Method \ {"messageArrived"} /\ Depth(x) = 2
      BY DEF Nested, Method, Depth, TopLevel
    <3> QED
      BY <3>1 DEF CallSeq
  <2>2. todo \in Seq(Nested)
    <3>1. CASE todo \in Writes
      BY <3>1, WritesAreNested
    <3>2. CASE todo \notin Writes
      <4>1. PICK w \in Writes :
              todo = w \o <<"unsyncedOtherAmsDevices", "getAllModifiedProcessAndPublish">>
        BY <1>1, <3>2 DEF Calls, Uploading
      <4>2. w \in Seq(Nested)
        BY WritesAreNested
      <4>3. <<"unsyncedOtherAmsDevices", "getAllModifiedProcessAndPublish">> \in Seq(Nested)
        BY DEF Nested
      <4> QED
        BY <4>1, <4>2, <4>3
    <3> QED
      BY <3>1, <3>2
  <2>3. Depth(m) = 1
    BY <1>1 DEF Depth, TopLevel
  <2> QED
    BY <2>1, <2>2, <2>3
<1>2. CASE m = "insertProcess"
  <2>1. todo = <<"generate">>
    BY <1>2 DEF Calls
  <2>2. Depth(m) = 2 /\ Depth("generate") = 3
    BY <1>2 DEF Depth, TopLevel, Nested
  <2> QED
    BY <2>1, <2>2 DEF CallSeq, Method
<1>3. CASE m \notin {"updateProcessList", "insertProcess"}
  <2>1. todo = <<>>
    BY <1>3 DEF Calls
  <2> QED
    BY <2>1, NothingToCall
<1> QED
  BY <1>1, <1>2, <1>3

\* messageArrived calls top-level methods.
LEMMA HandlingTopLevel ==
  ASSUME NEW topic \in Topic, NEW todo \in Handling(topic)
  PROVE  todo \in CallSeq /\ \A j \in DOMAIN todo : Depth(todo[j]) = 1
<1>1. \A x \in TopLevel : x \in Method \ {"messageArrived"} /\ Depth(x) = 1
  BY DEF TopLevel, Method, Depth
<1>2. todo \in Seq(TopLevel)
  <2>1. CASE todo = <<>>
    BY <2>1
  <2>2. CASE todo = <<"saveAmsProcessSyncLog", "countNotSyncedAmsDevices">>
    BY <2>2 DEF TopLevel
  <2>3. CASE todo = <<"saveAmsProcessSyncLog", "countNotSyncedAmsDevices",
                      "updateProcessModifiedStatus">>
    BY <2>3 DEF TopLevel
  <2>4. CASE \E m \in TopLevel : todo = <<m>>
    BY <2>4
  <2> QED
    BY <2>1, <2>2, <2>3, <2>4 DEF Handling
<1> QED
  BY <1>1, <1>2 DEF CallSeq

\* Nothing is called from a depth of more than two.
LEMMA DepthBound ==
  ASSUME NEW m \in Method
  PROVE  Depth(m) \in 0 .. 3
BY DEF Method, Depth

-----------------------------------------------------------------------------
(* The stack.                                                               *)

\* The top frame of a stack is replaced, and another put on it.
LEMMA ReplaceAndPush ==
  ASSUME NEW S, NEW s \in Seq(S), Len(s) > 0, NEW a \in S, NEW b \in S,
         NEW r, r = Append([s EXCEPT ![Len(s)] = a], b)
  PROVE  /\ r \in Seq(S) /\ Len(r) = Len(s) + 1
         /\ r[Len(s) + 1] = b /\ r[Len(s)] = a
         /\ \A i \in 1 .. Len(s) - 1 : r[i] = s[i]
<1> DEFINE q == [s EXCEPT ![Len(s)] = a]
<1>1. Len(s) \in Nat /\ Len(s) \in 1 .. Len(s)
  OBVIOUS
<1>2. /\ q \in Seq(S) /\ Len(q) = Len(s)
      /\ \A j \in 1 .. Len(s) : q[j] = IF j = Len(s) THEN a ELSE s[j]
  BY <1>1, ExceptSeq
<1> HIDE DEF q
<1>3. r = Append(q, b)
  BY DEF q
<1>4. /\ r \in Seq(S) /\ Len(r) = Len(s) + 1 /\ r[Len(s) + 1] = b
      /\ \A i \in 1 .. Len(s) : r[i] = q[i]
  BY <1>2, <1>3, AppendProperties
<1> QED
  BY <1>1, <1>2, <1>4

\* The top frame is taken off.
LEMMA Pop ==
  ASSUME NEW S, NEW s \in Seq(S), Len(s) > 0
  PROVE  LET r == SubSeq(s, 1, Len(s) - 1) IN
           /\ r \in Seq(S) /\ Len(r) = Len(s) - 1
           /\ \A i \in 1 .. Len(s) - 1 : r[i] = s[i]
<1> DEFINE n == Len(s) - 1
           r == SubSeq(s, 1, n)
<1>1. n \in Nat /\ n \in Int /\ 1 \in Int /\ \A i \in 1 .. n : s[i] \in S
  OBVIOUS
<1> HIDE DEF n
<1>3. /\ SubSeq(s, 1, n) \in Seq(S)
      /\ Len(SubSeq(s, 1, n)) = IF 1 <= n THEN n - 1 + 1 ELSE 0
      /\ \A i \in 1 .. n - 1 + 1 : SubSeq(s, 1, n)[i] = s[1 + i - 1]
  BY <1>1, SubSeqProperties
<1>4. n - 1 + 1 = n /\ \A i \in 1 .. n : 1 + i - 1 = i
  BY <1>1
<1>5. Len(r) = n
  BY <1>1, <1>3, <1>4
<1>6. \A i \in 1 .. n : r[i] = s[i]
  BY <1>3, <1>4
<1> QED
  BY <1>3, <1>5, <1>6 DEF n

LEMMA FrameWithTodo ==
  ASSUME NEW f \in FrameType, NEW s
  PROVE  [f EXCEPT !.todo = s] = [method |-> f.method, todo |-> s]
BY DEF FrameType

LEMMA InitNesting == Init => NestingInv
BY DEF Init, NestingInv, TypeOK, Nesting, Topic, FrameType

\* Steps of the MQTT client and of the database leave the stack alone.
LEMMA QuietNesting ==
  ASSUME NestingInv, UNCHANGED <<stack, inUse>>
  PROVE  Nesting'
BY DEF NestingInv, Nesting

LEMMA MessageArrivedNesting ==
  ASSUME NestingInv, MessageArrived
  PROVE  stack' \in Seq(FrameType) /\ Nesting'
<1>1. PICK todo \in Handling(Head(inbox)) : stack' = <<Frame("messageArrived", todo)>>
  BY DEF MessageArrived
<1>2. Head(inbox) \in Topic
  BY DEF MessageArrived, NestingInv, TypeOK
<1>3. todo \in CallSeq /\ \A j \in DOMAIN todo : Depth(todo[j]) = 1
  BY <1>1, <1>2, HandlingTopLevel
<1>4. Frame("messageArrived", todo) \in FrameType
  BY <1>3 DEF Frame, FrameType, CallSeq, Method
<1>5. inUse' = 0
  BY DEF MessageArrived, NestingInv, Nesting
<1>6. Depth("messageArrived") = 0
  BY DEF Depth
<1> QED
  BY <1>1, <1>3, <1>4, <1>5, <1>6 DEF Nesting, Frame

\* The callee sits one deeper than its caller, and holds one connection more.
LEMMA CallNesting ==
  ASSUME NestingInv, Call
  PROVE  stack' \in Seq(FrameType) /\ Nesting'
<1> DEFINE n == Len(stack)
           caller == [Top EXCEPT !.todo = Tail(@)]
<1>1. n \in Nat /\ n > 0 /\ stack \in Seq(FrameType) /\ Top \in FrameType /\ Top = stack[n]
  BY DEF Call, Calling, NestingInv, TypeOK, Top
<1>2. Top.todo \in CallSeq /\ Top.todo # <<>> /\ Top.method \in Method
  BY <1>1 DEF Call, Calling, FrameType, CallSeq
<1>3. Callee \in Method \ {"messageArrived"} /\ Depth(Callee) = n
  <2>1. Callee = Top.todo[1] /\ 1 \in DOMAIN Top.todo
    BY <1>2 DEF Callee, CallSeq
  <2> QED
    BY <1>1, <1>2, <2>1 DEF NestingInv, Nesting, CallSeq
<1>4. PICK todo \in Calls(Callee) :
        stack' = Append([stack EXCEPT ![n] = caller], Frame(Callee, todo))
  <2>1. [stack EXCEPT ![Len(stack)].todo = Tail(@)] = [stack EXCEPT ![n] = caller]
    BY <1>1
  <2> QED
    BY <2>1 DEF Call
<1>5. todo \in CallSeq /\ \A j \in DOMAIN todo : Depth(todo[j]) = n + 1
  BY <1>3, <1>4, CallsDeeper
<1>6. Frame(Callee, todo) \in FrameType
  BY <1>3, <1>5 DEF Frame, FrameType, CallSeq
<1>7. /\ caller \in FrameType /\ caller.method = Top.method
      /\ \A j \in DOMAIN caller.todo : Depth(caller.todo[j]) = n
  <2>1. caller = [method |-> Top.method, todo |-> Tail(Top.todo)]
    BY <1>1, FrameWithTodo
  <2>2. Tail(Top.todo) \in CallSeq
    BY <1>2 DEF CallSeq
  <2>3. \A j \in DOMAIN Tail(Top.todo) :
          j + 1 \in DOMAIN Top.todo /\ Tail(Top.todo)[j] = Top.todo[j + 1]
    BY <1>2 DEF CallSeq
  <2>4. \A j \in DOMAIN Top.todo : Depth(Top.todo[j]) = n
    BY <1>1 DEF NestingInv, Nesting
  <2> QED
    BY <1>2, <2>1, <2>2, <2>3, <2>4 DEF FrameType, CallSeq
<1>8. /\ stack' \in Seq(FrameType) /\ Len(stack') = n + 1
      /\ stack'[n + 1] = Frame(Callee, todo) /\ stack'[n] = caller
      /\ \A i \in 1 .. n - 1 : stack'[i] = stack[i]
  <2> HIDE DEF caller
  <2> QED
    BY <1>1, <1>4, <1>6, <1>7, ReplaceAndPush
<1>9. inUse' = Len(stack') - 1
  BY <1>1, <1>8 DEF Call, NestingInv, Nesting
<1>10. \A i \in DOMAIN stack' :
         /\ Depth(stack'[i].method) = i - 1
         /\ \A j \in DOMAIN stack'[i].todo : Depth(stack'[i].todo[j]) = i
  <2>1. SUFFICES ASSUME NEW i \in 1 .. n + 1
                 PROVE  /\ Depth(stack'[i].method) = i - 1
                        /\ \A j \in DOMAIN stack'[i].todo : Depth(stack'[i].todo[j]) = i
    BY <1>8
  <2>2. CASE i = n + 1
    BY <1>1, <1>3, <1>5, <1>8, <2>2 DEF Frame
  <2>3. CASE i = n
    <3>1. Depth(Top.method) = n - 1
      BY <1>1 DEF NestingInv, Nesting
    <3> HIDE DEF caller
    <3> QED
      BY <1>7, <1>8, <2>3, <3>1
  <2>4. CASE i \in 1 .. n - 1
    BY <1>1, <1>8, <2>4 DEF NestingInv, Nesting
  <2> QED
    BY <1>1, <2>1, <2>2, <2>3, <2>4
<1> QED
  BY <1>1, <1>8, <1>9, <1>10 DEF Nesting

\* A method is left, and its connection given back.
LEMMA LeftNesting ==
  ASSUME NestingInv, stack # <<>>, stack' = Left,
         inUse' = IF InDAO THEN inUse - 1 ELSE inUse
  PROVE  stack' \in Seq(FrameType) /\ Nesting'
<1>1. Len(stack) \in Nat \ {0} /\ stack \in Seq(FrameType)
  BY DEF NestingInv, TypeOK
<1>2. /\ stack' \in Seq(FrameType) /\ Len(stack') = Len(stack) - 1
      /\ \A i \in DOMAIN stack' : i \in DOMAIN stack /\ stack'[i] = stack[i]
  <2>1. /\ stack' \in Seq(FrameType) /\ Len(stack') = Len(stack) - 1
        /\ \A i \in 1 .. Len(stack) - 1 : stack'[i] = stack[i]
    <3>1. /\ Left \in Seq(FrameType) /\ Len(Left) = Len(stack) - 1
          /\ \A i \in 1 .. Len(stack) - 1 : Left[i] = stack[i]
      BY <1>1, Pop DEF Left
    <3>2. stack' = Left
      OBVIOUS
    <3> QED
      BY <3>1, <3>2
  <2> QED
    BY <1>1, <2>1
<1>3. inUse' = IF stack' = <<>> THEN 0 ELSE Len(stack') - 1
  BY <1>1, <1>2 DEF InDAO, NestingInv, Nesting
<1> QED
  BY <1>2, <1>3 DEF NestingInv, Nesting

\* A method fails: the same, and its caller may make no further calls.
LEMMA StatementFailsNesting ==
  ASSUME NestingInv, StatementFails
  PROVE  stack' \in Seq(FrameType) /\ Nesting'
<1> DEFINE n == Len(stack) - 1
<1>1. n \in Nat \ {0} /\ stack \in Seq(FrameType) /\ Len(stack) = n + 1
  <2>1. stack \in Seq(FrameType) /\ Len(stack) > 1
    BY DEF StatementFails, InDAO, NestingInv, TypeOK
  <2>2. Len(stack) \in Nat
    BY <2>1
  <2>3. n \in Nat \ {0} /\ Len(stack) = n + 1
    <3>1. \A k \in Nat : k > 1 => k - 1 \in Nat \ {0} /\ k = (k - 1) + 1
      OBVIOUS
    <3> QED
      BY <2>1, <2>2, <3>1
  <2> QED
    BY <2>1, <2>3
<1> HIDE DEF n
<1>2. \A f \in FrameType : Frame(f.method, <<>>) \in FrameType
  BY NothingToCall DEF Frame, FrameType, CallSeq
<1>3. stack' = [i \in 1 .. n |-> IF i = n /\ Top.method \in Decisive
                                 THEN Frame(stack[i].method, <<>>) ELSE stack[i]]
  BY DEF StatementFails, FailedCall, n
<1>4. \A i \in 1 .. n : /\ i \in DOMAIN stack
                        /\ stack[i] \in FrameType
                        /\ \/ stack'[i] = stack[i]
                           \/ stack'[i] = Frame(stack[i].method, <<>>)
  BY <1>1, <1>3
<1>5. stack' \in [1 .. n -> FrameType]
  BY <1>2, <1>3, <1>4
<1>6. stack' \in Seq(FrameType) /\ Len(stack') = n /\ DOMAIN stack' = 1 .. n
  BY <1>1, <1>5
<1>7. stack' # <<>> /\ inUse' = n - 1
  BY <1>1, <1>6 DEF StatementFails, NestingInv, Nesting
<1>8. ASSUME NEW i \in 1 .. n
      PROVE  /\ Depth(stack'[i].method) = i - 1
             /\ \A j \in DOMAIN stack'[i].todo : Depth(stack'[i].todo[j]) = i
  <2>1. /\ Depth(stack[i].method) = i - 1
        /\ \A j \in DOMAIN stack[i].todo : Depth(stack[i].todo[j]) = i
    BY <1>4 DEF NestingInv, Nesting
  <2>2. CASE stack'[i] = stack[i]
    BY <2>1, <2>2
  <2>3. CASE stack'[i] = Frame(stack[i].method, <<>>)
    BY <2>1, <2>3, NothingToCall DEF Frame
  <2> QED
    BY <1>4, <2>2, <2>3
<1> QED
  BY <1>6, <1>7, <1>8 DEF Nesting

LEMMA CallWithoutConnectionNesting ==
  ASSUME NestingInv, CallWithoutConnection
  PROVE  stack' \in Seq(FrameType) /\ Nesting'
<1>1. CASE InDAO
  BY <1>1, LeftNesting DEF CallWithoutConnection, Calling
<1>2. CASE ~InDAO
  <2>1. stack' = <<>> /\ inUse' = inUse /\ stack # <<>>
    BY <1>2 DEF CallWithoutConnection, Calling
  <2>2. inUse' = 0
    BY <1>2, <2>1 DEF InDAO, NestingInv, Nesting, TypeOK
  <2> QED
    BY <2>1, <2>2 DEF Nesting
<1> QED
  BY <1>1, <1>2

\* The types of everything but the stack.
LEMMA OtherTypes ==
  ASSUME NestingInv, Next, stack' \in Seq(FrameType), Nesting'
  PROVE  TypeOK'
<1>1. inUse' \in Nat
  BY DEF Nesting
<1>2. /\ client' \in {"connecting", "failed", "connected", "lost"}
      /\ onSuccess' \in {"notYet", "due", "done"}
      /\ pending' \subseteq Topic /\ subscribed' \subseteq Topic
      /\ inbox' \in Seq(Topic)
      /\ database' \in BOOLEAN
      /\ arrivals' \in Nat /\ malformed' \in Nat /\ drops' \in Nat /\ outages' \in Nat
  <2> USE DEF NestingInv, TypeOK, mqtt, budget
  <2>1. CASE Connect \/ ConnectFails \/ OnSuccess \/ Reconnect
    BY <2>1 DEF Connect, ConnectFails, OnSuccess, Reconnect
  <2>2. CASE NetworkDrops \/ ParseFails
    <3>1. ConnectionLost /\ UNCHANGED <<database, arrivals, outages>>
      BY <2>2 DEF NetworkDrops, ParseFails
    <3>2. drops' \in {drops, drops + 1} /\ malformed' \in {malformed, malformed + 1}
      BY <2>2 DEF NetworkDrops, ParseFails
    <3> QED
      BY <3>1, <3>2 DEF ConnectionLost
  <2>3. CASE \E topic \in Topic : Subscribed(topic) \/ Arrive(topic)
    <3>1. PICK topic \in Topic : Subscribed(topic) \/ Arrive(topic)
      BY <2>3
    <3>2. CASE Subscribed(topic)
      BY <3>2 DEF Subscribed
    <3>3. CASE Arrive(topic)
      BY <3>3 DEF Arrive
    <3> QED
      BY <3>1, <3>2, <3>3
  <2>4. CASE MessageArrived
    BY <2>4 DEF MessageArrived
  <2>5. CASE CallWithoutConnection
    <3>1. CASE UNCHANGED mqtt
      BY <2>5, <3>1 DEF CallWithoutConnection
    <3>2. CASE ConnectionLost
      BY <2>5, <3>2 DEF CallWithoutConnection, ConnectionLost
    <3> QED
      BY <2>5, <3>1, <3>2 DEF CallWithoutConnection
  <2>6. CASE Call \/ Return \/ StatementFails
    BY <2>6 DEF Call, Return, StatementFails
  <2>7. CASE DatabaseFails \/ DatabaseRecovers
    <3>1. database' \in BOOLEAN
      BY <2>7, Zenon DEF DatabaseFails, DatabaseRecovers
    <3>2. UNCHANGED <<mqtt, malformed>> /\ arrivals' \in Nat /\ drops' \in Nat /\ outages' \in Nat
      BY <2>7 DEF DatabaseFails, DatabaseRecovers
    <3> QED
      BY <3>1, <3>2
  <2> QED
    BY <2>1, <2>2, <2>3, <2>4, <2>5, <2>6, <2>7 DEF Next, HandlerStep
<1> QED
  BY <1>1, <1>2 DEF TypeOK

LEMMA NestingStep ==
  ASSUME NestingInv, [Next]_vars
  PROVE  NestingInv'
<1>1. CASE Next
  <2>1. stack' \in Seq(FrameType) /\ Nesting'
    <3>1. CASE MessageArrived
      BY <3>1, MessageArrivedNesting
    <3>2. CASE Call
      BY <3>2, CallNesting
    <3>3. CASE CallWithoutConnection
      BY <3>3, CallWithoutConnectionNesting
    <3>4. CASE Return
      BY <3>4, LeftNesting DEF Return
    <3>5. CASE StatementFails
      BY <3>5, StatementFailsNesting
    <3>6. CASE UNCHANGED <<stack, inUse>>
      BY <3>6, QuietNesting DEF NestingInv, TypeOK
    <3> QED
      BY <1>1, <3>1, <3>2, <3>3, <3>4, <3>5, <3>6
         DEF Next, HandlerStep, Connect, ConnectFails, OnSuccess, NetworkDrops,
         Reconnect, Subscribed, Arrive, ParseFails, DatabaseFails, DatabaseRecovers
  <2> QED
    BY <1>1, <2>1, OtherTypes DEF NestingInv
<1>2. CASE UNCHANGED vars
  BY <1>2 DEF vars, mqtt, budget, NestingInv, TypeOK, Nesting
<1> QED
  BY <1>1, <1>2

\* The types of the platform's state, and the nesting of its methods.
LEMMA NestingInvariant == Spec => []NestingInv
BY InitNesting, NestingStep, PTL DEF Spec

\* Connections, stack and pool keep their types: a method only takes a connection
\* and calls what a method of its depth can call, and gives back what it took.
THEOREM PlatformTypes == Spec => []TypeOK
<1>1. NestingInv => TypeOK
  BY DEF NestingInv
<1> QED
  BY <1>1, NestingInvariant, PTL

-----------------------------------------------------------------------------
(* What a pool of three connections is good for.                            *)

LEMMA NestingSuffices ==
  ASSUME PoolSize >= 3, NestingInv
  PROVE  ConnectionAvailable
<1> SUFFICES ASSUME Calling PROVE inUse < PoolSize
  BY DEF ConnectionAvailable
<1>1. Len(stack) \in Nat \ {0} /\ Top = stack[Len(stack)] /\ Top \in FrameType
  BY DEF Calling, Top, NestingInv, TypeOK
<1>2. 1 \in DOMAIN Top.todo /\ Top.todo[1] \in Method
  BY <1>1 DEF Calling, FrameType
<1>3. Depth(Top.todo[1]) = Len(stack)
  BY <1>1, <1>2 DEF NestingInv, Nesting
<1>4. Len(stack) <= 3
  BY <1>1, <1>2, <1>3, DepthBound
<1>5. inUse = Len(stack) - 1
  BY DEF Calling, NestingInv, Nesting
<1> QED
  BY <1>1, <1>4, <1>5, PlatformConnectionsAssumption

\* With three connections in the pool (the code has 12), a DAO method called on
\* the callback thread never waits for a connection that the thread itself
\* holds or has leaked, however long the uploads and whatever fails.
THEOREM PoolSuffices ==
  ASSUME PoolSize >= 3
  PROVE  Spec => []ConnectionAvailable
BY NestingInvariant, NestingSuffices, PTL

\* With such a pool and the database within reach, nothing that goes wrong in a
\* DAO method costs the platform its subscriptions: only the network does, and
\* a payload that does not parse, whose exception messageArrived lets out
\* (SimpleCallback, MqttMessageHandler).
THEOREM OnlyOutagesUnsubscribe ==
  ASSUME PoolSize >= 3
  PROVE  Spec => StaysSubscribed
<1>1. NestingInv /\ [Next]_vars =>
        [subscribed' \subseteq subscribed /\ subscribed' # subscribed
           => drops' # drops \/ malformed' # malformed \/ ~database]_vars
  <2> SUFFICES ASSUME NestingInv, Next, subscribed' # subscribed,
                      subscribed' \subseteq subscribed
               PROVE  drops' # drops \/ malformed' # malformed \/ ~database
    OBVIOUS
  <2>1. CASE NetworkDrops \/ ParseFails
    BY <2>1 DEF NetworkDrops, ParseFails, NestingInv, TypeOK
  <2>2. CASE CallWithoutConnection
    <3>1. Calling /\ NoConnection
      BY <2>2 DEF CallWithoutConnection
    <3>2. inUse < PoolSize
      BY <3>1, NestingSuffices DEF ConnectionAvailable
    <3>3. inUse \in Nat
      BY DEF NestingInv, TypeOK
    <3> QED
      BY <3>1, <3>2, <3>3, PlatformConnectionsAssumption DEF NoConnection
  <2>3. CASE ~NetworkDrops /\ ~ParseFails /\ ~CallWithoutConnection
    <3>1. subscribed \subseteq subscribed'
      BY <2>3 DEF Next, HandlerStep, Connect, ConnectFails, OnSuccess,
         Reconnect, Subscribed, Arrive, MessageArrived, Call, Return,
         StatementFails, DatabaseFails, DatabaseRecovers, mqtt
    <3> QED
      BY <3>1
  <2> QED
    BY <2>1, <2>2, <2>3
<1> QED
  BY <1>1, NestingInvariant, PTL DEF Spec, StaysSubscribed

=============================================================================
