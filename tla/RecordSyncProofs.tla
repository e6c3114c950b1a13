-------------------------- MODULE RecordSyncProofs --------------------------
(***************************************************************************)
(* Theorems of RecordSync: its types, and that the only updates a device   *)
(* can miss for good are those that overtake an answer, or fall into the   *)
(* rest of a second to which its acknowledgement was rounded up.           *)
(***************************************************************************)
EXTENDS RecordSync, ProofFacts

-----------------------------------------------------------------------------
(* The invariant says of each record that a device still has to get how it  *)
(* is going to get it: whatever is under way brings it, and so does the     *)
(* answer to every later request.                                           *)

\* The device lacks the record, and when it changed no answer was under way and
\* the device not dated ahead.
Pending(d, r) == r \in Due(d) /\ ~Current(d, r) /\ ~overtaken[d][r]

\* Every answer under way brings it, and none is being acknowledged that did
\* not: the time of an acknowledgement would exclude it from later answers.
OnItsWay(d, r) ==
  /\ Known(d) => last[d] <= updatedOn[r]
  /\ \A answer \in ToSet(toDevice[d]) : Listed(r) \in answer.rows
  /\ "ack" \notin ToSet(toPlatform[d])

\* An answer lists a record once, in a version it has had.
Truthful(answer) ==
  /\ \A row \in answer.rows : row.ver <= ver[row.id]
  /\ \A row, other \in answer.rows : row.id = other.id => row = other

VersionsExist == \A d \in Device, r \in Record : held[d][r] <= ver[r]

AnswersTruthful ==
  \A d \in Device : \A answer \in ToSet(toDevice[d]) : Truthful(answer)

PendingOnItsWay == \A d \in Device, r \in Record : Pending(d, r) => OnItsWay(d, r)

RecordInv == TypeOK /\ VersionsExist /\ AnswersTruthful /\ PendingOnItsWay

-----------------------------------------------------------------------------
(* Types.                                                                   *)

LEMMA ConsumeType ==
  ASSUME TypeOK, NEW d \in Device, toPlatform[d] # <<>>, Consume(d)
  PROVE  toPlatform' \in [Device -> Seq(Message)]
<1>1. Tail(toPlatform[d]) \in Seq(Message)
  BY HeadTailProperties DEF TypeOK
<1> QED
  BY <1>1 DEF Consume, TypeOK

LEMMA AnswersAreAnswers ==
  ASSUME TypeOK, NEW rs \in SUBSET Record
  PROVE  /\ [type |-> "list", rows |-> Answer(rs)] \in AnswerType
         /\ [type |-> "synced", rows |-> {}] \in AnswerType
BY DEF TypeOK, Answer, Listed, AnswerType

LEMMA HeldAfterType ==
  ASSUME NEW have \in [Record -> Nat], NEW answer \in AnswerType
  PROVE  HeldAfter(have, answer) \in [Record -> Nat]
<1>1. ASSUME NEW r \in Record, NEW row \in answer.rows, row.id = r
      PROVE  (CHOOSE x \in answer.rows : x.id = r).ver \in Nat
  BY <1>1 DEF AnswerType
<1> QED
  BY <1>1 DEF HeldAfter

LEMMA PlatformType ==
  ASSUME TypeOK, NEW d \in Device,
         \/ GetService(d) \/ GetServiceFails(d) \/ SaveSyncLog(d)
         \/ SaveSyncLogFails(d) \/ RejectAck(d)
  PROVE  TypeOK'
<1>1. toPlatform[d] # <<>> /\ Consume(d)
  BY DEF GetService, GetServiceFails, SaveSyncLog, SaveSyncLogFails, RejectAck,
     Arrived
<1>2. toPlatform' \in [Device -> Seq(Message)]
  BY <1>1, ConsumeType
<1>3. toDevice' \in [Device -> Seq(AnswerType)]
  <2>1. CASE UNCHANGED toDevice
    BY <2>1 DEF TypeOK
  <2>2. CASE GetService(d)
    <3>1. Sent(d) \in SUBSET Record
      BY DEF Sent, Selected, OfInterest
    <3>2. PICK answer \in AnswerType : Publish(d, answer)
      BY <2>2, <3>1, AnswersAreAnswers DEF GetService
    <3>3. Append(toDevice[d], answer) \in Seq(AnswerType)
      BY AppendProperties DEF TypeOK
    <3> QED
      BY <3>2, <3>3 DEF Publish, TypeOK
  <2> QED
    BY <2>1, <2>2 DEF GetServiceFails, SaveSyncLog, SaveSyncLogFails, RejectAck
<1>4. /\ UNCHANGED <<now, table, waiting, held, overtaken, sent, edits>>
      /\ faults' \in {faults, faults + 1}
      /\ last' \in {last, [last EXCEPT ![d] = Rounded]}
  BY DEF GetService, GetServiceFails, SaveSyncLog, SaveSyncLogFails, RejectAck,
     budget
<1>5. last' \in [Device -> (0 .. Rounded) \cup {Never}]
  <2>1. Rounded \in 0 .. Rounded
    BY RecordSyncAssumption DEF TypeOK, Rounded
  <2> QED
    BY <1>4, <2>1 DEF TypeOK
<1> QED
  BY <1>2, <1>3, <1>4, <1>5 DEF TypeOK, table, Second, Rounded

LEMMA DeviceType ==
  ASSUME TypeOK, NEW d \in Device,
         \/ LoseToPlatform(d) \/ LoseToDevice(d) \/ SendRequest(d) \/ Restart(d)
         \/ \E received \in BOOLEAN : ReceiveAnswer(d, received)
  PROVE  TypeOK'
<1>1. CASE LoseToPlatform(d)
  BY <1>1, ConsumeType DEF LoseToPlatform, TypeOK, table, budget, Second, Rounded
<1>2. CASE LoseToDevice(d)
  <2>1. Tail(toDevice[d]) \in Seq(AnswerType)
    BY <1>2, HeadTailProperties DEF LoseToDevice, TypeOK
  <2> QED
    BY <1>2, <2>1 DEF LoseToDevice, TypeOK, table, budget, Second, Rounded
<1>3. CASE SendRequest(d)
  <2>1. Append(toPlatform[d], "request") \in Seq(Message)
    BY AppendProperties DEF TypeOK, Message
  <2> QED
    BY <1>3, <2>1 DEF SendRequest, TypeOK, table, Second, Rounded
<1>4. CASE Restart(d)
  BY <1>4, EmptySeq DEF Restart, TypeOK, table, budget, Second, Rounded
<1>5. ASSUME NEW received \in BOOLEAN, ReceiveAnswer(d, received)
      PROVE  TypeOK'
  <2> DEFINE answer == Head(toDevice[d])
             m == IF received THEN "ack" ELSE "nack"
  <2>1. answer \in AnswerType /\ Tail(toDevice[d]) \in Seq(AnswerType)
    BY <1>5, HeadTailProperties DEF ReceiveAnswer, TypeOK
  <2>2. HeldAfter(held[d], answer) \in [Record -> Nat]
    BY <2>1, HeldAfterType DEF TypeOK
  <2>3. held' \in [Device -> [Record -> Nat]]
    BY <1>5, <2>2 DEF ReceiveAnswer, TypeOK
  <2>4. Append(toPlatform[d], m) \in Seq(Message)
    BY AppendProperties DEF TypeOK, Message
  <2>5. toPlatform' = [toPlatform EXCEPT ![d] = Append(@, m)]
    BY <1>5 DEF ReceiveAnswer
  <2> HIDE DEF m
  <2>6. toPlatform' \in [Device -> Seq(Message)]
    BY <2>4, <2>5 DEF TypeOK
  <2> QED
    BY <1>5, <2>1, <2>3, <2>6 DEF ReceiveAnswer, TypeOK, table, budget, Second, Rounded
<1> QED
  BY <1>1, <1>2, <1>3, <1>4, <1>5

\* A later clock rounds to a later second, or to the same.
LEMMA ClockMonotone ==
  ASSUME NEW m \in Nat, NEW n \in Nat, m <= n
  PROVE  /\ m \div 2 \in Nat /\ n \div 2 \in Nat
         /\ m \div 2 <= n \div 2
         /\ 0 .. (m \div 2) \subseteq 0 .. (n \div 2)
<1>1. m \div 2 \in Nat /\ n \div 2 \in Nat /\ m \div 2 <= n \div 2
  OBVIOUS
<1> QED
  BY <1>1

LEMMA TableType ==
  ASSUME TypeOK,
         \/ Tick
         \/ \E r \in Record, isComplete, isVerified \in BOOLEAN :
              Edit(r, isComplete, isVerified)
  PROVE  TypeOK'
<1>1. CASE Tick
  <2>1. now' \in 0 .. MaxTime /\ now \in Nat /\ now' = now + 1
    BY <1>1, RecordSyncAssumption DEF Tick, TypeOK
  <2>2. 0 .. Second \subseteq 0 .. Second'
    <3>1. now <= now' /\ now' \in Nat
      BY <2>1
    <3> QED
      BY <2>1, <3>1, ClockMonotone DEF Second
  <2>3. 0 .. Rounded \subseteq 0 .. Rounded'
    <3>1. now + 1 \in Nat /\ now' + 1 \in Nat /\ now + 1 <= now' + 1
      BY <2>1
    <3> QED
      BY <3>1, ClockMonotone DEF Rounded
  <2>4. updatedOn' \in [Record -> 0 .. Second']
    BY <1>1, <2>2 DEF Tick, TypeOK, table
  <2>5. last' \in [Device -> (0 .. Rounded') \cup {Never}]
    BY <1>1, <2>3 DEF Tick, TypeOK
  <2> QED
    BY <1>1, <2>1, <2>4, <2>5 DEF Tick, TypeOK, table, budget
<1>2. ASSUME NEW r \in Record, NEW isComplete \in BOOLEAN,
             NEW isVerified \in BOOLEAN, Edit(r, isComplete, isVerified)
      PROVE  TypeOK'
  <2>1. Second \in 0 .. Second /\ UNCHANGED <<Second, Rounded>>
    <3>1. now \in Nat /\ UNCHANGED now
      BY <1>2, RecordSyncAssumption DEF Edit, TypeOK
    <3>2. Second \in Nat
      BY <3>1, ClockMonotone DEF Second
    <3> QED
      BY <3>1, <3>2 DEF Second, Rounded
  <2>2. updatedOn' \in [Record -> 0 .. Second] /\ ver' \in [Record -> Nat]
    BY <1>2, <2>1 DEF Edit, TypeOK
  <2>3. incomplete' \subseteq Record /\ unverified' \subseteq Record
    BY <1>2 DEF Edit, TypeOK
  <2>4. overtaken' \in [Device -> [Record -> BOOLEAN]]
    <3>1. \A d \in Device : (AnswerUnderway(d) \/ DatedAhead(d)) \in BOOLEAN
      BY DEF AnswerUnderway, DatedAhead
    <3> QED
      BY <1>2, <3>1 DEF Edit, TypeOK
  <2> QED
    BY <1>2, <2>1, <2>2, <2>3, <2>4 DEF Edit, TypeOK
<1> QED
  BY <1>1, <1>2

LEMMA TypeStep == TypeOK /\ [Next]_vars => TypeOK'
<1>1. TypeOK /\ UNCHANGED vars => TypeOK'
  BY DEF TypeOK, vars, table, budget, Second, Rounded
<1> QED
  BY <1>1, PlatformType, DeviceType, TableType DEF Next

LEMMA InitType == Init => TypeOK
<1> SUFFICES ASSUME Init PROVE TypeOK
  OBVIOUS
<1>1. Second = 0 /\ Rounded = 0
  BY DEF Init, Second, Rounded
<1> QED
  BY <1>1, RecordSyncAssumption, EmptySeq DEF Init, TypeOK, Never

\* Tables, timestamps and messages have their types; no record is dated in the
\* platform's future, which BETWEEN would hide, and no device later than the
\* second to which the column rounds the clock (MqttMessageHandler, schema.sql).
THEOREM RecordTypes == Spec => []TypeOK
<1> QED
  BY InitType, TypeStep, PTL DEF Spec

-----------------------------------------------------------------------------
(* The invariant: steps that leave the table as it is.                      *)

LEMMA ConsumedQueues ==
  ASSUME TypeOK, NEW d \in Device, toPlatform[d] # <<>>, Consume(d)
  PROVE  /\ \A c \in Device : ToSet(toPlatform'[c]) \subseteq ToSet(toPlatform[c])
         /\ Head(toPlatform[d]) \in ToSet(toPlatform[d])
<1>1. toPlatform[d] \in Seq(Message)
  BY DEF TypeOK
<1>2. /\ ToSet(Tail(toPlatform[d])) \subseteq ToSet(toPlatform[d])
      /\ Head(toPlatform[d]) \in ToSet(toPlatform[d])
  BY <1>1, Dequeued
<1>3. \A c \in Device : toPlatform'[c] = IF c = d THEN Tail(toPlatform[d])
                                                  ELSE toPlatform[c]
  BY DEF Consume, TypeOK
<1> QED
  BY <1>2, <1>3

LEMMA ReceivedQueues ==
  ASSUME TypeOK, NEW d \in Device, toDevice[d] # <<>>,
         toDevice' = [toDevice EXCEPT ![d] = Tail(@)]
  PROVE  /\ \A c \in Device : ToSet(toDevice'[c]) \subseteq ToSet(toDevice[c])
         /\ Head(toDevice[d]) \in ToSet(toDevice[d])
         /\ Head(toDevice[d]) \in AnswerType
<1>1. toDevice[d] \in Seq(AnswerType)
  BY DEF TypeOK
<1>2. /\ ToSet(Tail(toDevice[d])) \subseteq ToSet(toDevice[d])
      /\ Head(toDevice[d]) \in ToSet(toDevice[d])
      /\ Head(toDevice[d]) \in AnswerType
  BY <1>1, Dequeued
<1>3. \A c \in Device : toDevice'[c] = IF c = d THEN Tail(toDevice[d])
                                                ELSE toDevice[c]
  BY DEF TypeOK
<1> QED
  BY <1>2, <1>3

LEMMA PublishedQueues ==
  ASSUME TypeOK, NEW d \in Device, NEW answer \in AnswerType, Publish(d, answer)
  PROVE  \A c \in Device : \A a \in ToSet(toDevice'[c]) :
           a \in ToSet(toDevice[c]) \/ (c = d /\ a = answer)
<1>1. toDevice[d] \in Seq(AnswerType)
  BY DEF TypeOK
<1>2. ToSet(Append(toDevice[d], answer)) = ToSet(toDevice[d]) \cup {answer}
  BY <1>1, Enqueued
<1>3. /\ toDevice'[d] = Append(toDevice[d], answer)
      /\ \A c \in Device \ {d} : toDevice'[c] = toDevice[c]
  BY DEF Publish, TypeOK
<1> SUFFICES ASSUME NEW c \in Device, NEW a \in ToSet(toDevice'[c])
             PROVE  a \in ToSet(toDevice[c]) \/ (c = d /\ a = answer)
  OBVIOUS
<1>4. ASSUME c = d PROVE a = answer \/ a \in ToSet(toDevice[c])
  <2>1. toDevice'[c] = Append(toDevice[d], answer)
    BY <1>3, <1>4
  <2> QED
    BY <1>2, <1>4, <2>1
<1>5. ASSUME c # d PROVE a \in ToSet(toDevice[c])
  <2>1. toDevice'[c] = toDevice[c]
    BY <1>3, <1>5
  <2> QED
    BY <2>1, Zenon
<1> QED
  BY <1>4, <1>5

LEMMA SentQueues ==
  ASSUME TypeOK, NEW d \in Device, NEW m \in Message,
         toPlatform' = [toPlatform EXCEPT ![d] = Append(@, m)]
  PROVE  \A c \in Device : \A n \in ToSet(toPlatform'[c]) :
           n \in ToSet(toPlatform[c]) \/ (c = d /\ n = m)
<1>1. toPlatform[d] \in Seq(Message)
  BY DEF TypeOK
<1>2. ToSet(Append(toPlatform[d], m)) = ToSet(toPlatform[d]) \cup {m}
  BY <1>1, Enqueued
<1>3. /\ toPlatform'[d] = Append(toPlatform[d], m)
      /\ \A c \in Device \ {d} : toPlatform'[c] = toPlatform[c]
  BY DEF TypeOK
<1> SUFFICES ASSUME NEW c \in Device, NEW n \in ToSet(toPlatform'[c])
             PROVE  n \in ToSet(toPlatform[c]) \/ (c = d /\ n = m)
  OBVIOUS
<1>4. ASSUME c = d PROVE n = m \/ n \in ToSet(toPlatform[c])
  <2>1. toPlatform'[c] = Append(toPlatform[d], m)
    BY <1>3, <1>4
  <2> QED
    BY <1>2, <1>4, <2>1
<1>5. ASSUME c # d PROVE n \in ToSet(toPlatform[c])
  <2>1. toPlatform'[c] = toPlatform[c]
    BY <1>3, <1>5
  <2> QED
    BY <2>1, Zenon
<1> QED
  BY <1>4, <1>5

\* What a step has to show that leaves the table as it is: what it publishes
\* brings every pending record, and it neither dates a device nor has it
\* acknowledge as long as one of its records is pending.
LEMMA SameTable ==
  ASSUME RecordInv, TypeOK', UNCHANGED <<table, overtaken>>,
         VersionsExist',
         \A d \in Device :
           /\ \A a \in ToSet(toDevice'[d]) :
                \/ a \in ToSet(toDevice[d])
                \/ /\ Truthful(a)
                   /\ \A r \in Record : Pending(d, r) => Listed(r) \in a.rows
           /\ \A r \in Record : Pending(d, r)' =>
                /\ Pending(d, r)
                /\ UNCHANGED last[d]
                /\ "ack" \in ToSet(toPlatform'[d])
                     => "ack" \in ToSet(toPlatform[d])
  PROVE  RecordInv'
<1> USE DEF table
<1>1. ASSUME NEW d \in Device, NEW a \in ToSet(toDevice'[d])
      PROVE  Truthful(a)'
  <2>1. Truthful(a)
    BY DEF RecordInv, AnswersTruthful
  <2> QED
    BY <2>1 DEF Truthful
<1>2. ASSUME NEW d \in Device, NEW r \in Record, Pending(d, r)'
      PROVE  OnItsWay(d, r)'
  <2>1. Pending(d, r) /\ OnItsWay(d, r)
    BY <1>2 DEF RecordInv, PendingOnItsWay
  <2>2. Listed(r)' = Listed(r)
    BY DEF Listed
  <2>3. \A a \in ToSet(toDevice'[d]) : Listed(r)' \in a.rows
    BY <2>1, <2>2 DEF OnItsWay
  <2>4. "ack" \notin ToSet(toPlatform'[d])
    BY <1>2, <2>1 DEF OnItsWay
  <2>5. Known(d)' => last'[d] <= updatedOn'[r]
    BY <1>2, <2>1 DEF OnItsWay, Known
  <2> QED
    BY <2>3, <2>4, <2>5 DEF OnItsWay
<1> QED
  BY <1>1, <1>2 DEF RecordInv, AnswersTruthful, PendingOnItsWay

\* Messages get lost or rejected, requests are sent, and time passes.
LEMMA QuietStep ==
  ASSUME RecordInv, TypeOK',
         UNCHANGED <<table, overtaken, held, last>>,
         \A d \in Device :
           /\ ToSet(toDevice'[d]) \subseteq ToSet(toDevice[d])
           /\ "ack" \in ToSet(toPlatform'[d]) => "ack" \in ToSet(toPlatform[d])
  PROVE  RecordInv'
<1>1. VersionsExist'
  BY DEF RecordInv, VersionsExist, table
<1>2. \A d \in Device, r \in Record : Pending(d, r)' => Pending(d, r)
  BY DEF Pending, Due, OfInterest, Current, table
<1> QED
  BY <1>1, <1>2, SameTable

\* What the query selects for a device includes all that it has pending.
LEMMA GetServiceStep ==
  ASSUME RecordInv, TypeOK', NEW d \in Device, GetService(d)
  PROVE  RecordInv'
<1>1. TypeOK /\ VersionsExist
  BY DEF RecordInv
<1>2. ASSUME NEW r \in Record, Pending(d, r) PROVE r \in Sent(d)
  <2>1. Known(d) => last[d] <= updatedOn[r]
    BY <1>2 DEF RecordInv, PendingOnItsWay, OnItsWay
  <2>2. updatedOn[r] <= Second
    <3>1. updatedOn[r] \in 0 .. Second
      BY <1>1 DEF TypeOK
    <3> QED
      BY <3>1
  <2> QED
    BY <1>2, <2>1, <2>2 DEF Pending, Due, Sent, Selected
<1>3. Sent(d) \in SUBSET Record /\ Sent(d) \subseteq Selected(d)
  BY DEF Sent, Selected, OfInterest
<1>4. PICK answer \in AnswerType :
        /\ Publish(d, answer)
        /\ answer.rows = IF Selected(d) = {} THEN {} ELSE Answer(Sent(d))
  BY <1>1, <1>3, AnswersAreAnswers DEF GetService
<1>5. answer.rows = Answer(Sent(d))
  BY <1>3, <1>4 DEF Answer
<1>6. \A r \in Record : Pending(d, r) => Listed(r) \in answer.rows
  BY <1>2, <1>5 DEF Answer
<1>7. Truthful(answer)
  <2>1. \A row \in answer.rows : \E r \in Record : row = [id |-> r, ver |-> ver[r]]
    BY <1>3, <1>5 DEF Answer, Listed
  <2>2. \A r \in Record : ver[r] \in Nat
    BY <1>1 DEF TypeOK
  <2> QED
    BY <2>1, <2>2 DEF Truthful
<1>8. \A c \in Device : \A a \in ToSet(toDevice'[c]) :
        a \in ToSet(toDevice[c]) \/ (c = d /\ a = answer)
  BY <1>1, <1>4, PublishedQueues
<1>9. \A c \in Device : ToSet(toPlatform'[c]) \subseteq ToSet(toPlatform[c])
  BY <1>1, ConsumedQueues DEF GetService, Arrived
<1>10. UNCHANGED <<table, overtaken, held, last>>
  BY DEF GetService
<1>11. VersionsExist'
  BY <1>1, <1>10 DEF VersionsExist, table
<1>12. \A c \in Device, r \in Record : Pending(c, r)' => Pending(c, r)
  BY <1>10 DEF Pending, Due, OfInterest, Current, table
<1> QED
  BY <1>6, <1>7, <1>8, <1>9, <1>10, <1>11, <1>12, SameTable

\* Only a device with nothing pending acknowledges.
LEMMA SaveSyncLogStep ==
  ASSUME RecordInv, TypeOK', NEW d \in Device, SaveSyncLog(d)
  PROVE  RecordInv'
<1>1. TypeOK /\ toPlatform[d] # <<>> /\ Head(toPlatform[d]) = "ack" /\ Consume(d)
  BY DEF RecordInv, SaveSyncLog, Arrived
<1>2. /\ \A c \in Device : ToSet(toPlatform'[c]) \subseteq ToSet(toPlatform[c])
      /\ "ack" \in ToSet(toPlatform[d])
  BY <1>1, ConsumedQueues
<1>3. \A r \in Record : ~Pending(d, r)
  BY <1>2 DEF RecordInv, PendingOnItsWay, OnItsWay
<1>4. /\ UNCHANGED <<table, overtaken, held, toDevice>>
      /\ \A c \in Device \ {d} : last'[c] = last[c]
  BY <1>1 DEF SaveSyncLog, TypeOK
<1>5. VersionsExist'
  BY <1>4 DEF RecordInv, VersionsExist, table
<1>6. \A c \in Device, r \in Record : Pending(c, r)' => Pending(c, r)
  BY <1>4 DEF Pending, Due, OfInterest, Current, table
<1>7. \A c \in Device, r \in Record : Pending(c, r)' => last'[c] = last[c]
  BY <1>3, <1>4, <1>6
<1> QED
  BY <1>2, <1>4, <1>5, <1>6, <1>7, SameTable

\* What a device holds after an answer: a version that exists, and the current
\* one if it held that or was to be brought it.
LEMMA HeldAfterTruth ==
  ASSUME RecordInv, NEW d \in Device, NEW answer \in ToSet(toDevice[d]),
         answer \in AnswerType, NEW r \in Record
  PROVE  /\ HeldAfter(held[d], answer)[r] <= ver[r]
         /\ Current(d, r) \/ Pending(d, r)
              => HeldAfter(held[d], answer)[r] = ver[r]
<1> DEFINE have == held[d][r]
           after == HeldAfter(held[d], answer)[r]
           News(row) == row.id = r /\ row.ver > have
<1>1. have \in Nat /\ ver[r] \in Nat /\ have <= ver[r]
  BY DEF RecordInv, TypeOK, VersionsExist
<1>2. /\ \A row \in answer.rows : row.ver <= ver[row.id] /\ row.ver \in Nat
      /\ \A row, other \in answer.rows : row.id = other.id => row = other
  BY DEF RecordInv, AnswersTruthful, Truthful, AnswerType
<1>3. after = IF \E row \in answer.rows : News(row)
              THEN (CHOOSE row \in answer.rows : row.id = r).ver
              ELSE have
  BY DEF HeldAfter
<1>4. ASSUME NEW row \in answer.rows, News(row) PROVE after = row.ver
  <2>1. (CHOOSE x \in answer.rows : x.id = r) = row
    BY <1>2, <1>4
  <2> QED
    BY <1>3, <1>4, <2>1
<1>5. (\A row \in answer.rows : ~News(row)) => after = have
  BY <1>3
<1> HIDE DEF after
<1>6. after <= ver[r]
  BY <1>1, <1>2, <1>4, <1>5
<1>7. ASSUME Current(d, r) PROVE after = ver[r]
  <2>1. \A row \in answer.rows : ~News(row)
    BY <1>1, <1>2, <1>7 DEF Current
  <2> QED
    BY <1>5, <1>7, <2>1 DEF Current
<1>8. ASSUME Pending(d, r) PROVE after = ver[r]
  <2>1. Listed(r) \in answer.rows
    BY <1>8 DEF RecordInv, PendingOnItsWay, OnItsWay
  <2>2. ver[r] > have
    BY <1>1, <1>8 DEF Pending, Current
  <2>3. News(Listed(r))
    BY <2>2 DEF Listed
  <2>4. after = Listed(r).ver
    BY <1>4, <2>1, <2>3
  <2> QED
    BY <2>4 DEF Listed
<1> QED
  BY <1>6, <1>7, <1>8 DEF after

\* An answer that is received leaves nothing pending, so that its
\* acknowledgement does no harm.
LEMMA ReceiveStep ==
  ASSUME RecordInv, TypeOK', NEW d \in Device, NEW received \in BOOLEAN,
         ReceiveAnswer(d, received)
  PROVE  RecordInv'
<1> DEFINE answer == Head(toDevice[d])
<1>1. TypeOK /\ VersionsExist
  BY DEF RecordInv
<1>2. /\ UNCHANGED <<table, overtaken, last>>
      /\ held' = [held EXCEPT ![d] = IF received THEN HeldAfter(@, answer) ELSE @]
      /\ toDevice' = [toDevice EXCEPT ![d] = Tail(@)]
      /\ toDevice[d] # <<>>
      /\ toPlatform' = [toPlatform EXCEPT
                          ![d] = Append(@, IF received THEN "ack" ELSE "nack")]
  BY DEF ReceiveAnswer
<1>3. /\ \A c \in Device : ToSet(toDevice'[c]) \subseteq ToSet(toDevice[c])
      /\ answer \in ToSet(toDevice[d]) /\ answer \in AnswerType
  BY <1>1, <1>2, ReceivedQueues
<1> HIDE DEF answer
<1>4. /\ \A c \in Device \ {d} : held'[c] = held[c]
      /\ ~received => held'[d] = held[d]
      /\ received => held'[d] = HeldAfter(held[d], answer)
  BY <1>1, <1>2 DEF TypeOK
<1>5. \A r \in Record :
        /\ HeldAfter(held[d], answer)[r] <= ver[r]
        /\ Current(d, r) \/ Pending(d, r)
             => HeldAfter(held[d], answer)[r] = ver[r]
  BY <1>3, HeldAfterTruth
<1>6. VersionsExist'
  <2> SUFFICES ASSUME NEW c \in Device, NEW r \in Record
               PROVE  held'[c][r] <= ver'[r]
    BY DEF VersionsExist
  <2>1. CASE held'[c] = held[c]
    BY <1>1, <1>2, <2>1 DEF VersionsExist, table
  <2>2. CASE c = d /\ held'[d] = HeldAfter(held[d], answer)
    BY <1>2, <1>5, <2>2 DEF table
  <2> QED
    BY <1>4, <2>1, <2>2
<1>7. ASSUME NEW c \in Device, NEW r \in Record, Pending(c, r)'
      PROVE  Pending(c, r) /\ ~ (c = d /\ received)
  <2>1. /\ r \in Due(c) /\ ~overtaken[c][r]
        /\ held'[c][r] # ver[r]
    BY <1>2, <1>7 DEF Pending, Due, OfInterest, Current, table
  <2>2. CASE held'[c] = held[c] /\ ~ (c = d /\ received)
    BY <2>1, <2>2 DEF Pending, Current
  <2>3. CASE c = d /\ received
    <3>1. held'[d] = HeldAfter(held[d], answer)
      BY <1>4, <2>3
    <3>2. HeldAfter(held[d], answer)[r] # ver[r]
      BY <2>1, <2>3, <3>1
    <3>3. ~Current(d, r) /\ ~Pending(d, r)
      BY <1>5, <3>2
    <3> QED
      BY <2>1, <2>3, <3>3 DEF Pending
  <2> QED
    BY <1>4, <2>2, <2>3
<1>8. ASSUME NEW c \in Device, NEW r \in Record, Pending(c, r)',
             "ack" \in ToSet(toPlatform'[c])
      PROVE  "ack" \in ToSet(toPlatform[c])
  <2>1. PICK m \in Message : m = IF received THEN "ack" ELSE "nack"
    BY DEF Message
  <2>2. toPlatform' = [toPlatform EXCEPT ![d] = Append(@, m)]
    BY <1>2, <2>1
  <2>3. \A k \in Device : \A n \in ToSet(toPlatform'[k]) :
          n \in ToSet(toPlatform[k]) \/ (k = d /\ n = m)
    BY <1>1, <2>2, SentQueues
  <2>4. "ack" \in ToSet(toPlatform[c]) \/ (c = d /\ m = "ack")
    BY <1>8, <2>3
  <2> QED
    BY <1>7, <1>8, <2>1, <2>4
<1> QED
  BY <1>2, <1>3, <1>6, <1>7, <1>8, SameTable

-----------------------------------------------------------------------------
(* The invariant: the steps that remain.                                    *)

\* A new version is pending only if nothing was under way to the device, and
\* its second is not before the one the device is dated with.
LEMMA EditStep ==
  ASSUME RecordInv, TypeOK', NEW e \in Record, NEW isComplete \in BOOLEAN,
         NEW isVerified \in BOOLEAN, Edit(e, isComplete, isVerified)
  PROVE  RecordInv'
<1>1. TypeOK /\ VersionsExist
  BY DEF RecordInv
<1>2. /\ UNCHANGED <<now, owner, last, toPlatform, toDevice, held>>
      /\ \A r \in Record \ {e} : /\ ver'[r] = ver[r]
                                 /\ updatedOn'[r] = updatedOn[r]
                                 /\ r \in unverified' <=> r \in unverified
      /\ ver'[e] = ver[e] + 1 /\ updatedOn'[e] = Second
      /\ \A d \in Device :
           /\ \A r \in Record \ {e} : overtaken'[d][r] = overtaken[d][r]
           /\ overtaken'[d][e] = (AnswerUnderway(d) \/ DatedAhead(d))
  BY <1>1 DEF Edit, TypeOK
<1>3. ASSUME NEW r \in Record
      PROVE  ver[r] \in Nat /\ ver[r] <= ver'[r]
  <2>1. ver[r] \in Nat /\ ver'[r] \in {ver[r], ver[r] + 1}
    BY <1>1, <1>2 DEF TypeOK
  <2> QED
    BY <2>1
<1>4. VersionsExist'
  BY <1>1, <1>2, <1>3 DEF VersionsExist, TypeOK
<1>5. ASSUME NEW d \in Device, NEW a \in ToSet(toDevice'[d])
      PROVE  Truthful(a)'
  <2>1. a \in ToSet(toDevice[d])
    BY <1>2
  <2>2. a \in AnswerType
    BY <1>1, <2>1, QueuedType DEF TypeOK
  <2>3. Truthful(a)
    BY <2>1 DEF RecordInv, AnswersTruthful
  <2>4. \A row \in a.rows : row.id \in Record /\ row.ver \in Nat
    BY <2>2 DEF AnswerType
  <2>5. \A row \in a.rows : row.ver <= ver'[row.id]
    <3> SUFFICES ASSUME NEW row \in a.rows PROVE row.ver <= ver'[row.id]
      OBVIOUS
    <3>1. row.ver <= ver[row.id] /\ row.id \in Record /\ row.ver \in Nat
      BY <2>3, <2>4 DEF Truthful
    <3>2. ver[row.id] \in Nat /\ ver'[row.id] \in Nat
      BY <1>1, <3>1 DEF TypeOK
    <3> QED
      BY <1>3, <3>1, <3>2
  <2> QED
    BY <2>3, <2>5 DEF Truthful
<1>6. ASSUME NEW d \in Device, NEW r \in Record, Pending(d, r)'
      PROVE  OnItsWay(d, r)'
  <2>1. CASE r = e
    <3>1. ~AnswerUnderway(d) /\ ~DatedAhead(d)
      BY <1>2, <1>6, <2>1 DEF Pending
    <3>2. ToSet(toDevice'[d]) = {} /\ "ack" \notin ToSet(toPlatform'[d])
      BY <1>2, <3>1, EmptyQueue DEF AnswerUnderway, ToSet
    <3>3. Known(d)' => last'[d] <= updatedOn'[r]
      <4>1. Second \in Nat /\ Rounded \in Nat
        <5>1. now \in Nat /\ now + 1 \in Nat
          BY <1>1, RecordSyncAssumption DEF TypeOK
        <5> QED
          BY <5>1, ClockMonotone DEF Second, Rounded
      <4>2. Known(d) => last[d] \in Nat
        BY <1>1, <4>1 DEF Known, TypeOK
      <4> QED
        BY <1>2, <2>1, <3>1, <4>1, <4>2 DEF Known, DatedAhead
    <3> QED
      BY <3>2, <3>3 DEF OnItsWay
  <2>2. CASE r # e
    <3>1. Pending(d, r)
      BY <1>2, <1>6, <2>2 DEF Pending, Due, OfInterest, Current
    <3>2. OnItsWay(d, r)
      BY <3>1 DEF RecordInv, PendingOnItsWay
    <3>3. Listed(r)' = Listed(r) /\ updatedOn'[r] = updatedOn[r]
      BY <1>2, <2>2 DEF Listed
    <3> QED
      BY <1>2, <3>2, <3>3 DEF OnItsWay, Known
  <2> QED
    BY <2>1, <2>2
<1> QED
  BY <1>4, <1>5, <1>6 DEF RecordInv, AnswersTruthful, PendingOnItsWay

LEMMA OtherSteps ==
  ASSUME RecordInv, TypeOK',
         \/ \E d \in Device :
              \/ GetServiceFails(d) \/ SaveSyncLogFails(d) \/ RejectAck(d)
              \/ LoseToPlatform(d) \/ LoseToDevice(d)
              \/ SendRequest(d) \/ Restart(d)
         \/ Tick
         \/ UNCHANGED vars
  PROVE  RecordInv'
<1>1. TypeOK
  BY DEF RecordInv
<1>2. ASSUME NEW d \in Device,
             \/ GetServiceFails(d) \/ SaveSyncLogFails(d) \/ RejectAck(d)
             \/ LoseToPlatform(d)
      PROVE  RecordInv'
  <2>1. /\ toPlatform[d] # <<>> /\ Consume(d)
        /\ UNCHANGED <<table, overtaken, held, last, toDevice>>
    BY <1>2 DEF GetServiceFails, SaveSyncLogFails, RejectAck, LoseToPlatform,
       Arrived
  <2> QED
    BY <1>1, <2>1, ConsumedQueues, QuietStep
<1>3. ASSUME NEW d \in Device, LoseToDevice(d) PROVE RecordInv'
  BY <1>1, <1>3, ReceivedQueues, QuietStep DEF LoseToDevice
<1>4. ASSUME NEW d \in Device, SendRequest(d) PROVE RecordInv'
  <2>1. \A c \in Device : \A n \in ToSet(toPlatform'[c]) :
          n \in ToSet(toPlatform[c]) \/ n = "request"
    BY <1>1, <1>4, SentQueues DEF SendRequest, Message
  <2> QED
    BY <1>4, <2>1, QuietStep DEF SendRequest
<1>5. ASSUME NEW d \in Device, Restart(d) PROVE RecordInv'
  <2>1. \A c \in Device : toDevice'[c] \in {toDevice[c], <<>>}
    BY <1>1, <1>5 DEF Restart, TypeOK
  <2> QED
    BY <1>5, <2>1, EmptyQueue, QuietStep DEF Restart
<1>6. CASE Tick \/ UNCHANGED vars
  BY <1>6, QuietStep DEF Tick, vars
<1> QED
  BY <1>2, <1>3, <1>4, <1>5, <1>6

\* The only updates a device can miss for good are those made between the query
\* of an answer and the arrival of its acknowledgement, and those made in the rest
\* of the second in whose second half that arrives, whatever the network loses:
\* the acknowledgement dates the device with the time at which it arrives
\* (saveAmsUserSyncLog, saveAmsScheduleSyncLog), not with that of the query, and
\* last_synced_on, a column without a fraction, rounds that up.
THEOREM OnlyOvertakenMissed == Spec => []MissedOnlyIfOvertaken
<1>1. Init => RecordInv
  <2> SUFFICES ASSUME Init PROVE RecordInv
    OBVIOUS
  <2>1. TypeOK
    BY InitType
  <2>2. \A d \in Device : ToSet(toDevice[d]) = {} /\ ToSet(toPlatform[d]) = {}
    BY EmptyQueue DEF Init
  <2>3. \A d \in Device : ~Known(d)
    BY DEF Init, Known
  <2>4. VersionsExist
    BY DEF Init, VersionsExist
  <2> QED
    BY <2>1, <2>2, <2>3, <2>4
    DEF RecordInv, AnswersTruthful, PendingOnItsWay, OnItsWay
<1>2. RecordInv /\ [Next]_vars => RecordInv'
  <2> SUFFICES ASSUME RecordInv, [Next]_vars PROVE RecordInv'
    OBVIOUS
  <2>1. TypeOK'
    BY TypeStep DEF RecordInv
  <2> QED
    BY <2>1, GetServiceStep, SaveSyncLogStep, ReceiveStep, EditStep, OtherSteps
    DEF Next
<1>3. RecordInv => MissedOnlyIfOvertaken
  <2> SUFFICES ASSUME RecordInv, NEW d \in Device, NEW r \in Due(d),
                      Missed(d, r), ~overtaken[d][r]
               PROVE  FALSE
    BY DEF MissedOnlyIfOvertaken
  <2>0. r \in Record
    BY DEF Due, OfInterest
  <2>1. OnItsWay(d, r) /\ Known(d) /\ updatedOn[r] < last[d]
    BY <2>0 DEF RecordInv, PendingOnItsWay, Pending, Missed
  <2>2. updatedOn[r] \in Nat /\ last[d] \in Nat
    BY <2>0, RecordSyncAssumption DEF RecordInv, TypeOK, Never, Second, Rounded
  <2> QED
    BY <2>1, <2>2 DEF OnItsWay
<1> QED
  BY <1>1, <1>2, <1>3, PTL DEF Spec

=============================================================================
