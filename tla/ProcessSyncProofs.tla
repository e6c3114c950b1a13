-------------------------- MODULE ProcessSyncProofs --------------------------
(***************************************************************************)
(* What holds of the synchronisation of processes for any number of        *)
(* devices, rows, timestamps, uploads, crashes and failures.               *)
(***************************************************************************)
EXTENDS ProcessSync, ProofFacts

-----------------------------------------------------------------------------
(* The ids ProcessIdGenerator gives, for every FirstWide.                   *)

\* The greatest id by string comparison is the greatest number as long as
\* no number is one digit longer.
LEMMA MaxProcessIdIsMax ==
  ASSUME NEW S \in SUBSET (1 .. FirstWide - 1), S # {}
  PROVE  MaxProcessId(S) \in S /\ \A n \in S : n <= MaxProcessId(S)
<1>1. /\ FirstWide - 1 \in Nat
      /\ S \in SUBSET (0 .. FirstWide - 1)
      /\ \A n \in S : n \in Nat
  BY FirstWideAssumption
<1>2. PICK m \in S : \A n \in S : n <= m
  BY <1>1, BoundedMaximum
<1>3. \A i, j \in S : StringLess(i, j) <=> i < j
  BY FirstWideAssumption DEF StringLess, SortKey
<1>4. \A n \in S \ {m} : StringLess(n, m)
  BY <1>1, <1>2, <1>3
<1>5. /\ MaxProcessId(S) \in S
      /\ \A n \in S \ {MaxProcessId(S)} : StringLess(n, MaxProcessId(S))
  BY <1>4, Zenon DEF MaxProcessId
<1>6. ASSUME NEW n \in S PROVE n <= MaxProcessId(S)
  <2>1. CASE n = MaxProcessId(S)
    BY <1>1, <2>1
  <2>2. CASE n # MaxProcessId(S)
    <3>1. StringLess(n, MaxProcessId(S))
      BY <1>5, <2>2
    <3>2. n < MaxProcessId(S)
      BY <1>3, <1>5, <3>1
    <3>3. n \in Nat /\ MaxProcessId(S) \in Nat
      BY <1>1, <1>5
    <3> QED
      BY <3>2, <3>3
  <2> QED
    BY <2>1, <2>2
<1> QED
  BY <1>5, <1>6

\* Below the limit of the format the generator never returns an id that is
\* in use, and numbers upwards (ProcessIdGenerator.generate).
THEOREM GenerateFresh ==
  ASSUME NEW S \in SUBSET (1 .. FirstWide - 1)
  PROVE  /\ generate(S) \in Nat \ {0}
         /\ generate(S) \notin S
         /\ \A n \in S : n < generate(S)
<1>1. CASE S = {}
  BY <1>1 DEF generate
<1>2. CASE S # {}
  <2>1. MaxProcessId(S) \in S /\ \A n \in S : n <= MaxProcessId(S)
    BY <1>2, MaxProcessIdIsMax
  <2>2. \A n \in S : n \in Nat \ {0}
    BY FirstWideAssumption
  <2>3. generate(S) = MaxProcessId(S) + 1
    BY <1>2 DEF generate
  <2>4. \A m \in S : (\A n \in S : n <= m)
                        => /\ m + 1 \in Nat \ {0}
                           /\ m + 1 \notin S
                           /\ \A n \in S : n < m + 1
    BY <2>2
  <2> QED
    BY <2>1, <2>3, <2>4, Zenon
<1> QED
  BY <1>1, <1>2

\* From the limit on it returns the limit itself, whether it is in use or
\* not, once the last id before it is: "PR-1000" sorts before "PR-999".
THEOREM GenerateSticks ==
  ASSUME NEW S \in SUBSET (1 .. FirstWide), FirstWide - 1 \in S
  PROVE  generate(S) = FirstWide
<1>1. FirstWide \in Nat /\ FirstWide - 1 \in Nat /\ S \subseteq Nat
  BY FirstWideAssumption
<1>2. \A n \in S \ {FirstWide - 1} : StringLess(n, FirstWide - 1)
  BY <1>1 DEF StringLess, SortKey
<1>3. \A m \in S : (\A n \in S \ {m} : StringLess(n, m)) => m = FirstWide - 1
  <2>1. SUFFICES ASSUME NEW m \in S, \A n \in S \ {m} : StringLess(n, m),
                        m # FirstWide - 1
                 PROVE  FALSE
    OBVIOUS
  <2>2. StringLess(FirstWide - 1, m) /\ StringLess(m, FirstWide - 1)
    BY <1>2, <2>1
  <2> QED
    BY <1>1, <2>1, <2>2 DEF StringLess, SortKey
<1>4. MaxProcessId(S) = FirstWide - 1
  BY <1>2, <1>3, Zenon DEF MaxProcessId
<1> QED
  BY <1>1, <1>4 DEF generate

-----------------------------------------------------------------------------
(* Facts about the operators of the model.                                  *)

\* An upload is a sequence of details.
LEMMA UploadsAreSequences ==
  ASSUME NEW details \in Uploads
  PROVE  details \in Seq(Detail)
<1>1. PICK n \in 0 .. MaxBatch : details \in [1 .. n -> Detail]
  BY DEF Uploads
<1>2. n \in Nat
  BY <1>1
<1> QED
  BY <1>1, <1>2, SeqDef

\* A detail has the stamp of a row.
LEMMA DetailStamp ==
  ASSUME NEW detail \in Detail
  PROVE  /\ detail.modified \in {0, 1}
         /\ detail.updatedOn \in Time
         /\ detail.id \in {NoId} \cup Pid \cup StrayIds
BY ProcessSyncAssumption DEF Detail

\* The newer of two stamps is a stamp.
LEMMA NewestType ==
  ASSUME NEW a, NEW b,
         a.modified \in {0, 1}, a.updatedOn \in Time,
         b.modified \in {0, 1}, b.updatedOn \in Time
  PROVE  Newest(a, b) \in Stamp
BY DEF Newest, StampOf, Stamp

\* Any selection of rows makes a well-formed list.
LEMMA ListReplyType ==
  ASSUME TypeOK, NEW ps \in SUBSET Pid, NEW ids \in SUBSET Pid
  PROVE  ListReply(ps, ids) \in ReplyType
BY DEF TypeOK, Row, ListReply, Listed, ReplyType

LEMMA ResponseTypes == SyncedReply \in ReplyType /\ NotFoundReply \in ReplyType
BY DEF SyncedReply, NotFoundReply, ReplyType

\* A reply never lowers what a device holds, and only brings versions.
LEMMA HeldAfterType ==
  ASSUME NEW have \in [Pid -> Nat], NEW reply \in ReplyType
  PROVE  HeldAfter(have, reply) \in [Pid -> Nat]
<1>1. ASSUME NEW p \in Pid PROVE Told(reply, p) \subseteq Nat
  BY DEF Told, ReplyType
<1>2. ASSUME NEW p \in Pid, \E v \in Told(reply, p) : v > have[p]
      PROVE  (CHOOSE v \in Told(reply, p) : v > have[p]) \in Nat
  BY <1>1, <1>2, Zenon
<1> QED
  BY <1>2 DEF HeldAfter

-----------------------------------------------------------------------------
(* What the actions do to the parts of the state.                           *)

\* A message consumed or published keeps the channels well formed.
LEMMA ConsumeType ==
  ASSUME TypeOK, NEW d \in Device, toPlatform[d] # <<>>, Consume(d)
  PROVE  toPlatform' \in [Device -> Seq(MessageType)]
<1>1. toPlatform[d] \in Seq(MessageType)
  BY DEF TypeOK
<1>2. Tail(toPlatform[d]) \in Seq(MessageType)
  BY <1>1, HeadTailProperties
<1> QED
  BY <1>2 DEF TypeOK, Consume

LEMMA PublishType ==
  ASSUME TypeOK, NEW d \in Device, NEW reply \in ReplyType, Publish(d, reply)
  PROVE  toDevice' \in [Device -> Seq(ReplyType)]
<1>1. Append(toDevice[d], reply) \in Seq(ReplyType)
  BY AppendProperties DEF TypeOK
<1> QED
  BY <1>1 DEF TypeOK, Publish

\* The message a handler is called with.
LEMMA ArrivedType ==
  ASSUME TypeOK, NEW d \in Device, toPlatform[d] # <<>>
  PROVE  /\ Head(toPlatform[d]) \in MessageType
         /\ Head(toPlatform[d]).details \in Seq(Detail)
<1>1. toPlatform[d] \in Seq(MessageType)
  BY DEF TypeOK
<1>2. Head(toPlatform[d]) \in MessageType
  BY <1>1, HeadTailProperties
<1> QED
  BY <1>2 DEF MessageType

\* A handler that is not idle has its local variables.
LEMMA HandlerFields ==
  ASSUME TypeOK, handler.pc # "idle"
  PROVE  /\ handler \in [pc : {"next", "write", "publish", "count", "reset"},
                         client : Device, rest : Seq(Detail),
                         touched : SUBSET (Pid \cup {NoId}), ids : SUBSET Pid]
         /\ handler.client \in Device
         /\ handler.rest \in Seq(Detail)
         /\ handler.touched \subseteq Pid \cup {NoId}
         /\ handler.ids \subseteq Pid
BY DEF TypeOK, HandlerType, Idle

LEMMA CurrentDetail ==
  ASSUME TypeOK, NEW pc \in {"next", "write"}, AtDetail(pc)
  PROVE  /\ Head(handler.rest) \in Detail
         /\ Tail(handler.rest) \in Seq(Detail)
<1>1. handler.pc # "idle" /\ handler.rest # <<>>
  BY DEF AtDetail
<1> QED
  BY <1>1, HandlerFields, HeadTailProperties

LEMMA IdleType == Idle \in HandlerType
BY DEF HandlerType

\* The loop's step keeps the handler well formed.
LEMMA NextDetailType ==
  ASSUME TypeOK, NEW pc \in {"next", "write"}, AtDetail(pc),
         NEW touched \in SUBSET (Pid \cup {NoId}), NEW ids \in SUBSET Pid,
         NextDetail(touched, ids)
  PROVE  handler' \in HandlerType
<1>1. handler.pc # "idle"
  BY DEF AtDetail
<1> QED
  BY <1>1, HandlerFields, CurrentDetail DEF NextDetail, HandlerType

\* Storing a row of a stamp keeps the table and the ghost well formed.
LEMMA StoreRowType ==
  ASSUME TypeOK, NEW p \in Pid, NEW detail,
         detail.modified \in {0, 1}, detail.updatedOn \in Time,
         StoreRow(p, detail)
  PROVE  master' \in [Pid -> Row] /\ best' \in [Pid -> Stamp]
<1>1. Written(master[p], detail) \in Row
  BY DEF TypeOK, Row, Written
<1>2. best[p].modified \in {0, 1} /\ best[p].updatedOn \in Time
  BY DEF TypeOK, Stamp
<1>3. Newest(detail, best[p]) \in Stamp
  BY <1>2, NewestType
<1> QED
  BY <1>1, <1>3 DEF TypeOK, StoreRow

-----------------------------------------------------------------------------
(* Type correctness.                                                        *)

LEMMA InitType == Init => TypeOK
<1> SUFFICES ASSUME Init PROVE TypeOK
  OBVIOUS
<1>1. NoRow \in Row /\ [NoRow EXCEPT !.ver = 1] \in Row
  BY ProcessSyncAssumption DEF NoRow, Row
<1>2. StampOf(NoRow) \in Stamp
  BY ProcessSyncAssumption DEF NoRow, StampOf, Stamp
<1>3. handler \in HandlerType
  BY IdleType DEF Init
<1> QED
  BY <1>1, <1>2, <1>3 DEF Init, TypeOK

LEMMA SyncProcessType == TypeInv /\ SyncProcessStep => TypeOK'
<1> SUFFICES ASSUME TypeOK, WriteDecided, SyncProcessStep PROVE TypeOK'
  BY DEF TypeInv
<1>1. ASSUME NEW d \in Device, FetchProcessList(d) PROVE TypeOK'
  <2> DEFINE ps == RowsFor(d, {})
  <2>1. ps \in SUBSET Pid /\ {} \in SUBSET Pid
    BY DEF RowsFor, Rows
  <2>2. ListReply(ps, {}) \in ReplyType /\ SyncedReply \in ReplyType
    BY <2>1, ListReplyType, ResponseTypes
  <2>3. toDevice' \in [Device -> Seq(ReplyType)]
    BY <1>1, <2>2, PublishType DEF FetchProcessList
  <2>4. toPlatform' \in [Device -> Seq(MessageType)]
    BY <1>1, ConsumeType DEF FetchProcessList, Arrived
  <2> QED
    BY <1>1, <2>3, <2>4 DEF FetchProcessList, TypeOK, budget
<1>2. ASSUME NEW d \in Device, UpdateProcessList(d) PROVE TypeOK'
  <2>1. toPlatform' \in [Device -> Seq(MessageType)]
    BY <1>2, ConsumeType DEF UpdateProcessList, Arrived
  <2>2. handler' \in HandlerType
    BY <1>2, ArrivedType DEF UpdateProcessList, Arrived, Handler, HandlerType
  <2> QED
    BY <1>2, <2>1, <2>2 DEF UpdateProcessList, TypeOK, budget
<1>3. CASE CompareDetail
  <2>1. handler.pc # "idle"
    BY <1>3 DEF CompareDetail, AtDetail
  <2>2. handler' \in HandlerType
    BY <1>3, <2>1, HandlerFields, CurrentDetail DEF CompareDetail, HandlerType
  <2> QED
    BY <1>3, <2>2 DEF CompareDetail, TypeOK, budget
<1>4. CASE ProcessNotFound
  <2>1. handler.client \in Device
    BY <1>4, HandlerFields DEF ProcessNotFound, AtDetail
  <2>2. toDevice' \in [Device -> Seq(ReplyType)]
    BY <1>4, <2>1, ResponseTypes, PublishType DEF ProcessNotFound
  <2> QED
    BY <1>4, <2>2, IdleType DEF ProcessNotFound, TypeOK, budget
<1>5. CASE UpdateProcess
  <2> DEFINE detail == Head(handler.rest)
             p == detail.id
  <2>1. detail \in Detail /\ p \in Pid
    BY <1>5, CurrentDetail DEF UpdateProcess, AtDetail, WriteDecided, Rows
  <2>2. master' \in [Pid -> Row] /\ best' \in [Pid -> Stamp]
    BY <1>5, <2>1, DetailStamp, StoreRowType DEF UpdateProcess
  <2>3. handler.client \in Device
    BY <1>5, HandlerFields DEF UpdateProcess, AtDetail
  <2>4. master[p].ver + 1 \in Nat
    BY <2>1 DEF TypeOK, Row
  <2>5. held' \in [Device -> [Pid -> Nat]]
    BY <1>5, <2>3, <2>4 DEF UpdateProcess, TypeOK
  <2>6. handler' \in HandlerType
    BY <1>5, <2>1, NextDetailType DEF UpdateProcess
  <2> QED
    BY <1>5, <2>2, <2>5, <2>6 DEF UpdateProcess, TypeOK, budget
<1>6. CASE UpdateProcessFails
  <2>1. Head(handler.rest).id \in Pid
    BY <1>6 DEF UpdateProcessFails, AtDetail, WriteDecided, Rows
  <2>2. handler' \in HandlerType
    BY <1>6, <2>1, NextDetailType DEF UpdateProcessFails
  <2> QED
    BY <1>6, <2>2 DEF UpdateProcessFails, Fault, TypeOK
<1>7. CASE InsertProcess
  <2> DEFINE p == generate(Rows)
  <2>1. Head(handler.rest) \in Detail /\ p \in Pid
    BY <1>7, CurrentDetail DEF InsertProcess
  <2>2. master' \in [Pid -> Row] /\ best' \in [Pid -> Stamp]
    BY <1>7, <2>1, DetailStamp, StoreRowType DEF InsertProcess
  <2>3. handler' \in HandlerType
    BY <1>7, <2>1, NextDetailType DEF InsertProcess
  <2> QED
    BY <1>7, <2>2, <2>3 DEF InsertProcess, TypeOK, budget
<1>8. CASE InsertProcessFails
  <2>1. handler' \in HandlerType
    BY <1>8, NextDetailType DEF InsertProcessFails
  <2> QED
    BY <1>8, <2>1 DEF InsertProcessFails, Fault, TypeOK
<1>9. CASE UnsyncedOtherAmsDevices
  <2>1. handler' \in HandlerType
    BY <1>9, HandlerFields
    DEF UnsyncedOtherAmsDevices, EndOfDetails, HandlerType
  <2> QED
    BY <1>9, <2>1 DEF UnsyncedOtherAmsDevices, TypeOK, budget
<1>10. CASE NothingTouched
  BY <1>10, IdleType DEF NothingTouched, TypeOK, budget
<1>11. CASE GetAllModifiedProcessAndPublish
  <2>1. handler.client \in Device /\ handler.ids \in SUBSET Pid
    BY <1>11, HandlerFields DEF GetAllModifiedProcessAndPublish
  <2>2. RowsFor(handler.client, handler.touched) \in SUBSET Pid
    BY DEF RowsFor, Rows
  <2>3. toDevice' \in [Device -> Seq(ReplyType)]
    BY <1>11, <2>1, <2>2, ListReplyType, PublishType
    DEF GetAllModifiedProcessAndPublish
  <2> QED
    BY <1>11, <2>3, IdleType DEF GetAllModifiedProcessAndPublish, TypeOK, budget
<1> QED
  BY <1>1, <1>2, <1>3, <1>4, <1>5, <1>6, <1>7, <1>8, <1>9, <1>10, <1>11
  DEF SyncProcessStep

LEMMA SyncAckProcessType == TypeOK /\ SyncAckProcessStep => TypeOK'
<1> SUFFICES ASSUME TypeOK, SyncAckProcessStep PROVE TypeOK'
  OBVIOUS
<1>1. ASSUME NEW d \in Device
      PROVE  Handler("count", d, <<>>, {}, {}) \in HandlerType
  BY EmptySeq DEF Handler, HandlerType
<1>2. ASSUME NEW d \in Device, SaveAmsProcessSyncLog(d) PROVE TypeOK'
  <2>1. toPlatform' \in [Device -> Seq(MessageType)]
    BY <1>2, ConsumeType DEF SaveAmsProcessSyncLog, Arrived
  <2> QED
    BY <1>1, <1>2, <2>1 DEF SaveAmsProcessSyncLog, TypeOK, budget
<1>3. ASSUME NEW d \in Device, SaveAmsProcessSyncLogFails(d) PROVE TypeOK'
  <2>1. toPlatform' \in [Device -> Seq(MessageType)]
    BY <1>3, ConsumeType DEF SaveAmsProcessSyncLogFails, Arrived
  <2> QED
    BY <1>1, <1>3, <2>1 DEF SaveAmsProcessSyncLogFails, Fault, TypeOK
<1>4. CASE CountNotSyncedAmsDevices
  <2>1. handler' \in HandlerType
    BY <1>4, HandlerFields, IdleType DEF CountNotSyncedAmsDevices, HandlerType
  <2> QED
    BY <1>4, <2>1 DEF CountNotSyncedAmsDevices, TypeOK, budget
<1>5. CASE UpdateProcessModifiedStatus
  BY <1>5, IdleType DEF UpdateProcessModifiedStatus, AfterClose, TypeOK, budget
<1>6. ASSUME NEW d \in Device, RejectAck(d) PROVE TypeOK'
  <2>1. toPlatform' \in [Device -> Seq(MessageType)]
    BY <1>6, ConsumeType DEF RejectAck, Arrived
  <2> QED
    BY <1>6, <2>1 DEF RejectAck, TypeOK, budget
<1> QED
  BY <1>2, <1>3, <1>4, <1>5, <1>6 DEF SyncAckProcessStep

LEMMA EnvironmentType ==
  TypeOK /\ (HandlerException \/ DeviceStep \/ EnvironmentStep) => TypeOK'
<1> SUFFICES ASSUME TypeOK, HandlerException \/ DeviceStep \/ EnvironmentStep
             PROVE  TypeOK'
  OBVIOUS
<1>1. CASE HandlerException
  BY <1>1, IdleType DEF HandlerException, Fault, TypeOK
<1>2. ASSUME NEW d \in Device, NEW details \in Uploads, SendRequest(d, details)
      PROVE  TypeOK'
  <2>1. Upload(details) \in MessageType
    BY UploadsAreSequences DEF Upload, MessageType
  <2>2. Append(toPlatform[d], Upload(details)) \in Seq(MessageType)
    BY <2>1, AppendProperties DEF TypeOK
  <2> QED
    BY <1>2, <2>2 DEF SendRequest, TypeOK
<1>3. ASSUME NEW d \in Device, NEW received \in BOOLEAN, ReceiveReply(d, received)
      PROVE  TypeOK'
  <2> DEFINE reply == Head(toDevice[d])
  <2>1. toDevice[d] \in Seq(ReplyType) /\ toDevice[d] # <<>>
    BY <1>3 DEF ReceiveReply, TypeOK
  <2>2. reply \in ReplyType /\ Tail(toDevice[d]) \in Seq(ReplyType)
    BY <2>1, HeadTailProperties
  <2>3. HeldAfter(held[d], reply) \in [Pid -> Nat]
    BY <2>2, HeldAfterType DEF TypeOK
  <2>4. held' \in [Device -> [Pid -> Nat]]
    BY <1>3, <2>3 DEF ReceiveReply, TypeOK
  <2>5. Ack(received) \in MessageType
    BY EmptySeq DEF Ack, MessageType
  <2>6. Append(toPlatform[d], Ack(received)) \in Seq(MessageType)
    BY <2>5, AppendProperties DEF TypeOK
  <2> QED
    BY <1>3, <2>2, <2>4, <2>6 DEF ReceiveReply, TypeOK, budget
<1>4. ASSUME NEW d \in Device, Restart(d) PROVE TypeOK'
  BY <1>4, EmptySeq DEF Restart, TypeOK, budget
<1>5. CASE Crash
  BY <1>5, IdleType, EmptySeq DEF Crash, TypeOK
<1>6. ASSUME NEW d \in Device, LoseToPlatform(d) PROVE TypeOK'
  BY <1>6, ConsumeType DEF LoseToPlatform, TypeOK, budget
<1>7. ASSUME NEW d \in Device, LoseToDevice(d) PROVE TypeOK'
  <2>1. Tail(toDevice[d]) \in Seq(ReplyType)
    BY <1>7, HeadTailProperties DEF LoseToDevice, TypeOK
  <2> QED
    BY <1>7, <2>1 DEF LoseToDevice, TypeOK, budget
<1>8. ASSUME NEW p \in Rows, NEW t \in Time, PlatformEdit(p, t) PROVE TypeOK'
  <2>1. p \in Pid
    BY DEF Rows
  <2>2. master' \in [Pid -> Row] /\ best' \in [Pid -> Stamp]
    BY <1>8, <2>1, StoreRowType DEF PlatformEdit
  <2> QED
    BY <1>8, <2>2 DEF PlatformEdit, TypeOK
<1> QED
  BY <1>1, <1>2, <1>3, <1>4, <1>5, <1>6, <1>7, <1>8
  DEF DeviceStep, EnvironmentStep

\* A write is decided by CompareDetail alone, and rows are never deleted.
LEMMA WriteStaysDecided == TypeInv /\ Next => WriteDecided'
<1> SUFFICES ASSUME TypeOK, WriteDecided, Next PROVE WriteDecided'
  BY DEF TypeInv
<1>1. CASE SyncProcessStep
  <2>1. CASE CompareDetail
    BY <2>1, HandlerFields DEF CompareDetail, AtDetail, WriteDecided, Rows
  <2>2. CASE UnsyncedOtherAmsDevices
    BY <2>2, HandlerFields DEF UnsyncedOtherAmsDevices, EndOfDetails, WriteDecided
  <2>3. CASE ProcessNotFound \/ NothingTouched \/ GetAllModifiedProcessAndPublish
    BY <2>3 DEF ProcessNotFound, NothingTouched,
                GetAllModifiedProcessAndPublish, WriteDecided, Idle
  <2>4. CASE UpdateProcess \/ UpdateProcessFails \/ InsertProcess \/ InsertProcessFails
    <3>1. handler.pc # "idle" /\ handler'.pc = "next"
      BY <2>4, HandlerFields DEF UpdateProcess, UpdateProcessFails, InsertProcess,
         InsertProcessFails, NextDetail, AtDetail
    <3> QED
      BY <3>1 DEF WriteDecided
  <2>5. ASSUME NEW d \in Device, FetchProcessList(d) \/ UpdateProcessList(d)
        PROVE  WriteDecided'
    BY <2>5 DEF FetchProcessList, UpdateProcessList, Arrived, Handler,
                WriteDecided, Rows
  <2> QED
    BY <1>1, <2>1, <2>2, <2>3, <2>4, <2>5 DEF SyncProcessStep
<1>2. CASE SyncAckProcessStep
  <2>1. CASE CountNotSyncedAmsDevices
    BY <2>1, HandlerFields DEF CountNotSyncedAmsDevices, WriteDecided, Idle
  <2>2. CASE UpdateProcessModifiedStatus
    BY <2>2 DEF UpdateProcessModifiedStatus, WriteDecided, Idle
  <2>3. ASSUME NEW d \in Device,
               SaveAmsProcessSyncLog(d) \/ SaveAmsProcessSyncLogFails(d) \/ RejectAck(d)
        PROVE  WriteDecided'
    BY <2>3 DEF SaveAmsProcessSyncLog, SaveAmsProcessSyncLogFails, RejectAck,
                Handler, Arrived, WriteDecided, Rows
  <2> QED
    BY <1>2, <2>1, <2>2, <2>3 DEF SyncAckProcessStep
<1>3. CASE HandlerException \/ Crash
  BY <1>3 DEF HandlerException, Crash, WriteDecided, Idle
<1>4. CASE DeviceStep
  <2>1. UNCHANGED <<master, handler>>
    BY <1>4 DEF DeviceStep, SendRequest, ReceiveReply, Restart
  <2> QED
    BY <2>1 DEF WriteDecided, Rows
<1>5. ASSUME NEW d \in Device, LoseToPlatform(d) \/ LoseToDevice(d)
      PROVE  WriteDecided'
  BY <1>5 DEF LoseToPlatform, LoseToDevice, WriteDecided, Rows
<1>6. ASSUME NEW p \in Rows, NEW t \in Time, PlatformEdit(p, t)
      PROVE  WriteDecided'
  <2>1. \A q \in Pid : master[q].ver # 0 => master'[q].ver # 0
    BY <1>6 DEF PlatformEdit, StoreRow, Written, TypeOK, Row
  <2>2. Rows \subseteq Rows'
    BY <2>1 DEF Rows
  <2>3. handler' = handler
    BY <1>6 DEF PlatformEdit
  <2> QED
    BY <2>2, <2>3 DEF WriteDecided
<1> QED
  BY <1>1, <1>2, <1>3, <1>4, <1>5, <1>6 DEF Next, EnvironmentStep

LEMMA TypeInvStep == TypeInv /\ [Next]_vars => TypeInv'
<1>1. ASSUME TypeInv, Next PROVE TypeInv'
  BY <1>1, SyncProcessType, SyncAckProcessType, EnvironmentType,
     WriteStaysDecided DEF Next, TypeInv
<1>2. ASSUME TypeInv, UNCHANGED vars PROVE TypeInv'
  BY <1>2 DEF vars, budget, TypeInv, TypeOK, WriteDecided, Rows
<1> QED
  BY <1>1, <1>2

LEMMA TypeInvariant == Spec => []TypeInv
<1>1. Init => TypeInv
  BY InitType DEF Init, Idle, WriteDecided, TypeInv
<1> QED
  BY <1>1, TypeInvStep, PTL DEF Spec

\* The tables, the handler's locals and the messages keep their types.
THEOREM TypeCorrect == Spec => []TypeOK
BY TypeInvariant, PTL DEF TypeInv

-----------------------------------------------------------------------------
(* The newest upload of a row wins.                                         *)

LEMMA InitConvergence == Init => ConvergenceInv
<1> SUFFICES ASSUME Init PROVE ConvergenceInv
  OBVIOUS
<1>1. TypeInv
  BY InitType DEF Init, Idle, WriteDecided, TypeInv
<1>2. StampsAreBest
  BY DEF Init, StampsAreBest, Rows, NoRow, StampOf
<1>3. WriteIsNewer
  BY DEF Init, Idle, WriteIsNewer
<1> QED
  BY <1>1, <1>2, <1>3 DEF ConvergenceInv

\* A step that writes no row and decides no write.
LEMMA NoWriteConvergence ==
  ASSUME ConvergenceInv, UNCHANGED <<master, best>>,
         handler'.pc # "write" \/ UNCHANGED handler
  PROVE  StampsAreBest' /\ WriteIsNewer'
BY DEF ConvergenceInv, StampsAreBest, WriteIsNewer, Rows

\* The write that was decided stores the newest stamp.
LEMMA UpdateConvergence ==
  ConvergenceInv /\ UpdateProcess => StampsAreBest' /\ WriteIsNewer'
<1> SUFFICES ASSUME ConvergenceInv, UpdateProcess
             PROVE  StampsAreBest' /\ WriteIsNewer'
  OBVIOUS
<1> DEFINE detail == Head(handler.rest)
           p == detail.id
<1>1. detail \in Detail /\ p \in Pid /\ master[p] \in Row
  BY CurrentDetail
  DEF ConvergenceInv, TypeInv, TypeOK, UpdateProcess, AtDetail, WriteDecided, Rows
<1>2. Newer(detail, master[p]) /\ best[p] = StampOf(master[p])
  BY <1>1 DEF ConvergenceInv, WriteIsNewer, StampsAreBest, UpdateProcess, AtDetail
<1>3. Newest(detail, best[p]) = StampOf(Written(master[p], detail))
  BY <1>2 DEF Newest, Newer, StampOf, Written
<1>4. Written(master[p], detail).ver # 0
  BY <1>1 DEF Written, Row
<1>5. /\ master' = [master EXCEPT ![p] = Written(master[p], detail)]
      /\ best' = [best EXCEPT ![p] = Newest(detail, best[p])]
  BY DEF UpdateProcess, StoreRow
<1>6. StampsAreBest'
  BY <1>1, <1>3, <1>4, <1>5
  DEF ConvergenceInv, TypeInv, TypeOK, StampsAreBest, Rows
<1>7. handler'.pc = "next"
  BY HandlerFields DEF ConvergenceInv, TypeInv, UpdateProcess, AtDetail, NextDetail
<1> QED
  BY <1>6, <1>7 DEF WriteIsNewer

\* An insert gets an id that no row has, so that it hides none.
LEMMA InsertConvergence ==
  ConvergenceInv /\ InsertProcess => StampsAreBest' /\ WriteIsNewer'
<1> SUFFICES ASSUME ConvergenceInv, InsertProcess
             PROVE  StampsAreBest' /\ WriteIsNewer'
  OBVIOUS
<1> DEFINE detail == Head(handler.rest)
           p == generate(Rows)
<1>1. detail \in Detail /\ p \in Pid
  BY CurrentDetail DEF ConvergenceInv, TypeInv, InsertProcess
<1>2. Rows \in SUBSET (1 .. FirstWide - 1)
  BY FirstWideAssumption, ProcessSyncAssumption DEF Rows, Pid
<1>3. p \notin Rows
  BY <1>2, GenerateFresh
<1>4. master[p] = NoRow /\ best[p] = StampOf(NoRow)
  BY <1>1, <1>3 DEF ConvergenceInv, StampsAreBest
<1>5. detail.modified \in {0, 1} /\ detail.updatedOn \in Nat
  BY <1>1, DetailStamp, ProcessSyncAssumption
<1>6. Newest(detail, best[p]) = StampOf(Written(master[p], detail))
  BY <1>4, <1>5 DEF Newest, Newer, StampOf, Written, NoRow
<1>7. Written(master[p], detail).ver # 0
  BY <1>4 DEF Written, NoRow
<1>8. /\ master' = [master EXCEPT ![p] = Written(master[p], detail)]
      /\ best' = [best EXCEPT ![p] = Newest(detail, best[p])]
  BY DEF InsertProcess, StoreRow
<1>9. StampsAreBest'
  BY <1>1, <1>6, <1>7, <1>8
  DEF ConvergenceInv, TypeInv, TypeOK, StampsAreBest, Rows
<1>10. handler'.pc = "next"
  BY HandlerFields DEF ConvergenceInv, TypeInv, InsertProcess, AtDetail, NextDetail
<1> QED
  BY <1>9, <1>10 DEF WriteIsNewer

LEMMA SyncProcessConvergence ==
  ConvergenceInv /\ SyncProcessStep => StampsAreBest' /\ WriteIsNewer'
<1> SUFFICES ASSUME ConvergenceInv, SyncProcessStep
             PROVE  StampsAreBest' /\ WriteIsNewer'
  OBVIOUS
<1>1. TypeOK
  BY DEF ConvergenceInv, TypeInv
<1>2. CASE UpdateProcess
  BY <1>2, UpdateConvergence
<1>3. CASE InsertProcess
  BY <1>3, InsertConvergence
<1>4. CASE CompareDetail
  <2>1. handler.pc # "idle" /\ UNCHANGED <<master, best>>
    BY <1>4 DEF CompareDetail, AtDetail
  <2>2. WriteIsNewer'
    BY <1>1, <1>4, <2>1, HandlerFields DEF CompareDetail, AtDetail, WriteIsNewer
  <2>3. StampsAreBest'
    BY <2>1 DEF ConvergenceInv, StampsAreBest, Rows
  <2> QED
    BY <2>2, <2>3
<1>5. CASE UpdateProcessFails \/ InsertProcessFails
  <2>1. handler'.pc # "write" /\ UNCHANGED <<master, best>>
    BY <1>1, <1>5, HandlerFields
    DEF UpdateProcessFails, InsertProcessFails, AtDetail, NextDetail
  <2> QED
    BY <2>1, NoWriteConvergence
<1>6. CASE UnsyncedOtherAmsDevices
  <2>1. handler'.pc # "write" /\ UNCHANGED <<master, best>>
    BY <1>1, <1>6, HandlerFields DEF UnsyncedOtherAmsDevices, EndOfDetails
  <2> QED
    BY <2>1, NoWriteConvergence
<1>7. CASE ProcessNotFound \/ NothingTouched \/ GetAllModifiedProcessAndPublish
  <2>1. handler'.pc # "write" /\ UNCHANGED <<master, best>>
    BY <1>7 DEF ProcessNotFound, NothingTouched,
                GetAllModifiedProcessAndPublish, Idle
  <2> QED
    BY <2>1, NoWriteConvergence
<1>8. ASSUME NEW d \in Device, FetchProcessList(d) \/ UpdateProcessList(d)
      PROVE  StampsAreBest' /\ WriteIsNewer'
  <2>1. /\ handler'.pc # "write" \/ UNCHANGED handler
        /\ UNCHANGED <<master, best>>
    BY <1>8 DEF FetchProcessList, UpdateProcessList, Handler
  <2> QED
    BY <2>1, NoWriteConvergence
<1> QED
  BY <1>2, <1>3, <1>4, <1>5, <1>6, <1>7, <1>8 DEF SyncProcessStep

LEMMA SyncAckProcessConvergence ==
  ConvergenceInv /\ SyncAckProcessStep => StampsAreBest' /\ WriteIsNewer'
<1> SUFFICES ASSUME ConvergenceInv, SyncAckProcessStep
             PROVE  StampsAreBest' /\ WriteIsNewer'
  OBVIOUS
<1>1. /\ handler'.pc # "write" \/ UNCHANGED handler
      /\ UNCHANGED <<master, best>>
  <2>1. CASE CountNotSyncedAmsDevices
    BY <2>1, HandlerFields
    DEF CountNotSyncedAmsDevices, Idle, ConvergenceInv, TypeInv
  <2>2. CASE UpdateProcessModifiedStatus
    BY <2>2 DEF UpdateProcessModifiedStatus, AfterClose, Idle
  <2>3. ASSUME NEW d \in Device,
               SaveAmsProcessSyncLog(d) \/ SaveAmsProcessSyncLogFails(d) \/ RejectAck(d)
        PROVE  /\ handler'.pc # "write" \/ UNCHANGED handler
               /\ UNCHANGED <<master, best>>
    BY <2>3 DEF SaveAmsProcessSyncLog, SaveAmsProcessSyncLogFails, RejectAck, Handler
  <2> QED
    BY <2>1, <2>2, <2>3 DEF SyncAckProcessStep
<1> QED
  BY <1>1, NoWriteConvergence

LEMMA OtherConvergence ==
  ASSUME ConvergenceInv, MaxPlatformEdits = 0,
         HandlerException \/ DeviceStep \/ EnvironmentStep
  PROVE  StampsAreBest' /\ WriteIsNewer'
<1>1. CASE HandlerException \/ Crash
  BY <1>1, NoWriteConvergence DEF HandlerException, Crash, Idle
<1>2. CASE DeviceStep
  BY <1>2, NoWriteConvergence DEF DeviceStep, SendRequest, ReceiveReply, Restart
<1>3. ASSUME NEW d \in Device, LoseToPlatform(d) \/ LoseToDevice(d)
      PROVE  StampsAreBest' /\ WriteIsNewer'
  BY <1>3, NoWriteConvergence DEF LoseToPlatform, LoseToDevice
<1>4. ASSUME NEW p \in Rows, NEW t \in Time, PlatformEdit(p, t) PROVE FALSE
  BY <1>4 DEF PlatformEdit, ConvergenceInv, TypeInv, TypeOK
<1> QED
  BY <1>1, <1>2, <1>3, <1>4 DEF EnvironmentStep

\* As long as the platform is the only writer of process_master, every row
\* carries the newest stamp that was processed for it (updateProcessList),
\* whatever is lost, fails or crashes.
THEOREM NewestUploadWins ==
  ASSUME MaxPlatformEdits = 0
  PROVE  Spec => []NewestEditWins
<1>1. Init => ConvergenceInv
  BY InitConvergence
<1>2. ConvergenceInv /\ [Next]_vars => ConvergenceInv'
  <2> SUFFICES ASSUME ConvergenceInv, [Next]_vars PROVE ConvergenceInv'
    OBVIOUS
  <2>1. TypeInv'
    BY TypeInvStep DEF ConvergenceInv
  <2>2. StampsAreBest' /\ WriteIsNewer'
    <3>1. CASE Next
      BY <3>1, SyncProcessConvergence, SyncAckProcessConvergence,
         OtherConvergence DEF Next
    <3>2. CASE UNCHANGED vars
      BY <3>2, NoWriteConvergence DEF vars
    <3> QED
      BY <3>1, <3>2
  <2> QED
    BY <2>1, <2>2 DEF ConvergenceInv
<1>3. ConvergenceInv => NewestEditWins
  BY DEF ConvergenceInv, StampsAreBest, NewestEditWins, Rows
<1> QED
  BY <1>1, <1>2, <1>3, PTL DEF Spec

-----------------------------------------------------------------------------
(* No row is out of reach of a known device.  The invariant says of the     *)
(* rows that are not flagged is_modified, which no known device is sent,    *)
(* that whoever is known, or is about to be, holds them.                    *)

\* They are as the platform was started with: whatever writes a row flags it.
Unflagged == {p \in Rows : master[p].modified = 0}

HoldsUnflagged(d) == \A p \in Unflagged : Current(d, p)

\* A device names no rows but those it holds.
NamesHeld(d, details) ==
  \A i \in DOMAIN details :
    details[i].id # NoId => details[i].id \in Pid /\ held[d][details[i].id] # 0

\* A reply under way to d: it tells of versions that exist, and leaves d with
\* all rows that are not flagged.
GoodReply(d, reply) ==
  /\ \A row \in reply.rows : row.ver \in 1 .. master[row.id].ver
  /\ reply.ids \subseteq Rows
  /\ \A p \in Unflagged : Current(d, p) \/ Listed(p) \in reply.rows

\* A message of d under way to the platform: an acknowledgement will make d
\* known.
GoodMessage(d, m) ==
  /\ NamesHeld(d, m.details)
  /\ m.type = "ack" => HoldsUnflagged(d)

\* A handler in the middle of its work.
GoodHandler(h) ==
  h.pc # "idle" =>
    /\ NamesHeld(h.client, h.rest)
    /\ h.ids \subseteq Rows
    /\ \A p \in h.touched \cap Unflagged : Current(h.client, p)

\* No device is ahead of the table, and unflagged rows were never written.
VersionsExist ==
  /\ \A d \in Device, p \in Pid : held[d][p] <= master[p].ver
  /\ \A p \in Unflagged : master[p].ver = 1

DurabilityInv ==
  /\ TypeInv
  /\ VersionsExist
  /\ \A d \in Device :
       /\ Known(d) => HoldsUnflagged(d)
       /\ \A reply \in ToSet(toDevice[d]) : GoodReply(d, reply)
       /\ \A m \in ToSet(toPlatform[d]) : GoodMessage(d, m)
  /\ GoodHandler(handler)

\* What an upload has touched, its sender holds, or is told with the reply.
TouchedCovered ==
  handler.pc # "idle" =>
    \A p \in handler.touched \cap Rows :
      Current(handler.client, p) \/ p \in handler.ids

\* What every step does to the versions: they grow, and a row that is not
\* flagged is left as it was.
Grows ==
  /\ \A p \in Pid : master'[p].ver >= master[p].ver
  /\ \A p \in Unflagged' : p \in Unflagged /\ master'[p] = master[p]
  /\ \A d \in Device, p \in Pid : held'[d][p] >= held[d][p]
  /\ VersionsExist'

LEMMA TablesUnchanged ==
  ASSUME VersionsExist, TypeOK, UNCHANGED <<master, held>>
  PROVE  Grows
BY DEF Grows, VersionsExist, Unflagged, Rows, TypeOK, Row

\* Whoever holds an unflagged row keeps it, and nobody forgets a row.
LEMMA HoldingLasts ==
  ASSUME TypeOK, TypeOK', Grows, NEW d \in Device
  PROVE  /\ \A p \in Unflagged' : Current(d, p) => Current(d, p)'
         /\ HoldsUnflagged(d) => HoldsUnflagged(d)'
         /\ \A details : NamesHeld(d, details) => NamesHeld(d, details)'
         /\ Rows \subseteq Rows'
<1>1. /\ \A p \in Pid : held[d][p] \in Nat /\ held'[d][p] \in Nat
      /\ \A p \in Pid : master[p].ver \in Nat /\ master'[p].ver \in Nat
  BY DEF TypeOK, Row
<1>2. \A p \in Unflagged' : p \in Pid
  BY DEF Unflagged, Rows
<1>3. \A p \in Unflagged' : Current(d, p) => Current(d, p)'
  <2> SUFFICES ASSUME NEW p \in Unflagged', Current(d, p) PROVE Current(d, p)'
    OBVIOUS
  <2>1. master'[p].ver = master[p].ver /\ held[d][p] = master[p].ver
    BY DEF Grows, Current
  <2>2. held'[d][p] >= held[d][p] /\ held'[d][p] <= master'[p].ver
    BY <1>2 DEF Grows, VersionsExist
  <2> QED
    BY <1>1, <1>2, <2>1, <2>2 DEF Current
<1>4. HoldsUnflagged(d) => HoldsUnflagged(d)'
  BY <1>3 DEF HoldsUnflagged, Grows
<1>5. ASSUME NEW details, NamesHeld(d, details)
      PROVE  NamesHeld(d, details)'
  BY <1>1, <1>5 DEF NamesHeld, Grows
<1>6. Rows \subseteq Rows'
  BY <1>1 DEF Rows, Grows
<1> QED
  BY <1>3, <1>4, <1>5, <1>6

\* What is good under way stays so.
LEMMA GoodnessLasts ==
  ASSUME TypeOK, TypeOK', Grows, NEW d \in Device
  PROVE  /\ \A reply \in ReplyType : GoodReply(d, reply) => GoodReply(d, reply)'
         /\ \A m \in MessageType : GoodMessage(d, m) => GoodMessage(d, m)'
<1>1. ASSUME NEW reply \in ReplyType, GoodReply(d, reply)
      PROVE  GoodReply(d, reply)'
  <2>1. ASSUME NEW row \in reply.rows
        PROVE  row.ver \in 1 .. master'[row.id].ver
    <3>1. row.id \in Pid /\ row.ver \in Nat
      BY DEF ReplyType
    <3>2. row.ver \in 1 .. master[row.id].ver
      BY <1>1 DEF GoodReply
    <3>3. master[row.id].ver \in Nat /\ master'[row.id].ver \in Nat
      BY <3>1 DEF TypeOK, Row
    <3>4. master'[row.id].ver >= master[row.id].ver
      BY <3>1 DEF Grows
    <3> QED
      BY <3>1, <3>2, <3>3, <3>4
  <2>2. reply.ids \subseteq Rows'
    BY <1>1, HoldingLasts DEF GoodReply
  <2>3. \A p \in Unflagged' : Current(d, p)' \/ Listed(p)' \in reply.rows
    <3> SUFFICES ASSUME NEW p \in Unflagged'
                 PROVE  Current(d, p)' \/ Listed(p)' \in reply.rows
      OBVIOUS
    <3>1. p \in Unflagged /\ Listed(p)' = Listed(p)
      BY DEF Grows, Listed
    <3>2. Current(d, p) \/ Listed(p) \in reply.rows
      BY <1>1, <3>1 DEF GoodReply
    <3> QED
      BY <3>1, <3>2, HoldingLasts
  <2> QED
    BY <2>1, <2>2, <2>3 DEF GoodReply
<1>2. ASSUME NEW m \in MessageType, GoodMessage(d, m)
      PROVE  GoodMessage(d, m)'
  BY <1>2, HoldingLasts DEF GoodMessage
<1> QED
  BY <1>1, <1>2

\* A handler that waits while the tables grow stays good.
LEMMA HandlerLasts ==
  ASSUME TypeOK, TypeOK', Grows, GoodHandler(handler), UNCHANGED handler
  PROVE  GoodHandler(handler)'
<1> SUFFICES ASSUME handler.pc # "idle"
             PROVE  /\ NamesHeld(handler.client, handler.rest)'
                    /\ handler.ids \subseteq Rows'
                    /\ \A p \in handler.touched \cap Unflagged' :
                         Current(handler.client, p)'
  BY DEF GoodHandler
<1>1. handler.client \in Device
  BY HandlerFields
<1>2. /\ NamesHeld(handler.client, handler.rest)
      /\ handler.ids \subseteq Rows
      /\ \A p \in handler.touched \cap Unflagged : Current(handler.client, p)
  BY DEF GoodHandler
<1> DEFINE d == handler.client
<1>3. NamesHeld(d, handler.rest)'
  <2>1. \A i \in DOMAIN handler.rest : handler.rest[i].id \in Pid =>
           held'[d][handler.rest[i].id] >= held[d][handler.rest[i].id]
    BY <1>1 DEF Grows
  <2>2. \A p \in Pid : held[d][p] \in Nat /\ held'[d][p] \in Nat
    BY <1>1 DEF TypeOK
  <2> QED
    BY <1>2, <2>1, <2>2 DEF NamesHeld
<1>4. \A p \in handler.touched \cap Unflagged' : Current(d, p)'
  <2> SUFFICES ASSUME NEW p \in handler.touched \cap Unflagged'
               PROVE  held'[d][p] = master'[p].ver
    BY DEF Current
  <2>1. p \in Pid /\ p \in Unflagged /\ master'[p] = master[p]
    BY DEF Grows, Unflagged, Rows
  <2>2. held[d][p] = master[p].ver
    BY <1>2, <2>1 DEF Current
  <2>3. held'[d][p] >= held[d][p] /\ held'[d][p] <= master'[p].ver
    BY <1>1, <2>1 DEF Grows, VersionsExist
  <2>4. held[d][p] \in Nat /\ held'[d][p] \in Nat
    BY <1>1, <2>1 DEF TypeOK
  <2> QED
    BY <2>1, <2>2, <2>3, <2>4
<1> QED
  BY <1>2, <1>3, <1>4, HoldingLasts, <1>1

\* The parts of a step that a proof has to look at.
LEMMA DurabilityByParts ==
  ASSUME DurabilityInv, TypeInv', Grows,
         \A d \in Device :
           /\ \A reply \in ToSet(toDevice'[d]) :
                reply \in ToSet(toDevice[d]) \/ GoodReply(d, reply)
           /\ \A m \in ToSet(toPlatform'[d]) :
                m \in ToSet(toPlatform[d]) \/ GoodMessage(d, m)'
           /\ Known(d)' => Known(d) \/ HoldsUnflagged(d),
         GoodHandler(handler)'
  PROVE  DurabilityInv'
<1>1. TypeOK /\ TypeOK'
  BY DEF DurabilityInv, TypeInv
<1>2. ASSUME NEW d \in Device
      PROVE  /\ Known(d)' => HoldsUnflagged(d)'
             /\ \A reply \in ToSet(toDevice'[d]) : GoodReply(d, reply)'
             /\ \A m \in ToSet(toPlatform'[d]) : GoodMessage(d, m)'
  <2>1. Known(d)' => HoldsUnflagged(d)'
    BY <1>1, HoldingLasts DEF DurabilityInv
  <2>2. ASSUME NEW reply \in ToSet(toDevice'[d]) PROVE GoodReply(d, reply)'
    <3>1. reply \in ReplyType
      BY <1>1, QueuedType DEF TypeOK
    <3>2. GoodReply(d, reply)
      BY DEF DurabilityInv
    <3> QED
      BY <1>1, <3>1, <3>2, GoodnessLasts
  <2>3. ASSUME NEW m \in ToSet(toPlatform'[d]) PROVE GoodMessage(d, m)'
    <3>1. m \in MessageType
      BY <1>1, QueuedType DEF TypeOK
    <3>2. GoodMessage(d, m) \/ GoodMessage(d, m)'
      BY DEF DurabilityInv
    <3> QED
      BY <1>1, <3>1, <3>2, GoodnessLasts
  <2> QED
    BY <2>1, <2>2, <2>3
<1> QED
  BY <1>2 DEF DurabilityInv, Grows

\* A step of the handler that leaves tables and queues alone, and gives no one a
\* record.
LEMMA QuietDurability ==
  ASSUME DurabilityInv, TypeInv', GoodHandler(handler)',
         UNCHANGED <<master, held, toDevice, toPlatform>>,
         \A d \in Device : Known(d)' => Known(d)
  PROVE  DurabilityInv'
<1>1. Grows
  BY TablesUnchanged DEF DurabilityInv, TypeInv
<1> QED
  BY <1>1, DurabilityByParts

LEMMA IdleIsGood == handler' = Idle => GoodHandler(handler)'
BY DEF GoodHandler, Idle

\* A message that is consumed leaves nothing new in the queues.
LEMMA ConsumedQueues ==
  ASSUME TypeOK, NEW d \in Device, toPlatform[d] # <<>>, Consume(d)
  PROVE  /\ \A c \in Device : ToSet(toPlatform'[c]) \subseteq ToSet(toPlatform[c])
         /\ Head(toPlatform[d]) \in ToSet(toPlatform[d])
<1>1. toPlatform[d] \in Seq(MessageType)
  BY DEF TypeOK
<1>2. /\ ToSet(Tail(toPlatform[d])) \subseteq ToSet(toPlatform[d])
      /\ Head(toPlatform[d]) \in ToSet(toPlatform[d])
  BY <1>1, Dequeued
<1>3. \A c \in Device : toPlatform'[c] = IF c = d THEN Tail(toPlatform[d])
                                                  ELSE toPlatform[c]
  BY DEF Consume, TypeOK
<1> QED
  BY <1>2, <1>3

\* A reply that is published joins one queue.
LEMMA PublishedQueues ==
  ASSUME TypeOK, NEW d \in Device, NEW reply \in ReplyType, Publish(d, reply)
  PROVE  \A c \in Device : \A r \in ToSet(toDevice'[c]) :
           r \in ToSet(toDevice[c]) \/ (c = d /\ r = reply)
<1>1. toDevice[d] \in Seq(ReplyType)
  BY DEF TypeOK
<1>2. ToSet(Append(toDevice[d], reply)) = ToSet(toDevice[d]) \cup {reply}
  BY <1>1, Enqueued
<1>3. /\ toDevice'[d] = Append(toDevice[d], reply)
      /\ \A c \in Device \ {d} : toDevice'[c] = toDevice[c]
  BY DEF Publish, TypeOK
<1> SUFFICES ASSUME NEW c \in Device, NEW r \in ToSet(toDevice'[c])
             PROVE  r \in ToSet(toDevice[c]) \/ (c = d /\ r = reply)
  OBVIOUS
<1>4. ASSUME c = d PROVE r = reply \/ r \in ToSet(toDevice[c])
  <2>1. toDevice'[c] = Append(toDevice[d], reply)
    BY <1>3, <1>4
  <2> QED
    BY <1>2, <1>4, <2>1
<1>5. ASSUME c # d PROVE r \in ToSet(toDevice[c])
  <2>1. toDevice'[c] = toDevice[c]
    BY <1>3, <1>5
  <2> QED
    BY <2>1, Zenon
<1> QED
  BY <1>4, <1>5

\* What RowsFor selects tells of every unflagged row that its device lacks, if
\* those it must not tell of are held.
LEMMA ListsAreGood ==
  ASSUME DurabilityInv, NEW d \in Device, NEW excluded, NEW ids \in SUBSET Rows,
         \A p \in excluded \cap Unflagged : Current(d, p)
  PROVE  GoodReply(d, ListReply(RowsFor(d, excluded), ids))
<1> DEFINE ps == RowsFor(d, excluded)
           reply == ListReply(ps, ids)
<1>1. reply.rows = {Listed(p) : p \in ps} /\ reply.ids = ids
  BY DEF ListReply
<1>2. \A p \in ps : p \in Pid /\ master[p].ver \in Nat /\ master[p].ver # 0
  BY DEF RowsFor, Rows, DurabilityInv, TypeInv, TypeOK, Row
<1>3. \A row \in reply.rows : row.ver \in 1 .. master[row.id].ver
  <2>1. \A p \in ps : master[p].ver \in 1 .. master[p].ver
    BY <1>2
  <2> QED
    BY <1>1, <2>1 DEF Listed
<1>4. ASSUME NEW p \in Unflagged
      PROVE  Current(d, p) \/ Listed(p) \in reply.rows
  <2>1. CASE Known(d) \/ p \in excluded
    BY <2>1 DEF DurabilityInv, HoldsUnflagged
  <2>2. CASE ~Known(d) /\ p \notin excluded
    <3>1. p \in ps
      BY <2>2 DEF RowsFor, Unflagged
    <3> QED
      BY <1>1, <3>1
  <2> QED
    BY <2>1, <2>2
<1> QED
  BY <1>1, <1>3, <1>4 DEF GoodReply

LEMMA FetchDurability ==
  ASSUME DurabilityInv, TypeInv', NEW d \in Device, FetchProcessList(d)
  PROVE  DurabilityInv'
<1> DEFINE ps == RowsFor(d, {})
           reply == IF ps # {} THEN ListReply(ps, {}) ELSE SyncedReply
<1>1. TypeOK /\ Grows
  BY TablesUnchanged DEF DurabilityInv, TypeInv, FetchProcessList
<1>2. ListReply(ps, {}) \in ReplyType
  BY <1>1, ListReplyType DEF RowsFor, Rows
<1>3. reply \in ReplyType
  BY <1>2, ResponseTypes
<1>4. GoodReply(d, reply)
  <2>1. GoodReply(d, ListReply(ps, {}))
    BY ListsAreGood
  <2>2. CASE ps # {}
    BY <2>1, <2>2
  <2>3. CASE ps = {}
    <3>1. \A p \in Unflagged : Current(d, p)
      BY <2>1, <2>3 DEF GoodReply, ListReply
    <3> QED
      BY <2>3, <3>1 DEF GoodReply, SyncedReply
  <2> QED
    BY <2>2, <2>3
<1>5. \A c \in Device : \A r \in ToSet(toDevice'[c]) :
        r \in ToSet(toDevice[c]) \/ GoodReply(c, r)
  <2>1. Publish(d, reply)
    BY DEF FetchProcessList
  <2> HIDE DEF reply
  <2>2. \A c \in Device : \A r \in ToSet(toDevice'[c]) :
          r \in ToSet(toDevice[c]) \/ (c = d /\ r = reply)
    BY <1>1, <1>3, <2>1, PublishedQueues
  <2> QED
    BY <1>4, <2>2
<1>6. \A c \in Device : ToSet(toPlatform'[c]) \subseteq ToSet(toPlatform[c])
  BY <1>1, ConsumedQueues DEF FetchProcessList, Arrived
<1>7. GoodHandler(handler)'
  BY DEF FetchProcessList, Arrived, GoodHandler
<1>8. \A c \in Device : Known(c)' => Known(c)
  BY DEF FetchProcessList, Known
<1> QED
  BY <1>1, <1>5, <1>6, <1>7, <1>8, DurabilityByParts

LEMMA UpdateListDurability ==
  ASSUME DurabilityInv, TypeInv', NEW d \in Device, UpdateProcessList(d)
  PROVE  DurabilityInv'
<1> DEFINE m == Head(toPlatform[d])
<1>1. TypeOK /\ Grows
  BY TablesUnchanged DEF DurabilityInv, TypeInv, UpdateProcessList
<1>2. /\ \A c \in Device : ToSet(toPlatform'[c]) \subseteq ToSet(toPlatform[c])
      /\ m \in ToSet(toPlatform[d])
  BY <1>1, ConsumedQueues DEF UpdateProcessList, Arrived
<1>3. NamesHeld(d, m.details)
  BY <1>2 DEF DurabilityInv, GoodMessage
<1>4. held' = held
  BY DEF UpdateProcessList
<1>5. handler' = Handler("next", d, m.details, {}, {})
  BY DEF UpdateProcessList
<1>6. GoodHandler(handler)'
  BY <1>3, <1>4, <1>5 DEF GoodHandler, Handler, NamesHeld
<1>7. \A c \in Device : Known(c)' => Known(c)
  BY DEF UpdateProcessList, Known
<1>8. toDevice' = toDevice
  BY DEF UpdateProcessList
<1> QED
  BY <1>1, <1>2, <1>6, <1>7, <1>8, DurabilityByParts

\* A tail of an upload names no other rows.
LEMMA TailNamesHeld ==
  ASSUME NEW d, NEW rest \in Seq(Detail), rest # <<>>, NamesHeld(d, rest)
  PROVE  /\ NamesHeld(d, Tail(rest))
         /\ Head(rest).id # NoId =>
              Head(rest).id \in Pid /\ held[d][Head(rest).id] # 0
<1>1. /\ Len(rest) \in Nat \ {0} /\ DOMAIN rest = 1 .. Len(rest)
      /\ Head(rest) = rest[1]
      /\ DOMAIN Tail(rest) = 1 .. Len(rest) - 1
      /\ \A i \in 1 .. Len(rest) - 1 : Tail(rest)[i] = rest[i + 1]
  BY HeadTailProperties
<1>2. \A i \in 1 .. Len(rest) - 1 : i + 1 \in DOMAIN rest
  BY <1>1
<1> QED
  BY <1>1, <1>2 DEF NamesHeld

\* The detail that a handler is at: it names a row, which its client holds.
LEMMA AtHeldDetail ==
  ASSUME DurabilityInv, NEW pc \in {"next", "write"}, AtDetail(pc)
  PROVE  /\ handler.client \in Device
         /\ Head(handler.rest) \in Detail
         /\ NamesHeld(handler.client, handler.rest)
         /\ NamesHeld(handler.client, Tail(handler.rest))
         /\ Head(handler.rest).id # NoId =>
              /\ Head(handler.rest).id \in Rows
              /\ Head(handler.rest).id \in Unflagged =>
                   Current(handler.client, Head(handler.rest).id)
<1> DEFINE d == handler.client
           p == Head(handler.rest).id
<1>1. TypeOK
  BY DEF DurabilityInv, TypeInv
<1>2. handler.pc # "idle" /\ handler.rest # <<>>
  BY DEF AtDetail
<1>3. d \in Device /\ handler.rest \in Seq(Detail)
  BY <1>1, <1>2, HandlerFields
<1>4. NamesHeld(d, handler.rest)
  BY <1>2 DEF DurabilityInv, GoodHandler
<1>5. NamesHeld(d, Tail(handler.rest)) /\ (p # NoId => p \in Pid /\ held[d][p] # 0)
  BY <1>2, <1>3, <1>4, TailNamesHeld
<1>6. Head(handler.rest) \in Detail
  BY <1>1, CurrentDetail
<1>7. ASSUME p # NoId
      PROVE  p \in Rows /\ (p \in Unflagged => Current(d, p))
  <2>1. p \in Pid /\ held[d][p] # 0
    BY <1>5, <1>7
  <2>2. held[d][p] \in Nat /\ master[p].ver \in Nat /\ held[d][p] <= master[p].ver
    BY <1>1, <1>3, <2>1 DEF TypeOK, Row, DurabilityInv, VersionsExist
  <2>3. p \in Unflagged => master[p].ver = 1
    BY DEF DurabilityInv, VersionsExist
  <2> QED
    BY <2>1, <2>2, <2>3 DEF Rows, Current
<1> QED
  BY <1>3, <1>4, <1>5, <1>6, <1>7

\* A row that an upload or its owner has written is flagged, and no other one
\* changes.
LEMMA StoredRowFlagged ==
  ASSUME TypeOK, VersionsExist, NEW p \in Pid, NEW detail, detail.modified = 1,
         StoreRow(p, detail)
  PROVE  /\ \A q \in Pid : q # p => master'[q] = master[q]
         /\ master'[p].ver = master[p].ver + 1
         /\ master[p].ver \in Nat
         /\ p \in Rows' /\ p \notin Unflagged'
         /\ \A q \in Unflagged' : q \in Unflagged /\ master'[q] = master[q]
<1>1. /\ \A q \in Pid : q # p => master'[q] = master[q]
      /\ master'[p] = Written(master[p], detail)
  BY DEF StoreRow, TypeOK
<1>2. master[p].ver \in Nat
  BY DEF TypeOK, Row
<1>3. /\ master'[p].ver = master[p].ver + 1
      /\ master'[p].modified = 1
  BY <1>1 DEF Written
<1>4. p \in Rows' /\ p \notin Unflagged'
  BY <1>2, <1>3 DEF Rows, Unflagged
<1>5. \A q \in Unflagged' : q \in Pid /\ q # p
  BY <1>4 DEF Unflagged, Rows
<1>6. \A q \in Unflagged' : q \in Unflagged /\ master'[q] = master[q]
  BY <1>1, <1>5 DEF Unflagged, Rows
<1> QED
  BY <1>1, <1>2, <1>3, <1>4, <1>6

\* The versions after a row was written that at most one device was given.
LEMMA StoreRowGrows ==
  ASSUME TypeOK, TypeOK', VersionsExist, NEW p \in Pid, NEW detail,
         detail.modified = 1, StoreRow(p, detail),
         \A d \in Device, q \in Pid :
            \/ held'[d][q] = held[d][q]
            \/ q = p /\ held'[d][q] = master[p].ver + 1
  PROVE  Grows
<1>1. /\ \A q \in Pid : q # p => master'[q] = master[q]
      /\ master'[p].ver = master[p].ver + 1
      /\ \A q \in Unflagged' : q \in Unflagged /\ master'[q] = master[q]
  BY StoredRowFlagged
<1>2. /\ \A q \in Pid : master[q].ver \in Nat
      /\ \A d \in Device, q \in Pid : held[d][q] \in Nat
  BY DEF TypeOK, Row
<1>3. \A d \in Device, q \in Pid : held[d][q] <= master[q].ver
  BY DEF VersionsExist
<1>4. \A q \in Pid : master'[q].ver >= master[q].ver
  BY <1>1, <1>2
<1>5. ASSUME NEW d \in Device, NEW q \in Pid
      PROVE  held'[d][q] >= held[d][q] /\ held'[d][q] <= master'[q].ver
  <2>1. CASE held'[d][q] = held[d][q]
    BY <1>1, <1>2, <1>3, <2>1
  <2>2. CASE q = p /\ held'[d][q] = master[p].ver + 1
    BY <1>1, <1>2, <1>3, <2>2
  <2> QED
    BY <2>1, <2>2
<1>6. \A q \in Unflagged' : master'[q].ver = 1
  BY <1>1 DEF VersionsExist
<1>7. VersionsExist'
  BY <1>5, <1>6 DEF VersionsExist
<1> QED
  BY <1>1, <1>4, <1>5, <1>7 DEF Grows

LEMMA CompareDurability ==
  ASSUME DurabilityInv, TypeInv', CompareDetail
  PROVE  DurabilityInv'
<1>1. TypeOK /\ AtDetail("next") /\ handler.pc # "idle"
  BY DEF DurabilityInv, TypeInv, CompareDetail, AtDetail
<1>2. /\ NamesHeld(handler.client, handler.rest)
      /\ NamesHeld(handler.client, Tail(handler.rest))
  BY <1>1, AtHeldDetail
<1>3. /\ handler'.client = handler.client /\ handler'.ids = handler.ids
      /\ handler'.touched = handler.touched
      /\ handler'.rest \in {handler.rest, Tail(handler.rest)}
  BY <1>1, HandlerFields DEF CompareDetail
<1>4. UNCHANGED <<master, held, toDevice, toPlatform, log>>
  BY DEF CompareDetail
<1>5. GoodHandler(handler)'
  BY <1>1, <1>2, <1>3, <1>4
  DEF DurabilityInv, GoodHandler, NamesHeld, Rows, Unflagged, Current
<1> QED
  BY <1>4, <1>5, QuietDurability DEF Known

\* No upload names a row that does not exist.
LEMMA AlwaysFound == DurabilityInv => ~ProcessNotFound
BY AtHeldDetail DEF ProcessNotFound

\* The handler's locals when it goes on to the next detail.
LEMMA NextDetailGood ==
  ASSUME DurabilityInv, TypeOK', Grows, NEW pc \in {"next", "write"}, AtDetail(pc),
         NEW touched, NEW ids \in SUBSET Rows', NextDetail(touched, ids),
         \A p \in touched \cap Unflagged' : Current(handler.client, p)'
  PROVE  GoodHandler(handler)'
<1>1. TypeOK /\ handler.pc # "idle"
  BY DEF DurabilityInv, TypeInv, AtDetail
<1>2. /\ handler'.client = handler.client
      /\ handler'.rest = Tail(handler.rest)
      /\ handler'.touched = handler.touched \cup touched
      /\ handler'.ids = handler.ids \cup ids
  BY <1>1, HandlerFields DEF NextDetail
<1>3. /\ handler.client \in Device
      /\ NamesHeld(handler.client, Tail(handler.rest))
  BY AtHeldDetail
<1>4. /\ handler.ids \subseteq Rows
      /\ \A p \in handler.touched \cap Unflagged : Current(handler.client, p)
  BY <1>1 DEF DurabilityInv, GoodHandler
<1>5. PICK d \in Device : d = handler.client
  BY <1>3
<1>6. PICK rest : rest = Tail(handler.rest)
  OBVIOUS
<1>7. /\ \A p \in Unflagged' : Current(d, p) => Current(d, p)'
      /\ NamesHeld(d, rest)'
      /\ Rows \subseteq Rows'
  BY <1>1, <1>3, <1>5, <1>6, HoldingLasts
<1>8. NamesHeld(handler.client, handler.rest)'
  BY <1>2, <1>5, <1>6, <1>7 DEF NamesHeld
<1>9. handler'.ids \subseteq Rows'
  BY <1>2, <1>4, <1>7
<1>10. \A p \in handler'.touched \cap Unflagged' : Current(handler.client, p)'
  <2> SUFFICES ASSUME NEW p \in handler'.touched \cap Unflagged'
               PROVE  held'[handler'.client][p] = master'[p].ver
    BY DEF Current
  <2>1. CASE p \in touched
    BY <2>1 DEF Current
  <2>2. CASE p \in handler.touched
    <3>1. p \in Unflagged
      BY DEF Grows
    <3> QED
      BY <1>2, <1>4, <1>5, <1>7, <2>2, <3>1 DEF Current
  <2> QED
    BY <1>2, <2>1, <2>2
<1> QED
  BY <1>8, <1>9, <1>10 DEF GoodHandler

LEMMA UpdateDurability ==
  ASSUME DurabilityInv, TypeInv', Modified = {1}, UpdateProcess
  PROVE  DurabilityInv'
<1> DEFINE detail == Head(handler.rest)
           p == detail.id
           d == handler.client
<1>1. TypeOK /\ TypeOK' /\ VersionsExist /\ AtDetail("write")
  BY DEF DurabilityInv, TypeInv, UpdateProcess
<1>2. d \in Device /\ detail \in Detail /\ p \in Pid
  BY <1>1, AtHeldDetail
  DEF UpdateProcess, DurabilityInv, TypeInv, WriteDecided, AtDetail, Rows
<1>3. detail.modified = 1
  BY <1>2 DEF Detail
<1>4. /\ StoreRow(p, detail) /\ NextDetail({p}, {})
      /\ held' = [held EXCEPT ![d][p] = master[p].ver + 1]
  BY DEF UpdateProcess
<1>5. Grows
  <2>1. ASSUME NEW c \in Device, NEW q \in Pid
        PROVE  \/ held'[c][q] = held[c][q]
               \/ q = p /\ held'[c][q] = master[p].ver + 1
    BY <1>1, <1>2, <1>4 DEF TypeOK
  <2> HIDE DEF p, detail, d
  <2> QED
    BY <1>1, <1>2, <1>3, <1>4, <2>1, StoreRowGrows
<1>6. p \notin Unflagged'
  BY <1>1, <1>2, <1>3, <1>4, StoredRowFlagged
<1>7. GoodHandler(handler)'
  BY <1>1, <1>4, <1>5, <1>6, NextDetailGood
<1>8. UNCHANGED <<log, toPlatform, toDevice>>
  BY DEF UpdateProcess
<1> QED
  BY <1>5, <1>7, <1>8, DurabilityByParts DEF Known

LEMMA UpdateFailsDurability ==
  ASSUME DurabilityInv, TypeInv', UpdateProcessFails
  PROVE  DurabilityInv'
<1> DEFINE p == Head(handler.rest).id
<1>1. TypeOK /\ TypeOK' /\ AtDetail("write")
  BY DEF DurabilityInv, TypeInv, UpdateProcessFails
<1>2. Grows /\ UNCHANGED <<master, held, log, toDevice, toPlatform>>
  BY TablesUnchanged DEF DurabilityInv, TypeInv, UpdateProcessFails
<1>3. NextDetail({p}, {})
  BY DEF UpdateProcessFails
<1>4. p \in Unflagged => Current(handler.client, p)
  BY <1>1, AtHeldDetail DEF Unflagged, Rows, Pid, NoId
<1>5. \A q \in {p} \cap Unflagged' : held'[handler.client][q] = master'[q].ver
  BY <1>2, <1>4 DEF Unflagged, Rows, Current
<1>6. handler'.client = handler.client
  BY <1>1, HandlerFields DEF AtDetail, UpdateProcessFails, NextDetail
<1>7. GoodHandler(handler)'
  BY <1>1, <1>2, <1>3, <1>5, <1>6, NextDetailGood DEF Current
<1> QED
  BY <1>2, <1>7, QuietDurability DEF Known

LEMMA InsertDurability ==
  ASSUME DurabilityInv, TypeInv', Modified = {1}, InsertProcess
  PROVE  DurabilityInv'
<1> DEFINE detail == Head(handler.rest)
           p == generate(Rows)
<1>1. TypeOK /\ TypeOK' /\ VersionsExist /\ AtDetail("next")
  BY DEF DurabilityInv, TypeInv, InsertProcess
<1>2. detail \in Detail /\ p \in Pid
  BY <1>1, AtHeldDetail DEF InsertProcess
<1>3. detail.modified = 1
  BY <1>2 DEF Detail
<1>4. StoreRow(p, detail) /\ NextDetail({p}, {p}) /\ held' = held
  BY DEF InsertProcess
<1> HIDE DEF p, detail
<1>5. Grows
  BY <1>1, <1>2, <1>3, <1>4, StoreRowGrows
<1>6. p \in Rows' /\ p \notin Unflagged'
  BY <1>1, <1>2, <1>3, <1>4, StoredRowFlagged
<1>7. GoodHandler(handler)'
  BY <1>1, <1>4, <1>5, <1>6, NextDetailGood
<1>8. UNCHANGED <<log, toPlatform, toDevice>>
  BY DEF InsertProcess
<1> QED
  BY <1>5, <1>7, <1>8, DurabilityByParts DEF Known

LEMMA InsertFailsDurability ==
  ASSUME DurabilityInv, TypeInv', InsertProcessFails
  PROVE  DurabilityInv'
<1>1. TypeOK /\ TypeOK' /\ AtDetail("next")
  BY DEF DurabilityInv, TypeInv, InsertProcessFails
<1>2. Grows /\ UNCHANGED <<master, held, log, toDevice, toPlatform>>
  BY TablesUnchanged DEF DurabilityInv, TypeInv, InsertProcessFails
<1>3. NextDetail({NoId}, {})
  BY DEF InsertProcessFails
<1>4. {NoId} \cap Unflagged' = {}
  BY DEF Unflagged, Rows, Pid, NoId
<1>5. GoodHandler(handler)'
  BY <1>1, <1>2, <1>3, <1>4, NextDetailGood
<1> QED
  BY <1>2, <1>5, QuietDurability DEF Known

\* A step of a handler that keeps its client, its ids and what it has touched.
LEMMA SameLocalsGood ==
  ASSUME DurabilityInv, TypeOK', handler.pc # "idle",
         UNCHANGED <<master, held>>,
         handler'.client = handler.client, handler'.ids = handler.ids,
         handler'.touched = handler.touched, handler'.rest = handler.rest
  PROVE  GoodHandler(handler)'
BY DEF DurabilityInv, GoodHandler, NamesHeld, Rows, Unflagged, Current

LEMMA UnsyncDurability ==
  ASSUME DurabilityInv, TypeInv', UnsyncedOtherAmsDevices
  PROVE  DurabilityInv'
<1>1. TypeOK /\ TypeOK' /\ handler.pc # "idle"
  BY DEF DurabilityInv, TypeInv, UnsyncedOtherAmsDevices, EndOfDetails
<1>2. UNCHANGED <<master, held, toDevice, toPlatform>>
  BY DEF UnsyncedOtherAmsDevices
<1>3. GoodHandler(handler)'
  BY <1>1, <1>2, HandlerFields, SameLocalsGood DEF UnsyncedOtherAmsDevices
<1>4. \A d \in Device : Known(d)' => Known(d)
  BY DEF UnsyncedOtherAmsDevices, Known
<1> QED
  BY <1>2, <1>3, <1>4, QuietDurability

LEMMA PublishDurability ==
  ASSUME DurabilityInv, TypeInv', GetAllModifiedProcessAndPublish
  PROVE  DurabilityInv'
<1> DEFINE d == handler.client
           ps == RowsFor(d, handler.touched)
           reply == ListReply(ps, handler.ids)
<1>1. TypeOK /\ Grows /\ handler.pc # "idle"
  BY TablesUnchanged DEF DurabilityInv, TypeInv, GetAllModifiedProcessAndPublish
<1>2. d \in Device /\ handler.ids \in SUBSET Pid
  BY <1>1, HandlerFields
<1>3. /\ handler.ids \in SUBSET Rows
      /\ \A p \in handler.touched \cap Unflagged : Current(d, p)
  BY <1>1 DEF DurabilityInv, GoodHandler
<1>4. GoodReply(d, reply)
  BY <1>2, <1>3, ListsAreGood
<1>5. reply \in ReplyType
  BY <1>1, <1>2, ListReplyType DEF RowsFor, Rows
<1>6. Publish(d, reply)
  BY DEF GetAllModifiedProcessAndPublish
<1> HIDE DEF reply
<1>7. \A c \in Device : \A r \in ToSet(toDevice'[c]) :
        r \in ToSet(toDevice[c]) \/ (c = d /\ r = reply)
  BY <1>1, <1>2, <1>5, <1>6, PublishedQueues
<1>8. UNCHANGED <<log, toPlatform>> /\ handler' = Idle
  BY DEF GetAllModifiedProcessAndPublish
<1> QED
  BY <1>1, <1>4, <1>7, <1>8, IdleIsGood, DurabilityByParts DEF Known

LEMMA SyncProcessDurability ==
  ASSUME DurabilityInv, TypeInv', Modified = {1}, SyncProcessStep
  PROVE  DurabilityInv'
<1>1. CASE NothingTouched
  BY <1>1, IdleIsGood, QuietDurability DEF NothingTouched, Known
<1> QED
  BY <1>1, FetchDurability, UpdateListDurability, CompareDurability,
     AlwaysFound, UpdateDurability, UpdateFailsDurability, InsertDurability,
     InsertFailsDurability, UnsyncDurability, PublishDurability
  DEF SyncProcessStep

\* An acknowledgement makes known a device that holds all unflagged rows.
LEMMA AckDurability ==
  ASSUME DurabilityInv, TypeInv', NEW d \in Device,
         SaveAmsProcessSyncLog(d) \/ SaveAmsProcessSyncLogFails(d)
  PROVE  DurabilityInv'
<1>1. TypeOK /\ TypeOK' /\ Arrived(d, "ack") /\ Consume(d)
  BY DEF DurabilityInv, TypeInv, SaveAmsProcessSyncLog, SaveAmsProcessSyncLogFails
<1>2. Grows /\ UNCHANGED <<master, held, toDevice>>
  BY TablesUnchanged
  DEF DurabilityInv, TypeInv, SaveAmsProcessSyncLog, SaveAmsProcessSyncLogFails
<1>3. /\ \A c \in Device : ToSet(toPlatform'[c]) \subseteq ToSet(toPlatform[c])
      /\ Head(toPlatform[d]) \in ToSet(toPlatform[d])
  BY <1>1, ConsumedQueues DEF Arrived
<1>4. HoldsUnflagged(d)
  BY <1>1, <1>3 DEF DurabilityInv, GoodMessage, Arrived
<1>5. ASSUME NEW c \in Device, Known(c)' PROVE Known(c) \/ HoldsUnflagged(c)
  <2>1. CASE c = d
    BY <1>4, <2>1
  <2>2. CASE c # d
    BY <1>1, <1>5, <2>2
    DEF Known, TypeOK, SaveAmsProcessSyncLog, SaveAmsProcessSyncLogFails
  <2> QED
    BY <2>1, <2>2
<1>6. handler' = Handler("count", d, <<>>, {}, {})
  BY DEF SaveAmsProcessSyncLog, SaveAmsProcessSyncLogFails
<1>7. GoodHandler(handler)'
  BY <1>6 DEF GoodHandler, Handler, NamesHeld
<1> QED
  BY <1>2, <1>3, <1>5, <1>7, DurabilityByParts

LEMMA SyncAckProcessDurability ==
  ASSUME DurabilityInv, TypeInv', SyncAckProcessStep
  PROVE  DurabilityInv'
<1>1. CASE CountNotSyncedAmsDevices
  <2>1. UNCHANGED <<master, held, log, toDevice, toPlatform>>
    BY <1>1 DEF CountNotSyncedAmsDevices
  <2>2. TypeOK /\ TypeOK' /\ handler.pc # "idle"
    BY <1>1 DEF DurabilityInv, TypeInv, CountNotSyncedAmsDevices
  <2>3. GoodHandler(handler)'
    <3>1. CASE handler' = Idle
      BY <3>1, IdleIsGood
    <3>2. CASE handler' = [handler EXCEPT !.pc = "reset"]
      BY <2>1, <2>2, <3>2, HandlerFields, SameLocalsGood
    <3> QED
      BY <1>1, <3>1, <3>2 DEF CountNotSyncedAmsDevices
  <2> QED
    BY <2>1, <2>3, QuietDurability DEF Known
<1>2. CASE UpdateProcessModifiedStatus
  BY <1>2, IdleIsGood, QuietDurability
  DEF UpdateProcessModifiedStatus, AfterClose, Known
<1>3. ASSUME NEW d \in Device, RejectAck(d) PROVE DurabilityInv'
  <2>1. TypeOK /\ TypeOK' /\ Grows
    BY <1>3, TablesUnchanged DEF DurabilityInv, TypeInv, RejectAck
  <2>2. \A c \in Device : ToSet(toPlatform'[c]) \subseteq ToSet(toPlatform[c])
    BY <1>3, <2>1, ConsumedQueues DEF RejectAck, Arrived
  <2>3. UNCHANGED <<log, handler, toDevice>>
    BY <1>3 DEF RejectAck
  <2>4. GoodHandler(handler)'
    BY <2>1, <2>3, HandlerLasts DEF DurabilityInv
  <2> QED
    BY <2>1, <2>2, <2>3, <2>4, DurabilityByParts DEF Known
<1> QED
  BY <1>1, <1>2, <1>3, AckDurability DEF SyncAckProcessStep

\* A message that is sent joins one queue.
LEMMA SentQueues ==
  ASSUME TypeOK, NEW d \in Device, NEW m \in MessageType,
         toPlatform' = [toPlatform EXCEPT ![d] = Append(@, m)]
  PROVE  \A c \in Device : \A n \in ToSet(toPlatform'[c]) :
           n \in ToSet(toPlatform[c]) \/ (c = d /\ n = m)
<1>1. toPlatform[d] \in Seq(MessageType)
  BY DEF TypeOK
<1>2. ToSet(Append(toPlatform[d], m)) = ToSet(toPlatform[d]) \cup {m}
  BY <1>1, Enqueued
<1>3. /\ toPlatform'[d] = Append(toPlatform[d], m)
      /\ \A c \in Device \ {d} : toPlatform'[c] = toPlatform[c]
  BY DEF TypeOK
<1> SUFFICES ASSUME NEW c \in Device, NEW n \in ToSet(toPlatform'[c])
             PROVE  n \in ToSet(toPlatform[c]) \/ (c = d /\ n = m)
  OBVIOUS
<1>4. ASSUME c = d PROVE n = m \/ n \in ToSet(toPlatform[c])
  <2>1. toPlatform'[c] = Append(toPlatform[d], m)
    BY <1>3, <1>4
  <2> QED
    BY <1>2, <1>4, <2>1
<1>5. ASSUME c # d PROVE n \in ToSet(toPlatform[c])
  <2>1. toPlatform'[c] = toPlatform[c]
    BY <1>3, <1>5
  <2> QED
    BY <2>1, Zenon
<1> QED
  BY <1>4, <1>5

\* What a device holds after a reply: versions that exist, none older than
\* before, and every unflagged row that the reply was to bring.
LEMMA HeldAfterGood ==
  ASSUME TypeOK, VersionsExist, NEW d \in Device, NEW reply \in ReplyType,
         GoodReply(d, reply), NEW p \in Pid
  PROVE  /\ HeldAfter(held[d], reply)[p] >= held[d][p]
         /\ HeldAfter(held[d], reply)[p] <= master[p].ver
         /\ p \in Unflagged => HeldAfter(held[d], reply)[p] = master[p].ver
<1> DEFINE have == held[d]
           after == HeldAfter(have, reply)[p]
<1>1. /\ have[p] \in Nat /\ master[p].ver \in Nat
      /\ have[p] <= master[p].ver
  BY DEF TypeOK, Row, VersionsExist
<1>2. ASSUME NEW v \in Told(reply, p) PROVE v \in 1 .. master[p].ver
  <2>1. CASE v \in {r.ver : r \in {x \in reply.rows : x.id = p}}
    BY <2>1 DEF GoodReply
  <2>2. CASE p \in reply.ids /\ v = 1
    BY <1>1, <2>2 DEF GoodReply, Rows
  <2> QED
    BY <1>2, <2>1, <2>2 DEF Told
<1>3. after = IF \E v \in Told(reply, p) : v > have[p]
              THEN CHOOSE v \in Told(reply, p) : v > have[p]
              ELSE have[p]
  BY DEF HeldAfter
<1>4. ASSUME NEW v \in Told(reply, p), v > have[p]
      PROVE  after \in Told(reply, p) /\ after > have[p]
  BY <1>3, <1>4
<1>5. (\A v \in Told(reply, p) : ~ (v > have[p])) => after = have[p]
  BY <1>3
<1> HIDE DEF after
<1>6. after >= have[p] /\ after <= master[p].ver
  <2>1. CASE \E v \in Told(reply, p) : v > have[p]
    BY <1>1, <1>2, <1>4, <2>1
  <2>2. CASE \A v \in Told(reply, p) : ~ (v > have[p])
    BY <1>1, <1>5, <2>2
  <2> QED
    BY <2>1, <2>2
<1>7. ASSUME p \in Unflagged PROVE after = master[p].ver
  <2>1. CASE have[p] = master[p].ver
    BY <1>1, <1>2, <1>4, <1>5, <1>6, <2>1
  <2>2. CASE Listed(p) \in reply.rows
    <3>1. master[p].ver \in Told(reply, p)
      BY <2>2 DEF Told, Listed
    <3>2. master[p].ver = 1
      BY <1>7 DEF VersionsExist
    <3>3. CASE 1 > have[p]
      <4>1. after \in Told(reply, p)
        BY <1>4, <3>1, <3>2, <3>3
      <4> QED
        BY <1>2, <3>2, <4>1
    <3>4. CASE ~ (1 > have[p])
      BY <1>1, <2>1, <3>2, <3>4
    <3> QED
      BY <3>3, <3>4
  <2> QED
    BY <1>7, <2>1, <2>2 DEF GoodReply, Current
<1> QED
  BY <1>6, <1>7 DEF after

\* A reply that is received leaves its device with every unflagged row.
LEMMA ReceiveGrows ==
  ASSUME DurabilityInv, TypeInv', NEW d \in Device, NEW received \in BOOLEAN,
         ReceiveReply(d, received)
  PROVE  Grows /\ (received => HoldsUnflagged(d)')
<1> DEFINE reply == Head(toDevice[d])
<1>1. TypeOK /\ TypeOK' /\ VersionsExist
  BY DEF DurabilityInv, TypeInv
<1>2. /\ UNCHANGED <<master, log, handler>>
      /\ held' = [held EXCEPT ![d] = IF received THEN HeldAfter(@, reply) ELSE @]
      /\ toDevice' = [toDevice EXCEPT ![d] = Tail(@)]
      /\ toPlatform' = [toPlatform EXCEPT ![d] = Append(@, Ack(received))]
      /\ toDevice[d] # <<>>
  BY DEF ReceiveReply
<1>3. /\ reply \in ReplyType /\ reply \in ToSet(toDevice[d])
      /\ ToSet(Tail(toDevice[d])) \subseteq ToSet(toDevice[d])
  BY <1>1, <1>2, Dequeued DEF TypeOK
<1>4. GoodReply(d, reply)
  BY <1>3 DEF DurabilityInv
<1> HIDE DEF reply
<1>5. /\ \A c \in Device \ {d} : held'[c] = held[c]
      /\ received => held'[d] = HeldAfter(held[d], reply)
      /\ ~received => held'[d] = held[d]
  BY <1>1, <1>2 DEF TypeOK
<1>6. \A p \in Pid : /\ HeldAfter(held[d], reply)[p] >= held[d][p]
                     /\ HeldAfter(held[d], reply)[p] <= master[p].ver
                     /\ p \in Unflagged =>
                          HeldAfter(held[d], reply)[p] = master[p].ver
  BY <1>1, <1>3, <1>4, HeldAfterGood
<1>7. \A c \in Device, p \in Pid : /\ held'[c][p] >= held[c][p]
                                   /\ held'[c][p] <= master[p].ver
  <2> SUFFICES ASSUME NEW c \in Device, NEW p \in Pid
               PROVE  held'[c][p] >= held[c][p] /\ held'[c][p] <= master[p].ver
    OBVIOUS
  <2>1. held[c][p] \in Nat /\ held[c][p] <= master[p].ver
    BY <1>1 DEF TypeOK, VersionsExist
  <2> QED
    BY <1>5, <1>6, <2>1
<1>8. Unflagged' = Unflagged
  BY <1>2 DEF Unflagged, Rows
<1>9. Grows
  BY <1>1, <1>2, <1>7, <1>8 DEF Grows, VersionsExist, TypeOK, Row
<1>10. received => HoldsUnflagged(d)'
  BY <1>2, <1>5, <1>6, <1>8 DEF HoldsUnflagged, Current, Unflagged, Rows
<1> QED
  BY <1>9, <1>10

\* It may therefore acknowledge it.
LEMMA ReceiveDurability ==
  ASSUME DurabilityInv, TypeInv', NEW d \in Device, NEW received \in BOOLEAN,
         ReceiveReply(d, received)
  PROVE  DurabilityInv'
<1>1. TypeOK /\ TypeOK' /\ Grows /\ (received => HoldsUnflagged(d)')
  BY ReceiveGrows DEF DurabilityInv, TypeInv
<1>2. /\ UNCHANGED <<log, handler>>
      /\ toDevice' = [toDevice EXCEPT ![d] = Tail(@)]
      /\ toPlatform' = [toPlatform EXCEPT ![d] = Append(@, Ack(received))]
      /\ toDevice[d] # <<>>
  BY DEF ReceiveReply
<1>3. \A c \in Device : ToSet(toDevice'[c]) \subseteq ToSet(toDevice[c])
  <2>1. ToSet(Tail(toDevice[d])) \subseteq ToSet(toDevice[d])
    BY <1>1, <1>2, Dequeued DEF TypeOK
  <2>2. \A c \in Device : toDevice'[c] = IF c = d THEN Tail(toDevice[d])
                                                  ELSE toDevice[c]
    BY <1>1, <1>2 DEF TypeOK
  <2> QED
    BY <2>1, <2>2
<1>4. \A c \in Device : \A m \in ToSet(toPlatform'[c]) :
        m \in ToSet(toPlatform[c]) \/ GoodMessage(c, m)'
  <2>1. Ack(received) \in MessageType
    BY EmptySeq DEF Ack, MessageType
  <2>2. PICK ack \in MessageType : ack = Ack(received)
    BY <2>1
  <2>3. toPlatform' = [toPlatform EXCEPT ![d] = Append(@, ack)]
    BY <1>2, <2>2
  <2>4. \A c \in Device : \A m \in ToSet(toPlatform'[c]) :
          m \in ToSet(toPlatform[c]) \/ (c = d /\ m = ack)
    BY <1>1, <2>3, SentQueues
  <2>5. ack.details = <<>> /\ (ack.type = "ack" => received)
    BY <2>2 DEF Ack
  <2>6. GoodMessage(d, ack)'
    BY <1>1, <2>5 DEF GoodMessage, NamesHeld
  <2> QED
    BY <2>4, <2>6
<1>5. GoodHandler(handler)'
  BY <1>1, <1>2, HandlerLasts DEF DurabilityInv
<1> QED
  BY <1>1, <1>2, <1>3, <1>4, <1>5, DurabilityByParts DEF Known

\* A device uploads new processes, and details of rows that it holds.
LEMMA SendDurability ==
  ASSUME DurabilityInv, TypeInv', StrayIds = {},
         NEW d \in Device, NEW details \in Uploads, SendRequest(d, details)
  PROVE  DurabilityInv'
<1>1. TypeOK /\ TypeOK' /\ Grows
  BY TablesUnchanged DEF DurabilityInv, TypeInv, SendRequest
<1>2. UNCHANGED <<master, log, handler, toDevice, held>>
  BY DEF SendRequest
<1>3. Upload(details) \in MessageType
  BY UploadsAreSequences DEF Upload, MessageType
<1>4. PICK m \in MessageType : m = Upload(details)
  BY <1>3
<1>5. toPlatform' = [toPlatform EXCEPT ![d] = Append(@, m)]
  BY <1>4 DEF SendRequest
<1>6. \A c \in Device : \A n \in ToSet(toPlatform'[c]) :
        n \in ToSet(toPlatform[c]) \/ (c = d /\ n = m)
  BY <1>1, <1>5, SentQueues
<1>7. m.type # "ack" /\ m.details = details
  BY <1>4 DEF Upload
<1>8. \A i \in DOMAIN details :
        details[i].id # NoId =>
          details[i].id \in Pid /\ held[d][details[i].id] # 0
  BY DEF SendRequest, NamableBy
<1>9. GoodMessage(d, m)'
  BY <1>2, <1>7, <1>8 DEF GoodMessage, NamesHeld
<1>10. GoodHandler(handler)'
  BY <1>1, <1>2, HandlerLasts DEF DurabilityInv
<1> QED
  BY <1>1, <1>2, <1>6, <1>9, <1>10, DurabilityByParts DEF Known

\* Losing messages, one or all of a queue, takes nothing away that is needed.
LEMMA LossDurability ==
  ASSUME DurabilityInv, TypeInv', UNCHANGED <<master, held, log>>,
         handler' \in {handler, Idle},
         \A d \in Device :
           /\ ToSet(toDevice'[d]) \subseteq ToSet(toDevice[d])
           /\ ToSet(toPlatform'[d]) \subseteq ToSet(toPlatform[d])
  PROVE  DurabilityInv'
<1>1. TypeOK /\ TypeOK' /\ Grows
  BY TablesUnchanged DEF DurabilityInv, TypeInv
<1>2. GoodHandler(handler)'
  <2>1. CASE UNCHANGED handler
    BY <1>1, <2>1, HandlerLasts DEF DurabilityInv
  <2>2. CASE handler' = Idle
    BY <2>2, IdleIsGood
  <2> QED
    BY <2>1, <2>2
<1> QED
  BY <1>1, <1>2, DurabilityByParts DEF Known

LEMMA PlatformEditDurability ==
  ASSUME DurabilityInv, TypeInv', NEW p \in Rows, NEW t \in Time,
         PlatformEdit(p, t)
  PROVE  DurabilityInv'
<1> DEFINE detail == [modified |-> 1, updatedOn |-> t]
<1>1. TypeOK /\ TypeOK' /\ VersionsExist /\ p \in Pid
  BY DEF DurabilityInv, TypeInv, Rows
<1>2. /\ StoreRow(p, detail) /\ detail.modified = 1
      /\ UNCHANGED <<log, handler, toPlatform, toDevice, held>>
  BY DEF PlatformEdit
<1> HIDE DEF detail
<1>3. Grows
  BY <1>1, <1>2, StoreRowGrows
<1>4. GoodHandler(handler)'
  BY <1>1, <1>2, <1>3, HandlerLasts DEF DurabilityInv
<1> QED
  BY <1>2, <1>3, <1>4, DurabilityByParts DEF Known

LEMMA EnvironmentDurability ==
  ASSUME DurabilityInv, TypeInv', StrayIds = {},
         HandlerException \/ DeviceStep \/ EnvironmentStep
  PROVE  DurabilityInv'
<1>1. TypeOK
  BY DEF DurabilityInv, TypeInv
<1>2. CASE HandlerException
  BY <1>2, LossDurability DEF HandlerException
<1>3. CASE Crash
  <2>1. \A d \in Device : toPlatform'[d] = <<>>
    BY <1>3 DEF Crash
  <2> QED
    BY <1>3, <2>1, EmptyQueue, LossDurability DEF Crash
<1>4. ASSUME NEW d \in Device, Restart(d) PROVE DurabilityInv'
  <2>1. \A c \in Device : toDevice'[c] \in {toDevice[c], <<>>}
    BY <1>1, <1>4 DEF Restart, TypeOK
  <2> QED
    BY <1>4, <2>1, EmptyQueue, LossDurability DEF Restart
<1>5. ASSUME NEW d \in Device, LoseToPlatform(d) PROVE DurabilityInv'
  BY <1>1, <1>5, ConsumedQueues, LossDurability DEF LoseToPlatform
<1>6. ASSUME NEW d \in Device, LoseToDevice(d) PROVE DurabilityInv'
  <2>1. ToSet(Tail(toDevice[d])) \subseteq ToSet(toDevice[d])
    BY <1>1, <1>6, Dequeued DEF LoseToDevice, TypeOK
  <2>2. \A c \in Device : toDevice'[c] = IF c = d THEN Tail(toDevice[d])
                                                  ELSE toDevice[c]
    BY <1>1, <1>6 DEF LoseToDevice, TypeOK
  <2> QED
    BY <1>6, <2>1, <2>2, LossDurability DEF LoseToDevice
<1> QED
  BY <1>2, <1>3, <1>4, <1>5, <1>6, SendDurability, ReceiveDurability,
     PlatformEditDurability
  DEF DeviceStep, EnvironmentStep

LEMMA InitDurability == Init => DurabilityInv
<1> SUFFICES ASSUME Init PROVE DurabilityInv
  OBVIOUS
<1>1. TypeOK /\ TypeInv
  BY InitType DEF TypeInv, WriteDecided, Init, Idle
<1>2. \A d \in Device : ToSet(toDevice[d]) = {} /\ ToSet(toPlatform[d]) = {}
  BY EmptyQueue DEF Init
<1>3. \A d \in Device : ~Known(d)
  BY DEF Init, Known
<1>4. \A p \in Pid : master[p].ver \in {0, 1}
  BY DEF Init, NoRow
<1>5. VersionsExist
  BY <1>4 DEF VersionsExist, Unflagged, Rows, Init
<1>6. GoodHandler(handler)
  BY DEF Init, GoodHandler, Idle
<1> QED
  BY <1>1, <1>2, <1>3, <1>5, <1>6 DEF DurabilityInv

LEMMA DurabilityStep ==
  ASSUME Modified = {1}, StrayIds = {}, DurabilityInv, [Next]_vars
  PROVE  DurabilityInv'
<1>1. TypeInv'
  BY TypeInvStep DEF DurabilityInv
<1>2. CASE Next
  BY <1>1, <1>2, SyncProcessDurability, SyncAckProcessDurability,
     EnvironmentDurability DEF Next
<1>3. CASE UNCHANGED vars
  BY <1>1, <1>3, LossDurability DEF vars
<1> QED
  BY <1>2, <1>3

\* A known device that lacks a row will be sent it: the row is flagged.  So
\* it is whatever is lost, fails or crashes, however many writers the table
\* has, as long as the devices flag what they upload and name rows they have
\* received.
THEOREM NothingOutOfReach ==
  ASSUME Modified = {1}, StrayIds = {}
  PROVE  Spec => []NothingLostForGood
<1>1. Init => DurabilityInv
  BY InitDurability
<1>2. DurabilityInv /\ [Next]_vars => DurabilityInv'
  BY DurabilityStep
<1>3. DurabilityInv => NothingLostForGood
  <2> SUFFICES ASSUME DurabilityInv, NEW d \in Device, Known(d), NEW p \in Rows
               PROVE  Current(d, p) \/ master[p].modified = 1
    BY DEF NothingLostForGood
  <2>1. p \in Unflagged => Current(d, p)
    BY DEF DurabilityInv, HoldsUnflagged
  <2>2. master[p].modified \in {0, 1}
    BY DEF Rows, DurabilityInv, TypeInv, TypeOK, Row
  <2> QED
    BY <2>1, <2>2 DEF Unflagged
<1> QED
  BY <1>1, <1>2, <1>3, PTL DEF Spec

-----------------------------------------------------------------------------
(* A reply leaves nothing out.  What is listed is all that is not held and  *)
(* not touched, so that it remains to be shown that the handler's client    *)
(* has, or will be told of, what its upload has touched.                    *)

\* The handler keeps what it has touched, the rows keep their contents, and
\* no device forgets a version.
LEMMA CoverageLasts ==
  ASSUME TypeOK, TypeOK', Grows, TouchedCovered, UNCHANGED master,
         \/ handler'.pc = "idle" \/ handler'.touched = {}
         \/ /\ handler.pc # "idle" /\ handler'.client = handler.client
            /\ handler'.touched = handler.touched
            /\ handler'.ids = handler.ids
  PROVE  TouchedCovered'
<1> SUFFICES ASSUME handler'.pc # "idle", NEW p \in handler'.touched \cap Rows'
             PROVE  Current(handler.client, p)' \/ p \in handler'.ids
  BY DEF TouchedCovered
<1>1. /\ handler.pc # "idle" /\ handler'.client = handler.client
      /\ handler'.touched = handler.touched
      /\ handler'.ids = handler.ids
  OBVIOUS
<1>2. PICK d \in Device : d = handler.client
  BY <1>1, HandlerFields
<1>3. p \in Rows /\ p \in Pid
  BY DEF Rows
<1>4. Current(d, p) \/ p \in handler.ids
  BY <1>1, <1>2, <1>3 DEF TouchedCovered
<1>5. ASSUME Current(d, p) PROVE held'[d][p] = master'[p].ver
  <2>1. held'[d][p] >= held[d][p] /\ held'[d][p] <= master'[p].ver
    BY <1>3 DEF Grows, VersionsExist
  <2>2. held[d][p] \in Nat /\ held'[d][p] \in Nat /\ held[d][p] = master'[p].ver
    BY <1>3, <1>5 DEF TypeOK, Current
  <2> QED
    BY <2>1, <2>2
<1> QED
  BY <1>1, <1>2, <1>4, <1>5 DEF Current

\* The uploader holds what it has sent, and the id of an insert goes into the
\* reply.
LEMMA WriteCoverage ==
  ASSUME DurabilityInv, TypeInv', Modified = {1}, TouchedCovered,
         UpdateProcess \/ InsertProcess
  PROVE  TouchedCovered'
<1> DEFINE detail == Head(handler.rest)
           d == handler.client
<1>1. /\ TypeOK /\ VersionsExist /\ handler.pc # "idle" /\ d \in Device
      /\ detail \in Detail /\ detail.modified = 1
  <2>1. TypeOK /\ VersionsExist /\ (AtDetail("next") \/ AtDetail("write"))
    BY DEF DurabilityInv, TypeInv, UpdateProcess, InsertProcess
  <2>2. d \in Device /\ detail \in Detail
    BY <2>1, AtHeldDetail
  <2> QED
    BY <2>1, <2>2 DEF AtDetail, Detail
<1>2. PICK p \in Pid :
        /\ StoreRow(p, detail)
        /\ \/ /\ NextDetail({p}, {})
              /\ held' = [held EXCEPT ![d][p] = master[p].ver + 1]
           \/ NextDetail({p}, {p}) /\ held' = held
  <2>1. CASE UpdateProcess
    BY <2>1 DEF UpdateProcess, DurabilityInv, TypeInv, WriteDecided, AtDetail, Rows
  <2>2. CASE InsertProcess
    BY <2>2 DEF InsertProcess
  <2> QED
    BY <2>1, <2>2
<1> HIDE DEF detail
<1>3. /\ \A q \in Pid : q # p => master'[q] = master[q]
      /\ master'[p].ver = master[p].ver + 1
  BY <1>1, <1>2, StoredRowFlagged
<1>4. /\ handler'.client = d
      /\ handler'.touched = handler.touched \cup {p}
      /\ handler.ids \subseteq handler'.ids
  BY <1>1, <1>2, HandlerFields DEF NextDetail
<1>5. \A q \in Pid : q # p => held'[d][q] = held[d][q]
  BY <1>1, <1>2 DEF TypeOK
<1>6. held'[d][p] = master'[p].ver \/ p \in handler'.ids
  <2>1. CASE NextDetail({p}, {p})
    BY <1>1, <2>1, HandlerFields DEF NextDetail
  <2>2. CASE held' = [held EXCEPT ![d][p] = master[p].ver + 1]
    BY <1>1, <1>3, <2>2 DEF TypeOK
  <2> QED
    BY <1>2, <2>1, <2>2
<1>7. ASSUME NEW q \in handler'.touched \cap Rows', q # p
      PROVE  held'[d][q] = master'[q].ver \/ q \in handler'.ids
  <2>1. q \in Pid /\ q \in Rows /\ q \in handler.touched
    BY <1>3, <1>4, <1>7 DEF Rows
  <2>2. held[d][q] = master[q].ver \/ q \in handler.ids
    BY <1>1, <2>1 DEF TouchedCovered, Current
  <2> QED
    BY <1>3, <1>4, <1>5, <1>7, <2>1, <2>2
<1> QED
  BY <1>4, <1>6, <1>7 DEF TouchedCovered, Current

LEMMA TouchedStep ==
  ASSUME Modified = {1}, StrayIds = {}, MaxPlatformEdits = 0,
         "write" \notin Faulty, DurabilityInv, TouchedCovered, [Next]_vars
  PROVE  TouchedCovered'
<1>1. TypeInv' /\ TypeOK /\ TypeOK'
  BY TypeInvStep DEF DurabilityInv, TypeInv
<1>2. CASE HandlerException \/ Crash \/ NothingTouched
           \/ GetAllModifiedProcessAndPublish \/ UpdateProcessModifiedStatus
  <2>1. handler' = Idle
    BY <1>2 DEF HandlerException, Crash, NothingTouched,
       GetAllModifiedProcessAndPublish, UpdateProcessModifiedStatus
  <2> QED
    BY <2>1 DEF Idle, TouchedCovered
<1>3. CASE UNCHANGED <<master, held, handler>>
  BY <1>3 DEF TouchedCovered, Rows, Current
<1>4. ASSUME UNCHANGED <<master, held>>,
             \/ handler'.touched = {}
             \/ /\ handler.pc # "idle" /\ handler'.client = handler.client
                /\ handler'.touched = handler.touched
                /\ handler'.ids = handler.ids
      PROVE  TouchedCovered'
  BY <1>1, <1>4, CoverageLasts, TablesUnchanged DEF DurabilityInv
<1>5. ASSUME NEW d \in Device,
             \/ UpdateProcessList(d) \/ SaveAmsProcessSyncLog(d)
             \/ SaveAmsProcessSyncLogFails(d)
      PROVE  TouchedCovered'
  <2>1. handler'.touched = {} /\ UNCHANGED <<master, held>>
    BY <1>5 DEF UpdateProcessList, SaveAmsProcessSyncLog,
       SaveAmsProcessSyncLogFails, Handler
  <2> QED
    BY <1>4, <2>1
<1>6. CASE CompareDetail \/ UnsyncedOtherAmsDevices \/ CountNotSyncedAmsDevices
  <2>1. UNCHANGED <<master, held>> /\ handler.pc # "idle"
    BY <1>6 DEF CompareDetail, UnsyncedOtherAmsDevices, AtDetail, EndOfDetails,
       CountNotSyncedAmsDevices
  <2>2. CASE handler' = Idle
    BY <2>2 DEF TouchedCovered, Idle
  <2>3. CASE handler' # Idle
    <3>1. \/ \E pc : handler' = [handler EXCEPT !.pc = pc]
          \/ handler' = [handler EXCEPT !.rest = Tail(@)]
      BY <1>6, <2>3
      DEF CompareDetail, UnsyncedOtherAmsDevices, CountNotSyncedAmsDevices
    <3>2. /\ handler'.client = handler.client
          /\ handler'.touched = handler.touched
          /\ handler'.ids = handler.ids
      BY <1>1, <2>1, <3>1, HandlerFields
    <3> QED
      BY <1>4, <2>1, <3>2
  <2> QED
    BY <2>2, <2>3
<1>7. ASSUME NEW d \in Device, NEW received \in BOOLEAN,
             ReceiveReply(d, received)
      PROVE  TouchedCovered'
  <2>1. Grows /\ UNCHANGED <<master, handler>>
    BY <1>1, <1>7, ReceiveGrows DEF ReceiveReply
  <2>2. CASE handler.pc = "idle"
    BY <2>1, <2>2 DEF TouchedCovered
  <2>3. CASE handler.pc # "idle"
    BY <1>1, <2>1, <2>3, CoverageLasts
  <2> QED
    BY <2>2, <2>3
<1>8. ~UpdateProcessFails /\ ~InsertProcessFails /\ ~ProcessNotFound
  BY AlwaysFound DEF UpdateProcessFails, InsertProcessFails, Fault
<1>9. \A p \in Rows, t \in Time : ~PlatformEdit(p, t)
  BY <1>1 DEF PlatformEdit, TypeOK
<1>10. ASSUME NEW d \in Device,
              \/ FetchProcessList(d) \/ RejectAck(d) \/ Restart(d)
              \/ LoseToPlatform(d) \/ LoseToDevice(d)
              \/ \E details \in Uploads : SendRequest(d, details)
       PROVE  TouchedCovered'
  BY <1>3, <1>10 DEF FetchProcessList, RejectAck, Restart, LoseToPlatform,
     LoseToDevice, SendRequest
<1>11. CASE Next
  BY <1>1, <1>2, <1>5, <1>6, <1>7, <1>8, <1>9, <1>10, <1>11, WriteCoverage
  DEF Next, SyncProcessStep, SyncAckProcessStep, DeviceStep, EnvironmentStep
<1> QED
  BY <1>3, <1>11 DEF vars

\* A list tells of all rows that are neither held nor to be left out.
LEMMA ListsCover ==
  ASSUME DurabilityInv, NEW d \in Device, NEW excluded, NEW ids, NEW p \in Rows,
         p \in excluded => Current(d, p) \/ p \in ids
  PROVE  Covers(ListReply(RowsFor(d, excluded), ids), d, p)
<1> DEFINE ps == RowsFor(d, excluded)
<1>1. CASE p \in excluded
  BY <1>1 DEF Covers, ListReply
<1>2. CASE p \in ps
  BY <1>2 DEF Covers, ListReply
<1>3. CASE p \notin excluded /\ p \notin ps
  <2>1. Known(d) /\ master[p].modified # 1
    BY <1>3 DEF RowsFor
  <2>2. p \in Unflagged
    BY <2>1 DEF Unflagged, Rows, DurabilityInv, TypeInv, TypeOK, Row
  <2> QED
    BY <2>1, <2>2 DEF DurabilityInv, HoldsUnflagged, Covers
<1> QED
  BY <1>1, <1>2, <1>3

\* A reply that is published is the last of its queue, and no other queue grows.
LEMMA LastPublished ==
  ASSUME TypeOK, NEW d \in Device, NEW reply \in ReplyType, Publish(d, reply),
         NEW c \in Device, Len(toDevice'[c]) > Len(toDevice[c])
  PROVE  c = d /\ toDevice'[c][Len(toDevice'[c])] = reply
<1>1. toDevice[c] \in Seq(ReplyType)
  BY DEF TypeOK
<1>2. toDevice'[c] = IF c = d THEN Append(toDevice[c], reply) ELSE toDevice[c]
  BY DEF Publish, TypeOK
<1>3. Len(toDevice[c]) \in Nat
  BY <1>1
<1>4. c = d
  <2>1. ASSUME c # d PROVE FALSE
    <3>1. toDevice'[c] = toDevice[c]
      BY <1>2, <2>1
    <3> QED
      BY <1>3, <3>1
  <2> QED
    BY <2>1
<1>5. toDevice'[c] = Append(toDevice[c], reply)
  BY <1>2, <1>4
<1>6. PICK q \in Seq(ReplyType) : q = toDevice[c]
  BY <1>1
<1>7. /\ Len(Append(q, reply)) = Len(q) + 1
      /\ Append(q, reply)[Len(q) + 1] = reply
  BY AppendProperties
<1> QED
  BY <1>4, <1>5, <1>6, <1>7

LEMMA FetchCovers ==
  ASSUME DurabilityInv, NEW d \in Device, FetchProcessList(d), NEW c \in Device,
         Len(toDevice'[c]) > Len(toDevice[c]), NEW p \in Rows
  PROVE  Covers(toDevice'[c][Len(toDevice'[c])], c, p)
<1> DEFINE ps == RowsFor(d, {})
           reply == IF ps # {} THEN ListReply(ps, {}) ELSE SyncedReply
<1>1. TypeOK
  BY DEF DurabilityInv, TypeInv
<1>2. ListReply(ps, {}) \in ReplyType
  BY <1>1, ListReplyType DEF RowsFor, Rows
<1>3. reply \in ReplyType /\ Publish(d, reply)
  BY <1>2, ResponseTypes DEF FetchProcessList
<1>4. Covers(reply, d, p)
  <2>1. Covers(ListReply(ps, {}), d, p)
    BY ListsCover
  <2>2. CASE ps # {}
    BY <2>1, <2>2
  <2>3. CASE ps = {}
    BY <2>1, <2>3 DEF Covers, ListReply
  <2> QED
    BY <2>2, <2>3
<1> HIDE DEF reply
<1> QED
  BY <1>1, <1>3, <1>4, LastPublished

LEMMA PublishCovers ==
  ASSUME DurabilityInv, TouchedCovered, GetAllModifiedProcessAndPublish,
         NEW c \in Device, Len(toDevice'[c]) > Len(toDevice[c]), NEW p \in Rows
  PROVE  Covers(toDevice'[c][Len(toDevice'[c])], c, p)
<1> DEFINE d == handler.client
           ps == RowsFor(d, handler.touched)
           reply == ListReply(ps, handler.ids)
<1>1. TypeOK /\ handler.pc # "idle"
  BY DEF DurabilityInv, TypeInv, GetAllModifiedProcessAndPublish
<1>2. d \in Device /\ handler.ids \in SUBSET Pid
  BY <1>1, HandlerFields
<1>3. reply \in ReplyType /\ Publish(d, reply)
  BY <1>1, <1>2, ListReplyType
  DEF RowsFor, Rows, GetAllModifiedProcessAndPublish
<1>4. p \in handler.touched => Current(d, p) \/ p \in handler.ids
  BY <1>1 DEF TouchedCovered
<1>5. Covers(reply, d, p)
  BY <1>2, <1>4, ListsCover
<1> HIDE DEF reply
<1> QED
  BY <1>1, <1>2, <1>3, <1>5, LastPublished

\* Nobody else sends anything to a device.
LEMMA OthersSendNothing ==
  ASSUME TypeOK, [Next]_vars, \A d \in Device : ~FetchProcessList(d),
         ~GetAllModifiedProcessAndPublish, ~ProcessNotFound, NEW c \in Device
  PROVE  ~ (Len(toDevice'[c]) > Len(toDevice[c]))
<1>1. toDevice[c] \in Seq(ReplyType) /\ Len(toDevice[c]) \in Nat
  BY DEF TypeOK
<1>2. ASSUME NEW d \in Device, toDevice[d] # <<>>,
             toDevice' = [toDevice EXCEPT ![d] = Tail(@)]
      PROVE  toDevice'[c] \in {toDevice[c], Tail(toDevice[c])} /\
               (toDevice'[c] # toDevice[c] => toDevice[c] # <<>>)
  BY <1>2 DEF TypeOK
<1>3. toDevice[c] # <<>> => Len(Tail(toDevice[c])) = Len(toDevice[c]) - 1
  BY <1>1, HeadTailProperties
<1>4. ASSUME NEW d \in Device,
             LoseToDevice(d) \/ \E received \in BOOLEAN : ReceiveReply(d, received)
      PROVE  ~ (Len(toDevice'[c]) > Len(toDevice[c]))
  BY <1>1, <1>2, <1>3, <1>4 DEF LoseToDevice, ReceiveReply
<1>5. ASSUME NEW d \in Device, Restart(d)
      PROVE  ~ (Len(toDevice'[c]) > Len(toDevice[c]))
  <2>1. toDevice'[c] \in {toDevice[c], <<>>}
    BY <1>5 DEF Restart, TypeOK
  <2>2. Len(<<>>) = 0
    OBVIOUS
  <2> QED
    BY <1>1, <2>1, <2>2
<1>6. CASE UNCHANGED toDevice
  BY <1>1, <1>6
<1>7. ASSUME NEW d \in Device,
             \/ UpdateProcessList(d) \/ SaveAmsProcessSyncLog(d)
             \/ SaveAmsProcessSyncLogFails(d) \/ RejectAck(d)
             \/ LoseToPlatform(d)
             \/ \E details \in Uploads : SendRequest(d, details)
      PROVE  UNCHANGED toDevice
  BY <1>7 DEF UpdateProcessList, SaveAmsProcessSyncLog, RejectAck,
     SaveAmsProcessSyncLogFails, LoseToPlatform, SendRequest
<1>8. CASE SyncProcessStep
  BY <1>6, <1>7, <1>8 DEF SyncProcessStep, CompareDetail, UpdateProcess,
     UpdateProcessFails, InsertProcess, InsertProcessFails,
     UnsyncedOtherAmsDevices, NothingTouched
<1>9. CASE SyncAckProcessStep \/ HandlerException
  BY <1>6, <1>7, <1>9 DEF SyncAckProcessStep, CountNotSyncedAmsDevices,
     UpdateProcessModifiedStatus, HandlerException
<1>10. CASE DeviceStep \/ EnvironmentStep
  BY <1>4, <1>5, <1>6, <1>7, <1>10 DEF DeviceStep, EnvironmentStep, Crash,
     PlatformEdit
<1> QED
  BY <1>6, <1>8, <1>9, <1>10 DEF Next, vars

\* Every list, and every "already synced", leaves the device that receives it
\* with nothing missing: what the two queries of getAllModifiedProcessAndPublish
\* leave out, because the upload has touched it, its sender holds already or
\* learns from the ids in the reply.  If the platform's own application edits a
\* row between the upload and the reply, or a failed write is swallowed, the
\* touched rows are no longer those the sender holds.
THEOREM RepliesLeaveNothingOut ==
  ASSUME Modified = {1}, StrayIds = {}, MaxPlatformEdits = 0,
         "write" \notin Faulty
  PROVE  Spec => ReplyCoversUnseen
<1> DEFINE Inv == DurabilityInv /\ TouchedCovered
           Step == \A d \in Device :
                     LET reply == toDevice'[d][Len(toDevice'[d])]
                     IN Len(toDevice'[d]) > Len(toDevice[d])
                        /\ reply.type # "notFound"
                          => \A p \in Rows : Covers(reply, d, p)
<1>1. Init => Inv
  BY InitDurability DEF Init, TouchedCovered, Idle
<1>2. Inv /\ [Next]_vars => Inv'
  BY DurabilityStep, TouchedStep
<1>3. Inv /\ [Next]_vars => Step
  <2> SUFFICES ASSUME DurabilityInv, TouchedCovered, [Next]_vars,
                      NEW c \in Device, Len(toDevice'[c]) > Len(toDevice[c]),
                      NEW p \in Rows
               PROVE  Covers(toDevice'[c][Len(toDevice'[c])], c, p)
    OBVIOUS
  <2>1. TypeOK /\ ~ProcessNotFound
    BY AlwaysFound DEF DurabilityInv, TypeInv
  <2> QED
    BY <2>1, FetchCovers, PublishCovers, OthersSendNothing
<1>4. Spec => [][Step]_vars
  BY <1>1, <1>2, <1>3, PTL DEF Spec
<1> QED
  BY <1>4 DEF ReplyCoversUnseen

=============================================================================
