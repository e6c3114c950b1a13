---------------------------- MODULE ProcessSync ----------------------------
(***************************************************************************)
(* Synchronisation of the process catalogue between the platform and the   *)
(* AMS devices: the topics sync/process and sync/ack/process with the two  *)
(* tables behind them (ProcessDAO, ProcessSyncLog, and the two cases of    *)
(* MqttMessageHandler that call them), and the device at the other end.    *)
(*                                                                         *)
(* The MQTT client calls every handler on one callback thread, so at most  *)
(* one handler runs at a time.  Each of its database statements commits on *)
(* its own connection, so a crash, a failed statement or another writer of *)
(* process_master can fall between any two of them: the handler is a       *)
(* program counter, and an action is one committed step of it.             *)
(*                                                                         *)
(* Everything is published with QoS 0 over clean sessions: a message in    *)
(* flight can be lost, and is never duplicated or overtaken.               *)
(*                                                                         *)
(* A row's content is its version number: `ver' counts the writes of the   *)
(* row, 0 meaning that there is no row.                                    *)
(***************************************************************************)
EXTENDS Naturals, Sequences, FiniteSets, ProcessIdGenerator

CONSTANTS
  Device,            \* the AMS devices (their client ids)
  Time,              \* the timestamps updated_on takes, 0 the oldest
  Modified,          \* the values of `modified' that devices upload
  MaxPid,            \* bound: process ids are 1 .. MaxPid
  InitRows,          \* process_master starts with the rows 1 .. InitRows
  StrayIds,          \* ids a device may upload that no row has
  MaxBatch,          \* bound: process details in one upload
  MaxRequests,       \* bound: messages the devices send on sync/process
  MaxPlatformEdits,  \* bound: edits by the application that owns the table
  MaxCrashes,        \* bound: crashes of the platform
  MaxFaults,         \* bound: failures of a statement
  Faulty             \* which steps may fail: of {"write", "ack", "abort"}

ASSUME ProcessSyncAssumption ==
  /\ Time \subseteq Nat /\ 0 \in Time
  /\ Modified \subseteq {0, 1}
  /\ MaxPid \in Nat /\ MaxPid < FirstWide
  /\ InitRows \in 0 .. MaxPid
  /\ StrayIds \subseteq Nat \ (0 .. MaxPid)
  /\ MaxBatch \in Nat
  /\ Faulty \subseteq {"write", "ack", "abort"}

VARIABLES
  master,      \* process_master: the row of each process id
  log,         \* ams_process_sync: "none" (no record), "synced", "unsynced"
  handler,     \* the handler on the callback thread
  toPlatform,  \* messages in flight from each device
  toDevice,    \* messages in flight to each device
  waiting,     \* the device has sent a request and had no answer since
  held,        \* the newest version of each row the device has received
  best,        \* the newest stamp given to each row by what was processed
  sent, edits, crashes, faults   \* counted against the bounds

vars == <<master, log, handler, toPlatform, toDevice, waiting, held, best,
          sent, edits, crashes, faults>>

budget == <<sent, edits, crashes, faults>>

-----------------------------------------------------------------------------
(* Rows, messages and the handler's local variables.                        *)

Pid == 1 .. MaxPid

NoId == 0   \* an upload without process id; also a failed insert's "null"

Row == [modified : {0, 1}, updatedOn : Time, ver : Nat]

NoRow == [modified |-> 0, updatedOn |-> 0, ver |-> 0]

Rows == {p \in Pid : master[p].ver # 0}

Stamp == [modified : {0, 1}, updatedOn : Time]

Detail == [id : {NoId} \cup Pid \cup StrayIds, modified : Modified,
           updatedOn : Time]

\* an AmsProcess upload, or the acknowledgement of a reply
Upload(details) == [type |-> "process", details |-> details]
Ack(received)   == [type |-> IF received THEN "ack" ELSE "nack",
                    details |-> <<>>]

\* a listed row, as resultToProcessBuilderMapper sends it
Listed(p) == [id |-> p, ver |-> master[p].ver]

\* what the platform answers: a list with the ids it has given to inserts,
\* or one of the two response messages
ListReply(ps, ids) == [type |-> "list", rows |-> {Listed(p) : p \in ps},
                       ids |-> ids]
SyncedReply        == [type |-> "synced", rows |-> {}, ids |-> {}]
NotFoundReply      == [type |-> "notFound", rows |-> {}, ids |-> {}]

\* pc: what the handler does next; rest: details not processed yet;
\* touched: updatedIds; ids: the processIds of the reply under construction
Handler(pc, d, rest, touched, ids) ==
  [pc |-> pc, client |-> d, rest |-> rest, touched |-> touched, ids |-> ids]

Idle == [pc |-> "idle"]

Newer(a, b) ==
  \/ a.modified > b.modified
  \/ a.modified = b.modified /\ a.updatedOn > b.updatedOn

StampOf(x) == [modified |-> x.modified, updatedOn |-> x.updatedOn]

Newest(a, b) == IF Newer(a, b) THEN StampOf(a) ELSE StampOf(b)

\* the row after `detail' has been written over it
Written(row, detail) ==
  [modified |-> detail.modified, updatedOn |-> detail.updatedOn,
   ver |-> row.ver + 1]

Known(d) == log[d] # "none"

Publish(d, reply) == toDevice' = [toDevice EXCEPT ![d] = Append(@, reply)]

Consume(d) == toPlatform' = [toPlatform EXCEPT ![d] = Tail(@)]

Arrived(d, type) ==
  /\ handler.pc = "idle"
  /\ toPlatform[d] # <<>>
  /\ Head(toPlatform[d]).type = type

\* one of the allowed failures happens
Fault(kind) ==
  /\ kind \in Faulty
  /\ faults < MaxFaults
  /\ faults' = faults + 1
  /\ UNCHANGED <<sent, edits, crashes>>

-----------------------------------------------------------------------------
Init ==
  /\ master = [p \in Pid |-> IF p <= InitRows THEN [NoRow EXCEPT !.ver = 1]
                                              ELSE NoRow]
  /\ log = [d \in Device |-> "none"]
  /\ handler = Idle
  /\ toPlatform = [d \in Device |-> <<>>]
  /\ toDevice = [d \in Device |-> <<>>]
  /\ waiting = [d \in Device |-> FALSE]
  /\ held = [d \in Device |-> [p \in Pid |-> 0]]
  /\ best = [p \in Pid |-> StampOf(NoRow)]
  /\ sent = 0 /\ edits = 0 /\ crashes = 0 /\ faults = 0

(* ProcessDAO: the handler of sync/process.                                 *)

\* Mutant: an unknown device is treated as a known one.
RowsForAnyDevice(d, excluded) ==
  {p \in Rows \ excluded : master[p].modified = 1}

\* QUERY_FETCH_UNSYNCED_PROCESS for a device in ams_process_sync, otherwise
\* QUERY_FETCH_ALL_PROCESS; the two queries of getAllModifiedProcessAndPublish
\* exclude the touched rows
RowsFor(d, excluded) ==
  {p \in Rows \ excluded : Known(d) => master[p].modified = 1}

\* An empty upload asks for the list.
FetchProcessList(d) ==
  /\ Arrived(d, "process")
  /\ Head(toPlatform[d]).details = <<>>
  /\ LET ps == RowsFor(d, {}) IN
       Publish(d, IF ps # {} THEN ListReply(ps, {}) ELSE SyncedReply)
  /\ Consume(d)
  /\ UNCHANGED <<master, log, handler, waiting, held, best, budget>>

UpdateProcessList(d) ==
  /\ Arrived(d, "process")
  /\ Head(toPlatform[d]).details # <<>>
  /\ handler' = Handler("next", d, Head(toPlatform[d]).details, {}, {})
  /\ Consume(d)
  /\ UNCHANGED <<master, log, toDevice, waiting, held, best, budget>>

AtDetail(pc) == handler.pc = pc /\ handler.rest # <<>>

\* Mutant: the timestamps are not compared.
CompareDetailIgnoringTime ==
  /\ AtDetail("next")
  /\ LET detail == Head(handler.rest) IN
       /\ detail.id \in Rows
       /\ handler' = IF detail.modified >= master[detail.id].modified
                     THEN [handler EXCEPT !.pc = "write"]
                     ELSE [handler EXCEPT !.rest = Tail(@)]
  /\ UNCHANGED <<master, log, toPlatform, toDevice, waiting, held, best, budget>>

\* The row is read; whether it is overwritten is decided on what was read.
CompareDetail ==
  /\ AtDetail("next")
  /\ LET detail == Head(handler.rest) IN
       /\ detail.id \in Rows
       /\ handler' = IF Newer(detail, master[detail.id])
                     THEN [handler EXCEPT !.pc = "write"]
                     ELSE [handler EXCEPT !.rest = Tail(@)]
  /\ UNCHANGED <<master, log, toPlatform, toDevice, waiting, held, best, budget>>

\* The uploader is told, and the rest of the upload is dropped.
ProcessNotFound ==
  /\ AtDetail("next")
  /\ Head(handler.rest).id \notin Rows \cup {NoId}
  /\ Publish(handler.client, NotFoundReply)
  /\ handler' = Idle
  /\ UNCHANGED <<master, log, toPlatform, waiting, held, best, budget>>

\* The loop goes on with the next detail, counting this one as done.
NextDetail(touched, ids) ==
  handler' = [handler EXCEPT !.pc = "next", !.rest = Tail(@),
                             !.touched = @ \cup touched, !.ids = @ \cup ids]

\* Row p gets the content of `detail', which the uploader holds already if
\* it knows the row's id.
StoreRow(p, detail) ==
  /\ master' = [master EXCEPT ![p] = Written(@, detail)]
  /\ best' = [best EXCEPT ![p] = Newest(detail, @)]

UpdateProcess ==
  /\ AtDetail("write")
  /\ LET detail == Head(handler.rest)
         p == detail.id
     IN /\ StoreRow(p, detail)
        /\ held' = [held EXCEPT ![handler.client][p] = master[p].ver + 1]
        /\ NextDetail({p}, {})
  /\ UNCHANGED <<log, toPlatform, toDevice, waiting, budget>>

\* updateProcess swallows its exception and returns nothing.
UpdateProcessFails ==
  /\ AtDetail("write")
  /\ Fault("write")
  /\ NextDetail({Head(handler.rest).id}, {})
  /\ UNCHANGED <<master, log, toPlatform, toDevice, waiting, held, best>>

\* Bound: generate(Rows) \in Pid.
InsertProcess ==
  /\ AtDetail("next")
  /\ Head(handler.rest).id = NoId
  /\ LET p == generate(Rows) IN
       /\ p \in Pid
       /\ StoreRow(p, Head(handler.rest))
       /\ NextDetail({p}, {p})
  /\ UNCHANGED <<log, toPlatform, toDevice, waiting, held, budget>>

\* Mutant: the null id is put into the reply.
InsertProcessFailsUnchecked ==
  /\ AtDetail("next")
  /\ Head(handler.rest).id = NoId
  /\ Fault("write")
  /\ NextDetail({NoId}, {NoId})
  /\ UNCHANGED <<master, log, toPlatform, toDevice, waiting, held, best>>

\* insertProcess returns null, and "null" joins the updated ids.
InsertProcessFails ==
  /\ AtDetail("next")
  /\ Head(handler.rest).id = NoId
  /\ Fault("write")
  /\ NextDetail({NoId}, {})
  /\ UNCHANGED <<master, log, toPlatform, toDevice, waiting, held, best>>

EndOfDetails == handler.pc = "next" /\ handler.rest = <<>>

UnsyncedOtherAmsDevices ==
  /\ EndOfDetails
  /\ handler.touched # {}
  /\ log' = [d \in Device |-> IF d # handler.client /\ Known(d)
                              THEN "unsynced" ELSE log[d]]
  /\ handler' = [handler EXCEPT !.pc = "publish"]
  /\ UNCHANGED <<master, toPlatform, toDevice, waiting, held, best, budget>>

\* insertOrUpdate is 0: the handler returns without an answer.
NothingTouched ==
  /\ EndOfDetails
  /\ handler.touched = {}
  /\ handler' = Idle
  /\ UNCHANGED <<master, log, toPlatform, toDevice, waiting, held, best, budget>>

GetAllModifiedProcessAndPublish ==
  /\ handler.pc = "publish"
  /\ Publish(handler.client,
             ListReply(RowsFor(handler.client, handler.touched), handler.ids))
  /\ handler' = Idle
  /\ UNCHANGED <<master, log, toPlatform, waiting, held, best, budget>>

(* MqttMessageHandler and ProcessSyncLog: the handler of sync/ack/process.  *)

SaveAmsProcessSyncLog(d) ==
  /\ Arrived(d, "ack")
  /\ log' = [log EXCEPT ![d] = "synced"]
  /\ handler' = Handler("count", d, <<>>, {}, {})
  /\ Consume(d)
  /\ UNCHANGED <<master, toDevice, waiting, held, best, budget>>

\* The failure is logged, and the handler goes on to count all the same.
SaveAmsProcessSyncLogFails(d) ==
  /\ Arrived(d, "ack")
  /\ Fault("ack")
  /\ handler' = Handler("count", d, <<>>, {}, {})
  /\ Consume(d)
  /\ UNCHANGED <<master, log, toDevice, waiting, held, best>>

CountNotSyncedAmsDevices ==
  /\ handler.pc = "count"
  /\ handler' = IF \E d \in Device : log[d] = "unsynced"
                THEN Idle
                ELSE [handler EXCEPT !.pc = "reset"]
  /\ UNCHANGED <<master, log, toPlatform, toDevice, waiting, held, best, budget>>

\* What the database holds when the connection of a transaction with
\* autocommit off is closed: the pool rolls back what was not committed.
AfterClose(before, after, committed) == IF committed THEN after ELSE before

AllReset(rows) ==
  [p \in Pid |-> [rows[p] EXCEPT !.modified = 0]]

\* Mutant: the transaction is committed.
UpdateProcessModifiedStatusCommitted ==
  /\ handler.pc = "reset"
  /\ master' = AfterClose(master, AllReset(master), TRUE)
  /\ handler' = Idle
  /\ UNCHANGED <<log, toPlatform, toDevice, waiting, held, best, budget>>

\* updateProcessModifiedStatus calls setAutoCommit(false) and never commits.
UpdateProcessModifiedStatus ==
  /\ handler.pc = "reset"
  /\ master' = AfterClose(master, AllReset(master), FALSE)
  /\ handler' = Idle
  /\ UNCHANGED <<log, toPlatform, toDevice, waiting, held, best, budget>>

\* An acknowledgement with received = false (or client id 0) is answered on
\* error/sync/process, to which no device subscribes.
RejectAck(d) ==
  /\ Arrived(d, "nack")
  /\ Consume(d)
  /\ UNCHANGED <<master, log, handler, toDevice, waiting, held, best, budget>>

\* An exception the handler catches: the rest of it is skipped.
HandlerException ==
  /\ handler.pc # "idle"
  /\ Fault("abort")
  /\ handler' = Idle
  /\ UNCHANGED <<master, log, toPlatform, toDevice, waiting, held, best>>

-----------------------------------------------------------------------------
(* The environment: crashes, the network, the table's owner, the devices.   *)

\* The broker keeps nothing for a clean session.
Crash ==
  /\ crashes < MaxCrashes
  /\ crashes' = crashes + 1
  /\ handler' = Idle
  /\ toPlatform' = [d \in Device |-> <<>>]
  /\ UNCHANGED <<master, log, toDevice, waiting, held, best, sent, edits, faults>>

LoseToPlatform(d) ==
  /\ toPlatform[d] # <<>>
  /\ Consume(d)
  /\ UNCHANGED <<master, log, handler, toDevice, waiting, held, best, budget>>

LoseToDevice(d) ==
  /\ toDevice[d] # <<>>
  /\ toDevice' = [toDevice EXCEPT ![d] = Tail(@)]
  /\ UNCHANGED <<master, log, handler, toPlatform, waiting, held, best, budget>>

PlatformEdit(p, t) ==
  /\ edits < MaxPlatformEdits
  /\ edits' = edits + 1
  /\ StoreRow(p, [modified |-> 1, updatedOn |-> t])
  /\ UNCHANGED <<log, handler, toPlatform, toDevice, waiting, held, sent,
                 crashes, faults>>

\* The ids d can name: those of rows it has received, and the stray ones.
NamableBy(d) == {NoId} \cup StrayIds \cup {p \in Pid : held[d][p] # 0}

SendRequest(d, details) ==
  /\ sent < MaxRequests
  /\ ~waiting[d]
  /\ \A i \in DOMAIN details : details[i].id \in NamableBy(d)
  /\ sent' = sent + 1
  /\ toPlatform' = [toPlatform EXCEPT ![d] = Append(@, Upload(details))]
  /\ waiting' = [waiting EXCEPT ![d] = TRUE]
  /\ UNCHANGED <<master, log, handler, toDevice, held, best, edits, crashes, faults>>

\* What the reply tells of row p: the listed version, or the first version
\* of a row the upload has inserted.
Told(reply, p) ==
  {r.ver : r \in {x \in reply.rows : x.id = p}}
    \cup (IF p \in reply.ids THEN {1} ELSE {})

HeldAfter(have, reply) ==
  [p \in Pid |-> IF \E v \in Told(reply, p) : v > have[p]
                 THEN CHOOSE v \in Told(reply, p) : v > have[p]
                 ELSE have[p]]

\* The device acknowledges every reply, the response messages included; it
\* reports received = false only if it could not store a list.
ReceiveReply(d, received) ==
  /\ toDevice[d] # <<>>
  /\ LET reply == Head(toDevice[d]) IN
       /\ received \/ reply.type = "list"
       /\ held' = [held EXCEPT ![d] = IF received THEN HeldAfter(@, reply) ELSE @]
  /\ toDevice' = [toDevice EXCEPT ![d] = Tail(@)]
  /\ toPlatform' = [toPlatform EXCEPT ![d] = Append(@, Ack(received))]
  /\ waiting' = [waiting EXCEPT ![d] = FALSE]
  /\ UNCHANGED <<master, log, handler, best, budget>>

\* The device keeps its copy of the catalogue, and asks again.
Restart(d) ==
  /\ waiting[d]
  /\ waiting' = [waiting EXCEPT ![d] = FALSE]
  /\ toDevice' = [toDevice EXCEPT ![d] = <<>>]
  /\ UNCHANGED <<master, log, handler, toPlatform, held, best, budget>>

-----------------------------------------------------------------------------
Uploads == UNION {[1 .. n -> Detail] : n \in 0 .. MaxBatch}

SyncProcessStep ==
  \/ \E d \in Device : FetchProcessList(d) \/ UpdateProcessList(d)
  \/ CompareDetail \/ ProcessNotFound
  \/ UpdateProcess \/ UpdateProcessFails
  \/ InsertProcess \/ InsertProcessFails
  \/ UnsyncedOtherAmsDevices \/ NothingTouched
  \/ GetAllModifiedProcessAndPublish

SyncAckProcessStep ==
  \/ \E d \in Device : SaveAmsProcessSyncLog(d) \/ SaveAmsProcessSyncLogFails(d)
  \/ CountNotSyncedAmsDevices
  \/ UpdateProcessModifiedStatus
  \/ \E d \in Device : RejectAck(d)

DeviceStep ==
  \E d \in Device :
    \/ \E details \in Uploads : SendRequest(d, details)
    \/ \E received \in BOOLEAN : ReceiveReply(d, received)
    \/ Restart(d)

EnvironmentStep ==
  \/ Crash
  \/ \E d \in Device : LoseToPlatform(d) \/ LoseToDevice(d)
  \/ \E p \in Rows, t \in Time : PlatformEdit(p, t)

Next ==
  SyncProcessStep \/ SyncAckProcessStep \/ HandlerException \/ DeviceStep
    \/ EnvironmentStep

Spec == Init /\ [][Next]_vars

-----------------------------------------------------------------------------
(* Types.                                                                   *)

ReplyType == [type : {"list", "synced", "notFound"},
              rows : SUBSET [id : Pid, ver : Nat], ids : SUBSET Pid]

MessageType == [type : {"process", "ack", "nack"}, details : Seq(Detail)]

HandlerType ==
  {Idle} \cup [pc : {"next", "write", "publish", "count", "reset"},
               client : Device, rest : Seq(Detail),
               touched : SUBSET (Pid \cup {NoId}), ids : SUBSET Pid]

\* The types of the tables, the handler's locals and the messages.
TypeOK ==
  /\ master \in [Pid -> Row]
  /\ log \in [Device -> {"none", "synced", "unsynced"}]
  /\ handler \in HandlerType
  /\ toPlatform \in [Device -> Seq(MessageType)]
  /\ toDevice \in [Device -> Seq(ReplyType)]
  /\ waiting \in [Device -> BOOLEAN]
  /\ held \in [Device -> [Pid -> Nat]]
  /\ best \in [Pid -> Stamp]
  /\ sent \in Nat /\ edits \in Nat /\ crashes \in Nat /\ faults \in Nat

\* The detail a write is about to store is that of an existing row.
WriteDecided ==
  handler.pc = "write" => handler.rest # <<>> /\ Head(handler.rest).id \in Rows

TypeInv == TypeOK /\ WriteDecided

(* Safety.                                                                  *)

\* In process_master every row carries the newest stamp it was ever given,
\* in whatever order, and with whatever crashes and failures between the
\* statements, the uploads of the devices were processed: the comparison in
\* updateProcessList is decided on a row nobody changes before the write.
\* It takes the platform to be the only writer (MaxPlatformEdits = 0).
NewestEditWins == \A p \in Rows : StampOf(master[p]) = best[p]

\* What makes NewestEditWins inductive: the ghost is exact for every id, the
\* unused ones included, and what a write is about to store is newer than the
\* row as it is now, not only as it was read.
StampsAreBest ==
  \A p \in Pid : /\ StampOf(master[p]) = best[p]
                 /\ p \notin Rows => master[p] = NoRow

WriteIsNewer ==
  handler.pc = "write" =>
    Newer(Head(handler.rest), master[Head(handler.rest).id])

ConvergenceInv == TypeInv /\ StampsAreBest /\ WriteIsNewer

\* The device holds the current version of the row.
Current(d, p) == held[d][p] = master[p].ver

\* A known device is only ever listed rows flagged is_modified, so a row it
\* lacks must be one of those: otherwise no later request could bring it.
\* It takes devices that upload what they have modified (Modified = {1}) and
\* name no foreign ids (StrayIds = {}).
NothingLostForGood ==
  \A d \in Device : Known(d) =>
    \A p \in Rows : Current(d, p) \/ master[p].modified = 1

Covers(reply, d, p) ==
  Current(d, p) \/ Listed(p) \in reply.rows \/ p \in reply.ids

\* Every list, and every "already synced", leaves the device that receives
\* it with nothing missing: each row is held already, or listed, or is an
\* insert of this upload whose id the reply carries.  Under the assumptions
\* of NothingLostForGood, with the platform as the only writer (an edit of a
\* row the upload has touched would be left out), and no swallowed failure of
\* a write.
ReplyCoversUnseen ==
  [][\A d \in Device :
       LET reply == toDevice'[d][Len(toDevice'[d])]
       IN Len(toDevice'[d]) > Len(toDevice[d]) /\ reply.type # "notFound"
            => \A p \in Rows : Covers(reply, d, p)]_vars

-----------------------------------------------------------------------------
(* What comments of the code say, and the code does not do.                 *)

\* "update modified status to 0 in process master": when the handler gets
\* past that step, no row is flagged any more.
ResetClears ==
  [][handler.pc = "reset" /\ handler' = Idle
       => \A p \in Rows : master'[p].modified = 0]_vars

\* "all ams devices have been synced": when every record in ams_process_sync
\* says so and the flags are about to be reset, it is true.
AllSyncedIsTrue ==
  handler.pc = "reset" =>
    \A d \in Device : Known(d) => \A p \in Rows : Current(d, p)

\* "process(es) is/are already synced to device": a device that is told so
\* holds every row.
AlreadySyncedIsTrue ==
  [][\A d \in Device :
       toDevice'[d] = Append(toDevice[d], SyncedReply) =>
         \A p \in Rows : Current(d, p)]_vars

=============================================================================
