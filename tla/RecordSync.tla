----------------------------- MODULE RecordSync -----------------------------
(***************************************************************************)
(* Synchronisation of users and of schedules from the platform to the      *)
(* devices: the topics sync/users/request, sync/ack/users and their        *)
(* counterparts for schedules (UserDAO, UserSyncLog, ScheduleDAO,          *)
(* ScheduleSyncLog, and four cases of MqttMessageHandler).  The two work   *)
(* alike; a user is of interest to every device, a schedule to its own.    *)
(*                                                                         *)
(* The records are edited by the application that owns user_master and     *)
(* schedule_master.  What a known device is sent is decided by two         *)
(* timestamps in whole seconds: the record's updated_on, the second of the *)
(* database in which it was edited, and the device's last_synced_on, the   *)
(* platform's milliseconds rounded by the column.  The clock counts half   *)
(* seconds, which tell rounding from cutting off; many things happen       *)
(* within one of them.  A record's content is its version number.          *)
(*                                                                         *)
(* A handler reads one snapshot and publishes one answer, or dies: it is   *)
(* one action.  Channels are as in ProcessSync: lossy and in order.        *)
(***************************************************************************)
EXTENDS Naturals, Sequences

CONSTANTS
  Device,        \* the AMS devices
  Record,        \* the records of the table
  Everyone,      \* the owner of a record of interest to every device
  Roleless,      \* users without a role in user_role_map
  MaxTime,       \* bound: half seconds
  MaxEdits,      \* bound: edits of records
  MaxRequests,   \* bound: requests the devices send
  MaxFaults      \* bound: failures to save an acknowledgement

ASSUME RecordSyncAssumption ==
  /\ Everyone \notin Device
  /\ Roleless \subseteq Record
  /\ MaxTime \in Nat

VARIABLES
  now,         \* the clock of the platform and its database, in half seconds
  owner,       \* the device a schedule is for (ams_id), or Everyone
  ver,         \* the version of each record
  updatedOn,   \* its updated_on
  incomplete,  \* the records with a NULL in a column the message requires
  unverified,  \* the users whose token_status is not VERIFIED
  last,        \* last_synced_on of each device, Never if it has no record
  toPlatform,  \* messages in flight from each device
  toDevice,    \* messages in flight to each device
  waiting,     \* the device has sent a request and had no answer since
  held,        \* the newest version of each record the device has received
  overtaken,   \* the version was written while an answer was on its way, or
               \* in a second that an acknowledgement has rounded up
  sent, edits, faults

table == <<owner, ver, updatedOn, incomplete, unverified>>

budget == <<sent, edits, faults>>

vars == <<now, table, last, toPlatform, toDevice, waiting, held, overtaken,
          budget>>

-----------------------------------------------------------------------------
\* CURRENT_TIMESTAMP, and a time with a fraction in a column without.
Second == now \div 2

Rounded == (now + 1) \div 2

Never == MaxTime + 1

Known(d) == last[d] # Never

\* WHERE ams_id = ?; for the users, WHERE token_status = 'VERIFIED'.
OfInterest(d) == {r \in Record : owner[r] \in {d, Everyone}} \ unverified

\* Of a user without roles no message is built.
Due(d) == {r \in OfInterest(d) : ~ (r \in Roleless /\ owner[r] = Everyone)}

\* A device asks, or acknowledges an answer.
Message == {"request", "ack", "nack"}

\* An answer is a list of records, or the message that there are none.
Listed(r) == [id |-> r, ver |-> ver[r]]

Answer(rs) == {Listed(r) : r \in rs}

Publish(d, answer) == toDevice' = [toDevice EXCEPT ![d] = Append(@, answer)]

Consume(d) == toPlatform' = [toPlatform EXCEPT ![d] = Tail(@)]

Arrived(d, message) == toPlatform[d] # <<>> /\ Head(toPlatform[d]) = message

\* An answer to d, or d's acknowledgement of one, is on its way.
AnswerUnderway(d) ==
  \/ toDevice[d] # <<>>
  \/ \E i \in DOMAIN toPlatform[d] : toPlatform[d][i] = "ack"

\* d's last acknowledgement is dated with a second that has not begun.
DatedAhead(d) == Known(d) /\ last[d] > Second

Init ==
  /\ now = 0
  /\ owner \in {[r \in Record |-> Everyone]} \cup [Record -> Device]
  /\ ver = [r \in Record |-> 1]
  /\ updatedOn = [r \in Record |-> 0]
  /\ incomplete = {}
  /\ unverified \in SUBSET {r \in Record : owner[r] = Everyone}
  /\ last = [d \in Device |-> Never]
  /\ toPlatform = [d \in Device |-> <<>>]
  /\ toDevice = [d \in Device |-> <<>>]
  /\ waiting = [d \in Device |-> FALSE]
  /\ held = [d \in Device |-> [r \in Record |-> 0]]
  /\ overtaken = [d \in Device |-> [r \in Record |-> FALSE]]
  /\ sent = 0 /\ edits = 0 /\ faults = 0

(* The platform.                                                            *)

\* Mutant: BETWEEN without its lower end.
SelectedAfter(d) ==
  {r \in OfInterest(d) :
     Known(d) => updatedOn[r] > last[d] /\ updatedOn[r] <= Second}

\* QUERY_FETCH_ALL_... for a device without a record, otherwise
\* QUERY_FETCH_UNSYNCED_...: updated_on BETWEEN last_synced_on AND now.
Selected(d) ==
  {r \in OfInterest(d) :
     Known(d) => last[d] <= updatedOn[r] /\ updatedOn[r] <= Second}

Sent(d) == Selected(d) \cap Due(d)

\* getUsersService, getSchedulesService.  With nothing selected the device is
\* told that it is synced already; a list, though, may be empty.
GetService(d) ==
  /\ Arrived(d, "request")
  /\ Sent(d) \cap incomplete = {}
  /\ Publish(d, IF Selected(d) = {} THEN [type |-> "synced", rows |-> {}]
                                    ELSE [type |-> "list", rows |-> Answer(Sent(d))])
  /\ Consume(d)
  /\ UNCHANGED <<now, table, last, waiting, held, overtaken, budget>>

\* The message builder throws on a NULL, and the device gets no answer.
GetServiceFails(d) ==
  /\ Arrived(d, "request")
  /\ Sent(d) \cap incomplete # {}
  /\ Consume(d)
  /\ UNCHANGED <<now, table, last, toDevice, waiting, held, overtaken,
                 budget>>

\* Mutant: the timestamp is that of the next second, whatever the fraction.
SaveSyncLogAhead(d) ==
  /\ Arrived(d, "ack")
  /\ last' = [last EXCEPT ![d] = Second + 1]
  /\ Consume(d)
  /\ UNCHANGED <<now, table, toDevice, waiting, held, overtaken, budget>>

\* saveAmsUserSyncLog, saveAmsScheduleSyncLog: the time is that at which the
\* acknowledgement arrives, with its milliseconds; the column rounds it.
SaveSyncLog(d) ==
  /\ Arrived(d, "ack")
  /\ last' = [last EXCEPT ![d] = Rounded]
  /\ Consume(d)
  /\ UNCHANGED <<now, table, toDevice, waiting, held, overtaken, budget>>

\* Its exceptions are logged and forgotten.
SaveSyncLogFails(d) ==
  /\ Arrived(d, "ack")
  /\ faults < MaxFaults
  /\ faults' = faults + 1
  /\ Consume(d)
  /\ UNCHANGED <<now, table, last, toDevice, waiting, held, overtaken, sent,
                 edits>>

\* The answer goes to error/sync/..., to which no device subscribes.
RejectAck(d) ==
  /\ Arrived(d, "nack")
  /\ Consume(d)
  /\ UNCHANGED <<now, table, last, toDevice, waiting, held, overtaken,
                 budget>>

(* The environment.                                                         *)

Tick ==
  /\ now < MaxTime
  /\ now' = now + 1
  /\ UNCHANGED <<table, last, toPlatform, toDevice, waiting, held, overtaken,
                 budget>>

\* The new version may have a NULL where the old one had none.  Verifying a
\* user is an edit too.
Edit(r, isComplete, isVerified) ==
  /\ edits < MaxEdits
  /\ isVerified \/ owner[r] = Everyone
  /\ edits' = edits + 1
  /\ ver' = [ver EXCEPT ![r] = @ + 1]
  /\ updatedOn' = [updatedOn EXCEPT ![r] = Second]
  /\ incomplete' = IF isComplete THEN incomplete \ {r} ELSE incomplete \cup {r}
  /\ unverified' = IF isVerified THEN unverified \ {r} ELSE unverified \cup {r}
  /\ overtaken' = [d \in Device |->
                    [overtaken[d] EXCEPT ![r] = AnswerUnderway(d) \/ DatedAhead(d)]]
  /\ UNCHANGED <<now, owner, last, toPlatform, toDevice, waiting, held, sent,
                 faults>>

LoseToPlatform(d) ==
  /\ toPlatform[d] # <<>>
  /\ Consume(d)
  /\ UNCHANGED <<now, table, last, toDevice, waiting, held, overtaken,
                 budget>>

LoseToDevice(d) ==
  /\ toDevice[d] # <<>>
  /\ toDevice' = [toDevice EXCEPT ![d] = Tail(@)]
  /\ UNCHANGED <<now, table, last, toPlatform, waiting, held, overtaken,
                 budget>>

(* The devices.                                                             *)

SendRequest(d) ==
  /\ sent < MaxRequests
  /\ ~waiting[d]
  /\ sent' = sent + 1
  /\ toPlatform' = [toPlatform EXCEPT ![d] = Append(@, "request")]
  /\ waiting' = [waiting EXCEPT ![d] = TRUE]
  /\ UNCHANGED <<now, table, last, toDevice, held, overtaken, edits, faults>>

HeldAfter(have, answer) ==
  [r \in Record |-> IF \E row \in answer.rows : row.id = r /\ row.ver > have[r]
                    THEN (CHOOSE row \in answer.rows : row.id = r).ver
                    ELSE have[r]]

\* Every answer is acknowledged; received = false if a list was not stored.
ReceiveAnswer(d, received) ==
  /\ toDevice[d] # <<>>
  /\ LET answer == Head(toDevice[d]) IN
       /\ received \/ answer.type = "list"
       /\ held' = [held EXCEPT ![d] = IF received THEN HeldAfter(@, answer) ELSE @]
  /\ toDevice' = [toDevice EXCEPT ![d] = Tail(@)]
  /\ toPlatform' = [toPlatform EXCEPT
                      ![d] = Append(@, IF received THEN "ack" ELSE "nack")]
  /\ waiting' = [waiting EXCEPT ![d] = FALSE]
  /\ UNCHANGED <<now, table, last, overtaken, budget>>

\* A device that restarts loses what is on its way to it, and asks again.
Restart(d) ==
  /\ waiting[d]
  /\ waiting' = [waiting EXCEPT ![d] = FALSE]
  /\ toDevice' = [toDevice EXCEPT ![d] = <<>>]
  /\ UNCHANGED <<now, table, last, toPlatform, held, overtaken, budget>>

-----------------------------------------------------------------------------
Next ==
  \/ \E d \in Device :
       \/ GetService(d) \/ GetServiceFails(d)
       \/ SaveSyncLog(d) \/ SaveSyncLogFails(d) \/ RejectAck(d)
       \/ LoseToPlatform(d) \/ LoseToDevice(d)
       \/ SendRequest(d) \/ Restart(d)
       \/ \E received \in BOOLEAN : ReceiveAnswer(d, received)
  \/ Tick
  \/ \E r \in Record, isComplete, isVerified \in BOOLEAN :
       Edit(r, isComplete, isVerified)

Spec == Init /\ [][Next]_vars

AnswerType == [type : {"list", "synced"},
               rows : SUBSET [id : Record, ver : Nat]]

\* The types; no record is dated in the future, and no device further ahead
\* than its acknowledgement was rounded.
TypeOK ==
  /\ now \in 0 .. MaxTime
  /\ owner \in [Record -> Device \cup {Everyone}]
  /\ ver \in [Record -> Nat]
  /\ updatedOn \in [Record -> 0 .. Second]
  /\ incomplete \subseteq Record
  /\ unverified \subseteq Record
  /\ last \in [Device -> (0 .. Rounded) \cup {Never}]
  /\ toPlatform \in [Device -> Seq(Message)]
  /\ toDevice \in [Device -> Seq(AnswerType)]
  /\ waiting \in [Device -> BOOLEAN]
  /\ held \in [Device -> [Record -> Nat]]
  /\ overtaken \in [Device -> [Record -> BOOLEAN]]
  /\ sent \in Nat /\ edits \in Nat /\ faults \in Nat

Current(d, r) == held[d][r] = ver[r]

\* The device lacks the record, and no request it sends will bring it.
Missed(d, r) == ~Current(d, r) /\ Known(d) /\ updatedOn[r] < last[d]

\* The only updates a device can miss for good are those made between the
\* query of an answer and the arrival of its acknowledgement, and those made in
\* the rest of a second whose second half an acknowledgement arrived in; whatever
\* the network loses, and however often it asks, it gets all the others.  (A user
\* who is not verified or has no role is not due to any device.)
MissedOnlyIfOvertaken ==
  \A d \in Device : \A r \in Due(d) : Missed(d, r) => overtaken[d][r]

=============================================================================
