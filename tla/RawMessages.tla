---------------------------- MODULE RawMessages ----------------------------
(***************************************************************************)
(* Messages on their way out: the records in raw_messages, the outgoing    *)
(* status in user_messages, and the goroutines that read and write both    *)
(* (protocol/messenger.go, messenger_raw_message_resend.go):               *)
(*   - the caller that sends a message and then stores its record;         *)
(*   - the loop that sends expired messages again;                         *)
(*   - the report of the envelopes monitor that a message was sent, one at *)
(*     a time as the monitor holds its lock;                               *)
(*   - the handler of acknowledgements, in the retrieve loop.              *)
(* A query is one step.  Nothing locks a record between two of them.       *)
(*                                                                         *)
(* The kinds of a message: "public" in a public or community chat,         *)
(* "private" in a one-to-one chat, where datasync sends it again and it is *)
(* acknowledged, and "watched", which no user wrote (a request to a        *)
(* community, say).  The network reports what was posted, again and again  *)
(* or never.  Chats are not deleted and the database does not fail.        *)
(***************************************************************************)
EXTENDS Naturals

CONSTANTS Messages,
          MaxCount,     \* messageResendMaxCount
          MaxFailures,  \* sends that fail
          MaxCrashes    \* restarts of the process

ASSUME CountAssumption == {MaxCount, MaxFailures, MaxCrashes} \subseteq Nat

VARIABLES
  kind,      \* the kind of each message
  raw,       \* table raw_messages
  status,    \* column outgoing_status of user_messages
  offline,   \* connectionState.Offline
  sender,    \* the caller that sends a message
  loop,      \* watchExpiredMessages
  report,    \* EnvelopeSent
  ack,       \* markDeliveredMessages
  posts,     \* history: how often a message was posted
  late,      \* history: how often it was posted though marked as sent
  failures,  \* sends that failed
  crashes    \* restarts so far

stored == <<raw, status>>
history == <<posts, late, failures>>
rawVars == <<kind, raw, status, offline, sender, loop, report, ack, posts, late, failures, crashes>>

Kinds == {"public", "private", "watched"}

(* whole: the record has a payload and a chat; due: its back-off is over. *)
NoRecord == [exists |-> FALSE, sent |-> FALSE, count |-> 0, whole |-> FALSE, due |-> FALSE]

Idle == [step |-> "idle"]

(* Mistake: the record is replaced as it is. *)
SaveRawMessageAsIs(m, r) == raw' = [raw EXCEPT ![m] = [r EXCEPT !.exists = TRUE]]

(* One transaction; a record stored as sent remains so. *)
SaveRawMessage(m, r) ==
  raw' = [raw EXCEPT ![m] = [r EXCEPT !.exists = TRUE, !.sent = r.sent \/ raw[m].sent]]

(* Mistake: the attempts left are counted, from the zero of a new record. *)
UpsertCountsDown(m, r) == SaveRawMessage(m, [r EXCEPT !.count = @ - 1, !.due = FALSE])

(* UpsertRawMessageToWatch and the end of dispatchMessage. *)
Upsert(m, r) == SaveRawMessage(m, [r EXCEPT !.count = @ + 1, !.due = FALSE])

(* UpdateMessageOutgoingStatus; messages that no user wrote have no row. *)
UpdateOutgoingStatus(m, s) ==
  status' = IF status[m] \in {"none", "delivered"} THEN status ELSE [status EXCEPT ![m] = s]

Posted(m) ==
  /\ posts' = [posts EXCEPT ![m] = @ + 1]
  /\ late' = [late EXCEPT ![m] = @ + (IF raw[m].sent THEN 1 ELSE 0)]
  /\ UNCHANGED failures

Failed ==
  /\ failures < MaxFailures /\ failures' = failures + 1
  /\ UNCHANGED <<posts, late>>
-----------------------------------------------------------------------------
(* Sending. *)

(* sendChatMessage up to the send: BeforeDispatch stores the message first. *)
(* What no user wrote has no row in user_messages.                          *)
Send(m, k) ==
  /\ sender[m] = "idle"
  /\ kind' = [kind EXCEPT ![m] = k]
  /\ status' = IF k = "watched" THEN status ELSE [status EXCEPT ![m] = "sending"]
  /\ \/ Posted(m) /\ sender' = [sender EXCEPT ![m] = "posted"]
     \/ Failed /\ sender' = [sender EXCEPT ![m] = "done"]
  /\ UNCHANGED <<raw, offline, loop, report, ack, crashes>>

(* The end of dispatchMessage, or AddRawMessageToWatch. *)
StoreSent(m) ==
  /\ sender[m] = "posted"
  /\ Upsert(m, [NoRecord EXCEPT !.whole = TRUE])
  /\ sender' = [sender EXCEPT ![m] = "done"]
  /\ UNCHANGED <<kind, status, offline, loop, report, ack, crashes, history>>
-----------------------------------------------------------------------------
(* The loop that sends again what was not reported. *)

(* Mistake: the last attempt is not made. *)
ExpiredMessagesIDsTooFew ==
  {m \in Messages : raw[m].exists /\ ~raw[m].sent /\ raw[m].count < MaxCount}

(* Mistake: one attempt too many. *)
ExpiredMessagesIDsTooOften ==
  {m \in Messages : raw[m].exists /\ ~raw[m].sent /\ raw[m].count <= MaxCount + 1}

(* Mistake: messages that are sent are not left out. *)
ExpiredMessagesIDsSentToo ==
  {m \in Messages : raw[m].exists /\ raw[m].count <= MaxCount}

ExpiredMessagesIDs ==
  {m \in Messages : raw[m].exists /\ ~raw[m].sent /\ raw[m].count <= MaxCount}

Loop(step, ids, m, r) == [step |-> step, ids |-> ids, id |-> m, copy |-> r]

(* On to the next ID, or the end of this pass. *)
LoopOn(ids) == loop' = IF ids = {} THEN Idle ELSE [step |-> "next", ids |-> ids]

resendExpiredMessages ==
  /\ loop = Idle /\ ~offline
  /\ ExpiredMessagesIDs # {}
  /\ LoopOn(ExpiredMessagesIDs)
  /\ UNCHANGED <<kind, stored, offline, sender, report, ack, crashes, history>>

(* processMessageID up to the send.  Messages of one-to-one chats are left *)
(* to datasync.                                                            *)
processMessageID(m) ==
  /\ loop.step = "next" /\ m \in loop.ids
  /\ LET r == raw[m]
         rest == loop.ids \ {m}
     IN CASE ~r.due \/ (kind[m] # "watched" /\ (~r.whole \/ kind[m] = "private")) -> LoopOn(rest)
          [] r.due /\ kind[m] = "watched" -> loop' = Loop("send", rest, m, r)
          [] OTHER -> loop' = Loop("save", rest, m, r)
  /\ UNCHANGED <<kind, stored, offline, sender, report, ack, crashes, history>>

(* handleOtherResendMethods stores the record it has read ... *)
handleOtherResendMethods ==
  /\ loop.step = "save"
  /\ SaveRawMessage(loop.id, loop.copy)
  /\ loop' = [loop EXCEPT !.step = "read"]
  /\ UNCHANGED <<kind, status, offline, sender, report, ack, crashes, history>>

(* ... and reSendRawMessage reads it again, for a new message. *)
reSendRawMessage ==
  /\ loop.step = "read"
  /\ LET r == raw[loop.id]
     IN IF r.whole THEN loop' = Loop("send", loop.ids, loop.id, [r EXCEPT !.sent = FALSE])
        ELSE LoopOn(loop.ids)
  /\ UNCHANGED <<kind, stored, offline, sender, report, ack, crashes, history>>

(* SendCommunityMessage, SendPrivate or dispatchMessage.  A failing attempt *)
(* counts only for watched messages.                                        *)
Resend ==
  /\ loop.step = "send"
  /\ \/ Posted(loop.id) /\ loop' = [loop EXCEPT !.step = "store"]
     \/ /\ Failed
        /\ IF kind[loop.id] = "watched" THEN loop' = [loop EXCEPT !.step = "store"]
           ELSE LoopOn(loop.ids)
  /\ UNCHANGED <<kind, stored, offline, sender, report, ack, crashes>>

StoreResent ==
  /\ loop.step = "store"
  /\ Upsert(loop.id, loop.copy)
  /\ LoopOn(loop.ids)
  /\ UNCHANGED <<kind, status, offline, sender, report, ack, crashes, history>>

(* The back-off of a message passes. *)
Elapse(m) ==
  /\ raw[m].exists /\ ~raw[m].due
  /\ raw' = [raw EXCEPT ![m].due = TRUE]
  /\ UNCHANGED <<kind, status, offline, sender, loop, report, ack, crashes, history>>
-----------------------------------------------------------------------------
(* The report of the envelopes monitor. *)

(* EnvelopeSent, with the check and the query of processSentMessage, which  *)
(* gives up while offline.  If there is no record yet, a temporary one has  *)
(* no payload.                                                              *)
EnvelopeSent(m) ==
  /\ report = Idle /\ posts[m] > 0 /\ ~offline
  /\ LET temporary == [NoRecord EXCEPT !.due = TRUE]
     IN report' = [step |-> "mark", id |-> m, copy |-> IF raw[m].exists THEN raw[m] ELSE temporary]
  /\ UNCHANGED <<kind, stored, offline, sender, loop, ack, crashes, history>>

(* Mistake: the record is stored before it is marked. *)
MarkSentLate ==
  /\ report.step = "mark"
  /\ SaveRawMessage(report.id, report.copy)
  /\ report' = [report EXCEPT !.step = "show"]
  /\ UNCHANGED <<kind, status, offline, sender, loop, ack, crashes, history>>

MarkSent ==
  /\ report.step = "mark"
  /\ SaveRawMessage(report.id, [report.copy EXCEPT !.sent = TRUE])
  /\ report' = [report EXCEPT !.step = "show"]
  /\ UNCHANGED <<kind, status, offline, sender, loop, ack, crashes, history>>

ShowSent ==
  /\ report.step = "show"
  /\ UpdateOutgoingStatus(report.id, "sent")
  /\ report' = Idle
  /\ UNCHANGED <<kind, raw, offline, sender, loop, ack, crashes, history>>
-----------------------------------------------------------------------------
(* markDeliveredMessages; UpdateRawMessageSent changes an existing record only. *)

Acknowledge(m) ==
  /\ ack = Idle /\ posts[m] > 0 /\ kind[m] = "private"
  /\ UpdateOutgoingStatus(m, "delivered")
  /\ ack' = [step |-> "mark", id |-> m]
  /\ UNCHANGED <<kind, raw, offline, sender, loop, report, crashes, history>>

UpdateRawMessageSent ==
  /\ ack.step = "mark"
  /\ raw' = IF raw[ack.id].exists THEN [raw EXCEPT ![ack.id].sent = TRUE] ELSE raw
  /\ ack' = Idle
  /\ UNCHANGED <<kind, status, offline, sender, loop, report, crashes, history>>
-----------------------------------------------------------------------------
ConnectionChanged ==
  /\ offline' = ~offline
  /\ UNCHANGED <<kind, stored, sender, loop, report, ack, crashes, history>>

(* The process ends and starts again; the database stays. *)
Restart ==
  /\ crashes < MaxCrashes /\ crashes' = crashes + 1
  /\ sender' = [m \in Messages |-> IF sender[m] = "posted" THEN "done" ELSE sender[m]]
  /\ loop' = Idle /\ report' = Idle /\ ack' = Idle
  /\ UNCHANGED <<kind, stored, offline, history>>

RawInit ==
  /\ kind = [m \in Messages |-> "watched"]
  /\ raw = [m \in Messages |-> NoRecord]
  /\ status = [m \in Messages |-> "none"]
  /\ offline = FALSE
  /\ sender = [m \in Messages |-> "idle"]
  /\ loop = Idle /\ report = Idle /\ ack = Idle
  /\ posts = [m \in Messages |-> 0]
  /\ late = [m \in Messages |-> 0]
  /\ failures = 0 /\ crashes = 0

LoopNext ==
  \/ resendExpiredMessages \/ \E m \in Messages : processMessageID(m)
  \/ handleOtherResendMethods \/ reSendRawMessage \/ Resend \/ StoreResent

ReportNext == MarkSent \/ ShowSent

RawNext ==
  \/ \E m \in Messages : StoreSent(m) \/ Elapse(m) \/ \E k \in Kinds : Send(m, k)
  \/ LoopNext
  \/ ReportNext \/ \E m \in Messages : EnvelopeSent(m)
  \/ UpdateRawMessageSent \/ \E m \in Messages : Acknowledge(m)
  \/ ConnectionChanged \/ Restart

RawSpec == RawInit /\ [][RawNext]_rawVars

(* Goroutines run on, the loop has a ticker and time passes.  Nothing makes *)
(* the network report, nor the connection come back.                        *)
RawFairness ==
  /\ \A m \in Messages : WF_rawVars(StoreSent(m)) /\ WF_rawVars(Elapse(m))
  /\ WF_rawVars(LoopNext)
  /\ WF_rawVars(ReportNext)
  /\ WF_rawVars(UpdateRawMessageSent)

FairRawSpec == RawSpec /\ RawFairness
-----------------------------------------------------------------------------
(* Properties. *)

Records == [exists : BOOLEAN, sent : BOOLEAN, count : Nat, whole : BOOLEAN, due : BOOLEAN]

LoopStates ==
  {Idle} \cup [step : {"next"}, ids : SUBSET Messages]
         \cup [step : {"save", "read", "send", "store"}, ids : SUBSET Messages,
               id : Messages, copy : Records]

(* Every message has a kind, a record and a status, and each goroutine is   *)
(* at one of its steps.                                                     *)
RawTypeOK ==
  /\ kind \in [Messages -> Kinds]
  /\ raw \in [Messages -> Records]
  /\ status \in [Messages -> {"none", "sending", "sent", "delivered"}]
  /\ offline \in BOOLEAN
  /\ sender \in [Messages -> {"idle", "posted", "done"}]
  /\ loop \in LoopStates
  /\ report \in {Idle} \cup [step : {"mark", "show"}, id : Messages, copy : Records]
  /\ ack \in {Idle} \cup [step : {"mark"}, id : Messages]
  /\ posts \in [Messages -> Nat] /\ late \in [Messages -> Nat]
  /\ failures \in Nat /\ crashes \in Nat

(* The marks of raw_messages and the status of user_messages are a          *)
(* MessageStatus: whatever the four goroutines read and write back, a mark  *)
(* is not lost, a status does not go back, and what is shown as sent is     *)
(* marked, also when the record is stored after the report came: "so that   *)
(* the sent status is preserved" (SaveRawMessage, processSentMessage,       *)
(* UpdateMessageOutgoingStatus).                                            *)
Status == INSTANCE MessageStatus WITH marked <- [m \in Messages |-> raw[m].sent], shown <- status
StatusSpec == Status!StatusSpec

(* A record that is not marked can be sent again: the temporary record      *)
(* without a payload never takes the place of one that is still needed      *)
(* (processSentMessage).                                                    *)
UnsentIsWhole == \A m \in Messages : raw[m].exists /\ ~raw[m].sent => raw[m].whole

(* Once a message is marked as sent it is posted at most once more, by a    *)
(* pass of the loop that had listed it before (resendExpiredMessages).      *)
MarkStopsResending == \A m \in Messages : late[m] <= 1

(* A message is posted messageResendMaxCount times after the first time,    *)
(* and once more for each restart, which may lose the new count             *)
(* (ExpiredMessagesIDs, UpsertRawMessageToWatch).                           *)
AttemptsAreBounded == \A m \in Messages : posts[m] <= MaxCount + 1 + crashes

(* Once the connection stays, every message that the loop watches is marked *)
(* as sent or has had all its attempts (watchExpiredMessages).              *)
WatchedIsSettled ==
  <>[](~offline) => \A m \in Messages :
    (raw[m].exists /\ kind[m] # "private") ~> (raw[m].sent \/ raw[m].count > MaxCount)
=============================================================================
