------------------------- MODULE RawMessagesProofs -------------------------
(***************************************************************************)
(* Whatever the sender, the loop, the reports and the acknowledgements     *)
(* interleave to, the marks and the status of every message are a          *)
(* MessageStatus, and a message is posted no more often than it should be. *)
(***************************************************************************)
EXTENDS RawMessages, TLAPS

(* The contexts are large: more time than by default, and the SMT backend  *)
(* once more when its translation was cut off.                             *)
USE SMTT(30), ZenonT(30), Z3T(30), SMTT(40), Z3T(40)

(* The record of a message and the call that sends it.  A record that is   *)
(* there before that call stores its own is the temporary one of a report. *)
RecordOK(m) ==
  /\ sender[m] = "idle" => posts[m] = 0 /\ status[m] = "none"
  /\ sender[m] = "posted" => posts[m] > 0 /\ (raw[m].exists => raw[m].sent)
  /\ raw[m].exists => posts[m] > 0
  /\ ~raw[m].exists => ~raw[m].sent /\ posts[m] <= 1
  /\ raw[m].exists /\ ~raw[m].sent => raw[m].whole
  /\ status[m] = "sent" => raw[m].sent

(* A report that is to be shown has marked its message. *)
ReportOK ==
  report # Idle => /\ posts[report.id] > 0
                   /\ report.step = "show" => raw[report.id].sent

(* The loop has listed m, and not posted it yet. *)
Pending(m) ==
  \/ loop.step # "idle" /\ m \in loop.ids
  \/ loop.step \in {"save", "read", "send"} /\ loop.id = m

(* m was posted, and the loop is to store that. *)
Storing(m) == loop.step = "store" /\ loop.id = m

(* What the loop holds is not behind what it will replace. *)
LoopOK ==
  /\ loop # Idle => \A m \in loop.ids : raw[m].exists
  /\ loop.step \in {"save", "read", "send", "store"} =>
       /\ raw[loop.id].exists /\ loop.id \notin loop.ids
       /\ loop.copy.sent \/ loop.copy.whole
       /\ \/ raw[loop.id].sent
          \/ /\ loop.copy.count <= raw[loop.id].count
             /\ posts[loop.id] <= loop.copy.count + crashes + (IF loop.step = "store" THEN 1 ELSE 0)

(* How often m was posted, as against the count in its record. *)
CountOK(m) ==
  /\ posts[m] <= MaxCount + 1 + crashes
  /\ Pending(m) => posts[m] <= MaxCount + crashes
  /\ raw[m].exists /\ ~raw[m].sent /\ ~Storing(m) => posts[m] <= raw[m].count + crashes
  /\ late[m] <= 1
  /\ late[m] = 1 => raw[m].sent /\ ~Pending(m)

RawInvariant ==
  /\ RawTypeOK
  /\ \A m \in Messages : RecordOK(m) /\ CountOK(m)
  /\ ReportOK
  /\ LoopOK
-----------------------------------------------------------------------------
(* The kinds of state the loop can be in. *)
LEMMA LoopTypes ==
  \A l \in LoopStates :
    /\ l # Idle <=> l.step # "idle"
    /\ l # Idle => l.ids \in SUBSET Messages
    /\ l.step \in {"save", "read", "send", "store"} => l.id \in Messages /\ l.copy \in Records
    /\ l.step \in {"idle", "next", "save", "read", "send", "store"}
  BY DEF LoopStates, Idle

(* ... and those of a report. *)
LEMMA ReportTypes ==
  ASSUME RawTypeOK
  PROVE  /\ report # Idle <=> report.step # "idle"
         /\ report # Idle => report.id \in Messages /\ report.copy \in Records
         /\ report.step \in {"idle", "mark", "show"}
  BY DEF RawTypeOK, Idle

(* A flag of a record changes alone. *)
LEMMA Flags ==
  ASSUME NEW r \in Records
  PROVE  /\ LET s == [r EXCEPT !.due = TRUE]
            IN s \in Records /\ (s.exists <=> r.exists) /\ (s.sent <=> r.sent) /\ s.count = r.count
                            /\ (s.whole <=> r.whole)
         /\ \A b \in BOOLEAN :
              LET s == [r EXCEPT !.sent = b]
              IN s \in Records /\ (s.exists <=> r.exists) /\ (s.sent <=> b) /\ s.count = r.count
                              /\ (s.whole <=> r.whole)
  BY Zenon DEF Records

(* Saving a record keeps the mark, and changes no other record. *)
LEMMA Saved ==
  ASSUME RawTypeOK, NEW m \in Messages, NEW r \in Records, SaveRawMessage(m, r)
  PROVE  /\ raw' \in [Messages -> Records]
         /\ raw'[m].exists /\ (raw'[m].sent <=> r.sent \/ raw[m].sent)
         /\ raw'[m].count = r.count /\ (raw'[m].whole <=> r.whole)
         /\ \A n \in Messages \ {m} : raw'[n] = raw[n]
<1> DEFINE b == r.sent \/ raw[m].sent
           s == [r EXCEPT !.exists = TRUE, !.sent = b]
<1>1. b \in BOOLEAN
  OBVIOUS
<1>2. raw \in [Messages -> Records] /\ raw' = [raw EXCEPT ![m] = s]
  BY DEF RawTypeOK, SaveRawMessage
<1> HIDE DEF b
<1>3. s \in Records /\ s.exists /\ s.sent = b /\ s.count = r.count /\ s.whole = r.whole
  BY <1>1, Zenon DEF Records
<1> HIDE DEF s
<1>4. /\ raw' \in [Messages -> Records] /\ raw'[m] = s
      /\ \A n \in Messages \ {m} : raw'[n] = raw[n]
  BY <1>2, <1>3
<1> QED BY <1>3, <1>4, Zenon DEF b

(* So does storing it with a higher count. *)
LEMMA Upserted ==
  ASSUME RawTypeOK, NEW m \in Messages, NEW r \in Records, Upsert(m, r)
  PROVE  /\ raw' \in [Messages -> Records]
         /\ raw'[m].exists /\ (raw'[m].sent <=> r.sent \/ raw[m].sent)
         /\ raw'[m].count = r.count + 1 /\ (raw'[m].whole <=> r.whole)
         /\ \A n \in Messages \ {m} : raw'[n] = raw[n]
<1> DEFINE k == r.count + 1
           s == [r EXCEPT !.count = k, !.due = FALSE]
<1>1. k \in Nat
  BY DEF Records
<1>2. SaveRawMessage(m, s)
  BY DEF Upsert
<1> HIDE DEF k
<1>3. s \in Records /\ s.sent = r.sent /\ s.count = k /\ s.whole = r.whole
  BY <1>1, Zenon DEF Records
<1> HIDE DEF s
<1> QED BY <1>2, <1>3, Saved DEF k

(* The loop goes on to what is left. *)
LEMMA OnTypes ==
  ASSUME NEW ids \in SUBSET Messages, LoopOn(ids)
  PROVE  /\ loop' \in LoopStates
         /\ loop'.step \in {"idle", "next"}
         /\ loop' # Idle => loop'.step = "next" /\ loop'.ids = ids
         /\ loop'.step = "next" => loop'.ids = ids
  BY DEF LoopOn, LoopStates, Idle

(* No step leaves the types. *)
LEMMA TypeStep ==
  ASSUME RawTypeOK, [RawNext]_rawVars
  PROVE  RawTypeOK'
<1> USE DEF Kinds
<1> NoRecord \in Records
  BY DEF NoRecord, Records
<1>1. ASSUME NEW m \in Messages, StoreSent(m) PROVE RawTypeOK'
  <2> [NoRecord EXCEPT !.whole = TRUE] \in Records
    BY Zenon DEF NoRecord, Records
  <2>1. raw' \in [Messages -> Records]
    BY <1>1, Upserted DEF StoreSent
  <2> QED BY <1>1, <2>1, Zenon DEF StoreSent, RawTypeOK, history
<1>2. ASSUME NEW m \in Messages, Elapse(m) PROVE RawTypeOK'
  <2>1. raw[m] \in Records /\ raw' = [raw EXCEPT ![m] = [raw[m] EXCEPT !.due = TRUE]]
    BY <1>2 DEF Elapse, RawTypeOK
  <2>2. raw' \in [Messages -> Records]
    BY <2>1, Flags DEF RawTypeOK
  <2> QED BY <1>2, <2>2 DEF Elapse, RawTypeOK, history
<1>3. ASSUME NEW m \in Messages, NEW k \in Kinds, Send(m, k) PROVE RawTypeOK'
  BY <1>3 DEF Send, RawTypeOK, Posted, Failed
<1>4. CASE resendExpiredMessages
  <2>1. loop' \in LoopStates
    BY <1>4, OnTypes DEF resendExpiredMessages, ExpiredMessagesIDs
  <2> QED BY <1>4, <2>1 DEF resendExpiredMessages, RawTypeOK, stored, history
<1>5. ASSUME NEW m \in Messages, processMessageID(m) PROVE RawTypeOK'
  <2>1. loop.ids \ {m} \in SUBSET Messages /\ raw[m] \in Records
    BY <1>5, LoopTypes DEF processMessageID, RawTypeOK
  <2>2. \/ LoopOn(loop.ids \ {m}) \/ loop' = Loop("send", loop.ids \ {m}, m, raw[m])
        \/ loop' = Loop("save", loop.ids \ {m}, m, raw[m])
    BY <1>5 DEF processMessageID
  <2>3. loop' \in LoopStates
    BY <2>1, <2>2, OnTypes DEF Loop, LoopStates
  <2> QED BY <1>5, <2>3 DEF processMessageID, RawTypeOK, stored, history
<1>6. CASE handleOtherResendMethods
  <2>1. raw' \in [Messages -> Records]
    BY <1>6, LoopTypes, Saved DEF handleOtherResendMethods, RawTypeOK
  <2>2. loop' \in LoopStates
    BY <1>6 DEF handleOtherResendMethods, RawTypeOK, LoopStates, Idle
  <2> QED BY <1>6, <2>1, <2>2 DEF handleOtherResendMethods, RawTypeOK, history
<1>7. CASE reSendRawMessage
  <2>1. loop.ids \in SUBSET Messages /\ loop.id \in Messages
    BY <1>7, LoopTypes DEF reSendRawMessage, RawTypeOK
  <2> DEFINE c == [raw[loop.id] EXCEPT !.sent = FALSE]
  <2>2. c \in Records
    BY <2>1, Zenon DEF RawTypeOK, Records
  <2>a. loop' = Loop("send", loop.ids, loop.id, c) \/ LoopOn(loop.ids)
    BY <1>7 DEF reSendRawMessage
  <2> HIDE DEF c
  <2>3. loop' \in LoopStates
    BY <2>1, <2>2, <2>a, OnTypes DEF Loop, LoopStates
  <2> QED BY <1>7, <2>3 DEF reSendRawMessage, RawTypeOK, stored, history
<1>8. CASE Resend
  <2>1. loop.ids \in SUBSET Messages /\ loop.id \in Messages
    BY <1>8, LoopTypes DEF Resend, RawTypeOK
  <2>2. [loop EXCEPT !.step = "store"] \in LoopStates
    BY <1>8 DEF Resend, RawTypeOK, LoopStates, Idle
  <2>3. loop' \in LoopStates
    BY <1>8, <2>1, <2>2, OnTypes DEF Resend
  <2>4. posts' \in [Messages -> Nat] /\ late' \in [Messages -> Nat] /\ failures' \in Nat
    BY <1>8, <2>1 DEF Resend, Posted, Failed, RawTypeOK
  <2> QED BY <1>8, <2>3, <2>4 DEF Resend, RawTypeOK, stored
<1>9. CASE StoreResent
  <2>1. raw' \in [Messages -> Records]
    BY <1>9, LoopTypes, Upserted DEF StoreResent, RawTypeOK
  <2>2. loop' \in LoopStates
    BY <1>9, LoopTypes, OnTypes DEF StoreResent, RawTypeOK
  <2> QED BY <1>9, <2>1, <2>2 DEF StoreResent, RawTypeOK, history
<1>10. ASSUME NEW m \in Messages, EnvelopeSent(m) PROVE RawTypeOK'
  <2>1. [NoRecord EXCEPT !.due = TRUE] \in Records /\ raw[m] \in Records
    BY Zenon DEF NoRecord, Records, RawTypeOK
  <2> QED BY <1>10, <2>1 DEF EnvelopeSent, RawTypeOK, stored, history
<1>11. CASE MarkSent
  <2>1. report.id \in Messages /\ [report.copy EXCEPT !.sent = TRUE] \in Records
    BY <1>11, ReportTypes, Zenon DEF MarkSent, Records
  <2>2. raw' \in [Messages -> Records]
    BY <1>11, <2>1, Saved DEF MarkSent
  <2>3. report' \in [step : {"mark", "show"}, id : Messages, copy : Records]
    BY <1>11 DEF MarkSent, RawTypeOK, Idle
  <2> QED BY <1>11, <2>2, <2>3 DEF MarkSent, RawTypeOK, history
<1>12. CASE ShowSent
  <2>1. report.id \in Messages
    BY <1>12, ReportTypes DEF ShowSent
  <2> QED BY <1>12, <2>1 DEF ShowSent, UpdateOutgoingStatus, RawTypeOK, history
<1>13. CASE UpdateRawMessageSent
  <2>1. ack.id \in Messages
    BY <1>13 DEF UpdateRawMessageSent, RawTypeOK, Idle
  <2>2. \/ raw' = raw
        \/ raw' = [raw EXCEPT ![ack.id] = [raw[ack.id] EXCEPT !.sent = TRUE]]
    BY <1>13 DEF UpdateRawMessageSent
  <2>a. raw \in [Messages -> Records] /\ [raw[ack.id] EXCEPT !.sent = TRUE] \in Records
    BY <2>1, Flags, Zenon DEF RawTypeOK
  <2>3. raw' \in [Messages -> Records]
    BY <2>1, <2>2, <2>a
  <2> QED BY <1>13, <2>3 DEF UpdateRawMessageSent, RawTypeOK, history
<1>14. ASSUME NEW m \in Messages, Acknowledge(m) PROVE RawTypeOK'
  BY <1>14 DEF Acknowledge, UpdateOutgoingStatus, RawTypeOK, history
<1>15. CASE ConnectionChanged
  BY <1>15 DEF ConnectionChanged, RawTypeOK, stored, history
<1>16. CASE Restart
  BY <1>16 DEF Restart, RawTypeOK, LoopStates, stored, history
<1>17. CASE UNCHANGED rawVars
  BY <1>17 DEF RawTypeOK, rawVars
<1> QED
  BY <1>1, <1>2, <1>3, <1>4, <1>5, <1>6, <1>7, <1>8, <1>9, <1>10, <1>11, <1>12, <1>13, <1>14,
     <1>15, <1>16, <1>17 DEF RawNext, LoopNext, ReportNext
(* No step leaves the invariant.  Each action is reduced to what it does   *)
(* to one record, to the loop or to a report.                              *)
LEMMA InvariantStep ==
  ASSUME RawInvariant, [RawNext]_rawVars
  PROVE  RawInvariant'
<1> RawTypeOK /\ (\A n \in Messages : RecordOK(n) /\ CountOK(n)) /\ ReportOK /\ LoopOK
  BY DEF RawInvariant
<1>0. /\ \A n \in Messages : raw[n].count \in Nat /\ posts[n] \in Nat /\ late[n] \in Nat
      /\ crashes \in Nat /\ MaxCount \in Nat
      /\ loop # Idle <=> loop.step # "idle"
      /\ loop # Idle => loop.ids \subseteq Messages
      /\ loop.step \in {"save", "read", "send", "store"} =>
           loop.id \in Messages /\ loop.copy.count \in Nat
      /\ loop.step \in {"idle", "next", "save", "read", "send", "store"}
      /\ report # Idle => report.id \in Messages
  BY LoopTypes, ReportTypes, CountAssumption DEF RawTypeOK, Records
<1>a. /\ RawTypeOK' /\ posts' \in [Messages -> Nat] /\ loop' \in LoopStates
      /\ loop' # Idle <=> loop'.step # "idle"
      /\ loop' # Idle => loop'.ids \in SUBSET Messages
      /\ loop'.step \in {"save", "read", "send", "store"} => loop'.id \in Messages
      /\ loop'.step \in {"idle", "next", "save", "read", "send", "store"}
  BY TypeStep, LoopTypes DEF RawTypeOK
<1>1. ASSUME NEW m \in Messages, StoreSent(m) PROVE RawInvariant'
  <2>1. UNCHANGED <<status, loop, report, posts, late, crashes>>
    BY <1>1 DEF StoreSent, history
  <2> DEFINE r == [NoRecord EXCEPT !.whole = TRUE]
  <2>3. r \in Records /\ r.whole /\ ~r.sent /\ r.count = 0
    BY Zenon DEF NoRecord, Records
  <2>4. Upsert(m, r)
    BY <1>1 DEF StoreSent
  <2> HIDE DEF r
  <2>6. /\ raw'[m].exists /\ (raw'[m].sent <=> raw[m].sent) /\ raw'[m].whole /\ raw'[m].count = 1
        /\ \A n \in Messages \ {m} : raw'[n] = raw[n]
    BY <2>3, <2>4, Upserted
  <2>7. /\ posts[m] > 0
        /\ ~raw[m].sent => ~raw[m].exists /\ posts[m] <= 1
    BY <1>1 DEF StoreSent, RecordOK
  <2>8. /\ sender'[m] = "done"
        /\ \A n \in Messages \ {m} : sender'[n] = sender[n]
    BY <1>1 DEF StoreSent, RawTypeOK
  <2>9. /\ loop # Idle /\ m \in loop.ids => raw[m].exists
        /\ loop.step \in {"save", "read", "send", "store"} /\ loop.id = m => raw[m].exists
    BY DEF LoopOK
  <2>10. \A n \in Messages : RecordOK(n)'
    BY <2>1, <2>3, <2>4, <2>6, <2>7, <2>8, <2>9, <1>0, <1>a DEF RecordOK
  <2>11. \A n \in Messages : CountOK(n)'
    BY <2>1, <2>3, <2>4, <2>6, <2>7, <2>8, <2>9, <1>0, <1>a DEF CountOK, Pending, Storing
  <2>12. ReportOK'
    BY <2>1, <2>3, <2>4, <2>6, <2>7, <2>8, <2>9, <1>0, <1>a DEF ReportOK
  <2>13. LoopOK'
    BY <2>1, <2>3, <2>4, <2>6, <2>7, <2>8, <2>9, <1>0, <1>a DEF LoopOK
  <2> QED BY <2>10, <2>11, <2>12, <2>13, <1>a DEF RawInvariant
<1>2. ASSUME NEW m \in Messages, Elapse(m) PROVE RawInvariant'
  <2>1. UNCHANGED <<status, sender, loop, report, posts, late, crashes>>
    BY <1>2 DEF Elapse, history
  <2>2. raw[m] \in Records /\ raw' = [raw EXCEPT ![m] = [raw[m] EXCEPT !.due = TRUE]]
    BY <1>2 DEF Elapse, RawTypeOK
  <2>3. /\ (raw'[m].exists <=> raw[m].exists) /\ (raw'[m].sent <=> raw[m].sent)
        /\ (raw'[m].whole <=> raw[m].whole) /\ raw'[m].count = raw[m].count
        /\ \A n \in Messages \ {m} : raw'[n] = raw[n]
    BY <2>2, Flags DEF RawTypeOK
  <2>4. \A n \in Messages : RecordOK(n)'
    BY <2>1, <2>2, <2>3, <1>0, <1>a DEF RecordOK
  <2>5. \A n \in Messages : CountOK(n)'
    BY <2>1, <2>2, <2>3, <1>0, <1>a DEF CountOK, Pending, Storing
  <2>6. ReportOK'
    BY <2>1, <2>2, <2>3, <1>0, <1>a DEF ReportOK
  <2>7. LoopOK'
    BY <2>1, <2>2, <2>3, <1>0, <1>a DEF LoopOK
  <2> QED BY <2>4, <2>5, <2>6, <2>7, <1>a DEF RawInvariant
<1>3. ASSUME NEW m \in Messages, NEW k \in Kinds, Send(m, k) PROVE RawInvariant'
  <2>1. UNCHANGED <<raw, loop, report, crashes>>
    BY <1>3 DEF Send
  <2>2. ~raw[m].exists /\ ~raw[m].sent /\ posts[m] = 0 /\ late[m] # 1
    BY <1>3, <1>0 DEF Send, RecordOK, CountOK
  <2>3. /\ loop # Idle => m \notin loop.ids
        /\ loop.step \in {"save", "read", "send", "store"} => loop.id # m
    BY <2>2 DEF LoopOK
  <2>4. \A n \in Messages : posts[n] <= posts'[n] /\ late'[n] = late[n] /\ (n # m => posts'[n] = posts[n])
    BY <1>3, <2>2, <1>0 DEF Send, Posted, Failed, RawTypeOK
  <2>5. posts'[m] <= 1 /\ (sender'[m] = "posted" => posts'[m] = 1)
    BY <1>3, <2>2, <1>0 DEF Send, Posted, Failed, RawTypeOK
  <2>6. /\ status'[m] \in {"none", "sending"} /\ sender'[m] # "idle"
        /\ \A n \in Messages \ {m} : status'[n] = status[n] /\ sender'[n] = sender[n]
    BY <1>3 DEF Send, RecordOK, RawTypeOK
  <2>7. ~Pending(m)' /\ ~Storing(m)'
    BY <2>1, <2>3, <1>0 DEF Pending, Storing
  <2>8. CountOK(m)'
    BY <2>1, <2>2, <2>4, <2>5, <2>7, <1>0, <1>a DEF CountOK
  <2>9. \A n \in Messages : RecordOK(n)'
    BY <2>1, <2>2, <2>3, <2>4, <2>5, <2>6, <2>7, <2>8, <1>0, <1>a DEF RecordOK
  <2>10. \A n \in Messages : CountOK(n)'
    BY <2>1, <2>2, <2>3, <2>4, <2>5, <2>6, <2>7, <2>8, <1>0, <1>a DEF CountOK, Pending, Storing
  <2>11. ReportOK'
    BY <2>1, <2>2, <2>3, <2>4, <2>5, <2>6, <2>7, <2>8, <1>0, <1>a DEF ReportOK
  <2>12. LoopOK'
    BY <2>1, <2>2, <2>3, <2>4, <2>5, <2>6, <2>7, <2>8, <1>0, <1>a DEF LoopOK
  <2> QED BY <2>9, <2>10, <2>11, <2>12, <1>a DEF RawInvariant
<1>4. CASE resendExpiredMessages
  <2>1. UNCHANGED <<raw, status, sender, report, posts, late, crashes>>
    BY <1>4 DEF resendExpiredMessages, stored, history
  <2>2. loop = Idle /\ loop.step = "idle"
    BY <1>4 DEF resendExpiredMessages, Idle
  <2>3. /\ loop'.step \in {"idle", "next"}
        /\ loop'.step = "next" => loop'.ids = ExpiredMessagesIDs
    BY <1>4, OnTypes DEF resendExpiredMessages, ExpiredMessagesIDs
  <2>4. \A n \in ExpiredMessagesIDs : n \in Messages /\ raw[n].exists /\ ~raw[n].sent /\ raw[n].count <= MaxCount
    BY DEF ExpiredMessagesIDs
  <2>5. \A n \in Messages : RecordOK(n)'
    BY <2>1, <2>2, <2>3, <2>4, <1>0, <1>a DEF RecordOK
  <2>6. \A n \in Messages : CountOK(n)'
    BY <2>1, <2>2, <2>3, <2>4, <1>0, <1>a DEF CountOK, Pending, Storing
  <2>7. ReportOK'
    BY <2>1, <2>2, <2>3, <2>4, <1>0, <1>a DEF ReportOK
  <2>8. LoopOK'
    BY <2>1, <2>2, <2>3, <2>4, <1>0, <1>a DEF LoopOK
  <2> QED BY <2>5, <2>6, <2>7, <2>8, <1>a DEF RawInvariant
<1>5. ASSUME NEW m \in Messages, processMessageID(m) PROVE RawInvariant'
  <2>1. UNCHANGED <<raw, status, sender, report, posts, late, crashes>>
    BY <1>5 DEF processMessageID, stored, history
  <2>2. /\ m \in loop.ids /\ loop.ids \subseteq Messages /\ raw[m] \in Records
        /\ loop.step = "next" /\ loop # Idle
    BY <1>5, LoopTypes DEF processMessageID, RawTypeOK, Idle
  <2>3. \/ LoopOn(loop.ids \ {m})
        \/ \E s \in {"save", "send"} : /\ loop' = Loop(s, loop.ids \ {m}, m, raw[m])
                                       /\ raw[m].whole \/ kind[m] = "watched"
    BY <1>5, <2>2 DEF processMessageID, RawTypeOK
  <2>4. /\ \A n \in loop.ids : raw[n].exists
        /\ raw[m].sent \/ (raw[m].whole /\ posts[m] <= raw[m].count + crashes)
    BY <2>2 DEF LoopOK, RecordOK, CountOK, Storing
  <2>5. \/ loop'.step = "idle"
        \/ loop'.step = "next" /\ loop'.ids = loop.ids \ {m}
        \/ /\ loop'.step \in {"save", "send"} /\ loop'.ids = loop.ids \ {m}
           /\ loop'.id = m /\ loop'.copy = raw[m]
    BY <2>2, <2>3, OnTypes DEF Loop
  <2>6. \A n \in Messages : RecordOK(n)'
    BY <2>1, <2>2, <2>3, <2>4, <2>5, <1>0, <1>a, Zenon DEF RecordOK
  <2>7. \A n \in Messages : CountOK(n)'
    BY <2>1, <2>2, <2>3, <2>4, <2>5, <1>0, <1>a DEF CountOK, Pending, Storing
  <2>8. ReportOK'
    BY <2>1, <2>2, <2>3, <2>4, <2>5, <1>0, <1>a DEF ReportOK
  <2>9. LoopOK'
    BY <2>1, <2>2, <2>3, <2>4, <2>5, <1>0, <1>a DEF LoopOK
  <2> QED BY <2>6, <2>7, <2>8, <2>9, <1>a DEF RawInvariant
<1>6. CASE handleOtherResendMethods
  <2>1. UNCHANGED <<status, sender, report, posts, late, crashes>>
    BY <1>6 DEF handleOtherResendMethods, history
  <2>2. /\ loop.step = "save" /\ loop # Idle /\ loop.id \in Messages /\ loop.copy \in Records
        /\ loop.ids \in SUBSET Messages /\ raw[loop.id] \in Records
    BY <1>6, LoopTypes DEF handleOtherResendMethods, RawTypeOK, Idle
  <2>3. /\ raw[loop.id].exists /\ loop.id \notin loop.ids /\ (loop.copy.sent \/ loop.copy.whole)
        /\ \A n \in loop.ids : raw[n].exists
        /\ \/ raw[loop.id].sent
           \/ /\ loop.copy.count <= raw[loop.id].count
              /\ posts[loop.id] <= loop.copy.count + crashes + 0
    BY <2>2 DEF LoopOK
  <2>4. /\ raw'[loop.id].exists /\ (raw'[loop.id].sent <=> loop.copy.sent \/ raw[loop.id].sent)
        /\ raw'[loop.id].count = loop.copy.count /\ (raw'[loop.id].whole <=> loop.copy.whole)
        /\ \A n \in Messages \ {loop.id} : raw'[n] = raw[n]
    BY <1>6, <2>2, Saved DEF handleOtherResendMethods
  <2>5. loop'.step = "read" /\ loop'.ids = loop.ids /\ loop'.id = loop.id /\ loop'.copy = loop.copy
    BY <1>6, <2>2 DEF handleOtherResendMethods, RawTypeOK, LoopStates, Idle
  <2>6. \A n \in Messages : RecordOK(n)'
    BY <2>1, <2>2, <2>3, <2>4, <2>5, <1>0, <1>a DEF RecordOK
  <2>7. \A n \in Messages : CountOK(n)'
    BY <2>1, <2>2, <2>3, <2>4, <2>5, <1>0, <1>a DEF CountOK, Pending, Storing
  <2>8. ReportOK'
    BY <2>1, <2>2, <2>3, <2>4, <2>5, <1>0, <1>a DEF ReportOK
  <2>9. LoopOK'
    BY <2>1, <2>2, <2>3, <2>4, <2>5, <1>0, <1>a DEF LoopOK
  <2> QED BY <2>6, <2>7, <2>8, <2>9, <1>a DEF RawInvariant
<1>7. CASE reSendRawMessage
  <2>1. UNCHANGED <<raw, status, sender, report, posts, late, crashes>>
    BY <1>7 DEF reSendRawMessage, stored, history
  <2>2. /\ loop.step = "read" /\ loop # Idle /\ loop.id \in Messages /\ loop.copy \in Records
        /\ loop.ids \in SUBSET Messages /\ raw[loop.id] \in Records
    BY <1>7, LoopTypes DEF reSendRawMessage, RawTypeOK, Idle
  <2>3. /\ raw[loop.id].exists /\ loop.id \notin loop.ids /\ (loop.copy.sent \/ loop.copy.whole)
        /\ \A n \in loop.ids : raw[n].exists
        /\ \/ raw[loop.id].sent
           \/ /\ loop.copy.count <= raw[loop.id].count
              /\ posts[loop.id] <= loop.copy.count + crashes + 0
    BY <2>2 DEF LoopOK
  <2> DEFINE c == [raw[loop.id] EXCEPT !.sent = FALSE]
  <2>5. c.count = raw[loop.id].count /\ (c.whole <=> raw[loop.id].whole)
    BY <2>2 DEF Records
  <2>6. \/ raw[loop.id].whole /\ loop' = Loop("send", loop.ids, loop.id, c)
        \/ LoopOn(loop.ids)
    BY <1>7 DEF reSendRawMessage
  <2> HIDE DEF c
  <2>8. \/ loop'.step = "idle"
        \/ loop'.step = "next" /\ loop'.ids = loop.ids
        \/ /\ loop'.step = "send" /\ loop'.ids = loop.ids /\ loop'.id = loop.id
           /\ loop'.copy.whole /\ loop'.copy.count = raw[loop.id].count
    BY <2>2, <2>5, <2>6, OnTypes DEF Loop
  <2>9. raw[loop.id].sent \/ posts[loop.id] <= raw[loop.id].count + crashes
    BY <2>2, <2>3, <1>0 DEF CountOK, Storing
  <2>10. \A n \in Messages : RecordOK(n)'
    BY <2>1, <2>2, <2>3, <2>5, <2>6, <2>8, <2>9, <1>0, <1>a, Zenon DEF RecordOK
  <2>11. \A n \in Messages : CountOK(n)'
    BY <2>1, <2>2, <2>3, <2>5, <2>6, <2>8, <2>9, <1>0, <1>a DEF CountOK, Pending, Storing
  <2>12. ReportOK'
    BY <2>1, <2>2, <2>3, <2>5, <2>6, <2>8, <2>9, <1>0, <1>a DEF ReportOK
  <2>13. LoopOK'
    BY <2>1, <2>2, <2>3, <2>5, <2>6, <2>8, <2>9, <1>0, <1>a DEF LoopOK
  <2> QED BY <2>10, <2>11, <2>12, <2>13, <1>a DEF RawInvariant
<1>8. CASE Resend
  <2>1. UNCHANGED <<raw, status, sender, report, crashes>>
    BY <1>8 DEF Resend, stored
  <2>2. /\ loop.step = "send" /\ loop # Idle /\ loop.id \in Messages /\ loop.copy \in Records
        /\ loop.ids \in SUBSET Messages /\ raw[loop.id] \in Records
    BY <1>8, LoopTypes DEF Resend, RawTypeOK, Idle
  <2>3. /\ raw[loop.id].exists /\ loop.id \notin loop.ids /\ (loop.copy.sent \/ loop.copy.whole)
        /\ \A n \in loop.ids : raw[n].exists
        /\ \/ raw[loop.id].sent
           \/ /\ loop.copy.count <= raw[loop.id].count
              /\ posts[loop.id] <= loop.copy.count + crashes + 0
    BY <2>2 DEF LoopOK
  <2>4. \/ loop'.step = "idle"
        \/ loop'.step = "next" /\ loop'.ids = loop.ids
        \/ /\ loop'.step = "store" /\ loop'.ids = loop.ids /\ loop'.id = loop.id
           /\ loop'.copy = loop.copy
    BY <1>8, <2>2, OnTypes DEF Resend, RawTypeOK, LoopStates, Idle
  <2>5. \/ posts' = posts /\ late' = late
        \/ /\ loop'.step = "store" /\ posts'[loop.id] = posts[loop.id] + 1
           /\ late'[loop.id] = late[loop.id] + (IF raw[loop.id].sent THEN 1 ELSE 0)
           /\ \A n \in Messages \ {loop.id} : posts'[n] = posts[n] /\ late'[n] = late[n]
    BY <1>8, <2>2 DEF Resend, Posted, Failed, RawTypeOK, LoopStates, Idle
  <2>6. posts[loop.id] <= MaxCount + crashes /\ late[loop.id] = 0
    BY <2>2, <1>0 DEF CountOK, Pending
  <2>7. \A n \in Messages : RecordOK(n)'
    BY <2>1, <2>2, <2>3, <2>4, <2>5, <2>6, <1>0, <1>a DEF RecordOK
  <2>8. \A n \in Messages : CountOK(n)'
    BY <2>1, <2>2, <2>3, <2>4, <2>5, <2>6, <1>0, <1>a DEF CountOK, Pending, Storing
  <2>9. ReportOK'
    BY <2>1, <2>2, <2>3, <2>4, <2>5, <2>6, <1>0, <1>a DEF ReportOK
  <2>10. LoopOK'
    BY <2>1, <2>2, <2>3, <2>4, <2>5, <2>6, <1>0, <1>a DEF LoopOK
  <2> QED BY <2>7, <2>8, <2>9, <2>10, <1>a DEF RawInvariant
<1>9. CASE StoreResent
  <2>1. UNCHANGED <<status, sender, report, posts, late, crashes>>
    BY <1>9 DEF StoreResent, history
  <2>2. /\ loop.step = "store" /\ loop # Idle /\ loop.id \in Messages /\ loop.copy \in Records
        /\ loop.ids \in SUBSET Messages /\ raw[loop.id] \in Records
    BY <1>9, LoopTypes DEF StoreResent, RawTypeOK, Idle
  <2>3. /\ raw[loop.id].exists /\ loop.id \notin loop.ids /\ (loop.copy.sent \/ loop.copy.whole)
        /\ \A n \in loop.ids : raw[n].exists
        /\ \/ raw[loop.id].sent
           \/ /\ loop.copy.count <= raw[loop.id].count
              /\ posts[loop.id] <= loop.copy.count + crashes + 1
    BY <2>2 DEF LoopOK
  <2>4. /\ raw'[loop.id].exists /\ (raw'[loop.id].sent <=> loop.copy.sent \/ raw[loop.id].sent)
        /\ raw'[loop.id].count = loop.copy.count + 1 /\ (raw'[loop.id].whole <=> loop.copy.whole)
        /\ \A n \in Messages \ {loop.id} : raw'[n] = raw[n]
    BY <1>9, <2>2, Upserted DEF StoreResent
  <2>5. \/ loop'.step = "idle"
        \/ loop'.step = "next" /\ loop'.ids = loop.ids
    BY <1>9, <2>2, OnTypes DEF StoreResent
  <2>6. \A n \in Messages : RecordOK(n)'
    BY <2>1, <2>2, <2>3, <2>4, <2>5, <1>0, <1>a DEF RecordOK
  <2>7. \A n \in Messages : CountOK(n)'
    BY <2>1, <2>2, <2>3, <2>4, <2>5, <1>0, <1>a DEF CountOK, Pending, Storing
  <2>8. ReportOK'
    BY <2>1, <2>2, <2>3, <2>4, <2>5, <1>0, <1>a DEF ReportOK
  <2>9. LoopOK'
    BY <2>1, <2>2, <2>3, <2>4, <2>5, <1>0, <1>a DEF LoopOK
  <2> QED BY <2>6, <2>7, <2>8, <2>9, <1>a DEF RawInvariant
<1>10. ASSUME NEW m \in Messages, EnvelopeSent(m) PROVE RawInvariant'
  <2>1. UNCHANGED <<raw, status, sender, loop, posts, late, crashes>>
    BY <1>10 DEF EnvelopeSent, stored, history
  <2>2. report'.step = "mark" /\ report'.id = m /\ posts[m] > 0
    BY <1>10 DEF EnvelopeSent
  <2>3. \A n \in Messages : RecordOK(n)'
    BY <2>1, <2>2, <1>0, <1>a DEF RecordOK
  <2>4. \A n \in Messages : CountOK(n)'
    BY <2>1, <2>2, <1>0, <1>a DEF CountOK, Pending, Storing
  <2>5. ReportOK'
    BY <2>1, <2>2, <1>0, <1>a DEF ReportOK
  <2>6. LoopOK'
    BY <2>1, <2>2, <1>0, <1>a DEF LoopOK
  <2> QED BY <2>3, <2>4, <2>5, <2>6, <1>a DEF RawInvariant
<1>11. CASE MarkSent
  <2>1. UNCHANGED <<status, sender, loop, posts, late, crashes>>
    BY <1>11 DEF MarkSent, history
  <2> DEFINE r == [report.copy EXCEPT !.sent = TRUE]
  <2>3. report.id \in Messages /\ report # Idle /\ r \in Records /\ r.sent
    BY <1>11, ReportTypes, Zenon DEF MarkSent, Records
  <2>4. SaveRawMessage(report.id, r)
    BY <1>11 DEF MarkSent
  <2> HIDE DEF r
  <2>6. /\ raw'[report.id].exists /\ raw'[report.id].sent
        /\ \A n \in Messages \ {report.id} : raw'[n] = raw[n]
    BY <2>3, <2>4, Saved
  <2>7. report'.id = report.id
    BY <1>11, <2>3 DEF MarkSent, RawTypeOK, Idle
  <2>8. posts[report.id] > 0
    BY <2>3 DEF ReportOK
  <2>9. \A n \in Messages : RecordOK(n)'
    BY <2>1, <2>3, <2>4, <2>6, <2>7, <2>8, <1>0, <1>a DEF RecordOK
  <2>10. \A n \in Messages : CountOK(n)'
    BY <2>1, <2>3, <2>4, <2>6, <2>7, <2>8, <1>0, <1>a DEF CountOK, Pending, Storing
  <2>11. ReportOK'
    BY <2>1, <2>3, <2>4, <2>6, <2>7, <2>8, <1>0, <1>a DEF ReportOK
  <2>12. LoopOK'
    BY <2>1, <2>3, <2>4, <2>6, <2>7, <2>8, <1>0, <1>a DEF LoopOK
  <2> QED BY <2>9, <2>10, <2>11, <2>12, <1>a DEF RawInvariant
<1>12. CASE ShowSent
  <2>1. UNCHANGED <<raw, sender, loop, posts, late, crashes>>
    BY <1>12 DEF ShowSent, history
  <2>2. report.id \in Messages /\ report # Idle /\ raw[report.id].sent /\ posts[report.id] > 0
    BY <1>12, ReportTypes DEF ShowSent, ReportOK
  <2>3. /\ report' = Idle
        /\ \A n \in Messages : status'[n] = status[n] \/ (n = report.id /\ status'[n] = "sent")
    BY <1>12, <2>2 DEF ShowSent, UpdateOutgoingStatus, RawTypeOK
  <2>4. \A n \in Messages : RecordOK(n)'
    BY <2>1, <2>2, <2>3, <1>0, <1>a DEF RecordOK
  <2>5. \A n \in Messages : CountOK(n)'
    BY <2>1, <2>2, <2>3, <1>0, <1>a DEF CountOK, Pending, Storing
  <2>6. ReportOK'
    BY <2>1, <2>2, <2>3, <1>0, <1>a DEF ReportOK
  <2>7. LoopOK'
    BY <2>1, <2>2, <2>3, <1>0, <1>a DEF LoopOK
  <2> QED BY <2>4, <2>5, <2>6, <2>7, <1>a DEF RawInvariant
<1>13. CASE UpdateRawMessageSent
  <2>1. UNCHANGED <<status, sender, loop, report, posts, late, crashes>>
    BY <1>13 DEF UpdateRawMessageSent, history
  <2>2. ack.id \in Messages
    BY <1>13 DEF UpdateRawMessageSent, RawTypeOK, Idle
  <2> DEFINE s == [raw[ack.id] EXCEPT !.sent = TRUE]
  <2>4. raw \in [Messages -> Records] /\ raw[ack.id] \in Records
    BY <2>2 DEF RawTypeOK
  <2>5. s \in Records /\ (s.exists <=> raw[ack.id].exists) /\ s.sent /\ s.count = raw[ack.id].count
    BY <2>4, Zenon DEF Records
  <2>6. \/ raw' = raw
        \/ raw[ack.id].exists /\ raw' = [raw EXCEPT ![ack.id] = s]
    BY <1>13 DEF UpdateRawMessageSent
  <2> HIDE DEF s
  <2>8. \/ raw' = raw
        \/ /\ raw[ack.id].exists /\ raw'[ack.id].exists /\ raw'[ack.id].sent
           /\ \A n \in Messages \ {ack.id} : raw'[n] = raw[n]
    BY <2>2, <2>4, <2>5, <2>6
  <2>9. \A n \in Messages : RecordOK(n)'
    BY <2>1, <2>2, <2>4, <2>5, <2>6, <2>8, <1>0, <1>a DEF RecordOK
  <2>10. \A n \in Messages : CountOK(n)'
    BY <2>1, <2>2, <2>4, <2>5, <2>6, <2>8, <1>0, <1>a, Zenon DEF CountOK, Pending, Storing
  <2>11. ReportOK'
    BY <2>1, <2>2, <2>4, <2>5, <2>6, <2>8, <1>0, <1>a DEF ReportOK
  <2>12. LoopOK'
    BY <2>1, <2>2, <2>4, <2>5, <2>6, <2>8, <1>0, <1>a DEF LoopOK
  <2> QED BY <2>9, <2>10, <2>11, <2>12, <1>a DEF RawInvariant
<1>14. ASSUME NEW m \in Messages, Acknowledge(m) PROVE RawInvariant'
  <2>1. UNCHANGED <<raw, sender, loop, report, posts, late, crashes>>
    BY <1>14 DEF Acknowledge, history
  <2>2. /\ posts[m] > 0
        /\ \A n \in Messages : status'[n] = status[n] \/ (n = m /\ status'[n] = "delivered")
    BY <1>14 DEF Acknowledge, UpdateOutgoingStatus, RawTypeOK
  <2>3. \A n \in Messages : RecordOK(n)'
    BY <2>1, <2>2, <1>0, <1>a DEF RecordOK
  <2>4. \A n \in Messages : CountOK(n)'
    BY <2>1, <2>2, <1>0, <1>a DEF CountOK, Pending, Storing
  <2>5. ReportOK'
    BY <2>1, <2>2, <1>0, <1>a DEF ReportOK
  <2>6. LoopOK'
    BY <2>1, <2>2, <1>0, <1>a DEF LoopOK
  <2> QED BY <2>3, <2>4, <2>5, <2>6, <1>a DEF RawInvariant
<1>15. CASE ConnectionChanged
  <2>1. UNCHANGED <<raw, status, sender, loop, report, posts, late, crashes>>
    BY <1>15 DEF ConnectionChanged, stored, history
  <2>2. \A n \in Messages : RecordOK(n)'
    BY <2>1, <1>0, <1>a DEF RecordOK
  <2>3. \A n \in Messages : CountOK(n)'
    BY <2>1, <1>0, <1>a DEF CountOK, Pending, Storing
  <2>4. ReportOK'
    BY <2>1, <1>0, <1>a DEF ReportOK
  <2>5. LoopOK'
    BY <2>1, <1>0, <1>a DEF LoopOK
  <2> QED BY <2>2, <2>3, <2>4, <2>5, <1>a DEF RawInvariant
<1>16. CASE Restart
  <2>1. UNCHANGED <<raw, status, posts, late>>
    BY <1>16 DEF Restart, stored, history
  <2>2. loop' = Idle /\ loop'.step = "idle" /\ report' = Idle /\ crashes' = crashes + 1
    BY <1>16 DEF Restart, Idle
  <2>3. \A n \in Messages : sender'[n] = sender[n] \/ sender'[n] = "done"
    BY <1>16 DEF Restart
  <2>4. \A n \in Messages : raw[n].exists /\ ~raw[n].sent => posts[n] <= raw[n].count + crashes + 1
    BY <1>0 DEF CountOK, Storing, LoopOK
  <2>5. \A n \in Messages : RecordOK(n)'
    BY <2>1, <2>2, <2>3, <2>4, <1>0, <1>a DEF RecordOK
  <2>6. \A n \in Messages : CountOK(n)'
    BY <2>1, <2>2, <2>3, <2>4, <1>0, <1>a DEF CountOK, Pending, Storing
  <2>7. ReportOK'
    BY <2>1, <2>2, <2>3, <2>4, <1>0, <1>a DEF ReportOK
  <2>8. LoopOK'
    BY <2>1, <2>2, <2>3, <2>4, <1>0, <1>a, Zenon DEF LoopOK
  <2> QED BY <2>5, <2>6, <2>7, <2>8, <1>a DEF RawInvariant
<1>17. CASE UNCHANGED rawVars
  BY <1>17, TypeStep DEF RawInvariant, rawVars, RecordOK, CountOK, Pending, Storing, ReportOK, LoopOK
<1> QED
  BY <1>1, <1>2, <1>3, <1>4, <1>5, <1>6, <1>7, <1>8, <1>9, <1>10, <1>11, <1>12, <1>13, <1>14,
     <1>15, <1>16, <1>17 DEF RawNext, LoopNext, ReportNext
(* RawInvariant holds throughout. *)
LEMMA InvariantHolds == RawSpec => []RawInvariant
<1>1. RawInit => RawInvariant
  <2> SUFFICES ASSUME RawInit PROVE RawInvariant
    OBVIOUS
  <2>1. NoRecord \in Records /\ ~NoRecord.exists /\ ~NoRecord.sent /\ Idle.step = "idle"
    BY DEF NoRecord, Records, Idle
  <2>2. RawTypeOK
    BY <2>1, Zenon DEF RawInit, RawTypeOK, Kinds, LoopStates
  <2>3. ASSUME NEW m \in Messages PROVE RecordOK(m) /\ CountOK(m)
    <3>1. /\ raw[m] = NoRecord /\ sender[m] = "idle" /\ status[m] = "none"
          /\ posts[m] = 0 /\ late[m] = 0 /\ crashes = 0 /\ loop.step = "idle"
      BY <2>1 DEF RawInit
    <3>2. MaxCount \in Nat
      BY CountAssumption
    <3>3. RecordOK(m)
      BY <2>1, <3>1 DEF RecordOK
    <3>4. ~Pending(m)
      BY <3>1 DEF Pending
    <3>5. CountOK(m)
      BY <2>1, <3>1, <3>2, <3>4 DEF CountOK
    <3> QED BY <3>3, <3>5
  <2>4. ReportOK /\ LoopOK
    BY <2>1 DEF RawInit, ReportOK, LoopOK
  <2> QED BY <2>2, <2>3, <2>4 DEF RawInvariant
<1>2. RawInvariant /\ [RawNext]_rawVars => RawInvariant'
  BY InvariantStep
<1> QED BY <1>1, <1>2, PTL DEF RawSpec

(* The temporary record of a report never takes the place of one that is   *)
(* to be sent again (processSentMessage).                                  *)
THEOREM UnsentCorrect == RawSpec => []UnsentIsWhole
<1>1. RawInvariant => UnsentIsWhole
  BY DEF RawInvariant, RecordOK, UnsentIsWhole
<1> QED BY <1>1, InvariantHolds, PTL

(* A mark stops the loop after at most one more post                       *)
(* (resendExpiredMessages, processMessageID).                              *)
THEOREM MarkStopsCorrect == RawSpec => []MarkStopsResending
<1>1. RawInvariant => MarkStopsResending
  BY Zenon DEF RawInvariant, CountOK, MarkStopsResending
<1> QED BY <1>1, InvariantHolds, PTL

(* The number of posts is bounded by messageResendMaxCount and the number  *)
(* of restarts (ExpiredMessagesIDs, UpsertRawMessageToWatch).              *)
THEOREM AttemptsCorrect == RawSpec => []AttemptsAreBounded
<1>1. RawInvariant => AttemptsAreBounded
  BY Zenon DEF RawInvariant, CountOK, AttemptsAreBounded
<1> QED BY <1>1, InvariantHolds, PTL
-----------------------------------------------------------------------------
Marks == [m \in Messages |-> raw[m].sent]

StatusStep == [Status!StatusNext]_(Status!statusVars)

(* A step that changes neither marks nor status is a stuttering step. *)
LEMMA Stutters ==
  ASSUME Marks' = Marks, status' = status
  PROVE  StatusStep
  BY DEF StatusStep, Marks, Status!statusVars

(* A step that may mark one message, and does not change any status. *)
LEMMA Marking ==
  ASSUME RawTypeOK, RawTypeOK', status' = status, NEW m \in Messages,
         raw[m].sent => raw'[m].sent,
         \A n \in Messages \ {m} : raw'[n] = raw[n]
  PROVE  StatusStep
<1>0. raw \in [Messages -> Records] /\ raw' \in [Messages -> Records]
  BY DEF RawTypeOK
<1>1. \A n \in Messages : raw[n].sent \in BOOLEAN /\ raw'[n].sent \in BOOLEAN
  BY <1>0 DEF Records
<1>2. CASE raw'[m].sent <=> raw[m].sent
  <2>1. \A n \in Messages : raw'[n].sent = raw[n].sent
    BY <1>1, <1>2
  <2> QED BY <2>1, Stutters DEF Marks
<1>3. CASE raw'[m].sent
  <2>1. Marks' = [Marks EXCEPT ![m] = TRUE]
    BY <1>1, <1>3, Zenon DEF Marks
  <2> QED BY <2>1, Zenon DEF StatusStep, Marks, Status!StatusNext, Status!Mark
<1> QED BY <1>1, <1>2, <1>3

(* Each step does what a MessageStatus may do. *)
LEMMA StatusSteps ==
  ASSUME RawInvariant, [RawNext]_rawVars
  PROVE  StatusStep
<1> RawTypeOK /\ RawTypeOK' /\ (\A n \in Messages : RecordOK(n)) /\ ReportOK
  BY TypeStep, Zenon DEF RawInvariant
<1>1. ASSUME NEW m \in Messages, StoreSent(m) PROVE StatusStep
  <2> DEFINE r == [NoRecord EXCEPT !.whole = TRUE]
  <2>1. r \in Records /\ Upsert(m, r) /\ status' = status
    BY <1>1, Zenon DEF NoRecord, Records, StoreSent
  <2> HIDE DEF r
  <2> QED BY <2>1, Upserted, Marking
<1>2. ASSUME NEW m \in Messages, Elapse(m) PROVE StatusStep
  <2>1. raw[m] \in Records /\ raw' = [raw EXCEPT ![m] = [raw[m] EXCEPT !.due = TRUE]]
    BY <1>2 DEF Elapse, RawTypeOK
  <2>2. (raw[m].sent => raw'[m].sent) /\ \A n \in Messages \ {m} : raw'[n] = raw[n]
    BY <2>1, Flags DEF RawTypeOK
  <2> QED BY <1>2, <2>2, Marking DEF Elapse
<1>3. ASSUME NEW m \in Messages, NEW k \in Kinds, Send(m, k) PROVE StatusStep
  <2>1. status[m] = "none" /\ Marks' = Marks
    BY <1>3 DEF Send, RecordOK, Marks
  <2>2. status' = status \/ status' = [status EXCEPT ![m] = "sending"]
    BY <1>3 DEF Send
  <2>3. CASE status' = [status EXCEPT ![m] = "sending"]
    BY <2>1, <2>3, Zenon DEF StatusStep, Marks, Status!StatusNext, Status!Begin
  <2> QED BY <2>1, <2>2, <2>3, Stutters
<1>4. CASE resendExpiredMessages
  BY <1>4, Stutters DEF resendExpiredMessages, stored, Marks
<1>5. ASSUME NEW m \in Messages, processMessageID(m) PROVE StatusStep
  BY <1>5, Stutters DEF processMessageID, stored, Marks
<1>6. CASE handleOtherResendMethods
  <2>1. loop.id \in Messages /\ loop.copy \in Records
    BY <1>6, LoopTypes DEF handleOtherResendMethods, RawTypeOK
  <2> QED BY <1>6, <2>1, Saved, Marking DEF handleOtherResendMethods
<1>7. CASE reSendRawMessage
  BY <1>7, Stutters DEF reSendRawMessage, stored, Marks
<1>8. CASE Resend
  BY <1>8, Stutters DEF Resend, stored, Marks
<1>9. CASE StoreResent
  <2>1. loop.id \in Messages /\ loop.copy \in Records
    BY <1>9, LoopTypes DEF StoreResent, RawTypeOK
  <2> QED BY <1>9, <2>1, Upserted, Marking DEF StoreResent
<1>10. ASSUME NEW m \in Messages, EnvelopeSent(m) PROVE StatusStep
  BY <1>10, Stutters, Zenon DEF EnvelopeSent, stored, Marks
<1>11. CASE MarkSent
  <2> DEFINE r == [report.copy EXCEPT !.sent = TRUE]
  <2>1. report.id \in Messages /\ r \in Records /\ SaveRawMessage(report.id, r) /\ status' = status
    BY <1>11, ReportTypes, Zenon DEF MarkSent, Records
  <2> HIDE DEF r
  <2> QED BY <2>1, Saved, Marking
<1>12. CASE ShowSent
  <2>1. /\ report.id \in Messages /\ raw[report.id].sent /\ Marks' = Marks
        /\ status[report.id] \in {"none", "sending", "sent", "delivered"}
    BY <1>12, ReportTypes, Zenon DEF ShowSent, ReportOK, Marks, RawTypeOK
  <2>2. \/ status' = status
        \/ /\ status[report.id] \in {"sending", "sent"}
           /\ status' = [status EXCEPT ![report.id] = "sent"]
    BY <1>12, <2>1 DEF ShowSent, UpdateOutgoingStatus
  <2>3. CASE status[report.id] = "sent" /\ status' = [status EXCEPT ![report.id] = "sent"]
    <3>1. status' = status
      BY <2>1, <2>3 DEF RawTypeOK
    <3> QED BY <2>1, <3>1, Stutters
  <2>4. CASE status[report.id] = "sending" /\ status' = [status EXCEPT ![report.id] = "sent"]
    <3>1. Marks[report.id]
      BY <2>1 DEF Marks
    <3> QED BY <2>1, <2>4, <3>1, Zenon DEF StatusStep, Marks, Status!StatusNext, Status!Sent
  <2> QED BY <2>1, <2>2, <2>3, <2>4, Stutters, Zenon
<1>13. CASE UpdateRawMessageSent
  <2>1. ack.id \in Messages /\ raw[ack.id] \in Records
    BY <1>13 DEF UpdateRawMessageSent, RawTypeOK, Idle
  <2>2. CASE raw' = raw
    BY <1>13, <2>2, Stutters, Zenon DEF UpdateRawMessageSent, Marks
  <2>3. CASE raw' # raw
    <3> DEFINE s == [raw[ack.id] EXCEPT !.sent = TRUE]
    <3>1. s.sent /\ raw' = [raw EXCEPT ![ack.id] = s] /\ status' = status
      BY <1>13, <2>1, <2>3 DEF UpdateRawMessageSent, Records
    <3> HIDE DEF s
    <3>2. raw'[ack.id].sent /\ \A n \in Messages \ {ack.id} : raw'[n] = raw[n]
      BY <2>1, <3>1 DEF RawTypeOK
    <3> QED BY <2>1, <3>1, <3>2, Marking
  <2> QED BY <2>2, <2>3
<1>14. ASSUME NEW m \in Messages, Acknowledge(m) PROVE StatusStep
  <2>1. Marks' = Marks /\ status[m] \in {"none", "sending", "sent", "delivered"}
    BY <1>14 DEF Acknowledge, Marks, RawTypeOK
  <2>2. \/ status' = status
        \/ /\ status[m] \in {"sending", "sent"}
           /\ status' = [status EXCEPT ![m] = "delivered"]
    BY <1>14, <2>1, Zenon DEF Acknowledge, UpdateOutgoingStatus
  <2>3. CASE status[m] \in {"sending", "sent"} /\ status' = [status EXCEPT ![m] = "delivered"]
    BY <2>1, <2>3, Zenon DEF StatusStep, Marks, Status!StatusNext, Status!Delivered
  <2> QED BY <2>1, <2>2, <2>3, Stutters, Zenon
<1>15. CASE ConnectionChanged
  BY <1>15, Stutters DEF ConnectionChanged, stored, Marks
<1>16. CASE Restart
  BY <1>16, Stutters, Zenon DEF Restart, stored, Marks
<1>17. CASE UNCHANGED rawVars
  BY <1>17, Stutters DEF rawVars, Marks
<1> QED
  BY <1>1, <1>2, <1>3, <1>4, <1>5, <1>6, <1>7, <1>8, <1>9, <1>10, <1>11, <1>12, <1>13, <1>14,
     <1>15, <1>16, <1>17 DEF RawNext, LoopNext, ReportNext

(* The goroutines implement MessageStatus: no interleaving of theirs takes *)
(* a mark back or moves the status of a message back, and nothing is shown *)
(* as sent that is not marked (SaveRawMessage, UpdateMessageOutgoingStatus, *)
(* processSentMessage, markDeliveredMessages).                             *)
THEOREM StatusImplemented == RawSpec => StatusSpec
<1>1. RawInit => Status!StatusInit
  BY DEF RawInit, NoRecord, Status!StatusInit
<1>2. RawInvariant /\ [RawNext]_rawVars => [Status!StatusNext]_(Status!statusVars)
  BY StatusSteps DEF StatusStep
<1> QED BY <1>1, <1>2, InvariantHolds, PTL DEF RawSpec, StatusSpec, Status!StatusSpec

(* Rows are written whole by every goroutine, and each is at one of its    *)
(* steps: SaveRawMessage, UpsertRawMessageToWatch and processSentMessage.  *)
THEOREM RawTypesCorrect == RawSpec => []RawTypeOK
  BY InvariantHolds, PTL DEF RawInvariant
=============================================================================
