--------------------------- MODULE SendPathProofs ---------------------------
(***************************************************************************)
(* Monitor: MonitorInvariant is inductive, whatever the network reports.   *)
(*                                                                         *)
(* Send path: it keeps to what the monitor is proved correct for, so that  *)
(* the theorems about the monitor hold for the composed system; and what   *)
(* the monitor alone cannot promise, as it depends on each envelope having *)
(* one event: no report is lost and nothing confirmed is posted again.     *)
(***************************************************************************)
EXTENDS SendPath, TLAPS

(* The contexts are large: more time than by default, and the SMT backend  *)
(* once more when its translation was cut off.                             *)
USE SMTT(30), ZenonT(30), Z3T(30), SMTT(40), Z3T(40)

USE DEF Pointer, Envelope

(* The zero values of NewEnvelopesMonitor satisfy the invariant. *)
LEMMA InitInvariant == Init => MonitorInvariant
  BY MaxAttemptsAssumption, PointersAssumption
  DEF Init, MonitorInvariant, TypeOK, ObjectsOwnTheirHashes, Allocated,
      PointersAreAllocated, QueuedAreNotRecorded, RecordedAreFaithful, Recorded,
      RecordsComeFromAdd, SentReportsAreConfirmed

(* A step that runs processMessageIDs over any ids reports truthfully,     *)
(* once the maps it leaves behind are faithful.                            *)
LEMMA ReportsStayConfirmed ==
  ASSUME NEW ids \in SUBSET MessageID,
         TypeOK', PointersAreAllocated', RecordedAreFaithful', RecordsComeFromAdd',
         SentReportsAreConfirmed,
         adds \subseteq adds', confirmed \subseteq confirmed',
         processMessageIDs(ids)
  PROVE  SentReportsAreConfirmed'
<1> SUFFICES ASSUME NEW id \in reportedSent'
             PROVE  \E a \in adds' : id \in a[1] /\ a[2] \subseteq confirmed'
  BY DEF SentReportsAreConfirmed
<1>1. CASE id \in reportedSent
  BY <1>1 DEF SentReportsAreConfirmed
<1>2. CASE id \notin reportedSent
  <2>1. /\ id \in MessageID
        /\ messageEnvelopeHashes'[id] # {}
        /\ \A h \in messageEnvelopeHashes'[id] : GetState(h)' = "Sent"
    BY <1>2 DEF processMessageIDs
  <2>2. ASSUME NEW h \in messageEnvelopeHashes'[id] PROVE h \in confirmed'
    <3>1. h \in Hash /\ envelopes'[h] \in Hash \cup {None, Bare}
      BY <2>1 DEF TypeOK
    <3>2. Recorded(h)'
      BY <2>1 DEF Recorded
    <3>3. GetState(h)' = "Sent"
      BY <2>1
    <3>4. CASE envelopes'[h] = Bare
      BY <3>1, <3>4 DEF PointersAreAllocated
    <3>5. CASE envelopes'[h] \in Hash
      <4>1. envelopes'[h] = h /\ (object'[h].state = "Sent" => h \in confirmed')
        BY <3>1, <3>2, <3>5 DEF RecordedAreFaithful
      <4>2. object'[h].state = "Sent"
        BY <3>3, <3>5, <4>1, PointersAssumption DEF GetState
      <4> QED BY <4>1, <4>2
    <3>6. envelopes'[h] # None
      BY <3>3 DEF GetState
    <3> QED BY <3>1, <3>4, <3>5, <3>6
  <2> QED BY <2>1, <2>2 DEF RecordsComeFromAdd
<1> QED BY <1>1, <1>2

(* The objects a batch acknowledgement marks are tracked envelopes. *)
LEMMA PointersToObjects ==
  ASSUME TypeOK, NEW given \in SUBSET Hash
  PROVE  /\ PointersTo(given) \in SUBSET Hash
         /\ UNION {object[o].messageIDs : o \in PointersTo(given)} \in SUBSET MessageID
         /\ Unconfirmed(given) \in SUBSET Hash
<1>1. PointersTo(given) \in SUBSET Hash
  BY PointersAssumption DEF TypeOK, PointersTo, Unconfirmed, GetState
<1>2. \A o \in Hash : object[o].messageIDs \in SUBSET MessageID
  BY DEF TypeOK
<1> QED BY <1>1, <1>2 DEF Unconfirmed

(* Type correctness is preserved by every handler. *)
LEMMA TypeStep == TypeOK /\ [Next]_vars => TypeOK'
<1> SUFFICES ASSUME TypeOK, [Next]_vars PROVE TypeOK'
  OBVIOUS
<1> USE MaxAttemptsAssumption, PointersAssumption
<1>1. ASSUME NEW h \in Hash, Post(h) PROVE TypeOK'
  BY <1>1 DEF TypeOK, Post, monitorState, history
<1>2. ASSUME NEW ids \in SUBSET MessageID, NEW given \in SUBSET Hash, Add(ids, given)
      PROVE TypeOK'
  BY <1>2 DEF TypeOK, Add, processMessageIDs
<1>3. ASSUME NEW h \in Hash, HandleEventEnvelopeSent(h) PROVE TypeOK'
  BY <1>3 DEF TypeOK, HandleEventEnvelopeSent, MarkSent, processMessageIDs, GetState, network
<1>4. ASSUME NEW h \in Hash, HandleEventEnvelopeExpired(h) PROVE TypeOK'
  BY <1>4 DEF TypeOK, HandleEventEnvelopeExpired, HandleEnvelopeFailure, GetState,
              network, removeFromRetryQueue
<1>5. ASSUME NEW h \in Hash, HandleEventEnvelopeReceived(h) PROVE TypeOK'
  BY <1>5 DEF TypeOK, HandleEventEnvelopeReceived, MarkSent, processMessageIDs, GetState, network
<1>6. ASSUME NEW h \in Hash, NEW b \in Batch, HandleEventEnvelopeSentInBatch(h, b)
      PROVE TypeOK'
  BY <1>6 DEF TypeOK, HandleEventEnvelopeSentInBatch, network, history
<1>7. ASSUME NEW given \in SUBSET Hash, MarkBatchSent(given)
      PROVE  /\ object' \in [Hash -> Envelope]
             /\ confirmed' \subseteq Hash
             /\ reportedSent' \subseteq MessageID
  <2> DEFINE ids == UNION {object[o].messageIDs : o \in PointersTo(given)}
  <2>1. ids \in SUBSET MessageID /\ Unconfirmed(given) \in SUBSET Hash
    BY PointersToObjects
  <2>2. processMessageIDs(ids)
    BY <1>7 DEF MarkBatchSent
  <2> HIDE DEF ids
  <2>3. reportedSent' \subseteq MessageID
    BY <2>1, <2>2 DEF processMessageIDs, TypeOK
  <2> QED BY <1>7, <2>1, <2>3 DEF MarkBatchSent, TypeOK
<1>8. ASSUME NEW b \in Batch, HandleAcknowledgedBatch(b) PROVE TypeOK'
  BY <1>7, <1>8 DEF TypeOK, HandleAcknowledgedBatch, network
<1>12. ASSUME NEW b \in Batch, NEW e \in Hash, HandleAcknowledgedBatchError(b, e)
      PROVE TypeOK'
  <2>1. batches[b] \ {e} \in SUBSET Hash
    BY DEF TypeOK
  <2>2. /\ object' \in [Hash -> Envelope]
        /\ confirmed' \subseteq Hash
        /\ reportedSent' \subseteq MessageID
    BY <1>7, <1>12, <2>1 DEF HandleAcknowledgedBatchError
  <2> QED BY <1>12, <2>2 DEF TypeOK, HandleAcknowledgedBatchError, HandleEnvelopeFailure,
                             GetState, network, removeFromRetryQueue
<1>9. ASSUME NEW o \in Hash, RetryOncePostFails(o) PROVE TypeOK'
  BY <1>9 DEF TypeOK, RetryOncePostFails, network
<1>10. ASSUME NEW o \in Hash, NEW h \in Hash, RetryOncePosts(o, h) PROVE TypeOK'
  BY <1>10 DEF TypeOK, RetryOncePosts, removeFromRetryQueue, history
<1>11. ASSUME UNCHANGED vars PROVE TypeOK'
  BY <1>11 DEF TypeOK, vars, monitorState, network, history
<1> QED BY <1>1, <1>2, <1>3, <1>4, <1>5, <1>6, <1>7, <1>8, <1>9, <1>10, <1>11, <1>12 DEF Next

(* The five conjuncts about the maps and the queue, without the type.      *)
MapsAgree ==
  /\ ObjectsOwnTheirHashes
  /\ PointersAreAllocated
  /\ QueuedAreNotRecorded
  /\ RecordedAreFaithful
  /\ RecordsComeFromAdd

(* A sender that posts an envelope takes a hash nobody owns. *)
LEMMA PostAgrees ==
  ASSUME MonitorInvariant, NEW h \in Hash, Post(h)
  PROVE  MapsAgree'
<1>1. Owned' = Owned
  BY DEF Post, Owned, MonitorInvariant, TypeOK
<1> QED BY <1>1 DEF MonitorInvariant, MapsAgree, Post, monitorState, history,
       ObjectsOwnTheirHashes, PointersAreAllocated, QueuedAreNotRecorded,
       RecordedAreFaithful, RecordsComeFromAdd, Allocated, Recorded

(* Add creates objects under hashes that nothing else refers to.           *)
LEMMA AddAgrees ==
  ASSUME MonitorInvariant, NEW ids \in SUBSET MessageID, NEW given \in SUBSET Hash,
         Add(ids, given), TypeOK'
  PROVE  MapsAgree'
<1> USE PointersAssumption DEF MonitorInvariant
<1>1. Owned' = Owned \cup given /\ given \cap Owned = {}
  BY DEF Add, Owned, TypeOK
<1>2. \A h \in given : ~Recorded(h)
  BY <1>1 DEF RecordedAreFaithful
<1>3. \A h \in given : ~Allocated(h)
  BY <1>1 DEF ObjectsOwnTheirHashes
<1>4. \A o \in Hash : Allocated(o) => object'[o] = object[o] /\ Allocated(o)'
  BY <1>3 DEF Add, TypeOK, Allocated
<1>5. \A h \in Hash : Recorded(h)' => Recorded(h) \/ h \in given
  BY DEF Add, Recorded, TypeOK
<1>6. ObjectsOwnTheirHashes'
  <2> SUFFICES ASSUME NEW o \in Hash, Allocated(o)'
               PROVE  /\ o \in Owned' /\ object'[o].hash \in Owned'
                      /\ \A id \in MessageID :
                           (o \in messageEnvelopeHashes'[id] \/ object'[o].hash \in messageEnvelopeHashes'[id])
                             => id \in object'[o].messageIDs
    BY DEF ObjectsOwnTheirHashes
  <2>1. CASE Allocated(o)
    BY <1>1, <1>4, <2>1 DEF ObjectsOwnTheirHashes, Add, TypeOK
  <2>2. CASE ~Allocated(o)
    <3>1. o \in given /\ object'[o].hash = o /\ object'[o].messageIDs = ids
      BY <2>2 DEF Allocated, Add, TypeOK
    <3> QED BY <1>1, <1>2, <3>1 DEF Add, Recorded, TypeOK
  <2> QED BY <2>1, <2>2
<1>7. PointersAreAllocated'
  <2> SUFFICES ASSUME NEW h \in Hash
               PROVE  /\ envelopes'[h] \in Hash =>
                           object'[envelopes'[h]].messageIDs # {} /\ h \in Owned'
                      /\ envelopes'[h] = Bare => h \in confirmed'
    BY DEF PointersAreAllocated, Allocated
  <2>1. CASE envelopes'[h] = envelopes[h]
    <3>1. envelopes[h] = Bare => h \in confirmed'
      BY DEF PointersAreAllocated, Add
    <3>2. envelopes[h] \in Hash => Allocated(envelopes[h]) /\ h \in Owned
      BY DEF PointersAreAllocated
    <3> QED BY <1>1, <1>4, <2>1, <3>1, <3>2 DEF Allocated
  <2>2. CASE envelopes'[h] # envelopes[h]
    <3>1. h \in given /\ envelopes'[h] = h /\ object'[h].messageIDs = ids /\ ids # {}
      BY <2>2 DEF Add, TypeOK
    <3> QED BY <1>1, <3>1
  <2> QED BY <2>1, <2>2
<1>8. QueuedAreNotRecorded'
  <2> SUFFICES ASSUME NEW o \in retryQueue
               PROVE  /\ Allocated(o)' /\ ~Recorded(o)'
                      /\ \A g \in Hash : g = object'[o].hash => ~Recorded(g)'
    BY DEF QueuedAreNotRecorded, Add, Recorded, TypeOK
  <2>1. o \in Hash /\ Allocated(o) /\ object[o].hash \in Hash
    BY DEF QueuedAreNotRecorded, TypeOK
  <2>2. o \in Owned /\ object[o].hash \in Owned
    BY <2>1 DEF ObjectsOwnTheirHashes
  <2>3. ~Recorded(o) /\ ~Recorded(object[o].hash)
    BY DEF QueuedAreNotRecorded
  <2>4. object'[o] = object[o] /\ Allocated(o)'
    BY <1>4, <2>1
  <2> QED BY <1>1, <1>5, <2>1, <2>2, <2>3, <2>4
<1>9. RecordedAreFaithful'
  <2> SUFFICES ASSUME NEW h \in Hash, Recorded(h)'
               PROVE  /\ h \in Owned'
                      /\ envelopes'[h] \in Hash =>
                           envelopes'[h] = h /\ (object'[h].state = "Sent" => h \in confirmed')
                      /\ \A g \in Hash : envelopes'[g] = h => g = h
    BY DEF RecordedAreFaithful
  <2>1. CASE h \in given
    <3>1. \A g \in Hash : envelopes[g] # h
      BY <1>3, <2>1 DEF PointersAreAllocated
    <3>2. envelopes[h] \notin Hash
      BY <1>1, <2>1 DEF PointersAreAllocated
    <3>3. envelopes'[h] \in Hash => envelopes'[h] = h /\ object'[h].state = "Posted"
      BY <2>1, <3>2 DEF Add, TypeOK
    <3>4. \A g \in Hash : envelopes'[g] = envelopes[g] \/ envelopes'[g] = g
      BY DEF Add, TypeOK
    <3> QED BY <1>1, <2>1, <3>1, <3>3, <3>4
  <2>2. CASE h \notin given
    BY <1>1, <1>5, <2>2 DEF RecordedAreFaithful, Add, TypeOK
  <2> QED BY <2>1, <2>2
<1>10. RecordsComeFromAdd'
  <2> SUFFICES ASSUME NEW id \in MessageID, messageEnvelopeHashes'[id] # {}
               PROVE  \E a \in adds' : id \in a[1] /\ a[2] = messageEnvelopeHashes'[id]
    BY DEF RecordsComeFromAdd
  <2>1. CASE id \in ids
    <3>1. messageEnvelopeHashes'[id] = given /\ <<ids, given>> \in adds'
      BY <2>1 DEF Add
    <3> QED BY <2>1, <3>1
  <2>2. CASE id \notin ids
    BY <2>2 DEF Add, RecordsComeFromAdd
  <2> QED BY <2>1, <2>2
<1> QED BY <1>6, <1>7, <1>8, <1>9, <1>10 DEF MapsAgree

(* What the handlers of network events have in common: they forget map     *)
(* entries and whole messages, mark objects that a confirmed hash points   *)
(* to, register Bare for a confirmed hash, and queue an object only when   *)
(* its messages are forgotten.  That much preserves the agreement.         *)
OnlyForgetsAndMarks ==
  /\ UNCHANGED <<posted, untracked, adds>>
  /\ confirmed \subseteq confirmed'
  /\ \A h \in Hash : \/ envelopes'[h] \in {envelopes[h], None}
                     \/ envelopes'[h] = Bare /\ h \in confirmed'
  /\ \A id \in MessageID : messageEnvelopeHashes'[id] \in {messageEnvelopeHashes[id], {}}
  /\ \A o \in Hash :
       /\ object'[o].hash = object[o].hash
       /\ object'[o].messageIDs = object[o].messageIDs
       /\ object'[o].state = "Sent" =>
            object[o].state = "Sent" \/ \E g \in confirmed' : envelopes[g] = o
  /\ \A o \in retryQueue' :
       \/ o \in retryQueue
       \/ Allocated(o) /\ \A id \in object[o].messageIDs : messageEnvelopeHashes'[id] = {}

(* A step that only forgets and marks leaves the maps in agreement. *)
LEMMA HandlerAgrees ==
  ASSUME MonitorInvariant, OnlyForgetsAndMarks, TypeOK'
  PROVE  MapsAgree'
<1> USE PointersAssumption DEF MonitorInvariant
<1>1. Owned' = Owned
  BY DEF OnlyForgetsAndMarks, Owned
<1>2. \A o \in Hash : Allocated(o)' <=> Allocated(o)
  BY DEF OnlyForgetsAndMarks, Allocated
<1>3. \A h \in Hash : Recorded(h)' => Recorded(h)
  BY DEF OnlyForgetsAndMarks, Recorded
<1>4. \A o \in Hash : object'[o].hash = object[o].hash /\ object[o].hash \in Hash
  BY DEF OnlyForgetsAndMarks, TypeOK
<1>5. \A h \in Hash : envelopes'[h] \in Hash => envelopes'[h] = envelopes[h]
  BY DEF OnlyForgetsAndMarks
<1>6. ObjectsOwnTheirHashes'
  <2>1. \A o \in Hash : object'[o].messageIDs = object[o].messageIDs
    BY DEF OnlyForgetsAndMarks
  <2>2. \A id \in MessageID : messageEnvelopeHashes'[id] \in {messageEnvelopeHashes[id], {}}
    BY DEF OnlyForgetsAndMarks
  <2> QED BY <1>1, <1>2, <1>4, <2>1, <2>2 DEF ObjectsOwnTheirHashes
<1>7. PointersAreAllocated'
  <2> SUFFICES ASSUME NEW h \in Hash
               PROVE  /\ envelopes'[h] \in Hash =>
                           object'[envelopes'[h]].messageIDs # {} /\ h \in Owned'
                      /\ envelopes'[h] = Bare => h \in confirmed'
    BY DEF PointersAreAllocated, Allocated
  <2>1. envelopes[h] \in Hash => Allocated(envelopes[h]) /\ h \in Owned
    BY DEF PointersAreAllocated
  <2>2. envelopes'[h] = Bare => h \in confirmed'
    BY DEF PointersAreAllocated, OnlyForgetsAndMarks
  <2> QED BY <1>1, <1>2, <1>5, <2>1, <2>2 DEF Allocated
<1>8. QueuedAreNotRecorded'
  <2> SUFFICES ASSUME NEW o \in retryQueue'
               PROVE  /\ Allocated(o)' /\ ~Recorded(o)'
                      /\ \A g \in Hash : g = object'[o].hash => ~Recorded(g)'
    BY DEF QueuedAreNotRecorded, Recorded, TypeOK
  <2>1. o \in Hash
    BY DEF TypeOK
  <2>2. CASE o \in retryQueue
    BY <1>2, <1>3, <1>4, <2>1, <2>2 DEF QueuedAreNotRecorded
  <2>3. CASE Allocated(o) /\ \A id \in object[o].messageIDs : messageEnvelopeHashes'[id] = {}
    <3>1. \A id \in MessageID :
            (o \in messageEnvelopeHashes[id] \/ object[o].hash \in messageEnvelopeHashes[id])
              => id \in object[o].messageIDs
      BY <2>1, <2>3 DEF ObjectsOwnTheirHashes
    <3>2. \A id \in MessageID :
             o \notin messageEnvelopeHashes'[id] /\ object[o].hash \notin messageEnvelopeHashes'[id]
      BY <2>3, <3>1 DEF OnlyForgetsAndMarks
    <3> QED BY <1>2, <1>4, <2>1, <2>3, <3>2 DEF Recorded
  <2> QED BY <2>2, <2>3 DEF OnlyForgetsAndMarks
<1>9. RecordedAreFaithful'
  <2> SUFFICES ASSUME NEW h \in Hash, Recorded(h)'
               PROVE  /\ h \in Owned'
                      /\ envelopes'[h] \in Hash =>
                           envelopes'[h] = h /\ (object'[h].state = "Sent" => h \in confirmed')
                      /\ \A g \in Hash : envelopes'[g] = h => g = h
    BY DEF RecordedAreFaithful
  <2>1. /\ h \in Owned
        /\ envelopes[h] \in Hash =>
             envelopes[h] = h /\ (object[h].state = "Sent" => h \in confirmed)
        /\ \A g \in Hash : envelopes[g] = h => g = h
    BY <1>3 DEF RecordedAreFaithful
  <2>2. confirmed' \subseteq Hash /\ confirmed \subseteq confirmed'
    BY DEF TypeOK, OnlyForgetsAndMarks
  <2>3. object'[h].state = "Sent" =>
          object[h].state = "Sent" \/ \E g \in confirmed' : envelopes[g] = h
    BY DEF OnlyForgetsAndMarks
  <2> QED BY <1>1, <1>5, <2>1, <2>2, <2>3
<1>10. RecordsComeFromAdd'
  BY DEF RecordsComeFromAdd, OnlyForgetsAndMarks
<1> QED BY <1>6, <1>7, <1>8, <1>9, <1>10 DEF MapsAgree

(* A failing retry points the old hash at the queued object again; nobody  *)
(* records that hash any more.                                             *)
LEMMA RetryFailsAgrees ==
  ASSUME MonitorInvariant, NEW o \in Hash, RetryOncePostFails(o), TypeOK'
  PROVE  MapsAgree'
<1> USE PointersAssumption DEF MonitorInvariant
<1>1. o \in Owned /\ object[o].hash \in Owned /\ object[o].hash \in Hash
  BY DEF RetryOncePostFails, QueuedAreNotRecorded, ObjectsOwnTheirHashes, TypeOK
<1>2. ~Recorded(o) /\ ~Recorded(object[o].hash) /\ Allocated(o)
  BY DEF RetryOncePostFails, QueuedAreNotRecorded
<1>3. \A q \in Hash : /\ object'[q].hash = object[q].hash
                      /\ object'[q].messageIDs = object[q].messageIDs
                      /\ q # o => object'[q] = object[q]
  BY DEF RetryOncePostFails, TypeOK
<1>4. \A h \in Hash : envelopes'[h] = IF h = object[o].hash THEN o ELSE envelopes[h]
  BY DEF RetryOncePostFails, TypeOK
<1>5. Owned' = Owned /\ \A h \in Hash : Recorded(h)' <=> Recorded(h)
  BY DEF RetryOncePostFails, Owned, Recorded, network
<1>6. ObjectsOwnTheirHashes'
  <2>1. messageEnvelopeHashes' = messageEnvelopeHashes
    BY DEF RetryOncePostFails
  <2> QED BY <1>3, <1>5, <2>1 DEF ObjectsOwnTheirHashes, Allocated
<1>7. PointersAreAllocated'
  <2> SUFFICES ASSUME NEW h \in Hash
               PROVE  /\ envelopes'[h] \in Hash =>
                           object'[envelopes'[h]].messageIDs # {} /\ h \in Owned'
                      /\ envelopes'[h] = Bare => h \in confirmed'
    BY DEF PointersAreAllocated, Allocated
  <2>1. CASE h = object[o].hash
    BY <1>1, <1>2, <1>3, <1>4, <1>5, <2>1 DEF Allocated
  <2>2. CASE h # object[o].hash
    <3>1. confirmed' = confirmed
      BY DEF RetryOncePostFails
    <3>2. envelopes[h] \in Hash => Allocated(envelopes[h]) /\ h \in Owned
      BY DEF PointersAreAllocated
    <3>3. envelopes[h] = Bare => h \in confirmed
      BY DEF PointersAreAllocated
    <3> QED BY <1>3, <1>4, <1>5, <2>2, <3>1, <3>2, <3>3 DEF Allocated
  <2> QED BY <2>1, <2>2
<1>8. QueuedAreNotRecorded'
  <2>1. retryQueue' = retryQueue /\ retryQueue \subseteq Hash
    BY DEF RetryOncePostFails, TypeOK
  <2>2. messageEnvelopeHashes' = messageEnvelopeHashes
    BY DEF RetryOncePostFails
  <2> QED BY <1>3, <2>1, <2>2 DEF QueuedAreNotRecorded, Allocated, Recorded
<1>9. RecordedAreFaithful'
  <2>1. confirmed' = confirmed
    BY DEF RetryOncePostFails
  <2> QED BY <1>1, <1>2, <1>3, <1>4, <1>5, <2>1 DEF RecordedAreFaithful
<1>10. RecordsComeFromAdd'
  BY DEF RecordsComeFromAdd, RetryOncePostFails
<1> QED BY <1>6, <1>7, <1>8, <1>9, <1>10 DEF MapsAgree

(* A successful retry gives the object a hash that nobody has recorded.    *)
LEMMA RetryPostsAgrees ==
  ASSUME MonitorInvariant, NEW o \in Hash, NEW h \in Hash, RetryOncePosts(o, h), TypeOK'
  PROVE  MapsAgree'
<1> USE PointersAssumption DEF MonitorInvariant
<1>1. Owned' = Owned \cup {h} /\ h \notin Owned
  BY DEF RetryOncePosts, Owned, TypeOK
<1>2. ~Recorded(o) /\ Allocated(o) /\ o \in Owned /\ ~Recorded(h) /\ ~Allocated(h)
  BY <1>1 DEF RetryOncePosts, QueuedAreNotRecorded, ObjectsOwnTheirHashes, RecordedAreFaithful
<1>3. /\ object'[o].hash = h
      /\ \A q \in Hash : /\ object'[q].messageIDs = object[q].messageIDs
                         /\ q # o => object'[q] = object[q]
  BY DEF RetryOncePosts, TypeOK
<1>4. \A g \in Hash : envelopes'[g] = IF g = h THEN o ELSE envelopes[g]
  BY DEF RetryOncePosts, TypeOK
<1>5. /\ messageEnvelopeHashes' = messageEnvelopeHashes
      /\ confirmed' = confirmed /\ adds' = adds
      /\ \A g \in Hash : Recorded(g)' <=> Recorded(g)
  BY DEF RetryOncePosts, Recorded, history
<1>6. ObjectsOwnTheirHashes'
  <2> SUFFICES ASSUME NEW q \in Hash, Allocated(q)
               PROVE  /\ q \in Owned' /\ object'[q].hash \in Owned'
                      /\ \A id \in MessageID :
                           (q \in messageEnvelopeHashes[id] \/ object'[q].hash \in messageEnvelopeHashes[id])
                             => id \in object[q].messageIDs
    BY <1>3, <1>5 DEF ObjectsOwnTheirHashes, Allocated
  <2>1. CASE q = o
    BY <1>1, <1>2, <1>3, <2>1 DEF ObjectsOwnTheirHashes, Recorded
  <2>2. CASE q # o
    BY <1>1, <1>3, <2>2 DEF ObjectsOwnTheirHashes
  <2> QED BY <2>1, <2>2
<1>7. PointersAreAllocated'
  BY <1>1, <1>2, <1>3, <1>4, <1>5 DEF PointersAreAllocated, Allocated
<1>8. QueuedAreNotRecorded'
  <2>1. \A q \in retryQueue' : q \in retryQueue /\ q # o /\ q \in Hash
    BY DEF RetryOncePosts, removeFromRetryQueue, TypeOK
  <2> QED BY <1>3, <1>5, <2>1 DEF QueuedAreNotRecorded, Allocated, Recorded, TypeOK
<1>9. RecordedAreFaithful'
  BY <1>1, <1>2, <1>3, <1>4, <1>5 DEF RecordedAreFaithful
<1>10. RecordsComeFromAdd'
  BY <1>5 DEF RecordsComeFromAdd
<1> QED BY <1>6, <1>7, <1>8, <1>9, <1>10 DEF MapsAgree

(* A failure forgets the messages of the object it may queue.              *)
LEMMA FailureForgets ==
  ASSUME MonitorInvariant, NEW e \in Hash, HandleEnvelopeFailure(e), TypeOK'
  PROVE  /\ \A h \in Hash : envelopes'[h] \in {envelopes[h], None}
         /\ \A id \in MessageID : messageEnvelopeHashes'[id] \in {messageEnvelopeHashes[id], {}}
         /\ \A o \in retryQueue' :
              \/ o \in retryQueue
              \/ Allocated(o) /\ \A id \in object[o].messageIDs : messageEnvelopeHashes'[id] = {}
<1> USE PointersAssumption DEF MonitorInvariant
<1>1. CASE GetState(e) = "NotRegistered"
  BY <1>1 DEF HandleEnvelopeFailure
<1>2. CASE GetState(e) # "NotRegistered"
  <2> DEFINE o == envelopes[e]
             ids == IF o = Bare THEN {} ELSE object[o].messageIDs
  <2>1. /\ envelopes' = [envelopes EXCEPT ![e] = None]
        /\ messageEnvelopeHashes' = [id \in MessageID |->
             IF id \in ids THEN {} ELSE messageEnvelopeHashes[id]]
        /\ \/ retryQueue' = retryQueue
           \/ GetState(e) = "Posted" /\ retryQueue' = retryQueue \cup {o}
           \/ retryQueue' = removeFromRetryQueue(e)
    BY <1>2 DEF HandleEnvelopeFailure
  <2>2. GetState(e) = "Posted" /\ o # Bare => o \in Hash
    BY DEF GetState, TypeOK
  <2>3. GetState(e) = "Posted" => o # Bare
    BY DEF GetState
  <2>4. o \in Hash => Allocated(o) /\ object[o].messageIDs \subseteq MessageID
    BY DEF PointersAreAllocated, TypeOK
  <2> QED BY <2>1, <2>2, <2>3, <2>4 DEF removeFromRetryQueue, TypeOK
<1> QED BY <1>1, <1>2

(* Every step of the monitor preserves the invariant. *)
LEMMA InvariantStep == MonitorInvariant /\ [Next]_vars => MonitorInvariant'
<1> SUFFICES ASSUME MonitorInvariant, [Next]_vars PROVE MonitorInvariant'
  OBVIOUS
<1> USE PointersAssumption
<1>1. TypeOK'
  BY TypeStep DEF MonitorInvariant
<1>2. ASSUME MapsAgree', adds \subseteq adds', confirmed \subseteq confirmed',
             NEW ids \in SUBSET MessageID, processMessageIDs(ids)
      PROVE  MonitorInvariant'
  BY <1>1, <1>2, ReportsStayConfirmed DEF MonitorInvariant, MapsAgree
<1>3. ASSUME MapsAgree', adds \subseteq adds', confirmed \subseteq confirmed',
             reportedSent' = reportedSent
      PROVE  MonitorInvariant'
  <2>1. SentReportsAreConfirmed'
    BY <1>3 DEF MonitorInvariant, SentReportsAreConfirmed
  <2> QED BY <1>1, <1>3, <2>1 DEF MonitorInvariant, MapsAgree
<1>4. ASSUME NEW h \in Hash, Post(h) PROVE MonitorInvariant'
  BY <1>3, <1>4, PostAgrees DEF Post, history
<1>5. ASSUME NEW ids \in SUBSET MessageID, NEW given \in SUBSET Hash, Add(ids, given)
      PROVE MonitorInvariant'
  BY <1>1, <1>2, <1>5, AddAgrees DEF Add
<1>6. ASSUME NEW h \in Hash, GetState(h) = "Posted", MarkSent(h),
             confirmed' = confirmed \cup {h},
             UNCHANGED <<envelopes, retryQueue, messageEnvelopeHashes, network, adds>>
      PROVE  MonitorInvariant'
  <2>1. envelopes[h] \in Hash /\ object[envelopes[h]].messageIDs \in SUBSET MessageID
    BY <1>6 DEF GetState, MonitorInvariant, TypeOK
  <2>2. OnlyForgetsAndMarks
    BY <1>6, <2>1 DEF OnlyForgetsAndMarks, MarkSent, network, MonitorInvariant, TypeOK
  <2>3. MapsAgree'
    BY <1>1, <2>2, HandlerAgrees
  <2> QED BY <1>2, <1>6, <2>1, <2>3 DEF MarkSent
<1>7. ASSUME NEW h \in Hash, HandleEventEnvelopeSent(h) PROVE MonitorInvariant'
  <2>1. CASE GetState(h) = "Posted"
    BY <1>6, <1>7, <2>1 DEF HandleEventEnvelopeSent
  <2>2. CASE GetState(h) # "Posted"
    <3>1. OnlyForgetsAndMarks
      BY <1>7, <2>2 DEF OnlyForgetsAndMarks, HandleEventEnvelopeSent, network,
                        MonitorInvariant, TypeOK
    <3>2. MapsAgree'
      BY <1>1, <3>1, HandlerAgrees
    <3> QED BY <1>3, <1>7, <2>2, <3>2 DEF HandleEventEnvelopeSent
  <2> QED BY <2>1, <2>2
<1>8. ASSUME NEW h \in Hash, HandleEventEnvelopeExpired(h) PROVE MonitorInvariant'
  <2>1. OnlyForgetsAndMarks
    BY <1>1, <1>8, FailureForgets DEF OnlyForgetsAndMarks, HandleEventEnvelopeExpired, network
  <2> QED BY <1>1, <1>3, <1>8, <2>1, HandlerAgrees DEF HandleEventEnvelopeExpired
<1>9. ASSUME NEW h \in Hash, HandleEventEnvelopeReceived(h) PROVE MonitorInvariant'
  BY <1>6, <1>9 DEF HandleEventEnvelopeReceived
<1>10. ASSUME NEW h \in Hash, NEW b \in Batch, HandleEventEnvelopeSentInBatch(h, b)
       PROVE MonitorInvariant'
  <2>1. OnlyForgetsAndMarks
    BY <1>10 DEF OnlyForgetsAndMarks, HandleEventEnvelopeSentInBatch, network, history
  <2> QED BY <1>1, <1>3, <1>10, <2>1, HandlerAgrees DEF HandleEventEnvelopeSentInBatch, history
<1>11. ASSUME NEW given \in SUBSET Hash, MarkBatchSent(given),
              UNCHANGED <<network, adds>>,
              \A h \in Hash : envelopes'[h] \in {envelopes[h], None},
              \A id \in MessageID :
                messageEnvelopeHashes'[id] \in {messageEnvelopeHashes[id], {}},
              \A o \in retryQueue' :
                \/ o \in retryQueue
                \/ Allocated(o) /\ \A id \in object[o].messageIDs : messageEnvelopeHashes'[id] = {}
       PROVE  MonitorInvariant'
  <2> DEFINE ids == UNION {object[o].messageIDs : o \in PointersTo(given)}
  <2>1. ids \in SUBSET MessageID /\ Unconfirmed(given) \in SUBSET Hash
    BY PointersToObjects DEF MonitorInvariant
  <2>2. processMessageIDs(ids) /\ confirmed' = confirmed \cup Unconfirmed(given)
    BY <1>11 DEF MarkBatchSent
  <2> HIDE DEF ids
  <2>3. \A o \in Hash :
          /\ object'[o].hash = object[o].hash
          /\ object'[o].messageIDs = object[o].messageIDs
          /\ object'[o].state = "Sent" => object[o].state = "Sent" \/ o \in PointersTo(given)
    BY <1>11 DEF MarkBatchSent, MonitorInvariant, TypeOK
  <2>4. \A o \in PointersTo(given) : \E g \in confirmed' : envelopes[g] = o
    BY <2>2, Zenon DEF PointersTo
  <2>5. OnlyForgetsAndMarks
    BY <1>11, <2>2, <2>3, <2>4 DEF OnlyForgetsAndMarks, network
  <2>6. MapsAgree'
    BY <1>1, <2>5, HandlerAgrees, Zenon
  <2> QED BY <1>2, <1>11, <2>1, <2>2, <2>6
<1>12. ASSUME NEW b \in Batch, HandleAcknowledgedBatch(b) PROVE MonitorInvariant'
  <2>1. batches[b] \in SUBSET Hash
    BY DEF MonitorInvariant, TypeOK
  <2> QED BY <1>11, <1>12, <2>1 DEF HandleAcknowledgedBatch
<1>13. ASSUME NEW b \in Batch, NEW e \in Hash, HandleAcknowledgedBatchError(b, e)
       PROVE MonitorInvariant'
  <2>1. batches[b] \ {e} \in SUBSET Hash
    BY DEF MonitorInvariant, TypeOK
  <2> QED BY <1>1, <1>11, <1>13, <2>1, FailureForgets, Zenon DEF HandleAcknowledgedBatchError
<1>14. ASSUME NEW o \in Hash, RetryOncePostFails(o) PROVE MonitorInvariant'
  BY <1>1, <1>3, <1>14, RetryFailsAgrees, Zenon DEF RetryOncePostFails
<1>15. ASSUME NEW o \in Hash, NEW h \in Hash, RetryOncePosts(o, h) PROVE MonitorInvariant'
  BY <1>1, <1>3, <1>15, RetryPostsAgrees, Zenon DEF RetryOncePosts, history
<1>16. ASSUME UNCHANGED vars PROVE MonitorInvariant'
  <2>1. OnlyForgetsAndMarks
    BY <1>16 DEF OnlyForgetsAndMarks, vars, monitorState, network, history
  <2> QED BY <1>1, <1>3, <1>16, <2>1, HandlerAgrees DEF vars, history
<1> QED BY <1>4, <1>5, <1>7, <1>8, <1>9, <1>10, <1>12, <1>13, <1>14, <1>15, <1>16 DEF Next

(* The maps, the queue and the reports agree in every reachable state,     *)
(* for any number of messages, envelopes, batches and attempts.            *)
THEOREM MonitorCorrect == Spec => []MonitorInvariant
  BY InitInvariant, InvariantStep, PTL DEF Spec

(* handler.EnvelopeSent is only called for messages all of whose envelopes *)
(* the network confirmed.                                                  *)
THEOREM SentReportsCorrect == Spec => []SentReportsAreConfirmed
<1>1. MonitorInvariant => SentReportsAreConfirmed
  BY DEF MonitorInvariant
<1> QED BY <1>1, MonitorCorrect, PTL
-----------------------------------------------------------------------------
(* The send path. *)
HIDE DEF Pointer, Envelope

(* What has an event is posted, and what is confirmed has had it. *)
OneEvent ==
  /\ \A h \in Hash : wire[h] # "none" => h \in posted
  /\ \A h \in confirmed : wire[h] = "done"

(* A hash whose event is still to come leads to the object that has it. *)
AwaitedAreCurrent ==
  \A h \in Hash :
    wire[h] # "done" /\ envelopes[h] # None =>
      envelopes[h] \in Hash /\ object[envelopes[h]].hash = h

(* What waits for a retry has had the event of its current hash. *)
QueuedHaveFailed ==
  \A o \in retryQueue : wire[object[o].hash] = "done"

RecordedAreRegistered == \A h \in Hash : Recorded(h) => envelopes[h] # None

SendInvariant ==
  /\ MonitorInvariant
  /\ SendTypeOK
  /\ OneEvent
  /\ AwaitedAreCurrent
  /\ QueuedHaveFailed
  /\ RetriedEnvelopesAreUnconfirmed
  /\ RecordedAreRegistered
  /\ SentIsReported
-----------------------------------------------------------------------------
(* A hash chosen for a new envelope was never posted. *)
LEMMA Fresh == CanPost => FreshHash \in Hash \ posted
  BY DEF CanPost, FreshHash

(* Every step is a step of the monitor, or none of its concern. *)
LEMMA MonitorSteps ==
  ASSUME SendTypeOK, [SendNext]_sendVars
  PROVE  [Next]_vars
<1>1. ASSUME NEW d \in Dispatch, PostSegment(d) PROVE [Next]_vars
  BY <1>1, Fresh DEF PostSegment, Next
<1>2. ASSUME NEW d \in Dispatch, PostSegmentFails(d) PROVE [Next]_vars
  BY <1>2, Zenon DEF PostSegmentFails
<1>3. ASSUME NEW d \in Dispatch, Track(d) PROVE [Next]_vars
  <2>1. MessageIDsOf(d) \in SUBSET MessageID /\ hashes[d] \in SUBSET Hash
    BY DispatchAssumption DEF SendTypeOK
  <2>2. Add(MessageIDsOf(d), hashes[d])
    BY <1>3 DEF Track
  <2> QED BY <2>1, <2>2 DEF Next
<1>4. ASSUME NEW h \in Hash, PublishEnvelope(h) \/ CheckStored(h) PROVE [Next]_vars
  BY <1>4 DEF PublishEnvelope, CheckStored
<1>5. ASSUME NEW h \in Hash, HandleEvent(h) PROVE [Next]_vars
  BY <1>5 DEF HandleEvent, Next
<1>6. ASSUME RetryOnce PROVE [Next]_vars
  BY <1>6, Fresh DEF RetryOnce, Next, SendTypeOK, TypeOK
<1>7. ASSUME NEW id \in MessageID, ConfirmMessageDelivered(id) PROVE [Next]_vars
  BY <1>7 DEF ConfirmMessageDelivered
<1>8. ASSUME UNCHANGED sendVars PROVE [Next]_vars
  BY <1>8 DEF sendVars
<1> QED BY <1>1, <1>2, <1>3, <1>4, <1>5, <1>6, <1>7, <1>8, Zenon DEF SendNext

(* The variables of the send path keep their types. *)
LEMMA SendTypes == SendTypeOK /\ [SendNext]_sendVars => SendTypeOK'
<1> SUFFICES ASSUME SendTypeOK, [SendNext]_sendVars PROVE SendTypeOK'
  OBVIOUS
<1>1. TypeOK'
  BY MonitorSteps, TypeStep DEF SendTypeOK
<1>2. ASSUME NEW d \in Dispatch, PostSegment(d) PROVE SendTypeOK'
  <2>1. FreshHash \in Hash
    BY <1>2, Fresh DEF PostSegment
  <2> HIDE DEF FreshHash
  <2> QED BY <1>1, <1>2, <2>1 DEF PostSegment, SendTypeOK, Wire
<1>3. ASSUME NEW d \in Dispatch, PostSegmentFails(d) \/ Track(d) PROVE SendTypeOK'
  BY <1>1, <1>3 DEF PostSegmentFails, Track, SendTypeOK
<1>4. ASSUME NEW h \in Hash, PublishEnvelope(h) \/ CheckStored(h) \/ HandleEvent(h)
      PROVE  SendTypeOK'
  <2>1. wire' \in [Hash -> Wire]
    BY <1>4 DEF PublishEnvelope, CheckStored, HandleEvent, SendTypeOK, Wire
  <2> QED BY <1>1, <1>4, <2>1 DEF PublishEnvelope, CheckStored, HandleEvent, SendTypeOK, sender
<1>5. ASSUME RetryOnce PROVE SendTypeOK'
  <2>1. wire' \in [Hash -> Wire]
    BY <1>5, Fresh DEF RetryOnce, SendTypeOK, Wire
  <2> QED BY <1>1, <1>5, <2>1 DEF RetryOnce, SendTypeOK, sender
<1>6. ASSUME NEW id \in MessageID, ConfirmMessageDelivered(id) PROVE SendTypeOK'
  <2>1. wire' \in [Hash -> Wire]
    BY <1>6 DEF ConfirmMessageDelivered, SendTypeOK, Wire
  <2> QED BY <1>1, <1>6, <2>1 DEF ConfirmMessageDelivered, SendTypeOK, sender
<1>7. ASSUME UNCHANGED sendVars PROVE SendTypeOK'
  BY <1>1, <1>7 DEF sendVars, sender, SendTypeOK
<1> QED BY <1>2, <1>3, <1>4, <1>5, <1>6, <1>7 DEF SendNext
-----------------------------------------------------------------------------
(* What SendInvariant adds to the invariant of the monitor. *)
EventsAgree ==
  /\ OneEvent
  /\ AwaitedAreCurrent
  /\ QueuedHaveFailed
  /\ RetriedEnvelopesAreUnconfirmed
  /\ RecordedAreRegistered
  /\ SentIsReported

(* A step of waku, or of a dispatch, that the monitor does not see. *)
LEMMA UnseenStep ==
  ASSUME SendInvariant, UNCHANGED vars,
         \A h \in Hash : /\ wire'[h] # "none" => wire[h] # "none"
                         /\ wire[h] = "done" => wire'[h] = "done"
  PROVE  EventsAgree'
<1>0. /\ UNCHANGED <<object, envelopes, retryQueue, messageEnvelopeHashes, posted, confirmed, reportedSent>>
      /\ \A h \in Hash : GetState(h)' = GetState(h)
  BY DEF vars, monitorState, network, history, GetState
<1>1. confirmed \subseteq Hash /\ \A o \in retryQueue : object[o].hash \in Hash
  BY DEF SendInvariant, MonitorInvariant, TypeOK, Envelope
<1>2. OneEvent' /\ AwaitedAreCurrent' /\ QueuedHaveFailed'
  BY <1>0, <1>1 DEF SendInvariant, OneEvent, AwaitedAreCurrent, QueuedHaveFailed
<1>3. RetriedEnvelopesAreUnconfirmed' /\ RecordedAreRegistered'
  BY <1>0 DEF SendInvariant, RetriedEnvelopesAreUnconfirmed, RecordedAreRegistered, Recorded
<1>4. SentIsReported'
  <2>1. messageEnvelopeHashes \in [MessageID -> SUBSET Hash]
    BY DEF SendInvariant, MonitorInvariant, TypeOK
  <2> QED BY <1>0, <2>1 DEF SendInvariant, SentIsReported
<1> QED BY <1>2, <1>3, <1>4 DEF EventsAgree

(* Waku.Send: nothing is known of a fresh hash. *)
LEMMA PostStep ==
  ASSUME SendInvariant, NEW h \in Hash \ posted, Post(h), wire' = [wire EXCEPT ![h] = "queued"]
  PROVE  EventsAgree'
<1> USE PointersAssumption
<1>0. /\ UNCHANGED <<object, envelopes, retryQueue, messageEnvelopeHashes, confirmed, reportedSent>>
      /\ posted' = posted \cup {h}
      /\ \A g \in Hash : GetState(g)' = GetState(g)
  BY DEF Post, monitorState, history, GetState
<1>1. wire \in [Hash -> Wire] /\ confirmed \subseteq Hash /\ \A o \in retryQueue : object[o].hash \in Hash
  BY DEF SendInvariant, SendTypeOK, MonitorInvariant, TypeOK, Envelope
<1>2. wire[h] = "none" /\ h \notin confirmed
  BY <1>1 DEF SendInvariant, OneEvent
<1>3. envelopes[h] = None
  BY <1>2 DEF SendInvariant, MonitorInvariant, TypeOK, Pointer, PointersAreAllocated, Owned
<1>4. \A g \in Hash : g # h => wire'[g] = wire[g]
  BY <1>1
<1>5. OneEvent' /\ AwaitedAreCurrent' /\ QueuedHaveFailed'
  BY <1>0, <1>1, <1>2, <1>3, <1>4 DEF SendInvariant, OneEvent, AwaitedAreCurrent, QueuedHaveFailed
<1>6. RetriedEnvelopesAreUnconfirmed' /\ RecordedAreRegistered'
  BY <1>0 DEF SendInvariant, RetriedEnvelopesAreUnconfirmed, RecordedAreRegistered, Recorded
<1>7. SentIsReported'
  <2>1. messageEnvelopeHashes \in [MessageID -> SUBSET Hash]
    BY DEF SendInvariant, MonitorInvariant, TypeOK
  <2> QED BY <1>0, <2>1 DEF SendInvariant, SentIsReported
<1> QED BY <1>5, <1>6, <1>7 DEF EventsAgree

(* Add: the objects it makes are nobody's yet, and what came before it is  *)
(* looked at.                                                              *)
LEMMA AddStep ==
  ASSUME SendInvariant, TypeOK', NEW ids \in SUBSET MessageID, NEW hs \in SUBSET Hash,
         Add(ids, hs), wire' = wire
  PROVE  EventsAgree'
<1> USE PointersAssumption
<1> DEFINE new == {h \in hs : envelopes[h] = None}
<1>0. /\ UNCHANGED <<retryQueue, posted, confirmed>>
      /\ hs \subseteq untracked
      /\ messageEnvelopeHashes' = [id \in MessageID |-> IF id \in ids THEN hs ELSE messageEnvelopeHashes[id]]
      /\ \A h \in Hash : /\ h \notin new => object'[h] = object[h] /\ envelopes'[h] = envelopes[h]
                         /\ h \in new => /\ object'[h].hash = h /\ object'[h].state = "Posted"
                                         /\ envelopes'[h] = h
      /\ processMessageIDs(ids)
  BY DEF Add
<1> HIDE DEF new
<1>1. TypeOK /\ object \in [Hash -> Envelope] /\ envelopes \in [Hash -> Pointer]
      /\ messageEnvelopeHashes \in [MessageID -> SUBSET Hash]
  BY Zenon DEF SendInvariant, MonitorInvariant, TypeOK
<1>2. new \subseteq hs /\ \A h \in new : envelopes[h] = None
  BY DEF new
<1>3. \A h \in Hash : envelopes[h] \notin new
  BY <1>0, <1>2, Zenon DEF SendInvariant, MonitorInvariant, PointersAreAllocated, ObjectsOwnTheirHashes, Owned
<1>4. \A o \in retryQueue : o \in Hash /\ o \notin new
  BY <1>0, <1>1, <1>2, ZenonT(40) DEF SendInvariant, MonitorInvariant, QueuedAreNotRecorded, ObjectsOwnTheirHashes, Owned, TypeOK
<1>5. \A h \in Hash : GetState(h)' = "Sent" => GetState(h) = "Sent"
  <2> SUFFICES ASSUME NEW h \in Hash, GetState(h)' = "Sent" PROVE GetState(h) = "Sent"
    OBVIOUS
  <2>1. CASE h \in new
    BY <1>0, <2>1 DEF GetState
  <2>2. CASE h \notin new
    <3>1. envelopes[h] \in Hash => object'[envelopes[h]] = object[envelopes[h]]
      BY <1>0, <1>3
    <3>2. envelopes'[h] = envelopes[h]
      BY <1>0, <2>2, Zenon
    <3>3. envelopes[h] \in Hash \/ envelopes[h] = None \/ envelopes[h] = Bare
      BY <1>1, Zenon DEF Pointer
    <3> QED BY <3>1, <3>2, <3>3, Zenon DEF GetState
  <2> QED BY <2>1, <2>2
<1>6. OneEvent'
  BY <1>0 DEF SendInvariant, OneEvent
<1>7. AwaitedAreCurrent'
  <2> SUFFICES ASSUME NEW h \in Hash, wire[h] # "done", envelopes'[h] # None
               PROVE  envelopes'[h] \in Hash /\ object'[envelopes'[h]].hash = h
    BY DEF AwaitedAreCurrent
  <2>1. CASE h \in new
    BY <1>0, <2>1, Zenon
  <2>2. CASE h \notin new
    BY <1>0, <1>3, <2>2 DEF SendInvariant, AwaitedAreCurrent
  <2> QED BY <2>1, <2>2
<1>8. QueuedHaveFailed' /\ RetriedEnvelopesAreUnconfirmed'
  BY <1>0, <1>4 DEF SendInvariant, QueuedHaveFailed, RetriedEnvelopesAreUnconfirmed
<1>9. RecordedAreRegistered'
  <2> SUFFICES ASSUME NEW h \in Hash, NEW id \in MessageID, h \in messageEnvelopeHashes'[id]
               PROVE  envelopes'[h] # None
    BY DEF RecordedAreRegistered, Recorded
  <2>1. h \in hs \/ h \in messageEnvelopeHashes[id]
    BY <1>0
  <2>2. h \in hs => envelopes'[h] # None
    BY <1>0 DEF new
  <2>3. h \in messageEnvelopeHashes[id] => envelopes[h] # None
    BY DEF SendInvariant, RecordedAreRegistered, Recorded
  <2> QED BY <1>0, <2>1, <2>2, <2>3
<1>10. SentIsReported'
  <2> SUFFICES ASSUME NEW id \in MessageID, messageEnvelopeHashes'[id] # {},
                      \A h \in messageEnvelopeHashes'[id] : GetState(h)' = "Sent"
               PROVE  id \in reportedSent'
    BY DEF SentIsReported
  <2>1. CASE id \in ids
    BY <1>0, <2>1 DEF processMessageIDs
  <2>2. CASE id \notin ids
    <3>1. messageEnvelopeHashes'[id] = messageEnvelopeHashes[id] /\ messageEnvelopeHashes[id] \in SUBSET Hash
      BY <1>0, <1>1, <2>2
    <3>2. id \in reportedSent
      BY <1>5, <3>1 DEF SendInvariant, SentIsReported
    <3> QED BY <1>0, <3>2, Zenon DEF processMessageIDs
  <2> QED BY <2>1, <2>2
<1> QED BY <1>6, <1>7, <1>8, <1>9, <1>10, Zenon DEF EventsAgree

(* The Sent event: it is the only one of its hash. *)
LEMMA SentStep ==
  ASSUME SendInvariant, TypeOK', NEW h \in Hash, wire[h] = "sent", HandleEventEnvelopeSent(h),
         wire' = [wire EXCEPT ![h] = "done"]
  PROVE  EventsAgree'
<1> USE PointersAssumption
<1> DEFINE o == envelopes[h]
<1>0. /\ UNCHANGED <<retryQueue, messageEnvelopeHashes, posted>>
      /\ confirmed' = confirmed \cup {h} /\ h \in posted
  BY DEF HandleEventEnvelopeSent, network
<1>1. /\ object \in [Hash -> Envelope] /\ envelopes \in [Hash -> Pointer] /\ retryQueue \subseteq Hash
      /\ messageEnvelopeHashes \in [MessageID -> SUBSET Hash] /\ wire \in [Hash -> Wire]
      /\ confirmed \subseteq Hash
  BY DEF SendInvariant, MonitorInvariant, TypeOK, SendTypeOK
<1>2. wire'[h] = "done" /\ \A g \in Hash : g # h => wire'[g] = wire[g]
  BY <1>1
<1>3. \A q \in retryQueue : object[q].hash \in Hash /\ object[q].hash # h
  BY <1>1 DEF SendInvariant, QueuedHaveFailed, Envelope
<1>4. OneEvent'
  BY <1>0, <1>2 DEF SendInvariant, OneEvent
<1>5. CASE GetState(h) # "Posted"
  <2>1. /\ object' = object /\ reportedSent' = reportedSent
        /\ \A g \in Hash : g # h => envelopes'[g] = envelopes[g]
        /\ envelopes'[h] # None
    BY <1>1, <1>5, Zenon DEF HandleEventEnvelopeSent, GetState
  <2>2. AwaitedAreCurrent' /\ QueuedHaveFailed' /\ RetriedEnvelopesAreUnconfirmed'
    BY <1>0, <1>2, <1>3, <2>1
       DEF SendInvariant, AwaitedAreCurrent, QueuedHaveFailed, RetriedEnvelopesAreUnconfirmed
  <2>3. RecordedAreRegistered'
    BY <1>0, <2>1 DEF SendInvariant, RecordedAreRegistered, Recorded
  <2>4. SentIsReported'
    <3> SUFFICES ASSUME NEW id \in MessageID, messageEnvelopeHashes[id] # {},
                        \A g \in messageEnvelopeHashes[id] : GetState(g)' = "Sent"
                 PROVE  id \in reportedSent
      BY <1>0, <2>1 DEF SentIsReported
    <3>1. \A g \in Hash : g # h => GetState(g)' = GetState(g)
      BY <2>1 DEF GetState
    <3>2. h \in messageEnvelopeHashes[id] => GetState(h) = "Sent"
      <4>1. h \in messageEnvelopeHashes[id] => envelopes[h] # None
        BY DEF SendInvariant, RecordedAreRegistered, Recorded
      <4>2. envelopes[h] # None => GetState(h) \in {"Posted", "Sent"}
        BY <1>1 DEF GetState, Pointer, Envelope
      <4> QED BY <1>5, <4>1, <4>2
    <3> QED BY <1>1, <3>1, <3>2, Zenon DEF SendInvariant, SentIsReported
  <2> QED BY <1>4, <2>2, <2>3, <2>4 DEF EventsAgree
<1>6. CASE GetState(h) = "Posted"
  <2>1. o \in Hash /\ object[o].hash = h
    BY <1>1, <1>6 DEF GetState, SendInvariant, AwaitedAreCurrent, Pointer
  <2>2. /\ envelopes' = envelopes
        /\ object' = [object EXCEPT ![o].state = "Sent"]
        /\ processMessageIDs(object[o].messageIDs)
    BY <1>6 DEF HandleEventEnvelopeSent, MarkSent
  <2> HIDE DEF o
  <2>3. /\ \A q \in Hash : object'[q].hash = object[q].hash
        /\ \A q \in Hash : q # o => object'[q] = object[q]
    BY <1>1, <2>1, <2>2 DEF Envelope
  <2>4. o \notin retryQueue
    BY <1>3, <2>1
  <2>5. AwaitedAreCurrent' /\ QueuedHaveFailed' /\ RetriedEnvelopesAreUnconfirmed'
    BY <1>0, <1>1, <1>2, <1>3, <2>2, <2>3, <2>4
       DEF SendInvariant, AwaitedAreCurrent, QueuedHaveFailed, RetriedEnvelopesAreUnconfirmed
  <2>6. RecordedAreRegistered'
    BY <1>0, <2>2 DEF SendInvariant, RecordedAreRegistered, Recorded
  <2>7. SentIsReported'
    <3> SUFFICES ASSUME NEW id \in MessageID, messageEnvelopeHashes[id] # {},
                        \A g \in messageEnvelopeHashes[id] : GetState(g)' = "Sent"
                 PROVE  id \in reportedSent'
      BY <1>0 DEF SentIsReported
    <3>1. CASE id \in object[o].messageIDs
      BY <1>0, <2>2, <3>1 DEF processMessageIDs
    <3>2. CASE id \notin object[o].messageIDs
      <4>1. ASSUME NEW g \in messageEnvelopeHashes[id] PROVE envelopes[g] # o
        <5>1. Recorded(g) /\ g \in Hash
          BY <1>1, Zenon DEF Recorded
        <5>2. envelopes[g] = o => g = o
          BY <2>1, <5>1 DEF SendInvariant, MonitorInvariant, RecordedAreFaithful
        <5>3. Allocated(o)
          BY <2>1 DEF SendInvariant, MonitorInvariant, PointersAreAllocated, o
        <5> QED BY <2>1, <3>2, <5>2, <5>3 DEF SendInvariant, MonitorInvariant, ObjectsOwnTheirHashes
      <4>2. \A g \in messageEnvelopeHashes[id] : GetState(g)' = GetState(g)
        BY <1>1, <2>2, <2>3, <4>1 DEF GetState, Pointer
      <4>3. id \in reportedSent
        BY <4>2 DEF SendInvariant, SentIsReported
      <4> QED BY <2>2, <4>3 DEF processMessageIDs
    <3> QED BY <3>1, <3>2
  <2> QED BY <1>4, <2>5, <2>6, <2>7 DEF EventsAgree
<1> QED BY <1>5, <1>6

(* The Expired event: whatever is queued by it has no event to come. *)
LEMMA ExpiredStep ==
  ASSUME SendInvariant, TypeOK', NEW h \in Hash, wire[h] = "expired", HandleEventEnvelopeExpired(h),
         wire' = [wire EXCEPT ![h] = "done"]
  PROVE  EventsAgree'
<1> USE PointersAssumption
<1> DEFINE o == envelopes[h]
<1>0. UNCHANGED <<object, posted, confirmed, reportedSent>> /\ HandleEnvelopeFailure(h) /\ h \in posted
  BY DEF HandleEventEnvelopeExpired, network
<1>1. /\ object \in [Hash -> Envelope] /\ envelopes \in [Hash -> Pointer] /\ retryQueue \subseteq Hash
      /\ messageEnvelopeHashes \in [MessageID -> SUBSET Hash] /\ wire \in [Hash -> Wire]
      /\ confirmed \subseteq Hash
  BY DEF SendInvariant, MonitorInvariant, TypeOK, SendTypeOK
<1>2. wire'[h] = "done" /\ \A g \in Hash : g # h => wire'[g] = wire[g]
  BY <1>1
<1>3. h \notin confirmed
  BY DEF SendInvariant, OneEvent
<1>4. OneEvent'
  BY <1>0, <1>2 DEF SendInvariant, OneEvent
<1>5. CASE o = None
  <2>1. UNCHANGED <<envelopes, messageEnvelopeHashes, retryQueue>>
    BY <1>0, <1>5, Zenon DEF HandleEnvelopeFailure, GetState
  <2>2. \A g \in Hash : GetState(g)' = GetState(g)
    BY <1>0, <2>1 DEF GetState
  <2>3. AwaitedAreCurrent' /\ QueuedHaveFailed' /\ RetriedEnvelopesAreUnconfirmed'
    BY <1>0, <1>1, <1>2, <2>1
       DEF SendInvariant, AwaitedAreCurrent, QueuedHaveFailed, RetriedEnvelopesAreUnconfirmed, Envelope
  <2>4. RecordedAreRegistered'
    BY <2>1 DEF SendInvariant, RecordedAreRegistered, Recorded
  <2>5. SentIsReported'
    BY <1>0, <1>1, <2>1, <2>2 DEF SendInvariant, SentIsReported
  <2> QED BY <1>4, <2>3, <2>4, <2>5, Zenon DEF EventsAgree
<1>6. CASE o # None
  <2>1. o \in Hash /\ object[o].hash = h
    BY <1>6 DEF SendInvariant, AwaitedAreCurrent
  <2>2. /\ envelopes' = [envelopes EXCEPT ![h] = None]
        /\ messageEnvelopeHashes' = [id \in MessageID |->
             IF id \in object[o].messageIDs THEN {} ELSE messageEnvelopeHashes[id]]
        /\ \A q \in retryQueue' : q \in retryQueue \/ (q = o /\ object[o].state = "Posted")
    <3>1. GetState(h) = object[o].state /\ object[o].state \in {"Posted", "Sent"} /\ o # Bare
      BY <1>1, <2>1 DEF GetState, Envelope
    <3>2. GetState(h) # "NotRegistered"
      BY <3>1
    <3>3. \A q \in removeFromRetryQueue(h) : q \in retryQueue
      BY DEF removeFromRetryQueue
    <3> QED BY <1>0, <3>1, <3>2, <3>3, Zenon DEF HandleEnvelopeFailure
  <2>3. Allocated(o)
    BY <2>1, Zenon DEF SendInvariant, MonitorInvariant, PointersAreAllocated
  <2> HIDE DEF o
  <2>4. AwaitedAreCurrent'
    BY <1>0, <1>1, <1>2, <2>2 DEF SendInvariant, AwaitedAreCurrent
  <2>5. QueuedHaveFailed' /\ RetriedEnvelopesAreUnconfirmed'
    BY <1>0, <1>1, <1>2, <1>3, <2>1, <2>2
       DEF SendInvariant, QueuedHaveFailed, RetriedEnvelopesAreUnconfirmed, Envelope
  <2>6. \A id \in MessageID : messageEnvelopeHashes'[id] # {} =>
          messageEnvelopeHashes'[id] = messageEnvelopeHashes[id] /\ h \notin messageEnvelopeHashes[id]
    BY <2>1, <2>2, <2>3, Zenon DEF SendInvariant, MonitorInvariant, ObjectsOwnTheirHashes
  <2>7. RecordedAreRegistered'
    BY <1>1, <2>2, <2>6, Zenon DEF SendInvariant, RecordedAreRegistered, Recorded
  <2>8. \A g \in Hash : g # h => GetState(g)' = GetState(g)
    BY <1>0, <1>1, <2>2 DEF GetState
  <2>9. SentIsReported'
    BY <1>0, <1>1, <2>6, <2>8, Zenon DEF SendInvariant, SentIsReported
  <2> QED BY <1>4, <2>4, <2>5, <2>7, <2>9, Zenon DEF EventsAgree
<1> QED BY <1>5, <1>6

(* A retry, with or without a new hash, changes only what is not recorded. *)
LEMMA RetryStep ==
  ASSUME SendInvariant, TypeOK', NEW o \in retryQueue, NEW h \in Hash,
         \/ RetryOncePostFails(o) /\ h = object[o].hash /\ wire' = wire
         \/ h \in Hash \ posted /\ RetryOncePosts(o, h) /\ wire' = [wire EXCEPT ![h] = "queued"]
  PROVE  EventsAgree'
<1> USE PointersAssumption
<1>1. /\ object \in [Hash -> Envelope] /\ envelopes \in [Hash -> Pointer] /\ retryQueue \subseteq Hash
      /\ messageEnvelopeHashes \in [MessageID -> SUBSET Hash] /\ wire \in [Hash -> Wire]
      /\ confirmed \subseteq Hash /\ o \in Hash /\ object[o].hash \in Hash /\ object[o].state = "Posted"
  BY DEF SendInvariant, MonitorInvariant, TypeOK, SendTypeOK, Envelope, RetriedEnvelopesAreUnconfirmed
<1>2. /\ UNCHANGED <<messageEnvelopeHashes, confirmed, reportedSent>>
      /\ envelopes' = [envelopes EXCEPT ![h] = o]
      /\ object'[o].hash = h /\ object'[o].state = "Posted"
      /\ \A q \in Hash : q # o => object'[q] = object[q]
      /\ h \in posted' /\ posted \subseteq posted'
  <2>1. CASE RetryOncePostFails(o) /\ h = object[o].hash
    <3>1. h \in posted
      BY <2>1, <1>1 DEF SendInvariant, QueuedHaveFailed, OneEvent
    <3> QED BY <1>1, <2>1, <3>1 DEF RetryOncePostFails, network, Envelope
  <2>2. CASE RetryOncePosts(o, h)
    BY <1>1, <2>2 DEF RetryOncePosts, history, Envelope
  <2> QED BY <2>1, <2>2, Zenon
<1>3. \A q \in retryQueue' : q \in retryQueue /\ (q = o => wire' = wire /\ h = object[o].hash)
  BY DEF RetryOncePostFails, RetryOncePosts, removeFromRetryQueue
<1>4. \A g \in Hash : /\ g # h => wire'[g] = wire[g]
                      /\ wire[g] = "done" => wire'[g] = "done"
  <2>1. h \in Hash \ posted => wire[h] # "done"
    BY DEF SendInvariant, OneEvent
  <2> QED BY <1>1, <2>1
<1>5. ~Recorded(h)
  BY <1>1, Zenon DEF SendInvariant, MonitorInvariant, QueuedAreNotRecorded, RecordedAreFaithful, Owned
<1>6. OneEvent'
  BY <1>2, <1>4, <1>1, Zenon DEF SendInvariant, OneEvent
<1>7. AwaitedAreCurrent'
  <2> SUFFICES ASSUME NEW g \in Hash, wire'[g] # "done", envelopes'[g] # None
               PROVE  envelopes'[g] \in Hash /\ object'[envelopes'[g]].hash = g
    BY Zenon DEF AwaitedAreCurrent
  <2>1. CASE g = h
    BY <1>1, <1>2, <2>1, Zenon
  <2>2. CASE g # h
    <3>1. envelopes[g] \in Hash /\ object[envelopes[g]].hash = g /\ wire[g] # "done"
      BY <1>1, <1>2, <1>4, <2>2 DEF SendInvariant, AwaitedAreCurrent
    <3>2. envelopes[g] # o
      BY <3>1, Zenon DEF SendInvariant, QueuedHaveFailed
    <3> QED BY <1>1, <1>2, <2>2, <3>1, <3>2, Zenon
  <2> QED BY <2>1, <2>2
<1>8. QueuedHaveFailed' /\ RetriedEnvelopesAreUnconfirmed'
  <2> SUFFICES ASSUME NEW q \in retryQueue'
               PROVE  /\ wire'[object'[q].hash] = "done"
                      /\ object'[q].hash \notin confirmed' /\ object'[q].state = "Posted"
    BY Zenon DEF QueuedHaveFailed, RetriedEnvelopesAreUnconfirmed
  <2>1. /\ q \in Hash /\ object[q].hash \in Hash /\ wire[object[q].hash] = "done"
        /\ object[q].hash \notin confirmed /\ object[q].state = "Posted"
    BY <1>1, <1>3, Zenon DEF SendInvariant, QueuedHaveFailed, RetriedEnvelopesAreUnconfirmed, Envelope
  <2>2. object'[q].hash = object[q].hash /\ object'[q].state = "Posted"
    BY <1>2, <1>3, <2>1, Zenon
  <2> QED BY <1>2, <1>4, <2>1, <2>2, ZenonT(40)
<1>9. RecordedAreRegistered'
  BY <1>1, <1>2, Zenon DEF SendInvariant, RecordedAreRegistered, Recorded
<1>10. SentIsReported'
  <2>1. \A g \in Hash : g # h /\ GetState(g)' = "Sent" => GetState(g) = "Sent"
    BY <1>1, <1>2, ZenonT(40) DEF GetState, Pointer
  <2>2. \A id \in MessageID : \A g \in messageEnvelopeHashes[id] : g \in Hash /\ g # h
    BY <1>1, <1>5, Zenon DEF Recorded
  <2>3. messageEnvelopeHashes' = messageEnvelopeHashes /\ reportedSent' = reportedSent
    BY <1>2, Zenon
  <2>4. SentIsReported
    BY Zenon DEF SendInvariant
  <2> QED BY <2>1, <2>2, <2>3, <2>4, Zenon DEF SentIsReported
<1> QED BY <1>6, <1>7, <1>8, <1>9, <1>10, Zenon DEF EventsAgree

(* Every step of the send path preserves the invariant. *)
LEMMA SendStep == SendInvariant /\ [SendNext]_sendVars => SendInvariant'
<1> SUFFICES ASSUME SendInvariant, [SendNext]_sendVars PROVE SendInvariant'
  OBVIOUS
<1>0. MonitorInvariant' /\ SendTypeOK' /\ TypeOK'
  BY MonitorSteps, InvariantStep, SendTypes DEF SendInvariant, SendTypeOK
<1> SUFFICES EventsAgree'
  BY <1>0 DEF SendInvariant, EventsAgree
<1>1. wire \in [Hash -> Wire] /\ hashes \in [Dispatch -> SUBSET Hash] /\ retryQueue \subseteq Hash
  BY DEF SendInvariant, SendTypeOK, TypeOK
<1>2. ASSUME NEW d \in Dispatch, PostSegment(d) PROVE EventsAgree'
  BY <1>2, Fresh, PostStep, Zenon DEF PostSegment
<1>3. ASSUME NEW d \in Dispatch, PostSegmentFails(d) PROVE EventsAgree'
  BY <1>3, UnseenStep DEF PostSegmentFails
<1>4. ASSUME NEW d \in Dispatch, Track(d) PROVE EventsAgree'
  <2>1. MessageIDsOf(d) \in SUBSET MessageID /\ hashes[d] \in SUBSET Hash
    BY <1>1, DispatchAssumption
  <2>2. Add(MessageIDsOf(d), hashes[d]) /\ wire' = wire
    BY <1>4 DEF Track
  <2> QED BY <1>0, <2>1, <2>2, AddStep
<1>5. ASSUME NEW h \in Hash, PublishEnvelope(h) \/ CheckStored(h) PROVE EventsAgree'
  BY <1>1, <1>5, UnseenStep DEF PublishEnvelope, CheckStored
<1>6. ASSUME NEW h \in Hash, HandleEvent(h) PROVE EventsAgree'
  BY <1>0, <1>6, SentStep, ExpiredStep, Zenon DEF HandleEvent
<1>7. ASSUME RetryOnce PROVE EventsAgree'
  <2>1. PICK o \in retryQueue :
          \/ RetryOncePostFails(o) /\ wire' = wire
          \/ CanPost /\ RetryOncePosts(o, FreshHash) /\ wire' = [wire EXCEPT ![FreshHash] = "queued"]
    BY <1>7 DEF RetryOnce
  <2>2. object[o].hash \in Hash
    BY <1>1 DEF SendInvariant, SendTypeOK, TypeOK, Envelope
  <2> QED BY <1>0, <2>1, <2>2, Fresh, RetryStep
<1>8. ASSUME NEW id \in MessageID, ConfirmMessageDelivered(id) PROVE EventsAgree'
  BY <1>1, <1>8, UnseenStep, Zenon DEF ConfirmMessageDelivered
<1>9. ASSUME UNCHANGED sendVars PROVE EventsAgree'
  BY <1>9, UnseenStep DEF sendVars
<1> QED BY <1>2, <1>3, <1>4, <1>5, <1>6, <1>7, <1>8, <1>9 DEF SendNext

(* The invariant holds at the start. *)
LEMMA SendInitially == SendInit => SendInvariant
<1> SUFFICES ASSUME SendInit PROVE SendInvariant
  OBVIOUS
<1>1. MonitorInvariant
  BY InitInvariant DEF SendInit
<1>2. SendTypeOK
  BY <1>1 DEF SendInit, SendTypeOK, MonitorInvariant, Wire
<1>3. OneEvent /\ AwaitedAreCurrent /\ QueuedHaveFailed /\ RetriedEnvelopesAreUnconfirmed
  BY DEF SendInit, Init, OneEvent, AwaitedAreCurrent, QueuedHaveFailed, RetriedEnvelopesAreUnconfirmed
<1>4. RecordedAreRegistered /\ SentIsReported
  BY DEF SendInit, Init, RecordedAreRegistered, Recorded, SentIsReported
<1> QED BY <1>1, <1>2, <1>3, <1>4 DEF SendInvariant

(* And so in every reachable state. *)
LEMMA SendInvariantHolds == SendSpec => []SendInvariant
  BY SendInitially, SendStep, PTL DEF SendSpec

(* What reaches the monitor from the dispatches, waku and the retry loop is *)
(* among what the monitor is proved correct for.                            *)
THEOREM SendImplementsMonitor == SendSpec => MonitorSpec
<1>1. SendInit => Init
  BY DEF SendInit
<1>2. SendInvariant /\ [SendNext]_sendVars => [Next]_vars
  BY MonitorSteps DEF SendInvariant
<1> QED BY <1>1, <1>2, SendInvariantHolds, PTL DEF SendSpec, Spec, MonitorSpec

(* No order of Track and the events loses the report of a message all of   *)
(* whose envelopes are sent, for any number of dispatches and segments     *)
(* (Add, handleEventEnvelopeSent, processMessageIDs).                      *)
THEOREM SentIsReportedCorrect == SendSpec => []SentIsReported
<1>1. SendInvariant => SentIsReported
  BY DEF SendInvariant
<1> QED BY <1>1, SendInvariantHolds, PTL

(* retryOnce never posts again what the network has confirmed. *)
THEOREM RetriesCorrect == SendSpec => []RetriedEnvelopesAreUnconfirmed
<1>1. SendInvariant => RetriedEnvelopesAreUnconfirmed
  BY DEF SendInvariant
<1> QED BY <1>1, SendInvariantHolds, PTL
-----------------------------------------------------------------------------
(* The reports about a message that is dispatched once. *)

Tracked(id) == \E d \in Dispatch : stage[d] = "tracked" /\ id \in MessageIDsOf(d)
Carriers(id) == {o \in Hash : id \in object[o].messageIDs}

(* It is sent when all its envelopes are, and forgotten when one failed. *)
OnceOK(id) ==
  /\ (\/ id \in reportedSent \cup reportedExpired
      \/ messageEnvelopeHashes[id] # {}
      \/ Carriers(id) # {}) => Tracked(id)
  /\ messageEnvelopeHashes[id] # {} => Carriers(id) \subseteq messageEnvelopeHashes[id]
  /\ Carriers(id) \cap retryQueue # {} => messageEnvelopeHashes[id] = {}
  /\ id \in reportedExpired => messageEnvelopeHashes[id] = {}
  /\ id \in reportedSent => id \notin reportedExpired /\ \A o \in Carriers(id) : object[o].state = "Sent"

(* A recorded hash that has an object leads to it. *)
RecordedLead == \A h \in Hash : Recorded(h) /\ Allocated(h) => envelopes[h] = h

OnceInvariant ==
  /\ RecordedLead
  /\ \A id \in MessageID : DispatchedOnce(id) => OnceOK(id)

(* The types the following lemmas need. *)
LEMMA SendStateTypes ==
  ASSUME SendInvariant
  PROVE  /\ object \in [Hash -> Envelope] /\ envelopes \in [Hash -> Pointer] /\ retryQueue \subseteq Hash
         /\ messageEnvelopeHashes \in [MessageID -> SUBSET Hash] /\ wire \in [Hash -> Wire]
  BY DEF SendInvariant, MonitorInvariant, TypeOK, SendTypeOK

(* A step that makes no object and only forgets records keeps what leads   *)
(* from a record to its object.                                            *)
LEMMA LeadKept ==
  ASSUME SendInvariant, RecordedLead,
         \A o \in Hash : object'[o].messageIDs = object[o].messageIDs,
         \A id \in MessageID : messageEnvelopeHashes'[id] \in {messageEnvelopeHashes[id], {}},
         \A h \in Hash : Recorded(h)' => envelopes'[h] = envelopes[h]
  PROVE  RecordedLead'
<1> SUFFICES ASSUME NEW h \in Hash, Recorded(h)', Allocated(h)' PROVE envelopes'[h] = h
  BY DEF RecordedLead
<1>1. Recorded(h) /\ Allocated(h)
  BY DEF Recorded, Allocated
<1> QED BY <1>1, Zenon DEF RecordedLead

(* A step that leaves objects, records, the queue and the reports alone. *)
LEMMA OnceUnseen ==
  ASSUME SendInvariant, OnceInvariant,
         UNCHANGED <<object, envelopes, retryQueue, messageEnvelopeHashes, reportedSent, reportedExpired>>,
         \A d \in Dispatch : stage[d] = "tracked" => stage'[d] = "tracked"
  PROVE  OnceInvariant'
<1>1. RecordedLead'
  BY Zenon DEF OnceInvariant, RecordedLead, Recorded, Allocated
<1>2. ASSUME NEW id \in MessageID, DispatchedOnce(id) PROVE OnceOK(id)'
  <2>1. OnceOK(id) /\ Carriers(id)' = Carriers(id) /\ (Tracked(id) => Tracked(id)')
    BY <1>2 DEF OnceInvariant, Carriers, Tracked
  <2> QED BY <2>1, Zenon DEF OnceOK
<1> QED BY <1>1, <1>2 DEF OnceInvariant, DispatchedOnce

(* OnceInvariant when waku reports an envelope as sent. *)
LEMMA OnceSent ==
  ASSUME SendInvariant, OnceInvariant, NEW h \in Hash, wire[h] = "sent",
         HandleEventEnvelopeSent(h), stage' = stage
  PROVE  OnceInvariant'
<1> USE PointersAssumption
<1> DEFINE o == envelopes[h]
<1>0. UNCHANGED <<retryQueue, messageEnvelopeHashes, reportedExpired>>
  BY DEF HandleEventEnvelopeSent
<1>1. CASE GetState(h) # "Posted"
  <2>1. object' = object /\ reportedSent' = reportedSent
    BY <1>1, Zenon DEF HandleEventEnvelopeSent
  <2>2. \A g \in Hash : Recorded(g)' => envelopes'[g] = envelopes[g]
    <3>1. Recorded(h) => GetState(h) # "NotRegistered"
      BY SendStateTypes DEF SendInvariant, RecordedAreRegistered, GetState, Pointer, Envelope
    <3> QED BY <1>0, <1>1, <3>1, SendStateTypes DEF HandleEventEnvelopeSent, Recorded
  <2>3. RecordedLead'
    BY <1>0, <2>1, <2>2, LeadKept DEF OnceInvariant
  <2>4. ASSUME NEW id \in MessageID, DispatchedOnce(id) PROVE OnceOK(id)'
    <3>1. OnceOK(id) /\ Carriers(id)' = Carriers(id) /\ Tracked(id)' = Tracked(id)
      BY <2>1, <2>4, Zenon DEF OnceInvariant, Carriers, Tracked
    <3> QED BY <1>0, <2>1, <3>1, Zenon DEF OnceOK
  <2> QED BY <2>3, <2>4, Zenon DEF OnceInvariant, DispatchedOnce
<1>2. CASE GetState(h) = "Posted"
  <2>1. o \in Hash
    BY <1>2, SendStateTypes DEF GetState, Pointer
  <2>2. /\ envelopes' = envelopes
        /\ object' = [object EXCEPT ![o].state = "Sent"]
        /\ processMessageIDs(object[o].messageIDs)
    BY <1>2 DEF HandleEventEnvelopeSent, MarkSent
  <2> HIDE DEF o
  <2>3. \A q \in Hash : /\ object'[q].messageIDs = object[q].messageIDs
                        /\ object[q].state = "Sent" => object'[q].state = "Sent"
    BY <2>1, <2>2, SendStateTypes DEF Envelope
  <2>4. RecordedLead'
    BY <1>0, <2>2, <2>3, LeadKept DEF OnceInvariant
  <2>5. ASSUME NEW id \in MessageID, DispatchedOnce(id) PROVE OnceOK(id)'
    <3>1. OnceOK(id) /\ Carriers(id)' = Carriers(id) /\ (Tracked(id) => Tracked(id)')
      BY <2>3, <2>5 DEF OnceInvariant, Carriers, Tracked
    <3>2. id \in reportedSent' \ reportedSent =>
            /\ messageEnvelopeHashes[id] # {} /\ id \in object[o].messageIDs
            /\ \A g \in messageEnvelopeHashes[id] : GetState(g)' = "Sent"
      BY <1>0, <2>2 DEF processMessageIDs
    <3>3. ASSUME id \in reportedSent' \ reportedSent
          PROVE  /\ Carriers(id) # {} /\ id \notin reportedExpired
                 /\ \A q \in Carriers(id) : object'[q].state = "Sent"
      <4>1. Carriers(id) # {} /\ id \notin reportedExpired
        BY <2>1, <3>1, <3>2, <3>3, Zenon DEF Carriers, OnceOK
      <4>2. ASSUME NEW q \in Carriers(id) PROVE object'[q].state = "Sent"
        <5>1. q \in Hash /\ q \in messageEnvelopeHashes[id] /\ Allocated(q)
          BY <3>1, <3>2, <3>3, <4>2 DEF OnceOK, Carriers, Allocated
        <5>2. envelopes'[q] = q
          BY <2>2, <5>1 DEF OnceInvariant, RecordedLead, Recorded
        <5> QED BY <3>2, <3>3, <5>1, <5>2, Zenon DEF GetState
      <4> QED BY <4>1, <4>2
    <3>4. reportedSent \subseteq reportedSent'
      BY <2>2 DEF processMessageIDs
    <3>5. \A q \in Carriers(id) : q \in Hash
      BY DEF Carriers
    <3> QED BY <1>0, <2>3, <3>1, <3>3, <3>4, <3>5, Zenon DEF OnceOK
  <2> QED BY <2>4, <2>5 DEF OnceInvariant, DispatchedOnce
<1> QED BY <1>1, <1>2, Zenon

(* OnceInvariant when waku reports an envelope as expired. *)
LEMMA OnceExpired ==
  ASSUME SendInvariant, OnceInvariant, NEW h \in Hash, wire[h] = "expired",
         HandleEventEnvelopeExpired(h), stage' = stage
  PROVE  OnceInvariant'
<1> USE PointersAssumption
<1> DEFINE o == envelopes[h]
<1>0. UNCHANGED <<object, reportedSent>> /\ HandleEnvelopeFailure(h)
  BY DEF HandleEventEnvelopeExpired
<1>1. CASE o = None
  BY <1>0, <1>1, OnceUnseen, Zenon DEF HandleEnvelopeFailure, GetState
<1>2. CASE o # None
  <2>1. o \in Hash
    BY <1>2 DEF SendInvariant, AwaitedAreCurrent
  <2>2. GetState(h) = object[o].state /\ object[o].state \in {"Posted", "Sent"} /\ o # Bare
    BY <1>2, <2>1, SendStateTypes, Zenon DEF GetState, Envelope
  <2>3. /\ envelopes' = [envelopes EXCEPT ![h] = None]
        /\ messageEnvelopeHashes' = [id \in MessageID |->
             IF id \in object[o].messageIDs THEN {} ELSE messageEnvelopeHashes[id]]
        /\ retryQueue' \subseteq retryQueue \cup {o}
        /\ \/ reportedExpired' = reportedExpired
           \/ /\ reportedExpired' = reportedExpired \cup object[o].messageIDs
              /\ object[o].state = "Posted"
    <3>1. GetState(h) # "NotRegistered"
      BY <2>2
    <3>2. removeFromRetryQueue(h) \subseteq retryQueue
      BY Zenon DEF removeFromRetryQueue
    <3> QED BY <1>0, <2>2, <3>1, <3>2, Zenon DEF HandleEnvelopeFailure
  <2> HIDE DEF o
  <2>4. RecordedLead'
    <3>1. ~Recorded(h)'
      <4> SUFFICES ASSUME NEW id \in MessageID, h \in messageEnvelopeHashes'[id] PROVE FALSE
        BY DEF Recorded
      <4>1. h \in messageEnvelopeHashes[id] /\ id \notin object[o].messageIDs
        BY <2>3, Zenon
      <4>2. Allocated(o) /\ object[o].hash = h
        BY <1>2, <2>1, Zenon DEF SendInvariant, MonitorInvariant, PointersAreAllocated, AwaitedAreCurrent, o
      <4> QED BY <2>1, <4>1, <4>2 DEF SendInvariant, MonitorInvariant, ObjectsOwnTheirHashes
    <3>2. \A g \in Hash : Recorded(g)' => envelopes'[g] = envelopes[g]
      BY <2>3, <3>1, SendStateTypes
    <3>3. \A id \in MessageID : messageEnvelopeHashes'[id] \in {messageEnvelopeHashes[id], {}}
      BY <2>3
    <3> QED BY <1>0, <3>2, <3>3, LeadKept, Zenon DEF OnceInvariant
  <2>5. ASSUME NEW id \in MessageID, DispatchedOnce(id) PROVE OnceOK(id)'
    <3>1. OnceOK(id) /\ Carriers(id)' = Carriers(id) /\ (Tracked(id) => Tracked(id)')
      BY <1>0, <2>5, Zenon DEF OnceInvariant, Carriers, Tracked
    <3>2. CASE id \in object[o].messageIDs
      <4>1. o \in Carriers(id) /\ messageEnvelopeHashes'[id] = {}
        BY <2>1, <2>3, <3>2, Zenon DEF Carriers
      <4>2. Tracked(id)'
        BY <3>1, <4>1, Zenon DEF OnceOK
      <4>3. id \in reportedSent => id \notin reportedExpired'
        BY <2>3, <3>1, <4>1, Zenon DEF OnceOK
      <4> QED BY <1>0, <3>1, <4>1, <4>2, <4>3, Zenon DEF OnceOK
    <3>3. CASE id \notin object[o].messageIDs
      <4>1. /\ o \notin Carriers(id) /\ messageEnvelopeHashes'[id] = messageEnvelopeHashes[id]
            /\ (id \in reportedExpired' <=> id \in reportedExpired)
        BY <2>3, <3>3, Zenon DEF Carriers
      <4> QED BY <1>0, <2>3, <3>1, <4>1, Zenon DEF OnceOK
    <3> QED BY <3>2, <3>3
  <2> QED BY <2>4, <2>5 DEF OnceInvariant, DispatchedOnce
<1> QED BY <1>1, <1>2

(* OnceInvariant when the retry loop posts again, or fails to. *)
LEMMA OnceRetry ==
  ASSUME SendInvariant, OnceInvariant, NEW o \in retryQueue, NEW h \in Hash, stage' = stage,
         \/ RetryOncePostFails(o) /\ h = object[o].hash
         \/ h \in Hash \ posted /\ RetryOncePosts(o, h)
  PROVE  OnceInvariant'
<1>1. o \in Hash /\ object[o].state = "Posted"
  BY SendStateTypes, Zenon DEF SendInvariant, RetriedEnvelopesAreUnconfirmed
<1>2. /\ UNCHANGED <<messageEnvelopeHashes, reportedSent>>
      /\ envelopes' = [envelopes EXCEPT ![h] = o]
      /\ retryQueue' \subseteq retryQueue
      /\ reportedExpired' \in {reportedExpired, reportedExpired \cup object[o].messageIDs}
      /\ \A q \in Hash : object'[q].messageIDs = object[q].messageIDs /\ object'[q].state = object[q].state
  BY <1>1, SendStateTypes DEF RetryOncePostFails, RetryOncePosts, history, Envelope, removeFromRetryQueue
<1>3. RecordedLead'
  <2>1. ~Recorded(h)
    BY Zenon DEF SendInvariant, MonitorInvariant, QueuedAreNotRecorded, RecordedAreFaithful, Owned
  <2>2. \A g \in Hash : Recorded(g)' => envelopes'[g] = envelopes[g]
    BY <1>2, <2>1, SendStateTypes, Zenon DEF Recorded
  <2> QED BY <1>2, <2>2, LeadKept, Zenon DEF OnceInvariant
<1>4. ASSUME NEW id \in MessageID, DispatchedOnce(id) PROVE OnceOK(id)'
  <2>1. OnceOK(id) /\ Carriers(id)' = Carriers(id) /\ (Tracked(id) => Tracked(id)')
    BY <1>2, <1>4, Zenon DEF OnceInvariant, Carriers, Tracked
  <2>2. id \in object[o].messageIDs =>
          o \in Carriers(id) /\ messageEnvelopeHashes[id] = {} /\ id \notin reportedSent
    BY <1>1, <2>1, Zenon DEF Carriers, OnceOK
  <2>3. id \in reportedExpired' => id \in reportedExpired \/ id \in object[o].messageIDs
    BY <1>2, Zenon
  <2>4. \A q \in Carriers(id) : q \in Hash
    BY Zenon DEF Carriers
  <2> QED BY <1>2, <2>1, <2>2, <2>3, <2>4, Zenon DEF OnceOK
<1> QED BY <1>3, <1>4 DEF OnceInvariant, DispatchedOnce

(* OnceInvariant when a dispatch is added to the monitor. *)
LEMMA OnceTrack ==
  ASSUME SendInvariant, OnceInvariant, NEW d \in Dispatch, Track(d)
  PROVE  OnceInvariant'
<1> USE PointersAssumption
<1> DEFINE ids == MessageIDsOf(d)
           hs == hashes[d]
           new == {h \in hs : envelopes[h] = None}
<1>1. ids \in SUBSET MessageID /\ hs \in SUBSET Hash /\ stage \in [Dispatch -> {"posting", "tracked", "error"}]
  BY DispatchAssumption DEF SendInvariant, SendTypeOK
<1>2. /\ UNCHANGED <<retryQueue, reportedExpired>> /\ hs \subseteq untracked
      /\ messageEnvelopeHashes' = [id \in MessageID |-> IF id \in ids THEN hs ELSE messageEnvelopeHashes[id]]
      /\ \A h \in Hash : /\ h \notin new => object'[h] = object[h] /\ envelopes'[h] = envelopes[h]
                         /\ h \in new => /\ object'[h].messageIDs = ids /\ object'[h].state = "Posted"
                                         /\ envelopes'[h] = h
      /\ processMessageIDs(ids)
  BY Zenon DEF Track, Add
<1>3. stage[d] = "posting" /\ stage' = [stage EXCEPT ![d] = "tracked"] /\ new \subseteq hs
  BY DEF Track
<1> HIDE DEF ids, hs, new
<1>4. \A h \in hs : object[h].messageIDs = {} /\ h \in Hash
  BY <1>1, <1>2, Zenon DEF SendInvariant, MonitorInvariant, ObjectsOwnTheirHashes, Allocated, Owned
<1>5. \A o \in retryQueue : o \notin new /\ o \in Hash
  BY <1>3, <1>4, SendStateTypes, Zenon DEF SendInvariant, MonitorInvariant, QueuedAreNotRecorded, Allocated
<1>6. RecordedLead'
  <2> SUFFICES ASSUME NEW h \in Hash, h \notin new, Recorded(h)', Allocated(h)' PROVE envelopes'[h] = h
    BY <1>2, Zenon DEF RecordedLead
  <2>1. Allocated(h) /\ h \notin hs
    BY <1>2, <1>4, Zenon DEF Allocated
  <2>2. Recorded(h)
    BY <1>2, <2>1 DEF Recorded
  <2> QED BY <1>2, <2>1, <2>2, Zenon DEF OnceInvariant, RecordedLead
<1>7. ASSUME NEW id \in MessageID, DispatchedOnce(id) PROVE OnceOK(id)'
  <2>1. OnceOK(id)
    BY <1>7 DEF OnceInvariant
  <2>2. CASE id \in ids
    <3>1. ~Tracked(id)
      BY <1>3, <1>7, <2>2 DEF Tracked, DispatchedOnce, ids
    <3>2. id \notin reportedSent /\ id \notin reportedExpired /\ Carriers(id) = {}
      BY <2>1, <3>1 DEF OnceOK
    <3>3. Tracked(id)'
      BY <1>1, <1>3, <2>2, Zenon DEF Tracked, ids
    <3>4. messageEnvelopeHashes'[id] = hs
      BY <1>2, <2>2, Zenon
    <3>5. \A o \in Carriers(id)' : o \in new /\ o \in Hash
      BY <1>2, <3>2 DEF Carriers
    <3>6. id \in reportedSent' => Carriers(id)' = {}
      <4>1. \A o \in Carriers(id)' : o \in hs /\ GetState(o)' # "Sent"
        BY <1>2, <1>3, <3>5, Zenon DEF GetState
      <4>2. id \in reportedSent' => \A g \in hs : GetState(g)' = "Sent"
        BY <3>2, <3>4, <1>2, Zenon DEF processMessageIDs
      <4> QED BY <4>1, <4>2, Zenon
    <3> QED BY <1>2, <1>3, <1>5, <3>2, <3>3, <3>4, <3>5, <3>6, Zenon DEF OnceOK
  <2>3. CASE id \notin ids
    <3>1. messageEnvelopeHashes'[id] = messageEnvelopeHashes[id]
      BY <1>2, <2>3, Zenon
    <3>2. \A o \in Hash : o \in new => id \notin object'[o].messageIDs /\ id \notin object[o].messageIDs
      BY <1>2, <1>3, <1>4, <2>3, Zenon
    <3>3. Carriers(id)' = Carriers(id) /\ \A o \in Carriers(id) : object'[o] = object[o]
      BY <1>2, <3>2, Zenon DEF Carriers
    <3>4. id \in reportedSent' <=> id \in reportedSent
      BY <1>2, <2>3, Zenon DEF processMessageIDs
    <3>5. Tracked(id) => Tracked(id)'
      BY <1>1, <1>3 DEF Tracked
    <3>6. retryQueue' = retryQueue /\ reportedExpired' = reportedExpired
      BY <1>2, Zenon
    <3>7. \A o \in Carriers(id) : object'[o].state = object[o].state
      BY <3>3, Zenon
    <3>8. Carriers(id)' = Carriers(id)
      BY <3>3, Zenon
    <3> QED BY <2>1, <3>1, <3>4, <3>5, <3>6, <3>7, <3>8, Zenon DEF OnceOK
  <2> QED BY <2>2, <2>3
<1> QED BY <1>6, <1>7 DEF OnceInvariant, DispatchedOnce

(* Every step preserves what is said of the reports. *)
LEMMA OnceStep == SendInvariant /\ OnceInvariant /\ [SendNext]_sendVars => OnceInvariant'
<1> SUFFICES ASSUME SendInvariant, OnceInvariant, [SendNext]_sendVars PROVE OnceInvariant'
  OBVIOUS
<1>1. stage \in [Dispatch -> {"posting", "tracked", "error"}] /\ \A o \in retryQueue : object[o].hash \in Hash
  BY SendStateTypes DEF SendInvariant, SendTypeOK, Envelope
<1>2. ASSUME NEW d \in Dispatch, PostSegment(d) PROVE OnceInvariant'
  BY <1>2, OnceUnseen DEF PostSegment, Post, monitorState, history
<1>3. ASSUME NEW d \in Dispatch, PostSegmentFails(d) PROVE OnceInvariant'
  BY <1>1, <1>3, OnceUnseen DEF PostSegmentFails, vars, monitorState, history
<1>4. ASSUME NEW h \in Hash, PublishEnvelope(h) \/ CheckStored(h) PROVE OnceInvariant'
  BY <1>4, OnceUnseen DEF PublishEnvelope, CheckStored, vars, monitorState, history, sender
<1>5. ASSUME NEW h \in Hash, HandleEvent(h) PROVE OnceInvariant'
  BY <1>5, OnceSent, OnceExpired DEF HandleEvent, sender
<1>6. ASSUME RetryOnce PROVE OnceInvariant'
  BY <1>1, <1>6, Fresh, OnceRetry DEF RetryOnce, sender
<1>7. ASSUME NEW id \in MessageID, ConfirmMessageDelivered(id) PROVE OnceInvariant'
  BY <1>7, OnceUnseen DEF ConfirmMessageDelivered, vars, monitorState, history, sender
<1>8. ASSUME UNCHANGED sendVars PROVE OnceInvariant'
  BY <1>8, OnceUnseen DEF sendVars, vars, monitorState, history, sender
<1> QED BY <1>2, <1>3, <1>4, <1>5, <1>6, <1>7, <1>8, OnceTrack DEF SendNext

(* "If any envelope fails, then messageIDs are considered as not sent": a  *)
(* message dispatched once is not reported both sent and expired, whatever *)
(* its envelopes go through (handleEnvelopeFailure, retryOnce).            *)
THEOREM ReportsCorrect == SendSpec => []ReportsAgree
<1>1. SendInit => OnceInvariant
  <2> SUFFICES ASSUME SendInit PROVE OnceInvariant
    OBVIOUS
  <2>1. \A id \in MessageID : Carriers(id) = {} /\ messageEnvelopeHashes[id] = {}
    BY DEF SendInit, Init, Carriers
  <2>2. reportedSent = {} /\ reportedExpired = {}
    BY DEF SendInit, Init
  <2> QED BY <2>1, <2>2 DEF OnceInvariant, OnceOK, RecordedLead, Recorded
<1>2. OnceInvariant /\ SendInvariant => ReportsAgree
  BY DEF OnceInvariant, OnceOK, ReportsAgree, SendInvariant, SendTypeOK, TypeOK
<1> QED BY <1>1, <1>2, OnceStep, SendInvariantHolds, PTL DEF SendSpec

(* The monitor's maps stay maps of known hashes and messages, and so do    *)
(* the records of dispatches and envelopes, through Track, every handler   *)
(* and every retry.                                                        *)
THEOREM SendTypesCorrect == SendSpec => []SendTypeOK
  BY SendInvariantHolds, PTL DEF SendInvariant
=============================================================================
