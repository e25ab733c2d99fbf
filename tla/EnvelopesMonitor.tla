-------------------------- MODULE EnvelopesMonitor --------------------------
(***************************************************************************)
(* The tracker of outgoing waku envelopes, messaging/layers/transport/     *)
(* envelopes_monitor.go.  Every handler runs under m.mu and is one action. *)
(*                                                                         *)
(* A monitoredEnvelope is a heap object that the map `envelopes' and the   *)
(* slice `retryQueue' share by pointer.  waku returns a new hash for every *)
(* Post, and Add is called once per hash, so an object is named by the     *)
(* hash it was created under; its current hash is a field.  The object     *)
(* created for a Sent event that overtakes Add has no message and no later *)
(* change, so it is the constant Bare.  The retry queue is a set: any due  *)
(* entry may be the next one tried, and removal by hash drops all the      *)
(* pointers to an object together.                                         *)
(***************************************************************************)
EXTENDS Naturals, FiniteSets

CONSTANTS MessageID,    \* identifiers of application messages
          Hash,         \* envelope hashes, one per successful Post
          Batch,        \* batch identifiers (events of waku version 1)
          MaxAttempts,  \* config.MaxAttempts
          None, Bare

ASSUME MaxAttemptsAssumption == MaxAttempts \in Nat
ASSUME PointersAssumption == None \notin Hash /\ Bare \notin Hash /\ None # Bare

VARIABLES
  object,                \* the monitoredEnvelope created under each hash
  envelopes,             \* map hash -> *monitoredEnvelope
  retryQueue,            \* the objects that wait for a retry
  batches,               \* map batch -> set of hashes
  messageEnvelopeHashes, \* map message id -> hashes, {} when absent
  posted,                \* hashes api.Post has returned so far
  untracked,             \* those of them a sender holds and has not yet Added
  adds,                  \* history: the <<ids, hashes>> of every Add
  confirmed,             \* history: hashes the network confirmed
  reportedSent,          \* history: ids passed to handler.EnvelopeSent
  reportedExpired        \* history: ids passed to handler.EnvelopeExpired

monitorState == <<object, envelopes, retryQueue, batches, messageEnvelopeHashes>>
history == <<adds, confirmed, reportedSent, reportedExpired>>
network == <<posted, untracked>>
vars == <<monitorState, network, history>>

Envelope == [hash: Hash, state: {"Posted", "Sent"}, attempts: Nat,
             messageIDs: SUBSET MessageID]

(* What GetState answers for a hash. *)
GetState(h) ==
  IF envelopes[h] = None THEN "NotRegistered"
  ELSE IF envelopes[h] = Bare THEN "Sent"
  ELSE object[envelopes[h]].state

(* Mistake: one sent envelope is enough. *)
processMessageIDsAny(ids) ==
  reportedSent' = reportedSent \cup
    {id \in ids : \E h \in messageEnvelopeHashes'[id] : GetState(h)' = "Sent"}

(* Reports the ids whose envelopes, as this step leaves them, are all sent. *)
processMessageIDs(ids) ==
  reportedSent' = reportedSent \cup
    {id \in ids : /\ messageEnvelopeHashes'[id] # {}
                  /\ \A h \in messageEnvelopeHashes'[id] : GetState(h)' = "Sent"}

removeFromRetryQueue(h) == {o \in retryQueue : object[o].hash # h}
-----------------------------------------------------------------------------
Init ==
  /\ object = [h \in Hash |-> [hash |-> h, state |-> "Posted", attempts |-> 0,
                               messageIDs |-> {}]]
  /\ envelopes = [h \in Hash |-> None]
  /\ retryQueue = {}
  /\ batches = [b \in Batch |-> {}]
  /\ messageEnvelopeHashes = [id \in MessageID |-> {}]
  /\ posted = {} /\ untracked = {} /\ adds = {} /\ confirmed = {}
  /\ reportedSent = {} /\ reportedExpired = {}

(* Mistake: the hash is not remembered as used. *)
PostUnrecorded(h) ==
  /\ h \notin posted
  /\ untracked' = untracked \cup {h}
  /\ UNCHANGED <<posted, monitorState, history>>

(* A sender hands one more envelope to waku; the hash is fresh. *)
Post(h) ==
  /\ h \notin posted
  /\ posted' = posted \cup {h}
  /\ untracked' = untracked \cup {h}
  /\ UNCHANGED <<monitorState, history>>

(* Mistake: Sent events that came before Add are not looked at. *)
AddUnprocessed(ids, hashes) ==
  /\ ids # {} /\ hashes # {}
  /\ hashes \subseteq untracked
  /\ untracked' = untracked \ hashes
  /\ messageEnvelopeHashes' = [id \in MessageID |->
        IF id \in ids THEN hashes ELSE messageEnvelopeHashes[id]]
  /\ LET new == {h \in hashes : envelopes[h] = None} IN
       /\ object' = [h \in Hash |->
            IF h \in new THEN [hash |-> h, state |-> "Posted", attempts |-> 1,
                               messageIDs |-> ids]
            ELSE object[h]]
       /\ envelopes' = [h \in Hash |-> IF h \in new THEN h ELSE envelopes[h]]
  /\ adds' = adds \cup {<<ids, hashes>>}
  /\ UNCHANGED <<retryQueue, batches, posted, confirmed, reportedSent,
                 reportedExpired>>

Add(ids, hashes) ==
  /\ ids # {} /\ hashes # {}
  /\ hashes \subseteq untracked
  /\ untracked' = untracked \ hashes
  /\ messageEnvelopeHashes' = [id \in MessageID |->
        IF id \in ids THEN hashes ELSE messageEnvelopeHashes[id]]
  /\ LET new == {h \in hashes : envelopes[h] = None} IN
       /\ object' = [h \in Hash |->
            IF h \in new THEN [hash |-> h, state |-> "Posted", attempts |-> 1,
                               messageIDs |-> ids]
            ELSE object[h]]
       /\ envelopes' = [h \in Hash |-> IF h \in new THEN h ELSE envelopes[h]]
  /\ adds' = adds \cup {<<ids, hashes>>}
  /\ UNCHANGED <<retryQueue, batches, posted, confirmed, reportedExpired>>
  /\ processMessageIDs(ids)

MarkSent(h) ==
  /\ object' = [object EXCEPT ![envelopes[h]].state = "Sent"]
  /\ processMessageIDs(object[envelopes[h]].messageIDs)

(* Mistake: the event of an unknown hash is dropped. *)
HandleEventEnvelopeSentKnownOnly(h) ==
  /\ h \in posted
  /\ confirmed' = confirmed \cup {h}
  /\ UNCHANGED <<envelopes, retryQueue, batches, messageEnvelopeHashes, network,
                 adds, reportedExpired>>
  /\ \/ GetState(h) # "Posted" /\ UNCHANGED <<object, reportedSent>>
     \/ GetState(h) = "Posted" /\ MarkSent(h)

(* EventEnvelopeSent without a batch: no further confirmation is expected. *)
HandleEventEnvelopeSent(h) ==
  /\ h \in posted
  /\ confirmed' = confirmed \cup {h}
  /\ UNCHANGED <<retryQueue, batches, messageEnvelopeHashes, network, adds,
                 reportedExpired>>
  /\ \/ /\ GetState(h) = "NotRegistered"
        /\ envelopes' = [envelopes EXCEPT ![h] = Bare]
        /\ UNCHANGED <<object, reportedSent>>
     \/ /\ GetState(h) = "Sent"
        /\ UNCHANGED <<object, envelopes, reportedSent>>
     \/ /\ GetState(h) = "Posted"
        /\ UNCHANGED envelopes
        /\ MarkSent(h)

(* Mistake: only the failed envelope is forgotten, not its messages. *)
HandleEnvelopeFailureOneHash(h) ==
  IF GetState(h) = "NotRegistered"
  THEN UNCHANGED <<envelopes, messageEnvelopeHashes, retryQueue, reportedExpired>>
  ELSE
    LET o   == envelopes[h]
        ids == IF o = Bare THEN {} ELSE object[o].messageIDs
    IN
    /\ envelopes' = [envelopes EXCEPT ![h] = None]
    /\ messageEnvelopeHashes' = [id \in MessageID |->
          messageEnvelopeHashes[id] \ {h}]
    /\ \/ GetState(h) = "Sent" /\ UNCHANGED <<retryQueue, reportedExpired>>
       \/ /\ GetState(h) = "Posted" /\ object[o].attempts < MaxAttempts
          /\ retryQueue' = retryQueue \cup {o}
          /\ UNCHANGED reportedExpired
       \/ /\ GetState(h) = "Posted" /\ object[o].attempts >= MaxAttempts
          /\ retryQueue' = removeFromRetryQueue(h)
          /\ reportedExpired' = reportedExpired \cup ids

(* handleEnvelopeFailure, with the clearMessageState it starts with. *)
HandleEnvelopeFailure(h) ==
  IF GetState(h) = "NotRegistered"
  THEN UNCHANGED <<envelopes, messageEnvelopeHashes, retryQueue, reportedExpired>>
  ELSE
    LET o   == envelopes[h]
        ids == IF o = Bare THEN {} ELSE object[o].messageIDs
    IN
    /\ envelopes' = [envelopes EXCEPT ![h] = None]
    /\ messageEnvelopeHashes' = [id \in MessageID |->
          IF id \in ids THEN {} ELSE messageEnvelopeHashes[id]]
    /\ \/ GetState(h) = "Sent" /\ UNCHANGED <<retryQueue, reportedExpired>>
       \/ /\ GetState(h) = "Posted" /\ object[o].attempts < MaxAttempts
          /\ retryQueue' = retryQueue \cup {o}
          /\ UNCHANGED reportedExpired
       \/ /\ GetState(h) = "Posted" /\ object[o].attempts >= MaxAttempts
          /\ retryQueue' = removeFromRetryQueue(h)
          /\ reportedExpired' = reportedExpired \cup ids

HandleEventEnvelopeExpired(h) ==
  /\ h \in posted
  /\ HandleEnvelopeFailure(h)
  /\ UNCHANGED <<object, batches, network, adds, confirmed, reportedSent>>

(* Mistake: the failed retry is not reported. *)
RetryOncePostFailsSilently(o) ==
  /\ o \in retryQueue
  /\ object[o].attempts < MaxAttempts
  /\ object' = [object EXCEPT ![o].state = "Posted", ![o].attempts = @ + 1]
  /\ envelopes' = [envelopes EXCEPT ![object[o].hash] = o]
  /\ UNCHANGED <<retryQueue, batches, messageEnvelopeHashes, network, history>>

(* retryOnce holds m.mu for the whole queue; how many entries have waited  *)
(* out their backoff is up to the clock, so a pass over several due        *)
(* entries is several passes over one.  An entry that has just been tried  *)
(* is not due.                                                             *)
RetryOncePostFails(o) ==
  /\ o \in retryQueue
  /\ object[o].attempts < MaxAttempts
  /\ object' = [object EXCEPT ![o].state = "Posted", ![o].attempts = @ + 1]
  /\ envelopes' = [envelopes EXCEPT ![object[o].hash] = o]
  /\ reportedExpired' = reportedExpired \cup object[o].messageIDs
  /\ UNCHANGED <<retryQueue, batches, messageEnvelopeHashes, network, adds,
                 confirmed, reportedSent>>

(* Mistake: the retried envelope stays in the queue. *)
RetryOncePostsAndKeeps(o, h) ==
  /\ o \in retryQueue
  /\ object[o].attempts < MaxAttempts
  /\ h \notin posted
  /\ posted' = posted \cup {h}
  /\ object' = [object EXCEPT ![o].hash = h, ![o].state = "Posted",
                              ![o].attempts = @ + 1]
  /\ envelopes' = [envelopes EXCEPT ![h] = o]
  /\ UNCHANGED <<retryQueue, batches, messageEnvelopeHashes, untracked, history>>

RetryOncePosts(o, h) ==
  /\ o \in retryQueue
  /\ object[o].attempts < MaxAttempts
  /\ h \notin posted
  /\ posted' = posted \cup {h}
  /\ retryQueue' = removeFromRetryQueue(object[o].hash)
  /\ object' = [object EXCEPT ![o].hash = h, ![o].state = "Posted",
                              ![o].attempts = @ + 1]
  /\ envelopes' = [envelopes EXCEPT ![h] = o]
  /\ UNCHANGED <<batches, messageEnvelopeHashes, untracked, history>>

-----------------------------------------------------------------------------
(* Events of waku version 1, which the monitor still handles. *)

(* EventEnvelopeSent with a batch: wait for the batch to be acknowledged.  *)
(* The handler dereferences the map entry, so the hash is registered.      *)
HandleEventEnvelopeSentInBatch(h, b) ==
  /\ GetState(h) = "Posted"
  /\ batches' = [batches EXCEPT ![b] = @ \cup {h}]
  /\ UNCHANGED <<object, envelopes, retryQueue, messageEnvelopeHashes, network, history>>

(* The loop of handleAcknowledgedBatch over the envelopes that arrived. *)
Unconfirmed(hashes) == {h \in hashes : GetState(h) = "Posted"}
PointersTo(hashes) == {envelopes[h] : h \in Unconfirmed(hashes)}

MarkBatchSent(hashes) ==
  /\ object' = [o \in Hash |->
        IF o \in PointersTo(hashes) THEN [object[o] EXCEPT !.state = "Sent"]
        ELSE object[o]]
  /\ confirmed' = confirmed \cup Unconfirmed(hashes)
  /\ processMessageIDs(UNION {object[o].messageIDs : o \in PointersTo(hashes)})

(* A batch is acknowledged without errors. *)
HandleAcknowledgedBatch(b) ==
  /\ batches' = [batches EXCEPT ![b] = {}]
  /\ UNCHANGED <<envelopes, retryQueue, messageEnvelopeHashes, network, adds,
                 reportedExpired>>
  /\ MarkBatchSent(batches[b])

(* A batch is acknowledged with the error that envelope e was discarded. *)
HandleAcknowledgedBatchError(b, e) ==
  /\ e \in batches[b]
  /\ batches' = [batches EXCEPT ![b] = {}]
  /\ HandleEnvelopeFailure(e)
  /\ UNCHANGED <<network, adds>>
  /\ MarkBatchSent(batches[b] \ {e})

HandleEventEnvelopeReceived(h) ==
  /\ GetState(h) = "Posted"
  /\ confirmed' = confirmed \cup {h}
  /\ UNCHANGED <<envelopes, retryQueue, batches, messageEnvelopeHashes, network,
                 adds, reportedExpired>>
  /\ MarkSent(h)
-----------------------------------------------------------------------------
(* The monitor against a network that may report anything about a posted   *)
(* envelope, at any time and any number of times.                          *)
Next ==
  \/ \E h \in Hash : Post(h)
  \/ \E ids \in SUBSET MessageID, hashes \in SUBSET Hash : Add(ids, hashes)
  \/ \E h \in Hash : HandleEventEnvelopeSent(h)
  \/ \E h \in Hash : HandleEventEnvelopeExpired(h)
  \/ \E h \in Hash : HandleEventEnvelopeReceived(h)
  \/ \E h \in Hash, b \in Batch : HandleEventEnvelopeSentInBatch(h, b)
  \/ \E b \in Batch : HandleAcknowledgedBatch(b)
  \/ \E b \in Batch, e \in Hash : HandleAcknowledgedBatchError(b, e)
  \/ \E o \in Hash : RetryOncePostFails(o)
  \/ \E o \in Hash, h \in Hash : RetryOncePosts(o, h)

Spec == Init /\ [][Next]_vars
-----------------------------------------------------------------------------
Pointer == Hash \cup {None, Bare}

(* The state of the monitor has the Go types of the struct's fields. *)
TypeOK ==
  /\ object \in [Hash -> Envelope]
  /\ envelopes \in [Hash -> Pointer]
  /\ retryQueue \subseteq Hash
  /\ batches \in [Batch -> SUBSET Hash]
  /\ messageEnvelopeHashes \in [MessageID -> SUBSET Hash]
  /\ posted \subseteq Hash /\ untracked \subseteq posted
  /\ adds \subseteq (SUBSET MessageID) \X (SUBSET Hash)
  /\ confirmed \subseteq Hash
  /\ reportedSent \subseteq MessageID /\ reportedExpired \subseteq MessageID

(* processMessageIDs considers a message sent "if all corresponding        *)
(* envelopes are in EnvelopeSent state": a message reported by             *)
(* handler.EnvelopeSent was added with envelopes each of which the network *)
(* confirmed under the very hash it was added with.                        *)
SentReportsAreConfirmed ==
  \A id \in reportedSent :
    \E a \in adds : id \in a[1] /\ a[2] \subseteq confirmed
-----------------------------------------------------------------------------
(* The inductive invariant behind SentReportsAreConfirmed. *)

Owned == posted \ untracked         \* hashes that were Added or come from a retry
Allocated(o) == object[o].messageIDs # {}
Recorded(h) == \E id \in MessageID : h \in messageEnvelopeHashes[id]

(* An object's first and current hash are recorded only for its messages.  *)
ObjectsOwnTheirHashes ==
  \A o \in Hash : Allocated(o) =>
    /\ o \in Owned /\ object[o].hash \in Owned
    /\ \A id \in MessageID :
         (o \in messageEnvelopeHashes[id] \/ object[o].hash \in messageEnvelopeHashes[id])
           => id \in object[o].messageIDs

PointersAreAllocated ==
  \A h \in Hash : /\ envelopes[h] \in Hash => Allocated(envelopes[h]) /\ h \in Owned
                  /\ envelopes[h] = Bare => h \in confirmed

(* clearMessageState forgets the messages of whatever enters the queue. *)
QueuedAreNotRecorded ==
  \A o \in retryQueue :
    Allocated(o) /\ ~Recorded(o) /\ ~Recorded(object[o].hash)

(* A recorded hash leads to the object it was added with, nothing else     *)
(* does, and that object is sent only once the hash is confirmed.          *)
RecordedAreFaithful ==
  \A h \in Hash : Recorded(h) =>
    /\ h \in Owned
    /\ envelopes[h] \in Hash =>
         envelopes[h] = h /\ (object[h].state = "Sent" => h \in confirmed)
    /\ \A g \in Hash : envelopes[g] = h => g = h

RecordsComeFromAdd ==
  \A id \in MessageID : messageEnvelopeHashes[id] # {} =>
    \E a \in adds : id \in a[1] /\ a[2] = messageEnvelopeHashes[id]

(* What every step of the monitor preserves: what the two maps and the     *)
(* retry queue say about an envelope never disagrees.                      *)
MonitorInvariant ==
  /\ TypeOK
  /\ ObjectsOwnTheirHashes
  /\ PointersAreAllocated
  /\ QueuedAreNotRecorded
  /\ RecordedAreFaithful
  /\ RecordsComeFromAdd
  /\ SentReportsAreConfirmed
=============================================================================
