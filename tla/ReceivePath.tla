---------------------------- MODULE ReceivePath -----------------------------
(***************************************************************************)
(* The way of an incoming envelope: waku's filter queue, RetrieveRawAll    *)
(* with the cache of processed envelopes, HandleMessages with the          *)
(* segmentation and encryption layers and the queue of messages that wait  *)
(* for a hash ratchet key, and handleRetrievedMessages, which dispatches   *)
(* the messages to their handlers, confirms the envelopes and saves.       *)
(*                                                                         *)
(* Two goroutines do this, the retrieve loop and the import of a history   *)
(* archive; handleMessagesMutex serialises them from the dispatch on.      *)
(***************************************************************************)
EXTENDS Segmentation

CONSTANTS Key, NoKey,
          NeedsKey(_),      \* the hash ratchet key a message is encrypted with
          CarriesKey(_),    \* the key in the header of a key exchange message
          Copies,           \* times the sender (re)sends a message
          MaxFailures,      \* handlers that may fail with a transient error
          MaxCrashes,       \* crashes and failing writes
          MaxDeletes        \* times the chat is deleted

ASSUME ReceiveAssumption ==
  /\ NoKey \notin Key /\ {Copies, MaxFailures, MaxCrashes, MaxDeletes} \subseteq Nat
  /\ \A m \in Message : {NeedsKey(m), CarriesKey(m)} \subseteq Key \cup {NoKey}
  \* keys in a header are stored before anything of the message is decrypted
  /\ \A m \in Message : NoKey \in {NeedsKey(m), CarriesKey(m)}

VARIABLES
  keys,         \* stored hash ratchet keys
  waiting,      \* table hash_ratchet_encrypted_messages
  cache,        \* table transport_message_cache
  saved,        \* table user_messages
  filterQueue,  \* envelopes in waku's filters
  batch,        \* per goroutine: retrieved envelopes still to handle
  lock,         \* the goroutine that holds handleMessagesMutex
  existing,     \* messageState.ExistingMessagesMap
  pending,      \* messageState.Response: messages to save
  processed,    \* processedMessages, {} once they are confirmed
  failures, crashes, deletes

tables == <<segmentVars, keys, waiting, cache, saved>>
work == <<batch, lock, existing, pending, processed>>
faults == <<failures, crashes, deletes>>
receiveVars == <<tables, filterQueue, work, faults>>

Worker == {"loop", "archive"}
Envelopes == {[msg |-> m, seg |-> s, copy |-> c] :
                m \in Message, s \in UNION {Segment(x) : x \in Message}, c \in 1 .. Copies}
Envelope == {e \in Envelopes : e.seg \in Segment(e.msg)}

IsChat(m) == CarriesKey(m) = NoKey
HasKey(m) == NeedsKey(m) \in keys \cup {NoKey}

ReceiveInit ==
  /\ SegmentsInit
  /\ keys = {} /\ waiting = {} /\ cache = {} /\ saved = {}
  /\ filterQueue = {}
  /\ batch = [w \in Worker |-> {}]
  /\ lock = "free" /\ existing = {} /\ pending = {} /\ processed = {}
  /\ failures = 0 /\ crashes = 0 /\ deletes = 0

(* The network delivers an envelope, possibly not for the first time. *)
Receive(e) ==
  /\ filterQueue' = filterQueue \cup {e}
  /\ UNCHANGED <<tables, work, faults>>

(* Mistake: the loop over the messages ends at the first cache hit. *)
RetrieveRawAllStopsAtHit ==
  /\ batch["loop"] = {} /\ lock # "loop"
  /\ batch' = [batch EXCEPT !["loop"] = IF filterQueue \cap cache = {} THEN filterQueue ELSE {}]
  /\ filterQueue' = {}
  /\ UNCHANGED <<tables, lock, existing, pending, processed, faults>>

RetrieveRawAll ==
  /\ batch["loop"] = {} /\ lock # "loop"
  /\ batch' = [batch EXCEPT !["loop"] = filterQueue \ cache]
  /\ filterQueue' = {}
  /\ UNCHANGED <<tables, lock, existing, pending, processed, faults>>

(* A downloaded archive brings an envelope past the cache. *)
ImportArchive(e) ==
  /\ batch["archive"] = {} /\ lock # "archive"
  /\ batch' = [batch EXCEPT !["archive"] = {e}]
  /\ UNCHANGED <<tables, filterQueue, lock, existing, pending, processed, faults>>

(* handleRetrievedMessages takes the lock and builds its messageState. *)
BuildMessageState(w) ==
  /\ lock = "free" /\ batch[w] # {}
  /\ lock' = w
  /\ UNCHANGED <<tables, filterQueue, batch, existing, pending, processed, faults>>
-----------------------------------------------------------------------------
(* Mistake: the empty key of a message without one is stored. *)
DispatchFreshStoresEmptyKey(e, messages, fresh, failing) ==
  /\ failing = {} /\ existing' = existing \cup messages
  /\ pending' = pending \cup {m \in fresh : IsChat(m)}
  /\ processed' = processed \cup {e}
  /\ keys' = keys \cup {CarriesKey(e.msg)}
  /\ UNCHANGED failures

(* The segmentation layer: whether the envelope yields a whole message. *)
Yields(e) == ~Segmented(e.msg) \/ Outcome(e.msg, e.seg) = "ok"

HandleSegmentationLayer(e) ==
  IF Segmented(e.msg) THEN Reconstruct(e.msg, e.seg)
  ELSE /\ arrived' = [arrived EXCEPT ![e.msg] = @ \cup {e.seg}]
       /\ UNCHANGED <<segments, completed, delivered>>

(* Mistake: the queue is looked up before the new key is stored. *)
ReleasedByKnownKey(m) ==
  {q \in waiting : /\ CarriesKey(m) \in keys /\ NeedsKey(q.msg) = CarriesKey(m)
                   /\ ~Segmented(q.msg)}

(* The waiting envelopes that a key message releases.  Replaying the last  *)
(* segment of a message runs into ErrAlreadyCompleted and leaves it there. *)
Released(m) ==
  {q \in waiting : /\ CarriesKey(m) # NoKey /\ NeedsKey(q.msg) = CarriesKey(m)
                   /\ ~Segmented(q.msg)}

(* What the loop over statusMessages does.  fresh: the messages that are   *)
(* no duplicates, failing: those of them whose handler errs.               *)
DispatchFresh(e, messages, fresh, failing) ==
  LET done == fresh \ failing IN
  /\ failing \subseteq fresh
  /\ Cardinality(failing) + failures <= MaxFailures
  /\ failures' = failures + Cardinality(failing)
  /\ existing' = existing \cup messages
  /\ pending' = pending \cup {m \in done : IsChat(m)}
  /\ processed' = IF failing = {} THEN processed \cup {e} ELSE processed
  /\ keys' = (keys \cup {CarriesKey(e.msg)}) \ {NoKey}

(* Mistake: messageExists does not ask the database. *)
DispatchUnchecked(e, messages, failing) ==
  DispatchFresh(e, messages, messages \ existing, failing)

Dispatch(e, messages, failing) ==
  DispatchFresh(e, messages, messages \ (existing \cup saved), failing)

(* Mistake: every envelope counts as processed. *)
HandleEnvelopeConfirmsAll(e, failing) ==
  /\ lock \in Worker /\ e \in batch[lock] /\ failing = {} /\ HasKey(e.msg)
  /\ batch' = [batch EXCEPT ![lock] = @ \ {e}]
  /\ HandleSegmentationLayer(e)
  /\ IF Yields(e) THEN Dispatch(e, {e.msg}, failing)
     ELSE /\ processed' = processed \cup {e}
          /\ UNCHANGED <<keys, existing, pending, failures>>
  /\ UNCHANGED <<waiting, cache, saved, filterQueue, lock, crashes, deletes>>

(* One turn of the loop over the retrieved envelopes. *)
HandleEnvelope(e, failing) ==
  /\ lock \in Worker /\ e \in batch[lock]
  /\ batch' = [batch EXCEPT ![lock] = @ \ {e}]
  /\ HandleSegmentationLayer(e)
  /\ \/ /\ ~Yields(e) /\ failing = {}
        /\ UNCHANGED <<keys, waiting, existing, pending, processed, failures>>
     \/ /\ Yields(e) /\ ~HasKey(e.msg) /\ failing = {}
        /\ waiting' = waiting \cup {e}
        /\ UNCHANGED <<keys, existing, pending, processed, failures>>
     \/ /\ Yields(e) /\ HasKey(e.msg)
        /\ waiting' = waiting \ Released(e.msg)
        /\ Dispatch(e, {e.msg} \cup {q.msg : q \in Released(e.msg)}, failing)
  /\ UNCHANGED <<cache, saved, filterQueue, lock, crashes, deletes>>

Succeeds == UNCHANGED crashes
Fails == crashes < MaxCrashes /\ crashes' = crashes + 1

(* A failing write is only logged. *)
ConfirmMessagesProcessed ==
  /\ lock \in Worker /\ batch[lock] = {} /\ processed # {}
  /\ \/ Succeeds /\ cache' = cache \cup processed
     \/ Fails /\ UNCHANGED cache
  /\ processed' = {}
  /\ UNCHANGED <<segmentVars, keys, waiting, saved, filterQueue, batch, lock,
                 existing, pending, failures, deletes>>

(* saveDataAndPrepareResponse, and the deferred Unlock. *)
SaveDataAndPrepareResponse ==
  /\ lock \in Worker /\ batch[lock] = {} /\ processed = {}
  /\ \/ Succeeds /\ saved' = saved \cup pending
     \/ Fails /\ UNCHANGED saved
  /\ existing' = {} /\ pending' = {}
  /\ lock' = "free"
  /\ UNCHANGED <<segmentVars, keys, waiting, cache, filterQueue, batch, processed,
                 failures, deletes>>
-----------------------------------------------------------------------------
(* CleanMessagesProcessed, and ClearProcessedMessageIDsCache in several steps. *)
CleanMessagesProcessed(e) ==
  /\ cache' = cache \ {e}
  /\ UNCHANGED <<segmentVars, keys, waiting, saved, filterQueue, work, faults>>

(* CleanupHashRatchetEncryptedMessages forgets what waited for a month. *)
CleanupHashRatchetEncryptedMessages(q) ==
  /\ waiting' = waiting \ {q}
  /\ arrived' = [arrived EXCEPT ![q.msg] = {}]
  /\ UNCHANGED <<segments, completed, delivered, keys, cache, saved, filterQueue, work, faults>>

CleanupSegments(m, old) ==
  /\ CleanupStaleSegments(m, old)
  /\ UNCHANGED <<keys, waiting, cache, saved, filterQueue, work, faults>>

(* deleteChat, outside handleMessagesMutex: the messages of the chat are   *)
(* deleted and the cache is cleared, so that they can be received again.   *)
(* The history of arrivals starts anew.                                    *)
DeleteChat ==
  /\ deletes < MaxDeletes
  /\ deletes' = deletes + 1
  /\ saved' = {} /\ cache' = {}
  /\ arrived' = [m \in Message |-> {}]
  /\ UNCHANGED <<segments, completed, delivered, keys, waiting, filterQueue, work,
                 failures, crashes>>

(* The process dies and starts again with what the tables hold. *)
Crash ==
  /\ crashes < MaxCrashes
  /\ crashes' = crashes + 1
  /\ filterQueue' = {} /\ batch' = [w \in Worker |-> {}] /\ lock' = "free"
  /\ existing' = {} /\ pending' = {} /\ processed' = {}
  /\ UNCHANGED <<tables, failures, deletes>>

ReceiveNext ==
  \/ \E e \in Envelope : Receive(e) \/ ImportArchive(e)
  \/ RetrieveRawAll
  \/ \E w \in Worker : BuildMessageState(w)
  \/ \E e \in Envelope, failing \in SUBSET Message : HandleEnvelope(e, failing)
  \/ ConfirmMessagesProcessed
  \/ SaveDataAndPrepareResponse
  \/ \E e \in cache : CleanMessagesProcessed(e)
  \/ \E q \in waiting : CleanupHashRatchetEncryptedMessages(q)
  \/ \E m \in {x \in Message : Segmented(x)} :
       \E old \in SUBSET segments[m] : CleanupSegments(m, old)
  \/ DeleteChat
  \/ Crash

ReceiveSpec == ReceiveInit /\ [][ReceiveNext]_receiveVars

(* The ticker of the retrieve loop, goroutines that run on, and Go's mutex *)
(* that no waiter is starved of.                                           *)
ReceiveFairness ==
  /\ WF_receiveVars(RetrieveRawAll)
  /\ \A w \in Worker : SF_receiveVars(BuildMessageState(w))
  /\ WF_receiveVars(\E e \in Envelope : HandleEnvelope(e, {}))
  /\ WF_receiveVars(ConfirmMessagesProcessed)
  /\ WF_receiveVars(SaveDataAndPrepareResponse)
FairReceiveSpec == ReceiveSpec /\ ReceiveFairness
-----------------------------------------------------------------------------
ReceiveTypeOK ==
  /\ keys \subseteq Key
  /\ waiting \subseteq Envelope /\ cache \subseteq Envelope /\ filterQueue \subseteq Envelope
  /\ saved \subseteq Message /\ existing \subseteq Message /\ pending \subseteq Message
  /\ batch \in [Worker -> SUBSET Envelope] /\ processed \subseteq Envelope
  /\ lock \in Worker \cup {"free"}

(* "Don't process duplicates": whatever copies arrive on whatever way, a   *)
(* message that was saved is never handled and saved again.                *)
SavedOnce == pending \cap saved = {}

(* ConfirmMessagesProcessed marks envelopes "so they won't be passed to    *)
(* the next layer anymore": what a confirmed envelope brought is saved or  *)
(* about to be, or waits for its key.                                      *)
Kept(m) == m \in saved \cup pending \cup {q.msg : q \in waiting}
ConfirmedIsKept == \A e \in cache : IsChat(e.msg) => Kept(e.msg)

Faultless == failures = 0 /\ crashes = 0 /\ deletes = 0

(* What the layers can bring back: not a ragged message with parity, and   *)
(* not a message of several segments that came before its key.             *)
Recoverable(m) ==
  Segmented(m) => NeedsKey(m) = NoKey /\ (Aligned(m) \/ ParityCount(m) = 0)

(* A message of which every envelope went through HandleMessages is kept,  *)
(* as long as no handler fails, nothing crashes and no chat is deleted.    *)
NothingIsLost ==
  Faultless => \A m \in Message :
    IsChat(m) /\ Recoverable(m) /\ arrived[m] = Segment(m) => Kept(m)

(* "Hash ratchet with a group id not found yet, save the message for       *)
(* future processing": no message of one envelope waits for a key that is  *)
(* there, in whichever order the two came.                                 *)
WaitsForKeyOnly ==
  \A q \in waiting : Segmented(q.msg) \/ NeedsKey(q.msg) \notin keys

(* An envelope in a filter is handled however often archives are imported  *)
(* meanwhile: a message it completes by itself is saved, or waits, unless  *)
(* a fault comes in between.                                               *)
ReceivedIsKept ==
  \A e \in Envelope : IsChat(e.msg) /\ ~Segmented(e.msg) =>
    (e \in filterQueue) ~> (e.msg \in saved \/ e \in waiting \/ ~Faultless)

(* Once its key is on the way in an envelope, a message that waits for it  *)
(* does not wait for ever, again unless there is a fault.                  *)
WaitingEnds ==
  \A q, k \in Envelope : CarriesKey(k.msg) = NeedsKey(q.msg) /\ NeedsKey(q.msg) # NoKey
                           /\ ~Segmented(q.msg) =>
    (q \in waiting /\ k \in filterQueue) ~> (q \notin waiting \/ ~Faultless)
=============================================================================
