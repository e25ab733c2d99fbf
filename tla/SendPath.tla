------------------------------ MODULE SendPath ------------------------------
(***************************************************************************)
(* The way of an outgoing message through MessageSender, waku's publishing *)
(* goroutines and the EnvelopesMonitor.  A dispatch posts the segments of  *)
(* one payload one by one and only then tracks them; every posted envelope *)
(* is published by a goroutine of its own and answered by at most one      *)
(* event, which may reach the monitor before the dispatch tracks it.       *)
(***************************************************************************)
EXTENDS EnvelopesMonitor

CONSTANTS Dispatch,           \* calls of the MessageSender that end in Track
          MessageIDsOf(_),    \* the messages a dispatch carries
          SegmentsOf(_),      \* into how many envelopes its payload is split
          StoreConfirmation   \* cfg.EnableStoreConfirmationForMessagesSent

ASSUME DispatchAssumption ==
  /\ StoreConfirmation \in BOOLEAN
  /\ \A d \in Dispatch : /\ MessageIDsOf(d) \in (SUBSET MessageID) \ {{}}
                         /\ SegmentsOf(d) \in Nat \ {0}

VARIABLES
  stage,    \* per dispatch: "posting", "tracked" or "error"
  hashes,   \* per dispatch: the hashes Post has returned to it
  wire,     \* per hash: where waku is with the envelope
  acked     \* message ids confirmed by a datasync acknowledgement

sender == <<stage, hashes>>
sendVars == <<vars, sender, wire, acked>>

Wire == {"none", "queued", "checking", "sent", "expired", "done"}

FreshHash == CHOOSE h \in Hash : h \notin posted
CanPost == Hash \ posted # {}

SendInit ==
  /\ Init
  /\ stage = [d \in Dispatch |-> "posting"]
  /\ hashes = [d \in Dispatch |-> {}]
  /\ wire = [h \in Hash |-> "none"]
  /\ acked = {}

(* One turn of the loop over newMessages: Waku.Send queues the envelope. *)
PostSegment(d) ==
  /\ stage[d] = "posting" /\ Cardinality(hashes[d]) < SegmentsOf(d)
  /\ CanPost
  /\ Post(FreshHash)
  /\ hashes' = [hashes EXCEPT ![d] = @ \cup {FreshHash}]
  /\ wire' = [wire EXCEPT ![FreshHash] = "queued"]
  /\ UNCHANGED <<stage, acked>>

(* Waku.Send fails: the dispatch returns, its earlier segments stay posted. *)
PostSegmentFails(d) ==
  /\ stage[d] = "posting" /\ Cardinality(hashes[d]) < SegmentsOf(d)
  /\ stage' = [stage EXCEPT ![d] = "error"]
  /\ UNCHANGED <<vars, hashes, wire, acked>>

Track(d) ==
  /\ stage[d] = "posting" /\ Cardinality(hashes[d]) = SegmentsOf(d)
  /\ stage' = [stage EXCEPT ![d] = "tracked"]
  /\ Add(MessageIDsOf(d), hashes[d])
  /\ UNCHANGED <<hashes, wire, acked>>

(* publishEnvelope, in a goroutine of its own. *)
PublishEnvelope(h) ==
  /\ wire[h] = "queued"
  /\ \/ wire' = [wire EXCEPT ![h] = IF StoreConfirmation THEN "checking" ELSE "sent"]
     \/ wire' = [wire EXCEPT ![h] = "expired"]
  /\ UNCHANGED <<vars, sender, acked>>

(* The store node answers the check, or the check gives up. *)
CheckStored(h) ==
  /\ wire[h] = "checking"
  /\ \/ wire' = [wire EXCEPT ![h] = "sent"]
     \/ wire' = [wire EXCEPT ![h] = "expired"]
  /\ UNCHANGED <<vars, sender, acked>>

HandleEvent(h) ==
  /\ wire[h] \in {"sent", "expired"}
  /\ wire' = [wire EXCEPT ![h] = "done"]
  /\ \/ wire[h] = "sent" /\ HandleEventEnvelopeSent(h)
     \/ wire[h] = "expired" /\ HandleEventEnvelopeExpired(h)
  /\ UNCHANGED <<sender, acked>>

RetryOnce ==
  \E o \in retryQueue :
    \/ RetryOncePostFails(o) /\ UNCHANGED <<sender, wire, acked>>
    \/ /\ CanPost
       /\ RetryOncePosts(o, FreshHash)
       /\ wire' = [wire EXCEPT ![FreshHash] = "queued"]
       /\ UNCHANGED <<sender, acked>>

(* Mistake: the acknowledged message is dropped from the monitor. *)
ConfirmMessageDeliveredForgets(id) ==
  /\ id \notin acked
  /\ messageEnvelopeHashes[id] # {}
  /\ \A h \in messageEnvelopeHashes[id] : wire[h] \in {"checking", "sent", "done"}
  /\ acked' = acked \cup {id}
  /\ messageEnvelopeHashes' = [messageEnvelopeHashes EXCEPT ![id] = {}]
  /\ UNCHANGED <<object, envelopes, retryQueue, batches, network, history, sender, wire>>

(* A datasync acknowledgement for a message whose envelopes went out:      *)
(* the store check of its recorded envelopes is called off.                *)
ConfirmMessageDelivered(id) ==
  /\ id \notin acked
  /\ messageEnvelopeHashes[id] # {}
  /\ \A h \in messageEnvelopeHashes[id] : wire[h] \in {"checking", "sent", "done"}
  /\ acked' = acked \cup {id}
  /\ wire' = [h \in Hash |->
        IF h \in messageEnvelopeHashes[id] /\ wire[h] = "checking" THEN "done"
        ELSE wire[h]]
  /\ UNCHANGED <<vars, sender>>

SendNext ==
  \/ \E d \in Dispatch : PostSegment(d) \/ PostSegmentFails(d) \/ Track(d)
  \/ \E h \in Hash : PublishEnvelope(h) \/ CheckStored(h) \/ HandleEvent(h)
  \/ RetryOnce
  \/ \E id \in MessageID : ConfirmMessageDelivered(id)

SendSpec == SendInit /\ [][SendNext]_sendVars

(* Goroutines run, the sent check has a deadline, the retry loop ticks and *)
(* every backoff ends; nothing forces a publication to succeed.            *)
Fairness ==
  /\ \A d \in Dispatch : WF_sendVars(PostSegment(d)) /\ WF_sendVars(Track(d))
  /\ \A h \in Hash : /\ WF_sendVars(PublishEnvelope(h))
                     /\ WF_sendVars(CheckStored(h))
                     /\ WF_sendVars(HandleEvent(h))
  /\ WF_sendVars(RetryOnce)

FairSendSpec == SendSpec /\ Fairness
-----------------------------------------------------------------------------
SendTypeOK ==
  /\ TypeOK
  /\ stage \in [Dispatch -> {"posting", "tracked", "error"}]
  /\ hashes \in [Dispatch -> SUBSET Hash]
  /\ wire \in [Hash -> Wire]
  /\ acked \subseteq MessageID

(* Neither order of Track and the Sent events loses the report: once every *)
(* envelope recorded for a message is in EnvelopeSent state, the message   *)
(* has been reported.                                                      *)
SentIsReported ==
  \A id \in MessageID :
    /\ messageEnvelopeHashes[id] # {}
    /\ \A h \in messageEnvelopeHashes[id] : GetState(h) = "Sent"
    => id \in reportedSent

(* The retry loop never posts again an envelope the network has confirmed. *)
RetriedEnvelopesAreUnconfirmed ==
  \A o \in retryQueue :
    object[o].hash \notin confirmed /\ object[o].state = "Posted"

DispatchedOnce(id) == \E d \in Dispatch : {e \in Dispatch : id \in MessageIDsOf(e)} = {d}

(* A message dispatched once is never reported both sent and expired: "If  *)
(* any envelope fails, then messageIDs are considered as not sent".        *)
ReportsAgree ==
  \A id \in reportedSent \cap reportedExpired : ~DispatchedOnce(id)

(* What reaches the monitor from waku is among what the monitor is proved  *)
(* correct for.                                                            *)
MonitorSpec == Spec

(* A tracked message is reported, unless an envelope of it failed or an    *)
(* acknowledgement called off the check of one.                            *)
TrackedIsReported ==
  \A id \in MessageID :
    (\E a \in adds : id \in a[1]) ~>
      \/ id \in reportedSent \cup reportedExpired
      \/ \E a \in adds : id \in a[1] /\ \E h \in a[2] : wire[h] = "done" /\ h \notin confirmed

(* A queued envelope is eventually sent or its messages reported expired.  *)
RetriesEnd ==
  \A o \in Hash :
    o \in retryQueue ~>
      \/ object[o].state = "Sent"
      \/ object[o].messageIDs \subseteq reportedExpired
-----------------------------------------------------------------------------
(* What a comment promises and the code does not keep. *)

(* "Consider message as sent if all corresponding envelopes are in         *)
(* EnvelopeSent state": also when one of them got there by a retry.        *)
SentAfterRetryIsReported ==
  \A a \in adds :
    (\A h \in a[2] : envelopes[h] = Bare \/ object[h].state = "Sent")
      => {id \in a[1] : DispatchedOnce(id)} \subseteq reportedSent
=============================================================================
