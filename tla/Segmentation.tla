---------------------------- MODULE Segmentation ----------------------------
(***************************************************************************)
(* messaging/layers/segmentation: a payload larger than segmentSize is cut *)
(* into data segments, with Reed-Solomon parity segments for one eighth of *)
(* them; the receiver stores the segments of a message in any order and    *)
(* reassembles it when it holds as many segments as there are data ones.   *)
(*                                                                         *)
(* A segment is its number: data segments first, then the parity ones.     *)
(* Payload bytes are abstracted to what Reconstruct's hash comparison can  *)
(* tell apart: whether the reassembled payload has the original length.    *)
(***************************************************************************)
EXTENDS Naturals, FiniteSets

CONSTANTS Message,
          PayloadSize(_),   \* len(payload)
          SegmentSize

ASSUME SizeAssumption ==
  /\ SegmentSize \in Nat \ {0}
  /\ \A m \in Message : PayloadSize(m) \in Nat \ {0}

VARIABLES
  segments,    \* table message_segments: the stored segments of each message
  completed,   \* table message_segments_completed
  delivered,   \* history: messages returned since their mark was last cleaned up
  arrived      \* history: segments handed to Reconstruct, but not those cleaned up

segmentVars == <<segments, completed, delivered, arrived>>

segmentsParityRate == 8
segmentsReedsolomonMaxCount == 256

(* Smaller payloads travel as they are: Reconstruct answers                *)
(* ErrInvalidPayload and they skip the layer.                              *)
Segmented(m) == PayloadSize(m) > SegmentSize

DataCount(m) == (PayloadSize(m) + SegmentSize - 1) \div SegmentSize
ParityCount(m) ==
  LET parity == DataCount(m) \div segmentsParityRate IN
  IF DataCount(m) + parity > segmentsReedsolomonMaxCount THEN 0 ELSE parity

Data(m) == 1 .. DataCount(m)
Parity(m) == DataCount(m) + 1 .. DataCount(m) + ParityCount(m)
Segment(m) == Data(m) \cup Parity(m)

(* The last data segment has the full size, so padding it is no change. *)
Aligned(m) == PayloadSize(m) % SegmentSize = 0

(* Mistake: all data segments are asked for, parity is of no use. *)
IsCompleteDataOnly(m, stored) == Data(m) \subseteq stored

(* Mistake: one segment more is waited for. *)
IsCompleteOffByOne(m, stored) ==
  stored \cap Data(m) # {} /\ Cardinality(stored) > DataCount(m)

(* The test of len(segments) against SegmentsCount, which the first stored *)
(* segment must be a data segment to tell.                                 *)
IsComplete(m, stored) ==
  stored \cap Data(m) # {} /\ Cardinality(stored) = DataCount(m)

(* The reassembled payload hashes to EntireMessageHash: a last data        *)
(* segment restored from parity is as long as the others.                  *)
HashMatches(m, stored) == Aligned(m) \/ DataCount(m) \in stored

(* What Reconstruct answers when segment s of message m comes in. *)
Outcome(m, s) ==
  LET stored == segments[m] \cup {s} IN
  IF m \in completed THEN "ErrAlreadyCompleted"
  ELSE IF ~IsComplete(m, stored) THEN "ErrIncomplete"
  ELSE IF ~HashMatches(m, stored) THEN "ErrHashMismatch"
  ELSE "ok"
-----------------------------------------------------------------------------
SegmentsInit ==
  /\ segments = [m \in Message |-> {}]
  /\ completed = {}
  /\ delivered = {}
  /\ arrived = [m \in Message |-> {}]

(* Mistake: the segments of a completed message are not deleted. *)
ReconstructKeeps(m, s) ==
  /\ arrived' = [arrived EXCEPT ![m] = @ \cup {s}]
  /\ segments' = [segments EXCEPT ![m] = IF m \in completed THEN @ ELSE @ \cup {s}]
  /\ completed' = IF Outcome(m, s) = "ok" THEN completed \cup {m} ELSE completed
  /\ delivered' = IF Outcome(m, s) = "ok" THEN delivered \cup {m} ELSE delivered

(* Mistake: segments are stored by their zero-based index. *)
ReconstructZeroBased(m, s) ==
  /\ arrived' = [arrived EXCEPT ![m] = @ \cup {s}]
  /\ segments' = [segments EXCEPT ![m] = @ \cup {s - 1}]
  /\ UNCHANGED <<completed, delivered>>

Reconstruct(m, s) ==
  /\ arrived' = [arrived EXCEPT ![m] = @ \cup {s}]
  /\ \/ /\ Outcome(m, s) = "ErrAlreadyCompleted"
        /\ UNCHANGED <<segments, completed, delivered>>
     \/ /\ Outcome(m, s) \in {"ErrIncomplete", "ErrHashMismatch"}
        /\ segments' = [segments EXCEPT ![m] = @ \cup {s}]
        /\ UNCHANGED <<completed, delivered>>
     \/ /\ Outcome(m, s) = "ok"
        /\ segments' = [segments EXCEPT ![m] = {}]
        /\ completed' = completed \cup {m}
        /\ delivered' = delivered \cup {m}

(* CleanupStaleSegments removes what is older than a month: some segments  *)
(* of an unfinished message, or the mark of a finished one.                *)
CleanupStaleSegments(m, old) ==
  /\ \/ /\ old # {} /\ old \subseteq segments[m]
        /\ segments' = [segments EXCEPT ![m] = @ \ old]
        /\ arrived' = [arrived EXCEPT ![m] = @ \ old]
        /\ UNCHANGED <<completed, delivered>>
     \/ /\ old = {} /\ m \in completed
        /\ completed' = completed \ {m}
        /\ delivered' = delivered \ {m}
        /\ arrived' = [arrived EXCEPT ![m] = {}]
        /\ UNCHANGED segments

SegmentsNext ==
  \E m \in {x \in Message : Segmented(x)} :
    \/ \E s \in Segment(m) : Reconstruct(m, s)
    \/ \E old \in SUBSET segments[m] : CleanupStaleSegments(m, old)

SegmentsSpec == SegmentsInit /\ [][SegmentsNext]_segmentVars
-----------------------------------------------------------------------------
SegmentsTypeOK ==
  /\ segments \in [Message -> SUBSET Nat]
  /\ completed \in SUBSET Message
  /\ delivered \in SUBSET Message
  /\ arrived \in [Message -> SUBSET Nat]
  /\ \A m \in Message : segments[m] \subseteq Segment(m)

(* "succeed even though one segment is missing": a message whose payload   *)
(* fills its segments is reassembled by the time as many segments of       *)
(* either kind are there as it has data segments, so it can never collect  *)
(* more than Reconstruct's equality test on the count lets through.        *)
NeverOverfull ==
  \A m \in Message : Aligned(m) \/ ParityCount(m) = 0 =>
    Cardinality(segments[m]) < DataCount(m)

(* A message without parity segments, or of full segments, is out by the   *)
(* time the last of its segments is in, whatever the order and however     *)
(* many times a segment comes.                                             *)
AllArrivedIsDelivered(m) == arrived[m] = Segment(m) => m \in delivered
CompleteIsDelivered ==
  \A m \in Message : Aligned(m) \/ ParityCount(m) = 0 => AllArrivedIsDelivered(m)

(* The two tables never both know a message: a segment that comes after    *)
(* the message was completed is not stored again.                          *)
TablesAreDisjoint == \A m \in completed : segments[m] = {} /\ m \in delivered

(* "handleSegmentationLayer is capable of reconstructing the message from  *)
(* both complete and partial sets of data segments": at the very least a   *)
(* message all of whose segments came in is delivered.                     *)
EveryMessageIsDelivered == \A m \in Message : AllArrivedIsDelivered(m)
=============================================================================
