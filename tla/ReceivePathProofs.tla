-------------------------- MODULE ReceivePathProofs --------------------------
(***************************************************************************)
(* Segmentation: a message that fills its segments is never stuck and is   *)
(* delivered once all its data segments came, whatever its size and their  *)
(* order; what is delivered leaves no segments behind.                     *)
(*                                                                         *)
(* Receive path: nothing is handled twice, nothing is confirmed that is    *)
(* not kept and nothing is lost between the layers, for any messages,      *)
(* segment sizes, keys and numbers of copies and faults.                   *)
(***************************************************************************)
EXTENDS ReceivePath, FiniteSetTheorems, TLAPS

(* The contexts are large: more time than by default, and the SMT backend  *)
(* once more when its translation was cut off.                             *)
USE SMTT(30), ZenonT(30), Z3T(30), SMTT(40), Z3T(40)

(* A payload has data segments, and fewer parity segments than those. *)
LEMMA Counts ==
  ASSUME NEW m \in Message
  PROVE  /\ DataCount(m) \in Nat /\ DataCount(m) > 0
         /\ ParityCount(m) \in Nat /\ ParityCount(m) < DataCount(m)
<1> DEFINE size == PayloadSize(m)
<1>1. size \in Nat /\ SegmentSize \in Nat /\ SegmentSize > 0 /\ size > 0
  BY SizeAssumption
<1>2. DataCount(m) \in Nat /\ DataCount(m) > 0
  BY <1>1 DEF DataCount
<1> HIDE DEF size
<1>3. DataCount(m) \div 8 \in Nat /\ DataCount(m) \div 8 < DataCount(m)
  BY <1>2
<1> QED BY <1>2, <1>3 DEF ParityCount, segmentsParityRate

(* The data and the parity segments of a message are finite sets of the    *)
(* size their names promise.                                               *)
LEMMA SegmentSets ==
  ASSUME NEW m \in Message
  PROVE  /\ IsFiniteSet(Data(m)) /\ Cardinality(Data(m)) = DataCount(m)
         /\ IsFiniteSet(Parity(m)) /\ Cardinality(Parity(m)) = ParityCount(m)
         /\ IsFiniteSet(Segment(m)) /\ Segment(m) \in SUBSET Nat
<1>1. /\ DataCount(m) \in Nat /\ DataCount(m) > 0
      /\ ParityCount(m) \in Nat /\ ParityCount(m) < DataCount(m)
  BY Counts
<1>2. IsFiniteSet(Data(m)) /\ Cardinality(Data(m)) = DataCount(m)
  BY <1>1, FS_Interval DEF Data
<1>3. IsFiniteSet(Parity(m)) /\ Cardinality(Parity(m)) = ParityCount(m)
  <2>1. DataCount(m) + 1 \in Int /\ DataCount(m) + ParityCount(m) \in Int
    BY <1>1
  <2>2. /\ IsFiniteSet(Parity(m))
        /\ Cardinality(Parity(m)) =
             IF DataCount(m) + 1 > DataCount(m) + ParityCount(m) THEN 0
             ELSE (DataCount(m) + ParityCount(m)) - (DataCount(m) + 1) + 1
    BY <2>1, FS_Interval DEF Parity
  <2> QED BY <1>1, <2>2
<1>4. IsFiniteSet(Segment(m))
  BY <1>2, <1>3, FS_Union, Zenon DEF Segment
<1>5. Segment(m) \in SUBSET Nat
  BY <1>1 DEF Segment, Data, Parity
<1> QED BY <1>2, <1>3, <1>4, <1>5

(* Where Reconstruct leaves a message unfinished it still lacks segments.  *)
LEMMA UnfinishedLacksSegments ==
  ASSUME NEW m \in Message, NEW stored \in SUBSET Segment(m),
         Cardinality(stored) <= DataCount(m),
         Aligned(m) \/ ParityCount(m) = 0,
         ~IsComplete(m, stored) \/ ~HashMatches(m, stored)
  PROVE  Cardinality(stored) < DataCount(m)
<1>1. /\ DataCount(m) \in Nat /\ DataCount(m) > 0
      /\ ParityCount(m) \in Nat /\ ParityCount(m) < DataCount(m)
  BY Counts
<1>2. IsFiniteSet(stored) /\ Cardinality(stored) \in Nat
  BY SegmentSets, FS_Subset, FS_CardinalityType
<1>3. CASE stored \cap Data(m) = {}
  <2>1. stored \subseteq Parity(m)
    BY <1>3 DEF Segment
  <2>2. Cardinality(stored) <= ParityCount(m)
    BY <2>1, SegmentSets, FS_Subset
  <2> QED BY <1>1, <1>2, <2>2
<1>4. CASE stored \cap Data(m) # {} /\ Cardinality(stored) # DataCount(m)
  BY <1>1, <1>2, <1>4
<1>5. CASE IsComplete(m, stored) /\ ~HashMatches(m, stored)
  <2>1. ParityCount(m) = 0 /\ DataCount(m) \notin stored
    BY <1>5 DEF HashMatches
  <2>2. Parity(m) = {}
    BY <1>1, <2>1, SegmentSets, FS_EmptySet
  <2>3. stored \subseteq Data(m) \ {DataCount(m)}
    BY <2>1, <2>2 DEF Segment
  <2>4. /\ IsFiniteSet(Data(m) \ {DataCount(m)})
        /\ Cardinality(Data(m) \ {DataCount(m)}) = DataCount(m) - 1
    <3>1. DataCount(m) \in Data(m)
      BY <1>1 DEF Data
    <3>2. IsFiniteSet(Data(m)) /\ Cardinality(Data(m)) = DataCount(m)
      BY SegmentSets
    <3> QED BY <3>1, <3>2, FS_RemoveElement
  <2>5. Cardinality(stored) <= DataCount(m) - 1
    BY <2>3, <2>4, FS_Subset
  <2> QED BY <1>1, <1>2, <2>5
<1> QED BY <1>3, <1>4, <1>5 DEF IsComplete

(* What came in and was not cleaned up is stored, until it is complete. *)
ArrivedAreStored ==
  \A m \in Message : Segmented(m) /\ m \notin completed => arrived[m] \subseteq segments[m]

SegmentsInvariant ==
  SegmentsTypeOK /\ NeverOverfull /\ TablesAreDisjoint /\ ArrivedAreStored

(* Empty tables satisfy the invariant. *)
LEMMA SegmentsInitially == SegmentsInit => SegmentsInvariant
<1> SUFFICES ASSUME SegmentsInit PROVE SegmentsInvariant
  OBVIOUS
<1>1. NeverOverfull
  BY Counts, FS_EmptySet DEF SegmentsInit, NeverOverfull
<1> QED BY <1>1 DEF SegmentsInit, SegmentsInvariant, SegmentsTypeOK, TablesAreDisjoint, ArrivedAreStored

(* Reconstruct and the clean-up preserve the invariant. *)
LEMMA SegmentsStep == SegmentsInvariant /\ [SegmentsNext]_segmentVars => SegmentsInvariant'
<1> SUFFICES ASSUME SegmentsInvariant, [SegmentsNext]_segmentVars PROVE SegmentsInvariant'
  OBVIOUS
<1> USE DEF SegmentsInvariant
<1>1. ASSUME NEW m \in Message, NEW s \in Segment(m), Reconstruct(m, s)
      PROVE  SegmentsInvariant'
  <2> DEFINE stored == segments[m] \cup {s}
  <2>1. stored \in SUBSET Segment(m) /\ s \in Nat /\ stored \in SUBSET Nat
    BY SegmentSets DEF SegmentsTypeOK
  <2>0. arrived' = [arrived EXCEPT ![m] = @ \cup {s}]
    BY <1>1 DEF Reconstruct
  <2>2. CASE Outcome(m, s) = "ErrAlreadyCompleted"
    <3>1. UNCHANGED <<segments, completed, delivered>> /\ m \in completed
      BY <1>1, <2>2 DEF Reconstruct, Outcome
    <3>2. SegmentsTypeOK' /\ ArrivedAreStored'
      BY <2>0, <2>1, <3>1 DEF SegmentsTypeOK, ArrivedAreStored
    <3> QED BY <3>1, <3>2 DEF NeverOverfull, TablesAreDisjoint
  <2>3. CASE Outcome(m, s) \in {"ErrIncomplete", "ErrHashMismatch"}
    <3>1. segments' = [segments EXCEPT ![m] = stored] /\ UNCHANGED <<completed, delivered>>
      BY <1>1, <2>3 DEF Reconstruct
    <3>2. m \notin completed /\ (~IsComplete(m, stored) \/ ~HashMatches(m, stored))
      BY <2>3 DEF Outcome
    <3>3. Aligned(m) \/ ParityCount(m) = 0 => Cardinality(stored) < DataCount(m)
      <4> SUFFICES ASSUME Aligned(m) \/ ParityCount(m) = 0
                   PROVE  Cardinality(stored) < DataCount(m)
        OBVIOUS
      <4>1. IsFiniteSet(segments[m]) /\ Cardinality(segments[m]) < DataCount(m)
        BY SegmentSets, FS_Subset DEF SegmentsTypeOK, NeverOverfull
      <4>2. Cardinality(segments[m]) \in Nat /\ DataCount(m) \in Nat
        BY <4>1, FS_CardinalityType, Counts
      <4>3. \/ Cardinality(stored) = Cardinality(segments[m])
            \/ Cardinality(stored) = Cardinality(segments[m]) + 1
        BY <4>1, FS_AddElement, Zenon
      <4>4. Cardinality(stored) <= DataCount(m)
        BY <4>1, <4>2, <4>3
      <4> QED BY <2>1, <3>2, <4>4, UnfinishedLacksSegments
    <3> HIDE DEF stored
    <3>4. SegmentsTypeOK'
      BY <2>0, <2>1, <3>1, Zenon DEF SegmentsTypeOK
    <3>5. NeverOverfull'
      BY <3>1, <3>3 DEF NeverOverfull, SegmentsTypeOK
    <3>6. TablesAreDisjoint'
      BY <3>1, <3>2 DEF TablesAreDisjoint, SegmentsTypeOK
    <3>7. ArrivedAreStored'
      BY <2>0, <3>1, <3>2 DEF ArrivedAreStored, SegmentsTypeOK, stored
    <3> QED BY <3>4, <3>5, <3>6, <3>7
  <2>4. CASE Outcome(m, s) = "ok"
    <3>1. /\ segments' = [segments EXCEPT ![m] = {}]
          /\ completed' = completed \cup {m}
          /\ delivered' = delivered \cup {m}
      BY <1>1, <2>4 DEF Reconstruct
    <3>2. Cardinality({}) < DataCount(m)
      BY Counts, FS_EmptySet
    <3>3. SegmentsTypeOK' /\ ArrivedAreStored'
      BY <2>0, <2>1, <3>1 DEF SegmentsTypeOK, ArrivedAreStored
    <3> QED BY <3>1, <3>2, <3>3 DEF SegmentsTypeOK, NeverOverfull, TablesAreDisjoint
  <2> QED BY <1>1, <2>2, <2>3, <2>4 DEF Reconstruct
<1>2. ASSUME NEW m \in Message, NEW old \in SUBSET segments[m], CleanupStaleSegments(m, old)
      PROVE  SegmentsInvariant'
  <2>1. CASE old # {}
    <3>1. segments' = [segments EXCEPT ![m] = @ \ old] /\ UNCHANGED <<completed, delivered>>
      BY <1>2, <2>1 DEF CleanupStaleSegments
    <3>2. IsFiniteSet(segments[m])
      BY SegmentSets, FS_Subset DEF SegmentsTypeOK
    <3>3. /\ Cardinality(segments[m] \ old) \in Nat /\ Cardinality(segments[m]) \in Nat
          /\ Cardinality(segments[m] \ old) <= Cardinality(segments[m])
      BY <3>2, FS_Subset, FS_CardinalityType
    <3>4. Aligned(m) \/ ParityCount(m) = 0 => Cardinality(segments[m] \ old) < DataCount(m)
      BY <3>3, Counts DEF NeverOverfull
    <3>5. arrived' = [arrived EXCEPT ![m] = @ \ old]
      BY <1>2, <2>1 DEF CleanupStaleSegments
    <3>6. SegmentsTypeOK' /\ ArrivedAreStored'
      BY <3>1, <3>5 DEF SegmentsTypeOK, ArrivedAreStored
    <3> QED BY <3>1, <3>4, <3>6 DEF SegmentsTypeOK, NeverOverfull, TablesAreDisjoint
  <2>2. CASE old = {}
    BY <1>2, <2>2 DEF CleanupStaleSegments, SegmentsTypeOK, NeverOverfull, TablesAreDisjoint,
                      ArrivedAreStored
  <2> QED BY <2>1, <2>2
<1>3. ASSUME UNCHANGED segmentVars PROVE SegmentsInvariant'
  BY <1>3 DEF segmentVars, SegmentsTypeOK, NeverOverfull, TablesAreDisjoint, ArrivedAreStored
<1> QED BY <1>1, <1>2, <1>3 DEF SegmentsNext

(* The invariant holds for every payload size and segment size. *)
THEOREM SegmentsCorrect == SegmentsSpec => []SegmentsInvariant
  BY SegmentsInitially, SegmentsStep, PTL DEF SegmentsSpec

(* A message of full segments, or of too few for parity, is never stuck    *)
(* with enough segments and no delivery.                                   *)
THEOREM NeverStuck == SegmentsSpec => []NeverOverfull
<1>1. SegmentsInvariant => NeverOverfull
  BY DEF SegmentsInvariant
<1> QED BY <1>1, SegmentsCorrect, PTL

(* A message all of whose segments have arrived has come out: more would   *)
(* be stored than an unfinished message can have.                          *)
LEMMA AllArrived ==
  ASSUME SegmentsInvariant, NEW m \in Message, Segmented(m),
         Aligned(m) \/ ParityCount(m) = 0
  PROVE  AllArrivedIsDelivered(m)
<1> SUFFICES ASSUME arrived[m] = Segment(m), m \notin delivered PROVE FALSE
  BY DEF AllArrivedIsDelivered
<1>1. segments[m] = Segment(m)
  BY DEF SegmentsInvariant, SegmentsTypeOK, TablesAreDisjoint, ArrivedAreStored
<1>2. Data(m) \subseteq Segment(m)
  BY DEF Segment
<1>3. DataCount(m) <= Cardinality(Segment(m))
  BY <1>2, SegmentSets, FS_Subset
<1>4. Cardinality(Segment(m)) \in Nat /\ DataCount(m) \in Nat
  BY SegmentSets, FS_CardinalityType, Counts
<1> QED BY <1>1, <1>3, <1>4 DEF SegmentsInvariant, NeverOverfull

(* Payloads of one segment never reach the layer. *)
NothingElseArrives == \A m \in Message : ~Segmented(m) => arrived[m] = {}

(* Whatever order the segments come in and however often, a message of     *)
(* full segments, or without parity, is out once all of them were handed   *)
(* to Reconstruct.                                                         *)
THEOREM CompleteIsDeliveredCorrect == SegmentsSpec => []CompleteIsDelivered
<1>1. SegmentsInit => NothingElseArrives
  BY DEF SegmentsInit, NothingElseArrives
<1>2. SegmentsInvariant /\ NothingElseArrives /\ [SegmentsNext]_segmentVars => NothingElseArrives'
  BY DEF SegmentsInvariant, SegmentsTypeOK, NothingElseArrives, SegmentsNext, Reconstruct,
         CleanupStaleSegments, segmentVars
<1>3. SegmentsInvariant /\ NothingElseArrives => CompleteIsDelivered
  <2> SUFFICES ASSUME SegmentsInvariant, NothingElseArrives, NEW m \in Message,
                      Aligned(m) \/ ParityCount(m) = 0
               PROVE  AllArrivedIsDelivered(m)
    BY DEF CompleteIsDelivered
  <2>1. CASE Segmented(m)
    BY <2>1, AllArrived
  <2>2. CASE ~Segmented(m)
    <3>1. 1 \in Segment(m)
      BY Counts DEF Segment, Data
    <3> QED BY <2>2, <3>1 DEF NothingElseArrives, AllArrivedIsDelivered
  <2> QED BY <2>1, <2>2
<1> QED BY <1>1, <1>2, <1>3, SegmentsCorrect, PTL DEF SegmentsSpec

(* A segment that comes late, after its message was completed, is never    *)
(* stored again.                                                           *)
THEOREM TablesCorrect == SegmentsSpec => []TablesAreDisjoint
<1>1. SegmentsInvariant => TablesAreDisjoint
  BY DEF SegmentsInvariant
<1> QED BY <1>1, SegmentsCorrect, PTL

(* The tables hold segments of the message they are stored for, with       *)
(* indexes Reconstruct can use, after any arrivals and clean-ups.          *)
THEOREM SegmentsTypesCorrect == SegmentsSpec => []SegmentsTypeOK
  BY SegmentsCorrect, PTL DEF SegmentsInvariant
-----------------------------------------------------------------------------
(* The receive path. *)

Held == saved \cup pending

(* What the loop has seen, confirmed or taken from the segmentation layer  *)
(* is held, and what came in one envelope is held or waits.                *)
SeenIsHeld ==
  /\ \A m \in existing : IsChat(m) => m \in Held
  /\ \A e \in cache \cup processed : IsChat(e.msg) => e.msg \in Held
  /\ \A m \in delivered : IsChat(m) /\ NeedsKey(m) = NoKey => m \in Held
  /\ \A m \in Message : IsChat(m) /\ ~Segmented(m) /\ arrived[m] # {} => Kept(m)

CountersOK == failures \in Nat /\ crashes \in Nat /\ deletes \in Nat

ReceiveInvariant ==
  /\ SegmentsInvariant /\ ReceiveTypeOK /\ CountersOK /\ IsFiniteSet(waiting)
  /\ SavedOnce /\ WaitsForKeyOnly
  /\ Faultless => SeenIsHeld
-----------------------------------------------------------------------------
(* An envelope carries a segment of its message. *)
LEMMA EnvelopeType ==
  ASSUME NEW e \in Envelope
  PROVE  e.msg \in Message /\ e.seg \in Segment(e.msg)
  BY DEF Envelope, Envelopes

(* The history of arrivals may grow for messages of one segment, and be    *)
(* forgotten for the others.                                               *)
LEMMA ArrivalsOnly ==
  ASSUME SegmentsInvariant, UNCHANGED <<segments, completed, delivered>>,
         arrived' \in [Message -> SUBSET Nat],
         \A m \in Message : Segmented(m) => arrived'[m] \subseteq arrived[m]
  PROVE  SegmentsInvariant'
  BY DEF SegmentsInvariant, SegmentsTypeOK, NeverOverfull, TablesAreDisjoint, ArrivedAreStored

(* The segmentation layer as a step of its tables. *)
LEMMA SegmentationLayer ==
  ASSUME SegmentsInvariant, NEW e \in Envelope, HandleSegmentationLayer(e)
  PROVE  /\ SegmentsInvariant'
         /\ \A m \in Message : m # e.msg => arrived'[m] = arrived[m]
         /\ \A m \in delivered' \ delivered : m = e.msg /\ Yields(e)
<1>1. e.msg \in Message /\ e.seg \in Segment(e.msg) /\ e.seg \in Nat
  BY EnvelopeType, SegmentSets
<1>2. arrived' = [arrived EXCEPT ![e.msg] = @ \cup {e.seg}] /\ arrived \in [Message -> SUBSET Nat]
  BY DEF HandleSegmentationLayer, Reconstruct, SegmentsInvariant, SegmentsTypeOK
<1>3. CASE Segmented(e.msg)
  <2>1. Reconstruct(e.msg, e.seg)
    BY <1>3 DEF HandleSegmentationLayer
  <2>2. SegmentsNext
    BY <1>1, <1>3, <2>1 DEF SegmentsNext
  <2>3. SegmentsInvariant'
    BY <2>2, SegmentsStep
  <2>4. \A m \in delivered' \ delivered : m = e.msg /\ Yields(e)
    BY <1>3, <2>1 DEF Reconstruct, Yields
  <2> QED BY <1>2, <2>3, <2>4
<1>4. CASE ~Segmented(e.msg)
  <2>1. UNCHANGED <<segments, completed, delivered>>
    BY <1>4 DEF HandleSegmentationLayer
  <2>2. arrived' \in [Message -> SUBSET Nat]
    BY <1>1, <1>2
  <2>3. \A m \in Message : Segmented(m) => arrived'[m] \subseteq arrived[m]
    BY <1>2, <1>4, Zenon
  <2> QED BY <1>2, <2>1, <2>2, <2>3, ArrivalsOnly
<1> QED BY <1>3, <1>4

(* The tables and what the loop holds keep their types. *)
LEMMA ReceiveTypes == ReceiveTypeOK /\ [ReceiveNext]_receiveVars => ReceiveTypeOK'
<1> SUFFICES ASSUME ReceiveTypeOK, [ReceiveNext]_receiveVars PROVE ReceiveTypeOK'
  OBVIOUS
<1> USE DEF ReceiveTypeOK
<1>1. ASSUME NEW e \in Envelope, Receive(e) \/ ImportArchive(e) PROVE ReceiveTypeOK'
  BY <1>1 DEF Receive, ImportArchive, tables, work, Worker
<1>2. ASSUME RetrieveRawAll PROVE ReceiveTypeOK'
  BY <1>2 DEF RetrieveRawAll, tables, Worker
<1>3. ASSUME NEW w \in Worker, BuildMessageState(w) PROVE ReceiveTypeOK'
  BY <1>3 DEF BuildMessageState, tables
<1>4. ASSUME NEW e \in Envelope, NEW failing \in SUBSET Message, HandleEnvelope(e, failing)
      PROVE  ReceiveTypeOK'
  <2>1. e.msg \in Message /\ \A q \in waiting : q.msg \in Message
    BY EnvelopeType
  <2>2. /\ batch' \in [Worker -> SUBSET Envelope]
        /\ UNCHANGED <<cache, saved, filterQueue, lock>>
    BY <1>4 DEF HandleEnvelope
  <2>3. waiting' \subseteq Envelope
    BY <1>4 DEF HandleEnvelope, Released
  <2>4. /\ keys' \subseteq Key /\ existing' \subseteq Message /\ pending' \subseteq Message
        /\ processed' \subseteq Envelope
    <3> DEFINE messages == {e.msg} \cup {q.msg : q \in Released(e.msg)}
    <3>1. messages \subseteq Message
      BY <2>1 DEF Released
    <3> HIDE DEF messages
    <3>2. CASE Dispatch(e, messages, failing)
      <4>1. CarriesKey(e.msg) \in Key \cup {NoKey}
        BY <2>1, ReceiveAssumption
      <4> QED BY <3>1, <3>2, <4>1 DEF Dispatch, DispatchFresh
    <3>3. CASE UNCHANGED <<keys, existing, pending, processed>>
      BY <3>3
    <3> QED BY <1>4, <3>2, <3>3 DEF HandleEnvelope, messages
  <2> QED BY <2>2, <2>3, <2>4
<1>5. ASSUME ConfirmMessagesProcessed PROVE ReceiveTypeOK'
  BY <1>5 DEF ConfirmMessagesProcessed
<1>6. ASSUME SaveDataAndPrepareResponse PROVE ReceiveTypeOK'
  BY <1>6 DEF SaveDataAndPrepareResponse
<1>7. ASSUME NEW e \in cache, CleanMessagesProcessed(e) PROVE ReceiveTypeOK'
  BY <1>7 DEF CleanMessagesProcessed, work
<1>8. ASSUME NEW q \in waiting, CleanupHashRatchetEncryptedMessages(q) PROVE ReceiveTypeOK'
  BY <1>8 DEF CleanupHashRatchetEncryptedMessages, work
<1>9. ASSUME NEW m \in Message, NEW old, CleanupSegments(m, old) PROVE ReceiveTypeOK'
  BY <1>9 DEF CleanupSegments, work
<1>10. ASSUME DeleteChat PROVE ReceiveTypeOK'
  BY <1>10 DEF DeleteChat, work
<1>11. ASSUME Crash PROVE ReceiveTypeOK'
  BY <1>11 DEF Crash, tables
<1>12. ASSUME UNCHANGED receiveVars PROVE ReceiveTypeOK'
  BY <1>12 DEF receiveVars, tables, work
<1> QED BY <1>1, <1>2, <1>3, <1>4, <1>5, <1>6, <1>7, <1>8, <1>9, <1>10, <1>11, <1>12, Zenon DEF ReceiveNext

(* Finitely many envelopes bring finitely many messages. *)
LEMMA MessagesFinite ==
  ASSUME NEW S, IsFiniteSet(S)
  PROVE  IsFiniteSet({q.msg : q \in S})
<1> DEFINE T == {q.msg : q \in S}
           f == [q \in S |-> q.msg]
<1>1. f \in Surjection(S, T)
  BY DEF Surjection
<1> HIDE DEF f, T
<1>2. IsFiniteSet(T)
  BY <1>1, FS_Surjection
<1> QED BY <1>2 DEF T

(* The rest of the invariant. *)
LoopInvariant ==
  /\ SegmentsInvariant /\ CountersOK /\ IsFiniteSet(waiting)
  /\ SavedOnce /\ WaitsForKeyOnly
  /\ Faultless => SeenIsHeld

(* An envelope that yields no message, one whose message waits for its     *)
(* key, and one whose message is dispatched, with those its key releases.  *)
LEMMA EnvelopeStep ==
  ASSUME ReceiveInvariant, NEW e \in Envelope, NEW failing \in SUBSET Message,
         HandleEnvelope(e, failing)
  PROVE  LoopInvariant'
<1>1. /\ e.msg \in Message /\ \A q \in waiting : q.msg \in Message
      /\ cache \subseteq Envelope /\ processed \subseteq Envelope /\ delivered \subseteq Message
  BY EnvelopeType DEF ReceiveInvariant, ReceiveTypeOK, SegmentsInvariant, SegmentsTypeOK
<1>2. /\ SegmentsInvariant'
      /\ \A m \in Message : m # e.msg => arrived'[m] = arrived[m]
      /\ \A m \in delivered' \ delivered : m = e.msg /\ Yields(e)
  BY SegmentationLayer DEF HandleEnvelope, ReceiveInvariant
<1>3. UNCHANGED <<cache, saved, crashes, deletes>>
  BY Zenon DEF HandleEnvelope
<1>4. CASE ~Yields(e)
  <2>1. UNCHANGED <<keys, waiting, existing, pending, processed, failures>>
    BY <1>4 DEF HandleEnvelope
  <2>2. Segmented(e.msg)
    BY <1>4, Zenon DEF Yields
  <2>3. SeenIsHeld => SeenIsHeld'
    BY <1>2, <1>3, <1>4, <2>1, <2>2, Zenon DEF SeenIsHeld, Held, Kept
  <2> QED BY <1>2, <1>3, <2>1, <2>3
          DEF LoopInvariant, ReceiveInvariant, CountersOK, SavedOnce, WaitsForKeyOnly, Faultless
<1>5. CASE Yields(e) /\ ~HasKey(e.msg)
  <2>1. waiting' = waiting \cup {e} /\ UNCHANGED <<keys, existing, pending, processed, failures>>
    BY <1>5 DEF HandleEnvelope
  <2>2. NeedsKey(e.msg) # NoKey /\ NeedsKey(e.msg) \notin keys
    BY <1>5 DEF HasKey
  <2>3. IsFiniteSet(waiting')
    BY <2>1, FS_AddElement DEF ReceiveInvariant
  <2>4. WaitsForKeyOnly'
    BY <2>1, <2>2, Zenon DEF ReceiveInvariant, WaitsForKeyOnly
  <2>5. SeenIsHeld => SeenIsHeld'
    <3> SUFFICES ASSUME SeenIsHeld PROVE SeenIsHeld'
      OBVIOUS
    <3>1. \A m \in Message : (m = e.msg => Kept(m)') /\ (Kept(m) => Kept(m)')
      BY <1>3, <2>1 DEF Kept
    <3>2. Held' = Held
      BY <1>3, <2>1 DEF Held
    <3>3. \A m \in Message : IsChat(m) /\ ~Segmented(m) /\ arrived'[m] # {} => Kept(m)'
      BY <1>2, <3>1 DEF SeenIsHeld
    <3>4. \A m \in delivered' : IsChat(m) /\ NeedsKey(m) = NoKey => m \in Held'
      BY <1>2, <2>2, <3>2 DEF SeenIsHeld
    <3> QED BY <1>3, <2>1, <3>2, <3>3, <3>4 DEF SeenIsHeld
  <2> QED BY <1>2, <1>3, <2>1, <2>3, <2>4, <2>5, Zenon
          DEF LoopInvariant, ReceiveInvariant, CountersOK, SavedOnce, Faultless
<1>6. CASE Yields(e) /\ HasKey(e.msg)
  <2> DEFINE messages == {e.msg} \cup {q.msg : q \in Released(e.msg)}
             fresh == messages \ (existing \cup saved)
  <2>1. /\ waiting' = waiting \ Released(e.msg) /\ Released(e.msg) \subseteq waiting
        /\ Dispatch(e, messages, failing)
    BY <1>6 DEF HandleEnvelope, Released
  <2>2. IsFiniteSet(messages) /\ messages \subseteq Message /\ e.msg \in messages
    <3>1. IsFiniteSet(Released(e.msg))
      BY <2>1, FS_Subset DEF ReceiveInvariant
    <3>2. IsFiniteSet({q.msg : q \in Released(e.msg)})
      BY <3>1, MessagesFinite
    <3>3. IsFiniteSet(messages)
      BY <3>2, FS_Singleton, FS_Union, Zenon
    <3> QED BY <1>1, <2>1, <3>3
  <2>3. IsFiniteSet(waiting')
    BY <2>1, FS_Subset DEF ReceiveInvariant
  <2>4. \A q \in waiting \ waiting' : q.msg \in messages
    BY <2>1
  <2> HIDE DEF messages
  <2>5. /\ failing \subseteq fresh /\ failures' = failures + Cardinality(failing)
        /\ existing' = existing \cup messages
        /\ pending' = pending \cup {m \in fresh \ failing : IsChat(m)}
        /\ processed' \subseteq processed \cup {e}
        /\ keys' = (keys \cup {CarriesKey(e.msg)}) \ {NoKey}
    BY <2>1 DEF Dispatch, DispatchFresh
  <2>6. IsFiniteSet(failing) /\ Cardinality(failing) \in Nat
    <3>1. failing \subseteq messages
      BY <2>5
    <3> QED BY <2>2, <3>1, FS_Subset, FS_CardinalityType
  <2>7. CountersOK' /\ (Faultless' => Faultless /\ failing = {})
    <3>1. failures' \in Nat /\ (failures' = 0 => failures = 0 /\ Cardinality(failing) = 0)
      BY <2>5, <2>6 DEF ReceiveInvariant, CountersOK
    <3> QED BY <1>3, <2>6, <3>1, FS_EmptySet DEF ReceiveInvariant, CountersOK, Faultless
  <2>8. SavedOnce'
    BY <1>3, <2>5 DEF ReceiveInvariant, SavedOnce
  <2>9. WaitsForKeyOnly'
    <3> SUFFICES ASSUME NEW q \in waiting', ~Segmented(q.msg) PROVE NeedsKey(q.msg) \notin keys'
      BY DEF WaitsForKeyOnly
    <3>1. q \in waiting /\ q \notin Released(e.msg) /\ NeedsKey(q.msg) \notin keys
      BY <2>1 DEF ReceiveInvariant, WaitsForKeyOnly
    <3> QED BY <2>5, <3>1 DEF Released
  <2>10. ASSUME Faultless' PROVE SeenIsHeld'
    <3>1. SeenIsHeld /\ failing = {}
      BY <2>7, <2>10 DEF ReceiveInvariant
    <3>2. Held \subseteq Held' /\ \A m \in messages : IsChat(m) => m \in Held'
      BY <1>3, <2>5, <3>1, Zenon DEF SeenIsHeld, Held
    <3>3. \A m \in existing' : IsChat(m) => m \in Held'
      BY <2>5, <3>1, <3>2, Zenon DEF SeenIsHeld
    <3>4. \A d \in (cache \cup processed)' : IsChat(d.msg) => d.msg \in Held'
      BY <1>3, <2>2, <2>5, <3>1, <3>2, Zenon DEF SeenIsHeld
    <3>5. \A m \in delivered' : IsChat(m) /\ NeedsKey(m) = NoKey => m \in Held'
      BY <1>2, <2>2, <3>1, <3>2 DEF SeenIsHeld
    <3>6. ASSUME NEW m \in Message, IsChat(m), ~Segmented(m), arrived'[m] # {} PROVE Kept(m)'
      <4>1. m \in Held' => Kept(m)'
        BY Zenon DEF Held, Kept
      <4>2. CASE m \in messages
        BY <3>2, <3>6, <4>1, <4>2, Zenon
      <4>3. CASE m \notin messages
        <5>1. Kept(m)
          BY <1>2, <2>2, <3>1, <3>6, <4>3, Zenon DEF SeenIsHeld
        <5>2. m \in Held \/ \E q \in waiting : q.msg = m
          BY <5>1 DEF Kept, Held
        <5>3. (\E q \in waiting : q.msg = m) => \E q \in waiting' : q.msg = m
          BY <2>4, <4>3
        <5>4. (\E q \in waiting' : q.msg = m) => Kept(m)'
          BY DEF Kept
        <5> QED BY <3>2, <4>1, <5>2, <5>3, <5>4, Zenon
      <4> QED BY <4>2, <4>3, Zenon
    <3> QED BY <3>3, <3>4, <3>5, <3>6 DEF SeenIsHeld
  <2> QED BY <1>2, <2>3, <2>7, <2>8, <2>9, <2>10, Zenon DEF LoopInvariant
<1> QED BY <1>4, <1>5, <1>6

(* Confirming, saving and cleaning up. *)
LEMMA TableStep ==
  ASSUME ReceiveInvariant,
         \/ ConfirmMessagesProcessed \/ SaveDataAndPrepareResponse
         \/ \E e \in cache : CleanMessagesProcessed(e)
  PROVE  LoopInvariant'
<1>1. UNCHANGED <<segmentVars, keys, waiting, failures, deletes>>
  BY DEF ConfirmMessagesProcessed, SaveDataAndPrepareResponse, CleanMessagesProcessed, faults
<1>2. SegmentsInvariant' /\ IsFiniteSet(waiting') /\ WaitsForKeyOnly'
  BY <1>1, SegmentsStep DEF ReceiveInvariant, WaitsForKeyOnly
<1>3. CountersOK' /\ SavedOnce'
  BY DEF ConfirmMessagesProcessed, SaveDataAndPrepareResponse, CleanMessagesProcessed, faults, work,
         Succeeds, Fails, ReceiveInvariant, CountersOK, SavedOnce
<1>4. ASSUME Faultless' PROVE SeenIsHeld'
  <2>1. UNCHANGED crashes /\ Faultless
    BY <1>1, <1>4 DEF ConfirmMessagesProcessed, SaveDataAndPrepareResponse, CleanMessagesProcessed,
                      faults, Succeeds, Fails, ReceiveInvariant, CountersOK, Faultless
  <2>2. /\ Held' = Held /\ existing' \subseteq existing
        /\ (cache \cup processed)' \subseteq cache \cup processed
    <3>1. ~Fails
      <4>1. crashes \in Nat
        BY DEF ReceiveInvariant, CountersOK
      <4> QED BY <2>1, <4>1 DEF Fails
    <3>2. CASE ConfirmMessagesProcessed
      <4>1. /\ cache' = cache \cup processed /\ processed' = {}
            /\ saved' = saved /\ pending' = pending /\ existing' = existing
        BY <3>1, <3>2, Zenon DEF ConfirmMessagesProcessed
      <4> QED BY <4>1 DEF Held
    <3>3. CASE SaveDataAndPrepareResponse
      <4>1. /\ saved' = saved \cup pending /\ existing' = {} /\ pending' = {}
            /\ cache' = cache /\ processed' = processed
        BY <3>1, <3>3, Zenon DEF SaveDataAndPrepareResponse
      <4> QED BY <4>1 DEF Held
    <3>4. CASE \E e \in cache : CleanMessagesProcessed(e)
      <4>1. /\ cache' \subseteq cache /\ processed' = processed
            /\ saved' = saved /\ pending' = pending /\ existing' = existing
        BY <3>4, Zenon DEF CleanMessagesProcessed, work
      <4> QED BY <4>1 DEF Held
    <3> QED BY <3>2, <3>3, <3>4, Zenon
  <2>3. \A m \in Message : Kept(m)' = Kept(m)
    BY <1>1, <2>2 DEF Kept, Held
  <2> QED BY <1>1, <2>1, <2>2, <2>3, Zenon DEF ReceiveInvariant, SeenIsHeld, segmentVars
<1> QED BY <1>2, <1>3, <1>4 DEF LoopInvariant

(* A message that waited too long is forgotten, with its arrival. *)
LEMMA ForgetStep ==
  ASSUME ReceiveInvariant, NEW q \in waiting, CleanupHashRatchetEncryptedMessages(q)
  PROVE  LoopInvariant'
<1>1. /\ waiting' = waiting \ {q} /\ arrived' = [arrived EXCEPT ![q.msg] = {}]
      /\ UNCHANGED <<segments, completed, delivered, keys, cache, saved, existing, pending,
                     processed, failures, crashes, deletes>>
  BY DEF CleanupHashRatchetEncryptedMessages, work, faults
<1>2. q.msg \in Message /\ arrived \in [Message -> SUBSET Nat]
  BY EnvelopeType DEF ReceiveInvariant, ReceiveTypeOK, SegmentsInvariant, SegmentsTypeOK
<1>3. SegmentsInvariant'
  BY <1>1, <1>2, ArrivalsOnly DEF ReceiveInvariant
<1>4. IsFiniteSet(waiting')
  BY <1>1, FS_Subset DEF ReceiveInvariant
<1>5. SeenIsHeld => SeenIsHeld'
  <2> SUFFICES ASSUME SeenIsHeld, NEW m \in Message, IsChat(m), ~Segmented(m), arrived'[m] # {}
               PROVE  Kept(m)'
    BY <1>1 DEF SeenIsHeld, Held
  <2>1. m # q.msg /\ arrived'[m] = arrived[m]
    BY <1>1, <1>2
  <2> QED BY <1>1, <2>1, Zenon DEF SeenIsHeld, Kept
<1> QED BY <1>1, <1>3, <1>4, <1>5
        DEF LoopInvariant, ReceiveInvariant, CountersOK, SavedOnce, WaitsForKeyOnly, Faultless

(* Old segments and marks are forgotten. *)
LEMMA CleanupStep ==
  ASSUME ReceiveInvariant, NEW m \in {x \in Message : Segmented(x)},
         NEW old \in SUBSET segments[m], CleanupSegments(m, old)
  PROVE  LoopInvariant'
<1>1. /\ CleanupStaleSegments(m, old)
      /\ UNCHANGED <<keys, waiting, cache, saved, existing, pending, processed, failures, crashes,
                     deletes>>
  BY DEF CleanupSegments, work, faults
<1>2. SegmentsInvariant'
  <2>1. SegmentsNext
    BY <1>1 DEF SegmentsNext
  <2> QED BY <2>1, SegmentsStep, Zenon DEF ReceiveInvariant
<1>3. /\ delivered' \subseteq delivered
      /\ \A x \in Message : arrived'[x] \subseteq arrived[x]
  BY <1>1, Zenon DEF CleanupStaleSegments, ReceiveInvariant, SegmentsInvariant, SegmentsTypeOK
<1>4. SeenIsHeld => SeenIsHeld'
  BY <1>1, <1>3, Zenon DEF SeenIsHeld, Held, Kept
<1> QED BY <1>1, <1>2, <1>4
        DEF LoopInvariant, ReceiveInvariant, CountersOK, SavedOnce, WaitsForKeyOnly, Faultless

(* Deleting the chat and restarting are faults. *)
LEMMA FaultStep ==
  ASSUME ReceiveInvariant, DeleteChat \/ Crash
  PROVE  LoopInvariant'
<1>1. CountersOK' /\ ~Faultless'
  BY DEF DeleteChat, Crash, ReceiveInvariant, CountersOK, Faultless
<1>2. UNCHANGED <<segments, completed, delivered, keys, waiting>> /\ SavedOnce'
  BY DEF DeleteChat, Crash, tables, segmentVars, work, ReceiveInvariant, SavedOnce
<1>3. SegmentsInvariant'
  <2>1. CASE DeleteChat
    <3>1. arrived' = [x \in Message |-> {}]
      BY <2>1 DEF DeleteChat
    <3> QED BY <1>2, <3>1, ArrivalsOnly DEF ReceiveInvariant
  <2>2. CASE Crash
    BY <2>2, SegmentsStep DEF Crash, tables, ReceiveInvariant
  <2> QED BY <2>1, <2>2
<1> QED BY <1>1, <1>2, <1>3 DEF LoopInvariant, ReceiveInvariant, WaitsForKeyOnly

(* A step that moves envelopes about, and nothing else. *)
LEMMA UnseenStep ==
  ASSUME ReceiveInvariant, UNCHANGED <<tables, existing, pending, processed, faults>>
  PROVE  LoopInvariant'
<1>1. UNCHANGED <<segmentVars, keys, waiting, cache, saved, failures, crashes, deletes>>
  BY DEF tables, faults
<1>2. SegmentsInvariant'
  BY <1>1, SegmentsStep DEF ReceiveInvariant
<1>3. SeenIsHeld => SeenIsHeld'
  BY <1>1 DEF SeenIsHeld, Held, Kept, segmentVars
<1> QED BY <1>1, <1>2, <1>3
        DEF LoopInvariant, ReceiveInvariant, CountersOK, SavedOnce, WaitsForKeyOnly, Faultless

(* Every step preserves the invariant. *)
LEMMA ReceiveStep == ReceiveInvariant /\ [ReceiveNext]_receiveVars => ReceiveInvariant'
<1> SUFFICES ASSUME ReceiveInvariant, [ReceiveNext]_receiveVars PROVE ReceiveInvariant'
  OBVIOUS
<1>1. ReceiveTypeOK'
  BY ReceiveTypes DEF ReceiveInvariant
<1>2. ASSUME NEW e \in Envelope, Receive(e) \/ ImportArchive(e) PROVE LoopInvariant'
  BY <1>2, UnseenStep DEF Receive, ImportArchive, work
<1>3. ASSUME RetrieveRawAll PROVE LoopInvariant'
  BY <1>3, UnseenStep DEF RetrieveRawAll
<1>4. ASSUME NEW w \in Worker, BuildMessageState(w) PROVE LoopInvariant'
  BY <1>4, UnseenStep DEF BuildMessageState
<1>5. ASSUME UNCHANGED receiveVars PROVE LoopInvariant'
  BY <1>5, UnseenStep, Zenon DEF receiveVars, work
<1>6. LoopInvariant'
  BY <1>2, <1>3, <1>4, <1>5, EnvelopeStep, TableStep, ForgetStep, CleanupStep, FaultStep, Zenon
     DEF ReceiveNext
<1> QED BY <1>1, <1>6 DEF ReceiveInvariant, LoopInvariant

(* Empty tables and an idle loop satisfy the invariant. *)
LEMMA ReceiveInitially == ReceiveInit => ReceiveInvariant
<1> SUFFICES ASSUME ReceiveInit PROVE ReceiveInvariant
  OBVIOUS
<1>1. SegmentsInvariant /\ IsFiniteSet(waiting)
  BY SegmentsInitially, FS_EmptySet DEF ReceiveInit
<1>2. ReceiveTypeOK
  BY DEF ReceiveInit, ReceiveTypeOK
<1> QED BY <1>1, <1>2, Zenon DEF ReceiveInit, SegmentsInit, ReceiveInvariant, CountersOK, SavedOnce,
                          WaitsForKeyOnly, SeenIsHeld

(* The composed system keeps the invariant of the segmentation layer and   *)
(* that of the loop, whatever faults there are.                            *)
THEOREM ReceiveCorrect == ReceiveSpec => []ReceiveInvariant
  BY ReceiveInitially, ReceiveStep, PTL DEF ReceiveSpec

(* The tables and the work of the loop have their types. *)
THEOREM ReceiveTypesCorrect == ReceiveSpec => []ReceiveTypeOK
<1>1. ReceiveInvariant => ReceiveTypeOK
  BY DEF ReceiveInvariant
<1> QED BY <1>1, ReceiveCorrect, PTL

(* "Don't process duplicates": a message that is saved is not handled and  *)
(* saved once more, whatever fails and whichever goroutine it comes to.    *)
THEOREM SavedOnceCorrect == ReceiveSpec => []SavedOnce
<1>1. ReceiveInvariant => SavedOnce
  BY DEF ReceiveInvariant
<1> QED BY <1>1, ReceiveCorrect, PTL

(* No message of one envelope waits for a hash ratchet key that is stored. *)
THEOREM WaitsForKeyCorrect == ReceiveSpec => []WaitsForKeyOnly
<1>1. ReceiveInvariant => WaitsForKeyOnly
  BY DEF ReceiveInvariant
<1> QED BY <1>1, ReceiveCorrect, PTL

(* Without faults, what is marked as processed is saved or about to be, or *)
(* waits for its key.                                                      *)
THEOREM ConfirmedCorrect == ReceiveSpec => [](Faultless => ConfirmedIsKept)
<1>1. ReceiveInvariant => (Faultless => ConfirmedIsKept)
  BY DEF ReceiveInvariant, SeenIsHeld, ConfirmedIsKept, Kept, Held
<1> QED BY <1>1, ReceiveCorrect, PTL

(* Without faults a message whose envelopes all went through HandleMessages *)
(* is kept: neither layer loses it, nor do the loop and the archive import  *)
(* between them.                                                            *)
THEOREM NothingIsLostCorrect == ReceiveSpec => []NothingIsLost
<1>1. ReceiveInvariant => NothingIsLost
  <2> SUFFICES ASSUME ReceiveInvariant, Faultless, NEW m \in Message, IsChat(m), Recoverable(m),
                      arrived[m] = Segment(m)
               PROVE  Kept(m)
    BY Zenon DEF NothingIsLost
  <2>1. CASE Segmented(m)
    <3>1. m \in delivered
      BY <2>1, AllArrived DEF ReceiveInvariant, Recoverable, AllArrivedIsDelivered
    <3> QED BY <2>1, <3>1, Zenon DEF ReceiveInvariant, SeenIsHeld, Recoverable, Held, Kept
  <2>2. CASE ~Segmented(m)
    <3>1. 1 \in Segment(m)
      BY Counts DEF Segment, Data
    <3> QED BY <2>2, <3>1 DEF ReceiveInvariant, SeenIsHeld
  <2> QED BY <2>1, <2>2
<1> QED BY <1>1, ReceiveCorrect, PTL

(* In the composed system, too, the two tables of the segmentation layer   *)
(* never both know a message, and none has more segments than it needs.    *)
THEOREM ComposedTablesCorrect == ReceiveSpec => [](TablesAreDisjoint /\ NeverOverfull)
<1>1. ReceiveInvariant => TablesAreDisjoint /\ NeverOverfull
  BY DEF ReceiveInvariant, SegmentsInvariant
<1> QED BY <1>1, ReceiveCorrect, PTL
=============================================================================
