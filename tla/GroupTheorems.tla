--------------------------- MODULE GroupTheorems ---------------------------
(***************************************************************************)
(* The theorems about GroupChat.tla, for any accounts, clocks, delays,     *)
(* repeated deliveries and failed dispatches: the invariants of            *)
(* GroupChatProofs and GroupUpdatesProofs hold in every reachable state,   *)
(* as the facts they assume are those GroupEventsProofs proves.            *)
(***************************************************************************)
EXTENDS GroupEventsProofs, GroupUpdatesProofs

(* The contexts are large: more time than by default, and the SMT backend  *)
(* once more when its translation was cut off.                             *)
USE SMTT(30), ZenonT(30), Z3T(30), SMTT(40), Z3T(40)

(* The clocks. *)
LEMMA ClocksHold == GroupSpec => []ClockInvariant
<1>1. GroupInit => ClockInvariant
  BY EventFactsHold, ClockInit
<1>2. ClockInvariant /\ [GroupNext]_groupVars => ClockInvariant'
  BY EventFactsHold, ClockStep
<1> QED BY <1>1, <1>2, PTL DEF GroupSpec

(* The groups. *)
LEMMA RebuiltHolds == GroupSpec => []Rebuilt
<1>1. ClockInvariant /\ Rebuilt /\ [GroupNext]_groupVars => Rebuilt'
  BY EventFactsHold, RebuiltStep
<1> QED BY <1>1, RebuiltInit, ClocksHold, PTL DEF GroupSpec

(* Joining and leaving. *)
LEMMA TracedHolds == GroupSpec => []Traced
<1>1. GroupInit => Traced
  BY EventFactsHold, TracedInit
<1>2. ClockInvariant /\ Rebuilt /\ Traced /\ [GroupNext]_groupVars => Traced'
  BY EventFactsHold, TracedStep
<1> QED BY <1>1, <1>2, ClocksHold, RebuiltHolds, PTL DEF GroupSpec

(* Without removals. *)
LEMMA CalmHolds == GroupSpec => []Calmed
<1>1. ClockInvariant /\ Rebuilt /\ Calmed /\ [GroupNext]_groupVars => Calmed'
  BY EventFactsHold, CalmNext
<1> QED BY <1>1, CalmInit, ClocksHold, RebuiltHolds, PTL DEF GroupSpec
-----------------------------------------------------------------------------
(* Group chats keep their types, and the last clock value of a chat is    *)
(* never behind the events it has: RaiseLastClock in                      *)
(* HandleMembershipUpdate, and NextClockAndTimestamp for signed events.   *)
THEOREM GroupTypesCorrect == GroupSpec => []GroupTypeOK
  BY TypesFollow, ClocksHold, PTL

(* Nobody signs two events of a group with one clock value, but for the    *)
(* removals of one call, for any accounts, wall clocks, delays, repeated   *)
(* deliveries and failed dispatches: NextClockAndTimestamp gives a value   *)
(* greater than the last one, and that is never behind an event.           *)
THEOREM ClockIsUsedOnceCorrect == GroupSpec => []ClockIsUsedOnce
<1>1. ClockInvariant => ClockIsUsedOnce
  BY DEF ClockInvariant
<1> QED BY <1>1, ClocksHold, PTL

(* Who knows an event of an author knows all earlier ones of that author,  *)
(* as every update carries all events (encodeMembershipUpdate), unless a   *)
(* dispatch failed or an update was refused.                               *)
THEOREM NoGapsCorrect == GroupSpec => []NoGaps
<1>1. ClockInvariant => NoGaps
  BY DEF ClockInvariant, Complete, History, NoGaps
<1> QED BY <1>1, ClocksHold, PTL

(* The stored events of an account that refused no update are a valid      *)
(* group: newProtocolGroupFromChat does not fail.                          *)
THEOREM StoredEventsRebuildCorrect == GroupSpec => []StoredEventsRebuild
<1>1. Rebuilt => StoredEventsRebuild
  BY DEF Rebuilt, StoredEventsRebuild
<1> QED BY <1>1, RebuiltHolds, PTL

(* Members are those whose last addition is later than any removal of      *)
(* them, in whatever order the updates came (sortEvents, ProcessEvents).   *)
THEOREM LatestWinsCorrect == GroupSpec => []LatestWins
<1>1. ClockInvariant /\ Rebuilt => LatestWins
  BY EventFactsHold, LatestFollows
<1> QED BY <1>1, ClocksHold, RebuiltHolds, PTL

(* An account that refused no update joins at most once each time it is    *)
(* added: wasUserAdded compares the merged group with the one before, and  *)
(* a notification is accepted once.                                        *)
THEOREM JoinsAnswerAddsCorrect == GroupSpec => []JoinsAnswerAdds
<1>1. ClockInvariant /\ Traced => JoinsAnswerAdds
  BY EventFactsHold, AnswersFollow
<1> QED BY <1>1, ClocksHold, TracedHolds, PTL

(* A group that its user left comes back only with an addition not before  *)
(* that, or with a notification that the user accepts: only Reactivated in *)
(* HandleMembershipUpdate sets chat.Active, for members of the merged      *)
(* group.                                                                  *)
THEOREM LeftStaysLeftCorrect == GroupSpec => LeftStaysLeft
<1>1. ASSUME ClockInvariant, Traced, [GroupNext]_groupVars
      PROVE  [\A a \in Accounts \ refused : Back(a)]_groupVars
  BY <1>1, EventFactsHold, BackWhenAdded
<1>2. LeftStaysLeft <=> [][\A a \in Accounts \ refused : Back(a)]_groupVars
  BY PTL DEF LeftStaysLeft, Back
<1> QED BY <1>1, <1>2, ClocksHold, TracedHolds, PTL DEF GroupSpec

(* What RemovedAreTold says of those who do not refuse the update. *)
RemovedAreToldUnlessRefused == [][Heeded]_groupVars

(* Who merges an update that removes them is a member no longer, unless    *)
(* they know of an addition not before that: the members of the chat are   *)
(* those of the merged and sorted events (HandleMembershipUpdate).  So     *)
(* RemovedAreTold fails only where an update is refused.                   *)
THEOREM RemovalsTakeEffect == GroupSpec => RemovedAreToldUnlessRefused
<1>1. ClockInvariant => [Heeded]_groupVars
  BY EventFactsHold, RemovalsHeeded
<1> QED BY <1>1, ClocksHold, PTL DEF RemovedAreToldUnlessRefused

(* An update is refused only if somebody was removed: the events that      *)
(* HandleMembershipUpdate merges, in whatever order updates come, are a    *)
(* valid group (newGroup, validateEvent) as long as no update tells of a   *)
(* removal. Holds with failed dispatches, late and repeated updates too.   *)
THEOREM OnlyRemovalsConflictCorrect == GroupSpec => []OnlyRemovalsConflict
<1>1. ClockInvariant /\ Calmed => OnlyRemovalsConflict
  BY EventFactsHold, ConflictsFollow
<1> QED BY <1>1, ClocksHold, CalmHolds, PTL
=============================================================================
