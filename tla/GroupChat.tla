----------------------------- MODULE GroupChat -----------------------------
(***************************************************************************)
(* Private group chats: signed membership events, how a Group is rebuilt   *)
(* from them (protocol/v1/membership_update_message.go), and the           *)
(* messenger's operations and handler around it (messenger_group_chat.go,  *)
(* messenger_handler.go).  Nobody owns the group: every account keeps the  *)
(* events it knows of, sends all of them with every update, and merges     *)
(* those it receives.                                                      *)
(*                                                                         *)
(* One group is modelled.  A message stays in net and may be handled by    *)
(* each of its recipients at any time, again and again, or never.  Wall    *)
(* clocks differ between accounts.  A name, colour or image is whatever    *)
(* the event says, so an event stands for it.  The setting that allows     *)
(* messages of contacts only is off; nobody has a paired device.           *)
(***************************************************************************)
EXTENDS Sequences, FiniteSetsExt

CONSTANTS Accounts,
          Creator,        \* who creates the group
          Contacts,       \* pairs of accounts that are mutual contacts
          Skew,           \* how far the wall clock of an account is ahead
          Times,          \* the instants at which something happens
          Operations,     \* the operations the users perform
          Edits,          \* the details changed by an edit, in order
          MaxOperations,  \* number of operations
          MaxFailures     \* dispatches that fail half-way

ASSUME GroupAssumption ==
  /\ IsFiniteSet(Accounts) /\ Creator \in Accounts
  /\ Contacts \subseteq SUBSET Accounts
  /\ Skew \in [Accounts -> Nat]
  /\ Edits \subseteq Seq({"name", "color", "image"}) \ {<<>>}
  /\ Times \subseteq Nat \ {0} /\ Times # {}
  /\ {MaxOperations, MaxFailures} \subseteq Nat

VARIABLES
  chat,        \* the Chat of each account
  net,         \* membership updates sent
  now,         \* the time
  operations,  \* operations performed
  failures,    \* dispatches that failed
  refused      \* history: accounts that refused to merge an update

groupVars == <<chat, net, now, operations, failures, refused>>

NoChat == [exists |-> FALSE, events |-> <<>>, members |-> {}, clock |-> 0,
           active |-> FALSE, notified |-> FALSE]

Mutual(a, b) == {a, b} \in Contacts
-----------------------------------------------------------------------------
(* protocol/v1: a Group is the admins and members its events lead to. *)

Event(type, from, clock, members) ==
  [type |-> type, from |-> from, clock |-> clock, members |-> members]

DetailsChanged == {"name", "color", "image"}

(* No operation signs an ADMIN_REMOVED event.  stringSliceSubset holds when *)
(* one of the new admins is a member.                                       *)
validateEvent(g, e) ==
  CASE e.type = "created" -> g.admins = {} /\ g.members = {}
    [] e.type \in DetailsChanged \cup {"added"} -> e.from \in g.admins \cup g.members
    [] e.type = "joined" -> e.from \in g.members
    [] e.type = "removed" -> \/ e.members = {e.from}
                             \/ e.from \in g.admins /\ e.members \cap g.admins = {}
    [] e.type = "admins" -> e.from \in g.admins /\ e.members \cap g.members # {}

processEvent(g, e) ==
  CASE e.type = "created" -> [g EXCEPT !.members = @ \cup {e.from}, !.admins = @ \cup {e.from}]
    [] e.type = "added" -> [g EXCEPT !.members = @ \cup e.members]
    [] e.type = "admins" -> [g EXCEPT !.admins = @ \cup e.members]
    [] e.type = "removed" -> [g EXCEPT !.members = @ \ e.members, !.admins = @ \ e.members]
    [] OTHER -> g

ProcessEvent(g, e) ==
  IF g.valid /\ validateEvent(g, e) THEN processEvent(g, e) ELSE [g EXCEPT !.valid = FALSE]

ProcessEvents(g, events) ==
  LET after[n \in 0..Len(events)] == IF n = 0 THEN g ELSE ProcessEvent(after[n - 1], events[n])
  IN after[Len(events)]

(* Mistake: the events are taken in the order in which they came. *)
sortEventsByArrival(events) == events

(* An event moves to the front past the later ones. *)
insertEvent(s, e) ==
  LET n == Len(s)
      later == CHOOSE k \in 0..n : /\ k < n => s[n - k].clock <= e.clock
                                   /\ \A i \in (n - k + 1)..n : e.clock < s[i].clock
  IN SubSeq(s, 1, n - later) \o <<e>> \o SubSeq(s, n - later + 1, n)

(* By clock; up to twelve events, sort.Slice keeps the order of equal ones. *)
sortEvents(events) ==
  LET sorted[n \in 0..Len(events)] ==
        IF n = 0 THEN <<>> ELSE insertEvent(sorted[n - 1], events[n])
  IN sorted[Len(events)]

(* newGroup and init; the chat ID ends with the key of the creator. *)
newGroup(events) ==
  LET sorted == sortEvents(events)
      g == ProcessEvents([valid |-> TRUE, admins |-> {}, members |-> {}], sorted)
  IN [g EXCEPT !.valid = @ /\ sorted # <<>>
                           /\ sorted[1].type = "created" /\ sorted[1].from = Creator]

(* Mistake: events are told apart by their clock. *)
MergeByClock(dest, src) ==
  dest \o SelectSeq(src, LAMBDA e : e.clock \notin {d.clock : d \in Range(dest)})

(* Mistake: events that are known already are added again. *)
MergeRepeated(dest, src) == dest \o src

appendEvent(s, e) == IF e \in Range(s) THEN s ELSE Append(s, e)

MergeMembershipUpdateEvents(dest, src) ==
  LET merged[n \in 0..Len(src)] == IF n = 0 THEN dest ELSE appendEvent(merged[n - 1], src[n])
  IN merged[Len(src)]

WasEverMember(events, a) ==
  a = Creator \/ \E e \in Range(events) : e.type = "added" /\ a \in e.members

(* Slices grow by doubling: the room the array of n events has. *)
Capacity(n) == CHOOSE c \in {1, 2, 4, 8, 16, 32} : n <= c /\ (c = 1 \/ n > c \div 2)
-----------------------------------------------------------------------------
(* The messenger's operations. *)

NextClock(a, c) == IF c.clock < now + Skew[a] THEN now + Skew[a] ELSE c.clock + 1

Update(a, to, events, clock) ==
  IF to = {} THEN {} ELSE {[from |-> a, to |-> to, events |-> events, clock |-> clock]}

Outcome(c, sent, error) == [chat |-> c, sent |-> sent, error |-> error]

(* dispatchMessage: sent to all, or an error after some; only then is the chat updated. *)
Dispatch(a, to, events, clock, before, after) ==
  {Outcome(after, Update(a, to, events, clock), "none")} \cup
  {Outcome(before, Update(a, some, events, clock), "dispatch") :
     some \in IF failures < MaxFailures THEN (SUBSET to) \ {to} ELSE {}}

(* Removed members are told, except by those who remove themselves. *)
Recipients(a, new, before, after) ==
  (IF new[1].type = "removed" /\ new[1].members # {a} THEN before.members
   ELSE after.members) \ {a}

(* Mistake: the event is not validated before it is sent. *)
PublishUnvalidated(a, c, new) ==
  LET before == newGroup(c.events)
      after == ProcessEvents([before EXCEPT !.valid = TRUE], new)
      tried == [c EXCEPT !.clock = new[Len(new)].clock]
      done == [tried EXCEPT !.events = @ \o new, !.members = after.members]
  IN Dispatch(a, Recipients(a, new, before, after), c.events \o new, 0, tried, done)

(* What an operation of a that signs the new events may lead to.  All events *)
(* of the group are sent (encodeMembershipUpdate).                           *)
Publish(a, c, new) ==
  LET before == newGroup(c.events)
      after == ProcessEvents(before, new)
      tried == [c EXCEPT !.clock = new[Len(new)].clock]
      done == [tried EXCEPT !.events = @ \o new, !.members = after.members]
  IN IF ~before.valid THEN {Outcome(c, {}, "invalid")}
     ELSE IF ~after.valid THEN {Outcome(tried, {}, "invalid")}
     ELSE Dispatch(a, Recipients(a, new, before, after), c.events \o new, 0, tried, done)

Become(a, outcomes) ==
  \E o \in outcomes :
    /\ chat' = [chat EXCEPT ![a] = o.chat]
    /\ net' = net \cup o.sent
    /\ failures' = failures + (IF o.error = "dispatch" THEN 1 ELSE 0)

Operate(a, name, outcomes) ==
  /\ name \in Operations /\ operations < MaxOperations
  /\ operations' = operations + 1
  /\ Become(a, outcomes)
  /\ UNCHANGED <<now, refused>>

CreateGroupChatWithMembers(members) ==
  /\ ~chat[Creator].exists
  /\ \A m \in members : Mutual(Creator, m)
  /\ LET clock == NextClock(Creator, NoChat)
         created == Event("created", Creator, clock, {})
         c == [NoChat EXCEPT !.exists = TRUE, !.active = TRUE, !.events = <<created>>,
                             !.members = {Creator}, !.clock = clock]
     IN Become(Creator, Publish(Creator, c, <<Event("added", Creator, clock + 1, members)>>))
  /\ UNCHANGED <<now, operations, refused>>

AddMembersToGroupChat(a, members) ==
  /\ chat[a].exists
  /\ \A m \in members : Mutual(a, m)
  /\ Operate(a, "add", Publish(a, chat[a], <<Event("added", a, NextClock(a, chat[a]), members)>>))

(* One clock value for all who are removed. *)
RemoveMembersFromGroupChat(a, members) ==
  /\ chat[a].exists
  /\ Operate(a, "remove", Publish(a, chat[a],
       [i \in DOMAIN members |-> Event("removed", a, NextClock(a, chat[a]), {members[i]})]))

AddAdminsToGroupChat(a, members) ==
  /\ chat[a].exists
  /\ Operate(a, "admins", Publish(a, chat[a], <<Event("admins", a, NextClock(a, chat[a]), members)>>))

(* ChangeGroupChatName and EditGroupChat: one event for each detail that changes. *)
EditGroupChat(a, details) ==
  /\ chat[a].exists
  /\ Operate(a, "edit", Publish(a, chat[a],
       [i \in DOMAIN details |-> Event(details[i], a, NextClock(a, chat[a]) + i - 1, {})]))

ConfirmJoiningGroup(a, c) == Publish(a, c, <<Event("joined", a, NextClock(a, c), {})>>)

(* The user accepts the notification of a group that is not active. *)
AcceptNotification(a) ==
  /\ chat[a].notified
  /\ Become(a, ConfirmJoiningGroup(a, [chat[a] EXCEPT !.active = TRUE, !.notified = FALSE]))
  /\ UNCHANGED <<now, operations, refused>>

LeaveGroupChat(a, remove) ==
  LET c == [chat[a] EXCEPT !.notified = FALSE]
      left == [c EXCEPT !.members = @ \ {a}]
      deactivate(o) == IF remove /\ o.error = "none" THEN [o EXCEPT !.chat.active = FALSE] ELSE o
  IN /\ c.exists
     /\ Operate(a, "leave",
          {deactivate(o) : o \in
             IF a \in c.members
             THEN Publish(a, left, <<Event("removed", a, NextClock(a, c), {a})>>)
             ELSE {Outcome(c, {}, "none")}})

(* A chat message in the group carries all events as well. *)
SendChatMessage(a) ==
  LET c == [chat[a] EXCEPT !.clock = NextClock(a, chat[a])]
  IN /\ chat[a].exists
     /\ Operate(a, "post",
          IF newGroup(c.events).valid
          THEN Dispatch(a, c.members \ {a}, c.events, c.clock, c, c)
          ELSE {Outcome(c, {}, "invalid")})
-----------------------------------------------------------------------------
(* HandleMembershipUpdate. *)

(* Mistake: the last clock value becomes that of the update, even if it is lower. *)
LastClockReplaced(c, events) ==
  [c EXCEPT !.clock = Max({e.clock : e \in Range(events)})]

(* Mistake: the last clock value is left alone. *)
LastClockKept(c, events) == c

(* The last clock value is at least that of any event of the group. *)
RaiseLastClock(c, events) ==
  [c EXCEPT !.clock = Max({@} \cup {e.clock : e \in Range(events)})]

(* Mistake: a member that is told of the group again joins it again. *)
WasUserAddedAgain(a, before, after) == a \in after.members

(* Whether a has been added to the group with this update. *)
WasUserAdded(a, before, after) == a \notin before.members /\ a \in after.members

(* The chat message of the update counts if its sender and we are members. *)
HandleChatMessage(a, m, o) ==
  IF o.error = "none" /\ {a, m.from} \subseteq o.chat.members /\ m.clock > o.chat.clock
  THEN [o EXCEPT !.chat.clock = m.clock]
  ELSE o

(* Once the group is merged: the clock, the notification, joining, the chat message. *)
Settle(a, m, c, added) ==
  LET told == [RaiseLastClock(c, c.events) EXCEPT !.notified = @ \/ (added /\ ~c.active)]
  IN {HandleChatMessage(a, m, o) :
        o \in IF added /\ c.active THEN ConfirmJoiningGroup(a, told)
              ELSE {Outcome(told, {}, "none")}}

HandleNewGroup(a, m) ==
  LET group == newGroup(m.events)
  IN /\ ~chat[a].exists
     /\ group.valid /\ WasEverMember(m.events, a)
     /\ Become(a, Settle(a, m,
          [NoChat EXCEPT !.exists = TRUE, !.events = sortEvents(m.events), !.members = group.members,
                         !.active = Mutual(a, m.from) \/ Mutual(a, Creator)],
          a \in group.members))
     /\ UNCHANGED <<now, operations, refused>>

(* Mistake: the chat is active again if the update, not the merged group, has us. *)
ReactivatedByUpdate(a, m, update, group) == Mutual(a, m.from) /\ a \in update.members

(* Re-invited by a contact. *)
Reactivated(a, m, update, group) == Mutual(a, m.from) /\ a \in group.members

(* The merged events are a valid group. *)
AcceptUpdate(a, m, merged, group) ==
  LET existing == newGroup(chat[a].events)
      update == newGroup(m.events)
  IN /\ group.valid
     /\ Become(a, Settle(a, m,
          [chat[a] EXCEPT !.events = merged, !.members = group.members,
                          !.active = @ \/ Reactivated(a, m, update, group)],
          WasUserAdded(a, existing, group)))
     /\ UNCHANGED <<now, operations, refused>>

(* They are not.  But they were sorted in place, and while the array of the *)
(* chat's events has room for more, that is where they are.                 *)
RefuseUpdate(a, m, merged, group) ==
  LET n == Len(chat[a].events)
  IN /\ ~group.valid
     /\ refused' = refused \cup {a}
     /\ chat' = IF Len(merged) <= Capacity(n)
                THEN [chat EXCEPT ![a].events = SubSeq(merged, 1, n)]
                ELSE chat
     /\ UNCHANGED <<net, now, operations, failures>>

MergeUpdate(a, m) ==
  /\ chat[a].exists
  /\ newGroup(chat[a].events).valid /\ newGroup(m.events).valid
  /\ LET merged == sortEvents(MergeMembershipUpdateEvents(chat[a].events, m.events))
         group == newGroup(merged)
     IN AcceptUpdate(a, m, merged, group) \/ RefuseUpdate(a, m, merged, group)

HandleMembershipUpdate(a, m) ==
  /\ a \in m.to
  /\ HandleNewGroup(a, m) \/ MergeUpdate(a, m)

(* Time passes. *)
Tick ==
  /\ \E t \in Times : t > now /\ now' = t
  /\ UNCHANGED <<chat, net, operations, failures, refused>>

GroupInit ==
  /\ chat = [a \in Accounts |-> NoChat]
  /\ net = {}
  /\ now = Min(Times)
  /\ operations = 0 /\ failures = 0
  /\ refused = {}

Some(S) == (SUBSET S) \ {{}}

GroupNext ==
  \/ \E members \in Some(Accounts \ {Creator}) : CreateGroupChatWithMembers(members)
  \/ \E a \in Accounts :
       \/ \E members \in Some(Accounts \ {a}) : AddMembersToGroupChat(a, members)
       \/ \E members \in Some(chat[a].members \ {a}) :
            \/ \E order \in Bijection(1..Cardinality(members), members) :
                 RemoveMembersFromGroupChat(a, order)
            \/ AddAdminsToGroupChat(a, members)
  \/ \E a \in Accounts, details \in Edits : EditGroupChat(a, details)
  \/ \E a \in Accounts, remove \in BOOLEAN : LeaveGroupChat(a, remove)
  \/ \E a \in Accounts : AcceptNotification(a) \/ SendChatMessage(a)
  \/ \E a \in Accounts, m \in net : HandleMembershipUpdate(a, m)
  \/ Tick

GroupSpec == GroupInit /\ [][GroupNext]_groupVars
-----------------------------------------------------------------------------
(* Properties. *)

EventsOf(a) == Range(chat[a].events)
Known ==
  (UNION {EventsOf(a) : a \in Accounts}) \cup (UNION {Range(m.events) : m \in net})

Events == [type : DetailsChanged \cup {"created", "added", "joined", "removed", "admins"},
           from : Accounts, clock : Nat, members : SUBSET Accounts]

(* Every account has a chat made of signed events, or none, and the last    *)
(* clock value is never behind them.                                        *)
GroupTypeOK ==
  /\ \A a \in Accounts :
       /\ chat[a].events \in Seq(Events) /\ chat[a].members \subseteq Accounts
       /\ chat[a].clock \in Nat /\ \A e \in EventsOf(a) : e.clock <= chat[a].clock
       /\ {chat[a].exists, chat[a].active, chat[a].notified} \subseteq BOOLEAN
  /\ \A m \in net : m.from \in Accounts /\ m.to \subseteq Accounts /\ m.events \in Seq(Events)
  /\ refused \subseteq Accounts

(* However late updates come and however clocks differ, nobody signs two    *)
(* events of a group with one clock value, but for the removals of one call *)
(* (NextClockAndTimestamp, and HandleMembershipUpdate raising the clock).   *)
ClockIsUsedOnce ==
  \A e, f \in Known :
    e.from = f.from /\ e.clock = f.clock /\ e # f => e.type = "removed" /\ f.type = "removed"

(* An update that cannot be merged tells of a removal: without one, updates *)
(* are merged in any order, late or repeated (newGroup, validateEvent).     *)
OnlyRemovalsConflict ==
  refused # {} => \E e \in Known : e.type = "removed"

(* The chat of an account is a valid group as long as it refused no update: *)
(* newProtocolGroupFromChat does not fail, and the chat can be used.        *)
StoredEventsRebuild ==
  \A a \in Accounts : chat[a].exists /\ a \notin refused => newGroup(chat[a].events).valid

(* Who knows an event of an author knows all earlier ones of that author,   *)
(* as every update has all events (encodeMembershipUpdate), if no dispatch  *)
(* failed half-way and no update was refused.                               *)
NoGaps ==
  failures = 0 /\ refused = {} =>
    \A a \in Accounts : \A e \in EventsOf(a), f \in Known :
      f.from = e.from /\ f.clock <= e.clock => f \in EventsOf(a)

Adds(e, b) == (e.type = "added" /\ b \in e.members) \/ (e.type = "created" /\ b = e.from)
Removes(e, b) == e.type = "removed" /\ b \in e.members

(* Members are those whose last addition is later than any removal of them, *)
(* whatever order the updates came in (sortEvents), unless both have the    *)
(* same clock value, or leaving failed.                                     *)
LatestWins ==
  \A a \in Accounts \ refused, b \in Accounts :
    (failures = 0 /\ \A e, r \in EventsOf(a) : Adds(e, b) /\ Removes(r, b) => e.clock # r.clock) =>
      (b \in chat[a].members <=>
         \E e \in EventsOf(a) : Adds(e, b) /\ \A r \in EventsOf(a) : Removes(r, b) => r.clock < e.clock)

(* An account joins at most once each time it is added: updates that come   *)
(* again do not make it send another (wasUserAdded, autoJoin).  A refused   *)
(* update may cost the account the event that added it.                     *)
JoinsAnswerAdds ==
  \A b \in Accounts \ refused :
    Cardinality({e \in Known : e.type = "joined" /\ e.from = b})
      <= Cardinality({e \in Known : e.type = "added" /\ b \in e.members})

(* A group that its user left comes back only when the user is added not    *)
(* before that, or accepts a notification; an old update does not do it,    *)
(* if leaving did not fail and no update was refused, which may cost the    *)
(* chat the event of leaving (chat.Active in HandleMembershipUpdate).       *)
LeftStaysLeft ==
  [][\A a \in Accounts \ refused :
       failures = 0 /\ chat[a].exists /\ ~chat[a].active /\ chat'[a].active /\ ~chat[a].notified =>
         \E e \in Range(chat'[a].events) :
           /\ e.type = "added" /\ a \in e.members
           /\ \A r \in EventsOf(a) : r.from = a /\ Removes(r, a) => r.clock <= e.clock]_groupVars

(* Who handles the update that removes them is not a member any more, "as   *)
(* we want to send updates to also the members kicked out"                  *)
(* (removeMembersFromGroupChat), unless they know of a later addition.      *)
RemovedAreTold ==
  [][\A a \in Accounts : \A m \in net :
       HandleMembershipUpdate(a, m) =>
         \A r \in Range(m.events) :
           Removes(r, a) =>
             \/ a \notin chat'[a].members
             \/ \E e \in Range(chat'[a].events) : Adds(e, a) /\ e.clock >= r.clock]_groupVars
=============================================================================
