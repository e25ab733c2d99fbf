------------------------ MODULE GroupUpdatesProofs -------------------------
(***************************************************************************)
(* Proofs about GroupChat.tla: joining answers additions, a group that was *)
(* left stays left and removals take effect, for accounts that refuse no   *)
(* update; and only removals conflict, so that HandleMembershipUpdate      *)
(* refuses nothing as long as no update tells of one.                      *)
(*                                                                         *)
(* Merging keeps the order of the events a chat has (Embeds), so an        *)
(* account that an update adds is told of an addition it did not know.     *)
(*                                                                         *)
(*   - Contributes, Answers: what a step adds to the events of its         *)
(*     account, and the notification or addition a joining uses;           *)
(*   - Traced: the group is created once and before all else; every        *)
(*     joining, and every notification, has an addition of its own; a      *)
(*     creator whose chat is not active has left.                          *)
(*                                                                         *)
(* A sorted list of events in which every event has, before it, those that *)
(* made its author a member or an admin (Supported), which begins with the *)
(* one creation and removes nobody who acts later (Loose), is a valid      *)
(* group (SupportedValidFact).                                             *)
(*                                                                         *)
(*   - Continues: what an account signs is supported by what it has;       *)
(*   - Calmed: the invariant. The one removal that no update tells of is   *)
(*     that of a creator who left a group with nobody else to tell, or     *)
(*     whose update could not be dispatched.                               *)
(***************************************************************************)
EXTENDS GroupChatProofs

(* The contexts are large: more time than by default, and the SMT backend  *)
(* once more when its translation was cut off.                             *)
USE SMTT(30), ZenonT(30), Z3T(30), SMTT(40), Z3T(40)

(* The creator has the group before anybody is told of it. *)
Rooted ==
  /\ RootOf(Known)
  /\ ~chat[Creator].exists => net = {} /\ \A a \in Accounts : ~chat[a].exists

(* Publish keeps the flags of the chat, and signs only in a valid group. *)
LEMMA PublishContributes ==
  ASSUME EventFacts, NEW a \in Accounts, NEW c \in ChatRecord, c.exists, Sorted(c.events),
         \A e \in Range(c.events) : e.clock <= c.clock,
         NEW new, Fresh(a, c.clock, new), NEW o \in Publish(a, c, new)
  PROVE  /\ o.chat.active = c.active /\ o.chat.notified = c.notified
         /\ \E N : /\ Signed(a, c.clock, o.chat.clock, N) /\ Keeps(o, Range(c.events), N)
                   /\ N = {} \/ (N = Range(new) /\ newGroup(c.events).valid)
<1>1. new \in Seq(Events) /\ new # <<>> /\ c.clock \in Nat
  BY DEF Fresh, ChatRecord
<1>2. Published(a, c, new, o)
  BY <1>1, PublishShape
<1>3. PICK N : /\ Signed(a, c.clock, o.chat.clock, N) /\ Keeps(o, Range(c.events), N)
               /\ N = {} \/ N = Range(new)
  BY PublishKeeps
<1>4. CASE newGroup(c.events).valid
  <2>1. o.chat.active = c.active /\ o.chat.notified = c.notified
    BY <1>2, <1>4, Zenon DEF Published, ChatRecord
  <2> QED BY <1>3, <1>4, <2>1
<1>5. CASE ~newGroup(c.events).valid
  <2>1. o.chat = c /\ o.error = "invalid"
    BY <1>2, <1>5 DEF Published
  <2>2. N \subseteq Range(c.events)
    BY <1>3, <2>1 DEF Keeps
  <2>3. \A e \in N : e.clock \in Nat /\ c.clock < e.clock
    BY <1>3 DEF Signed, Events
  <2>4. N = {}
    BY <1>1, <2>2, <2>3
  <2> QED BY <1>3, <2>1, <2>4
<1> QED BY <1>4, <1>5

(* A valid group has the event that created it. *)
LEMMA ValidBased ==
  ASSUME EventFacts, NEW s \in Seq(Events), Sorted(s), newGroup(s).valid
  PROVE  Based(Range(s))
<1>1. s # <<>> /\ s[1].type = "created"
  BY DEF FoundedByCreator, EventFacts, GroupMembersFact
<1>2. Len(s) \in Nat /\ Range(s) = {s[i] : i \in 1..Len(s)}
  BY DEF EventFacts, ElementsFact
<1>3. 1 \in 1..Len(s)
  BY <1>1, <1>2
<1>4. s[1] \in Range(s)
  BY <1>2, <1>3
<1> QED BY <1>1, <1>4 DEF Based

(* An account that an update adds is told of an addition it did not know. *)
LEMMA NewlyAdded ==
  ASSUME EventFacts, ClockInvariant, Rooted, NEW a \in Accounts, NEW m \in net, NEW c \in ChatRecord,
         Told(a, m, c), Added(a, c)
  PROVE  \E e \in Range(c.events) \ EventsOf(a) : e.type = "added" /\ a \in e.members
<1> DEFINE s == chat[a].events
           t == c.events
<1>1. GroupTypes /\ Absent /\ Passed
  BY DEF ClockInvariant
<1>2. /\ s \in Seq(Events) /\ t \in Seq(Events) /\ m.events \in Seq(Events) /\ EventsOf(a) = Range(s)
      /\ Sorted(s)
  BY <1>1 DEF GroupTypes, ChatRecord, UpdateRecord, EventsOf, Passed
<1>3. /\ Sorted(t) /\ Range(t) = EventsOf(a) \cup Range(m.events)
      /\ newGroup(t).valid /\ a \in newGroup(t).members /\ a \notin newGroup(s).members
      /\ chat[a].exists => newGroup(s).valid /\ t = MergedWith(a, m)
  BY DEF Told, Added
<1>4. AddedLast(t, Len(t), a)
  BY <1>2, <1>3 DEF EventFacts, GroupMembersFact
<1>5. Range(t) \subseteq Known /\ EventsOf(a) \subseteq Known
  BY <1>1, <1>3, KnownEvents
<1>6. MergedWith(a, m) = sortEvents(MergeMembershipUpdateEvents(s, m.events))
  BY DEF MergedWith
<1>7. ~chat[a].exists => EventsOf(a) = {}
  BY <1>1 DEF Absent, NoChat, EventsOf, Range
<1> HIDE DEF s, t
<1>8. \E e \in Range(t) \ EventsOf(a) : Adds(e, a)
  <2>1. CASE chat[a].exists
    <3>1. ~AddedLast(s, Len(s), a)
      BY <1>2, <1>3, <2>1 DEF EventFacts, GroupMembersFact
    <3>2. Embeds(s, t)
      BY <1>2, <1>3, <1>6, <2>1 DEF EventFacts, MergeEmbedsFact
    <3> QED BY <1>2, <1>4, <3>1, <3>2, Zenon DEF EventFacts, StaysOutFact
  <2>2. CASE ~chat[a].exists
    <3>1. PICK i \in 1..Len(t) : Adds(t[i], a)
      BY <1>4 DEF AddedLast
    <3>2. t[i] \in Range(t)
      BY <1>2, <3>1 DEF EventFacts, ElementsFact
    <3> QED BY <1>7, <2>2, <3>1, <3>2
  <2> QED BY <2>1, <2>2
<1>9. PICK e \in Range(t) \ EventsOf(a) : Adds(e, a)
  BY <1>8
<1>10. e.type # "created"
  <2> SUFFICES ASSUME e.type = "created" PROVE FALSE
    OBVIOUS
  <2>1. RootOf(Known) /\ chat[Creator].exists /\ e \in Known
    BY <1>5, <1>9 DEF Rooted
  <2>2. e.from = Creator
    BY <2>1 DEF RootOf
  <2>3. a = Creator
    BY <1>9, <2>2 DEF Adds
  <2>4. PICK d \in EventsOf(a) : d.type = "created"
    BY <1>2, <1>3, <2>1, <2>3, ValidBased DEF Based
  <2>5. d \in Known
    BY <1>5, <2>4
  <2>6. d = e
    BY <2>1, <2>4, <2>5 DEF RootOf
  <2> QED BY <1>9, <2>4, <2>6
<1> QED BY <1>9, <1>10 DEF Adds, t

(* What a step adds to the events S of its account: N, signed after them. *)
Contributes(a, o, S, N) ==
  /\ S \subseteq Known /\ EventsOf(a) \subseteq S /\ Keeps(o, S, N) /\ IsFiniteSet(N)
  /\ \A e \in N : /\ e \in Events /\ e.type # "created" /\ e.from = a
                  /\ \A d \in S : d.clock < e.clock
  /\ N # {} => Based(S)

(* A joining uses a notification or a new addition; so does a notification. *)
Answers(a, o, S, N) ==
  \/ (\A e \in N : e.type # "joined") /\ (o.chat.notified => chat[a].notified)
  \/ chat[a].notified /\ ~o.chat.notified /\ \E j : N = {j}
  \/ /\ \E e \in S \ EventsOf(a) : e.type = "added" /\ a \in e.members
     /\ N = {} \/ ((\E j : N = {j}) /\ (o.chat.notified => chat[a].notified))

(* Signing. *)
LEMMA SignsContributes ==
  ASSUME EventFacts, ClockInvariant, NEW a \in Accounts, NEW o, Signs(a, o)
  PROVE  \E S, N : Contributes(a, o, S, N) /\ Answers(a, o, S, N)
<1>1. GroupTypes /\ Absent /\ Passed
  BY DEF ClockInvariant
<1>2. PICK c \in ChatRecord, new \in Seq(Events) : \E p \in Publish(a, c, new) :
        /\ c.exists /\ c.events = chat[a].events /\ c.clock = chat[a].clock
        /\ Fresh(a, c.clock, new) /\ Independent(new)
        /\ \A i \in 1..Len(new) : new[i].type # "created"
        /\ o.chat \in ChatRecord /\ Like(o.chat, p.chat) /\ o.sent = p.sent /\ o.error = p.error
        /\ new[1].type = "joined" => chat[a].notified /\ ~o.chat.notified
        /\ o.chat.notified => chat[a].notified
  BY DEF Signs
<1>3. PICK p \in Publish(a, c, new) :
        /\ c.exists /\ c.events = chat[a].events /\ c.clock = chat[a].clock
        /\ Fresh(a, c.clock, new) /\ Independent(new)
        /\ \A i \in 1..Len(new) : new[i].type # "created"
        /\ o.chat \in ChatRecord /\ Like(o.chat, p.chat) /\ o.sent = p.sent /\ o.error = p.error
        /\ new[1].type = "joined" => chat[a].notified /\ ~o.chat.notified
        /\ o.chat.notified => chat[a].notified
  BY <1>2
<1> DEFINE S == EventsOf(a)
<1>4. /\ Sorted(c.events) /\ \A e \in Range(c.events) : e.clock <= c.clock
  BY <1>1, <1>3 DEF Passed, EventsOf
<1>5. PICK N : /\ Signed(a, c.clock, p.chat.clock, N) /\ Keeps(p, Range(c.events), N)
               /\ N = {} \/ (N = Range(new) /\ newGroup(c.events).valid)
  BY <1>3, <1>4, PublishContributes, Zenon
<1>6. Range(new) = {new[i] : i \in 1..Len(new)} /\ Len(new) \in Nat /\ new # <<>> /\ IsFiniteSet(Range(new))
  BY <1>3 DEF Fresh, EventFacts, ElementsFact, FiniteRangeFact
<1>7. S = Range(c.events) /\ S \subseteq Known
  BY <1>1, <1>3, KnownEvents DEF EventsOf
<1> HIDE DEF S
<1>8. c.events \in Seq(Events) /\ c.clock \in Nat /\ \A d \in S : d.clock \in Nat
  <2>1. c.events \in Seq(Events) /\ c.clock \in Nat
    BY DEF ChatRecord
  <2>2. S \subseteq Events
    BY <1>7, <2>1, Zenon DEF EventFacts, ElementsFact
  <2> QED BY <2>1, <2>2 DEF Events
<1>9. Keeps(o, S, N)
  BY <1>3, <1>5, <1>7 DEF Keeps, Like
<1>10. \A e \in N : e \in Events /\ e.clock \in Nat /\ e.from = a /\ c.clock < e.clock
  BY <1>5 DEF Signed, Events
<1>11. \A e \in N : e.type # "created"
  BY <1>3, <1>5, <1>6
<1>12. \A e \in N, d \in S : d.clock < e.clock
  BY <1>4, <1>7, <1>8, <1>10
<1>13. N # {} => Based(S)
  BY <1>4, <1>5, <1>7, <1>8, ValidBased
<1>14. IsFiniteSet(N)
  BY <1>5, <1>6, Zenon DEF EventFacts, EmptySetFact
<1>15. Contributes(a, o, S, N)
  BY <1>7, <1>9, <1>10, <1>11, <1>12, <1>13, <1>14, Zenon DEF Contributes, S
<1>16. Answers(a, o, S, N)
  <2>1. CASE \A e \in N : e.type # "joined"
    BY <1>3, <2>1 DEF Answers
  <2>2. CASE \E e \in N : e.type = "joined"
    <3>1. PICK i \in 1..Len(new) : new[i].type = "joined" /\ N = Range(new)
      BY <1>5, <1>6, <2>2
    <3>2. Len(new) = 1
      BY <1>3, <3>1 DEF Independent, DetailsChanged
    <3>3. i = 1 /\ N = {new[1]}
      BY <1>6, <3>1, <3>2
    <3> QED BY <1>3, <3>1, <3>3, Zenon DEF Answers
  <2> QED BY <2>1, <2>2
<1> QED BY <1>15, <1>16

(* Merging an update. *)
LEMMA TakesContributes ==
  ASSUME EventFacts, ClockInvariant, Rooted, NEW a \in Accounts, NEW o, Takes(a, o)
  PROVE  \E S, N : Contributes(a, o, S, N) /\ Answers(a, o, S, N)
<1>1. GroupTypes /\ Absent /\ Passed
  BY DEF ClockInvariant
<1>2. PICK m \in net : TakesUpdate(a, m, o)
  BY DEF Takes
<1>3. PICK c \in ChatRecord : \E p :
        /\ Told(a, m, c)
        /\ \/ p = Outcome(c, {}, "none") /\ (c.notified => chat[a].notified \/ Added(a, c))
           \/ p \in ConfirmJoiningGroup(a, c) /\ Added(a, c) /\ c.notified = chat[a].notified
        /\ o.chat \in ChatRecord /\ o.chat.exists = p.chat.exists /\ o.chat.events = p.chat.events
        /\ o.chat.notified = p.chat.notified /\ o.sent = p.sent /\ o.error = p.error
  BY <1>2 DEF TakesUpdate
<1>4. PICK p :
        /\ Told(a, m, c)
        /\ \/ p = Outcome(c, {}, "none") /\ (c.notified => chat[a].notified \/ Added(a, c))
           \/ p \in ConfirmJoiningGroup(a, c) /\ Added(a, c) /\ c.notified = chat[a].notified
        /\ o.chat \in ChatRecord /\ o.chat.exists = p.chat.exists /\ o.chat.events = p.chat.events
        /\ o.chat.notified = p.chat.notified /\ o.sent = p.sent /\ o.error = p.error
  BY <1>3
<1> DEFINE S == Range(c.events)
<1>5. /\ c.exists /\ Sorted(c.events) /\ S = EventsOf(a) \cup Range(m.events)
      /\ newGroup(c.events).valid /\ \A e \in S : e.clock <= c.clock
  BY <1>4 DEF Told
<1>6. S \subseteq Known /\ EventsOf(a) \subseteq S
  <2> HIDE DEF S
  <2> QED BY <1>1, <1>5, KnownEvents
<1>7. c.events \in Seq(Events) /\ c.clock \in Nat /\ \A d \in S : d.clock \in Nat
  BY Zenon DEF ChatRecord, Events, EventFacts, ElementsFact
<1>8. Based(S)
  BY <1>5, <1>7, ValidBased, Zenon
<1>9. Added(a, c) => \E e \in S \ EventsOf(a) : e.type = "added" /\ a \in e.members
  BY <1>4, NewlyAdded
<1>10. CASE p = Outcome(c, {}, "none") /\ (c.notified => chat[a].notified \/ Added(a, c))
  <2>1. p.chat = c /\ p.sent = {} /\ p.error = "none"
    BY <1>10 DEF Outcome
  <2>2. Keeps(o, S, {})
    BY <1>4, <1>5, <2>1 DEF Keeps
  <2> HIDE DEF S
  <2>3. Contributes(a, o, S, {})
    BY <1>6, <2>2, Zenon DEF Contributes, EventFacts, EmptySetFact
  <2>4. Answers(a, o, S, {})
    BY <1>4, <1>9, <1>10, <2>1 DEF Answers
  <2> QED BY <2>3, <2>4
<1>11. CASE p \in ConfirmJoiningGroup(a, c) /\ Added(a, c) /\ c.notified = chat[a].notified
  <2> DEFINE e == Event("joined", a, NextClock(a, c), {})
             new == <<e>>
  <2>1. NextClock(a, c) \in Nat /\ c.clock < NextClock(a, c)
    BY <1>1, <1>7, NextClockAdvances
  <2>2. e \in Events /\ e.from = a /\ e.clock = NextClock(a, c) /\ e.type = "joined"
    BY <2>1 DEF Event, Events
  <2>3. p \in Publish(a, c, new)
    BY <1>11 DEF ConfirmJoiningGroup
  <2> HIDE DEF e
  <2>4. Fresh(a, c.clock, new) /\ new \in Seq(Events) /\ Len(new) = 1 /\ new[1] = e
    BY <1>7, <2>1, <2>2, OneEvent
  <2> HIDE DEF new
  <2>5. Range(new) = {e}
    <3>1. Range(new) = {new[i] : i \in 1..1}
      BY <2>4 DEF EventFacts, ElementsFact
    <3> QED BY <2>4, <3>1
  <2>6. p.chat.notified = c.notified /\ \E N : Keeps(p, S, N) /\ (N = {} \/ N = {e})
    <3>1. c.exists /\ Sorted(c.events) /\ \A d \in Range(c.events) : d.clock <= c.clock
      BY <1>5
    <3>2. Fresh(a, c.clock, new)
      BY <2>4
    <3>3. p.chat.active = c.active /\ p.chat.notified = c.notified
      BY <2>3, <3>1, <3>2, PublishContributes
    <3>4. \E N : /\ Signed(a, c.clock, p.chat.clock, N) /\ Keeps(p, Range(c.events), N)
                 /\ N = {} \/ (N = Range(new) /\ newGroup(c.events).valid)
      BY <2>3, <3>1, <3>2, PublishContributes
    <3> QED BY <2>5, <3>3, <3>4
  <2>7. PICK N : Keeps(p, S, N) /\ (N = {} \/ N = {e})
    BY <2>6
  <2> HIDE DEF S
  <2>8. Keeps(o, S, N)
    BY <1>4, <2>7 DEF Keeps
  <2>9. \A d \in S : d.clock < e.clock
    BY <1>5, <1>7, <2>1, <2>2
  <2>10. IsFiniteSet(N)
    BY <2>7, Zenon DEF EventFacts, EmptySetFact, SingletonFact
  <2>11. Contributes(a, o, S, N)
    BY <1>6, <1>8, <2>2, <2>7, <2>8, <2>9, <2>10, Zenon DEF Contributes
  <2>12. Answers(a, o, S, N)
    BY <1>4, <1>9, <1>11, <2>6, <2>7, Zenon DEF Answers
  <2> QED BY <2>11, <2>12
<1> QED BY <1>4, <1>10, <1>11

(* All steps of a group that exists. *)
LEMMA Contribution ==
  ASSUME EventFacts, ClockInvariant, Rooted, NEW a \in Accounts, NEW o,
         Signs(a, o) \/ Idles(a, o) \/ Takes(a, o)
  PROVE  \E S, N : Contributes(a, o, S, N) /\ Answers(a, o, S, N)
<1>1. GroupTypes /\ Absent /\ Passed
  BY DEF ClockInvariant
<1>2. CASE Idles(a, o)
  <2>1. /\ o.chat \in ChatRecord /\ o.chat.exists /\ o.chat.events = chat[a].events
        /\ o.sent \subseteq UpdateRecord /\ \A m \in o.sent : m.events = chat[a].events
        /\ o.chat.notified => chat[a].notified
    BY <1>2 DEF Idles
  <2>2. Keeps(o, EventsOf(a), {})
    BY <1>1, <2>1 DEF Keeps, EventsOf, Passed
  <2>3. EventsOf(a) \subseteq Known
    BY <1>1, KnownEvents
  <2>4. Contributes(a, o, EventsOf(a), {})
    BY <2>2, <2>3, Zenon DEF Contributes, EventFacts, EmptySetFact
  <2>5. Answers(a, o, EventsOf(a), {})
    BY <2>1 DEF Answers
  <2> QED BY <2>4, <2>5
<1> QED BY <1>2, SignsContributes, TakesContributes

(* What is known after such a step. *)
LEMMA Contributed ==
  ASSUME EventFacts, GroupTypes, NEW a \in Accounts, NEW o, Steps(a, o), NEW S, NEW N, Contributes(a, o, S, N)
  PROVE  /\ Known' \subseteq Known \cup N /\ S \subseteq EventsOf(a)'
         /\ chat'[a] = o.chat /\ o.chat.exists
         /\ \A b \in Accounts \ {a} : chat'[b] = chat[b] /\ EventsOf(b)' = EventsOf(b)
<1>1. /\ chat \in [Accounts -> ChatRecord] /\ chat' = [chat EXCEPT ![a] = o.chat]
      /\ net' = net \cup o.sent
  BY DEF GroupTypes, Steps
<1>2. /\ S \subseteq Range(o.chat.events) /\ Range(o.chat.events) \subseteq S \cup N
      /\ \A m \in o.sent : Range(m.events) \subseteq S \cup N
      /\ S \subseteq Known /\ o.chat.exists
  BY DEF Contributes, Keeps
<1>3. chat'[a] = o.chat /\ \A b \in Accounts \ {a} : chat'[b] = chat[b]
  BY <1>1
<1>4. EventsOf(a)' = Range(o.chat.events) /\ \A b \in Accounts \ {a} : EventsOf(b)' = EventsOf(b)
  BY <1>3 DEF EventsOf
<1>5. \A b \in Accounts : EventsOf(b)' \subseteq Known \cup N
  <2> TAKE b \in Accounts
  <2>1. EventsOf(b) \subseteq Known
    BY KnownEvents
  <2> QED BY <1>2, <1>4, <2>1
<1>6. \A m \in net' : Range(m.events) \subseteq Known \cup N
  BY <1>1, <1>2, KnownEvents
<1>7. Known' \subseteq Known \cup N
  BY <1>5, <1>6, Zenon DEF Known
<1> QED BY <1>2, <1>3, <1>4, <1>7

(* What an account has once it took the update m. *)
LEMMA TakesKeeps ==
  ASSUME EventFacts, ClockInvariant, NEW a \in Accounts, NEW m \in net, NEW o, TakesUpdate(a, m, o)
  PROVE  /\ \E c \in ChatRecord : /\ Told(a, m, c) /\ o.chat.active = c.active
                                  /\ Range(c.events) \subseteq Range(o.chat.events)
         /\ o.chat.events \in Seq(Events) /\ Sorted(o.chat.events) /\ newGroup(o.chat.events).valid
         /\ o.chat.members = newGroup(o.chat.events).members
<1>1. GroupTypes /\ Absent /\ Passed
  BY Zenon DEF ClockInvariant
<1>2. PICK c \in ChatRecord : \E p :
        /\ Told(a, m, c) /\ p \in {Outcome(c, {}, "none")} \cup ConfirmJoiningGroup(a, c)
        /\ o.chat \in ChatRecord /\ o.chat.events = p.chat.events /\ o.chat.members = p.chat.members
        /\ o.chat.active = p.chat.active
  BY DEF TakesUpdate
<1>3. PICK p :
        /\ Told(a, m, c) /\ p \in {Outcome(c, {}, "none")} \cup ConfirmJoiningGroup(a, c)
        /\ o.chat \in ChatRecord /\ o.chat.events = p.chat.events /\ o.chat.members = p.chat.members
        /\ o.chat.active = p.chat.active
  BY <1>2, Zenon
<1>4. /\ c.exists /\ Sorted(c.events) /\ \A d \in Range(c.events) : d.clock <= c.clock
      /\ newGroup(c.events).valid /\ c.members = newGroup(c.events).members
  BY <1>3 DEF Told
<1>5. o.chat.events \in Seq(Events) /\ c.clock \in Nat
  BY <1>3, Zenon DEF ChatRecord
<1>6. CASE p = Outcome(c, {}, "none")
  <2>1. p.chat = c
    BY <1>6, Zenon DEF Outcome
  <2> QED BY <1>3, <1>4, <1>5, <2>1
<1>7. CASE p \in ConfirmJoiningGroup(a, c)
  <2> DEFINE e == Event("joined", a, NextClock(a, c), {})
             new == <<e>>
  <2>1. NextClock(a, c) \in Nat /\ c.clock < NextClock(a, c)
    BY <1>1, <1>5, NextClockAdvances, Zenon
  <2>2. e \in Events /\ e.from = a /\ e.clock = NextClock(a, c)
    BY <2>1 DEF Event, Events
  <2>3. p \in Publish(a, c, new)
    BY <1>7 DEF ConfirmJoiningGroup
  <2> HIDE DEF e
  <2>4. Fresh(a, c.clock, new)
    BY <1>5, <2>1, <2>2, OneEvent, Zenon
  <2> HIDE DEF new
  <2>5. p.chat.active = c.active
    BY <1>4, <2>3, <2>4, PublishContributes
  <2>6. PICK N : Keeps(p, Range(c.events), N)
    BY <1>4, <2>3, <2>4, PublishContributes, Zenon
  <2>7. Range(c.events) \subseteq Range(p.chat.events) /\ Sorted(p.chat.events)
    BY <2>6, Zenon DEF Keeps
  <2>8. /\ newGroup(p.chat.events).valid
        /\ p.error = "none" => p.chat.members = newGroup(p.chat.events).members
        /\ p.error # "none" => p.chat.events = c.events /\ p.chat.members = c.members
    BY <1>4, <2>3, <2>4, PublishRebuilds
  <2> QED BY <1>3, <1>4, <1>5, <2>5, <2>7, <2>8
<1> QED BY <1>3, <1>6, <1>7

(* The joinings of b that are known, and the additions of b it knows of. *)
Joins(b) == {e \in Known : e.type = "joined" /\ e.from = b}
Additions(b) == {e \in EventsOf(b) : e.type = "added" /\ b \in e.members}
Due(b) == IF chat[b].notified THEN 1 ELSE 0

(* Every joining, and a notification that is not accepted yet, has its addition. *)
Answered(b) == Cardinality(Joins(b)) + Due(b) <= Cardinality(Additions(b))

(* A creator whose chat is not active has been removed. *)
CreatorLeft ==
  failures = 0 /\ Creator \notin refused /\ chat[Creator].exists /\ ~chat[Creator].active =>
    \E r \in EventsOf(Creator) : Removes(r, Creator)

Traced ==
  /\ Rooted /\ IsFiniteSet(Known) /\ CreatorLeft
  /\ \A b \in Accounts \ refused : Answered(b)

(* These sets are finite. *)
LEMMA FiniteHistory ==
  ASSUME EventFacts, GroupTypes, IsFiniteSet(Known), NEW b \in Accounts
  PROVE  /\ IsFiniteSet(Joins(b)) /\ IsFiniteSet(Additions(b))
         /\ Cardinality(Joins(b)) \in Nat /\ Cardinality(Additions(b)) \in Nat
<1>1. Joins(b) \subseteq Known /\ Additions(b) \subseteq Known
  BY KnownEvents DEF Joins, Additions
<1>2. IsFiniteSet(Joins(b)) /\ IsFiniteSet(Additions(b))
  BY <1>1 DEF EventFacts, SubsetFact
<1> QED BY <1>2 DEF EventFacts, CardinalityFact

(* The group stays rooted: what is signed comes after its creation. *)
LEMMA RootedStep ==
  ASSUME EventFacts, GroupTypes, Rooted, IsFiniteSet(Known), NEW a \in Accounts, NEW o, Steps(a, o),
         chat[Creator].exists, NEW S, NEW N, Contributes(a, o, S, N)
  PROVE  Rooted' /\ IsFiniteSet(Known')
<1>1. /\ Known' \subseteq Known \cup N /\ chat'[a] = o.chat /\ o.chat.exists
      /\ \A b \in Accounts \ {a} : chat'[b] = chat[b]
  BY Contributed
<1>2. /\ S \subseteq Known /\ IsFiniteSet(N) /\ (N # {} => Based(S)) /\ RootOf(Known)
      /\ \A e \in N : e \in Events /\ e.type # "created" /\ \A d \in S : d.clock < e.clock
  BY DEF Contributes, Rooted
<1>3. IsFiniteSet(Known')
  <2>1. IsFiniteSet(Known \cup N)
    BY <1>2 DEF EventFacts, UnionFact
  <2> QED BY <1>1, <2>1 DEF EventFacts, SubsetFact
<1>4. chat'[Creator].exists
  BY <1>1, GroupAssumption
<1>5. ASSUME NEW c \in Known', NEW e \in Known', c.type = "created"
      PROVE  c.from = Creator /\ (e = c \/ (c.clock < e.clock /\ e.type # "created"))
  <2>1. c \in Known
    BY <1>1, <1>2, <1>5, Zenon
  <2>2. c.from = Creator
    BY <1>2, <1>5, <2>1, Zenon DEF RootOf
  <2>3. CASE e \in Known
    BY <1>2, <1>5, <2>1, <2>3, Zenon DEF RootOf
  <2>4. CASE e \in N
    <3>1. PICK d \in S : d.type = "created"
      BY <1>2, <2>4 DEF Based
    <3>2. d = c
      BY <1>2, <1>5, <2>1, <3>1 DEF RootOf
    <3> QED BY <1>2, <2>2, <2>4, <3>2
  <2> QED BY <1>1, <2>2, <2>3, <2>4, Zenon
<1>6. RootOf(Known)'
  BY <1>5 DEF RootOf
<1> QED BY <1>3, <1>4, <1>6 DEF Rooted

(* Every joining goes on having its addition. *)
LEMMA AnsweredStep ==
  ASSUME EventFacts, GroupTypes, GroupTypes', IsFiniteSet(Known), IsFiniteSet(Known'), NEW a \in Accounts, NEW o,
         Steps(a, o), NEW S, NEW N, Contributes(a, o, S, N), Answers(a, o, S, N),
         NEW b \in Accounts, Answered(b)
  PROVE  Answered(b)'
<1> DEFINE J == Joins(b)
           K == Joins(b)'
           A == Additions(b)
           B == Additions(b)'
<1>1. /\ Known' \subseteq Known \cup N /\ S \subseteq EventsOf(a)' /\ chat'[a] = o.chat
      /\ \A x \in Accounts \ {a} : chat'[x] = chat[x] /\ EventsOf(x)' = EventsOf(x)
  BY Contributed
<1>2. EventsOf(a) \subseteq S /\ \A e \in N : e.from = a
  BY DEF Contributes
<1>3. /\ IsFiniteSet(J) /\ IsFiniteSet(A) /\ Cardinality(J) \in Nat /\ Cardinality(A) \in Nat
  BY FiniteHistory
<1>4. /\ IsFiniteSet(K) /\ IsFiniteSet(B) /\ Cardinality(K) \in Nat /\ Cardinality(B) \in Nat
  <2>1. K \subseteq Known'
    BY DEF Joins
  <2>2. B \subseteq EventsOf(b)' /\ IsFiniteSet(EventsOf(b)')
    <3>1. chat'[b].events \in Seq(Events)
      BY DEF GroupTypes, ChatRecord
    <3>2. EventsOf(b)' = Range(chat'[b].events)
      BY DEF EventsOf
    <3> QED BY <3>1, <3>2 DEF Additions, EventFacts, FiniteRangeFact
  <2>3. IsFiniteSet(K) /\ IsFiniteSet(B)
    BY <2>1, <2>2, Zenon DEF EventFacts, SubsetFact
  <2> QED BY <2>3 DEF EventFacts, CardinalityFact
<1>5. K \subseteq J \cup {e \in N : e.type = "joined" /\ b = a}
  BY <1>1, <1>2, Zenon DEF Joins
<1>6. A \subseteq B /\ (b = a => \A e \in S : e.type = "added" /\ b \in e.members => e \in B)
  <2>1. CASE b = a
    BY <1>1, <1>2, <2>1, Zenon DEF Additions
  <2>2. CASE b # a
    BY <1>1, <2>2, Zenon DEF Additions
  <2> QED BY <2>1, <2>2, Zenon
<1>7. A \subseteq EventsOf(b) /\ Cardinality(J) + Due(b) <= Cardinality(A)
  BY DEF Additions, Answered
<1>8. Due(b) \in {0, 1} /\ Due(b)' \in {0, 1}
  BY DEF Due
<1>9. (b # a => Due(b)' = Due(b)) /\ (b = a => Due(b)' = IF o.chat.notified THEN 1 ELSE 0)
  BY <1>1, Zenon DEF Due
<1> HIDE DEF J, K, A, B
<1>10. Cardinality(A) <= Cardinality(B)
  BY <1>4, <1>6 DEF EventFacts, SubsetFact
<1>11. K \subseteq J => Cardinality(K) <= Cardinality(J)
  BY <1>3 DEF EventFacts, SubsetFact
<1>12. \A j : K \subseteq J \cup {j} => Cardinality(K) <= Cardinality(J) + 1
  <2> TAKE j
  <2> HAVE K \subseteq J \cup {j}
  <2>1. /\ IsFiniteSet(J \cup {j})
        /\ Cardinality(J \cup {j}) = IF j \in J THEN Cardinality(J) ELSE Cardinality(J) + 1
    BY <1>3, Zenon DEF EventFacts, AddElementFact
  <2>2. Cardinality(K) <= Cardinality(J \cup {j})
    BY <2>1 DEF EventFacts, SubsetFact
  <2> QED BY <1>3, <1>4, <2>1, <2>2
<1>13. Cardinality(K) + Due(b)' <= Cardinality(B)
  <2>1. CASE b # a
    <3>1. K \subseteq J
      BY <1>5, <2>1
    <3> QED BY <1>3, <1>4, <1>7, <1>8, <1>9, <1>10, <1>11, <2>1, <3>1
  <2>2. CASE b = a /\ (\A e \in N : e.type # "joined") /\ (o.chat.notified => chat[a].notified)
    <3>1. K \subseteq J
      BY <1>5, <2>2, Zenon
    <3>2. Due(b)' <= Due(b)
      BY <1>9, <2>2 DEF Due
    <3> QED BY <1>3, <1>4, <1>7, <1>8, <1>10, <1>11, <3>1, <3>2
  <2>3. CASE b = a /\ chat[a].notified /\ ~o.chat.notified /\ \E j : N = {j}
    <3>1. PICK j : K \subseteq J \cup {j}
      BY <1>5, <2>3
    <3>2. Due(b) = 1 /\ Due(b)' = 0
      BY <1>9, <2>3 DEF Due
    <3>3. Cardinality(K) <= Cardinality(J) + 1
      BY <1>12, <3>1
    <3> QED BY <1>3, <1>4, <1>7, <1>10, <3>2, <3>3
  <2>4. CASE /\ b = a
             /\ \E e \in S \ EventsOf(a) : e.type = "added" /\ a \in e.members
             /\ N = {} \/ ((\E j : N = {j}) /\ (o.chat.notified => chat[a].notified))
    <3>1. PICK e \in S \ EventsOf(a) : e.type = "added" /\ a \in e.members
      BY <2>4, Zenon
    <3>2. e \notin A /\ A \cup {e} \subseteq B
      BY <1>6, <1>7, <2>4, <3>1
    <3>3. Cardinality(A) + 1 <= Cardinality(B)
      <4>1. Cardinality(A \cup {e}) = Cardinality(A) + 1
        BY <1>3, <3>2, Zenon DEF EventFacts, AddElementFact
      <4>2. Cardinality(A \cup {e}) <= Cardinality(B)
        BY <1>4, <3>2 DEF EventFacts, SubsetFact
      <4> QED BY <4>1, <4>2
    <3>4. Cardinality(K) + Due(b)' <= Cardinality(J) + Due(b) + 1
      <4>1. CASE N = {}
        <5>1. K \subseteq J
          BY <1>5, <4>1
        <5> QED BY <1>3, <1>4, <1>8, <1>11, <5>1
      <4>2. CASE (\E j : N = {j}) /\ (o.chat.notified => chat[a].notified)
        <5>1. PICK j : K \subseteq J \cup {j}
          BY <1>5, <4>2, Zenon
        <5>2. Due(b)' <= Due(b)
          BY <1>9, <2>4, <4>2 DEF Due
        <5>3. Cardinality(K) <= Cardinality(J) + 1
          BY <1>12, <5>1, Zenon
        <5> QED BY <1>3, <1>4, <1>8, <5>2, <5>3
      <4> QED BY <2>4, <4>1, <4>2, Zenon
    <3> QED BY <1>3, <1>4, <1>7, <1>8, <3>3, <3>4
  <2> QED BY <2>1, <2>2, <2>3, <2>4, Zenon DEF Answers
<1> QED BY <1>13, Zenon DEF Answered, K, B

(* The founding of the group. *)
LEMMA FoundsTraces ==
  ASSUME EventFacts, ClockInvariant, Rooted, NEW a \in Accounts, NEW o, Steps(a, o), Founds(a, o), GroupTypes'
  PROVE  Traced'
<1>1. GroupTypes /\ Absent
  BY DEF ClockInvariant
<1>0. PICK c \in ChatRecord, new \in Seq(Events), created \in Events : FoundedBy(a, o, c, new, created)
  BY <1>1, Foundation, Zenon
<1>2. /\ a = Creator /\ ~chat[Creator].exists /\ o \in Publish(a, c, new)
      /\ created.type = "created" /\ created.from = Creator /\ created.clock = c.clock
      /\ c.exists /\ Range(c.events) = {created} /\ Sorted(c.events)
      /\ Fresh(a, c.clock, new) /\ Len(new) = 1 /\ new[1].type = "added"
      /\ c.active /\ ~c.notified
  BY <1>0, Zenon DEF FoundedBy
<1>3. \A e \in Range(c.events) : e.clock <= c.clock
  <2>1. c.clock \in Nat
    BY Zenon DEF ChatRecord
  <2>2. c.clock <= c.clock
    BY <2>1
  <2> QED BY <1>2, <2>2, Zenon
<1>4. o.chat.active = c.active /\ o.chat.notified = c.notified
  <2>1. c.exists /\ Sorted(c.events) /\ Fresh(a, c.clock, new) /\ o \in Publish(a, c, new)
    BY <1>2
  <2> QED BY <1>3, <2>1, PublishContributes
<1>5. PICK N : /\ Signed(a, c.clock, o.chat.clock, N) /\ Keeps(o, Range(c.events), N)
               /\ N = {} \/ (N = Range(new) /\ newGroup(c.events).valid)
  BY <1>2, <1>3, PublishContributes, Zenon
<1>6. N \subseteq {new[1]}
  <2>1. Range(new) = {new[i] : i \in 1..1}
    BY <1>2, Zenon DEF EventFacts, ElementsFact
  <2> QED BY <1>5, <2>1
<1>7. \A e \in N : e.type = "added" /\ created.clock < e.clock
  BY <1>2, <1>5, <1>6, Zenon DEF Signed
<1>8. /\ net = {} /\ \A b \in Accounts : chat[b] = NoChat
  BY <1>1, <1>2, Zenon DEF Rooted, Absent
<1>9. /\ chat' = [chat EXCEPT ![a] = o.chat] /\ net' = o.sent /\ chat \in [Accounts -> ChatRecord]
  BY <1>1, <1>8 DEF Steps, GroupTypes
<1>10. chat'[a] = o.chat /\ \A b \in Accounts \ {a} : chat'[b] = NoChat
  BY <1>8, <1>9
<1>11. Known' \subseteq {created} \cup N
  <2>1. /\ Range(o.chat.events) \subseteq {created} \cup N
        /\ \A m \in o.sent : Range(m.events) \subseteq {created} \cup N
    BY <1>2, <1>5, Zenon DEF Keeps
  <2>2. EventsOf(a)' = Range(o.chat.events) /\ \A b \in Accounts \ {a} : EventsOf(b)' = {}
    BY <1>10 DEF EventsOf, NoChat, Range
  <2>3. \A b \in Accounts : EventsOf(b)' \subseteq {created} \cup N
    BY <2>1, <2>2
  <2> QED BY <1>9, <2>1, <2>3 DEF Known
<1>12. RootOf(Known)'
  <2>1. \A d, e \in Known' : d.type = "created" => /\ d.from = Creator
                                                   /\ e = d \/ (d.clock < e.clock /\ e.type # "created")
    BY <1>2, <1>7, <1>11
  <2> QED BY <2>1, Zenon DEF RootOf
<1>13. chat'[Creator].exists /\ chat'[Creator].active
  BY <1>2, <1>4, <1>5, <1>10, Zenon DEF Keeps
<1>14. IsFiniteSet(Known')
  <2>1. IsFiniteSet({created}) /\ IsFiniteSet({new[1]})
    BY Zenon DEF EventFacts, SingletonFact
  <2>2. IsFiniteSet({created} \cup {new[1]})
    BY <2>1 DEF EventFacts, UnionFact
  <2>3. Known' \subseteq {created} \cup {new[1]}
    BY <1>6, <1>11
  <2> QED BY <2>2, <2>3, Zenon DEF EventFacts, SubsetFact
<1>15. ASSUME NEW b \in Accounts PROVE Answered(b)'
  <2>1. Joins(b)' = {}
    BY <1>2, <1>7, <1>11 DEF Joins
  <2>2. Due(b)' = 0
    <3>1. ~chat'[b].notified
      <4>1. CASE b = a
        BY <1>2, <1>4, <1>10, <4>1, Zenon
      <4>2. CASE b # a
        <5>1. chat'[b] = NoChat
          BY <1>10, <4>2, Zenon
        <5> QED BY <5>1 DEF NoChat
      <4> QED BY <4>1, <4>2, Zenon
    <3> QED BY <3>1, Zenon DEF Due
  <2>3. Cardinality(Joins(b)') = 0
    BY <2>1, Zenon DEF EventFacts, EmptySetFact
  <2>4. Additions(b)' \subseteq EventsOf(b)' /\ IsFiniteSet(EventsOf(b)')
    <3>1. chat'[b].events \in Seq(Events)
      BY DEF GroupTypes, ChatRecord
    <3>2. EventsOf(b)' = Range(chat'[b].events)
      BY DEF EventsOf
    <3> QED BY <3>1, <3>2, Zenon DEF Additions, EventFacts, FiniteRangeFact
  <2>5. IsFiniteSet(Additions(b)')
    BY <2>4 DEF EventFacts, SubsetFact
  <2>6. Cardinality(Additions(b)') \in Nat
    BY <2>5 DEF EventFacts, CardinalityFact
  <2> QED BY <2>2, <2>3, <2>6 DEF Answered
<1> QED BY <1>12, <1>13, <1>14, <1>15 DEF Traced, Rooted, CreatorLeft

(* A chat becomes inactive only with its account out of the group. *)
LEMMA DeactivatedLeft ==
  ASSUME EventFacts, ClockInvariant, Rebuilt, NEW a \in Accounts, a = Creator, a \notin refused, chat[a].exists,
         failures = 0, NEW o, Signs(a, o) \/ Idles(a, o) \/ Takes(a, o),
         chat[a].active, ~o.chat.active
  PROVE  \E r \in Range(o.chat.events) : Removes(r, a)
<1>1. GroupTypes /\ Absent /\ Passed
  BY DEF ClockInvariant
<1>2. chat[a].events \in Seq(Events) /\ Sorted(chat[a].events)
  BY <1>1, Zenon DEF GroupTypes, ChatRecord, Passed
<1>3. CASE Signs(a, o)
  <2>1. PICK c \in ChatRecord, new \in Seq(Events) : \E p \in Publish(a, c, new) :
          /\ Fresh(a, c.clock, new) /\ Leaving(a, new) /\ o.error = "none"
          /\ Like(o.chat, p.chat) /\ o.error = p.error
    BY <1>3, ZenonT(40) DEF Signs
  <2>2. PICK p \in Publish(a, c, new) :
          /\ Fresh(a, c.clock, new) /\ Leaving(a, new) /\ o.error = "none"
          /\ Like(o.chat, p.chat) /\ o.error = p.error
    BY <2>1
  <2>3. Published(a, c, new, p) /\ new # <<>>
    BY <2>2, PublishShape, Zenon DEF Fresh
  <2>4. o.chat.events = c.events \o new /\ c.events \in Seq(Events)
    BY <2>2, <2>3, Zenon DEF Published, Like, ChatRecord
  <2>5. Range(new) \subseteq Range(o.chat.events)
    BY <2>4, Zenon DEF EventFacts, ConcatenationFact
  <2>6. new[1] \in Range(new) /\ Removes(new[1], a)
    <3>1. Len(new) = 1 /\ Range(new) = {new[i] : i \in 1..Len(new)}
      BY <2>2, Zenon DEF Leaving, EventFacts, ElementsFact
    <3>2. 1 \in 1..Len(new)
      BY <3>1
    <3> QED BY <2>2, <3>1, <3>2 DEF Leaving, Removes
  <2> QED BY <2>5, <2>6
<1>4. CASE Idles(a, o)
  <2> DEFINE s == chat[a].events
  <2>1. o.chat.events = s /\ a \notin chat[a].members
    BY <1>4, Zenon DEF Idles
  <2>2. newGroup(s).valid /\ a \notin newGroup(s).members
    BY <2>1 DEF Rebuilt
  <2>3. ~AddedLast(s, Len(s), a) /\ FoundedByCreator(s)
    BY <1>2, <2>2, Zenon DEF EventFacts, GroupMembersFact
  <2>4. Range(s) = {s[i] : i \in 1..Len(s)} /\ Len(s) \in Nat /\ s # <<>>
    BY <1>2, <2>3, Zenon DEF FoundedByCreator, EventFacts, ElementsFact
  <2>5. 1 \in 1..Len(s) /\ Adds(s[1], a)
    <3>1. 1 \in 1..Len(s)
      <4>1. s \in Seq(Events) /\ s # <<>>
        BY <1>2, <2>4, Zenon
      <4> HIDE DEF s
      <4> QED BY <4>1
    <3>2. Adds(s[1], a)
      BY <2>3, Zenon DEF FoundedByCreator, Adds
    <3> QED BY <3>1, <3>2, Zenon
  <2>6. PICK j \in 1..Len(s) : Removes(s[j], a)
    BY <2>3, <2>5 DEF AddedLast
  <2> QED BY <2>1, <2>4, <2>6, Zenon
<1>5. CASE Takes(a, o)
  <2>1. PICK m \in net : TakesUpdate(a, m, o)
    BY <1>5 DEF Takes
  <2>2. PICK c \in ChatRecord : Told(a, m, c) /\ o.chat.active = c.active
    BY <2>1, TakesKeeps, Zenon
  <2> QED BY <2>2, Zenon DEF Told
<1> QED BY <1>3, <1>4, <1>5

(* Every step keeps Traced. *)
LEMMA TracedStep ==
  ASSUME EventFacts, ClockInvariant, Rebuilt, Traced, [GroupNext]_groupVars
  PROVE  Traced'
<1>1. GroupTypes /\ Absent /\ Passed /\ ClockInvariant' /\ GroupTypes'
  BY ClockStep DEF ClockInvariant
<1>2. Rooted /\ IsFiniteSet(Known) /\ CreatorLeft /\ \A b \in Accounts \ refused : Answered(b)
  BY DEF Traced
<1>3. CASE UNCHANGED groupVars \/ Tick
  <2>1. UNCHANGED <<chat, net, failures, refused>>
    BY <1>3 DEF Tick, groupVars
  <2>2. Known' = Known /\ \A b \in Accounts : EventsOf(b)' = EventsOf(b)
    BY <2>1 DEF Known, EventsOf
  <2>3. Rooted'
    BY <1>2, <2>1, <2>2, Zenon DEF Rooted, RootOf
  <2>4. CreatorLeft'
    BY <1>2, <2>1, <2>2, GroupAssumption, Zenon DEF CreatorLeft
  <2>5. ASSUME NEW b \in Accounts \ refused PROVE Answered(b)'
    <3>1. Joins(b)' = Joins(b) /\ Additions(b)' = Additions(b) /\ Due(b)' = Due(b)
      BY <2>1, <2>2 DEF Joins, Additions, Due
    <3> QED BY <1>2, <3>1, Zenon DEF Answered
  <2> QED BY <1>2, <2>1, <2>2, <2>3, <2>4, <2>5, Zenon DEF Traced
<1>4. ASSUME NEW a \in Accounts, NEW o, Steps(a, o), Founds(a, o) PROVE Traced'
  BY <1>1, <1>2, <1>4, FoundsTraces, Zenon
<1>5. ASSUME NEW a \in Accounts, NEW o, Steps(a, o), Signs(a, o) \/ Idles(a, o) \/ Takes(a, o)
      PROVE  Traced'
  <2>1. PICK S, N : Contributes(a, o, S, N) /\ Answers(a, o, S, N)
    BY <1>2, <1>5, Contribution
  <2>2. chat[Creator].exists
    BY <1>2, <1>5, Zenon DEF Rooted, Signs, Idles, Takes
  <2>3. Rooted' /\ IsFiniteSet(Known')
    BY <1>1, <1>2, <1>5, <2>1, <2>2, RootedStep, Zenon
  <2>4. refused' = refused /\ (failures' = 0 => failures = 0)
    BY <1>1, <1>5 DEF Steps, GroupTypes
  <2>5. ASSUME NEW b \in Accounts \ refused' PROVE Answered(b)'
    <3>1. b \in Accounts /\ Answered(b)
      BY <1>2, <2>4, Zenon
    <3> QED BY <1>1, <1>2, <1>5, <2>1, <2>3, <3>1, AnsweredStep, Zenon
  <2>6. /\ S \subseteq EventsOf(a)' /\ chat'[a] = o.chat
        /\ \A b \in Accounts \ {a} : chat'[b] = chat[b] /\ EventsOf(b)' = EventsOf(b)
    BY <1>1, <1>5, <2>1, Contributed, Zenon
  <2>7. CreatorLeft'
    <3> SUFFICES ASSUME failures' = 0, Creator \notin refused', ~chat'[Creator].active
                 PROVE  \E r \in EventsOf(Creator)' : Removes(r, Creator)
      BY DEF CreatorLeft
    <3>1. failures = 0 /\ Creator \notin refused /\ Creator \in Accounts
      BY <2>4, GroupAssumption
    <3>2. CASE ~chat[Creator].active
      <4>1. PICK r \in EventsOf(Creator) : Removes(r, Creator)
        BY <1>2, <2>2, <3>1, <3>2, Zenon DEF CreatorLeft
      <4>2. EventsOf(a) \subseteq S
        BY <2>1, Zenon DEF Contributes
      <4>3. r \in EventsOf(Creator)'
        BY <2>6, <3>1, <4>1, <4>2
      <4> QED BY <4>1, <4>3, Zenon
    <3>3. CASE chat[Creator].active
      <4>1. a = Creator
        BY <2>6, <3>1, <3>3, Zenon
      <4>2. ~o.chat.active /\ EventsOf(a)' = Range(o.chat.events)
        BY <2>6, <4>1, Zenon DEF EventsOf
      <4>3. \E r \in Range(o.chat.events) : Removes(r, a)
        BY <1>5, <2>2, <3>1, <3>3, <4>1, <4>2, DeactivatedLeft, Zenon
      <4> QED BY <4>1, <4>2, <4>3, Zenon
    <3> QED BY <3>2, <3>3
  <2> QED BY <2>3, <2>5, <2>7 DEF Traced
<1>6. ASSUME NEW a \in Accounts, Refuses(a) PROVE Traced'
  <2>1. /\ net' = net /\ failures' = failures /\ refused' = refused \cup {a}
        /\ \A b \in Accounts : EventsOf(b)' \subseteq Known
        /\ \A b \in Accounts : chat'[b].exists = chat[b].exists
        /\ \A b \in Accounts \ {a} : chat'[b] = chat[b]
    BY <1>6, RefusedClocks, Zenon
  <2>2. Known' \subseteq Known
    <3>1. \A m \in net : Range(m.events) \subseteq Known
      BY <1>1, KnownEvents
    <3> QED BY <2>1, <3>1 DEF Known
  <2>3. IsFiniteSet(Known')
    BY <1>2, <2>2, Zenon DEF EventFacts, SubsetFact
  <2>4. Rooted'
    <3>1. RootOf(Known)'
      BY <1>2, <2>2, Zenon DEF Rooted, RootOf
    <3> QED BY <1>2, <2>1, <3>1, GroupAssumption, Zenon DEF Rooted
  <2>5. \A b \in Accounts \ refused' : chat'[b] = chat[b] /\ EventsOf(b)' = EventsOf(b) /\ b \in Accounts \ refused
    BY <2>1, Zenon DEF EventsOf
  <2>6. CreatorLeft'
    <3>1. Creator \notin refused' => chat'[Creator] = chat[Creator] /\ EventsOf(Creator)' = EventsOf(Creator)
      BY <2>5, GroupAssumption, Zenon
    <3>2. Creator \notin refused' => Creator \notin refused
      BY <2>1
    <3> QED BY <1>2, <2>1, <3>1, <3>2, Zenon DEF CreatorLeft
  <2>7. ASSUME NEW b \in Accounts \ refused' PROVE Answered(b)'
    <3>1. Joins(b)' \subseteq Joins(b) /\ Additions(b)' = Additions(b) /\ Due(b)' = Due(b)
      BY <2>2, <2>5, Zenon DEF Joins, Additions, Due
    <3>2. IsFiniteSet(Joins(b)) /\ Cardinality(Joins(b)) \in Nat /\ Cardinality(Additions(b)) \in Nat
      BY <1>1, <1>2, <2>5, FiniteHistory, Zenon
    <3>3. Cardinality(Joins(b)') <= Cardinality(Joins(b)) /\ IsFiniteSet(Joins(b)')
      BY <3>1, <3>2, Zenon DEF EventFacts, SubsetFact
    <3>4. Cardinality(Joins(b)') \in Nat /\ Due(b) \in {0, 1}
      BY <3>3, Zenon DEF Due, EventFacts, CardinalityFact
    <3>5. Cardinality(Joins(b)) + Due(b) <= Cardinality(Additions(b))
      BY <1>2, <2>5 DEF Answered
    <3>6. Cardinality(Joins(b)') + Due(b) <= Cardinality(Additions(b))
      BY <3>2, <3>3, <3>4, <3>5
    <3> QED BY <3>1, <3>6, Zenon DEF Answered
  <2> QED BY <2>3, <2>4, <2>6, <2>7, Zenon DEF Traced
<1> QED BY <1>1, <1>3, <1>4, <1>5, <1>6, GroupSteps

(* It holds at the start. *)
LEMMA TracedInit ==
  ASSUME EventFacts
  PROVE  GroupInit => Traced
<1> SUFFICES ASSUME GroupInit PROVE Traced
  OBVIOUS
<1>1. /\ chat = [a \in Accounts |-> NoChat] /\ net = {}
  BY DEF GroupInit
<1>2. \A a \in Accounts : chat[a] = NoChat /\ EventsOf(a) = {}
  BY <1>1 DEF NoChat, EventsOf, Range
<1>3. Known = {}
  BY <1>1, <1>2 DEF Known
<1>4. Rooted /\ CreatorLeft
  BY <1>1, <1>2, <1>3, GroupAssumption, Zenon DEF Rooted, RootOf, CreatorLeft, NoChat
<1>5. ASSUME NEW b \in Accounts PROVE Answered(b)
  <2>1. Joins(b) = {} /\ Additions(b) = {} /\ Due(b) = 0
    BY <1>2, <1>3 DEF Joins, Additions, Due, NoChat
  <2>2. Cardinality({}) = 0
    BY DEF EventFacts, EmptySetFact
  <2> QED BY <2>1, <2>2 DEF Answered
<1> QED BY <1>3, <1>4, <1>5 DEF Traced, EventFacts, EmptySetFact
-----------------------------------------------------------------------------
(* An account that refused no update joins at most once each time it is added. *)
LEMMA AnswersFollow ==
  ASSUME EventFacts, ClockInvariant, Traced
  PROVE  JoinsAnswerAdds
<1>1. ASSUME NEW b \in Accounts \ refused
      PROVE  Cardinality({e \in Known : e.type = "joined" /\ e.from = b})
               <= Cardinality({e \in Known : e.type = "added" /\ b \in e.members})
  <2> DEFINE all == {e \in Known : e.type = "added" /\ b \in e.members}
  <2>1. GroupTypes /\ IsFiniteSet(Known) /\ Answered(b)
    BY <1>1 DEF ClockInvariant, Traced
  <2>2. /\ IsFiniteSet(Additions(b))
        /\ Cardinality(Joins(b)) \in Nat /\ Cardinality(Additions(b)) \in Nat
    BY <2>1, FiniteHistory, Zenon
  <2>3. Additions(b) \subseteq all
    BY <2>1, KnownEvents, Zenon DEF Additions
  <2>4. IsFiniteSet(all)
    BY <2>1, Zenon DEF EventFacts, SubsetFact
  <2>5. Cardinality(all) \in Nat
    BY <2>4, Zenon DEF EventFacts, CardinalityFact
  <2>6. Cardinality(Additions(b)) <= Cardinality(all)
    BY <2>3, <2>4, Zenon DEF EventFacts, SubsetFact
  <2>7. Cardinality(Joins(b)) + Due(b) <= Cardinality(Additions(b)) /\ Due(b) \in {0, 1}
    BY <2>1 DEF Answered, Due
  <2>8. Joins(b) = {e \in Known : e.type = "joined" /\ e.from = b}
    BY DEF Joins
  <2> HIDE DEF all
  <2>9. Cardinality(Joins(b)) <= Cardinality(all)
    BY <2>2, <2>5, <2>6, <2>7
  <2> QED BY <2>8, <2>9 DEF all
<1> QED BY <1>1 DEF JoinsAnswerAdds

(* A group that its user left comes back only with an addition not before *)
(* that, or with a notification that the user accepts.                    *)
Back(a) ==
  failures = 0 /\ chat[a].exists /\ ~chat[a].active /\ chat'[a].active /\ ~chat[a].notified =>
    \E e \in Range(chat'[a].events) :
      /\ e.type = "added" /\ a \in e.members
      /\ \A r \in EventsOf(a) : r.from = a /\ Removes(r, a) => r.clock <= e.clock

LEMMA BackWhenAdded ==
  ASSUME EventFacts, ClockInvariant, Traced, GroupNext, NEW a \in Accounts \ refused
  PROVE  Back(a)
<1>1. ASSUME failures = 0, chat[a].exists, ~chat[a].active, chat'[a].active, ~chat[a].notified
      PROVE  \E e \in Range(chat'[a].events) :
               /\ e.type = "added" /\ a \in e.members
               /\ \A r \in EventsOf(a) : r.from = a /\ Removes(r, a) => r.clock <= e.clock
  <2>1. GroupTypes /\ Absent /\ Passed
    BY <1>1 DEF ClockInvariant
  <2>2. chat \in [Accounts -> ChatRecord]
    BY <2>1 DEF GroupTypes
  <2>3. ASSUME NEW b \in Accounts, Refuses(b) PROVE FALSE
    <3>1. chat' = chat \/ \E m \in net : chat' = [chat EXCEPT ![b].events = SubSeq(MergedWith(b, m), 1, Len(chat[b].events))]
      BY <2>3 DEF Refuses
    <3>2. chat'[a].active = chat[a].active
      <4>1. CASE chat' = chat
        BY <4>1
      <4>2. ASSUME NEW s, chat' = [chat EXCEPT ![b].events = s] PROVE chat'[a].active = chat[a].active
        <5>1. chat'[a] = IF a = b THEN [chat[a] EXCEPT !.events = s] ELSE chat[a]
          BY <2>2, <4>2
        <5> QED BY <2>2, <5>1 DEF ChatRecord
      <4> QED BY <3>1, <4>1, <4>2
    <3> QED BY <1>1, <3>2
  <2>4. ~Tick
    BY <1>1, Zenon DEF Tick
  <2>5. PICK b \in Accounts :
          \E o : Steps(b, o) /\ (Founds(b, o) \/ Signs(b, o) \/ Idles(b, o) \/ Takes(b, o))
    BY <1>1, <2>1, <2>3, <2>4, GroupSteps, Zenon
  <2>6. PICK o : Steps(b, o) /\ (Founds(b, o) \/ Signs(b, o) \/ Idles(b, o) \/ Takes(b, o))
    BY <2>5, Zenon
  <2>7. b = a /\ chat'[a] = o.chat
    BY <1>1, <2>2, <2>6 DEF Steps
  <2>8. Takes(a, o)
    BY <1>1, <2>7, <2>6, Zenon DEF Founds, Signs, Idles
  <2>9. PICK m \in net : TakesUpdate(a, m, o)
    BY <2>8 DEF Takes
  <2>10. PICK c \in ChatRecord : /\ Told(a, m, c) /\ o.chat.active = c.active
                                /\ Range(c.events) \subseteq Range(o.chat.events)
    BY <1>1, <2>9, TakesKeeps, Zenon
  <2>11. /\ c.events \in Seq(Events) /\ Sorted(c.events) /\ newGroup(c.events).valid
         /\ a \in newGroup(c.events).members
         /\ Range(c.events) = EventsOf(a) \cup Range(m.events)
    BY <1>1, <2>7, <2>10, Zenon DEF Told, ChatRecord
  <2>12. PICK e \in Range(c.events) :
           Adds(e, a) /\ \A r \in Range(c.events) : Removes(r, a) => r.clock <= e.clock
    BY <2>11, Zenon DEF EventFacts, MembersAreAddedFact
  <2>13. e.type # "created"
    <3> SUFFICES ASSUME e.type = "created" PROVE FALSE
      OBVIOUS
    <3>1. RootOf(Known) /\ CreatorLeft
      BY <1>1, Zenon DEF Traced, Rooted
    <3>2. e \in Known /\ EventsOf(a) \subseteq Known /\ Known \subseteq Events
      BY <2>1, <2>11, <2>12, KnownEvents, Zenon
    <3>3. a = Creator
      BY <2>12, <3>1, <3>2, Zenon DEF RootOf, Adds
    <3>4. PICK r \in EventsOf(a) : Removes(r, a)
      BY <1>1, <3>1, <3>3, Zenon DEF CreatorLeft
    <3>5. r.clock <= e.clock /\ r.clock \in Nat /\ e.clock \in Nat
      BY <2>11, <2>12, <3>2, <3>4, Zenon DEF Events
    <3>6. e.clock < r.clock
      BY <3>1, <3>2, <3>4, Zenon DEF RootOf, Removes
    <3> QED BY <3>5, <3>6
  <2>14. e \in Range(chat'[a].events) /\ \A r \in EventsOf(a) : Removes(r, a) => r.clock <= e.clock
    BY <2>7, <2>10, <2>11, <2>12, Zenon
  <2> QED BY <2>12, <2>13, <2>14 DEF Adds
<1> QED BY <1>1, Zenon DEF Back

(* Who merges an update that removes them is a member no longer, unless *)
(* they know of an addition not before that.                            *)
Heeded ==
  \A a \in Accounts : \A m \in net :
    HandleMembershipUpdate(a, m) /\ a \notin refused' =>
      \A r \in Range(m.events) :
        Removes(r, a) =>
          \/ a \notin chat'[a].members
          \/ \E e \in Range(chat'[a].events) : Adds(e, a) /\ e.clock >= r.clock

LEMMA RemovalsHeeded ==
  ASSUME EventFacts, ClockInvariant
  PROVE  Heeded
<1>1. ASSUME NEW a \in Accounts, NEW m \in net, HandleMembershipUpdate(a, m),
             a \notin refused', NEW r \in Range(m.events), Removes(r, a), a \in chat'[a].members
      PROVE  \E e \in Range(chat'[a].events) : Adds(e, a) /\ e.clock >= r.clock
  <2>1. GroupTypes /\ Absent
    BY <1>1, Zenon DEF ClockInvariant
  <2>2. \E o : Steps(a, o) /\ TakesUpdate(a, m, o)
    <3>1. CASE HandleNewGroup(a, m)
      BY <2>1, <3>1, NewGroupTakes, Zenon
    <3>2. CASE MergeUpdate(a, m)
      <4>1. /\ chat[a].exists /\ newGroup(chat[a].events).valid
            /\ \/ AcceptUpdate(a, m, MergedWith(a, m), newGroup(MergedWith(a, m)))
               \/ RefuseUpdate(a, m, MergedWith(a, m), newGroup(MergedWith(a, m)))
        BY <3>2, Zenon DEF MergeUpdate, MergedWith
      <4>2. ~RefuseUpdate(a, m, MergedWith(a, m), newGroup(MergedWith(a, m)))
        BY <1>1 DEF RefuseUpdate
      <4> QED BY <2>1, <4>1, <4>2, AcceptTakes
    <3> QED BY <1>1, <3>1, <3>2, Zenon DEF HandleMembershipUpdate
  <2>3. PICK o : Steps(a, o) /\ TakesUpdate(a, m, o)
    BY <2>2, Zenon
  <2>4. chat'[a] = o.chat
    BY <2>1, <2>3 DEF Steps, GroupTypes
  <2>5. /\ o.chat.events \in Seq(Events) /\ Sorted(o.chat.events) /\ newGroup(o.chat.events).valid
        /\ o.chat.members = newGroup(o.chat.events).members
    BY <1>1, <2>3, TakesKeeps, Zenon
  <2>6. PICK c \in ChatRecord : Told(a, m, c) /\ Range(c.events) \subseteq Range(o.chat.events)
    BY <1>1, <2>3, TakesKeeps, Zenon
  <2>7. r \in Range(o.chat.events)
    BY <2>6, Zenon DEF Told
  <2>8. PICK e \in Range(o.chat.events) :
          Adds(e, a) /\ \A x \in Range(o.chat.events) : Removes(x, a) => x.clock <= e.clock
    BY <1>1, <2>4, <2>5, Zenon DEF EventFacts, MembersAreAddedFact
  <2>9. e.clock \in Nat /\ r.clock \in Nat
    BY <2>5, <2>7, <2>8, Zenon DEF Events, EventFacts, ElementsFact
  <2> QED BY <1>1, <2>4, <2>7, <2>8, <2>9, Zenon
<1> QED BY <1>1, Zenon DEF Heeded
-----------------------------------------------------------------------------
(* No update tells of a removal. *)
Quiet == \A m \in net : \A e \in Range(m.events) : e.type # "removed"

(* As long as that is so, no update is refused: what anybody has or is    *)
(* told is rooted in the creation of the group and supported, and nobody  *)
(* was removed but the creator, who left before it had told anybody else. *)
Calmed ==
  Quiet =>
    /\ refused = {} /\ RootOf(Known) /\ Loose(Known)
    /\ ~chat[Creator].exists => Known = {}
    /\ \A a \in Accounts : chat[a].exists => Based(EventsOf(a)) /\ Supported(EventsOf(a))
    /\ \A m \in net : Based(Range(m.events)) /\ Supported(Range(m.events))
    /\ \A a \in Accounts \ {Creator} : \A e \in EventsOf(a) : e.type # "removed"
    /\ (\E e \in Known : e.type = "admins") => Staff(EventsOf(Creator))

(* As long as no update tells of a removal, what an account has, with an update or without, is calm. *)
LEMMA CalmlyTold ==
  ASSUME EventFacts, ClockInvariant, Calmed, Quiet, NEW a \in Accounts, NEW S,
         \/ chat[a].exists /\ S = EventsOf(a)
         \/ \E m \in net : S = EventsOf(a) \cup Range(m.events)
  PROVE  Calm(a, Known, S)
<1>1. /\ RootOf(Known) /\ Loose(Known)
      /\ \A b \in Accounts : chat[b].exists => Based(EventsOf(b)) /\ Supported(EventsOf(b))
      /\ \A m \in net : Based(Range(m.events)) /\ Supported(Range(m.events))
      /\ \A b \in Accounts \ {Creator} : \A e \in EventsOf(b) : e.type # "removed"
      /\ (\E e \in Known : e.type = "admins") => Staff(EventsOf(Creator))
  BY DEF Calmed
<1>2. GroupTypes /\ Absent
  BY DEF ClockInvariant
<1>3. Known \subseteq Events /\ S \subseteq Known
  BY <1>2, KnownEvents
<1>4. Supported(EventsOf(a))
  <2>1. CASE chat[a].exists
    BY <1>1, <2>1, Zenon
  <2>2. CASE ~chat[a].exists
    <3>1. EventsOf(a) = {}
      BY <1>2, <2>2 DEF Absent, NoChat, EventsOf, Range
    <3> QED BY <3>1, Zenon DEF Supported, SupportedBy
  <2> QED BY <2>1, <2>2, Zenon
<1>5. Based(S) /\ Supported(S)
  <2>1. CASE chat[a].exists /\ S = EventsOf(a)
    BY <1>1, <2>1, Zenon
  <2>2. CASE \E m \in net : S = EventsOf(a) \cup Range(m.events)
    <3>1. PICK m \in net : S = EventsOf(a) \cup Range(m.events)
      BY <2>2
    <3> QED BY <1>1, <1>4, <3>1, SupportedUnion DEF Based
  <2> QED BY <2>1, <2>2
<1>6. a # Creator => \A r \in S : r.type # "removed"
  BY <1>1 DEF Quiet
<1>7. EventsOf(a) \subseteq S
  OBVIOUS
<1>8. ASSUME a = Creator PROVE /\ \A r \in Known : r.type = "removed" => r \in S
                               /\ (\E e \in Known : e.type = "admins") => Staff(S)
  <2>1. \A r \in Known : r.type = "removed" => r \in EventsOf(Creator)
    BY <1>1, <1>2, KnownEvents DEF Quiet
  <2>2. Staff(EventsOf(Creator)) => Staff(S)
    BY <1>7, <1>8 DEF Staff
  <2> QED BY <1>1, <1>7, <1>8, <2>1, <2>2, Zenon
<1> QED BY <1>1, <1>3, <1>5, <1>6, <1>8, Zenon DEF Calm

(* Every step but a refusal signs only what the events of its account support. *)
LEMMA StepContinues ==
  ASSUME EventFacts, ClockInvariant, Rebuilt, Calmed, Quiet, NEW a \in Accounts, NEW o,
         Founds(a, o) \/ Signs(a, o) \/ Idles(a, o) \/ Takes(a, o),
         \A m \in o.sent : \A e \in Range(m.events) : e.type # "removed"
  PROVE  \E K, S, N : /\ Calm(a, K, S) /\ Continues(a, K, S, N) /\ Shares(o, S, N)
                      /\ Known \subseteq K /\ EventsOf(a) \subseteq S
                      /\ K = Known \/ a = Creator
<1>1. GroupTypes /\ Absent /\ Passed
  BY Zenon DEF ClockInvariant
<1>2. chat[a] \in ChatRecord /\ chat[a].clock \in Nat
  BY <1>1, Zenon DEF GroupTypes, ChatRecord
<1>3. \A e \in Known : e.from = a => e.clock <= chat[a].clock
  BY <1>1, Zenon DEF Passed
<1>4. Sorted(chat[a].events) /\ \A e \in EventsOf(a) : e.clock <= chat[a].clock
  BY <1>1 DEF Passed
<1>5. chat[a].exists => /\ newGroup(chat[a].events).valid
                        /\ chat[a].members \subseteq newGroup(chat[a].events).members
  BY Zenon DEF Rebuilt, Calmed
<1>6. CASE Founds(a, o)
  <2>0. PICK c \in ChatRecord, new \in Seq(Events), created \in Events : FoundedBy(a, o, c, new, created)
    BY <1>1, <1>6, Foundation, Zenon
  <2>1. /\ a = Creator /\ ~chat[Creator].exists /\ o \in Publish(a, c, new)
        /\ created.type = "created" /\ created.from = Creator /\ created.clock = c.clock
        /\ Range(c.events) = {created} /\ Sorted(c.events) /\ newGroup(c.events).valid
        /\ Fresh(a, c.clock, new) /\ Len(new) = 1
        /\ new[1].type = "added" /\ a \notin new[1].members
    BY <2>0, Zenon DEF FoundedBy
  <2>2. \A e \in Range(c.events) : e.clock <= c.clock
    <3>1. c.clock \in Nat
      BY Zenon DEF ChatRecord
    <3>2. c.clock <= c.clock
      BY <3>1
    <3> QED BY <2>1, <3>2, Zenon
  <2>3. Signing(a, c, new)
    <3>1. \A i \in 1..Len(new) : i = 1
      <4>1. Len(new) = 1
        BY <2>1, Zenon
      <4> QED BY <4>1
    <3>2. Independent(new)
      BY <2>1, Zenon DEF Independent
    <3> QED BY <2>1, <2>2, <3>1, <3>2, Zenon DEF Signing
  <2> DEFINE K == {created}
  <2>4. Calm(a, K, K)
    <3>1. RootOf(K) /\ Based(K) /\ Loose(K)
      BY <2>1, Zenon DEF RootOf, Based, Loose
    <3>2. Supported(K)
      BY <2>1, Zenon DEF Supported, SupportedBy, DetailsChanged
    <3> QED BY <2>1, <3>1, <3>2, Zenon DEF Calm
  <2>5. \A e \in K : e.from = a => e.clock <= c.clock
    BY <2>1, <2>2, Zenon
  <2>6. \E N : Continues(a, K, K, N) /\ Shares(o, K, N)
    <3> HIDE DEF K
    <3>1. Range(c.events) = K
      BY <2>1, Zenon DEF K
    <3> QED BY <2>1, <2>3, <2>4, <2>5, <3>1, PublishContinues, Zenon
  <2>7. Known = {}
    BY <2>1, Zenon DEF Calmed
  <2>8. EventsOf(a) = {}
    BY <1>1, <2>7, KnownEvents, Zenon
  <2> HIDE DEF K
  <2> QED BY <2>1, <2>4, <2>6, <2>7, <2>8, Zenon
<1>7. CASE Signs(a, o)
  <2>1. PICK c \in ChatRecord, new \in Seq(Events) : \E p \in Publish(a, c, new) :
          /\ chat[a].exists /\ c.events = chat[a].events /\ c.clock = chat[a].clock
          /\ Fresh(a, c.clock, new) /\ Independent(new)
          /\ \A i \in 1..Len(new) : new[i].type # "created"
          /\ \/ Leaving(a, new)
             \/ /\ a \notin new[1].members
                /\ new[1].type \in {"removed", "admins"} => new[1].members \cap chat[a].members # {}
          /\ Like(o.chat, p.chat) /\ o.sent = p.sent
    BY <1>7, ZenonT(40) DEF Signs
  <2>2. PICK p \in Publish(a, c, new) : Like(o.chat, p.chat) /\ o.sent = p.sent
    BY <2>1, Zenon
  <2>3. Signing(a, c, new)
    <3>1. Sorted(c.events) /\ newGroup(c.events).valid /\ \A e \in Range(c.events) : e.clock <= c.clock
      BY <1>4, <1>5, <2>1, Zenon DEF EventsOf
    <3>2. chat[a].members \subseteq newGroup(c.events).members
      BY <1>5, <2>1, Zenon
    <3> QED BY <2>1, <3>1, <3>2, Zenon DEF Signing
  <2>4. Range(c.events) = EventsOf(a)
    BY <2>1, Zenon DEF EventsOf
  <2>5. Calm(a, Known, Range(c.events))
    BY <2>1, <2>4, CalmlyTold, Zenon
  <2>6. PICK N : Continues(a, Known, Range(c.events), N) /\ Shares(p, Range(c.events), N)
    BY <1>3, <2>1, <2>2, <2>3, <2>5, PublishContinues, Zenon
  <2>7. Shares(o, Range(c.events), N)
    BY <2>2, <2>6, Zenon DEF Shares, Like
  <2> QED BY <2>4, <2>5, <2>6, <2>7, Zenon
<1>8. CASE Idles(a, o)
  <2>1. /\ chat[a].exists /\ o.chat.events = chat[a].events
        /\ \A m \in o.sent : m.events = chat[a].events
    BY <1>8, Zenon DEF Idles
  <2>2. Calm(a, Known, EventsOf(a))
    BY <2>1, CalmlyTold, Zenon
  <2>3. Continues(a, Known, EventsOf(a), {}) /\ Shares(o, EventsOf(a), {})
    BY <2>1, <2>2, NothingContinues, Zenon DEF Shares, EventsOf
  <2> QED BY <2>2, <2>3, Zenon
<1>9. CASE Takes(a, o)
  <2>1. PICK m \in net, c \in ChatRecord : \E p :
          /\ Told(a, m, c) /\ p \in {Outcome(c, {}, "none")} \cup ConfirmJoiningGroup(a, c)
          /\ o.chat.events = p.chat.events /\ o.sent = p.sent
    BY <1>9, Zenon DEF Takes, TakesUpdate
  <2>2. PICK p :
          /\ Told(a, m, c) /\ p \in {Outcome(c, {}, "none")} \cup ConfirmJoiningGroup(a, c)
          /\ o.chat.events = p.chat.events /\ o.sent = p.sent
    BY <2>1, Zenon
  <2> DEFINE S == Range(c.events)
  <2>3. /\ Sorted(c.events) /\ S = EventsOf(a) \cup Range(m.events)
        /\ newGroup(c.events).valid /\ c.members = newGroup(c.events).members
        /\ chat[a].clock <= c.clock /\ \A e \in S : e.clock <= c.clock
    BY <2>2, Zenon DEF Told
  <2>4. Calm(a, Known, S) /\ EventsOf(a) \subseteq S
    <3> HIDE DEF S
    <3> QED BY <2>3, CalmlyTold, Zenon
  <2>5. \E N : Continues(a, Known, S, N) /\ Shares(p, S, N)
    <3>1. CASE p = Outcome(c, {}, "none")
      <4>1. Shares(p, S, {})
        BY <3>1 DEF Shares, Outcome
      <4> QED BY <2>4, <4>1, NothingContinues, Zenon
    <3>2. CASE p \in ConfirmJoiningGroup(a, c)
      <4> DEFINE e == Event("joined", a, NextClock(a, c), {})
                 new == <<e>>
      <4>1. c.clock \in Nat
        BY Zenon DEF ChatRecord
      <4>2. NextClock(a, c) \in Nat /\ c.clock < NextClock(a, c)
        BY <1>1, <4>1, NextClockAdvances, Zenon
      <4>3. e \in Events /\ e.from = a /\ e.clock = NextClock(a, c) /\ e.type = "joined" /\ e.members = {}
        BY <4>2, Zenon DEF Event, Events
      <4>4. p \in Publish(a, c, new)
        BY <3>2, Zenon DEF ConfirmJoiningGroup
      <4> HIDE DEF e
      <4>5. Fresh(a, c.clock, new) /\ Independent(new) /\ Len(new) = 1 /\ new[1] = e
        BY <4>1, <4>2, <4>3, OneEvent, Zenon
      <4> HIDE DEF new, S
      <4>6. Signing(a, c, new)
        <5>1. \A i \in 1..Len(new) : i = 1
          <6>1. Len(new) = 1
            BY <4>5, Zenon
          <6> QED BY <6>1
        <5> QED BY <2>3, <4>3, <4>5, <5>1, Zenon DEF Signing, S
      <4>7. \A x \in Known : x.from = a => x.clock <= c.clock
        <5>1. \A x \in Known : x.clock \in Nat
          BY <1>1, KnownEvents, Zenon DEF Events
        <5>2. \A x \in Known : x.from = a => x.clock <= chat[a].clock
          BY <1>3, Zenon
        <5>3. chat[a].clock <= c.clock /\ chat[a].clock \in Nat
          BY <1>2, <2>3, Zenon
        <5>4. \A k, l, n \in Nat : k <= l /\ l <= n => k <= n
          OBVIOUS
        <5> QED BY <4>1, <5>1, <5>2, <5>3, <5>4, Zenon
      <4>8. \A x \in p.sent : \A y \in Range(x.events) : y.type # "removed"
        BY <2>2, Zenon
      <4> QED BY <2>4, <4>4, <4>6, <4>7, <4>8, PublishContinues, Zenon DEF S
    <3> QED BY <2>2, <3>1, <3>2, Zenon
  <2>6. PICK N : Continues(a, Known, S, N) /\ Shares(p, S, N)
    BY <2>5, Zenon
  <2>7. Shares(o, S, N)
    BY <2>2, <2>6, Zenon DEF Shares
  <2> HIDE DEF S
  <2> QED BY <2>4, <2>6, <2>7, Zenon
<1> QED BY <1>6, <1>7, <1>8, <1>9, Zenon

(* Such a step keeps Calmed. *)
LEMMA CalmStep ==
  ASSUME EventFacts, ClockInvariant, Rebuilt, Calmed, NEW a \in Accounts, NEW o, Steps(a, o),
         Founds(a, o) \/ Signs(a, o) \/ Idles(a, o) \/ Takes(a, o)
  PROVE  Calmed'
<1> SUFFICES ASSUME Quiet'
             PROVE  /\ refused' = {} /\ RootOf(Known)' /\ Loose(Known)'
                    /\ ~chat'[Creator].exists => Known' = {}
                    /\ \A b \in Accounts : chat'[b].exists => Based(EventsOf(b))' /\ Supported(EventsOf(b))'
                    /\ \A m \in net' : Based(Range(m.events)) /\ Supported(Range(m.events))
                    /\ \A b \in Accounts \ {Creator} : \A e \in EventsOf(b)' : e.type # "removed"
                    /\ (\E e \in Known' : e.type = "admins") => Staff(EventsOf(Creator))'
  BY Zenon DEF Calmed, Based, Supported, SupportedBy, AddedBefore, AppointedBefore
<1>1. GroupTypes /\ Absent /\ Passed
  BY Zenon DEF ClockInvariant
<1>2. /\ net' = net \cup o.sent /\ refused' = refused
      /\ chat' = [chat EXCEPT ![a] = o.chat]
  BY DEF Steps
<1>3. chat'[a] = o.chat /\ \A b \in Accounts \ {a} : chat'[b] = chat[b] /\ EventsOf(b)' = EventsOf(b)
  BY <1>1, <1>2, Zenon DEF GroupTypes, EventsOf
<1>4. Quiet /\ \A m \in o.sent : \A e \in Range(m.events) : e.type # "removed"
  BY <1>2 DEF Quiet
<1>5. PICK K, S, N : /\ Calm(a, K, S) /\ Continues(a, K, S, N) /\ Shares(o, S, N)
                     /\ Known \subseteq K /\ EventsOf(a) \subseteq S
                     /\ K = Known \/ a = Creator
  BY <1>4, StepContinues, Zenon
<1>6. o.chat.exists
  <2>1. PICK T, M : Evolves(a, o, T, M)
    BY <1>1, Evolution
  <2> QED BY <2>1, Zenon DEF Evolves, Keeps
<1>7. /\ refused = {} /\ RootOf(Known)
      /\ ~chat[Creator].exists => Known = {}
      /\ \A b \in Accounts : chat[b].exists => Based(EventsOf(b)) /\ Supported(EventsOf(b))
      /\ \A m \in net : Based(Range(m.events)) /\ Supported(Range(m.events))
      /\ \A b \in Accounts \ {Creator} : \A e \in EventsOf(b) : e.type # "removed"
      /\ (\E e \in Known : e.type = "admins") => Staff(EventsOf(Creator))
  BY <1>4, Zenon DEF Calmed
<1>8. /\ S \subseteq K /\ K \subseteq Events /\ RootOf(K) /\ Based(S) /\ Supported(S) /\ Supported(S \cup N)
      /\ Loose(K \cup N) /\ Based(S \cup N)
      /\ \A e \in N : e.from = a /\ e.type # "created" /\ \A d \in S : d.clock < e.clock
      /\ a # Creator => \A r \in S \cup N : r.type # "removed"
      /\ a = Creator => ((\E e \in K : e.type = "admins") => Staff(S))
      /\ (\E e \in N : e.type = "admins") =>
           (\E d \in S : d.type = "admins") \/ (a = Creator /\ Staff(S))
  BY <1>5 DEF Calm, Continues, Based
<1>9. /\ EventsOf(a)' = S \/ EventsOf(a)' = S \cup N
      /\ \A m \in o.sent : Range(m.events) = S \/ Range(m.events) = S \cup N
  BY <1>3, <1>5, Zenon DEF Shares, EventsOf
<1>10. Known' \subseteq K \cup N
  <2> SUFFICES ASSUME NEW e \in Known' PROVE e \in K \cup N
    OBVIOUS
  <2>1. \/ \E b \in Accounts : e \in EventsOf(b)'
        \/ \E m \in net' : e \in Range(m.events)
    BY DEF Known
  <2>2. CASE \E b \in Accounts : e \in EventsOf(b)'
    <3>1. e \in EventsOf(a)' \/ e \in Known
      BY <1>1, <1>3, <2>2, KnownEvents, Zenon
    <3> QED BY <1>5, <1>8, <1>9, <3>1, Zenon
  <2>3. CASE \E m \in net' : e \in Range(m.events)
    <3>1. e \in Known \/ \E m \in o.sent : e \in Range(m.events)
      BY <1>1, <1>2, <2>3, KnownEvents, Zenon
    <3> QED BY <1>5, <1>8, <1>9, <3>1, Zenon
  <2> QED BY <2>1, <2>2, <2>3
<1>11. RootOf(K \cup N)
  <2>1. PICK c \in S : c.type = "created"
    BY <1>8, Zenon DEF Based
  <2>2. c \in K /\ \A d \in K : d.type = "created" => d = c
    BY <1>8, <2>1, Zenon DEF RootOf
  <2>3. \A d \in K \cup N : d.type = "created" => d = c
    BY <1>8, <2>2, Zenon
  <2>4. c.from = Creator /\ \A e \in K : e = c \/ (c.clock < e.clock /\ e.type # "created")
    BY <1>8, <2>1, <2>2, Zenon DEF RootOf
  <2>5. \A e \in N : c.clock < e.clock /\ e.type # "created"
    BY <1>8, <2>1
  <2> QED BY <2>3, <2>4, <2>5, Zenon DEF RootOf
<1>12. RootOf(Known') /\ Loose(Known')
  BY <1>8, <1>10, <1>11, Zenon DEF RootOf, Loose
<1>13. chat'[Creator].exists
  <2>1. CASE a = Creator
    BY <1>3, <1>6, <2>1, Zenon
  <2>2. CASE a # Creator
    <3>1. K = Known /\ K # {}
      BY <1>5, <1>8, <2>2, Zenon DEF Based
    <3>2. chat[Creator].exists
      BY <1>7, <3>1
    <3> QED BY <1>3, <2>2, <3>2, GroupAssumption, Zenon
  <2> QED BY <2>1, <2>2
<1>14. \A b \in Accounts : chat'[b].exists => Based(EventsOf(b)') /\ Supported(EventsOf(b)')
  BY <1>3, <1>7, <1>8, <1>9, Zenon
<1>15. \A m \in net' : Based(Range(m.events)) /\ Supported(Range(m.events))
  BY <1>2, <1>7, <1>8, <1>9, Zenon
<1>16. \A b \in Accounts \ {Creator} : \A e \in EventsOf(b)' : e.type # "removed"
  BY <1>3, <1>7, <1>8, <1>9, Zenon
<1>17. ASSUME NEW e \in Known', e.type = "admins" PROVE Staff(EventsOf(Creator)')
  <2>1. (\E d \in K : d.type = "admins") \/ (a = Creator /\ Staff(S))
    BY <1>8, <1>10, <1>17
  <2>2. CASE a = Creator
    <3>1. Staff(S)
      BY <1>8, <2>1, <2>2, Zenon
    <3> QED BY <1>9, <2>2, <3>1, Zenon DEF Staff
  <2>3. CASE a # Creator
    <3>1. Staff(EventsOf(Creator))
      BY <1>5, <1>7, <2>1, <2>3
    <3> QED BY <1>3, <2>3, <3>1, GroupAssumption, Zenon
  <2> QED BY <2>2, <2>3, Zenon
<1>18. RootOf(Known)' /\ Loose(Known)'
  BY <1>12, Zenon DEF RootOf, Loose
<1>19. \A b \in Accounts : chat'[b].exists => Based(EventsOf(b))' /\ Supported(EventsOf(b))'
  BY <1>14, Zenon DEF Based, Supported, SupportedBy, AddedBefore, AppointedBefore
<1>20. (\E e \in Known' : e.type = "admins") => Staff(EventsOf(Creator))'
  BY <1>17 DEF Staff
<1> QED BY <1>2, <1>7, <1>13, <1>15, <1>16, <1>18, <1>19, <1>20, Zenon

(* An update is refused only if some update tells of a removal. *)
LEMMA CalmRefusal ==
  ASSUME EventFacts, ClockInvariant, Rebuilt, Calmed, NEW a \in Accounts, Refuses(a)
  PROVE  ~Quiet /\ net' = net
<1>1. PICK m \in net : chat[a].exists /\ ~newGroup(MergedWith(a, m)).valid /\ net' = net
  BY DEF Refuses
<1> SUFFICES ASSUME Quiet PROVE FALSE
  BY <1>1
<1> DEFINE s == chat[a].events
           u == MergeMembershipUpdateEvents(s, m.events)
           t == MergedWith(a, m)
<1>2. GroupTypes /\ Passed
  BY DEF ClockInvariant
<1>3. s \in Seq(Events) /\ m.events \in Seq(Events) /\ Sorted(s)
  BY <1>2 DEF GroupTypes, ChatRecord, UpdateRecord, Passed
<1>4. /\ t \in Seq(Events) /\ Sorted(t) /\ Range(t) = EventsOf(a) \cup Range(m.events)
  BY <1>2, MergedEvents, Zenon
<1>5. u \in Seq(Events) /\ t = sortEvents(u)
  BY <1>3 DEF MergedWith, EventFacts, MergeUnitesFact
<1> HIDE DEF t, u
<1>6. Calm(a, Known, Range(t))
  BY <1>4, CalmlyTold
<1>7. Based(Range(t)) /\ Supported(Range(t)) /\ RootOf(Range(t)) /\ Loose(Range(t))
  BY <1>6, Zenon DEF Calm, RootOf, Loose
<1>8. RootOf(Range(s))
  BY <1>4, <1>7 DEF RootOf, EventsOf
<1>9. newGroup(s).valid
  BY <1>1, Zenon DEF Rebuilt, Calmed
<1>10. Once(s)
  BY <1>3, <1>8, <1>9, Zenon DEF EventFacts, ValidOnceFact
<1>11. \A c \in Range(m.events) : c.type = "created" => c \in Range(s)
  <2>1. PICK d \in Range(s) : d.type = "created"
    BY <1>1, Zenon DEF Calmed, Based, EventsOf
  <2>2. d \in Range(t)
    BY <1>4, <2>1, Zenon DEF EventsOf
  <2> QED BY <1>4, <1>7, <2>1, <2>2 DEF RootOf
<1>12. Once(u)
  BY <1>3, <1>10, <1>11, Zenon DEF u, EventFacts, MergeOnceFact
<1>13. Once(t)
  BY <1>5, <1>12 DEF EventFacts, SortOnceFact
<1>14. newGroup(t).valid
  BY <1>4, <1>7, <1>13, Zenon DEF EventFacts, SupportedValidFact
<1> QED BY <1>1, <1>14 DEF t

(* Calmed holds at the start. *)
LEMMA CalmInit == GroupInit => Calmed
<1> SUFFICES ASSUME GroupInit PROVE Calmed
  OBVIOUS
<1>1. /\ chat = [a \in Accounts |-> NoChat] /\ net = {} /\ refused = {}
  BY DEF GroupInit
<1>2. \A a \in Accounts : EventsOf(a) = {} /\ ~chat[a].exists
  BY <1>1 DEF NoChat, EventsOf, Range
<1>3. Known = {}
  BY <1>1, <1>2 DEF Known
<1> QED BY <1>1, <1>2, <1>3, Zenon DEF Calmed, RootOf, Loose

(* Every step keeps it. *)
LEMMA CalmNext ==
  ASSUME EventFacts, ClockInvariant, Rebuilt, Calmed, [GroupNext]_groupVars
  PROVE  Calmed'
<1>1. CASE UNCHANGED groupVars \/ Tick
  <2>1. UNCHANGED <<chat, net, refused>>
    BY <1>1 DEF Tick, groupVars
  <2>2. Known' = Known /\ \A a \in Accounts : EventsOf(a)' = EventsOf(a)
    BY <2>1 DEF Known, EventsOf
  <2>3. Quiet' <=> Quiet
    BY <2>1 DEF Quiet
  <2>4. /\ RootOf(Known)' <=> RootOf(Known)
        /\ Loose(Known)' <=> Loose(Known)
    BY <2>2, Zenon DEF RootOf, Loose
  <2>5. \A a \in Accounts : /\ Based(EventsOf(a))' <=> Based(EventsOf(a))
                            /\ Supported(EventsOf(a))' <=> Supported(EventsOf(a))
    BY <2>2, Zenon DEF Based, Supported, SupportedBy, AddedBefore, AppointedBefore
  <2>6. Staff(EventsOf(Creator))' <=> Staff(EventsOf(Creator))
    BY <2>2, GroupAssumption DEF Staff
  <2> QED BY <2>1, <2>2, <2>3, <2>4, <2>5, <2>6, Zenon DEF Calmed, Based, Supported, SupportedBy, AddedBefore, AppointedBefore
<1>2. ASSUME NEW a \in Accounts, NEW o, Steps(a, o),
             Founds(a, o) \/ Signs(a, o) \/ Idles(a, o) \/ Takes(a, o)
      PROVE  Calmed'
  BY <1>2, CalmStep
<1>3. ASSUME NEW a \in Accounts, Refuses(a) PROVE Calmed'
  BY <1>3, CalmRefusal, Zenon DEF Calmed, Quiet
<1>4. GroupTypes /\ Absent
  BY DEF ClockInvariant
<1> QED BY <1>1, <1>2, <1>3, <1>4, GroupSteps

(* An update is refused only if somebody was removed. *)
LEMMA ConflictsFollow ==
  ASSUME EventFacts, ClockInvariant, Calmed
  PROVE  OnlyRemovalsConflict
<1> SUFFICES ASSUME refused # {}
             PROVE  \E e \in Known : e.type = "removed"
  BY DEF OnlyRemovalsConflict
<1>1. ~Quiet
  BY DEF Calmed
<1>2. GroupTypes
  BY DEF ClockInvariant
<1> QED BY <1>1, <1>2, KnownEvents DEF Quiet
=============================================================================
