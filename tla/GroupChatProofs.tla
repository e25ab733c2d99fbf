-------------------------- MODULE GroupChatProofs ---------------------------
(***************************************************************************)
(* Proofs about GroupChat.tla, for any accounts, names, clocks and bounds, *)
(* from the facts about lists of events in GroupFacts.tla.                 *)
(*                                                                         *)
(*   - the shapes of a step: a chat is founded, events are signed, nothing *)
(*     is signed, an update is taken, or it is refused;                    *)
(*   - ClockInvariant: the last clock value of a chat is not behind its    *)
(*     events, nor behind those its account signed; who knows an event of  *)
(*     an author knows the earlier ones;                                   *)
(*   - Rebuilt: the stored events of an account that refused nothing are a *)
(*     valid group with the members of the chat.                           *)
(***************************************************************************)
EXTENDS GroupFacts, TLAPS

(* The contexts are large: more time than by default, and the SMT backend  *)
(* once more when its translation was cut off.                             *)
USE SMTT(30), ZenonT(30), Z3T(30), SMTT(40), Z3T(40)

(* What the operations and the handler do, step by step. *)
ChatRecord == [exists : BOOLEAN, events : Seq(Events), members : SUBSET Accounts,
               clock : Nat, active : BOOLEAN, notified : BOOLEAN]
UpdateRecord == [from : Accounts, to : SUBSET Accounts, events : Seq(Events), clock : Nat]

LastClock(new) == new[Len(new)].clock

(* The chat and the messages after Publish: as before if the group is not  *)
(* valid; with the clock of the last event if the events are not valid, or *)
(* if the dispatch fails; or with the events.                              *)
Published(a, c, new, o) ==
  LET before == newGroup(c.events)
      after == ProcessEvents(before, new)
      tried == [c EXCEPT !.clock = LastClock(new)]
  IN /\ o = Outcome(o.chat, o.sent, o.error)
     /\ o.chat \in ChatRecord /\ o.sent \subseteq UpdateRecord
     /\ \A m \in o.sent : m.from = a /\ m.events = c.events \o new
     /\ \/ ~before.valid /\ o.chat = c /\ o.sent = {} /\ o.error = "invalid"
        \/ before.valid /\ ~after.valid /\ o.chat = tried /\ o.sent = {} /\ o.error = "invalid"
        \/ before.valid /\ after.valid /\ o.chat = tried /\ o.error = "dispatch"
        \/ /\ before.valid /\ after.valid /\ o.error = "none"
           /\ o.chat = [tried EXCEPT !.events = c.events \o new, !.members = after.members]
           /\ o.sent = Update(a, Recipients(a, new, before, after), c.events \o new, 0)

(* What an update that is sent says. *)
LEMMA UpdateTyped ==
  ASSUME NEW a \in Accounts, NEW to \in SUBSET Accounts, NEW ev \in Seq(Events), NEW clock \in Nat
  PROVE  /\ Update(a, to, ev, clock) \subseteq UpdateRecord
         /\ \A m \in Update(a, to, ev, clock) : m.from = a /\ m.to = to /\ m.events = ev
  BY DEF Update, UpdateRecord

(* The outcomes of Publish: invalid, not dispatched, or done. *)
LEMMA PublishShape ==
  ASSUME EventFacts, NEW a \in Accounts, NEW c \in ChatRecord, NEW new \in Seq(Events), new # <<>>,
         NEW o \in Publish(a, c, new)
  PROVE  Published(a, c, new, o)
<1> DEFINE before == newGroup(c.events)
           after == ProcessEvents(before, new)
           tried == [c EXCEPT !.clock = LastClock(new)]
           done == [tried EXCEPT !.events = c.events \o new, !.members = after.members]
           to == Recipients(a, new, before, after)
           all == c.events \o new
<1>1. c.events \in Seq(Events) /\ c.members \in SUBSET Accounts /\ all \in Seq(Events)
  BY DEF ChatRecord
<1>2. before \in GroupState
  BY <1>1 DEF EventFacts, GroupTypedFact
<1>3. after \in GroupState
  BY <1>2 DEF EventFacts, ProcessMoreFact
<1>4. LastClock(new) \in Nat
  <2>1. Len(new) \in 1..Len(new)
    OBVIOUS
  <2>2. new[Len(new)] \in Events
    BY <2>1 DEF EventFacts, ElementsFact
  <2> QED BY <2>2 DEF LastClock, Events
<1>5. done.events = all
  BY DEF ChatRecord
<1>6. Publish(a, c, new) =
        IF ~before.valid THEN {Outcome(c, {}, "invalid")}
        ELSE IF ~after.valid THEN {Outcome(tried, {}, "invalid")}
        ELSE Dispatch(a, to, all, 0, tried, done)
  BY DEF Publish, LastClock, ChatRecord
<1> HIDE DEF before, after, all, to
<1>7. to \subseteq Accounts
  BY <1>2, <1>3 DEF to, Recipients, GroupState
<1>8. tried \in ChatRecord
  BY <1>4, Zenon DEF ChatRecord
<1>9. done \in ChatRecord
  BY <1>1, <1>3, <1>8, Zenon DEF ChatRecord, GroupState, all
<1> HIDE DEF tried, done
<1>10. CASE ~before.valid
  <2>1. o = [chat |-> c, sent |-> {}, error |-> "invalid"]
    BY <1>6, <1>10 DEF Outcome
  <2> QED BY <1>10, <2>1 DEF Published, before, Outcome
<1>11. CASE before.valid /\ ~after.valid
  <2>1. o = [chat |-> tried, sent |-> {}, error |-> "invalid"]
    BY <1>6, <1>11 DEF Outcome
  <2> QED BY <1>8, <1>11, <2>1 DEF Published, before, after, tried, Outcome
<1>12. CASE before.valid /\ after.valid
  <2>1. o \in Dispatch(a, to, all, 0, tried, done)
    BY <1>6, <1>12
  <2>2. CASE o = Outcome(done, Update(a, to, all, 0), "none")
    <3>1. o.chat = done /\ o.sent = Update(a, to, all, 0) /\ o.error = "none"
      BY <2>2 DEF Outcome
    <3>2. o.sent \subseteq UpdateRecord /\ \A m \in o.sent : m.from = a /\ m.events = all
      BY <1>1, <1>7, <3>1, UpdateTyped
    <3> QED BY <1>9, <1>12, <2>2, <3>1, <3>2 DEF Published, before, after, tried, done, to, all
  <2>3. CASE \E some \in SUBSET to : o = Outcome(tried, Update(a, some, all, 0), "dispatch")
    <3>1. PICK some \in SUBSET to : o = Outcome(tried, Update(a, some, all, 0), "dispatch")
      BY <2>3
    <3>2. o.chat = tried /\ o.sent = Update(a, some, all, 0) /\ o.error = "dispatch"
      BY <3>1 DEF Outcome
    <3>3. o.sent \subseteq UpdateRecord /\ \A m \in o.sent : m.from = a /\ m.events = all
      <4>1. some \in SUBSET Accounts
        BY <1>7
      <4> QED BY <1>1, <3>2, <4>1, UpdateTyped
    <3> QED BY <1>8, <1>12, <3>1, <3>2, <3>3, Zenon DEF Published, before, after, tried, all
  <2> QED BY <2>1, <2>2, <2>3 DEF Dispatch
<1> QED BY <1>2, <1>10, <1>11, <1>12

GroupTypes ==
  /\ chat \in [Accounts -> ChatRecord] /\ net \subseteq UpdateRecord
  /\ now \in Nat /\ failures \in Nat /\ refused \subseteq Accounts

(* An account's chat becomes o.chat, o.sent is sent. *)
Steps(a, o) ==
  /\ chat' = [chat EXCEPT ![a] = o.chat]
  /\ net' = net \cup o.sent
  /\ failures' = failures + (IF o.error = "dispatch" THEN 1 ELSE 0)
  /\ UNCHANGED <<now, refused>>

(* The chats are equal but for active and notified. *)
Like(c, d) ==
  c.exists = d.exists /\ c.events = d.events /\ c.members = d.members /\ c.clock = d.clock

(* Failed dispatches are counted. *)
LEMMA FailuresCounted ==
  ASSUME GroupTypes, NEW a, NEW o, Steps(a, o)
  PROVE  failures' = 0 => failures = 0 /\ o.error # "dispatch"
<1>1. failures \in Nat
  BY Zenon DEF GroupTypes
<1>2. failures' = failures + (IF o.error = "dispatch" THEN 1 ELSE 0)
  BY Zenon DEF Steps
<1>3. CASE o.error = "dispatch"
  <2>1. failures' = failures + 1
    BY <1>2, <1>3, Zenon
  <2>2. failures' # 0
    BY <1>1, <2>1
  <2> QED BY <2>2
<1>4. CASE o.error # "dispatch"
  <2>1. failures' = failures + 0
    BY <1>2, <1>4, Zenon
  <2>2. failures' = failures
    BY <1>1, <2>1
  <2> QED BY <1>4, <2>2, Zenon
<1> QED BY <1>3, <1>4, Zenon

(* Events that a signs after clock value low. *)
Fresh(a, low, new) ==
  /\ new \in Seq(Events) /\ new # <<>> /\ Sorted(new)
  /\ \A i \in 1..Len(new) : new[i].from = a /\ low < new[i].clock
  /\ \A i, j \in 1..Len(new) :
       new[i].clock = new[j].clock /\ i # j => new[i].type = "removed"

Leaving(a, new) == Len(new) = 1 /\ new[1].type = "removed" /\ new[1].members = {a}

(* The group is created. *)
Founds(a, o) ==
  \E members \in Some(Accounts \ {Creator}) :
    LET clock == NextClock(Creator, NoChat)
        c == [NoChat EXCEPT !.exists = TRUE, !.active = TRUE,
                !.events = <<Event("created", Creator, clock, {})>>,
                !.members = {Creator}, !.clock = clock]
    IN /\ a = Creator /\ ~chat[Creator].exists
       /\ o \in Publish(Creator, c, <<Event("added", Creator, clock + 1, members)>>)

(* An account signs new events in a group it has. *)
Signs(a, o) ==
  \E c \in ChatRecord, new \in Seq(Events) : \E p \in Publish(a, c, new) :
    /\ chat[a].exists /\ c.exists /\ c.events = chat[a].events /\ c.clock = chat[a].clock
    /\ Fresh(a, c.clock, new) /\ Independent(new)
    /\ \A i \in 1..Len(new) : new[i].type # "created"
    /\ \/ Leaving(a, new) /\ c.members \subseteq chat[a].members
       \/ /\ c.members = chat[a].members /\ a \notin new[1].members
          /\ new[1].type \in {"removed", "admins"} => new[1].members \cap chat[a].members # {}
    /\ o.chat \in ChatRecord /\ Like(o.chat, p.chat) /\ o.sent = p.sent /\ o.error = p.error
    /\ new[1].type = "joined" => chat[a].notified /\ ~o.chat.notified
    /\ o.chat.notified => chat[a].notified
    /\ o.chat.active => chat[a].active \/ chat[a].notified
    /\ chat[a].active /\ ~o.chat.active => Leaving(a, new) /\ o.error = "none"

(* Nothing is signed: a chat message, or leaving a group left before. *)
Idles(a, o) ==
  /\ chat[a].exists /\ o.chat \in ChatRecord /\ o.chat.exists
  /\ o.chat.events = chat[a].events /\ o.chat.members = chat[a].members
  /\ chat[a].clock <= o.chat.clock
  /\ o.sent \subseteq UpdateRecord /\ \A m \in o.sent : m.events = chat[a].events
  /\ o.chat.notified => chat[a].notified
  /\ o.chat.active => chat[a].active
  /\ chat[a].active /\ ~o.chat.active => a \notin chat[a].members

(* The update m has added a to the group, which is now that of c. *)
Added(a, c) == a \notin newGroup(chat[a].events).members /\ a \in c.members

(* The events of an update merged with those of the chat. *)
MergedWith(a, m) == sortEvents(MergeMembershipUpdateEvents(chat[a].events, m.events))

(* The chat once the update m is merged. *)
Told(a, m, c) ==
  /\ c \in ChatRecord /\ c.exists /\ Sorted(c.events)
  /\ Range(c.events) = EventsOf(a) \cup Range(m.events)
  /\ newGroup(c.events).valid /\ c.members = newGroup(c.events).members
  /\ chat[a].clock <= c.clock /\ \A e \in Range(c.events) : e.clock <= c.clock
  /\ chat[a].active => c.active
  /\ chat[a].exists /\ c.active => chat[a].active \/ a \in c.members
  /\ chat[a].exists => newGroup(chat[a].events).valid /\ c.events = MergedWith(a, m)

(* The update m is merged and maybe answered by joining. *)
TakesUpdate(a, m, o) ==
  \E c \in ChatRecord : \E p :
    /\ Told(a, m, c)
    /\ \/ p = Outcome(c, {}, "none") /\ (c.notified => chat[a].notified \/ Added(a, c))
       \/ p \in ConfirmJoiningGroup(a, c) /\ Added(a, c) /\ c.notified = chat[a].notified
    /\ o.chat \in ChatRecord /\ o.chat.exists = p.chat.exists /\ o.chat.events = p.chat.events
    /\ o.chat.members = p.chat.members /\ p.chat.clock <= o.chat.clock
    /\ o.chat.active = p.chat.active /\ o.chat.notified = p.chat.notified
    /\ o.sent = p.sent /\ o.error = p.error

Takes(a, o) == \E m \in net : TakesUpdate(a, m, o)

(* NextClockAndTimestamp gives a value above the last one of the chat. *)
LEMMA NextClockAdvances ==
  ASSUME GroupTypes, NEW a \in Accounts, NEW c, c.clock \in Nat
  PROVE  NextClock(a, c) \in Nat /\ c.clock < NextClock(a, c)
<1>1. Skew[a] \in Nat /\ now \in Nat
  BY GroupAssumption DEF GroupTypes
<1> QED BY <1>1 DEF NextClock

(* A single event with a clock value above low is fresh. *)
LEMMA OneEvent ==
  ASSUME EventFacts, NEW a \in Accounts, NEW low \in Nat, NEW e \in Events, e.from = a, low < e.clock
  PROVE  Fresh(a, low, <<e>>) /\ Independent(<<e>>) /\ Len(<<e>>) = 1 /\ <<e>>[1] = e
<1> DEFINE new == <<e>>
<1>1. new \in Seq(Events) /\ Len(new) = 1 /\ new[1] = e /\ new # <<>>
  OBVIOUS
<1> HIDE DEF new
<1>2. \A i \in 1..Len(new) : i = 1
  BY <1>1
<1>3. Sorted(new)
  BY <1>1, <1>2 DEF Sorted, EventFacts, ElementsFact
<1>4. Fresh(a, low, new)
  BY <1>1, <1>2, <1>3 DEF Fresh
<1>5. Independent(new)
  BY <1>1 DEF Independent
<1> QED BY <1>1, <1>4, <1>5 DEF new

-----------------------------------------------------------------------------
(* Signing in a valid group: what is signed has its support. *)

(* Merging supported events leaves them supported. *)
LEMMA SupportedUnion ==
  ASSUME NEW S, NEW T, Supported(S), Supported(T)
  PROVE  Supported(S \cup T)
<1>1. \A e, b : /\ AddedBefore(S, e, b) \/ AddedBefore(T, e, b) => AddedBefore(S \cup T, e, b)
                /\ AppointedBefore(S, e, b) \/ AppointedBefore(T, e, b) => AppointedBefore(S \cup T, e, b)
  BY DEF AddedBefore, AppointedBefore
<1> QED BY <1>1, Zenon DEF Supported, SupportedBy

(* Events whose support is in S may join S. *)
LEMMA SupportedMore ==
  ASSUME NEW S, NEW N, Supported(S),
         \A e \in N : SupportedBy(S, e)
  PROVE  Supported(S \cup N)
<1>1. \A e, b : /\ AddedBefore(S, e, b) => AddedBefore(S \cup N, e, b)
                /\ AppointedBefore(S, e, b) => AppointedBefore(S \cup N, e, b)
  BY DEF AddedBefore, AppointedBefore
<1> QED BY <1>1 DEF Supported, SupportedBy

(* The account a signs new events in the group of c. *)
Signing(a, c, new) ==
  /\ c \in ChatRecord /\ Sorted(c.events) /\ newGroup(c.events).valid
  /\ \A e \in Range(c.events) : e.clock <= c.clock
  /\ Fresh(a, c.clock, new) /\ Independent(new)
  /\ \A i \in 1..Len(new) : new[i].type # "created"
  /\ \/ Leaving(a, new)
     \/ /\ a \notin new[1].members
        /\ new[1].type \in {"removed", "admins"} =>
             new[1].members \cap newGroup(c.events).members # {}

(* Events that are signed come after all the account has. *)
SignedOnTop(a, c, new) ==
  LET S == Range(c.events)
      N == Range(new)
      u == c.events \o new
  IN /\ c.events \in Seq(Events) /\ new \in Seq(Events) /\ u \in Seq(Events)
     /\ Sorted(u) /\ Range(u) = S \cup N
     /\ ProcessEvents(newGroup(c.events), new) = newGroup(u)
     /\ N \subseteq Events /\ new[1] \in N /\ c.clock \in Nat
     /\ \A e \in N : e.from = a /\ e.type # "created" /\ c.clock < e.clock /\ \A d \in S : d.clock < e.clock
     /\ new[1].type = "removed" \/ \A e \in N : e.type # "removed"
     /\ Leaving(a, new) \/ (\E e \in N : e.type = "admins") => N = {new[1]}

LEMMA SigningFacts ==
  ASSUME EventFacts, NEW a, NEW c, NEW new, Signing(a, c, new)
  PROVE  SignedOnTop(a, c, new)
<1> DEFINE s == c.events
           k == Len(new)
<1>1. /\ s \in Seq(Events) /\ new \in Seq(Events) /\ c.clock \in Nat /\ new # <<>> /\ Sorted(new)
      /\ Sorted(s) /\ newGroup(s).valid
  BY Zenon DEF Signing, ChatRecord, Fresh
<1>2. /\ k \in Nat /\ Range(new) = {new[i] : i \in 1..k} /\ Range(new) \subseteq Events
      /\ \A i \in 1..k : new[i].clock \in Nat
  BY <1>1, Zenon DEF EventFacts, ElementsFact
<1>3. k # 0 /\ 1 \in 1..k
  BY <1>1, <1>2
<1>4. \A e \in Range(s) : e.clock \in Nat /\ e.clock <= c.clock
  BY <1>1, Zenon DEF Signing, Events, EventFacts, ElementsFact
<1>5. \A i \in 1..k : new[i].from = a /\ new[i].type # "created" /\ c.clock < new[i].clock
  BY DEF Signing, Fresh
<1>6. \A e \in Range(new) : /\ e.from = a /\ e.type # "created" /\ c.clock < e.clock
                            /\ \A d \in Range(s) : d.clock < e.clock
  BY <1>1, <1>2, <1>4, <1>5
<1>7. /\ s \o new \in Seq(Events) /\ Range(s \o new) = Range(s) \cup Range(new)
      /\ Sorted(s \o new)
  <2>1. \A e \in Range(s), f \in Range(new) : e.clock \in Nat /\ f.clock \in Nat /\ e.clock < f.clock
    BY <1>2, <1>4, <1>6
  <2>2. \A e \in Range(s), f \in Range(new) : e.clock <= f.clock
    BY <2>1
  <2> QED BY <1>1, <2>2 DEF EventFacts, ConcatenationFact
<1>8. ProcessEvents(newGroup(s), new) = newGroup(s \o new)
  BY <1>1, <1>7 DEF EventFacts, GroupExtendsFact
<1>9. new[1] \in Range(new)
  BY <1>2, <1>3
<1>10. Independent(new)
  BY DEF Signing
<1>11. k = 1 => Range(new) = {new[1]}
  BY <1>2
<1>12. new[1].type = "removed" \/ \A e \in Range(new) : e.type # "removed"
  <2>1. CASE k = 1
    BY <1>11, <2>1
  <2>2. CASE \A i \in 1..k : new[i].type = "removed"
    BY <1>3, <2>2
  <2>3. CASE \A i \in 1..k : new[i].type \in DetailsChanged
    BY <1>2, <2>3 DEF DetailsChanged
  <2> QED BY <1>10, <2>1, <2>2, <2>3 DEF Independent
<1>13. Leaving(a, new) \/ (\E e \in Range(new) : e.type = "admins") => Range(new) = {new[1]}
  BY <1>2, <1>10, <1>11 DEF Independent, Leaving, DetailsChanged
<1> QED BY <1>1, <1>2, <1>6, <1>7, <1>8, <1>9, <1>12, <1>13, Zenon DEF SignedOnTop

(* Somebody else is in the group. *)
Staff(S) == \E d \in S : \E b : b # Creator /\ Adds(d, b)

(* The events S that a has or was told of, among those known, K, when no *)
(* update tells of a removal.                                            *)
Calm(a, K, S) ==
  /\ K \subseteq Events /\ S \subseteq K /\ RootOf(K) /\ Loose(K) /\ Based(S) /\ Supported(S)
  /\ a # Creator => \A r \in S : r.type # "removed"
  /\ a = Creator => /\ \A r \in K : r.type = "removed" => r \in S
                    /\ (\E e \in K : e.type = "admins") => Staff(S)

(* It signs those of N. *)
Continues(a, K, S, N) ==
  /\ N \subseteq Events
  /\ \A e \in N : e.from = a /\ e.type # "created" /\ \A d \in S : d.clock < e.clock
  /\ Supported(S \cup N) /\ Loose(K \cup N)
  /\ a # Creator => \A r \in N : r.type # "removed"
  /\ (\E e \in N : e.type = "admins") =>
       (\E d \in S : d.type = "admins") \/ (a = Creator /\ Staff(S))

(* Who appoints admins is one, and there is somebody else. *)
LEMMA Staffing ==
  ASSUME EventFacts, NEW a, NEW c, NEW new, Signing(a, c, new), newGroup(c.events \o new).valid,
         NEW K, Calm(a, K, Range(c.events))
  PROVE  /\ Supported(Range(c.events) \cup Range(new))
         /\ (\E e \in Range(new) : e.type = "admins") =>
              (\E d \in Range(c.events) : d.type = "admins") \/ (a = Creator /\ Staff(Range(c.events)))
<1> DEFINE s == c.events
           S == Range(s)
           N == Range(new)
<1>1. /\ s \in Seq(Events) /\ new \in Seq(Events) /\ Sorted(s \o new)
      /\ \A e \in N : e.from = a /\ \A d \in S : d.clock < e.clock
      /\ (\E e \in N : e.type = "admins") => N = {new[1]}
  <2>1. SignedOnTop(a, c, new)
    BY SigningFacts, Zenon
  <2> QED BY <2>1, Zenon DEF SignedOnTop
<1>2. \A e \in N : SupportedBy(S, e)
  <2>1. Independent(new)
    BY DEF Signing
  <2> QED BY <1>1, <2>1, Zenon DEF EventFacts, SignedSupportedFact
<1>3. Supported(S) /\ S \subseteq K /\ RootOf(K)
  BY DEF Calm
<1> HIDE DEF S, N
<1>4. Supported(S \cup N)
  BY <1>2, <1>3, SupportedMore
<1>5. ASSUME NEW e \in N, e.type = "admins", \A d \in S : d.type # "admins"
      PROVE  a = Creator /\ Staff(S)
  <2>1. PICK d \in S : Appoints(d, a)
    BY <1>1, <1>2, <1>5, Zenon DEF SupportedBy, AppointedBefore
  <2>2. d.type = "created" /\ d.from = a
    BY <1>5, <2>1 DEF Appoints
  <2>3. a = Creator
    BY <1>3, <2>2 DEF RootOf
  <2>4. e = new[1] /\ a \notin e.members
    BY <1>1, <1>5 DEF Signing, Leaving
  <2>5. PICK b \in e.members : AddedBefore(S, e, b)
    BY <1>2, <1>5 DEF SupportedBy
  <2>6. b # Creator
    BY <2>3, <2>4, <2>5
  <2> QED BY <2>3, <2>5, <2>6 DEF AddedBefore, Staff
<1>6. (\E e \in N : e.type = "admins") => (\E d \in S : d.type = "admins") \/ (a = Creator /\ Staff(S))
  BY <1>5
<1> QED BY <1>4, <1>6 DEF S, N

(* What is sent tells of no removal. *)
LEMMA SaidContinues ==
  ASSUME EventFacts, NEW a, NEW c, NEW new, Signing(a, c, new), newGroup(c.events \o new).valid,
         NEW K, Calm(a, K, Range(c.events)),
         \A e \in Range(c.events) \cup Range(new) : e.type # "removed"
  PROVE  Continues(a, K, Range(c.events), Range(new))
<1> DEFINE S == Range(c.events)
           N == Range(new)
<1>1. /\ N \subseteq Events
      /\ \A e \in N : e.from = a /\ e.type # "created" /\ \A d \in S : d.clock < e.clock
  <2>1. SignedOnTop(a, c, new)
    BY SigningFacts, Zenon
  <2> QED BY <2>1, Zenon DEF SignedOnTop
<1>2. /\ Supported(S \cup N)
      /\ (\E e \in N : e.type = "admins") => (\E d \in S : d.type = "admins") \/ (a = Creator /\ Staff(S))
  BY Staffing, Zenon
<1> HIDE DEF S, N
<1>3. ASSUME NEW r \in K \cup N, r.type = "removed"
      PROVE  /\ r.from = Creator /\ r.members = {Creator}
             /\ \A e \in K \cup N : /\ e.type # "admins"
                                    /\ e.from = Creator /\ e.type # "removed" => e.clock < r.clock
  <2>1. r \in K /\ r \notin S /\ a # Creator
    BY <1>3 DEF Calm, S, N
  <2>2. /\ r.from = Creator /\ r.members = {Creator}
        /\ \A e \in K : /\ e.type # "admins"
                        /\ e.from = Creator /\ e.type # "removed" => e.clock < r.clock
    BY <1>3, <2>1 DEF Calm, Loose
  <2>3. S \subseteq K
    BY DEF Calm, S
  <2>4. \A e \in N : e.type # "admins"
    BY <1>2, <2>1, <2>2, <2>3
  <2> QED BY <1>1, <2>1, <2>2, <2>4
<1>4. Loose(K \cup N)
  BY <1>3 DEF Loose
<1>5. \A r \in N : r.type # "removed"
  BY DEF S, N
<1> QED BY <1>1, <1>2, <1>4, <1>5 DEF Continues, S, N

(* A creator that left is back only if there is somebody else. *)
LEMMA BackAmongOthers ==
  ASSUME EventFacts, NEW s \in Seq(Events), Sorted(s), newGroup(s).valid, NEW K, Calm(Creator, K, Range(s)),
         NEW r \in Range(s), r.type = "removed",
         Creator \in newGroup(s).admins \cup newGroup(s).members
  PROVE  Staff(Range(s))
<1> DEFINE n == Len(s)
           S == Range(s)
<1>1. /\ n \in Nat /\ S = {s[i] : i \in 1..n}
      /\ \A i \in 1..n : s[i] \in Events /\ s[i].clock \in Nat
  BY DEF EventFacts, ElementsFact
<1>2. PICK j \in 1..n : r = s[j]
  BY <1>1
<1>3. S \subseteq K /\ RootOf(K) /\ Loose(K) /\ Supported(S)
  BY Zenon DEF Calm
<1>4. /\ Removes(r, Creator)
      /\ \A e \in S : e.type # "admins" /\ (e.from = Creator /\ e.type # "removed" => e.clock < r.clock)
  BY <1>3 DEF Loose, Removes
<1>5. ASSUME NEW i \in 1..n, j < i, s[i].from = Creator PROVE s[i].type = "removed"
  <2>1. s[j].clock <= s[i].clock
    BY <1>1, <1>5 DEF Sorted
  <2> QED BY <1>1, <1>2, <1>4, <1>5, <2>1
<1>6. \A e \in S : e.type = "created" => e.from = Creator
  BY <1>3 DEF RootOf
<1> HIDE DEF n, S
<1>7. Creator \notin newGroup(s).admins
  <2> SUFFICES ASSUME Creator \in newGroup(s).admins PROVE FALSE
    OBVIOUS
  <2>1. AppointedLast(s, n, Creator)
    BY Zenon DEF n, EventFacts, GroupMembersFact
  <2>2. PICK i \in 1..n : Appoints(s[i], Creator) /\ j < i
    BY <1>2, <1>4, <2>1, Zenon DEF AppointedLast
  <2>3. s[i] \in S /\ s[i].type = "created"
    BY <1>1, <1>4, <2>2, Zenon DEF Appoints
  <2> QED BY <1>5, <1>6, <2>2, <2>3, Zenon
<1>8. AddedLast(s, n, Creator)
  BY <1>7, Zenon DEF n, EventFacts, GroupMembersFact
<1>9. PICK i \in 1..n : Adds(s[i], Creator) /\ j < i
  BY <1>2, <1>4, <1>8, Zenon DEF AddedLast
<1> DEFINE e == s[i]
           b == e.from
<1>10. e \in S /\ e.type = "added" /\ b # Creator
  BY <1>1, <1>5, <1>6, <1>9 DEF Adds
<1> HIDE DEF e, b
<1>11. AddedBefore(S, e, b) \/ AppointedBefore(S, e, b)
  BY <1>3, <1>10, Zenon DEF Supported, SupportedBy, b
<1>12. ~AppointedBefore(S, e, b)
  BY <1>4, <1>6, <1>10, Zenon DEF AppointedBefore, Appoints
<1>13. Staff(S)
  BY <1>10, <1>11, <1>12, Zenon DEF AddedBefore, Staff
<1> QED BY <1>13 DEF S

(* What is told to nobody, as there is nobody else. *)
LEMMA UnsaidContinues ==
  ASSUME EventFacts, NEW a, NEW c, NEW new, Signing(a, c, new), newGroup(c.events \o new).valid,
         NEW K, Calm(a, K, Range(c.events)), \A e \in K : e.from = a => e.clock <= c.clock,
         Recipients(a, new, newGroup(c.events), newGroup(c.events \o new)) = {}
  PROVE  Continues(a, K, Range(c.events), Range(new))
<1> DEFINE s == c.events
           u == s \o new
           S == Range(s)
           N == Range(new)
<1>1. /\ s \in Seq(Events) /\ u \in Seq(Events) /\ Sorted(u) /\ Range(u) = S \cup N
      /\ N \subseteq Events /\ new[1] \in N /\ c.clock \in Nat
      /\ \A e \in N : e.from = a /\ e.type # "created" /\ c.clock < e.clock /\ \A d \in S : d.clock < e.clock
      /\ new[1].type = "removed" \/ \A e \in N : e.type # "removed"
      /\ Leaving(a, new) => N = {new[1]}
  <2>1. SignedOnTop(a, c, new)
    BY SigningFacts, Zenon
  <2> QED BY <2>1, Zenon DEF SignedOnTop
<1>2. /\ Supported(S \cup N)
      /\ (\E e \in N : e.type = "admins") => (\E d \in S : d.type = "admins") \/ (a = Creator /\ Staff(S))
  BY Staffing, Zenon
<1>3. /\ Sorted(s) /\ newGroup(s).valid /\ newGroup(u).valid
      /\ \/ Leaving(a, new)
         \/ /\ a \notin new[1].members
            /\ new[1].type \in {"removed", "admins"} => new[1].members \cap newGroup(s).members # {}
  BY Zenon DEF Signing
<1>4. Leaving(a, new) => new[1].type = "removed" /\ new[1].members = {a}
  BY Zenon DEF Leaving
<1>5. /\ new[1].type = "removed" /\ ~Leaving(a, new) => newGroup(s).members \subseteq {a}
      /\ new[1].type # "removed" \/ Leaving(a, new) => newGroup(u).members \subseteq {a}
  <2>1. new[1].type = "removed" /\ ~Leaving(a, new) => new[1].members # {a}
    BY <1>3, Zenon
  <2> QED BY <1>4, <2>1, Zenon DEF Recipients
<1>6. /\ S \subseteq K /\ RootOf(K) /\ Loose(K) /\ Based(S)
      /\ a # Creator => \A r \in S : r.type # "removed"
      /\ a = Creator => /\ \A r \in K : r.type = "removed" => r \in S
                        /\ (\E e \in K : e.type = "admins") => Staff(S)
  BY DEF Calm
<1> HIDE DEF u, s, S, N
\* Who adds whom is not undone by a removal of the creator alone.
<1>7. ASSUME NEW d \in S, NEW b, Adds(d, b),
             \A r \in N : ~Removes(r, b), b = Creator => \A r \in S : ~Removes(r, b)
      PROVE  b \in newGroup(u).members
  <2>1. ASSUME NEW r \in S, Removes(r, b) PROVE FALSE
    <3>1. r \in K /\ r.type = "removed" /\ b \in r.members
      BY <1>6, <2>1, Zenon DEF Removes
    <3>2. r.members = {Creator}
      BY <1>6, <3>1, Zenon DEF Loose
    <3> QED BY <1>7, <2>1, <3>1, <3>2, Zenon
  <2>2. d \in Range(u)
    BY <1>1, Zenon
  <2>3. \A r \in Range(u) : ~Removes(r, b)
    BY <1>1, <1>7, <2>1, Zenon
  <2> QED BY <1>1, <1>3, <1>7, <2>2, <2>3, Zenon DEF EventFacts, StaysMemberFact
<1>8. a = Creator
  <2> SUFFICES ASSUME a # Creator PROVE FALSE
    OBVIOUS
  <2>1. \A r \in S : r.type # "removed"
    BY <1>6
  <2>2. PICK d \in S : d.type = "created"
    BY <1>6 DEF Based
  <2>3. Adds(d, Creator)
    BY <1>6, <2>2, Zenon DEF RootOf, Adds
  <2>4. CASE new[1].type = "removed" /\ ~Leaving(a, new)
    <3>1. Creator \in newGroup(s).members
      BY <1>1, <1>3, <2>1, <2>3, Zenon DEF Removes, S, EventFacts, StaysMemberFact
    <3> QED BY <1>5, <2>4, <3>1, Zenon
  <2>5. CASE new[1].type # "removed" \/ Leaving(a, new)
    <3>1. \A r \in N : ~Removes(r, Creator)
      BY <1>1, <1>4, <2>5, Zenon DEF Removes
    <3>2. Creator \in newGroup(u).members
      BY <1>7, <2>1, <2>3, <3>1, Zenon DEF Removes
    <3> QED BY <1>5, <2>5, <3>2, Zenon
  <2> QED BY <2>4, <2>5, Zenon
<1>9. new[1].type = "removed" => Leaving(a, new)
  BY <1>3, <1>5, Zenon
<1>10. (\A r \in N : r.members \subseteq {Creator} \/ r.type # "removed") => ~Staff(S)
  <2> SUFFICES ASSUME \A r \in N : r.members \subseteq {Creator} \/ r.type # "removed",
                      NEW d \in S, NEW b, b # Creator, Adds(d, b)
               PROVE  FALSE
    BY Zenon DEF Staff
  <2>1. b \in newGroup(u).members
    BY <1>7, Zenon DEF Removes
  <2> QED BY <1>5, <1>8, <1>9, <2>1, Zenon
<1>11. ~Staff(S)
  BY <1>1, <1>4, <1>8, <1>9, <1>10, Zenon
<1>12. \A e \in K : e.type # "admins"
  BY <1>6, <1>8, <1>11
<1>13. \A e \in N : e.type # "admins"
  BY <1>2, <1>6, <1>11, <1>12
<1>14. CASE new[1].type = "removed"
  <2>1. N = {new[1]} /\ new[1].members = {Creator} /\ new[1].from = Creator
    BY <1>1, <1>4, <1>8, <1>9, <1>14, Zenon
  <2>2. \A e \in K : e.from = Creator => e.clock < new[1].clock
    <3>1. \A e \in K : e.clock \in Nat
      BY Zenon DEF Calm, Events
    <3>2. new[1].clock \in Nat /\ c.clock < new[1].clock
      BY <1>1, Zenon DEF Events
    <3>3. \A k, l, n \in Nat : k <= l /\ l < n => k < n
      OBVIOUS
    <3> QED BY <1>1, <1>8, <3>1, <3>2, <3>3, Zenon
  <2>3. Loose(K \cup N)
    BY <1>6, <1>12, <1>13, <1>14, <2>1, <2>2, Zenon DEF Loose
  <2> QED BY <1>1, <1>2, <1>8, <2>3, Zenon DEF Continues, S, N, s
<1>15. CASE new[1].type # "removed"
  <2>1. \A e \in N : e.type # "removed"
    BY <1>1, <1>15, Zenon
  <2>2. ASSUME NEW r \in K, r.type = "removed" PROVE FALSE
    <3>1. r \in S
      BY <1>6, <1>8, <2>2
    <3>2. Creator \in newGroup(s).admins \cup newGroup(s).members
      <4> DEFINE n == Len(s)
                 i == n + 1
      <4>1. /\ n \in Nat /\ i \in 1..Len(u) /\ u[i] = new[1] /\ i - 1 = n
            /\ \A q \in 1..n : u[q] = s[q]
        <5>1. new \in Seq(Events) /\ new # <<>> /\ s \in Seq(Events)
          BY <1>1, SigningFacts, Zenon DEF Signing, Fresh, SignedOnTop
        <5> QED BY <5>1 DEF u
      <4>2. PICK g \in GroupState :
              /\ validateEvent(g, u[i])
              /\ \A b : b \in g.members <=> AddedLast(u, i - 1, b)
              /\ \A b : b \in g.admins <=> AppointedLast(u, i - 1, b)
        BY <1>1, <1>3, <4>1, Zenon DEF EventFacts, GroupMembersFact
      <4>3. \A b : /\ AddedLast(u, n, b) <=> AddedLast(s, n, b)
                   /\ AppointedLast(u, n, b) <=> AppointedLast(s, n, b)
        BY <4>1, Zenon DEF AddedLast, AppointedLast
      <4>4. \A b : /\ b \in g.members <=> b \in newGroup(s).members
                   /\ b \in g.admins <=> b \in newGroup(s).admins
        BY <1>1, <1>3, <4>1, <4>2, <4>3, ZenonT(40) DEF EventFacts, GroupMembersFact
      <4>5. new[1].type \in DetailsChanged \cup {"added", "joined"} /\ new[1].from = Creator
        BY <1>1, <1>8, <1>13, <1>15, Zenon DEF Events
      <4> HIDE DEF i
      <4>6. Creator \in g.admins \cup g.members
        BY <4>1, <4>2, <4>5, Zenon DEF validateEvent, DetailsChanged
      <4> QED BY <4>4, <4>6
    <3>3. Calm(Creator, K, Range(s))
      BY <1>8 DEF s
    <3> QED BY <1>1, <1>3, <1>11, <2>2, <3>1, <3>2, <3>3, BackAmongOthers, Zenon DEF S
  <2>3. Loose(K \cup N)
    BY <2>1, <2>2 DEF Loose
  <2> QED BY <1>1, <1>2, <1>8, <2>3, Zenon DEF Continues, S, N, s
<1> QED BY <1>14, <1>15, Zenon

(* The chat and the messages of the outcome o have the events S, or those of N as well. *)
Shares(o, S, N) ==
  \A s \in {o.chat.events} \cup {m.events : m \in o.sent} : Range(s) = S \/ Range(s) = S \cup N

(* Signing nothing is fine. *)
LEMMA NothingContinues ==
  ASSUME NEW a, NEW K, NEW S, Calm(a, K, S)
  PROVE  Continues(a, K, S, {})
<1>1. S \cup {} = S /\ K \cup {} = K
  OBVIOUS
<1> QED BY <1>1 DEF Calm, Continues

(* Whatever comes of Publish, what is kept and sent is supported, unless a removal is sent. *)
LEMMA PublishContinues ==
  ASSUME EventFacts, NEW a \in Accounts, NEW c, NEW new, Signing(a, c, new), NEW K, Calm(a, K, Range(c.events)),
         \A e \in K : e.from = a => e.clock <= c.clock, NEW o \in Publish(a, c, new),
         \A m \in o.sent : \A e \in Range(m.events) : e.type # "removed"
  PROVE  \E N : Continues(a, K, Range(c.events), N) /\ Shares(o, Range(c.events), N)
<1> DEFINE s == c.events
           u == s \o new
           S == Range(s)
<1>1. /\ c \in ChatRecord /\ new \in Seq(Events) /\ new # <<>>
  BY Zenon DEF Signing, Fresh
<1>2. Published(a, c, new, o)
  BY <1>1, PublishShape
<1>3. Range(u) = S \cup Range(new) /\ ProcessEvents(newGroup(s), new) = newGroup(u)
  <2>1. SignedOnTop(a, c, new)
    BY SigningFacts, Zenon
  <2> QED BY <2>1, Zenon DEF SignedOnTop
<1>4. \A m \in o.sent : m.events = u
  BY <1>2 DEF Published
<1>5. CASE o.sent = {} /\ o.chat.events = s
  <2>1. Shares(o, S, {})
    BY <1>5 DEF Shares
  <2> QED BY <2>1, NothingContinues, Zenon
<1>6. CASE o.sent # {} /\ newGroup(u).valid
  <2>1. \A e \in Range(u) : e.type # "removed"
    BY <1>4, <1>6, Zenon
  <2>2. Continues(a, K, S, Range(new))
    BY <1>3, <1>6, <2>1, SaidContinues, Zenon
  <2>3. o.chat.events = s \/ o.chat.events = u
    BY <1>1, <1>2, Zenon DEF Published, ChatRecord
  <2>4. Shares(o, S, Range(new))
    BY <1>3, <1>4, <2>3, Zenon DEF Shares
  <2> QED BY <2>2, <2>4
<1>7. CASE o.sent = {} /\ o.chat.events = u /\ newGroup(u).valid
           /\ Recipients(a, new, newGroup(s), newGroup(u)) = {}
  <2>1. Continues(a, K, S, Range(new))
    BY <1>7, UnsaidContinues, Zenon
  <2>2. Shares(o, S, Range(new))
    BY <1>3, <1>7, Zenon DEF Shares
  <2> QED BY <2>1, <2>2
<1>8. o.error = "invalid" => o.sent = {} /\ o.chat.events = s
  BY <1>1, <1>2 DEF Published, ChatRecord
<1>9. o.error = "dispatch" => o.chat.events = s /\ newGroup(u).valid
  BY <1>1, <1>2, <1>3 DEF Published, ChatRecord
<1>10. o.error = "none" => /\ o.chat.events = u /\ newGroup(u).valid
                           /\ o.sent = Update(a, Recipients(a, new, newGroup(s), newGroup(u)), u, 0)
  BY <1>1, <1>2, <1>3, Zenon DEF Published, ChatRecord
<1>11. o.error = "none" => o.sent # {} \/ Recipients(a, new, newGroup(s), newGroup(u)) = {}
  BY <1>10, Zenon DEF Update
<1>12. o.error \in {"invalid", "dispatch", "none"}
  BY <1>2 DEF Published
<1> QED BY <1>5, <1>6, <1>7, <1>8, <1>9, <1>10, <1>11, <1>12, Zenon
-----------------------------------------------------------------------------
(* The operations. *)

(* The fields of an event. *)
LEMMA EventTyped ==
  ASSUME NEW type \in DetailsChanged \cup {"created", "added", "joined", "removed", "admins"},
         NEW a \in Accounts, NEW clock \in Nat, NEW members \in SUBSET Accounts
  PROVE  /\ Event(type, a, clock, members) \in Events
         /\ Event(type, a, clock, members).type = type
         /\ Event(type, a, clock, members).from = a
         /\ Event(type, a, clock, members).clock = clock
         /\ Event(type, a, clock, members).members = members
  BY DEF Event, Events

(* Operate and Publish with one new event or several. *)
LEMMA OperateSigns ==
  ASSUME EventFacts, GroupTypes, NEW a \in Accounts, chat[a].exists, NEW name, NEW new,
         Fresh(a, chat[a].clock, new), Independent(new), new[1].type # "joined",
         \A i \in 1..Len(new) : new[i].type # "created", a \notin new[1].members,
         new[1].type \in {"removed", "admins"} => new[1].members \cap chat[a].members # {},
         Operate(a, name, Publish(a, chat[a], new))
  PROVE  \E o : Steps(a, o) /\ Signs(a, o)
<1>1. PICK o \in Publish(a, chat[a], new) :
        /\ chat' = [chat EXCEPT ![a] = o.chat]
        /\ net' = net \cup o.sent
        /\ failures' = failures + (IF o.error = "dispatch" THEN 1 ELSE 0)
  BY Zenon DEF Operate, Become
<1>2. Steps(a, o)
  BY <1>1 DEF Operate, Steps
<1>3. chat[a] \in ChatRecord /\ new \in Seq(Events) /\ new # <<>>
  BY DEF GroupTypes, Fresh
<1>4. Published(a, chat[a], new, o)
  BY <1>1, <1>3, PublishShape
<1>5. o.chat \in ChatRecord
  BY <1>4 DEF Published
<1>6. o.chat.notified = chat[a].notified /\ o.chat.active = chat[a].active
  BY <1>3, <1>4, Zenon DEF Published, ChatRecord
<1>7. Like(o.chat, o.chat)
  BY DEF Like
<1>8. Signs(a, o)
  BY <1>1, <1>3, <1>5, <1>6, <1>7 DEF Signs
<1> QED BY <1>2, <1>8

(* Adding, removing, promoting and editing sign events. *)
LEMMA SigningOperations ==
  ASSUME EventFacts, GroupTypes, NEW a \in Accounts,
         \/ \E members \in Some(Accounts \ {a}) : AddMembersToGroupChat(a, members)
         \/ \E members \in Some(chat[a].members \ {a}) :
              \/ \E order \in Bijection(1..Cardinality(members), members) :
                   RemoveMembersFromGroupChat(a, order)
              \/ AddAdminsToGroupChat(a, members)
         \/ \E details \in Edits : EditGroupChat(a, details)
  PROVE  \E o : Steps(a, o) /\ Signs(a, o)
<1> DEFINE clock == NextClock(a, chat[a])
<1>1. chat[a].clock \in Nat /\ chat[a].members \subseteq Accounts
  BY DEF GroupTypes, ChatRecord
<1>2. clock \in Nat /\ chat[a].clock < clock
  BY <1>1, NextClockAdvances, Zenon
<1>3. \A members \in SUBSET Accounts, type \in {"added", "admins"} :
        LET new == <<Event(type, a, clock, members)>>
        IN /\ Fresh(a, chat[a].clock, new) /\ Independent(new)
           /\ new[1].type = type /\ new[1].members = members
           /\ \A i \in 1..Len(new) : new[i].type = type
  <2> SUFFICES ASSUME NEW members \in SUBSET Accounts, NEW type \in {"added", "admins"}
               PROVE  LET new == <<Event(type, a, clock, members)>>
                      IN /\ Fresh(a, chat[a].clock, new) /\ Independent(new)
                         /\ new[1].type = type /\ new[1].members = members
                         /\ \A i \in 1..Len(new) : new[i].type = type
    BY Zenon
  <2> DEFINE e == Event(type, a, clock, members)
  <2>1. /\ e \in Events /\ e.from = a /\ e.clock = clock
        /\ e.type = type /\ e.members = members
    BY <1>2 DEF Event, Events
  <2> HIDE DEF e
  <2>2. Fresh(a, chat[a].clock, <<e>>) /\ Independent(<<e>>) /\ <<e>>[1] = e /\ Len(<<e>>) = 1
    BY <1>1, <1>2, <2>1, OneEvent
  <2> QED BY <2>1, <2>2 DEF e
<1>4. CASE \E members \in Some(Accounts \ {a}) : AddMembersToGroupChat(a, members)
  <2>1. PICK members \in Some(Accounts \ {a}) : AddMembersToGroupChat(a, members)
    BY <1>4
  <2>2. members \in SUBSET Accounts
    BY DEF Some
  <2> DEFINE new == <<Event("added", a, clock, members)>>
  <2>3. /\ Fresh(a, chat[a].clock, new) /\ Independent(new)
        /\ new[1].type = "added" /\ new[1].members = members
        /\ \A i \in 1..Len(new) : new[i].type = "added"
    BY <1>3, <2>2, Zenon
  <2>4. /\ chat[a].exists
        /\ Operate(a, "add", Publish(a, chat[a], new))
    BY <2>1 DEF AddMembersToGroupChat
  <2> HIDE DEF new
  <2>5. a \notin members
    BY Zenon DEF Some
  <2> QED BY <2>3, <2>4, <2>5, OperateSigns, Zenon
<1>5. CASE \E members \in Some(chat[a].members \ {a}) : AddAdminsToGroupChat(a, members)
  <2>1. PICK members \in Some(chat[a].members \ {a}) : AddAdminsToGroupChat(a, members)
    BY <1>5
  <2>2. members \in SUBSET Accounts
    BY <1>1 DEF Some
  <2> DEFINE new == <<Event("admins", a, clock, members)>>
  <2>3. /\ Fresh(a, chat[a].clock, new) /\ Independent(new)
        /\ new[1].type = "admins" /\ new[1].members = members
        /\ \A i \in 1..Len(new) : new[i].type = "admins"
    BY <1>3, <2>2, Zenon
  <2>4. /\ chat[a].exists
        /\ Operate(a, "admins", Publish(a, chat[a], new))
    BY <2>1 DEF AddAdminsToGroupChat
  <2> HIDE DEF new
  <2>5. a \notin members /\ members \cap chat[a].members # {}
    BY DEF Some
  <2> QED BY <2>3, <2>4, <2>5, OperateSigns
<1>6. CASE \E members \in Some(chat[a].members \ {a}) :
             \E order \in Bijection(1..Cardinality(members), members) :
               RemoveMembersFromGroupChat(a, order)
  <2>1. PICK members \in Some(chat[a].members \ {a}) :
          \E order \in Bijection(1..Cardinality(members), members) :
            RemoveMembersFromGroupChat(a, order)
    BY <1>6
  <2>2. PICK order \in Bijection(1..Cardinality(members), members) :
          RemoveMembersFromGroupChat(a, order)
    BY <2>1
  <2> DEFINE n == Cardinality(members)
             new == [i \in DOMAIN order |-> Event("removed", a, clock, {order[i]})]
  <2>3. members \subseteq Accounts /\ members # {} /\ IsFiniteSet(members)
    <3>1. members \subseteq Accounts /\ members # {}
      BY <1>1 DEF Some
    <3> QED BY <3>1, GroupAssumption, Zenon DEF EventFacts, SubsetFact
  <2>4. n \in Nat /\ n # 0
    BY <2>3 DEF EventFacts, CardinalityFact, EmptySetFact
  <2>5. order \in [1..n -> members]
    BY <2>2, Zenon DEF Bijection, Injection
  <2>6. /\ chat[a].exists /\ Operate(a, "remove", Publish(a, chat[a], new))
    BY <2>2 DEF RemoveMembersFromGroupChat
  <2> HIDE DEF n
  <2>7. \A i \in 1..n : /\ Event("removed", a, clock, {order[i]}) \in Events
                        /\ Event("removed", a, clock, {order[i]}).from = a
                        /\ Event("removed", a, clock, {order[i]}).clock = clock
                        /\ Event("removed", a, clock, {order[i]}).type = "removed"
                        /\ Event("removed", a, clock, {order[i]}).members = {order[i]}
    <3> TAKE i \in 1..n
    <3> DEFINE x == {order[i]}
    <3>1. x \in SUBSET Accounts
      BY <2>3, <2>5
    <3> DEFINE r == "removed"
    <3>2. r \in DetailsChanged \cup {"created", "added", "joined", "removed", "admins"}
      OBVIOUS
    <3> HIDE DEF x, clock, new, r
    <3>3. clock \in Nat
      BY <1>2 DEF clock
    <3>4. /\ Event(r, a, clock, x) \in Events
          /\ Event(r, a, clock, x).from = a
          /\ Event(r, a, clock, x).clock = clock
          /\ Event(r, a, clock, x).type = r
          /\ Event(r, a, clock, x).members = x
      BY <3>1, <3>2, <3>3 DEF Event, Events
    <3> QED BY <3>4, Zenon DEF x, r
  <2>8. DOMAIN order = 1..n
    BY <2>5, Zenon
  <2>9. new \in [1..n -> Events] /\ \A i \in 1..n : new[i] = Event("removed", a, clock, {order[i]})
    BY <2>7, <2>8, Zenon
  <2> HIDE DEF clock, new
  <2>10. new \in Seq(Events) /\ Len(new) = n
    BY <2>4, <2>9
  <2>11. new # <<>>
    BY <2>4, <2>10
  <2>12. \A i \in 1..n : new[i].from = a /\ new[i].clock = clock /\ new[i].type = "removed"
    BY <2>7, <2>9, Zenon DEF clock
  <2>13. Fresh(a, chat[a].clock, new) /\ Independent(new)
    BY <1>2, <2>10, <2>11, <2>12 DEF Fresh, Independent, Sorted, clock
  <2>14. /\ new[1].type # "joined" /\ a \notin new[1].members
         /\ new[1].members \cap chat[a].members # {}
    <3>1. 1 \in 1..n /\ order[1] # a /\ order[1] \in chat[a].members
      BY <2>4, <2>5 DEF Some
    <3>2. new[1].members = {order[1]}
      BY <2>7, <2>9, <3>1, Zenon DEF clock
    <3> QED BY <2>12, <3>1, <3>2
  <2>15. \A i \in 1..Len(new) : new[i].type # "created"
    BY <2>10, <2>12, Zenon
  <2> QED BY <2>6, <2>13, <2>14, <2>15, OperateSigns, Zenon
<1>7. CASE \E details \in Edits : EditGroupChat(a, details)
  <2>1. PICK details \in Edits : EditGroupChat(a, details)
    BY <1>7
  <2> DEFINE n == Len(details)
             new == [i \in DOMAIN details |-> Event(details[i], a, clock + i - 1, {})]
  <2>2. details \in Seq({"name", "color", "image"}) /\ details # <<>>
    BY GroupAssumption
  <2>3. /\ n \in Nat /\ n # 0 /\ DOMAIN details = 1..n
        /\ \A i \in 1..n : details[i] \in {"name", "color", "image"}
    BY <2>2
  <2>4. /\ chat[a].exists /\ Operate(a, "edit", Publish(a, chat[a], new))
    BY <2>1, Zenon DEF EditGroupChat
  <2> HIDE DEF n, clock
  <2>5. \A i \in 1..n : /\ Event(details[i], a, clock + i - 1, {}) \in Events
                        /\ Event(details[i], a, clock + i - 1, {}).from = a
                        /\ Event(details[i], a, clock + i - 1, {}).clock = clock + i - 1
                        /\ Event(details[i], a, clock + i - 1, {}).type = details[i]
                        /\ Event(details[i], a, clock + i - 1, {}).members = {}
    <3>1. ASSUME NEW i \in 1..n
          PROVE  /\ Event(details[i], a, clock + i - 1, {}) \in Events
                 /\ Event(details[i], a, clock + i - 1, {}).from = a
                 /\ Event(details[i], a, clock + i - 1, {}).clock = clock + i - 1
                 /\ Event(details[i], a, clock + i - 1, {}).type = details[i]
                 /\ Event(details[i], a, clock + i - 1, {}).members = {}
      <4>1. clock + i - 1 \in Nat
        BY <1>2, <2>3 DEF clock
      <4>2. details[i] \in DetailsChanged
        BY <2>3 DEF DetailsChanged
      <4> QED BY <4>1, <4>2, EventTyped
    <3> QED BY <3>1, Zenon
  <2>6. new \in [1..n -> Events]
        /\ \A i \in 1..n : new[i] = Event(details[i], a, clock + i - 1, {})
    BY <2>3, <2>5
  <2> HIDE DEF new
  <2>7. new \in Seq(Events) /\ Len(new) = n
    BY <2>3, <2>6
  <2>8. new # <<>>
    BY <2>3, <2>7
  <2>9. \A i \in 1..n : /\ new[i].from = a /\ new[i].clock = clock + i - 1
                        /\ new[i].type \in {"name", "color", "image"} /\ new[i].members = {}
    BY <2>3, <2>5, <2>6
  <2>10. clock \in Nat /\ chat[a].clock < clock /\ chat[a].clock \in Nat
    BY <1>1, <1>2 DEF clock
  <2>11. \A i, j \in 1..n : i <= j => clock + i - 1 <= clock + j - 1
    BY <2>3, <2>10
  <2>12. \A i \in 1..n : chat[a].clock < clock + i - 1
    BY <2>3, <2>10
  <2>13. \A i, j \in 1..n : clock + i - 1 = clock + j - 1 => i = j
    BY <2>3, <2>10
  <2>14. Fresh(a, chat[a].clock, new)
    <3>1. \A i, j \in 1..Len(new) : i <= j => new[i].clock <= new[j].clock
      BY <2>7, <2>9, <2>11, Zenon
    <3>2. \A i \in 1..Len(new) : new[i].from = a /\ chat[a].clock < new[i].clock
      BY <2>7, <2>9, <2>12
    <3>3. \A i, j \in 1..Len(new) : new[i].clock = new[j].clock => i = j
      BY <2>7, <2>9, <2>13
    <3> QED BY <2>7, <2>8, <3>1, <3>2, <3>3 DEF Fresh, Sorted
  <2>15. Independent(new)
    BY <2>7, <2>9 DEF Independent, DetailsChanged
  <2>16. new[1].type \notin {"joined", "removed", "admins"} /\ a \notin new[1].members
    <3>1. 1 \in 1..n
      BY <2>3
    <3> QED BY <2>9, <3>1
  <2>17. \A i \in 1..Len(new) : new[i].type # "created"
    BY <2>7, <2>9
  <2> QED BY <2>4, <2>14, <2>15, <2>16, <2>17, OperateSigns
<1> QED BY <1>4, <1>5, <1>6, <1>7, Zenon

(* An account that has no chat has nothing of it. *)
Absent == \A a \in Accounts : ~chat[a].exists => chat[a] = NoChat

(* Accepting a notification signs a joining. *)
LEMMA NotificationSigns ==
  ASSUME EventFacts, GroupTypes, Absent, NEW a \in Accounts, AcceptNotification(a)
  PROVE  \E o : Steps(a, o) /\ Signs(a, o)
<1> DEFINE c == [chat[a] EXCEPT !.active = TRUE, !.notified = FALSE]
           e == Event("joined", a, NextClock(a, c), {})
<1>1. /\ chat[a] \in ChatRecord /\ chat[a].notified /\ chat[a].clock \in Nat
      /\ c \in ChatRecord /\ Like(c, chat[a]) /\ ~c.notified
  <2>1. chat[a] \in ChatRecord /\ chat[a].notified
    BY DEF GroupTypes, AcceptNotification
  <2> QED BY <2>1, Zenon DEF ChatRecord, Like
<1>2. chat[a].exists
  BY <1>1 DEF Absent, NoChat
<1>3. PICK o \in Publish(a, c, <<e>>) :
        /\ chat' = [chat EXCEPT ![a] = o.chat]
        /\ net' = net \cup o.sent
        /\ failures' = failures + (IF o.error = "dispatch" THEN 1 ELSE 0)
  BY Zenon DEF AcceptNotification, Become, ConfirmJoiningGroup
<1>4. Steps(a, o)
  BY <1>3 DEF AcceptNotification, Steps
<1> HIDE DEF c
<1>5. c.clock \in Nat
  BY <1>1 DEF Like
<1>6. NextClock(a, c) \in Nat /\ c.clock < NextClock(a, c)
  BY <1>5, NextClockAdvances
<1>7. e \in Events /\ e.from = a /\ e.clock = NextClock(a, c) /\ e.type = "joined" /\ e.members = {}
  BY <1>6 DEF Event, Events
<1> HIDE DEF e
<1>8. /\ Fresh(a, c.clock, <<e>>) /\ Independent(<<e>>) /\ <<e>>[1] = e
      /\ <<e>> \in Seq(Events) /\ <<e>> # <<>> /\ \A i \in 1..Len(<<e>>) : <<e>>[i] = e
  BY <1>5, <1>6, <1>7, OneEvent DEF Fresh
<1>9. Published(a, c, <<e>>, o)
  BY <1>1, <1>3, <1>8, PublishShape, Zenon
<1>10. o.chat \in ChatRecord /\ o.chat.notified = c.notified /\ Like(o.chat, o.chat) /\ o.chat.active = c.active
  BY <1>1, <1>9, Zenon DEF Published, ChatRecord, Like
<1>11. c.active
  BY <1>1 DEF c, ChatRecord
<1>12. Signs(a, o)
  BY <1>1, <1>2, <1>3, <1>7, <1>8, <1>10, <1>11, Zenon DEF Signs, Like
<1> QED BY <1>4, <1>12

(* Leaving signs a removal of oneself, or nothing when not a member. *)
LEMMA LeaveSteps ==
  ASSUME EventFacts, GroupTypes, NEW a \in Accounts, NEW remove \in BOOLEAN, LeaveGroupChat(a, remove)
  PROVE  \E o : Steps(a, o) /\ (Signs(a, o) \/ Idles(a, o))
<1> DEFINE c == [chat[a] EXCEPT !.notified = FALSE]
           left == [c EXCEPT !.members = @ \ {a}]
           deactivate(p) == IF remove /\ p.error = "none" THEN [p EXCEPT !.chat.active = FALSE] ELSE p
           e == Event("removed", a, NextClock(a, c), {a})
           outcomes == IF a \in c.members THEN Publish(a, left, <<e>>) ELSE {Outcome(c, {}, "none")}
<1>1. chat[a] \in ChatRecord
  BY DEF GroupTypes
<1>2. /\ c \in ChatRecord /\ Like(c, chat[a]) /\ ~c.notified /\ c.active = chat[a].active
  BY <1>1, Zenon DEF ChatRecord, Like
<1>3. /\ left \in ChatRecord /\ left.exists = chat[a].exists /\ left.events = chat[a].events
      /\ left.clock = chat[a].clock /\ ~left.notified /\ left.active = chat[a].active
      /\ left.members \subseteq chat[a].members
  BY <1>1, Zenon DEF ChatRecord
<1>4. chat[a].exists /\ Operate(a, "leave", {deactivate(p) : p \in outcomes})
  BY <1>2 DEF LeaveGroupChat, Like
<1>5. PICK o \in {deactivate(p) : p \in outcomes} :
        /\ chat' = [chat EXCEPT ![a] = o.chat]
        /\ net' = net \cup o.sent
        /\ failures' = failures + (IF o.error = "dispatch" THEN 1 ELSE 0)
  BY <1>4, Zenon DEF Operate, Become
<1>6. Steps(a, o)
  BY <1>4, <1>5 DEF Operate, Steps
<1>7. PICK p \in outcomes : o = deactivate(p)
  BY <1>5, Zenon
<1> HIDE DEF c, left, e
<1>8. NextClock(a, c) \in Nat /\ c.clock < NextClock(a, c) /\ c.clock \in Nat
  BY <1>1, <1>2, NextClockAdvances DEF Like, ChatRecord
<1>9. /\ e \in Events /\ e.from = a /\ e.clock = NextClock(a, c)
      /\ e.type = "removed" /\ e.members = {a}
  BY <1>8 DEF e, Event, Events
<1>10. /\ Fresh(a, c.clock, <<e>>) /\ Independent(<<e>>) /\ <<e>>[1] = e /\ Len(<<e>>) = 1
       /\ <<e>> \in Seq(Events) /\ <<e>> # <<>>
  BY <1>8, <1>9, OneEvent DEF Fresh
<1>11. ASSUME p = Outcome(p.chat, p.sent, p.error), p.chat \in ChatRecord
       PROVE  /\ o.sent = p.sent /\ o.error = p.error /\ Like(o.chat, p.chat)
              /\ o.chat \in ChatRecord /\ o.chat.notified = p.chat.notified
              /\ o.chat.active => p.chat.active
              /\ p.chat.active /\ ~o.chat.active => p.error = "none"
  <2>1. CASE remove /\ p.error = "none"
    <3>1. o = [p EXCEPT !.chat = [p.chat EXCEPT !.active = FALSE]]
      BY <1>7, <2>1
    <3>2. o = [chat |-> [p.chat EXCEPT !.active = FALSE], sent |-> p.sent, error |-> p.error]
      BY <1>11, <3>1, Zenon DEF Outcome
    <3> QED BY <1>11, <2>1, <3>2, Zenon DEF Like, ChatRecord
  <2>2. CASE ~(remove /\ p.error = "none")
    BY <1>7, <1>11, <2>2 DEF Like
  <2> QED BY <2>1, <2>2
<1>12. CASE a \in c.members
  <2>1. p \in Publish(a, left, <<e>>)
    BY <1>7, <1>12
  <2>2. Published(a, left, <<e>>, p)
    BY <1>3, <1>10, <2>1, PublishShape, Zenon
  <2>3. /\ p = Outcome(p.chat, p.sent, p.error) /\ p.chat \in ChatRecord
        /\ p.chat.active = left.active /\ p.chat.notified = left.notified
    BY <1>3, <2>2, Zenon DEF Published, ChatRecord
  <2>4. /\ o.sent = p.sent /\ o.error = p.error /\ Like(o.chat, p.chat)
        /\ o.chat \in ChatRecord /\ o.chat.notified = p.chat.notified
        /\ o.chat.active => p.chat.active
        /\ p.chat.active /\ ~o.chat.active => p.error = "none"
    BY <1>11, <2>3
  <2>5. Leaving(a, <<e>>)
    BY <1>9, <1>10 DEF Leaving
  <2>6. c.clock = chat[a].clock
    BY <1>2 DEF Like
  <2>7. Signs(a, o)
    <3> DEFINE new == <<e>>
    <3>1. /\ Fresh(a, left.clock, new) /\ Independent(new) /\ new[1].type # "joined"
          /\ Leaving(a, new) /\ new \in Seq(Events) /\ p \in Publish(a, left, new)
          /\ \A i \in 1..Len(new) : new[i].type # "created"
      BY <1>3, <1>9, <1>10, <2>1, <2>5, <2>6
    <3> HIDE DEF new
    <3>2. /\ o.chat.notified => chat[a].notified
          /\ o.chat.active => chat[a].active
          /\ chat[a].active /\ ~o.chat.active => o.error = "none"
      BY <1>3, <2>3, <2>4
    <3>3. /\ left \in ChatRecord /\ left.exists /\ left.events = chat[a].events
          /\ left.clock = chat[a].clock /\ left.members \subseteq chat[a].members
      BY <1>3, <1>4
    <3> QED BY <1>4, <2>4, <3>1, <3>2, <3>3 DEF Signs
  <2> QED BY <1>6, <2>7
<1>13. CASE a \notin c.members
  <2>1. p = Outcome(c, {}, "none")
    BY <1>7, <1>13
  <2>2. p.chat = c /\ p.sent = {} /\ p.error = "none" /\ p = Outcome(p.chat, p.sent, p.error)
    BY <2>1 DEF Outcome
  <2>3. /\ o.sent = {} /\ Like(o.chat, c)
        /\ o.chat \in ChatRecord /\ o.chat.notified = c.notified
        /\ o.chat.active => c.active
    BY <1>2, <1>11, <2>2
  <2>4. chat[a].clock \in Nat
    BY <1>1 DEF ChatRecord
  <2>5. Idles(a, o)
    BY <1>2, <1>4, <1>13, <2>3, <2>4 DEF Idles, Like
  <2> QED BY <1>6, <2>5
<1> QED BY <1>12, <1>13

(* Posting signs nothing; it sends the events there are. *)
LEMMA PostIdles ==
  ASSUME GroupTypes, NEW a \in Accounts, SendChatMessage(a)
  PROVE  \E o : Steps(a, o) /\ Idles(a, o)
<1> DEFINE clock == NextClock(a, chat[a])
           c == [chat[a] EXCEPT !.clock = clock]
           outcomes == IF newGroup(c.events).valid
                       THEN Dispatch(a, c.members \ {a}, c.events, c.clock, c, c)
                       ELSE {Outcome(c, {}, "invalid")}
<1>1. chat[a] \in ChatRecord /\ chat[a].clock \in Nat
  BY DEF GroupTypes, ChatRecord
<1>2. clock \in Nat /\ chat[a].clock < clock
  BY <1>1, NextClockAdvances
<1>3. chat[a].exists /\ Operate(a, "post", outcomes)
  BY DEF SendChatMessage
<1>4. PICK o \in outcomes :
        /\ chat' = [chat EXCEPT ![a] = o.chat]
        /\ net' = net \cup o.sent
        /\ failures' = failures + (IF o.error = "dispatch" THEN 1 ELSE 0)
  BY <1>3, Zenon DEF Operate, Become
<1>5. Steps(a, o)
  BY <1>3, <1>4 DEF Operate, Steps
<1> HIDE DEF clock
<1>6. /\ c \in ChatRecord /\ c.exists /\ c.events = chat[a].events /\ c.members = chat[a].members
      /\ c.clock = clock /\ c.active = chat[a].active /\ c.notified = chat[a].notified
  BY <1>1, <1>2, <1>3 DEF ChatRecord
<1> HIDE DEF c
<1>7. \E some \in SUBSET (c.members \ {a}) :
        o.chat = c /\ (o.sent = {} \/ o.sent = Update(a, some, c.events, c.clock))
  BY <1>4 DEF Dispatch, Outcome
<1>8. PICK some \in SUBSET (c.members \ {a}) :
        o.chat = c /\ (o.sent = {} \/ o.sent = Update(a, some, c.events, c.clock))
  BY <1>7
<1>9. some \in SUBSET Accounts /\ c.events \in Seq(Events) /\ c.clock \in Nat
  BY <1>6, <1>8 DEF ChatRecord
<1>10. o.sent \subseteq UpdateRecord /\ \A m \in o.sent : m.events = c.events
  BY <1>8, <1>9, UpdateTyped
<1>11. chat[a].clock <= c.clock
  BY <1>1, <1>2, <1>6
<1>12. Idles(a, o)
  BY <1>3, <1>6, <1>8, <1>10, <1>11 DEF Idles
<1> QED BY <1>5, <1>12

(* The last clock value, raised to that of the events. *)
LEMMA ClockRaised ==
  ASSUME EventFacts, NEW c \in ChatRecord, Sorted(c.events)
  PROVE  LET clock == Max({c.clock} \cup {e.clock : e \in Range(c.events)}) IN
         /\ clock \in Nat /\ c.clock <= clock /\ \A e \in Range(c.events) : e.clock <= clock
         /\ RaiseLastClock(c, c.events) = [c EXCEPT !.clock = clock]
<1> DEFINE s == c.events
           S == {c.clock} \cup {e.clock : e \in Range(s)}
           n == Len(s)
<1>1. /\ s \in Seq(Events) /\ c.clock \in Nat
  BY Zenon DEF ChatRecord
<1>2. /\ Range(s) = {s[i] : i \in 1..n} /\ n \in Nat
      /\ \A i \in 1..n : s[i] \in Events /\ s[i].clock \in Nat
  BY <1>1, Zenon DEF EventFacts, ElementsFact
<1>3. RaiseLastClock(c, s) = [c EXCEPT !.clock = Max(S)]
  BY DEF RaiseLastClock
<1>4. Sorted(s)
  OBVIOUS
<1> HIDE DEF s, n
<1>5. S \subseteq Nat /\ S # {}
  BY <1>1, <1>2
<1>6. \E b \in Nat : \A k \in S : k <= b
  <2>1. CASE n = 0
    <3>1. \A k \in S : k <= c.clock
      BY <1>1, <1>2, <2>1
    <3> QED BY <1>1, <3>1
  <2>2. CASE n # 0
    <3>1. n \in 1..n /\ s[n].clock \in Nat
      BY <1>2, <2>2
    <3>2. \A i \in 1..n : s[i].clock <= s[n].clock
      BY <1>2, <1>4, <3>1 DEF Sorted, n
    <3>3. c.clock + s[n].clock \in Nat
      BY <1>1, <3>1
    <3>4. \A i \in 1..n : s[i].clock <= c.clock + s[n].clock
      BY <1>1, <1>2, <3>1, <3>2
    <3>5. c.clock <= c.clock + s[n].clock
      BY <1>1, <3>1
    <3>6. \A k \in S : k <= c.clock + s[n].clock
      BY <1>2, <3>4, <3>5
    <3> QED BY <3>3, <3>6
  <2> QED BY <2>1, <2>2
<1>7. PICK b \in Nat : \A k \in S : k <= b
  BY <1>6
<1>8. c.clock \in S /\ \A e \in Range(s) : e.clock \in S
  OBVIOUS
<1> HIDE DEF S
<1>9. Max(S) \in S /\ \A k \in S : k <= Max(S)
  BY <1>5, <1>7, Zenon DEF EventFacts, MaxIsGreatestFact
<1>10. Max(S) \in Nat /\ c.clock <= Max(S) /\ \A e \in Range(s) : e.clock <= Max(S)
  BY <1>5, <1>8, <1>9, Zenon
<1> QED BY <1>3, <1>10 DEF S, s

(* The last part of HandleMembershipUpdate, for a chat that was given the events. *)
LEMMA SettleTakes ==
  ASSUME EventFacts, GroupTypes, NEW a \in Accounts, NEW m \in net, NEW c \in ChatRecord, NEW added \in BOOLEAN,
         c.exists, Sorted(c.events), Range(c.events) = EventsOf(a) \cup Range(m.events),
         newGroup(c.events).valid, c.members = newGroup(c.events).members,
         c.clock = chat[a].clock, c.notified = chat[a].notified, chat[a].active => c.active,
         chat[a].exists /\ c.active => chat[a].active \/ a \in c.members,
         chat[a].exists => newGroup(chat[a].events).valid /\ c.events = MergedWith(a, m),
         added => Added(a, c), Become(a, Settle(a, m, c, added)), UNCHANGED <<now, refused>>
  PROVE  \E o : Steps(a, o) /\ TakesUpdate(a, m, o)
<1> DEFINE clock == Max({c.clock} \cup {e.clock : e \in Range(c.events)})
           raised == RaiseLastClock(c, c.events)
           told == [raised EXCEPT !.notified = @ \/ (added /\ ~c.active)]
           outcomes == IF added /\ c.active THEN ConfirmJoiningGroup(a, told)
                       ELSE {Outcome(told, {}, "none")}
<1>1. /\ clock \in Nat /\ c.clock <= clock /\ \A e \in Range(c.events) : e.clock <= clock
      /\ raised = [c EXCEPT !.clock = clock]
  BY ClockRaised, Zenon
<1> HIDE DEF clock
<1>2. /\ raised \in ChatRecord /\ raised.exists = c.exists /\ raised.events = c.events
      /\ raised.members = c.members /\ raised.clock = clock /\ raised.active = c.active
      /\ raised.notified = c.notified
  BY <1>1, Zenon DEF ChatRecord
<1> HIDE DEF raised
<1>3. c.notified \in BOOLEAN /\ c.active \in BOOLEAN /\ raised.notified \in BOOLEAN
  BY <1>2 DEF ChatRecord
<1>4. /\ told \in ChatRecord /\ told.exists = c.exists /\ told.events = c.events
      /\ told.members = c.members /\ told.clock = clock /\ told.active = c.active
  BY <1>2, <1>3, Zenon DEF ChatRecord
<1>5. told.notified = (c.notified \/ (added /\ ~c.active))
  <2> DEFINE v == raised.notified \/ (added /\ ~c.active)
  <2>1. told = [raised EXCEPT !.notified = v]
    OBVIOUS
  <2> HIDE DEF v
  <2>2. told.notified = v
    BY <1>2, <2>1 DEF ChatRecord
  <2> QED BY <1>2, <2>2 DEF v
<1>6. Settle(a, m, c, added) = {HandleChatMessage(a, m, p) : p \in outcomes}
  BY DEF Settle, raised
<1>7. PICK o \in {HandleChatMessage(a, m, p) : p \in outcomes} :
        /\ chat' = [chat EXCEPT ![a] = o.chat]
        /\ net' = net \cup o.sent
        /\ failures' = failures + (IF o.error = "dispatch" THEN 1 ELSE 0)
  BY <1>6, Zenon DEF Become
<1>8. Steps(a, o)
  BY <1>7 DEF Steps
<1>9. PICK p \in outcomes : o = HandleChatMessage(a, m, p)
  BY <1>7
<1> HIDE DEF told
<1>10. Told(a, m, told)
  BY <1>1, <1>4, Zenon DEF Told
<1>11. m.clock \in Nat
  BY DEF GroupTypes, UpdateRecord
<1>12. ASSUME p = Outcome(p.chat, p.sent, p.error), p.chat \in ChatRecord
       PROVE  /\ o.sent = p.sent /\ o.error = p.error
              /\ o.chat \in ChatRecord /\ o.chat.exists = p.chat.exists
              /\ o.chat.events = p.chat.events /\ o.chat.members = p.chat.members
              /\ p.chat.clock <= o.chat.clock
              /\ o.chat.active = p.chat.active /\ o.chat.notified = p.chat.notified
  <2>1. p.chat.clock \in Nat
    BY <1>12, Zenon DEF ChatRecord
  <2>2. CASE p.error = "none" /\ {a, m.from} \subseteq p.chat.members /\ m.clock > p.chat.clock
    <3>1. o = [p EXCEPT !.chat = [p.chat EXCEPT !.clock = m.clock]]
      BY <1>9, <2>2 DEF HandleChatMessage
    <3>2. o = [chat |-> [p.chat EXCEPT !.clock = m.clock], sent |-> p.sent, error |-> p.error]
      BY <1>12, <3>1 DEF Outcome
    <3> DEFINE d == [p.chat EXCEPT !.clock = m.clock]
    <3>3. /\ d \in ChatRecord /\ d.exists = p.chat.exists
          /\ d.events = p.chat.events /\ d.members = p.chat.members
          /\ d.clock = m.clock
          /\ d.active = p.chat.active /\ d.notified = p.chat.notified
      BY <1>11, <1>12, Zenon DEF ChatRecord
    <3> HIDE DEF d
    <3>4. o.chat = d /\ o.sent = p.sent /\ o.error = p.error
      BY <3>2, Zenon DEF d
    <3>5. p.chat.clock <= m.clock
      BY <1>11, <2>1, <2>2
    <3> QED BY <3>3, <3>4, <3>5, Zenon
  <2>3. CASE ~(p.error = "none" /\ {a, m.from} \subseteq p.chat.members /\ m.clock > p.chat.clock)
    <3>1. o = p
      BY <1>9, <2>3, Zenon DEF HandleChatMessage
    <3> QED BY <1>12, <2>1, <3>1
  <2> QED BY <2>2, <2>3, Zenon
<1>13. CASE added /\ c.active
  <2>1. p \in ConfirmJoiningGroup(a, told)
    BY <1>9, <1>13
  <2> DEFINE e == Event("joined", a, NextClock(a, told), {})
  <2>2. told.clock \in Nat
    BY <1>1, <1>4, Zenon
  <2>3. NextClock(a, told) \in Nat
    BY <2>2, NextClockAdvances, Zenon
  <2>4. e \in Events
    BY <2>3, Zenon DEF Event, Events
  <2>5. p \in Publish(a, told, <<e>>)
    BY <2>1, Zenon DEF ConfirmJoiningGroup
  <2> HIDE DEF e
  <2>6. <<e>> \in Seq(Events) /\ <<e>> # <<>>
    BY <2>4
  <2>7. Published(a, told, <<e>>, p)
    BY <1>4, <2>5, <2>6, PublishShape, Zenon
  <2>8. p = Outcome(p.chat, p.sent, p.error) /\ p.chat \in ChatRecord
    BY <2>7, Zenon DEF Published
  <2>9. Added(a, told) /\ told.notified = chat[a].notified
    BY <1>3, <1>4, <1>5, <1>13 DEF Added
  <2>10. TakesUpdate(a, m, o)
    BY <1>4, <1>10, <1>12, <2>1, <2>8, <2>9, Zenon DEF TakesUpdate
  <2> QED BY <1>8, <2>10
<1>14. CASE ~(added /\ c.active)
  <2>1. p = Outcome(told, {}, "none")
    BY <1>9, <1>14, Zenon
  <2>2. p = Outcome(p.chat, p.sent, p.error) /\ p.chat \in ChatRecord
    BY <1>4, <2>1 DEF Outcome
  <2>3. told.notified => chat[a].notified \/ Added(a, told)
    BY <1>3, <1>4, <1>5, Zenon DEF Added
  <2>4. TakesUpdate(a, m, o)
    BY <1>4, <1>10, <1>12, <2>1, <2>2, <2>3, Zenon DEF TakesUpdate
  <2> QED BY <1>8, <2>4, Zenon
<1> QED BY <1>13, <1>14, Zenon

(* An update of a group that is not known is taken. *)
LEMMA NewGroupTakes ==
  ASSUME EventFacts, GroupTypes, Absent, NEW a \in Accounts, NEW m \in net, HandleNewGroup(a, m)
  PROVE  \E o : Steps(a, o) /\ TakesUpdate(a, m, o)
<1> DEFINE group == newGroup(m.events)
           active == Mutual(a, m.from) \/ Mutual(a, Creator)
           c == [NoChat EXCEPT !.exists = TRUE, !.events = sortEvents(m.events),
                               !.members = group.members, !.active = active]
<1>1. chat[a] = NoChat /\ m.events \in Seq(Events) /\ group.valid
  BY DEF HandleNewGroup, Absent, GroupTypes, UpdateRecord
<1>2. Become(a, Settle(a, m, c, a \in group.members)) /\ UNCHANGED <<now, refused>>
  BY DEF HandleNewGroup
<1>3. /\ sortEvents(m.events) \in Seq(Events) /\ Range(sortEvents(m.events)) = Range(m.events)
      /\ Sorted(sortEvents(m.events))
  BY <1>1 DEF EventFacts, SortOrdersFact
<1>4. newGroup(sortEvents(m.events)) = group
  BY <1>1 DEF EventFacts, GroupSortsFact
<1>5. group.members \subseteq Accounts /\ active \in BOOLEAN
  BY <1>1 DEF GroupState, Mutual, EventFacts, GroupTypedFact
<1> HIDE DEF group, active
<1>6. /\ c \in ChatRecord /\ c.exists /\ c.events = sortEvents(m.events) /\ c.members = group.members
      /\ c.clock = 0 /\ ~c.notified /\ c.notified = FALSE
  BY <1>3, <1>5, Zenon DEF ChatRecord, NoChat
<1> HIDE DEF c
<1>7. /\ chat[a].clock = 0 /\ chat[a].notified = FALSE /\ ~chat[a].exists /\ ~chat[a].active
      /\ EventsOf(a) = {} /\ chat[a].events = <<>>
  BY <1>1 DEF NoChat, EventsOf, Range
<1>8. (a \in group.members) => Added(a, c)
  BY <1>6, <1>7 DEF Added, EventFacts, EmptyGroupFact
<1> DEFINE added == a \in group.members
<1>9. added \in BOOLEAN /\ (added => Added(a, c)) /\ Become(a, Settle(a, m, c, added))
  BY <1>2, <1>8
<1> HIDE DEF added
<1>10. /\ Sorted(c.events) /\ Range(c.events) = EventsOf(a) \cup Range(m.events)
       /\ newGroup(c.events).valid /\ c.members = newGroup(c.events).members
       /\ c.clock = chat[a].clock /\ c.notified = chat[a].notified
  BY <1>1, <1>3, <1>4, <1>6, <1>7, Zenon
<1> QED BY <1>2, <1>6, <1>7, <1>9, <1>10, SettleTakes, Zenon

(* The merged events are those of the chat and of the update, sorted. *)
LEMMA MergedEvents ==
  ASSUME EventFacts, GroupTypes, NEW a \in Accounts, NEW m \in net
  PROVE  /\ MergedWith(a, m) \in Seq(Events) /\ Sorted(MergedWith(a, m))
         /\ Range(MergedWith(a, m)) = EventsOf(a) \cup Range(m.events)
<1>1. chat[a].events \in Seq(Events) /\ m.events \in Seq(Events)
  BY DEF GroupTypes, ChatRecord, UpdateRecord
<1>2. LET t == MergeMembershipUpdateEvents(chat[a].events, m.events) IN
      t \in Seq(Events) /\ Range(t) = Range(chat[a].events) \cup Range(m.events)
  BY <1>1 DEF EventFacts, MergeUnitesFact
<1> QED BY <1>2 DEF MergedWith, EventsOf, EventFacts, SortOrdersFact

(* An update that can be merged is taken. *)
LEMMA AcceptTakes ==
  ASSUME EventFacts, GroupTypes, NEW a \in Accounts, NEW m \in net,
         chat[a].exists, newGroup(chat[a].events).valid,
         AcceptUpdate(a, m, MergedWith(a, m), newGroup(MergedWith(a, m)))
  PROVE  \E o : Steps(a, o) /\ TakesUpdate(a, m, o)
<1> DEFINE merged == MergedWith(a, m)
           group == newGroup(merged)
           update == newGroup(m.events)
           active == chat[a].active \/ Reactivated(a, m, update, group)
           c == [chat[a] EXCEPT !.events = merged, !.members = group.members, !.active = active]
           added == WasUserAdded(a, newGroup(chat[a].events), group)
<1>1. chat[a] \in ChatRecord /\ chat[a].active \in BOOLEAN
  BY DEF GroupTypes, ChatRecord
<1>2. group.valid /\ Become(a, Settle(a, m, c, added)) /\ UNCHANGED <<now, refused>>
  BY <1>1 DEF AcceptUpdate, ChatRecord
<1>3. /\ merged \in Seq(Events) /\ Sorted(merged)
      /\ Range(merged) = EventsOf(a) \cup Range(m.events)
  BY MergedEvents
<1>4. group.members \subseteq Accounts
  BY <1>3 DEF GroupState, EventFacts, GroupTypedFact
<1>5. active \in BOOLEAN /\ added \in BOOLEAN
  BY <1>1 DEF Reactivated, WasUserAdded, Mutual
<1>6. active => chat[a].active \/ a \in group.members
  BY DEF Reactivated
<1>7. chat[a].active => active
  OBVIOUS
<1> HIDE DEF group, active, update
<1>8. /\ c \in ChatRecord /\ c.exists = chat[a].exists /\ c.events = merged
      /\ c.members = group.members /\ c.clock = chat[a].clock /\ c.notified = chat[a].notified
      /\ c.active = active
  BY <1>1, <1>3, <1>4, <1>5, Zenon DEF ChatRecord
<1> HIDE DEF c
<1>9. added => Added(a, c)
  BY <1>8, Zenon DEF WasUserAdded, Added
<1> HIDE DEF added, merged
<1>10. /\ Sorted(c.events) /\ Range(c.events) = EventsOf(a) \cup Range(m.events)
       /\ newGroup(c.events).valid /\ c.members = newGroup(c.events).members
       /\ chat[a].active => c.active
       /\ chat[a].exists /\ c.active => chat[a].active \/ a \in c.members
       /\ c.events = MergedWith(a, m)
  BY <1>2, <1>3, <1>6, <1>7, <1>8, Zenon DEF group, merged
<1> QED BY <1>2, <1>5, <1>8, <1>9, <1>10, SettleTakes, Zenon

(* A refused update: the chat keeps, of the merged events, as many as it had. *)
Refuses(a) ==
  \E m \in net :
    /\ chat[a].exists /\ newGroup(chat[a].events).valid /\ newGroup(m.events).valid
    /\ ~newGroup(MergedWith(a, m)).valid
    /\ refused' = refused \cup {a} /\ UNCHANGED <<net, now, failures>>
    /\ \/ chat' = chat
       \/ chat' = [chat EXCEPT ![a].events = SubSeq(MergedWith(a, m), 1, Len(chat[a].events))]

(* What the actions do. *)
LEMMA GroupSteps ==
  ASSUME EventFacts, GroupTypes, Absent, GroupNext
  PROVE  \/ \E a \in Accounts :
              \/ \E o : Steps(a, o) /\ (Founds(a, o) \/ Signs(a, o) \/ Idles(a, o) \/ Takes(a, o))
              \/ Refuses(a)
         \/ Tick
<1> DEFINE Goal == \E a \in Accounts :
                     \/ \E o : Steps(a, o) /\ (Founds(a, o) \/ Signs(a, o) \/ Idles(a, o) \/ Takes(a, o))
                     \/ Refuses(a)
<1>1. ASSUME NEW members \in Some(Accounts \ {Creator}), CreateGroupChatWithMembers(members)
      PROVE  Goal
  <2> DEFINE clock == NextClock(Creator, NoChat)
             c == [NoChat EXCEPT !.exists = TRUE, !.active = TRUE,
                     !.events = <<Event("created", Creator, clock, {})>>,
                     !.members = {Creator}, !.clock = clock]
             outcomes == Publish(Creator, c, <<Event("added", Creator, clock + 1, members)>>)
  <2>1. ~chat[Creator].exists /\ Become(Creator, outcomes) /\ UNCHANGED <<now, refused>>
    BY <1>1 DEF CreateGroupChatWithMembers
  <2>2. PICK o \in outcomes :
          /\ chat' = [chat EXCEPT ![Creator] = o.chat]
          /\ net' = net \cup o.sent
          /\ failures' = failures + (IF o.error = "dispatch" THEN 1 ELSE 0)
    BY <2>1, Zenon DEF Become
  <2>3. Steps(Creator, o) /\ Founds(Creator, o)
    BY <2>1, <2>2 DEF Steps, Founds
  <2> QED BY <2>3, GroupAssumption
<1>2. ASSUME NEW a \in Accounts,
             \/ \E members \in Some(Accounts \ {a}) : AddMembersToGroupChat(a, members)
             \/ \E members \in Some(chat[a].members \ {a}) :
                  \/ \E order \in Bijection(1..Cardinality(members), members) :
                       RemoveMembersFromGroupChat(a, order)
                  \/ AddAdminsToGroupChat(a, members)
             \/ \E details \in Edits : EditGroupChat(a, details)
      PROVE  Goal
  BY <1>2, SigningOperations, Zenon
<1>3. ASSUME NEW a \in Accounts, NEW remove \in BOOLEAN, LeaveGroupChat(a, remove) PROVE Goal
  BY <1>3, LeaveSteps
<1>4. ASSUME NEW a \in Accounts, AcceptNotification(a) PROVE Goal
  BY <1>4, NotificationSigns
<1>5. ASSUME NEW a \in Accounts, SendChatMessage(a) PROVE Goal
  BY <1>5, PostIdles, Zenon
<1>6. ASSUME NEW a \in Accounts, NEW m \in net, HandleMembershipUpdate(a, m) PROVE Goal
  <2>1. CASE HandleNewGroup(a, m)
    BY <1>6, <2>1, NewGroupTakes DEF Takes
  <2>2. CASE MergeUpdate(a, m)
    <3>1. /\ chat[a].exists /\ newGroup(chat[a].events).valid /\ newGroup(m.events).valid
          /\ \/ AcceptUpdate(a, m, MergedWith(a, m), newGroup(MergedWith(a, m)))
             \/ RefuseUpdate(a, m, MergedWith(a, m), newGroup(MergedWith(a, m)))
      BY <2>2, Zenon DEF MergeUpdate, MergedWith
    <3>2. CASE AcceptUpdate(a, m, MergedWith(a, m), newGroup(MergedWith(a, m)))
      BY <1>6, <3>1, <3>2, AcceptTakes, Zenon DEF Takes
    <3>3. CASE RefuseUpdate(a, m, MergedWith(a, m), newGroup(MergedWith(a, m)))
      <4>1. Refuses(a)
        BY <3>1, <3>3, Zenon DEF RefuseUpdate, Refuses
      <4> QED BY <4>1
    <3> QED BY <3>1, <3>2, <3>3, Zenon
  <2> QED BY <1>6, <2>1, <2>2 DEF HandleMembershipUpdate
<1> HIDE DEF Goal
<1>7. Goal \/ Tick
  BY <1>1, <1>2, <1>3, <1>4, <1>5, <1>6, Zenon DEF GroupNext
<1> QED BY <1>7 DEF Goal
-----------------------------------------------------------------------------
(* Clock values. *)

(* Events signed by a after clock value low. *)
Signed(a, low, high, N) ==
  /\ N \subseteq Events
  /\ \A e \in N : e.from = a /\ low < e.clock /\ e.clock <= high
  /\ \A e, f \in N : e.clock = f.clock /\ e # f => e.type = "removed"

(* The outcome o has the events S, and those of N as well if all went well. *)
Keeps(o, S, N) ==
  /\ o.chat \in ChatRecord /\ o.chat.exists /\ o.sent \subseteq UpdateRecord
  /\ Sorted(o.chat.events)
  /\ \A s \in {o.chat.events} \cup {m.events : m \in o.sent} :
       /\ S \subseteq Range(s) /\ Range(s) \subseteq S \cup N
       /\ o.error # "dispatch" => N \subseteq Range(s)

(* Publish keeps the events of the chat and adds those it signs, or none. *)
LEMMA PublishKeeps ==
  ASSUME EventFacts, NEW a \in Accounts, NEW c \in ChatRecord, c.exists, Sorted(c.events),
         \A e \in Range(c.events) : e.clock <= c.clock,
         NEW new, Fresh(a, c.clock, new), NEW o \in Publish(a, c, new)
  PROVE  \E N : /\ c.clock <= o.chat.clock
                /\ Signed(a, c.clock, o.chat.clock, N) /\ Keeps(o, Range(c.events), N)
                /\ N = {} \/ N = Range(new)
<1> DEFINE s == c.events
           k == Len(new)
<1>1. new \in Seq(Events) /\ new # <<>> /\ Sorted(new) /\ s \in Seq(Events) /\ c.clock \in Nat
  BY DEF Fresh, ChatRecord
<1>2. Published(a, c, new, o)
  BY <1>1, PublishShape, Zenon
<1>3. /\ k \in Nat /\ k # 0 /\ Range(new) = {new[i] : i \in 1..k} /\ Range(new) \subseteq Events
      /\ \A i \in 1..k : new[i].clock \in Nat
  BY <1>1 DEF EventFacts, ElementsFact
<1>4. \A e \in Range(s) : e.clock \in Nat
  BY <1>1 DEF Events, EventFacts, ElementsFact
<1>5. k \in 1..k /\ LastClock(new) = new[k].clock /\ LastClock(new) \in Nat
  BY <1>3 DEF LastClock
<1>6. \A i \in 1..k : /\ new[i].from = a /\ c.clock < new[i].clock
                      /\ new[i].clock <= LastClock(new)
  <2>1. \A i \in 1..k : new[i].clock <= new[k].clock
    BY <1>1, <1>3, <1>5 DEF Sorted
  <2> QED BY <1>5, <2>1 DEF Fresh
<1>7. \A e, f \in Range(new) : e.clock = f.clock /\ e # f => e.type = "removed"
  BY <1>3, Zenon DEF Fresh
<1>8. Signed(a, c.clock, LastClock(new), Range(new)) /\ c.clock < LastClock(new)
  BY <1>3, <1>5, <1>6, <1>7, Zenon DEF Signed
<1>9. /\ s \o new \in Seq(Events) /\ Range(s \o new) = Range(s) \cup Range(new)
      /\ Sorted(s \o new)
  <2>1. \A e \in Range(s), f \in Range(new) : e.clock <= f.clock
    BY <1>1, <1>3, <1>4, <1>6
  <2> QED BY <1>1, <2>1, Zenon DEF EventFacts, ConcatenationFact
<1>10. /\ o.chat \in ChatRecord /\ o.sent \subseteq UpdateRecord
       /\ \A m \in o.sent : m.events = s \o new
  BY <1>2, Zenon DEF Published
<1> HIDE DEF s, k
<1>11. CASE o.error = "invalid"
  <2>1. /\ o.sent = {} /\ o.chat.events = s /\ o.chat.exists
        /\ o.chat.clock = c.clock \/ o.chat.clock = LastClock(new)
    BY <1>2, <1>11, Zenon DEF Published, ChatRecord, s
  <2>2. Keeps(o, Range(s), {})
    BY <1>10, <2>1, Zenon DEF Keeps, s
  <2>3. Signed(a, c.clock, o.chat.clock, {}) /\ c.clock <= o.chat.clock
    BY <1>1, <1>5, <1>8, <2>1 DEF Signed
  <2> QED BY <2>2, <2>3 DEF s
<1>12. CASE o.error = "dispatch"
  <2>1. o.chat.events = s /\ o.chat.exists /\ o.chat.clock = LastClock(new)
    BY <1>2, <1>12 DEF Published, ChatRecord, s
  <2>2. Keeps(o, Range(s), Range(new))
    BY <1>9, <1>10, <1>12, <2>1, Zenon DEF Keeps, s
  <2>3. Signed(a, c.clock, o.chat.clock, Range(new)) /\ c.clock <= o.chat.clock
    BY <1>1, <1>5, <1>8, <2>1
  <2> QED BY <2>2, <2>3 DEF s
<1>13. CASE o.error = "none"
  <2>1. o.chat.events = s \o new /\ o.chat.exists /\ o.chat.clock = LastClock(new)
    BY <1>2, <1>13, Zenon DEF Published, ChatRecord, s
  <2>2. Keeps(o, Range(s), Range(new))
    BY <1>9, <1>10, <2>1, Zenon DEF Keeps
  <2>3. Signed(a, c.clock, o.chat.clock, Range(new)) /\ c.clock <= o.chat.clock
    BY <1>1, <1>5, <1>8, <2>1
  <2> QED BY <2>2, <2>3 DEF s
<1>14. o.error \in {"invalid", "dispatch", "none"}
  BY <1>2, Zenon DEF Published
<1> QED BY <1>11, <1>12, <1>13, <1>14, Zenon

(* Events are in order, and no account is behind those it has or signed. *)
Passed ==
  /\ \A a \in Accounts : Sorted(chat[a].events) /\ \A e \in EventsOf(a) : e.clock <= chat[a].clock
  /\ \A e \in Known : e.clock <= chat[e.from].clock

(* An account goes on from the events S, its own and maybe those of an *)
(* update, and signs those of N.                                       *)
Evolves(a, o, S, N) ==
  /\ S = EventsOf(a) \/ \E m \in net : S = EventsOf(a) \cup Range(m.events)
  /\ chat[a].clock <= o.chat.clock
  /\ Signed(a, chat[a].clock, o.chat.clock, N) /\ Keeps(o, S, N)
  /\ \A e \in S : e.clock <= o.chat.clock /\ \A f \in N : e.clock < f.clock

(* The founding of a group starts from no events. *)
LEMMA FoundsEvolves ==
  ASSUME EventFacts, GroupTypes, Absent, NEW a \in Accounts, NEW o, Founds(a, o)
  PROVE  \E N : Evolves(a, o, {}, N) /\ EventsOf(a) = {}
<1> DEFINE clock == NextClock(Creator, NoChat)
           created == Event("created", Creator, clock, {})
           c == [NoChat EXCEPT !.exists = TRUE, !.active = TRUE, !.events = <<created>>,
                   !.members = {Creator}, !.clock = clock]
<1>1. PICK members \in Some(Accounts \ {Creator}) :
        /\ a = Creator /\ ~chat[Creator].exists
        /\ o \in Publish(Creator, c, <<Event("added", Creator, clock + 1, members)>>)
  BY DEF Founds
<1> DEFINE added == Event("added", Creator, clock + 1, members)
<1>2. chat[a] = NoChat /\ EventsOf(a) = {} /\ chat[a].clock = 0
  BY <1>1 DEF Absent, NoChat, EventsOf, Range
<1>3. clock \in Nat /\ 0 < clock
  BY NextClockAdvances, GroupAssumption DEF NoChat
<1> HIDE DEF clock
<1>4. created \in Events /\ created.from = a /\ created.clock = clock
  BY <1>1, <1>3 DEF Event, Events
<1>5. added \in Events /\ added.from = a /\ added.clock = clock + 1
  BY <1>1, <1>3 DEF Event, Events, Some
<1>6. o \in Publish(a, c, <<added>>)
  BY <1>1
<1> HIDE DEF created, added
<1>7. <<created>> \in Seq(Events) /\ Range(<<created>>) = {created} /\ Sorted(<<created>>)
  <2>1. <<created>> \in Seq(Events) /\ Len(<<created>>) = 1 /\ <<created>>[1] = created
    BY <1>4
  <2>2. Fresh(a, 0, <<created>>)
    BY <1>3, <1>4, OneEvent
  <2>3. Range(<<created>>) = {<<created>>[i] : i \in 1..1}
    BY <2>1, Zenon DEF EventFacts, ElementsFact
  <2> QED BY <2>1, <2>2, <2>3 DEF Fresh
<1>8. c \in ChatRecord /\ c.exists /\ c.events = <<created>> /\ c.clock = clock
  BY <1>3, <1>7, GroupAssumption, Zenon DEF ChatRecord, NoChat
<1> HIDE DEF c
<1>9. Fresh(a, c.clock, <<added>>)
  BY <1>3, <1>5, <1>8, OneEvent
<1>10. Sorted(c.events) /\ Range(c.events) = {created} /\ \A e \in Range(c.events) : e.clock <= c.clock
  BY <1>3, <1>4, <1>7, <1>8
<1>11. PICK M : /\ c.clock <= o.chat.clock
                /\ Signed(a, c.clock, o.chat.clock, M) /\ Keeps(o, {created}, M)
  <2> DEFINE new == <<added>>
  <2>1. Fresh(a, c.clock, new) /\ o \in Publish(a, c, new)
    BY <1>6, <1>9
  <2> HIDE DEF new
  <2>2. \E M : /\ c.clock <= o.chat.clock
               /\ Signed(a, c.clock, o.chat.clock, M) /\ Keeps(o, Range(c.events), M)
    BY <1>8, <1>10, <2>1, PublishKeeps, Zenon
  <2> QED BY <1>10, <2>2
<1> DEFINE N == {created} \cup M
<1>12. o.chat.clock \in Nat
  BY <1>11, Zenon DEF Keeps, ChatRecord
<1>13. Signed(a, 0, o.chat.clock, N)
  <2>1. \A e \in M : e \in Events /\ e.clock \in Nat /\ e.from = a /\ clock < e.clock /\ e.clock <= o.chat.clock
    BY <1>8, <1>11, Zenon DEF Signed, Events
  <2>2. \A e \in N : e \in Events /\ e.from = a /\ 0 < e.clock /\ e.clock <= o.chat.clock
    BY <1>3, <1>4, <1>8, <1>11, <1>12, <2>1
  <2>3. \A e, f \in N : e.clock = f.clock /\ e # f => e \in M /\ f \in M
    BY <1>3, <1>4, <2>1
  <2> QED BY <1>11, <2>2, <2>3, Zenon DEF Signed
<1>14. Keeps(o, {}, N)
  BY <1>11 DEF Keeps
<1>15. 0 <= o.chat.clock
  BY <1>12
<1> HIDE DEF N
<1> QED BY <1>2, <1>13, <1>14, <1>15 DEF Evolves

(* Every step but a refusal gives an account some known events S and new ones N of its own. *)
LEMMA Evolution ==
  ASSUME EventFacts, GroupTypes, Absent, Passed, NEW a \in Accounts, NEW o,
         Founds(a, o) \/ Signs(a, o) \/ Idles(a, o) \/ Takes(a, o)
  PROVE  \E S, N : Evolves(a, o, S, N)
<1>1. chat[a] \in ChatRecord /\ chat[a].clock \in Nat /\ chat[a].events \in Seq(Events)
  BY Zenon DEF GroupTypes, ChatRecord
<1>2. \A e \in EventsOf(a) : e.clock \in Nat
  BY <1>1, Zenon DEF EventsOf, Events, EventFacts, ElementsFact
<1>3. Sorted(chat[a].events) /\ \A e \in EventsOf(a) : e.clock <= chat[a].clock
  BY DEF Passed
<1>4. CASE Founds(a, o)
  BY <1>4, FoundsEvolves
<1>5. CASE Signs(a, o)
  <2>1. PICK c \in ChatRecord, new \in Seq(Events) : \E p \in Publish(a, c, new) :
          /\ c.exists /\ c.events = chat[a].events /\ c.clock = chat[a].clock
          /\ Fresh(a, c.clock, new)
          /\ o.chat \in ChatRecord /\ Like(o.chat, p.chat) /\ o.sent = p.sent /\ o.error = p.error
    BY <1>5, ZenonT(40) DEF Signs
  <2>2. PICK p \in Publish(a, c, new) :
          /\ c.exists /\ c.events = chat[a].events /\ c.clock = chat[a].clock
          /\ Fresh(a, c.clock, new)
          /\ o.chat \in ChatRecord /\ Like(o.chat, p.chat) /\ o.sent = p.sent /\ o.error = p.error
    BY <2>1, Zenon
  <2>3. PICK N : /\ c.clock <= p.chat.clock
                 /\ Signed(a, c.clock, p.chat.clock, N) /\ Keeps(p, Range(c.events), N)
    <3>1. Sorted(c.events) /\ \A e \in Range(c.events) : e.clock <= c.clock
      BY <1>3, <2>2, Zenon DEF EventsOf
    <3>2. c.exists /\ Fresh(a, c.clock, new)
      BY <2>2, Zenon
    <3>3. \E N : /\ c.clock <= p.chat.clock
                 /\ Signed(a, c.clock, p.chat.clock, N) /\ Keeps(p, Range(c.events), N)
                 /\ N = {} \/ N = Range(new)
      BY <3>1, <3>2, PublishKeeps, Zenon
    <3> QED BY <3>3, Zenon
  <2>4. Keeps(o, EventsOf(a), N)
    BY <2>2, <2>3, Zenon DEF Keeps, Like, EventsOf
  <2>5. chat[a].clock <= o.chat.clock /\ Signed(a, chat[a].clock, o.chat.clock, N)
    BY <2>2, <2>3, Zenon DEF Like
  <2>6. o.chat.clock \in Nat /\ \A f \in N : chat[a].clock < f.clock /\ f.clock \in Nat
    BY <2>2, <2>5, Zenon DEF ChatRecord, Signed, Events
  <2>7. \A e \in EventsOf(a) : e.clock <= o.chat.clock /\ \A f \in N : e.clock < f.clock
    <3> DEFINE k == chat[a].clock
               m == o.chat.clock
    <3>1. k \in Nat /\ m \in Nat /\ k <= m
      BY <1>1, <2>5, <2>6, Zenon
    <3>2. ASSUME NEW e \in EventsOf(a)
          PROVE  e.clock \in Nat /\ e.clock <= k
      BY <1>2, <1>3, Zenon
    <3>3. ASSUME NEW f \in N
          PROVE  f.clock \in Nat /\ k < f.clock
      BY <2>6, Zenon
    <3> HIDE DEF k, m
    <3>4. \A e \in EventsOf(a) : e.clock <= m
      BY <3>1, <3>2
    <3>5. \A e \in EventsOf(a), f \in N : e.clock < f.clock
      BY <3>1, <3>2, <3>3
    <3> QED BY <3>4, <3>5, Zenon DEF m
  <2>8. Evolves(a, o, EventsOf(a), N)
    BY <2>4, <2>5, <2>7, Zenon DEF Evolves
  <2> QED BY <2>8
<1>6. CASE Idles(a, o)
  <2>1. /\ o.chat \in ChatRecord /\ o.chat.exists /\ o.chat.events = chat[a].events
        /\ chat[a].clock <= o.chat.clock
        /\ o.sent \subseteq UpdateRecord /\ \A m \in o.sent : m.events = chat[a].events
    BY <1>6, Zenon DEF Idles
  <2>2. o.chat.clock \in Nat
    BY <2>1, Zenon DEF ChatRecord
  <2>3. Keeps(o, EventsOf(a), {})
    BY <1>3, <2>1 DEF Keeps, EventsOf
  <2>4. Signed(a, chat[a].clock, o.chat.clock, {})
    BY Zenon DEF Signed
  <2>5. \A e \in EventsOf(a) : e.clock <= o.chat.clock
    BY <1>1, <1>2, <1>3, <2>1, <2>2
  <2>6. Evolves(a, o, EventsOf(a), {})
    BY <2>1, <2>3, <2>4, <2>5, Zenon DEF Evolves
  <2> QED BY <2>6, Zenon
<1>7. CASE Takes(a, o)
  <2>1. PICK m \in net, c \in ChatRecord : \E p :
          /\ Told(a, m, c) /\ p \in {Outcome(c, {}, "none")} \cup ConfirmJoiningGroup(a, c)
          /\ o.chat \in ChatRecord /\ o.chat.exists = p.chat.exists
          /\ o.chat.events = p.chat.events /\ p.chat.clock <= o.chat.clock
          /\ o.sent = p.sent /\ o.error = p.error
    BY <1>7, Zenon DEF Takes, TakesUpdate
  <2>2. PICK p : /\ Told(a, m, c) /\ p \in {Outcome(c, {}, "none")} \cup ConfirmJoiningGroup(a, c)
                 /\ o.chat \in ChatRecord /\ o.chat.exists = p.chat.exists
                 /\ o.chat.events = p.chat.events /\ p.chat.clock <= o.chat.clock
                 /\ o.sent = p.sent /\ o.error = p.error
    BY <2>1, Zenon
  <2> DEFINE S == Range(c.events)
  <2>3. /\ S = EventsOf(a) \cup Range(m.events) /\ c.exists /\ Sorted(c.events)
        /\ chat[a].clock <= c.clock /\ \A e \in S : e.clock <= c.clock
    BY <2>2, Zenon DEF Told
  <2>4. c.clock \in Nat /\ o.chat.clock \in Nat /\ \A e \in S : e.clock \in Nat
    BY <2>2, Zenon DEF ChatRecord, Events, EventFacts, ElementsFact
  <2> HIDE DEF S
  <2>5. \E N : /\ c.clock <= p.chat.clock /\ p.chat \in ChatRecord
               /\ Signed(a, c.clock, p.chat.clock, N) /\ Keeps(p, S, N)
    <3>1. CASE p = Outcome(c, {}, "none")
      <4>1. p.chat = c /\ p.sent = {} /\ p.error = "none"
        BY <3>1 DEF Outcome
      <4>2. Signed(a, c.clock, p.chat.clock, {}) /\ c.clock <= c.clock
        BY <2>4 DEF Signed
      <4>3. Keeps(p, S, {})
        BY <2>3, <4>1, Zenon DEF Keeps, S
      <4> QED BY <4>1, <4>2, <4>3, Zenon
    <3>2. CASE p \in ConfirmJoiningGroup(a, c)
      <4> DEFINE e == Event("joined", a, NextClock(a, c), {})
      <4>1. NextClock(a, c) \in Nat /\ c.clock < NextClock(a, c)
        BY <2>4, NextClockAdvances, Zenon
      <4>2. e \in Events /\ e.from = a /\ e.clock = NextClock(a, c)
        BY <4>1 DEF Event, Events
      <4>3. p \in Publish(a, c, <<e>>)
        BY <3>2, Zenon DEF ConfirmJoiningGroup
      <4> HIDE DEF e
      <4>4. Fresh(a, c.clock, <<e>>)
        BY <2>4, <4>1, <4>2, OneEvent, ZenonT(40)
      <4>5. \A x \in Range(c.events) : x.clock <= c.clock
        BY <2>3 DEF S
      <4>6. \E N : /\ c.clock <= p.chat.clock
                   /\ Signed(a, c.clock, p.chat.clock, N) /\ Keeps(p, S, N)
        BY <2>3, <4>3, <4>4, <4>5, PublishKeeps, Zenon DEF S
      <4> QED BY <4>6, Zenon DEF Keeps
    <3> QED BY <2>2, <3>1, <3>2, Zenon
  <2>6. PICK N : /\ c.clock <= p.chat.clock /\ p.chat \in ChatRecord
                 /\ Signed(a, c.clock, p.chat.clock, N) /\ Keeps(p, S, N)
    BY <2>5, Zenon
  <2>7. p.chat.clock \in Nat /\ \A f \in N : f.clock \in Nat
    BY <2>6 DEF ChatRecord, Signed, Events
  <2>8. Keeps(o, S, N)
    BY <2>2, <2>6, Zenon DEF Keeps
  <2> DEFINE low == chat[a].clock
             told == c.clock
             signed == p.chat.clock
             high == o.chat.clock
  <2>9. /\ {low, told, signed, high} \subseteq Nat
        /\ low <= told /\ told <= signed /\ signed <= high
        /\ \A e \in S : e.clock <= told /\ e.clock \in Nat
        /\ Signed(a, told, signed, N)
    BY <1>1, <2>2, <2>3, <2>4, <2>6, <2>7, Zenon
  <2> HIDE DEF low, told, signed, high
  <2>10. /\ low <= high
         /\ \A x \in Nat : (told < x => low < x) /\ (x <= signed => x <= high) /\ (x <= told => x <= high)
         /\ \A x, y \in Nat : x <= told /\ told < y => x < y
    <3>1. low \in Nat /\ told \in Nat /\ signed \in Nat /\ high \in Nat
      BY <2>9, Zenon
    <3> QED BY <2>9, <3>1
  <2>11. Signed(a, low, high, N)
    BY <2>7, <2>9, <2>10, Zenon DEF Signed
  <2>12. \A e \in S : e.clock <= high /\ \A f \in N : e.clock < f.clock
    BY <2>7, <2>9, <2>10, Zenon DEF Signed
  <2>13. Evolves(a, o, S, N)
    BY <2>3, <2>8, <2>10, <2>11, <2>12, Zenon DEF Evolves, low, high
  <2> QED BY <2>13
<1> QED BY <1>4, <1>5, <1>6, <1>7, Zenon

(* Who has an event of S has all earlier ones of its author. *)
History(S) == \A e \in S, f \in Known : f.from = e.from /\ f.clock <= e.clock => f \in S

(* Everything has its history, and all that an account signed is in its chat. *)
Complete ==
  failures = 0 /\ refused = {} =>
    /\ \A a \in Accounts : History(EventsOf(a))
    /\ \A m \in net : History(Range(m.events))
    /\ \A f \in Known : f \in EventsOf(f.from)

ClockInvariant == GroupTypes /\ Absent /\ Passed /\ ClockIsUsedOnce /\ Complete

(* An event is known if a chat or an update has it. *)
LEMMA KnownEvents ==
  ASSUME EventFacts, GroupTypes
  PROVE  /\ \A e : e \in Known <=> \/ \E a \in Accounts : e \in EventsOf(a)
                                   \/ \E m \in net : e \in Range(m.events)
         /\ Known \subseteq Events
<1>1. \A e : e \in Known <=> \/ \E a \in Accounts : e \in EventsOf(a)
                             \/ \E m \in net : e \in Range(m.events)
  BY DEF Known
<1>2. \A a \in Accounts : EventsOf(a) \subseteq Events
  <2> TAKE a \in Accounts
  <2>1. chat[a].events \in Seq(Events)
    BY DEF GroupTypes, ChatRecord
  <2> QED BY <2>1 DEF EventsOf, EventFacts, ElementsFact
<1>3. \A m \in net : Range(m.events) \subseteq Events
  <2> TAKE m \in net
  <2>1. m.events \in Seq(Events)
    BY Zenon DEF GroupTypes, UpdateRecord
  <2> QED BY <2>1 DEF EventFacts, ElementsFact
<1> QED BY <1>1, <1>2, <1>3

(* Types, and what is known after a step. *)
LEMMA EvolvedTypes ==
  ASSUME EventFacts, GroupTypes, Absent, NEW a \in Accounts, NEW o, Steps(a, o),
         NEW S, NEW N, Evolves(a, o, S, N)
  PROVE  /\ GroupTypes' /\ Absent' /\ S \subseteq Known
         /\ EventsOf(a)' = Range(o.chat.events) /\ Sorted(chat[a].events)'
         /\ chat'[a].clock = o.chat.clock
         /\ \A b \in Accounts \ {a} : chat'[b] = chat[b] /\ EventsOf(b)' = EventsOf(b)
         /\ \A e \in Known' : e \in Known \/ e \in N
<1>1. /\ chat \in [Accounts -> ChatRecord] /\ chat' = [chat EXCEPT ![a] = o.chat]
      /\ net' = net \cup o.sent /\ now' = now /\ refused' = refused
      /\ failures' = failures + (IF o.error = "dispatch" THEN 1 ELSE 0)
  BY Zenon DEF GroupTypes, Steps
<1>2. /\ o.chat \in ChatRecord /\ o.chat.exists /\ o.sent \subseteq UpdateRecord
      /\ Sorted(o.chat.events)
      /\ Range(o.chat.events) \subseteq S \cup N
      /\ \A m \in o.sent : Range(m.events) \subseteq S \cup N
  BY Zenon DEF Evolves, Keeps
<1>3. chat'[a] = o.chat /\ \A b \in Accounts \ {a} : chat'[b] = chat[b]
  BY <1>1
<1>4. GroupTypes'
  <2>1. chat' \in [Accounts -> ChatRecord]
    BY <1>1, <1>2, Zenon
  <2>2. net' \subseteq UpdateRecord
    BY <1>1, <1>2 DEF GroupTypes
  <2>3. failures' \in Nat
    BY <1>1 DEF GroupTypes
  <2> QED BY <1>1, <2>1, <2>2, <2>3, Zenon DEF GroupTypes
<1>5. Absent'
  BY <1>2, <1>3, Zenon DEF Absent
<1>6. S \subseteq Known
  BY KnownEvents DEF Evolves
<1>7. EventsOf(a)' = Range(o.chat.events) /\ \A b \in Accounts \ {a} : EventsOf(b)' = EventsOf(b)
  BY <1>3 DEF EventsOf
<1>8. ASSUME NEW e \in Known' PROVE e \in Known \/ e \in N
  <2>1. \/ \E b \in Accounts : e \in EventsOf(b)'
        \/ \E m \in net' : e \in Range(m.events)
    BY <1>8, Zenon DEF Known
  <2>2. CASE \E b \in Accounts : e \in EventsOf(b)'
    <3>1. e \in Range(o.chat.events) \/ \E b \in Accounts : e \in EventsOf(b)
      BY <1>7, <2>2, Zenon
    <3> QED BY <1>2, <1>6, <3>1, KnownEvents
  <2>3. CASE \E m \in net' : e \in Range(m.events)
    BY <1>1, <1>2, <1>6, <2>3, KnownEvents, Zenon
  <2> QED BY <2>1, <2>2, <2>3
<1>9. Sorted(chat[a].events)' /\ chat'[a].clock = o.chat.clock
  BY <1>2, <1>3 DEF Sorted
<1> QED BY <1>3, <1>4, <1>5, <1>6, <1>7, <1>8, <1>9, Zenon

(* Such a step keeps clock values ahead of events, and different. *)
LEMMA EvolvedClocks ==
  ASSUME EventFacts, ClockInvariant, NEW a \in Accounts, NEW o, Steps(a, o),
         NEW S, NEW N, Evolves(a, o, S, N)
  PROVE  Passed' /\ ClockIsUsedOnce'
<1>1. /\ S \subseteq Known /\ EventsOf(a)' = Range(o.chat.events) /\ Sorted(chat[a].events)'
      /\ chat'[a].clock = o.chat.clock
      /\ \A b \in Accounts \ {a} : chat'[b] = chat[b] /\ EventsOf(b)' = EventsOf(b)
      /\ \A e \in Known' : e \in Known \/ e \in N
  BY EvolvedTypes, Zenon DEF ClockInvariant
<1>2. /\ N \subseteq Events
      /\ \A e \in N : e.from = a /\ chat[a].clock < e.clock /\ e.clock <= o.chat.clock
      /\ \A e, f \in N : e.clock = f.clock /\ e # f => e.type = "removed"
      /\ chat[a].clock <= o.chat.clock
      /\ \A e \in S : e.clock <= o.chat.clock
      /\ Range(o.chat.events) \subseteq S \cup N /\ o.chat \in ChatRecord
  BY Zenon DEF Evolves, Signed, Keeps
<1>3. Known \subseteq Events
  BY KnownEvents, Zenon DEF ClockInvariant
<1>4. \A e \in Known \cup N : e.clock \in Nat /\ e.from \in Accounts
  BY <1>2, <1>3, Zenon DEF Events
<1>5. \A b \in Accounts : chat[b].clock \in Nat /\ o.chat.clock \in Nat
  BY <1>2 DEF ClockInvariant, GroupTypes, ChatRecord
<1>6. \A e \in Known : e.clock <= chat[e.from].clock
  BY Zenon DEF ClockInvariant, Passed
<1>7. \A e \in Known' : e.clock <= chat'[e.from].clock
  <2> TAKE e \in Known'
  <2>1. CASE e \in N
    BY <1>1, <1>2, <2>1, Zenon
  <2>2. CASE e \in Known /\ e.from = a
    <3>1. e.clock <= chat[a].clock /\ e.clock \in Nat
      BY <1>4, <1>6, <2>2, Zenon
    <3> QED BY <1>1, <1>2, <1>5, <2>2, <3>1
  <2>3. CASE e \in Known /\ e.from # a
    <3>1. chat'[e.from] = chat[e.from]
      BY <1>1, <1>4, <2>3, Zenon
    <3> QED BY <1>6, <2>3, <3>1, Zenon
  <2> QED BY <1>1, <2>1, <2>2, <2>3
<1>8. \A b \in Accounts : Sorted(chat[b].events)' /\ \A e \in EventsOf(b)' : e.clock <= chat'[b].clock
  <2> TAKE b \in Accounts
  <2>1. CASE b = a
    BY <1>1, <1>2, <2>1, Zenon
  <2>2. CASE b # a
    <3>1. chat'[b] = chat[b] /\ EventsOf(b)' = EventsOf(b)
      BY <1>1, <2>2, Zenon
    <3>2. Sorted(chat[b].events) /\ \A e \in EventsOf(b) : e.clock <= chat[b].clock
      BY Zenon DEF ClockInvariant, Passed
    <3>3. Sorted(chat[b].events)'
      BY <3>1, <3>2, Zenon DEF Sorted
    <3> QED BY <3>1, <3>2, <3>3, Zenon
  <2> QED BY <2>1, <2>2, Zenon
<1>9. Passed'
  BY <1>7, <1>8, Zenon DEF Passed
<1>10. ASSUME NEW e \in Known', NEW f \in Known', e.from = f.from, e.clock = f.clock, e # f
       PROVE  e.type = "removed" /\ f.type = "removed"
  <2>1. CASE e \in Known /\ f \in Known
    BY <1>10, <2>1, Zenon DEF ClockInvariant, ClockIsUsedOnce
  <2>2. CASE e \in N /\ f \in N
    BY <1>2, <1>10, <2>2, Zenon
  <2>3. \A x \in Known, y \in N : x.from = y.from => x.clock < y.clock
    BY <1>2, <1>4, <1>5, <1>6
  <2>4. ~(e \in Known /\ f \in N) /\ ~(e \in N /\ f \in Known)
    BY <1>4, <1>10, <2>3
  <2> QED BY <1>1, <2>1, <2>2, <2>4
<1>11. ClockIsUsedOnce'
  BY <1>10 DEF ClockIsUsedOnce
<1> QED BY <1>9, <1>11, Zenon

(* Such a step leaves no gap in what is known of an author. *)
LEMMA EvolvedHistory ==
  ASSUME EventFacts, ClockInvariant, NEW a \in Accounts, NEW o, Steps(a, o),
         NEW S, NEW N, Evolves(a, o, S, N)
  PROVE  Complete'
<1> SUFFICES ASSUME failures' = 0, refused' = {}
             PROVE  /\ \A b \in Accounts : History(EventsOf(b))'
                    /\ \A m \in net' : History(Range(m.events))'
                    /\ \A f \in Known' : f \in EventsOf(f.from)'
  BY Zenon DEF Complete
<1>1. /\ S \subseteq Known /\ EventsOf(a)' = Range(o.chat.events)
      /\ \A b \in Accounts \ {a} : chat'[b] = chat[b] /\ EventsOf(b)' = EventsOf(b)
      /\ \A e \in Known' : e \in Known \/ e \in N
  BY EvolvedTypes, Zenon DEF ClockInvariant
<1>2. failures = 0 /\ refused = {} /\ o.error # "dispatch" /\ net' = net \cup o.sent
  BY DEF Steps, ClockInvariant, GroupTypes
<1>3. /\ \A b \in Accounts : History(EventsOf(b))
      /\ \A m \in net : History(Range(m.events))
      /\ \A f \in Known : f \in EventsOf(f.from)
  BY <1>2, Zenon DEF ClockInvariant, Complete
<1>4. /\ N \subseteq Events
      /\ \A e \in N : e.from = a /\ chat[a].clock < e.clock /\ e.clock <= o.chat.clock
  BY DEF Evolves, Signed
<1>5. Known \subseteq Events
  BY KnownEvents DEF ClockInvariant
<1>6. \A e \in Known \cup N : e.clock \in Nat /\ e.from \in Accounts
  BY <1>4, <1>5, Zenon DEF Events
<1>7. \A e \in Known : e.clock <= chat[e.from].clock
  BY DEF ClockInvariant, Passed
<1>8. \A b \in Accounts : chat[b].clock \in Nat
  BY DEF ClockInvariant, GroupTypes, ChatRecord
<1>9. \A x \in Known, y \in N : x.from = y.from => x.clock < y.clock
  BY <1>4, <1>6, <1>7, <1>8
<1>10. History(S) /\ EventsOf(a) \subseteq S
  BY <1>3, Zenon DEF Evolves, History
<1>11. ASSUME NEW T, T \subseteq Known, History(T) PROVE History(T)'
  <2> SUFFICES ASSUME NEW e \in T, NEW f \in Known', f.from = e.from, f.clock <= e.clock
               PROVE  f \in T
    BY DEF History
  <2>1. f \notin N
    <3>1. f \in N => e.clock < f.clock /\ e.clock \in Nat /\ f.clock \in Nat
      BY <1>6, <1>9, <1>11
    <3> QED BY <3>1
  <2> QED BY <1>1, <1>11, <2>1, Zenon DEF History
<1>12. History(S \cup N)'
  <2> SUFFICES ASSUME NEW e \in S \cup N, NEW f \in Known', f.from = e.from, f.clock <= e.clock
               PROVE  f \in S \cup N
    BY DEF History
  <2>1. CASE e \in S
    <3>1. History(S)'
      BY <1>1, <1>10, <1>11, Zenon
    <3> QED BY <2>1, <3>1, Zenon DEF History
  <2>2. CASE e \in N
    <3>1. f \in N \/ f \in EventsOf(a)
      BY <1>1, <1>3, <1>4, <2>2, Zenon
    <3> QED BY <1>10, <3>1, Zenon
  <2> QED BY <2>1, <2>2
<1>13. EventsOf(a)' = S \cup N /\ \A m \in o.sent : Range(m.events) = S \cup N
  BY <1>1, <1>2, Zenon DEF Evolves, Keeps
<1>14. \A b \in Accounts : History(EventsOf(b))'
  <2> TAKE b \in Accounts
  <2>1. CASE b = a
    BY <1>12, <1>13, <2>1, Zenon DEF History
  <2>2. CASE b # a
    <3>1. EventsOf(b) \subseteq Known /\ EventsOf(b)' = EventsOf(b)
      BY <1>1, <2>2, KnownEvents, Zenon DEF ClockInvariant
    <3> DEFINE T == EventsOf(b)
    <3>2. \A e \in T, f \in Known' : f.from = e.from /\ f.clock <= e.clock => f \in T
      <4>1. History(T) /\ T \subseteq Known
        BY <1>3, <3>1
      <4>2. \A e \in T, f \in Known' : f.from = e.from /\ f.clock <= e.clock => f \notin N
        BY <1>6, <1>9, <4>1
      <4> QED BY <1>1, <4>1, <4>2 DEF History
    <3> QED BY <3>1, <3>2, Zenon DEF History
  <2> QED BY <2>1, <2>2
<1>15. \A m \in net' : History(Range(m.events))'
  <2> TAKE m \in net'
  <2>1. CASE m \in o.sent
    BY <1>12, <1>13, <2>1, Zenon DEF History
  <2>2. CASE m \in net
    <3> DEFINE T == Range(m.events)
    <3>1. History(T) /\ T \subseteq Known
      BY <1>3, <2>2, KnownEvents DEF ClockInvariant
    <3>2. \A e \in T, f \in Known' : f.from = e.from /\ f.clock <= e.clock => f \notin N
      BY <1>6, <1>9, <3>1
    <3> QED BY <1>1, <3>1, <3>2, Zenon DEF History
  <2> QED BY <1>2, <2>1, <2>2
<1>16. \A f \in Known' : f \in EventsOf(f.from)'
  <2> TAKE f \in Known'
  <2>1. CASE f \in N
    <3>1. f.from = a
      BY <1>4, <2>1, Zenon
    <3> QED BY <1>13, <2>1, <3>1, Zenon
  <2>2. CASE f \in Known
    <3>1. f \in EventsOf(f.from) /\ f.from \in Accounts
      BY <1>3, <1>6, <2>2, Zenon
    <3>2. EventsOf(f.from) \subseteq EventsOf(f.from)'
      BY <1>1, <1>10, <1>13, <3>1
    <3> QED BY <3>1, <3>2
  <2> QED BY <1>1, <2>1, <2>2
<1> QED BY <1>14, <1>15, <1>16

(* A refused update at most overwrites events of the chat with known ones. *)
LEMMA RefusedClocks ==
  ASSUME EventFacts, ClockInvariant, NEW a \in Accounts, Refuses(a)
  PROVE  /\ ClockInvariant'
         /\ net' = net /\ failures' = failures /\ refused' = refused \cup {a}
         /\ \A b \in Accounts : EventsOf(b)' \subseteq Known
         /\ \A b \in Accounts : /\ chat'[b].exists = chat[b].exists
                                /\ chat'[b].members = chat[b].members
         /\ \A b \in Accounts \ {a} : chat'[b] = chat[b]
<1>1. PICK m \in net :
        /\ chat[a].exists /\ refused' = refused \cup {a} /\ UNCHANGED <<net, now, failures>>
        /\ \/ chat' = chat
           \/ chat' = [chat EXCEPT ![a].events = SubSeq(MergedWith(a, m), 1, Len(chat[a].events))]
  BY DEF Refuses
<1> DEFINE s == chat[a].events
           dest == MergeMembershipUpdateEvents(s, m.events)
           t == MergedWith(a, m)
           n == Len(s)
           u == SubSeq(t, 1, n)
<1>2. GroupTypes /\ Absent /\ Passed /\ ClockIsUsedOnce
  BY DEF ClockInvariant
<1>3. /\ chat[a] \in ChatRecord /\ chat[a].clock \in Nat /\ s \in Seq(Events) /\ m.events \in Seq(Events)
  BY <1>2, Zenon DEF GroupTypes, ChatRecord, UpdateRecord
<1>4. /\ dest \in Seq(Events) /\ n <= Len(dest) /\ \A i \in 1..n : dest[i] = s[i]
  BY <1>3 DEF EventFacts, MergeUnitesFact
<1>5. /\ t \in Seq(Events) /\ Sorted(t) /\ Range(t) = EventsOf(a) \cup Range(m.events)
  BY <1>2, MergedEvents
<1>6. t = sortEvents(dest)
  BY DEF MergedWith
<1>7. Range(s) = {s[i] : i \in 1..n} /\ n \in Nat /\ \A e \in Range(s) : e.clock <= chat[a].clock
  BY <1>2, <1>3, Zenon DEF Passed, EventsOf, EventFacts, ElementsFact
<1> HIDE DEF dest, s, t, n
<1>8. Len(t) = Len(dest) /\ Len(dest) \in Nat
  BY <1>4, <1>6, Zenon DEF EventFacts, SortOrdersFact, ElementsFact
<1>9. \A i \in 1..n : t[i].clock <= chat[a].clock
  <2>1. \A i \in 1..n : dest[i].clock <= chat[a].clock
    BY <1>4, <1>7
  <2>2. n \in 0..Len(dest)
    BY <1>4, <1>7, <1>8
  <2> QED BY <1>3, <1>4, <1>6, <2>1, <2>2, Zenon DEF EventFacts, SortKeepsFirstFact
<1>10. u \in Seq(Events) /\ Len(u) = n /\ \A i \in 1..n : u[i] = t[i]
  BY <1>4, <1>5, <1>7, <1>8
<1> HIDE DEF u
<1>11. Range(u) = {u[i] : i \in 1..n}
  BY <1>10, Zenon DEF EventFacts, ElementsFact
<1>12. Range(t) = {t[i] : i \in 1..Len(t)}
  BY <1>5 DEF EventFacts, ElementsFact
<1>13. \A i \in 1..n : i \in 1..Len(t)
  BY <1>4, <1>7, <1>8
<1>14. Range(u) \subseteq Range(t) /\ Sorted(u) /\ \A e \in Range(u) : e.clock <= chat[a].clock
  <2>1. Range(u) \subseteq Range(t)
    BY <1>10, <1>11, <1>12, <1>13, Zenon
  <2>2. Sorted(u)
    BY <1>5, <1>10, <1>13 DEF Sorted
  <2> QED BY <1>9, <1>10, <1>11, <2>1, <2>2
<1>15. Range(t) \subseteq Known
  BY <1>2, <1>5, KnownEvents
<1>16. \A b \in Accounts : /\ chat'[b] \in ChatRecord /\ chat'[b].exists = chat[b].exists
                           /\ chat'[b].clock = chat[b].clock /\ chat'[b].members = chat[b].members
                           /\ chat'[b].events = chat[b].events \/ (b = a /\ chat'[b].events = u)
                           /\ b # a => chat'[b] = chat[b]
  <2> TAKE b \in Accounts
  <2>1. chat[b] \in ChatRecord /\ chat \in [Accounts -> ChatRecord]
    BY <1>2 DEF GroupTypes
  <2>2. CASE chat' = chat
    BY <2>1, <2>2, Zenon
  <2>3. CASE chat' = [chat EXCEPT ![a].events = u]
    <3>1. CASE b = a
      <4>1. chat'[b] = [chat[b] EXCEPT !.events = u]
        BY <2>1, <2>3, <3>1
      <4> QED BY <1>10, <2>1, <3>1, <4>1, Zenon DEF ChatRecord
    <3>2. CASE b # a
      BY <2>1, <2>3, <3>2
    <3> QED BY <3>1, <3>2
  <2> QED BY <1>1, <2>2, <2>3, Zenon DEF u, t, n, s
<1>17. chat' \in [Accounts -> ChatRecord]
  <2>1. chat \in [Accounts -> ChatRecord]
    BY <1>2 DEF GroupTypes
  <2>2. chat' = chat \/ chat' = [chat EXCEPT ![a] = [chat[a] EXCEPT !.events = u]]
    BY <1>1 DEF u, t, n, s
  <2>3. [chat[a] EXCEPT !.events = u] \in ChatRecord
    BY <1>3, <1>10, Zenon DEF ChatRecord
  <2> QED BY <2>1, <2>2, <2>3
<1>18. GroupTypes'
  BY <1>1, <1>2, <1>17, Zenon DEF GroupTypes
<1>19. Absent'
  <2> SUFFICES ASSUME NEW b \in Accounts, ~chat'[b].exists PROVE chat'[b] = NoChat
    BY DEF Absent
  <2>1. b # a /\ ~chat[b].exists
    BY <1>1, <1>16
  <2> QED BY <1>2, <1>16, <2>1 DEF Absent
<1>20. \A b \in Accounts : /\ EventsOf(b)' \subseteq Known /\ Sorted(chat[b].events)'
                           /\ \A e \in EventsOf(b)' : e.clock <= chat'[b].clock
  <2> TAKE b \in Accounts
  <2>1. CASE chat'[b].events = chat[b].events
    <3>1. EventsOf(b)' = EventsOf(b) /\ EventsOf(b) \subseteq Known
      BY <1>2, <2>1, KnownEvents, Zenon DEF EventsOf
    <3>2. Sorted(chat[b].events)' /\ \A e \in EventsOf(b) : e.clock <= chat[b].clock
      BY <1>2, <2>1, Zenon DEF Passed, Sorted
    <3> QED BY <1>16, <3>1, <3>2
  <2>2. CASE b = a /\ chat'[b].events = u
    <3>1. EventsOf(b)' = Range(u)
      BY <2>2, Zenon DEF EventsOf
    <3>2. Sorted(chat[b].events)'
      BY <1>14, <2>2 DEF Sorted
    <3> QED BY <1>14, <1>15, <1>16, <2>2, <3>1, <3>2
  <2> QED BY <1>16, <2>1, <2>2, Zenon
<1>21. Known' \subseteq Known
  <2>1. \A m1 \in net' : Range(m1.events) \subseteq Known
    BY <1>1, <1>2, KnownEvents, Zenon
  <2> QED BY <1>20, <2>1 DEF Known
<1>22. Passed'
  <2>1. \A e \in Known' : e.from \in Accounts /\ e.clock <= chat[e.from].clock
    BY <1>2, <1>21, KnownEvents, Zenon DEF Passed, Events
  <2>2. \A e \in Known' : e.clock <= chat'[e.from].clock
    BY <1>16, <2>1
  <2> QED BY <1>20, <2>2, Zenon DEF Passed
<1>23. ClockIsUsedOnce'
  BY <1>2, <1>21 DEF ClockIsUsedOnce
<1>24. Complete'
  BY <1>1 DEF Complete
<1> QED BY <1>1, <1>16, <1>18, <1>19, <1>20, <1>22, <1>23, <1>24 DEF ClockInvariant

(* Every step keeps ClockInvariant. *)
LEMMA ClockStep ==
  ASSUME EventFacts, ClockInvariant, [GroupNext]_groupVars
  PROVE  ClockInvariant'
<1>1. ASSUME now' \in Nat, UNCHANGED <<chat, net, failures, refused>> PROVE ClockInvariant'
  <2>1. GroupTypes' /\ Absent'
    BY <1>1 DEF ClockInvariant, GroupTypes, Absent
  <2>2. Known' = Known /\ \A a \in Accounts : EventsOf(a)' = EventsOf(a)
    BY <1>1, Zenon DEF Known, EventsOf
  <2>3. Passed' /\ ClockIsUsedOnce'
    BY <1>1, <2>2 DEF ClockInvariant, Passed, ClockIsUsedOnce, Sorted
  <2>4. \A T : History(T) => History(T)'
    BY <2>2 DEF History
  <2>5. Complete'
    <3> SUFFICES ASSUME failures' = 0, refused' = {}
                 PROVE  /\ \A b \in Accounts : History(EventsOf(b))'
                        /\ \A m \in net' : History(Range(m.events))'
                        /\ \A f \in Known' : f \in EventsOf(f.from)'
      BY Zenon DEF Complete
    <3>1. /\ \A b \in Accounts : History(EventsOf(b))
          /\ \A m \in net : History(Range(m.events))
          /\ \A f \in Known : f \in EventsOf(f.from)
      BY <1>1 DEF ClockInvariant, Complete
    <3>2. \A b \in Accounts : History(EventsOf(b))'
      BY <2>2, <3>1 DEF History
    <3>3. \A f \in Known' : f \in EventsOf(f.from)'
      BY <1>1, <3>1 DEF Known, EventsOf
    <3> QED BY <1>1, <2>4, <3>1, <3>2, <3>3, Zenon
  <2> QED BY <2>1, <2>3, <2>5 DEF ClockInvariant
<1>2. CASE UNCHANGED groupVars \/ Tick
  <2>1. now \in Nat
    BY DEF ClockInvariant, GroupTypes
  <2>2. now' \in Nat /\ UNCHANGED <<chat, net, failures, refused>>
    BY <1>2, <2>1, GroupAssumption DEF Tick, groupVars
  <2> QED BY <1>1, <2>2
<1>3. ASSUME NEW a \in Accounts, NEW o, Steps(a, o),
             Founds(a, o) \/ Signs(a, o) \/ Idles(a, o) \/ Takes(a, o)
      PROVE  ClockInvariant'
  <2>1. GroupTypes /\ Absent /\ Passed
    BY DEF ClockInvariant
  <2>2. PICK S, N : Evolves(a, o, S, N)
    BY <1>3, <2>1, Evolution, Zenon
  <2>3. GroupTypes' /\ Absent'
    BY <1>3, <2>1, <2>2, EvolvedTypes, Zenon
  <2>4. Passed' /\ ClockIsUsedOnce'
    BY <1>3, <2>2, EvolvedClocks
  <2>5. Complete'
    BY <1>3, <2>2, EvolvedHistory
  <2> QED BY <2>3, <2>4, <2>5 DEF ClockInvariant
<1>4. ASSUME NEW a \in Accounts, Refuses(a) PROVE ClockInvariant'
  BY <1>4, RefusedClocks
<1>5. GroupTypes /\ Absent
  BY DEF ClockInvariant
<1> QED BY <1>2, <1>3, <1>4, <1>5, GroupSteps

(* It holds at the start, when there are no events. *)
LEMMA ClockInit ==
  ASSUME EventFacts
  PROVE  GroupInit => ClockInvariant
<1> SUFFICES ASSUME GroupInit PROVE ClockInvariant
  OBVIOUS
<1>1. /\ chat = [a \in Accounts |-> NoChat] /\ net = {} /\ now = Min(Times)
      /\ failures = 0 /\ refused = {}
  BY DEF GroupInit
<1>2. NoChat \in ChatRecord
  BY DEF NoChat, ChatRecord
<1>3. Min(Times) \in Nat
  <2>1. PICK t \in Times : \A k \in Times : t <= k
    BY GroupAssumption, Zenon DEF EventFacts, LeastNumberFact
  <2>2. Min(Times) \in Times
    BY <2>1 DEF Min
  <2> QED BY <2>2, GroupAssumption, Zenon
<1>4. GroupTypes /\ Absent
  BY <1>1, <1>2, <1>3, Zenon DEF GroupTypes, Absent
<1>5. \A a \in Accounts : chat[a].events = <<>> /\ EventsOf(a) = {} /\ Sorted(chat[a].events)
  BY <1>1 DEF NoChat, EventsOf, Range, Sorted
<1>6. Known = {}
  BY <1>1, <1>5 DEF Known
<1>7. Passed /\ ClockIsUsedOnce
  BY <1>5, <1>6, Zenon DEF Passed, ClockIsUsedOnce
<1>8. Complete
  BY <1>1, <1>5, <1>6 DEF Complete, History
<1> QED BY <1>4, <1>7, <1>8 DEF ClockInvariant
-----------------------------------------------------------------------------
(* The group of a chat is valid, and its members are those of the chat, *)
(* unless leaving failed.                                               *)
Rebuilt ==
  \A a \in Accounts : chat[a].exists /\ a \notin refused =>
    /\ newGroup(chat[a].events).valid
    /\ chat[a].members \subseteq newGroup(chat[a].events).members
    /\ failures = 0 => chat[a].members = newGroup(chat[a].events).members

(* What Publish stores is a valid group, with the members of the chat if it succeeds. *)
LEMMA PublishRebuilds ==
  ASSUME EventFacts, NEW a \in Accounts, NEW c \in ChatRecord, Sorted(c.events), newGroup(c.events).valid,
         \A e \in Range(c.events) : e.clock <= c.clock,
         NEW new, Fresh(a, c.clock, new), NEW o \in Publish(a, c, new)
  PROVE  /\ newGroup(o.chat.events).valid
         /\ o.error = "none" => o.chat.members = newGroup(o.chat.events).members
         /\ o.error # "none" => o.chat.events = c.events /\ o.chat.members = c.members
         /\ Leaving(a, new) => o.error # "invalid"
<1> DEFINE s == c.events
           before == newGroup(s)
           after == ProcessEvents(before, new)
<1>1. new \in Seq(Events) /\ new # <<>> /\ Sorted(new) /\ s \in Seq(Events) /\ c.clock \in Nat
  BY Zenon DEF Fresh, ChatRecord
<1>2. Published(a, c, new, o)
  BY <1>1, PublishShape, Zenon
<1>3. Sorted(s \o new)
  <2>1. \A e \in Range(s) : e.clock \in Nat
    BY <1>1, Zenon DEF Events, EventFacts, ElementsFact
  <2>2. \A i \in 1..Len(new) : c.clock < new[i].clock
    BY Zenon DEF Fresh
  <2>3. Range(new) = {new[i] : i \in 1..Len(new)} /\ \A i \in 1..Len(new) : new[i].clock \in Nat
    BY <1>1, Zenon DEF EventFacts, ElementsFact
  <2>4. \A f \in Range(new) : f.clock \in Nat /\ c.clock < f.clock
    BY <2>2, <2>3, Zenon
  <2>5. ASSUME NEW e \in Range(s), NEW f \in Range(new) PROVE e.clock <= f.clock
    <3> DEFINE x == e.clock
               y == f.clock
               z == c.clock
    <3>1. x \in Nat /\ y \in Nat /\ z \in Nat /\ x <= z /\ z < y
      BY <1>1, <2>1, <2>4, <2>5, Zenon
    <3> HIDE DEF x, y, z
    <3>2. x <= y
      BY <3>1
    <3> QED BY <3>2 DEF x, y
  <2> QED BY <1>1, <2>5, Zenon DEF EventFacts, ConcatenationFact
<1>4. newGroup(s \o new) = after
  BY <1>1, <1>3, Zenon DEF EventFacts, GroupExtendsFact
<1>5. before \in GroupState
  BY <1>1 DEF EventFacts, GroupTypedFact
<1>6. ASSUME Leaving(a, new) PROVE after.valid
  <2> DEFINE e == new[1]
  <2>1. Len(new) = 1 /\ e.type = "removed" /\ e.members = {a} /\ e.from = a
    BY <1>1, <1>6 DEF Leaving, Fresh
  <2>2. after = ProcessEvent(before, e)
    BY <1>1, <1>5, <2>1, Zenon DEF EventFacts, ProcessOneFact
  <2> HIDE DEF e, after
  <2>3. validateEvent(before, e)
    BY <2>1 DEF validateEvent
  <2> HIDE DEF before
  <2>4. before.valid
    BY DEF before
  <2>5. after = processEvent(before, e)
    BY <2>2, <2>3, <2>4 DEF ProcessEvent
  <2>6. processEvent(before, e) = [before EXCEPT !.members = before.members \ e.members,
                                                 !.admins = before.admins \ e.members]
    BY <1>5, <2>1 DEF processEvent, GroupState
  <2> QED BY <1>5, <2>4, <2>5, <2>6, Zenon DEF GroupState
<1> HIDE DEF s, before, after
<1>7. CASE o.error = "none"
  <2>1. after.valid /\ o.chat.events = s \o new /\ o.chat.members = after.members
    BY <1>2, <1>7, Zenon DEF Published, ChatRecord, s, before, after
  <2> QED BY <1>4, <1>7, <2>1, Zenon
<1>8. CASE o.error # "none"
  <2>1. o.chat.events = s /\ o.chat.members = c.members
    BY <1>2, <1>8 DEF Published, ChatRecord, s
  <2>2. o.error = "invalid" => ~after.valid
    BY <1>2 DEF Published, s, before, after
  <2> QED BY <1>6, <1>8, <2>1, <2>2, Zenon DEF s
<1> QED BY <1>7, <1>8, Zenon

(* The group that its creator founds and adds others to. *)
FoundedBy(a, o, c, new, created) ==
  /\ a = Creator /\ ~chat[Creator].exists /\ o \in Publish(a, c, new)
  /\ created.type = "created" /\ created.from = Creator /\ created.clock = c.clock
  /\ c.exists /\ Range(c.events) = {created} /\ Sorted(c.events)
  /\ newGroup(c.events).valid /\ c.members = newGroup(c.events).members
  /\ Fresh(a, c.clock, new) /\ Len(new) = 1
  /\ new[1].type = "added" /\ a \notin new[1].members
  /\ c.active /\ ~c.notified

LEMMA Foundation ==
  ASSUME EventFacts, GroupTypes, NEW a \in Accounts, NEW o, Founds(a, o)
  PROVE  \E c \in ChatRecord, new \in Seq(Events), created \in Events :
           FoundedBy(a, o, c, new, created)
<1> DEFINE clock == NextClock(Creator, NoChat)
           created == Event("created", Creator, clock, {})
           c == [NoChat EXCEPT !.exists = TRUE, !.active = TRUE, !.events = <<created>>,
                   !.members = {Creator}, !.clock = clock]
<1>1. PICK members \in Some(Accounts \ {Creator}) :
        /\ a = Creator /\ ~chat[Creator].exists
        /\ o \in Publish(Creator, c, <<Event("added", Creator, clock + 1, members)>>)
  BY DEF Founds
<1> DEFINE added == Event("added", Creator, clock + 1, members)
           s == <<created>>
<1>2. clock \in Nat /\ 0 < clock
  BY NextClockAdvances, GroupAssumption, Zenon DEF NoChat
<1> HIDE DEF clock
<1>3. created \in Events /\ created.from = Creator /\ created.clock = clock /\ created.type = "created"
  BY <1>2, GroupAssumption, Zenon DEF Event, Events
<1>4. /\ added \in Events /\ added.from = a /\ added.clock = clock + 1
      /\ added.type = "added" /\ a \notin added.members
  BY <1>1, <1>2 DEF Event, Events, Some
<1>5. o \in Publish(a, c, <<added>>)
  BY <1>1
<1> HIDE DEF created, added
<1>6. s \in Seq(Events) /\ Len(s) = 1 /\ s[1] = created /\ s # <<>>
  BY <1>3
<1>7. /\ c \in ChatRecord /\ c.events = s /\ c.clock = clock /\ c.members = {Creator}
      /\ c.exists /\ c.active /\ ~c.notified
  BY <1>2, <1>6, GroupAssumption, Zenon DEF ChatRecord, NoChat
<1> HIDE DEF c, s
<1>8. Sorted(s)
  <2>1. \A i \in 1..Len(s) : i = 1
    BY <1>6
  <2> QED BY <1>3, <1>6, <2>1, <1>2 DEF Sorted
<1>9. Range(s) = {created}
  <2>1. Range(s) = {s[i] : i \in 1..1}
    BY <1>6, Zenon DEF EventFacts, ElementsFact
  <2> QED BY <1>6, <2>1
<1>10. Nobody \in GroupState
  BY DEF Nobody, GroupState
<1>11. ProcessEvents(Nobody, s) = ProcessEvent(Nobody, created)
  BY <1>6, <1>10 DEF EventFacts, ProcessOneFact
<1>12. validateEvent(Nobody, created) /\ Nobody.valid
  <2>1. Nobody.admins = {} /\ Nobody.members = {} /\ Nobody.valid
    BY DEF Nobody
  <2>2. validateEvent(Nobody, created) = (Nobody.admins = {} /\ Nobody.members = {})
    BY <1>3 DEF validateEvent, DetailsChanged
  <2> QED BY <2>1, <2>2, Zenon
<1>13. ProcessEvent(Nobody, created) = [valid |-> TRUE, admins |-> {Creator}, members |-> {Creator}]
  <2>1. ProcessEvent(Nobody, created) = processEvent(Nobody, created)
    BY <1>12 DEF ProcessEvent
  <2> QED BY <1>3, <2>1, Zenon DEF processEvent, Nobody
<1>14. newGroup(s).valid /\ newGroup(s).members = {Creator}
  <2>1. FoundedByCreator(s)
    BY <1>3, <1>6, Zenon DEF FoundedByCreator
  <2> DEFINE g == ProcessEvents(Nobody, s)
  <2>2. newGroup(s).members = g.members /\ (newGroup(s).valid <=> g.valid /\ FoundedByCreator(s))
    BY <1>6, <1>8, Zenon DEF EventFacts, GroupOfSortedFact
  <2>3. g.valid /\ g.members = {Creator}
    BY <1>11, <1>13
  <2> QED BY <2>1, <2>2, <2>3, Zenon
<1> DEFINE new == <<added>>
<1>15. Fresh(a, c.clock, new) /\ o \in Publish(a, c, new) /\ Len(new) = 1 /\ new[1] = added /\ new \in Seq(Events)
  <2>1. clock < clock + 1
    BY <1>2
  <2>2. clock < added.clock
    BY <1>4, <2>1, Zenon
  <2>3. Fresh(a, clock, <<added>>) /\ Len(<<added>>) = 1 /\ <<added>>[1] = added
    BY <1>2, <1>4, <2>2, OneEvent, Zenon
  <2> QED BY <1>5, <1>7, <2>3, Zenon DEF Fresh
<1> HIDE DEF new
<1>16. FoundedBy(a, o, c, new, created)
  BY <1>1, <1>3, <1>4, <1>7, <1>8, <1>9, <1>14, <1>15, Zenon DEF FoundedBy
<1> QED BY <1>3, <1>7, <1>15, <1>16, Zenon

(* The founder stores a valid group. *)
LEMMA FoundsRebuilds ==
  ASSUME EventFacts, GroupTypes, NEW a \in Accounts, NEW o, Founds(a, o)
  PROVE  /\ newGroup(o.chat.events).valid
         /\ o.chat.members = newGroup(o.chat.events).members
<1>0. PICK c \in ChatRecord, new \in Seq(Events), created \in Events : FoundedBy(a, o, c, new, created)
  BY Foundation, Zenon
<1>1. /\ o \in Publish(a, c, new) /\ created.clock = c.clock
      /\ Range(c.events) = {created} /\ Sorted(c.events)
      /\ newGroup(c.events).valid /\ c.members = newGroup(c.events).members
      /\ Fresh(a, c.clock, new)
  BY <1>0, Zenon DEF FoundedBy
<1>2. \A e \in Range(c.events) : e.clock <= c.clock
  <2>1. c.clock \in Nat
    BY Zenon DEF ChatRecord
  <2>2. c.clock <= c.clock
    BY <2>1
  <2> QED BY <1>1, <2>2, Zenon
<1>3. /\ newGroup(o.chat.events).valid
      /\ o.error = "none" => o.chat.members = newGroup(o.chat.events).members
      /\ o.error # "none" => o.chat.events = c.events /\ o.chat.members = c.members
  BY <1>1, <1>2, PublishRebuilds, Zenon
<1> QED BY <1>1, <1>3, Zenon

(* Every step but a refusal leaves a valid group with the members of the chat. *)
LEMMA StepRebuilds ==
  ASSUME EventFacts, ClockInvariant, Rebuilt, NEW a \in Accounts, a \notin refused, NEW o, Steps(a, o),
         Founds(a, o) \/ Signs(a, o) \/ Idles(a, o) \/ Takes(a, o)
  PROVE  /\ newGroup(o.chat.events).valid
         /\ o.chat.members \subseteq newGroup(o.chat.events).members
         /\ failures' = 0 => o.chat.members = newGroup(o.chat.events).members
<1>1. GroupTypes /\ Absent /\ Passed
  BY DEF ClockInvariant
<1>2. failures' = 0 => failures = 0 /\ o.error # "dispatch"
  BY <1>1, FailuresCounted, Zenon
<1>3. Sorted(chat[a].events) /\ \A e \in EventsOf(a) : e.clock <= chat[a].clock
  BY <1>1, Zenon DEF Passed
<1>4. chat[a].exists => /\ newGroup(chat[a].events).valid
                        /\ chat[a].members \subseteq newGroup(chat[a].events).members
                        /\ failures = 0 => chat[a].members = newGroup(chat[a].events).members
  BY Zenon DEF Rebuilt
<1>5. CASE Founds(a, o)
  BY <1>1, <1>5, FoundsRebuilds, Zenon
<1>6. CASE Signs(a, o)
  <2>1. PICK c \in ChatRecord, new \in Seq(Events) : \E p \in Publish(a, c, new) :
          /\ chat[a].exists /\ c.events = chat[a].events /\ c.clock = chat[a].clock
          /\ Fresh(a, c.clock, new) /\ c.members \subseteq chat[a].members
          /\ Leaving(a, new) \/ c.members = chat[a].members
          /\ Like(o.chat, p.chat) /\ o.error = p.error
    BY <1>6, ZenonT(40) DEF Signs
  <2>2. PICK p \in Publish(a, c, new) :
          /\ chat[a].exists /\ c.events = chat[a].events /\ c.clock = chat[a].clock
          /\ Fresh(a, c.clock, new) /\ c.members \subseteq chat[a].members
          /\ Leaving(a, new) \/ c.members = chat[a].members
          /\ Like(o.chat, p.chat) /\ o.error = p.error
    BY <2>1, Zenon
  <2>3. Sorted(c.events) /\ newGroup(c.events).valid /\ \A e \in Range(c.events) : e.clock <= c.clock
    BY <1>3, <1>4, <2>2, Zenon DEF EventsOf
  <2>4. /\ newGroup(p.chat.events).valid
        /\ p.error = "none" => p.chat.members = newGroup(p.chat.events).members
        /\ p.error # "none" => p.chat.events = c.events /\ p.chat.members = c.members
        /\ Leaving(a, new) => p.error # "invalid"
    BY <2>2, <2>3, PublishRebuilds, Zenon
  <2>5. o.chat.events = p.chat.events /\ o.chat.members = p.chat.members
    BY <2>2, Zenon DEF Like
  <2>6. p.error \in {"none", "invalid", "dispatch"}
    <3>1. Published(a, c, new, p)
      BY <2>2, PublishShape, Zenon DEF Fresh
    <3> QED BY <3>1 DEF Published
  <2>7. ASSUME failures' = 0 PROVE o.chat.members = newGroup(o.chat.events).members
    BY <1>2, <1>4, <2>2, <2>4, <2>5, <2>6, <2>7, Zenon
  <2>8. o.chat.members \subseteq newGroup(o.chat.events).members
    BY <1>4, <2>2, <2>4, <2>5, Zenon
  <2> QED BY <2>4, <2>5, <2>7, <2>8, Zenon
<1>7. CASE Idles(a, o)
  BY <1>2, <1>4, <1>7, Zenon DEF Idles
<1>8. CASE Takes(a, o)
  <2>1. PICK m \in net, c \in ChatRecord : \E p :
          /\ Told(a, m, c) /\ p \in {Outcome(c, {}, "none")} \cup ConfirmJoiningGroup(a, c)
          /\ o.chat.events = p.chat.events /\ o.chat.members = p.chat.members /\ o.error = p.error
    BY <1>8, Zenon DEF Takes, TakesUpdate
  <2>2. PICK p :
          /\ Told(a, m, c) /\ p \in {Outcome(c, {}, "none")} \cup ConfirmJoiningGroup(a, c)
          /\ o.chat.events = p.chat.events /\ o.chat.members = p.chat.members /\ o.error = p.error
    BY <2>1, Zenon
  <2>3. /\ newGroup(c.events).valid /\ c.members = newGroup(c.events).members
        /\ Sorted(c.events) /\ \A e \in Range(c.events) : e.clock <= c.clock
    BY <2>2, Zenon DEF Told
  <2>4. CASE p = Outcome(c, {}, "none")
    BY <2>2, <2>3, <2>4, Zenon DEF Outcome
  <2>5. CASE p \in ConfirmJoiningGroup(a, c)
    <3> DEFINE e == Event("joined", a, NextClock(a, c), {})
               new == <<e>>
    <3>1. c.clock \in Nat
      BY DEF ChatRecord
    <3>2. NextClock(a, c) \in Nat /\ c.clock < NextClock(a, c)
      BY <1>1, <3>1, NextClockAdvances
    <3>3. e \in Events /\ e.from = a /\ e.clock = NextClock(a, c)
      BY <3>2, Zenon DEF Event, Events
    <3>4. p \in Publish(a, c, new)
      BY <2>5 DEF ConfirmJoiningGroup
    <3> HIDE DEF e
    <3>5. Fresh(a, c.clock, new)
      BY <3>1, <3>2, <3>3, OneEvent
    <3> HIDE DEF new
    <3>6. /\ newGroup(p.chat.events).valid
          /\ p.error = "none" => p.chat.members = newGroup(p.chat.events).members
          /\ p.error # "none" => p.chat.events = c.events /\ p.chat.members = c.members
      BY <2>3, <3>4, <3>5, PublishRebuilds, Zenon
    <3> QED BY <2>2, <2>3, <3>6, Zenon
  <2> QED BY <2>2, <2>4, <2>5, Zenon
<1> QED BY <1>5, <1>6, <1>7, <1>8, Zenon

(* Every step keeps Rebuilt. *)
LEMMA RebuiltStep ==
  ASSUME EventFacts, ClockInvariant, Rebuilt, [GroupNext]_groupVars
  PROVE  Rebuilt'
<1>1. GroupTypes /\ Absent /\ Passed
  BY Zenon DEF ClockInvariant
<1>2. CASE UNCHANGED groupVars \/ Tick
  <2>1. UNCHANGED <<chat, failures, refused>>
    BY <1>2, Zenon DEF Tick, groupVars
  <2> QED BY <2>1 DEF Rebuilt
<1>3. ASSUME NEW a \in Accounts, NEW o, Steps(a, o),
             Founds(a, o) \/ Signs(a, o) \/ Idles(a, o) \/ Takes(a, o)
      PROVE  Rebuilt'
  <2> SUFFICES ASSUME NEW b \in Accounts, chat'[b].exists, b \notin refused'
               PROVE  /\ newGroup(chat'[b].events).valid
                      /\ chat'[b].members \subseteq newGroup(chat'[b].events).members
                      /\ failures' = 0 => chat'[b].members = newGroup(chat'[b].events).members
    BY DEF Rebuilt
  <2>1. /\ chat' = [chat EXCEPT ![a] = o.chat] /\ refused' = refused
        /\ failures' = 0 => failures = 0
    BY <1>1, <1>3, FailuresCounted, Zenon DEF Steps
  <2>2. CASE b = a
    <3>1. chat'[b] = o.chat
      BY <1>1, <2>1, <2>2, Zenon DEF GroupTypes
    <3> QED BY <1>3, <2>1, <2>2, <3>1, StepRebuilds, Zenon
  <2>3. CASE b # a
    <3>1. chat'[b] = chat[b]
      BY <1>1, <2>1, <2>3, Zenon DEF GroupTypes
    <3> QED BY <2>1, <3>1 DEF Rebuilt
  <2> QED BY <2>2, <2>3, Zenon
<1>4. ASSUME NEW a \in Accounts, Refuses(a) PROVE Rebuilt'
  <2>1. /\ failures' = failures /\ refused' = refused \cup {a}
        /\ \A b \in Accounts \ {a} : chat'[b] = chat[b]
    BY <1>4, RefusedClocks, Zenon
  <2> QED BY <2>1, Zenon DEF Rebuilt
<1> QED BY <1>1, <1>2, <1>3, <1>4, GroupSteps

(* It holds at the start. *)
LEMMA RebuiltInit == GroupInit => Rebuilt
  BY DEF GroupInit, Rebuilt, NoChat
-----------------------------------------------------------------------------
(* What follows. *)

LEMMA TypesFollow == ClockInvariant => GroupTypeOK
<1> SUFFICES ASSUME ClockInvariant PROVE GroupTypeOK
  OBVIOUS
<1>1. GroupTypes /\ Passed
  BY DEF ClockInvariant
<1>2. \A a \in Accounts : chat[a] \in ChatRecord
  BY <1>1 DEF GroupTypes
<1>3. \A a \in Accounts :
        /\ chat[a].events \in Seq(Events) /\ chat[a].members \subseteq Accounts
        /\ chat[a].clock \in Nat
        /\ {chat[a].exists, chat[a].active, chat[a].notified} \subseteq BOOLEAN
  BY <1>2 DEF ChatRecord
<1>4. \A m \in net : m.from \in Accounts /\ m.to \subseteq Accounts /\ m.events \in Seq(Events)
  BY <1>1 DEF GroupTypes, UpdateRecord
<1> QED BY <1>1, <1>3, <1>4, Zenon DEF GroupTypeOK, GroupTypes, Passed

(* Members are those whose last addition is later than any removal of them. *)
LEMMA LatestFollows ==
  ASSUME EventFacts, ClockInvariant, Rebuilt
  PROVE  LatestWins
<1>1. ASSUME NEW a \in Accounts \ refused, NEW b \in Accounts,
             failures = 0,
             \A e, r \in EventsOf(a) : Adds(e, b) /\ Removes(r, b) => e.clock # r.clock
      PROVE  b \in chat[a].members <=>
               \E e \in EventsOf(a) :
                 Adds(e, b) /\ \A r \in EventsOf(a) : Removes(r, b) => r.clock < e.clock
  <2> DEFINE s == chat[a].events
  <2>1. GroupTypes /\ Absent /\ Passed
    BY Zenon DEF ClockInvariant
  <2>2. s \in Seq(Events) /\ Sorted(s) /\ EventsOf(a) = Range(s)
    BY <2>1 DEF GroupTypes, ChatRecord, Passed, EventsOf
  <2>3. CASE ~chat[a].exists
    <3>1. chat[a] = NoChat
      BY <2>1, <2>3, Zenon DEF Absent
    <3>2. chat[a].members = {} /\ EventsOf(a) = {}
      BY <3>1 DEF NoChat, EventsOf, Range
    <3> QED BY <3>2, Zenon
  <2>4. CASE chat[a].exists
    <3>1. newGroup(s).valid /\ chat[a].members = newGroup(s).members
      BY <1>1, <2>4, Zenon DEF Rebuilt
    <3> HIDE DEF s
    <3>2. b \in newGroup(s).members <=>
            \E e \in Range(s) : Adds(e, b) /\ \A r \in Range(s) : Removes(r, b) => r.clock < e.clock
      BY <1>1, <2>2, <3>1, Zenon DEF EventFacts, LatestFact
    <3> QED BY <2>2, <3>1, <3>2, Zenon
  <2> QED BY <2>3, <2>4, Zenon
<1> QED BY <1>1, Zenon DEF LatestWins
=============================================================================
