----------------------------- MODULE GroupFacts -----------------------------
(***************************************************************************)
(* What the proofs about GroupChat.tla say of lists of events, and the     *)
(* facts about sortEvents, MergeMembershipUpdateEvents, ProcessEvents and  *)
(* newGroup, and about finite sets, that they rest on.  GroupEventsProofs  *)
(* proves the facts (EventFactsHold); GroupChatProofs and                  *)
(* GroupUpdatesProofs take them as hypotheses, so that their proofs see    *)
(* neither the induction nor the library theorems behind them;             *)
(* GroupTheorems puts the two together.                                    *)
(***************************************************************************)
EXTENDS GroupChat

(* By clock. *)
Sorted(s) == \A i, j \in 1..Len(s) : i <= j => s[i].clock <= s[j].clock

(* The elements of s are in t in the same order, and nowhere else in t. *)
Embeds(s, t) ==
  \E h \in [1..Len(s) -> 1..Len(t)] :
    /\ \A i \in 1..Len(s) : t[h[i]] = s[i]
    /\ \A i, j \in 1..Len(s) : i < j => h[i] < h[j]
    /\ \A i \in 1..Len(t) : t[i] \in Range(s) => \E k \in 1..Len(s) : h[k] = i

(* The groups ProcessEvents goes through, and the one it starts with. *)
GroupState == [valid : BOOLEAN, admins : SUBSET Accounts, members : SUBSET Accounts]
Nobody == [valid |-> TRUE, admins |-> {}, members |-> {}]

FoundedByCreator(s) == s # <<>> /\ s[1].type = "created" /\ s[1].from = Creator

Appoints(e, b) == (e.type = "admins" /\ b \in e.members) \/ (e.type = "created" /\ b = e.from)

(* Of the first n events, the last about b adds it. *)
AddedLast(s, n, b) ==
  \E i \in 1..n : Adds(s[i], b) /\ \A j \in 1..n : Removes(s[j], b) => j < i

(* Of the first n events, the last about b that matters to admins appoints it. *)
AppointedLast(s, n, b) ==
  \E i \in 1..n : Appoints(s[i], b) /\ \A j \in 1..n : Removes(s[j], b) => j < i

(* None of the new events depends on another. *)
Independent(new) ==
  \/ Len(new) = 1
  \/ \A i \in 1..Len(new) : new[i].type = "removed"
  \/ \A i \in 1..Len(new) : new[i].type \in DetailsChanged

(* The group is created once, before anything else. *)
RootOf(S) ==
  \A c, e \in S :
    c.type = "created" => /\ c.from = Creator
                          /\ e = c \/ (c.clock < e.clock /\ e.type # "created")
Based(S) == \E c \in S : c.type = "created"

(* Every event follows one that lets its author sign it. *)
AddedBefore(S, e, b) == \E d \in S : Adds(d, b) /\ d.clock < e.clock
AppointedBefore(S, e, b) == \E d \in S : Appoints(d, b) /\ d.clock < e.clock
SupportedBy(S, e) ==
  /\ e.type \in DetailsChanged \cup {"added"} =>
       AddedBefore(S, e, e.from) \/ AppointedBefore(S, e, e.from)
  /\ e.type = "joined" => AddedBefore(S, e, e.from)
  /\ e.type = "admins" => AppointedBefore(S, e, e.from) /\ \E b \in e.members : AddedBefore(S, e, b)
Supported(S) == \A e \in S : SupportedBy(S, e)

(* The creator alone has left, after all else it signed, and there are no other admins. *)
Loose(S) ==
  \A r \in S :
    r.type = "removed" =>
      /\ r.from = Creator /\ r.members = {Creator}
      /\ \A e \in S : /\ e.type # "admins"
                      /\ e.from = Creator /\ e.type # "removed" => e.clock < r.clock

(* The group is created at most once in the list. *)
Once(s) ==
  \A i, j \in 1..Len(s) : s[i].type = "created" /\ s[j].type = "created" => i = j
-----------------------------------------------------------------------------
(* Numbers and finite sets. *)

LeastNumberFact == \A T : T \subseteq Nat /\ T # {} => \E n \in T : \A k \in T : n <= k

(* The greatest of some numbers. *)
MaxIsGreatestFact ==
  \A S : \A b \in Nat :
    S \subseteq Nat /\ S # {} /\ (\A k \in S : k <= b) => Max(S) \in S /\ \A k \in S : k <= Max(S)

EmptySetFact == IsFiniteSet({}) /\ \A S : IsFiniteSet(S) => (Cardinality(S) = 0 <=> S = {})

SingletonFact == \A x : IsFiniteSet({x}) /\ Cardinality({x}) = 1

CardinalityFact == \A S : IsFiniteSet(S) => Cardinality(S) \in Nat

SubsetFact ==
  \A S, T : IsFiniteSet(S) /\ T \subseteq S => IsFiniteSet(T) /\ Cardinality(T) <= Cardinality(S)

UnionFact == \A S, T : IsFiniteSet(S) /\ IsFiniteSet(T) => IsFiniteSet(S \cup T)

AddElementFact ==
  \A S, x : IsFiniteSet(S) =>
    /\ IsFiniteSet(S \cup {x})
    /\ Cardinality(S \cup {x}) = IF x \in S THEN Cardinality(S) ELSE Cardinality(S) + 1
-----------------------------------------------------------------------------
(* Lists of events. *)

(* The events of a list are those at its positions. *)
ElementsFact ==
  \A s \in Seq(Events) :
    /\ Range(s) = {s[i] : i \in 1..Len(s)} /\ Range(s) \subseteq Events
    /\ Len(s) \in Nat /\ DOMAIN s = 1..Len(s)
    /\ \A i \in 1..Len(s) : s[i] \in Events /\ s[i].clock \in Nat

FiniteRangeFact == \A s \in Seq(Events) : IsFiniteSet(Range(s))

(* Events and later ones that are appended. *)
ConcatenationFact ==
  \A s, t \in Seq(Events) :
    /\ s \o t \in Seq(Events) /\ Range(s \o t) = Range(s) \cup Range(t)
    /\ Sorted(s) /\ Sorted(t) /\ (\A e \in Range(s), f \in Range(t) : e.clock <= f.clock)
       => Sorted(s \o t)

(* sortEvents returns the same events, in the order of their clocks. *)
SortOrdersFact ==
  \A s \in Seq(Events) :
    /\ sortEvents(s) \in Seq(Events) /\ Len(sortEvents(s)) = Len(s)
    /\ Range(sortEvents(s)) = Range(s) /\ Sorted(sortEvents(s))

(* If the first m events are not later than c, then so are the first m of  *)
(* the sorted list: only earlier ones can come before them.                *)
SortKeepsFirstFact ==
  \A s \in Seq(Events), c \in Nat : \A m \in 0..Len(s) :
    (\A i \in 1..m : s[i].clock <= c) => \A i \in 1..m : sortEvents(s)[i].clock <= c

SortOnceFact == \A s \in Seq(Events) : Once(s) => Once(sortEvents(s))

(* Merging gives the events of both, those of the group first. *)
MergeUnitesFact ==
  \A dest, src \in Seq(Events) :
    LET t == MergeMembershipUpdateEvents(dest, src) IN
    /\ t \in Seq(Events) /\ Range(t) = Range(dest) \cup Range(src)
    /\ Len(dest) <= Len(t) /\ \A i \in 1..Len(dest) : t[i] = dest[i]

(* Merging keeps the order of the events the group had. *)
MergeEmbedsFact ==
  \A dest, src \in Seq(Events) :
    Sorted(dest) => Embeds(dest, sortEvents(MergeMembershipUpdateEvents(dest, src)))

(* Merging does not repeat the creation, if both sides have the same. *)
MergeOnceFact ==
  \A dest, src \in Seq(Events) :
    Once(dest) /\ (\A c \in Range(src) : c.type = "created" => c \in Range(dest))
      => Once(MergeMembershipUpdateEvents(dest, src))

(* A group with new events in between does not add b unless one of the new ones does. *)
StaysOutFact ==
  \A s, t \in Seq(Events) : \A b :
    Embeds(s, t) /\ ~AddedLast(s, Len(s), b) /\ AddedLast(t, Len(t), b)
      => \E e \in Range(t) \ Range(s) : Adds(e, b)
-----------------------------------------------------------------------------
(* The group they lead to. *)

ProcessOneFact ==
  \A g \in GroupState, new \in Seq(Events) :
    Len(new) = 1 => ProcessEvents(g, new) = ProcessEvent(g, new[1])

(* More events can be processed later. *)
ProcessMoreFact ==
  \A g \in GroupState, s, t \in Seq(Events) :
    /\ ProcessEvents(g, s) \in GroupState
    /\ ProcessEvents(g, s \o t) = ProcessEvents(ProcessEvents(g, s), t)

(* newGroup gives a group, valid or not. *)
GroupTypedFact == \A s \in Seq(Events) : newGroup(s) \in GroupState

EmptyGroupFact == newGroup(<<>>).members = {}

(* The group of sorted events is what they lead to. *)
GroupOfSortedFact ==
  \A s \in Seq(Events) :
    Sorted(s) =>
      LET g == ProcessEvents(Nobody, s) IN
      /\ g \in GroupState
      /\ newGroup(s).admins = g.admins /\ newGroup(s).members = g.members
      /\ newGroup(s).valid <=> g.valid /\ FoundedByCreator(s)

(* Sorting the events first makes no difference. *)
GroupSortsFact == \A s \in Seq(Events) : newGroup(sortEvents(s)) = newGroup(s)

(* New events in their order after those of a valid group. *)
GroupExtendsFact ==
  \A s, t \in Seq(Events) :
    Sorted(s \o t) /\ newGroup(s).valid => newGroup(s \o t) = ProcessEvents(newGroup(s), t)

(* The members and admins of a valid group. *)
GroupMembersFact ==
  \A s \in Seq(Events) :
    Sorted(s) /\ newGroup(s).valid =>
      /\ \A b : b \in newGroup(s).members <=> AddedLast(s, Len(s), b)
      /\ \A b : b \in newGroup(s).admins <=> AppointedLast(s, Len(s), b)
      /\ FoundedByCreator(s)
      /\ \A i \in 1..Len(s) : \E g \in GroupState :
           /\ validateEvent(g, s[i])
           /\ \A b : b \in g.members <=> AddedLast(s, i - 1, b)
           /\ \A b : b \in g.admins <=> AppointedLast(s, i - 1, b)

(* Who is a member has an addition not before any removal. *)
MembersAreAddedFact ==
  \A s \in Seq(Events) :
    Sorted(s) /\ newGroup(s).valid =>
      \A b \in newGroup(s).members :
        \E e \in Range(s) : Adds(e, b) /\ \A r \in Range(s) : Removes(r, b) => r.clock <= e.clock

(* Members are those with an addition later than any removal, if no two  *)
(* of their additions and removals have the same clock value.            *)
LatestFact ==
  \A s \in Seq(Events) :
    Sorted(s) /\ newGroup(s).valid =>
      \A b :
        (\A e, r \in Range(s) : Adds(e, b) /\ Removes(r, b) => e.clock # r.clock) =>
          (b \in newGroup(s).members <=>
             \E e \in Range(s) : Adds(e, b) /\ \A r \in Range(s) : Removes(r, b) => r.clock < e.clock)

(* Members that nobody removes. *)
StaysMemberFact ==
  \A s \in Seq(Events) :
    Sorted(s) /\ newGroup(s).valid =>
      \A d \in Range(s) : \A b :
        Adds(d, b) /\ (\A r \in Range(s) : ~Removes(r, b)) => b \in newGroup(s).members

(* What is signed in a valid group is supported by the events that were there. *)
SignedSupportedFact ==
  \A s, new \in Seq(Events) :
    /\ Independent(new) /\ Sorted(s \o new) /\ newGroup(s \o new).valid
    /\ \A d \in Range(s), e \in Range(new) : d.clock < e.clock
    => \A e \in Range(new) : SupportedBy(Range(s), e)

(* The first of the events of a valid group creates it, no other does. *)
ValidOnceFact ==
  \A s \in Seq(Events) : Sorted(s) /\ newGroup(s).valid /\ RootOf(Range(s)) => Once(s)

(* Events that support each other are a valid group, unless they remove others. *)
SupportedValidFact ==
  \A s \in Seq(Events) :
    /\ Sorted(s) /\ Once(s)
    /\ Based(Range(s)) /\ RootOf(Range(s)) /\ Supported(Range(s)) /\ Loose(Range(s))
    => newGroup(s).valid
-----------------------------------------------------------------------------
EventFacts ==
  /\ LeastNumberFact /\ MaxIsGreatestFact
  /\ EmptySetFact /\ SingletonFact /\ CardinalityFact /\ SubsetFact /\ UnionFact /\ AddElementFact
  /\ ElementsFact /\ FiniteRangeFact /\ ConcatenationFact
  /\ SortOrdersFact /\ SortKeepsFirstFact /\ SortOnceFact
  /\ MergeUnitesFact /\ MergeEmbedsFact /\ MergeOnceFact /\ StaysOutFact
  /\ ProcessOneFact /\ ProcessMoreFact /\ GroupTypedFact /\ EmptyGroupFact
  /\ GroupOfSortedFact /\ GroupSortsFact /\ GroupExtendsFact
  /\ GroupMembersFact /\ MembersAreAddedFact /\ LatestFact /\ StaysMemberFact
  /\ SignedSupportedFact /\ ValidOnceFact /\ SupportedValidFact
=============================================================================
