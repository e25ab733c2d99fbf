--------------------------- MODULE ContactsProofs ---------------------------
(***************************************************************************)
(* Who is taken to have added us did ask, and no contact update leads to   *)
(* the nil contact request, for any number of operations and duplicates.   *)
(* Both need more than they say: that own requests are on record, and that *)
(* the messages under way carry nothing else. Two more results follow:     *)
(* contact updates answer each other a bounded number of times, and when   *)
(* nothing is under way both sides agree on being contacts.                *)
(***************************************************************************)
EXTENDS Contacts, TLAPS

(* The contexts are large: more time than by default, and the SMT backend  *)
(* once more when its translation was cut off.                             *)
USE SMTT(30), ZenonT(30), Z3T(30), SMTT(40), Z3T(40)

(* A record whose requests are among the clocks of those that were made,   *)
(* by its owner (own) and by the other side (others).                      *)
AskedFor(c, own, others) ==
  /\ c.local = "Sent" => c.localClock \in own
  /\ HasAddedUs(c) => c.remoteClock \in others

(* What a message claims of its sender, who made the requests own, is      *)
(* true, and updates are only sent to who is added.                        *)
MessageOK(m, own) ==
  /\ m.kind \in {"request", "accept"} => m.clock \in own
  /\ m.state.local = "Sent" => m.state.localClock \in own
  /\ m.kind = "update" => m.state.local = "Sent"

ContactsInvariant ==
  /\ ContactsTypeOK
  /\ \A p \in Party : AskedFor(contact[p], requests[p], requests[Other(p)])
  /\ \A m \in net : MessageOK(m, requests[Other(m.to)])

Messages == [to : Party, kind : Kind, clock : Nat, state : Contact, hops : Nat]
-----------------------------------------------------------------------------
(* The other of two parties. *)
LEMMA OtherParty == \A p \in Party : Other(p) \in Party /\ Other(p) # p /\ Other(Other(p)) = p
<1> SUFFICES ASSUME NEW p \in Party
             PROVE  Other(p) \in Party /\ Other(p) # p /\ Other(Other(p)) = p
  BY Zenon
<1>1. PICK q \in Party : p # q /\ Party = {p, q}
  BY PartyAssumption, Zenon
<1>2. Other(p) \in Party /\ Other(p) # p
  BY <1>1 DEF Other
<1>3. Other(p) = q
  BY <1>1, <1>2
<1>4. Other(q) \in Party /\ Other(q) # q
  BY <1>1 DEF Other
<1> QED BY <1>1, <1>2, <1>3, <1>4

(* The methods of Contact return records. *)
LEMMA RecordTypes ==
  ASSUME NEW c \in Contact, NEW s \in Contact, NEW k \in Nat
  PROVE  /\ ContactRequestSent(c, k) \in Contact
         /\ RetractContactRequest(c, k) \in Contact
         /\ DismissContactRequest(c, k) \in Contact
         /\ ContactRequestRetracted(c, k) \in Contact
         /\ ContactRequestReceived(c, k) \in Contact
         /\ ImplicitRetraction(c, s) \in Contact
         /\ NoContact \in Contact
  BY Zenon DEF Contact, ContactRequestSent, RetractContactRequest, DismissContactRequest,
         ContactRequestRetracted, ContactRequestReceived, ImplicitRetraction, NoContact

(* So does what the record of the other side makes of ours. *)
LEMMA PropagatedType ==
  ASSUME NEW c \in Contact, NEW s \in Contact
  PROVE  ContactRequestPropagatedStateReceived(c, s) \in Contact
<1>1. ImplicitRetraction(c, s) \in Contact /\ s.localClock \in Nat
  BY RecordTypes DEF Contact
<1> QED BY <1>1, RecordTypes DEF ContactRequestPropagatedStateReceived

(* No method makes a record claim a request that was not made. *)
LEMMA MethodsAsk ==
  ASSUME NEW c \in Contact, NEW k \in Nat, NEW own, NEW others, AskedFor(c, own, others)
  PROVE  /\ k \in own => AskedFor(ContactRequestSent(c, k), own, others)
         /\ k \in others => AskedFor(ContactRequestReceived(c, k), own, others)
         /\ AskedFor(RetractContactRequest(c, k), own, others)
         /\ AskedFor(DismissContactRequest(c, k), own, others)
         /\ AskedFor(ContactRequestRetracted(c, k), own, others)
  BY DEF Contact, AskedFor, HasAddedUs, ContactRequestSent, ContactRequestReceived,
         RetractContactRequest, DismissContactRequest, ContactRequestRetracted

(* Nor does a record of the other side that tells the truth about it. *)
LEMMA PropagatedAsks ==
  ASSUME NEW c \in Contact, NEW s \in Contact, NEW own, NEW others, AskedFor(c, own, others),
         s.local = "Sent" => s.localClock \in others
  PROVE  AskedFor(ContactRequestPropagatedStateReceived(c, s), own, others)
<1>1. ImplicitRetraction(c, s) \in Contact /\ s.localClock \in Nat
  BY RecordTypes DEF Contact
<1>2. AskedFor(ImplicitRetraction(c, s), own, others)
  BY DEF Contact, AskedFor, HasAddedUs, ImplicitRetraction
<1> QED BY <1>1, <1>2, MethodsAsk DEF ContactRequestPropagatedStateReceived

(* The variables that are neither records, messages, requests nor the      *)
(* chat's clock, after a step.                                             *)
RestTypeOK ==
  /\ blocked \in [Party -> BOOLEAN] /\ request \in [Party -> BOOLEAN]
  /\ lastUpdated \in [Party -> Nat]
  /\ {now, operations, duplicates} \subseteq Nat /\ withdrawn \in BOOLEAN

(* A step of one account: it stores a record and a clock, makes requests   *)
(* and sends messages.                                                     *)
LEMMA AccountStep ==
  ASSUME ContactsInvariant, RestTypeOK', NEW p \in Party, NEW d \in Contact, NEW last \in Nat,
         NEW asked \in SUBSET Nat, NEW sent \in SUBSET Messages,
         contact' = [contact EXCEPT ![p] = d],
         lastClock' = [lastClock EXCEPT ![p] = last],
         requests' = [requests EXCEPT ![p] = @ \cup asked],
         net' \subseteq net \cup sent,
         AskedFor(d, requests[p] \cup asked, requests[Other(p)]),
         \A m \in sent : m.to = Other(p) /\ MessageOK(m, requests[p] \cup asked)
  PROVE  ContactsInvariant'
<1>0. ContactsTypeOK
  BY DEF ContactsInvariant
<1>1. requests'[p] = requests[p] \cup asked /\ requests'[Other(p)] = requests[Other(p)]
  BY <1>0, OtherParty DEF ContactsTypeOK
<1>2. \A q \in Party : requests[q] \subseteq requests'[q]
  BY <1>0 DEF ContactsTypeOK
<1>3. ContactsTypeOK'
  BY <1>0, Zenon DEF ContactsTypeOK, RestTypeOK, Messages
<1>4. ASSUME NEW q \in Party PROVE AskedFor(contact'[q], requests'[q], requests'[Other(q)])
  <2>1. CASE q = p
    BY <1>0, <1>1, <2>1 DEF ContactsTypeOK
  <2>2. CASE q # p
    <3>1. contact'[q] = contact[q] /\ AskedFor(contact[q], requests[q], requests[Other(q)])
      BY <2>2 DEF ContactsInvariant, ContactsTypeOK
    <3> QED BY <1>2, <3>1, OtherParty DEF AskedFor
  <2> QED BY <2>1, <2>2
<1>5. ASSUME NEW m \in net' PROVE MessageOK(m, requests'[Other(m.to)])
  <2>1. CASE m \in net
    <3>1. m.to \in Party /\ MessageOK(m, requests[Other(m.to)])
      BY <2>1 DEF ContactsInvariant, ContactsTypeOK
    <3> QED BY <1>2, <3>1, OtherParty DEF MessageOK
  <2>2. CASE m \in sent
    BY <1>1, <2>2, OtherParty
  <2> QED BY <2>1, <2>2
<1> QED BY <1>3, <1>4, <1>5, Zenon DEF ContactsInvariant

(* A step of one account that makes no request. *)
LEMMA SilentStep ==
  ASSUME ContactsInvariant, RestTypeOK', NEW p \in Party, NEW d \in Contact, NEW last \in Nat,
         contact' = [contact EXCEPT ![p] = d],
         lastClock' = [lastClock EXCEPT ![p] = last],
         UNCHANGED requests,
         AskedFor(d, requests[p], requests[Other(p)]),
         \A m \in net' \ net : m \in Messages /\ m.to = Other(p) /\ MessageOK(m, requests[p])
  PROVE  ContactsInvariant'
<1> DEFINE sent == net' \ net
<1>1. requests' = [requests EXCEPT ![p] = @ \cup {}]
  BY DEF ContactsInvariant, ContactsTypeOK
<1>2. requests[p] \cup {} = requests[p] /\ {} \in SUBSET Nat
  OBVIOUS
<1>3. sent \in SUBSET Messages /\ net' \subseteq net \cup sent
  OBVIOUS
<1>4. \A m \in sent : m.to = Other(p) /\ MessageOK(m, requests[p] \cup {})
  BY <1>2
<1>5. AskedFor(d, requests[p] \cup {}, requests[Other(p)])
  BY <1>2
<1> HIDE DEF sent
<1> QED BY <1>1, <1>2, <1>3, <1>4, <1>5, AccountStep, Zenon

(* Clocks are numbers, and an operation's later clocks are as well. *)
LEMMA ClockTypes ==
  ASSUME ContactsTypeOK, NEW p \in Party, NEW k \in Nat
  PROVE  NextClock(p) \in Nat /\ NextAfter(k) \in Nat /\ Larger(lastClock[p], k) \in Nat
  BY DEF ContactsTypeOK, NextClock, NextAfter, Larger

(* The start: nobody asked, nothing is under way. *)
LEMMA InitContacts == ContactsInit => ContactsInvariant
<1> SUFFICES ASSUME ContactsInit PROVE ContactsInvariant
  OBVIOUS
<1>1. ContactsTypeOK
  <2>1. NoContact \in Contact
    BY DEF Contact, NoContact
  <2>2. contact \in [Party -> Contact]
    BY <2>1 DEF ContactsInit
  <2>3. /\ blocked \in [Party -> BOOLEAN] /\ request \in [Party -> BOOLEAN]
        /\ withdrawn \in BOOLEAN
    BY Zenon DEF ContactsInit
  <2>4. lastClock \in [Party -> Nat] /\ lastUpdated \in [Party -> Nat]
    BY DEF ContactsInit
  <2>5. {now, operations, duplicates} \subseteq Nat /\ net = {}
    BY DEF ContactsInit
  <2>6. requests \in [Party -> SUBSET Nat]
    BY DEF ContactsInit
  <2> QED BY <2>2, <2>3, <2>4, <2>5, <2>6 DEF ContactsTypeOK
<1>2. \A p \in Party : AskedFor(contact[p], requests[p], requests[Other(p)])
  BY Zenon DEF ContactsInit, AskedFor, HasAddedUs, NoContact
<1> QED BY <1>1, <1>2, Zenon DEF ContactsInit, ContactsInvariant

(* The operations keep the invariant. *)
LEMMA OperationSteps ==
  ASSUME ContactsInvariant, NEW p \in Party,
         \/ SendContactRequest(p) \/ AcceptContactRequest(p) \/ DeclineContactRequest(p)
         \/ RemoveContact(p) \/ RetractContact(p) \/ BlockContact(p) \/ UnblockContact(p)
         \/ SendChatMessage(p) \/ SendContactUpdate(p)
  PROVE  ContactsInvariant'
<1> DEFINE clock == NextClock(p)
           c == contact[p]
           others == requests[Other(p)]
<1>1. /\ ContactsTypeOK /\ c \in Contact /\ clock \in Nat /\ NextAfter(0) \in Nat
      /\ Other(p) \in Party /\ Other(p) # p /\ Other(Other(p)) = p
      /\ AskedFor(c, requests[p], others)
      /\ p \in Party /\ clock + 1 \in Nat /\ clock + 2 \in Nat /\ clock + 3 \in Nat
  <2>1. ContactsTypeOK /\ AskedFor(c, requests[p], others)
    BY DEF ContactsInvariant
  <2>2. clock \in Nat /\ NextAfter(0) \in Nat
    BY <2>1, ClockTypes
  <2>3. c \in Contact
    BY <2>1 DEF ContactsTypeOK
  <2> HIDE DEF clock
  <2>4. clock + 1 \in Nat /\ clock + 2 \in Nat /\ clock + 3 \in Nat
    BY <2>2
  <2> QED BY <2>1, <2>2, <2>3, <2>4, OtherParty
<1>2. /\ NoContact \in Contact /\ NoContact.local # "Sent"
      /\ DismissContactRequest(c, clock) \in Contact /\ RetractContactRequest(c, clock) \in Contact
      /\ ContactRequestSent(c, clock) \in Contact
      /\ ContactRequestSent(ContactRequestSent(c, clock), clock + 1) \in Contact
  BY <1>1, RecordTypes DEF NoContact
<1>3. /\ AskedFor(DismissContactRequest(c, clock), requests[p], others)
      /\ AskedFor(RetractContactRequest(c, clock), requests[p], others)
  BY <1>1, MethodsAsk
<1> HIDE DEF clock, c, others
<1>4. CASE SendContactRequest(p)
  <2> DEFINE d == ContactRequestSent(c, clock)
             asked == {clock, clock + 3}
             msg == Message(p, "request", clock + 3, d, 0)
  <2>1. AskedFor(c, requests[p] \cup asked, others)
    BY <1>1 DEF AskedFor
  <2>2. AskedFor(d, requests[p] \cup asked, others)
    BY <1>1, <2>1, MethodsAsk
  <2>3. d \in Contact
    BY <1>2
  <2> HIDE DEF d
  <2>4. msg \in Messages /\ msg.to = Other(p) /\ MessageOK(msg, requests[p] \cup asked)
    BY <1>1, <2>2, <2>3 DEF Message, Messages, Kind, MessageOK, AskedFor
  <2>5. /\ contact' = [contact EXCEPT ![p] = d]
        /\ lastClock' = [lastClock EXCEPT ![p] = clock + 3]
        /\ requests' = [requests EXCEPT ![p] = @ \cup asked]
        /\ net' = net \cup {msg}
    BY <1>4 DEF SendContactRequest, Store, Clocks, Asks, d, c, clock
  <2>6. RestTypeOK'
    BY <1>1, <1>4 DEF SendContactRequest, Performs, RestTypeOK, ContactsTypeOK
  <2>7. asked \in SUBSET Nat /\ {msg} \in SUBSET Messages
    BY <1>1, <2>4
  <2>8. \A m \in {msg} : m.to = Other(p) /\ MessageOK(m, requests[p] \cup asked)
    BY <2>4
  <2> HIDE DEF msg, asked
  <2> QED BY <1>1, <2>2, <2>3, <2>5, <2>6, <2>7, <2>8, AccountStep, Zenon DEF others
<1>5. CASE AcceptContactRequest(p)
  <2> DEFINE d == ContactRequestSent(ContactRequestSent(c, clock), clock + 1)
             asked == {clock, clock + 1}
             msg == Message(p, "accept", clock + 1, NoContact, 0)
  <2>1. AskedFor(c, requests[p] \cup asked, others)
    BY <1>1 DEF AskedFor
  <2>2. AskedFor(ContactRequestSent(c, clock), requests[p] \cup asked, others)
    BY <1>1, <2>1, MethodsAsk
  <2>3. AskedFor(d, requests[p] \cup asked, others)
    BY <1>1, <1>2, <2>2, MethodsAsk
  <2>4. d \in Contact
    BY <1>2
  <2> HIDE DEF d
  <2>5. msg \in Messages /\ msg.to = Other(p) /\ MessageOK(msg, requests[p] \cup asked)
    BY <1>1, <1>2 DEF Message, Messages, Kind, MessageOK
  <2>6. /\ contact' = [contact EXCEPT ![p] = d]
        /\ lastClock' = [lastClock EXCEPT ![p] = clock + 2]
        /\ requests' = [requests EXCEPT ![p] = @ \cup asked]
        /\ net' = net \cup {msg}
    BY <1>5 DEF AcceptContactRequest, Store, Clocks, Asks, d, c, clock
  <2>7. RestTypeOK'
    BY <1>1, <1>5 DEF AcceptContactRequest, Performs, RestTypeOK, ContactsTypeOK
  <2>8. asked \in SUBSET Nat /\ {msg} \in SUBSET Messages
    BY <1>1, <2>5
  <2>9. \A m \in {msg} : m.to = Other(p) /\ MessageOK(m, requests[p] \cup asked)
    BY <2>5
  <2> HIDE DEF msg, asked
  <2> QED BY <1>1, <2>3, <2>4, <2>6, <2>7, <2>8, <2>9, AccountStep, Zenon DEF others
<1>6. CASE DeclineContactRequest(p)
  <2>1. /\ contact' = [contact EXCEPT ![p] = DismissContactRequest(c, clock)]
        /\ lastClock' = [lastClock EXCEPT ![p] = clock]
        /\ UNCHANGED <<requests, net>>
    BY <1>6 DEF DeclineContactRequest, Store, Clocks, c, clock
  <2>2. RestTypeOK'
    BY <1>1, <1>6 DEF DeclineContactRequest, Performs, RestTypeOK, ContactsTypeOK
  <2> QED BY <1>1, <1>2, <1>3, <2>1, <2>2, SilentStep, Zenon DEF others
<1>7. CASE RemoveContact(p)
  <2>1. /\ contact' = [contact EXCEPT ![p] = RetractContactRequest(c, clock)]
        /\ lastClock' = [lastClock EXCEPT ![p] = clock]
        /\ UNCHANGED <<requests, net>>
    BY <1>7 DEF RemoveContact, Store, Clocks, c, clock
  <2>2. RestTypeOK'
    BY <1>1, <1>7 DEF RemoveContact, Performs, RestTypeOK, ContactsTypeOK
  <2> QED BY <1>1, <1>2, <1>3, <2>1, <2>2, SilentStep, Zenon DEF others
<1>8. CASE RetractContact(p)
  <2> DEFINE msg == Message(p, "retract", clock + 1, NoContact, 0)
  <2>1. /\ contact' = [contact EXCEPT ![p] = RetractContactRequest(c, clock)]
        /\ lastClock' = [lastClock EXCEPT ![p] = clock + 1]
        /\ net' = net \cup {msg} /\ UNCHANGED requests
    BY <1>8 DEF RetractContact, Store, Clocks, c, clock
  <2>2. RestTypeOK'
    BY <1>1, <1>8 DEF RetractContact, Performs, RestTypeOK, ContactsTypeOK
  <2>3. msg \in Messages /\ msg.to = Other(p) /\ MessageOK(msg, requests[p])
    BY <1>1, <1>2 DEF Message, Messages, Kind, MessageOK
  <2> HIDE DEF msg
  <2> QED BY <1>1, <1>2, <1>3, <2>1, <2>2, <2>3, SilentStep, Zenon DEF others
<1>9. CASE BlockContact(p)
  <2> DEFINE msg == Message(p, "retract", NextAfter(0), NoContact, 0)
  <2>1. /\ contact' = [contact EXCEPT ![p] = DismissContactRequest(c, clock)]
        /\ UNCHANGED requests
    BY <1>9 DEF BlockContact, Store, c, clock
  <2>2. RestTypeOK'
    BY <1>1, <1>9 DEF BlockContact, Performs, RestTypeOK, ContactsTypeOK
  <2>3. msg \in Messages /\ msg.to = Other(p) /\ MessageOK(msg, requests[p])
    BY <1>1, <1>2 DEF Message, Messages, Kind, MessageOK
  <2>4. CASE Added(c)
    <3>1. lastClock' = [lastClock EXCEPT ![p] = NextAfter(0)] /\ net' = net \cup {msg}
      BY <1>9, <2>4 DEF BlockContact, Clocks, c
    <3> HIDE DEF msg
    <3> QED BY <1>1, <1>2, <1>3, <2>1, <2>2, <2>3, <3>1, SilentStep, Zenon DEF others
  <2>5. CASE ~Added(c)
    <3>1. lastClock' = [lastClock EXCEPT ![p] = 0] /\ UNCHANGED net
      BY <1>9, <2>5 DEF BlockContact, Clocks, c
    <3> QED BY <1>1, <1>2, <1>3, <2>1, <2>2, <3>1, SilentStep, Zenon DEF others
  <2> QED BY <2>4, <2>5
<1>10. CASE UnblockContact(p)
  <2>1. /\ contact' = [contact EXCEPT ![p] = RetractContactRequest(c, clock)]
        /\ lastClock' = [lastClock EXCEPT ![p] = clock]
        /\ UNCHANGED <<requests, net>>
    BY <1>10 DEF UnblockContact, Store, Clocks, c, clock
  <2>2. RestTypeOK'
    BY <1>1, <1>10 DEF UnblockContact, Performs, RestTypeOK, ContactsTypeOK
  <2> QED BY <1>1, <1>2, <1>3, <2>1, <2>2, SilentStep, Zenon DEF others
<1>11. CASE SendChatMessage(p)
  <2> DEFINE msg == Message(p, "chat", clock, c, 0)
  <2>1. /\ UNCHANGED <<contact, requests>>
        /\ lastClock' = [lastClock EXCEPT ![p] = clock] /\ net' = net \cup {msg}
    BY <1>11 DEF SendChatMessage, Clocks, Added, c, clock
  <2>2. RestTypeOK'
    BY <1>1, <1>11 DEF SendChatMessage, Performs, RestTypeOK, ContactsTypeOK
  <2>3. msg \in Messages /\ msg.to = Other(p) /\ MessageOK(msg, requests[p])
    BY <1>1, <2>1 DEF Message, Messages, Kind, MessageOK, AskedFor
  <2>4. contact' = [contact EXCEPT ![p] = c]
    BY <1>1, <2>1 DEF ContactsTypeOK, c
  <2> HIDE DEF msg
  <2> QED BY <1>1, <2>1, <2>2, <2>3, <2>4, SilentStep, Zenon DEF others
<1>12. CASE SendContactUpdate(p)
  <2> DEFINE msg == Message(p, "update", clock, c, 0)
  <2>1. /\ UNCHANGED <<contact, requests>>
        /\ lastClock' = [lastClock EXCEPT ![p] = clock] /\ net' = net \cup {msg} /\ c.local = "Sent"
    BY <1>12 DEF SendContactUpdate, Clocks, Added, c, clock
  <2>2. RestTypeOK'
    BY <1>1, <1>12 DEF SendContactUpdate, Performs, RestTypeOK, ContactsTypeOK
  <2>3. msg \in Messages /\ msg.to = Other(p) /\ MessageOK(msg, requests[p])
    BY <1>1, <2>1 DEF Message, Messages, Kind, MessageOK, AskedFor
  <2>4. contact' = [contact EXCEPT ![p] = c]
    BY <1>1, <2>1 DEF ContactsTypeOK, c
  <2> HIDE DEF msg
  <2> QED BY <1>1, <2>1, <2>2, <2>3, <2>4, SilentStep, Zenon DEF others
<1> QED BY <1>4, <1>5, <1>6, <1>7, <1>8, <1>9, <1>10, <1>11, <1>12

(* A handled message brings in nothing but the answers to it. *)
LEMMA UnderTypes ==
  ASSUME ContactsTypeOK, NEW m, NEW sent, NEW stored, Under(m, sent, stored)
  PROVE  net' \subseteq net \cup sent /\ duplicates' \in Nat
  BY DEF Under, ContactsTypeOK

(* The update sent back goes to who is added, and tells the truth. *)
LEMMA SentBackOK ==
  ASSUME ContactsInvariant, NEW m \in net, NEW d \in Contact, NEW k \in Nat,
         AskedFor(d, requests[m.to], requests[Other(m.to)]),
         NEW b \in SentBack(m.to, d, m, k)
  PROVE  b \in Messages /\ b.to = Other(m.to) /\ MessageOK(b, requests[m.to])
<1>1. m.to \in Party /\ m.hops + 1 \in Nat /\ Other(m.to) \in Party
  BY OtherParty DEF ContactsInvariant, ContactsTypeOK
<1>2. d.local = "Sent" /\ b = Message(m.to, "update", k, d, m.hops + 1)
  BY DEF SentBack, Added
<1> QED BY <1>1, <1>2 DEF Message, Messages, Kind, MessageOK, AskedFor

(* The handlers keep the invariant. *)
LEMMA HandlerSteps ==
  ASSUME ContactsInvariant, NEW m \in net,
         \/ HandleChatMessage(m) \/ HandleContactUpdate(m)
         \/ HandleAcceptContactRequest(m) \/ HandleRetractContactRequest(m)
         \/ DropMessage(m)
  PROVE  ContactsInvariant'
<1> DEFINE p == m.to
           c == contact[p]
           others == requests[Other(p)]
           d == ContactRequestPropagatedStateReceived(c, m.state)
<1>1. /\ ContactsTypeOK /\ p \in Party /\ c \in Contact /\ m.state \in Contact
      /\ m.clock \in Nat /\ m.state.localClock \in Nat /\ lastClock[p] \in Nat
      /\ AskedFor(c, requests[p], others) /\ MessageOK(m, others)
  BY DEF ContactsInvariant, ContactsTypeOK, Contact
<1>2. d \in Contact /\ AskedFor(d, requests[p], others)
  BY <1>1, PropagatedType, PropagatedAsks DEF MessageOK
<1>3. /\ NextClock(p) \in Nat
      /\ \A k \in Nat : NextAfter(k) \in Nat /\ Larger(lastClock[p], k) \in Nat
  BY <1>1, ClockTypes
<1>4. \A j, k \in Nat : Larger(j, k) \in Nat
  BY DEF Larger
<1> HIDE DEF c, others, d
<1>5. CASE HandleChatMessage(m)
  <2> DEFINE last == Larger(lastClock[p], m.clock)
             back == SentBack(p, d, m, NextAfter(last))
  <2>1. last \in Nat /\ NextAfter(last) \in Nat
    BY <1>1, <1>3
  <2>2. \A b \in back : b \in Messages /\ b.to = Other(p) /\ MessageOK(b, requests[p])
    BY <1>2, <2>1, SentBackOK DEF others
  <2>3. /\ net' \subseteq net \cup back /\ duplicates' \in Nat
        /\ UNCHANGED <<blocked, lastUpdated, now, operations, requests, withdrawn>>
    BY <1>1, <1>5, UnderTypes, Zenon DEF HandleChatMessage, c, d
  <2>4. request' \in [Party -> BOOLEAN]
    BY <1>1, <1>5 DEF HandleChatMessage, ContactsTypeOK
  <2>5. RestTypeOK'
    BY <1>1, <2>3, <2>4 DEF RestTypeOK, ContactsTypeOK
  <2> HIDE DEF last, back
  <2>6. PICK k \in Nat : lastClock' = [lastClock EXCEPT ![p] = k]
    BY <1>5, <2>1, Zenon DEF HandleChatMessage, Clocks, last
  <2>7. PICK e \in {d, ContactRequestReceived(d, m.clock)} :
          contact' = [contact EXCEPT ![p] = e] /\ (e = d \/ m.kind = "request")
    BY <1>5, Zenon DEF HandleChatMessage, Store, c, d
  <2>8. e \in Contact /\ AskedFor(e, requests[p], others)
    <3>1. ContactRequestReceived(d, m.clock) \in Contact
      BY <1>1, <1>2, RecordTypes
    <3>2. m.kind = "request" => AskedFor(ContactRequestReceived(d, m.clock), requests[p], others)
      BY <1>1, <1>2, MethodsAsk DEF MessageOK
    <3> QED BY <1>2, <2>7, <3>1, <3>2
  <2> QED BY <1>1, <2>2, <2>3, <2>5, <2>6, <2>7, <2>8, SilentStep, Zenon DEF others
<1>6. CASE HandleContactUpdate(m)
  <2> DEFINE back == SentBack(p, d, m, NextClock(p))
  <2>1. \A b \in back : b \in Messages /\ b.to = Other(p) /\ MessageOK(b, requests[p])
    BY <1>2, <1>3, SentBackOK, Zenon DEF others
  <2>2. /\ net' \subseteq net \cup back /\ duplicates' \in Nat
        /\ UNCHANGED <<blocked, now, operations, requests, withdrawn>>
    BY <1>1, <1>6, UnderTypes, Zenon DEF HandleContactUpdate, c, d
  <2>3. request' \in [Party -> BOOLEAN]
    BY <1>1, <1>6 DEF HandleContactUpdate, ContactsTypeOK
  <2>4. lastUpdated' \in [Party -> Nat]
    BY <1>1, <1>4, <1>6 DEF HandleContactUpdate, ContactsTypeOK
  <2>5. RestTypeOK'
    BY <1>1, <2>2, <2>3, <2>4 DEF RestTypeOK, ContactsTypeOK
  <2> HIDE DEF back
  <2>6. PICK k \in Nat : lastClock' = [lastClock EXCEPT ![p] = k]
    BY <1>1, <1>3, <1>4, <1>6, Zenon DEF HandleContactUpdate, Clocks
  <2>7. PICK e \in {d, ContactRequestReceived(d, m.state.localClock)} :
          contact' = [contact EXCEPT ![p] = e]
    BY <1>6, Zenon DEF HandleContactUpdate, Store, c, d
  <2>8. m.state.localClock \in others
    BY <1>1, <1>6, Zenon DEF HandleContactUpdate, MessageOK
  <2>9. e \in Contact /\ AskedFor(e, requests[p], others)
    <3>1. ContactRequestReceived(d, m.state.localClock) \in Contact
      BY <1>1, <1>2, RecordTypes, Zenon
    <3>2. AskedFor(ContactRequestReceived(d, m.state.localClock), requests[p], others)
      BY <1>1, <1>2, <2>8, MethodsAsk
    <3> QED BY <1>2, <2>7, <3>1, <3>2
  <2> QED BY <1>1, <2>1, <2>2, <2>5, <2>6, <2>7, <2>9, SilentStep, Zenon DEF others
<1>7. CASE HandleAcceptContactRequest(m)
  <2>1. /\ net' \subseteq net /\ duplicates' \in Nat
        /\ UNCHANGED <<blocked, request, lastUpdated, now, operations, requests, withdrawn>>
    BY <1>1, <1>7 DEF HandleAcceptContactRequest, Under, ContactsTypeOK
  <2>2. RestTypeOK'
    BY <1>1, <2>1 DEF RestTypeOK, ContactsTypeOK
  <2>3. PICK k \in Nat : lastClock' = [lastClock EXCEPT ![p] = k]
    <3>1. lastClock = [lastClock EXCEPT ![p] = lastClock[p]]
      BY <1>1 DEF ContactsTypeOK
    <3>2. Larger(NextClock(p), m.clock) \in Nat /\ NextAfter(Larger(NextClock(p), m.clock)) \in Nat
      BY <1>1, <1>3, <1>4
    <3> QED BY <1>1, <1>7, <3>1, <3>2 DEF HandleAcceptContactRequest, Clocks
  <2>4. contact' = [contact EXCEPT ![p] = ContactRequestReceived(c, m.clock)]
    BY <1>7 DEF HandleAcceptContactRequest, Store, c
  <2>5. /\ ContactRequestReceived(c, m.clock) \in Contact
        /\ AskedFor(ContactRequestReceived(c, m.clock), requests[p], others)
    BY <1>1, <1>7, RecordTypes, MethodsAsk, Zenon DEF HandleAcceptContactRequest, MessageOK
  <2> QED BY <1>1, <2>1, <2>2, <2>3, <2>4, <2>5, SilentStep, Zenon DEF others
<1>8. CASE HandleRetractContactRequest(m)
  <2>1. /\ net' \subseteq net /\ duplicates' \in Nat
        /\ UNCHANGED <<blocked, request, lastUpdated, now, operations, requests, withdrawn>>
    BY <1>1, <1>8 DEF HandleRetractContactRequest, Under, ContactsTypeOK
  <2>2. RestTypeOK'
    BY <1>1, <2>1 DEF RestTypeOK, ContactsTypeOK
  <2>3. PICK k \in Nat : lastClock' = [lastClock EXCEPT ![p] = k]
    BY <1>1, <1>3, <1>8, Zenon DEF HandleRetractContactRequest, Clocks
  <2>4. contact' = [contact EXCEPT ![p] = ContactRequestRetracted(c, m.clock)]
    BY <1>8, Zenon DEF HandleRetractContactRequest, Store, c
  <2>5. /\ ContactRequestRetracted(c, m.clock) \in Contact
        /\ AskedFor(ContactRequestRetracted(c, m.clock), requests[p], others)
    BY <1>1, RecordTypes, MethodsAsk
  <2> QED BY <1>1, <2>1, <2>2, <2>3, <2>4, <2>5, SilentStep, Zenon DEF others
<1>9. CASE DropMessage(m)
  BY <1>1, <1>9 DEF DropMessage, accountVars, ContactsInvariant, ContactsTypeOK
<1> QED BY <1>5, <1>6, <1>7, <1>8, <1>9

(* Every step keeps the invariant. *)
LEMMA ContactsStep == ContactsInvariant /\ [ContactsNext]_contactVars => ContactsInvariant'
<1> SUFFICES ASSUME ContactsInvariant, [ContactsNext]_contactVars PROVE ContactsInvariant'
  OBVIOUS
<1>1. CASE UNCHANGED contactVars
  BY <1>1 DEF contactVars, accountVars, ContactsInvariant, ContactsTypeOK
<1>2. CASE Tick
  BY <1>2 DEF Tick, accountVars, ContactsInvariant, ContactsTypeOK
<1> QED BY <1>1, <1>2, OperationSteps, HandlerSteps DEF ContactsNext

(* What the invariant is for: a record's requests were made, and once the  *)
(* record of an update is taken over its request clock brings no news.     *)
LEMMA InvariantImplies == ContactsInvariant => ReceivedWasSent /\ UpdateAnnouncesRequest
<1> SUFFICES ASSUME ContactsInvariant PROVE ReceivedWasSent /\ UpdateAnnouncesRequest
  OBVIOUS
<1>1. ReceivedWasSent
  BY DEF ContactsInvariant, ReceivedWasSent, AskedFor
<1>2. ASSUME NEW m \in net, m.kind = "update",
             ContactRequestPropagatedStateReceived(contact[m.to], m.state).remote = "None"
      PROVE  m.state.localClock <= ContactRequestPropagatedStateReceived(contact[m.to], m.state).remoteClock
  <2> DEFINE d == ImplicitRetraction(contact[m.to], m.state)
  <2>1. m.state \in Contact /\ contact[m.to] \in Contact /\ m.state.local = "Sent"
    BY <1>2 DEF ContactsInvariant, ContactsTypeOK, MessageOK
  <2>2. m.state.localClock \in Nat /\ d \in Contact
    BY <2>1, RecordTypes, Zenon DEF Contact
  <2>3. ContactRequestPropagatedStateReceived(contact[m.to], m.state)
          = ContactRequestReceived(d, m.state.localClock)
    BY <2>1 DEF ContactRequestPropagatedStateReceived
  <2> HIDE DEF d
  <2> QED BY <1>2, <2>2, <2>3 DEF ContactRequestReceived, Contact
<1> QED BY <1>1, <1>2 DEF UpdateAnnouncesRequest

(* contacts.Contact never takes itself for added by somebody who did not   *)
(* ask, in whatever order messages and duplicates come in.                 *)
THEOREM ReceivedCorrect == ContactsSpec => []ReceivedWasSent
<1>1. ContactsInit => ContactsInvariant
  BY InitContacts
<1>2. ContactsInvariant /\ [ContactsNext]_contactVars => ContactsInvariant'
  BY ContactsStep
<1>3. ContactsInvariant => ReceivedWasSent
  BY InvariantImplies
<1> QED BY <1>1, <1>2, <1>3, PTL DEF ContactsSpec

(* HandleContactUpdate never gets to the notification for a nil message.   *)
THEOREM UpdatesCorrect == ContactsSpec => []UpdateAnnouncesRequest
<1>1. ContactsInit => ContactsInvariant
  BY InitContacts
<1>2. ContactsInvariant /\ [ContactsNext]_contactVars => ContactsInvariant'
  BY ContactsStep
<1>3. ContactsInvariant => UpdateAnnouncesRequest
  BY InvariantImplies
<1> QED BY <1>1, <1>2, <1>3, PTL DEF ContactsSpec
-----------------------------------------------------------------------------
(* The ping-pong of contact updates.  Whoever answers has a newer state of *)
(* its own than the message knows of, and the answer takes that lead away: *)
(* only an operation of a user gives it back, so each hop is paid for by   *)
(* an operation of its own.                                                *)

(* Messages whose record the handlers may answer with an update. *)
Carries(m) == m.kind \in {"request", "chat", "update"}

(* The sender, whose record is c now, has asked again since it sent s. *)
SenderAhead(c, s) == Added(c) /\ (s.local = "Dismissed" \/ s.localClock < c.localClock)

(* The recipient, whose record is c, has asked since what s knows of. *)
RecipientAhead(c, s) == Added(c) /\ s.remoteClock < c.localClock

HopsPaid(m) ==
  LET sender == SenderAhead(contact[Other(m.to)], m.state)
      recipient == RecipientAhead(contact[m.to], m.state)
  IN
  /\ m.hops < operations
  /\ sender \/ recipient => m.hops + 1 < operations
  /\ sender /\ recipient => m.hops + 2 < operations

HopsInvariant ==
  /\ \A p \in Party : Added(contact[p]) => operations > 0
  /\ \A m \in net : (Carries(m) => HopsPaid(m)) /\ (~Carries(m) => m.hops = 0)

(* No message of the other side makes an own request newer. *)
LEMMA HandlersKeepLocal ==
  ASSUME NEW c \in Contact, NEW s \in Contact, NEW k \in Nat
  PROVE  /\ ContactRequestReceived(c, k).local = c.local
         /\ ContactRequestReceived(c, k).localClock = c.localClock
         /\ Added(ContactRequestRetracted(c, k))
              => Added(c) /\ ContactRequestRetracted(c, k).localClock = c.localClock
         /\ Added(ImplicitRetraction(c, s))
              => Added(c) /\ ImplicitRetraction(c, s).localClock = c.localClock
  BY DEF Contact, Added, ContactRequestReceived, ContactRequestRetracted, ImplicitRetraction

(* The record of the other side is taken over, unless it dismissed us. *)
LEMMA PropagatedCatchesUp ==
  ASSUME NEW c \in Contact, NEW s \in Contact
  PROVE  LET d == ContactRequestPropagatedStateReceived(c, s) IN
         /\ Added(d) => Added(c) /\ d.localClock = c.localClock
         /\ s.local # "Dismissed" => s.localClock <= d.remoteClock
<1> DEFINE i == ImplicitRetraction(c, s)
<1>1. i \in Contact /\ s.localClock \in Nat /\ s.local \in {"None", "Sent", "Dismissed"}
  BY RecordTypes DEF Contact
<1>2. Added(i) => Added(c) /\ i.localClock = c.localClock
  BY HandlersKeepLocal, <1>1
<1> HIDE DEF i
<1>3. CASE s.local = "Sent"
  <2>1. ContactRequestPropagatedStateReceived(c, s) = ContactRequestReceived(i, s.localClock)
    BY <1>3 DEF ContactRequestPropagatedStateReceived, i
  <2>2. s.localClock <= ContactRequestReceived(i, s.localClock).remoteClock
    BY <1>1 DEF ContactRequestReceived, Contact
  <2>3. /\ ContactRequestReceived(i, s.localClock).local = i.local
        /\ ContactRequestReceived(i, s.localClock).localClock = i.localClock
    BY <1>1, HandlersKeepLocal
  <2> QED BY <1>2, <2>1, <2>2, <2>3 DEF Added
<1>4. CASE s.local = "None"
  <2>1. ContactRequestPropagatedStateReceived(c, s) = ContactRequestRetracted(i, s.localClock)
    BY <1>4 DEF ContactRequestPropagatedStateReceived, i
  <2>2. s.localClock <= ContactRequestRetracted(i, s.localClock).remoteClock
    BY <1>1 DEF ContactRequestRetracted, Contact
  <2>3. Added(ContactRequestRetracted(i, s.localClock))
          => Added(i) /\ ContactRequestRetracted(i, s.localClock).localClock = i.localClock
    BY <1>1, HandlersKeepLocal
  <2> QED BY <1>2, <2>1, <2>2, <2>3
<1>5. CASE s.local = "Dismissed"
  <2>1. ContactRequestPropagatedStateReceived(c, s) = i
    BY <1>5 DEF ContactRequestPropagatedStateReceived, i
  <2> QED BY <1>2, <1>5, <2>1
<1> QED BY <1>1, <1>3, <1>4, <1>5

(* An operation pays for the lead that its account may gain with it. *)
LEMMA HopsOperation ==
  ASSUME ContactsInvariant, HopsInvariant, NEW p \in Party, NEW d \in Contact,
         contact' = [contact EXCEPT ![p] = d],
         operations' = operations + 1,
         \A m \in net' \ net :
           /\ m \in Messages /\ m.to = Other(p) /\ m.hops = 0
           /\ Carries(m) => m.state = d
  PROVE  HopsInvariant'
<1>1. /\ operations \in Nat /\ contact \in [Party -> Contact] /\ net \subseteq Messages
      /\ Other(p) \in Party /\ Other(p) # p /\ Other(Other(p)) = p
  BY OtherParty DEF ContactsInvariant, ContactsTypeOK, Messages
<1>2. contact'[p] = d /\ \A q \in Party : q # p => contact'[q] = contact[q]
  BY <1>1
<1>3. ASSUME NEW m \in net, Carries(m) PROVE HopsPaid(m)'
  <2>1. m.to \in Party /\ Other(m.to) \in Party /\ Other(m.to) # m.to /\ m.hops \in Nat
    BY <1>1, OtherParty DEF Messages
  <2>2. HopsPaid(m)
    BY <1>3 DEF HopsInvariant
  <2>3. contact'[m.to] = contact[m.to] \/ contact'[Other(m.to)] = contact[Other(m.to)]
    BY <1>2, <2>1
  <2> DEFINE x == SenderAhead(contact[Other(m.to)], m.state)
             y == RecipientAhead(contact[m.to], m.state)
             xx == SenderAhead(contact'[Other(m.to)], m.state)
             yy == RecipientAhead(contact'[m.to], m.state)
  <2>4. (xx <=> x) \/ (yy <=> y)
    BY <2>3
  <2>5. /\ m.hops < operations
        /\ x \/ y => m.hops + 1 < operations
        /\ x /\ y => m.hops + 2 < operations
    BY <2>2 DEF HopsPaid
  <2>6. HopsPaid(m)' <=> /\ m.hops < operations'
                         /\ xx \/ yy => m.hops + 1 < operations'
                         /\ xx /\ yy => m.hops + 2 < operations'
    BY DEF HopsPaid
  <2> HIDE DEF x, y, xx, yy
  <2> QED BY <1>1, <2>1, <2>4, <2>5, <2>6
<1>4. ASSUME NEW m \in net' \ net, Carries(m) PROVE HopsPaid(m)'
  <2>1. m.to = Other(p) /\ m.hops = 0 /\ m.state = d
    BY <1>4
  <2>2. ~SenderAhead(contact'[Other(m.to)], m.state)
    BY <1>1, <1>2, <2>1 DEF SenderAhead, Added, Contact
  <2>3. RecipientAhead(contact'[m.to], m.state) => operations > 0
    BY <1>1, <1>2, <2>1 DEF RecipientAhead, HopsInvariant
  <2> QED BY <1>1, <2>1, <2>2, <2>3 DEF HopsPaid
<1>5. \A q \in Party : Added(contact[q])' => operations' > 0
  BY <1>1
<1>6. ASSUME NEW m \in net' PROVE (Carries(m) => HopsPaid(m)') /\ (~Carries(m) => m.hops = 0)
  BY <1>3, <1>4 DEF HopsInvariant
<1> QED BY <1>5, <1>6 DEF HopsInvariant, Carries

(* A handler gives nobody a lead; its answer is paid by the lead that its  *)
(* account had over the message.                                           *)
LEMMA HopsHandler ==
  ASSUME ContactsInvariant, HopsInvariant, NEW p \in Party, NEW d \in Contact,
         contact' = [contact EXCEPT ![p] = d],
         UNCHANGED operations,
         Added(d) => Added(contact[p]) /\ d.localClock = contact[p].localClock,
         \A m \in net' \ net : Carries(m) /\ HopsPaid(m)'
  PROVE  HopsInvariant'
<1>1. /\ operations \in Nat /\ contact \in [Party -> Contact] /\ net \subseteq Messages
  BY DEF ContactsInvariant, ContactsTypeOK, Messages
<1>2. \A q \in Party : Added(contact'[q]) => /\ Added(contact[q])
                                            /\ contact'[q].localClock = contact[q].localClock
  BY <1>1
<1>3. ASSUME NEW m \in net, Carries(m) PROVE HopsPaid(m)'
  <2>1. m.to \in Party /\ Other(m.to) \in Party
    BY <1>1, OtherParty DEF Messages
  <2>2. HopsPaid(m)
    BY <1>3 DEF HopsInvariant
  <2>3. /\ SenderAhead(contact'[Other(m.to)], m.state) => SenderAhead(contact[Other(m.to)], m.state)
        /\ RecipientAhead(contact'[m.to], m.state) => RecipientAhead(contact[m.to], m.state)
    BY <1>2, <2>1 DEF SenderAhead, RecipientAhead
  <2> QED BY <2>2, <2>3 DEF HopsPaid
<1>4. \A q \in Party : Added(contact[q])' => operations' > 0
  BY <1>2 DEF HopsInvariant
<1>5. ASSUME NEW m \in net' PROVE (Carries(m) => HopsPaid(m)') /\ (~Carries(m) => m.hops = 0)
  BY <1>3, Zenon DEF HopsInvariant
<1> QED BY <1>4, <1>5 DEF HopsInvariant, Carries

(* What an operation of account p does to its record and the network. *)
LEMMA OperationShape ==
  ASSUME ContactsInvariant, NEW p \in Party,
         \/ SendContactRequest(p) \/ AcceptContactRequest(p) \/ DeclineContactRequest(p)
         \/ RemoveContact(p) \/ RetractContact(p) \/ BlockContact(p) \/ UnblockContact(p)
         \/ SendChatMessage(p) \/ SendContactUpdate(p)
  PROVE  /\ operations' = operations + 1
         /\ \E d \in Contact :
              /\ contact' = [contact EXCEPT ![p] = d]
              /\ \A m \in net' \ net :
                   /\ m \in Messages /\ m.to = Other(p) /\ m.hops = 0
                   /\ Carries(m) => m.state = d
<1> DEFINE clock == NextClock(p)
           c == contact[p]
           Sends(d, m) == /\ m \in Messages /\ m.to = Other(p) /\ m.hops = 0
                          /\ Carries(m) => m.state = d
           Shape == \E d \in Contact : /\ contact' = [contact EXCEPT ![p] = d]
                                       /\ \A m \in net' \ net : Sends(d, m)
<1>1. /\ ContactsTypeOK /\ c \in Contact /\ clock \in Nat /\ NextAfter(0) \in Nat
      /\ Other(p) \in Party /\ clock + 1 \in Nat /\ clock + 3 \in Nat
      /\ contact = [contact EXCEPT ![p] = c]
  <2>1. ContactsTypeOK
    BY DEF ContactsInvariant
  <2>2. clock \in Nat /\ NextAfter(0) \in Nat
    BY <2>1, ClockTypes
  <2>3. c \in Contact /\ contact = [contact EXCEPT ![p] = c]
    BY <2>1 DEF ContactsTypeOK
  <2> HIDE DEF clock, c
  <2>4. clock + 1 \in Nat /\ clock + 3 \in Nat
    BY <2>2
  <2> QED BY <2>1, <2>2, <2>3, <2>4, OtherParty, Zenon
<1>2. /\ NoContact \in Contact
      /\ DismissContactRequest(c, clock) \in Contact /\ RetractContactRequest(c, clock) \in Contact
      /\ ContactRequestSent(c, clock) \in Contact
      /\ ContactRequestSent(ContactRequestSent(c, clock), clock + 1) \in Contact
  BY <1>1, RecordTypes
<1>3. ASSUME NEW d \in Contact, NEW k \in Nat, NEW kind \in {"request", "chat", "update"}
      PROVE  Sends(d, Message(p, kind, k, d, 0))
  BY <1>1, <1>3 DEF Message, Messages, Kind, Carries
<1>4. ASSUME NEW d \in Contact, NEW k \in Nat, NEW kind \in {"accept", "retract"}
      PROVE  Sends(d, Message(p, kind, k, NoContact, 0))
  BY <1>1, <1>2, <1>4 DEF Message, Messages, Kind, Carries
<1>5. ASSUME NEW d \in Contact, contact' = [contact EXCEPT ![p] = d],
             net' = net \/ \E m : net' = net \cup {m} /\ Sends(d, m)
      PROVE  Shape
  BY <1>5, Zenon
<1> HIDE DEF Sends, Shape
<1>6. ASSUME SendContactRequest(p) PROVE Shape
  BY <1>1, <1>2, <1>3, <1>5, <1>6, Zenon DEF SendContactRequest, Store
<1>7. ASSUME AcceptContactRequest(p) PROVE Shape
  BY <1>1, <1>2, <1>4, <1>5, <1>7, Zenon DEF AcceptContactRequest, Store
<1>8. ASSUME DeclineContactRequest(p) \/ RemoveContact(p) \/ UnblockContact(p) PROVE Shape
  BY <1>2, <1>5, <1>8 DEF DeclineContactRequest, RemoveContact, UnblockContact, Store
<1>9. ASSUME RetractContact(p) \/ BlockContact(p) PROVE Shape
  BY <1>1, <1>2, <1>4, <1>5, <1>9 DEF RetractContact, BlockContact, Store
<1>10. ASSUME SendChatMessage(p) \/ SendContactUpdate(p) PROVE Shape
  BY <1>1, <1>3, <1>5, <1>10 DEF SendChatMessage, SendContactUpdate
<1>11. operations' = operations + 1
  BY Zenon DEF SendContactRequest, AcceptContactRequest, DeclineContactRequest, RemoveContact,
         RetractContact, BlockContact, UnblockContact, SendChatMessage, SendContactUpdate, Performs
<1> QED BY <1>6, <1>7, <1>8, <1>9, <1>10, <1>11 DEF Shape, Sends

(* The answer to m, from account p that stores d. *)
LEMMA AnswerIsPaid ==
  ASSUME ContactsInvariant, HopsInvariant, NEW m \in net, Carries(m), NEW p \in Party, m.to = p,
         NEW d \in Contact, NEW k \in Nat,
         contact' = [contact EXCEPT ![p] = d], UNCHANGED operations,
         d.localClock = ContactRequestPropagatedStateReceived(contact[p], m.state).localClock,
         NEW a \in SentBack(p, ContactRequestPropagatedStateReceived(contact[p], m.state), m, k)
  PROVE  Carries(a) /\ HopsPaid(a)'
<1> DEFINE c == ContactRequestPropagatedStateReceived(contact[p], m.state)
<1>1. /\ operations \in Nat /\ contact \in [Party -> Contact] /\ m.state \in Contact
      /\ m.hops \in Nat /\ contact[p] \in Contact
      /\ Other(p) \in Party /\ Other(p) # p /\ Other(Other(p)) = p
  BY OtherParty, Zenon DEF ContactsInvariant, ContactsTypeOK
<1>2. /\ c \in Contact
      /\ Added(c) => Added(contact[p]) /\ c.localClock = contact[p].localClock
      /\ m.state.local # "Dismissed" => m.state.localClock <= c.remoteClock
  BY <1>1, PropagatedType, PropagatedCatchesUp, Zenon
<1> HIDE DEF c
<1>3. /\ a = Message(p, "update", k, c, m.hops + 1) /\ Added(c)
      /\ SendBackState(contact[p], m.state)
  BY Zenon DEF SentBack, c
<1>4. /\ a.to = Other(p) /\ a.kind = "update" /\ a.state = c /\ a.hops = m.hops + 1
  BY <1>3, Zenon DEF Message
<1>5. RecipientAhead(contact[p], m.state)
  BY <1>2, <1>3 DEF SendBackState, RecipientAhead
<1>6. contact'[p] = d /\ contact'[Other(p)] = contact[Other(p)]
  BY <1>1
<1>7. ~SenderAhead(contact'[Other(a.to)], a.state)
  <2>1. d.localClock = c.localClock /\ c.localClock \in Nat
    BY <1>2 DEF c, Contact
  <2> QED BY <1>1, <1>3, <1>4, <1>6, <2>1 DEF SenderAhead, Added
<1>8. RecipientAhead(contact'[a.to], a.state) => SenderAhead(contact[Other(p)], m.state)
  <2>1. contact[Other(p)].localClock \in Nat /\ m.state.localClock \in Nat /\ c.remoteClock \in Nat
    BY <1>1, <1>2 DEF Contact
  <2> QED BY <1>2, <1>4, <1>6, <2>1 DEF RecipientAhead, SenderAhead
<1>9. HopsPaid(m)
  BY DEF HopsInvariant
<1>10. /\ m.hops + 1 < operations
       /\ SenderAhead(contact[Other(p)], m.state) => m.hops + 2 < operations
  BY <1>5, <1>9 DEF HopsPaid
<1>11. /\ a.hops < operations'
       /\ RecipientAhead(contact'[a.to], a.state) => a.hops + 1 < operations'
  BY <1>1, <1>4, <1>8, <1>10
<1>12. HopsPaid(a)'
  BY <1>7, <1>11 DEF HopsPaid
<1> QED BY <1>4, <1>12 DEF Carries

(* The handlers. *)
LEMMA HopsHandlers ==
  ASSUME ContactsInvariant, HopsInvariant, NEW m \in net,
         \/ HandleChatMessage(m) \/ HandleContactUpdate(m)
         \/ HandleAcceptContactRequest(m) \/ HandleRetractContactRequest(m)
         \/ DropMessage(m)
  PROVE  HopsInvariant'
<1> DEFINE p == m.to
           own == contact[p]
           c == ContactRequestPropagatedStateReceived(own, m.state)
<1>1. /\ p \in Party /\ own \in Contact /\ m.state \in Contact /\ m.clock \in Nat
      /\ m.state.localClock \in Nat /\ lastClock[p] \in Nat /\ ContactsTypeOK
  <2>1. ContactsTypeOK
    BY DEF ContactsInvariant
  <2>2. p \in Party /\ m.state \in Contact /\ m.clock \in Nat
    BY <2>1 DEF ContactsTypeOK
  <2> HIDE DEF p
  <2> QED BY <2>1, <2>2 DEF ContactsTypeOK, Contact
<1>2. c \in Contact /\ (Added(c) => Added(own) /\ c.localClock = own.localClock)
  BY <1>1, PropagatedType, PropagatedCatchesUp, Zenon
<1>3. ASSUME NEW k \in Nat
      PROVE  LET d == ContactRequestReceived(c, k) IN
             d \in Contact /\ d.local = c.local /\ d.localClock = c.localClock
  BY <1>1, <1>2, RecordTypes, HandlersKeepLocal, Zenon
<1>4. ASSUME NEW last \in Nat PROVE NextAfter(last) \in Nat /\ NextClock(p) \in Nat
  BY <1>1, ClockTypes
<1>5. Larger(lastClock[p], m.clock) \in Nat
  BY <1>1, ClockTypes
<1> HIDE DEF p, own, c
<1>6. ASSUME Carries(m), UNCHANGED operations, NEW k \in Nat,
             \/ contact' = [contact EXCEPT ![p] = c]
             \/ \E r \in Nat : contact' = [contact EXCEPT ![p] = ContactRequestReceived(c, r)],
             Under(m, SentBack(p, c, m, k), TRUE) \/ Under(m, SentBack(p, c, m, k), FALSE)
      PROVE  HopsInvariant'
  <2>1. PICK d \in Contact : /\ contact' = [contact EXCEPT ![p] = d]
                             /\ d.local = c.local /\ d.localClock = c.localClock
    BY <1>2, <1>3, <1>6
  <2>2. Added(d) => Added(own) /\ d.localClock = own.localClock
    BY <1>2, <2>1 DEF Added
  <2>3. \A a \in net' \ net : a \in SentBack(p, c, m, k)
    BY <1>6 DEF Under
  <2>4. \A a \in SentBack(p, c, m, k) : Carries(a) /\ HopsPaid(a)'
    BY <1>1, <1>6, <2>1, AnswerIsPaid, Zenon DEF c, own, p
  <2> QED BY <1>1, <1>6, <2>1, <2>2, <2>3, <2>4, HopsHandler, Zenon DEF own
<1>7. CASE HandleChatMessage(m)
  <2>1. Carries(m) /\ UNCHANGED operations
    BY <1>7, Zenon DEF HandleChatMessage, Carries
  <2>2. /\ \/ contact' = [contact EXCEPT ![p] = c]
           \/ contact' = [contact EXCEPT ![p] = ContactRequestReceived(c, m.clock)]
        /\ \/ Under(m, SentBack(p, c, m, NextAfter(Larger(lastClock[p], m.clock))), TRUE)
           \/ Under(m, SentBack(p, c, m, NextAfter(Larger(lastClock[p], m.clock))), FALSE)
    BY <1>7, Zenon DEF HandleChatMessage, Store, Under, p, own, c
  <2> QED BY <1>1, <1>4, <1>5, <1>6, <2>1, <2>2, Zenon
<1>8. CASE HandleContactUpdate(m)
  <2>1. Carries(m) /\ UNCHANGED operations
    BY <1>8, Zenon DEF HandleContactUpdate, Carries
  <2>2. /\ \/ contact' = [contact EXCEPT ![p] = c]
           \/ contact' = [contact EXCEPT ![p] = ContactRequestReceived(c, m.state.localClock)]
        /\ Under(m, SentBack(p, c, m, NextClock(p)), FALSE)
    BY <1>8, Zenon DEF HandleContactUpdate, Store, p, own, c
  <2> QED BY <1>1, <1>4, <1>6, <2>1, <2>2, Zenon
<1>9. CASE HandleAcceptContactRequest(m)
  <2>1. /\ contact' = [contact EXCEPT ![p] = ContactRequestReceived(own, m.clock)]
        /\ UNCHANGED operations /\ net' \subseteq net
    BY <1>9, Zenon DEF HandleAcceptContactRequest, Store, Under, p, own
  <2>2. LET d == ContactRequestReceived(own, m.clock) IN
        d \in Contact /\ d.local = own.local /\ d.localClock = own.localClock
    BY <1>1, RecordTypes, HandlersKeepLocal, Zenon
  <2> QED BY <1>1, <2>1, <2>2, HopsHandler, Zenon DEF own, Added
<1>10. CASE HandleRetractContactRequest(m)
  <2>1. /\ contact' = [contact EXCEPT ![p] = ContactRequestRetracted(own, m.clock)]
        /\ UNCHANGED operations /\ net' \subseteq net
    BY <1>10 DEF HandleRetractContactRequest, Store, Under, p, own
  <2>2. LET d == ContactRequestRetracted(own, m.clock) IN
        d \in Contact /\ (Added(d) => Added(own) /\ d.localClock = own.localClock)
    BY <1>1, RecordTypes, HandlersKeepLocal
  <2> QED BY <1>1, <2>1, <2>2, HopsHandler, Zenon DEF own
<1>11. CASE DropMessage(m)
  BY <1>11, Zenon DEF DropMessage, accountVars, HopsInvariant, HopsPaid, Carries
<1> QED BY <1>7, <1>8, <1>9, <1>10, <1>11

(* Every step keeps the bound on the hops. *)
LEMMA HopsStep ==
  ContactsInvariant /\ HopsInvariant /\ [ContactsNext]_contactVars => HopsInvariant'
<1> SUFFICES ASSUME ContactsInvariant, HopsInvariant, [ContactsNext]_contactVars
             PROVE  HopsInvariant'
  OBVIOUS
<1>1. CASE Tick \/ UNCHANGED contactVars
  BY <1>1, Zenon DEF Tick, contactVars, accountVars, HopsInvariant, HopsPaid, Carries
<1>2. ASSUME NEW p \in Party,
             \/ SendContactRequest(p) \/ AcceptContactRequest(p) \/ DeclineContactRequest(p)
             \/ RemoveContact(p) \/ RetractContact(p) \/ BlockContact(p) \/ UnblockContact(p)
             \/ SendChatMessage(p) \/ SendContactUpdate(p)
      PROVE  HopsInvariant'
  BY <1>2, OperationShape, HopsOperation
<1> QED BY <1>1, <1>2, HopsHandlers DEF ContactsNext
-----------------------------------------------------------------------------
(* Agreement.  As long as nobody withdraws or refuses, a clock that says   *)
(* nothing is zero, so that no record undoes what another one said; and a  *)
(* request is on its way for as long as the other side does not know it.   *)

(* A record of which nothing was withdrawn or refused. *)
Undisturbed(c) ==
  /\ c.local # "Dismissed"
  /\ c.local = "None" => c.localClock = 0
  /\ c.remote = "None" => c.remoteClock = 0

(* Messages that make their recipient take the sender for who added it. *)
Tells(m) == m.kind \in {"request", "accept"} \/ m.state.local = "Sent"

Peaceful ==
  /\ now > 0
  /\ \A p \in Party :
       /\ ~blocked[p] /\ Undisturbed(contact[p]) /\ 0 \notin requests[p]
       /\ requests[p] # {} => Added(contact[p])
       /\ Added(contact[p]) => \/ HasAddedUs(contact[Other(p)])
                               \/ \E m \in net : m.to = Other(p) /\ Tells(m)
  /\ \A m \in net : m.kind # "retract" /\ Undisturbed(m.state)

PeaceInvariant == ~withdrawn => Peaceful

(* A request received, with a clock that was drawn, is known from then on. *)
LEMMA PeacefulRequest ==
  ASSUME NEW c \in Contact, NEW k \in Nat, k # 0, Undisturbed(c)
  PROVE  LET d == ContactRequestReceived(c, k) IN
         d \in Contact /\ Undisturbed(d) /\ HasAddedUs(d) /\ d.local = c.local
<1>1. ContactRequestReceived(c, k) \in Contact
  BY RecordTypes
<1>2. CASE k <= c.remoteClock
  BY <1>1, <1>2 DEF Contact, Undisturbed, HasAddedUs, ContactRequestReceived
<1>3. CASE ~(k <= c.remoteClock)
  <2> DEFINE d == [c EXCEPT !.remote = "Received", !.remoteClock = k]
  <2>1. /\ d.local = c.local /\ d.localClock = c.localClock
        /\ d.remote = "Received" /\ ContactRequestReceived(c, k) = d
    BY <1>3 DEF Contact, ContactRequestReceived
  <2> QED BY <1>1, <2>1 DEF Undisturbed, HasAddedUs
<1> QED BY <1>2, <1>3

(* A record of the other side brings the news of a request, or nothing. *)
LEMMA PeacefulRecord ==
  ASSUME NEW c \in Contact, NEW s \in Contact, Undisturbed(c), Undisturbed(s)
  PROVE  ContactRequestPropagatedStateReceived(c, s)
           = IF s.local = "Sent" THEN ContactRequestReceived(c, s.localClock) ELSE c
<1>1. ImplicitRetraction(c, s) = c
  BY DEF Contact, Undisturbed, ImplicitRetraction
<1>2. s.local = "None" => ContactRequestRetracted(c, s.localClock) = c
  BY DEF Contact, Undisturbed, ContactRequestRetracted
<1>3. s.local \in {"None", "Sent"}
  BY DEF Contact, Undisturbed
<1> QED BY <1>1, <1>2, <1>3 DEF ContactRequestPropagatedStateReceived

(* A step of one account that withdraws nothing: a request it makes goes   *)
(* with a message that tells of it, and a message that tells of a request  *)
(* is only taken from the network by who knows the request then.           *)
LEMMA PeacefulStep ==
  ASSUME ContactsInvariant, Peaceful, NEW p \in Party, NEW d \in Contact, NEW asked,
         contact' = [contact EXCEPT ![p] = d],
         requests' = [requests EXCEPT ![p] = @ \cup asked],
         UNCHANGED <<blocked, now>>,
         Undisturbed(d), 0 \notin asked, asked # {} => Added(d),
         Added(contact[p]) => Added(d),
         HasAddedUs(contact[p]) => HasAddedUs(d),
         Added(d) /\ ~Added(contact[p]) => \E m \in net' : m.to = Other(p) /\ Tells(m),
         \A m \in net' \ net : m.kind # "retract" /\ Undisturbed(m.state),
         \A m \in net \ net' : m.to = p /\ (Tells(m) => HasAddedUs(d))
  PROVE  Peaceful'
<1>1. /\ contact \in [Party -> Contact] /\ requests \in [Party -> SUBSET Nat]
      /\ Other(p) \in Party /\ Other(p) # p /\ Other(Other(p)) = p
      /\ \A q \in Party : q = p \/ q = Other(p)
  <2>1. \A q \in Party : q = p \/ q = Other(p)
    BY PartyAssumption, OtherParty
  <2> QED BY <2>1, OtherParty DEF ContactsInvariant, ContactsTypeOK
<1>2. /\ contact'[p] = d /\ contact'[Other(p)] = contact[Other(p)]
      /\ requests'[p] = requests[p] \cup asked /\ requests'[Other(p)] = requests[Other(p)]
  BY <1>1
<1>3. now' > 0 /\ \A m \in net' : m.kind # "retract" /\ Undisturbed(m.state)
  BY DEF Peaceful
<1>4. /\ ~blocked'[p] /\ Undisturbed(contact'[p]) /\ 0 \notin requests'[p]
      /\ requests'[p] # {} => Added(contact'[p])
  BY <1>2 DEF Peaceful
<1>5. Added(contact'[p]) => \/ HasAddedUs(contact'[Other(p)])
                            \/ \E m \in net' : m.to = Other(p) /\ Tells(m)
  <2>1. ASSUME NEW m \in net, m.to = Other(p) PROVE m \in net'
    BY <1>1, <2>1
  <2> QED BY <1>2, <2>1 DEF Peaceful
<1>6. /\ ~blocked'[Other(p)] /\ Undisturbed(contact'[Other(p)]) /\ 0 \notin requests'[Other(p)]
      /\ requests'[Other(p)] # {} => Added(contact'[Other(p)])
  BY <1>1, <1>2, Zenon DEF Peaceful
<1>7. Added(contact'[Other(p)]) => \/ HasAddedUs(contact'[p])
                                   \/ \E m \in net' : m.to = p /\ Tells(m)
  BY <1>1, <1>2, Zenon DEF Peaceful
<1>8. ASSUME NEW q \in Party
      PROVE  /\ ~blocked'[q] /\ Undisturbed(contact'[q]) /\ 0 \notin requests'[q]
             /\ requests'[q] # {} => Added(contact'[q])
             /\ Added(contact'[q]) => \/ HasAddedUs(contact'[Other(q)])
                                      \/ \E m \in net' : m.to = Other(q) /\ Tells(m)
  BY <1>1, <1>4, <1>5, <1>6, <1>7, Zenon
<1>9. \A m \in net' : Tells(m)' <=> Tells(m)
  BY DEF Tells
<1> QED BY <1>3, <1>8, <1>9 DEF Peaceful, Undisturbed, Added, HasAddedUs, Tells

(* The operations that neither withdraw nor refuse. *)
LEMMA PeacefulOperations ==
  ASSUME ContactsInvariant, Peaceful, NEW p \in Party,
         \/ SendContactRequest(p) \/ AcceptContactRequest(p)
         \/ SendChatMessage(p) \/ SendContactUpdate(p)
  PROVE  Peaceful'
<1> DEFINE clock == NextClock(p)
           c == contact[p]
<1>1. /\ c \in Contact /\ contact = [contact EXCEPT ![p] = c] /\ Undisturbed(c)
      /\ clock \in Nat /\ clock > 0
      /\ requests = [requests EXCEPT ![p] = @ \cup {}]
  <2>1. now \in Nat /\ now > 0 /\ lastClock[p] \in Nat
    BY DEF ContactsInvariant, ContactsTypeOK, Peaceful
  <2>2. clock \in Nat /\ clock > 0
    BY <2>1 DEF NextClock, NextAfter
  <2> HIDE DEF clock
  <2> QED BY <2>2 DEF ContactsInvariant, ContactsTypeOK, Peaceful
<1>2. ASSUME NEW x \in Contact, NEW k \in Nat, k > 0, Undisturbed(x)
      PROVE  LET d == ContactRequestSent(x, k) IN
             /\ d \in Contact /\ Undisturbed(d) /\ Added(d) /\ d.remote = x.remote
  <2>1. ContactRequestSent(x, k) \in Contact
    BY RecordTypes
  <2>2. CASE k <= x.localClock
    BY <1>2, <2>1, <2>2 DEF Contact, Undisturbed, Added, ContactRequestSent
  <2>3. CASE ~(k <= x.localClock)
    <3>1. LET d == ContactRequestSent(x, k) IN
          d.local = "Sent" /\ d.remote = x.remote /\ d.remoteClock = x.remoteClock
      BY <2>3 DEF Contact, ContactRequestSent
    <3> QED BY <1>2, <2>1, <3>1 DEF Undisturbed, Added
  <2> QED BY <2>2, <2>3
<1> HIDE DEF clock, c
<1>3. CASE SendContactRequest(p)
  <2> DEFINE d == ContactRequestSent(c, clock)
             asked == {clock, clock + 3}
             msg == Message(p, "request", clock + 3, d, 0)
  <2>1. d \in Contact /\ Undisturbed(d) /\ Added(d) /\ d.remote = c.remote
    BY <1>1, <1>2
  <2>2. 0 \notin asked /\ asked # {}
    BY <1>1
  <2> HIDE DEF d
  <2>3. msg.to = Other(p) /\ msg.kind = "request" /\ msg.state = d
    BY DEF Message
  <2>4. /\ contact' = [contact EXCEPT ![p] = d]
        /\ requests' = [requests EXCEPT ![p] = @ \cup asked]
        /\ net' = net \cup {msg} /\ UNCHANGED <<blocked, now>>
    BY <1>3 DEF SendContactRequest, Store, Asks, d, c, clock
  <2> HIDE DEF msg, asked
  <2>5. Tells(msg) /\ (HasAddedUs(c) => HasAddedUs(d))
    BY <2>1, <2>3 DEF Tells, HasAddedUs
  <2> QED BY <2>1, <2>2, <2>3, <2>4, <2>5, PeacefulStep, Zenon DEF c
<1>4. CASE AcceptContactRequest(p)
  <2> DEFINE d == ContactRequestSent(ContactRequestSent(c, clock), clock + 1)
             asked == {clock, clock + 1}
             msg == Message(p, "accept", clock + 1, NoContact, 0)
  <2>1. d \in Contact /\ Undisturbed(d) /\ Added(d) /\ d.remote = c.remote
    BY <1>1, <1>2
  <2>2. 0 \notin asked /\ asked # {}
    BY <1>1
  <2> HIDE DEF d
  <2>3. msg.to = Other(p) /\ msg.kind = "accept" /\ Undisturbed(msg.state)
    BY DEF Message, NoContact, Undisturbed
  <2>4. /\ contact' = [contact EXCEPT ![p] = d]
        /\ requests' = [requests EXCEPT ![p] = @ \cup asked]
        /\ net' = net \cup {msg} /\ UNCHANGED <<blocked, now>>
    BY <1>4 DEF AcceptContactRequest, Store, Asks, d, c, clock
  <2> HIDE DEF msg, asked
  <2>5. Tells(msg) /\ (HasAddedUs(c) => HasAddedUs(d))
    BY <2>1, <2>3, Zenon DEF Tells, HasAddedUs
  <2> QED BY <2>1, <2>2, <2>3, <2>4, <2>5, PeacefulStep, Zenon DEF c
<1>5. CASE SendChatMessage(p) \/ SendContactUpdate(p)
  <2>1. PICK kind \in {"chat", "update"} :
          /\ net' = net \cup {Message(p, kind, clock, c, 0)}
          /\ UNCHANGED <<contact, requests, blocked, now>>
    BY <1>5 DEF SendChatMessage, SendContactUpdate, c, clock
  <2> DEFINE msg == Message(p, kind, clock, c, 0)
  <2>2. msg.kind # "retract" /\ msg.state = c
    BY DEF Message
  <2> HIDE DEF msg
  <2>3. net' = net \cup {msg}
    BY <2>1 DEF msg
  <2> QED BY <1>1, <2>1, <2>2, <2>3, PeacefulStep, Zenon DEF c
<1> QED BY <1>3, <1>4, <1>5

(* The handlers, when there is nothing to retract. *)
LEMMA PeacefulHandlers ==
  ASSUME ContactsInvariant, Peaceful, NEW m \in net,
         \/ HandleChatMessage(m) \/ HandleContactUpdate(m)
         \/ HandleAcceptContactRequest(m) \/ HandleRetractContactRequest(m)
         \/ DropMessage(m)
  PROVE  Peaceful'
<1> DEFINE p == m.to
           own == contact[p]
           s == m.state
           c == ContactRequestPropagatedStateReceived(own, s)
<1>1. /\ p \in Party /\ own \in Contact /\ s \in Contact /\ m.clock \in Nat
      /\ Undisturbed(own) /\ Undisturbed(s) /\ s.localClock \in Nat
      /\ ~blocked[p] /\ m.kind # "retract"
      /\ m.kind \in {"request", "accept"} => m.clock # 0
      /\ s.local = "Sent" => s.localClock # 0
      /\ m.kind = "update" => s.local = "Sent"
      /\ requests = [requests EXCEPT ![p] = @ \cup {}]
  <2>1. ContactsTypeOK /\ MessageOK(m, requests[Other(p)])
    BY Zenon DEF ContactsInvariant
  <2>2. p \in Party /\ m.clock \in Nat /\ s \in Contact
    BY <2>1 DEF ContactsTypeOK
  <2>3. 0 \notin requests[Other(p)]
    BY <2>2, OtherParty, Zenon DEF Peaceful
  <2>4. m.kind # "retract" /\ Undisturbed(s)
    BY DEF Peaceful
  <2> HIDE DEF p, s
  <2>5. s.localClock \in Nat
    BY <2>2 DEF Contact
  <2>6. own \in Contact /\ Undisturbed(own) /\ ~blocked[p]
        /\ requests = [requests EXCEPT ![p] = @ \cup {}]
    BY <2>1, <2>2 DEF ContactsTypeOK, Peaceful
  <2> QED BY <2>1, <2>2, <2>3, <2>4, <2>5, <2>6, Zenon DEF MessageOK, s
<1>2. /\ c \in Contact /\ Undisturbed(c) /\ c.local = own.local
      /\ HasAddedUs(own) \/ s.local = "Sent" => HasAddedUs(c)
  <2>1. c = IF s.local = "Sent" THEN ContactRequestReceived(own, s.localClock) ELSE own
    BY <1>1, PeacefulRecord
  <2> HIDE DEF c, own, s, p
  <2>2. CASE s.local = "Sent"
    BY <1>1, <2>1, <2>2, PeacefulRequest
  <2>3. CASE s.local # "Sent"
    BY <1>1, <2>1, <2>3
  <2> QED BY <2>2, <2>3, Zenon
<1> HIDE DEF p, own, s, c
<1>3. ASSUME NEW k \in Nat, NEW a \in SentBack(p, c, m, k)
      PROVE  a.kind # "retract" /\ Undisturbed(a.state)
  BY <1>2, <1>3 DEF SentBack, Message
<1>4. ASSUME NEW d \in Contact, contact' = [contact EXCEPT ![p] = d], Undisturbed(d),
             d.local = own.local, HasAddedUs(own) => HasAddedUs(d), Tells(m) => HasAddedUs(d),
             UNCHANGED <<requests, blocked, now>>, net \ net' \subseteq {m},
             \A a \in net' \ net : a.kind # "retract" /\ Undisturbed(a.state)
      PROVE  Peaceful'
  BY <1>1, <1>4, PeacefulStep, Zenon DEF own, p, Added
<1>5. CASE HandleChatMessage(m)
  <2> DEFINE k == NextAfter(Larger(lastClock[p], m.clock))
  <2>1. k \in Nat
    BY <1>1, ClockTypes DEF ContactsInvariant
  <2>2. /\ UNCHANGED <<requests, blocked, now>> /\ net \ net' \subseteq {m}
        /\ net' \subseteq net \cup SentBack(p, c, m, k) /\ m.kind \in {"chat", "request"}
    BY <1>5, Zenon DEF HandleChatMessage, Under, p, own, s, c
  <2>3. /\ \/ contact' = [contact EXCEPT ![p] = c] /\ (m.kind = "request" => HasAddedUs(c))
           \/ contact' = [contact EXCEPT ![p] = ContactRequestReceived(c, m.clock)]
              /\ m.kind = "request"
    BY <1>2, <1>5, Zenon DEF HandleChatMessage, Store, Mutual, Undisturbed, p, own, s, c
  <2> HIDE DEF k
  <2>4. \A a \in net' \ net : a.kind # "retract" /\ Undisturbed(a.state)
    BY <1>3, <2>1, <2>2
  <2>5. m.kind = "request" => LET d == ContactRequestReceived(c, m.clock) IN
          d \in Contact /\ Undisturbed(d) /\ HasAddedUs(d) /\ d.local = c.local
    BY <1>1, <1>2, PeacefulRequest
  <2>6. CASE contact' = [contact EXCEPT ![p] = c] /\ (m.kind = "request" => HasAddedUs(c))
    <3>1. Tells(m) => HasAddedUs(c)
      BY <1>2, <2>2, <2>6 DEF Tells, s
    <3> QED BY <1>2, <1>4, <2>2, <2>4, <2>6, <3>1, Zenon
  <2>7. CASE /\ contact' = [contact EXCEPT ![p] = ContactRequestReceived(c, m.clock)]
             /\ m.kind = "request"
    BY <1>2, <1>4, <2>2, <2>4, <2>5, <2>7, Zenon
  <2> QED BY <2>3, <2>6, <2>7, Zenon
<1>6. CASE HandleContactUpdate(m)
  <2> DEFINE k == NextClock(p)
             d == ContactRequestReceived(c, s.localClock)
  <2>1. k \in Nat
    BY <1>1, ClockTypes, Zenon DEF ContactsInvariant
  <2>2. /\ UNCHANGED <<requests, blocked, now>> /\ net \ net' \subseteq {m}
        /\ net' \subseteq net \cup SentBack(p, c, m, k) /\ m.kind = "update"
    BY <1>6, Zenon DEF HandleContactUpdate, Under, p, own, s, c
  <2>3. contact' = [contact EXCEPT ![p] = c] \/ contact' = [contact EXCEPT ![p] = d]
    BY <1>6, Zenon DEF HandleContactUpdate, Store, p, own, s, c
  <2> HIDE DEF k
  <2>4. \A a \in net' \ net : a.kind # "retract" /\ Undisturbed(a.state)
    BY <1>3, <2>1, <2>2
  <2>5. d \in Contact /\ Undisturbed(d) /\ HasAddedUs(d) /\ d.local = c.local /\ HasAddedUs(c)
    BY <1>1, <1>2, <2>2, PeacefulRequest
  <2> HIDE DEF d
  <2> QED BY <1>2, <1>4, <2>2, <2>3, <2>4, <2>5, Zenon
<1>7. CASE HandleAcceptContactRequest(m)
  <2> DEFINE d == ContactRequestReceived(own, m.clock)
  <2>1. /\ UNCHANGED <<requests, blocked, now>> /\ net \ net' \subseteq {m}
        /\ net' \subseteq net /\ m.kind = "accept" /\ contact' = [contact EXCEPT ![p] = d]
    BY <1>7, Zenon DEF HandleAcceptContactRequest, Under, Store, p, own
  <2>2. d \in Contact /\ Undisturbed(d) /\ HasAddedUs(d) /\ d.local = own.local
    BY <1>1, <2>1, PeacefulRequest
  <2> HIDE DEF d
  <2> QED BY <1>4, <2>1, <2>2, Zenon
<1>8. ~HandleRetractContactRequest(m) /\ ~DropMessage(m)
  BY <1>1, Zenon DEF HandleRetractContactRequest, DropMessage, p
<1> QED BY <1>5, <1>6, <1>7, <1>8

(* Peace lasts until somebody withdraws or refuses. *)
LEMMA PeaceStep ==
  ContactsInvariant /\ PeaceInvariant /\ [ContactsNext]_contactVars => PeaceInvariant'
<1> SUFFICES ASSUME ContactsInvariant, PeaceInvariant, [ContactsNext]_contactVars, ~withdrawn'
             PROVE  Peaceful'
  BY DEF PeaceInvariant
<1>1. ASSUME withdrawn PROVE FALSE
  BY <1>1, Zenon DEF ContactsNext, contactVars, accountVars, Performs, SendContactRequest,
     AcceptContactRequest, DeclineContactRequest, RemoveContact, RetractContact, BlockContact,
     UnblockContact, SendChatMessage, SendContactUpdate, HandleChatMessage, HandleContactUpdate,
     HandleAcceptContactRequest, HandleRetractContactRequest, DropMessage, Tick
<1>2. Peaceful
  BY <1>1 DEF PeaceInvariant
<1>3. CASE UNCHANGED contactVars
  BY <1>2, <1>3, Zenon DEF contactVars, accountVars, Peaceful, Tells
<1>4. CASE Tick
  <2>1. now \in Nat
    BY Zenon DEF ContactsInvariant, ContactsTypeOK
  <2>2. now' = now + 1
    BY <1>4, Zenon DEF Tick
  <2>3. now' > 0
    BY <2>1, <2>2
  <2> QED BY <1>2, <1>4, <2>3, Zenon DEF Tick, accountVars, Peaceful, Tells
<1>5. ASSUME NEW p \in Party
      PROVE  /\ ~DeclineContactRequest(p) /\ ~RemoveContact(p) /\ ~RetractContact(p)
             /\ ~BlockContact(p) /\ ~UnblockContact(p)
  BY Zenon DEF DeclineContactRequest, RemoveContact, RetractContact, BlockContact, UnblockContact, Performs
<1> QED BY <1>2, <1>3, <1>4, <1>5, PeacefulOperations, PeacefulHandlers DEF ContactsNext
-----------------------------------------------------------------------------
(* The invariants together, at the start and in every step. *)
LEMMA InitHopsPeace == ContactsInit => HopsInvariant /\ PeaceInvariant
<1> SUFFICES ASSUME ContactsInit
             PROVE  HopsInvariant /\ PeaceInvariant
  OBVIOUS
<1>1. NoContact.local = "None" /\ NoContact.localClock = 0 /\ NoContact.remoteClock = 0
  BY DEF NoContact
<1>2. ~Added(NoContact)
  BY <1>1 DEF Added
<1>3. Undisturbed(NoContact)
  BY <1>1 DEF Undisturbed
<1>4. ASSUME NEW p \in Party
      PROVE  contact[p] = NoContact /\ blocked[p] = FALSE /\ requests[p] = {}
  BY Zenon DEF ContactsInit
<1>5. now = 1 /\ net = {}
  BY Zenon DEF ContactsInit
<1>6. now > 0
  BY <1>5
<1>7. HopsInvariant
  BY <1>2, <1>4, <1>5, Zenon DEF HopsInvariant
<1>8. Peaceful
  BY <1>2, <1>3, <1>4, <1>5, <1>6, Zenon DEF Peaceful
<1> QED BY <1>7, <1>8, Zenon DEF PeaceInvariant

(* contacts.Contact and the messages that carry it hold the states of      *)
(* their direction only.                                                   *)
THEOREM ContactsTypesCorrect == ContactsSpec => []ContactsTypeOK
<1>1. ContactsInvariant => ContactsTypeOK
  BY DEF ContactsInvariant
<1> QED BY <1>1, InitContacts, ContactsStep, PTL DEF ContactsSpec

(* HandleContactUpdate and handleChatMessage send their state back fewer   *)
(* times in a row than the users did something, whatever is reordered or   *)
(* duplicated: the ping-pong the comment in the code fears cannot go on.   *)
THEOREM PingPongEnds == ContactsSpec => []NoPingPong
<1>1. HopsInvariant => NoPingPong
  BY DEF HopsInvariant, NoPingPong, HopsPaid
<1> QED BY <1>1, InitContacts, InitHopsPeace, ContactsStep, HopsStep, PTL DEF ContactsSpec

(* When nobody withdraws or refuses, and the last message is handled, each *)
(* account takes the other for who added it exactly if it did.             *)
THEOREM AgreementCorrect == ContactsSpec => []QuietMeansAgreed
<1>1. ContactsInvariant /\ PeaceInvariant => QuietMeansAgreed
  <2> SUFFICES ASSUME ContactsInvariant, Peaceful, net = {}, NEW p \in Party
               PROVE  Added(contact[p]) <=> HasAddedUs(contact[Other(p)])
    BY Zenon DEF QuietMeansAgreed, PeaceInvariant
  <2>1. Other(p) \in Party /\ Other(Other(p)) = p
    BY OtherParty
  <2>2. ASSUME HasAddedUs(contact[Other(p)]) PROVE requests[p] # {}
    BY <2>1, <2>2 DEF ContactsInvariant, AskedFor
  <2> QED BY <2>2 DEF Peaceful
<1> QED BY <1>1, InitContacts, InitHopsPeace, ContactsStep, PeaceStep, PTL DEF ContactsSpec
=============================================================================
