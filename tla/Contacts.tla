------------------------------ MODULE Contacts ------------------------------
(***************************************************************************)
(* Contact requests between two accounts (protocol/contacts/contact.go and *)
(* the messenger's operations and message handlers around it).  Each side  *)
(* keeps a state and a clock for both directions, and every chat message   *)
(* and contact update carries that record so the other side can catch up.  *)
(*                                                                         *)
(* Messages are delayed, lost and reordered at will and duplicated a       *)
(* bounded number of times.  Clocks are the chat's: the wall clock, or one *)
(* more than the last value; an operation draws one for each message it    *)
(* makes, the chat's own system messages included.  Both accounts know of  *)
(* each other at the start.  The setting that allows messages of contacts  *)
(* only is off, and no clock is so far ahead that it is refused.           *)
(***************************************************************************)
EXTENDS Naturals

CONSTANTS Party,
          Operations,      \* the operations the users perform
          MaxOperations,   \* number of operations
          MaxDisturbances  \* messages delivered once more and ticks of the wall clock

ASSUME PartyAssumption ==
  /\ \A p \in Party : \E q \in Party : p # q /\ Party = {p, q}
  /\ {MaxOperations, MaxDisturbances} \subseteq Nat

VARIABLES
  contact,     \* per account: its Contact record of the other
  blocked,     \* Contact.Blocked
  request,     \* whether a contact request message of the other is stored
  lastClock,   \* Chat.LastClockValue of the one-to-one chat
  lastUpdated, \* Contact.LastUpdated
  now,         \* the wall clock
  net,         \* messages under way
  operations,  \* operations performed
  duplicates,  \* deliveries that left the message under way
  requests,    \* history: clocks of the requests each account made
  withdrawn    \* history: whether anybody withdrew or refused anything

accountVars == <<contact, blocked, request, lastClock, lastUpdated>>
contactVars == <<accountVars, now, net, operations, duplicates, requests, withdrawn>>

Other(p) == CHOOSE q \in Party : q # p
Larger(a, b) == IF a < b THEN b ELSE a
-----------------------------------------------------------------------------
(* protocol/contacts: the methods of Contact, as functions of the record. *)

NoContact == [local |-> "None", localClock |-> 0, remote |-> "None", remoteClock |-> 0]

Added(c) == c.local = "Sent"
HasAddedUs(c) == c.remote = "Received"
Mutual(c) == Added(c) /\ HasAddedUs(c)

ContactRequestSent(c, clock) ==
  IF clock <= c.localClock THEN c
  ELSE [c EXCEPT !.local = "Sent", !.localClock = clock]

RetractContactRequest(c, clock) ==
  IF clock <= c.localClock THEN c
  ELSE [local |-> "None", localClock |-> clock, remote |-> "None", remoteClock |-> clock]

DismissContactRequest(c, clock) ==
  IF clock <= c.localClock THEN c
  ELSE [c EXCEPT !.local = "Dismissed", !.localClock = clock]

ContactRequestRetracted(c, clock) ==
  IF clock <= c.remoteClock THEN c
  ELSE [local       |-> IF c.local = "Dismissed" THEN c.local ELSE "None",
        localClock  |-> IF c.local = "Dismissed" THEN c.localClock ELSE clock,
        remote      |-> "None",
        remoteClock |-> clock]

ContactRequestReceived(c, clock) ==
  IF clock <= c.remoteClock THEN c
  ELSE [c EXCEPT !.remote = "Received", !.remoteClock = clock]

(* The three parts of ContactRequestPropagatedStateReceived; s is the      *)
(* record of the sender, whose local state is our remote one.              *)
(* Mistake: the state goes back whichever view is the older one. *)
SendBackStateAlways(c, s) == s.remote # c.local

SendBackState(c, s) == s.remoteClock < c.localClock /\ s.remote # c.local

(* Mistake: an outdated view counts, too. *)
ImplicitRetractionOutdated(c, s) ==
  IF c.local # "Dismissed" /\ s.remote = "None"
  THEN [c EXCEPT !.local = "None", !.localClock = s.remoteClock, !.remote = "None"]
  ELSE c

ImplicitRetraction(c, s) ==
  IF s.remoteClock > c.localClock /\ c.local # "Dismissed" /\ s.remote = "None"
  THEN [c EXCEPT !.local = "None", !.localClock = s.remoteClock, !.remote = "None"]
  ELSE c

(* Mistake: the request counts with the clock of the other direction. *)
PropagatedStateReceivedOtherClock(c, s) ==
  IF s.local = "Sent" THEN ContactRequestReceived(ImplicitRetraction(c, s), s.remoteClock)
  ELSE ImplicitRetraction(c, s)

(* Mistake: their local state becomes our remote one as it is. *)
PropagatedStateReceivedVerbatim(c, s) ==
  IF s.localClock <= c.remoteClock THEN c
  ELSE [c EXCEPT !.remote = s.local, !.remoteClock = s.localClock]

ContactRequestPropagatedStateReceived(c, s) ==
  LET d == ImplicitRetraction(c, s) IN
  CASE s.local = "Sent" -> ContactRequestReceived(d, s.localClock)
    [] s.local = "None" -> ContactRequestRetracted(d, s.localClock)
    [] OTHER -> d

NewContactRequestReceived(c, s) ==
  /\ ImplicitRetraction(c, s).remote = "None"
  /\ HasAddedUs(ContactRequestPropagatedStateReceived(c, s))
-----------------------------------------------------------------------------
ContactsInit ==
  /\ contact = [p \in Party |-> NoContact]
  /\ blocked = [p \in Party |-> FALSE]
  /\ request = [p \in Party |-> FALSE]
  /\ lastClock = [p \in Party |-> 0]
  /\ lastUpdated = [p \in Party |-> 0]
  /\ now = 1 /\ net = {} /\ operations = 0 /\ duplicates = 0
  /\ requests = [p \in Party |-> {}] /\ withdrawn = FALSE

(* NextClockAndTimestamp for a chat whose last clock value is last. *)
NextAfter(last) == IF last < now THEN now ELSE last + 1
NextClock(p) == NextAfter(lastClock[p])

Kind == {"request", "chat", "update", "accept", "retract"}

Message(p, kind, clock, c, hops) ==
  [to |-> Other(p), kind |-> kind, clock |-> clock, state |-> c, hops |-> hops]

Performs(op) ==
  /\ op \in Operations /\ operations < MaxOperations
  /\ operations' = operations + 1
  /\ withdrawn' = (withdrawn \/ op \in {"decline", "remove", "retract", "block"})

Clocks(p, last) == lastClock' = [lastClock EXCEPT ![p] = last]
Store(p, c) == contact' = [contact EXCEPT ![p] = c]
Asks(p, clocks) == requests' = [requests EXCEPT ![p] = @ \cup clocks]

(* SendContactRequest: addContact, a system message, and the request: its  *)
(* clock is drawn by generateContactRequest and again by sendChatMessage,  *)
(* and it carries the new record.                                          *)
SendContactRequest(p) ==
  LET clock == NextClock(p)
      c == ContactRequestSent(contact[p], clock)
  IN
  /\ Performs("request")
  /\ Store(p, c)
  /\ net' = net \cup {Message(p, "request", clock + 3, c, 0)}
  /\ Clocks(p, clock + 3)
  /\ Asks(p, {clock, clock + 3})
  /\ UNCHANGED <<blocked, request, lastUpdated, now, duplicates>>

(* AcceptContactRequest: addContact, then updateAcceptedContactRequest     *)
(* with the next clock, which the message carries, and a system message.   *)
AcceptContactRequest(p) ==
  LET clock == NextClock(p) IN
  /\ Performs("accept") /\ request[p]
  /\ Store(p, ContactRequestSent(ContactRequestSent(contact[p], clock), clock + 1))
  /\ net' = net \cup {Message(p, "accept", clock + 1, NoContact, 0)}
  /\ Clocks(p, clock + 2)
  /\ Asks(p, {clock, clock + 1})
  /\ UNCHANGED <<blocked, request, lastUpdated, now, duplicates>>

DeclineContactRequest(p) ==
  /\ Performs("decline") /\ request[p]
  /\ Store(p, DismissContactRequest(contact[p], NextClock(p)))
  /\ Clocks(p, NextClock(p))
  /\ UNCHANGED <<blocked, request, lastUpdated, now, net, duplicates, requests>>

(* RemoveContact tells the other side nothing. *)
RemoveContact(p) ==
  /\ Performs("remove")
  /\ Store(p, RetractContactRequest(contact[p], NextClock(p)))
  /\ Clocks(p, NextClock(p))
  /\ UNCHANGED <<blocked, request, lastUpdated, now, net, duplicates, requests>>

(* RetractContactRequest: removeContact, then a message with the next clock. *)
RetractContact(p) ==
  LET clock == NextClock(p) IN
  /\ Performs("retract")
  /\ Store(p, RetractContactRequest(contact[p], clock))
  /\ net' = net \cup {Message(p, "retract", clock + 1, NoContact, 0)}
  /\ Clocks(p, clock + 1)
  /\ UNCHANGED <<blocked, request, lastUpdated, now, duplicates, requests>>

(* BlockContact deletes the chat, whose successor's clock starts anew, and *)
(* the messages of the contact.                                            *)
BlockContact(p) ==
  LET clock == NextClock(p) IN
  /\ Performs("block")
  /\ Store(p, DismissContactRequest(contact[p], clock))
  /\ blocked' = [blocked EXCEPT ![p] = TRUE]
  /\ request' = [request EXCEPT ![p] = FALSE]
  /\ IF Added(contact[p])
     THEN /\ net' = net \cup {Message(p, "retract", NextAfter(0), NoContact, 0)}
          /\ Clocks(p, NextAfter(0))
     ELSE Clocks(p, 0) /\ UNCHANGED net
  /\ UNCHANGED <<lastUpdated, now, duplicates, requests>>

UnblockContact(p) ==
  /\ Performs("block") /\ blocked[p]
  /\ Store(p, RetractContactRequest(contact[p], NextClock(p)))
  /\ blocked' = [blocked EXCEPT ![p] = FALSE]
  /\ Clocks(p, NextClock(p))
  /\ UNCHANGED <<request, lastUpdated, now, net, duplicates, requests>>

(* A chat message, with the record addContactRequestPropagatedState adds. *)
SendChatMessage(p) ==
  /\ Performs("chat")
  /\ net' = net \cup {Message(p, "chat", NextClock(p), contact[p], 0)}
  /\ Clocks(p, NextClock(p))
  /\ UNCHANGED <<contact, blocked, request, lastUpdated, now, duplicates, requests>>

(* sendContactUpdate sends nothing to who is not added. *)
SendContactUpdate(p) ==
  /\ Performs("update") /\ Added(contact[p])
  /\ net' = net \cup {Message(p, "update", NextClock(p), contact[p], 0)}
  /\ Clocks(p, NextClock(p))
  /\ UNCHANGED <<contact, blocked, request, lastUpdated, now, duplicates, requests>>
-----------------------------------------------------------------------------
(* Handled messages leave the network, or are delivered once more later;   *)
(* second copies of stored messages are skipped.                           *)
Under(m, sent, stored) ==
  \/ net' = (net \ {m}) \cup sent /\ UNCHANGED duplicates
  \/ /\ ~stored /\ now + duplicates <= MaxDisturbances
     /\ net' = net \cup sent /\ duplicates' = duplicates + 1

(* Mistake: the update goes to who is not added, too. *)
SentBackUnadded(p, c, m, clock) ==
  IF SendBackState(contact[p], m.state)
  THEN {Message(p, "update", clock, c, m.hops + 1)}
  ELSE {}

(* The update sent back to who has an outdated view, if any. *)
SentBack(p, c, m, clock) ==
  IF SendBackState(contact[p], m.state) /\ Added(c)
  THEN {Message(p, "update", clock, c, m.hops + 1)}
  ELSE {}

(* handleRetrievedMessages drops the messages of a blocked contact. *)
DropMessage(m) ==
  /\ m \in net /\ blocked[m.to]
  /\ net' = net \ {m}
  /\ UNCHANGED <<accountVars, now, operations, duplicates, requests, withdrawn>>

(* handleChatMessage.  A contact request is ignored for a mutual or        *)
(* dismissed contact; otherwise its clock counts, too.  A chat message     *)
(* that brings the news of a request stands for it.                        *)
HandleChatMessage(m) ==
  LET p == m.to
      last == Larger(lastClock[p], m.clock)
      c == ContactRequestPropagatedStateReceived(contact[p], m.state)
      new == NewContactRequestReceived(contact[p], m.state)
      back == SentBack(p, c, m, NextAfter(last))
      ignored == m.kind = "request" /\ (c.local = "Dismissed" \/ (Mutual(c) /\ ~new))
      asks == IF m.kind = "request" THEN ~ignored ELSE new /\ ~Mutual(c)
  IN
  /\ m \in net /\ ~blocked[p] /\ m.kind \in {"chat", "request"}
  /\ Store(p, IF m.kind = "chat" \/ ignored THEN c ELSE ContactRequestReceived(c, m.clock))
  /\ request' = [request EXCEPT ![p] = @ \/ asks]
  /\ Under(m, back, ~ignored)
  /\ Clocks(p, IF back = {} THEN last ELSE NextAfter(last))
  /\ UNCHANGED <<blocked, lastUpdated, now, operations, requests, withdrawn>>

(* HandleContactUpdate: the record first, then the request clock. *)
HandleContactUpdate(m) ==
  LET p == m.to
      c == ContactRequestPropagatedStateReceived(contact[p], m.state)
      back == SentBack(p, c, m, NextClock(p))
  IN
  /\ m \in net /\ ~blocked[p] /\ m.kind = "update"
  /\ Store(p, IF lastUpdated[p] < m.clock THEN ContactRequestReceived(c, m.state.localClock) ELSE c)
  /\ lastUpdated' = [lastUpdated EXCEPT ![p] = Larger(@, m.clock)]
  /\ request' = [request EXCEPT ![p] = @ \/ NewContactRequestReceived(contact[p], m.state)]
  /\ Under(m, back, FALSE)
  /\ Clocks(p, Larger(IF back = {} THEN lastClock[p] ELSE NextClock(p), m.clock))
  /\ UNCHANGED <<blocked, now, operations, requests, withdrawn>>

(* handleAcceptContactRequestMessage touches the chat of a mutual contact, *)
(* and adds a system message unless the request was accepted before.       *)
HandleAcceptContactRequest(m) ==
  LET p == m.to
      c == ContactRequestReceived(contact[p], m.clock)
      last == Larger(NextClock(p), m.clock)
  IN
  /\ m \in net /\ ~blocked[p] /\ m.kind = "accept"
  /\ Store(p, c)
  /\ Under(m, {}, FALSE)
  /\ IF Mutual(c) THEN Clocks(p, last) \/ Clocks(p, NextAfter(last)) ELSE UNCHANGED lastClock
  /\ UNCHANGED <<blocked, request, lastUpdated, now, operations, requests, withdrawn>>

HandleRetractContactRequest(m) ==
  LET p == m.to
      processed == m.clock > contact[p].remoteClock
  IN
  /\ m \in net /\ ~blocked[p] /\ m.kind = "retract"
  /\ Store(p, ContactRequestRetracted(contact[p], m.clock))
  /\ Under(m, {}, FALSE)
  /\ Clocks(p, IF processed THEN NextClock(p) ELSE lastClock[p])
  /\ UNCHANGED <<blocked, request, lastUpdated, now, operations, requests, withdrawn>>

Tick ==
  /\ now + duplicates <= MaxDisturbances /\ now' = now + 1
  /\ UNCHANGED <<accountVars, net, operations, duplicates, requests, withdrawn>>

ContactsNext ==
  \/ \E p \in Party :
       \/ SendContactRequest(p) \/ AcceptContactRequest(p) \/ DeclineContactRequest(p)
       \/ RemoveContact(p) \/ RetractContact(p) \/ BlockContact(p) \/ UnblockContact(p)
       \/ SendChatMessage(p) \/ SendContactUpdate(p)
  \/ \E m \in net :
       \/ HandleChatMessage(m) \/ HandleContactUpdate(m)
       \/ HandleAcceptContactRequest(m) \/ HandleRetractContactRequest(m)
       \/ DropMessage(m)
  \/ Tick

ContactsSpec == ContactsInit /\ [][ContactsNext]_contactVars
-----------------------------------------------------------------------------
Contact == [local : {"None", "Sent", "Dismissed"}, localClock : Nat,
            remote : {"None", "Received"}, remoteClock : Nat]

(* The states of ContactRequestState a side may have are those of its own  *)
(* direction, in the records and in the messages that carry them.          *)
ContactsTypeOK ==
  /\ contact \in [Party -> Contact]
  /\ blocked \in [Party -> BOOLEAN] /\ request \in [Party -> BOOLEAN]
  /\ lastClock \in [Party -> Nat] /\ lastUpdated \in [Party -> Nat]
  /\ {now, operations, duplicates} \subseteq Nat /\ withdrawn \in BOOLEAN
  /\ net \subseteq [to : Party, kind : Kind, clock : Nat, state : Contact, hops : Nat]
  /\ requests \in [Party -> SUBSET Nat]

(* "This is a bit dangerous, since it might trigger a ping-pong of contact *)
(* updates": whatever the two accounts believe of each other, a chain of   *)
(* updates that answer each other is shorter than what the users did, so   *)
(* it ends when they stop.                                                 *)
NoPingPong == \A m \in net : m.hops > 0 => m.hops < operations

(* An account takes itself for added only by what the other side did: the  *)
(* clock of a received request is the clock of a request that was made.    *)
ReceivedWasSent ==
  \A p \in Party : HasAddedUs(contact[p]) => contact[p].remoteClock \in requests[Other(p)]

(* HandleContactUpdate makes the notification of a new contact request     *)
(* from a nil message unless the record the update carries has announced   *)
(* the request before: after the record, the request clock brings no news. *)
UpdateAnnouncesRequest ==
  \A m \in net : m.kind = "update" =>
    LET c == ContactRequestPropagatedStateReceived(contact[m.to], m.state)
    IN c.remote = "None" => m.state.localClock <= c.remoteClock

(* Once all messages are handled both sides see the same contact, whoever  *)
(* asked and accepted in whatever order, as long as nobody withdraws.      *)
QuietMeansAgreed ==
  net = {} /\ ~withdrawn => \A p \in Party : Added(contact[p]) <=> HasAddedUs(contact[Other(p)])
=============================================================================
