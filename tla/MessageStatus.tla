--------------------------- MODULE MessageStatus ---------------------------
(***************************************************************************)
(* What the user is promised of a message that goes out: it is sending,    *)
(* then sent, then delivered, never the other way round; it is shown as    *)
(* sent only if it is marked as sent, and a mark is never taken back.      *)
(***************************************************************************)
CONSTANT Messages

VARIABLES
  marked,  \* whether the message is marked as sent
  shown    \* its outgoing status, "none" for what no user wrote

statusVars == <<marked, shown>>

StatusInit ==
  /\ marked = [m \in Messages |-> FALSE]
  /\ shown = [m \in Messages |-> "none"]

Begin(m) ==
  /\ shown[m] = "none"
  /\ shown' = [shown EXCEPT ![m] = "sending"]
  /\ UNCHANGED marked

Mark(m) ==
  /\ marked' = [marked EXCEPT ![m] = TRUE]
  /\ UNCHANGED shown

Sent(m) ==
  /\ shown[m] = "sending" /\ marked[m]
  /\ shown' = [shown EXCEPT ![m] = "sent"]
  /\ UNCHANGED marked

Delivered(m) ==
  /\ shown[m] \in {"sending", "sent"}
  /\ shown' = [shown EXCEPT ![m] = "delivered"]
  /\ UNCHANGED marked

StatusNext == \E m \in Messages : Begin(m) \/ Mark(m) \/ Sent(m) \/ Delivered(m)

StatusSpec == StatusInit /\ [][StatusNext]_statusVars
=============================================================================
