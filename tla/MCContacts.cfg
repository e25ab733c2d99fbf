SPECIFICATION ContactsSpec
CONSTANTS
  Party = {alice, bob}
  Operations = {"request", "accept", "decline", "remove", "retract", "block", "chat", "update"}
  MaxOperations = 4
  MaxDisturbances = 1
SYMMETRY Symmetry
CHECK_DEADLOCK FALSE
INVARIANT ContactsTypeOK
INVARIANT NoPingPong
INVARIANT ReceivedWasSent
INVARIANT UpdateAnnouncesRequest
INVARIANT QuietMeansAgreed
