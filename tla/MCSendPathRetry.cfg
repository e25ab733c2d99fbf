SPECIFICATION SendSpec
CONSTANTS
  MessageID = {"m1", "m2", "m3"}
  Hash = {1, 2, 3, 4, 5, 6}
  Batch = {}
  MaxAttempts = 2
  None = None
  Bare = Bare
  Dispatch = {"split", "joint"}
  MessageIDsOf <- MCMessageIDsOf
  SegmentsOf <- MCSegmentsOf
  StoreConfirmation = TRUE
CHECK_DEADLOCK FALSE
INVARIANT SentAfterRetryIsReported
