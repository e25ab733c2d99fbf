SPECIFICATION Spec
CONSTANTS
  MessageID = {m1, m2}
  Hash = {h1, h2, h3}
  Batch = {b1}
  MaxAttempts = 2
  None = None
  Bare = Bare
SYMMETRY Symmetry
CHECK_DEADLOCK FALSE
INVARIANT MonitorInvariant
INVARIANT SentReportsAreConfirmed
