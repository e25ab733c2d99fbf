SPECIFICATION GroupSpec
CONSTANTS
  ann = ann
  bob = bob
  cyn = cyn
  Accounts = {ann, bob, cyn}
  Creator = ann
  Contacts <- Chain
  Skew <- AheadB
  Times = {1, 6}
  Operations = {"add", "remove", "leave", "admins", "edit", "post"}
  Edits <- NameAndImage
  MaxOperations = 2
  MaxFailures = 1
INVARIANT GroupTypeOK
INVARIANT ClockIsUsedOnce
INVARIANT OnlyRemovalsConflict
INVARIANT StoredEventsRebuild
INVARIANT NoGaps
INVARIANT LatestWins
INVARIANT JoinsAnswerAdds
PROPERTY LeftStaysLeft
CHECK_DEADLOCK FALSE
