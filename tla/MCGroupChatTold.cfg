SPECIFICATION GroupSpec
CONSTANTS
  ann = ann
  bob = bob
  cyn = cyn
  Accounts = {ann, bob, cyn}
  Creator = ann
  Contacts <- Chain
  Skew <- NoSkew
  Times = {1, 6}
  Operations = {"remove"}
  Edits <- NameAndImage
  MaxOperations = 1
  MaxFailures = 0
PROPERTY RemovedAreTold
CHECK_DEADLOCK FALSE
