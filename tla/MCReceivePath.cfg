SPECIFICATION ReceiveSpec
CONSTANTS
  Message = {"big", "plain"}
  SegmentSize = 2
  PayloadSize <- MCPayloadSize
  Key = {"k"}
  NoKey = "none"
  NeedsKey <- MCNeedsKey
  CarriesKey <- MCCarriesKey
  Copies = 1
  MaxFailures = 0
  MaxCrashes = 0
  MaxDeletes = 0
INVARIANT ReceiveTypeOK
INVARIANT SavedOnce
INVARIANT ConfirmedIsKept
INVARIANT NothingIsLost
