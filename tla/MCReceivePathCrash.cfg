SPECIFICATION ReceiveSpec
CONSTANTS
  Message = {"plain"}
  SegmentSize = 2
  PayloadSize <- MCPayloadSize
  Key = {"k"}
  NoKey = "none"
  NeedsKey <- MCNeedsKey
  CarriesKey <- MCCarriesKey
  Copies = 1
  MaxFailures = 0
  MaxCrashes = 1
  MaxDeletes = 0
INVARIANT ConfirmedIsKept
