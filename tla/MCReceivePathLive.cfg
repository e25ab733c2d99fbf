SPECIFICATION FairReceiveSpec
CONSTANTS
  Message = {"secret", "keys"}
  SegmentSize = 2
  PayloadSize <- MCPayloadSize
  Key = {"k"}
  NoKey = "none"
  NeedsKey <- MCNeedsKey
  CarriesKey <- MCCarriesKey
  Copies = 1
  MaxFailures = 1
  MaxCrashes = 1
  MaxDeletes = 1
 
INVARIANT SavedOnce
PROPERTY ReceivedIsKept
PROPERTY WaitingEnds
