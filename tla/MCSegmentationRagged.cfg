SPECIFICATION SegmentsSpec
CONSTANTS
  Message = {"ragged"}
  SegmentSize = 2
  PayloadSize <- MCPayloadSize
INVARIANT EveryMessageIsDelivered
