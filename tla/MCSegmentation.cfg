SPECIFICATION SegmentsSpec
CONSTANTS
  Message = {"full", "short"}
  SegmentSize = 2
  PayloadSize <- MCPayloadSize
 
INVARIANT NeverOverfull
INVARIANT CompleteIsDelivered
INVARIANT TablesAreDisjoint
