SPECIFICATION FairRawSpec
CONSTANTS
  Messages = {"m1"}
  MaxCount = 2
  MaxFailures = 1
  MaxCrashes = 2
INVARIANT RawTypeOK
INVARIANT UnsentIsWhole
INVARIANT MarkStopsResending
INVARIANT AttemptsAreBounded
 
 
