SPECIFICATION FairSpec
CONSTANTS
  f1 = f1
  Followers = {f1}
  MaxEvents = 3
  ChanSize = 1
  PageSize = 2
  WireSize = 1
  MaxReconnects = 1
  MaxCuts = 1
  MaxCrashes = 1
  MaxFaults = 1
  BufferSize = 2
  MaxLineBytes = 4
  MaxInput = 10
  MaxStream = 3
CHECK_DEADLOCK FALSE
INVARIANTS
  OutputIsUnderstood
  TypeOK
PROPERTIES
  FeedSpec
  EveryFollowEnds
