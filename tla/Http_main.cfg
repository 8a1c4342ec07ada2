SPECIFICATION FairSpec
CONSTANTS
  c1 = c1
  c2 = c2
  c3 = c3
  Calls <- MCCalls
  NoCall = NoCall
  Makes <- MCMakes
  maxRequests = 2
  windowTicks = 1
  maxRetries = 2
  PageSize = 1
  MaxItems = 2
INVARIANTS
  
  ReadersAgree
  CreateSentOnce
PROPERTIES
  FailureNotCached
  EveryCallEnds
CHECK_DEADLOCK FALSE
