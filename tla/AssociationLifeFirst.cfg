SPECIFICATION FairSpec
CONSTANTS
  Attempts = 2
  MaxAssociations = 1
  FirstServerCid = 5
  FreshSeed = TRUE
  IdleLimit = 1
  Lives = 2
  ServerCids = 2
  MaxNumber = 2
  MaxUnderWay = 2
  MaxFaults = 1
INVARIANT
  EndsAgree
CHECK_DEADLOCK FALSE
