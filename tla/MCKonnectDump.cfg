SPECIFICATION FairSpec
CONSTANTS
  v1 = v1
  NumPackages = 2
  VersionsOf <- MCVersionsOf
  Concurrency = 3
INVARIANTS TypeOK PermitsExact NoSendOnClosed SuccessIsComplete
PROPERTY Returns
