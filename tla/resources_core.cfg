SPECIFICATION ResLiveSpec
CONSTANTS
  Requests = {r1, r2}
  MaxDocs = 2
  MaxKeys = 3
  small = small
  medium = medium
  large = large
  Contents = {small, medium, large}
  SizeOf <- MCSizeOf
  Quota = 2
  MaxRetries = 1
  MaxFaults = 2
  Mixes <- MCMixes
  None = None
INVARIANTS ResTypeOK LiveRowHasObject QuotaRespected
PROPERTIES RowOutlivesObject RequestsEnd DeletionCompletes OrphansCollected
CHECK_DEADLOCK FALSE
