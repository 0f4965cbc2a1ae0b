SPECIFICATION DocumentSpec
CONSTANTS
  Documents = {d1}
  Workers = {w1}
  UploadsShared = FALSE
  MaxFaults = 0
  MaxRetries = 0
  None = None
CHECK_DEADLOCK FALSE
INVARIANTS
  WorkersNeedNoUploads
