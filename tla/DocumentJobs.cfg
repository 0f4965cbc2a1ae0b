SPECIFICATION FairDocumentSpec
CONSTANTS
  Documents = {d1}
  Workers = {w1, w2, w3}
  UploadsShared = TRUE
  MaxFaults = 1
  MaxRetries = 2
  None = None
CHECK_DEADLOCK FALSE
INVARIANTS
  DocumentTypeOK
  OneTaskPerJob
  DocumentsWhole
  ProjectViewsTruthful
  NoStrandedJob
PROPERTIES
  StartedJobsFinish
  ImplementsLedger
