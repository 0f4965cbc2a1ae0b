SPECIFICATION FairSummarySpec
CONSTANTS
  Summaries = {s1}
  Workers = {w1, w2}
  Limit = 1
  Lengths = {3, 6}
  ChunkSize = 3
  Overlap = 1
  MaxConcurrency = 2
  MaxFaults = 2
CHECK_DEADLOCK FALSE
INVARIANTS
  SummaryTypeOK
  CompletedCoversBook
  RefusedUploadLeavesNothing
  NoStrandedSummary
PROPERTIES
  DeletedStaysDeleted
  SummariesFinish
