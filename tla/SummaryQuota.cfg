SPECIFICATION SummarySpec
CONSTANTS
  Summaries = {s1, s2}
  Workers = {w1}
  Limit = 1
  Lengths = {3, 6}
  ChunkSize = 3
  Overlap = 1
  MaxConcurrency = 2
  MaxFaults = 0
CHECK_DEADLOCK FALSE
INVARIANTS
  StartedWithinQuota
