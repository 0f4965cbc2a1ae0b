SPECIFICATION Spec
CONSTANTS
  None = None
  HistoryBudget = 5
  MaxExchanges = 2
  K = 3
  PromptLimit = 8
  Instructions = 1
  NoEvidence = 2
  Sizes = {1, 2, 6}
  MemorySizes = {2, 3}
  MaxLength = 3
  MaxChunks = 4
CHECK_DEADLOCK FALSE
INVARIANTS
  PromptFits
  EvidenceIsMaximal
  HistoryIsLongestSuffix
