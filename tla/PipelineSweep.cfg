SPECIFICATION FairPipelineSpec
CONSTANTS
  RunIds = {r1}
  Requests = {q1}
  Answers = {a1}
  Workers = {w1}
  ErrorCodes <- MCErrorCodes
  AnswerErrors <- MCAnswerErrors
  MaxFaults = 1
  None = None
CHECK_DEADLOCK FALSE
PROPERTIES
  CrashedRunsAreSwept
