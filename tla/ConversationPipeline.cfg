SPECIFICATION PipelineSpec
CONSTANTS
  RunIds = {r1, r2}
  Requests = {q1, q2}
  Answers = {a1}
  Workers = {w1, w2}
  ErrorCodes <- MCErrorCodes
  AnswerErrors <- MCAnswerErrors
  MaxFaults = 1
  None = None
SYMMETRY MCSymmetry
CHECK_DEADLOCK FALSE
INVARIANTS
  PipelineTypeOK
  OneWorkerPerRun
  NoOrphanedRun
  AnswerFromSavedPrompt
  FailuresNameTheirCause
PROPERTIES
  ImplementsService
