SPECIFICATION ListSpec
CONSTANTS
  r1 = r1
  r2 = r2
  r3 = r3
  q1 = q1
  q2 = q2
  a1 = a1
  None = None
  RunIds <- MCRunIds
  Requests <- MCRequests
  Answers <- MCAnswers
  ErrorCodes <- MCErrorCodes
  Limits = {2, 3}
SYMMETRY MCSymmetry
CHECK_DEADLOCK FALSE
PROPERTIES
  PagesAreTruthful
  WalksMissNothing
