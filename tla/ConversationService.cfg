SPECIFICATION Spec
CONSTANTS
  r1 = r1
  r2 = r2
  r3 = r3
  q1 = q1
  q2 = q2
  q3 = q3
  a1 = a1
  a2 = a2
  None = None
  RunIds <- MCRunIds
  Requests <- MCRequests
  Answers <- MCAnswers
  ErrorCodes <- MCErrorCodes
SYMMETRY MCSymmetry
CHECK_DEADLOCK FALSE
INVARIANTS
  TypeOK
  PublishedByCompletedRun
  LatestAttemptDecides
  ActiveRunIsLastTurn
  ResendFindsItsTurn
  HistoryIsRecentSuffix
  ConstraintsNeverFire
PROPERTIES
  FinishedRunsStay
  ImplementsChat
