SPECIFICATION AuthSpec
CONSTANTS
  Sessions = {s1, s2}
  Tokens = {t1, t2, t3, t4}
  Calls = {c1, c2, c3}
  None = None
SYMMETRY MCSymmetry
CHECK_DEADLOCK FALSE
INVARIANTS
  AuthTypeOK
  TokensHaveTheirSession
  ClientKeepsItsPlace
PROPERTIES
  EndedStaysEnded
  NoTokenAfterTheEnd
  PruneSparesTheLiving
