SPECIFICATION AuthSpec
CONSTANTS
  Sessions = {s1}
  Tokens = {t1, t2, t3}
  Calls = {c1, c2}
  None = None
CHECK_DEADLOCK FALSE
PROPERTIES
  OverlappingRefreshesFail
