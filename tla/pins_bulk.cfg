SPECIFICATION Spec
CONSTANTS
  Callers = {c1}
  MaxBulk = 4
  Limit = 3
  Window = 4
INVARIANTS
  WithinLimit
  NoNeedlessSleep
PROPERTIES
  CallsEnd
