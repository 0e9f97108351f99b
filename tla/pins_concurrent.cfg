SPECIFICATION Spec
CONSTANTS
  Callers = {c1, c2}
  MaxBulk = 2
  Limit = 2
  Window = 2
INVARIANTS
  WithinLimit
