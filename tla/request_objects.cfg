SPECIFICATION Spec
CONSTANTS
  Callers = {c1, c2, c3}
  Requests = {q1, q2}
  NoRequest = NoRequest
  Deaths = TRUE
INVARIANTS TypeOK RegisteredRequestPresent OnlyAuthoritativeRequestKept
SYMMETRY Symmetry
CHECK_DEADLOCK FALSE
