SPECIFICATION Spec
CONSTANTS
  w1 = w1
  w2 = w2
  w3 = w3
  d = d
  c1 = c1
  c2 = c2
  None = None
  Workers = {w1, w2}
  Daemon = d
  Consoles = {c1}
  Max = 1
  PsFails = FALSE
INVARIANTS
  TestStillHolds
PROPERTIES
  DeadForgotten
