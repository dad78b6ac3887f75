SPECIFICATION Spec
CONSTANTS
  r1 = r1
  r2 = r2
  t1 = t1
  t2 = t2
  s1 = s1
  s2 = s2
  NoRalph = NoRalph
  NoTask = NoTask
  Origin = Origin
  Ralph = {r1, r2}
  Task = {t1, t2}
  Session = {s1, s2}
  Strategy <- AllAuto
  UseWorktree = {r1, r2}
  Sweepers = {}
  Clash <- AllClash
  Ignored = FALSE
  Upstream = TRUE
  Orderly = TRUE
  Stops = FALSE
  MaxWork = 3
SYMMETRY MergeSymmetry
INVARIANTS
  SuccessInMain
  CheckoutAttended
  NothingDropped
PROPERTIES
  Isolation
CHECK_DEADLOCK FALSE
