SPECIFICATION Spec
CONSTANTS
  r1 = r1
  r2 = r2
  t1 = t1
  t2 = t2
  s1 = s1
  s2 = s2
  NoRalph = NoRalph
  NoTask = NoTask
  Origin = Origin
  Ralph = {r1, r2}
  Task = {t1}
  Session = {s1}
  Strategy <- OneSquash
  UseWorktree = {r1, r2}
  Sweepers = {s1}
  Clash <- AllClash
  Ignored = FALSE
  Upstream = TRUE
  Orderly = TRUE
  Stops = TRUE
  MaxWork = 2
INVARIANTS
  SuccessInMain
CHECK_DEADLOCK FALSE
