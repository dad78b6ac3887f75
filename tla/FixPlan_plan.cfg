SPECIFICATION Spec
CONSTANTS
  a = a
  b = b
  s1 = s1
  s2 = s2
  x = x
  y = y
  z = z
  NoProject = NoProject
  NoKey = NoKey
  Nobody = Nobody
  Project = {a}
  Here = a
  Proc = {s1, s2}
  Syncers = {s1}
  Consoles = {s2}
  Key = {x, y, z}
  Wording = {1, 2}
  FirstPlans <- OnePlan
  Spare <- Added
  Habits <- AllHabits
INVARIANTS
  TypeOK
  CompletedForReason
  TicksSurvive
  SyncCovers
PROPERTIES
  RenamesAreRewordings
