SPECIFICATION Spec
CONSTANTS
  r1 = r1
  r2 = r2
  alpha = alpha
  beta = beta
  None = None
  Ralphs = {r1, r2}
  ProjectOrder <- BetaFirst
  ProjectOf <- OneEach
  Planned = {alpha}
  Keys <- AllKeys
INVARIANTS
  TypeOK
  OnScreen
  PlanOfProject
PROPERTIES
  RetiredStays
CHECK_DEADLOCK FALSE
