SPECIFICATION Spec
CONSTANTS
  r1 = r1
  r2 = r2
  t1 = t1
  NULL = NULL
  Ralph = {r1, r2}
  Task = {t1}
  ClaimOrder <- OneTask
  Env = {"spawn", "cancel", "killed", "gives_up", "breaks_off", "ticks_plan", "launch_fails", "prompt_fails", "apply_raises", "intent_expires", "reports_failed"}
  Timely = TRUE
  TuiKeepsUp = FALSE
  MaxRequests = 2
  MaxCrashes = 1
  CLAIM_EXPIRY = 2
  HEARTBEAT_STALE = 3
SYMMETRY RalphSymmetry
INVARIANTS
  Exclusive
  RetiredHoldsNothing
PROPERTIES
  SuccessLands
