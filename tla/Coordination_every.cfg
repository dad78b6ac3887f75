SPECIFICATION Spec
CONSTANTS
  r1 = r1
  r2 = r2
  t1 = t1
  daemon = daemon
  other = other
  NULL = NULL
  Ralph = {r1}
  Session = {daemon, other}
  Task = {t1}
  Listed = {}
  ClaimOrder <- OneTask
  Calls <- EveryCalls
  UseWorktree = {r1}
  PlanEdits = {t1}
  HistCap = 1
  CLAIM_EXPIRY = 1
  HEARTBEAT_STALE = 1
INVARIANTS
  ClaimWellFormed
