SPECIFICATION Spec
CONSTANTS
  r1 = r1
  r2 = r2
  t1 = t1
  daemon = daemon
  other = other
  NULL = NULL
  Ralph = {r1, r2}
  Session = {daemon, other}
  Task = {t1}
  Listed = {}
  ClaimOrder <- OneTask
  Calls <- RaceCalls
  UseWorktree = {r1, r2}
  PlanEdits = {t1}
  HistCap = 2
  CLAIM_EXPIRY = 1
  HEARTBEAT_STALE = 2
SYMMETRY RalphSymmetry
INVARIANTS
  RecordedIsFinal
  RecordedOnce
  RecordedWorkIsMerged
PROPERTIES
  LiveClaimProtected
  ImplementsQueue
