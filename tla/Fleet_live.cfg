SPECIFICATION FairSpec
CONSTANTS
  r1 = r1
  r2 = r2
  t1 = t1
  NULL = NULL
  Ralph = {r1, r2}
  Task = {t1}
  ClaimOrder <- OneTask
  Env = {"tui","killed","launch_fails","prompt_fails","apply_raises"}
  Timely = FALSE
  TuiKeepsUp = FALSE
  MaxRequests = 1
  MaxCrashes = 0
  CLAIM_EXPIRY = 1
  HEARTBEAT_STALE = 1
PROPERTIES
  ClaimEnds
  PendingIsServed
