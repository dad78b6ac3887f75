SPECIFICATION GuardSpec
CONSTANTS
  p1 = p1
  p2 = p2
  p3 = p3
  s1 = s1
  NoPid = NoPid
  Empty = Empty
  Pids = {p1, p2, p3}
  Stoppers = {s1}
  Faults = 3
INVARIANTS
  OneDaemon
  PidNamesHolder
PROPERTIES
  DaemonComesBack
CHECK_DEADLOCK FALSE
