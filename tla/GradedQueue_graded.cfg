SPECIFICATION Spec
CONSTANTS
  t1 = t1
  t2 = t2
  r1 = r1
  r2 = r2

  Tasks = {t1, t2}
  Ralphs = {r1, r2}
  Entries <- BareAndPlaced
SYMMETRY Symmetry
INVARIANTS
  LiveHoldsItsTask
PROPERTIES
  CompletedStays
