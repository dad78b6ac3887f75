SPECIFICATION FairSpec
CONSTANTS
  w1 = w1

  Workers = {w1}
  Sharing = FALSE
  Answers <- AnswersOfEachKind
  MaxLoops = 7
  MaxCalls = 3
  Budget = 0
  KeepLogs = 4
  CleanEvery = 4
  Faults = {"model_fails", "term", "kill", "writer_fails"}
INVARIANTS
  EveryExitReports
  BreakerAgrees
  StopsWhenTold
  CallsPerHour
PROPERTIES
  ReportsByContract
  Terminates

