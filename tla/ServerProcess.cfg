CONSTANTS
  w1 = w1
  w2 = w2
  Workers <- MCWorkers
  MaxRequests = 2
  ListenMayThrow = TRUE
  WaitMayFail = TRUE
SPECIFICATION Spec
INVARIANTS
  TypeOK
  GaugeCountsOpenRequests
  AnswersAreCounted
  DurationsFollowTotals
  ReportsOnlyRealSignals
  CleanExitIsAnOrder
PROPERTIES
  SignalStopsService
  FailureEndsProcess
CHECK_DEADLOCK FALSE
