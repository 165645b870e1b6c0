SPECIFICATION Spec
CONSTANTS
  Worker = {w1, w2, w3}
  NoWorker = NoWorker
  good = good
  malformed = malformed
  undefined = undefined
  missing = missing
  escaping = escaping
  Source = {good, malformed, undefined, missing, escaping}
  Fate <- MCFate
  MaxLoads = 2
  Crashes = TRUE
  StatFault = FALSE
SYMMETRY MCWorkers
INVARIANTS
  TypeOK
  ReadersSeeFinishedFiles
  LoadReportsItsOwnFile
  FailedLoadsCleanUp
  AnswersAreCurrent
  FailedLoadChangesNothing
  StatusesTellWhatHappened
PROPERTIES
  LoadedForGood
  ImplementsStore
