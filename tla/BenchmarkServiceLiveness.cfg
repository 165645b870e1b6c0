SPECIFICATION FairSpec
CONSTANTS
  Worker = {w1, w2}
  NoWorker = NoWorker
  good = good
  malformed = malformed
  undefined = undefined
  missing = missing
  escaping = escaping
  Source = {good, malformed, undefined, escaping}
  Fate <- MCFate
  MaxLoads = 2
  Crashes = TRUE
  StatFault = TRUE
PROPERTIES
  MutexIsReleased
  QueriesFinish
