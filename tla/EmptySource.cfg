SPECIFICATION Spec
CONSTANTS
  Worker = {w1, w2}
  NoWorker = NoWorker
  good = good
  malformed = malformed
  undefined = undefined
  missing = missing
  escaping = escaping
  Source = {good, malformed, undefined, missing, escaping}
  Fate <- MCFate
  MaxLoads = 3
  Crashes = FALSE
  StatFault = FALSE
SYMMETRY MCWorkers
INVARIANT NoTemporaryLeft
