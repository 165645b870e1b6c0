------------------------- MODULE MCBenchmarkService -------------------------
EXTENDS BenchmarkService, TLC

CONSTANTS good, malformed, undefined, missing, escaping

\* One source of each kind; a run may use fewer.
MCFate == [s \in Source |->
  CASE s = good -> "convertible"
    [] s = malformed -> "malformed"
    [] s = undefined -> "undefined"
    [] s = missing -> "missing"
    [] s = escaping -> "escapes"]

MCWorkers == Permutations(Worker)

=============================================================================
