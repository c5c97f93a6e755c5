SPECIFICATION FairSpec
CONSTANTS
  Tasks = {t1, t2}
  Actors = {a1, a2}
  MaxRuns = 1
  MaxCrashes = 0
  Torn = Torn
INVARIANT SavePersists
CHECK_DEADLOCK FALSE
