SPECIFICATION JobsSpec
CONSTANTS
  Limit = 2
  MaxId = 3
  Scheduled = {t1, t2}
  Actors = {a1, a2}
  MaxRuns = 2
  MaxCrashes = 1
  Torn = Torn
INVARIANTS TypesOK ListsAreTrue
PROPERTIES NothingComesBack StoppedEnds
\* The users of the managers may stop.
CHECK_DEADLOCK FALSE
