SPECIFICATION FairSpec
CONSTANTS
  db1 = db1  db2 = db2  j1 = j1  j2 = j2  j3 = j3
  DBs = {db1, db2}
  Jobs = {j1, j2, j3}
  Scenarios <- AllScenarios
  None = None
INVARIANTS DataKept OkMeansProvisioned DeletedIsGone RedisStopsFirst StoppedHasReason
PROPERTIES EveryJobEnds
CHECK_DEADLOCK FALSE
