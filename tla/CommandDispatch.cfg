SPECIFICATION FairSpec
CONSTANTS
  Commands = {c1}
  FaultKinds = {"crash", "drop", "post", "heartbeat"}
  MaxFaults = 3
  MaxCopies = 1
INVARIANTS NoConcurrentRuns ResultAccounted NoDuplicateResult
PROPERTY EveryCommandAnswered
