SPECIFICATION FairSpec
CONSTANTS
  out = out  err = err
  Writers = {out, err}
  Lines = 3
  MaxBatch = 3
INVARIANTS EveryLineInOnePlace BatchesConsecutive NothingStranded CloseDrains
PROPERTIES EveryLineLeaves CloseEnds
