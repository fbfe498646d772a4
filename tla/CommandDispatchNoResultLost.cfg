SPECIFICATION Spec
CONSTANTS
  Commands = {c1}
  FaultKinds = {"drop"}
  MaxFaults = 1
  MaxCopies = 1
INVARIANT NoResultLost
