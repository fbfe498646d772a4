SPECIFICATION FairSpec
CONSTANTS
  Modes = {"shell"}
  PipeSize = 1
  MaxLines = 1
PROPERTIES HardTimeout
