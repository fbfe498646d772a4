SPECIFICATION FairSpec
CONSTANTS
  Modes = {"step", "session", "shell", "tail"}
  PipeSize = 2
  MaxLines = 3
INVARIANTS OutputComplete
PROPERTIES BothDrained EndsByDeadline
