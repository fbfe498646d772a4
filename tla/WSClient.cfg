SPECIFICATION FairSpec
CONSTANTS
  f1 = f1  f2 = f2
  Frames = {f1, f2}
  PingPeriod = 3
  PongWait = 9
  WriteWait = 1
  Rtt = 3
  UnitSeconds = 10
  FaultKinds = {"dial", "slow", "gone", "reset", "bad"}
  MaxFaults = 2
  None = None
INVARIANTS TypeOK SilenceNoticed
PROPERTIES LivePeerKept ChannelSpec EndsConnected
