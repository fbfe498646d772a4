SPECIFICATION Spec
CONSTANTS
  p1 = p1  p2 = p2  app1 = app1  app2 = app2
  Procs = {p1, p2}
  Apps = {app1, app2}
  Ports = {1, 2}
  Hosts <- AllHosts
  FaultKinds = {"ss", "sstcp", "ssudp", "docker", "podman", "list", "show", "pm2", "ps", "supervisor", "budget"}
  MaxFaults = 2
  MaxRestarts = 1
  MaxScans = 2
  None = None
INVARIANTS KnownSilentLosses SweepTakesTheRest StableIdentifiers
