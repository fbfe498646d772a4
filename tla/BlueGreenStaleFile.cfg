SPECIFICATION Spec
CONSTANTS
  app1 = app1  app2 = app2  d1 = d1  d2 = d2  d3 = d3  h1 = h1  h2 = h2
  Apps = {app1, app2}
  Domains = {h1, h2}
  Deploys = {d1, d2}
  Scenarios <- OneFaultyHost
  Serial = TRUE
  Absent = Absent
INVARIANT AlwaysListening
