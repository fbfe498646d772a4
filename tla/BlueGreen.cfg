SPECIFICATION FairSpec
CONSTANTS
  app1 = app1  app2 = app2  d1 = d1  d2 = d2  d3 = d3  h1 = h1  h2 = h2
  Apps = {app1, app2}
  Domains = {h1, h2}
  Deploys = {d1, d2, d3}
  Scenarios <- ThreeHosts
  Serial = TRUE
  Absent = Absent
INVARIANTS RouteAlive RoutedToLatest OnlyHealthyFixed
PROPERTIES DomainsRouted OldVersionsRetired FixedKeptUntilPassed EveryDeployEnds
