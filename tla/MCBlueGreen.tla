---------------------------- MODULE MCBlueGreen ----------------------------
(* Instances of BlueGreen: which proxy the host has and which deploys      *)
(* there are, of which apps, with which domains.  Deploys come in any      *)
(* order, so an app's domains grow and shrink.                             *)
EXTENDS BlueGreen

CONSTANTS app1, app2, d1, d2, d3, h1, h2

\* d3 is a deploy of another app.
TwoApps == [d \in Deploys |-> IF d = d3 THEN app2 ELSE app1]

\* The deploys of the first app differ in their domains.
ChangingHosts ==
  [d \in Deploys |-> CASE d = d1 -> {h1} [] d = d2 -> {h1, h2} [] d = d3 -> {h2}]

\* Two apps behind Caddy, which others reload too.
Caddy ==
  [backend |-> "caddy", appOf |-> TwoApps, hosts |-> ChangingHosts,
   otherReloads |-> TRUE, faultKinds |-> AllFaults, maxFaults |-> 2]

\* One app with one domain behind nginx.
Nginx ==
  [Caddy EXCEPT !.backend = "nginx", !.otherReloads = FALSE,
                !.appOf = [d \in Deploys |-> app1],
                !.hosts = [d \in Deploys |-> {h1}]]

\* An app without a domain beside an app behind nginx.
FirstUnproxied ==
  [Nginx EXCEPT !.appOf = TwoApps,
                !.hosts = [d \in Deploys |-> IF d = d3 THEN {h1} ELSE {}]]

\* One app behind Caddy, whose reload may fail once.
FailingReload ==
  [Nginx EXCEPT !.backend = "caddy", !.otherReloads = TRUE,
                !.faultKinds = {"reload"}, !.maxFaults = 1]

ThreeHosts    == {Caddy, Nginx, FirstUnproxied}
OneFaultyHost == {FailingReload}
=============================================================================
