---------------------------- MODULE MCManagedDB -----------------------------
(* Instances of ManagedDB: two databases, three jobs.                      *)
EXTENDS ManagedDB, TLC

CONSTANTS db1, db2, j1, j2, j3

Scenario(kinds, dbs, serial, mb, beside, kindsOfFaults, max) ==
  [kind |-> (j1 :> kinds[1] @@ j2 :> kinds[2] @@ j3 :> kinds[3]),
   of |-> (j1 :> dbs[1] @@ j2 :> dbs[2] @@ j3 :> dbs[3]),
   serial |-> serial, apps |-> beside = "apps", heartbeats |-> beside = "heartbeats",
   hostMB |-> mb, faultKinds |-> kindsOfFaults, maxFaults |-> max]

OneDB == <<db1, db1, db1>>
Commands == AllFaults \ {"budget"}

\* A database is provisioned, provisioned again or deleted, and once more, in
\* turn, with two faults.
InTurn ==
  {Scenario(<<"provision", k, l>>, OneDB, TRUE, 1024, "none", Commands, 2) :
     k \in {"provision", "destroy"}, l \in {"provision", "delete", "destroy"}}

\* Two jobs for one database overlap, after the first or not.
Overlapping ==
  {Scenario(<<"provision", k, "provision">>, OneDB, FALSE, 1024, "apps", {"rm", "deadline"}, 1) :
     k \in {"delete", "destroy"}}

\* Two databases beside each other, one report after the other.
Reports == {Scenario(<<"provision", "provision", "delete">>, <<db1, db2, db1>>, TRUE, 1024,
                     "heartbeats", {"budget"}, 1)}

\* Hosts of every size.
Sizes ==
  {Scenario(<<"provision", "delete", "delete">>, OneDB, TRUE, mb, "none", {}, 0) :
     mb \in {0, 1, 511, 512, 515, 1023, 8191, 8192, 16384}}

AllScenarios == InTurn \union Overlapping \union Reports \union Sizes
=============================================================================
