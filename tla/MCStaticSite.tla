---------------------------- MODULE MCStaticSite ----------------------------
(* Instances of StaticSite: which jobs there are, for which releases, and  *)
(* what may go wrong.                                                      *)
EXTENDS StaticSite

CONSTANTS j1, j2, j3, j4, r1, r2, r3

\* Three deploys, and a rollback to the first release when j4 is among them.
ReleasesOf(jobs) ==
  [j \in jobs |-> CASE j \in {j1, j4} -> r1 [] j = j2 -> r2 [] j = j3 -> r3]

\* Three deploys and a rollback one after the other behind nginx, with pruning.
InTurn ==
  [backend |-> "nginx", keep |-> 2, serial |-> TRUE,
   jobs |-> {j1, j2, j3, j4}, rollbacks |-> {j4},
   release |-> ReleasesOf({j1, j2, j3, j4}),
   faultKinds |-> AllFaults, maxFaults |-> 2]

\* A release is deployed a second time, where the first may have left a part of it.
Again ==
  [InTurn EXCEPT !.keep = 1, !.jobs = {j1, j2}, !.rollbacks = {},
                 !.release = [j \in {j1, j2} |-> r1],
                 !.faultKinds = {"remove", "copy", "crash"}]

\* Two overlapping deploys behind Caddy, and a rollback to the first, with nothing to
\* prune.
Overlap ==
  [backend |-> "caddy", keep |-> 3, serial |-> FALSE,
   jobs |-> {j1, j2, j4}, rollbacks |-> {j4}, release |-> ReleasesOf({j1, j2, j4}),
   faultKinds |-> {"write", "reload", "crash"}, maxFaults |-> 1]

\* Two overlapping deploys, behind each proxy, with more faults.
OverlapPair(backend) ==
  [Overlap EXCEPT !.backend = backend, !.jobs = {j1, j2}, !.rollbacks = {},
                  !.release = ReleasesOf({j1, j2}),
                  !.faultKinds = {"write", "refuse", "test", "reload", "crash"},
                  !.maxFaults = 2]

\* The same of one release, whose copies get in each other's way.
SameRelease == [OverlapPair("caddy") EXCEPT !.release = [j \in {j1, j2} |-> r1]]

\* Two deploys in turn; nginx may refuse the file of one.
Refused ==
  [InTurn EXCEPT !.keep = 1, !.jobs = {j1, j2}, !.rollbacks = {},
                 !.release = ReleasesOf({j1, j2}),
                 !.faultKinds = {"refuse"}, !.maxFaults = 1]

NginxAndCaddy == {InTurn, Again, Overlap, OverlapPair("caddy"), OverlapPair("nginx"),
                  SameRelease}
RefusedFile   == {Refused}
=============================================================================
