----------------------------- MODULE BlueGreen -----------------------------
(***************************************************************************)
(* Bringing a new image live: deployContainer and what it calls            *)
(* (src/internal/executor/health.go, deploy.go) with the proxy             *)
(* configuration of src/internal/executor/proxy.go.                        *)
(*                                                                         *)
(* A deploy is one DEPLOY or RESTART command that has its image.  If the   *)
(* app has domains and a proxy is managed, the new container is started    *)
(* beside the old one, health-gated, and the proxy is pointed at it        *)
(* (blueGreenSwap); otherwise the image is tried in a throwaway container  *)
(* and then replaces the one with the fixed name (smokeTest,               *)
(* runContainer).  Every docker, nginx, caddy and systemctl call is a step *)
(* of its own, so deploys, crashes and other reloads interleave with them. *)
(***************************************************************************)
EXTENDS Integers, FiniteSets

CONSTANTS Apps, Domains,
          Deploys,
          Scenarios,   \* the hosts and their deploys, see ScenarioType
          Serial,      \* TRUE: one deploy of an app at a time
          Absent       \* no container, no route

\* A step's command fails; the deadline of a deploy expires; the agent dies.
AllFaults == {"run", "attach", "write", "test", "reload", "deadline", "crash"}

\* What proxy the host has, of which app each deploy is and with which domains
\* in its payload, and whether the proxy is also reloaded by others; the faults
\* that may happen, and the bound on their number.
ScenarioType == [backend : {"caddy", "nginx", "none"}, appOf : [Deploys -> Apps],
                 hosts : [Deploys -> SUBSET Domains], otherReloads : BOOLEAN,
                 faultKinds : SUBSET AllFaults, maxFaults : Nat]

ASSUME BlueGreenAssumption ==
  /\ Scenarios \subseteq ScenarioType /\ Serial \in BOOLEAN
  /\ Absent \notin Deploys

VARIABLES
  scenario, \* the host and its deploys, never changed
  healthy,  \* the deploys whose image boots and passes its health check
  image,    \* per container name, the deploy whose image runs in it
  disk,     \* per app, the route in the proxy's configuration file
  loaded,   \* per app, the route the proxy works with
  stale,    \* the apps whose file was written and then not taken over, because
            \* the reload failed, and has not been since by a deploy of the app
  pc,       \* per deploy, the step it is at
  expired,  \* per deploy, whether its context's deadline has passed
  saved,    \* per deploy, the configuration read before it was rewritten
  targets,  \* per deploy, the containers it still has to retire
  last,     \* per app, the deploy that succeeded last
  faults    \* faults so far

hostVars   == <<scenario, healthy>>
dockerVars == <<image>>
proxyVars  == <<disk, loaded, stale>>
localVars  == <<saved, targets>>
vars == <<hostVars, dockerVars, proxyVars, pc, expired, localVars, last, faults>>

----------------------------------------------------------------------------
(* Containers, routes, steps                                               *)

AppOf == scenario.appOf
Hosts == scenario.hosts

\* What detectProxyBackend finds.
Backend == scenario.backend

Versioned(d) == <<"versioned", d>>
Fixed(a)     == <<"fixed", a>>
Check(a)     == <<"check", a>>

Names == ({"versioned"} \X Deploys) \union ({"fixed", "check"} \X Apps)

ASSUME AbsentIsNoName == Absent \notin Names

AppOfName(n) == IF n[1] = "versioned" THEN AppOf[n[2]] ELSE n[2]

\* Containers that carry the app's label; the check container has none.
Labelled(a) == {n \in Names : AppOfName(n) = a /\ n[1] # "check"}

Exists(n) == image[n] # Absent

\* A container is published on a port of its own, so a route names the
\* container it leads to.
NoRoute == [port |-> Absent, hosts |-> {}]
Routes  == [port : Names \union {Absent}, hosts : SUBSET Domains]
Routed(r) == r.port # Absent

Proxied(d) == Backend # "none" /\ Hosts[d] # {}

Ended == {"ok", "failed", "dead"}
SwapSteps == {"run", "attach", "gate", "write", "fill", "test", "reload", "discard"}
FixedSteps == {"clean", "checkRun", "checkGate", "checkPassed", "checkFailed",
               "replace", "runFixed", "attachFixed"}
Steps == {"queued", "list", "remove"} \union SwapSteps \union FixedSteps
           \union Ended

InProgress(d) == pc[d] \notin Ended \union {"queued"}

TypeOK ==
  /\ scenario \in Scenarios
  /\ healthy \subseteq Deploys
  /\ image \in [Names -> Deploys \union {Absent}]
  /\ disk \in [Apps -> Routes] /\ loaded \in [Apps -> Routes]
  /\ stale \subseteq Apps
  /\ pc \in [Deploys -> Steps]
  /\ expired \in [Deploys -> BOOLEAN]
  /\ saved \in [Deploys -> Routes]
  /\ targets \in [Deploys -> SUBSET Names]
  /\ last \in [Apps -> Deploys \union {Absent}]
  /\ faults \in Nat

Init ==
  /\ scenario \in Scenarios
  /\ healthy \in SUBSET Deploys
  /\ image = [n \in Names |-> Absent]
  /\ disk = [a \in Apps |-> NoRoute] /\ loaded = disk /\ stale = {}
  /\ pc = [d \in Deploys |-> "queued"]
  /\ expired = [d \in Deploys |-> FALSE]
  /\ saved = [d \in Deploys |-> NoRoute]
  /\ targets = [d \in Deploys |-> {}]
  /\ last = [a \in Apps |-> Absent]
  /\ faults = 0

----------------------------------------------------------------------------
(* Steps, their commands and their faults                                  *)

Fault(kind) ==
  /\ kind \in scenario.faultKinds
  /\ faults < scenario.maxFaults /\ faults' = faults + 1

\* A command started under the deploy's context works unless the deadline has
\* passed (exec.CommandContext then refuses to start it).
Works(d) == ~expired[d] /\ UNCHANGED faults

\* It fails after the deadline, or by a fault.
Fails(d, kind) == IF expired[d] THEN UNCHANGED faults ELSE Fault(kind)

\* Deploy d goes from step s to step t.
Goto(d, s, t) ==
  /\ pc[d] = s /\ pc' = [pc EXCEPT ![d] = t]
  /\ UNCHANGED <<hostVars, expired>>

\* docker run --name n with the image of d; the name has to be free.
DockerRun(n, d) == ~Exists(n) /\ image' = [image EXCEPT ![n] = d]

\* docker rm -f of the names in S, whether they exist or not.
DockerRm(S) == image' = [n \in Names |-> IF n \in S THEN Absent ELSE image[n]]

\* A docker run that failed may have left the container created.
DockerRunFailed(n, d) == UNCHANGED image \/ DockerRun(n, d)

----------------------------------------------------------------------------
(* deployContainer: which path                                             *)

Start(d) ==
  /\ Serial => \A e \in Deploys : AppOf[e] = AppOf[d] => ~InProgress(e)
  /\ Goto(d, "queued", IF Proxied(d) THEN "run" ELSE "clean")
  /\ UNCHANGED <<dockerVars, proxyVars, localVars, last, faults>>

----------------------------------------------------------------------------
(* blueGreenSwap                                                           *)

RunNew(d) ==
  /\ \/ Works(d) /\ DockerRun(Versioned(d), d) /\ Goto(d, "run", "attach")
     \/ /\ Fails(d, "run") /\ Goto(d, "run", "discard")
        /\ DockerRunFailed(Versioned(d), d)
  /\ UNCHANGED <<proxyVars, localVars, last>>

\* connectNetworks and assignedHostPort on the new container.
Attach(d) ==
  /\ \/ Works(d) /\ Exists(Versioned(d)) /\ Goto(d, "attach", "gate")
     \/ /\ Goto(d, "attach", "discard")
        /\ IF Exists(Versioned(d)) THEN Fails(d, "attach") ELSE UNCHANGED faults
  /\ UNCHANGED <<dockerVars, proxyVars, localVars, last>>

\* What waitForPort asks of a container within its timeout.
GatePasses(n) == Exists(n) /\ image[n] \in healthy

Gate(d) ==
  /\ Goto(d, "gate", IF ~expired[d] /\ GatePasses(Versioned(d))
                     THEN "write" ELSE "discard")
  /\ UNCHANGED <<dockerVars, proxyVars, localVars, last, faults>>

\* Faulty variant: an existing file keeps its domains with either backend.
NewRouteOldHosts(d, old) ==
  IF Routed(old) THEN [old EXCEPT !.port = Versioned(d)]
                 ELSE [port |-> Versioned(d), hosts |-> Hosts[d]]

\* What configureProxy makes of the app's configuration file: Caddy's snippet
\* is written anew; an nginx file that exists gets its port replaced, and
\* keeps the names it was first written with.
NewRoute(d, old) ==
  IF Backend = "nginx" /\ Routed(old)
  THEN [old EXCEPT !.port = Versioned(d)]
  ELSE [port |-> Versioned(d), hosts |-> Hosts[d]]

\* The step that follows the writing of the file.
AfterFill == IF Backend = "nginx" THEN "test" ELSE "reload"

\* os.WriteFile opens the file, which empties it, or cannot open it.
Write(d) ==
  LET a == AppOf[d] IN
  /\ \/ /\ Goto(d, "write", "fill") /\ UNCHANGED faults
        /\ saved' = [saved EXCEPT ![d] = disk[a]]
        /\ disk' = [disk EXCEPT ![a] = NoRoute]
     \/ Goto(d, "write", "discard") /\ Fault("write") /\ UNCHANGED <<saved, disk>>
  /\ UNCHANGED <<dockerVars, loaded, stale, targets, last>>

\* It writes the file, or the disk is full and the file stays without a route.
Fill(d) ==
  /\ \/ /\ Goto(d, "fill", AfterFill) /\ UNCHANGED faults
        /\ disk' = [disk EXCEPT ![AppOf[d]] = NewRoute(d, saved[d])]
     \/ Goto(d, "fill", "discard") /\ Fault("write") /\ UNCHANGED disk
  /\ UNCHANGED <<dockerVars, loaded, stale, localVars, last>>

\* nginx -t; a failure puts back what was there, or removes the new file.
Test(d) ==
  /\ \/ Works(d) /\ Goto(d, "test", "reload") /\ UNCHANGED disk
     \/ /\ Fails(d, "test") /\ Goto(d, "test", "discard")
        /\ disk' = [disk EXCEPT ![AppOf[d]] = saved[d]]
  /\ UNCHANGED <<dockerVars, loaded, stale, localVars, last>>

\* Faulty variant: the proxy does not take the files over.
ReloadNothing(d) ==
  /\ \/ Works(d) /\ Goto(d, "reload", "list")
     \/ Fails(d, "reload") /\ Goto(d, "reload", "discard")
  /\ UNCHANGED <<dockerVars, proxyVars, localVars, last>>

\* systemctl reload: the proxy takes over the files of every app.
Reload(d) ==
  /\ \/ /\ Works(d) /\ Goto(d, "reload", "list")
        /\ loaded' = disk /\ stale' = stale \ {AppOf[d]}
     \/ /\ Fails(d, "reload") /\ Goto(d, "reload", "discard")
        /\ UNCHANGED loaded /\ stale' = stale \union {AppOf[d]}
  /\ UNCHANGED <<dockerVars, disk, localVars, last>>

\* discard runs under a context of its own, without a deadline.
Discard(d) ==
  /\ Goto(d, "discard", "failed")
  /\ DockerRm({Versioned(d)})
  /\ UNCHANGED <<proxyVars, localVars, last, faults>>

----------------------------------------------------------------------------
(* retireOldContainers, on both paths                                      *)

\* The container that has just gone live, or is about to.
Keep(d) == IF Proxied(d) THEN Versioned(d) ELSE Fixed(AppOf[d])

\* Faulty variant: only the legacy name.
ToRetireLegacy(d) == {Fixed(AppOf[d])}

\* docker ps -a with the app's label, and the legacy name.
ToRetire(d) ==
  {n \in Labelled(AppOf[d]) : Exists(n)} \union {Fixed(AppOf[d])}

\* Faulty variant: the new container is retired with the others.
ListAll(d) ==
  /\ Goto(d, "list", "remove")
  /\ targets' = [targets EXCEPT ![d] = IF expired[d] THEN {} ELSE ToRetire(d)]
  /\ UNCHANGED <<dockerVars, proxyVars, saved, last, faults>>

List(d) ==
  /\ Goto(d, "list", "remove")
  /\ targets' = [targets EXCEPT ![d] =
                   IF expired[d] THEN {} ELSE ToRetire(d) \ {Keep(d)}]
  /\ UNCHANGED <<dockerVars, proxyVars, saved, last, faults>>

\* Faulty variant: a removal that fails is tried again.
RemoveOneRetried(d, n) ==
  /\ n \in targets[d]
  /\ Goto(d, "remove", "remove")
  /\ IF expired[d] THEN UNCHANGED <<image, targets>>
                   ELSE /\ DockerRm({n})
                        /\ targets' = [targets EXCEPT ![d] = @ \ {n}]
  /\ UNCHANGED <<proxyVars, saved, last, faults>>

\* docker rm -f of one of them; its error is ignored.
RemoveOne(d, n) ==
  /\ n \in targets[d]
  /\ Goto(d, "remove", "remove")
  /\ targets' = [targets EXCEPT ![d] = @ \ {n}]
  /\ IF expired[d] THEN UNCHANGED image ELSE DockerRm({n})
  /\ UNCHANGED <<proxyVars, saved, last, faults>>

Succeed(d, s) ==
  Goto(d, s, "ok") /\ last' = [last EXCEPT ![AppOf[d]] = d]

\* The proxied deploy is done; on the fallback path the new container is next.
Removed(d) ==
  /\ targets[d] = {}
  /\ IF Proxied(d) THEN Succeed(d, "remove")
                   ELSE Goto(d, "remove", "runFixed") /\ UNCHANGED last
  /\ UNCHANGED <<dockerVars, proxyVars, localVars, faults>>

----------------------------------------------------------------------------
(* smokeTest                                                               *)

\* Faulty variant: the container with the fixed name is removed.
CleanFixed(d) ==
  /\ Goto(d, "clean", "checkRun")
  /\ IF expired[d] THEN UNCHANGED image ELSE DockerRm({Fixed(AppOf[d])})
  /\ UNCHANGED <<proxyVars, localVars, last, faults>>

\* A leftover of an interrupted run is removed.
Clean(d) ==
  /\ Goto(d, "clean", "checkRun")
  /\ IF expired[d] THEN UNCHANGED image ELSE DockerRm({Check(AppOf[d])})
  /\ UNCHANGED <<proxyVars, localVars, last, faults>>

CheckRun(d) ==
  LET n == Check(AppOf[d]) IN
  /\ \/ Works(d) /\ DockerRun(n, d) /\ Goto(d, "checkRun", "checkGate")
     \/ /\ Goto(d, "checkRun", "checkFailed")
        /\ IF Exists(n) THEN UNCHANGED <<image, faults>>
                        ELSE Fails(d, "run") /\ DockerRunFailed(n, d)
  /\ UNCHANGED <<proxyVars, localVars, last>>

\* Faulty variant: a container that has started is good enough.
CheckGateStarted(d) ==
  /\ Goto(d, "checkGate", IF ~expired[d] /\ Exists(Check(AppOf[d]))
                          THEN "checkPassed" ELSE "checkFailed")
  /\ UNCHANGED <<dockerVars, proxyVars, localVars, last, faults>>

\* assignedHostPort and waitForPort: the container is addressed by its name,
\* whoever started it.
CheckGate(d) ==
  /\ \/ /\ Goto(d, "checkGate", IF ~expired[d] /\ GatePasses(Check(AppOf[d]))
                                THEN "checkPassed" ELSE "checkFailed")
        /\ UNCHANGED faults
     \/ Goto(d, "checkGate", "checkFailed") /\ Fault("attach")
  /\ UNCHANGED <<dockerVars, proxyVars, localVars, last>>

\* The deferred removal of the check container, whatever the verdict.
CheckEnds(d) ==
  /\ \/ Goto(d, "checkPassed", "replace")
     \/ Goto(d, "checkFailed", "failed")
  /\ DockerRm({Check(AppOf[d])})
  /\ UNCHANGED <<proxyVars, localVars, last, faults>>

----------------------------------------------------------------------------
(* runContainer                                                            *)

\* The container with the fixed name goes first, the labelled ones follow.
Replace(d) ==
  /\ Goto(d, "replace", "list")
  /\ IF expired[d] THEN UNCHANGED image ELSE DockerRm({Fixed(AppOf[d])})
  /\ UNCHANGED <<proxyVars, localVars, last, faults>>

RunFixed(d) ==
  LET n == Fixed(AppOf[d]) IN
  /\ \/ Works(d) /\ DockerRun(n, d) /\ Goto(d, "runFixed", "attachFixed")
     \/ /\ Goto(d, "runFixed", "failed")
        /\ IF Exists(n) THEN UNCHANGED <<image, faults>>
                        ELSE Fails(d, "run") /\ DockerRunFailed(n, d)
  /\ UNCHANGED <<proxyVars, localVars, last>>

AttachFixed(d) ==
  /\ \/ Works(d) /\ Succeed(d, "attachFixed")
     \/ Fails(d, "attach") /\ Goto(d, "attachFixed", "failed") /\ UNCHANGED last
  /\ UNCHANGED <<dockerVars, proxyVars, localVars>>

----------------------------------------------------------------------------
(* Around the deploys                                                      *)

\* DEPLOY_TIMEOUT or COMMAND_TIMEOUT passes in the middle of a deploy.
Expire(d) ==
  /\ InProgress(d) /\ ~expired[d]
  /\ Fault("deadline")
  /\ expired' = [expired EXCEPT ![d] = TRUE]
  /\ UNCHANGED <<hostVars, dockerVars, proxyVars, pc, localVars, last>>

\* The agent dies; containers and configuration files stay as they are.
Crash ==
  /\ \E d \in Deploys : InProgress(d)
  /\ Fault("crash")
  /\ pc' = [d \in Deploys |-> IF InProgress(d) THEN "dead" ELSE pc[d]]
  /\ UNCHANGED <<hostVars, dockerVars, proxyVars, expired, localVars, last>>

\* The proxy is reloaded for a reason of its own: a static site is published,
\* certbot renews, the host reboots.
ReloadElsewhere ==
  /\ scenario.otherReloads /\ loaded # disk /\ loaded' = disk
  /\ UNCHANGED <<hostVars, dockerVars, disk, stale, pc, expired, localVars, last, faults>>

Step(d) ==
  \/ RunNew(d) \/ Attach(d) \/ Gate(d) \/ Write(d) \/ Fill(d) \/ Test(d) \/ Reload(d)
  \/ Discard(d) \/ List(d) \/ (\E n \in Names : RemoveOne(d, n)) \/ Removed(d)
  \/ Clean(d) \/ CheckRun(d) \/ CheckGate(d) \/ CheckEnds(d)
  \/ Replace(d) \/ RunFixed(d) \/ AttachFixed(d)

\* No deploy is left to run and none is running.
Quiet == (\A d \in Deploys : pc[d] \in Ended) /\ UNCHANGED vars

Next ==
  \/ \E d \in Deploys : Start(d) \/ Step(d) \/ Expire(d)
  \/ Crash \/ ReloadElsewhere \/ Quiet

Spec == Init /\ [][Next]_vars

\* Commands end: each runs under the deploy's deadline, and discard's rm ends.
Fairness == \A d \in Deploys : WF_vars(Step(d))

FairSpec == Spec /\ Fairness

----------------------------------------------------------------------------
(* Properties                                                              *)

\* "At no instant is nothing listening" (health.go:24): the route the proxy
\* works with leads to a container that exists and passed its health gate,
\* over the steps of other deploys, crashes and reloads from elsewhere.
AlwaysListening ==
  \A a \in Apps : Routed(loaded[a]) => GatePasses(loaded[a].port)

LoadedAlive ==
  \A a \in Apps \ stale : Routed(loaded[a]) => GatePasses(loaded[a].port)

FileAlive ==
  \A a \in Apps \ stale : Routed(disk[a]) => GatePasses(disk[a].port)

\* The same of every app whose file is not left over from a failed reload, and
\* of that file too: whatever reloads the proxy next, the app is not pointed at
\* a container that is gone (the comment of blueGreenSwap, health.go:72-73: a
\* failure "leaves the old one serving").
RouteAlive == LoadedAlive /\ FileAlive

\* Traffic is on the version that succeeded last, or on one that had passed
\* its gate when the agent died or is past its flip right now; never on a
\* deploy reported as failed or one that was superseded.
RoutedToLatest ==
  \A d \in Deploys :
    AppOf[d] \notin stale /\ loaded[AppOf[d]].port = Versioned(d) =>
      \/ pc[d] = "ok" /\ last[AppOf[d]] = d
      \/ pc[d] \in {"test", "reload", "list", "remove", "dead"}

\* "A broken image never goes live" (health.go:30), on the path without a
\* proxy: the container under the fixed name runs an image that passed.
OnlyHealthyFixed ==
  \A a \in Apps : Exists(Fixed(a)) => image[Fixed(a)] \in healthy

\* A deploy that succeeds within its deadline leaves its container as the only
\* version of the app: previous versions and strays of crashed deploys are gone
\* (retireOldContainers).
OldVersionsRetired ==
  [][\A d \in Deploys : pc[d] # "ok" /\ pc'[d] = "ok" /\ ~expired[d] =>
       \A n \in Labelled(AppOf[d]) : image'[n] # Absent => n = Keep(d)]_vars

\* configureProxy "routes the app's domains" (proxy.go:71): when a proxied
\* deploy succeeds its domains are the ones the proxy works with.
DomainsRouted ==
  [][\A d \in Deploys : Proxied(d) /\ pc[d] # "ok" /\ pc'[d] = "ok" =>
       loaded'[AppOf[d]].hosts = Hosts[d]]_vars

\* A deploy on the path without a proxy takes the app down only for an image
\* that has passed: until then the running container stays (health.go:39).
FixedKeptUntilPassed ==
  [][\A a \in Apps : Exists(Fixed(a)) /\ image'[Fixed(a)] = Absent =>
       \E d \in Deploys : /\ AppOf[d] = a /\ d \in healthy
                          /\ pc[d] \in {"replace", "remove"}]_vars

\* Every deploy that starts ends, also when its deadline passes in the middle.
EveryDeployEnds == \A d \in Deploys : InProgress(d) ~> pc[d] \in Ended
============================================================================
