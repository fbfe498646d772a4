--------------------------- MODULE BlueGreenProofs ---------------------------
(***************************************************************************)
(* For any apps, deploys, hosts and faults, where one deploy of an app waits *)
(* for the other: without a proxy a broken image never gets the fixed name; *)
(* a success leaves one version of the app and its domains routed; routes   *)
(* lead to live containers of the version that succeeded last.              *)
(***************************************************************************)
EXTENDS BlueGreen, TLAPS

LEMMA ScenarioFacts ==
  ASSUME TypeOK
  PROVE  AppOf \in [Deploys -> Apps] /\ Hosts \in [Deploys -> SUBSET Domains]
  BY BlueGreenAssumption DEF TypeOK, ScenarioType, AppOf, Hosts

LEMMA NameFacts ==
  /\ \A d \in Deploys : Versioned(d) \in Names
  /\ \A a \in Apps : Fixed(a) \in Names /\ Check(a) \in Names
  BY DEF Names, Versioned, Fixed, Check

LEMMA DockerTypes ==
  ASSUME image \in [Names -> Deploys \union {Absent}], NEW d \in Deploys
  PROVE  /\ \A n \in Names : DockerRun(n, d) => image' \in [Names -> Deploys \union {Absent}]
         /\ \A n \in Names : DockerRunFailed(n, d) => image' \in [Names -> Deploys \union {Absent}]
         /\ \A S \in SUBSET Names : DockerRm(S) => image' \in [Names -> Deploys \union {Absent}]
  BY DEF DockerRun, DockerRunFailed, DockerRm

LEMMA TypeInit == Init => TypeOK
<1>1. SUFFICES ASSUME Init PROVE TypeOK
  OBVIOUS
<1>2. NoRoute \in Routes
  BY DEF NoRoute, Routes
<1>3. QED
  BY <1>1, <1>2 DEF Init, TypeOK, Steps

\* The types of the variables, one by one, so that a step names those it changes.
TypeImage == image \in [Names -> Deploys \union {Absent}]
TypeRest  ==
  /\ scenario \in Scenarios /\ healthy \subseteq Deploys
  /\ disk \in [Apps -> Routes] /\ loaded \in [Apps -> Routes] /\ stale \subseteq Apps
  /\ pc \in [Deploys -> Steps] /\ expired \in [Deploys -> BOOLEAN]
  /\ saved \in [Deploys -> Routes] /\ targets \in [Deploys -> SUBSET Names]
  /\ last \in [Apps -> Deploys \union {Absent}] /\ faults \in Nat

LEMMA RestStep ==
  ASSUME TypeOK, NEW d \in Deploys, Start(d) \/ Step(d) \/ Expire(d)
  PROVE  TypeRest'
<1>0. AppOf[d] \in Apps /\ Hosts[d] \in SUBSET Domains
  BY ScenarioFacts
<1>1. CASE Start(d) \/ RunNew(d) \/ Attach(d) \/ Gate(d) \/ Discard(d)
  BY <1>1 DEF TypeOK, TypeRest, Start, RunNew, Attach, Gate, Discard, Goto, Works, Fails, Fault, Steps,
     SwapSteps, FixedSteps, Ended, hostVars, proxyVars, localVars
<1>2. CASE Write(d) \/ Fill(d)
  <2>1. NoRoute \in Routes /\ disk[AppOf[d]] \in Routes
    BY <1>0 DEF NoRoute, Routes, TypeOK
  <2>2. NewRoute(d, saved[d]) \in Routes
    <3>1. saved[d] \in Routes /\ Versioned(d) \in Names
      BY NameFacts DEF TypeOK
    <3>2. [port |-> Versioned(d), hosts |-> Hosts[d]] \in Routes
      BY <1>0, <3>1 DEF Routes
    <3>3. [saved[d] EXCEPT !.port = Versioned(d)] \in Routes
      BY <3>1 DEF Routes
    <3>4. QED
      BY <3>2, <3>3 DEF NewRoute
  <2>3. CASE Write(d)
    BY <1>0, <2>1, <2>3 DEF TypeOK, TypeRest, Write, Goto, Fault, Steps, SwapSteps, hostVars
  <2>4. CASE Fill(d)
    BY <1>0, <2>2, <2>4 DEF TypeOK, TypeRest, Fill, AfterFill, Goto, Fault, Steps, SwapSteps, hostVars, localVars
  <2>5. QED
    BY <1>2, <2>3, <2>4
<1>3. CASE Test(d) \/ Reload(d)
  BY <1>0, <1>3 DEF TypeOK, TypeRest, Test, Reload, Goto, Works, Fails, Fault, Steps, SwapSteps, hostVars,
     localVars
<1>4. CASE List(d) \/ (\E n \in Names : RemoveOne(d, n)) \/ Removed(d)
  <2>1. ToRetire(d) \subseteq Names
    BY <1>0, NameFacts DEF ToRetire, Labelled
  <2>2. CASE List(d)
    BY <2>1, <2>2 DEF TypeOK, TypeRest, List, Goto, Steps, hostVars, proxyVars
  <2>3. ASSUME NEW n \in Names, RemoveOne(d, n)
        PROVE  TypeRest'
    BY <2>3 DEF TypeOK, TypeRest, RemoveOne, Goto, Steps, hostVars, proxyVars
  <2>4. CASE Removed(d)
    BY <1>0, <2>4 DEF TypeOK, TypeRest, Removed, Succeed, Goto, Steps, FixedSteps, Ended, hostVars, proxyVars,
       localVars
  <2>5. QED
    BY <1>4, <2>2, <2>3, <2>4
<1>5. CASE Clean(d) \/ CheckRun(d) \/ CheckGate(d) \/ CheckEnds(d) \/ Replace(d) \/ RunFixed(d)
  BY <1>5 DEF TypeOK, TypeRest, Clean, CheckRun, CheckGate, CheckEnds, Replace, RunFixed, Goto, Works, Fails,
     Fault, Steps, FixedSteps, Ended, hostVars, proxyVars, localVars
<1>6. CASE AttachFixed(d)
  BY <1>0, <1>6 DEF TypeOK, TypeRest, AttachFixed, Succeed, Goto, Works, Fails, Fault, Steps, Ended, hostVars,
     proxyVars, localVars
<1>7. CASE Expire(d)
  BY <1>7 DEF TypeOK, TypeRest, Expire, Fault, hostVars, proxyVars, localVars
<1>8. QED
  BY <1>1, <1>2, <1>3, <1>4, <1>5, <1>6, <1>7 DEF Step

LEMMA ImageStep ==
  ASSUME TypeOK, NEW d \in Deploys, Start(d) \/ Step(d) \/ Expire(d)
  PROVE  TypeImage'
<1>0. AppOf[d] \in Apps /\ TypeImage
  BY ScenarioFacts DEF TypeOK, TypeImage
<1>1. /\ Versioned(d) \in Names /\ Fixed(AppOf[d]) \in Names /\ Check(AppOf[d]) \in Names
  BY <1>0, NameFacts
<1>2. \/ image' = image
      \/ \E n \in Names : DockerRun(n, d) \/ DockerRunFailed(n, d)
      \/ \E S \in SUBSET Names : DockerRm(S)
  <2>1. CASE RunNew(d) \/ CheckRun(d) \/ RunFixed(d)
    BY <1>1, <2>1 DEF RunNew, CheckRun, RunFixed
  <2>2. CASE Discard(d) \/ Clean(d) \/ CheckEnds(d) \/ Replace(d)
    BY <1>1, <2>2 DEF Discard, Clean, CheckEnds, Replace
  <2>3. ASSUME NEW n \in Names, RemoveOne(d, n)
        PROVE  image' = image \/ DockerRm({n})
    BY <2>3 DEF RemoveOne
  <2>4. QED
    BY <2>1, <2>2, <2>3 DEF Step, Start, Attach, Gate, Write, Fill, Test, Reload, List, Removed, CheckGate,
       AttachFixed, Expire, dockerVars
<1>3. QED
  BY <1>0, <1>2, DockerTypes DEF TypeImage

LEMMA TypeStep ==
  ASSUME TypeOK, [Next]_vars
  PROVE  TypeOK'
<1>1. ASSUME NEW d \in Deploys, Start(d) \/ Step(d) \/ Expire(d)
      PROVE  TypeOK'
  BY <1>1, RestStep, ImageStep DEF TypeOK, TypeRest, TypeImage
<1>2. CASE Crash
  BY <1>2 DEF TypeOK, Crash, Fault, Steps, Ended, hostVars, dockerVars, proxyVars, localVars
<1>3. CASE ReloadElsewhere
  BY <1>3 DEF TypeOK, ReloadElsewhere, hostVars, dockerVars, localVars
<1>4. CASE UNCHANGED vars
  BY <1>4 DEF TypeOK, vars, hostVars, dockerVars, proxyVars, localVars
<1>5. QED
  BY <1>1, <1>2, <1>3, <1>4 DEF Next, Quiet

\* The types of the state, over all steps.
THEOREM TypeCorrect == Spec => []TypeOK
<1>1. QED
  BY TypeInit, TypeStep, PTL DEF Spec

----------------------------------------------------------------------------
(* What passed its gate                                                    *)

LEMMA NamesDiffer ==
  /\ \A a, d : Versioned(d) # Fixed(a) /\ Versioned(d) # Check(a)
  /\ \A a, b : Fixed(a) # Check(b)
  /\ \A a, b : (Fixed(a) = Fixed(b) => a = b) /\ (Check(a) = Check(b) => a = b)
  /\ \A d, e : Versioned(d) = Versioned(e) => d = e
  /\ \A d : AppOfName(Versioned(d)) = AppOf[d]
  /\ \A a : AppOfName(Fixed(a)) = a /\ AppOfName(Check(a)) = a
  BY DEF Versioned, Fixed, Check, AppOfName

Passed == {"write", "fill", "test", "reload", "list", "remove",
           "checkPassed", "replace", "runFixed", "attachFixed"}

\* One deploy of an app at a time; a check container is that of the deploy at its gate;
\* a deploy past its gate has an image that passes; it retires its own app's
\* containers.
OneAtATime ==
  \A d, e \in Deploys : AppOf[d] = AppOf[e] /\ InProgress(d) /\ InProgress(e) => d = e
OwnContainers ==
  /\ \A d \in Deploys : image[Versioned(d)] \in {d, Absent}
  /\ \A d \in Deploys : pc[d] = "checkGate" => image[Check(AppOf[d])] \in {d, Absent}
PassedHealthy == \A d \in Deploys : pc[d] \in Passed => d \in healthy
OwnTargets == \A d \in Deploys : \A n \in targets[d] : AppOfName(n) = AppOf[d]

PassInv == OneAtATime /\ OwnContainers /\ PassedHealthy /\ OwnTargets /\ OnlyHealthyFixed

LEMMA PassInit == Init => PassInv
  BY NameFacts DEF Init, PassInv, OneAtATime, OwnContainers, PassedHealthy, OwnTargets,
     OnlyHealthyFixed, InProgress, Passed, Exists

\* A step of one deploy leaves the host and the places of the others alone.
LEMMA StepIsLocal ==
  ASSUME TypeOK, NEW d \in Deploys, Start(d) \/ Step(d) \/ Expire(d)
  PROVE  /\ scenario' = scenario /\ healthy' = healthy
         /\ \A e \in Deploys \ {d} : pc'[e] = pc[e] /\ targets'[e] = targets[e]
         /\ InProgress(d) \/ Start(d)
<1>1. /\ scenario' = scenario /\ healthy' = healthy
      /\ \A e \in Deploys \ {d} : pc'[e] = pc[e]
      /\ InProgress(d) \/ Start(d)
  BY DEF TypeOK, Step, Start, RunNew, Attach, Gate, Write, Fill, AfterFill, Test, Reload, Discard, List,
     RemoveOne, Removed, Succeed, Clean, CheckRun, CheckGate, CheckEnds, Replace, RunFixed, AttachFixed, Expire,
     Goto, hostVars, InProgress, Ended
<1>2. \A e \in Deploys \ {d} : targets'[e] = targets[e]
  BY DEF TypeOK, Step, Start, RunNew, Attach, Gate, Write, Fill, Test, Reload, Discard, List, RemoveOne, Removed,
     Clean, CheckRun, CheckGate, CheckEnds, Replace, RunFixed, AttachFixed, Expire, localVars
<1>3. QED
  BY <1>1, <1>2

\* What a step of d can do to a container.
Started(d, n) ==
  /\ ~Exists(n) /\ image'[n] = d
  /\ \/ n = Versioned(d) /\ pc[d] = "run"
     \/ n = Check(AppOf[d]) /\ pc[d] = "checkRun"
     \/ n = Fixed(AppOf[d]) /\ pc[d] = "runFixed"

Stopped(d, n) ==
  /\ image'[n] = Absent
  /\ \/ n = Versioned(d) /\ pc[d] = "discard"
     \/ n = Check(AppOf[d]) /\ pc[d] \in {"clean", "checkPassed", "checkFailed"}
     \/ n = Fixed(AppOf[d]) /\ pc[d] = "replace"
     \/ n \in targets[d] /\ pc[d] = "remove"

LEMMA ImageEffect ==
  ASSUME TypeOK, NEW d \in Deploys, Start(d) \/ Step(d) \/ Expire(d), NEW n \in Names
  PROVE  image'[n] = image[n] \/ Started(d, n) \/ Stopped(d, n)
<1>0. image \in [Names -> Deploys \union {Absent}]
  BY DEF TypeOK
<1>1. CASE RunNew(d) \/ CheckRun(d) \/ RunFixed(d)
  BY <1>0, <1>1 DEF RunNew, CheckRun, RunFixed, DockerRunFailed, DockerRun, Goto, Started
<1>2. CASE Discard(d) \/ Clean(d) \/ CheckEnds(d) \/ Replace(d)
  BY <1>0, <1>2 DEF Discard, Clean, CheckEnds, Replace, DockerRm, Goto, Stopped
<1>3. ASSUME NEW m \in Names, RemoveOne(d, m)
      PROVE  image'[n] = image[n] \/ Stopped(d, n)
  BY <1>0, <1>3 DEF RemoveOne, DockerRm, Goto, Stopped
<1>4. QED
  BY <1>1, <1>2, <1>3 DEF Step, Start, Attach, Gate, Write, Fill, Test, Reload, List, Removed, CheckGate, AttachFixed,
     Expire, dockerVars

LEMMA PassDeployStep ==
  ASSUME Serial, TypeOK, PassInv, NEW d \in Deploys, Start(d) \/ Step(d) \/ Expire(d)
  PROVE  PassInv'
<1>0. /\ scenario' = scenario /\ healthy' = healthy /\ AppOf' = AppOf
      /\ \A e \in Deploys \ {d} : pc'[e] = pc[e] /\ targets'[e] = targets[e]
      /\ InProgress(d) \/ Start(d)
  BY StepIsLocal DEF AppOf
<1>1. OneAtATime'
  <2>1. \A e \in Deploys \ {d} : InProgress(e)' <=> InProgress(e)
    BY <1>0 DEF InProgress
  <2>2. Start(d) => \A e \in Deploys : AppOf[e] = AppOf[d] => ~InProgress(e)
    BY DEF Start
  <2>3. QED
    BY <1>0, <2>1, <2>2 DEF PassInv, OneAtATime
<1>2. OwnContainers'
  <2>1. ASSUME NEW e \in Deploys
        PROVE  image'[Versioned(e)] \in {e, Absent}
    <3>1. Versioned(e) \in Names
      BY NameFacts
    <3>2. QED
      BY <3>1, ImageEffect, NamesDiffer DEF PassInv, OwnContainers, Started, Stopped
  <2>2. ASSUME NEW e \in Deploys, pc'[e] = "checkGate"
        PROVE  image'[Check(AppOf[e])] \in {e, Absent}
    <3>1. Check(AppOf[e]) \in Names
      BY ScenarioFacts, NameFacts
    <3>2. CASE pc[e] = "checkGate"
      <4>1. ~Started(d, Check(AppOf[e]))
        BY <3>2, NamesDiffer DEF PassInv, OneAtATime, Started, InProgress, Ended
      <4>2. QED
        BY <3>1, <3>2, <4>1, ImageEffect DEF PassInv, OwnContainers, Stopped
    <3>3. CASE pc[e] # "checkGate"
      <4>1. e = d /\ CheckRun(d)
        BY <1>0, <2>2, <3>3 DEF TypeOK, Step, Start, RunNew, Attach, Gate, Write, Fill, AfterFill, Test, Reload,
           Discard, List, RemoveOne, Removed, Succeed, Clean, CheckGate, CheckEnds, Replace, RunFixed,
           AttachFixed, Expire, Goto
      <4>2. DockerRun(Check(AppOf[d]), d)
        BY <2>2, <4>1 DEF TypeOK, CheckRun, Goto
      <4>3. QED
        BY <3>1, <4>1, <4>2 DEF TypeOK, DockerRun
    <3>4. QED
      BY <3>2, <3>3
  <2>3. QED
    BY <1>0, <2>1, <2>2 DEF OwnContainers
<1>3. PassedHealthy'
  <2>1. CASE pc'[d] \in Passed /\ pc[d] \notin Passed
    <3>1. \/ Gate(d) /\ GatePasses(Versioned(d))
          \/ CheckGate(d) /\ GatePasses(Check(AppOf[d])) /\ pc[d] = "checkGate"
      BY <2>1 DEF TypeOK, Step, Start, RunNew, Attach, Gate, Write, Fill, Test, Reload, Discard, List,
         RemoveOne, Removed, Succeed, Clean, CheckRun, CheckGate, CheckEnds, Replace, RunFixed, AttachFixed,
         Expire, Goto, Passed
    <3>2. d \in healthy
      BY <3>1 DEF PassInv, OwnContainers, GatePasses, Exists
    <3>3. QED
      BY <1>0, <3>2 DEF PassInv, PassedHealthy
  <2>2. CASE ~(pc'[d] \in Passed /\ pc[d] \notin Passed)
    BY <1>0, <2>2 DEF PassInv, PassedHealthy
  <2>3. QED
    BY <2>1, <2>2
<1>4. OwnTargets'
  <2>1. \A n \in targets'[d] : AppOfName(n) = AppOf[d]
    <3>1. \A n \in ToRetire(d) : AppOfName(n) = AppOf[d]
      BY NamesDiffer DEF ToRetire, Labelled
    <3>2. targets'[d] \subseteq targets[d] \union ToRetire(d)
      BY DEF TypeOK, Step, Start, RunNew, Attach, Gate, Write, Fill, Test, Reload, Discard, List, RemoveOne, Removed,
         Clean, CheckRun, CheckGate, CheckEnds, Replace, RunFixed, AttachFixed, Expire, localVars
    <3>3. QED
      BY <3>1, <3>2 DEF PassInv, OwnTargets
  <2>2. \A n : AppOfName(n)' = AppOfName(n)
    BY <1>0 DEF AppOfName
  <2>3. QED
    BY <1>0, <2>1, <2>2 DEF PassInv, OwnTargets
<1>5. OnlyHealthyFixed'
  <2>1. ASSUME NEW a \in Apps, image'[Fixed(a)] # Absent
        PROVE  image'[Fixed(a)] \in healthy
    <3>1. Fixed(a) \in Names
      BY NameFacts
    <3>2. Started(d, Fixed(a)) => d \in healthy
      BY NamesDiffer DEF Started, PassInv, PassedHealthy, Passed
    <3>3. QED
      BY <2>1, <3>1, <3>2, ImageEffect DEF PassInv, OnlyHealthyFixed, Exists, Started, Stopped
  <2>2. QED
    BY <1>0, <2>1 DEF OnlyHealthyFixed, Exists
<1>6. QED
  BY <1>1, <1>2, <1>3, <1>4, <1>5 DEF PassInv

LEMMA PassStep ==
  ASSUME Serial, TypeOK, PassInv, [Next]_vars
  PROVE  PassInv'
<1>1. ASSUME NEW d \in Deploys, Start(d) \/ Step(d) \/ Expire(d)
      PROVE  PassInv'
  BY <1>1, PassDeployStep
<1>2. CASE Crash
  <2>1. /\ scenario' = scenario /\ UNCHANGED <<healthy, image, targets>>
        /\ \A d \in Deploys : pc'[d] = pc[d] \/ pc'[d] = "dead"
    BY <1>2 DEF Crash, hostVars, dockerVars, localVars
  <2>2. AppOf' = AppOf /\ \A n : AppOfName(n)' = AppOfName(n)
    BY <2>1 DEF AppOf, AppOfName
  <2>3. QED
    BY <2>1, <2>2 DEF PassInv, OneAtATime, OwnContainers, PassedHealthy, OwnTargets, OnlyHealthyFixed, Passed,
       InProgress, Ended, Exists
<1>3. CASE ReloadElsewhere \/ UNCHANGED vars
  <2>1. UNCHANGED <<scenario, healthy, image, targets, pc>>
    BY <1>3 DEF ReloadElsewhere, vars, hostVars, dockerVars, localVars
  <2>2. AppOf' = AppOf /\ \A n : AppOfName(n)' = AppOfName(n)
    BY <2>1 DEF AppOf, AppOfName
  <2>3. QED
    BY <2>1, <2>2 DEF PassInv, OneAtATime, OwnContainers, PassedHealthy, OwnTargets, OnlyHealthyFixed, InProgress,
       Exists
<1>4. QED
  BY <1>1, <1>2, <1>3 DEF Next, Quiet

LEMMA PassAlways == ASSUME Serial PROVE Spec => []PassInv
<1>1. TypeOK /\ PassInv /\ [Next]_vars => PassInv'
  BY PassStep
<1>2. QED
  BY <1>1, PassInit, TypeCorrect, PTL DEF Spec

\* Without a proxy a broken image never goes live, where one deploy of an app waits for
\* the other.
THEOREM BrokenNeverLive == ASSUME Serial PROVE Spec => []OnlyHealthyFixed
<1>1. PassInv => OnlyHealthyFixed
  BY DEF PassInv
<1>2. QED
  BY <1>1, PassAlways, PTL

\* Nor is the running container taken down for one.
THEOREM RunningStaysUntilPassed == ASSUME Serial PROVE Spec => FixedKeptUntilPassed
<1>1. ASSUME TypeOK, PassInv, [Next]_vars, NEW a \in Apps, Exists(Fixed(a)), image'[Fixed(a)] = Absent
      PROVE  \E d \in Deploys : /\ AppOf[d] = a /\ d \in healthy
                                /\ pc[d] \in {"replace", "remove"}
  <2>1. PICK d \in Deploys : Start(d) \/ Step(d) \/ Expire(d)
    BY <1>1 DEF Exists, Next, Crash, ReloadElsewhere, Quiet, vars, dockerVars
  <2>2. Fixed(a) \in Names
    BY NameFacts
  <2>3. Stopped(d, Fixed(a))
    BY <1>1, <2>1, <2>2, ImageEffect DEF Exists, Started, BlueGreenAssumption
  <2>4. pc[d] \in {"replace", "remove"} /\ AppOf[d] = a
    BY <1>1, <2>3, NamesDiffer DEF Stopped, PassInv, OwnTargets
  <2>5. QED
    BY <1>1, <2>4 DEF PassInv, PassedHealthy, Passed
<1>2. TypeOK /\ PassInv /\ [Next]_vars
        => [\A a \in Apps : Exists(Fixed(a)) /\ image'[Fixed(a)] = Absent =>
              \E d \in Deploys : /\ AppOf[d] = a /\ d \in healthy
                                 /\ pc[d] \in {"replace", "remove"}]_vars
  BY <1>1
<1>3. QED
  BY <1>2, PassAlways, TypeCorrect, PTL DEF Spec, FixedKeptUntilPassed

\* What counts as the last success changes with one only.
LEMMA LastStep ==
  ASSUME TypeOK, NEW d \in Deploys, Start(d) \/ Step(d) \/ Expire(d)
  PROVE  /\ \A a \in Apps \ {AppOf[d]} : last'[a] = last[a]
         /\ \/ last' = last
            \/ /\ pc[d] \in {"remove", "attachFixed"} /\ pc'[d] = "ok"
               /\ AppOf[d] \in Apps /\ last'[AppOf[d]] = d
<1>1. AppOf[d] \in Apps
  BY ScenarioFacts
<1>2. CASE Removed(d) \/ AttachFixed(d)
  BY <1>1, <1>2 DEF TypeOK, Removed, AttachFixed, Succeed, Goto
<1>3. QED
  BY <1>2 DEF Step, Start, RunNew, Attach, Gate, Write, Fill, Test, Reload, Discard, List, RemoveOne, Clean,
     CheckRun, CheckGate, CheckEnds, Replace, RunFixed, Expire

----------------------------------------------------------------------------
(* What a deploy that succeeds leaves behind                               *)

\* No container of the app's versions is left but the one of the deploy.
OnlyKept(d) == \A n \in Labelled(AppOf[d]) : Exists(n) => n = Keep(d)

\* While containers are being retired, those that are neither listed nor kept are gone;
\* on the path without a proxy the fixed name is then the only one that is taken.
Retiring(d) ==
  /\ pc[d] = "remove" =>
       \A n \in Labelled(AppOf[d]) : Exists(n) => n = Keep(d) \/ n \in targets[d]
  /\ pc[d] \in {"runFixed", "attachFixed"} => OnlyKept(d)

\* A deploy stays on the path it took at its start.
OnItsPath ==
  \A d \in Deploys : /\ pc[d] \in SwapSteps => Proxied(d)
                     /\ pc[d] \in FixedSteps => ~Proxied(d)

RetireInv == OnItsPath /\ \A d \in Deploys : expired[d] \/ Retiring(d)

LEMMA PathStep ==
  ASSUME TypeOK, OnItsPath, [Next]_vars
  PROVE  OnItsPath'
<1>1. ASSUME scenario' = scenario
      PROVE  \A d \in Deploys : Proxied(d)' <=> Proxied(d)
  BY <1>1 DEF Proxied, Backend, Hosts
<1>2. ASSUME NEW d \in Deploys, Start(d) \/ Step(d) \/ Expire(d)
      PROVE  OnItsPath'
  <2>1. scenario' = scenario /\ \A e \in Deploys \ {d} : pc'[e] = pc[e]
    BY <1>2, StepIsLocal
  <2>2. /\ pc'[d] \in SwapSteps => pc[d] \in SwapSteps \/ Proxied(d)
        /\ pc'[d] \in FixedSteps => pc[d] \in FixedSteps \/ ~Proxied(d)
    BY <1>2 DEF TypeOK, Step, Start, RunNew, Attach, Gate, Write, Fill, AfterFill, Test, Reload, Discard, List,
       RemoveOne, Removed, Succeed, Clean, CheckRun, CheckGate, CheckEnds, Replace, RunFixed, AttachFixed,
       Expire, Goto, SwapSteps, FixedSteps
  <2>3. QED
    BY <1>1, <2>1, <2>2 DEF OnItsPath
<1>3. CASE Crash \/ ReloadElsewhere \/ UNCHANGED vars
  <2>1. scenario' = scenario /\ \A d \in Deploys : pc'[d] = pc[d] \/ pc'[d] = "dead"
    BY <1>3 DEF Crash, ReloadElsewhere, vars, hostVars
  <2>2. QED
    BY <1>1, <2>1 DEF OnItsPath, SwapSteps, FixedSteps
<1>4. QED
  BY <1>2, <1>3 DEF Next, Quiet

\* A step of d removes containers of its own app only, and adds none to it but the new
\* one at the start of it.
LEMMA Added ==
  ASSUME TypeOK, PassInv, NEW d \in Deploys, Start(d) \/ Step(d) \/ Expire(d),
         NEW e \in Deploys, NEW n \in Labelled(AppOf[e]), image'[n] # Absent, ~Exists(n)
  PROVE  /\ AppOf[e] = AppOf[d]
         /\ \/ pc[d] = "run" /\ n = Versioned(d)
            \/ pc[d] = "runFixed" /\ n = Fixed(AppOf[d])
<1>1. n \in Names /\ AppOfName(n) = AppOf[e] /\ n[1] # "check"
  BY DEF Labelled
<1>2. Started(d, n)
  BY <1>1, ImageEffect DEF Exists, Stopped
<1>3. n # Check(AppOf[d])
  BY <1>1 DEF Check
<1>4. QED
  BY <1>1, <1>2, <1>3, NamesDiffer DEF Started

LEMMA RetiringElsewhere ==
  ASSUME Serial, TypeOK, PassInv, NEW d \in Deploys, Start(d) \/ Step(d) \/ Expire(d),
         NEW e \in Deploys \ {d}, expired[e] \/ Retiring(e)
  PROVE  (expired[e] \/ Retiring(e))'
<1>1. /\ scenario' = scenario /\ AppOf' = AppOf /\ pc'[e] = pc[e] /\ targets'[e] = targets[e]
      /\ expired[e] => expired'[e]
  BY StepIsLocal DEF AppOf, TypeOK, Step, Start, RunNew, Attach, Gate, Write, Fill, Test, Reload, Discard, List,
     RemoveOne, Removed, Succeed, Clean, CheckRun, CheckGate, CheckEnds, Replace, RunFixed, AttachFixed, Expire,
     Goto
<1>2. Keep(e)' = Keep(e) /\ Labelled(AppOf[e])' = Labelled(AppOf[e])
  BY <1>1 DEF Keep, Proxied, Backend, Hosts, Labelled, AppOfName
<1>3. ASSUME pc[e] \in {"remove", "runFixed", "attachFixed"}, NEW n \in Labelled(AppOf[e]), Exists(n)'
      PROVE  Exists(n)
  <2>1. AppOf[e] # AppOf[d]
    BY <1>3, StepIsLocal DEF PassInv, OneAtATime, InProgress, Ended, Start
  <2>2. QED
    BY <1>3, <2>1, Added DEF Exists
<1>4. CASE Retiring(e)
  BY <1>1, <1>2, <1>3, <1>4 DEF Retiring, OnlyKept
<1>5. QED
  BY <1>1, <1>4

LEMMA RetiringStep ==
  ASSUME TypeOK, PassInv, OnItsPath, NEW d \in Deploys, Start(d) \/ Step(d) \/ Expire(d),
         expired[d] \/ Retiring(d)
  PROVE  (expired[d] \/ Retiring(d))'
<1>1. /\ scenario' = scenario /\ AppOf' = AppOf /\ pc \in [Deploys -> Steps]
      /\ expired[d] => expired'[d]
  BY StepIsLocal DEF AppOf, TypeOK, Step, Start, RunNew, Attach, Gate, Write, Fill, Test, Reload, Discard, List,
     RemoveOne, Removed, Succeed, Clean, CheckRun, CheckGate, CheckEnds, Replace, RunFixed, AttachFixed, Expire,
     Goto
<1>2. Keep(d)' = Keep(d) /\ Labelled(AppOf[d])' = Labelled(AppOf[d])
  BY <1>1 DEF Keep, Proxied, Backend, Hosts, Labelled, AppOfName
<1> SUFFICES ASSUME ~expired[d], Retiring(d) PROVE expired'[d] \/ Retiring(d)'
  BY <1>1
<1>3. ASSUME NEW n \in Labelled(AppOf[d]), Exists(n)', ~Exists(n), pc'[d] \in {"remove", "runFixed", "attachFixed"}
      PROVE  n = Keep(d) /\ pc[d] = "runFixed"
  <2>1. \/ pc[d] = "run" /\ n = Versioned(d)
        \/ pc[d] = "runFixed" /\ n = Fixed(AppOf[d])
    BY <1>3, Added DEF Exists
  <2>2. pc[d] # "run"
    BY <1>1, <1>3 DEF Step, Start, RunNew, Attach, Gate, Write, Fill, Test, Reload, Discard, List, RemoveOne,
       Removed, Succeed, Clean, CheckRun, CheckGate, CheckEnds, Replace, RunFixed, AttachFixed, Expire, Goto
  <2>3. QED
    BY <2>1, <2>2 DEF OnItsPath, FixedSteps, Keep
<1>4. CASE List(d)
  <2>1. /\ pc'[d] = "remove" /\ image' = image
        /\ targets'[d] = ToRetire(d) \ {Keep(d)}
    BY <1>1, <1>4 DEF TypeOK, List, Goto, dockerVars
  <2>2. QED
    BY <1>2, <2>1 DEF Retiring, ToRetire, Exists
<1>5. ASSUME NEW m \in Names, RemoveOne(d, m)
      PROVE  Retiring(d)'
  <2>1. /\ pc'[d] = "remove" /\ pc[d] = "remove" /\ targets'[d] = targets[d] \ {m}
        /\ image'[m] = Absent
    BY <1>1, <1>5 DEF TypeOK, RemoveOne, DockerRm, Goto
  <2>2. \A n \in Labelled(AppOf[d]) : Exists(n)' => Exists(n) /\ n # m
    BY <1>3, <2>1 DEF Exists
  <2>3. QED
    BY <1>2, <2>1, <2>2 DEF Retiring
<1>6. CASE Removed(d)
  <2>1. /\ pc[d] = "remove" /\ targets[d] = {} /\ image' = image
        /\ pc'[d] \in {"ok", "runFixed"}
    BY <1>1, <1>6 DEF TypeOK, Removed, Succeed, Goto, dockerVars
  <2>2. QED
    BY <1>2, <2>1 DEF Retiring, OnlyKept, Exists
<1>7. CASE RunFixed(d)
  <2>1. pc[d] = "runFixed" /\ pc'[d] \in {"attachFixed", "failed"}
    BY <1>1, <1>7 DEF RunFixed, Goto
  <2>2. \A n \in Labelled(AppOf[d]) : pc'[d] = "attachFixed" /\ Exists(n)' => n = Keep(d)
    BY <1>3, <2>1 DEF Retiring, OnlyKept
  <2>3. QED
    BY <1>2, <2>1, <2>2 DEF Retiring, OnlyKept
<1>8. CASE Expire(d)
  BY <1>8 DEF Expire, TypeOK
<1>9. CASE AttachFixed(d)
  BY <1>1, <1>9 DEF AttachFixed, Succeed, Goto, Retiring
<1>10. QED
  <2>1. CASE pc'[d] \notin {"remove", "runFixed", "attachFixed"}
    BY <2>1 DEF Retiring
  <2>2. CASE pc'[d] \in {"remove", "runFixed", "attachFixed"}
    BY <1>1, <1>4, <1>5, <1>6, <1>7, <1>8, <1>9, <2>2 DEF Step, Start, RunNew, Attach, Gate, Write, Fill,
       AfterFill, Test, Reload, Discard, Clean, CheckRun, CheckGate, CheckEnds, Replace, Goto
  <2>3. QED
    BY <2>1, <2>2

LEMMA RetireStep ==
  ASSUME Serial, TypeOK, PassInv, RetireInv, [Next]_vars
  PROVE  RetireInv'
<1>1. OnItsPath'
  BY PathStep DEF RetireInv
<1>2. ASSUME NEW d \in Deploys, Start(d) \/ Step(d) \/ Expire(d)
      PROVE  \A e \in Deploys : (expired[e] \/ Retiring(e))'
  BY <1>2, RetiringStep, RetiringElsewhere DEF RetireInv
<1>3. CASE Crash \/ ReloadElsewhere \/ UNCHANGED vars
  <2>1. /\ scenario' = scenario /\ UNCHANGED <<image, targets, expired>>
        /\ \A d \in Deploys : pc'[d] = pc[d] \/ pc'[d] = "dead"
    BY <1>3 DEF Crash, ReloadElsewhere, vars, hostVars, dockerVars, localVars
  <2>2. \A d \in Deploys : Keep(d)' = Keep(d) /\ Labelled(AppOf[d])' = Labelled(AppOf[d]) /\ AppOf' = AppOf
    BY <2>1 DEF Keep, Proxied, Backend, Hosts, AppOf, Labelled, AppOfName
  <2>3. QED
    BY <1>1, <2>1, <2>2 DEF RetireInv, Retiring, OnlyKept, Exists
<1>4. QED
  BY <1>1, <1>2, <1>3 DEF RetireInv, Next, Quiet

LEMMA RetireAlways == ASSUME Serial PROVE Spec => []RetireInv
<1>1. Init => RetireInv
  BY DEF Init, RetireInv, OnItsPath, Retiring, SwapSteps, FixedSteps
<1>2. TypeOK /\ PassInv /\ RetireInv /\ [Next]_vars => RetireInv'
  BY RetireStep
<1>3. QED
  BY <1>1, <1>2, PassAlways, TypeCorrect, PTL DEF Spec

\* How a deploy comes to its end.
LEMMA SuccessStep ==
  ASSUME TypeOK, [Next]_vars, NEW d \in Deploys, pc[d] # "ok", pc'[d] = "ok"
  PROVE  /\ UNCHANGED <<scenario, image, loaded>>
         /\ \/ pc[d] = "remove" /\ targets[d] = {}
            \/ pc[d] = "attachFixed"
<1>1. PICK e \in Deploys : Start(e) \/ Step(e) \/ Expire(e)
  BY DEF Next, Crash, ReloadElsewhere, Quiet, vars
<1>2. e = d
  BY <1>1, StepIsLocal
<1>3. Removed(d) \/ AttachFixed(d)
  BY <1>1, <1>2 DEF TypeOK, Step, Start, RunNew, Attach, Gate, Write, Fill, AfterFill, Test, Reload, Discard, List,
     RemoveOne, Clean, CheckRun, CheckGate, CheckEnds, Replace, RunFixed, Expire, Goto
<1>4. QED
  BY <1>3 DEF Removed, AttachFixed, Succeed, Goto, hostVars, dockerVars, proxyVars

\* A deploy that succeeds within its deadline is the only version of its app that is
\* left, where one deploy of an app waits for the other.
THEOREM OldVersionsAreRetired == ASSUME Serial PROVE Spec => OldVersionsRetired
<1>1. ASSUME TypeOK, RetireInv, [Next]_vars, NEW d \in Deploys, pc[d] # "ok", pc'[d] = "ok", ~expired[d],
             NEW n \in Labelled(AppOf[d]), image'[n] # Absent
      PROVE  n = Keep(d)
  BY <1>1, SuccessStep DEF RetireInv, Retiring, OnlyKept, Exists
<1>2. TypeOK /\ RetireInv /\ [Next]_vars
        => [\A d \in Deploys : pc[d] # "ok" /\ pc'[d] = "ok" /\ ~expired[d] =>
              \A n \in Labelled(AppOf[d]) : image'[n] # Absent => n = Keep(d)]_vars
  BY <1>1
<1>3. QED
  BY <1>2, RetireAlways, TypeCorrect, PTL DEF Spec, OldVersionsRetired

----------------------------------------------------------------------------
(* The names of a route                                                    *)

\* An nginx file keeps the names it was first written with, so there the deploys of an
\* app have the same ones.
KeepsNames(s) ==
  s.backend = "nginx" =>
    \A d, e \in Deploys : s.appOf[d] = s.appOf[e] => s.hosts[d] = s.hosts[e]

RightNames(a, r) ==
  Routed(r) => \A d \in Deploys : AppOf[d] = a => r.hosts = Hosts[d]

NamesKept ==
  Backend = "nginx" => /\ \A a \in Apps : RightNames(a, disk[a])
                       /\ \A d \in Deploys : RightNames(AppOf[d], saved[d])

\* From the writing of the file on its names are those of the deploy; from the reload on
\* they are what the proxy works with.
Named(d) ==
  Proxied(d) =>
    /\ pc[d] \in {"test", "reload", "list", "remove"} => disk[AppOf[d]].hosts = Hosts[d]
    /\ pc[d] \in {"list", "remove"} => loaded[AppOf[d]].hosts = Hosts[d]

NamesInv == OnItsPath /\ NamesKept /\ \A d \in Deploys : Named(d)

LEMMA NewRouteNames ==
  ASSUME TypeOK, NamesKept, KeepsNames(scenario), NEW d \in Deploys
  PROVE  LET r == NewRoute(d, saved[d])
         IN  r.hosts = Hosts[d] /\ (Backend = "nginx" => RightNames(AppOf[d], r))
<1>1. saved[d] \in Routes
  BY DEF TypeOK
<1>2. NewRoute(d, saved[d]).hosts = Hosts[d]
  BY <1>1 DEF NewRoute, NamesKept, RightNames, Routes
<1>3. Backend = "nginx" => \A e \in Deploys : AppOf[e] = AppOf[d] => Hosts[e] = Hosts[d]
  BY DEF KeepsNames, Backend, AppOf, Hosts
<1>4. QED
  BY <1>2, <1>3 DEF RightNames

\* What a step of d can do to files and to what the proxy works with.
FilesStay(d) ==
  /\ UNCHANGED <<disk, saved, loaded, stale>>
  /\ pc[d] = "write" => pc'[d] \in {"write", "discard"}
  /\ pc[d] = "fill" => pc'[d] \in {"fill", "discard"}
  /\ pc[d] = "test" => pc'[d] \in {"test", "reload"}
  /\ pc[d] = "reload" => pc'[d] = "reload"
  /\ pc'[d] = "list" => pc[d] \in {"list", "replace"}

FileOpened(d) ==
  /\ pc[d] = "write" /\ pc'[d] = "fill" /\ UNCHANGED <<loaded, stale>>
  /\ disk' = [disk EXCEPT ![AppOf[d]] = NoRoute]
  /\ saved' = [saved EXCEPT ![d] = disk[AppOf[d]]]

FileWritten(d) ==
  /\ pc[d] = "fill" /\ pc'[d] = AfterFill /\ UNCHANGED <<saved, loaded, stale>>
  /\ disk' = [disk EXCEPT ![AppOf[d]] = NewRoute(d, saved[d])]

FilePutBack(d) ==
  /\ pc[d] = "test" /\ pc'[d] = "discard" /\ UNCHANGED <<saved, loaded, stale>>
  /\ disk' = [disk EXCEPT ![AppOf[d]] = saved[d]]

TakenOver(d) ==
  /\ pc[d] = "reload" /\ pc'[d] = "list" /\ UNCHANGED <<disk, saved>>
  /\ loaded' = disk /\ stale' = stale \ {AppOf[d]}

NotTakenOver(d) ==
  /\ pc[d] = "reload" /\ pc'[d] = "discard" /\ UNCHANGED <<disk, saved, loaded>>
  /\ stale' = stale \union {AppOf[d]}

LEMMA FileEffect ==
  ASSUME TypeOK, NEW d \in Deploys, Start(d) \/ Step(d) \/ Expire(d)
  PROVE  /\ \/ FilesStay(d) \/ FileOpened(d) \/ FileWritten(d) \/ FilePutBack(d)
            \/ TakenOver(d) \/ NotTakenOver(d)
         /\ pc'[d] = "reload" => pc[d] \in {"fill", "test", "reload"}
         /\ pc'[d] = "test" => pc[d] \in {"fill", "test"}
         /\ pc'[d] = "fill" => pc[d] \in {"write", "fill"}
         /\ pc'[d] = "remove" => pc[d] \in {"list", "remove"}
<1>1. pc \in [Deploys -> Steps]
  BY DEF TypeOK
<1>2. CASE Write(d) \/ Fill(d)
  BY <1>1, <1>2 DEF Write, Fill, AfterFill, Goto, localVars, FilesStay, FileOpened, FileWritten
<1>3. CASE Test(d)
  BY <1>1, <1>3 DEF Test, Goto, localVars, FilesStay, FilePutBack
<1>4. CASE Reload(d)
  BY <1>1, <1>4 DEF Reload, Goto, localVars, TakenOver, NotTakenOver
<1>5. QED
  BY <1>1, <1>2, <1>3, <1>4 DEF Step, Start, RunNew, Attach, Gate, Discard, List, RemoveOne, Removed, Succeed, Clean,
     CheckRun, CheckGate, CheckEnds, Replace, RunFixed, AttachFixed, Expire, Goto, proxyVars, localVars, FilesStay

LEMMA NamesDeployStep ==
  ASSUME Serial, TypeOK, PassInv, NamesInv, KeepsNames(scenario), NEW d \in Deploys,
         Start(d) \/ Step(d) \/ Expire(d)
  PROVE  NamesKept' /\ \A e \in Deploys : Named(e)'
<1>0. /\ scenario' = scenario /\ AppOf' = AppOf /\ Hosts' = Hosts /\ Backend' = Backend
      /\ \A e \in Deploys : Proxied(e)' <=> Proxied(e)
      /\ \A e \in Deploys \ {d} : pc'[e] = pc[e]
      /\ \A e \in Deploys : AppOf[e] \in Apps
      /\ disk \in [Apps -> Routes] /\ saved \in [Deploys -> Routes]
  BY StepIsLocal, ScenarioFacts DEF AppOf, Hosts, Backend, Proxied, TypeOK
<1>1. \A a, r : RightNames(a, r)' <=> (Routed(r) => \A e \in Deploys : AppOf[e] = a => r.hosts = Hosts[e])
  BY <1>0 DEF RightNames, Routed
<1>2. NamesKept'
  <2> SUFFICES ASSUME Backend = "nginx"
               PROVE  /\ \A a \in Apps : RightNames(a, disk'[a])
                      /\ \A e \in Deploys : RightNames(AppOf[e], saved'[e])
    BY <1>0 DEF NamesKept, RightNames, Routed
  <2>1. /\ \A a \in Apps : RightNames(a, disk[a])
        /\ \A e \in Deploys : RightNames(AppOf[e], saved[e])
        /\ RightNames(AppOf[d], NewRoute(d, saved[d])) /\ RightNames(AppOf[d], NoRoute)
    BY NewRouteNames DEF NamesInv, NamesKept, RightNames, Routed, NoRoute
  <2>2. ASSUME NEW a \in Apps
        PROVE  \/ disk'[a] = disk[a]
               \/ a = AppOf[d] /\ disk'[a] \in {NoRoute, NewRoute(d, saved[d]), saved[d]}
    <3>1. \/ disk' = disk
          \/ disk' = [disk EXCEPT ![AppOf[d]] = NoRoute]
          \/ disk' = [disk EXCEPT ![AppOf[d]] = NewRoute(d, saved[d])]
          \/ disk' = [disk EXCEPT ![AppOf[d]] = saved[d]]
      BY FileEffect DEF FilesStay, FileOpened, FileWritten, FilePutBack, TakenOver, NotTakenOver
    <3>2. QED
      BY <1>0, <3>1
  <2>3. \A e \in Deploys : saved'[e] = saved[e] \/ (e = d /\ saved'[e] = disk[AppOf[d]])
    BY <1>0, FileEffect DEF FilesStay, FileOpened, FileWritten, FilePutBack, TakenOver, NotTakenOver
  <2>4. QED
    BY <1>0, <2>1, <2>2, <2>3
<1>3. ASSUME NEW e \in Deploys \ {d}
      PROVE  Named(e)'
  <2>1. CASE AppOf[e] = AppOf[d]
    <3>1. ~InProgress(e)
      BY <1>3, <2>1, StepIsLocal DEF Start, PassInv, OneAtATime
    <3>2. QED
      BY <1>0, <3>1 DEF Named, InProgress, Ended
  <2>2. CASE AppOf[e] # AppOf[d]
    <3>1. /\ disk'[AppOf[e]] = disk[AppOf[e]]
          /\ loaded'[AppOf[e]] \in {loaded[AppOf[e]], disk[AppOf[e]]}
      BY <1>0, <2>2, FileEffect DEF FilesStay, FileOpened, FileWritten, FilePutBack, TakenOver, NotTakenOver
    <3>2. QED
      BY <1>0, <3>1 DEF NamesInv, Named
  <2>3. QED
    BY <2>1, <2>2
<1>4. Named(d)'
  <2> SUFFICES ASSUME Proxied(d)
               PROVE  /\ pc'[d] \in {"test", "reload", "list", "remove"} => disk'[AppOf[d]].hosts = Hosts[d]
                      /\ pc'[d] \in {"list", "remove"} => loaded'[AppOf[d]].hosts = Hosts[d]
    BY <1>0 DEF Named
  <2>1. Named(d) /\ pc[d] # "replace" /\ NewRoute(d, saved[d]).hosts = Hosts[d]
    BY NewRouteNames DEF NamesInv, OnItsPath, FixedSteps
  <2>2. CASE FilesStay(d)
    BY <2>1, <2>2, FileEffect DEF FilesStay, Named
  <2>3. CASE FileWritten(d)
    BY <1>0, <2>1, <2>3 DEF FileWritten, AfterFill
  <2>4. CASE TakenOver(d)
    BY <2>1, <2>4 DEF TakenOver, Named
  <2>5. QED
    BY <2>2, <2>3, <2>4, FileEffect DEF FileOpened, FilePutBack, NotTakenOver
<1>5. QED
  BY <1>2, <1>3, <1>4

LEMMA NamesStep ==
  ASSUME Serial, TypeOK, PassInv, NamesInv, KeepsNames(scenario), [Next]_vars
  PROVE  NamesInv'
<1>1. OnItsPath'
  BY PathStep DEF NamesInv
<1>2. ASSUME NEW d \in Deploys, Start(d) \/ Step(d) \/ Expire(d)
      PROVE  NamesInv'
  BY <1>1, <1>2, NamesDeployStep DEF NamesInv
<1>3. CASE Crash \/ ReloadElsewhere \/ UNCHANGED vars
  <2>1. /\ scenario' = scenario /\ UNCHANGED <<disk, saved>> /\ loaded' \in {loaded, disk}
        /\ \A d \in Deploys : pc'[d] = pc[d] \/ pc'[d] = "dead"
    BY <1>3 DEF Crash, ReloadElsewhere, vars, hostVars, proxyVars, localVars
  <2>2. AppOf' = AppOf /\ Hosts' = Hosts /\ Backend' = Backend
    BY <2>1 DEF AppOf, Hosts, Backend
  <2>3. NamesKept'
    BY <2>1, <2>2 DEF NamesInv, NamesKept, RightNames, Routed
  <2>4. \A d \in Deploys : Named(d)'
    BY <2>1, <2>2 DEF NamesInv, Named, Proxied
  <2>5. QED
    BY <1>1, <2>3, <2>4 DEF NamesInv
<1>4. QED
  BY <1>2, <1>3 DEF Next, Quiet

LEMMA NamesAlways ==
  ASSUME Serial, \A s \in Scenarios : KeepsNames(s)
  PROVE  Spec => []NamesInv
<1>1. Init => NamesInv
  BY DEF Init, NamesInv, OnItsPath, NamesKept, RightNames, Named, Routed, NoRoute, SwapSteps, FixedSteps
<1>2. TypeOK /\ PassInv /\ NamesInv /\ [Next]_vars => NamesInv'
  BY NamesStep DEF TypeOK
<1>3. QED
  BY <1>1, <1>2, PassAlways, TypeCorrect, PTL DEF Spec

\* When a deploy behind a proxy succeeds its domains are the ones the proxy works with:
\* behind Caddy always, behind nginx where the deploys of an app agree on them.
THEOREM DomainsAreRouted ==
  ASSUME Serial, \A s \in Scenarios : KeepsNames(s)
  PROVE  Spec => DomainsRouted
<1>1. ASSUME TypeOK, NamesInv, [Next]_vars, NEW d \in Deploys, Proxied(d), pc[d] # "ok", pc'[d] = "ok"
      PROVE  loaded'[AppOf[d]].hosts = Hosts[d]
  BY <1>1, SuccessStep DEF NamesInv, OnItsPath, Named, FixedSteps
<1>2. TypeOK /\ NamesInv /\ [Next]_vars
        => [\A d \in Deploys : Proxied(d) /\ pc[d] # "ok" /\ pc'[d] = "ok" =>
              loaded'[AppOf[d]].hosts = Hosts[d]]_vars
  BY <1>1
<1>3. QED
  BY <1>2, NamesAlways, TypeCorrect, PTL DEF Spec, DomainsRouted

----------------------------------------------------------------------------
(* Where routes lead                                                       *)

\* An app keeps to one of the two paths.  Behind nginx nothing but the app's own deploy
\* reloads the proxy: another reload could take over a file that nginx -t then refuses.
Steady(s) ==
  /\ \A d, e \in Deploys : s.appOf[d] = s.appOf[e] => (s.hosts[d] = {} <=> s.hosts[e] = {})
  /\ s.backend = "nginx" =>
       /\ ~s.otherReloads
       /\ \A d, e \in Deploys : s.hosts[d] # {} /\ s.hosts[e] # {} => s.appOf[d] = s.appOf[e]

Disk(d)   == disk[AppOf[d]].port
Loaded(d) == loaded[AppOf[d]].port

\* A route may lead to the container of a deploy from its write to its success, and on
\* until it is superseded; of one that failed only where a failed reload left the file.
Allowed(d, p) ==
  p = Versioned(d) =>
    \/ pc[d] \in {"test", "reload", "list", "remove", "dead"}
    \/ pc[d] \in {"discard", "failed"} /\ AppOf[d] \in stale
    \/ pc[d] = "ok" /\ last[AppOf[d]] = d

\* A route of a that leads to p, or to nothing, is in order.
Good(a, p) ==
  /\ \A d \in Deploys : AppOf[d] = a => Allowed(d, p)
  /\ p # Absent => /\ p \in Names /\ AppOfName(p) = a
                   /\ a \in stale \/ GatePasses(p)
                   /\ \A d \in Deploys : AppOf[d] = a => Proxied(d)

\* Past its gate the new container stays; once written, the file leads to it, once
\* reloaded, the proxy too; retirement spares it.
Reached(d) ==
  Proxied(d) =>
    /\ pc[d] \in {"write", "fill", "test", "reload", "list", "remove"} => image[Versioned(d)] = d
    /\ pc[d] \in {"test", "reload", "list", "remove"} => Disk(d) = Versioned(d)
    /\ pc[d] \in {"list", "remove"} => Loaded(d) = Versioned(d)
    /\ Versioned(d) \notin targets[d]

\* What a failed nginx -t puts back is in order as well, and the proxy has not taken over
\* what it replaces.
Restorable(d) ==
  /\ pc[d] \in {"fill", "test"} =>
       saved[d].port # Versioned(d) /\ Good(AppOf[d], saved[d].port)
  /\ pc[d] = "test" => Backend = "nginx" /\ Loaded(d) # Versioned(d)

RouteInv ==
  /\ OnItsPath
  /\ \A a \in Apps : Good(a, disk[a].port) /\ Good(a, loaded[a].port)
  /\ \A d \in Deploys : Reached(d) /\ Restorable(d)

LEMMA RouteInit == Init => RouteInv
<1> SUFFICES ASSUME Init PROVE RouteInv
  OBVIOUS
<1>1. \A a \in Apps : disk[a].port = Absent /\ loaded[a].port = Absent
  BY DEF Init, NoRoute
<1>2. \A a : Good(a, Absent)
  BY AbsentIsNoName, NameFacts DEF Good, Allowed
<1>3. QED
  BY <1>1, <1>2 DEF Init, RouteInv, OnItsPath, Reached, Restorable, SwapSteps, FixedSteps

\* What follows the write of the file.
LEMMA NextSteps ==
  ASSUME TypeOK, NEW d \in Deploys, Start(d) \/ Step(d) \/ Expire(d)
  PROVE  /\ pc[d] = "test" => pc'[d] \in {"test", "reload", "discard"}
         /\ pc[d] = "reload" => pc'[d] \in {"reload", "list", "discard"}
         /\ pc[d] = "list" => pc'[d] \in {"list", "remove"}
         /\ pc[d] = "remove" => pc'[d] = "remove" \/ Removed(d)
         /\ pc[d] = "discard" => pc'[d] \in {"discard", "failed"}
<1>1. pc \in [Deploys -> Steps]
  BY DEF TypeOK
<1>2. CASE Test(d) \/ Reload(d) \/ List(d) \/ Discard(d) \/ (\E n \in Names : RemoveOne(d, n)) \/ Removed(d)
  BY <1>1, <1>2 DEF Test, Reload, List, Discard, RemoveOne, Removed, Succeed, Goto
<1>3. CASE Expire(d)
  BY <1>3 DEF Expire
<1>4. QED
  <2>1. CASE pc[d] \notin {"test", "reload", "list", "remove", "discard"}
    BY <2>1
  <2>2. CASE pc[d] \in {"test", "reload", "list", "remove", "discard"}
    <3> DEFINE Gone == \E n \in Names : RemoveOne(d, n)
    <3>1. Test(d) \/ Reload(d) \/ List(d) \/ Discard(d) \/ Gone \/ Removed(d) \/ Expire(d)
      <4>1. \/ Start(d) \/ RunNew(d) \/ Attach(d) \/ Gate(d) \/ Write(d) \/ Fill(d) \/ Test(d) \/ Reload(d) \/ Discard(d)
            \/ List(d) \/ Gone \/ Removed(d) \/ Clean(d) \/ CheckRun(d) \/ CheckGate(d) \/ CheckEnds(d)
            \/ Replace(d) \/ RunFixed(d) \/ AttachFixed(d) \/ Expire(d)
        BY DEF Step
      <4> HIDE DEF Gone
      <4>2. QED
        BY <2>2, <4>1 DEF Start, RunNew, Attach, Gate, Write, Fill, Clean, CheckRun, CheckGate, CheckEnds,
           Replace, RunFixed, AttachFixed, Succeed, Goto
    <3>2. QED
      BY <1>2, <1>3, <3>1
  <2>3. QED
    BY <2>1, <2>2

\* A step of d leaves the routes of other apps in order.
LEMMA GoodElsewhere ==
  ASSUME TypeOK, PassInv, NEW d \in Deploys, Start(d) \/ Step(d) \/ Expire(d),
         NEW a \in Apps \ {AppOf[d]}, NEW p, Good(a, p)
  PROVE  Good(a, p)'
<1>1. /\ scenario' = scenario /\ healthy' = healthy /\ AppOf' = AppOf
      /\ \A n : AppOfName(n)' = AppOfName(n)
      /\ \A e \in Deploys \ {d} : pc'[e] = pc[e]
      /\ \A e \in Deploys : Proxied(e)' <=> Proxied(e)
  BY StepIsLocal DEF AppOf, AppOfName, Proxied, Backend, Hosts
<1>2. last'[a] = last[a]
  BY LastStep
<1>3. a \in stale' <=> a \in stale
  BY FileEffect DEF FilesStay, FileOpened, FileWritten, FilePutBack, TakenOver, NotTakenOver
<1>4. p # Absent => image'[p] = image[p]
  BY ImageEffect, NamesDiffer DEF Good, Started, Stopped, PassInv, OwnTargets
<1>5. QED
  BY <1>1, <1>2, <1>3, <1>4 DEF Good, Allowed, GatePasses, Exists

\* A route of its own app stays in order over a step of d unless the step supersedes it,
\* or ends the deploy that it leads to.
LEMMA GoodHere ==
  ASSUME Serial, TypeOK, PassInv, OnItsPath, NEW d \in Deploys, Reached(d),
         Start(d) \/ Step(d) \/ Expire(d), NEW p, Good(AppOf[d], p),
         p \notin {Absent, Versioned(d)} => pc[d] \notin {"list", "remove"} /\ ~TakenOver(d),
         p = Versioned(d) => ~FilePutBack(d)
  PROVE  Good(AppOf[d], p)'
<1>0. /\ scenario' = scenario /\ healthy' = healthy /\ AppOf' = AppOf /\ AppOf[d] \in Apps
      /\ \A n : AppOfName(n)' = AppOfName(n)
      /\ \A e \in Deploys \ {d} : pc'[e] = pc[e]
      /\ \A e \in Deploys : Proxied(e)' <=> Proxied(e)
      /\ pc \in [Deploys -> Steps] /\ stale \subseteq Apps
  BY StepIsLocal, ScenarioFacts DEF AppOf, AppOfName, Proxied, Backend, Hosts, TypeOK
<1>1. CASE p = Absent
  BY <1>0, <1>1, AbsentIsNoName, NameFacts DEF Good, Allowed
<1>2. CASE p # Absent
  <2>1. /\ p \in Names /\ AppOfName(p) = AppOf[d] /\ Proxied(d)
        /\ pc[d] \notin FixedSteps /\ pc[d] # "attachFixed"
    BY <1>2 DEF Good, OnItsPath, FixedSteps
  <2>2. AppOf[d] \in stale => AppOf[d] \in stale' \/ TakenOver(d)
    BY FileEffect DEF FilesStay, FileOpened, FileWritten, FilePutBack, NotTakenOver
  <2>3. ASSUME NEW e \in Deploys \ {d}, AppOf[e] = AppOf[d], p = Versioned(e)
        PROVE  Allowed(e, p)'
    <3>1. ~InProgress(e) /\ p # Versioned(d)
      BY <2>3, StepIsLocal, NamesDiffer DEF Start, PassInv, OneAtATime
    <3>2. pc[d] \notin {"list", "remove"} /\ ~TakenOver(d) /\ Allowed(e, p)
      BY <1>2, <2>3, <3>1 DEF Good
    <3>3. last' = last
      BY <2>1, <3>2, LastStep
    <3>4. QED
      BY <1>0, <2>2, <2>3, <3>1, <3>2, <3>3 DEF Allowed, InProgress, Ended
  <2>4. ASSUME p = Versioned(d)
        PROVE  Allowed(d, p)'
    <3>1. /\ pc[d] \notin {"ok", "failed", "dead", "queued"} /\ ~FilePutBack(d)
          /\ pc[d] \in {"test", "reload", "list", "remove"} \/ (pc[d] = "discard" /\ AppOf[d] \in stale)
      BY <2>4, StepIsLocal DEF Good, Allowed, InProgress, Ended, Start, Goto
    <3>2. CASE pc[d] \in {"test", "reload"}
      <4>1. pc'[d] \in {"test", "reload", "list"} \/ NotTakenOver(d)
        BY <3>1, <3>2, FileEffect, NextSteps DEF FilesStay, FileOpened, FileWritten, TakenOver
      <4>2. QED
        BY <1>0, <4>1 DEF Allowed, NotTakenOver
    <3>3. CASE pc[d] \in {"list", "remove"}
      <4>1. pc'[d] \in {"list", "remove"} \/ Removed(d)
        BY <3>3, NextSteps
      <4>2. Removed(d) => pc'[d] = "ok" /\ last'[AppOf[d]] = d
        BY <1>0, <2>1 DEF Removed, Succeed, Goto, TypeOK
      <4>3. QED
        BY <1>0, <4>1, <4>2 DEF Allowed
    <3>4. CASE pc[d] = "discard" /\ AppOf[d] \in stale
      <4>1. pc'[d] \in {"discard", "failed"} /\ ~TakenOver(d)
        BY <3>4, NextSteps DEF TakenOver
      <4>2. QED
        BY <1>0, <2>2, <3>4, <4>1 DEF Allowed
    <3>5. QED
      BY <3>1, <3>2, <3>3, <3>4
  <2>5. AppOf[d] \in stale' \/ GatePasses(p)'
    <3>1. CASE TakenOver(d)
      <4>1. p = Versioned(d) /\ pc[d] = "reload" /\ image[p] = d /\ d \in healthy
        BY <1>2, <2>1, <3>1 DEF TakenOver, Reached, PassInv, PassedHealthy, Passed
      <4>2. image'[p] = image[p]
        BY <2>1, <4>1, ImageEffect, BlueGreenAssumption DEF Started, Stopped, Exists
      <4>3. QED
        BY <1>0, <4>1, <4>2, BlueGreenAssumption DEF GatePasses, Exists
    <3>2. CASE ~TakenOver(d) /\ AppOf[d] \notin stale
      <4>1. GatePasses(p)
        BY <1>2, <3>2 DEF Good
      <4>2. ~Started(d, p)
        BY <4>1 DEF Started, GatePasses
      <4>3. ~Stopped(d, p)
        BY <1>2, <2>1, <3>2 DEF Stopped, FixedSteps, Good, Allowed, Reached
      <4>4. QED
        BY <1>0, <2>1, <4>1, <4>2, <4>3, ImageEffect DEF GatePasses, Exists
    <3>3. QED
      BY <2>2, <3>1, <3>2
  <2>6. QED
    BY <1>0, <2>1, <2>3, <2>4, <2>5 DEF Good, Allowed
<1>3. QED
  BY <1>1, <1>2

\* The place of another deploy is left alone.
LEMMA PlaceElsewhere ==
  ASSUME Serial, TypeOK, PassInv, RouteInv, Steady(scenario), NEW d \in Deploys,
         Start(d) \/ Step(d) \/ Expire(d), NEW e \in Deploys \ {d}
  PROVE  Reached(e)' /\ Restorable(e)'
<1>0. /\ scenario' = scenario /\ AppOf' = AppOf /\ Backend' = Backend /\ AppOf[e] \in Apps
      /\ pc'[e] = pc[e] /\ targets'[e] = targets[e] /\ (Proxied(e)' <=> Proxied(e))
      /\ Versioned(e) \in Names
  BY StepIsLocal, ScenarioFacts, NameFacts DEF AppOf, Proxied, Backend, Hosts
<1>1. Reached(e) /\ Restorable(e) /\ OnItsPath
  BY DEF RouteInv
<1>2. CASE AppOf[e] = AppOf[d]
  <2>1. pc[e] \notin {"write", "fill", "test", "reload", "list", "remove"}
    BY <1>2, StepIsLocal DEF Start, PassInv, OneAtATime, InProgress, Ended
  <2>2. QED
    BY <1>0, <1>1, <2>1 DEF Reached, Restorable
<1>3. CASE AppOf[e] # AppOf[d]
  <2>1. image'[Versioned(e)] = image[Versioned(e)]
    BY <1>0, <1>3, ImageEffect, NamesDiffer DEF Started, Stopped, PassInv, OwnTargets
  <2>2. /\ disk'[AppOf[e]] = disk[AppOf[e]] /\ saved'[e] = saved[e]
        /\ loaded' = loaded \/ (TakenOver(d) /\ loaded'[AppOf[e]] = disk[AppOf[e]])
    BY <1>0, <1>3, FileEffect DEF FilesStay, FileOpened, FileWritten, FilePutBack, TakenOver, NotTakenOver, TypeOK
  <2>3. Disk(e)' = Disk(e) /\ (Loaded(e)' = Loaded(e) \/ (TakenOver(d) /\ Loaded(e)' = Disk(e)))
    BY <1>0, <2>2 DEF Disk, Loaded
  <2>4. Reached(e)'
    BY <1>0, <1>1, <2>1, <2>3 DEF Reached
  <2>5. pc[e] = "test" => ~TakenOver(d)
    BY <1>1, <1>3 DEF Restorable, TakenOver, OnItsPath, SwapSteps, Proxied, Steady, Backend, Hosts, AppOf
  <2>6. pc[e] \in {"fill", "test"} => Good(AppOf[e], saved[e].port)'
    BY <1>0, <1>1, <1>3, <2>2, GoodElsewhere DEF Restorable
  <2>7. QED
    BY <1>0, <1>1, <2>2, <2>3, <2>4, <2>5, <2>6 DEF Restorable
<1>4. QED
  BY <1>2, <1>3

\* The new container exists past its gate, and is not retired by its deploy.
LEMMA NewStays ==
  ASSUME TypeOK, PassInv, NEW d \in Deploys, Start(d) \/ Step(d) \/ Expire(d),
         OnItsPath, Reached(d), Proxied(d)
  PROVE  /\ pc'[d] \in {"write", "fill", "test", "reload", "list", "remove"} => image'[Versioned(d)] = d
         /\ Versioned(d) \notin targets'[d]
<1>0. image \in [Names -> Deploys \union {Absent}] /\ pc \in [Deploys -> Steps] /\ Versioned(d) \in Names
      /\ targets \in [Deploys -> SUBSET Names]
  BY NameFacts DEF TypeOK
<1>1. Versioned(d) \notin targets'[d]
  <2>1. targets'[d] \subseteq targets[d] \/ (List(d) /\ targets'[d] \subseteq ToRetire(d) \ {Keep(d)})
    BY <1>0 DEF Step, Start, RunNew, Attach, Gate, Write, Fill, Test, Reload, Discard, List, RemoveOne, Removed,
       Clean, CheckRun, CheckGate, CheckEnds, Replace, RunFixed, AttachFixed, Expire, localVars
  <2>2. QED
    BY <2>1 DEF Reached, Keep
<1>2. ASSUME pc'[d] \in {"write", "fill", "test", "reload", "list", "remove"}
      PROVE  image'[Versioned(d)] = d
  <2>1. CASE Gate(d)
    BY <1>0, <1>2, <2>1 DEF Gate, Goto, GatePasses, Exists, PassInv, OwnContainers, dockerVars
  <2>2. CASE ~Gate(d)
    <3>1. pc[d] \in {"write", "fill", "test", "reload", "list", "remove", "replace"}
      BY <1>0, <1>2, <2>2 DEF Step, Start, RunNew, Attach, Write, Fill, Test, Reload, Discard, List, RemoveOne,
         Removed, Succeed, Clean, CheckRun, CheckGate, CheckEnds, Replace, RunFixed, AttachFixed, Expire, Goto
    <3>2. pc[d] # "replace" /\ image[Versioned(d)] = d
      BY <3>1 DEF OnItsPath, FixedSteps, Reached
    <3>3. ~Stopped(d, Versioned(d))
      BY <3>1, <3>2, NamesDiffer DEF Stopped, Reached
    <3>4. QED
      BY <1>0, <3>2, <3>3, ImageEffect DEF Started
  <2>3. QED
    BY <2>1, <2>2
<1>3. QED
  BY <1>1, <1>2

LEMMA RouteDeployStep ==
  ASSUME Serial, TypeOK, PassInv, RouteInv, OnItsPath', Steady(scenario), NEW d \in Deploys,
         Start(d) \/ Step(d) \/ Expire(d)
  PROVE  RouteInv'
<1> DEFINE a == AppOf[d]
<1>0. /\ scenario' = scenario /\ AppOf' = AppOf /\ Backend' = Backend /\ a \in Apps
      /\ (Proxied(d)' <=> Proxied(d)) /\ healthy' = healthy /\ \A n : AppOfName(n)' = AppOfName(n)
      /\ Versioned(d) \in Names /\ Versioned(d) # Absent /\ AppOfName(Versioned(d)) = a
      /\ pc \in [Deploys -> Steps] /\ stale \subseteq Apps
      /\ disk \in [Apps -> Routes] /\ loaded \in [Apps -> Routes] /\ saved \in [Deploys -> Routes]
  BY StepIsLocal, ScenarioFacts, NameFacts, NamesDiffer, AbsentIsNoName
     DEF AppOf, AppOfName, Proxied, Backend, Hosts, TypeOK
<1>1. /\ OnItsPath /\ Reached(d) /\ Restorable(d)
      /\ Good(a, Disk(d)) /\ Good(a, Loaded(d))
  BY <1>0 DEF RouteInv, Disk, Loaded
<1>2. \A e \in Deploys \ {d} : Reached(e)' /\ Restorable(e)'
  BY PlaceElsewhere
<1>3. ASSUME NEW b \in Apps \ {a}
      PROVE  Good(b, disk[b].port)' /\ Good(b, loaded[b].port)'
  <2>1. disk'[b] = disk[b] /\ loaded'[b] \in {loaded[b], disk[b]}
    BY <1>0, FileEffect DEF FilesStay, FileOpened, FileWritten, FilePutBack, TakenOver, NotTakenOver
  <2>2. \A p : Good(b, p) => Good(b, p)'
    BY GoodElsewhere
  <2>3. QED
    BY <2>1, <2>2 DEF RouteInv
<1>4. Proxied(d) => /\ pc'[d] \in {"write", "fill", "test", "reload", "list", "remove"} => image'[Versioned(d)] = d
                    /\ Versioned(d) \notin targets'[d]
  BY <1>1, NewStays
<1>5. Disk(d)' = disk'[a].port /\ Loaded(d)' = loaded'[a].port
  BY <1>0 DEF Disk, Loaded
<1>6. /\ pc[d] \in {"test", "reload", "list", "remove"} /\ Proxied(d) => Disk(d) = Versioned(d)
      /\ pc[d] \in {"list", "remove"} /\ Proxied(d) => Loaded(d) = Versioned(d)
      /\ pc[d] \in {"write", "fill", "test", "reload"} => Proxied(d)
  BY <1>1 DEF Reached, OnItsPath, SwapSteps
<1>7. CASE FilesStay(d)
  <2>1. disk' = disk /\ loaded' = loaded /\ saved' = saved /\ Disk(d)' = Disk(d) /\ Loaded(d)' = Loaded(d)
    BY <1>5, <1>7 DEF FilesStay, Disk, Loaded
  <2>2. ~TakenOver(d) /\ ~FilePutBack(d)
    BY <1>7 DEF FilesStay, TakenOver, FilePutBack
  <2>3. ASSUME NEW p \in {Disk(d), Loaded(d)}
        PROVE  Good(a, p)'
    <3>1. Good(a, p)
      BY <1>1
    <3>2. p \notin {Absent, Versioned(d)} => pc[d] \notin {"list", "remove"}
      BY <1>0, <1>6, <3>1 DEF Good
    <3>3. QED
      BY <1>1, <2>2, <3>1, <3>2, GoodHere
  <2>4. Good(a, disk[a].port)' /\ Good(a, loaded[a].port)'
    BY <1>0, <2>1, <2>3 DEF Disk, Loaded
  <2>5. /\ pc'[d] = "fill" => pc[d] = "fill"
        /\ pc'[d] = "test" => pc[d] = "test"
        /\ pc'[d] = "reload" => pc[d] \in {"test", "reload"}
        /\ pc'[d] = "list" /\ Proxied(d) => pc[d] = "list"
        /\ pc'[d] = "remove" => pc[d] \in {"list", "remove"}
    BY <1>1, <1>7, FileEffect DEF FilesStay, OnItsPath, FixedSteps
  <2>6. Reached(d)'
    BY <1>0, <1>4, <1>6, <2>1, <2>5 DEF Reached
  <2>7. Restorable(d)'
    <3>1. ASSUME pc[d] \in {"fill", "test"}, NEW p, p = saved[d].port
          PROVE  Good(a, p)'
      <4>1. Good(a, p)
        BY <1>1, <3>1 DEF Restorable
      <4>2. QED
        BY <1>1, <2>2, <3>1, <4>1, GoodHere
    <3>2. QED
      BY <1>0, <1>1, <2>1, <2>5, <3>1 DEF Restorable
  <2>8. QED
    BY <1>0, <1>2, <1>3, <2>4, <2>6, <2>7 DEF RouteInv
<1>8. CASE FileOpened(d)
  <2>1. /\ pc[d] = "write" /\ Proxied(d) /\ pc'[d] = "fill" /\ loaded' = loaded
        /\ disk'[a].port = Absent /\ saved'[d] = disk[a]
    BY <1>0, <1>6, <1>8 DEF FileOpened, NoRoute
  <2>2. Disk(d) # Versioned(d)
    BY <1>1, <2>1 DEF Good, Allowed
  <2>3. ASSUME NEW p \in {Disk(d), Loaded(d)}
        PROVE  Good(a, p)'
    <3>1. Good(a, p) /\ ~TakenOver(d) /\ ~FilePutBack(d) /\ pc[d] = "write"
      BY <1>1, <2>1 DEF TakenOver, FilePutBack
    <3>2. QED
      BY <1>1, <3>1, GoodHere
  <2>4. Good(a, disk[a].port)' /\ Good(a, loaded[a].port)'
    <3>1. Good(a, Absent)'
      BY <1>0, AbsentIsNoName, NameFacts DEF Good, Allowed
    <3>2. QED
      BY <1>0, <2>1, <2>3, <3>1 DEF Loaded
  <2>5. Reached(d)'
    BY <1>0, <1>4, <2>1 DEF Reached
  <2>6. Restorable(d)'
    BY <1>0, <2>1, <2>2, <2>3 DEF Restorable, Disk
  <2>7. QED
    BY <1>0, <1>2, <1>3, <2>4, <2>5, <2>6 DEF RouteInv
<1>9. CASE FileWritten(d)
  <2>1. /\ pc[d] = "fill" /\ Proxied(d) /\ pc'[d] = AfterFill /\ UNCHANGED <<saved, loaded, stale>>
        /\ disk'[a].port = Versioned(d)
    <3>1. NewRoute(d, saved[d]).port = Versioned(d)
      BY <1>0 DEF NewRoute, Routes
    <3>2. QED
      BY <1>0, <1>6, <1>9, <3>1 DEF FileWritten
  <2>2. Loaded(d) # Versioned(d)
    BY <1>1, <2>1 DEF Good, Allowed
  <2>3. ASSUME NEW p \in {saved[d].port, Loaded(d)}
        PROVE  Good(a, p)'
    <3>1. Good(a, p) /\ ~TakenOver(d) /\ ~FilePutBack(d) /\ pc[d] = "fill"
      BY <1>1, <2>1 DEF Restorable, TakenOver, FilePutBack
    <3>2. QED
      BY <1>1, <3>1, GoodHere
  <2>4. Good(a, disk[a].port)'
    <3>1. GatePasses(Versioned(d))'
      <4>1. d \in healthy /\ d # Absent /\ pc'[d] \in {"test", "reload"}
        BY <2>1, BlueGreenAssumption DEF PassInv, PassedHealthy, Passed, AfterFill
      <4>2. image'[Versioned(d)] = d
        BY <1>4, <2>1, <4>1
      <4>3. QED
        BY <1>0, <4>1, <4>2 DEF GatePasses, Exists
    <3>2. \A e \in Deploys : AppOf[e] = a => Proxied(e)' /\ Allowed(e, Versioned(d))'
      <4>1. pc'[d] \in {"test", "reload"}
        BY <2>1 DEF AfterFill
      <4>2. \A e \in Deploys : Versioned(e) = Versioned(d) => e = d
        BY NamesDiffer
      <4>3. \A e \in Deploys : AppOf[e] = a => Proxied(e)'
        BY <1>0, <2>1 DEF Steady, Proxied, Backend, Hosts, AppOf
      <4>4. QED
        BY <4>1, <4>2, <4>3 DEF Allowed
    <3>3. QED
      BY <1>0, <2>1, <3>1, <3>2 DEF Good
  <2>5. Good(a, loaded[a].port)'
    BY <1>0, <2>1, <2>3 DEF Loaded
  <2>6. Reached(d)'
    BY <1>0, <1>4, <1>5, <2>1 DEF Reached, AfterFill
  <2>7. Restorable(d)'
    <3>1. Loaded(d)' = Loaded(d) /\ saved'[d] = saved[d] /\ saved[d].port # Versioned(d)
      BY <1>0, <1>1, <2>1 DEF Loaded, Restorable
    <3>2. QED
      BY <1>0, <2>1, <2>2, <2>3, <3>1 DEF Restorable, AfterFill
  <2>8. QED
    BY <1>0, <1>2, <1>3, <2>4, <2>5, <2>6, <2>7 DEF RouteInv
<1>10. CASE FilePutBack(d)
  <2>1. /\ pc[d] = "test" /\ pc'[d] = "discard" /\ loaded' = loaded
        /\ disk'[a] = saved[d]
    BY <1>0, <1>10 DEF FilePutBack
  <2>2. ASSUME NEW p \in {saved[d].port, Loaded(d)}
        PROVE  Good(a, p)'
    <3>1. Good(a, p) /\ p # Versioned(d) /\ ~TakenOver(d)
      BY <1>1, <2>1 DEF Restorable, TakenOver
    <3>2. QED
      BY <1>1, <2>1, <3>1, GoodHere
  <2>3. Good(a, disk[a].port)' /\ Good(a, loaded[a].port)'
    BY <1>0, <2>1, <2>2 DEF Loaded
  <2>4. Reached(d)' /\ Restorable(d)'
    BY <1>0, <1>4, <2>1 DEF Reached, Restorable
  <2>5. QED
    BY <1>0, <1>2, <1>3, <2>3, <2>4 DEF RouteInv
<1>11. CASE TakenOver(d) \/ NotTakenOver(d)
  <2>1. /\ pc[d] = "reload" /\ pc'[d] \in {"list", "discard"} /\ disk' = disk
        /\ loaded' = disk \/ (loaded' = loaded /\ pc'[d] = "discard")
        /\ Disk(d) = Versioned(d)
    BY <1>6, <1>11 DEF TakenOver, NotTakenOver
  <2>2. ASSUME NEW p, p = Disk(d) \/ (p = Loaded(d) /\ ~TakenOver(d))
        PROVE  Good(a, p)'
    <3>1. Good(a, p) /\ ~FilePutBack(d) /\ (p # Versioned(d) => ~TakenOver(d))
      BY <1>1, <2>1, <2>2 DEF FilePutBack
    <3>2. QED
      BY <1>1, <2>1, <3>1, GoodHere
  <2>3. Good(a, disk[a].port)'
    BY <1>0, <2>1, <2>2 DEF Disk
  <2>4. Good(a, loaded[a].port)'
    <3>1. CASE TakenOver(d)
      BY <1>0, <2>2, <3>1 DEF Disk, TakenOver
    <3>2. CASE ~TakenOver(d)
      BY <1>0, <1>11, <2>2, <3>2 DEF Loaded, NotTakenOver
    <3>3. QED
      BY <3>1, <3>2
  <2>5. Reached(d)' /\ Restorable(d)'
    BY <1>0, <1>4, <1>5, <2>1 DEF Reached, Restorable, Disk
  <2>6. QED
    BY <1>0, <1>2, <1>3, <2>3, <2>4, <2>5 DEF RouteInv
<1>12. QED
  BY <1>7, <1>8, <1>9, <1>10, <1>11, FileEffect

LEMMA RouteStep ==
  ASSUME Serial, TypeOK, PassInv, RouteInv, Steady(scenario), [Next]_vars
  PROVE  RouteInv'
<1>1. OnItsPath'
  BY PathStep DEF RouteInv
<1>2. ASSUME NEW d \in Deploys, Start(d) \/ Step(d) \/ Expire(d)
      PROVE  RouteInv'
  BY <1>1, <1>2, RouteDeployStep
<1>3. CASE Crash \/ ReloadElsewhere \/ UNCHANGED vars
  <2>1. /\ UNCHANGED <<scenario, healthy, image, disk, saved, stale, targets, last>>
        /\ loaded' = loaded \/ (loaded' = disk /\ pc' = pc /\ scenario.otherReloads)
        /\ \A d \in Deploys : pc'[d] = pc[d] \/ pc'[d] = "dead"
    BY <1>3 DEF Crash, ReloadElsewhere, vars, hostVars, dockerVars, proxyVars, localVars
  <2>2. /\ AppOf' = AppOf /\ Backend' = Backend /\ \A n : AppOfName(n)' = AppOfName(n)
        /\ \A d \in Deploys : Proxied(d)' <=> Proxied(d)
        /\ \A d \in Deploys : Disk(d)' = Disk(d)
        /\ \A d \in Deploys : Loaded(d)' = Loaded(d) \/ (Loaded(d)' = Disk(d) /\ scenario.otherReloads)
    BY <2>1 DEF AppOf, Backend, AppOfName, Proxied, Hosts, Disk, Loaded
  <2>3. \A a, p : Good(a, p) => Good(a, p)'
    BY <2>1, <2>2 DEF Good, Allowed, GatePasses, Exists
  <2>4. \A a \in Apps : Good(a, disk[a].port)' /\ Good(a, loaded[a].port)'
    BY <2>1, <2>3 DEF RouteInv
  <2>5. \A d \in Deploys : Reached(d)'
    BY <2>1, <2>2 DEF RouteInv, Reached
  <2>6. \A d \in Deploys : Restorable(d)'
    BY <2>1, <2>2, <2>3 DEF RouteInv, Restorable, Steady, Backend
  <2>7. QED
    BY <1>1, <2>4, <2>5, <2>6 DEF RouteInv
<1>4. QED
  BY <1>2, <1>3 DEF Next, Quiet

LEMMA RoutesAlways ==
  ASSUME Serial, \A s \in Scenarios : Steady(s)
  PROVE  Spec => []RouteInv
<1>1. TypeOK /\ PassInv /\ RouteInv /\ [Next]_vars => RouteInv'
  BY RouteStep DEF TypeOK
<1>2. QED
  BY <1>1, RouteInit, PassAlways, TypeCorrect, PTL DEF Spec

\* The route the proxy works with, and the one that the next reload would take over, lead
\* to containers that passed their gates, unless a failed reload has left the file stale:
\* behind Caddy for any apps, behind nginx for one app beside others without domains.
THEOREM RoutesStayAlive ==
  ASSUME Serial, \A s \in Scenarios : Steady(s)
  PROVE  Spec => []RouteAlive
<1>1. RouteInv => RouteAlive
  BY DEF RouteInv, Good, RouteAlive, LoadedAlive, FileAlive, Routed
<1>2. QED
  BY <1>1, RoutesAlways, PTL

\* Nor does it lead to a deploy that has failed or was superseded.
THEOREM RoutesLeadToLatest ==
  ASSUME Serial, \A s \in Scenarios : Steady(s)
  PROVE  Spec => []RoutedToLatest
<1>1. TypeOK /\ RouteInv => RoutedToLatest
  BY ScenarioFacts DEF RouteInv, Good, Allowed, RoutedToLatest
<1>2. QED
  BY <1>1, RoutesAlways, TypeCorrect, PTL
=============================================================================
