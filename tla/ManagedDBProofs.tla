--------------------------- MODULE ManagedDBProofs ---------------------------
(***************************************************************************)
(* Proofs about ManagedDB, for any number of databases, jobs and faults and *)
(* any size of the host: its types, that Redis stops before docker kills it, *)
(* that data is kept, and that success and deletion are what they say.       *)
(***************************************************************************)
EXTENDS ManagedDB, TLAPS

\* The scenario is one of those that the assumption speaks of.
LEMMA ScenarioFacts ==
  ASSUME scenario \in Scenarios
  PROVE  /\ scenario.kind \in [Jobs -> {"provision", "delete", "destroy"}]
         /\ scenario.of \in [Jobs -> DBs] /\ scenario.hostMB \in Nat
         /\ None \notin Jobs
  BY ManagedDBAssumption DEF IsScenario

\* Redis's own limit is positive and below docker's, which is at most a quarter of
\* a host of 512 MB or more (redisMemoryCapsMB, database.go:109-126).
LEMMA CapsFit ==
  ASSUME NEW mb \in Nat
  PROVE  /\ RedisCaps(mb) \in [docker : Nat, redis : Nat]
         /\ 0 < RedisCaps(mb).redis /\ RedisCaps(mb).redis < RedisCaps(mb).docker
         /\ mb >= 512 => 4 * RedisCaps(mb).docker <= mb
<1> DEFINE share == IF mb = 0 THEN 256 ELSE mb \div 4
           cap == Clamp(share)
<1>1. share \in Nat /\ (mb >= 512 => share >= 128 /\ 4 * share <= mb)
  OBVIOUS
<1>2. cap \in Nat /\ 128 <= cap /\ (mb >= 512 => 4 * cap <= mb)
  BY <1>1 DEF Clamp
<1>3. (4 * cap) \div 5 \in Nat /\ 0 < (4 * cap) \div 5 /\ (4 * cap) \div 5 < cap
  <2> HIDE DEF cap
  <2> QED BY <1>2
<1>4. RedisCaps(mb) = [docker |-> cap, redis |-> (4 * cap) \div 5]
  BY DEF RedisCaps
<1> QED
  <2> HIDE DEF cap
  <2> QED BY <1>2, <1>3, <1>4

----------------------------------------------------------------------------
\* Every step keeps the variables in their ranges, and a server exactly where
\* there is a container.
THEOREM TypeCorrect == Spec => []TypeOK
<1>1. Init => TypeOK
  BY DEF Init, TypeOK, Steps, Ended, NoCaps
<1>2. TypeOK /\ [Next]_vars => TypeOK'
  <2> SUFFICES ASSUME TypeOK, [Next]_vars PROVE TypeOK'
    OBVIOUS
  <2>f. /\ scenario.kind \in [Jobs -> {"provision", "delete", "destroy"}]
        /\ scenario.of \in [Jobs -> DBs] /\ scenario.hostMB \in Nat /\ None \notin Jobs
    BY ScenarioFacts DEF TypeOK
  <2> USE <2>f DEF TypeOK, Steps, Ended, Running, InProgress, Fault,
          Works, Fails, Goto, jobVars, dbVars, netVars, reportVars
  <2>1. ASSUME NEW j \in Jobs, Step(j) PROVE TypeOK'
    <3>0. Apart /\ Watch /\ DB(j) \in DBs /\ Kind(j) \in {"provision", "delete", "destroy"}
      BY <2>1, <2>f DEF Step, DB, Kind
    <3> USE <3>0 DEF Apart, Watch, Ignored, Begin
    <3>r. ASSUME RemoveContainer(DB(j))
          PROVE  /\ container' \in [DBs -> Jobs \union {None}]
                 /\ server' \in [DBs -> {"none", "created", "starting", "ready", "restarting"}]
                 /\ \A d \in DBs : container'[d] = None <=> server'[d] = "none"
                 /\ UNCHANGED <<caps, volume, entrusted, network>>
      BY <3>r DEF RemoveContainer
    <3>1. CASE Start(j) \/ NoDocker(j)
      <4>1. CASE Start(j)
        BY <4>1 DEF Start
      <4>2. CASE NoDocker(j)
        BY <4>2 DEF NoDocker
      <4> QED
        BY <3>1, <4>1, <4>2
    <3>2. CASE CreateVolume(j)
      <4>1. volume' \in [DBs -> {"none", "empty", "data"}]
        BY <3>2 DEF CreateVolume
      <4>2. /\ pc' \in [Jobs -> Steps] /\ spoiled' \subseteq Jobs /\ faults' \in Nat
            /\ UNCHANGED <<scenario, expired, last, container, server, caps, entrusted,
                           network, reason>>
        BY <3>2 DEF CreateVolume
      <4> QED
        BY <4>1, <4>2
    <3>3. CASE CreateNetwork(j)
      BY <3>3 DEF CreateNetwork
    <3>4. CASE Replace(j)
      BY <3>4, <3>r DEF Replace
    <3>5. CASE Run(j)
      <4>1. ASSUME NEW state \in {"created", "starting"}, DockerRun(j, state)
            PROVE  /\ container' \in [DBs -> Jobs \union {None}]
                   /\ server' \in [DBs -> {"none", "created", "starting", "ready", "restarting"}]
                   /\ \A d \in DBs : container'[d] = None <=> server'[d] = "none"
                   /\ caps' \in [DBs -> [docker : Nat, redis : Nat]]
                   /\ volume' \in [DBs -> {"none", "empty", "data"}]
                   /\ UNCHANGED <<entrusted, network, spoiled>>
        <5>1. volume' \in [DBs -> {"none", "empty", "data"}]
          BY <4>1 DEF DockerRun
        <5>2. caps' \in [DBs -> [docker : Nat, redis : Nat]]
          BY <4>1, CapsFit DEF DockerRun
        <5> QED
          BY <4>1, <5>1, <5>2 DEF DockerRun
      <4>2. /\ pc' \in [Jobs -> Steps] /\ faults' \in Nat
            /\ reason' \in [Jobs -> {"none", "docker", "run", "exited", "unready"}]
            /\ UNCHANGED <<scenario, expired, last>>
        <5>1. faults' \in Nat
          <6>1. faults' = faults \/ faults' = faults + 1
            <7>1. CASE RunFailed(j)
              BY <7>1 DEF RunFailed
            <7> QED
              BY <3>5, <7>1 DEF Run
          <6> QED
            BY <6>1
        <5>2. /\ Goto(j, "run", "wait") \/ Goto(j, "run", "failed")
              /\ reason' = reason \/ reason' = [reason EXCEPT ![j] = "run"]
          BY <3>5 DEF Run
        <5>3. reason' \in [Jobs -> {"none", "docker", "run", "exited", "unready"}]
          BY <5>2
        <5>4. pc' \in [Jobs -> Steps]
          BY <5>2
        <5>5. UNCHANGED <<scenario, expired, last>>
          BY <5>2
        <5> QED
          BY <5>1, <5>3, <5>4, <5>5
      <4>3. \/ UNCHANGED <<dbVars, network, spoiled>>
            \/ DockerRun(j, "starting") \/ DockerRun(j, "created")
        BY <3>5 DEF Run, RunFailed
      <4>4. CASE UNCHANGED <<dbVars, network, spoiled>>
        BY <4>2, <4>4
      <4>5. CASE DockerRun(j, "starting") \/ DockerRun(j, "created")
        BY <4>1, <4>2, <4>5
      <4> QED
        BY <4>3, <4>4, <4>5
    <3>6. CASE Ready(j)
      BY <3>6 DEF Ready
    <3>7. CASE Gone(j)
      BY <3>7 DEF Gone
    <3>8. CASE GivesUp(j)
      BY <3>8 DEF GivesUp
    <3>9. CASE Remove(j)
      <4>1. pc' \in [Jobs -> Steps]
        BY <3>9 DEF Remove
      <4> QED
        BY <3>9, <3>r, <4>1 DEF Remove
    <3>10. CASE DestroyVolume(j)
      <4>1. volume' \in [DBs -> {"none", "empty", "data"}]
        BY <3>10 DEF DestroyVolume
      <4>2. /\ pc' \in [Jobs -> Steps] /\ spoiled' \subseteq Jobs /\ faults' \in Nat
            /\ entrusted' \subseteq DBs
            /\ UNCHANGED <<scenario, expired, last, container, server, caps, network, reason>>
        BY <3>10 DEF DestroyVolume
      <4> QED
        BY <4>1, <4>2
    <3>11. CASE RemoveNetwork(j)
      BY <3>11 DEF RemoveNetwork
    <3> QED
      BY <2>1, <3>1, <3>2, <3>3, <3>4, <3>5, <3>6, <3>7, <3>8, <3>9, <3>10, <3>11 DEF Step
  <2>2. ASSUME NEW j \in Jobs, Expire(j) PROVE TypeOK'
    BY <2>2 DEF Expire
  <2>3. CASE Crash
    BY <2>3 DEF Crash
  <2>4. ASSUME NEW d \in DBs, Serve(d) PROVE TypeOK'
    BY <2>4 DEF Serve, Watch
  <2>5. ASSUME NEW d \in DBs, Use(d) \/ Attach(d) PROVE TypeOK'
    BY <2>5 DEF Use, Attach
  <2>6. ASSUME NEW d \in DBs, Probe(d) PROVE TypeOK'
    BY <2>6 DEF Probe
  <2>7. CASE ListRunning \/ TooLate \/ Reported
    BY <2>7 DEF ListRunning, TooLate, Reported
  <2>8. CASE UNCHANGED vars
    BY <2>8 DEF vars
  <2> QED
    BY <2>1, <2>2, <2>3, <2>4, <2>5, <2>6, <2>7, <2>8 DEF Next
<1> QED
  BY <1>1, <1>2, PTL DEF Spec

\* What the steps of a job do to containers and volumes.
LEMMA StepEffects ==
  ASSUME TypeOK, NEW j \in Jobs, Step(j)
  PROVE  /\ scenario' = scenario /\ DB(j) \in DBs
         /\ \/ UNCHANGED <<container, server, caps>>
            \/ RemoveContainer(DB(j))
            \/ \E state \in {"created", "starting"} : DockerRun(j, state)
         /\ \/ UNCHANGED <<volume, entrusted>>
            \/ volume[DB(j)] = "none" /\ volume' = [volume EXCEPT ![DB(j)] = "empty"]
               /\ UNCHANGED entrusted
            \/ DestroyVolume(j)
<1>1. scenario' = scenario /\ DB(j) \in DBs
  BY ScenarioFacts DEF TypeOK, DB, Step, Start, NoDocker, Begin, CreateVolume, CreateNetwork,
     Replace, Run, Ready, Gone, GivesUp, Remove, DestroyVolume, RemoveNetwork, Goto
<1>2. volume \in [DBs -> {"none", "empty", "data"}]
  BY DEF TypeOK
<1> USE <1>1 DEF dbVars
<1>3. CASE Start(j) \/ NoDocker(j)
  BY <1>3 DEF Start, NoDocker, Begin
<1>4. CASE CreateVolume(j)
  <2>1. CASE UNCHANGED dbVars
    BY <2>1
  <2>2. CASE volume' = [volume EXCEPT ![DB(j)] = IF @ = "none" THEN "empty" ELSE @]
    <3>1. UNCHANGED <<container, server, caps, entrusted>>
      BY <1>4 DEF CreateVolume, Ignored
    <3> QED
      BY <1>2, <2>2, <3>1
  <2> QED
    BY <1>4, <2>1, <2>2 DEF CreateVolume, Ignored
<1>5. CASE CreateNetwork(j) \/ Ready(j) \/ Gone(j) \/ GivesUp(j) \/ RemoveNetwork(j)
  BY <1>5 DEF CreateNetwork, Ready, Gone, GivesUp, RemoveNetwork, Ignored
<1>6. CASE Replace(j) \/ Remove(j)
  BY <1>6 DEF Replace, Remove, Ignored, RemoveContainer
<1>7. CASE Run(j)
  <2>1. CASE UNCHANGED dbVars
    BY <2>1
  <2>2. ASSUME NEW state \in {"created", "starting"}, DockerRun(j, state)
        PROVE  \/ UNCHANGED <<volume, entrusted>>
               \/ volume[DB(j)] = "none" /\ volume' = [volume EXCEPT ![DB(j)] = "empty"]
                  /\ UNCHANGED entrusted
    BY <1>2, <2>2 DEF DockerRun
  <2> QED
    BY <1>7, <2>1, <2>2 DEF Run, RunFailed
<1>8. CASE DestroyVolume(j)
  BY <1>8 DEF DestroyVolume
<1> QED
  BY <1>3, <1>4, <1>5, <1>6, <1>7, <1>8 DEF Step

\* Data is kept until its destruction is asked for, whatever fails, overlaps or is
\* repeated.
THEOREM DataIsKept == Spec => []DataKept
<1>1. Init => DataKept
  BY DEF Init, DataKept
<1>2. TypeOK /\ DataKept /\ [Next]_vars => DataKept'
  <2> SUFFICES ASSUME TypeOK, DataKept, [Next]_vars PROVE DataKept'
    OBVIOUS
  <2>t. volume \in [DBs -> {"none", "empty", "data"}] /\ entrusted \subseteq DBs
    BY DEF TypeOK
  <2> USE DEF DataKept
  <2>1. ASSUME NEW j \in Jobs, Step(j) PROVE DataKept'
    <3>1. CASE DestroyVolume(j)
      BY <2>t, <3>1 DEF DestroyVolume
    <3> QED
      BY <2>t, <2>1, <3>1, StepEffects
  <2>2. ASSUME NEW d \in DBs, Use(d) PROVE DataKept'
    BY <2>t, <2>2 DEF Use
  <2>3. CASE UNCHANGED dbVars
    BY <2>3 DEF dbVars
  <2>4. ASSUME NEW d \in DBs, Serve(d) PROVE DataKept'
    BY <2>4 DEF Serve
  <2> QED
    BY <2>1, <2>2, <2>3, <2>4
       DEF Next, vars, Expire, Crash, Attach, Probe, ListRunning, TooLate, Reported
<1> QED
  BY <1>1, <1>2, TypeCorrect, PTL DEF Spec

\* On a host of any size Redis stops before docker kills it, and takes its share.
THEOREM RedisStopsBeforeDocker == Spec => []RedisStopsFirst
<1>1. Init => RedisStopsFirst
  BY DEF Init, RedisStopsFirst
<1>2. TypeOK /\ RedisStopsFirst /\ [Next]_vars => RedisStopsFirst'
  <2> SUFFICES ASSUME TypeOK, RedisStopsFirst, [Next]_vars PROVE RedisStopsFirst'
    OBVIOUS
  <2>t. /\ container \in [DBs -> Jobs \union {None}]
        /\ caps \in [DBs -> [docker : Nat, redis : Nat]] /\ scenario.hostMB \in Nat
    BY ScenarioFacts DEF TypeOK
  <2> USE DEF RedisStopsFirst
  <2>1. ASSUME NEW j \in Jobs, Step(j) PROVE RedisStopsFirst'
    <3>1. scenario' = scenario /\ DB(j) \in DBs
      BY <2>1, StepEffects
    <3>2. CASE UNCHANGED <<container, server, caps>>
      BY <3>1, <3>2
    <3>3. CASE RemoveContainer(DB(j))
      BY <2>t, <3>1, <3>3 DEF RemoveContainer
    <3>4. ASSUME NEW state \in {"created", "starting"}, DockerRun(j, state)
          PROVE  RedisStopsFirst'
      <4>1. container' = [container EXCEPT ![DB(j)] = j]
        BY <3>4 DEF DockerRun
      <4>2. caps' = [caps EXCEPT ![DB(j)] = RedisCaps(scenario.hostMB)]
        BY <3>4 DEF DockerRun
      <4> QED
        BY <2>t, <3>1, <4>1, <4>2, CapsFit
    <3> QED
      BY <2>1, <3>2, <3>3, <3>4, StepEffects
  <2>2. CASE UNCHANGED <<scenario, container, caps>>
    BY <2>2
  <2> QED
    BY <2>1, <2>2 DEF Next, vars, dbVars, Expire, Crash, Serve, Use, Attach, Probe,
       ListRunning, TooLate, Reported
<1> QED
  BY <1>1, <1>2, TypeCorrect, PTL DEF Spec

----------------------------------------------------------------------------
(* Jobs in turn.  What a job has achieved so far cannot be undone by the next *)
(* before that one has become the latest of its database.                     *)

OneAtATime == \A j, k \in Jobs : InProgress(j) /\ InProgress(k) => j = k

LatestRuns == \A j \in Jobs : InProgress(j) => Latest(j)

KindsFit ==
  \A j \in Jobs :
    /\ pc[j] \in {"volume", "network", "replace", "run", "wait"} => Kind(j) = "provision"
    /\ pc[j] \in {"rm", "volumeRm", "networkRm"} => Kind(j) # "provision"
    /\ pc[j] = "volumeRm" => Kind(j) = "destroy"

Provisioned(j) ==
  /\ pc[j] \in {"wait", "ok"} =>
       container[DB(j)] = j /\ DB(j) \in network /\ volume[DB(j)] # "none"
  /\ pc[j] = "ok" => Running(DB(j))

Deleted(j) ==
  /\ pc[j] \in {"volumeRm", "networkRm", "ok"} => container[DB(j)] = None
  /\ Kind(j) = "destroy" /\ pc[j] \in {"networkRm", "ok"} => volume[DB(j)] = "none"

SoFar(j) ==
  /\ Kind(j) = "provision" => Provisioned(j)
  /\ Kind(j) # "provision" /\ j \notin spoiled => Deleted(j)

TurnInv ==
  scenario.serial =>
    OneAtATime /\ LatestRuns /\ KindsFit /\ \A j \in Jobs : Latest(j) => SoFar(j)

\* A step of a job concerns no other job and no other database.
LEMMA StepLocal ==
  ASSUME TypeOK, NEW j \in Jobs, Step(j)
  PROVE  /\ \A k \in Jobs \ {j} : pc'[k] = pc[k] /\ (k \in spoiled' <=> k \in spoiled)
         /\ \A d \in DBs \ {DB(j)} :
              /\ container'[d] = container[d] /\ server'[d] = server[d]
              /\ volume'[d] = volume[d] /\ (d \in network' <=> d \in network)
              /\ last'[d] = last[d]
<1>1. \A k \in Jobs \ {j} : pc'[k] = pc[k] /\ (k \in spoiled' <=> k \in spoiled)
  <2>1. \E s : pc' = [pc EXCEPT ![j] = s]
    BY DEF Step, Start, NoDocker, Begin, CreateVolume, CreateNetwork, Replace, Run, Ready,
           Gone, GivesUp, Remove, DestroyVolume, RemoveNetwork, Goto
  <2>2. spoiled' = spoiled \/ spoiled' = spoiled \union {j}
    BY DEF Step, Start, NoDocker, Begin, CreateVolume, CreateNetwork, Replace, Run, RunFailed,
           DockerRun, Ready, Gone, GivesUp, Remove, DestroyVolume, RemoveNetwork, Ignored
  <2> QED
    BY <2>1, <2>2 DEF TypeOK
<1>2. network' = network \/ network' = network \union {DB(j)} \/ network' = network \ {DB(j)}
  BY DEF Step, Start, NoDocker, Begin, CreateVolume, CreateNetwork, Replace, Run, RunFailed,
         DockerRun, Ready, Gone, GivesUp, Remove, RemoveContainer, DestroyVolume,
         RemoveNetwork, Ignored
<1>3. last' = last \/ last' = [last EXCEPT ![DB(j)] = j]
  BY DEF Step, Start, NoDocker, Begin, CreateVolume, CreateNetwork, Replace, Run, Ready,
         Gone, GivesUp, Remove, DestroyVolume, RemoveNetwork, Goto
<1>4. \A d \in DBs \ {DB(j)} : container'[d] = container[d] /\ server'[d] = server[d]
  BY StepEffects DEF TypeOK, RemoveContainer, DockerRun
<1>5. \A d \in DBs \ {DB(j)} : volume'[d] = volume[d]
  BY StepEffects DEF TypeOK, DestroyVolume
<1> QED
  BY <1>1, <1>2, <1>3, <1>4, <1>5 DEF TypeOK

\* A job under way is the latest of its database, and a job that begins becomes it,
\* so that what another latest job has achieved is out of its reach.
LEMMA OthersKept ==
  ASSUME TypeOK, TurnInv, scenario.serial, NEW j \in Jobs, Step(j),
         NEW k \in Jobs \ {j}, Latest(k)'
  PROVE  Latest(k) /\ SoFar(k)'
<1>1. scenario' = scenario /\ DB(j) \in DBs /\ DB(k) \in DBs
  BY StepEffects, ScenarioFacts DEF TypeOK, DB
<1>2. DB(k) # DB(j)
  <2>1. CASE pc[j] = "queued"
    <3>1. last' = [last EXCEPT ![DB(j)] = j]
      BY <2>1 DEF Step, Start, NoDocker, Begin, CreateVolume, CreateNetwork, Replace, Run,
         Ready, Gone, GivesUp, Remove, DestroyVolume, RemoveNetwork, Goto
    <3> QED
      BY <1>1, <3>1 DEF Latest, DB, TypeOK
  <2>2. CASE pc[j] # "queued"
    <3>1. last' = last /\ InProgress(j)
      BY <2>2 DEF Step, Start, NoDocker, Begin, CreateVolume, CreateNetwork, Replace, Run,
         Ready, Gone, GivesUp, Remove, DestroyVolume, RemoveNetwork, Goto, InProgress, Ended
    <3> QED
      BY <1>1, <3>1 DEF TurnInv, LatestRuns, Latest, DB
  <2> QED
    BY <2>1, <2>2
<1>3. Latest(k)
  BY <1>1, <1>2, StepLocal DEF Latest, DB
<1>4. SoFar(k)
  BY <1>3 DEF TurnInv
<1> QED
  BY <1>1, <1>2, <1>3, <1>4, StepLocal
     DEF SoFar, Provisioned, Deleted, Running, Kind, DB

LEMMA OwnProgress ==
  ASSUME TypeOK, TurnInv, scenario.serial, NEW j \in Jobs, Step(j)
  PROVE  /\ Latest(j)' /\ SoFar(j)'
         /\ pc'[j] \in {"volume", "network", "replace", "run", "wait"} => Kind(j) = "provision"
         /\ pc'[j] \in {"rm", "volumeRm", "networkRm"} => Kind(j) # "provision"
         /\ pc'[j] = "volumeRm" => Kind(j) = "destroy"
<1>1. scenario' = scenario /\ DB(j) \in DBs
  BY StepEffects
<1>2. /\ pc \in [Jobs -> Steps] /\ last \in [DBs -> Jobs \union {None}]
      /\ container \in [DBs -> Jobs \union {None}]
      /\ server \in [DBs -> {"none", "created", "starting", "ready", "restarting"}]
      /\ volume \in [DBs -> {"none", "empty", "data"}]
  BY DEF TypeOK
<1>3. /\ pc[j] \in {"volume", "network", "replace", "run", "wait"} => Kind(j) = "provision"
      /\ pc[j] \in {"rm", "volumeRm", "networkRm"} => Kind(j) # "provision"
      /\ pc[j] = "volumeRm" => Kind(j) = "destroy"
      /\ Kind(j)' = Kind(j) /\ DB(j)' = DB(j)
      /\ Kind(j) \in {"provision", "delete", "destroy"}
  BY <1>1, ScenarioFacts DEF TurnInv, KindsFit, Kind, DB, TypeOK
<1>4. InProgress(j) => Latest(j) /\ SoFar(j)
  BY DEF TurnInv, LatestRuns
<1> USE <1>1, <1>2, <1>3 DEF dbVars
<1>5. CASE Start(j) \/ NoDocker(j)
  <2>1. Latest(j)'
    BY <1>5 DEF Start, NoDocker, Begin, Latest
  <2>2. pc' = [pc EXCEPT ![j] = IF Kind(j) = "provision" THEN "volume" ELSE "rm"]
        \/ (pc' = [pc EXCEPT ![j] = "failed"])
    BY <1>5 DEF Start, NoDocker, Begin
  <2> QED
    BY <2>1, <2>2 DEF SoFar, Provisioned, Deleted
<1>6. CASE pc[j] # "queued"
  <2>1. InProgress(j) /\ last' = last
    BY <1>6 DEF Step, Start, NoDocker, Begin, CreateVolume, CreateNetwork, Replace, Run,
       Ready, Gone, GivesUp, Remove, DestroyVolume, RemoveNetwork, Goto, InProgress, Ended
  <2>2. Latest(j) /\ Latest(j)' /\ SoFar(j)
    BY <1>4, <2>1 DEF Latest
  <2> USE <2>2 DEF Goto, SoFar, Provisioned, Deleted
  <2>3. CASE CreateVolume(j) \/ CreateNetwork(j) \/ Replace(j)
    BY <2>3 DEF CreateVolume, CreateNetwork, Replace
  <2>4. CASE Run(j)
    <3>1. CASE Goto(j, "run", "wait") /\ DB(j) \in network /\ DockerRun(j, "starting")
      BY <3>1 DEF DockerRun
    <3>2. CASE Goto(j, "run", "failed")
      BY <3>2
    <3> QED
      BY <2>4, <3>1, <3>2 DEF Run
  <2>5. CASE Ready(j)
    BY <2>5 DEF Ready, Running
  <2>6. CASE Gone(j) \/ GivesUp(j)
    BY <2>6 DEF Gone, GivesUp
  <2>7. CASE Remove(j)
    BY <2>7 DEF Remove, RemoveContainer, Ignored
  <2>8. CASE DestroyVolume(j)
    BY <2>8 DEF DestroyVolume
  <2>9. CASE RemoveNetwork(j)
    BY <2>9 DEF RemoveNetwork, Ignored
  <2> QED
    BY <1>6, <2>3, <2>4, <2>5, <2>6, <2>7, <2>8, <2>9 DEF Step, Start, NoDocker, Begin
<1> QED
  BY <1>5, <1>6 DEF Step, CreateVolume, CreateNetwork, Replace, Run, Ready, Gone, GivesUp,
     Remove, DestroyVolume, RemoveNetwork, Goto

\* No other job is under way when a job steps, if jobs wait for each other.
LEMMA Alone ==
  ASSUME TypeOK, TurnInv, scenario.serial, NEW j \in Jobs, Step(j),
         NEW k \in Jobs \ {j}
  PROVE  ~InProgress(k) /\ ~InProgress(k)'
<1>1. ~InProgress(k)
  <2>1. CASE pc[j] = "queued"
    BY <2>1 DEF Step, Start, NoDocker, Begin, CreateVolume, CreateNetwork, Replace, Run,
       Ready, Gone, GivesUp, Remove, DestroyVolume, RemoveNetwork, Goto
  <2>2. CASE pc[j] # "queued"
    <3>1. InProgress(j)
      BY <2>2 DEF Step, Start, NoDocker, Begin, CreateVolume, CreateNetwork, Replace, Run,
         Ready, Gone, GivesUp, Remove, DestroyVolume, RemoveNetwork, Goto, InProgress, Ended
    <3> QED
      BY <3>1 DEF TurnInv, OneAtATime
  <2> QED
    BY <2>1, <2>2
<1> QED
  BY <1>1, StepLocal DEF InProgress

LEMMA TurnInvInductive == TypeOK /\ TurnInv /\ [Next]_vars => TurnInv'
<1> SUFFICES ASSUME TypeOK, TurnInv, [Next]_vars, scenario'.serial
             PROVE  (OneAtATime /\ LatestRuns /\ KindsFit)'
                    /\ \A k \in Jobs : Latest(k)' => SoFar(k)'
  BY DEF TurnInv
<1>1. scenario' = scenario
  BY StepEffects DEF Next, vars, Expire, Crash, Serve, Use, Attach, Probe, ListRunning,
     TooLate, Reported
<1>2. /\ scenario.serial /\ OneAtATime /\ LatestRuns /\ KindsFit
      /\ \A k \in Jobs : Latest(k) => SoFar(k)
  BY <1>1 DEF TurnInv
<1>3. \A k \in Jobs : DB(k) \in DBs /\ DB(k)' = DB(k) /\ Kind(k)' = Kind(k)
  BY <1>1, ScenarioFacts DEF DB, Kind, TypeOK
<1>4. ASSUME NEW j \in Jobs, Step(j)
      PROVE  (OneAtATime /\ LatestRuns /\ KindsFit)'
             /\ \A k \in Jobs : Latest(k)' => SoFar(k)'
  <2>1. Latest(j)' /\ SoFar(j)'
    BY <1>2, <1>4, OwnProgress
  <2>2. \A k \in Jobs \ {j} : ~InProgress(k)'
    BY <1>2, <1>4, Alone
  <2>3. OneAtATime' /\ LatestRuns'
    BY <2>1, <2>2 DEF OneAtATime, LatestRuns
  <2>4. KindsFit'
    BY <1>2, <1>3, <1>4, OwnProgress, StepLocal DEF KindsFit
  <2>5. \A k \in Jobs : Latest(k)' => SoFar(k)'
    BY <1>2, <1>4, <2>1, OthersKept
  <2> QED
    BY <2>3, <2>4, <2>5
<1>5. CASE UNCHANGED <<pc, last, spoiled, container, server, volume, network>>
  BY <1>1, <1>2, <1>3, <1>5
     DEF OneAtATime, LatestRuns, KindsFit, InProgress, Latest, SoFar, Provisioned, Deleted, Running
<1>6. CASE Crash
  <2>1. UNCHANGED <<last, spoiled, container, server, volume, network>>
    BY <1>6 DEF Crash, dbVars, netVars
  <2>2. \A k \in Jobs : /\ pc'[k] = pc[k] \/ pc'[k] = "dead"
                        /\ ~InProgress(k)'
    BY <1>6 DEF Crash, InProgress, Ended
  <2> QED
    BY <1>2, <1>3, <2>1, <2>2
       DEF OneAtATime, LatestRuns, KindsFit, Latest, SoFar, Provisioned, Deleted, Running
<1>7. ASSUME NEW d \in DBs, Serve(d)
      PROVE  (OneAtATime /\ LatestRuns /\ KindsFit)'
             /\ \A k \in Jobs : Latest(k)' => SoFar(k)'
  <2>1. UNCHANGED <<pc, last, spoiled, container, volume, network>>
    BY <1>7 DEF Serve, jobVars, netVars
  <2>2. \A e \in DBs : Running(e) => Running(e)'
    BY <1>7 DEF Serve, Running, TypeOK
  <2> QED
    BY <1>2, <1>3, <2>1, <2>2
       DEF OneAtATime, LatestRuns, KindsFit, InProgress, Latest, SoFar, Provisioned, Deleted
<1>8. ASSUME NEW d \in DBs, Use(d)
      PROVE  (OneAtATime /\ LatestRuns /\ KindsFit)'
             /\ \A k \in Jobs : Latest(k)' => SoFar(k)'
  <2>1. UNCHANGED <<pc, last, spoiled, container, server, network>>
    BY <1>8 DEF Use, jobVars, netVars
  <2>2. \A e \in DBs : volume'[e] = "none" <=> volume[e] = "none"
    BY <1>8 DEF Use, TypeOK
  <2> QED
    BY <1>2, <1>3, <2>1, <2>2
       DEF OneAtATime, LatestRuns, KindsFit, InProgress, Latest, SoFar, Provisioned, Deleted,
           Running
<1> QED
  BY <1>4, <1>5, <1>6, <1>7, <1>8
     DEF Next, vars, jobVars, dbVars, netVars, Expire, Attach, Probe, ListRunning, TooLate,
         Reported

THEOREM TurnsKept == Spec => []TurnInv
<1>1. Init => TurnInv
  BY ManagedDBAssumption, ScenarioFacts
     DEF Init, TurnInv, OneAtATime, LatestRuns, KindsFit, InProgress, Latest, DB
<1> QED
  BY <1>1, TurnInvInductive, TypeCorrect, PTL DEF Spec

\* Of jobs in turn, a provisioning that has succeeded has a running container of
\* its own on its network, with a volume, whatever has failed on the way.
THEOREM SuccessMeansProvisioned == Spec => []OkMeansProvisioned
<1>1. TurnInv => OkMeansProvisioned
  BY DEF TurnInv, OkMeansProvisioned, SoFar, Provisioned
<1> QED
  BY <1>1, TurnsKept, PTL

\* Of jobs in turn, a deletion of which no command has failed leaves no container,
\* and no data where it was to be destroyed.
THEOREM DeletionLeavesNothing == Spec => []DeletedIsGone
<1>1. TurnInv => DeletedIsGone
  BY DEF TurnInv, DeletedIsGone, SoFar, Deleted
<1> QED
  BY <1>1, TurnsKept, PTL

----------------------------------------------------------------------------
\* Under way a report excuses what is not ready now, all once its time is over, and
\* whatever it has already found stopped.
ReportInv ==
  report # "idle" =>
    /\ \A d \in DBs : server[d] # "ready" \/ health[d] = "STOPPED" => d \in excused
    /\ report = "late" => excused = DBs

\* A database that is reported stopped did not answer at some time of the report,
\* unless the report's time was over.
THEOREM StoppedForAReason == Spec => []StoppedHasReason
<1>1. Init => ReportInv
  BY DEF Init, ReportInv
<1>2. TypeOK /\ ReportInv /\ [Next]_vars => ReportInv'
  <2> SUFFICES ASSUME TypeOK, ReportInv, [Next]_vars PROVE ReportInv'
    OBVIOUS
  <2>t. excused \subseteq DBs /\ health \in [DBs -> {"none", "RUNNING", "STOPPED"}]
    BY DEF TypeOK
  <2> USE DEF ReportInv, reportVars
  <2>1. ASSUME NEW j \in Jobs, Step(j) PROVE ReportInv'
    BY <2>t, <2>1 DEF Step, Apart, Watch
  <2>2. ASSUME NEW d \in DBs, Serve(d) PROVE ReportInv'
    BY <2>t, <2>2 DEF Serve, Watch
  <2>3. CASE UNCHANGED <<report, server, health, excused>>
    BY <2>3
  <2>4. CASE Crash \/ ListRunning
    BY <2>4 DEF Crash, ListRunning, dbVars
  <2>5. ASSUME NEW d \in DBs, Probe(d) PROVE ReportInv'
    BY <2>t, <2>5 DEF Probe, dbVars
  <2>6. CASE TooLate \/ Reported
    BY <2>6 DEF TooLate, Reported, dbVars
  <2> QED
    BY <2>1, <2>2, <2>3, <2>4, <2>5, <2>6 DEF Next, vars, dbVars, Expire, Use, Attach
<1>3. ReportInv => StoppedHasReason
  BY DEF ReportInv, StoppedHasReason
<1> QED
  BY <1>1, <1>2, <1>3, TypeCorrect, PTL DEF Spec
=============================================================================
