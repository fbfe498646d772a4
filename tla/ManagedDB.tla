------------------------------ MODULE ManagedDB ------------------------------
(***************************************************************************)
(* Managed databases: PROVISION_DB and DELETE_DB                           *)
(* (src/internal/executor/database.go) and the health that each heartbeat  *)
(* reports of them (src/internal/system/detect.go:96-147).                 *)
(*                                                                         *)
(* A database is a container, a named volume and a private network.  Most   *)
(* docker commands are best effort: their errors are ignored.  Every one is *)
(* a step, so the jobs, the apps, the heartbeat and the database interleave. *)
(***************************************************************************)
EXTENDS Integers

CONSTANTS DBs,
          Jobs,
          Scenarios,  \* the jobs and the host, see IsScenario
          None        \* no container, no job

\* The docker daemon does not answer; a docker command fails; a job's deadline
\* passes; the agent dies; the eight seconds of a health report are over.
AllFaults == {"docker", "volume", "network", "rm", "run", "probe", "deadline",
              "crash", "budget"}

\* What each job does with which database; whether jobs wait for each other;
\* whether apps are deployed and heartbeats sent meanwhile; the MB of RAM of the
\* host, or 0 if they cannot be read; the faults.
IsScenario(s) ==
  /\ s.kind \in [Jobs -> {"provision", "delete", "destroy"}]
  /\ s.of \in [Jobs -> DBs] /\ s.serial \in BOOLEAN
  /\ s.apps \in BOOLEAN /\ s.heartbeats \in BOOLEAN
  /\ s.hostMB \in Nat /\ s.faultKinds \subseteq AllFaults /\ s.maxFaults \in Nat

ASSUME ManagedDBAssumption == None \notin Jobs /\ \A s \in Scenarios : IsScenario(s)

VARIABLES
  scenario,  \* never changed
  pc,        \* per job, the step it is at
  expired,   \* the jobs whose deadline has passed
  spoiled,   \* the jobs of which a command failed without effect on the result
  reason,    \* per job, what a failed one reports
  container, \* per database, the job that started its container
  server,    \* per database, what runs in it
  caps,      \* per database, its memory limits were it a Redis
  volume,    \* per database, its data
  network,   \* the databases whose network exists
  attached,  \* the databases an app is attached to
  entrusted, \* the databases that hold data nobody has asked to destroy
  last,      \* per database, the job that began last
  report,    \* the health report: where it is
  listed,    \* the databases still to be probed
  health,    \* per database, the status found
  excused,   \* the databases that were not ready at some time of the report, or
             \* all of them once its time is over
  faults     \* faults so far

jobVars    == <<pc, expired, spoiled, reason, last>>
dbVars     == <<container, server, caps, volume, entrusted>>
netVars    == <<network, attached>>
reportVars == <<report, listed, health>>
vars == <<scenario, jobVars, dbVars, netVars, reportVars, excused, faults>>

----------------------------------------------------------------------------
(* Names                                                                   *)

Kind(j) == scenario.kind[j]
DB(j)   == scenario.of[j]

Ended == {"ok", "failed", "dead"}
Steps == {"queued", "volume", "network", "replace", "run", "wait",
          "rm", "volumeRm", "networkRm"} \union Ended
InProgress(j) == pc[j] \notin Ended \union {"queued"}

\* A container that restarts counts as running for docker inspect.
Running(d) == server[d] \in {"starting", "ready", "restarting"}

NoCaps == [docker |-> 0, redis |-> 0]

\* Types, and something runs exactly in a container.
TypeOK ==
  /\ scenario \in Scenarios
  /\ pc \in [Jobs -> Steps] /\ expired \subseteq Jobs /\ spoiled \subseteq Jobs
  /\ reason \in [Jobs -> {"none", "docker", "run", "exited", "unready"}]
  /\ last \in [DBs -> Jobs \union {None}]
  /\ container \in [DBs -> Jobs \union {None}]
  /\ server \in [DBs -> {"none", "created", "starting", "ready", "restarting"}]
  /\ \A d \in DBs : container[d] = None <=> server[d] = "none"
  /\ caps \in [DBs -> [docker : Nat, redis : Nat]]
  /\ volume \in [DBs -> {"none", "empty", "data"}]
  /\ entrusted \subseteq DBs /\ network \subseteq DBs /\ attached \subseteq DBs
  /\ report \in {"idle", "probing", "late", "done"} /\ listed \subseteq DBs
  /\ health \in [DBs -> {"none", "RUNNING", "STOPPED"}] /\ excused \subseteq DBs
  /\ faults \in Nat

Init ==
  /\ scenario \in Scenarios
  /\ pc = [j \in Jobs |-> "queued"] /\ expired = {} /\ spoiled = {}
  /\ reason = [j \in Jobs |-> "none"] /\ last = [d \in DBs |-> None]
  /\ container = [d \in DBs |-> None] /\ server = [d \in DBs |-> "none"]
  /\ caps = [d \in DBs |-> NoCaps]
  /\ volume = [d \in DBs |-> "none"] /\ entrusted = {}
  /\ network = {} /\ attached = {}
  /\ report = "idle" /\ listed = {} /\ health = [d \in DBs |-> "none"]
  /\ excused = {} /\ faults = 0

----------------------------------------------------------------------------
(* Steps, their commands and their faults                                  *)

Fault(kind) ==
  /\ kind \in scenario.faultKinds
  /\ faults < scenario.maxFaults /\ faults' = faults + 1

\* A command under the job's context works unless its deadline has passed.
Works(j) == j \notin expired /\ UNCHANGED faults
Fails(j, kind) == IF j \in expired THEN UNCHANGED faults ELSE Fault(kind)

Goto(j, s, t) ==
  /\ pc[j] = s /\ pc' = [pc EXCEPT ![j] = t]
  /\ UNCHANGED <<scenario, expired, last>>

\* What a step of a job leaves alone that only others change.
Apart == UNCHANGED <<attached, reportVars>>

\* A database that is not ready now is noted by the report under way.
Watch == excused' = IF report = "idle" THEN excused
                 ELSE excused \union {d \in DBs : server'[d] # "ready"}

\* An ignored error: the job goes on as if nothing had happened.
Ignored(j, kind) ==
  /\ Fails(j, kind) /\ spoiled' = spoiled \union {j}
  /\ UNCHANGED <<dbVars, network, reason>>

----------------------------------------------------------------------------
(* ExecuteProvisionDB                                                      *)

\* Main's dispatcher starts the goroutine.
Begin(j, step) ==
  /\ pc[j] = "queued" /\ pc' = [pc EXCEPT ![j] = step]
  /\ scenario.serial => \A k \in Jobs : ~InProgress(k)
  /\ last' = [last EXCEPT ![DB(j)] = j]
  /\ UNCHANGED <<scenario, expired, spoiled, dbVars, network>>

Start(j) ==
  /\ Begin(j, IF Kind(j) = "provision" THEN "volume" ELSE "rm")
  /\ UNCHANGED <<reason, faults>>

\* system_EnsureDocker: only a provisioning asks.
NoDocker(j) ==
  /\ Kind(j) = "provision" /\ Begin(j, "failed") /\ Fault("docker")
  /\ reason' = [reason EXCEPT ![j] = "docker"]

CreateVolume(j) ==
  /\ Goto(j, "volume", "network")
  /\ \/ /\ Works(j)
        /\ volume' = [volume EXCEPT ![DB(j)] = IF @ = "none" THEN "empty" ELSE @]
        /\ UNCHANGED <<container, server, caps, entrusted, network, spoiled, reason>>
     \/ Ignored(j, "volume")

CreateNetwork(j) ==
  /\ Goto(j, "network", "replace")
  /\ \/ /\ Works(j) /\ network' = network \union {DB(j)}
        /\ UNCHANGED <<dbVars, spoiled, reason>>
     \/ Ignored(j, "network")

\* docker rm -f.
RemoveContainer(d) ==
  /\ container' = [container EXCEPT ![d] = None]
  /\ server' = [server EXCEPT ![d] = "none"]
  /\ UNCHANGED <<caps, volume, entrusted, network>>

\* Faulty variant: a retry begins with an empty volume.
ReplaceAfresh(j) ==
  /\ Goto(j, "replace", "run") /\ Works(j)
  /\ container' = [container EXCEPT ![DB(j)] = None]
  /\ server' = [server EXCEPT ![DB(j)] = "none"]
  /\ volume' = [volume EXCEPT ![DB(j)] = "none"]
  /\ UNCHANGED <<caps, entrusted, network, spoiled, reason>>

\* The container of an earlier attempt, or of an earlier success.
Replace(j) ==
  /\ Goto(j, "replace", "run")
  /\ \/ Works(j) /\ RemoveContainer(DB(j)) /\ UNCHANGED <<spoiled, reason>>
     \/ Ignored(j, "rm")

Clamp(mb) == IF mb < 128 THEN 128 ELSE IF mb > 2048 THEN 2048 ELSE mb

\* Faulty variant: Redis gets its share of what is not yet clamped.
RedisCapsEarly(mb) ==
  LET cap == IF mb = 0 THEN 256 ELSE mb \div 4
  IN [docker |-> Clamp(cap), redis |-> (4 * cap) \div 5]

\* redisMemoryCapsMB: a quarter of the host, clamped; Redis four fifths of it.
RedisCaps(mb) ==
  LET cap == Clamp(IF mb = 0 THEN 256 ELSE mb \div 4)
  IN [docker |-> cap, redis |-> (4 * cap) \div 5]

\* The daemon creates the container with a volume, and starts it if it can; the
\* name may be taken, the network missing.
DockerRun(j, state) ==
  /\ container[DB(j)] = None
  /\ container' = [container EXCEPT ![DB(j)] = j]
  /\ server' = [server EXCEPT ![DB(j)] = state]
  /\ caps' = [caps EXCEPT ![DB(j)] = RedisCaps(scenario.hostMB)]
  /\ volume' = [volume EXCEPT ![DB(j)] = IF @ = "none" THEN "empty" ELSE @]
  /\ UNCHANGED <<entrusted, network, spoiled>>

\* docker run fails without its network or when the name is taken, may come some
\* way before it fails, or is still under way at the deadline.
RunFailed(j) ==
  \/ /\ UNCHANGED <<dbVars, network, spoiled>>
     /\ IF j \in expired \/ container[DB(j)] # None
        THEN UNCHANGED faults ELSE Fault("run")
  \/ /\ j \notin expired /\ DockerRun(j, "created")
     /\ IF DB(j) \in network THEN Fault("run") ELSE UNCHANGED faults
  \/ DB(j) \in network /\ j \notin expired /\ Fault("deadline") /\ DockerRun(j, "starting")

\* Faulty variant: its error is ignored like those before it.
RunIgnored(j) ==
  /\ Goto(j, "run", "wait") /\ UNCHANGED reason
  /\ \/ DB(j) \in network /\ Works(j) /\ DockerRun(j, "starting")
     \/ RunFailed(j)

Run(j) ==
  \/ /\ Goto(j, "run", "wait") /\ UNCHANGED reason
     /\ DB(j) \in network /\ Works(j) /\ DockerRun(j, "starting")
  \/ /\ Goto(j, "run", "failed") /\ reason' = [reason EXCEPT ![j] = "run"]
     /\ RunFailed(j)

\* waitForDBReady: running and answering; or not running, as far as docker inspect
\* tells; or the ninety seconds are over.
Ready(j) ==
  /\ Goto(j, "wait", "ok") /\ server[DB(j)] = "ready" /\ Works(j)
  /\ UNCHANGED <<dbVars, network, spoiled, reason>>

Gone(j) ==
  /\ Goto(j, "wait", "failed") /\ reason' = [reason EXCEPT ![j] = "exited"]
  /\ \/ ~Running(DB(j)) /\ UNCHANGED faults
     \/ Fails(j, "probe")
  /\ UNCHANGED <<dbVars, network, spoiled>>

\* Faulty variant: polling without a deadline.
NeverGivesUp(j) == FALSE /\ UNCHANGED vars

GivesUp(j) ==
  /\ Goto(j, "wait", "failed") /\ reason' = [reason EXCEPT ![j] = "unready"]
  /\ UNCHANGED <<dbVars, network, spoiled, faults>>

----------------------------------------------------------------------------
(* ExecuteDeleteDB                                                         *)

\* Faulty variant: the volume is removed while the container still uses it.
RemoveVolumeFirst(j) ==
  /\ Goto(j, "rm", IF Kind(j) = "destroy" THEN "volumeRm" ELSE "networkRm")
  /\ Works(j)
  /\ IF Kind(j) = "destroy" /\ container[DB(j)] # None
     THEN UNCHANGED <<dbVars, network>>
     ELSE RemoveContainer(DB(j))
  /\ UNCHANGED <<spoiled, reason>>

Remove(j) ==
  /\ Goto(j, "rm", IF Kind(j) = "destroy" THEN "volumeRm" ELSE "networkRm")
  /\ \/ Works(j) /\ RemoveContainer(DB(j)) /\ UNCHANGED <<spoiled, reason>>
     \/ Ignored(j, "rm")

\* docker refuses to remove a volume that a container uses.
DestroyVolume(j) ==
  /\ Goto(j, "volumeRm", "networkRm")
  /\ entrusted' = entrusted \ {DB(j)}
  /\ \/ /\ Works(j)
        /\ volume' = IF container[DB(j)] = None
                     THEN [volume EXCEPT ![DB(j)] = "none"] ELSE volume
        /\ UNCHANGED spoiled
     \/ Fails(j, "volume") /\ spoiled' = spoiled \union {j} /\ UNCHANGED volume
  /\ UNCHANGED <<container, server, caps, network, reason>>

\* Nor a network that somebody is connected to.
RemoveNetwork(j) ==
  /\ Goto(j, "networkRm", "ok")
  /\ \/ /\ Works(j)
        /\ network' = IF Running(DB(j)) \/ DB(j) \in attached
                      THEN network ELSE network \ {DB(j)}
        /\ UNCHANGED <<dbVars, spoiled, reason>>
     \/ Ignored(j, "network")

Step(j) ==
  /\ \/ Start(j) \/ NoDocker(j) \/ CreateVolume(j) \/ CreateNetwork(j)
     \/ Replace(j) \/ Run(j) \/ Ready(j) \/ Gone(j) \/ GivesUp(j)
     \/ Remove(j) \/ DestroyVolume(j) \/ RemoveNetwork(j)
  /\ Apart /\ Watch

----------------------------------------------------------------------------
(* What happens beside the jobs                                            *)

Expire(j) ==
  /\ InProgress(j) /\ j \notin expired /\ expired' = expired \union {j}
  /\ Fault("deadline")
  /\ UNCHANGED <<scenario, pc, spoiled, reason, last, dbVars, netVars, reportVars, excused>>

\* The agent dies; the containers stay.
Crash ==
  /\ \E j \in Jobs : InProgress(j)
  /\ pc' = [j \in Jobs |-> IF InProgress(j) THEN "dead" ELSE pc[j]]
  /\ report' = "idle" /\ listed' = {} /\ health' = [d \in DBs |-> "none"]
  /\ excused' = {} /\ Fault("crash")
  /\ UNCHANGED <<scenario, expired, spoiled, reason, last, dbVars, netVars>>

\* The server comes up, fails and is restarted, is used.
Serve(d) ==
  /\ \/ server[d] = "starting" /\ server' = [server EXCEPT ![d] = "ready"]
     \/ server[d] = "starting" /\ server' = [server EXCEPT ![d] = "restarting"]
     \/ server[d] = "restarting" /\ server' = [server EXCEPT ![d] = "starting"]
  /\ Watch
  /\ UNCHANGED <<scenario, jobVars, container, caps, volume, entrusted, netVars,
                 reportVars, faults>>

Use(d) ==
  /\ server[d] = "ready" /\ volume[d] = "empty"
  /\ volume' = [volume EXCEPT ![d] = "data"] /\ entrusted' = entrusted \union {d}
  /\ UNCHANGED <<scenario, jobVars, container, server, caps, netVars, reportVars,
                 excused, faults>>

\* connectNetworks of a deploy; the app is removed.
Attach(d) ==
  /\ scenario.apps /\ d \in network
  /\ attached' \in {attached \union {d}, attached \ {d}}
  /\ UNCHANGED <<scenario, jobVars, dbVars, network, reportVars, excused, faults>>

----------------------------------------------------------------------------
(* ManagedDatabaseHealthWire                                               *)

\* docker ps: running containers only.
ListRunning ==
  /\ scenario.heartbeats /\ report = "idle" /\ report' = "probing"
  /\ listed' = {d \in DBs : Running(d)} /\ health' = [d \in DBs |-> "none"]
  /\ excused' = {d \in DBs : server[d] # "ready"}
  /\ UNCHANGED <<scenario, jobVars, dbVars, netVars, faults>>

\* Faulty variant: the name of the first container is used for all.
ProbeAnother(d) ==
  /\ report \in {"probing", "late"} /\ d \in listed /\ listed' = listed \ {d}
  /\ \E e \in listed :
       health' = [health EXCEPT ![d] =
                    IF server[e] = "ready" /\ report # "late" THEN "RUNNING" ELSE "STOPPED"]
  /\ UNCHANGED <<scenario, jobVars, dbVars, netVars, report, excused, faults>>

\* managedDBProbe.
Probe(d) ==
  /\ report \in {"probing", "late"} /\ d \in listed /\ listed' = listed \ {d}
  /\ health' = [health EXCEPT ![d] =
                  IF server[d] = "ready" /\ report # "late" THEN "RUNNING" ELSE "STOPPED"]
  /\ UNCHANGED <<scenario, jobVars, dbVars, netVars, report, excused, faults>>

TooLate ==
  /\ report = "probing" /\ report' = "late" /\ excused' = DBs /\ Fault("budget")
  /\ UNCHANGED <<scenario, jobVars, dbVars, netVars, listed, health>>

\* The heartbeat takes the report along.
Reported ==
  /\ \/ report \in {"probing", "late"} /\ listed = {} /\ report' = "done"
     \/ report = "done" /\ report' = "idle"
  /\ UNCHANGED <<scenario, jobVars, dbVars, netVars, listed, health, excused, faults>>

Next ==
  \/ (\E j \in Jobs : Step(j) \/ Expire(j)) \/ Crash
  \/ (\E d \in DBs : Serve(d) \/ Use(d) \/ Attach(d) \/ Probe(d))
  \/ ListRunning \/ TooLate \/ Reported

Spec == Init /\ [][Next]_vars

\* The goroutine of a job runs, and its commands and the ninety seconds end.
FairSpec == Spec /\ \A j \in Jobs : WF_vars(Step(j))

----------------------------------------------------------------------------
(* Properties                                                              *)

Latest(j) == last[DB(j)] = j

\* Data lives in a volume that "survives restarts/redeploys" (:13-16): through
\* retries, second deliveries, overlapping jobs and failures it is there until
\* its destruction is asked for.
DataKept == \A d \in entrusted : volume[d] = "data"

\* A provisioning that has succeeded has its own container on the network, with a
\* volume, whatever ignored command has failed on the way, until the next job.
OkMeansProvisioned ==
  scenario.serial =>
    \A j \in Jobs : pc[j] = "ok" /\ Kind(j) = "provision" /\ Latest(j) =>
      /\ container[DB(j)] = j /\ Running(DB(j))
      /\ DB(j) \in network /\ volume[DB(j)] # "none"

\* A deletion leaves no container, and a destruction no data, unless a command of
\* it has failed: nothing of that shows in its result (:79-90).
DeletedIsGone ==
  scenario.serial =>
    \A j \in Jobs : pc[j] = "ok" /\ Kind(j) # "provision" /\ Latest(j) /\ j \notin spoiled =>
      /\ container[DB(j)] = None
      /\ Kind(j) = "destroy" => volume[DB(j)] = "none"

\* "Redis stops accepting writes a little before Docker would kill it", and takes
\* no more than a quarter of a host that has 512 MB (:93-106, :142-147).
RedisStopsFirst ==
  \A d \in DBs : container[d] # None =>
    /\ 0 < caps[d].redis /\ caps[d].redis < caps[d].docker
    /\ scenario.hostMB >= 512 => 4 * caps[d].docker <= scenario.hostMB

\* A database is reported STOPPED only if it did not answer at some time of the
\* report, or the time of the report was over ("RUNNING reflects live state",
\* detect.go:98-101).
StoppedHasReason ==
  report = "done" =>
    \A d \in DBs : health[d] = "STOPPED" => d \in excused

\* A provisioning that reports that its database has exited is right.  Not so: once
\* the deadline has passed, docker inspect fails and is taken for that (:181-184,
\* :211-214), and the container runs on.
ExitedIsTrue ==
  [][\A j \in Jobs : reason'[j] = "exited" /\ reason[j] # "exited" => ~Running(DB(j))]_vars

\* Every job ends.
EveryJobEnds == \A j \in Jobs : InProgress(j) ~> pc[j] \in Ended
=============================================================================
