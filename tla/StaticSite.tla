----------------------------- MODULE StaticSite -----------------------------
(***************************************************************************)
(* Publishing one static site: ExecuteStaticDeploy and                     *)
(* ExecuteStaticRollback (src/internal/executor/staticdeploy.go) with      *)
(* configureStaticProxy (proxy.go).                                        *)
(*                                                                         *)
(* A job builds a release folder, or picks an old one, and makes the       *)
(* symlink `current` point at it by way of the temporary link              *)
(* `current.new`; a deploy then prunes old releases.  File system calls    *)
(* that other jobs, readers or a crash can see between are steps.          *)
(***************************************************************************)
EXTENDS Integers, FiniteSets

CONSTANTS Releases,    \* the release ids, which name the folders
          Scenarios,   \* the host and its jobs, see IsScenario
          None         \* no link

AllFaults == {"build", "remove", "copy", "write", "refuse", "test", "reload", "certbot", "crash"}

\* What proxy the host has and how many releases are kept; the jobs, the release
\* of each, which of them are rollbacks, and whether one waits for the other;
\* the faults that may happen, and the bound on their number.
IsScenario(s) ==
  /\ s.backend \in {"caddy", "nginx"} /\ s.keep \in Nat \ {0}
  /\ s.release \in [s.jobs -> Releases] /\ s.rollbacks \subseteq s.jobs
  /\ s.serial \in BOOLEAN
  /\ s.faultKinds \subseteq AllFaults /\ s.maxFaults \in Nat

ASSUME StaticAssumption ==
  (\A s \in Scenarios : IsScenario(s) /\ None \notin s.jobs) /\ None \notin Releases

VARIABLES
  scenario, \* the host and its jobs, never changed
  content,  \* per release folder: what it holds, see Contents
  mtime,    \* per release folder, its modification time
  current,  \* where `current` points
  tmp,      \* where `current.new` points
  disk,     \* the site in the proxy's configuration file, see DiskStates
  loaded,   \* the site in the configuration the proxy works with
  pc,       \* per job, the step it is at
  built,    \* per job, the modification time of what it built
  doomed,   \* per job, the folders its pruning has still to delete
  stuck,    \* per job, the folders its pruning could not delete (observed, not kept)
  routing,  \* per job, how far it has routed the site, see RoutingStates (as above)
  last,     \* the job that succeeded last
  clock,    \* modification times so far
  faults    \* faults so far

folderVars == <<content, mtime>>
linkVars   == <<current, tmp>>
proxyVars  == <<disk, loaded>>
localVars  == <<built, doomed, stuck>>
vars == <<scenario, folderVars, linkVars, proxyVars, pc, localVars, routing, last, clock, faults>>

----------------------------------------------------------------------------
Jobs      == scenario.jobs
Release   == scenario.release
Rollbacks == scenario.rollbacks
Serial    == scenario.serial

\* staticKeepReleases, and what detectProxyBackend finds.
KeepCount == scenario.keep
Backend   == scenario.backend

\* A copy that is not complete is "partial"; what is left of a folder from the
\* moment its removal begins is a "ruin", which may have its index.html yet.
Contents == {"none", "partial", "full", "ruin"}

\* A configuration with TLS is one that certbot has completed, or Caddy's.  A file
\* that is missing or empty has no site; the proxy refuses one that is cut off or
\* wrong and goes on with what it has loaded.
RouteStates == {"none", "http", "https"}
DiskStates  == RouteStates \union {"broken"}

\* A job has begun when it has opened the file for writing and is done when it logs
\* "Serving static site via".
RoutingStates == {"no", "begun", "done", "failed"}

Steps == {"queued", "build", "wipe", "mkdir", "copy", "verify", "unlink",
          "symlink", "rename", "write", "fill", "test", "reload", "certbot", "list",
          "delete", "ok", "failed", "dead"}
Ended == {"ok", "failed", "dead"}
InProgress(j) == pc[j] \notin Ended \union {"queued"}

Present == {r \in Releases : content[r] # "none"}

TypeOK ==
  /\ scenario \in Scenarios
  /\ content \in [Releases -> Contents]
  /\ mtime \in [Releases -> Nat]
  /\ current \in Releases \union {None} /\ tmp \in Releases \union {None}
  /\ disk \in DiskStates /\ loaded \in RouteStates
  /\ pc \in [Jobs -> Steps]
  /\ built \in [Jobs -> Nat]
  /\ doomed \in [Jobs -> SUBSET Releases] /\ stuck \in [Jobs -> SUBSET Releases]
  /\ routing \in [Jobs -> RoutingStates]
  /\ last \in Jobs \union {None}
  /\ clock \in Nat /\ faults \in Nat

Init ==
  /\ scenario \in Scenarios
  /\ content = [r \in Releases |-> "none"] /\ mtime = [r \in Releases |-> 0]
  /\ current = None /\ tmp = None
  /\ disk = "none" /\ loaded = "none"
  /\ pc = [j \in Jobs |-> "queued"]
  /\ built = [j \in Jobs |-> 0]
  /\ doomed = [j \in Jobs |-> {}] /\ stuck = [j \in Jobs |-> {}]
  /\ routing = [j \in Jobs |-> "no"]
  /\ last = None /\ clock = 0 /\ faults = 0

Fault(kind) ==
  /\ kind \in scenario.faultKinds
  /\ faults < scenario.maxFaults /\ faults' = faults + 1

Goto(j, s, t) ==
  pc[j] = s /\ pc' = [pc EXCEPT ![j] = t] /\ UNCHANGED scenario

----------------------------------------------------------------------------
(* ExecuteStaticDeploy up to the release folder                            *)

\* The backend sends a rollback to a release whose deploy was reported ok.
Reported(r) == \E i \in Jobs \ Rollbacks : Release[i] = r /\ pc[i] = "ok"

Start(j) ==
  /\ j \in Rollbacks => Reported(Release[j])
  /\ Serial => \A i \in Jobs : ~InProgress(i)
  /\ Goto(j, "queued", IF j \in Rollbacks THEN "verify" ELSE "build")
  /\ UNCHANGED <<folderVars, linkVars, proxyVars, localVars, routing, last, clock, faults>>

\* Clone, build and verifyStaticArtifact, all in a work directory of the job.
Build(j) ==
  /\ \/ /\ Goto(j, "build", "wipe") /\ UNCHANGED faults
        /\ clock' = clock + 1 /\ built' = [built EXCEPT ![j] = clock + 1]
     \/ Goto(j, "build", "failed") /\ Fault("build") /\ UNCHANGED <<clock, built>>
  /\ UNCHANGED <<folderVars, linkVars, proxyVars, doomed, stuck, routing, last>>

\* os.RemoveAll of a folder: its files go one by one, which changes the folder's
\* modification time, and then the folder itself.
Erode(r) ==
  /\ content[r] \in {"partial", "full"} /\ content' = [content EXCEPT ![r] = "ruin"]
  /\ clock' = clock + 1 /\ mtime' = [mtime EXCEPT ![r] = clock + 1]

Gone(r) ==
  /\ content[r] \in {"none", "ruin"} /\ content' = [content EXCEPT ![r] = "none"]
  /\ UNCHANGED <<mtime, clock>>

\* copyArtifact: the folder, which may hold a partial copy, is removed.
Wipe(j) ==
  LET r == Release[j] IN
  /\ \/ Goto(j, "wipe", "wipe") /\ Erode(r) /\ UNCHANGED faults
     \/ Goto(j, "wipe", "mkdir") /\ Gone(r) /\ UNCHANGED faults
     \/ /\ Goto(j, "wipe", "failed") /\ content[r] # "none" /\ Fault("remove")
        /\ UNCHANGED <<folderVars, clock>>
  /\ UNCHANGED <<linkVars, proxyVars, localVars, routing, last>>

\* copyArtifact: the folder is made, unless it is there again, and cp -a starts
\* to fill it.
CopyBegins(j) ==
  LET r == Release[j] IN
  /\ Goto(j, "mkdir", "copy")
  /\ IF content[r] = "none"
     THEN /\ content' = [content EXCEPT ![r] = "partial"]
          /\ clock' = clock + 1 /\ mtime' = [mtime EXCEPT ![r] = clock + 1]
     ELSE UNCHANGED <<folderVars, clock>>
  /\ UNCHANGED <<linkVars, proxyVars, localVars, routing, last, faults>>

\* cp -a has copied everything, of which another job may have removed some; the
\* folder takes over the modification time of the source.
Copied(j) ==
  LET r == Release[j] IN
  /\ content[r] # "none"
  /\ content' = [content EXCEPT ![r] = IF @ = "ruin" THEN "ruin" ELSE "full"]
  /\ mtime' = [mtime EXCEPT ![r] = built[j]]

\* Faulty variant: the error of cp is ignored.
CopyErrorIgnored(j) ==
  /\ Goto(j, "copy", "unlink")
  /\ \/ Copied(j) /\ UNCHANGED faults
     \/ Fault("copy") /\ UNCHANGED folderVars
  /\ UNCHANGED <<linkVars, proxyVars, localVars, routing, last, clock>>

\* cp -a ends; or it fails, because another job has deleted the folder or for
\* a reason of its own, or is killed at the deadline, and leaves what it has
\* copied.
CopyEnds(j) ==
  /\ \/ Goto(j, "copy", "unlink") /\ Copied(j) /\ UNCHANGED faults
     \/ /\ Goto(j, "copy", "failed") /\ UNCHANGED folderVars
        /\ IF content[Release[j]] = "none" THEN UNCHANGED faults
                                          ELSE Fault("copy")
  /\ UNCHANGED <<linkVars, proxyVars, localVars, routing, last, clock>>

\* ExecuteStaticRollback: the folder has an index.html, which a partial copy or
\* a ruin may or may not have.
Verify(j) ==
  /\ \/ Goto(j, "verify", "unlink") /\ content[Release[j]] # "none"
     \/ Goto(j, "verify", "failed") /\ content[Release[j]] # "full"
  /\ UNCHANGED <<folderVars, linkVars, proxyVars, localVars, routing, last, clock, faults>>

----------------------------------------------------------------------------
(* flipCurrent                                                             *)

\* Faulty variant: a site that has a `current` is not flipped.
UnlinkOrSkip(j) ==
  /\ Goto(j, "unlink", IF current = None THEN "symlink" ELSE "write")
  /\ tmp' = None
  /\ UNCHANGED <<folderVars, current, proxyVars, localVars, routing, last, clock, faults>>

Unlink(j) ==
  /\ Goto(j, "unlink", "symlink") /\ tmp' = None
  /\ UNCHANGED <<folderVars, current, proxyVars, localVars, routing, last, clock, faults>>

\* Faulty variant: the link leads to the newest folder.
SymlinkNewest(j) ==
  /\ Goto(j, "symlink", "rename")
  /\ tmp' \in {r \in Releases : \A s \in Releases : mtime[s] <= mtime[r]}
  /\ UNCHANGED <<folderVars, current, proxyVars, localVars, routing, last, clock, faults>>

\* os.Symlink fails when the temporary link exists.
Symlink(j) ==
  /\ IF tmp = None THEN Goto(j, "symlink", "rename") /\ tmp' = Release[j]
                   ELSE Goto(j, "symlink", "failed") /\ UNCHANGED tmp
  /\ UNCHANGED <<folderVars, current, proxyVars, localVars, routing, last, clock, faults>>

\* os.Rename replaces `current` by whatever the temporary link is.
Rename(j) ==
  /\ IF tmp = None THEN Goto(j, "rename", "failed") /\ UNCHANGED linkVars
                   ELSE /\ Goto(j, "rename", "write")
                        /\ current' = tmp /\ tmp' = None
  /\ UNCHANGED <<folderVars, proxyVars, localVars, routing, last, clock, faults>>

----------------------------------------------------------------------------
(* configureStaticProxy: its failures do not fail the job                  *)

AfterRoute(j) == IF j \in Rollbacks THEN "ok" ELSE "list"
Finished(j, t) == last' = IF t = "ok" THEN j ELSE last

\* The job gives up routing and goes on.
GivesUp(j, s) ==
  /\ Goto(j, s, AfterRoute(j)) /\ Finished(j, AfterRoute(j))
  /\ routing' = [routing EXCEPT ![j] = "failed"]

\* os.WriteFile opens the file, which empties it, or cannot open it.  Whatever jobs
\* whose routing has failed, or that are dead, have left is replaced.
Write(j) ==
  /\ \/ /\ Goto(j, "write", "fill") /\ disk' = "none"
        /\ routing' = [i \in Jobs |->
             IF i = j THEN "begun"
             ELSE IF routing[i] = "failed" \/ pc[i] = "dead" THEN "no" ELSE routing[i]]
        /\ UNCHANGED <<last, faults>>
     \/ GivesUp(j, "write") /\ Fault("write") /\ UNCHANGED disk
  /\ UNCHANGED <<folderVars, linkVars, loaded, localVars, clock>>

Site      == IF Backend = "caddy" THEN "https" ELSE "http"
AfterFill == IF Backend = "caddy" THEN "reload" ELSE "test"

\* Faulty variant: the error of os.WriteFile is ignored.
FillErrorIgnored(j) ==
  /\ Goto(j, "fill", AfterFill)
  /\ \/ disk' = Site /\ UNCHANGED faults
     \/ disk' = "broken" /\ Fault("refuse")
     \/ disk' \in {"none", "broken"} /\ Fault("write")
  /\ UNCHANGED <<folderVars, linkVars, loaded, localVars, routing, last, clock>>

\* os.WriteFile writes the file, Caddy's needs nothing more for TLS; or the disk
\* is full and it stays empty or is cut off.  What is written may be refused, for a
\* domain the proxy does not take.
Fill(j) ==
  /\ \/ /\ Goto(j, "fill", AfterFill) /\ UNCHANGED <<routing, last>>
        /\ \/ disk' = Site /\ UNCHANGED faults
           \/ disk' = "broken" /\ Fault("refuse")
     \/ GivesUp(j, "fill") /\ Fault("write") /\ disk' \in {"none", "broken"}
  /\ UNCHANGED <<folderVars, linkVars, loaded, localVars, clock>>

\* nginx -t refuses the file, or is killed at the deadline: the file is removed.
Test(j) ==
  /\ \/ /\ Goto(j, "test", "reload") /\ disk # "broken"
        /\ UNCHANGED <<disk, routing, last, faults>>
     \/ /\ GivesUp(j, "test") /\ disk' = "none"
        /\ IF disk = "broken" THEN UNCHANGED faults ELSE Fault("test")
  /\ UNCHANGED <<folderVars, linkVars, loaded, localVars, clock>>

Reload(j) ==
  LET t == IF Backend = "caddy" THEN AfterRoute(j) ELSE "certbot" IN
  /\ \/ /\ Goto(j, "reload", t) /\ Finished(j, t)
        /\ disk # "broken" /\ loaded' = disk
        /\ routing' = [routing EXCEPT ![j] = "done"] /\ UNCHANGED faults
     \/ /\ GivesUp(j, "reload") /\ UNCHANGED loaded
        /\ IF disk = "broken" THEN UNCHANGED faults ELSE Fault("reload")
  /\ UNCHANGED <<folderVars, linkVars, disk, localVars, clock>>

\* provisionCertbot edits the site's block of the file and reloads nginx, or changes
\* nothing.
Certbot(j) ==
  /\ Goto(j, "certbot", AfterRoute(j)) /\ Finished(j, AfterRoute(j))
  /\ \/ /\ disk \in {"http", "https"} /\ disk' = "https" /\ loaded' = "https"
        /\ UNCHANGED faults
     \/ /\ UNCHANGED proxyVars
        /\ IF disk \in {"http", "https"} THEN Fault("certbot") ELSE UNCHANGED faults
  /\ UNCHANGED <<folderVars, linkVars, localVars, routing, clock>>

----------------------------------------------------------------------------
(* pruneOldReleases                                                        *)

\* The folders newer than that of r.
Newer(r) == {s \in Present : mtime[s] > mtime[r]}

\* Faulty variant: one folder too many is kept.
OldByOne == {r \in Present : Cardinality(Newer(r)) > KeepCount}

\* The folders that are not among the KeepCount newest.
Old == {r \in Present : Cardinality(Newer(r)) >= KeepCount}

\* The folders are listed and `current` is read, once.
List(j) ==
  /\ Goto(j, "list", "delete")
  /\ doomed' = [doomed EXCEPT ![j] = Old \ {current}]
  /\ stuck' = [stuck EXCEPT ![j] = {}]
  /\ UNCHANGED <<folderVars, linkVars, proxyVars, built, routing, last, clock, faults>>

\* The folders are removed one after the other, the newest first; an error in the
\* middle is ignored, and a crash leaves the rest of that folder.
Delete(j, r) ==
  /\ Goto(j, "delete", "delete")
  /\ r \in doomed[j] /\ \A s \in doomed[j] : mtime[s] <= mtime[r]
  /\ \/ Erode(r) /\ UNCHANGED <<doomed, stuck, faults>>
     \/ /\ Gone(r) /\ doomed' = [doomed EXCEPT ![j] = @ \ {r}]
        /\ UNCHANGED <<stuck, faults>>
     \/ /\ content[r] # "none" /\ Fault("remove")
        /\ doomed' = [doomed EXCEPT ![j] = @ \ {r}]
        /\ stuck' = [stuck EXCEPT ![j] = @ \union {r}]
        /\ UNCHANGED <<folderVars, clock>>
  /\ UNCHANGED <<linkVars, proxyVars, built, routing, last>>

Pruned(j) ==
  /\ doomed[j] = {} /\ Goto(j, "delete", "ok") /\ Finished(j, "ok")
  /\ UNCHANGED <<folderVars, linkVars, proxyVars, localVars, routing, clock, faults>>

----------------------------------------------------------------------------
Crash ==
  /\ \E j \in Jobs : InProgress(j)
  /\ Fault("crash")
  /\ pc' = [j \in Jobs |-> IF InProgress(j) THEN "dead" ELSE pc[j]]
  /\ UNCHANGED <<scenario, folderVars, linkVars, proxyVars, localVars, routing, last, clock>>

\* Another app's deploy, or certbot's renewal, reloads the proxy, which keeps what
\* it has when it refuses the file.
ReloadElsewhere ==
  /\ disk \notin {loaded, "broken"} /\ loaded' = disk
  /\ UNCHANGED <<scenario, folderVars, linkVars, disk, pc, localVars, routing, last, clock, faults>>

\* No job runs and none is left that can be sent.
Quiet ==
  /\ \A j \in Jobs :
       \/ pc[j] \in Ended
       \/ pc[j] = "queued" /\ j \in Rollbacks /\ ~Reported(Release[j])
  /\ UNCHANGED vars

Step(j) ==
  \/ Build(j) \/ Wipe(j) \/ CopyBegins(j) \/ CopyEnds(j) \/ Verify(j)
  \/ Unlink(j) \/ Symlink(j) \/ Rename(j)
  \/ Write(j) \/ Fill(j) \/ Test(j) \/ Reload(j) \/ Certbot(j)
  \/ List(j) \/ (\E r \in Releases : Delete(j, r)) \/ Pruned(j)

Next ==
  \/ \E j \in Jobs : Start(j) \/ Step(j)
  \/ Crash \/ ReloadElsewhere \/ Quiet

Spec == Init /\ [][Next]_vars

----------------------------------------------------------------------------
(* Properties                                                              *)

\* No two deploys have the same release, which the backend names after the deployment.
Distinct == \A i, j \in Jobs \ Rollbacks : Release[i] = Release[j] => i = j

\* The hosts the promises below are about: there jobs wait for each other, or no
\* folder is ever pruned.
Roomy == IsFiniteSet(Releases) /\ Cardinality(Releases) <= KeepCount
Tidy  == Distinct /\ (Serial \/ Roomy)

Flipped == {"write", "fill", "test", "reload", "certbot", "list", "delete"}

\* A reader who follows `current` finds a complete site (staticdeploy.go:21-24): a
\* failed build never touches `current`, the flip leaves no gap (:221), pruning
\* never deletes the live release (:233), and no removal that fails or is cut short
\* changes that, but for one case: a rollback to a release of which such a removal
\* has left the index.html (:155).
SiteServes ==
  Tidy /\ current # None /\ content[current] # "full" =>
    /\ content[current] = "ruin"
    /\ \E j \in Rollbacks : Release[j] = current /\ pc[j] \in Flipped \union {"ok", "dead"}

\* Where jobs do not overlap, one whose flip succeeded has made its own release
\* live: what it reports as published is what readers get (flipCurrent, :220).
FlipsToOwn ==
  [][\A j \in Jobs : Serial /\ pc[j] = "rename" /\ pc'[j] = "write" =>
       current' = Release[j]]_vars

\* Where jobs do not overlap, the site served is that of the job that succeeded
\* last, or of one that has flipped and is still routing and pruning, or died
\* after the flip.
ServesLatest ==
  Serial /\ current # None =>
    \E j \in Jobs :
      /\ Release[j] = current
      /\ \/ pc[j] = "ok" /\ last = j
         \/ pc[j] \in Flipped \union {"dead"}

\* A deploy that succeeds leaves only the newest KeepCount folders, the live one and
\* those it could not remove, whatever earlier jobs that failed or died have left:
\* the disk stays bounded (pruneOldReleases, TestPruneOldReleasesKeepsNewestAndLive).
HistoryBounded ==
  [][\A j \in Jobs \ Rollbacks : Tidy /\ pc[j] # "ok" /\ pc'[j] = "ok" =>
       /\ \A r \in Present' \ ({current'} \union stuck'[j]) :
            Cardinality(Newer(r)' \ stuck'[j]) < KeepCount
       /\ current' \in Present']_vars

\* Pruning does not begin to remove one of the newest KeepCount folders: the rollback
\* history is kept (pruneOldReleases).
NewestKept ==
  [][\A r \in Releases : Tidy /\ content[r] = "full" /\ content'[r] # "full" =>
       Cardinality(Newer(r)) >= KeepCount]_vars

\* What pruning does to the history: neither more nor less stays than the agent
\* promises, for builds whose times are in any order (staticdeploy.go:235-265).
HistoryKept == HistoryBounded /\ NewestKept

\* When no job is routing, and none has given up or died routing since the file
\* was last opened, a site that a job has said it serves is in the file and in
\* what the proxy works with: however the jobs overlapped, and whatever another
\* reload loaded of a file that was being written (proxy.go:122-130, 157-170).
RoutedIsServed ==
  (\E j \in Jobs : routing[j] = "done") /\ (\A j \in Jobs : routing[j] \in {"no", "done"}) =>
    loaded # "none" /\ disk \notin {"none", "broken"}

\* "nginx config test failed — leaving existing nginx untouched" (proxy.go:163): the
\* site of an earlier deploy stays routed while no job is writing its file.
StaysRouted ==
  [][last # None /\ loaded # "none" /\ (\A j \in Jobs : routing[j] # "begun")
       => loaded' # "none"]_vars
============================================================================
