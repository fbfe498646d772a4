--------------------------- MODULE StaticSiteProofs ---------------------------
(***************************************************************************)
(* For any releases, jobs and faults: types; where one job waits for the    *)
(* other, a flip publishes the job's own release, what is served is what    *)
(* was reported last, and it is complete if no two deploys share a release   *)
(* but for a rollback to a half-removed one; pruning keeps the promised      *)
(* history; a site that was routed is served.                                *)
(***************************************************************************)
EXTENDS StaticSite, FiniteSetTheorems, WellFoundedInduction, TLAPS

USE DEF Jobs, Release, Rollbacks, KeepCount, Backend

LEMMA ScenarioFacts ==
  ASSUME TypeOK
  PROVE  /\ Release \in [Jobs -> Releases] /\ Rollbacks \subseteq Jobs
         /\ None \notin Jobs /\ None \notin Releases
  BY StaticAssumption DEF TypeOK, IsScenario

LEMMA TypeInit == Init => TypeOK
  BY StaticAssumption DEF Init, TypeOK, RouteStates, DiskStates, RoutingStates, Contents, Steps

\* Every step keeps the types.
LEMMA TypeStep ==
  ASSUME TypeOK, [Next]_vars
  PROVE  TypeOK'
<1>0. Release \in [Jobs -> Releases] /\ Rollbacks \subseteq Jobs
  BY ScenarioFacts
<1>1. ASSUME NEW j \in Jobs, Start(j)
      PROVE  TypeOK'
  BY <1>1 DEF TypeOK, Start, Goto, Steps, folderVars, linkVars, proxyVars, localVars
<1>2. ASSUME NEW j \in Jobs, Build(j)
      PROVE  TypeOK'
  BY <1>2 DEF TypeOK, Build, Goto, Fault, Steps, folderVars, linkVars, proxyVars
<1>3. ASSUME NEW j \in Jobs, Wipe(j) \/ CopyBegins(j) \/ CopyEnds(j)
      PROVE  TypeOK'
  <2>1. CASE Wipe(j)
    BY <1>0, <2>1 DEF TypeOK, Wipe, Erode, Gone, Fault, Goto, Steps, Contents, folderVars, linkVars,
       proxyVars, localVars
  <2>2. CASE CopyBegins(j)
    BY <1>0, <2>2 DEF TypeOK, CopyBegins, Goto, Steps, Contents, folderVars, linkVars, proxyVars, localVars
  <2>3. CASE CopyEnds(j)
    BY <1>0, <2>3 DEF TypeOK, CopyEnds, Copied, Goto, Fault, Steps, Contents, folderVars, linkVars,
       proxyVars, localVars
  <2>4. QED
    BY <1>3, <2>1, <2>2, <2>3
<1>4. ASSUME NEW j \in Jobs, Verify(j) \/ Unlink(j) \/ Symlink(j) \/ Rename(j)
      PROVE  TypeOK'
  BY <1>0, <1>4 DEF TypeOK, Verify, Unlink, Symlink, Rename, Goto, Steps, folderVars, linkVars,
     proxyVars, localVars
<1>5. ASSUME NEW j \in Jobs, Write(j) \/ Fill(j) \/ Test(j) \/ Reload(j) \/ Certbot(j)
      PROVE  TypeOK'
  BY <1>5 DEF TypeOK, Write, Fill, GivesUp, Test, Reload, Certbot, AfterRoute, AfterFill, Finished, Site,
     AfterFill,
     RouteStates, DiskStates, RoutingStates, Goto, Fault, Steps, folderVars, linkVars, proxyVars, localVars
<1>6. ASSUME NEW j \in Jobs, List(j) \/ (\E r \in Releases : Delete(j, r)) \/ Pruned(j)
      PROVE  TypeOK'
  <2>1. CASE List(j)
    BY <2>1 DEF TypeOK, List, Old, Present, Goto, Steps, folderVars, linkVars, proxyVars
  <2>2. ASSUME NEW r \in Releases, Delete(j, r)
        PROVE  TypeOK'
    BY <2>2 DEF TypeOK, Delete, Erode, Gone, Fault, Goto, Steps, Contents, folderVars, linkVars, proxyVars
  <2>3. CASE Pruned(j)
    BY <2>3 DEF TypeOK, Pruned, Finished, Goto, Steps, folderVars, linkVars, proxyVars, localVars
  <2>4. QED
    BY <1>6, <2>1, <2>2, <2>3
<1>7. CASE Crash
  BY <1>7 DEF TypeOK, Crash, Fault, Steps, folderVars, linkVars, proxyVars, localVars
<1>8. CASE ReloadElsewhere
  BY <1>8 DEF TypeOK, ReloadElsewhere, DiskStates, folderVars, linkVars, localVars
<1>9. CASE UNCHANGED vars
  BY <1>9 DEF TypeOK, vars, folderVars, linkVars, proxyVars, localVars
<1>10. QED
  BY <1>1, <1>2, <1>3, <1>4, <1>5, <1>6, <1>7, <1>8, <1>9 DEF Next, Step, Quiet

\* The types of the state, over all steps.
THEOREM TypeCorrect == Spec => []TypeOK
<1>1. Init => TypeOK
  BY TypeInit
<1>2. TypeOK /\ [Next]_vars => TypeOK'
  BY TypeStep
<1>3. QED
  BY <1>1, <1>2, PTL DEF Spec
LEMMA ScenarioStays ==
  ASSUME [Next]_vars
  PROVE  scenario' = scenario
  BY DEF Next, Step, Quiet, Start, Build, Wipe, Erode, Gone, CopyBegins, CopyEnds, Verify, Unlink, Symlink,
     Rename, Write, Fill, GivesUp, Test, Reload, Certbot, List, Delete, Pruned, Crash, ReloadElsewhere, Goto,
     vars

----------------------------------------------------------------------------
(* One job after the other                                                 *)

\* At most one job is in progress; the temporary link is its own when it is renamed,
\* and `current` afterwards, until the next job flips.
TurnInv ==
  Serial =>
    /\ \A i, j \in Jobs : InProgress(i) /\ InProgress(j) => i = j
    /\ \A j \in Jobs : pc[j] = "rename" => tmp = Release[j]
    /\ \A j \in Jobs : pc[j] \in Flipped => current = Release[j]

LEMMA TurnInit == Init => TurnInv
  BY DEF Init, TurnInv, InProgress, Flipped

LEMMA TurnStep ==
  ASSUME TypeOK, TurnInv, [Next]_vars
  PROVE  TurnInv'
<1> SUFFICES ASSUME Serial' PROVE TurnInv'
  BY DEF TurnInv
<1>0. Serial /\ scenario' = scenario
  BY DEF Serial, Next, Step, Quiet, Start, Build, Wipe, Erode, Gone, CopyBegins, CopyEnds, Verify, Unlink,
     Symlink,
     Rename, Write, Fill, GivesUp, Test, Reload, Certbot, List, Delete, Pruned, Crash, ReloadElsewhere, Goto,
     vars
<1>a. /\ \A i, j \in Jobs : InProgress(i) /\ InProgress(j) => i = j
      /\ \A j \in Jobs : pc[j] = "rename" => tmp = Release[j]
      /\ \A j \in Jobs : pc[j] \in Flipped => current = Release[j]
  BY <1>0 DEF TurnInv
<1>b. pc \in [Jobs -> Steps] /\ Jobs' = Jobs /\ Release' = Release
  BY <1>0 DEF TypeOK
<1>1. ASSUME NEW j \in Jobs, Start(j)
      PROVE  TurnInv'
  BY <1>0, <1>a, <1>b, <1>1 DEF TurnInv, Start, Goto, InProgress, Flipped, Ended, linkVars
\* A step of a job, which is the one in progress.
<1>2. ASSUME NEW j \in Jobs, Step(j)
      PROVE  TurnInv'
  <2>1. InProgress(j) /\ (\A i \in Jobs \ {j} : ~InProgress(i) /\ pc'[i] = pc[i])
    BY <1>a, <1>b, <1>2 DEF Step, Build, Wipe, Erode, Gone, CopyBegins, CopyEnds, Verify, Unlink, Symlink,
       Rename, Write, Fill, GivesUp,
       Test, Reload, Certbot, List, Delete, Pruned, Goto, InProgress, Ended
  <2>2. /\ pc'[j] = "rename" => tmp' = Release[j]
        /\ pc'[j] \in Flipped => current' = Release[j]
    BY <1>a, <1>b, <1>2 DEF Step, Build, Wipe, Erode, Gone, CopyBegins, CopyEnds, Verify, Unlink, Symlink,
       Rename, Write, Fill, GivesUp,
       Test, Reload, Certbot, AfterRoute, AfterFill, List, Delete, Pruned, Goto, Flipped, linkVars
  <2>3. QED
    BY <1>b, <2>1, <2>2 DEF TurnInv, InProgress, Flipped, Ended
<1>3. CASE Crash
  BY <1>a, <1>b, <1>3 DEF TurnInv, Crash, InProgress, Flipped, Ended, linkVars
<1>4. CASE ReloadElsewhere \/ UNCHANGED vars
  BY <1>a, <1>b, <1>4 DEF TurnInv, ReloadElsewhere, vars, InProgress, linkVars
<1>5. QED
  BY <1>1, <1>2, <1>3, <1>4 DEF Next, Quiet

\* Where jobs do not overlap, a flip publishes the release of its own job.
THEOREM FlipIsOwn == Spec => FlipsToOwn
<1>1. TypeOK /\ TurnInv /\ [Next]_vars
        => (\A j \in Jobs : Serial /\ pc[j] = "rename" /\ pc'[j] = "write" => current' = Release[j])
  <2> SUFFICES ASSUME TypeOK, TurnInv, [Next]_vars, NEW j \in Jobs, Serial,
                      pc[j] = "rename", pc'[j] = "write"
               PROVE  current' = Release[j]
    OBVIOUS
  <2>1. TurnInv'
    BY TurnStep
  <2>2. Serial' /\ Jobs' = Jobs /\ Release' = Release
    BY DEF Serial, Next, Step, Quiet, Start, Build, Wipe, Erode, Gone, CopyBegins, CopyEnds, Verify, Unlink,
       Symlink,
       Rename, Write, Fill, GivesUp, Test, Reload, Certbot, List, Delete, Pruned, Crash, ReloadElsewhere,
       Goto, vars
  <2>3. QED
    BY <2>1, <2>2 DEF TurnInv, Flipped
<1>2. TypeOK /\ TurnInv /\ [Next]_vars => TurnInv'
  BY TurnStep
<1>3. QED
  BY <1>1, <1>2, TurnInit, TypeCorrect, PTL DEF Spec, FlipsToOwn
\* The site served is that of the job that succeeded last, or of one that has flipped
\* since.
LEMMA LatestStep ==
  ASSUME TypeOK, TurnInv, ServesLatest, [Next]_vars
  PROVE  ServesLatest'
<1> SUFFICES ASSUME Serial', (current # None)' PROVE ServesLatest'
  BY DEF ServesLatest
<1>0. Serial /\ scenario' = scenario
  BY DEF Serial, Next, Step, Quiet, Start, Build, Wipe, Erode, Gone, CopyBegins, CopyEnds, Verify, Unlink,
     Symlink,
     Rename, Write, Fill, GivesUp, Test, Reload, Certbot, List, Delete, Pruned, Crash, ReloadElsewhere, Goto,
     vars
<1>a. /\ \A i, j \in Jobs : InProgress(i) /\ InProgress(j) => i = j
      /\ \A j \in Jobs : pc[j] \in Flipped => current = Release[j]
      /\ \A j \in Jobs : (pc[j] \in Flipped)' => (current = Release[j])'
  BY <1>0, TurnStep DEF TurnInv
<1>b. pc \in [Jobs -> Steps] /\ Jobs' = Jobs /\ Release' = Release
  BY <1>0 DEF TypeOK
<1>c. current # None =>
        \E j \in Jobs : /\ Release[j] = current
                        /\ (pc[j] = "ok" /\ last = j) \/ pc[j] \in Flipped \union {"dead"}
  BY <1>0 DEF ServesLatest, Flipped
<1>d. SUFFICES \E j \in Jobs : /\ Release[j] = current'
                               /\ (pc'[j] = "ok" /\ last' = j) \/ pc'[j] \in Flipped \union {"dead"}
  BY <1>b DEF ServesLatest, Flipped
<1>1. ASSUME NEW j \in Jobs, Start(j)
      PROVE  \E i \in Jobs : /\ Release[i] = current'
                             /\ (pc'[i] = "ok" /\ last' = i) \/ pc'[i] \in Flipped \union {"dead"}
  BY <1>b, <1>c, <1>1 DEF Start, Goto, Flipped, linkVars
<1>2. ASSUME NEW j \in Jobs, Step(j)
      PROVE  \E i \in Jobs : /\ Release[i] = current'
                             /\ (pc'[i] = "ok" /\ last' = i) \/ pc'[i] \in Flipped \union {"dead"}
  <2>1. /\ InProgress(j) /\ \A i \in Jobs \ {j} : pc'[i] = pc[i]
        /\ \/ pc'[j] \in Flipped
           \/ pc'[j] = "ok" /\ last' = j /\ pc[j] \in Flipped /\ current' = current
           \/ pc[j] \notin Flipped /\ current' = current /\ last' = last
    BY <1>b, <1>2 DEF Step, Build, Wipe, Erode, Gone, CopyBegins, CopyEnds, Verify, Unlink, Symlink, Rename,
       Write, Fill, GivesUp, Test,
       Reload, Certbot, AfterRoute, AfterFill, Finished, List, Delete, Pruned, Goto, InProgress, Ended,
       Flipped, linkVars
  <2>2. CASE pc'[j] \in Flipped \/ pc[j] \in Flipped
    BY <1>a, <1>b, <2>1, <2>2
  <2>3. CASE pc[j] \notin Flipped /\ current' = current /\ last' = last
    BY <1>b, <1>c, <2>1, <2>3 DEF InProgress, Ended
  <2>4. QED
    BY <2>1, <2>2, <2>3
<1>3. CASE Crash
  BY <1>b, <1>c, <1>3 DEF Crash, InProgress, Flipped, Ended, linkVars
<1>4. CASE ReloadElsewhere \/ UNCHANGED vars
  BY <1>b, <1>c, <1>4 DEF ReloadElsewhere, vars, linkVars
<1>5. QED
  BY <1>1, <1>2, <1>3, <1>4 DEF Next, Quiet

\* Where jobs do not overlap, readers get what was reported last.
THEOREM LatestIsServed == Spec => []ServesLatest
<1>1. Init => ServesLatest
  BY DEF Init, ServesLatest
<1>2. TypeOK /\ TurnInv /\ ServesLatest /\ [Next]_vars => TurnInv' /\ ServesLatest'
  BY TurnStep, LatestStep
<1>3. QED
  BY <1>1, <1>2, TurnInit, TypeCorrect, PTL DEF Spec

----------------------------------------------------------------------------
(* The live release is complete                                            *)

Filling == {"build", "wipe", "mkdir", "copy"}
Filled  == {"unlink", "symlink", "rename"}

\* A deploy has nothing of its own release before it copies, so that no full folder is
\* wiped; what a rollback activates is not copied.
UnfilledInv ==
  /\ \A j \in Jobs \ Rollbacks :
       /\ pc[j] \in {"queued", "build", "wipe", "mkdir"} => content[Release[j]] = "none"
       /\ pc[j] = "copy" => content[Release[j]] # "full"
  /\ \A j \in Jobs : pc[j] \in Filling \union {"list", "delete"} => j \notin Rollbacks

LEMMA UnfilledStep ==
  ASSUME TypeOK, Distinct, UnfilledInv, [Next]_vars
  PROVE  UnfilledInv'
<1>0. /\ pc \in [Jobs -> Steps] /\ content \in [Releases -> Contents]
      /\ Release \in [Jobs -> Releases] /\ Rollbacks \subseteq Jobs
      /\ doomed \in [Jobs -> SUBSET Releases]
      /\ Jobs' = Jobs /\ Release' = Release /\ Rollbacks' = Rollbacks
  BY ScenarioFacts, ScenarioStays DEF TypeOK
<1>1. ASSUME NEW j \in Jobs, Start(j)
      PROVE  UnfilledInv'
  BY <1>0, <1>1 DEF Start, Goto, UnfilledInv, Filling, folderVars
<1>2. ASSUME NEW j \in Jobs, Build(j) \/ Wipe(j) \/ CopyBegins(j) \/ CopyEnds(j)
      PROVE  UnfilledInv'
  <2>1. /\ pc[j] \in Filling /\ pc'[j] \in Filling \union {"unlink", "failed"}
        /\ \A i \in Jobs \ {j} : pc'[i] = pc[i]
        /\ \A r \in Releases \ {Release[j]} : content'[r] = content[r]
    BY <1>0, <1>2 DEF Build, Wipe, Erode, Gone, CopyBegins, CopyEnds, Copied, Goto, Filling, folderVars
  <2>2. j \notin Rollbacks
    BY <2>1 DEF UnfilledInv
  <2>5. /\ pc'[j] \in {"queued", "build", "wipe", "mkdir"} => content'[Release[j]] = "none"
        /\ pc'[j] = "copy" => content'[Release[j]] # "full"
    BY <1>0, <1>2, <2>2 DEF UnfilledInv, Build, Wipe, Erode, Gone, CopyBegins, CopyEnds, Goto, folderVars
  <2>3. \A i \in Jobs \ Rollbacks : i # j => Release[i] # Release[j]
    BY <2>2 DEF Distinct
  <2>4. QED
    BY <1>0, <2>1, <2>2, <2>3, <2>5 DEF UnfilledInv, Filling
<1>3. ASSUME NEW j \in Jobs,
             \/ Verify(j) \/ Unlink(j) \/ Symlink(j) \/ Rename(j)
             \/ Write(j) \/ Fill(j) \/ Test(j) \/ Reload(j) \/ Certbot(j) \/ List(j) \/ Pruned(j)
      PROVE  UnfilledInv'
  <2>1. /\ content' = content /\ \A i \in Jobs \ {j} : pc'[i] = pc[i]
        /\ pc'[j] \notin Filling \union {"queued"}
        /\ pc'[j] \in {"list", "delete"} => pc[j] = "list" \/ j \notin Rollbacks
    BY <1>0, <1>3 DEF Verify, Unlink, Symlink, Rename, Write, Fill, GivesUp, Test, Reload, Certbot,
       AfterRoute, AfterFill, List,
       Pruned, Goto, Filling, folderVars
  <2>2. QED
    BY <1>0, <2>1 DEF UnfilledInv, Filling
<1>4. ASSUME NEW j \in Jobs, NEW r \in Releases, Delete(j, r)
      PROVE  UnfilledInv'
  <2>1. /\ pc' = pc
        /\ \A s \in Releases : /\ content[s] = "none" => content'[s] = "none"
                               /\ content[s] # "full" => content'[s] # "full"
    BY <1>0, <1>4 DEF Delete, Erode, Gone, Goto, folderVars
  <2>2. QED
    BY <1>0, <2>1 DEF UnfilledInv, Filling
<1>5. CASE Crash
  BY <1>0, <1>5 DEF Crash, UnfilledInv, Filling, folderVars
<1>6. CASE ReloadElsewhere \/ UNCHANGED vars
  BY <1>0, <1>6 DEF ReloadElsewhere, vars, UnfilledInv, folderVars
<1>7. QED
  BY <1>1, <1>2, <1>3, <1>4, <1>5, <1>6 DEF Next, Step, Quiet

\* The releases that were reported ok and that the backend may roll back to.
Published == {r \in Releases : Reported(r)}

\* The live folder is complete, or a rollback has activated what is left of it.
LiveWhole ==
  current # None /\ content[current] # "full" =>
    /\ content[current] = "ruin"
    /\ \E j \in Rollbacks : Release[j] = current /\ pc[j] \in Flipped \union {"ok", "dead"}

\* What a deploy has yet to fill is not live; what a job is about to activate is
\* full, or the ruin of a release that was; what may be rolled back to is full or
\* pruned; what is being pruned is not live.
LiveInv ==
  /\ LiveWhole
  /\ \A j \in Jobs \ Rollbacks : pc[j] \in Filling \union {"queued"} => current # Release[j]
  /\ \A j \in Jobs \ Rollbacks : pc[j] = "copy" => content[Release[j]] = "partial"
  /\ \A j \in Jobs : pc[j] \in Filled => \/ content[Release[j]] = "full"
                                         \/ j \in Rollbacks /\ content[Release[j]] = "ruin"
  /\ \A j \in Rollbacks : pc[j] # "queued" => Release[j] \in Published /\ pc[j] \notin Filling
  /\ \A r \in Published : content[r] # "partial"
  /\ \A j \in Jobs : pc[j] = "verify" => j \in Rollbacks
  /\ \A j \in Jobs : pc[j] = "delete" => current \notin doomed[j]

CompleteInv == Serial /\ Distinct => LiveInv

LEMMA LiveInit == TypeOK /\ Init => LiveInv
  BY ScenarioFacts DEF Init, LiveInv, LiveWhole, Filling, Filled, Published, Reported
\* Before the flip: folders change, `current` stays.
LEMMA FillStep ==
  ASSUME TypeOK, TurnInv, UnfilledInv, Serial, Distinct, LiveInv, NEW j \in Jobs,
         Build(j) \/ Wipe(j) \/ CopyBegins(j) \/ CopyEnds(j) \/ Verify(j)
  PROVE  LiveInv'
<1>0. /\ pc \in [Jobs -> Steps] /\ Jobs' = Jobs /\ Release' = Release /\ Rollbacks' = Rollbacks
      /\ content \in [Releases -> Contents]
      /\ Release \in [Jobs -> Releases] /\ Rollbacks \subseteq Jobs
  BY ScenarioFacts DEF TypeOK, Build, Wipe, CopyBegins, CopyEnds, Verify, Goto
<1>1. /\ \A i \in Jobs \ {j} : pc'[i] = pc[i] /\ pc[i] \notin Filling \union Filled \union {"delete"}
      /\ current' = current /\ doomed' = doomed
  BY <1>0 DEF TurnInv, InProgress, Ended, Filling, Filled, Build, Wipe, CopyBegins, CopyEnds, Verify, Goto,
     linkVars, localVars
<1>2. Published' = Published
  BY <1>0, <1>1 DEF Published, Reported, Build, Wipe, CopyBegins, CopyEnds, Verify, Goto
<1>3. CASE pc[j] \in Filling
  <2>1. j \notin Rollbacks /\ current # Release[j] /\ Release[j] \notin Published
    BY <1>0, <1>3 DEF LiveInv, Distinct, Published, Reported, Filling
  <2>2. /\ \A r \in Releases \ {Release[j]} : content'[r] = content[r]
        /\ pc'[j] \in Filling \union {"unlink", "failed"}
    BY <1>0, <1>3 DEF Build, Wipe, Erode, Gone, CopyBegins, CopyEnds, Verify, Copied, Goto, Filling, folderVars
  <2>3. pc'[j] = "copy" => content'[Release[j]] = "partial"
    BY <1>0, <1>3, <2>1 DEF UnfilledInv, Build, Wipe, CopyBegins, CopyEnds, Verify, Goto, Filling
  <2>4. pc'[j] = "unlink" => content'[Release[j]] = "full"
    BY <1>0, <1>3, <2>1 DEF LiveInv, Build, Wipe, CopyBegins, CopyEnds, Copied, Verify, Goto, Filling
  <2>5. LiveWhole'
    <3>1. ASSUME NEW i \in Rollbacks, pc[i] \in Flipped \union {"ok", "dead"}
          PROVE  pc'[i] = pc[i]
      BY <1>0, <1>1, <2>1
    <3>2. current # None => current \in Releases /\ content'[current] = content[current]
      BY <2>1, <2>2 DEF TypeOK
    <3>3. QED
      BY <1>0, <1>1, <3>1, <3>2 DEF LiveInv, LiveWhole
  <2>6. \A i \in Jobs \ Rollbacks : pc'[i] \in Filling \union {"queued"} => current # Release[i]
    BY <1>1, <2>1 DEF LiveInv
  <2>7. \A i \in Jobs \ Rollbacks : pc'[i] = "copy" => content'[Release[i]] = "partial"
    BY <1>1, <2>3 DEF Filling
  <2>8. \A i \in Jobs : pc'[i] \in Filled => content'[Release[i]] = "full"
    BY <1>1, <2>2, <2>4 DEF Filling, Filled
  <2>9. \A i \in Rollbacks : pc'[i] # "queued" => Release[i] \in Published /\ pc'[i] \notin Filling
    BY <1>0, <1>1, <2>1 DEF LiveInv
  <2>10. \A r \in Published : content'[r] # "partial"
    BY <2>1, <2>2 DEF LiveInv, Published
  <2>11. \A i \in Jobs : /\ pc'[i] = "verify" => i \in Rollbacks
                         /\ pc'[i] = "delete" => current \notin doomed[i]
    BY <1>1, <2>2 DEF LiveInv, Filling
  <2>12. QED
    BY <1>0, <1>1, <1>2, <2>5, <2>6, <2>7, <2>8, <2>9, <2>10, <2>11 DEF LiveInv, Filling, Filled
<1>4. CASE Verify(j)
  <2>1. content' = content /\ pc[j] = "verify" /\ pc'[j] \in {"unlink", "failed"}
    BY <1>0, <1>4 DEF Verify, Goto, folderVars
  <2>2. j \in Rollbacks /\ Release[j] \in Published
    BY <2>1 DEF LiveInv
  <2>3. pc'[j] = "unlink" => content[Release[j]] \in {"full", "ruin"}
    BY <1>0, <1>4, <2>1, <2>2 DEF LiveInv, Verify, Goto, Contents
  <2>4. LiveWhole'
    BY <1>0, <1>1, <2>1 DEF LiveInv, LiveWhole, Flipped
  <2>5. /\ \A i \in Jobs \ Rollbacks : pc'[i] \in Filling \union {"queued"} => current # Release[i]
        /\ \A i \in Jobs \ Rollbacks : pc'[i] = "copy" => content[Release[i]] = "partial"
        /\ \A i \in Jobs : pc'[i] = "verify" => i \in Rollbacks
        /\ \A i \in Jobs : pc'[i] = "delete" => current \notin doomed[i]
    BY <1>1, <2>1 DEF LiveInv, Filling
  <2>6. /\ \A i \in Jobs : pc'[i] \in Filled => \/ content[Release[i]] = "full"
                                                \/ i \in Rollbacks /\ content[Release[i]] = "ruin"
        /\ \A i \in Rollbacks : pc'[i] # "queued" => Release[i] \in Published /\ pc'[i] \notin Filling
    BY <1>0, <1>1, <2>1, <2>2, <2>3 DEF LiveInv, Filling, Filled
  <2>7. QED
    BY <1>0, <1>1, <1>2, <2>1, <2>4, <2>5, <2>6 DEF LiveInv
<1>5. QED
  BY <1>3, <1>4 DEF Build, Wipe, CopyBegins, CopyEnds, Goto, Filling

\* From the flip on: `current` changes to a full release, and pruning spares it.
LEMMA FlipStep ==
  ASSUME TypeOK, TurnInv, Serial, Distinct, LiveInv, NEW j \in Jobs,
         \/ Unlink(j) \/ Symlink(j) \/ Rename(j)
         \/ Write(j) \/ Fill(j) \/ Test(j) \/ Reload(j) \/ Certbot(j)
         \/ List(j) \/ (\E r \in Releases : Delete(j, r)) \/ Pruned(j)
  PROVE  LiveInv'
<1>0. /\ pc \in [Jobs -> Steps] /\ Jobs' = Jobs /\ Release' = Release /\ Rollbacks' = Rollbacks
      /\ content \in [Releases -> Contents]
      /\ doomed \in [Jobs -> SUBSET Releases] /\ current \in Releases \union {None}
      /\ Release \in [Jobs -> Releases] /\ Rollbacks \subseteq Jobs
      /\ None \notin Releases
  BY ScenarioFacts DEF TypeOK, Unlink, Symlink, Rename, Write, Fill, GivesUp, Test, Reload, Certbot, List,
     Delete, Pruned,
     Goto
<1>1. /\ \A i \in Jobs \ {j} : pc'[i] = pc[i]
      /\ \A i \in Jobs \ {j} : pc[i] \notin Filling \union Filled \union {"verify", "delete"}
      /\ pc[j] \notin Filling \union {"queued", "verify", "ok"}
      /\ pc'[j] \notin Filling \union {"queued", "verify"}
    BY <1>0 DEF TurnInv, InProgress, Ended, Filling, Filled, Unlink, Symlink, Rename, Write, Fill, GivesUp,
       Test, Reload,
       Certbot, AfterRoute, AfterFill, List, Delete, Pruned, Goto
<1>2. CASE Unlink(j) \/ Symlink(j) \/ Rename(j)
  <2>1. /\ content' = content /\ doomed' = doomed /\ pc[j] \in Filled
        /\ pc'[j] \in Filled \union {"write", "failed"}
        /\ current' = current \/ current' = Release[j]
    BY <1>0, <1>2 DEF TurnInv, Unlink, Symlink, Rename, Goto, Filled, folderVars, linkVars, localVars
  <2>2. Published' = Published
    BY <1>0, <1>1, <2>1 DEF Published, Reported, Filled
  <2>3. content[Release[j]] = "full" \/ (j \in Rollbacks /\ content[Release[j]] = "ruin")
    BY <2>1 DEF LiveInv
  <2>4. ASSUME NEW i \in Jobs \ Rollbacks, pc'[i] \in Filling \union {"queued"}, current' # current
        PROVE  Release[i] # Release[j]
    <3>1. i # j /\ pc[i] = pc'[i]
      BY <1>1, <2>4
    <3>2. CASE j \in Rollbacks
      <4>1. PICK k \in Jobs \ Rollbacks : Release[k] = Release[j] /\ pc[k] = "ok"
        BY <2>1, <3>2 DEF LiveInv, Published, Reported, Filled
      <4>2. QED
        BY <3>1, <4>1, <2>4 DEF Distinct, Filling
    <3>3. QED
      BY <3>1, <3>2 DEF Distinct
  <2>5. \A i \in Jobs \ Rollbacks : pc'[i] \in Filling \union {"queued"} => current' # Release[i]
    BY <1>1, <2>1, <2>4 DEF LiveInv
  <2>6. LiveWhole'
    <3>1. CASE pc'[j] = "write"
      <4>1. current' = Release[j]
        BY <1>0, <1>2, <3>1 DEF TurnInv, Unlink, Symlink, Rename, Goto
      <4>2. QED
        BY <1>0, <2>1, <2>3, <3>1, <4>1 DEF LiveWhole, Flipped
    <3>2. CASE pc'[j] # "write"
      <4>1. current' = current /\ pc[j] \notin Flipped \union {"ok", "dead"}
        BY <1>0, <1>2, <2>1, <3>2 DEF Unlink, Symlink, Rename, Goto, Filled, Flipped, linkVars
      <4>2. QED
        BY <1>0, <1>1, <2>1, <4>1 DEF LiveInv, LiveWhole
    <3>3. QED
      BY <3>1, <3>2
  <2>7. QED
    BY <1>0, <1>1, <2>1, <2>2, <2>3, <2>5, <2>6 DEF LiveInv, Filling, Filled
<1>3. CASE \/ Write(j) \/ Fill(j) \/ Test(j) \/ Reload(j) \/ Certbot(j)
           \/ List(j) \/ (\E r \in Releases : Delete(j, r)) \/ Pruned(j)
  <2>1. /\ current' = current /\ pc[j] \in Flipped
        /\ pc'[j] \in Flipped \union {"ok"}
    BY <1>0, <1>3 DEF Write, Fill, GivesUp, Test, Reload, Certbot, AfterRoute, AfterFill, List, Delete,
       Pruned, Goto, Flipped, linkVars
  <2>2. /\ \A r \in Releases : \/ content'[r] = content[r]
                               \/ content'[r] \in {"none", "ruin"} /\ r # current
        /\ pc'[j] = "delete" => current \notin doomed'[j]
    BY <1>0, <1>3 DEF LiveInv, Write, Fill, GivesUp, Test, Reload, Certbot, AfterRoute, AfterFill, List,
       Delete, Erode, Gone, Pruned, Goto, folderVars, localVars
  <2>3. current = Release[j]
    BY <2>1 DEF TurnInv
  <2>4. LiveWhole'
    BY <1>0, <1>1, <2>1, <2>2, <2>3 DEF LiveInv, LiveWhole, Flipped
  <2>5. Published' \subseteq Published \union {Release[j]} /\ Published \subseteq Published'
    BY <1>0, <1>1, <2>1 DEF Published, Reported
  <2>6. \A r \in Published' : content'[r] # "partial"
    BY <1>0, <2>1, <2>2, <2>3, <2>4, <2>5 DEF LiveInv, Published, LiveWhole
  <2>7. \A i \in Jobs \ {j} : doomed'[i] = doomed[i]
    BY <1>0, <1>3 DEF Write, Fill, Test, Reload, Certbot, List, Delete, Pruned, localVars
  <2>8. QED
    BY <1>0, <1>1, <2>1, <2>2, <2>4, <2>5, <2>6, <2>7 DEF LiveInv, Filling, Flipped, Filled
<1>4. QED
  BY <1>2, <1>3

LEMMA CompleteStep ==
  ASSUME TypeOK, TurnInv, Distinct => UnfilledInv, CompleteInv, [Next]_vars
  PROVE  CompleteInv'
<1>0. (Serial' <=> Serial) /\ (Distinct' <=> Distinct) /\ scenario' = scenario
  BY DEF Serial, Distinct, Next, Step, Quiet, Start, Build, Wipe, Erode, Gone, CopyBegins, CopyEnds, Verify,
     Unlink, Symlink,
     Rename, Write, Fill, GivesUp, Test, Reload, Certbot, List, Delete, Pruned, Crash, ReloadElsewhere, Goto,
     vars
<1> SUFFICES ASSUME Serial, Distinct, LiveInv PROVE LiveInv'
  BY <1>0 DEF CompleteInv
<1>a. pc \in [Jobs -> Steps] /\ Release \in [Jobs -> Releases] /\ Rollbacks \subseteq Jobs
  BY ScenarioFacts DEF TypeOK
<1>1. ASSUME NEW j \in Jobs, Start(j)
      PROVE  LiveInv'
  <2>1. /\ pc' = [pc EXCEPT ![j] = IF j \in Rollbacks THEN "verify" ELSE "build"]
        /\ pc[j] = "queued" /\ (j \in Rollbacks => Release[j] \in Published)
        /\ UNCHANGED <<content, current, doomed>>
    BY <1>0, <1>a, <1>1 DEF Start, Goto, Published, folderVars, linkVars, localVars
  <2>2. Published' = Published
    BY <1>0, <1>a, <2>1 DEF Published, Reported
  <2>3. QED
    BY <1>0, <1>a, <2>1, <2>2 DEF LiveInv, LiveWhole, Filling, Filled, Flipped
<1>2. ASSUME NEW j \in Jobs, Step(j)
      PROVE  LiveInv'
  BY <1>2, FillStep, FlipStep DEF Step
<1>3. CASE Crash
  <2>1. /\ \A i \in Jobs : pc'[i] = pc[i] \/ (pc'[i] = "dead" /\ pc[i] \notin {"ok", "queued"})
        /\ UNCHANGED <<content, current, doomed>>
    BY <1>0, <1>a, <1>3 DEF Crash, InProgress, Ended, folderVars, linkVars, localVars
  <2>2. Published' = Published
    BY <1>0, <1>a, <2>1 DEF Published, Reported
  <2>3. QED
    BY <1>0, <1>a, <2>1, <2>2 DEF LiveInv, LiveWhole, Filling, Filled, Flipped
<1>4. CASE ReloadElsewhere \/ UNCHANGED vars
  <2>1. UNCHANGED <<scenario, pc, content, current, doomed>>
    BY <1>4 DEF ReloadElsewhere, vars, folderVars, linkVars, localVars
  <2>2. QED
    BY <2>1 DEF LiveInv, LiveWhole, Filling, Filled, Flipped, Published, Reported
<1>5. QED
  BY <1>1, <1>2, <1>3, <1>4 DEF Next, Quiet

----------------------------------------------------------------------------
(* Pruning keeps the promised history                                      *)

\* Folders are dated by the clock, and there are finitely many.
DatesInv ==
  /\ \A r \in Releases : mtime[r] <= clock
  /\ \A j \in Jobs : built[j] <= clock
  /\ IsFiniteSet(Present)

\* The folders a pruning job takes out of the history: those it has still to delete
\* and those it could not.
Struck(j) == doomed[j] \union stuck[j]

\* Where jobs wait for each other: a job that prunes has every folder in its list
\* that is neither live nor one of the newest, and spares the newest of all.
PruneInv ==
  \A j \in Jobs : pc[j] = "delete" =>
    /\ \A r \in Present \ {current} :
         r \in Struck(j) \/ Cardinality(Newer(r) \ Struck(j)) < KeepCount
    /\ \A r \in doomed[j] : content[r] = "full" => Cardinality(Newer(r) \ doomed[j]) >= KeepCount
    /\ current \in Present

\* Where there is room for all releases: nothing is pruned, and what has been
\* copied stays.
RoomInv ==
  /\ \A j \in Jobs : doomed[j] = {}
  /\ \A r \in Releases : content[r] # "ruin"
  /\ \A j \in Jobs : pc[j] \in Flipped => current # None
  /\ current # None => content[current] = "full"
  /\ tmp # None => content[tmp] = "full"
  /\ \A j \in Jobs \ Rollbacks : pc[j] \in Filled \union Flipped \union {"ok"} =>
       content[Release[j]] = "full"
  /\ \A j \in Rollbacks : pc[j] \notin {"queued", "failed", "dead"} => content[Release[j]] = "full"
  /\ \A j \in Jobs : pc[j] = "verify" => j \in Rollbacks

HistoryInv ==
  DatesInv /\ UnfilledInv /\ (Serial => PruneInv) /\ (Roomy => RoomInv)

\* What a step does to the dates and the folders.
LEMMA DatesChange ==
  ASSUME TypeOK, [Next]_vars
  PROVE  /\ clock' = clock \/ clock' = clock + 1
         /\ \A j \in Jobs : built'[j] = built[j] \/ built'[j] = clock'
         /\ \A r \in Releases : \/ mtime'[r] = mtime[r] \/ mtime'[r] = clock'
                                \/ \E j \in Jobs : mtime'[r] = built[j]
         /\ \E x : Present' \subseteq Present \union {x}
<1>0. /\ clock \in Nat /\ built \in [Jobs -> Nat] /\ mtime \in [Releases -> Nat]
      /\ content \in [Releases -> Contents]
      /\ Release \in [Jobs -> Releases]
  BY ScenarioFacts DEF TypeOK
<1>1. ASSUME NEW j \in Jobs, Build(j)
      PROVE  /\ clock' = clock \/ clock' = clock + 1
             /\ \A i \in Jobs : built'[i] = built[i] \/ built'[i] = clock'
             /\ UNCHANGED <<content, mtime>>
  BY <1>0, <1>1 DEF Build, folderVars
<1>2. ASSUME NEW j \in Jobs, Wipe(j) \/ CopyBegins(j) \/ CopyEnds(j)
      PROVE  /\ clock' = clock \/ clock' = clock + 1
             /\ built' = built
             /\ \A r \in Releases : mtime'[r] = mtime[r] \/ mtime'[r] = clock' \/ mtime'[r] = built[j]
             /\ Present' \subseteq Present \union {Release[j]}
  BY <1>0, <1>2 DEF Wipe, Erode, Gone, CopyBegins, CopyEnds, Copied, folderVars, localVars, Present
<1>3. ASSUME NEW j \in Jobs, NEW r \in Releases, Delete(j, r)
      PROVE  /\ clock' = clock \/ clock' = clock + 1
             /\ built' = built
             /\ \A s \in Releases : mtime'[s] = mtime[s] \/ mtime'[s] = clock'
             /\ Present' \subseteq Present
  BY <1>0, <1>3 DEF Delete, Erode, Gone, Present, folderVars
<1>4. ASSUME \/ \E j \in Jobs : \/ Start(j) \/ Verify(j) \/ Unlink(j) \/ Symlink(j) \/ Rename(j) \/ Write(j) \/ Fill(j)
                                \/ Test(j) \/ Reload(j) \/ Certbot(j) \/ List(j) \/ Pruned(j)
             \/ Crash \/ ReloadElsewhere \/ UNCHANGED vars
      PROVE  UNCHANGED <<clock, built, content, mtime>>
  BY <1>4 DEF Start, Verify, Unlink, Symlink, Rename, Write, Fill, GivesUp, Test, Reload, Certbot, List, Pruned,
     Crash, ReloadElsewhere, vars, folderVars, localVars
<1>5. \A x : UNCHANGED content => Present' \subseteq Present \union {x}
  BY DEF Present
<1>6. CASE \E j \in Jobs : Build(j)
  BY <1>1, <1>5, <1>6
<1>7. CASE \E j \in Jobs : Wipe(j) \/ CopyBegins(j) \/ CopyEnds(j)
  BY <1>2, <1>7
<1>8. CASE \E j \in Jobs, r \in Releases : Delete(j, r)
  BY <1>3, <1>8
<1>9. QED
  BY <1>4, <1>5, <1>6, <1>7, <1>8 DEF Next, Step, Quiet

LEMMA DatesStep ==
  ASSUME TypeOK, DatesInv, [Next]_vars
  PROVE  DatesInv'
<1>1. Jobs' = Jobs
  BY ScenarioStays
<1>2. clock \in Nat /\ clock' \in Nat /\ clock <= clock'
  BY DatesChange DEF TypeOK
<1>3. ASSUME NEW j \in Jobs
      PROVE  built'[j] <= clock'
  <2>1. built[j] \in Nat /\ built[j] <= clock
    BY DEF TypeOK, DatesInv
  <2>2. QED
    BY <1>2, <2>1, DatesChange
<1>4. ASSUME NEW r \in Releases
      PROVE  mtime'[r] <= clock'
  <2>1. mtime[r] \in Nat /\ mtime[r] <= clock /\ \A j \in Jobs : built[j] \in Nat /\ built[j] <= clock
    BY DEF TypeOK, DatesInv
  <2>2. QED
    BY <1>2, <2>1, DatesChange
<1>5. IsFiniteSet(Present')
  <2>1. PICK x : Present' \subseteq Present \union {x}
    BY DatesChange
  <2>2. IsFiniteSet(Present \union {x})
    BY FS_AddElement DEF DatesInv
  <2>3. QED
    BY <2>1, <2>2, FS_Subset
<1>6. QED
  BY <1>1, <1>3, <1>4, <1>5 DEF DatesInv

----------------------------------------------------------------------------
(* The newest folders                                                      *)

\* The dates of folders are not less than those they are newer than.
LEMMA NewerFacts ==
  ASSUME TypeOK, DatesInv, NEW r \in Releases
  PROVE  /\ IsFiniteSet(Newer(r)) /\ Cardinality(Newer(r)) \in Nat
         /\ \A s \in Newer(r) : Newer(s) \subseteq Newer(r)
<1>1. IsFiniteSet(Newer(r))
  BY FS_Subset DEF Newer, DatesInv
<1>2. ASSUME NEW s \in Newer(r), NEW t \in Newer(s)
      PROVE  t \in Newer(r)
  <2>1. s \in Releases /\ t \in Releases /\ t \in Present /\ mtime[s] > mtime[r] /\ mtime[t] > mtime[s]
    BY DEF Newer, Present
  <2>2. mtime[r] \in Nat /\ mtime[s] \in Nat /\ mtime[t] \in Nat
    BY <2>1 DEF TypeOK
  <2>3. mtime[t] > mtime[r]
    BY <2>1, <2>2
  <2>4. QED
    BY <2>1, <2>3 DEF Newer
<1>3. QED
  BY <1>1, <1>2, FS_CardinalityType

Below == {w \in Nat \X Nat : w[1] < w[2]}

LEMMA BelowWellFounded == IsWellFoundedOn(Below, Nat)
  BY NatLessThanWellFounded, Zenon DEF Below, OpToRel

LEMMA Least ==
  ASSUME NEW S, S \subseteq Nat, S # {}
  PROVE  \E n \in S : \A m \in S : n <= m
<1>1. PICK n \in S : \A m \in S : <<m, n>> \notin Below
  BY BelowWellFounded, WFMin, Zenon
<1>2. ASSUME NEW m \in S
      PROVE  n <= m
  <2>1. <<m, n>> \in Nat \X Nat /\ <<m, n>> \notin Below
    BY <1>1
  <2>2. QED
    BY <2>1 DEF Below
<1>3. QED
  BY <1>2

\* Of some folders, none is newer than all of the newest.
LEMMA NewestOf ==
  ASSUME TypeOK, DatesInv, NEW S \in SUBSET Releases, S # {}
  PROVE  \E r \in S : \A s \in S : mtime[s] <= mtime[r]
<1> DEFINE ages == {clock - mtime[r] : r \in S}
<1>1. \A r \in S : clock \in Nat /\ mtime[r] \in Nat /\ mtime[r] <= clock
  BY DEF TypeOK, DatesInv
<1>2. ages \subseteq Nat /\ ages # {}
  BY <1>1
<1>3. PICK n \in ages : \A m \in ages : n <= m
  BY <1>2, Least
<1>4. PICK r \in S : n = clock - mtime[r]
  OBVIOUS
<1>5. ASSUME NEW s \in S
      PROVE  mtime[s] <= mtime[r]
  <2>1. clock - mtime[r] <= clock - mtime[s]
    BY <1>3, <1>4
  <2>2. QED
    BY <1>1, <2>1
<1>6. QED
  BY <1>5

\* A folder that is not among the newest has KeepCount newer ones that are.
LEMMA NewestSpared ==
  ASSUME TypeOK, DatesInv, KeepCount \in Nat \ {0}, NEW r \in Old
  PROVE  Cardinality(Newer(r) \ Old) >= KeepCount
<1> DEFINE M == Newer(r) \ Old
<1>1. r \in Releases /\ Cardinality(Newer(r)) >= KeepCount
  BY DEF Old, Present
<1>2. IsFiniteSet(Newer(r)) /\ Newer(r) \subseteq Present /\ Newer(r) \subseteq Releases
  BY <1>1, NewerFacts DEF Newer, Present
<1>3. IsFiniteSet(M) /\ Cardinality(M) \in Nat
  BY <1>2, FS_Subset, FS_CardinalityType
<1>4. CASE Newer(r) \intersect Old = {}
  <2>1. M = Newer(r)
    BY <1>4
  <2>2. QED
    BY <1>1, <2>1
<1>5. CASE Newer(r) \intersect Old # {}
  <2>1. PICK s \in Newer(r) \intersect Old :
          \A t \in Newer(r) \intersect Old : mtime[t] <= mtime[s]
    BY <1>2, <1>5, NewestOf
  <2>2. s \in Releases /\ Newer(s) \subseteq Newer(r)
    BY <1>1, <1>2, NewerFacts
  <2>3. ASSUME NEW t \in Newer(s)
        PROVE  t \notin Old
    <3>1. t \in Releases /\ mtime[t] > mtime[s] /\ mtime[t] \in Nat /\ mtime[s] \in Nat
      BY <1>2, <2>2 DEF Newer, TypeOK
    <3>2. ~(mtime[t] <= mtime[s])
      BY <3>1
    <3>3. QED
      BY <2>1, <2>2, <3>2
  <2>4. Newer(s) \subseteq M
    BY <2>2, <2>3
  <2>5. Cardinality(Newer(s)) <= Cardinality(M)
    BY <1>3, <2>4, FS_Subset
  <2>6. Cardinality(Newer(s)) >= KeepCount /\ Cardinality(Newer(s)) \in Nat
    BY <2>1, <2>2, NewerFacts DEF Old
  <2> HIDE DEF M
  <2>7. Cardinality(M) >= KeepCount
    BY <1>3, <2>5, <2>6
  <2>8. QED
    BY <2>7 DEF M
<1>6. QED
  BY <1>4, <1>5

----------------------------------------------------------------------------
(* Pruning                                                                 *)

LEMMA KeepFact ==
  ASSUME TypeOK
  PROVE  KeepCount \in Nat \ {0}
  BY StaticAssumption DEF TypeOK, IsScenario

\* While a folder is being removed, the other newer ones stay as they are.
LEMMA NewerStays ==
  ASSUME TypeOK, NEW x \in Releases, Erode(x) \/ Gone(x) \/ UNCHANGED folderVars,
         NEW r \in Releases, r # x, NEW D, x \in D
  PROVE  Newer(r)' \ D = Newer(r) \ D /\ Present' \ {x} = Present \ {x}
<1>1. /\ content \in [Releases -> Contents] /\ mtime \in [Releases -> Nat]
      /\ \A s \in Releases \ {x} : content'[s] = content[s] /\ mtime'[s] = mtime[s]
  BY DEF TypeOK, Erode, Gone, folderVars
<1>2. Present' \ {x} = Present \ {x}
  BY <1>1 DEF Present
<1>3. ASSUME NEW s
      PROVE  s \in Newer(r)' \ D <=> s \in Newer(r) \ D
  <2>1. CASE s = x
    BY <2>1
  <2>2. CASE s # x
    <3>1. s \in Present' <=> s \in Present
      BY <1>2, <2>2
    <3>2. s \in Present => s \in Releases \ {x}
      BY <2>2 DEF Present
    <3>3. QED
      BY <1>1, <3>1, <3>2 DEF Newer
  <2>3. QED
    BY <2>1, <2>2
<1>4. QED
  BY <1>2, <1>3

\* The list of a job that begins to prune.
LEMMA ListPrunes ==
  ASSUME TypeOK, DatesInv, NEW j \in Jobs, List(j), current \in Present
  PROVE  /\ \A r \in Present \ {current} :
              r \in doomed'[j] \/ Cardinality(Newer(r) \ Struck(j)') < KeepCount
         /\ \A r \in doomed'[j] : Cardinality(Newer(r) \ doomed'[j]) >= KeepCount
<1>1. doomed'[j] = Old \ {current}
  BY DEF List, TypeOK
<1>2. ASSUME NEW r \in Present \ {current}, r \notin Old
      PROVE  Cardinality(Newer(r) \ Struck(j)') < KeepCount
  <2>1. /\ Cardinality(Newer(r)) \in Nat /\ ~(Cardinality(Newer(r)) >= KeepCount)
        /\ IsFiniteSet(Newer(r))
    BY <1>2, NewerFacts DEF Old, Present
  <2>2. KeepCount \in Nat
    BY KeepFact
  <2>3. /\ Cardinality(Newer(r) \ Struck(j)') <= Cardinality(Newer(r))
        /\ Cardinality(Newer(r) \ Struck(j)') \in Nat
    BY <2>1, FS_Subset, FS_CardinalityType
  <2>4. QED
    BY <2>1, <2>2, <2>3
<1>3. ASSUME NEW r \in Old
      PROVE  Cardinality(Newer(r) \ (Old \ {current})) >= KeepCount
  <2>1. Cardinality(Newer(r) \ Old) >= KeepCount
    BY KeepFact, NewestSpared
  <2>2. IsFiniteSet(Newer(r))
    BY NewerFacts DEF Old, Present
  <2>3. /\ IsFiniteSet(Newer(r) \ (Old \ {current})) /\ IsFiniteSet(Newer(r) \ Old)
        /\ Newer(r) \ Old \subseteq Newer(r) \ (Old \ {current})
    BY <2>2, FS_Subset
  <2>4. Cardinality(Newer(r) \ Old) <= Cardinality(Newer(r) \ (Old \ {current}))
    BY <2>3, FS_Subset
  <2>5. /\ Cardinality(Newer(r) \ Old) \in Nat /\ KeepCount \in Nat
        /\ Cardinality(Newer(r) \ (Old \ {current})) \in Nat
    BY <2>3, KeepFact, FS_CardinalityType
  <2>6. QED
    BY <2>1, <2>4, <2>5
<1>4. QED
  BY <1>1, <1>2, <1>3

\* Removing more takes no more away from a set of newer folders.
LEMMA LessIsLeft ==
  ASSUME NEW S, IsFiniteSet(S), NEW C, NEW D, C \subseteq D, NEW k \in Nat
  PROVE  /\ Cardinality(S \ D) >= k => Cardinality(S \ C) >= k
         /\ Cardinality(S \ C) < k => Cardinality(S \ D) < k
<1>1. IsFiniteSet(S \ C) /\ IsFiniteSet(S \ D) /\ S \ D \subseteq S \ C
  BY FS_Subset
<1>2. /\ Cardinality(S \ C) \in Nat /\ Cardinality(S \ D) \in Nat
      /\ Cardinality(S \ D) <= Cardinality(S \ C)
  BY <1>1, FS_Subset, FS_CardinalityType
<1>3. QED
  BY <1>2

\* What a step of a removal leaves to do.
LEMMA DeleteFacts ==
  ASSUME TypeOK, NEW j \in Jobs, NEW x \in Releases, Delete(j, x)
  PROVE  /\ pc[j] = "delete" /\ x \in doomed[j] /\ current' = current
         /\ Erode(x) \/ Gone(x) \/ UNCHANGED folderVars
         /\ doomed'[j] = doomed[j] \/ doomed'[j] = doomed[j] \ {x}
         /\ Struck(j)' \subseteq Struck(j) /\ Struck(j) \subseteq Struck(j)' \union {x}
         /\ x \in Struck(j)' \/ x \notin Present'
         /\ x \in doomed'[j] => content'[x] # "full"
         /\ x \in Present' => x \in Struck(j)'
<1>1. /\ doomed \in [Jobs -> SUBSET Releases] /\ stuck \in [Jobs -> SUBSET Releases]
      /\ content \in [Releases -> Contents]
  BY DEF TypeOK
<1>2. pc[j] = "delete" /\ x \in doomed[j] /\ current' = current
  BY DEF Delete, Goto, linkVars
<1>3. CASE Erode(x) /\ UNCHANGED <<doomed, stuck>>
  BY <1>1, <1>2, <1>3 DEF Erode, Struck
<1>4. CASE Gone(x) /\ doomed' = [doomed EXCEPT ![j] = @ \ {x}] /\ UNCHANGED stuck
  BY <1>1, <1>2, <1>4 DEF Gone, Struck, Present
<1>5. CASE /\ UNCHANGED folderVars /\ doomed' = [doomed EXCEPT ![j] = @ \ {x}]
           /\ stuck' = [stuck EXCEPT ![j] = @ \union {x}]
  BY <1>1, <1>2, <1>5 DEF Struck
<1>6. QED
  BY <1>3, <1>4, <1>5 DEF Delete

LEMMA DeletePrunes ==
  ASSUME TypeOK, DatesInv, PruneInv, NEW j \in Jobs, NEW x \in Releases, Delete(j, x),
         current \notin doomed[j], IsFiniteSet(Present')
  PROVE  /\ \A r \in (Present \ {current})' :
              r \in Struck(j)' \/ Cardinality(Newer(r)' \ Struck(j)') < KeepCount
         /\ \A r \in doomed'[j] : content'[r] = "full" =>
              Cardinality(Newer(r)' \ doomed'[j]) >= KeepCount
         /\ (current \in Present)'
<1>1. /\ pc[j] = "delete" /\ x \in doomed[j] /\ current' = current
      /\ Erode(x) \/ Gone(x) \/ UNCHANGED folderVars
      /\ doomed'[j] = doomed[j] \/ doomed'[j] = doomed[j] \ {x}
      /\ Struck(j)' \subseteq Struck(j) /\ Struck(j) \subseteq Struck(j)' \union {x}
      /\ x \in Struck(j)' \/ x \notin Present'
      /\ x \in doomed'[j] => content'[x] # "full"
      /\ x \in Present' => x \in Struck(j)'
  BY DeleteFacts
<1>2. /\ \A r \in Present \ {current} :
           r \in Struck(j) \/ Cardinality(Newer(r) \ Struck(j)) < KeepCount
      /\ \A r \in doomed[j] : content[r] = "full" => Cardinality(Newer(r) \ doomed[j]) >= KeepCount
      /\ current \in Present
      /\ doomed[j] \subseteq Releases /\ KeepCount \in Nat
  BY <1>1, KeepFact DEF PruneInv, TypeOK
<1>3. ASSUME NEW r \in Releases, r # x, NEW D, x \in D
      PROVE  Newer(r)' \ D = Newer(r) \ D
  BY <1>1, <1>3, NewerStays
<1>4. /\ Present' \ {x} = Present \ {x}
      /\ \A r \in Releases \ {x} : content'[r] = content[r]
  <2>1. \A r \in Releases \ {x} : content'[r] = content[r]
    BY <1>1 DEF Erode, Gone, folderVars, TypeOK
  <2>2. QED
    BY <2>1 DEF Present
<1>5. \A r : IsFiniteSet(Newer(r)') /\ IsFiniteSet(Newer(r))
  BY FS_Subset DEF Newer, DatesInv
<1>6. current \in Present'
  BY <1>1, <1>2, <1>4
<1>7. ASSUME NEW r \in Present' \ {current}, r \notin Struck(j)'
      PROVE  Cardinality(Newer(r)' \ Struck(j)') < KeepCount
  <2>1. r # x /\ r \in Present /\ r \in Releases /\ r \notin Struck(j)
    BY <1>1, <1>4, <1>7 DEF Present
  <2>2. Cardinality(Newer(r) \ Struck(j)) < KeepCount
    BY <1>2, <1>7, <2>1
  <2>3. x \in Struck(j)
    BY <1>1 DEF Struck
  <2>4. Newer(r)' \ Struck(j) = Newer(r) \ Struck(j)
    BY <1>3, <2>1, <2>3
  <2>5. Newer(r)' \ Struck(j)' = Newer(r)' \ Struck(j)
    <3>1. ASSUME NEW s \in Newer(r)'
          PROVE  s \in Struck(j)' <=> s \in Struck(j)
      <4>1. s \in Present'
        BY DEF Newer
      <4>2. QED
        BY <1>1, <2>3, <4>1
    <3>2. QED
      BY <3>1
  <2>6. QED
    BY <2>2, <2>4, <2>5
<1>8. ASSUME NEW r \in doomed'[j], content'[r] = "full"
      PROVE  Cardinality(Newer(r)' \ doomed'[j]) >= KeepCount
  <2>1. r \in doomed[j] /\ r \in Releases /\ r # x
    BY <1>1, <1>2, <1>8
  <2>2. Cardinality(Newer(r) \ doomed[j]) >= KeepCount
    BY <1>2, <1>4, <1>8, <2>1
  <2>3. Newer(r)' \ doomed[j] = Newer(r) \ doomed[j]
    BY <1>1, <1>3, <2>1
  <2>4. doomed'[j] \subseteq doomed[j]
    BY <1>1
  <2>5. QED
    BY <1>2, <1>5, <2>2, <2>3, <2>4, LessIsLeft
<1>9. QED
  BY <1>1, <1>6, <1>7, <1>8

LEMMA PruneStep ==
  ASSUME TypeOK, TurnInv, LiveInv, DatesInv, DatesInv', Serial, PruneInv, [Next]_vars
  PROVE  PruneInv'
<1>0. /\ pc \in [Jobs -> Steps] /\ doomed \in [Jobs -> SUBSET Releases]
      /\ Jobs' = Jobs /\ KeepCount' = KeepCount
      /\ \A i, j \in Jobs : InProgress(i) /\ InProgress(j) => i = j
  BY ScenarioStays DEF TypeOK, TurnInv
<1>1. ASSUME NEW j \in Jobs, Start(j)
      PROVE  PruneInv'
  <2>1. \A i \in Jobs : pc'[i] # "delete"
    BY <1>0, <1>1 DEF Start, Goto, InProgress, Ended
  <2>2. QED
    BY <1>0, <2>1 DEF PruneInv
\* The job whose turn it is prunes, if any does.
<1>2. ASSUME NEW j \in Jobs, Step(j)
      PROVE  \A i \in Jobs : pc'[i] = "delete" => i = j /\ pc[j] \in {"list", "delete"}
  BY <1>0, <1>2 DEF Step, Build, Wipe, Erode, Gone, CopyBegins, CopyEnds, Verify, Unlink, Symlink, Rename,
     Write, Fill, GivesUp, Test,
     Reload, Certbot, AfterRoute, AfterFill, List, Delete, Pruned, Goto, InProgress, Ended
<1>3. ASSUME NEW j \in Jobs, List(j)
      PROVE  PruneInv'
  <2>1. UNCHANGED <<content, mtime, current>> /\ pc[j] = "list"
    BY <1>3 DEF List, Goto, folderVars, linkVars
  <2>2. current = Release[j] /\ current # None /\ content[current] # "none"
    BY <2>1, ScenarioFacts, <1>3 DEF TurnInv, Flipped, LiveInv, LiveWhole
  <2>3. current \in Present
    BY <2>2, ScenarioFacts DEF Present
  <2>4. \A r : Newer(r)' = Newer(r) /\ Present' = Present
    BY <2>1 DEF Newer, Present
  <2>5. \A i \in Jobs : pc'[i] = "delete" => i = j
    BY <1>2, <1>3 DEF Step
  <2>6. doomed'[j] \subseteq Struck(j)'
    BY DEF Struck
  <2>7. QED
    BY <1>0, <1>3, <2>1, <2>3, <2>4, <2>5, <2>6, ListPrunes DEF PruneInv
<1>4. ASSUME NEW j \in Jobs, NEW r \in Releases, Delete(j, r)
      PROVE  PruneInv'
  <2>1. current \notin doomed[j]
    BY <1>4 DEF LiveInv, Delete, Goto
  <2>2. \A i \in Jobs : pc'[i] = "delete" => i = j
    BY <1>2, <1>4 DEF Step
  <2>3. QED
    BY <1>0, <1>4, <2>1, <2>2, DeletePrunes DEF PruneInv, DatesInv
<1>5. ASSUME NEW j \in Jobs, Step(j), ~List(j), ~(\E r \in Releases : Delete(j, r))
      PROVE  PruneInv'
  <2>1. pc'[j] # "delete"
    BY <1>0, <1>5 DEF Step, Build, Wipe, Erode, Gone, CopyBegins, CopyEnds, Verify, Unlink, Symlink, Rename,
       Write, Fill, GivesUp, Test,
       Reload, Certbot, AfterRoute, AfterFill, Pruned, Goto
  <2>2. QED
    BY <1>0, <1>2, <1>5, <2>1 DEF PruneInv
<1>6. CASE Crash
  <2>1. \A i \in Jobs : pc'[i] # "delete"
    BY <1>0, <1>6 DEF Crash, InProgress, Ended
  <2>2. QED
    BY <1>0, <2>1 DEF PruneInv
<1>7. CASE ReloadElsewhere \/ UNCHANGED vars
  <2>1. UNCHANGED <<pc, content, mtime, current, doomed, stuck>>
    BY <1>7 DEF ReloadElsewhere, vars, folderVars, linkVars, localVars
  <2>2. \A r : Newer(r)' = Newer(r) /\ Present' = Present
    BY <2>1 DEF Newer, Present
  <2>3. \A i \in Jobs : Struck(i)' = Struck(i)
    BY <2>1 DEF Struck
  <2>4. QED
    BY <1>0, <2>1, <2>2, <2>3 DEF PruneInv
<1>8. QED
  BY <1>1, <1>3, <1>4, <1>5, <1>6, <1>7 DEF Next, Quiet

\* Where there is room, no list has an entry.
LEMMA RoomNotOld ==
  ASSUME TypeOK, DatesInv, Roomy
  PROVE  Old = {} /\ \A r \in Present : Cardinality(Newer(r)) < KeepCount
<1>1. ASSUME NEW r \in Present
      PROVE  /\ Cardinality(Newer(r)) \in Nat
             /\ Cardinality(Newer(r)) < KeepCount
  <2>1. r \in Releases /\ mtime[r] \in Nat /\ r \notin Newer(r) /\ Newer(r) \subseteq Releases
    BY DEF Present, Newer, TypeOK
  <2>2. /\ Cardinality(Newer(r)) <= Cardinality(Releases)
        /\ Cardinality(Newer(r)) # Cardinality(Releases)
    BY <2>1, FS_Subset DEF Roomy
  <2>3. Cardinality(Newer(r)) \in Nat /\ Cardinality(Releases) \in Nat /\ KeepCount \in Nat
    BY <2>1, NewerFacts, FS_CardinalityType, KeepFact DEF Roomy
  <2>4. QED
    BY <2>2, <2>3 DEF Roomy
<1>2. \A r \in Present : ~(Cardinality(Newer(r)) >= KeepCount)
  <2>1. KeepCount \in Nat
    BY KeepFact
  <2>2. QED
    BY <1>1, <2>1
<1>3. QED
  BY <1>1, <1>2 DEF Old

LEMMA RoomStep ==
  ASSUME TypeOK, DatesInv, UnfilledInv, Roomy, RoomInv, [Next]_vars
  PROVE  RoomInv'
<1>0. /\ pc \in [Jobs -> Steps] /\ content \in [Releases -> Contents]
      /\ Release \in [Jobs -> Releases] /\ Rollbacks \subseteq Jobs
      /\ doomed \in [Jobs -> SUBSET Releases] /\ None \notin Releases
      /\ Jobs' = Jobs /\ Release' = Release /\ Rollbacks' = Rollbacks
  BY ScenarioFacts, ScenarioStays DEF TypeOK
<1>1. ASSUME NEW j \in Jobs, Start(j)
      PROVE  RoomInv'
  <2>1. /\ pc[j] = "queued" /\ pc' = [pc EXCEPT ![j] = IF j \in Rollbacks THEN "verify" ELSE "build"]
        /\ UNCHANGED <<content, current, tmp, doomed>>
    BY <1>1 DEF Start, Goto, folderVars, linkVars, localVars
  <2>2. j \in Rollbacks => content[Release[j]] = "full"
    <3>1. j \in Rollbacks => \E i \in Jobs \ Rollbacks : Release[i] = Release[j] /\ pc[i] = "ok"
      BY <1>1 DEF Start, Reported
    <3>2. QED
      BY <3>1 DEF RoomInv
  <2>3. QED
    BY <1>0, <2>1, <2>2 DEF RoomInv, Filled, Flipped
\* A copy touches no folder that was full.
<1>2. ASSUME NEW j \in Jobs, Build(j) \/ Wipe(j) \/ CopyBegins(j) \/ CopyEnds(j)
      PROVE  RoomInv'
  <2>1. /\ pc[j] \in Filling /\ pc'[j] \in Filling \union {"unlink", "failed"}
        /\ \A i \in Jobs \ {j} : pc'[i] = pc[i]
        /\ \A r \in Releases \ {Release[j]} : content'[r] = content[r]
        /\ UNCHANGED <<current, tmp, doomed>>
    BY <1>0, <1>2 DEF Build, Wipe, Erode, Gone, CopyBegins, CopyEnds, Copied, Goto, Filling, folderVars,
       linkVars,
       localVars
  <2>2. j \notin Rollbacks /\ content[Release[j]] # "full"
    BY <2>1 DEF UnfilledInv, Filling
  <2>10. /\ pc'[j] = "unlink" => content'[Release[j]] = "full"
         /\ content'[Release[j]] # "ruin"
    BY <1>0, <1>2, <2>2 DEF UnfilledInv, RoomInv, Build, Wipe, Erode, Gone, CopyBegins, CopyEnds, Copied, Goto,
       folderVars, Contents
  <2>3. \A r \in Releases : content[r] = "full" => content'[r] = "full"
    BY <2>1, <2>2
  <2>4. (current # None => current \in Releases) /\ (tmp # None => tmp \in Releases)
    BY DEF TypeOK
  <2>5. /\ current' # None => content'[current'] = "full"
        /\ tmp' # None => content'[tmp'] = "full"
    BY <2>1, <2>3, <2>4 DEF RoomInv
  <2>6. \A i \in Jobs \ Rollbacks : pc'[i] \in Filled \union Flipped \union {"ok"} =>
          content'[Release[i]] = "full"
    BY <1>0, <2>1, <2>3, <2>10 DEF RoomInv, Filling, Filled, Flipped
  <2>7. \A i \in Rollbacks : pc'[i] \notin {"queued", "failed", "dead"} => content'[Release[i]] = "full"
    BY <1>0, <2>1, <2>2, <2>3 DEF RoomInv
  <2>8. \A i \in Jobs : pc'[i] \in Flipped => current' # None
    BY <2>1 DEF RoomInv, Filling, Flipped
  <2>9. QED
    BY <1>0, <2>1, <2>2, <2>5, <2>6, <2>7, <2>8, <2>10 DEF RoomInv, Filling
<1>3. ASSUME NEW j \in Jobs, Verify(j) \/ Unlink(j) \/ Symlink(j) \/ Rename(j)
      PROVE  RoomInv'
  <2>1. /\ UNCHANGED <<content, doomed>> /\ \A i \in Jobs \ {j} : pc'[i] = pc[i]
        /\ pc[j] \in Filled \union {"verify"} /\ pc'[j] \in Filled \union {"write", "failed"}
    BY <1>0, <1>3 DEF Verify, Unlink, Symlink, Rename, Goto, Filled, folderVars, localVars
  <2>2. content[Release[j]] = "full"
    BY <1>0, <2>1 DEF RoomInv, Filled
  <2>3. /\ tmp' \in {None, tmp, Release[j]}
        /\ current' = current \/ (current' = tmp /\ tmp # None)
        /\ pc'[j] = "write" => current' # None
    BY <1>0, <1>3 DEF Verify, Unlink, Symlink, Rename, Goto, linkVars
  <2>4. /\ tmp' # None => content'[tmp'] = "full"
        /\ current' # None => content'[current'] = "full"
        /\ current # None => current' # None
    BY <2>1, <2>2, <2>3 DEF RoomInv
  <2>5. QED
    BY <1>0, <2>1, <2>2, <2>3, <2>4 DEF RoomInv, Filled, Flipped
<1>4. ASSUME NEW j \in Jobs,
             Write(j) \/ Fill(j) \/ Test(j) \/ Reload(j) \/ Certbot(j) \/ List(j) \/ Pruned(j)
      PROVE  RoomInv'
  <2>1. /\ UNCHANGED <<content, current, tmp>> /\ \A i \in Jobs \ {j} : pc'[i] = pc[i]
        /\ pc[j] \in Flipped /\ pc'[j] \in Flipped \union {"ok"}
    BY <1>0, <1>4 DEF Write, Fill, GivesUp, Test, Reload, Certbot, AfterRoute, AfterFill, List, Pruned, Goto,
       Flipped, folderVars,
       linkVars
  <2>2. doomed' = doomed
    <3>1. CASE List(j)
      <4>1. Old \ {current} = doomed[j]
        BY RoomNotOld DEF RoomInv
      <4>2. QED
        BY <1>0, <3>1, <4>1 DEF List
    <3>2. CASE ~List(j)
      BY <1>4, <3>2 DEF Write, Fill, GivesUp, Test, Reload, Certbot, Pruned, localVars
    <3>3. QED
      BY <3>1, <3>2
  <2>3. QED
    BY <1>0, <2>1, <2>2 DEF RoomInv, Flipped
<1>5. ASSUME NEW j \in Jobs, NEW r \in Releases, Delete(j, r)
      PROVE  RoomInv'
  BY <1>5 DEF Delete, RoomInv
<1>6. CASE Crash
  <2>1. /\ UNCHANGED <<content, current, tmp, doomed>>
        /\ \A i \in Jobs : pc'[i] = pc[i] \/ pc'[i] = "dead"
    BY <1>0, <1>6 DEF Crash, folderVars, linkVars, localVars
  <2>2. QED
    BY <1>0, <2>1 DEF RoomInv, Filled, Flipped
<1>7. CASE ReloadElsewhere \/ UNCHANGED vars
  <2>1. UNCHANGED <<pc, content, current, tmp, doomed>>
    BY <1>7 DEF ReloadElsewhere, vars, folderVars, linkVars, localVars
  <2>2. QED
    BY <1>0, <2>1 DEF RoomInv
<1>8. QED
  BY <1>1, <1>2, <1>3, <1>4, <1>5, <1>6, <1>7 DEF Next, Step, Quiet

LEMMA HistoryInit == TypeOK /\ Init => HistoryInv
<1> SUFFICES ASSUME TypeOK, Init
             PROVE  HistoryInv
  OBVIOUS
<1>1. Present = {}
  BY DEF Init, Present
<1>2. DatesInv
  BY <1>1, FS_EmptySet DEF Init, DatesInv
<1>3. /\ \A j \in Jobs : pc[j] = "queued" /\ Release[j] \in Releases /\ doomed[j] = {}
      /\ \A r \in Releases : content[r] = "none"
      /\ current = None /\ tmp = None /\ Rollbacks \subseteq Jobs
  BY ScenarioFacts DEF Init
<1>4. UnfilledInv
  BY <1>3 DEF UnfilledInv, Filling
<1>5. PruneInv /\ RoomInv
  BY <1>3 DEF PruneInv, RoomInv, Filled, Flipped
<1>6. QED
  BY <1>2, <1>4, <1>5 DEF HistoryInv

LEMMA HistoryStep ==
  ASSUME TypeOK, TurnInv, CompleteInv, Distinct, HistoryInv, [Next]_vars
  PROVE  HistoryInv'
<1>1. (Serial' <=> Serial) /\ (Roomy' <=> Roomy)
  BY ScenarioStays DEF Serial, Roomy
<1>2. DatesInv' /\ UnfilledInv'
  BY DatesStep, UnfilledStep DEF HistoryInv
<1>3. Serial => PruneInv'
  BY <1>2, PruneStep DEF HistoryInv, CompleteInv
<1>4. Roomy => RoomInv'
  BY RoomStep DEF HistoryInv
<1>5. QED
  BY <1>1, <1>2, <1>3, <1>4 DEF HistoryInv

\* A full folder is touched only when a pruning job removes it.
LEMMA FullGoes ==
  ASSUME TypeOK, UnfilledInv, [Next]_vars, NEW r \in Releases,
         content[r] = "full", content'[r] # "full"
  PROVE  \E j \in Jobs : Delete(j, r)
<1>0. /\ content \in [Releases -> Contents] /\ Release \in [Jobs -> Releases]
      /\ pc \in [Jobs -> Steps]
  BY ScenarioFacts DEF TypeOK
<1>1. ASSUME NEW j \in Jobs, Wipe(j)
      PROVE  FALSE
  <2>1. pc[j] = "wipe" /\ Release[j] = r
    BY <1>0, <1>1 DEF Wipe, Erode, Gone, Goto, folderVars
  <2>2. QED
    BY <2>1 DEF UnfilledInv, Filling
<1>2. ASSUME NEW j \in Jobs, CopyBegins(j) \/ CopyEnds(j)
      PROVE  FALSE
  BY <1>0, <1>2 DEF CopyBegins, CopyEnds, Copied, folderVars
<1>3. ASSUME NEW j \in Jobs, NEW s \in Releases, Delete(j, s)
      PROVE  s = r
  BY <1>0, <1>3 DEF Delete, Erode, Gone, folderVars
<1>4. content' # content
  BY <1>0
<1>5. QED
  BY <1>1, <1>2, <1>3, <1>4 DEF Next, Step, Quiet, Start, Build, Verify, Unlink, Symlink, Rename, Write,
     Fill, Test, Reload, Certbot, List, Pruned, Crash, ReloadElsewhere, vars, folderVars

LEMMA NewestKeptStep ==
  ASSUME TypeOK, HistoryInv, Tidy, [Next]_vars, NEW r \in Releases,
         content[r] = "full", content'[r] # "full"
  PROVE  Cardinality(Newer(r)) >= KeepCount
<1>1. PICK j \in Jobs : Delete(j, r)
  BY FullGoes DEF HistoryInv
<1>2. r \in doomed[j] /\ pc[j] = "delete"
  BY <1>1 DEF Delete, Goto
<1>3. ~Roomy
  BY <1>2 DEF HistoryInv, RoomInv
<1>4. Cardinality(Newer(r) \ doomed[j]) >= KeepCount
  BY <1>2, <1>3 DEF Tidy, HistoryInv, PruneInv
<1>5. IsFiniteSet(Newer(r)) /\ Cardinality(Newer(r)) \in Nat
  BY NewerFacts DEF HistoryInv
<1>6. /\ Cardinality(Newer(r) \ doomed[j]) <= Cardinality(Newer(r))
      /\ Cardinality(Newer(r) \ doomed[j]) \in Nat
  BY <1>5, FS_Subset, FS_CardinalityType
<1>7. KeepCount \in Nat
  BY KeepFact
<1>8. QED
  BY <1>4, <1>5, <1>6, <1>7

LEMMA HistoryBoundedStep ==
  ASSUME TypeOK, HistoryInv, Tidy, [Next]_vars, NEW j \in Jobs \ Rollbacks,
         pc[j] # "ok", pc'[j] = "ok"
  PROVE  /\ \A r \in Present' \ ({current'} \union stuck'[j]) :
              Cardinality(Newer(r)' \ stuck'[j]) < KeepCount
         /\ current' \in Present'
<1>0. pc \in [Jobs -> Steps] /\ current \in Releases \union {None}
  BY DEF TypeOK
<1>1. Pruned(j)
  <2>1. ~Crash
    BY <1>0 DEF Crash
  <2>2. ASSUME NEW i \in Jobs, Start(i) \/ (Step(i) /\ ~Pruned(i))
        PROVE  pc'[j] # "ok"
    BY <1>0, <2>2 DEF Step, Start, Build, Wipe, Erode, Gone, CopyBegins, CopyEnds, Verify, Unlink, Symlink,
       Rename, Write, Fill, GivesUp,
       Test, Reload, Certbot, AfterRoute, AfterFill, List, Delete, Goto
  <2>3. ASSUME NEW i \in Jobs, Pruned(i)
        PROVE  i = j
    BY <1>0, <2>3 DEF Pruned, Goto
  <2>4. pc' # pc
    BY <1>0
  <2>5. QED
    BY <2>1, <2>2, <2>3, <2>4 DEF Next, Quiet, ReloadElsewhere, vars
<1>2. /\ UNCHANGED <<content, mtime, current, stuck>> /\ pc[j] = "delete" /\ doomed[j] = {}
  BY <1>1 DEF Pruned, Goto, folderVars, linkVars, localVars
<1>3. Present' = Present /\ \A r : Newer(r)' = Newer(r)
  BY <1>2 DEF Present, Newer
<1>4. CASE Serial
  BY <1>2, <1>3, <1>4 DEF HistoryInv, PruneInv, Struck
<1>5. CASE Roomy
  <2>1. \A r \in Present : Cardinality(Newer(r)) < KeepCount
    BY <1>5, RoomNotOld DEF HistoryInv
  <2>2. current # None /\ content[current] = "full"
    BY <1>2, <1>5 DEF HistoryInv, RoomInv, Flipped
  <2>3. current \in Present
    BY <1>0, <2>2 DEF Present
  <2>4. ASSUME NEW r \in Present
        PROVE  Cardinality(Newer(r) \ stuck[j]) < KeepCount
    <3>1. r \in Releases /\ KeepCount \in Nat
      BY KeepFact DEF Present
    <3>2. IsFiniteSet(Newer(r)) /\ Newer(r) \ {} = Newer(r)
      BY <3>1, NewerFacts DEF HistoryInv
    <3>3. QED
      BY <2>1, <3>1, <3>2, LessIsLeft
  <2>5. QED
    BY <1>2, <1>3, <2>3, <2>4
<1>6. QED
  BY <1>4, <1>5 DEF Tidy

TidyInv == (Distinct => UnfilledInv) /\ CompleteInv /\ (Tidy => HistoryInv)

LEMMA HistoryInvariant == Spec => [](TypeOK /\ TidyInv)
<1>1. TypeOK /\ TurnInv /\ TidyInv /\ [Next]_vars => TidyInv'
  <2> SUFFICES ASSUME TypeOK, TurnInv, TidyInv, [Next]_vars
               PROVE  TidyInv'
    OBVIOUS
  <2>1. (Distinct' <=> Distinct) /\ (Tidy' <=> Tidy)
    BY ScenarioStays DEF Distinct, Tidy, Serial, Roomy
  <2>2. Distinct => UnfilledInv'
    BY UnfilledStep DEF TidyInv
  <2>3. CompleteInv'
    BY CompleteStep DEF TidyInv
  <2>4. Tidy => HistoryInv'
    BY HistoryStep DEF TidyInv, Tidy
  <2>5. QED
    BY <2>1, <2>2, <2>3, <2>4 DEF TidyInv
<1>2. TypeOK /\ Init => TidyInv
  BY LiveInit, HistoryInit DEF TidyInv, CompleteInv, HistoryInv
<1>3. TypeOK /\ TurnInv /\ [Next]_vars => TurnInv'
  BY TurnStep
<1>4. QED
  BY <1>1, <1>2, <1>3, TurnInit, TypeCorrect, PTL DEF Spec

\* A deploy that succeeds leaves only the newest folders, the live one and those it could
\* not remove, and pruning begins to remove none of the newest: for any jobs, releases,
\* faults and number of folders kept, where no two deploys share a release and jobs
\* wait for each other, or where there is room for all releases.
THEOREM HistoryIsKept == Spec => HistoryKept
<1>1. TypeOK /\ TidyInv /\ [Next]_vars =>
        \A r \in Releases : Tidy /\ content[r] = "full" /\ content'[r] # "full" =>
          Cardinality(Newer(r)) >= KeepCount
  BY NewestKeptStep DEF TidyInv
<1>2. TypeOK /\ TidyInv /\ [Next]_vars =>
        \A j \in Jobs \ Rollbacks : Tidy /\ pc[j] # "ok" /\ pc'[j] = "ok" =>
          /\ \A r \in Present' \ ({current'} \union stuck'[j]) :
               Cardinality(Newer(r)' \ stuck'[j]) < KeepCount
          /\ current' \in Present'
  BY HistoryBoundedStep DEF TidyInv
<1>3. QED
  BY <1>1, <1>2, HistoryInvariant, PTL DEF Spec, HistoryKept, HistoryBounded, NewestKept

\* Under the same conditions readers always find a complete site, or what is left of one
\* that a rollback has chosen: whatever fails, and at whatever step of a copy, a flip
\* or a removal the agent dies.
THEOREM SiteIsServed == Spec => []SiteServes
<1>1. TidyInv => SiteServes
  BY DEF TidyInv, Tidy, CompleteInv, LiveInv, LiveWhole, HistoryInv, RoomInv, SiteServes
<1>2. QED
  BY <1>1, HistoryInvariant, PTL

----------------------------------------------------------------------------
(* The route                                                               *)

AtFile == {"fill", "test", "reload"}

\* No job has given up routing or died in it since the file was last opened.
Clean == \A j \in Jobs : routing[j] # "failed" /\ (routing[j] = "begun" => pc[j] \in AtFile)

\* A job between the opening of the file and its own reload has begun.  As long as none has
\* given up, an empty file has a job that is about to fill it, a broken one a job
\* that is about to find that out, and a proxy that lacks the site a job that is
\* about to reload it.
RouteInv ==
  /\ \A j \in Jobs : pc[j] \in AtFile => routing[j] = "begun"
  /\ Clean =>
       /\ disk = "none" => (\E j \in Jobs : pc[j] = "fill") \/ (\A j \in Jobs : routing[j] = "no")
       /\ disk = "broken" => \E j \in Jobs : pc[j] \in {"test", "reload"}
       /\ loaded = "none" => \/ \E j \in Jobs : pc[j] \in AtFile
                             \/ \A j \in Jobs : routing[j] # "done"

LEMMA RouteInit == Init => RouteInv
  BY DEF Init, RouteInv, AtFile

\* The steps on the file and the proxy.
LEMMA RouteFileStep ==
  ASSUME TypeOK, RouteInv, scenario' = scenario, NEW j \in Jobs,
         Write(j) \/ Fill(j) \/ Test(j) \/ Reload(j) \/ Certbot(j)
  PROVE  RouteInv'
<1>0. /\ pc \in [Jobs -> Steps] /\ routing \in [Jobs -> RoutingStates]
      /\ disk \in DiskStates /\ loaded \in RouteStates /\ Jobs' = Jobs
  BY DEF TypeOK
<1>1. \A i \in Jobs \ {j} : pc'[i] = pc[i]
  BY <1>0 DEF Write, Fill, GivesUp, Test, Reload, Certbot, Goto
<1>2. CASE Write(j)
  <2>1. CASE pc'[j] = "fill"
    <3>1. /\ routing'[j] = "begun" /\ disk' = "none"
          /\ \A i \in Jobs \ {j} : /\ pc[i] \in AtFile => pc[i] # "dead" /\ routing[i] # "failed"
                                   /\ routing[i] # "failed" /\ pc[i] # "dead" => routing'[i] = routing[i]
      BY <1>0, <1>2, <2>1 DEF RouteInv, AtFile, Write, GivesUp, AfterRoute, AfterFill, Goto
    <3>2. QED
      BY <1>0, <1>1, <2>1, <3>1 DEF RouteInv, AtFile
  <2>2. CASE pc'[j] # "fill"
    <3>1. routing'[j] = "failed" /\ pc'[j] \notin AtFile /\ \A i \in Jobs \ {j} : routing'[i] = routing[i]
      BY <1>0, <1>2, <2>2 DEF AtFile, Write, GivesUp, AfterRoute, AfterFill, Goto
    <3>2. ~Clean'
      BY <1>0, <3>1 DEF Clean
    <3>3. QED
      BY <1>0, <1>1, <3>1, <3>2 DEF RouteInv
  <2>3. QED
    BY <2>1, <2>2
<1>3. CASE \/ Fill(j) /\ pc'[j] \notin {"test", "reload"}
           \/ Test(j) /\ pc'[j] # "reload"
           \/ Reload(j) /\ routing'[j] # "done"
  <2>1. routing'[j] = "failed" /\ pc'[j] \notin AtFile /\ \A i \in Jobs \ {j} : routing'[i] = routing[i]
    BY <1>0, <1>3 DEF AtFile, Fill, Test, Reload, AfterFill, GivesUp, AfterRoute, AfterFill, Goto
  <2>2. ~Clean'
    BY <1>0, <2>1 DEF Clean
  <2>3. QED
    BY <1>0, <1>1, <2>1, <2>2 DEF RouteInv
<1>4. CASE Fill(j) /\ pc'[j] \in {"test", "reload"}
  <2>1. pc[j] = "fill" /\ routing' = routing /\ disk' # "none" /\ loaded' = loaded
    BY <1>0, <1>4 DEF Fill, Site, AfterFill, GivesUp, AfterRoute, AfterFill, Goto
  <2>2. Clean' => Clean
    BY <1>0, <1>1, <2>1 DEF Clean, AtFile
  <2>3. QED
    BY <1>0, <1>1, <1>4, <2>1, <2>2 DEF RouteInv, AtFile
<1>5. CASE Test(j) /\ pc'[j] = "reload"
  <2>1. pc[j] = "test" /\ routing' = routing /\ disk' = disk /\ disk # "broken" /\ loaded' = loaded
    BY <1>0, <1>5 DEF Test, GivesUp, AfterRoute, AfterFill, Goto
  <2>2. Clean' => Clean
    BY <1>0, <1>1, <2>1 DEF Clean, AtFile
  <2>3. QED
    BY <1>0, <1>1, <1>5, <2>1, <2>2 DEF RouteInv, AtFile
<1>6. CASE Reload(j) /\ routing'[j] = "done"
  <2>1. /\ pc[j] = "reload" /\ pc'[j] \notin AtFile /\ disk' = disk /\ disk # "broken" /\ loaded' = disk
        /\ \A i \in Jobs \ {j} : routing'[i] = routing[i]
    BY <1>0, <1>6 DEF Reload, GivesUp, AfterRoute, AfterFill, Goto, AtFile
  <2>2. routing[j] = "begun"
    BY <2>1 DEF RouteInv, AtFile
  <2>3. Clean' => Clean
    BY <1>0, <1>1, <2>1, <2>2 DEF Clean, AtFile
  <2>4. Clean' /\ disk = "none" => \E i \in Jobs \ {j} : pc[i] = "fill"
    BY <2>1, <2>2, <2>3 DEF RouteInv
  <2>5. QED
    BY <1>0, <1>1, <1>6, <2>1, <2>3, <2>4 DEF RouteInv, AtFile
<1>7. CASE Certbot(j)
  <2>1. /\ pc[j] = "certbot" /\ pc'[j] \notin AtFile /\ routing' = routing
        /\ \/ disk' = "https" /\ loaded' = "https"
           \/ disk' = disk /\ loaded' = loaded
    BY <1>0, <1>7 DEF Certbot, AfterRoute, AfterFill, Goto, AtFile, proxyVars
  <2>2. Clean' => Clean
    BY <1>0, <1>1, <2>1 DEF Clean, AtFile
  <2>3. QED
    BY <1>0, <1>1, <2>1, <2>2 DEF RouteInv, AtFile
<1>8. QED
  BY <1>2, <1>3, <1>4, <1>5, <1>6, <1>7

LEMMA RouteStep ==
  ASSUME TypeOK, RouteInv, [Next]_vars
  PROVE  RouteInv'
<1>0. /\ scenario' = scenario /\ Jobs' = Jobs /\ pc \in [Jobs -> Steps]
      /\ disk \in DiskStates /\ loaded \in RouteStates
  BY ScenarioStays DEF TypeOK
\* The steps that leave the file alone.
<1>1. ASSUME NEW j \in Jobs,
             \/ Start(j) \/ Build(j) \/ Wipe(j) \/ CopyBegins(j) \/ CopyEnds(j) \/ Verify(j)
             \/ Unlink(j) \/ Symlink(j) \/ Rename(j)
             \/ List(j) \/ (\E r \in Releases : Delete(j, r)) \/ Pruned(j)
      PROVE  RouteInv'
  <2>1. /\ UNCHANGED <<disk, loaded, routing>> /\ \A i \in Jobs \ {j} : pc'[i] = pc[i]
        /\ pc[j] \notin AtFile /\ pc'[j] \notin AtFile
    BY <1>0, <1>1 DEF Start, Build, Wipe, CopyBegins, CopyEnds, Verify, Unlink, Symlink, Rename, List, Delete,
       Pruned, Goto, AtFile, proxyVars
  <2>2. Clean' => Clean
    BY <1>0, <2>1 DEF Clean
  <2>3. QED
    BY <1>0, <2>1, <2>2 DEF RouteInv, AtFile
<1>2. ASSUME NEW j \in Jobs, Write(j) \/ Fill(j) \/ Test(j) \/ Reload(j) \/ Certbot(j)
      PROVE  RouteInv'
  BY <1>0, <1>2, RouteFileStep
<1>3. CASE Crash
  <2>1. /\ UNCHANGED <<disk, loaded, routing>>
        /\ \A i \in Jobs : (pc'[i] = pc[i] /\ ~InProgress(i)) \/ (pc'[i] = "dead" /\ InProgress(i))
    BY <1>0, <1>3 DEF Crash, proxyVars
  <2>2. Clean' => Clean
    BY <1>0, <2>1 DEF Clean, AtFile
  <2>3. Clean' => \A i \in Jobs : pc[i] \notin AtFile
    BY <1>0, <2>1 DEF Clean, RouteInv, AtFile, InProgress, Ended
  <2>4. QED
    BY <1>0, <2>1, <2>2, <2>3 DEF RouteInv, AtFile
<1>4. CASE ReloadElsewhere
  <2>1. UNCHANGED <<disk, pc, routing>> /\ disk \notin {loaded, "broken"} /\ loaded' = disk
    BY <1>4 DEF ReloadElsewhere
  <2>2. QED
    BY <1>0, <2>1 DEF RouteInv, Clean, AtFile
<1>5. CASE UNCHANGED vars
  <2>1. UNCHANGED <<disk, loaded, pc, routing>>
    BY <1>5 DEF vars, proxyVars
  <2>2. QED
    BY <1>0, <2>1 DEF RouteInv, Clean
<1>6. QED
  BY <1>1, <1>2, <1>3, <1>4, <1>5 DEF Next, Step, Quiet

\* When no job is routing, and none has failed to since the file was last opened, a site that
\* was routed is in the file and in the proxy: behind Caddy and nginx, however jobs
\* overlap, fail and die and whatever reloads the proxy in between.
THEOREM RoutedSiteIsServed == Spec => []RoutedIsServed
<1>1. TypeOK /\ RouteInv => RoutedIsServed
  BY DEF RouteInv, Clean, AtFile, RoutedIsServed
<1>2. TypeOK /\ RouteInv /\ [Next]_vars => RouteInv'
  BY RouteStep
<1>3. QED
  BY <1>1, <1>2, RouteInit, TypeCorrect, PTL DEF Spec
=============================================================================
