----------------------- MODULE CommandDispatchProofs -----------------------
(* Theorems about CommandDispatch, for every set of commands, every set of *)
(* fault kinds and every bound.                                            *)
EXTENDS CommandDispatch, TLAPS

\* TypeOK is inductive: every step of the agent, the socket and the backend
\* keeps every variable in its range.
THEOREM TypeCorrect == Spec => []TypeOK
<1>1. Init => TypeOK
  BY DEF Init, TypeOK, LinkStates, Counters
<1>2. TypeOK /\ [Next]_vars => TypeOK'
  <2> SUFFICES ASSUME TypeOK, [Next]_vars PROVE TypeOK'
    OBVIOUS
  <2> USE DEF TypeOK, LinkStates, Counters, Steps, agentVars, netVars, hbVars,
              historyVars, backendVars, NoFault, Fault, Bump
  <2>1. CASE Register
    BY <2>1 DEF Register
  <2>2. CASE Crash
    BY <2>2, BoundsAssumption DEF Crash
  <2>3. CASE Connect
    BY <2>3 DEF Connect
  <2>4. CASE LinkDrop
    BY <2>4 DEF LinkDrop
  <2>5. CASE LinkNoticed
    BY <2>5 DEF LinkNoticed
  <2>6. CASE HeartbeatSend \/ HeartbeatFail \/ HeartbeatDone
    BY <2>6 DEF HeartbeatSend, HeartbeatFail, HeartbeatDone
  <2>7. ASSUME NEW S \in SUBSET Commands, HeartbeatReply(S) PROVE TypeOK'
    BY <2>7 DEF HeartbeatReply
  <2>8. ASSUME NEW c \in Commands, Push(c) PROVE TypeOK'
    BY <2>8 DEF Push
  <2>9. ASSUME NEW c \in Commands, ReadPush(c) PROVE TypeOK'
    BY <2>9 DEF ReadPush, Dispatch
  <2>10. ASSUME NEW c \in Commands, HeartbeatDispatch(c) PROVE TypeOK'
    BY <2>10 DEF HeartbeatDispatch, Dispatch
  <2>11. ASSUME NEW c \in Commands, BackendReceives(c) PROVE TypeOK'
    BY <2>11 DEF BackendReceives, Receive
  <2>12. ASSUME NEW g \in active, Goroutine(g) PROVE TypeOK'
    <3> USE DEF Goto, Receive
    <3>1. CASE Finish(g)
      BY <3>1 DEF Finish
    <3>2. CASE ChoosePath(g)
      BY <3>2 DEF ChoosePath
    <3>3. CASE SendOk(g)
      BY <3>3 DEF SendOk
    <3>4. CASE SendVoid(g)
      BY <3>4 DEF SendVoid
    <3>5. CASE SendError(g)
      BY <3>5 DEF SendError
    <3>6. CASE PostOk(g)
      BY <3>6 DEF PostOk
    <3>7. CASE PostError(g)
      BY <3>7 DEF PostError
    <3>8. CASE Release(g)
      BY <3>8 DEF Release
    <3> QED
      BY <2>12, <3>1, <3>2, <3>3, <3>4, <3>5, <3>6, <3>7, <3>8
         DEF Goroutine, Submit
  <2>13. CASE UNCHANGED vars
    BY <2>13 DEF vars
  <2> QED
    BY <2>1, <2>2, <2>3, <2>4, <2>5, <2>6, <2>7, <2>8, <2>9, <2>10, <2>11,
       <2>12, <2>13 DEF Next
<1> QED
  BY <1>1, <1>2, PTL DEF Spec

----------------------------------------------------------------------------
\* A goroutine that moves to another step keeps its command: it is still the
\* only one of that command, and inFlight still names the commands that run.
LEMMA GotoKeepsOne ==
  ASSUME TypeOK, NoConcurrentRuns, NEW g \in active, NEW s, Goto(g, s)
  PROVE  NoConcurrentRuns'
<1> DEFINE h == [g EXCEPT !.pc = s]
<1>1. h.cmd = g.cmd
  BY DEF TypeOK
<1>2. active' = (active \ {g}) \union {h} /\ inFlight' = inFlight
  BY DEF Goto
<1>3. \A i, j \in active' : i.cmd = j.cmd => i = j
  BY <1>1, <1>2 DEF NoConcurrentRuns
<1>4. {i.cmd : i \in active'} = {i.cmd : i \in active}
  BY <1>1, <1>2
<1> QED
  BY <1>2, <1>3, <1>4 DEF NoConcurrentRuns

\* dispatchCommand starts a goroutine only for a command that has none.
LEMMA DispatchKeepsOne ==
  ASSUME TypeOK, NoConcurrentRuns, NEW c \in Commands, Dispatch(c)
  PROVE  NoConcurrentRuns'
<1>1. CASE ~Startable(c)
  BY <1>1 DEF Dispatch, agentVars, NoConcurrentRuns
<1>2. CASE Startable(c)
  <2> DEFINE h == [cmd |-> c, run |-> runs[c] + 1, pc |-> "executing"]
  <2>1. active' = active \union {h} /\ inFlight' = inFlight \union {c}
    BY <1>2 DEF Dispatch
  <2>2. h.cmd = c /\ \A g \in active : g.cmd # c
    BY <1>2 DEF Startable, NoConcurrentRuns
  <2> HIDE DEF h
  <2>3. \A i, j \in active' : i.cmd = j.cmd => i = j
    BY <2>1, <2>2 DEF NoConcurrentRuns
  <2>4. {i.cmd : i \in active'} = {i.cmd : i \in active} \union {c}
    BY <2>1, <2>2
  <2> QED
    BY <2>1, <2>3, <2>4 DEF NoConcurrentRuns
<1> QED
  BY <1>1, <1>2

\* A command never has two goroutines, and inFlight holds exactly the commands
\* that have one: the check-and-set under inFlightMu and the deferred delete of
\* dispatchCommand, under every interleaving of the two delivery paths.
THEOREM OneRunAtATime == Spec => []NoConcurrentRuns
<1>1. Init => NoConcurrentRuns
  BY DEF Init, NoConcurrentRuns
<1>2. TypeOK /\ NoConcurrentRuns /\ [Next]_vars => NoConcurrentRuns'
  <2> SUFFICES ASSUME TypeOK, NoConcurrentRuns, [Next]_vars
               PROVE  NoConcurrentRuns'
    OBVIOUS
  <2>1. CASE Crash
    BY <2>1 DEF Crash, NoConcurrentRuns
  <2>2. ASSUME NEW c \in Commands, ReadPush(c) \/ HeartbeatDispatch(c)
        PROVE NoConcurrentRuns'
    BY <2>2, DispatchKeepsOne DEF ReadPush, HeartbeatDispatch
  <2>3. ASSUME NEW g \in active, Goroutine(g) PROVE NoConcurrentRuns'
    <3>1. CASE Release(g)
      BY <3>1 DEF Release, NoConcurrentRuns
    <3>2. CASE Finish(g) \/ Submit(g)
      BY <3>2, GotoKeepsOne DEF Finish, Submit, ChoosePath, SendOk, SendVoid,
                                SendError, PostOk, PostError
    <3> QED
      BY <2>3, <3>1, <3>2 DEF Goroutine
  <2>4. CASE UNCHANGED <<inFlight, active>>
    BY <2>4 DEF NoConcurrentRuns
  <2> QED
    BY <2>1, <2>2, <2>3, <2>4
       DEF Next, vars, agentVars, Register, Connect, LinkDrop, LinkNoticed,
           HeartbeatSend, HeartbeatFail, HeartbeatDone, HeartbeatReply, Push,
           BackendReceives
<1> QED
  BY <1>1, <1>2, TypeCorrect, PTL DEF Spec

----------------------------------------------------------------------------
\* Moving a goroutine changes what is running only for its own command, and
\* only if the step it moves to is the last one.
LEMMA GotoRunning ==
  ASSUME TypeOK, NoConcurrentRuns, NEW g \in active, NEW s, Goto(g, s),
         Unfinished(g)
  PROVE  /\ Running(g.cmd)
         /\ Running(g.cmd)' <=> s # "done"
         /\ \A c \in Commands \ {g.cmd} : Running(c)' <=> Running(c)
<1> DEFINE h == [g EXCEPT !.pc = s]
<1>1. h.cmd = g.cmd /\ h.pc = s
  BY DEF TypeOK
<1>2. active' = (active \ {g}) \union {h}
  BY DEF Goto
<1> HIDE DEF h
<1>3. \A i \in active \ {g} : i.cmd # g.cmd
  BY DEF NoConcurrentRuns
<1> QED
  BY <1>1, <1>2, <1>3 DEF Running, Unfinished

\* A command that is not in flight is not running.
LEMMA RunningInFlight ==
  ASSUME NoConcurrentRuns, NEW c \in Commands, Running(c)
  PROVE  c \in inFlight
BY DEF NoConcurrentRuns, Running

\* dispatchCommand counts the execution it starts.
LEMMA DispatchAccounted ==
  ASSUME TypeOK, NoConcurrentRuns, ResultAccounted, NEW c \in Commands,
         Dispatch(c)
  PROVE  ResultAccounted'
<1>1. CASE ~Startable(c)
  BY <1>1 DEF Dispatch, agentVars, historyVars, ResultAccounted, Running,
              Unfinished
<1>2. CASE Startable(c)
  <2> DEFINE h == [cmd |-> c, run |-> runs[c] + 1, pc |-> "executing"]
  <2>1. /\ active' = active \union {h} /\ runs' = [runs EXCEPT ![c] = @ + 1]
        /\ UNCHANGED <<sent, unsent, aborted>>
    BY <1>2 DEF Dispatch, Bump
  <2>2. h.cmd = c /\ h.pc = "executing" /\ ~Running(c)
    BY <1>2, RunningInFlight DEF Startable
  <2> HIDE DEF h
  <2>3. Running(c)' /\ \A d \in Commands \ {c} : Running(d)' <=> Running(d)
    BY <2>1, <2>2 DEF Running, Unfinished
  <2>4. ASSUME NEW d \in Commands \ {c}
        PROVE  runs'[d] = sent'[d] + unsent'[d] + aborted'[d]
                            + (IF Running(d)' THEN 1 ELSE 0)
    BY <2>1, <2>3 DEF ResultAccounted, TypeOK, Counters
  <2>5. runs'[c] = sent'[c] + unsent'[c] + aborted'[c] + 1
    BY <2>1, <2>2 DEF ResultAccounted, TypeOK, Counters
  <2> QED
    BY <2>3, <2>4, <2>5 DEF ResultAccounted
<1> QED
  BY <1>1, <1>2

\* A step that moves a goroutine but does not end its submission.
LEMMA MoveAccounted ==
  ASSUME TypeOK, NoConcurrentRuns, ResultAccounted, NEW g \in active, NEW s,
         Goto(g, s), Unfinished(g), s # "done", UNCHANGED historyVars
  PROVE  ResultAccounted'
BY GotoRunning DEF ResultAccounted, TypeOK, historyVars

\* A step that ends the submission of a goroutine, one way or the other.
LEMMA EndAccounted ==
  ASSUME TypeOK, NoConcurrentRuns, ResultAccounted, NEW g \in active,
         Goto(g, "done"), Unfinished(g), UNCHANGED <<runs, aborted>>,
         \/ sent' = Bump(sent, g.cmd) /\ UNCHANGED unsent
         \/ unsent' = Bump(unsent, g.cmd) /\ UNCHANGED sent
  PROVE  ResultAccounted'
<1>1. g.cmd \in Commands
  BY DEF TypeOK
<1>2. ASSUME NEW c \in Commands
      PROVE  runs'[c] = sent'[c] + unsent'[c] + aborted'[c]
                          + (IF Running(c)' THEN 1 ELSE 0)
  <2>1. CASE c = g.cmd
    BY <1>1, <2>1, GotoRunning DEF ResultAccounted, TypeOK, Counters, Bump
  <2>2. CASE c # g.cmd
    BY <1>1, <2>2, GotoRunning DEF ResultAccounted, TypeOK, Counters, Bump
  <2> QED
    BY <2>1, <2>2
<1> QED
  BY <1>2 DEF ResultAccounted

\* Every execution ends in exactly one way (submitted, failed to be submitted,
\* died with the agent), and none leaves inFlight before: transport.SubmitResult
\* and the end of the goroutine of dispatchCommand.
THEOREM EveryRunAccounted == Spec => []ResultAccounted
<1>1. Init => ResultAccounted
  BY DEF Init, ResultAccounted, Running
<1>2. TypeOK /\ NoConcurrentRuns /\ ResultAccounted /\ [Next]_vars
        => ResultAccounted'
  <2> SUFFICES ASSUME TypeOK, NoConcurrentRuns, ResultAccounted, [Next]_vars
               PROVE  ResultAccounted'
    OBVIOUS
  <2>1. CASE Crash
    <3>1. \A c \in Commands : ~Running(c)'
      BY <2>1 DEF Crash, Running
    <3> QED
      BY <2>1, <3>1 DEF Crash, ResultAccounted, TypeOK, Counters
  <2>2. ASSUME NEW c \in Commands, ReadPush(c) \/ HeartbeatDispatch(c)
        PROVE  ResultAccounted'
    BY <2>2, DispatchAccounted DEF ReadPush, HeartbeatDispatch
  <2>3. ASSUME NEW g \in active, Goroutine(g) PROVE ResultAccounted'
    <3>1. CASE Finish(g) \/ ChoosePath(g) \/ SendError(g)
      <4>1. /\ Unfinished(g) /\ UNCHANGED historyVars
            /\ \E s \in Steps : s # "done" /\ Goto(g, s)
        BY <3>1 DEF Finish, ChoosePath, SendError, Unfinished, Steps
      <4> QED
        BY <4>1, MoveAccounted
    <3>2. CASE SendOk(g) \/ SendVoid(g) \/ PostOk(g) \/ PostError(g)
      <4>1. /\ Unfinished(g) /\ Goto(g, "done") /\ UNCHANGED <<runs, aborted>>
            /\ \/ sent' = Bump(sent, g.cmd) /\ UNCHANGED unsent
               \/ unsent' = Bump(unsent, g.cmd) /\ UNCHANGED sent
        BY <3>2 DEF SendOk, SendVoid, PostOk, PostError, Unfinished
      <4> QED
        BY <4>1, EndAccounted
    <3>3. CASE Release(g)
      <4>1. \A c \in Commands : Running(c)' <=> Running(c)
        BY <3>3 DEF Release, Running, Unfinished
      <4> QED
        BY <3>3, <4>1 DEF Release, historyVars, ResultAccounted
    <3> QED
      BY <2>3, <3>1, <3>2, <3>3 DEF Goroutine, Submit
  <2>4. CASE UNCHANGED <<active, historyVars>>
    BY <2>4 DEF ResultAccounted, Running, Unfinished, historyVars
  <2> QED
    BY <2>1, <2>2, <2>3, <2>4
       DEF Next, vars, agentVars, Register, Connect, LinkDrop, LinkNoticed,
           HeartbeatSend, HeartbeatFail, HeartbeatDone, HeartbeatReply, Push,
           BackendReceives
<1> QED
  BY <1>1, <1>2, TypeCorrect, OneRunAtATime, PTL DEF Spec

----------------------------------------------------------------------------
\* What the backend has and what is on its way came from ended submissions.
ReceivedWereSent ==
  \A c \in Commands : got[c] + uplink[c] <= sent[c] + unsent[c]

\* The backend never gets more results of a command than there were executions
\* of it: a result goes up the socket or over HTTP, never both.
THEOREM NoResultTwice == Spec => []NoDuplicateResult
<1>1. Init => ReceivedWereSent
  BY DEF Init, ReceivedWereSent
<1>2. TypeOK /\ ReceivedWereSent /\ [Next]_vars => ReceivedWereSent'
  <2> SUFFICES ASSUME TypeOK, ReceivedWereSent, [Next]_vars
               PROVE  ReceivedWereSent'
    OBVIOUS
  <2> USE DEF ReceivedWereSent, TypeOK, Counters
  <2>1. CASE UNCHANGED <<got, uplink, sent, unsent>>
    BY <2>1
  <2>2. CASE Crash \/ LinkDrop
    BY <2>2 DEF Crash, LinkDrop, backendVars, historyVars
  <2>3. ASSUME NEW c \in Commands, BackendReceives(c) PROVE ReceivedWereSent'
    BY <2>3 DEF BackendReceives, Receive, Bump, historyVars
  <2>4. ASSUME NEW g \in active, Submit(g) PROVE ReceivedWereSent'
    <3> USE DEF Bump, Receive
    <3>1. CASE SendOk(g)
      BY <3>1 DEF SendOk, backendVars
    <3>2. CASE SendVoid(g)
      BY <3>2 DEF SendVoid, netVars, backendVars
    <3>3. CASE PostOk(g)
      BY <3>3 DEF PostOk, netVars
    <3>4. CASE PostError(g)
      BY <3>4 DEF PostError, netVars, backendVars
    <3>5. CASE ChoosePath(g) \/ SendError(g)
      BY <3>5 DEF ChoosePath, SendError, netVars, historyVars, backendVars
    <3> QED
      BY <2>4, <3>1, <3>2, <3>3, <3>4, <3>5 DEF Submit
  <2> QED
    BY <2>1, <2>2, <2>3, <2>4
       DEF Next, vars, netVars, backendVars, historyVars, Register, Connect,
           LinkNoticed, HeartbeatSend, HeartbeatFail, HeartbeatDone,
           HeartbeatReply, Push, ReadPush, HeartbeatDispatch, Dispatch,
           Goroutine, Finish, Release
<1>3. TypeOK /\ ResultAccounted /\ ReceivedWereSent => NoDuplicateResult
  BY DEF TypeOK, Counters, ResultAccounted, ReceivedWereSent, NoDuplicateResult
<1> QED
  BY <1>1, <1>2, <1>3, TypeCorrect, EveryRunAccounted, PTL DEF Spec
============================================================================
