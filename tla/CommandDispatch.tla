-------------------------- MODULE CommandDispatch --------------------------
(***************************************************************************)
(* Delivery, de-duplication and reporting of commands by the agent         *)
(* (src/main.go), over the two paths it has to the backend: the WebSocket  *)
(* (src/internal/ws/client.go) and HTTP (src/internal/api/client.go).      *)
(*                                                                         *)
(* A command reaches dispatchCommand from the read loop of the socket and  *)
(* from the reply of a heartbeat.  Each accepted command gets a goroutine, *)
(* which executes it, submits the result over the socket or over HTTP, and *)
(* only then leaves the inFlight map.                                      *)
(*                                                                         *)
(* The backend is not part of the repository.  It is modelled by what the  *)
(* agent can observe of it: it pushes commands, offers the ones that have  *)
(* no result yet in heartbeat replies, and receives results.               *)
(***************************************************************************)
EXTENDS Integers, FiniteSets

CONSTANTS Commands,    \* the ids of the commands queued at the backend
          FaultKinds,  \* which faults may happen, see AllFaults
          MaxFaults,   \* bound on the number of faults
          MaxCopies    \* no offer while this many results of a command are
                       \* on their way up the socket

\* The agent dies; the socket loses its peer, or takes a frame nobody will
\* read, or refuses a write to a live peer; a post or a heartbeat fails.
AllFaults == {"crash", "drop", "post", "heartbeat"}

ASSUME BoundsAssumption ==
  FaultKinds \subseteq AllFaults /\ MaxFaults \in Nat /\ MaxCopies \in Nat \ {0}

VARIABLES
  agent,      \* "registering" (and down before that), "running"
  link,       \* the socket, see LinkStates
  inFlight,   \* the map of main.go: commands not to be started again
  active,     \* the goroutines of dispatchCommand
  hb,         \* the heartbeat loop: "idle", "waiting", "replied"
  reply,      \* commands of the heartbeat reply not yet dispatched
  pushed,     \* per command, its push on the present connection
  uplink,     \* per command, results written to the socket, not yet received
  pending,    \* commands the backend has no result for
  runs, sent, unsent, aborted, got,  \* per command, history counters
  faults      \* faults so far

agentVars   == <<agent, inFlight, active>>
netVars     == <<link, pushed, uplink>>
hbVars      == <<hb, reply>>
historyVars == <<runs, sent, unsent, aborted>>
backendVars == <<pending, got>>
vars == <<agentVars, netVars, hbVars, historyVars, backendVars, faults>>

----------------------------------------------------------------------------
(***************************************************************************)
(* "up" works; "dead" has lost its peer and nobody noticed: a write may    *)
(* still be accepted by the kernel; "broken" was closed by a failed write, *)
(* Client.conn is still set until the read loop returns to Run.            *)
(***************************************************************************)
LinkStates == {"down", "up", "dead", "broken"}

\* Where a goroutine of dispatchCommand is: in the executor, about to choose
\* the path, about to write to the socket, about to post, about to release.
Steps == {"executing", "submitting", "sending", "posting", "done"}

Unfinished(g) == g.pc # "done"

\* A command whose execution has not yet been reported.
Running(c) == \E g \in active : g.cmd = c /\ Unfinished(g)

\* runs, sent, unsent and aborted count, per command, the executions started,
\* those whose submission returned nil, those whose submission returned an
\* error, and those that died with the agent.  got counts results received.
Counters == [Commands -> Nat]

Bump(f, c) == [f EXCEPT ![c] = @ + 1]

Fault(kind) ==
  kind \in FaultKinds /\ faults < MaxFaults /\ faults' = faults + 1
NoFault == UNCHANGED faults

TypeOK ==
  /\ agent \in {"registering", "running"}
  /\ link \in LinkStates
  /\ inFlight \subseteq Commands
  /\ active \subseteq [cmd : Commands, run : Nat, pc : Steps]
  /\ hb \in {"idle", "waiting", "replied"}
  /\ reply \subseteq Commands
  /\ pushed \in [Commands -> {"no", "queued", "read"}]
  /\ uplink \in Counters
  /\ pending \subseteq Commands
  /\ runs \in Counters /\ sent \in Counters /\ unsent \in Counters
  /\ aborted \in Counters /\ got \in Counters
  /\ faults \in Nat

Init ==
  /\ agent = "registering" /\ link = "down"
  /\ inFlight = {} /\ active = {}
  /\ hb = "idle" /\ reply = {}
  /\ pushed = [c \in Commands |-> "no"]
  /\ pending = Commands
  /\ uplink = [c \in Commands |-> 0]
  /\ runs = uplink /\ sent = uplink /\ unsent = uplink /\ aborted = uplink
  /\ got = uplink
  /\ faults = 0

----------------------------------------------------------------------------
(* Life of the agent process and of the socket                             *)

\* registerWithRetry returned: the WebSocket and the heartbeat loop start.
Register ==
  /\ agent = "registering" /\ agent' = "running"
  /\ UNCHANGED <<inFlight, active, netVars, hbVars, historyVars, backendVars>>
  /\ NoFault

\* The process dies (crash, SIGTERM, reboot) and systemd starts it again: the
\* inFlight map, every goroutine, the socket and the heartbeat go with it, and
\* with the host what the kernel had not sent yet.
Crash ==
  /\ agent = "running" /\ agent' = "registering"
  /\ Fault("crash")
  /\ aborted' = [c \in Commands |->
                   IF Running(c) THEN aborted[c] + 1 ELSE aborted[c]]
  /\ inFlight' = {} /\ active' = {}
  /\ link' = "down" /\ pushed' = [c \in Commands |-> "no"]
  /\ uplink' \in {uplink, [c \in Commands |-> 0]}
  /\ hb' = "idle" /\ reply' = {}
  /\ UNCHANGED <<runs, sent, unsent, backendVars>>

\* Run: the dial succeeded, conn is set.
Connect ==
  /\ agent = "running" /\ link = "down" /\ link' = "up"
  /\ UNCHANGED <<pushed, uplink, agentVars, hbVars, historyVars, backendVars>>
  /\ NoFault

\* The peer goes away; what was written and not yet received is lost.
LinkDrop ==
  /\ link = "up" /\ link' = "dead"
  /\ Fault("drop")
  /\ uplink' = [c \in Commands |-> 0]
  /\ UNCHANGED <<pushed, agentVars, hbVars, historyVars, backendVars>>

\* serve: ReadJSON fails (deadline of pongWait, reset, or the socket was closed
\* by a failed write), the read loop returns and Run clears conn.
LinkNoticed ==
  /\ link \in {"dead", "broken"} /\ link' = "down"
  /\ pushed' = [c \in Commands |-> "no"]
  /\ UNCHANGED <<uplink, agentVars, hbVars, historyVars, backendVars>>
  /\ NoFault

----------------------------------------------------------------------------
(* Delivery of commands                                                    *)

\* The backend offers a command while it has no result for it.
Offerable == {c \in pending : uplink[c] < MaxCopies}

\* The backend pushes a command, at most once on each connection.
Push(c) ==
  /\ link = "up" /\ c \in Offerable /\ pushed[c] = "no"
  /\ pushed' = [pushed EXCEPT ![c] = "queued"]
  /\ UNCHANGED <<link, uplink, agentVars, hbVars, historyVars, backendVars>>
  /\ NoFault

\* Faulty variant: the map is not consulted.
StartableUnchecked(c) == c \in Commands

\* The guard of dispatchCommand, evaluated and set under inFlightMu.
Startable(c) == c \notin inFlight

\* dispatchCommand: start a goroutine unless the command is in flight.
Dispatch(c) ==
  IF Startable(c)
  THEN /\ inFlight' = inFlight \union {c}
       /\ active' = active \union
                      {[cmd |-> c, run |-> runs[c] + 1, pc |-> "executing"]}
       /\ runs' = Bump(runs, c)
       /\ UNCHANGED <<sent, unsent, aborted, agent>>
  ELSE UNCHANGED <<agentVars, historyVars>>

\* The read loop takes a pushed command off the socket; frames received before
\* the connection died can still be read from it.
ReadPush(c) ==
  /\ link # "down" /\ pushed[c] = "queued"
  /\ pushed' = [pushed EXCEPT ![c] = "read"]
  /\ Dispatch(c)
  /\ UNCHANGED <<link, uplink, hbVars, backendVars>>
  /\ NoFault

\* processHeartbeat: the request goes out.
HeartbeatSend ==
  /\ agent = "running" /\ hb = "idle" /\ hb' = "waiting"
  /\ UNCHANGED <<reply, agentVars, netVars, historyVars, backendVars>>
  /\ NoFault

\* The backend answers with commands it has no result for.
HeartbeatReply(S) ==
  /\ hb = "waiting" /\ hb' = "replied"
  /\ S \subseteq Offerable /\ reply' = S
  /\ UNCHANGED <<agentVars, netVars, historyVars, backendVars>>
  /\ NoFault

\* The request or its answer is lost or times out: no command is dispatched.
HeartbeatFail ==
  /\ hb = "waiting" /\ hb' = "idle"
  /\ Fault("heartbeat")
  /\ UNCHANGED <<reply, agentVars, netVars, historyVars, backendVars>>

\* One turn of the loop over resp.Data.Commands.
HeartbeatDispatch(c) ==
  /\ hb = "replied" /\ c \in reply
  /\ reply' = reply \ {c}
  /\ Dispatch(c)
  /\ UNCHANGED <<hb, netVars, backendVars>>
  /\ NoFault

HeartbeatDone ==
  /\ hb = "replied" /\ reply = {} /\ hb' = "idle"
  /\ UNCHANGED <<reply, agentVars, netVars, historyVars, backendVars>>
  /\ NoFault

----------------------------------------------------------------------------
(* Execution and submission of the result, one goroutine per command       *)

\* Goroutine g moves to step s; its command stays in flight.
Goto(g, s) ==
  /\ active' = (active \ {g}) \union {[g EXCEPT !.pc = s]}
  /\ UNCHANGED <<agent, inFlight>>

\* The executor returned a result, whatever its exit code.
Finish(g) ==
  /\ g.pc = "executing" /\ Goto(g, "submitting")
  /\ UNCHANGED <<netVars, hbVars, historyVars, backendVars>>
  /\ NoFault

\* transport.SubmitResult: the socket when Connected(), HTTP otherwise.
ChoosePath(g) ==
  /\ g.pc = "submitting"
  /\ Goto(g, IF link = "down" THEN "posting" ELSE "sending")
  /\ UNCHANGED <<netVars, hbVars, historyVars, backendVars>>
  /\ NoFault

\* Faulty variant: SubmitResult goes on to HTTP after a successful write.
SendOkFallsThrough(g) ==
  /\ g.pc = "sending" /\ link = "up"
  /\ Goto(g, "posting")
  /\ sent' = Bump(sent, g.cmd)
  /\ uplink' = Bump(uplink, g.cmd)
  /\ UNCHANGED <<link, pushed, hbVars, runs, unsent, aborted, backendVars>>
  /\ NoFault

\* Send: the frame is written; the peer will get it unless the link drops.
SendOk(g) ==
  /\ g.pc = "sending" /\ link = "up"
  /\ Goto(g, "done")
  /\ sent' = Bump(sent, g.cmd)
  /\ uplink' = Bump(uplink, g.cmd)
  /\ UNCHANGED <<link, pushed, hbVars, runs, unsent, aborted, backendVars>>
  /\ NoFault

\* Send: the kernel accepts the frame although the peer is gone.
SendVoid(g) ==
  /\ g.pc = "sending" /\ link = "dead"
  /\ Fault("drop")
  /\ Goto(g, "done")
  /\ sent' = Bump(sent, g.cmd)
  /\ UNCHANGED <<netVars, hbVars, runs, unsent, aborted, backendVars>>

\* Send: no connection any more, or the write fails and closes it; the caller
\* falls back to HTTP.  A write to a live peer fails only by a fault.
SendError(g) ==
  /\ g.pc = "sending"
  /\ IF link = "up" THEN Fault("drop") ELSE NoFault
  /\ link' = IF link = "down" THEN "down" ELSE "broken"
  /\ Goto(g, "posting")
  /\ UNCHANGED <<pushed, uplink, hbVars, historyVars, backendVars>>

\* The backend stores a result of c.
Receive(c) ==
  /\ got' = Bump(got, c)
  /\ pending' = pending \ {c}

\* api.Client.SubmitResult: posted and acknowledged.
PostOk(g) ==
  /\ g.pc = "posting" /\ Goto(g, "done")
  /\ sent' = Bump(sent, g.cmd)
  /\ Receive(g.cmd)
  /\ UNCHANGED <<netVars, hbVars, runs, unsent, aborted>>
  /\ NoFault

\* api.Client.SubmitResult returns an error, which is logged and not retried;
\* the backend may have stored the result all the same.
PostError(g) ==
  /\ g.pc = "posting" /\ Goto(g, "done")
  /\ Fault("post")
  /\ unsent' = Bump(unsent, g.cmd)
  /\ \/ Receive(g.cmd)
     \/ UNCHANGED backendVars
  /\ UNCHANGED <<netVars, hbVars, runs, sent, aborted>>

\* Faulty variant: the mark is not taken back.
ReleaseKeepsMark(g) ==
  /\ g.pc = "done"
  /\ active' = active \ {g}
  /\ UNCHANGED <<inFlight, agent, netVars, hbVars, historyVars, backendVars>>
  /\ NoFault

\* The deferred function of the goroutine: the command leaves inFlight.
Release(g) ==
  /\ g.pc = "done"
  /\ active' = active \ {g}
  /\ inFlight' = inFlight \ {g.cmd}
  /\ UNCHANGED <<agent, netVars, hbVars, historyVars, backendVars>>
  /\ NoFault

\* A result written to the socket arrives.
BackendReceives(c) ==
  /\ uplink[c] > 0
  /\ uplink' = [uplink EXCEPT ![c] = @ - 1]
  /\ Receive(c)
  /\ UNCHANGED <<link, pushed, agentVars, hbVars, historyVars>>
  /\ NoFault

----------------------------------------------------------------------------
Submit(g) == ChoosePath(g) \/ SendOk(g) \/ SendVoid(g) \/ SendError(g)
               \/ PostOk(g) \/ PostError(g)

Goroutine(g) == Finish(g) \/ Submit(g) \/ Release(g)

Next ==
  \/ Register \/ Crash \/ Connect \/ LinkDrop \/ LinkNoticed
  \/ HeartbeatSend \/ HeartbeatFail \/ HeartbeatDone
  \/ \E S \in SUBSET Commands : HeartbeatReply(S)
  \/ \E c \in Commands :
        Push(c) \/ ReadPush(c) \/ HeartbeatDispatch(c) \/ BackendReceives(c)
  \/ \E g \in active : Goroutine(g)

Spec == Init /\ [][Next]_vars

\* The agent's own steps are taken: registration is retried for ever, the
\* ticker fires, executors return (they run under timeouts), goroutines are
\* scheduled, the read deadline expires on a dead socket.  The socket itself
\* is not assumed: it may never connect.  Of the backend it is assumed that
\* it answers heartbeats, that it does not leave a pending command out of
\* every answer, and that it reads what arrives.
Fairness ==
  /\ WF_vars(Register) /\ WF_vars(LinkNoticed)
  /\ WF_vars(HeartbeatSend) /\ WF_vars(HeartbeatDone)
  /\ WF_vars(\E S \in SUBSET Commands : HeartbeatReply(S))
  /\ \A c \in Commands :
       /\ WF_vars(HeartbeatDispatch(c))
       /\ WF_vars(BackendReceives(c))
       /\ SF_vars(\E S \in SUBSET Commands : c \in S /\ HeartbeatReply(S))
       /\ WF_vars(\E g \in active : g.cmd = c /\ Goroutine(g))

FairSpec == Spec /\ Fairness

----------------------------------------------------------------------------
(* Properties                                                              *)

\* A command never has two goroutines, and inFlight holds exactly the commands
\* that have one, whichever paths delivered it and whatever the links did
\* (main.go, dispatchCommand and its deferred delete).
NoConcurrentRuns ==
  /\ \A g, h \in active : g.cmd = h.cmd => g = h
  /\ inFlight = {g.cmd : g \in active}

\* Every execution ends in exactly one way: its submission returned nil, or
\* returned an error, or the agent died under it.  None is submitted over both
\* paths, and none leaves inFlight before its submission has ended
\* (transport.SubmitResult and dispatchCommand).
ResultAccounted ==
  \A c \in Commands :
    runs[c] = sent[c] + unsent[c] + aborted[c]
                + (IF Running(c) THEN 1 ELSE 0)

\* The backend never gets more results of a command than executions of it: the
\* fallback to HTTP posts only what the socket refused.
NoDuplicateResult ==
  \A c \in Commands : got[c] + uplink[c] <= runs[c]

\* Every queued command gets its result to the backend in the end, with or
\* without the socket, over a bounded number of faults: the heartbeat is the
\* "guaranteed delivery path" of main.go:264-267.
EveryCommandAnswered == \A c \in Commands : <>(c \notin pending)

\* main.go:52-54: "a dropped socket never loses results": a result whose
\* submission returned nil has reached the backend or is on its way.
NoResultLost == \A c \in Commands : sent[c] <= got[c] + uplink[c]
============================================================================
