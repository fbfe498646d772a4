------------------------------ MODULE WSClient ------------------------------
(***************************************************************************)
(* The WebSocket client (src/internal/ws/client.go): Run dials, serves and  *)
(* redials; serve reads, while a goroutine of its own pings; the agent's    *)
(* goroutines call Send.  One mutex guards Client.conn and every write.     *)
(*                                                                         *)
(* Time passes in ticks.  It stands still while a goroutine can take a     *)
(* step, so the deadlines are exact.                                       *)
(***************************************************************************)
EXTENDS Integers

CONSTANTS Frames,      \* the frames to send, each by a goroutine of its own
          PingPeriod, PongWait, WriteWait,  \* in ticks
          Rtt,         \* the time a live peer takes to answer a ping, at most
          UnitSeconds, \* the length of a tick
          FaultKinds,  \* which faults may happen, see AllFaults
          MaxFaults,   \* bound on the number of faults
          None         \* no connection, no deadline, no writer

\* A dial fails; the peer becomes slow to read, goes away silently, resets the
\* connection, or sends a frame that is not JSON.
AllFaults == {"dial", "slow", "gone", "reset", "bad"}

ASSUME ClientAssumption ==
  /\ PingPeriod \in Nat \ {0} /\ PongWait \in Nat /\ WriteWait \in Nat
  /\ PingPeriod < PongWait                  \* the comment on pingPeriod
  /\ Rtt \in Nat /\ UnitSeconds \in Nat \ {0}
  /\ FaultKinds \subseteq AllFaults /\ MaxFaults \in Nat
  /\ None \notin Int /\ None \notin Frames

\* A connection is lost by a fault only, so this many will do.
Ids == 1 .. MaxFaults + 1

VARIABLES
  run,      \* where Run is
  conn,     \* Client.conn
  cur,      \* the last connection that was dialled
  attempt,  \* failed dials in a row
  waitIn,   \* until Run dials again
  sock,     \* per connection, the agent's end
  peer,     \* per connection, the other end
  wire,     \* per connection, the frames on their way up
  got,      \* the frames the backend has received
  send,     \* per frame, where its Send is
  mu,       \* who holds the mutex during a write that blocks
  writeIn,  \* until the deadline of that write
  readIn,   \* until the read deadline of the last connection
  pinger,   \* per connection, the ping goroutine
  pingIn,   \* until the next ping on the last connection
  pongIn,   \* until its pong arrives
  silent,   \* how long ago the peer of the last connection went away
  late,     \* how long a ping that is due has waited for the mutex since the read
            \* deadline was set, counted up to PongWait
  faults    \* faults so far

runVars  == <<run, conn, cur, attempt, waitIn>>
netVars  == <<sock, peer, wire, got>>
lockVars == <<mu, writeIn>>
timeVars == <<readIn, pinger, pingIn, pongIn, silent, late>>
vars == <<runVars, netVars, send, lockVars, timeVars, faults>>

\* Besides a Send, the hello of a new connection and its pings are written.
Hello == <<"hello", 0>>
Pings == {<<"ping", i>> : i \in Ids}

ASSUME WritesDiffer == (Frames \union {None}) \intersect ({Hello} \union Pings) = {}

Bound == PongWait + 2 * WriteWait

TypeOK ==
  /\ run \in {"dial", "wait", "hello", "serve", "returned"}
  /\ conn \in Ids \union {None} /\ cur \in Ids \union {0}
  /\ attempt \in 0 .. 7 /\ waitIn \in Nat \union {None}
  /\ sock \in [Ids -> {"none", "open", "closed"}]
  /\ peer \in [Ids -> {"there", "slow", "gone", "reset"}]
  /\ wire \in [Ids -> SUBSET Frames] /\ got \subseteq Frames
  /\ send \in [Frames -> {"unsent", "waiting", "writing", "ok", "error"}]
  /\ mu \in Frames \union Pings \union {Hello, None}
  /\ writeIn \in 0 .. WriteWait \union {None}
  /\ readIn \in 0 .. PongWait
  /\ pinger \in [Ids -> {"off", "waiting", "writing", "ended"}]
  /\ pingIn \in 0 .. PingPeriod /\ pongIn \in 0 .. Rtt \union {None}
  /\ silent \in 0 .. Bound + 1 /\ late \in 0 .. PongWait
  /\ faults \in Nat

Init ==
  /\ run = "dial" /\ conn = None /\ cur = 0 /\ attempt = 0 /\ waitIn = 0
  /\ sock = [i \in Ids |-> "none"] /\ peer = [i \in Ids |-> "there"]
  /\ wire = [i \in Ids |-> {}] /\ got = {}
  /\ send = [f \in Frames |-> "unsent"]
  /\ mu = None /\ writeIn = None
  /\ readIn = 0 /\ pinger = [i \in Ids |-> "off"] /\ pingIn = 0 /\ pongIn = None
  /\ silent = 0 /\ late = 0 /\ faults = 0

Fault(kind) ==
  kind \in FaultKinds /\ faults < MaxFaults /\ faults' = faults + 1

Alive(i) == peer[i] \in {"there", "slow"}
Usable(i) == sock[i] = "open" /\ peer[i] # "reset"

----------------------------------------------------------------------------
(* Run                                                                     *)

\* The seconds of the nth wait before the jitter.
Delay(n) == IF n > 6 THEN 60 ELSE 2 ^ (n - 1)

\* Faulty variant: the jitter is twice as large and subtracted.
BackoffBelow(n) ==
  LET d == Delay(n) u == 4 * UnitSeconds IN (-d) \div u .. (3 * d) \div u

\* backoff: a quarter more or less, in ticks.
Backoff(n) ==
  LET d == Delay(n) u == 4 * UnitSeconds IN
  (3 * d) \div u .. (5 * d + u - 1) \div u

\* The dial succeeds and setConn publishes the connection.
Dial ==
  /\ run = "dial" /\ mu = None /\ cur + 1 \in Ids
  /\ run' = "hello" /\ cur' = cur + 1 /\ conn' = cur + 1 /\ attempt' = 0
  /\ sock' = [sock EXCEPT ![cur + 1] = "open"]
  /\ pongIn' = None /\ silent' = 0 /\ late' = 0
  /\ UNCHANGED <<waitIn, peer, wire, got, send, lockVars, readIn, pinger, pingIn, faults>>

\* Faulty variant: no timer is set.
DialFailsForGood ==
  /\ run = "dial" /\ Fault("dial")
  /\ run' = "wait" /\ attempt' = attempt + 1 /\ waitIn' = None
  /\ UNCHANGED <<conn, cur, netVars, send, lockVars, timeVars>>

DialFails ==
  /\ run = "dial" /\ Fault("dial")
  /\ run' = "wait" /\ attempt' = (IF attempt < 7 THEN attempt + 1 ELSE 7)
  /\ waitIn' \in Backoff(attempt')
  /\ UNCHANGED <<conn, cur, netVars, send, lockVars, timeVars>>

Wake ==
  /\ run = "wait" /\ waitIn = 0 /\ run' = "dial"
  /\ UNCHANGED <<conn, cur, attempt, waitIn, netVars, send, lockVars, timeVars, faults>>

\* serve has returned: setConn(nil), and Run dials at once.
Unset ==
  /\ run = "returned" /\ mu = None
  /\ run' = "dial" /\ conn' = None
  /\ UNCHANGED <<cur, attempt, waitIn, netVars, send, lockVars, timeVars, faults>>

----------------------------------------------------------------------------
(* Writing, under the mutex: a frame, the hello, a ping                    *)

\* Whether serve has closed `done` for connection i.
Done(i) == i # cur \/ run # "serve"

\* serve begins when the hello has been written or not.
BeginServe ==
  /\ run' = "serve" /\ readIn' = PongWait
  /\ pinger' = [pinger EXCEPT ![cur] = "waiting"] /\ pingIn' = PingPeriod

\* The write of w on connection i has succeeded: the kernel has it.  A live peer
\* will answer a ping in time, an earlier one first; a ping goroutine then sees that
\* serve is done.
Written(w, i) ==
  /\ UNCHANGED <<sock, peer, got, conn, cur, attempt, waitIn, silent, late, faults>>
  /\ CASE w \in Frames ->
            /\ send' = [send EXCEPT ![w] = "ok"]
            /\ wire' = IF Alive(i) THEN [wire EXCEPT ![i] = @ \union {w}] ELSE wire
            /\ UNCHANGED <<run, readIn, pinger, pingIn, pongIn>>
       [] w = Hello -> BeginServe /\ UNCHANGED <<send, wire, pongIn>>
       [] OTHER ->
            /\ pinger' = [pinger EXCEPT ![i] = IF Done(i) THEN "ended" ELSE "waiting"]
            /\ IF i = cur
               THEN /\ pingIn' = PingPeriod
                    /\ IF Alive(i) /\ pongIn = None THEN pongIn' \in 0 .. Rtt
                       ELSE UNCHANGED pongIn
               ELSE UNCHANGED <<pingIn, pongIn>>
            /\ UNCHANGED <<run, send, wire, readIn>>

\* It has failed: the connection is closed, so that the read loop returns.
WriteFailed(w, i) ==
  /\ sock' = [sock EXCEPT ![i] = "closed"]
  /\ UNCHANGED <<peer, wire, got, conn, cur, attempt, waitIn, pongIn, silent, late, faults>>
  /\ CASE w \in Frames ->
            /\ send' = [send EXCEPT ![w] = "error"]
            /\ UNCHANGED <<run, readIn, pinger, pingIn>>
       [] w = Hello -> BeginServe /\ UNCHANGED send
       [] OTHER -> /\ pinger' = [pinger EXCEPT ![i] = "ended"]
                   /\ UNCHANGED <<run, send, readIn, pingIn>>

\* Faulty variant: a write without a deadline.
BlocksForever(w, i) ==
  /\ peer[i] \in {"slow", "gone"}
  /\ mu' = w /\ writeIn' = None
  /\ send' = IF w \in Frames THEN [send EXCEPT ![w] = "writing"] ELSE send
  /\ pinger' = IF w \in Pings THEN [pinger EXCEPT ![i] = "writing"] ELSE pinger
  /\ UNCHANGED <<runVars, netVars, readIn, pingIn, pongIn, silent, late, faults>>

\* The kernel's buffer is full: w keeps the mutex until its deadline.
Blocks(w, i) ==
  /\ peer[i] \in {"slow", "gone"}
  /\ mu' = w /\ writeIn' = WriteWait
  /\ send' = IF w \in Frames THEN [send EXCEPT ![w] = "writing"] ELSE send
  /\ pinger' = IF w \in Pings THEN [pinger EXCEPT ![i] = "writing"] ELSE pinger
  /\ UNCHANGED <<runVars, netVars, readIn, pingIn, pongIn, silent, late, faults>>

TryWrite(w, i) ==
  /\ mu = None
  /\ \/ Usable(i) /\ Written(w, i) /\ UNCHANGED lockVars
     \/ Usable(i) /\ Blocks(w, i)
     \/ ~Usable(i) /\ WriteFailed(w, i) /\ UNCHANGED lockVars

\* The connection the holder of the mutex writes to.
Target == IF mu \in Pings THEN mu[2] ELSE conn

Unblock ==
  /\ mu # None /\ mu' = None /\ writeIn' = None
  /\ \/ Usable(Target) /\ peer[Target] = "slow" /\ Written(mu, Target)
     \/ ~Usable(Target) /\ WriteFailed(mu, Target)

TimeOut ==
  /\ mu # None /\ writeIn = 0 /\ mu' = None /\ writeIn' = None
  /\ WriteFailed(mu, Target)

\* A goroutine of the agent calls Send.
Call(f) ==
  /\ send[f] = "unsent" /\ send' = [send EXCEPT ![f] = "waiting"]
  /\ UNCHANGED <<runVars, netVars, lockVars, timeVars, faults>>

\* It gets the mutex.
Send(f) ==
  /\ send[f] = "waiting"
  /\ \/ conn # None /\ TryWrite(f, conn)
     \/ /\ conn = None /\ mu = None
        /\ send' = [send EXCEPT ![f] = "error"]
        /\ UNCHANGED <<runVars, netVars, lockVars, timeVars, faults>>

SayHello == run = "hello" /\ TryWrite(Hello, cur)

----------------------------------------------------------------------------
(* serve                                                                   *)

\* Faulty variant: the deadline is extended when a ping has been written.
PingExtends(i) ==
  /\ pinger[i] = "waiting" /\ pingIn = 0 /\ mu = None /\ Usable(i)
  /\ pingIn' = PingPeriod /\ readIn' = PongWait
  /\ UNCHANGED <<runVars, netVars, send, lockVars, pinger, pongIn, silent, late, faults>>

\* The ticker of the ping goroutine fires, perhaps along with `done`.
Ping(i) ==
  /\ pinger[i] = "waiting" /\ pingIn = 0 /\ TryWrite(<<"ping", i>>, i)

PingerEnds(i) ==
  /\ pinger[i] = "waiting" /\ Done(i) /\ pinger' = [pinger EXCEPT ![i] = "ended"]
  /\ UNCHANGED <<runVars, netVars, send, lockVars, readIn, pingIn, pongIn, silent, late, faults>>

\* Faulty variant: there is no pong handler.
PongIgnored ==
  /\ run = "serve" /\ pongIn # None /\ Alive(cur) /\ sock[cur] = "open"
  /\ pongIn' = None
  /\ UNCHANGED <<runVars, netVars, send, lockVars, readIn, pinger, pingIn, silent, late, faults>>

Pong ==
  /\ run = "serve" /\ pongIn # None /\ Alive(cur) /\ sock[cur] = "open"
  /\ pongIn' = None /\ readIn' = PongWait /\ late' = 0
  /\ UNCHANGED <<runVars, netVars, send, lockVars, pinger, pingIn, silent, faults>>

\* A command arrives; onCommand starts a goroutine and returns.
Read ==
  /\ run = "serve" /\ Alive(cur) /\ sock[cur] = "open"
  /\ readIn' = PongWait /\ late' = 0
  /\ UNCHANGED <<runVars, netVars, send, lockVars, pinger, pingIn, pongIn, silent, faults>>

ReadFailing == run = "serve" /\ (readIn = 0 \/ ~Usable(cur))

\* ReadJSON fails: serve returns and leaves the socket as it is.
ReadFails ==
  /\ \/ ReadFailing /\ UNCHANGED faults
     \/ run = "serve" /\ Alive(cur) /\ sock[cur] = "open" /\ Fault("bad")
  /\ run' = "returned"
  /\ UNCHANGED <<conn, cur, attempt, waitIn, netVars, send, lockVars, timeVars>>

----------------------------------------------------------------------------
(* The peer, the network, time                                             *)

Deliver(i) ==
  /\ Alive(i)
  /\ \E f \in wire[i] : /\ wire' = [wire EXCEPT ![i] = @ \ {f}]
                        /\ got' = got \union {f}
  /\ UNCHANGED <<runVars, sock, peer, send, lockVars, timeVars, faults>>

\* What is on the wire is lost with the peer.
PeerFails(kind) ==
  /\ cur # 0 /\ peer[cur] = "there" /\ Fault(kind)
  /\ peer' = [peer EXCEPT ![cur] = kind]
  /\ IF kind = "slow" THEN UNCHANGED <<wire, pongIn>>
     ELSE wire' = [wire EXCEPT ![cur] = {}] /\ pongIn' = None
  /\ UNCHANGED <<runVars, sock, got, send, lockVars, readIn, pinger, pingIn, silent, late>>

Down(n) == IF n \in {0, None} THEN n ELSE n - 1

\* No goroutine can take a step, and no pong is due.
Still ==
  /\ \/ run = "serve" /\ ~ReadFailing /\ pongIn # 0
     \/ run = "wait" /\ waitIn # 0
     \/ run \in {"hello", "returned"} /\ mu # None
     \/ run = "dial"
  /\ mu # None => writeIn # 0 /\ Usable(Target)
  /\ \A f \in Frames : send[f] = "waiting" => mu # None
  /\ \A i \in Ids : pinger[i] = "waiting" => ~Done(i) /\ (pingIn # 0 \/ mu # None)

Tick ==
  /\ Still
  /\ waitIn' = Down(waitIn) /\ writeIn' = Down(writeIn) /\ readIn' = Down(readIn)
  /\ pingIn' = Down(pingIn) /\ pongIn' = Down(pongIn)
  /\ silent' = IF conn # None /\ peer[conn] = "gone" /\ silent <= Bound
               THEN silent + 1 ELSE silent
  /\ late' = IF /\ run = "serve" /\ pinger[cur] = "waiting" /\ pingIn = 0
                /\ late < PongWait
             THEN late + 1 ELSE late
  /\ UNCHANGED <<run, conn, cur, attempt, netVars, send, mu, pinger, faults>>

Goroutines ==
  \/ Dial \/ Wake \/ Unset \/ SayHello \/ Unblock \/ TimeOut \/ ReadFails
  \/ (\E f \in Frames : Send(f))
  \/ (\E i \in Ids : Ping(i) \/ PingerEnds(i))

Next ==
  \/ Goroutines \/ DialFails \/ Pong \/ Read \/ Tick
  \/ (\E f \in Frames : Call(f)) \/ (\E i \in Ids : Deliver(i))
  \/ (\E kind \in {"slow", "gone", "reset"} : PeerFails(kind))

Spec == Init /\ [][Next]_vars

\* A goroutine that can run does; a live peer answers; a dial ends; time passes.
Fairness ==
  /\ WF_vars(Dial) /\ WF_vars(Wake) /\ WF_vars(Unset) /\ WF_vars(SayHello)
  /\ WF_vars(TimeOut) /\ WF_vars(ReadFailing /\ ReadFails)
  /\ WF_vars(Unblock /\ ~Usable(Target))
  /\ \A f \in Frames : WF_vars(Send(f))
  /\ \A i \in Ids : WF_vars(Ping(i)) /\ WF_vars(PingerEnds(i))
  /\ WF_vars(Pong) /\ WF_vars(Tick)

FairSpec == Spec /\ Fairness

----------------------------------------------------------------------------
(* Properties                                                              *)

\* A frame is unsent, being sent, taken, refused or received.
Status == [f \in Frames |->
             CASE send[f] = "unsent" -> "unsent"
               [] send[f] \in {"waiting", "writing"} -> "sending"
               [] send[f] = "error" -> IF f \in got THEN "received" ELSE "refused"
               [] OTHER -> IF f \in got THEN "received" ELSE "taken"]

C == INSTANCE Channel WITH up <- conn # None, status <- Status

\* The client implements what its callers rely on: a frame that Send refused never
\* reaches the backend, none is taken while the client is down, and no Send
\* hangs (transport's fallback, src/main.go:61-66).
ChannelSpec == C!FairSpec

\* A peer that is gone without a word is given up after pongWait, and what a
\* blocked write adds to it: until then Connected() is true and results go to
\* nobody (the read deadline, :31, :113-116).
SilenceNoticed == conn # None /\ peer[conn] = "gone" => silent <= Bound

\* "client ping cadence (must be < pongWait)", :32.  That it is less is not enough: a
\* ping waits for the mutex behind every frame that is being written.  serve gives up
\* a peer that answers only for a frame it cannot read, for a write that has failed on
\* a slow peer, or when pings have waited for so long, since the deadline was set,
\* that with the period, their own write and the answer it is pongWait.
Delayed == PingPeriod + late + WriteWait + Rtt >= PongWait

LivePeerKept ==
  [][run = "serve" /\ run' = "returned" /\ Alive(cur) =>
       \/ faults' # faults
       \/ peer[cur] = "slow" /\ sock[cur] = "closed"
       \/ Delayed]_vars

\* "Run keeps the socket alive" (:79-80): when the faults are over it is up for
\* good.
EndsConnected == <>[](conn # None /\ peer[conn] \in {"there", "slow"})
=============================================================================
