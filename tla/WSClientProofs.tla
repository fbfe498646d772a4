---------------------------- MODULE WSClientProofs ----------------------------
(***************************************************************************)
(* Proofs about the client, for any number of frames, any timing and any    *)
(* number of faults: its types; that it implements Channel; that a peer     *)
(* which has gone is given up in time; that one which answers is kept       *)
(* unless its pings have waited too long for the mutex.                     *)
(***************************************************************************)
EXTENDS WSClient, TLAPS

----------------------------------------------------------------------------
(* Types                                                                   *)

Numbers == PongWait \in Nat /\ WriteWait \in Nat /\ PingPeriod \in Nat \ {0} /\ Rtt \in Nat /\ Bound \in Nat

LEMMA Numbered == Numbers /\ MaxFaults \in Nat /\ None \notin Int
  BY ClientAssumption DEF Numbers, Bound

\* A wait is a number of ticks: the seconds of one are whole, and a quarter less is not
\* less than nothing.
LEMMA BackoffTyped == \A n \in 1 .. 7 : Backoff(n) \subseteq Nat
<1> SUFFICES ASSUME NEW n \in 1 .. 7 PROVE Backoff(n) \subseteq Nat
  OBVIOUS
<1>1. Delay(n) \in Nat
  <2>1. /\ 2 ^ 0 \in Nat /\ 2 ^ 1 \in Nat /\ 2 ^ 2 \in Nat
        /\ 2 ^ 3 \in Nat /\ 2 ^ 4 \in Nat /\ 2 ^ 5 \in Nat
    OBVIOUS
  <2>2. \A k \in {0, 1, 2, 3, 4, 5} : 2 ^ k \in Nat
    BY <2>1, Zenon
  <2>3. n - 1 \in {0, 1, 2, 3, 4, 5} \/ n > 6
    OBVIOUS
  <2>4. CASE n > 6
    BY <2>4 DEF Delay
  <2>5. CASE ~ (n > 6)
    BY <2>2, <2>3, <2>5, Zenon DEF Delay
  <2> QED
    BY <2>4, <2>5
<1>2. 4 * UnitSeconds \in Nat \ {0}
  BY ClientAssumption
<1>3. \A d, u \in Nat : u # 0 => (3 * d) \div u \in Nat /\ (5 * d + u - 1) \div u \in Int
  BY Z3
<1>4. /\ (3 * Delay(n)) \div (4 * UnitSeconds) \in Nat
      /\ (5 * Delay(n) + (4 * UnitSeconds) - 1) \div (4 * UnitSeconds) \in Int
  BY <1>1, <1>2, <1>3
<1> QED
  BY <1>4 DEF Backoff

Writes == Frames \union Pings \union {Hello}

\* What the end of a write does, for each of the three that write.
LEMMA FrameEnds ==
  ASSUME NEW w \in Frames, NEW i, Written(w, i) \/ WriteFailed(w, i)
  PROVE  /\ UNCHANGED <<run, conn, cur, attempt, waitIn, peer, got, readIn, pinger, pingIn,
                       pongIn, silent, late, faults>>
         /\ Written(w, i) => /\ sock' = sock /\ send' = [send EXCEPT ![w] = "ok"]
                             /\ wire' \in {wire, [wire EXCEPT ![i] = @ \union {w}]}
         /\ WriteFailed(w, i) => /\ sock' = [sock EXCEPT ![i] = "closed"]
                                 /\ wire' = wire /\ send' = [send EXCEPT ![w] = "error"]
<1>1. w \notin {Hello} \union Pings
  BY WritesDiffer
<1>2. ASSUME Written(w, i)
      PROVE  /\ UNCHANGED <<run, conn, cur, attempt, waitIn, peer, got, readIn, pinger, pingIn,
                          pongIn, silent, late, faults, sock>>
             /\ send' = [send EXCEPT ![w] = "ok"]
             /\ wire' \in {wire, [wire EXCEPT ![i] = @ \union {w}]}
  BY <1>1, <1>2 DEF Written
<1>3. ASSUME WriteFailed(w, i)
      PROVE  /\ UNCHANGED <<run, conn, cur, attempt, waitIn, peer, got, readIn, pinger, pingIn,
                          pongIn, silent, late, faults, wire>>
             /\ sock' = [sock EXCEPT ![i] = "closed"] /\ send' = [send EXCEPT ![w] = "error"]
  BY <1>1, <1>3 DEF WriteFailed
<1> QED
  BY <1>2, <1>3

LEMMA HelloEnds ==
  ASSUME NEW i, Written(Hello, i) \/ WriteFailed(Hello, i)
  PROVE  /\ UNCHANGED <<conn, cur, attempt, waitIn, peer, got, pongIn, silent, late,
                       faults, send, wire>>
         /\ BeginServe
         /\ Written(Hello, i) => sock' = sock
         /\ WriteFailed(Hello, i) => sock' = [sock EXCEPT ![i] = "closed"]
  BY WritesDiffer DEF Written, WriteFailed

LEMMA PingEnds ==
  ASSUME NEW w \in Pings, NEW i, Written(w, i) \/ WriteFailed(w, i)
  PROVE  /\ UNCHANGED <<run, conn, cur, attempt, waitIn, peer, wire, got, send, readIn, silent,
                       late, faults>>
         /\ Written(w, i) =>
              /\ sock' = sock
              /\ pinger' = [pinger EXCEPT ![i] = IF Done(i) THEN "ended" ELSE "waiting"]
              /\ i = cur => /\ pingIn' = PingPeriod
                            /\ IF Alive(i) /\ pongIn = None THEN pongIn' \in 0 .. Rtt
                               ELSE pongIn' = pongIn
              /\ i # cur => UNCHANGED <<pingIn, pongIn>>
         /\ WriteFailed(w, i) => /\ sock' = [sock EXCEPT ![i] = "closed"]
                                 /\ pinger' = [pinger EXCEPT ![i] = "ended"]
                                /\ UNCHANGED <<pingIn, pongIn>>
<1>1. w \notin Frames /\ w # Hello
  BY WritesDiffer DEF Hello, Pings
<1>2. ASSUME Written(w, i)
      PROVE  /\ UNCHANGED <<run, conn, cur, attempt, waitIn, peer, wire, got, send, readIn,
                          silent, late, faults, sock>>
             /\ pinger' = [pinger EXCEPT ![i] = IF Done(i) THEN "ended" ELSE "waiting"]
             /\ i = cur => /\ pingIn' = PingPeriod
                           /\ IF Alive(i) /\ pongIn = None THEN pongIn' \in 0 .. Rtt
                              ELSE pongIn' = pongIn
             /\ i # cur => UNCHANGED <<pingIn, pongIn>>
  BY <1>1, <1>2 DEF Written
<1>3. ASSUME WriteFailed(w, i)
      PROVE  /\ UNCHANGED <<run, conn, cur, attempt, waitIn, peer, wire, got, send, readIn,
                          pingIn, pongIn, silent, late, faults>>
             /\ sock' = [sock EXCEPT ![i] = "closed"] /\ pinger' = [pinger EXCEPT ![i] = "ended"]
  BY <1>1, <1>3 DEF WriteFailed
<1> QED
  BY <1>2, <1>3

\* The end of a write leaves what it changes well-typed, whatever it wrote where.
LEMMA WriteTyped ==
  ASSUME TypeOK, NEW w \in Writes, NEW i, Written(w, i) \/ WriteFailed(w, i),
         mu' \in Writes \union {None}, writeIn' \in 0 .. WriteWait \union {None}
  PROVE  TypeOK'
<1> USE DEF TypeOK, Writes
<1>1. CASE w \in Frames
  <2>1. wire' \in [Ids -> SUBSET Frames]
    BY <1>1, FrameEnds
  <2>2. send' \in [Frames -> {"unsent", "waiting", "writing", "ok", "error"}]
    BY <1>1, FrameEnds
  <2>3. sock' \in [Ids -> {"none", "open", "closed"}]
    BY <1>1, FrameEnds
  <2> QED
    BY <1>1, <2>1, <2>2, <2>3, FrameEnds
<1>2. CASE w = Hello
  BY <1>2, HelloEnds, Numbered DEF BeginServe, Numbers
<1>3. CASE w \in Pings
  <2>1. pinger' \in [Ids -> {"off", "waiting", "writing", "ended"}]
    BY <1>3, PingEnds
  <2>2. sock' \in [Ids -> {"none", "open", "closed"}]
    BY <1>3, PingEnds
  <2> QED
    BY <1>3, <2>1, <2>2, PingEnds, Numbered DEF Numbers
<1> QED
  BY <1>1, <1>2, <1>3

LEMMA BlocksTyped ==
  ASSUME TypeOK, NEW w \in Writes, NEW i, Blocks(w, i)
  PROVE  TypeOK'
<1>1. WriteWait \in 0 .. WriteWait
  BY Numbered DEF Numbers
<1> QED
  BY <1>1 DEF TypeOK, Writes, Blocks, runVars, netVars

LEMMA TryTyped ==
  ASSUME TypeOK, NEW w \in Writes, NEW i, TryWrite(w, i)
  PROVE  TypeOK'
<1>1. CASE Blocks(w, i)
  BY <1>1, BlocksTyped
<1>2. CASE (Written(w, i) \/ WriteFailed(w, i)) /\ UNCHANGED lockVars
  <2>1. mu' \in Writes \union {None} /\ writeIn' \in 0 .. WriteWait \union {None}
    BY <1>2 DEF TypeOK, Writes, lockVars
  <2> QED
    BY <1>2, <2>1, WriteTyped
<1> QED
  BY <1>1, <1>2 DEF TryWrite

LEMMA TypeKept == TypeOK /\ [Next]_vars => TypeOK'
<1> SUFFICES ASSUME TypeOK, [Next]_vars PROVE TypeOK'
  OBVIOUS
<1> USE Numbered DEF Numbers, runVars, netVars, lockVars, timeVars
<1>1. CASE Dial
  BY <1>1 DEF Dial, TypeOK, Ids
<1>2. CASE DialFails
  <2>1. attempt' \in 1 .. 7
    BY <1>2 DEF DialFails, TypeOK
  <2>2. waitIn' \in Nat
    BY <1>2, <2>1, BackoffTyped DEF DialFails
  <2> QED
    BY <1>2, <2>1, <2>2 DEF DialFails, Fault, TypeOK
<1>3. CASE Wake
  BY <1>3 DEF Wake, TypeOK
<1>4. CASE Unset
  BY <1>4 DEF Unset, TypeOK
<1>5. CASE SayHello
  BY <1>5, TryTyped DEF SayHello, Writes
<1>6. CASE Unblock \/ TimeOut
  <2>1. mu \in Writes /\ mu' = None /\ writeIn' = None
    BY <1>6 DEF Unblock, TimeOut, TypeOK, Writes
  <2> QED
    BY <1>6, <2>1, WriteTyped DEF Unblock, TimeOut
<1>7. ASSUME NEW f \in Frames, Send(f) PROVE TypeOK'
  <2>1. CASE conn # None
    BY <1>7, <2>1, TryTyped DEF Send, Writes
  <2>2. CASE conn = None
    BY <1>7, <2>2 DEF Send, TypeOK
  <2> QED
    BY <2>1, <2>2
<1>8. ASSUME NEW i \in Ids, Ping(i) PROVE TypeOK'
  BY <1>8, TryTyped DEF Ping, Writes, Pings
<1>9. ASSUME NEW i \in Ids, PingerEnds(i) PROVE TypeOK'
  BY <1>9 DEF PingerEnds, TypeOK
<1>10. CASE ReadFails
  BY <1>10 DEF ReadFails, Fault, TypeOK
<1>11. CASE Pong \/ Read
  <2>1. PongWait \in 0 .. PongWait
    OBVIOUS
  <2> QED
    BY <1>11, <2>1 DEF Pong, Read, TypeOK
<1>12. CASE Tick
  <2>1. \A n, k \in Nat : /\ n <= k => Down(n) \in 0 .. k
                          /\ Down(n) \in Nat
    BY DEF Down
  <2>2. Down(None) = None
    BY DEF Down
  <2> QED
    BY <1>12, <2>1, <2>2 DEF Tick, TypeOK
<1>13. ASSUME NEW f \in Frames, Call(f) PROVE TypeOK'
  BY <1>13 DEF Call, TypeOK
<1>14. ASSUME NEW i \in Ids, Deliver(i) PROVE TypeOK'
  BY <1>14 DEF Deliver, TypeOK
<1>15. ASSUME NEW kind \in {"slow", "gone", "reset"}, PeerFails(kind) PROVE TypeOK'
  BY <1>15 DEF PeerFails, Fault, TypeOK
<1>16. CASE UNCHANGED vars
  BY <1>16 DEF vars, TypeOK
<1> QED
  BY <1>1, <1>2, <1>3, <1>4, <1>5, <1>6, <1>7, <1>8, <1>9, <1>10, <1>11, <1>12, <1>13, <1>14,
     <1>15, <1>16 DEF Next, Goroutines

THEOREM TypeCorrect == Spec => []TypeOK
<1>1. Init => TypeOK
  BY Numbered DEF Init, TypeOK, Numbers
<1> QED
  BY <1>1, TypeKept, PTL DEF Spec

----------------------------------------------------------------------------
(* The channel its callers rely on                                        *)

SendStates == {"unsent", "waiting", "writing", "ok", "error"}

\* Who holds the mutex for a frame is in the middle of its Send on a connection that
\* is published; only what Send took is on a wire or received.
Inv ==
  /\ send \in [Frames -> SendStates]
  /\ wire \in [Ids -> SUBSET Frames] /\ got \subseteq Frames
  /\ conn \in Ids \union {None}
  /\ run \in {"dial", "wait"} => conn = None
  /\ mu \in Frames => send[mu] = "writing" /\ conn # None
  /\ \A f \in Frames : f \in got \/ (\E i \in Ids : f \in wire[i]) => send[f] = "ok"

\* What a step can be to the callers.
Quiet ==
  /\ UNCHANGED <<conn, send, got>>
  /\ wire' \in [Ids -> SUBSET Frames] /\ \A i \in Ids : wire'[i] \subseteq wire[i]
  /\ mu' = mu \/ mu' \notin Frames
  /\ run' \in {"dial", "wait"} => conn = None

Switched ==
  /\ UNCHANGED <<send, wire, got>> /\ mu' = None
  /\ \/ conn = None /\ conn' \in Ids /\ run' \notin {"dial", "wait"}
     \/ conn' = None /\ conn # None

Called(f) ==
  /\ send[f] = "unsent" /\ send' = [send EXCEPT ![f] = "waiting"]
  /\ UNCHANGED <<run, conn, wire, got, mu>>

Blocked(f) ==
  /\ conn # None /\ send[f] = "waiting" /\ send' = [send EXCEPT ![f] = "writing"] /\ mu' = f
  /\ UNCHANGED <<run, conn, wire, got>>

Sent(f) ==
  /\ send' = [send EXCEPT ![f] = "ok"]
  /\ \/ wire' = wire
     \/ \E i \in Ids : wire' = [wire EXCEPT ![i] = @ \union {f}]
  /\ UNCHANGED <<run, conn, got>>

NotSent(f) ==
  /\ send' = [send EXCEPT ![f] = "error"] /\ UNCHANGED <<run, conn, wire, got>>

SendEnds(f) ==
  /\ send[f] \in {"waiting", "writing"} /\ mu' = None
  /\ (Sent(f) /\ conn # None) \/ NotSent(f)

Delivered(i, f) ==
  /\ f \in wire[i] /\ wire' = [wire EXCEPT ![i] = @ \ {f}] /\ got' = got \union {f}
  /\ UNCHANGED <<run, conn, send, mu>>

\* What the end of a write does.
LEMMA WriteEnds ==
  ASSUME NEW w, NEW i, Inv, w \in Frames => i \in Ids, Written(w, i) \/ WriteFailed(w, i)
  PROVE  /\ w \in Frames => Sent(w) \/ NotSent(w)
         /\ w \notin Frames => /\ UNCHANGED <<conn, send, got>> /\ (run' = run \/ run' = "serve")
                               /\ wire' = wire
<1>1. CASE w \in Frames
  <2>1. w \notin {Hello} \union Pings
    BY <1>1, WritesDiffer
  <2>2. CASE Written(w, i)
    BY <1>1, <2>1, <2>2 DEF Written, Sent
  <2>3. CASE WriteFailed(w, i)
    BY <1>1, <2>1, <2>3 DEF WriteFailed, NotSent
  <2> QED
    BY <2>1, <2>2, <2>3
<1>2. CASE w \notin Frames
  BY <1>2 DEF Written, WriteFailed, BeginServe
<1> QED
  BY <1>1, <1>2

\* The write of something else than a frame is no concern of the callers.
LEMMA OtherWrites ==
  ASSUME NEW w \in {Hello} \union Pings, NEW i, Inv, TryWrite(w, i)
  PROVE  Quiet
<1>1. w \notin Frames
  BY WritesDiffer
<1>2. CASE Written(w, i) \/ WriteFailed(w, i)
  <2>1. UNCHANGED <<conn, send, got, wire>> /\ (run' = run \/ run' = "serve")
    BY <1>1, <1>2, WriteEnds
  <2>2. mu' = mu \/ mu' \notin Frames
    BY <1>1, <1>2 DEF TryWrite, Blocks, lockVars
  <2> QED
    BY <2>1, <2>2 DEF Quiet, Inv
<1>3. CASE Blocks(w, i)
  BY <1>1, <1>3 DEF Blocks, Quiet, runVars, netVars, Inv
<1> QED
  BY <1>2, <1>3 DEF TryWrite

\* The end of a write that had blocked.
LEMMA BlockedEnds ==
  ASSUME Inv, mu # None, mu' = None, Written(mu, Target) \/ WriteFailed(mu, Target)
  PROVE  Quiet \/ \E f \in Frames : SendEnds(f)
<1>1. CASE mu \in Frames
  <2>1. mu \notin Pings /\ conn \in Ids
    BY <1>1, WritesDiffer DEF Inv
  <2>2. Sent(mu) \/ NotSent(mu)
    BY <1>1, <2>1, WriteEnds DEF Target
  <2> QED
    BY <1>1, <2>1, <2>2 DEF SendEnds, Inv
<1>2. CASE mu \notin Frames
  <2>1. UNCHANGED <<conn, send, got, wire>> /\ (run' = run \/ run' = "serve")
    BY <1>2, WriteEnds
  <2> QED
    BY <1>2, <2>1, ClientAssumption DEF Quiet, Inv
<1> QED
  BY <1>1, <1>2

Kinds ==
  \/ Quiet \/ Switched
  \/ \E f \in Frames : Called(f) \/ Blocked(f) \/ SendEnds(f)
  \/ \E i \in Ids, f \in Frames : Delivered(i, f)

\* Every step is one of these.
LEMMA StepKinds == Inv /\ [Next]_vars => Kinds
<1> SUFFICES ASSUME Inv, [Next]_vars PROVE Kinds
  OBVIOUS
<1> USE DEF runVars, netVars, lockVars, timeVars
<1>1. CASE Dial
  BY <1>1, ClientAssumption DEF Dial, Inv, Kinds, Switched
<1>2. CASE DialFails \/ Wake
  BY <1>2 DEF DialFails, Wake, Inv, Kinds, Quiet
<1>3. CASE Unset
  BY <1>3 DEF Unset, Inv, Kinds, Quiet, Switched
<1>4. CASE SayHello \/ \E i \in Ids : Ping(i)
  BY <1>4, OtherWrites DEF SayHello, Ping, Kinds, Pings
<1>5. CASE Unblock \/ TimeOut
  BY <1>5, BlockedEnds DEF Unblock, TimeOut, Kinds
<1>6. ASSUME NEW f \in Frames, Send(f) PROVE Kinds
  <2>1. CASE conn # None /\ TryWrite(f, conn)
    <3>1. conn \in Ids /\ mu = None
      BY <2>1 DEF Inv, TryWrite
    <3>2. CASE Blocks(f, conn)
      BY <1>6, <2>1, <3>2 DEF Blocks, Blocked, Send, Kinds
    <3>3. CASE (Written(f, conn) \/ WriteFailed(f, conn)) /\ UNCHANGED lockVars
      BY <1>6, <2>1, <3>1, <3>3, WriteEnds DEF SendEnds, Send, Kinds
    <3> QED
      BY <2>1, <3>2, <3>3 DEF TryWrite
  <2>2. CASE conn = None
    BY <1>6, <2>2 DEF Send, SendEnds, NotSent, Kinds
  <2> QED
    BY <1>6, <2>1, <2>2 DEF Send
<1>7. CASE ReadFails \/ Pong \/ Read \/ Tick \/ \E i \in Ids : PingerEnds(i)
  BY <1>7 DEF ReadFails, ReadFailing, Pong, Read, Tick, PingerEnds, Kinds, Quiet, Inv
<1>8. ASSUME NEW f \in Frames, Call(f) PROVE Kinds
  BY <1>8 DEF Call, Kinds, Called
<1>9. ASSUME NEW i \in Ids, Deliver(i) PROVE Kinds
  BY <1>9 DEF Deliver, Kinds, Delivered, Inv
<1>10. ASSUME NEW kind \in {"slow", "gone", "reset"}, PeerFails(kind) PROVE Kinds
  BY <1>10 DEF PeerFails, Kinds, Quiet, Inv
<1>11. CASE UNCHANGED vars
  BY <1>11 DEF vars, Kinds, Quiet, Inv
<1> QED
  BY <1>1, <1>2, <1>3, <1>4, <1>5, <1>6, <1>7, <1>8, <1>9, <1>10, <1>11 DEF Next, Goroutines

LEMMA InvKept == Inv /\ Kinds => Inv'
<1> SUFFICES ASSUME Inv, Kinds PROVE Inv'
  OBVIOUS
<1> USE DEF Inv, SendStates
<1>1. CASE Quiet
  BY <1>1 DEF Quiet
<1>2. CASE Switched
  BY <1>2, ClientAssumption DEF Switched
<1>3. ASSUME NEW f \in Frames, Called(f) \/ Blocked(f) PROVE Inv'
  BY <1>3 DEF Called, Blocked
<1>4. ASSUME NEW f \in Frames, SendEnds(f) PROVE Inv'
  <2>1. mu' \notin Frames
    BY <1>4, ClientAssumption DEF SendEnds
  <2>2. CASE Sent(f)
    BY <2>1, <2>2 DEF Sent
  <2>3. CASE NotSent(f)
    BY <1>4, <2>1, <2>3 DEF NotSent, SendEnds
  <2> QED
    BY <1>4, <2>2, <2>3 DEF SendEnds
<1>5. ASSUME NEW i \in Ids, NEW f \in Frames, Delivered(i, f) PROVE Inv'
  BY <1>5 DEF Delivered
<1> QED
  BY <1>1, <1>2, <1>3, <1>4, <1>5 DEF Kinds

\* What the client's state means to its callers.
LEMMA StatusOf ==
  ASSUME Inv, NEW f \in Frames
  PROVE  /\ send[f] = "unsent" => Status[f] = "unsent"
         /\ send[f] \in {"waiting", "writing"} => Status[f] = "sending"
         /\ send[f] = "error" => Status[f] = "refused"
         /\ send[f] = "ok" => Status[f] = IF f \in got THEN "received" ELSE "taken"
  BY DEF Inv, Status, SendStates

\* A step of the client is a step of the channel or none.
LEMMA StepsMap == Inv /\ Inv' /\ Kinds => [C!Next]_(C!vars)
<1> SUFFICES ASSUME Inv, Inv', Kinds PROVE [C!Next]_(C!vars)
  OBVIOUS
<1> USE DEF C!vars
<1>1. CASE Quiet
  BY <1>1 DEF Quiet, Status
<1>2. CASE Switched
  <2>1. Status' = Status
    BY <1>2 DEF Switched, Status
  <2>2. \/ conn = None /\ conn' # None
        \/ conn # None /\ conn' = None
    BY <1>2, ClientAssumption DEF Switched, Ids
  <2>3. C!Change
    BY <2>1, <2>2, Zenon DEF C!Change
  <2> QED
    BY <2>3 DEF C!Next
<1>3. ASSUME NEW f \in Frames, Called(f) PROVE [C!Next]_(C!vars)
  <2>1. Status[f] = "unsent" /\ conn' = conn
    BY <1>3, StatusOf DEF Called
  <2>2. Status' = [Status EXCEPT ![f] = "sending"]
    BY <1>3 DEF Called, Status, Inv
  <2> QED
    BY <2>1, <2>2 DEF C!Next, C!Call, C!Moves
<1>4. ASSUME NEW f \in Frames, Blocked(f) PROVE [C!Next]_(C!vars)
  BY <1>4 DEF Blocked, Status, Inv
<1>5. ASSUME NEW f \in Frames, SendEnds(f) PROVE [C!Next]_(C!vars)
  <2>1. Status[f] = "sending" /\ f \notin got /\ conn' = conn
    BY <1>5, StatusOf DEF SendEnds, Sent, NotSent, Inv
  <2>2. CASE Sent(f) /\ conn # None
    <3>1. Status' = [Status EXCEPT ![f] = "taken"]
      BY <2>1, <2>2 DEF Sent, Status, Inv
    <3> QED
      BY <2>1, <2>2, <3>1 DEF C!Next, C!Take, C!Moves
  <2>3. CASE NotSent(f)
    <3>1. Status' = [Status EXCEPT ![f] = "refused"]
      BY <2>1, <2>3 DEF NotSent, Status, Inv
    <3> QED
      BY <2>1, <2>3, <3>1 DEF C!Next, C!Refuse, C!Moves
  <2> QED
    BY <1>5, <2>2, <2>3 DEF SendEnds
<1>6. ASSUME NEW i \in Ids, NEW f \in Frames, Delivered(i, f) PROVE [C!Next]_(C!vars)
  <2>1. send[f] = "ok" /\ conn' = conn /\ send' = send /\ got' = got \union {f}
    BY <1>6 DEF Delivered, Inv
  <2>2. CASE f \in got
    BY <2>1, <2>2 DEF Status
  <2>3. CASE f \notin got
    <3>1. Status[f] = "taken"
      BY <2>1, <2>3, StatusOf
    <3>2. Status' = [Status EXCEPT ![f] = "received"]
      BY <2>1, <2>3 DEF Status, Inv
    <3> QED
      BY <2>1, <3>1, <3>2 DEF C!Next, C!Receive, C!Moves
  <2> QED
    BY <2>2, <2>3
<1> QED
  BY <1>1, <1>2, <1>3, <1>4, <1>5, <1>6 DEF Kinds

\* The client implements the channel: a frame that Send refused is never received,
\* and none is taken while the client is down.
THEOREM ImplementsChannel == Spec => C!Spec
<1>1. Init => Inv /\ C!Init
  BY ClientAssumption DEF Init, Inv, SendStates, Status, C!Init
<1>2. Inv /\ [Next]_vars => Inv' /\ [C!Next]_(C!vars)
  BY StepKinds, InvKept, StepsMap
<1> QED
  BY <1>1, <1>2, PTL DEF Spec, C!Spec

----------------------------------------------------------------------------
(* A peer that has gone is given up in time                                *)

Up == run \in {"hello", "serve", "returned"}

\* Some blocked write holds the mutex on the last connection.
Mine == mu # None /\ Target = cur

\* The connection is published while Run is busy with it.  A write that blocks does so
\* on a connection that is open, and a connection is closed only after one that did, or
\* on a peer that has reset it: so one write at most blocks on a peer that is gone.  A
\* ping goroutine that has outlived its connection comes to write before time passes.
Held ==
  /\ IF Up THEN conn = cur /\ cur # 0 ELSE conn = None
  /\ mu = Hello => run = "hello"
  /\ mu \in Frames => Up
  /\ mu # None => /\ writeIn \in 0 .. WriteWait
                  /\ sock[Target] = "open" /\ peer[Target] \in {"slow", "gone"}
  /\ Up /\ sock[cur] # "open" => peer[cur] # "there"
  /\ Up /\ peer[cur] # "gone" => silent = 0

Stragglers ==
  \A i \in Ids \ {cur} :
    /\ pinger[i] = "waiting" => silent = 0 /\ (run \in {"serve", "returned"} => pingIn > 0)
    /\ mu = <<"ping", i>> => silent + writeIn <= WriteWait /\ run \notin {"serve", "returned"}

\* What there is of silence in each phase.
Since ==
  /\ run = "hello" =>
       /\ silent <= 2 * WriteWait
       /\ sock[cur] = "open" => /\ Mine => silent + writeIn <= 2 * WriteWait
                                /\ ~Mine => silent <= WriteWait
  /\ run = "serve" => /\ silent <= Bound
                      /\ sock[cur] = "open" => silent + readIn <= WriteWait + PongWait
  /\ run = "returned" =>
       /\ silent <= Bound
       /\ sock[cur] = "open" => /\ Mine => silent + writeIn <= Bound
                                /\ ~Mine => silent <= WriteWait + PongWait

Silence == Held /\ Stragglers /\ Since

\* Who may write what, and where.
Rightful(w, i) ==
  \/ w \in Frames /\ Up /\ i = cur /\ (mu = w \/ send[w] = "waiting")
  \/ w = Hello /\ run = "hello" /\ i = cur
  \/ i \in Ids /\ w = <<"ping", i>> /\ (mu = w \/ (pinger[i] = "waiting" /\ pingIn = 0))

Ends(w, i) ==
  /\ Rightful(w, i) /\ mu \in {None, w} /\ mu' = None
  /\ \/ Written(w, i) /\ Usable(i) /\ (mu = None \/ peer[i] = "slow")
     \/ WriteFailed(w, i) /\ (mu = w \/ ~Usable(i))

Begins(w, i) == Rightful(w, i) /\ mu = None /\ Usable(i) /\ Blocks(w, i)

LEMMA TargetIs ==
  ASSUME NEW w, NEW i, Rightful(w, i), TypeOK, Held
  PROVE  /\ w \in Writes /\ w # None /\ i \in Ids
         /\ mu = w => Target = i
         /\ mu' = w /\ conn' = conn => Target' = i
         /\ w \in Pings => w = <<"ping", i>>
<1>1. CASE w \in Frames \union {Hello}
  <2>1. w \in Writes /\ w # None /\ w \notin Pings
    BY <1>1, WritesDiffer, ClientAssumption DEF Writes, Hello, Pings
  <2>2. conn = cur /\ i = cur /\ cur \in Ids
    BY <1>1, <2>1, WritesDiffer DEF Rightful, Held, Up, TypeOK, Hello, Pings
  <2> QED
    BY <2>1, <2>2 DEF Target
<1>2. CASE i \in Ids /\ w = <<"ping", i>>
  <2>1. w \in Pings /\ w[2] = i
    BY <1>2 DEF Pings
  <2>2. w # None
    BY <2>1, WritesDiffer
  <2> QED
    BY <1>2, <2>1, <2>2 DEF Target, Writes
<1> QED
  BY <1>1, <1>2 DEF Rightful

\* What the end of a write changes.
LEMMA EndsFacts ==
  ASSUME TypeOK, Held, NEW w, NEW i, Ends(w, i)
  PROVE  /\ w \in Writes /\ w # None /\ i \in Ids /\ mu' = None /\ mu \in {None, w}
         /\ mu = w => Target = i /\ sock[i] = "open" /\ peer[i] \in {"slow", "gone"}
         /\ UNCHANGED <<conn, cur, peer, silent, late, faults>>
         /\ \A j \in Ids :
              /\ sock'[j] = "open" => sock[j] = "open"
              /\ sock'[j] # "open" => sock[j] # "open" \/ (j = i /\ peer[i] # "there")
              /\ sock'[j] = "open" /\ j = i => mu = None \/ peer[i] = "slow"
              /\ sock[j] # "none" => sock'[j] # "none"
<1>1. /\ w \in Writes /\ w # None /\ i \in Ids /\ mu' = None /\ mu \in {None, w}
      /\ mu = w => Target = i /\ sock[i] = "open" /\ peer[i] \in {"slow", "gone"}
  BY TargetIs DEF Ends, Held
<1>2. UNCHANGED <<conn, cur, peer, silent, late, faults>>
  BY DEF Ends, Written, WriteFailed
<1>3. CASE Written(w, i) /\ Usable(i) /\ (mu = None \/ peer[i] = "slow")
  <2>1. sock' = sock
    BY <1>3 DEF Written
  <2> QED
    BY <1>1, <1>2, <1>3, <2>1 DEF Usable
<1>4. CASE WriteFailed(w, i) /\ (mu = w \/ ~Usable(i))
  <2>1. sock' = [sock EXCEPT ![i] = "closed"]
    BY <1>4 DEF WriteFailed
  <2> QED
    BY <1>1, <1>2, <1>4, <2>1 DEF Usable, TypeOK
<1> QED
  BY <1>3, <1>4 DEF Ends

LEMMA FrameFacts ==
  ASSUME TypeOK, Held, NEW w \in Frames, NEW i, Ends(w, i)
  PROVE  /\ Up /\ i = cur /\ UNCHANGED <<run, readIn, pinger, pingIn, pongIn>>
         /\ \E r \in {"ok", "error"} : send' = [send EXCEPT ![w] = r]
  BY FrameEnds, WritesDiffer DEF Ends, Rightful, Pings

LEMMA HelloFacts ==
  ASSUME TypeOK, Held, NEW i, Ends(Hello, i)
  PROVE  run = "hello" /\ i = cur /\ BeginServe /\ UNCHANGED <<send, pongIn>>
<1>1. Hello \notin Frames /\ \A j \in Ids : Hello # <<"ping", j>>
  BY WritesDiffer DEF Hello
<1> QED
  BY <1>1, HelloEnds DEF Ends, Rightful

LEMMA PingFacts ==
  ASSUME TypeOK, Held, NEW w \in Pings, NEW i, Ends(w, i)
  PROVE  /\ w = <<"ping", i>> /\ (mu = w \/ (pinger[i] = "waiting" /\ pingIn = 0))
         /\ UNCHANGED <<run, readIn, send>>
         /\ \E p \in {"ended", "waiting"} :
              /\ pinger' = [pinger EXCEPT ![i] = p]
              /\ Done(i) => p = "ended"
              /\ sock'[i] = "open" /\ ~Done(i) => p = "waiting"
         /\ i # cur => UNCHANGED <<pingIn, pongIn>>
         /\ pingIn' = pingIn \/ pingIn' = PingPeriod
         /\ i = cur /\ sock'[i] = "open" /\ Alive(i)
              => pingIn' = PingPeriod /\ IF pongIn = None THEN pongIn' \in 0 .. Rtt ELSE pongIn' = pongIn
<1>1. w \notin Frames /\ w # Hello
  BY WritesDiffer DEF Hello, Pings
<1>2. i \in Ids /\ w = <<"ping", i>> /\ (mu = w \/ (pinger[i] = "waiting" /\ pingIn = 0))
  BY <1>1 DEF Ends, Rightful
<1>3. CASE Written(w, i)
  BY <1>2, <1>3, PingEnds
<1>4. CASE WriteFailed(w, i)
  <2>1. sock'[i] # "open"
    BY <1>2, <1>4, PingEnds DEF TypeOK
  <2> QED
    BY <1>2, <1>4, <2>1, PingEnds
<1> QED
  BY <1>3, <1>4 DEF Ends

\* The end of a write keeps the silence bounded.
LEMMA EndsBounded ==
  ASSUME TypeOK, TypeOK', Silence, NEW w, NEW i, Ends(w, i)
  PROVE  Silence'
<1> USE Numbered DEF Numbers, Bound
<1>1. /\ w \in Writes /\ w # None /\ i \in Ids /\ mu' = None /\ mu \in {None, w}
      /\ mu = w => Target = i /\ sock[i] = "open" /\ peer[i] \in {"slow", "gone"}
  BY EndsFacts DEF Silence
<1>2. UNCHANGED <<conn, cur, peer, silent>>
  BY EndsFacts DEF Silence
<1>3. \A j \in Ids : /\ sock'[j] = "open" => sock[j] = "open"
                     /\ sock'[j] # "open" => sock[j] # "open" \/ (j = i /\ peer[i] # "there")
                     /\ sock'[j] = "open" /\ j = i => mu = None \/ peer[i] = "slow"
  BY EndsFacts DEF Silence
<1>4. /\ w \in Frames => UNCHANGED <<run, readIn, pinger, pingIn>>
      /\ w = Hello => run = "hello" /\ BeginServe
      /\ w \in Pings => /\ UNCHANGED <<run, readIn>> /\ (pingIn' = pingIn \/ pingIn' = PingPeriod)
                        /\ \E p \in {"ended", "waiting"} : /\ pinger' = [pinger EXCEPT ![i] = p]
                                                           /\ Done(i) => p = "ended"
  BY FrameFacts, HelloFacts, PingFacts DEF Silence
<1>5. Up' <=> Up
  BY <1>1, <1>4 DEF Up, BeginServe, Writes
<1>6. Held'
  BY <1>1, <1>2, <1>3, <1>5, ClientAssumption, WritesDiffer DEF Silence, Held, TypeOK
<1>7. Up /\ sock'[cur] = "open" => sock[cur] = "open" /\ (~Mine \/ silent = 0)
  BY <1>1, <1>3 DEF Silence, Held, Mine, TypeOK
<1>8. Stragglers'
  <2>1. \A j \in Ids \ {cur} : pinger'[j] = "waiting" => pinger[j] = "waiting"
    <3>1. CASE w \in Frames
      BY <1>4, <3>1
    <3>2. CASE w = Hello
      BY <1>4, <3>2 DEF BeginServe, TypeOK
    <3>3. CASE w \in Pings
      <4>1. PICK p \in {"ended", "waiting"} :
              pinger' = [pinger EXCEPT ![i] = p] /\ (Done(i) => p = "ended")
        BY <3>3, PingFacts DEF Silence
      <4>2. \A j \in Ids \ {cur} : j = i => p = "ended"
        BY <4>1 DEF Done
      <4> QED
        BY <1>1, <4>1, <4>2 DEF TypeOK
    <3> QED
      BY <1>1, <3>1, <3>2, <3>3 DEF Writes
  <2>2. /\ run' \in {"serve", "returned"} => run' = run \/ pingIn' > 0
        /\ pingIn' = pingIn \/ pingIn' > 0
    BY <1>1, <1>4 DEF BeginServe, Writes
  <2>3. \A j \in Ids : mu' # <<"ping", j>>
    BY <1>1, WritesDiffer DEF Pings
  <2> QED
    BY <1>2, <2>1, <2>2, <2>3 DEF Silence, Stragglers
<1>9. Since'
  <2>1. CASE run' = run
    <3>1. readIn' = readIn
      BY <1>1, <1>4, <2>1 DEF BeginServe, Writes
    <3>2. silent' = silent /\ ~Mine'
      BY <1>1, <1>2 DEF Mine
    <3>3. Up => cur' = cur /\ cur \in Ids
      BY <1>2 DEF Silence, Held, TypeOK
    <3>4. silent \in Nat /\ readIn \in Nat /\ Since
      BY DEF Silence, TypeOK
    <3>5. CASE run \in {"hello", "returned"}
      <4>1. sock'[cur] = "open" => silent <= (IF run = "hello" THEN 0 ELSE PongWait) + WriteWait
        BY <1>7, <3>4, <3>5 DEF Since, Up
      <4> QED
        BY <1>2, <2>1, <3>2, <3>4, <3>5, <4>1 DEF Since
    <3>6. CASE run = "serve"
      BY <1>2, <1>7, <2>1, <3>1, <3>2, <3>4, <3>6 DEF Since, Up
    <3>7. CASE ~Up
      BY <2>1, <3>7 DEF Since, Up
    <3> QED
      BY <3>5, <3>6, <3>7 DEF Up
  <2>2. CASE run = "hello" /\ run' = "serve" /\ readIn' = PongWait
    BY <1>1, <1>2, <1>7, <2>2 DEF Silence, Since, Mine, Up, TypeOK
  <2> QED
    BY <1>1, <1>4, <2>1, <2>2 DEF BeginServe, Writes
<1> QED
  BY <1>6, <1>8, <1>9 DEF Silence

\* So does a write that blocks.
LEMMA BeginsBounded ==
  ASSUME TypeOK, TypeOK', Silence, NEW w, NEW i, Begins(w, i)
  PROVE  Silence'
<1> USE Numbered DEF Numbers, Bound
<1>1. /\ w \in Writes /\ w # None /\ i \in Ids /\ mu = None /\ mu' = w /\ writeIn' = WriteWait
      /\ UNCHANGED <<run, conn, cur, sock, peer, readIn, pingIn, silent>>
      /\ sock[i] = "open" /\ peer[i] \in {"slow", "gone"}
      /\ Target' = i
  BY TargetIs DEF Begins, Blocks, Silence, runVars, netVars, Usable
<1>2. Held'
  <2>1. w = Hello => run = "hello"
    BY WritesDiffer DEF Begins, Rightful, Hello
  <2>2. w \in Frames => Up
    BY WritesDiffer DEF Begins, Rightful, Pings, Up
  <2> QED
    BY <1>1, <2>1, <2>2 DEF Silence, Held, Up
<1>3. Stragglers'
  <2>1. \A j \in Ids : pinger'[j] = "waiting" => pinger[j] = "waiting"
    BY DEF Begins, Blocks, TypeOK
  <2>2. ASSUME NEW j \in Ids \ {cur}, mu' = <<"ping", j>>
        PROVE  silent = 0 /\ run \notin {"serve", "returned"}
    <3>1. w \in Pings /\ w[2] = j
      BY <1>1, <2>2 DEF Pings
    <3>2. w \notin Frames /\ w # Hello
      BY <3>1, WritesDiffer DEF Hello, Pings
    <3>3. w = <<"ping", i>> /\ pinger[i] = "waiting" /\ pingIn = 0
      BY <1>1, <3>2 DEF Begins, Rightful
    <3>4. i = j
      BY <3>1, <3>3
    <3> QED
      BY <3>3, <3>4 DEF Silence, Stragglers
  <2> QED
    BY <1>1, <2>1, <2>2 DEF Silence, Stragglers
<1>4. Since'
  BY <1>1 DEF Silence, Since, Mine, TypeOK
<1> QED
  BY <1>2, <1>3, <1>4 DEF Silence

\* A write is over or has only begun.
LEMMA TryEndsOrBegins ==
  ASSUME NEW w, NEW i, Rightful(w, i), TryWrite(w, i)
  PROVE  Ends(w, i) \/ Begins(w, i)
  BY DEF TryWrite, Ends, Begins, lockVars

LEMMA HolderIsRightful ==
  ASSUME TypeOK, Held, mu # None
  PROVE  Rightful(mu, Target)
<1>1. CASE mu \in Pings
  <2>1. PICK i \in Ids : mu = <<"ping", i>>
    BY <1>1 DEF Pings
  <2> QED
    BY <1>1, <2>1 DEF Target, Rightful
<1>2. CASE mu \in Frames \union {Hello}
  <2>1. mu \notin Pings
    BY <1>2, WritesDiffer DEF Hello, Pings
  <2> QED
    BY <1>2, <2>1 DEF Held, Up, Target, Rightful
<1> QED
  BY <1>1, <1>2 DEF TypeOK

\* Every step that writes is the end or the beginning of a write.
LEMMA WritingSteps ==
  ASSUME TypeOK, Held,
         SayHello \/ Unblock \/ TimeOut \/ (\E f \in Frames : Send(f) /\ conn # None)
           \/ (\E i \in Ids : Ping(i))
  PROVE  \E w, i : Ends(w, i) \/ Begins(w, i)
<1>1. CASE SayHello
  <2>1. Rightful(Hello, cur) /\ TryWrite(Hello, cur)
    BY <1>1 DEF SayHello, Rightful
  <2> QED
    BY <2>1, TryEndsOrBegins
<1>2. CASE Unblock \/ TimeOut
  <2>1. Ends(mu, Target)
    BY <1>2, HolderIsRightful DEF Unblock, TimeOut, Ends
  <2> QED
    BY <2>1
<1>3. ASSUME NEW f \in Frames, Send(f), conn # None PROVE \E w, i : Ends(w, i) \/ Begins(w, i)
  <2>1. Rightful(f, conn) /\ TryWrite(f, conn)
    BY <1>3 DEF Send, Rightful, Held, Up
  <2> QED
    BY <2>1, TryEndsOrBegins
<1>4. ASSUME NEW i \in Ids, Ping(i) PROVE \E w, j : Ends(w, j) \/ Begins(w, j)
  <2>1. Rightful(<<"ping", i>>, i) /\ TryWrite(<<"ping", i>>, i)
    BY <1>4 DEF Ping, Rightful
  <2> QED
    BY <2>1, TryEndsOrBegins
<1> QED
  BY <1>1, <1>2, <1>3, <1>4

\* What most steps leave alone is enough for the first two parts.
LEMMA Aside ==
  ASSUME UNCHANGED <<conn, cur, mu, writeIn, sock, peer, silent>>,
         run' = run \/ (~Up /\ ~Up') \/ (run = "serve" /\ run' = "returned")
  PROVE  Held => Held'
  BY DEF Held, Up, Target

LEMMA StragglersAside ==
  ASSUME UNCHANGED <<cur, mu, writeIn, silent, pingIn>>,
         run' \in {"serve", "returned"} => run \in {"serve", "returned"},
         \A j \in Ids : pinger'[j] = "waiting" => pinger[j] = "waiting"
  PROVE  Stragglers => Stragglers'
  BY DEF Stragglers

\* A tick adds to the silence what it takes from the deadline.
LEMMA TickAdds ==
  \A s, t, d, e, m \in Nat :
    t <= s + 1 /\ d > 0 /\ e = d - 1 /\ s + d <= m => t + e <= m /\ t <= m
  OBVIOUS

LEMMA SilenceKept == TypeOK /\ TypeOK' /\ Silence /\ [Next]_vars => Silence'
<1> SUFFICES ASSUME TypeOK, TypeOK', Silence, [Next]_vars PROVE Silence'
  OBVIOUS
<1> USE Numbered DEF Numbers, Bound, runVars, netVars, lockVars, timeVars
<1>1. CASE Dial
  <2>1. Held'
    BY <1>1, WritesDiffer DEF Dial, Silence, Held, Up, TypeOK
  <2>2. \A i \in Ids : mu' # <<"ping", i>>
    BY <1>1, WritesDiffer DEF Dial, Pings
  <2>3. Stragglers'
    BY <1>1, <2>2 DEF Dial, Stragglers
  <2>4. Since'
    BY <1>1 DEF Dial, Since, Mine
  <2> QED
    BY <2>1, <2>3, <2>4 DEF Silence
<1>2. CASE DialFails \/ Wake
  <2>1. Held'
    BY <1>2, Aside DEF DialFails, Wake, Silence, Up
  <2>2. Stragglers'
    BY <1>2, StragglersAside DEF DialFails, Wake, Silence
  <2> QED
    BY <1>2, <2>1, <2>2 DEF DialFails, Wake, Silence, Since
<1>3. CASE Unset
  <2>1. Held'
    BY <1>3, WritesDiffer, ClientAssumption DEF Unset, Silence, Held, Up, TypeOK
  <2>2. Stragglers'
    BY <1>3, StragglersAside DEF Unset, Silence
  <2> QED
    BY <1>3, <2>1, <2>2 DEF Unset, Silence, Since
<1>4. CASE \/ SayHello \/ Unblock \/ TimeOut \/ (\E f \in Frames : Send(f) /\ conn # None)
           \/ (\E i \in Ids : Ping(i))
  <2>1. PICK w, i : Ends(w, i) \/ Begins(w, i)
    BY <1>4, WritingSteps DEF Silence
  <2> QED
    BY <2>1, EndsBounded, BeginsBounded
<1>5. ASSUME NEW f \in Frames, (Send(f) /\ conn = None) \/ Call(f) PROVE Silence'
  <2>1. UNCHANGED <<runVars, netVars, lockVars, timeVars, faults>>
    BY <1>5 DEF Send, Call, TryWrite
  <2>2. Held' /\ Stragglers'
    BY <2>1, Aside, StragglersAside DEF Silence
  <2> QED
    BY <2>1, <2>2 DEF Silence, Since, Mine, Target
<1>6. ASSUME NEW i \in Ids, PingerEnds(i) PROVE Silence'
  <2>1. Held'
    BY <1>6, Aside DEF PingerEnds, Silence
  <2>2. Stragglers'
    BY <1>6, StragglersAside DEF PingerEnds, Silence, TypeOK
  <2> QED
    BY <1>6, <2>1, <2>2 DEF PingerEnds, Silence, Since, Mine, Target
<1>7. CASE ReadFails
  <2>1. Held'
    BY <1>7, Aside DEF ReadFails, ReadFailing, Silence
  <2>2. Stragglers'
    BY <1>7, StragglersAside DEF ReadFails, ReadFailing, Silence
  <2>3. Since'
    BY <1>7 DEF ReadFails, ReadFailing, Silence, Held, Since, Up, Mine, Target, TypeOK
  <2> QED
    BY <2>1, <2>2, <2>3 DEF Silence
<1>8. CASE Pong \/ Read
  <2>1. /\ UNCHANGED <<run, conn, cur, mu, writeIn, sock, peer, silent, pinger, pingIn>>
        /\ run = "serve" /\ peer[cur] # "gone" /\ readIn' = PongWait
    BY <1>8 DEF Pong, Read, Alive
  <2>2. Held'
    BY <2>1, Aside DEF Silence
  <2>3. Stragglers'
    BY <2>1, StragglersAside DEF Silence
  <2>4. silent = 0
    BY <2>1 DEF Silence, Held, Up
  <2> QED
    BY <2>1, <2>2, <2>3, <2>4 DEF Silence, Since
<1>9. CASE Tick
  <2>1. Held'
    BY <1>9 DEF Tick, Still, Down, Usable, ReadFailing, Done, Silence, Held, Up, Target, TypeOK
  <2>2. Stragglers'
    BY <1>9 DEF Tick, Still, Down, Usable, ReadFailing, Done, Silence, Stragglers, Held, Up, TypeOK
  <2>3. /\ UNCHANGED <<run, conn, cur, sock, peer, mu>> /\ Mine' = Mine
        /\ mu # None => writeIn \in 1 .. WriteWait /\ writeIn' = writeIn - 1 /\ sock[Target] = "open"
        /\ run = "serve" /\ sock[cur] = "open" => readIn > 0 /\ readIn' = readIn - 1
        /\ run \in {"hello", "returned"} => mu # None
        /\ silent' \in {silent, silent + 1}
    BY <1>9 DEF Tick, Still, Down, Silence, Held, ReadFailing, Mine, Target, TypeOK
  <2>4. ASSUME run \in {"hello", "returned"}, ~Mine
        PROVE  run = "hello" /\ silent' <= WriteWait
    <3>1. mu # None /\ Held /\ Up
      BY <2>3, <2>4 DEF Silence, Up
    <3>2. Rightful(mu, Target) /\ Target # cur
      BY <2>4, <3>1, HolderIsRightful DEF Mine
    <3>3. Target \in Ids /\ mu = <<"ping", Target>>
      BY <3>2 DEF Rightful
    <3>4. silent + writeIn <= WriteWait /\ run = "hello"
      BY <2>4, <3>2, <3>3 DEF Silence, Stragglers
    <3> QED
      BY <2>3, <3>1, <3>4 DEF TypeOK
  <2>5. ASSUME run = "serve" PROVE sock[cur] = "open"
    BY <1>9, <2>5 DEF Tick, Still, ReadFailing, Usable
  <2>6. silent \in Nat /\ silent' \in Nat /\ silent' <= silent + 1
    BY <2>3 DEF TypeOK
  <2>7. ASSUME run = "serve" PROVE Since'
    <3>1. readIn \in Nat /\ readIn' \in Nat /\ readIn > 0 /\ readIn' = readIn - 1
      BY <2>3, <2>5, <2>7 DEF TypeOK
    <3>2. silent + readIn <= WriteWait + PongWait
      BY <2>5, <2>7 DEF Silence, Since
    <3>3. silent' + readIn' <= WriteWait + PongWait /\ silent' <= WriteWait + PongWait
      <4>1. WriteWait + PongWait \in Nat
        OBVIOUS
      <4> QED
        BY <2>6, <3>1, <3>2, <4>1, TickAdds
    <3>4. WriteWait + PongWait <= Bound /\ WriteWait + PongWait \in Nat
      OBVIOUS
    <3>5. silent' <= Bound
      BY <2>6, <3>3, <3>4
    <3> QED
      BY <2>3, <2>7, <3>3, <3>5 DEF Since
  <2>8. ASSUME run \in {"hello", "returned"} PROVE Since'
    <3>1. CASE Mine
      <4>1. writeIn \in Nat /\ writeIn' \in Nat /\ writeIn > 0 /\ writeIn' = writeIn - 1 /\ sock[cur] = "open"
        BY <2>3, <3>1 DEF Mine
      <4>2. /\ run = "hello" => silent + writeIn <= 2 * WriteWait
            /\ run = "returned" => silent + writeIn <= Bound
        BY <3>1, <4>1 DEF Silence, Since
      <4>3. /\ run = "hello" => silent' + writeIn' <= 2 * WriteWait /\ silent' <= 2 * WriteWait
            /\ run = "returned" => silent' + writeIn' <= Bound /\ silent' <= Bound
        <5>1. 2 * WriteWait \in Nat /\ Bound \in Nat
          OBVIOUS
        <5> QED
          BY <2>6, <4>1, <4>2, <5>1, TickAdds
      <4> QED
        BY <2>3, <2>6, <2>8, <3>1, <4>3 DEF Since
    <3>2. CASE ~Mine
      <4>1. run = "hello" /\ silent' <= WriteWait /\ silent' <= 2 * WriteWait
        BY <2>4, <2>6, <2>8, <3>2
      <4> QED
        BY <2>3, <2>6, <3>2, <4>1 DEF Since
    <3> QED
      BY <3>1, <3>2
  <2>9. ASSUME ~Up PROVE Since'
    BY <2>3, <2>9 DEF Since, Up
  <2>10. Since'
    BY <2>7, <2>8, <2>9 DEF Up
  <2> QED
    BY <2>1, <2>2, <2>10 DEF Silence
<1>10. ASSUME NEW i \in Ids, Deliver(i) PROVE Silence'
  <2>1. UNCHANGED <<runVars, sock, peer, lockVars, timeVars>>
    BY <1>10 DEF Deliver
  <2>2. Held' /\ Stragglers'
    BY <2>1, Aside, StragglersAside DEF Silence
  <2> QED
    BY <2>1, <2>2 DEF Silence, Since, Mine, Target
<1>11. ASSUME NEW kind \in {"slow", "gone", "reset"}, PeerFails(kind) PROVE Silence'
  <2>1. Held'
    BY <1>11 DEF PeerFails, Silence, Held, Up, Target, TypeOK
  <2>2. Stragglers'
    BY <1>11, StragglersAside DEF PeerFails, Silence
  <2> QED
    BY <1>11, <2>1, <2>2 DEF PeerFails, Silence, Since, Mine, Target
<1>12. CASE UNCHANGED vars
  <2>1. Held' /\ Stragglers'
    BY <1>12, Aside, StragglersAside DEF vars, Silence
  <2> QED
    BY <1>12, <2>1 DEF vars, Silence, Since, Mine, Target
<1> QED
  BY <1>1, <1>2, <1>3, <1>4, <1>5, <1>6, <1>7, <1>8, <1>9, <1>10, <1>11, <1>12
  DEF Next, Goroutines

LEMMA SilenceInit == Init => TypeOK /\ Silence
<1> SUFFICES ASSUME Init PROVE TypeOK /\ Silence
  OBVIOUS
<1>1. TypeOK
  BY Numbered DEF Init, TypeOK, Numbers
<1>2. \A i \in Ids : mu # <<"ping", i>>
  BY WritesDiffer DEF Init, Pings
<1>3. mu # Hello /\ mu \notin Frames
  BY WritesDiffer, ClientAssumption DEF Init
<1> QED
  BY <1>1, <1>2, <1>3 DEF Init, Silence, Held, Stragglers, Since, Up

\* A peer that is gone without a word is given up after pongWait and what two blocked
\* writes add to it, whatever is being sent.
THEOREM GoneIsNoticed == Spec => []SilenceNoticed
<1>1. Init => TypeOK /\ Silence
  BY SilenceInit
<1>2. TypeOK /\ Silence /\ [Next]_vars => TypeOK' /\ Silence'
  BY TypeKept, SilenceKept
<1>3. TypeOK /\ Silence => SilenceNoticed
  BY Numbered DEF Numbers, Bound, Silence, Held, Since, Up, SilenceNoticed, TypeOK
<1> QED
  BY <1>1, <1>2, <1>3, PTL DEF Spec

----------------------------------------------------------------------------
(* A peer that answers is kept                                             *)

\* A blocked ping is the one that holds the mutex; a connection that greets has not
\* been pinged.
Pinging ==
  /\ \A i \in Ids : /\ i > cur => pinger[i] = "off"
                    /\ pinger[i] = "writing" <=> mu = <<"ping", i>>
  /\ run = "hello" => pinger[cur] = "off" /\ pongIn = None
  /\ Up => sock[cur] # "none"

LEMMA PingingKept ==
  TypeOK /\ TypeOK' /\ Silence /\ Pinging /\ [Next]_vars => Pinging'
<1> SUFFICES ASSUME TypeOK, TypeOK', Silence, Pinging, [Next]_vars PROVE Pinging'
  OBVIOUS
<1> USE DEF runVars, netVars, lockVars, timeVars
<1>0. \A i \in Ids : <<"ping", i>> \in Pings /\ <<"ping", i>> # None /\ <<"ping", i>> # Hello
  BY WritesDiffer DEF Pings, Hello
<1>1. CASE Dial
  <2>1. cur \in Int /\ cur' = cur + 1 /\ cur + 1 \in Ids
    BY <1>1 DEF Dial, TypeOK, Ids
  <2>2. \A i \in Ids : i \in Int
    BY DEF Ids
  <2> QED
    BY <1>1, <2>1, <2>2 DEF Dial, Pinging, TypeOK
<1>2. CASE DialFails \/ Wake \/ Unset
  BY <1>2 DEF DialFails, Wake, Unset, Pinging, Up
<1>3. ASSUME NEW w, NEW i, Ends(w, i) PROVE Pinging'
  <2>1. /\ w \in Writes /\ i \in Ids /\ mu' = None /\ mu \in {None, w} /\ UNCHANGED <<conn, cur>>
        /\ \A j \in Ids : sock[j] # "none" => sock'[j] # "none"
    BY <1>3, EndsFacts DEF Silence
  <2>2. CASE w \in Frames
    <3>1. \A j \in Ids : w # <<"ping", j>>
      BY <2>2, WritesDiffer DEF Pings
    <3>2. UNCHANGED <<run, pinger, pongIn>>
      BY <1>3, <2>2, FrameFacts DEF Silence
    <3> QED
      BY <1>0, <2>1, <3>1, <3>2 DEF Pinging, Up, Silence, Held, TypeOK
  <2>3. CASE w = Hello
    <3>1. run = "hello" /\ BeginServe
      BY <1>3, <2>3, HelloFacts DEF Silence
    <3> QED
      BY <1>0, <2>1, <2>3, <3>1 DEF Pinging, Up, Silence, Held, TypeOK, BeginServe, Ids
  <2>4. CASE w \in Pings
    <3>1. PICK p \in {"ended", "waiting"} : pinger' = [pinger EXCEPT ![i] = p]
      BY <1>3, <2>4, PingFacts DEF Silence
    <3>2. /\ w = <<"ping", i>> /\ (mu = w \/ pinger[i] = "waiting") /\ run' = run
          /\ i # cur => pongIn' = pongIn
      BY <1>3, <2>4, PingFacts DEF Silence
    <3>3. pinger[i] # "off"
      BY <2>1, <3>2 DEF Pinging
    <3> QED
      BY <1>0, <2>1, <3>1, <3>2, <3>3 DEF Pinging, Up, Silence, Held, TypeOK
  <2> QED
    BY <2>1, <2>2, <2>3, <2>4 DEF Writes
<1>4. ASSUME NEW w, NEW i, Begins(w, i) PROVE Pinging'
  <2>1. /\ w \in Writes /\ i \in Ids /\ mu = None /\ mu' = w
        /\ UNCHANGED <<run, conn, cur, sock, pongIn>>
        /\ pinger' = IF w \in Pings THEN [pinger EXCEPT ![i] = "writing"] ELSE pinger
    BY <1>4, TargetIs DEF Begins, Blocks, Silence, runVars, netVars
  <2>2. CASE w \in Pings
    <3>1. w = <<"ping", i>> /\ pinger[i] = "waiting"
      BY <1>0, <1>4, <2>1, <2>2, WritesDiffer, TargetIs DEF Begins, Rightful, Silence
    <3>2. \A j \in Ids : w = <<"ping", j>> <=> j = i
      BY <3>1
    <3> QED
      BY <1>0, <2>1, <2>2, <3>1, <3>2 DEF Pinging, Up, Silence, Held, TypeOK
  <2>3. CASE w \notin Pings
    <3>1. \A j \in Ids : w # <<"ping", j>>
      BY <2>3 DEF Pings
    <3> QED
      BY <1>0, <2>1, <2>3, <3>1 DEF Pinging, Up
  <2> QED
    BY <2>2, <2>3
<1>5. CASE \/ SayHello \/ Unblock \/ TimeOut \/ (\E f \in Frames : Send(f) /\ conn # None)
           \/ (\E i \in Ids : Ping(i))
  <2>1. PICK w, i : Ends(w, i) \/ Begins(w, i)
    BY <1>5, WritingSteps DEF Silence
  <2> QED
    BY <1>3, <1>4, <2>1
<1>6. ASSUME NEW f \in Frames, (Send(f) /\ conn = None) \/ Call(f) PROVE Pinging'
  <2>1. UNCHANGED <<runVars, netVars, lockVars, timeVars, faults>>
    BY <1>6 DEF Send, Call, TryWrite
  <2> QED
    BY <2>1 DEF Pinging, Up
<1>7. ASSUME NEW i \in Ids, PingerEnds(i) PROVE Pinging'
  BY <1>7 DEF PingerEnds, Pinging, Up, Done, TypeOK
<1>8. CASE ReadFails \/ Pong \/ Read
  BY <1>8 DEF ReadFails, ReadFailing, Pong, Read, Pinging, Up
<1>9. CASE Tick
  BY <1>9 DEF Tick, Down, Pinging, Up
<1>10. ASSUME NEW i \in Ids, Deliver(i) PROVE Pinging'
  BY <1>10 DEF Deliver, Pinging, Up
<1>11. ASSUME NEW kind \in {"slow", "gone", "reset"}, PeerFails(kind) PROVE Pinging'
  BY <1>11 DEF PeerFails, Pinging, Up, TypeOK
<1>12. CASE UNCHANGED vars
  BY <1>12 DEF vars, Pinging, Up
<1> QED
  BY <1>1, <1>2, <1>5, <1>6, <1>7, <1>8, <1>9, <1>10, <1>11, <1>12 DEF Next, Goroutines

\* The read deadline was set when the ping that comes next was at most a period away.
\* Since then time has passed for the ticker, while a ping that is due waited for the
\* mutex, while it was written, and while its pong was under way.
Waiting == readIn + late + PingPeriod >= PongWait + pingIn
Writing == readIn + late + PingPeriod + WriteWait >= PongWait + writeIn
Pinged  == readIn + late + PingPeriod + WriteWait + Rtt >= PongWait + pongIn

Served == run = "serve" /\ Alive(cur) /\ sock[cur] = "open"

Prompt ==
  Served =>
    /\ pinger[cur] \in {"waiting", "writing"} /\ (pinger[cur] = "writing" => pingIn = 0)
    /\ pongIn = None /\ pinger[cur] = "waiting" => Waiting
    /\ pongIn = None /\ pinger[cur] = "writing" => Writing
    /\ pongIn # None => Pinged

LEMMA PromptAside ==
  ASSUME UNCHANGED <<run, cur, sock, readIn, pingIn, pongIn, writeIn, late>>,
         pinger'[cur] = pinger[cur], Alive(cur)' => Alive(cur)
  PROVE  Prompt => Prompt'
  BY DEF Prompt, Served, Waiting, Writing, Pinged

LEMMA AnswerAdds ==
  \A n, p, t, m \in Nat : n >= m /\ p <= t => n + t >= m + p
  OBVIOUS

\* The deadline of the ping that holds the mutex.
LEMMA PingWrites ==
  ASSUME TypeOK, Silence, Pinging, Served, pinger[cur] = "writing"
  PROVE  mu # None /\ writeIn \in 0 .. WriteWait
<1>1. cur \in Ids
  BY DEF Served, Silence, Held, Up, TypeOK
<1>2. mu = <<"ping", cur>> /\ mu \in Pings
  BY <1>1 DEF Pinging, Pings
<1>3. mu # None
  BY <1>2, WritesDiffer
<1> QED
  BY <1>3 DEF Silence, Held

\* When its pong is awaited.
LEMMA PingIsPrompt ==
  ASSUME TypeOK, Silence, Pinging, Prompt, Served, pongIn = None, pingIn = 0
  PROVE  readIn + late + PingPeriod + WriteWait >= PongWait
<1> USE Numbered DEF Numbers
<1>1. CASE pinger[cur] = "waiting"
  BY <1>1 DEF Prompt, Waiting, TypeOK
<1>2. CASE pinger[cur] = "writing"
  BY <1>2, PingWrites DEF Prompt, Writing, TypeOK
<1> QED
  BY <1>1, <1>2 DEF Prompt

\* The end of a write.
LEMMA PromptEnds ==
  ASSUME TypeOK, TypeOK', Silence, Pinging, Prompt, NEW w, NEW i, Ends(w, i)
  PROVE  Prompt'
<1> SUFFICES ASSUME Served' PROVE Prompt'
  BY DEF Prompt
<1> USE Numbered DEF Numbers
<1>1. /\ w \in Writes /\ i \in Ids /\ mu' = None /\ mu \in {None, w} /\ cur' = cur /\ Alive(cur)
      /\ cur \in Ids /\ sock[cur] = "open" /\ late' = late
  <2>1. Up'
    BY DEF Up, Served
  <2>2. /\ w \in Writes /\ i \in Ids /\ mu' = None /\ mu \in {None, w} /\ cur' = cur
        /\ peer' = peer /\ late' = late /\ \A j \in Ids : sock'[j] = "open" => sock[j] = "open"
    BY EndsFacts DEF Silence
  <2>3. run \in {"hello", "serve"}
    BY <2>2, FrameFacts, HelloFacts, PingFacts DEF Silence, Writes, Served
  <2>4. cur \in Ids
    BY <2>3 DEF Silence, Held, Up, TypeOK
  <2> QED
    BY <2>2, <2>3, <2>4 DEF Alive, Served
<1>2. CASE w \in Frames
  <2>1. UNCHANGED <<run, readIn, pinger, pingIn, pongIn>>
    BY <1>2, FrameFacts DEF Silence
  <2>2. pinger[cur] # "writing"
    <3>1. w # <<"ping", cur>> /\ None # <<"ping", cur>>
      BY <1>1, <1>2, WritesDiffer DEF Pings
    <3> QED
      BY <1>1, <3>1 DEF Pinging
  <2> QED
    BY <1>1, <2>1, <2>2 DEF Prompt, Served, Waiting, Pinged
<1>3. CASE w = Hello
  <2>1. run = "hello" /\ BeginServe /\ pongIn' = pongIn
    BY <1>3, HelloFacts DEF Silence
  <2>2. pongIn' = None /\ pinger'[cur] = "waiting" /\ readIn' = PongWait /\ pingIn' = PingPeriod
    BY <1>1, <2>1 DEF Pinging, BeginServe, TypeOK
  <2> QED
    BY <1>1, <2>2 DEF Prompt, Waiting, TypeOK
<1>4. CASE w \in Pings
  <2>1. /\ w = <<"ping", i>> /\ (mu = w \/ (pinger[i] = "waiting" /\ pingIn = 0))
        /\ UNCHANGED <<run, readIn>>
        /\ \E p \in {"ended", "waiting"} :
             /\ pinger' = [pinger EXCEPT ![i] = p]
             /\ sock'[i] = "open" /\ ~Done(i) => p = "waiting"
        /\ i = cur /\ sock'[i] = "open" /\ Alive(i)
             => pingIn' = PingPeriod /\ IF pongIn = None THEN pongIn' \in 0 .. Rtt ELSE pongIn' = pongIn
    BY <1>4, PingFacts DEF Silence
  <2>2. i = cur /\ Served
    BY <1>1, <2>1 DEF Silence, Stragglers, Served
  <2>3. /\ pinger'[cur] = "waiting" /\ pingIn' = PingPeriod
        /\ IF pongIn = None THEN pongIn' \in 0 .. Rtt ELSE pongIn' = pongIn
    BY <1>1, <2>1, <2>2 DEF Done, TypeOK, Served
  <2>4. pingIn = 0
    BY <1>1, <2>1, <2>2 DEF Pinging, Prompt
  <2>5. CASE pongIn = None
    <3>1. readIn + late + PingPeriod + WriteWait >= PongWait
      BY <2>2, <2>4, <2>5, PingIsPrompt
    <3>2. pongIn' \in 0 .. Rtt /\ pongIn' # None
      BY <2>3, <2>5, ClientAssumption
    <3>3. readIn' = readIn /\ late' = late /\ readIn \in Nat /\ late \in Nat
      BY <1>1, <2>1 DEF TypeOK
    <3>4. Pinged'
      <4>1. readIn + late + PingPeriod + WriteWait \in Nat /\ pongIn' \in Nat /\ pongIn' <= Rtt
        BY <3>2, <3>3
      <4> QED
        BY <3>1, <3>3, <4>1, AnswerAdds DEF Pinged
    <3> QED
      BY <1>1, <2>3, <3>2, <3>4 DEF Prompt
  <2>6. CASE pongIn # None
    BY <1>1, <2>1, <2>2, <2>3, <2>6 DEF Prompt, Pinged
  <2> QED
    BY <2>5, <2>6
<1> QED
  BY <1>1, <1>2, <1>3, <1>4 DEF Writes

\* A write that blocks.
LEMMA PromptBegins ==
  ASSUME TypeOK, TypeOK', Silence, Pinging, Prompt, NEW w, NEW i, Begins(w, i)
  PROVE  Prompt'
<1> SUFFICES ASSUME Served' PROVE Prompt'
  BY DEF Prompt
<1> USE Numbered DEF Numbers
<1>1. /\ w \in Writes /\ w # None /\ i \in Ids /\ mu = None /\ mu' = w /\ writeIn' = WriteWait
      /\ UNCHANGED <<run, cur, sock, peer, readIn, pingIn, pongIn, late>>
      /\ pinger' = IF w \in Pings THEN [pinger EXCEPT ![i] = "writing"] ELSE pinger
  BY TargetIs DEF Begins, Blocks, Silence, runVars, netVars
<1>2. Served /\ cur \in Ids
  BY <1>1 DEF Alive, Silence, Held, Up, TypeOK, Served
<1>3. pinger[cur] # "writing"
  BY <1>1, <1>2, PingWrites
<1>4. CASE w \notin Pings
  BY <1>1, <1>2, <1>3, <1>4 DEF Prompt, Waiting, Pinged
<1>5. CASE w \in Pings
  <2>1. w \notin Frames /\ w # Hello
    BY <1>5, WritesDiffer DEF Pings, Hello
  <2>2. w = <<"ping", i>> /\ pinger[i] = "waiting" /\ pingIn = 0
    BY <1>1, <2>1 DEF Begins, Rightful
  <2>3. i = cur
    BY <1>1, <1>2, <2>2 DEF Silence, Stragglers, Served
  <2>4. pinger'[cur] = "writing"
    BY <1>1, <1>2, <1>5, <2>3 DEF TypeOK
  <2>5. pongIn = None => Writing'
    BY <1>1, <1>2, <2>2, <2>3 DEF Prompt, Waiting, Writing, TypeOK
  <2>6. pongIn # None => Pinged'
    BY <1>1, <1>2 DEF Prompt, Pinged
  <2> QED
    BY <1>1, <2>2, <2>4, <2>5, <2>6 DEF Prompt
<1> QED
  BY <1>4, <1>5

LEMMA PromptKept ==
  TypeOK /\ TypeOK' /\ Silence /\ Pinging /\ Prompt /\ [Next]_vars => Prompt'
<1> SUFFICES ASSUME TypeOK, TypeOK', Silence, Pinging, Prompt, [Next]_vars PROVE Prompt'
  OBVIOUS
<1> USE Numbered DEF Numbers, runVars, netVars, lockVars, timeVars
<1>1. CASE Dial \/ DialFails \/ Wake \/ Unset \/ ReadFails
  BY <1>1 DEF Dial, DialFails, Wake, Unset, ReadFails, Prompt, Served
<1>2. CASE \/ SayHello \/ Unblock \/ TimeOut \/ (\E f \in Frames : Send(f) /\ conn # None)
           \/ (\E i \in Ids : Ping(i))
  <2>1. PICK w, i : Ends(w, i) \/ Begins(w, i)
    BY <1>2, WritingSteps DEF Silence
  <2> QED
    BY <2>1, PromptEnds, PromptBegins
<1>3. ASSUME NEW f \in Frames, (Send(f) /\ conn = None) \/ Call(f) PROVE Prompt'
  <2>1. UNCHANGED <<runVars, netVars, lockVars, timeVars, faults>>
    BY <1>3 DEF Send, Call, TryWrite
  <2> QED
    BY <2>1, PromptAside DEF Alive
<1>4. ASSUME NEW i \in Ids, PingerEnds(i) PROVE Prompt'
  <2>1. CASE i = cur
    BY <1>4, <2>1 DEF PingerEnds, Done, Prompt, Served
  <2>2. CASE i # cur
    <3>1. pinger'[cur] = pinger[cur]
      BY <1>4, <2>2 DEF PingerEnds
    <3> QED
      BY <1>4, <3>1, PromptAside DEF PingerEnds, Alive
  <2> QED
    BY <2>1, <2>2
<1>5. CASE Pong \/ Read
  <2>1. /\ UNCHANGED <<run, cur, sock, peer, writeIn, pinger, pingIn>>
        /\ Served /\ readIn' = PongWait /\ late' = 0
        /\ pongIn' \in {pongIn, None}
    BY <1>5 DEF Pong, Read, Served
  <2>2. Waiting'
    BY <2>1 DEF Waiting, TypeOK
  <2>3. pinger[cur] = "writing" => Writing'
    BY <2>1, PingWrites DEF Writing
  <2>4. ASSUME pongIn' # None PROVE Pinged'
    <3>1. pongIn' \in Nat /\ pongIn' <= Rtt
      BY <2>4 DEF TypeOK
    <3>2. /\ PongWait + 0 + PingPeriod + WriteWait \in Nat
          /\ PongWait + 0 + PingPeriod + WriteWait >= PongWait
      OBVIOUS
    <3> QED
      BY <2>1, <3>1, <3>2, AnswerAdds DEF Pinged
  <2> QED
    BY <2>1, <2>2, <2>3, <2>4 DEF Prompt
<1>6. CASE Tick
  <2> SUFFICES ASSUME Served' PROVE Prompt'
    BY DEF Prompt
  <2>1. UNCHANGED <<run, cur, sock, peer, mu, pinger>> /\ Served
    BY <1>6 DEF Tick, Alive, Served
  <2>2. readIn \in Nat /\ readIn # 0 /\ pongIn # 0 /\ pingIn \in Nat /\ late \in 0 .. PongWait
    BY <1>6, <2>1 DEF Tick, Still, ReadFailing, TypeOK, Served
  <2>3. /\ readIn' = readIn - 1 /\ pingIn' = (IF pingIn = 0 THEN 0 ELSE pingIn - 1)
        /\ pongIn' = Down(pongIn) /\ writeIn' = Down(writeIn)
        /\ late' = IF pinger[cur] = "waiting" /\ pingIn = 0 /\ late < PongWait THEN late + 1 ELSE late
    BY <1>6, <2>1, <2>2, ClientAssumption DEF Tick, Down, Served
  <2>4. late' \in Nat /\ late' >= late
    BY <2>2, <2>3
  <2>5. CASE pongIn = None /\ pinger[cur] = "waiting"
    <3>1. Waiting
      BY <2>1, <2>5 DEF Prompt
    <3>2. pingIn <= PingPeriod
      BY DEF TypeOK
    <3>3. Waiting'
      <4>1. CASE pingIn # 0
        BY <2>2, <2>3, <2>4, <3>1, <4>1 DEF Waiting
      <4>2. CASE pingIn = 0 /\ late < PongWait
        BY <2>2, <2>3, <2>5, <3>1, <4>2 DEF Waiting
      <4>3. CASE pingIn = 0 /\ late = PongWait
        BY <2>2, <2>3, <4>3 DEF Waiting
      <4> QED
        BY <2>2, <4>1, <4>2, <4>3
    <3>4. pongIn' = None
      BY <2>3, <2>5 DEF Down
    <3> QED
      BY <2>1, <2>5, <3>3, <3>4 DEF Prompt
  <2>6. CASE pongIn = None /\ pinger[cur] = "writing"
    <3>1. writeIn \in Nat /\ writeIn # 0 /\ writeIn' = writeIn - 1
      BY <1>6, <2>1, <2>3, <2>6, PingWrites, ClientAssumption DEF Tick, Still, Down
    <3>2. Writing'
      BY <2>1, <2>2, <2>3, <2>4, <2>6, <3>1 DEF Prompt, Writing
    <3>3. pongIn' = None /\ pingIn' = 0
      BY <2>1, <2>3, <2>6 DEF Down, Prompt
    <3> QED
      BY <2>1, <2>6, <3>2, <3>3 DEF Prompt
  <2>7. CASE pongIn # None
    <3>1. pongIn \in Nat /\ pongIn' = pongIn - 1 /\ pongIn' \in Nat
      BY <2>2, <2>3, <2>7, ClientAssumption DEF Down, TypeOK
    <3>2. Pinged'
      BY <2>1, <2>2, <2>3, <2>4, <2>7, <3>1 DEF Prompt, Pinged
    <3>3. pongIn' # None
      BY <3>1, ClientAssumption
    <3> QED
      BY <2>1, <2>3, <3>2, <3>3 DEF Prompt
  <2> QED
    BY <2>1, <2>5, <2>6, <2>7 DEF Prompt
<1>7. ASSUME NEW i \in Ids, Deliver(i) PROVE Prompt'
  BY <1>7, PromptAside DEF Deliver, Alive
<1>8. ASSUME NEW kind \in {"slow", "gone", "reset"}, PeerFails(kind) PROVE Prompt'
  <2>1. CASE kind = "slow"
    BY <1>8, <2>1, PromptAside DEF PeerFails, Alive
  <2>2. CASE kind # "slow"
    <3>1. cur \in Ids
      BY <1>8 DEF PeerFails, TypeOK
    <3>2. ~Alive(cur)'
      BY <1>8, <2>2, <3>1 DEF PeerFails, Alive, TypeOK
    <3> QED
      BY <1>8, <3>2 DEF PeerFails, Prompt, Served
  <2> QED
    BY <2>1, <2>2
<1>9. CASE UNCHANGED vars
  BY <1>9, PromptAside DEF vars, Alive
<1> QED
  BY <1>1, <1>2, <1>3, <1>4, <1>5, <1>6, <1>7, <1>8, <1>9 DEF Next, Goroutines

\* Only the read loop ends serve.
LEMMA ServeEnds ==
  ASSUME TypeOK, Silence, [Next]_vars, run = "serve", run' = "returned"
  PROVE  ReadFails
<1>1. ASSUME NEW w, NEW i, Ends(w, i) \/ Begins(w, i) PROVE run' # "returned"
  <2>1. CASE Begins(w, i)
    BY <2>1 DEF Begins, Blocks, runVars
  <2>2. CASE Ends(w, i)
    BY <2>2, EndsFacts, FrameFacts, HelloFacts, PingFacts DEF Silence, Writes, BeginServe
  <2> QED
    BY <1>1, <2>1, <2>2
<1>2. ~ (\/ SayHello \/ Unblock \/ TimeOut \/ (\E f \in Frames : Send(f) /\ conn # None)
         \/ (\E i \in Ids : Ping(i)))
  BY <1>1, WritingSteps DEF Silence
<1>3. \A f \in Frames : ~Send(f)
  BY <1>2 DEF Send, runVars
<1> QED
  BY <1>2, <1>3 DEF Next, Goroutines, Dial, DialFails, Wake, Unset, Pong, Read, Tick, Call, Deliver,
     PeerFails, PingerEnds, vars, runVars

\* A peer that answers is not given up but for a frame that cannot be read, for a write
\* that has failed on a slow one, or when its pings have waited for the mutex for so
\* long that period, write and answer no longer fit into pongWait: whatever the
\* deadlines, however many frames are sent.
THEOREM LivePeerIsKept == Spec => LivePeerKept
<1> DEFINE All == TypeOK /\ Silence /\ Pinging /\ Prompt
<1>1. Init => All
  <2> SUFFICES ASSUME Init PROVE All
    OBVIOUS
  <2>1. TypeOK /\ Silence
    BY SilenceInit
  <2>2. Pinging
    BY WritesDiffer DEF Init, Pinging, Up, Pings
  <2> QED
    BY <2>1, <2>2 DEF Init, Prompt, Served
<1>2. All /\ [Next]_vars => All'
  BY TypeKept, SilenceKept, PingingKept, PromptKept
<1>3. All /\ [Next]_vars =>
        [run = "serve" /\ run' = "returned" /\ Alive(cur) =>
           \/ faults' # faults
           \/ peer[cur] = "slow" /\ sock[cur] = "closed"
           \/ Delayed]_vars
  <2> SUFFICES ASSUME All, [Next]_vars, run = "serve", run' = "returned", Alive(cur),
                      faults' = faults, ~Delayed
               PROVE  peer[cur] = "slow" /\ sock[cur] = "closed"
    OBVIOUS
  <2> USE Numbered DEF Numbers
  <2>1. ReadFailing
    <3>1. ReadFails
      BY ServeEnds
    <3>2. faults \in Nat => faults + 1 # faults
      OBVIOUS
    <3> QED
      BY <3>1, <3>2 DEF ReadFails, Fault, TypeOK
  <2>2. ASSUME sock[cur] = "open" PROVE FALSE
    <3>1. Served /\ readIn = 0
      BY <2>1, <2>2 DEF Served, ReadFailing, Usable, Alive
    <3>2. CASE pongIn = None /\ pinger[cur] = "waiting"
      BY <3>1, <3>2 DEF Prompt, Waiting, Delayed, TypeOK
    <3>3. CASE pongIn = None /\ pinger[cur] = "writing"
      BY <3>1, <3>3, PingWrites DEF Prompt, Writing, Delayed, TypeOK
    <3>4. CASE pongIn # None
      BY <3>1, <3>4 DEF Prompt, Pinged, Delayed, TypeOK
    <3> QED
      BY <3>1, <3>2, <3>3, <3>4 DEF Prompt
  <2> QED
    BY <2>2 DEF Silence, Held, Pinging, Up, Alive, TypeOK
<1> QED
  BY <1>1, <1>2, <1>3, PTL DEF Spec, LivePeerKept
=============================================================================
