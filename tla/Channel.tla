------------------------------- MODULE Channel -------------------------------
(***************************************************************************)
(* What the callers of the WebSocket client rely on (transport in          *)
(* src/main.go:59-96): Send either takes a frame, and then the backend may  *)
(* or may not get it, or refuses it, and then the backend never does, so    *)
(* that it can go over HTTP without going twice.  No call hangs.            *)
(***************************************************************************)
CONSTANT Frames

VARIABLES up,     \* whether the client is connected
          status  \* per frame: unsent, sending, taken, refused or received

vars == <<up, status>>

Init == up = FALSE /\ status = [f \in Frames |-> "unsent"]

Moves(f, from, to) ==
  status[f] = from /\ status' = [status EXCEPT ![f] = to] /\ UNCHANGED up

Change == up' = ~up /\ UNCHANGED status

Call(f)    == Moves(f, "unsent", "sending")
Take(f)    == up /\ Moves(f, "sending", "taken")
Refuse(f)  == Moves(f, "sending", "refused")
Receive(f) == Moves(f, "taken", "received")

Next ==
  \/ Change
  \/ \E f \in Frames : Call(f) \/ Take(f) \/ Refuse(f) \/ Receive(f)

Spec == Init /\ [][Next]_vars

\* Send returns.
FairSpec == Spec /\ \A f \in Frames : WF_vars(Take(f) \/ Refuse(f))
=============================================================================
