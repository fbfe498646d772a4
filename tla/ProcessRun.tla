----------------------------- MODULE ProcessRun -----------------------------
(***************************************************************************)
(* A command the agent runs: a step of a deploy or a log session            *)
(* (runStreaming, src/internal/executor/deploy.go:263-310, streamlogs.go,   *)
(* streamdblogs.go), a shell command (shell.go), the logs of a discovered    *)
(* service (streamdiscoverylogs.go).                                       *)
(*                                                                         *)
(* The process writes lines to two pipes, and may leave behind a child that *)
(* has inherited them.  The agent reads both until nobody can write to them *)
(* any more, waits for the process and reports.  At the deadline os/exec    *)
(* kills the process, and only the process.                                *)
(***************************************************************************)
EXTENDS Integers, Sequences

CONSTANTS Modes,     \* how the process is run, see AllModes
          PipeSize,  \* the lines a pipe holds
          MaxLines   \* bound on the lines written to each pipe

\* runStreaming in a step of a deploy and in a log session, ExecuteShell,
\* StreamDiscoveryLogs.
AllModes == {"step", "session", "shell", "tail"}

ASSUME ProcessAssumption ==
  Modes \subseteq AllModes /\ PipeSize \in Nat \ {0} /\ MaxLines \in Nat

Streams == {"stdout", "stderr"}

\* Lines by their length: up to 64 KB, up to 1 MB, longer.
Lines == {"line", "long", "huge"}

VARIABLES
  mode,     \* how the process is run
  proc,     \* the process
  child,    \* the child it has left behind
  pipe,     \* per stream, the lines in the pipe
  written,  \* per stream, how many lines have been written
  shipped,  \* per stream, how many have been read and handed on
  reader,   \* per stream, the goroutine that reads the pipe
  main,     \* the goroutine of the command
  code,     \* what it reports
  deadline  \* of the command

procVars == <<proc, child, written>>
vars == <<mode, procVars, pipe, shipped, reader, main, code, deadline>>

Ended == {"exited", "failed", "killed"}
Codes == {"none", "ok", "error", "timeout"}

TypeOK ==
  /\ mode \in Modes
  /\ proc \in Ended \union {"none", "running"}
  /\ child \in {"none", "running", "ended"}
  /\ pipe \in [Streams -> Seq(Lines)] /\ \A s \in Streams : Len(pipe[s]) <= PipeSize
  /\ written \in [Streams -> 0 .. MaxLines] /\ shipped \in [Streams -> 0 .. MaxLines]
  /\ reader \in [Streams -> {"reading", "eof", "gaveup", "closed"}]
  /\ main \in {"start", "draining", "waiting", "returned"}
  /\ code \in Codes /\ deadline \in {"ahead", "past"}

Init ==
  /\ mode \in Modes
  /\ proc = "none" /\ child = "none"
  /\ pipe = [s \in Streams |-> <<>>]
  /\ written = [s \in Streams |-> 0] /\ shipped = [s \in Streams |-> 0]
  /\ reader = [s \in Streams |-> "reading"]
  /\ main = "start" /\ code = "none" /\ deadline = "ahead"

----------------------------------------------------------------------------
(* The process, its child, the deadline                                    *)

Writable == proc = "running" \/ child = "running"

\* A line is written; without a reader's end the writer gets a signal instead.
Write(s, line) ==
  /\ Writable /\ main \notin {"start", "returned"}
  /\ Len(pipe[s]) < PipeSize /\ written[s] < MaxLines
  /\ pipe' = [pipe EXCEPT ![s] = Append(@, line)]
  /\ written' = [written EXCEPT ![s] = @ + 1]
  /\ UNCHANGED <<mode, proc, child, shipped, reader, main, code, deadline>>

\* What `nohup x &` or a build that starts a daemon does.
LeaveChild ==
  /\ proc = "running" /\ child = "none" /\ child' = "running"
  /\ UNCHANGED <<mode, proc, written, pipe, shipped, reader, main, code, deadline>>

ChildEnds ==
  /\ child = "running" /\ child' = "ended"
  /\ UNCHANGED <<mode, proc, written, pipe, shipped, reader, main, code, deadline>>

Exit ==
  /\ proc = "running" /\ proc' \in {"exited", "failed"}
  /\ UNCHANGED <<mode, child, written, pipe, shipped, reader, main, code, deadline>>

Expire ==
  /\ deadline = "ahead" /\ main # "returned" /\ deadline' = "past"
  /\ UNCHANGED <<mode, procVars, pipe, shipped, reader, main, code>>

\* Faulty variant: a command without the context.
KillNobody == FALSE /\ UNCHANGED vars

\* exec.CommandContext.
Kill ==
  /\ deadline = "past" /\ proc = "running" /\ proc' = "killed"
  /\ UNCHANGED <<mode, child, written, pipe, shipped, reader, main, code, deadline>>

\* The timer of a session of discovered logs, for its duration is shorter.
StopTail ==
  /\ mode = "tail" /\ proc = "running" /\ proc' = "killed"
  /\ UNCHANGED <<mode, child, written, pipe, shipped, reader, main, code, deadline>>

----------------------------------------------------------------------------
(* Reading                                                                 *)

\* What ends a Scanner: a line above 1 MB, or above 64 KB where the size was left
\* as it is.  A shell command's output goes to a buffer that takes everything.
TooLong(line) ==
  \/ line = "huge" /\ mode # "shell"
  \/ line = "long" /\ mode = "tail"

\* Faulty variant: one stream after the other.
ReadInTurn(s) ==
  /\ s = "stderr" => reader["stdout"] # "reading"
  /\ reader[s] = "reading" /\ main # "start" /\ pipe[s] # <<>>
  /\ IF TooLong(Head(pipe[s]))
     THEN reader' = [reader EXCEPT ![s] = "gaveup"] /\ UNCHANGED shipped
     ELSE shipped' = [shipped EXCEPT ![s] = @ + 1] /\ UNCHANGED reader
  /\ pipe' = [pipe EXCEPT ![s] = Tail(@)]
  /\ UNCHANGED <<mode, procVars, main, code, deadline>>

\* scanInto: the next line.
Read(s) ==
  /\ reader[s] = "reading" /\ main # "start" /\ pipe[s] # <<>>
  /\ IF TooLong(Head(pipe[s]))
     THEN reader' = [reader EXCEPT ![s] = "gaveup"] /\ UNCHANGED shipped
     ELSE shipped' = [shipped EXCEPT ![s] = @ + 1] /\ UNCHANGED reader
  /\ pipe' = [pipe EXCEPT ![s] = Tail(@)]
  /\ UNCHANGED <<mode, procVars, main, code, deadline>>

\* The last writer is gone.
ReadEnds(s) ==
  /\ reader[s] = "reading" /\ main # "start" /\ pipe[s] = <<>> /\ ~Writable
  /\ reader' = [reader EXCEPT ![s] = "eof"]
  /\ UNCHANGED <<mode, procVars, pipe, shipped, main, code, deadline>>

----------------------------------------------------------------------------
(* The command                                                             *)

\* A session that its deadline has ended is a success; how the tail of a
\* discovered log ended is not looked at.
Outcome ==
  CASE mode = "tail" -> "ok"
    [] mode # "tail" /\ deadline = "past" -> IF mode = "session" THEN "ok" ELSE "timeout"
    [] OTHER -> IF proc = "exited" THEN "ok" ELSE "error"

\* cmd.Start refuses a context that is done.
Start ==
  /\ main = "start" /\ deadline = "ahead"
  /\ main' = "draining" /\ proc' = "running"
  /\ UNCHANGED <<mode, child, written, pipe, shipped, reader, code, deadline>>

\* The payload names nothing to run, there is no such program, or the deadline has
\* passed: a session takes that for its end, a shell command for its timeout.
StartFails ==
  /\ main = "start" /\ main' = "returned"
  /\ \/ code' = "error"
     \/ deadline = "past" /\ mode \in {"session", "shell"} /\ code' = Outcome
  /\ UNCHANGED <<mode, procVars, pipe, shipped, reader, deadline>>

\* Faulty variant: cmd.Wait does not wait for the readers.
DrainNotAwaited ==
  /\ main = "draining" /\ main' = "waiting"
  /\ UNCHANGED <<mode, procVars, pipe, shipped, reader, code, deadline>>

\* wg.Wait, "which must happen before cmd.Wait() per os/exec semantics"; in a
\* shell command cmd.Run waits for its own readers.
Drained ==
  /\ main = "draining" /\ \A s \in Streams : reader[s] # "reading"
  /\ main' = "waiting"
  /\ UNCHANGED <<mode, procVars, pipe, shipped, reader, code, deadline>>

\* cmd.Wait: the process has ended; the agent's ends of the pipes are closed.
Wait ==
  /\ main = "waiting" /\ proc \in Ended
  /\ main' = "returned" /\ code' = Outcome
  /\ reader' = [s \in Streams |-> IF reader[s] = "reading" THEN "closed" ELSE reader[s]]
  /\ UNCHANGED <<mode, procVars, pipe, shipped, deadline>>

Environment ==
  \/ \E s \in Streams, line \in Lines : Write(s, line)
  \/ LeaveChild \/ ChildEnds \/ Exit \/ Expire \/ StopTail

Agent ==
  \/ \E s \in Streams : Read(s) \/ ReadEnds(s)
  \/ Kill \/ Start \/ StartFails \/ Drained \/ Wait

Returned == main = "returned" /\ child # "running" /\ UNCHANGED vars

Next == Environment \/ Agent \/ Returned

Spec == Init /\ [][Next]_vars

\* The agent's goroutines run; nothing makes a process or its child end.
Fairness ==
  /\ \A s \in Streams : WF_vars(Read(s)) /\ WF_vars(ReadEnds(s))
  /\ WF_vars(Kill) /\ WF_vars(Drained) /\ WF_vars(Wait)

FairSpec == Spec /\ Fairness

----------------------------------------------------------------------------
(* Properties                                                              *)

\* However a command that was started ended, by itself, killed or timed out: it does
\* not return before every line of both pipes has been handed on, up to the line that
\* was too long (wg before cmd.Wait, deploy.go:278-286; streamdiscoverylogs.go:116-149).
OutputComplete ==
  main = "returned" /\ proc # "none" =>
    \A s \in Streams : reader[s] = "gaveup" \/ shipped[s] = written[s]

\* "Read both pipes concurrently" (deploy.go:278): a process that is stuck on a
\* full pipe goes on, unless that pipe's reader has given up on a line.
BothDrained ==
  \A s \in Streams :
    main = "draining" /\ Len(pipe[s]) = PipeSize
      ~> Len(pipe[s]) < PipeSize \/ reader[s] = "gaveup"

\* After the deadline a command returns, unless a child keeps its pipes open.
EndsByDeadline ==
  deadline = "past" /\ main # "start" ~> main = "returned" \/ child = "running"

\* "runs a shell command with a hard timeout.  If the command exceeds the timeout,
\* it is killed and a timeout error is returned" (shell.go:13-14).
HardTimeout == deadline = "past" /\ main # "start" ~> main = "returned"
=============================================================================
