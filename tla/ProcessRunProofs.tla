-------------------------- MODULE ProcessRunProofs --------------------------
(***************************************************************************)
(* Proofs about ProcessRun, for pipes of any size and any number of lines:  *)
(* its types, and that all output is handed on.                              *)
(***************************************************************************)
EXTENDS ProcessRun, TLAPS

\* Lines that have been written are in the pipe or handed on, but those that a
\* reader has given up on; a reader that saw the end left nothing and nobody writes;
\* who waits for the process has no reader left; and before all that nothing ran.
LinesInv ==
  \A s \in Streams :
    /\ shipped[s] + Len(pipe[s]) <= written[s]
    /\ reader[s] # "gaveup" => shipped[s] + Len(pipe[s]) = written[s]

DrainInv ==
  /\ \A s \in Streams : reader[s] = "eof" => pipe[s] = <<>> /\ ~Writable
  /\ main = "waiting" \/ (main = "returned" /\ proc # "none") =>
       \A s \in Streams : reader[s] \in {"eof", "gaveup"}
  /\ main = "start" => /\ proc = "none" /\ child = "none"
                       /\ \A s \in Streams : reader[s] = "reading"
  /\ \A s \in Streams : reader[s] # "closed"

Inv == TypeOK /\ LinesInv /\ DrainInv

\* What a line added to a pipe or taken from it does to its length.
LEMMA PipeLengths ==
  ASSUME NEW q \in Seq(Lines)
  PROVE  /\ Len(q) \in Nat
         /\ \A line \in Lines : Append(q, line) \in Seq(Lines) /\ Len(Append(q, line)) = Len(q) + 1
         /\ q # <<>> => Tail(q) \in Seq(Lines) /\ Len(Tail(q)) = Len(q) - 1
                        /\ Head(q) \in Lines /\ Len(q) > 0
         /\ Len(q) = 0 <=> q = <<>>
  OBVIOUS

LEMMA InvInductive == Inv /\ [Next]_vars => Inv'
<1> SUFFICES ASSUME Inv, [Next]_vars PROVE Inv'
  OBVIOUS
<1> USE ProcessAssumption DEF Inv, AllModes
<1>t. /\ \A s \in Streams : /\ pipe[s] \in Seq(Lines) /\ Len(pipe[s]) \in Nat
                            /\ Len(pipe[s]) <= PipeSize
                            /\ written[s] \in Nat /\ written[s] <= MaxLines
                            /\ shipped[s] \in Nat /\ shipped[s] <= MaxLines
      /\ PipeSize \in Nat /\ MaxLines \in Nat
  BY DEF TypeOK
<1>1. ASSUME NEW s \in Streams, NEW line \in Lines, Write(s, line) PROVE Inv'
  <2>1. /\ pipe'[s] \in Seq(Lines) /\ Len(pipe'[s]) = Len(pipe[s]) + 1
        /\ Len(pipe'[s]) <= PipeSize
        /\ written'[s] = written[s] + 1 /\ written'[s] \in 0 .. MaxLines
        /\ pipe' = [pipe EXCEPT ![s] = pipe'[s]]
        /\ written' = [written EXCEPT ![s] = written'[s]]
    BY <1>1, <1>t, PipeLengths DEF Write, TypeOK
  <2>2. /\ Writable /\ main \notin {"start", "returned"}
        /\ UNCHANGED <<mode, proc, child, shipped, reader, main, code, deadline>>
    BY <1>1 DEF Write
  <2>3. TypeOK'
    BY <2>1, <2>2 DEF TypeOK
  <2>4. LinesInv'
    <3> SUFFICES ASSUME NEW r \in Streams
                 PROVE  /\ shipped'[r] + Len(pipe'[r]) <= written'[r]
                        /\ reader'[r] # "gaveup" => shipped'[r] + Len(pipe'[r]) = written'[r]
      BY DEF LinesInv
    <3>0. /\ shipped[r] + Len(pipe[r]) <= written[r]
          /\ reader[r] # "gaveup" => shipped[r] + Len(pipe[r]) = written[r]
          /\ shipped[r] \in Nat /\ Len(pipe[r]) \in Nat /\ written[r] \in Nat
          /\ shipped' = shipped /\ reader' = reader
      BY <1>t, <2>2 DEF LinesInv
    <3>1. CASE r = s
      <4>1. Len(pipe'[r]) = Len(pipe[r]) + 1 /\ written'[r] = written[r] + 1
        BY <2>1, <3>1
      <4> QED
        BY <3>0, <4>1
    <3>2. CASE r # s
      <4>1. pipe'[r] = pipe[r] /\ written'[r] = written[r]
        BY <2>1, <3>2 DEF TypeOK
      <4> QED
        BY <3>0, <4>1
    <3> QED
      BY <3>1, <3>2
  <2>5. DrainInv'
    BY <2>1, <2>2 DEF DrainInv, Writable, TypeOK
  <2> QED
    BY <2>3, <2>4, <2>5
<1>2. CASE LeaveChild \/ ChildEnds \/ Exit \/ Expire \/ StopTail \/ Kill
  <2>1. UNCHANGED <<mode, written, pipe, shipped, reader, main, code>>
    BY <1>2 DEF LeaveChild, ChildEnds, Exit, Expire, StopTail, Kill, procVars
  <2>2. /\ proc' \in Ended \union {"none", "running"} /\ child' \in {"none", "running", "ended"}
        /\ deadline' \in {"ahead", "past"}
        /\ Writable' => Writable
        /\ proc' = proc \/ proc = "running"
        /\ main = "start" => proc' = "none" /\ child' = "none"
        /\ proc' = "none" => proc = "none"
    BY <1>2 DEF LeaveChild, ChildEnds, Exit, Expire, StopTail, Kill, procVars, Ended,
       Writable, TypeOK, DrainInv
  <2>3. TypeOK'
    BY <2>1, <2>2 DEF TypeOK
  <2>4. LinesInv'
    BY <2>1 DEF LinesInv
  <2>5. DrainInv'
    BY <2>1, <2>2 DEF DrainInv, Ended
  <2> QED
    BY <2>3, <2>4, <2>5
<1>3. ASSUME NEW s \in Streams, Read(s) PROVE Inv'
  <2>1. /\ pipe'[s] \in Seq(Lines) /\ Len(pipe'[s]) = Len(pipe[s]) - 1 /\ Len(pipe[s]) > 0
        /\ pipe' = [pipe EXCEPT ![s] = pipe'[s]]
        /\ reader[s] = "reading" /\ main # "start"
        /\ UNCHANGED <<mode, procVars, main, code, deadline>>
    BY <1>3, <1>t, PipeLengths DEF Read, TypeOK
  <2>p. pipe' \in [Streams -> Seq(Lines)] /\ \A r \in Streams : Len(pipe'[r]) <= PipeSize
    <3>1. pipe \in [Streams -> Seq(Lines)] /\ Len(pipe'[s]) <= PipeSize
      BY <1>t, <2>1 DEF TypeOK
    <3>2. \A r \in Streams : r = s \/ pipe'[r] = pipe[r]
      BY <2>1, <3>1
    <3>3. pipe' \in [Streams -> Seq(Lines)]
      BY <2>1, <3>1
    <3> QED
      BY <1>t, <3>1, <3>2, <3>3
  <2>2. \/ reader' = [reader EXCEPT ![s] = "gaveup"] /\ UNCHANGED shipped
        \/ shipped' = [shipped EXCEPT ![s] = @ + 1] /\ UNCHANGED reader
    BY <1>3 DEF Read
  <2>3. shipped[s] + 1 <= MaxLines
    BY <1>t, <2>1 DEF LinesInv
  <2>4. CASE reader' = [reader EXCEPT ![s] = "gaveup"] /\ UNCHANGED shipped
    <3>1. TypeOK'
      BY <2>1, <2>p, <2>4 DEF TypeOK, procVars
    <3>2. LinesInv'
      BY <1>t, <2>1, <2>4 DEF LinesInv, TypeOK, procVars
    <3>3. DrainInv'
      BY <2>1, <2>4 DEF DrainInv, TypeOK, procVars, Writable
    <3> QED
      BY <3>1, <3>2, <3>3
  <2>5. CASE shipped' = [shipped EXCEPT ![s] = @ + 1] /\ UNCHANGED reader
    <3>1. TypeOK'
      <4>1. shipped' \in [Streams -> 0 .. MaxLines]
        BY <1>t, <2>3, <2>5 DEF TypeOK
      <4> QED
        BY <2>1, <2>p, <2>5, <4>1 DEF TypeOK, procVars
    <3>2. LinesInv'
      <4> SUFFICES ASSUME NEW r \in Streams
                   PROVE  /\ shipped'[r] + Len(pipe'[r]) <= written'[r]
                          /\ reader'[r] # "gaveup" => shipped'[r] + Len(pipe'[r]) = written'[r]
        BY DEF LinesInv
      <4>1. shipped'[s] = shipped[s] + 1 /\ UNCHANGED <<written, reader>>
        BY <2>1, <2>5 DEF TypeOK, procVars
      <4>2. CASE r = s
        <5>1. shipped[r] + Len(pipe[r]) = written[r]
          BY <2>1, <4>2 DEF LinesInv
        <5>2. shipped'[r] = shipped[r] + 1 /\ Len(pipe'[r]) = Len(pipe[r]) - 1 /\ written'[r] = written[r]
          BY <2>1, <4>1, <4>2
        <5> QED
          BY <1>t, <5>1, <5>2
      <4>3. CASE r # s
        <5>1. pipe'[r] = pipe[r] /\ shipped'[r] = shipped[r]
          BY <2>1, <2>5, <4>3 DEF TypeOK
        <5> QED
          BY <4>1, <5>1 DEF LinesInv
      <4> QED
        BY <4>2, <4>3
    <3>3. DrainInv'
      BY <2>1, <2>5 DEF DrainInv, TypeOK, procVars, Writable
    <3> QED
      BY <3>1, <3>2, <3>3
  <2> QED
    BY <2>2, <2>4, <2>5
<1>4. ASSUME NEW s \in Streams, ReadEnds(s) PROVE Inv'
  BY <1>4 DEF ReadEnds, procVars, TypeOK, LinesInv, DrainInv, Writable
<1>5. CASE Start \/ StartFails
  <2>1. UNCHANGED <<mode, child, written, pipe, shipped, reader, deadline>>
    BY <1>5 DEF Start, StartFails, procVars
  <2>2. /\ main = "start" /\ proc' \in {"none", "running"} /\ code' \in Codes
        /\ \/ main' = "draining"
           \/ main' = "returned" /\ proc' = "none"
    BY <1>5 DEF Start, StartFails, Outcome, procVars, DrainInv, Codes, TypeOK
  <2>3. TypeOK' /\ LinesInv'
    BY <2>1, <2>2 DEF TypeOK, LinesInv, Codes, Ended
  <2>4. DrainInv'
    BY <2>1, <2>2 DEF DrainInv
  <2> QED
    BY <2>3, <2>4
<1>6. CASE Drained
  <2>1. /\ UNCHANGED <<mode, procVars, pipe, shipped, reader, code, deadline>>
        /\ main = "draining" /\ main' = "waiting"
        /\ \A s \in Streams : reader[s] # "reading"
    BY <1>6 DEF Drained
  <2>2. TypeOK' /\ LinesInv'
    BY <2>1 DEF TypeOK, LinesInv, procVars
  <2>3. DrainInv'
    BY <2>1 DEF DrainInv, TypeOK, procVars, Writable
  <2> QED
    BY <2>2, <2>3
<1>7. CASE Wait
  <2>1. \A s \in Streams : reader[s] \in {"eof", "gaveup"}
    BY <1>7 DEF Wait, DrainInv
  <2>2. reader' = reader
    BY <1>7, <2>1 DEF Wait, TypeOK
  <2>3. Outcome \in Codes
    BY DEF Outcome, Codes
  <2> QED
    BY <1>7, <2>1, <2>2, <2>3 DEF Wait, procVars, TypeOK, LinesInv, DrainInv, Writable
<1>8. CASE UNCHANGED vars
  BY <1>8 DEF vars, procVars, TypeOK, LinesInv, DrainInv, Writable
<1> QED
  BY <1>1, <1>2, <1>3, <1>4, <1>5, <1>6, <1>7, <1>8 DEF Next, Environment, Agent, Returned

LEMMA Invariance == Spec => []Inv
<1>1. Init => Inv
  BY ProcessAssumption DEF Init, Inv, TypeOK, LinesInv, DrainInv, Codes, Ended, AllModes
<1> QED
  BY <1>1, InvInductive, PTL DEF Spec

\* Every variable stays in its range, the pipes in their size.
THEOREM TypeCorrect == Spec => []TypeOK
  BY Invariance, PTL DEF Inv

\* Whatever started has handed on all its output when it returns, up to a line that was
\* too long.
THEOREM OutputIsComplete == Spec => []OutputComplete
<1>1. Inv => OutputComplete
  BY DEF Inv, OutputComplete, TypeOK, LinesInv, DrainInv
<1> QED
  BY <1>1, Invariance, PTL
=============================================================================
