----------------------------- MODULE LogShipper -----------------------------
(***************************************************************************)
(* The log shipper of src/internal/executor/logshipper.go and the          *)
(* goroutines around it: the scanners of runStreaming and the executor     *)
(* write lines, a loop flushes on a ticker, Close flushes what is left and *)
(* waits for the loop.                                                     *)
(*                                                                         *)
(* flushLocked gives up the mutex while the batch travels, so batches of   *)
(* several goroutines can be in flight at once.  A line is the number      *)
(* under which Write accepted it; its text and the redaction of secrets    *)
(* are left out.                                                           *)
(***************************************************************************)
EXTENDS Integers, Sequences, FiniteSets, SequencesExt, Functions

CONSTANTS Writers,   \* goroutines that write lines
          Lines,     \* lines each of them has to write
          MaxBatch   \* s.maxBatch

ASSUME ShipperAssumption ==
  Lines \in Nat /\ MaxBatch \in Nat \ {0}

Loop == "loop"
Closer == "closer"
Threads == Writers \union {Loop, Closer}

ASSUME ThreadAssumption == Loop \notin Writers /\ Closer \notin Writers

VARIABLES
  buf,       \* s.buf
  closed,    \* s.closed
  done,      \* the done channel is closed
  pc,        \* where each goroutine is
  batch,     \* the batch each goroutine is sending
  left,      \* lines each writer still has to write
  accepted,  \* lines accepted so far
  received,  \* batches the backend got, in order of arrival
  lost       \* lines of batches whose flush failed

vars == <<buf, closed, done, pc, batch, left, accepted, received, lost>>

TypeOK ==
  /\ buf \in Seq(Nat)
  /\ closed \in BOOLEAN /\ done \in BOOLEAN
  /\ pc \in [Threads -> {"idle", "flushing", "waiting", "ended"}]
  /\ batch \in [Threads -> Seq(Nat)]
  /\ left \in [Writers -> Nat]
  /\ accepted \in Nat
  /\ received \in Seq(Seq(Nat))
  /\ lost \subseteq Nat

Init ==
  /\ buf = <<>> /\ closed = FALSE /\ done = FALSE
  /\ pc = [t \in Threads |-> "idle"]
  /\ batch = [t \in Threads |-> <<>>]
  /\ left = [w \in Writers |-> Lines]
  /\ accepted = 0 /\ received = <<>> /\ lost = {}

----------------------------------------------------------------------------
\* Faulty variant: the buffer is not replaced.
TakeBatchKeepsBuffer(t, b) ==
  /\ buf' = b
  /\ batch' = [batch EXCEPT ![t] = b]
  /\ pc' = [pc EXCEPT ![t] = "flushing"]

\* flushLocked up to the unlock: thread t takes the whole buffer, which holds
\* the lines b, and starts to send them.
TakeBatch(t, b) ==
  /\ buf' = <<>>
  /\ batch' = [batch EXCEPT ![t] = b]
  /\ pc' = [pc EXCEPT ![t] = "flushing"]

\* Faulty variants: one line too late; no look at s.closed.
WriteLate(w) ==
  /\ pc[w] = "idle" /\ left[w] > 0
  /\ left' = [left EXCEPT ![w] = @ - 1]
  /\ IF closed
     THEN UNCHANGED <<buf, accepted, pc, batch>>
     ELSE /\ accepted' = accepted + 1
          /\ LET b == Append(buf, accepted + 1)
             IN  IF Len(b) > MaxBatch
                 THEN TakeBatch(w, b)
                 ELSE buf' = b /\ UNCHANGED <<pc, batch>>
  /\ UNCHANGED <<closed, done, received, lost>>

WriteAfterClose(w) ==
  /\ pc[w] = "idle" /\ left[w] > 0
  /\ left' = [left EXCEPT ![w] = @ - 1]
  /\ accepted' = accepted + 1
  /\ LET b == Append(buf, accepted + 1)
     IN  IF Len(b) >= MaxBatch
         THEN TakeBatch(w, b)
         ELSE buf' = b /\ UNCHANGED <<pc, batch>>
  /\ UNCHANGED <<closed, done, received, lost>>

\* Write: dropped once closed; otherwise queued, and the buffer is flushed by
\* the writer when it is full.
Write(w) ==
  /\ pc[w] = "idle" /\ left[w] > 0
  /\ left' = [left EXCEPT ![w] = @ - 1]
  /\ IF closed
     THEN UNCHANGED <<buf, accepted, pc, batch>>
     ELSE /\ accepted' = accepted + 1
          /\ LET b == Append(buf, accepted + 1)
             IN  IF Len(b) >= MaxBatch
                 THEN TakeBatch(w, b)
                 ELSE buf' = b /\ UNCHANGED <<pc, batch>>
  /\ UNCHANGED <<closed, done, received, lost>>

\* scanInto: the pipe is drained, the goroutine ends.
WriterEnds(w) ==
  /\ pc[w] = "idle" /\ left[w] = 0
  /\ pc' = [pc EXCEPT ![w] = "ended"]
  /\ UNCHANGED <<buf, closed, done, batch, left, accepted, received, lost>>

\* Faulty variant: the ticker leaves a single line for the next one.
TickSparse ==
  /\ pc[Loop] = "idle" /\ Len(buf) > 1
  /\ TakeBatch(Loop, buf)
  /\ UNCHANGED <<closed, done, left, accepted, received, lost>>

\* loop: the ticker fires.
Tick ==
  /\ pc[Loop] = "idle" /\ buf # <<>>
  /\ TakeBatch(Loop, buf)
  /\ UNCHANGED <<closed, done, left, accepted, received, lost>>

\* loop: the done channel is closed.
LoopExit ==
  /\ pc[Loop] = "idle" /\ done
  /\ pc' = [pc EXCEPT ![Loop] = "ended"]
  /\ UNCHANGED <<buf, closed, done, batch, left, accepted, received, lost>>

\* Close: the flag is set and the last batch taken in one critical section;
\* with nothing to flush, close(done) follows at once.  runStreaming joins its
\* scanners first, other callers may close at any time.
Close ==
  /\ pc[Closer] = "idle"
  /\ closed' = TRUE
  /\ IF buf = <<>>
     THEN /\ pc' = [pc EXCEPT ![Closer] = "waiting"]
          /\ done' = TRUE /\ UNCHANGED <<buf, batch>>
     ELSE TakeBatch(Closer, buf) /\ UNCHANGED done
  /\ UNCHANGED <<left, accepted, received, lost>>

\* Faulty variant: the done channel is not closed after the last flush.
ResumeWithoutDone(t) ==
  /\ pc' = [pc EXCEPT ![t] = IF t = Closer THEN "waiting" ELSE "idle"]
  /\ UNCHANGED done

\* Where a thread goes on when its flush returns; Close goes on to close(done).
Resume(t) ==
  /\ pc' = [pc EXCEPT ![t] = IF t = Closer THEN "waiting" ELSE "idle"]
  /\ done' = (done \/ t = Closer)

\* The flush of thread t returns; its error, if any, is ignored: the batch has
\* reached the backend or it never will.
FlushReturns(t) ==
  /\ pc[t] = "flushing"
  /\ Resume(t)
  /\ batch' = [batch EXCEPT ![t] = <<>>]
  /\ \/ received' = Append(received, batch[t]) /\ UNCHANGED lost
     \/ lost' = lost \union ToSet(batch[t]) /\ UNCHANGED received
  /\ UNCHANGED <<buf, closed, left, accepted>>

\* Faulty variant: no wg.Wait.
CloseReturnsAtOnce ==
  /\ pc[Closer] = "waiting"
  /\ pc' = [pc EXCEPT ![Closer] = "ended"]
  /\ UNCHANGED <<buf, closed, done, batch, left, accepted, received, lost>>

\* wg.Wait in Close has seen the end of the loop: Close returns and the result
\* of the command can be submitted.
CloseReturns ==
  /\ pc[Closer] = "waiting" /\ pc[Loop] = "ended"
  /\ pc' = [pc EXCEPT ![Closer] = "ended"]
  /\ UNCHANGED <<buf, closed, done, batch, left, accepted, received, lost>>

\* Nothing more happens once every goroutine has ended.
Terminated == (\A t \in Threads : pc[t] = "ended") /\ UNCHANGED vars

Next ==
  \/ \E w \in Writers : Write(w) \/ WriterEnds(w)
  \/ Tick \/ LoopExit \/ Close \/ CloseReturns
  \/ \E t \in Threads : FlushReturns(t)
  \/ Terminated

Spec == Init /\ [][Next]_vars

\* Processes end their output (they run under a deadline), the ticker fires,
\* a flush returns (the HTTP client has a timeout).  A log session may stay open
\* for long: that Close is called is not assumed.
Fairness ==
  /\ \A w \in Writers : WF_vars(Write(w) \/ WriterEnds(w))
  /\ \A t \in Threads : WF_vars(FlushReturns(t))
  /\ WF_vars(Tick) /\ WF_vars(LoopExit) /\ WF_vars(CloseReturns)

FairSpec == Spec /\ Fairness

----------------------------------------------------------------------------
(* Properties                                                              *)

\* The lines in each place a line can be.
InBuffer  == ToSet(buf)
InFlight  == UNION {ToSet(batch[t]) : t \in Threads}
Delivered == UNION {ToSet(received[i]) : i \in DOMAIN received}

\* No line is lost or doubled by the hand-over of the buffer: an accepted line
\* is in exactly one place, although flushLocked gives up the mutex in the
\* middle of Write, of Close and of the loop.
EveryLineInOnePlace ==
  /\ InBuffer \union InFlight \union Delivered \union lost = 1..accepted
  /\ InBuffer \intersect (InFlight \union Delivered \union lost) = {}
  /\ InFlight \intersect (Delivered \union lost) = {}
  /\ Delivered \intersect lost = {}
  /\ \A s, t \in Threads :
       s # t => ToSet(batch[s]) \intersect ToSet(batch[t]) = {}
  /\ \A i, j \in DOMAIN received :
       i # j => ToSet(received[i]) \intersect ToSet(received[j]) = {}

\* Consecutive lines, in the order in which Write accepted them.
Consecutive(b) == \A i \in DOMAIN b : b[i] = b[1] + i - 1

\* Batches can overtake each other, but inside a batch the lines are in order
\* and without a gap, no batch is longer than maxBatch, and a full buffer is
\* never left behind by the writer that filled it (Write, flushLocked).
BatchesConsecutive ==
  /\ Consecutive(buf) /\ Len(buf) < MaxBatch
  /\ buf # <<>> => Last(buf) = accepted
  /\ \A b \in Range(batch) \union ToSet(received) :
       Consecutive(b) /\ Len(b) <= MaxBatch

\* Once Close has taken the last batch no line gets stranded in the buffer,
\* even if scanners are still writing: nobody would flush it (Write's check of
\* s.closed, in the same critical section as the append).
NothingStranded == closed => buf = <<>>

\* When Close has returned and the writers have been joined, which is when the
\* result of the command is submitted, every accepted line has been delivered
\* or given up: no flush of the loop is still under way, and no line was left
\* behind for it (wg.Wait in Close and in runStreaming).
CloseDrains ==
  pc[Closer] = "ended" /\ (\A w \in Writers : pc[w] = "ended")
    => Delivered \union lost = 1..accepted

\* A line that Write accepted leaves the shipper even if no other line follows
\* it and Close is far away (the ticker of loop).
EveryLineLeaves ==
  \A n \in 1..(Lines * Cardinality(Writers)) :
    n \in InBuffer ~> n \in Delivered \union lost

\* Close, once called, returns: it does not wait for a loop that waits for it.
CloseEnds == closed ~> pc[Closer] = "ended"
============================================================================
