-------------------------- MODULE LogShipperProofs --------------------------
(* Theorems about LogShipper, for every set of writers, every number of    *)
(* lines and every batch size.                                             *)
EXTENDS LogShipper, TLAPS

----------------------------------------------------------------------------
(* What the sequences of line numbers hold                                 *)

\* An empty buffer or batch holds no line.
LEMMA NothingInEmpty == ToSet(<<>>) = {}
  BY DEF ToSet

\* Appending a line adds that line to what a sequence holds.
LEMMA AppendAdds ==
  ASSUME NEW S, NEW s \in Seq(S), NEW x \in S
  PROVE  ToSet(Append(s, x)) = ToSet(s) \union {x}
<1> DEFINE a == Append(s, x)
<1>1. /\ DOMAIN a = 1..(Len(s) + 1) /\ a[Len(s) + 1] = x
      /\ DOMAIN s = 1..Len(s) /\ \A i \in 1..Len(s) : a[i] = s[i]
      /\ Len(s) \in Nat
  OBVIOUS
<1>2. DOMAIN a = DOMAIN s \union {Len(s) + 1}
  BY <1>1
<1>3. ToSet(a) = {a[i] : i \in DOMAIN a} /\ ToSet(s) = {s[i] : i \in DOMAIN s}
  BY DEF ToSet
<1> HIDE DEF a
<1>4. ASSUME NEW i \in DOMAIN a PROVE a[i] \in {s[k] : k \in DOMAIN s} \union {x}
  <2>1. CASE i \in DOMAIN s
    BY <1>1, <2>1
  <2>2. CASE i = Len(s) + 1
    BY <1>1, <2>2
  <2> QED
    BY <1>2, <2>1, <2>2
<1>5. ASSUME NEW y \in {s[k] : k \in DOMAIN s} \union {x}
      PROVE  \E i \in DOMAIN a : a[i] = y
  <2>1. CASE y = x
    BY <1>1, <1>2, <2>1
  <2>2. ASSUME NEW k \in DOMAIN s, y = s[k]
        PROVE  \E i \in DOMAIN a : a[i] = y
    BY <1>1, <1>2, <2>2
  <2> QED
    BY <2>1, <2>2
<1>6. ToSet(a) = ToSet(s) \union {x}
  BY <1>3, <1>4, <1>5
<1> QED
  BY <1>6 DEF a

----------------------------------------------------------------------------
(* The three outcomes of Write                                             *)

Counted(w) == left[w] > 0 /\ left' = [left EXCEPT ![w] = @ - 1]

\* The shipper is closed: the line is dropped.
Ignored(w) ==
  /\ closed /\ Counted(w)
  /\ UNCHANGED <<buf, closed, done, pc, batch, accepted, received, lost>>

\* The buffer, which is now b, has room for more.
Queued(w, b) ==
  /\ ~closed /\ Counted(w) /\ Len(b) < MaxBatch /\ buf' = b
  /\ b = Append(buf, accepted + 1) /\ accepted' = accepted + 1
  /\ UNCHANGED <<closed, done, pc, batch, received, lost>>

\* The buffer has filled up; the writer takes it.
Filled(w, b) ==
  /\ ~closed /\ Counted(w) /\ Len(b) >= MaxBatch /\ TakeBatch(w, b)
  /\ b = Append(buf, accepted + 1) /\ accepted' = accepted + 1
  /\ pc[w] = "idle"
  /\ UNCHANGED <<closed, done, received, lost>>

\* Write does one of these.
LEMMA WriteOutcome ==
  ASSUME TypeOK, NEW w \in Writers, Write(w)
  PROVE  \E b \in Seq(Nat) : Ignored(w) \/ Queued(w, b) \/ Filled(w, b)
<1> DEFINE b == Append(buf, accepted + 1)
<1>1. b \in Seq(Nat) /\ Len(b) \in Nat /\ MaxBatch \in Nat
  BY ShipperAssumption DEF TypeOK, ShipperAssumption
<1>2. b = Append(buf, accepted + 1)
  OBVIOUS
<1>3. CASE closed
  BY <1>1, <1>3 DEF Write, Ignored, Counted
<1>4. CASE ~closed
  <2>1. /\ accepted' = accepted + 1 /\ pc[w] = "idle" /\ Counted(w)
        /\ IF Len(b) >= MaxBatch THEN TakeBatch(w, b)
                                 ELSE buf' = b /\ UNCHANGED <<pc, batch>>
        /\ UNCHANGED <<closed, done, received, lost>>
    BY <1>4 DEF Write, Counted
  <2> HIDE DEF b
  <2>2. CASE Len(b) >= MaxBatch
    BY <1>1, <1>2, <1>4, <2>1, <2>2 DEF Filled
  <2>3. CASE Len(b) < MaxBatch
    <3>1. buf' = b /\ UNCHANGED <<pc, batch>>
      BY <1>1, <2>1, <2>3
    <3>2. Queued(w, b)
      BY <1>2, <1>4, <2>1, <2>3, <3>1, Zenon DEF Queued
    <3> QED
      BY <1>1, <3>2
  <2> QED
    BY <1>1, <2>2, <2>3
<1> QED
  BY <1>3, <1>4

----------------------------------------------------------------------------
\* TypeOK is inductive: every write, flush and Close keeps the shipper's state
\* in its range.
THEOREM TypeCorrect == Spec => []TypeOK
<1>1. Init => TypeOK
  <2> SUFFICES ASSUME Init PROVE TypeOK
    OBVIOUS
  <2> USE DEF Init
  <2>1. <<>> \in Seq(Nat) /\ <<>> \in Seq(Seq(Nat))
    OBVIOUS
  <2>2. batch \in [Threads -> Seq(Nat)]
    BY <2>1, Zenon
  <2>3. left \in [Writers -> Nat] /\ lost \subseteq Nat /\ accepted \in Nat
    BY ShipperAssumption DEF ShipperAssumption
  <2>4. /\ pc \in [Threads -> {"idle", "flushing", "waiting", "ended"}]
        /\ closed \in BOOLEAN /\ done \in BOOLEAN
    OBVIOUS
  <2>5. buf \in Seq(Nat) /\ received \in Seq(Seq(Nat))
    BY <2>1, Zenon
  <2> QED
    BY <2>2, <2>3, <2>4, <2>5 DEF TypeOK
<1>2. TypeOK /\ [Next]_vars => TypeOK'
  <2> SUFFICES ASSUME TypeOK, [Next]_vars PROVE TypeOK'
    OBVIOUS
  <2> USE DEF TypeOK
  <2>1. ASSUME NEW w \in Writers, Write(w) PROVE TypeOK'
    <3>1. PICK b \in Seq(Nat) :
             Ignored(w) \/ Queued(w, b) \/ Filled(w, b)
      BY <2>1, WriteOutcome
    <3>2. w \in Threads
      BY DEF Threads
    <3>3. CASE Ignored(w)
      BY <3>3 DEF Ignored, Counted
    <3>4. CASE Queued(w, b)
      BY <3>4 DEF Queued, Counted
    <3>5. CASE Filled(w, b)
      BY <3>2, <3>5 DEF Filled, TakeBatch, Counted
    <3> QED
      BY <3>1, <3>3, <3>4, <3>5
  <2>2. ASSUME NEW w \in Writers, WriterEnds(w) PROVE TypeOK'
    BY <2>2 DEF WriterEnds
  <2>3. CASE Tick
    BY <2>3 DEF Tick, TakeBatch, Threads
  <2>4. CASE LoopExit
    BY <2>4 DEF LoopExit
  <2>5. CASE Close
    <3>0. <<>> \in Seq(Nat) /\ Closer \in Threads
      BY DEF Threads
    <3>1. buf' \in Seq(Nat) /\ batch' \in [Threads -> Seq(Nat)]
      BY <2>5, <3>0 DEF Close, TakeBatch
    <3>2. /\ pc' \in [Threads -> {"idle", "flushing", "waiting", "ended"}]
          /\ closed' \in BOOLEAN /\ done' \in BOOLEAN
      BY <2>5 DEF Close, TakeBatch, Threads
    <3> QED
      BY <2>5, <3>1, <3>2 DEF Close
  <2>6. CASE CloseReturns
    BY <2>6 DEF CloseReturns
  <2>7. ASSUME NEW t \in Threads, FlushReturns(t) PROVE TypeOK'
    <3>1. ToSet(batch[t]) \subseteq Nat
      BY DEF ToSet
    <3>2. Append(received, batch[t]) \in Seq(Seq(Nat))
      OBVIOUS
    <3>3. /\ pc' \in [Threads -> {"idle", "flushing", "waiting", "ended"}]
          /\ done' \in BOOLEAN
      BY <2>7 DEF FlushReturns, Resume
    <3>4. <<>> \in Seq(Nat)
      OBVIOUS
    <3>5. batch' \in [Threads -> Seq(Nat)]
      BY <2>7, <3>4 DEF FlushReturns
    <3>6. received' \in Seq(Seq(Nat)) /\ lost' \subseteq Nat
      BY <2>7, <3>1, <3>2 DEF FlushReturns
    <3> QED
      BY <2>7, <3>3, <3>5, <3>6 DEF FlushReturns
  <2>8. CASE Terminated \/ UNCHANGED vars
    BY <2>8 DEF Terminated, vars
  <2> QED
    BY <2>1, <2>2, <2>3, <2>4, <2>5, <2>6, <2>7, <2>8 DEF Next
<1> QED
  BY <1>1, <1>2, PTL DEF Spec

----------------------------------------------------------------------------
(* EveryLineInOnePlace: the hand-over of the buffer                        *)

\* A goroutine that is not flushing holds no batch, which is why the batch it
\* takes next overwrites nothing.
IdleUnloaded == \A t \in Threads : pc[t] # "flushing" => batch[t] = <<>>

PlacesInv == TypeOK /\ IdleUnloaded /\ EveryLineInOnePlace

\* Taking a batch puts its lines among those in flight.
LEMMA FlightTaken ==
  ASSUME TypeOK, NEW t \in Threads, NEW b, batch[t] = <<>>,
         batch' = [batch EXCEPT ![t] = b]
  PROVE  InFlight' = InFlight \union ToSet(b)
<1>1. batch'[t] = b /\ \A s \in Threads \ {t} : batch'[s] = batch[s]
  BY DEF TypeOK
<1>2. \A x : x \in InFlight <=> \E s \in Threads : x \in ToSet(batch[s])
  BY DEF InFlight
<1>3. \A x : x \in InFlight' <=> \E s \in Threads : x \in ToSet(batch'[s])
  BY DEF InFlight
<1>4. ToSet(batch[t]) = {}
  BY NothingInEmpty
<1> QED
  BY <1>1, <1>2, <1>3, <1>4

\* The end of a flush takes the lines of its batch, and no other, out of flight.
LEMMA FlightLanded ==
  ASSUME TypeOK, EveryLineInOnePlace, NEW t \in Threads,
         batch' = [batch EXCEPT ![t] = <<>>]
  PROVE  InFlight' = InFlight \ ToSet(batch[t])
<1>1. batch'[t] = <<>> /\ \A s \in Threads \ {t} : batch'[s] = batch[s]
  BY DEF TypeOK
<1>2. \A x : x \in InFlight <=> \E s \in Threads : x \in ToSet(batch[s])
  BY DEF InFlight
<1>3. \A x : x \in InFlight' <=> \E s \in Threads : x \in ToSet(batch'[s])
  BY DEF InFlight
<1>4. \A s \in Threads \ {t} : ToSet(batch[s]) \intersect ToSet(batch[t]) = {}
  BY DEF EveryLineInOnePlace
<1> QED
  BY <1>1, <1>2, <1>3, <1>4, NothingInEmpty

\* A goroutine that takes the buffer, with the lines F it has just added to it,
\* moves these lines from one place to another.
LEMMA TakeKeepsPlaces ==
  ASSUME PlacesInv, NEW t \in Threads, pc[t] = "idle",
         NEW b \in Seq(Nat), TakeBatch(t, b),
         NEW F, ToSet(b) = InBuffer \union F, F \intersect (1..accepted) = {},
         (1..accepted)' = (1..accepted) \union F, UNCHANGED <<received, lost>>
  PROVE  IdleUnloaded' /\ EveryLineInOnePlace'
<1> USE DEF PlacesInv
<1>1. /\ batch[t] = <<>> /\ batch'[t] = b /\ pc'[t] = "flushing"
      /\ \A s \in Threads \ {t} : batch'[s] = batch[s] /\ pc'[s] = pc[s]
  BY DEF TypeOK, TakeBatch, IdleUnloaded
<1>2. IdleUnloaded'
  BY <1>1 DEF IdleUnloaded
<1>3. /\ InBuffer' = {} /\ InFlight' = InFlight \union InBuffer \union F
      /\ Delivered' = Delivered
  BY <1>1, FlightTaken, NothingInEmpty DEF TakeBatch, InBuffer, Delivered
<1>4. \A s \in Threads \ {t} : ToSet(batch[s]) \intersect ToSet(b) = {}
  BY DEF EveryLineInOnePlace, InFlight
<1>5. \A r, s \in Threads :
        r # s => ToSet(batch'[r]) \intersect ToSet(batch'[s]) = {}
  BY <1>1, <1>4 DEF EveryLineInOnePlace
<1> QED
  BY <1>2, <1>3, <1>5 DEF EveryLineInOnePlace

\* The end of a flush moves its batch to the backend's side, or to the lost.
LEMMA FlushKeepsPlaces ==
  ASSUME PlacesInv, NEW t \in Threads, FlushReturns(t)
  PROVE  IdleUnloaded' /\ EveryLineInOnePlace'
<1> USE DEF PlacesInv
<1>1. /\ batch'[t] = <<>> /\ buf' = buf /\ accepted' = accepted
      /\ \A s \in Threads \ {t} : batch'[s] = batch[s] /\ pc'[s] = pc[s]
  BY DEF TypeOK, FlushReturns, Resume
<1>2. IdleUnloaded'
  BY <1>1 DEF IdleUnloaded
<1>3. /\ InBuffer' = InBuffer /\ InFlight' = InFlight \ ToSet(batch[t])
      /\ ToSet(batch[t]) \subseteq InFlight
  BY <1>1, FlightLanded DEF FlushReturns, InBuffer, InFlight
<1>4. \A r, s \in Threads :
        r # s => ToSet(batch'[r]) \intersect ToSet(batch'[s]) = {}
  BY <1>1, NothingInEmpty DEF EveryLineInOnePlace
<1>5. CASE received' = Append(received, batch[t]) /\ lost' = lost
  <2>1. /\ DOMAIN received' = DOMAIN received \union {Len(received) + 1}
        /\ received'[Len(received) + 1] = batch[t]
        /\ \A i \in DOMAIN received : received'[i] = received[i]
    BY <1>5 DEF TypeOK
  <2>2. Delivered' = Delivered \union ToSet(batch[t])
    BY <2>1, Zenon DEF Delivered
  <2>3. \A i \in DOMAIN received :
          ToSet(received[i]) \intersect ToSet(batch[t]) = {}
    BY <1>3 DEF EveryLineInOnePlace, Delivered
  <2>4. \A i, j \in DOMAIN received' :
          i # j => ToSet(received'[i]) \intersect ToSet(received'[j]) = {}
    BY <2>1, <2>3 DEF EveryLineInOnePlace
  <2> QED
    BY <1>1, <1>2, <1>3, <1>4, <1>5, <2>2, <2>4 DEF EveryLineInOnePlace
<1>6. CASE lost' = lost \union ToSet(batch[t]) /\ received' = received
  <2>1. Delivered' = Delivered
    BY <1>6 DEF Delivered
  <2> QED
    BY <1>1, <1>2, <1>3, <1>4, <1>6, <2>1 DEF EveryLineInOnePlace
<1> QED
  BY <1>5, <1>6 DEF FlushReturns

\* The places of the lines depend on these variables only.
LEMMA PlacesUnmoved ==
  ASSUME PlacesInv, UNCHANGED <<buf, batch, accepted, received, lost>>
  PROVE  EveryLineInOnePlace'
  BY DEF PlacesInv, EveryLineInOnePlace, InBuffer, InFlight, Delivered

\* Every step keeps each line in one place and each idle goroutine without batch.
LEMMA PlacesKept == Spec => [](IdleUnloaded /\ EveryLineInOnePlace)
<1>1. Init => IdleUnloaded /\ EveryLineInOnePlace
  <2> SUFFICES ASSUME Init PROVE IdleUnloaded /\ EveryLineInOnePlace
    OBVIOUS
  <2>1. \A t \in Threads : batch[t] = <<>>
    BY DEF Init
  <2>2. InBuffer = {} /\ InFlight = {} /\ Delivered = {}
    BY <2>1, NothingInEmpty DEF Init, InBuffer, InFlight, Delivered
  <2> QED
    BY <2>1, <2>2, NothingInEmpty
       DEF Init, IdleUnloaded, EveryLineInOnePlace
<1>2. TypeOK /\ TypeOK' /\ IdleUnloaded /\ EveryLineInOnePlace /\ [Next]_vars
        => IdleUnloaded' /\ EveryLineInOnePlace'
  <2> SUFFICES ASSUME PlacesInv, TypeOK', [Next]_vars
               PROVE  IdleUnloaded' /\ EveryLineInOnePlace'
    BY DEF PlacesInv
  <2>1. ASSUME NEW w \in Writers, Write(w)
        PROVE  IdleUnloaded' /\ EveryLineInOnePlace'
    <3> DEFINE n == accepted + 1
    <3>1. PICK b \in Seq(Nat) :
             Ignored(w) \/ Queued(w, b) \/ Filled(w, b)
      BY <2>1, WriteOutcome DEF PlacesInv
    <3>2. /\ w \in Threads /\ n \notin 1..accepted
          /\ 1..n = (1..accepted) \union {n}
          /\ ToSet(Append(buf, n)) = InBuffer \union {n}
      <4>1. buf \in Seq(Nat) /\ accepted \in Nat
        BY DEF PlacesInv, TypeOK
      <4>2. n \in Nat /\ n \notin 1..accepted /\ 1..n = (1..accepted) \union {n}
        BY <4>1
      <4>3. ToSet(Append(buf, n)) = ToSet(buf) \union {n}
        BY <4>1, <4>2, AppendAdds
      <4> QED
        BY <4>2, <4>3 DEF Threads, InBuffer
    <3>3. CASE Ignored(w)
      BY <3>3, PlacesUnmoved DEF Ignored, PlacesInv, IdleUnloaded
    <3>4. CASE Queued(w, b)
      <4>1. InBuffer' = InBuffer \union {n} /\ (1..accepted)' = 1..n
        BY <3>2, <3>4 DEF Queued, InBuffer
      <4>2. InFlight' = InFlight /\ Delivered' = Delivered
        BY <3>4 DEF Queued, InFlight, Delivered
      <4>3. IdleUnloaded'
        BY <3>4 DEF Queued, PlacesInv, IdleUnloaded
      <4>4. lost' = lost /\ batch' = batch /\ received' = received
        BY <3>4 DEF Queued
      <4>5. EveryLineInOnePlace
        BY DEF PlacesInv
      <4> HIDE DEF n
      <4> DEFINE gone == InFlight \union Delivered \union lost
      <4>6. gone' = gone
        BY <4>2, <4>4
      <4>7. InBuffer \union gone = 1..accepted /\ InBuffer \intersect gone = {}
        BY <4>5 DEF EveryLineInOnePlace
      <4> HIDE DEF gone
      <4>8. /\ InBuffer' \union gone' = (1..accepted)'
            /\ InBuffer' \intersect gone' = {}
        BY <3>2, <4>1, <4>6, <4>7
      <4> USE DEF gone
      <4> QED
        BY <4>2, <4>3, <4>4, <4>5, <4>8 DEF EveryLineInOnePlace
    <3>5. CASE Filled(w, b)
      <4>1. /\ ToSet(b) = InBuffer \union {n} /\ {n} \intersect (1..accepted) = {}
            /\ (1..accepted)' = (1..accepted) \union {n}
        BY <3>2, <3>5 DEF Filled
      <4>2. /\ pc[w] = "idle" /\ TakeBatch(w, b)
            /\ UNCHANGED <<received, lost>>
        BY <3>5 DEF Filled
      <4> HIDE DEF n
      <4> QED
        BY <3>2, <4>1, <4>2, TakeKeepsPlaces
    <3> QED
      BY <3>1, <3>3, <3>4, <3>5
  <2>2. ASSUME NEW t \in Threads, pc[t] = "idle", TakeBatch(t, buf),
               UNCHANGED <<accepted, received, lost>>
        PROVE  IdleUnloaded' /\ EveryLineInOnePlace'
    <3>1. /\ buf \in Seq(Nat) /\ ToSet(buf) = InBuffer \union {}
          /\ (1..accepted)' = (1..accepted) \union {}
      BY <2>2 DEF InBuffer, PlacesInv, TypeOK
    <3> QED
      BY <2>2, <3>1, TakeKeepsPlaces
  <2>3. CASE Tick
    BY <2>2, <2>3 DEF Tick, Threads
  <2>4. CASE Close
    <3>1. CASE buf = <<>>
      BY <2>4, <3>1, PlacesUnmoved DEF Close, PlacesInv, IdleUnloaded, TypeOK
    <3>2. CASE buf # <<>>
      BY <2>2, <2>4, <3>2 DEF Close, Threads
    <3> QED
      BY <3>1, <3>2
  <2>5. ASSUME NEW t \in Threads, FlushReturns(t)
        PROVE  IdleUnloaded' /\ EveryLineInOnePlace'
    BY <2>5, FlushKeepsPlaces
  <2>6. ASSUME NEW w \in Writers, WriterEnds(w)
        PROVE  IdleUnloaded' /\ EveryLineInOnePlace'
    BY <2>6, PlacesUnmoved DEF WriterEnds, PlacesInv, IdleUnloaded, TypeOK
  <2>7. CASE LoopExit \/ CloseReturns
    BY <2>7, PlacesUnmoved
       DEF LoopExit, CloseReturns, PlacesInv, IdleUnloaded, TypeOK
  <2>8. CASE Terminated \/ UNCHANGED vars
    BY <2>8, PlacesUnmoved DEF Terminated, vars, PlacesInv, IdleUnloaded
  <2> QED
    BY <2>1, <2>3, <2>4, <2>5, <2>6, <2>7, <2>8 DEF Next
<1> QED
  BY <1>1, <1>2, TypeCorrect, PTL DEF Spec

\* Each accepted line is in exactly one place, whichever goroutine takes the
\* buffer and in whatever order flushes return (flushLocked).
THEOREM LinesNeitherLostNorDoubled == Spec => []EveryLineInOnePlace
  BY PlacesKept, PTL

----------------------------------------------------------------------------
(* Close                                                                   *)

\* No line is accepted or left behind once Close has set the flag: the flag and
\* the last hand-over share a critical section, and so do the check of the flag
\* and the append in Write.
THEOREM NothingStrandedAfterClose == Spec => []NothingStranded
<1>1. Init => NothingStranded
  BY DEF Init, NothingStranded
<1>2. TypeOK /\ NothingStranded /\ [Next]_vars => NothingStranded'
  <2> SUFFICES ASSUME TypeOK, NothingStranded, [Next]_vars
               PROVE  NothingStranded'
    OBVIOUS
  <2> USE DEF NothingStranded
  <2>1. ASSUME NEW w \in Writers, Write(w) PROVE NothingStranded'
    <3>1. PICK b \in Seq(Nat) :
             Ignored(w) \/ Queued(w, b) \/ Filled(w, b)
      BY <2>1, WriteOutcome
    <3> QED
      BY <3>1 DEF Ignored, Queued, Filled, TakeBatch
  <2>2. ASSUME NEW w \in Writers, WriterEnds(w) PROVE NothingStranded'
    BY <2>2 DEF WriterEnds
  <2>3. CASE Tick \/ Close
    BY <2>3 DEF Tick, Close, TakeBatch
  <2>4. CASE LoopExit \/ CloseReturns
    BY <2>4 DEF LoopExit, CloseReturns
  <2>5. ASSUME NEW t \in Threads, FlushReturns(t) PROVE NothingStranded'
    BY <2>5 DEF FlushReturns
  <2>6. CASE Terminated \/ UNCHANGED vars
    BY <2>6 DEF Terminated, vars
  <2> QED
    BY <2>1, <2>2, <2>3, <2>4, <2>5, <2>6 DEF Next
<1> QED
  BY <1>1, <1>2, TypeCorrect, PTL DEF Spec

\* The order in which Close brings everything to an end: the flag, the done
\* channel, the loop, the return.
ClosingOrder ==
  /\ closed <=> pc[Closer] # "idle"
  /\ done => pc[Closer] \in {"waiting", "ended"}
  /\ pc[Loop] = "ended" => done
  /\ pc[Closer] = "ended" => pc[Loop] = "ended"

\* The three kinds of goroutines are told apart by their names.
LEMMA ThreadsDiffer ==
  /\ Loop \in Threads /\ Closer \in Threads /\ Loop # Closer
  /\ Writers \subseteq Threads /\ Loop \notin Writers /\ Closer \notin Writers
  BY ThreadAssumption DEF ThreadAssumption, Threads, Loop, Closer

\* ClosingOrder is inductive.
LEMMA OrderOfClosing == Spec => []ClosingOrder
<1> USE ThreadsDiffer
<1>1. Init => ClosingOrder
  BY DEF Init, ClosingOrder
<1>2. TypeOK /\ ClosingOrder /\ [Next]_vars => ClosingOrder'
  <2> SUFFICES ASSUME TypeOK, ClosingOrder, [Next]_vars PROVE ClosingOrder'
    OBVIOUS
  <2> USE DEF TypeOK, ClosingOrder
  <2>1. ASSUME NEW w \in Writers, Write(w) PROVE ClosingOrder'
    <3>1. PICK b \in Seq(Nat) :
             Ignored(w) \/ Queued(w, b) \/ Filled(w, b)
      BY <2>1, WriteOutcome
    <3>2. CASE Ignored(w) \/ Queued(w, b)
      BY <3>2 DEF Ignored, Queued
    <3>3. CASE Filled(w, b)
      BY <3>3 DEF Filled, TakeBatch
    <3> QED
      BY <3>1, <3>2, <3>3
  <2>2. ASSUME NEW w \in Writers, WriterEnds(w) PROVE ClosingOrder'
    BY <2>2 DEF WriterEnds
  <2>3. CASE Tick
    BY <2>3 DEF Tick, TakeBatch
  <2>4. CASE LoopExit
    BY <2>4 DEF LoopExit
  <2>5. CASE Close
    <3>1. /\ closed' /\ pc[Closer] = "idle"
          /\ \/ pc'[Closer] = "waiting"
             \/ pc'[Closer] = "flushing" /\ done' = done
          /\ \A t \in Threads \ {Closer} : pc'[t] = pc[t]
      BY <2>5 DEF Close, TakeBatch
    <3>2. ~done /\ pc[Loop] # "ended"
      BY <3>1
    <3>3. /\ pc'[Loop] # "ended" /\ pc'[Closer] \in {"waiting", "flushing"}
          /\ done' => pc'[Closer] = "waiting"
      BY <3>1, <3>2
    <3> QED
      BY <3>1, <3>3
  <2>6. CASE CloseReturns
    BY <2>6 DEF CloseReturns
  <2>7. ASSUME NEW t \in Threads, FlushReturns(t) PROVE ClosingOrder'
    BY <2>7 DEF FlushReturns, Resume
  <2>8. CASE Terminated \/ UNCHANGED vars
    BY <2>8 DEF Terminated, vars
  <2> QED
    BY <2>1, <2>2, <2>3, <2>4, <2>5, <2>6, <2>7, <2>8 DEF Next
<1> QED
  BY <1>1, <1>2, TypeCorrect, PTL DEF Spec

\* When Close has returned and the writers have ended no line is under way any
\* more (runStreaming: wg.Wait, then Close).
THEOREM NothingUnderWayAfterClose == Spec => []CloseDrains
<1>1. IdleUnloaded /\ EveryLineInOnePlace /\ NothingStranded /\ ClosingOrder
        => CloseDrains
  <2> SUFFICES ASSUME IdleUnloaded, EveryLineInOnePlace, NothingStranded,
                      ClosingOrder, pc[Closer] = "ended",
                      \A w \in Writers : pc[w] = "ended"
               PROVE  Delivered \union lost = 1..accepted
    BY DEF CloseDrains
  <2>1. closed /\ buf = <<>>
    BY DEF ClosingOrder, NothingStranded
  <2>2. \A t \in Threads : pc[t] = "ended"
    BY DEF Threads, ClosingOrder
  <2>3. \A t \in Threads : batch[t] = <<>>
    BY <2>2 DEF IdleUnloaded
  <2>4. InBuffer = {} /\ InFlight = {}
    BY <2>1, <2>3, NothingInEmpty DEF InBuffer, InFlight
  <2> QED
    BY <2>4 DEF EveryLineInOnePlace
<1> QED
  BY <1>1, PlacesKept, NothingStrandedAfterClose, OrderOfClosing, PTL

----------------------------------------------------------------------------
(* BatchesConsecutive                                                      *)

\* What Write makes of a buffer that ends with the last accepted line is again
\* without a gap, one line longer, and ends with the new line.
LEMMA AppendConsecutive ==
  ASSUME NEW s \in Seq(Nat), NEW n \in Nat, Consecutive(s),
         s # <<>> => Last(s) = n
  PROVE  /\ Consecutive(Append(s, n + 1)) /\ Last(Append(s, n + 1)) = n + 1
         /\ Len(Append(s, n + 1)) = Len(s) + 1
<1> DEFINE a == Append(s, n + 1)
<1>1. /\ DOMAIN a = 1..(Len(s) + 1) /\ a[Len(s) + 1] = n + 1 /\ Len(a) = Len(s) + 1
      /\ DOMAIN s = 1..Len(s) /\ \A i \in 1..Len(s) : a[i] = s[i]
      /\ Len(s) \in Nat /\ (s # <<>> => Len(s) >= 1)
  OBVIOUS
<1>2. \A i \in 1..Len(s) : s[i] = s[1] + i - 1
  BY <1>1 DEF Consecutive
<1>3. s # <<>> => s[Len(s)] = n
  BY DEF Last
<1> HIDE DEF a
<1>4. CASE s = <<>>
  <2>1. Len(s) = 0
    BY <1>4
  <2> QED
    BY <1>1, <2>1 DEF Consecutive, Last, a
<1>5. CASE s # <<>>
  <2>1. s[1] \in Nat /\ n = s[1] + Len(s) - 1 /\ a[1] = s[1]
    BY <1>1, <1>2, <1>3, <1>5
  <2>2. \A i \in 1..(Len(s) + 1) : a[i] = a[1] + i - 1
    BY <1>1, <1>2, <2>1
  <2> QED
    BY <1>1, <2>2 DEF Consecutive, Last, a
<1> QED
  BY <1>4, <1>5

\* What can travel: lines in order, without a gap, no more than maxBatch.
Shippable(b) == Consecutive(b) /\ Len(b) <= MaxBatch

\* What is taken, landed or dropped stays shippable if it was so before.
LEMMA TravelKeepsBatches ==
  ASSUME TypeOK, NEW t \in Threads, NEW b \in Seq(Nat), Shippable(b),
         \A c \in Range(batch) \union ToSet(received) : Shippable(c),
         batch' = [batch EXCEPT ![t] = b],
         received' \in {received, Append(received, batch[t])}
  PROVE  \A c \in Range(batch') \union ToSet(received') : Shippable(c)
<1>1. \A s \in Threads : Shippable(batch[s])
  BY DEF TypeOK, Range
<1>2. \A c \in Range(batch') : Shippable(c)
  BY <1>1 DEF TypeOK, Range
<1>3. \A c \in ToSet(received') : Shippable(c)
  <2>1. CASE received' = received
    BY <2>1
  <2>2. CASE received' = Append(received, batch[t])
    <3>1. ToSet(received') = ToSet(received) \union {batch[t]}
      BY <2>2, AppendAdds DEF TypeOK
    <3> QED
      BY <1>1, <3>1
  <2> QED
    BY <2>1, <2>2
<1> QED
  BY <1>2, <1>3

\* Batches are never longer than maxBatch and hold consecutive lines: reordering
\* on the way to the backend swaps whole batches only (Write, flushLocked).
THEOREM BatchesInOrder == Spec => []BatchesConsecutive
<1> USE DEF Shippable
<1>1. Init => BatchesConsecutive
  <2> SUFFICES ASSUME Init PROVE BatchesConsecutive
    OBVIOUS
  <2>1. /\ Consecutive(<<>>) /\ Len(<<>>) < MaxBatch /\ Len(<<>>) <= MaxBatch
    BY ShipperAssumption DEF Consecutive, ShipperAssumption
  <2>2. \A b \in Range(batch) \union ToSet(received) : b = <<>>
    BY NothingInEmpty DEF Init, Range
  <2> QED
    BY <2>1, <2>2 DEF Init, BatchesConsecutive
<1>2. TypeOK /\ TypeOK' /\ BatchesConsecutive /\ [Next]_vars
        => BatchesConsecutive'
  <2> SUFFICES ASSUME TypeOK, BatchesConsecutive, [Next]_vars
               PROVE  BatchesConsecutive'
    OBVIOUS
  <2>1. /\ MaxBatch \in Nat \ {0} /\ <<>> \in Seq(Nat) /\ Len(<<>>) = 0
        /\ Consecutive(<<>>)
    BY ShipperAssumption DEF ShipperAssumption, Consecutive
  <2>2. Consecutive(buf) /\ Len(buf) < MaxBatch /\ buf \in Seq(Nat)
    BY DEF BatchesConsecutive, TypeOK
  <2>3. ASSUME NEW t \in Threads, NEW b \in Seq(Nat), Shippable(b),
               TakeBatch(t, b), received' = received
        PROVE  BatchesConsecutive'
    <3>1. \A c \in Range(batch) \union ToSet(received) : Shippable(c)
      BY DEF BatchesConsecutive
    <3>2. batch' = [batch EXCEPT ![t] = b] /\ buf' = <<>>
      BY <2>3 DEF TakeBatch
    <3>3. \A c \in Range(batch') \union ToSet(received') : Shippable(c)
      BY <2>3, <3>1, <3>2, TravelKeepsBatches
    <3>4. Consecutive(<<>>) /\ Len(<<>>) < MaxBatch
      BY <2>1
    <3>5. Consecutive(buf') /\ Len(buf') < MaxBatch
      BY <3>2, <3>4, Zenon
    <3> QED
      BY <3>2, <3>3, <3>5, Zenon DEF BatchesConsecutive, Shippable
  <2>4. ASSUME NEW w \in Writers, Write(w) PROVE BatchesConsecutive'
    <3>1. PICK b \in Seq(Nat) :
             Ignored(w) \/ Queued(w, b) \/ Filled(w, b)
      BY <2>4, WriteOutcome
    <3>2. CASE Ignored(w)
      BY <3>2 DEF Ignored, BatchesConsecutive
    <3>3. ASSUME b = Append(buf, accepted + 1)
          PROVE  /\ Consecutive(b) /\ Last(b) = accepted + 1
                 /\ Len(b) = Len(buf) + 1 /\ Len(b) <= MaxBatch
      <4>1. /\ Consecutive(b) /\ Last(b) = accepted + 1
            /\ Len(b) = Len(buf) + 1
        BY <3>3, AppendConsecutive DEF BatchesConsecutive, TypeOK
      <4> QED
        BY <2>1, <2>2, <4>1
    <3>4. CASE Queued(w, b)
      BY <3>3, <3>4 DEF Queued, BatchesConsecutive
    <3>5. CASE Filled(w, b)
      <4>1. Shippable(b) /\ w \in Threads
        BY <3>3, <3>5 DEF Filled, Threads
      <4> QED
        BY <2>3, <3>5, <4>1 DEF Filled
    <3> QED
      BY <3>1, <3>2, <3>4, <3>5
  <2>5. ASSUME NEW t \in Threads, TakeBatch(t, buf),
               UNCHANGED <<accepted, received>>
        PROVE  BatchesConsecutive'
    BY <2>1, <2>2, <2>3, <2>5
  <2>6. ASSUME UNCHANGED <<buf, batch, accepted, received>>
        PROVE  BatchesConsecutive'
    BY <2>6 DEF BatchesConsecutive
  <2>7. CASE Tick
    BY <2>5, <2>7 DEF Tick, Threads
  <2>8. CASE Close
    BY <2>5, <2>6, <2>8 DEF Close, Threads
  <2>9. ASSUME NEW t \in Threads, FlushReturns(t) PROVE BatchesConsecutive'
    <3>1. /\ batch' = [batch EXCEPT ![t] = <<>>]
          /\ received' \in {received, Append(received, batch[t])}
          /\ UNCHANGED <<buf, accepted>>
      BY <2>9 DEF FlushReturns
    <3>2. Shippable(<<>>)
      BY <2>1
    <3> QED
      BY <2>1, <3>1, <3>2, TravelKeepsBatches DEF BatchesConsecutive
  <2>10. ASSUME NEW w \in Writers, WriterEnds(w) PROVE BatchesConsecutive'
    BY <2>6, <2>10 DEF WriterEnds
  <2>11. CASE LoopExit \/ CloseReturns \/ Terminated \/ UNCHANGED vars
    BY <2>6, <2>11 DEF LoopExit, CloseReturns, Terminated, vars
  <2> QED
    BY <2>4, <2>7, <2>8, <2>9, <2>10, <2>11 DEF Next
<1> QED
  BY <1>1, <1>2, TypeCorrect, PTL DEF Spec
=============================================================================
