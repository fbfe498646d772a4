--------------------------- MODULE DiscoveryProofs ---------------------------
(***************************************************************************)
(* What a scan reports, for every host of the type, any failures and any    *)
(* restarts: the sweep repeats nothing, nothing that listens is lost        *)
(* without a note but in the ways that are named, and a host keeps its      *)
(* identifiers when its processes get other PIDs.                          *)
(***************************************************************************)
EXTENDS Discovery, WellFoundedInduction, TLAPS

Swept == {r \in rows : r.source = "process"}

\* A row's PID is claimed, and only the sweep makes rows of its own kind.
ClaimInv ==
  /\ \A r \in rows : r.pid = None \/ r.pid \in claimed
  /\ step \notin {"reported", "idle"} => Swept = {}
  /\ SweepTakesTheRest

\* The sockets that the sweep is left with, and the row of a PID.
Left == {s \in socks : /\ s.pid # None /\ s.pid \notin claimed
                       /\ ~P(s.pid[1]).plumbing /\ Owner(s.pid) = "none"}
LeftPids == {s.pid : s \in Left}
LooseRow(pid) ==
  Row("process", LooseIdent(pid, {s.port : s \in {t \in Left : t.pid = pid}}), pid)

LEMMA RowFields ==
  ASSUME NEW source, NEW ident, NEW pid
  PROVE  /\ Row(source, ident, pid).source = source
         /\ Row(source, ident, pid).ident = ident
         /\ Row(source, ident, pid).pid = pid
  BY DEF Row

LEMMA LooseRowFields ==
  ASSUME NEW pid
  PROVE  LooseRow(pid).source = "process" /\ LooseRow(pid).pid = pid
  BY RowFields DEF LooseRow

\* What the sweep does.
LEMMA LooseEffect ==
  ASSUME Loose
  PROVE  /\ step = "loose" /\ step' = "reported"
         /\ rows' = rows \union {LooseRow(pid) : pid \in LeftPids}
         /\ claimed' = claimed \union LeftPids
<1>1. step = "loose" /\ step' = "reported"
  BY DEF Loose, Goto
<1>2. Add({LooseRow(pid) : pid \in LeftPids})
  BY DEF Loose, LooseRow, LeftPids, Left
<1>3. {r.pid : r \in {LooseRow(pid) : pid \in LeftPids}} = LeftPids
  <2>1. \A pid \in LeftPids : LooseRow(pid).pid = pid
    BY LooseRowFields
  <2>2. QED
    BY <2>1
<1>4. LeftPids \ {None} = LeftPids
  BY DEF LeftPids, Left
<1>5. QED
  BY <1>1, <1>2, <1>3, <1>4 DEF Add

\* What the other layers do to rows and claims: rows with claimed PIDs, of other kinds.
Adds(new) ==
  /\ rows' = rows \union new
  /\ \A r \in new : r.source # "process" /\ (r.pid = None \/ r.pid \in claimed')
  /\ claimed \subseteq claimed'

RowsAdded == \E new : Adds(new)

LEMMA AddRows ==
  ASSUME NEW new, Add(new), \A r \in new : r.source # "process"
  PROVE  RowsAdded
<1>1. \A r \in new : r.pid = None \/ r.pid \in claimed'
  BY DEF Add
<1>2. Adds(new)
  BY <1>1 DEF Add, Adds
<1>3. QED
  BY <1>2 DEF RowsAdded

\* A layer of the scan between the first and the sweep.
Layers ==
  \/ CollectListeners \/ Docker \/ Podman \/ ListUnits \/ ShowUnits \/ Attribute
  \/ DetectPM2 \/ DetectOtherPM2 \/ DetectSupervisor

LEMMA LayerEffect ==
  ASSUME Layers
  PROVE  /\ step \notin {"reported", "idle"} /\ step' \notin {"reported", "idle"}
         /\ RowsAdded
<1>1. ASSUME UNCHANGED <<rows, claimed>>
      PROVE  RowsAdded
  <2>1. Adds({})
    BY <1>1 DEF Adds
  <2>2. QED
    BY <2>1 DEF RowsAdded
<1>2. CASE CollectListeners \/ ListUnits \/ ShowUnits
  BY <1>1, <1>2 DEF CollectListeners, ListUnits, ShowUnits, Goto, foundVars
<1>3. ASSUME NEW engine \in Engines, NEW next \in Steps \ {"reported", "idle"},
             DetectContainers(engine, next)
      PROVE  /\ step \notin {"reported", "idle"} /\ step' \notin {"reported", "idle"}
             /\ RowsAdded
  <2>1. CASE Add({Row(engine, P(p).app, None) : p \in {q \in Procs : P(q).listed = engine}})
    <3>1. \A p \in Procs : Row(engine, P(p).app, None).source # "process"
      BY RowFields DEF Engines
    <3>2. QED
      BY <1>3, <2>1, <3>1, AddRows DEF DetectContainers, Goto, Engines
  <2>2. CASE UNCHANGED <<rows, claimed>>
    BY <1>1, <1>3, <2>2 DEF DetectContainers, Goto, Engines
  <2>3. QED
    BY <1>3, <2>1, <2>2 DEF DetectContainers
<1>4. CASE Docker \/ Podman
  BY <1>3, <1>4 DEF Docker, Podman, Engines, Steps
<1>5. CASE Attribute
  <2> DEFINE Serving == {UnitOf(s.pid[1]) : s \in OfUnits}
             Chosen  == {u \in shown : \/ u.unit[1] = "operator"
                                       \/ u.unit[1] = "distro" /\ u.unit \in Serving}
             Mains   == {u.main : u \in Chosen} \ {None}
             new     == {Row("systemd", u.unit, u.main) : u \in Chosen}
  <2>1. /\ rows' = rows \union new /\ claimed' = claimed \union UnitPids \union Mains
        /\ step = "attribute" /\ step' = "pm2"
    BY <1>5 DEF Attribute, Goto
  <2>2. \A u \in Chosen : /\ Row("systemd", u.unit, u.main).source # "process"
                          /\ Row("systemd", u.unit, u.main).pid = u.main
    BY RowFields
  <2>3. \A u \in Chosen : u.main = None \/ u.main \in Mains
    OBVIOUS
  <2> HIDE DEF Chosen, Mains
  <2>4. \A r \in new : r.source # "process" /\ (r.pid = None \/ r.pid \in claimed')
    BY <2>1, <2>2, <2>3
  <2> HIDE DEF new
  <2>5. Adds(new)
    BY <2>1, <2>4 DEF Adds
  <2>6. QED
    BY <2>1, <2>5 DEF RowsAdded
<1>6. CASE DetectPM2
  <2>1. \A p : Row("pm2", P(p).app, Pid(p)).source # "process"
    BY RowFields
  <2>2. QED
    BY <1>1, <1>6, <2>1, AddRows DEF DetectPM2, Goto
<1>7. CASE DetectOtherPM2
  <2>1. \A p : Row("pm2", <<"pm2other", P(p).app>>, Pid(p)).source # "process"
    BY RowFields
  <2>2. QED
    BY <1>1, <1>7, <2>1, AddRows DEF DetectOtherPM2, Goto
<1>8. CASE DetectSupervisor
  <2>1. \A p : Row("supervisor", P(p).app, Pid(p)).source # "process"
    BY RowFields
  <2>2. QED
    BY <1>1, <1>8, <2>1, AddRows DEF DetectSupervisor, Goto
<1>9. QED
  BY <1>2, <1>4, <1>5, <1>6, <1>7, <1>8 DEF Layers

\* What lives in a unit or a container has an owner.
LEMMA OwnerOfLive ==
  ASSUME NEW p, Owner(Pid(p)) = "none"
  PROVE  ~InContainer(p) /\ P(p).unit = "none"
  BY DEF Owner, Pid

LEMMA ClaimInit == Init => ClaimInv
  BY DEF Init, ClaimInv, Swept, SweepTakesTheRest

LEMMA ClaimStep == ClaimInv /\ [Next]_vars => ClaimInv'
<1> SUFFICES ASSUME ClaimInv, [Next]_vars
             PROVE  ClaimInv'
  OBVIOUS
<1>1. CASE Begin
  BY <1>1 DEF Begin, ClaimInv, Swept, SweepTakesTheRest
<1>2. CASE Layers
  <2>1. PICK new : Adds(new)
    BY <1>2, LayerEffect DEF RowsAdded
  <2>2. step \notin {"reported", "idle"} /\ step' \notin {"reported", "idle"}
    BY <1>2, LayerEffect
  <2>3. QED
    BY <2>1, <2>2 DEF Adds, ClaimInv, Swept, SweepTakesTheRest
<1>3. CASE Loose
  <2>1. /\ step' = "reported" /\ Swept = {}
        /\ rows' = rows \union {LooseRow(pid) : pid \in LeftPids}
        /\ claimed' = claimed \union LeftPids
    BY <1>3, LooseEffect DEF ClaimInv
  <2>2. \A pid \in LeftPids : LooseRow(pid).source = "process" /\ LooseRow(pid).pid = pid
    BY LooseRowFields
  <2>3. \A pid \in LeftPids : pid # None /\ pid \notin claimed /\ Owner(pid) = "none"
    BY DEF LeftPids, Left
  <2>4. \A r \in rows' : r.pid = None \/ r.pid \in claimed'
    BY <2>1, <2>2 DEF ClaimInv
  <2>5. ASSUME NEW r \in rows', r.source = "process"
        PROVE  r.pid \in LeftPids /\ r = LooseRow(r.pid)
    BY <2>1, <2>2, <2>5 DEF Swept
  <2>6. ASSUME NEW r \in rows', r.source = "process", NEW q \in rows' \ {r}
        PROVE  q.pid # r.pid
    <3>1. CASE q.source = "process"
      BY <2>5, <2>6, <3>1
    <3>2. CASE q.source # "process"
      <4>1. q \in rows
        BY <2>1, <2>2, <3>2
      <4>2. QED
        BY <2>3, <2>5, <2>6, <4>1 DEF ClaimInv
    <3>3. QED
      BY <3>1, <3>2
  <2>7. UNCHANGED <<host, born, moved>>
    BY <1>3 DEF Loose, Goto, hostVars
  <2>8. ASSUME NEW r \in rows', r.source = "process", NEW p \in Procs, r.pid = Pid(p)
        PROVE  ~InContainer(p) /\ P(p).unit = "none"
    BY <2>3, <2>5, <2>8, OwnerOfLive
  <2>9. SweepTakesTheRest'
    <3>1. \A p : InContainer(p)' = InContainer(p) /\ P(p)' = P(p) /\ Pid(p)' = Pid(p)
      BY <2>7 DEF InContainer, P, Pid
    <3>2. QED
      BY <2>6, <2>7, <2>8, <3>1 DEF SweepTakesTheRest
  <2>10. QED
    BY <2>1, <2>4, <2>9 DEF ClaimInv
<1>4. CASE Report
  BY <1>4 DEF Report, foundVars, ClaimInv, Swept, SweepTakesTheRest
<1>5. ASSUME NEW p \in Procs, Restart(p)
      PROVE  ClaimInv'
  <2>1. /\ UNCHANGED <<host, step, rows, claimed>>
        /\ \A q : q # p => Pid(q)' = Pid(q)
        /\ step = "reported" => moved' = moved \union {p}
        /\ \A q : InContainer(q)' = InContainer(q) /\ P(q)' = P(q)
    BY <1>5 DEF Restart, foundVars, Pid, InContainer, P
  <2>2. SweepTakesTheRest'
    BY <2>1 DEF ClaimInv, SweepTakesTheRest
  <2>3. QED
    BY <2>1, <2>2 DEF ClaimInv, Swept
<1>6. CASE Expire \/ Quiet \/ UNCHANGED vars
  <2>1. UNCHANGED <<host, born, moved, step, rows, claimed>>
    BY <1>6 DEF Expire, Quiet, vars, hostVars, foundVars
  <2>2. QED
    BY <2>1 DEF ClaimInv, Swept, SweepTakesTheRest, InContainer, P, Pid
<1>7. QED
  BY <1>1, <1>2, <1>3, <1>4, <1>5, <1>6 DEF Next, Scan, Layers

\* The sweep reports no PID of another row, and nothing that lives in a unit or a
\* container, whatever fails or restarts during the scan.
THEOREM SweepRepeatsNothing == Spec => []SweepTakesTheRest
<1>1. Spec => []ClaimInv
  BY ClaimInit, ClaimStep, PTL DEF Spec
<1>2. ClaimInv => SweepTakesTheRest
  BY DEF ClaimInv
<1>3. QED
  BY <1>1, <1>2, PTL

----------------------------------------------------------------------------
(* Types                                                                   *)

Below == {w \in Nat \X Nat : w[1] < w[2]}

LEMMA BelowWellFounded == IsWellFoundedOn(Below, Nat)
  BY NatLessThanWellFounded, Zenon DEF Below, OpToRel

LEMMA Least ==
  ASSUME NEW S, S \subseteq Nat, S # {}
  PROVE  \E n \in S : \A m \in S : n <= m
<1>1. PICK n \in S : \A m \in S : <<m, n>> \notin Below
  BY BelowWellFounded, WFMin, Zenon
<1>2. ASSUME NEW m \in S
      PROVE  n <= m
  <2>1. <<m, n>> \in Nat \X Nat /\ <<m, n>> \notin Below
    BY <1>1
  <2>2. QED
    BY <2>1 DEF Below
<1>3. QED
  BY <1>2

HostTypes ==
  /\ host \in Hosts /\ born \in [Procs -> 0 .. MaxRestarts] /\ step \in Steps
  /\ moved \subseteq Procs /\ failed \subseteq AllFaults
  /\ scans \in Nat /\ faults \in Nat
FlagTypes == degraded \in BOOLEAN /\ expired \in BOOLEAN
FoundTypes ==
  /\ socks \subseteq [pid : Pids \union {None}, port : Ports]
  /\ shown \subseteq [unit : Units, main : Pids \union {None}]
  /\ claimed \subseteq Pids
RowTypes ==
  /\ \A r \in rows : r.source \in Sources /\ r.ident \in Idents /\ r.pid \in Pids \union {None}
  /\ before = None \/ before \subseteq Sources \X Idents

LEMMA TypeParts == TypeOK <=> HostTypes /\ FlagTypes /\ FoundTypes /\ RowTypes
  BY DEF TypeOK, HostTypes, FlagTypes, FoundTypes, RowTypes

LEMMA HostTypesStep ==
  ASSUME HostTypes, [Next]_vars
  PROVE  HostTypes'
<1>1. CASE CollectListeners \/ Docker \/ Podman \/ ListUnits \/ ShowUnits \/ Attribute
           \/ DetectPM2 \/ DetectOtherPM2 \/ DetectSupervisor \/ Loose
  <2>1. UNCHANGED <<host, born, moved, scans>> /\ step' \in Steps
    BY <1>1 DEF CollectListeners, Docker, Podman, DetectContainers, ListUnits, ShowUnits, Attribute,
       DetectPM2, DetectOtherPM2, DetectSupervisor, Loose, Goto, hostVars, Steps
  <2>2. \/ UNCHANGED <<failed, faults>>
        \/ \E kind \in AllFaults : Fails(kind)
    BY <1>1 DEF CollectListeners, Docker, Podman, DetectContainers, ListUnits, ShowUnits, Attribute,
       DetectPM2, DetectOtherPM2, DetectSupervisor, Loose, Works, AllFaults
  <2>3. failed' \subseteq AllFaults /\ faults' \in Nat
    BY <2>2 DEF HostTypes, Fails
  <2>4. QED
    BY <2>1, <2>3 DEF HostTypes
<1>2. CASE Begin
  BY <1>2 DEF Begin, HostTypes, Steps
<1>3. CASE Report
  BY <1>3 DEF Report, hostVars, HostTypes, Steps
<1>4. ASSUME NEW p \in Procs, Restart(p)
      PROVE  HostTypes'
  BY <1>4, DiscoveryAssumption DEF Restart, HostTypes
<1>5. CASE Expire
  BY <1>5 DEF Expire, Fails, hostVars, HostTypes, AllFaults
<1>6. CASE Quiet \/ UNCHANGED vars
  BY <1>6 DEF Quiet, vars, hostVars, HostTypes
<1>7. QED
  BY <1>1, <1>2, <1>3, <1>4, <1>5, <1>6 DEF Next, Scan

LEMMA FlagTypesStep ==
  ASSUME FlagTypes, [Next]_vars
  PROVE  FlagTypes'
<1>1. degraded' = degraded \/ degraded' \in BOOLEAN
  BY DEF Next, Scan, Begin, CollectListeners, Docker, Podman, DetectContainers, ListUnits, ShowUnits,
     Attribute, DetectPM2, DetectOtherPM2, DetectSupervisor, Loose, Report, Restart, Expire, Quiet, vars,
     Blind
<1>2. expired' = expired \/ expired' \in BOOLEAN
  BY DEF Next, Scan, Begin, CollectListeners, Docker, Podman, DetectContainers, ListUnits, ShowUnits,
     Attribute, DetectPM2, DetectOtherPM2, DetectSupervisor, Loose, Report, Restart, Expire, Quiet, vars,
     Goto
<1>3. QED
  BY <1>1, <1>2 DEF FlagTypes

LEMMA ProcTypes ==
  ASSUME host \in Hosts, born \in [Procs -> 0 .. MaxRestarts], NEW p \in Procs
  PROVE  /\ P(p).app \in Apps /\ P(p).tcp \subseteq Ports /\ P(p).listed \in Lists
         /\ Pid(p) \in Pids
         /\ UnitOf(p) = <<UnitOf(p)[1], UnitOf(p)[2]>> /\ UnitOf(p)[2] \in Apps \union Lists
<1>1. P(p) \in ProcType
  BY DiscoveryAssumption DEF HostType, P
<1>2. P(p).app \in Apps /\ P(p).tcp \subseteq Ports /\ P(p).listed \in Lists
  BY <1>1 DEF ProcType
<1>3. QED
  BY <1>2 DEF Pid, Pids, UnitOf

\* Rows of these fields have a row's types.
RowsTyped(S) == \A r \in S : r.source \in Sources /\ r.ident \in Idents /\ r.pid \in Pids \union {None}

LEMMA TypedRow ==
  ASSUME NEW source \in Sources, NEW ident \in Idents, NEW pid \in Pids \union {None}
  PROVE  RowsTyped({Row(source, ident, pid)})
  BY RowFields DEF RowsTyped

LEMMA AddTypes ==
  ASSUME NEW new, Add(new), RowsTyped(new), RowsTyped(rows), claimed \subseteq Pids
  PROVE  RowsTyped(rows') /\ claimed' \subseteq Pids
  BY DEF Add, RowsTyped

LEMMA FirstOfEachPicks ==
  ASSUME NEW S
  PROVE  FirstOfEach(S) \subseteq S
<1>1. ASSUME NEW a \in {P(q).app : q \in S}
      PROVE  (CHOOSE q \in S : P(q).app = a) \in S
  OBVIOUS
<1>2. QED
  BY <1>1 DEF FirstOfEach

\* The rows of the layers.
LEMMA LayerRows ==
  ASSUME host \in Hosts, born \in [Procs -> 0 .. MaxRestarts], NEW p \in Procs
  PROVE  /\ \A engine \in Engines : RowsTyped({Row(engine, P(p).app, None)})
         /\ RowsTyped({Row("pm2", P(p).app, Pid(p))})
         /\ RowsTyped({Row("pm2", <<"pm2other", P(p).app>>, Pid(p))})
         /\ RowsTyped({Row("supervisor", P(p).app, Pid(p))})
<1>1. P(p).app \in Idents /\ <<"pm2other", P(p).app>> \in Idents
  BY ProcTypes DEF Idents
<1>2. Engines \union {"pm2", "supervisor"} \subseteq Sources
  BY DEF Sources
<1>3. Pid(p) \in Pids
  BY ProcTypes
<1>4. QED
  BY <1>1, <1>2, <1>3, TypedRow

LEMMA LooseTyped ==
  ASSUME HostTypes, FoundTypes, NEW pid \in LeftPids
  PROVE  pid \in Pids /\ RowsTyped({LooseRow(pid)})
<1> DEFINE S == {s.port : s \in {t \in Left : t.pid = pid}}
<1>1. pid \in Pids
  BY DEF LeftPids, Left, FoundTypes
<1>2. S # {} /\ S \subseteq Ports
  BY DEF LeftPids, Left, FoundTypes
<1>3. \E n \in S : \A m \in S : n <= m
  BY <1>2, Least, DiscoveryAssumption
<1> HIDE DEF S
<1>4. LooseIdent(pid, S) \in Apps \X Ports
  <2> DEFINE least == CHOOSE n \in S : \A m \in S : n <= m
  <2>1. least \in S /\ LooseIdent(pid, S) = <<P(pid[1]).app, least>>
    BY <1>3 DEF LooseIdent
  <2>2. pid[1] \in Procs
    BY <1>1 DEF Pids
  <2>3. P(pid[1]).app \in Apps
    BY <2>2, ProcTypes DEF HostTypes
  <2> HIDE DEF least
  <2>4. QED
    BY <1>2, <2>1, <2>3
<1>5. LooseRow(pid) = Row("process", LooseIdent(pid, S), pid)
  BY DEF LooseRow, S
<1>6. QED
  BY <1>1, <1>4, <1>5, TypedRow DEF Sources, Idents

LEMMA FoundRowTypesStep ==
  ASSUME HostTypes, FoundTypes, RowTypes, [Next]_vars
  PROVE  FoundTypes' /\ RowTypes'
<1>0. /\ host \in Hosts /\ born \in [Procs -> 0 .. MaxRestarts]
      /\ RowsTyped(rows) /\ claimed \subseteq Pids
  BY DEF HostTypes, RowTypes, RowsTyped, FoundTypes
<1>1. host' = host
  BY DEF Next, Scan, Begin, CollectListeners, Docker, Podman, DetectContainers, ListUnits, ShowUnits,
     Attribute, DetectPM2, DetectOtherPM2, DetectSupervisor, Loose, Report, Restart, Expire, Quiet, vars,
     Goto, hostVars
<1>2. Units' = Units
  BY <1>1 DEF Units, UnitOf, P
<1>3. ASSUME UNCHANGED <<socks, shown, before>>, RowsTyped(rows'), claimed' \subseteq Pids
      PROVE  FoundTypes' /\ RowTypes'
  BY <1>2, <1>3 DEF FoundTypes, RowTypes, RowsTyped
<1>4. ASSUME UNCHANGED <<socks, shown, before, rows, claimed>>
      PROVE  FoundTypes' /\ RowTypes'
  BY <1>0, <1>3, <1>4
<1>5. CASE Begin
  BY <1>5, <1>2 DEF Begin, FoundTypes, RowTypes
<1>6. CASE CollectListeners
  <2>1. ASSUME NEW p \in Procs
        PROVE  [pid : {SocketPid(p)}, port : P(p).tcp]
                 \subseteq [pid : Pids \union {None}, port : Ports]
    <3>1. SocketPid(p) \in Pids \union {None}
      BY <1>0, ProcTypes DEF SocketPid
    <3>2. P(p).tcp \subseteq Ports
      BY <1>0, ProcTypes
    <3>3. QED
      BY <3>1, <3>2
  <2>2. socks' \subseteq [pid : Pids \union {None}, port : Ports]
    <3>1. socks' = socks \/ socks' = Listening
      BY <1>6 DEF CollectListeners
    <3>2. QED
      BY <2>1, <3>1 DEF FoundTypes, Listening
  <2>3. UNCHANGED <<shown, claimed, rows, before>>
    BY <1>6 DEF CollectListeners, Goto
  <2>4. QED
    BY <1>2, <2>2, <2>3 DEF FoundTypes, RowTypes
<1>7. ASSUME NEW engine \in Engines, NEW next, DetectContainers(engine, next)
      PROVE  FoundTypes' /\ RowTypes'
  <2> DEFINE new == {Row(engine, P(p).app, None) : p \in {q \in Procs : P(q).listed = engine}}
  <2>1. RowsTyped(new)
    BY <1>0, LayerRows DEF RowsTyped
  <2>2. UNCHANGED <<socks, shown, before>> /\ (Add(new) \/ UNCHANGED <<rows, claimed>>)
    BY <1>7 DEF DetectContainers, Goto
  <2> HIDE DEF new
  <2>3. QED
    BY <1>0, <1>3, <1>4, <2>1, <2>2, AddTypes
<1>8. CASE Docker \/ Podman
  BY <1>7, <1>8 DEF Docker, Podman, Engines
<1>9. CASE ListUnits
  BY <1>4, <1>9 DEF ListUnits, foundVars, Goto
<1>10. CASE ShowUnits
  <2>1. UNCHANGED <<socks, claimed, rows, before>>
    BY <1>10 DEF ShowUnits, Goto
  <2>2. Listed \subseteq Units
    BY DEF Listed
  <2>3. shown' \subseteq [unit : Units, main : Pids \union {None}]
    BY <1>10, <2>2 DEF ShowUnits, FoundTypes
  <2>4. QED
    BY <1>2, <2>1, <2>3 DEF FoundTypes, RowTypes
<1>11. CASE Attribute
  <2> DEFINE Serving == {UnitOf(s.pid[1]) : s \in OfUnits}
             Chosen  == {u \in shown : \/ u.unit[1] = "operator"
                                       \/ u.unit[1] = "distro" /\ u.unit \in Serving}
             Mains   == {u.main : u \in Chosen} \ {None}
             new     == {Row("systemd", u.unit, u.main) : u \in Chosen}
  <2>1. /\ UNCHANGED <<socks, shown, before>>
        /\ rows' = rows \union new /\ claimed' = claimed \union UnitPids \union Mains
    BY <1>11 DEF Attribute, Goto
  <2>2. UnitPids \subseteq Pids /\ Mains \subseteq Pids
    BY DEF UnitPids, OfUnits, FoundTypes
  <2>3. ASSUME NEW u \in Chosen
        PROVE  RowsTyped({Row("systemd", u.unit, u.main)})
    <3>1. u.unit \in Units /\ u.main \in Pids \union {None} /\ u.unit[1] \in {"operator", "distro"}
      BY DEF FoundTypes
    <3>2. PICK p \in Procs : u.unit = UnitOf(p)
      BY <3>1 DEF Units
    <3>3. UnitOf(p) \in {"operator", "distro"} \X (Apps \union Lists)
      BY <1>0, <3>1, <3>2, ProcTypes
    <3>4. QED
      BY <3>1, <3>2, <3>3, TypedRow DEF Sources, Idents
  <2> HIDE DEF Chosen, Mains
  <2>4. RowsTyped(new)
    BY <2>3 DEF RowsTyped
  <2> HIDE DEF new
  <2>5. RowsTyped(rows') /\ claimed' \subseteq Pids
    BY <1>0, <2>1, <2>2, <2>4 DEF RowsTyped
  <2>6. QED
    BY <1>3, <2>1, <2>5
<1>12. CASE DetectPM2
  <2> DEFINE S   == FirstOfEach({q \in Procs : P(q).listed = "pm2"})
             new == {Row("pm2", P(p).app, Pid(p)) : p \in S}
  <2>1. S \subseteq Procs
    BY FirstOfEachPicks
  <2>2. UNCHANGED <<socks, shown, before>> /\ (Add(new) \/ UNCHANGED <<rows, claimed>>)
    BY <1>12 DEF DetectPM2, Goto
  <2> HIDE DEF S
  <2>3. RowsTyped(new)
    BY <1>0, <2>1, LayerRows DEF RowsTyped
  <2> HIDE DEF new
  <2>4. QED
    BY <1>0, <1>3, <1>4, <2>2, <2>3, AddTypes
<1>13. CASE DetectOtherPM2
  <2> DEFINE S   == FirstOfEach({q \in Procs : P(q).listed = "pm2other"})
             new == {Row("pm2", <<"pm2other", P(p).app>>, Pid(p)) : p \in S}
  <2>1. S \subseteq Procs
    BY FirstOfEachPicks
  <2>2. UNCHANGED <<socks, shown, before>> /\ (Add(new) \/ UNCHANGED <<rows, claimed>>)
    BY <1>13 DEF DetectOtherPM2, Goto
  <2> HIDE DEF S
  <2>3. RowsTyped(new)
    BY <1>0, <2>1, LayerRows DEF RowsTyped
  <2> HIDE DEF new
  <2>4. QED
    BY <1>0, <1>3, <1>4, <2>2, <2>3, AddTypes
<1>14. CASE DetectSupervisor
  <2> DEFINE S   == {q \in Procs : P(q).listed = "supervisor"}
             new == {Row("supervisor", P(p).app, Pid(p)) : p \in S}
  <2>1. UNCHANGED <<socks, shown, before>> /\ (Add(new) \/ UNCHANGED <<rows, claimed>>)
    BY <1>14 DEF DetectSupervisor, Goto
  <2>2. RowsTyped(new)
    BY <1>0, LayerRows DEF RowsTyped
  <2> HIDE DEF new
  <2>3. QED
    BY <1>0, <1>3, <1>4, <2>1, <2>2, AddTypes
<1>15. CASE Loose
  <2> DEFINE new == {LooseRow(pid) : pid \in LeftPids}
  <2>1. /\ UNCHANGED <<socks, shown, before>>
        /\ rows' = rows \union new /\ claimed' = claimed \union LeftPids
    BY <1>15, LooseEffect DEF Loose, Goto
  <2>2. LeftPids \subseteq Pids /\ RowsTyped(new)
    BY LooseTyped DEF RowsTyped
  <2> HIDE DEF new
  <2>3. RowsTyped(rows') /\ claimed' \subseteq Pids
    BY <1>0, <2>1, <2>2 DEF RowsTyped
  <2>4. QED
    BY <1>3, <2>1, <2>3
<1>16. CASE Report
  <2>1. UNCHANGED <<socks, shown, claimed, rows>> /\ (before' = Identifiers \/ before' = before)
    BY <1>16 DEF Report, foundVars
  <2>2. Identifiers \subseteq Sources \X Idents
    BY <1>0 DEF Identifiers, RowsTyped
  <2>3. QED
    BY <1>2, <2>1, <2>2 DEF FoundTypes, RowTypes
<1>17. ASSUME NEW p \in Procs, Restart(p)
       PROVE  FoundTypes' /\ RowTypes'
  BY <1>4, <1>17 DEF Restart, foundVars
<1>18. CASE Expire \/ Quiet \/ UNCHANGED vars
  BY <1>4, <1>18 DEF Expire, Quiet, vars, foundVars
<1>19. QED
  BY <1>5, <1>6, <1>8, <1>9, <1>10, <1>11, <1>12, <1>13, <1>14, <1>15, <1>16, <1>17, <1>18
  DEF Next, Scan

\* TypeOK is an invariant: identifiers, PIDs and claims stay what the layers make.
THEOREM TypeCorrect == Spec => []TypeOK
<1>1. Init => TypeOK
  <2>1. Init => HostTypes
    BY DiscoveryAssumption DEF Init, HostTypes, Steps
  <2>2. Init => FlagTypes
    BY DEF Init, FlagTypes
  <2>3. Init => FoundTypes /\ RowTypes
    BY DEF Init, FoundTypes, RowTypes
  <2>4. QED
    BY <2>1, <2>2, <2>3, TypeParts
<1>2. TypeOK /\ [Next]_vars => TypeOK'
  <2>1. HostTypes' /\ FlagTypes' /\ FoundTypes' /\ RowTypes' => TypeOK'
    BY DEF TypeOK, HostTypes, FlagTypes, FoundTypes, RowTypes
  <2>2. QED
    BY <2>1, TypeParts, HostTypesStep, FlagTypesStep, FoundRowTypesStep
<1>3. QED
  BY <1>1, <1>2, PTL DEF Spec

----------------------------------------------------------------------------
(* Nothing is lost but in the ways that are named                          *)

Sound == ~degraded /\ "sstcp" \notin failed

Shown(p) == \E r \in rows : Shows(r, p)

Serves(p) == P(p).tcp # {}
Seen(p)   == Serves(p) /\ Visible(p)

InUnit(p) == ~InContainer(p) /\ P(p).unit \in {"operator", "distro"}
Alone(p)  == ~InContainer(p) /\ P(p).unit = "none"

\* There is a systemctl, and it has not failed to show the units.
Tells == "systemctl" \in host.tools /\ "show" \notin failed

\* What each layer has found of a process that has not restarted, in the order of
\* the layers; why it is claimed if nobody owns it.
Heard(p) ==
  step \notin {"idle", "listeners"} /\ Seen(p) => \E s \in socks : s.pid = Pid(p)
Asked(engine, p) == P(p).listed = engine /\ engine \in host.tools
Contained(p) ==
  /\ Asked("docker", p) /\ step \notin {"idle", "listeners", "docker"} => Shown(p)
  /\ Asked("podman", p) /\ step \notin {"idle", "listeners", "docker", "podman"} => Shown(p)
UnitKnown(p) ==
  step = "attribute" /\ InUnit(p) /\ Tells => \E u \in shown : u.unit = UnitOf(p)
UnitShown(p) ==
  step \in {"pm2", "pm2other", "supervisor", "loose"} /\ Seen(p) /\ InUnit(p) /\ Tells => Shown(p)
MainKnown(p)  == \A u \in shown : u.main = Pid(p) => P(p).unit # "none"
ClaimKnown(p) == Alone(p) /\ Pid(p) \in claimed => Shown(p)
Found(p) ==
  step = "reported" /\ Serves(p) /\ ~LeftOut(p) /\ ~SilentlyLost(p) => Shown(p)

FoundOf(p) ==
  Heard(p) /\ Contained(p) /\ UnitKnown(p) /\ UnitShown(p) /\ MainKnown(p) /\ ClaimKnown(p) /\ Found(p)

FoundInv ==
  /\ host \in Hosts /\ born \in [Procs -> 0 .. MaxRestarts]
  /\ step = "listeners" => claimed = {} /\ shown = {}
  /\ Sound /\ step # "idle" => \A p \in Procs \ moved : FoundOf(p)

LEMMA HostFacts ==
  ASSUME host \in Hosts, NEW p \in Procs
  PROVE  P(p).unit \in {"none", "operator", "distro", "inactive", "skipped"}
<1>1. host \in HostType
  BY DiscoveryAssumption
<1>2. P(p) \in ProcType
  BY <1>1 DEF HostType, P
<1>3. QED
  BY <1>2 DEF ProcType

LEMMA PidFacts ==
  ASSUME born \in [Procs -> 0 .. MaxRestarts], NEW p \in Procs
  PROVE  /\ Pid(p) # None /\ Pid(p)[1] = p
         /\ \A q \in Procs : Pid(q) = Pid(p) => q = p
<1>1. Pid(p) \in Procs \X Nat
  BY DiscoveryAssumption DEF Pid
<1>2. QED
  BY <1>1, DiscoveryAssumption DEF Pid

LEMMA OwnerFacts ==
  ASSUME NEW p
  PROVE  /\ Alone(p) => Owner(Pid(p)) = "none"
         /\ InUnit(p) => Owner(Pid(p)) = "systemd"
         /\ Owner(Pid(p)) = "systemd" => ~Alone(p)
  BY DEF Alone, InUnit, Owner, Pid

\* What stays as it is while the scan goes on.
LEMMA HostStays ==
  ASSUME UNCHANGED <<host, born>>, NEW p
  PROVE  /\ Pid(p)' = Pid(p) /\ P(p)' = P(p) /\ UnitOf(p)' = UnitOf(p)
         /\ InContainer(p)' <=> InContainer(p)
         /\ LeftOut(p)' <=> LeftOut(p)
         /\ Visible(p)' <=> Visible(p)
         /\ \A engine : Asked(engine, p)' <=> Asked(engine, p)
  BY DEF Pid, P, UnitOf, InContainer, LeftOut, Visible, Asked

LEMMA ShownStays ==
  ASSUME UNCHANGED <<host, born>>, NEW p, Shown(p), rows \subseteq rows'
  PROVE  Shown(p)'
  BY HostStays DEF Shown, Shows

LEMMA FailsAdds ==
  ASSUME NEW kind, Fails(kind)
  PROVE  failed' = failed \union {kind}
  BY DEF Fails

LEMMA FailuresGrow ==
  ASSUME \/ Layers \/ Loose \/ Expire \/ (\E p \in Procs : Restart(p)) \/ Report
  PROVE  failed \subseteq failed'
  BY FailsAdds DEF Layers, CollectListeners, Docker, Podman, DetectContainers, ListUnits, ShowUnits,
     Attribute, DetectPM2, DetectOtherPM2, DetectSupervisor, Loose, Expire, Restart, Report, Works

\* Failures add to the ways to lose a process.
LEMMA LossesGrow ==
  ASSUME UNCHANGED host, failed \subseteq failed', NEW p
  PROVE  /\ Tells' => Tells
         /\ SilentlyLost(p) => SilentlyLost(p)'
  BY DEF Tells, SilentlyLost, Visible, InContainer, P

\* A layer that leaves the scan sound has worked.
LEMMA ContainersWork ==
  ASSUME NEW engine, NEW next, DetectContainers(engine, next), Sound'
  PROVE  /\ Sound
         /\ engine \in host.tools =>
              Add({Row(engine, P(p).app, None) : p \in {q \in Procs : P(q).listed = engine}})
<1>1. ~degraded'
  BY DEF Sound
<1>2. degraded' = TRUE => degraded'
  OBVIOUS
<1>3. ASSUME engine \in host.tools
      PROVE  UNCHANGED <<degraded, failed>> /\
             Add({Row(engine, P(p).app, None) : p \in {q \in Procs : P(q).listed = engine}})
  BY <1>1, <1>2, <1>3 DEF DetectContainers, Works
<1>4. ASSUME engine \notin host.tools
      PROVE  UNCHANGED <<degraded, failed>>
  BY <1>4 DEF DetectContainers
<1>5. UNCHANGED <<degraded, failed>> => Sound
  BY DEF Sound
<1>6. QED
  BY <1>3, <1>4, <1>5

LEMMA ListingWorks ==
  ASSUME ListUnits, Sound'
  PROVE  /\ Sound /\ step = "list"
         /\ step' = (IF "systemctl" \in host.tools /\ Listed # {} THEN "show" ELSE "pm2")
         /\ UNCHANGED <<host, born, moved, socks, shown, claimed, rows, failed>>
<1>1. ~degraded'
  BY DEF Sound
<1>2. degraded' = TRUE => degraded'
  OBVIOUS
<1>3. /\ Goto("list", IF "systemctl" \in host.tools /\ Listed # {} THEN "show" ELSE "pm2")
      /\ UNCHANGED <<degraded, failed>>
  BY <1>1, <1>2 DEF ListUnits, Works
<1>4. QED
  BY <1>3 DEF ListUnits, foundVars, Goto, hostVars, Sound

LEMMA ShowingWorks ==
  ASSUME ShowUnits, Sound'
  PROVE  /\ Sound /\ step = "show" /\ step' = "attribute"
         /\ UNCHANGED <<host, born, moved, socks, claimed, rows>>
         /\ \/ "show" \in failed' /\ UNCHANGED shown
            \/ \E main \in [Listed -> Pids \union {None}] :
                 /\ \A u \in Listed : main[u] \in MainPids(u)
                 /\ shown' = {[unit |-> u, main |-> main[u]] : u \in Listed}
<1>1. failed \subseteq failed'
  BY FailuresGrow DEF Layers
<1>2. QED
  BY <1>1, FailsAdds DEF ShowUnits, Works, Goto, hostVars, Sound

\* The layers after the units and the budget add to the failures at most.
LEMMA LaterSound ==
  ASSUME \/ Attribute \/ DetectPM2 \/ DetectOtherPM2 \/ DetectSupervisor \/ Loose \/ Report
         \/ Expire \/ (\E p \in Procs : Restart(p)),
         Sound'
  PROVE  Sound
<1>1. degraded' = degraded
  BY DEF Attribute, DetectPM2, DetectOtherPM2, DetectSupervisor, Loose, Report, Expire, Restart
<1>2. failed \subseteq failed'
  BY FailsAdds DEF Attribute, DetectPM2, DetectOtherPM2, DetectSupervisor, Loose, Report, Expire,
     Restart, Works
<1>3. QED
  BY <1>1, <1>2 DEF Sound

LEMMA ListeningWorks ==
  ASSUME CollectListeners, Sound', NEW p \in Procs, Seen(p)
  PROVE  \E s \in socks' : s.pid = Pid(p)
<1>1. ~degraded' /\ "sstcp" \notin failed'
  BY DEF Sound
<1>2. degraded' = TRUE => degraded'
  OBVIOUS
<1>3. ~ Fails("sstcp")
  BY <1>1, FailsAdds
<1>4. socks' = Listening
  BY <1>1, <1>2, <1>3 DEF CollectListeners
<1>5. PICK n : n \in P(p).tcp
  BY DEF Seen, Serves
<1>6. [pid |-> SocketPid(p), port |-> n] \in socks'
  BY <1>4, <1>5 DEF Listening
<1>7. QED
  BY <1>6 DEF SocketPid, Seen

LEMMA ShownBy ==
  ASSUME UNCHANGED <<host, born>>, NEW p, NEW r \in rows', Shows(r, p)
  PROVE  Shown(p)'
<1>1. Shows(r, p)'
  BY HostStays DEF Shows
<1>2. QED
  BY <1>1 DEF Shown

\* A layer that adds rows with claims shows whom it claims: what was found stays.
LEMMA AddKeeps ==
  ASSUME NEW new, Add(new), NEW p, UNCHANGED <<host, born>>,
         \A r \in new : r.pid = Pid(p) /\ Pid(p) # None /\ Alone(p) => Shows(r, p),
         ClaimKnown(p)
  PROVE  ClaimKnown(p)' /\ (Shown(p) => Shown(p)')
<1>1. Shown(p) => Shown(p)'
  BY ShownStays DEF Add
<1>2. Alone(p)' <=> Alone(p)
  BY HostStays DEF Alone
<1>3. ASSUME Alone(p), Pid(p) \in claimed'
      PROVE  Shown(p)'
  <2>1. CASE Pid(p) \in claimed
    BY <1>1, <1>3, <2>1 DEF ClaimKnown
  <2>2. CASE Pid(p) \notin claimed
    <3>1. PICK r \in new : r.pid = Pid(p) /\ Pid(p) # None
      BY <1>3, <2>2 DEF Add
    <3>2. r \in rows' /\ Shows(r, p)
      BY <1>3, <3>1 DEF Add
    <3>3. QED
      BY <3>2, ShownBy
  <2>3. QED
    BY <2>1, <2>2
<1>4. QED
  BY <1>1, <1>2, <1>3, HostStays DEF ClaimKnown

\* The parts of FoundOf that only time, sockets and units bear on.
LEMMA OthersStay ==
  ASSUME UNCHANGED <<host, born, shown>>, NEW p
  PROVE  /\ UNCHANGED socks /\ step \notin {"idle", "listeners"} /\ Heard(p) => Heard(p)'
         /\ MainKnown(p) => MainKnown(p)'
         /\ Serves(p)' <=> Serves(p)
         /\ Seen(p)' <=> Seen(p)
         /\ InUnit(p)' <=> InUnit(p)
<1>1. (Serves(p)' <=> Serves(p)) /\ (Seen(p)' <=> Seen(p)) /\ (InUnit(p)' <=> InUnit(p))
  BY HostStays DEF Serves, Seen, InUnit
<1>2. QED
  BY <1>1, HostStays DEF Heard, MainKnown

LEMMA ContainersFound ==
  ASSUME NEW engine \in Engines, NEW next, DetectContainers(engine, next), Sound',
         engine = "docker" => next = "podman", engine = "podman" => next = "list",
         host \in Hosts, born \in [Procs -> 0 .. MaxRestarts],
         NEW p \in Procs, FoundOf(p)
  PROVE  FoundOf(p)'
<1>1. /\ UNCHANGED <<host, born, socks, shown>> /\ step = engine /\ step' = next
  BY DEF DetectContainers, Goto, hostVars
<1> DEFINE new == {Row(engine, P(q).app, None) : q \in {q \in Procs : P(q).listed = engine}}
<1>2. CASE engine \notin host.tools
  <2>1. UNCHANGED <<rows, claimed>> /\ ~Asked(engine, p)
    BY <1>2 DEF DetectContainers, Asked
  <2>2. (Shown(p) => Shown(p)') /\ (ClaimKnown(p) => ClaimKnown(p)')
    BY <1>1, <2>1, ShownStays, HostStays DEF ClaimKnown, Alone
  <2>3. Contained(p)'
    BY <1>1, <2>1, <2>2, HostStays DEF Contained, FoundOf, Engines
  <2>4. QED
    BY <1>1, <2>2, <2>3, OthersStay DEF FoundOf, UnitKnown, UnitShown, Found, Engines
<1>3. CASE engine \in host.tools
  <2>1. Add(new)
    BY <1>3, ContainersWork
  <2>2. \A r \in new : r.pid = None
    BY RowFields
  <2>3. ClaimKnown(p)' /\ (Shown(p) => Shown(p)')
    BY <1>1, <2>1, <2>2, AddKeeps DEF FoundOf
  <2>4. P(p).listed = engine => Shown(p)'
    <3>1. ASSUME P(p).listed = engine
          PROVE  Row(engine, P(p).app, None) \in rows'
      BY <2>1, <3>1 DEF Add
    <3>2. P(p).listed = engine => Shows(Row(engine, P(p).app, None), p)
      BY RowFields DEF Shows
    <3>3. QED
      BY <1>1, <3>1, <3>2, ShownBy
  <2>5. Contained(p)'
    <3>1. Asked(engine, p) => Shown(p)'
      BY <2>4 DEF Asked
    <3>2. QED
      BY <1>1, <2>3, <3>1, HostStays DEF Contained, FoundOf, Engines
  <2>6. QED
    BY <1>1, <2>3, <2>5, OthersStay DEF FoundOf, UnitKnown, UnitShown, Found, Engines
<1>4. QED
  BY <1>2, <1>3

LEMMA FirstFound ==
  ASSUME CollectListeners, Sound', NEW p \in Procs,
         claimed = {}, shown = {}
  PROVE  FoundOf(p)'
<1>1. /\ UNCHANGED <<host, born, claimed, shown>> /\ step' = "docker"
  BY DEF CollectListeners, Goto, hostVars
<1>2. Heard(p)'
  <2>1. Seen(p)' <=> Seen(p)
    BY <1>1, HostStays DEF Seen, Serves
  <2>2. QED
    BY <1>1, <2>1, ListeningWorks, HostStays DEF Heard
<1>3. QED
  BY <1>1, <1>2 DEF FoundOf, Contained, UnitKnown, UnitShown, MainKnown, ClaimKnown, Found

\* A unit that is installed is listed.
LEMMA UnitListed ==
  ASSUME NEW p \in Procs, InUnit(p)
  PROVE  UnitOf(p) \in Listed
<1>1. UnitOf(p) \in Units
  BY DEF Units, InUnit
<1>2. UnitOf(p)[1] = P(p).unit
  BY DEF UnitOf
<1>3. QED
  BY <1>1, <1>2 DEF Listed, InUnit

LEMMA ListingFound ==
  ASSUME ListUnits, Sound', NEW p \in Procs, FoundOf(p)
  PROVE  FoundOf(p)'
<1>1. /\ step = "list"
      /\ step' = (IF "systemctl" \in host.tools /\ Listed # {} THEN "show" ELSE "pm2")
      /\ UNCHANGED <<host, born, socks, shown, claimed, rows>>
  BY ListingWorks
<1>2. step' \in {"pm2", "show"} /\ (InUnit(p) /\ Tells' => step' = "show")
  <2>1. Tells' => "systemctl" \in host.tools
    BY <1>1 DEF Tells
  <2>2. QED
    BY <1>1, <2>1, UnitListed
<1>3. (Shown(p) => Shown(p)') /\ (ClaimKnown(p) => ClaimKnown(p)')
  BY <1>1, ShownStays, HostStays DEF ClaimKnown, Alone
<1>4. Contained(p)' /\ UnitShown(p)'
  BY <1>1, <1>2, <1>3, HostStays, OthersStay DEF FoundOf, Contained, UnitShown
<1>5. QED
  BY <1>1, <1>2, <1>3, <1>4, OthersStay DEF FoundOf, UnitKnown, Found

LEMMA ShowingFound ==
  ASSUME ShowUnits, Sound', host \in Hosts, born \in [Procs -> 0 .. MaxRestarts],
         NEW p \in Procs, FoundOf(p)
  PROVE  FoundOf(p)'
<1>1. /\ step = "show" /\ step' = "attribute"
      /\ UNCHANGED <<host, born, socks, claimed, rows>>
  BY ShowingWorks
<1>2. (Shown(p) => Shown(p)') /\ (ClaimKnown(p) => ClaimKnown(p)')
  BY <1>1, ShownStays, HostStays DEF ClaimKnown, Alone
<1>3. Contained(p)' /\ UnitShown(p)'
  BY <1>1, <1>2, HostStays DEF FoundOf, Contained, UnitShown
<1>4. Heard(p)'
  <2>1. Seen(p)' <=> Seen(p)
    BY <1>1, HostStays DEF Seen, Serves
  <2>2. QED
    BY <1>1, <2>1, HostStays DEF FoundOf, Heard
<1>5. UnitKnown(p)' /\ MainKnown(p)'
  <2>1. CASE "show" \in failed' /\ UNCHANGED shown
    <3>1. MainKnown(p)'
      BY <1>1, <2>1, OthersStay DEF FoundOf
    <3>2. ~Tells'
      BY <2>1 DEF Tells
    <3>3. QED
      BY <3>1, <3>2 DEF UnitKnown
  <2>2. ASSUME NEW main \in [Listed -> Pids \union {None}],
               \A u \in Listed : main[u] \in MainPids(u),
               shown' = {[unit |-> u, main |-> main[u]] : u \in Listed}
        PROVE  UnitKnown(p)' /\ MainKnown(p)'
    <3>1. UnitKnown(p)'
      <4>1. InUnit(p)' <=> InUnit(p)
        BY <1>1, HostStays DEF InUnit
      <4>2. ASSUME InUnit(p)
            PROVE  \E u \in shown' : u.unit = UnitOf(p)
        <5>1. [unit |-> UnitOf(p), main |-> main[UnitOf(p)]] \in shown'
          BY <2>2, <4>2, UnitListed
        <5>2. QED
          BY <5>1
      <4>3. QED
        BY <1>1, <4>1, <4>2, HostStays DEF UnitKnown
    <3>2. ASSUME NEW u \in Listed, main[u] = Pid(p)
          PROVE  P(p).unit # "none"
      <4>1. Pid(p) \in MainPids(u) /\ Pid(p) # None
        BY <2>2, <3>2, PidFacts
      <4>2. PICK q \in Procs : P(q).unit # "none" /\ Pid(q) = Pid(p)
        BY <4>1 DEF MainPids
      <4>3. QED
        BY <4>2, PidFacts
    <3>3. \A u \in shown' : u.main = Pid(p) => P(p).unit # "none"
      BY <2>2, <3>2
    <3>4. MainKnown(p)'
      BY <1>1, <3>3, HostStays DEF MainKnown
    <3>5. QED
      BY <3>1, <3>4
  <2>3. QED
    BY <2>1, <2>2, ShowingWorks
<1>6. QED
  BY <1>1, <1>2, <1>3, <1>4, <1>5 DEF FoundOf, Found

LEMMA UnitsFound ==
  ASSUME Attribute, host \in Hosts, born \in [Procs -> 0 .. MaxRestarts],
         NEW p \in Procs, FoundOf(p)
  PROVE  FoundOf(p)'
<1> DEFINE Serving == {UnitOf(s.pid[1]) : s \in OfUnits}
           Chosen  == {u \in shown : \/ u.unit[1] = "operator"
                                     \/ u.unit[1] = "distro" /\ u.unit \in Serving}
           Mains   == {u.main : u \in Chosen} \ {None}
           new     == {Row("systemd", u.unit, u.main) : u \in Chosen}
<1>1. /\ UNCHANGED <<host, born, socks, shown>> /\ step = "attribute" /\ step' = "pm2"
      /\ rows' = rows \union new /\ claimed' = claimed \union UnitPids \union Mains
  BY DEF Attribute, Goto, hostVars
<1>2. Shown(p) => Shown(p)'
  BY <1>1, ShownStays
<1>3. Alone(p) /\ Pid(p) \in claimed' => Pid(p) \in claimed
  <2>1. Alone(p) => Pid(p) \notin UnitPids
    BY OwnerFacts DEF UnitPids, OfUnits
  <2>2. Alone(p) => Pid(p) \notin Mains
    BY DEF FoundOf, MainKnown, Alone
  <2> HIDE DEF Mains
  <2>3. QED
    BY <1>1, <2>1, <2>2
<1>4. ClaimKnown(p)'
  BY <1>1, <1>2, <1>3, HostStays DEF FoundOf, ClaimKnown, Alone
<1>5. ASSUME Seen(p), InUnit(p), Tells
      PROVE  Shown(p)'
  <2>1. PICK u \in shown : u.unit = UnitOf(p)
    BY <1>1, <1>5 DEF FoundOf, UnitKnown
  <2>2. PICK s \in socks : s.pid = Pid(p)
    BY <1>1, <1>5 DEF FoundOf, Heard
  <2>3. s \in OfUnits /\ UnitOf(s.pid[1]) = UnitOf(p)
    BY <1>5, <2>2, PidFacts, OwnerFacts DEF OfUnits
  <2>4. UnitOf(p)[1] = P(p).unit
    BY DEF UnitOf
  <2>5. u \in Chosen
    BY <1>5, <2>1, <2>3, <2>4 DEF InUnit
  <2>6. Row("systemd", u.unit, u.main) \in rows'
    BY <1>1, <2>5
  <2>7. Shows(Row("systemd", u.unit, u.main), p)
    BY <2>1, RowFields DEF Shows
  <2>8. QED
    BY <1>1, <2>6, <2>7, ShownBy
<1>6. Tells' => Tells
  BY <1>1, FailuresGrow, LossesGrow DEF Layers
<1>7. Contained(p)' /\ UnitShown(p)'
  BY <1>1, <1>2, <1>5, <1>6, HostStays, OthersStay DEF FoundOf, Contained, UnitShown
<1>8. QED
  BY <1>1, <1>2, <1>4, <1>7, OthersStay DEF FoundOf, UnitKnown, Found

\* PM2 and supervisor claim the processes they list, and show them.
LEMMA ManagersFound ==
  ASSUME DetectPM2 \/ DetectOtherPM2 \/ DetectSupervisor,
         born \in [Procs -> 0 .. MaxRestarts], NEW p \in Procs, FoundOf(p)
  PROVE  FoundOf(p)'
<1>1. /\ UNCHANGED <<host, born, socks, shown>>
      /\ step \in {"pm2", "pm2other", "supervisor"} /\ step' \in {"pm2other", "supervisor", "loose"}
  BY DEF DetectPM2, DetectOtherPM2, DetectSupervisor, Goto, hostVars
<1>2. ASSUME NEW S \in SUBSET Procs, \A q \in S : P(q).listed = "pm2",
             Add({Row("pm2", P(q).app, Pid(q)) : q \in S})
      PROVE  ClaimKnown(p)' /\ (Shown(p) => Shown(p)')
  <2> DEFINE new == {Row("pm2", P(q).app, Pid(q)) : q \in S}
  <2>1. ASSUME NEW r \in new, r.pid = Pid(p)
        PROVE  Shows(r, p)
    <3>1. PICK q \in S : r = Row("pm2", P(q).app, Pid(q))
      OBVIOUS
    <3>2. q = p
      BY <2>1, <3>1, RowFields, PidFacts
    <3>3. QED
      BY <1>2, <3>1, <3>2, RowFields DEF Shows
  <2> HIDE DEF new
  <2>2. QED
    BY <1>1, <1>2, <2>1, AddKeeps DEF FoundOf, new
<1>3. ASSUME NEW S \in SUBSET Procs, \A q \in S : P(q).listed = "pm2other",
             Add({Row("pm2", <<"pm2other", P(q).app>>, Pid(q)) : q \in S})
      PROVE  ClaimKnown(p)' /\ (Shown(p) => Shown(p)')
  <2> DEFINE new == {Row("pm2", <<"pm2other", P(q).app>>, Pid(q)) : q \in S}
  <2>1. ASSUME NEW r \in new, r.pid = Pid(p)
        PROVE  Shows(r, p)
    <3>1. PICK q \in S : r = Row("pm2", <<"pm2other", P(q).app>>, Pid(q))
      OBVIOUS
    <3>2. q = p
      BY <2>1, <3>1, RowFields, PidFacts
    <3>3. QED
      BY <1>3, <3>1, <3>2, RowFields DEF Shows
  <2> HIDE DEF new
  <2>2. QED
    BY <1>1, <1>3, <2>1, AddKeeps DEF FoundOf, new
<1>4. ASSUME NEW S \in SUBSET Procs, \A q \in S : P(q).listed = "supervisor",
             Add({Row("supervisor", P(q).app, Pid(q)) : q \in S})
      PROVE  ClaimKnown(p)' /\ (Shown(p) => Shown(p)')
  <2> DEFINE new == {Row("supervisor", P(q).app, Pid(q)) : q \in S}
  <2>1. ASSUME NEW r \in new, r.pid = Pid(p)
        PROVE  Shows(r, p)
    <3>1. PICK q \in S : r = Row("supervisor", P(q).app, Pid(q))
      OBVIOUS
    <3>2. q = p
      BY <2>1, <3>1, RowFields, PidFacts
    <3>3. QED
      BY <1>4, <3>1, <3>2, RowFields DEF Shows
  <2> HIDE DEF new
  <2>2. QED
    BY <1>1, <1>4, <2>1, AddKeeps DEF FoundOf, new
<1>5. ASSUME UNCHANGED <<rows, claimed>>
      PROVE  ClaimKnown(p)' /\ (Shown(p) => Shown(p)')
  BY <1>1, <1>5, ShownStays, HostStays DEF FoundOf, ClaimKnown, Alone
<1>6. ClaimKnown(p)' /\ (Shown(p) => Shown(p)')
  <2>1. CASE DetectPM2
    <3> DEFINE S == FirstOfEach({q \in Procs : P(q).listed = "pm2"})
    <3>1. S \in SUBSET Procs /\ \A q \in S : P(q).listed = "pm2"
      BY FirstOfEachPicks
    <3>2. Add({Row("pm2", P(q).app, Pid(q)) : q \in S}) \/ UNCHANGED <<rows, claimed>>
      BY <2>1 DEF DetectPM2
    <3> HIDE DEF S
    <3>3. QED
      BY <1>2, <1>5, <3>1, <3>2
  <2>2. CASE DetectOtherPM2
    <3> DEFINE S == FirstOfEach({q \in Procs : P(q).listed = "pm2other"})
    <3>1. S \in SUBSET Procs /\ \A q \in S : P(q).listed = "pm2other"
      BY FirstOfEachPicks
    <3>2. \/ Add({Row("pm2", <<"pm2other", P(q).app>>, Pid(q)) : q \in S})
          \/ UNCHANGED <<rows, claimed>>
      BY <2>2 DEF DetectOtherPM2
    <3> HIDE DEF S
    <3>3. QED
      BY <1>3, <1>5, <3>1, <3>2
  <2>3. CASE DetectSupervisor
    <3> DEFINE S == {q \in Procs : P(q).listed = "supervisor"}
    <3>1. S \in SUBSET Procs /\ \A q \in S : P(q).listed = "supervisor"
      OBVIOUS
    <3>2. Add({Row("supervisor", P(q).app, Pid(q)) : q \in S}) \/ UNCHANGED <<rows, claimed>>
      BY <2>3 DEF DetectSupervisor
    <3> HIDE DEF S
    <3>3. QED
      BY <1>4, <1>5, <3>1, <3>2
  <2>4. QED
    BY <2>1, <2>2, <2>3
<1>7. Tells' => Tells
  BY <1>1, FailuresGrow, LossesGrow DEF Layers
<1>8. Contained(p)' /\ UnitShown(p)'
  BY <1>1, <1>6, <1>7, HostStays, OthersStay DEF FoundOf, Contained, UnitShown
<1>9. QED
  BY <1>1, <1>6, <1>8, OthersStay DEF FoundOf, UnitKnown, Found

\* The sweep finds what is left.
LEMMA SweepFound ==
  ASSUME Loose, host \in Hosts, born \in [Procs -> 0 .. MaxRestarts],
         NEW p \in Procs, FoundOf(p)
  PROVE  FoundOf(p)'
<1>1. /\ UNCHANGED <<host, born, socks, shown>> /\ step = "loose" /\ step' = "reported"
      /\ rows' = rows \union {LooseRow(pid) : pid \in LeftPids}
      /\ claimed' = claimed \union LeftPids
  BY LooseEffect DEF Loose, Goto, hostVars
<1>2. Shown(p) => Shown(p)'
  BY <1>1, ShownStays
<1>3. ASSUME Pid(p) \in LeftPids
      PROVE  Shown(p)'
  <2>1. LooseRow(Pid(p)) \in rows'
    BY <1>1, <1>3
  <2>2. Shows(LooseRow(Pid(p)), p)
    BY LooseRowFields DEF Shows
  <2>3. QED
    BY <1>1, <2>1, <2>2, ShownBy
<1>4. ClaimKnown(p)'
  BY <1>1, <1>2, <1>3, HostStays DEF FoundOf, ClaimKnown, Alone
<1>5. ASSUME Serves(p), ~LeftOut(p), ~SilentlyLost(p)
      PROVE  Shown(p)'
  <2>0. Seen(p)
    BY <1>5 DEF SilentlyLost, Seen
  <2>1. CASE InContainer(p)
    <3>1. P(p).listed \in host.tools /\ P(p).listed \in {"docker", "podman", "foreign"}
      BY <1>5, <2>1 DEF InContainer, LeftOut, Engines, SilentlyLost
    <3>2. host.tools \subseteq {"docker", "podman", "systemctl"}
      BY DiscoveryAssumption DEF HostType, Engines
    <3>3. Asked("docker", p) \/ Asked("podman", p)
      BY <3>1, <3>2 DEF Asked
    <3>4. QED
      BY <1>1, <1>2, <3>3 DEF FoundOf, Contained
  <2>2. CASE InUnit(p)
    <3>1. Tells
      BY <1>5, <2>2 DEF SilentlyLost, InUnit, Tells
    <3>2. QED
      BY <1>1, <1>2, <2>0, <2>2, <3>1 DEF FoundOf, UnitShown
  <2>3. CASE Alone(p)
    <3>1. CASE Pid(p) \in claimed
      BY <1>2, <2>3, <3>1 DEF FoundOf, ClaimKnown
    <3>2. CASE Pid(p) \notin claimed
      <4>1. PICK s \in socks : s.pid = Pid(p)
        BY <1>1, <2>0 DEF FoundOf, Heard
      <4>2. Pid(p) # None /\ Pid(p)[1] = p /\ Owner(Pid(p)) = "none"
        BY <2>3, PidFacts, OwnerFacts
      <4>3. ~P(p).plumbing
        BY <1>5 DEF LeftOut
      <4>4. s \in Left
        BY <3>2, <4>1, <4>2, <4>3 DEF Left
      <4>5. Pid(p) \in LeftPids
        BY <4>1, <4>4 DEF LeftPids
      <4>6. QED
        BY <1>3, <4>5
    <3>3. QED
      BY <3>1, <3>2
  <2>4. InContainer(p) \/ InUnit(p) \/ Alone(p)
    BY <1>5, HostFacts DEF InUnit, Alone, LeftOut
  <2>5. QED
    BY <2>1, <2>2, <2>3, <2>4
<1>6. Found(p)'
  <2>1. SilentlyLost(p) => SilentlyLost(p)'
    BY <1>1, FailuresGrow, LossesGrow
  <2>2. QED
    BY <1>1, <1>5, <2>1, HostStays, OthersStay DEF Found
<1>7. Contained(p)'
  BY <1>1, <1>2, HostStays DEF FoundOf, Contained
<1>8. QED
  BY <1>1, <1>4, <1>6, <1>7, OthersStay DEF FoundOf, UnitKnown, UnitShown

\* Nothing changes for p when another process restarts, or the budget runs out.
LEMMA OthersFound ==
  ASSUME UNCHANGED <<host, step, socks, shown, claimed, rows>>, failed \subseteq failed',
         NEW p, born'[p] = born[p], FoundOf(p)
  PROVE  FoundOf(p)'
<1>1. /\ Pid(p)' = Pid(p) /\ P(p)' = P(p) /\ UnitOf(p)' = UnitOf(p)
      /\ InContainer(p)' <=> InContainer(p)
      /\ LeftOut(p)' <=> LeftOut(p)
      /\ Visible(p)' <=> Visible(p)
      /\ \A engine : Asked(engine, p)' <=> Asked(engine, p)
  BY DEF Pid, P, UnitOf, InContainer, LeftOut, Visible, Asked
<1>2. Shown(p)' <=> Shown(p)
  BY <1>1 DEF Shown, Shows
<1>3. /\ Serves(p)' <=> Serves(p)
      /\ Seen(p)' <=> Seen(p)
      /\ InUnit(p)' <=> InUnit(p)
      /\ Alone(p)' <=> Alone(p)
  BY <1>1 DEF Serves, Seen, InUnit, Alone
<1>4. (Tells' => Tells) /\ (SilentlyLost(p) => SilentlyLost(p)')
  BY LossesGrow
<1>5. Heard(p)' /\ UnitKnown(p)' /\ MainKnown(p)'
  BY <1>1, <1>3, <1>4 DEF FoundOf, Heard, UnitKnown, MainKnown
<1>6. Contained(p)' /\ UnitShown(p)'
  BY <1>1, <1>2, <1>3, <1>4 DEF FoundOf, Contained, UnitShown
<1>7. ClaimKnown(p)' /\ Found(p)'
  BY <1>1, <1>2, <1>3, <1>4 DEF FoundOf, ClaimKnown, Found
<1>8. QED
  BY <1>5, <1>6, <1>7 DEF FoundOf

LEMMA FoundInit == Init => FoundInv
  BY DiscoveryAssumption DEF Init, FoundInv

LEMMA FoundStep == FoundInv /\ [Next]_vars => FoundInv'
<1> SUFFICES ASSUME FoundInv, [Next]_vars
             PROVE  FoundInv'
  OBVIOUS
<1>0. host \in Hosts /\ born \in [Procs -> 0 .. MaxRestarts]
  BY DEF FoundInv
<1>1. CASE Begin
  <2>1. /\ UNCHANGED <<host, born>> /\ step' = "listeners"
        /\ claimed' = {} /\ shown' = {}
    BY <1>1 DEF Begin
  <2>2. ASSUME NEW p
        PROVE  FoundOf(p)'
    BY <2>1 DEF FoundOf, Heard, Contained, UnitKnown, UnitShown, MainKnown, ClaimKnown, Found
  <2>3. QED
    BY <1>0, <2>1, <2>2 DEF FoundInv
<1>2. ASSUME Layers \/ Loose
      PROVE  /\ UNCHANGED <<host, born, moved>>
             /\ step # "idle" /\ step' # "listeners"
  BY <1>2 DEF Layers, Loose, CollectListeners, Docker, Podman, DetectContainers, ListUnits,
     ShowUnits, Attribute, DetectPM2, DetectOtherPM2, DetectSupervisor, Goto, hostVars, Engines
<1>3. CASE CollectListeners
  <2>1. claimed = {} /\ shown = {}
    BY <1>3 DEF FoundInv, CollectListeners, Goto
  <2>2. Sound' => \A p \in Procs : FoundOf(p)'
    BY <1>3, <2>1, FirstFound
  <2>3. QED
    BY <1>0, <1>2, <1>3, <2>2 DEF FoundInv, Layers
<1>4. CASE Docker \/ Podman
  <2>1. ASSUME Sound', NEW p \in Procs, FoundOf(p)
        PROVE  FoundOf(p)'
    BY <1>0, <1>4, <2>1, ContainersFound DEF Docker, Podman, Engines
  <2>2. Sound' => Sound
    BY <1>4, ContainersWork DEF Docker, Podman
  <2>3. QED
    BY <1>0, <1>2, <1>4, <2>1, <2>2 DEF FoundInv, Layers
<1>5. CASE ListUnits
  <2>1. ASSUME Sound', NEW p \in Procs, FoundOf(p)
        PROVE  FoundOf(p)'
    BY <1>5, <2>1, ListingFound
  <2>2. Sound' => Sound
    BY <1>5, ListingWorks
  <2>3. QED
    BY <1>0, <1>2, <1>5, <2>1, <2>2 DEF FoundInv, Layers
<1>6. CASE ShowUnits
  <2>1. ASSUME Sound', NEW p \in Procs, FoundOf(p)
        PROVE  FoundOf(p)'
    BY <1>0, <1>6, <2>1, ShowingFound
  <2>2. Sound' => Sound
    BY <1>6, ShowingWorks
  <2>3. QED
    BY <1>0, <1>2, <1>6, <2>1, <2>2 DEF FoundInv, Layers
<1>7. CASE Attribute \/ DetectPM2 \/ DetectOtherPM2 \/ DetectSupervisor \/ Loose
  <2>1. ASSUME NEW p \in Procs, FoundOf(p)
        PROVE  FoundOf(p)'
    BY <1>0, <1>7, <2>1, UnitsFound, ManagersFound, SweepFound
  <2>2. Sound' => Sound
    BY <1>7, LaterSound
  <2>3. QED
    BY <1>0, <1>2, <1>7, <2>1, <2>2 DEF FoundInv, Layers
<1>8. CASE Report
  BY <1>0, <1>8 DEF Report, hostVars, FoundInv
<1>9. ASSUME NEW p \in Procs, Restart(p)
      PROVE  FoundInv'
  <2>1. /\ UNCHANGED <<host, step, socks, shown, claimed, rows>>
        /\ step # "idle" => moved' = moved \union {p}
    BY <1>9 DEF Restart, foundVars
  <2>2. /\ born' \in [Procs -> 0 .. MaxRestarts]
        /\ \A q \in Procs \ {p} : born'[q] = born[q]
    BY <1>0, <1>9, DiscoveryAssumption DEF Restart
  <2>3. Sound' => Sound
    BY <1>9, LaterSound
  <2>4. failed \subseteq failed'
    BY <1>9, FailuresGrow
  <2>5. ASSUME NEW q \in Procs \ {p}, FoundOf(q)
        PROVE  FoundOf(q)'
    BY <2>1, <2>2, <2>4, <2>5, OthersFound
  <2>6. QED
    BY <1>0, <2>1, <2>2, <2>3, <2>5 DEF FoundInv
<1>10. CASE Expire
  <2>1. UNCHANGED <<host, born, moved, step, socks, shown, claimed, rows>>
    BY <1>10 DEF Expire, hostVars, foundVars
  <2>2. (Sound' => Sound) /\ failed \subseteq failed'
    BY <1>10, LaterSound, FailuresGrow
  <2>3. QED
    BY <1>0, <2>1, <2>2, OthersFound DEF FoundInv
<1>11. CASE Quiet \/ UNCHANGED vars
  <2>1. /\ UNCHANGED <<host, born, moved, step, socks, shown, claimed, rows>>
        /\ UNCHANGED <<degraded, failed>>
    BY <1>11 DEF Quiet, vars, hostVars, foundVars
  <2>2. Sound' => Sound
    BY <2>1 DEF Sound
  <2>3. QED
    BY <1>0, <2>1, <2>2, OthersFound DEF FoundInv
<1>12. QED
  BY <1>1, <1>3, <1>4, <1>5, <1>6, <1>7, <1>8, <1>9, <1>10, <1>11 DEF Next, Scan

\* A process that listens, is not left out on purpose and does not restart during
\* the scan is in the report, or the report says that it is not complete, but for
\* the silent losses of SilentlyLost: on every host of HostType, whoever the agent
\* is, whatever tools it finds and whatever fails.
THEOREM OtherLossesAreNoted == Spec => []KnownSilentLosses
<1>1. Spec => []FoundInv
  BY FoundInit, FoundStep, PTL DEF Spec
<1>2. FoundInv => KnownSilentLosses
  <2>1. SUFFICES ASSUME FoundInv, step = "reported", ~degraded, NEW p \in Missing, ~SilentlyLost(p)
                 PROVE  FALSE
    BY DEF KnownSilentLosses
  <2>2. Sound
    BY <2>1 DEF Sound, SilentlyLost
  <2>3. p \in Procs \ moved /\ Serves(p) /\ ~LeftOut(p) /\ ~Shown(p)
    BY DEF Missing, Serves, Shown
  <2>4. Found(p)
    BY <2>1, <2>2, <2>3 DEF FoundInv, FoundOf
  <2>5. QED
    BY <2>1, <2>3, <2>4 DEF Found
<1>3. QED
  BY <1>1, <1>2, PTL

----------------------------------------------------------------------------
(* Identifiers survive restarts                                            *)

\* What each layer identifies on a host: none of it depends on a PID.
ContainerIds(engine) == {<<engine, P(p).app>> : p \in {q \in Procs : Asked(engine, q)}}

\* A unit in which something listens, as far as the agent can see owners.
Answers(u) == \E p \in Procs :
                Seen(p) /\ ~InContainer(p) /\ P(p).unit # "none" /\ UnitOf(p) = u
Told    == IF "systemctl" \in host.tools THEN Listed ELSE {}
UnitIds == {<<"systemd", u>> : u \in {v \in Told : \/ v[1] = "operator"
                                                   \/ v[1] = "distro" /\ Answers(v)}}

OwnPM2     == FirstOfEach({q \in Procs : P(q).listed = "pm2"})
OtherPM2   == IF host.root THEN FirstOfEach({q \in Procs : P(q).listed = "pm2other"}) ELSE {}
Supervised == {q \in Procs : P(q).listed = "supervisor"}

OwnPM2Ids     == {<<"pm2", P(p).app>> : p \in OwnPM2}
OtherPM2Ids   == {<<"pm2", <<"pm2other", P(p).app>>>> : p \in OtherPM2}
SupervisedIds == {<<"supervisor", P(p).app>> : p \in Supervised}

Strays == {p \in Procs : /\ Seen(p) /\ Alone(p) /\ ~P(p).plumbing
                         /\ p \notin OwnPM2 \union OtherPM2 \union Supervised}
LowestPort(p) == CHOOSE n \in P(p).tcp : \A m \in P(p).tcp : n <= m
StrayIds == {<<"process", <<P(p).app, LowestPort(p)>>>> : p \in Strays}

UnitsAndEarlier      == ContainerIds("docker") \union ContainerIds("podman") \union UnitIds
SupervisedAndEarlier == UnitsAndEarlier \union OwnPM2Ids \union OtherPM2Ids \union SupervisedIds

\* What every undisturbed scan of the host reports.
Expected == SupervisedAndEarlier \union StrayIds

\* What an undisturbed scan has collected when each layer begins.
SocketsKnown == step \notin {"idle", "listeners"} => socks = Listening
UnitsKnown   == step = "attribute" => /\ {u.unit : u \in shown} = Listed
                                      /\ \A u \in shown : u.main \in MainPids(u.unit)
RowsKnown ==
  /\ step = "docker" => Identifiers = {}
  /\ step = "podman" => Identifiers = ContainerIds("docker")
  /\ step \in {"list", "show", "attribute"} =>
       Identifiers = ContainerIds("docker") \union ContainerIds("podman")
  /\ step = "pm2" => Identifiers = UnitsAndEarlier
  /\ step = "pm2other" => Identifiers = UnitsAndEarlier \union OwnPM2Ids
  /\ step = "supervisor" => Identifiers = UnitsAndEarlier \union OwnPM2Ids \union OtherPM2Ids
  /\ step = "loose" => Identifiers = SupervisedAndEarlier
  /\ step = "reported" => Identifiers = Expected

\* Of those nobody owns, the managers' processes are claimed.
ClaimedAlone(S) == \A p \in Procs : Alone(p) => (Pid(p) \in claimed <=> p \in S)
ClaimsKnown ==
  /\ step \in {"docker", "podman", "list", "show", "attribute", "pm2"} => ClaimedAlone({})
  /\ step = "pm2other" => ClaimedAlone(OwnPM2)
  /\ step = "supervisor" => ClaimedAlone(OwnPM2 \union OtherPM2)
  /\ step = "loose" => ClaimedAlone(OwnPM2 \union OtherPM2 \union Supervised)

Undisturbed == failed = {} /\ moved = {}
Collected   == SocketsKnown /\ UnitsKnown /\ RowsKnown /\ ClaimsKnown

StableInv ==
  /\ host \in Hosts /\ born \in [Procs -> 0 .. MaxRestarts]
  /\ step = "listeners" => rows = {} /\ claimed = {}
  /\ step = "pm2other" => host.root
  /\ step \in {"show", "attribute"} => "systemctl" \in host.tools
  /\ Undisturbed => Collected
  /\ before # None => before = Expected

LEMMA SetsOfHost ==
  ASSUME UNCHANGED host
  PROVE  /\ ContainerIds("docker")' = ContainerIds("docker")
         /\ ContainerIds("podman")' = ContainerIds("podman")
         /\ Listed' = Listed /\ Told' = Told /\ UnitIds' = UnitIds
         /\ OwnPM2' = OwnPM2 /\ OtherPM2' = OtherPM2 /\ Supervised' = Supervised
         /\ \A p : /\ P(p)' = P(p) /\ UnitOf(p)' = UnitOf(p) /\ (Seen(p)' <=> Seen(p))
                   /\ (InContainer(p)' <=> InContainer(p)) /\ (Alone(p)' <=> Alone(p))
<1>1. \A p : /\ P(p)' = P(p) /\ UnitOf(p)' = UnitOf(p) /\ (Seen(p)' <=> Seen(p))
             /\ (InContainer(p)' <=> InContainer(p)) /\ (Alone(p)' <=> Alone(p))
  BY DEF P, UnitOf, Serves, Visible, Seen, InContainer, Alone
<1>2. \A engine : ContainerIds(engine)' = ContainerIds(engine)
  BY <1>1 DEF ContainerIds, Asked
<1>3. Listed' = Listed
  BY <1>1 DEF Listed, Units
<1>4. UnitIds' = UnitIds
  <2>1. \A u : Answers(u)' <=> Answers(u)
    BY <1>1 DEF Answers
  <2>2. QED
    BY <1>3, <2>1 DEF UnitIds, Told
<1>5. OwnPM2' = OwnPM2
  BY DEF OwnPM2, FirstOfEach, P
<1>6. OtherPM2' = OtherPM2
  BY DEF OtherPM2, FirstOfEach, P
<1>7. Supervised' = Supervised
  BY <1>1 DEF Supervised
<1>8. Told' = Told
  BY <1>3 DEF Told
<1>9. QED
  BY <1>1, <1>2, <1>3, <1>4, <1>5, <1>6, <1>7, <1>8

LEMMA IdsOfHost ==
  ASSUME UNCHANGED host
  PROVE  /\ UnitsAndEarlier' = UnitsAndEarlier /\ OwnPM2Ids' = OwnPM2Ids
         /\ OtherPM2Ids' = OtherPM2Ids /\ SupervisedAndEarlier' = SupervisedAndEarlier
         /\ Expected' = Expected
<1>1. OwnPM2Ids' = OwnPM2Ids /\ OtherPM2Ids' = OtherPM2Ids /\ SupervisedIds' = SupervisedIds
  BY SetsOfHost DEF OwnPM2Ids, OtherPM2Ids, SupervisedIds
<1>2. UnitsAndEarlier' = UnitsAndEarlier
  BY SetsOfHost DEF UnitsAndEarlier
<1>3. SupervisedAndEarlier' = SupervisedAndEarlier
  BY <1>1, <1>2 DEF SupervisedAndEarlier
<1>4. Strays' = Strays
  BY SetsOfHost DEF Strays
<1>5. \A p : LowestPort(p)' = LowestPort(p)
  BY DEF LowestPort, P
<1>6. StrayIds' = StrayIds
  BY <1>4, <1>5, SetsOfHost DEF StrayIds
<1>7. QED
  BY <1>1, <1>2, <1>3, <1>6 DEF Expected

\* The parts of Collected that only a restart or their own layer changes.
LEMMA CollectedStays ==
  ASSUME UNCHANGED <<host, born>>
  PROVE  /\ Listening' = Listening
         /\ \A u : MainPids(u)' = MainPids(u)
<1>1. \A p : Pid(p)' = Pid(p) /\ P(p)' = P(p) /\ UnitOf(p)' = UnitOf(p)
  BY HostStays
<1>2. Listening' = Listening
  BY <1>1, HostStays DEF Listening, SocketPid
<1>3. \A u : MainPids(u)' = MainPids(u)
  BY <1>1 DEF MainPids
<1>4. QED
  BY <1>2, <1>3

LEMMA ClaimedAs ==
  ASSUME UNCHANGED <<host, born>>, NEW S,
         \A p \in Procs : Alone(p) => (Pid(p) \in claimed' <=> p \in S)
  PROVE  /\ S = {} => ClaimedAlone({})'
         /\ S = OwnPM2 => ClaimedAlone(OwnPM2)'
         /\ S = OwnPM2 \union OtherPM2 => ClaimedAlone(OwnPM2 \union OtherPM2)'
         /\ S = OwnPM2 \union OtherPM2 \union Supervised =>
              ClaimedAlone(OwnPM2 \union OtherPM2 \union Supervised)'
<1>1. \A p : Pid(p)' = Pid(p)
  BY HostStays
<1>2. QED
  BY <1>1, SetsOfHost DEF ClaimedAlone

\* A layer that reports the processes S under their PIDs.
LEMMA ClaimsGrow ==
  ASSUME born \in [Procs -> 0 .. MaxRestarts], NEW S \in SUBSET Procs, NEW T,
         claimed' = claimed \union {Pid(q) : q \in S}, ClaimedAlone(T)
  PROVE  \A p \in Procs : Alone(p) => (Pid(p) \in claimed' <=> p \in T \union S)
  BY PidFacts DEF ClaimedAlone

LEMMA IdentifiersGrow ==
  ASSUME NEW new, rows' = rows \union new
  PROVE  Identifiers' = Identifiers \union {<<r.source, r.ident>> : r \in new}
  BY DEF Identifiers

\* The scan stays undisturbed only while every command works.
LEMMA UndisturbedBack ==
  ASSUME \/ Layers \/ Loose \/ Expire \/ (\E p \in Procs : Restart(p)) \/ Report,
         Undisturbed'
  PROVE  Undisturbed
<1>1. failed \subseteq failed'
  BY FailuresGrow
<1>2. moved \subseteq moved'
  BY DEF Layers, CollectListeners, Docker, Podman, DetectContainers, ListUnits, ShowUnits,
     Attribute, DetectPM2, DetectOtherPM2, DetectSupervisor, Loose, Expire, Restart, Report, Goto,
     hostVars
<1>3. QED
  BY <1>1, <1>2 DEF Undisturbed

LEMMA NoFailure ==
  ASSUME Undisturbed', NEW kind
  PROVE  ~Fails(kind)
  BY FailsAdds DEF Undisturbed

LEMMA ListeningCollected ==
  ASSUME CollectListeners, Undisturbed', rows = {}, claimed = {}
  PROVE  Collected'
<1>1. UNCHANGED <<host, born, rows, claimed>> /\ step' = "docker"
  BY DEF CollectListeners, Goto, hostVars
<1>2. socks' = Listening
  BY NoFailure DEF CollectListeners
<1>3. SocketsKnown'
  BY <1>1, <1>2, CollectedStays DEF SocketsKnown
<1>4. RowsKnown' /\ UnitsKnown'
  BY <1>1 DEF RowsKnown, UnitsKnown, Identifiers
<1>5. ClaimsKnown'
  <2>1. \A p \in Procs : Alone(p) => (Pid(p) \in claimed' <=> p \in {})
    BY <1>1
  <2>2. ClaimedAlone({})'
    BY <1>1, <2>1, ClaimedAs
  <2>3. QED
    BY <1>1, <2>2 DEF ClaimsKnown
<1>6. QED
  BY <1>3, <1>4, <1>5 DEF Collected

LEMMA ContainersCollected ==
  ASSUME NEW engine \in Engines, NEW next, DetectContainers(engine, next), Undisturbed',
         engine = "docker" => next = "podman", engine = "podman" => next = "list",
         host \in Hosts, Collected
  PROVE  Collected'
<1> DEFINE new == {Row(engine, P(p).app, None) : p \in {q \in Procs : P(q).listed = engine}}
<1>1. /\ UNCHANGED <<host, born, socks, shown>> /\ step = engine /\ step' = next
      /\ engine \in {"docker", "podman"}
  BY DEF DetectContainers, Goto, hostVars, Engines
<1>2. Identifiers' = Identifiers \union ContainerIds(engine) /\ claimed' = claimed
  <2>1. CASE engine \in host.tools
    <3>1. Add(new)
      BY <2>1, NoFailure DEF DetectContainers
    <3>2. {<<r.source, r.ident>> : r \in new} = ContainerIds(engine)
      <4>1. \A p : /\ Row(engine, P(p).app, None).source = engine
                   /\ Row(engine, P(p).app, None).ident = P(p).app
        BY RowFields
      <4>2. QED
        BY <2>1, <4>1 DEF ContainerIds, Asked
    <3>3. {r.pid : r \in new} \ {None} = {}
      <4>1. \A p : Row(engine, P(p).app, None).pid = None
        BY RowFields
      <4>2. QED
        BY <4>1
    <3> HIDE DEF new
    <3>4. QED
      BY <3>1, <3>2, <3>3, IdentifiersGrow DEF Add
  <2>2. CASE engine \notin host.tools
    <3>1. UNCHANGED <<rows, claimed>>
      BY <2>2 DEF DetectContainers
    <3>2. ContainerIds(engine) = {}
      BY <2>2 DEF ContainerIds, Asked
    <3>3. QED
      BY <3>1, <3>2 DEF Identifiers
  <2>3. QED
    BY <2>1, <2>2
<1>3. SocketsKnown' /\ UnitsKnown'
  BY <1>1, CollectedStays DEF Collected, SocketsKnown, UnitsKnown
<1>4. RowsKnown'
  <2>1. CASE engine = "docker"
    BY <1>1, <1>2, <2>1, SetsOfHost DEF Collected, RowsKnown
  <2>2. CASE engine = "podman"
    BY <1>1, <1>2, <2>2, SetsOfHost DEF Collected, RowsKnown
  <2>3. QED
    BY <1>1, <2>1, <2>2
<1>5. ClaimsKnown'
  <2>1. ClaimedAlone({})
    BY <1>1 DEF Collected, ClaimsKnown
  <2>2. ClaimedAlone({})'
    BY <1>1, <1>2, <2>1, ClaimedAs DEF ClaimedAlone
  <2>3. QED
    BY <1>1, <2>2 DEF ClaimsKnown
<1>6. QED
  BY <1>3, <1>4, <1>5 DEF Collected

LEMMA ListingCollected ==
  ASSUME ListUnits, Undisturbed', Collected
  PROVE  Collected'
<1>1. /\ UNCHANGED <<host, born, socks, shown, claimed, rows>>
      /\ step = "list" /\ step' = (IF Told = {} THEN "pm2" ELSE "show")
  BY NoFailure DEF ListUnits, Goto, hostVars, foundVars, Told
<1>2. SocketsKnown' /\ UnitsKnown'
  BY <1>1, CollectedStays DEF Collected, SocketsKnown, UnitsKnown
<1>3. Identifiers' = ContainerIds("docker") \union ContainerIds("podman")
  BY <1>1 DEF Collected, RowsKnown, Identifiers
<1>4. Told = {} => UnitsAndEarlier = ContainerIds("docker") \union ContainerIds("podman")
  BY DEF UnitsAndEarlier, UnitIds
<1>5. RowsKnown'
  BY <1>1, <1>3, <1>4, SetsOfHost, IdsOfHost DEF RowsKnown
<1>6. ClaimsKnown'
  <2>1. ClaimedAlone({})
    BY <1>1 DEF Collected, ClaimsKnown
  <2>2. ClaimedAlone({})'
    BY <1>1, <2>1, ClaimedAs DEF ClaimedAlone
  <2>3. QED
    BY <1>1, <2>2 DEF ClaimsKnown
<1>7. QED
  BY <1>2, <1>5, <1>6 DEF Collected

LEMMA ShowingCollected ==
  ASSUME ShowUnits, Undisturbed', Collected
  PROVE  Collected'
<1>1. /\ UNCHANGED <<host, born, socks, claimed, rows>> /\ step = "show" /\ step' = "attribute"
  BY DEF ShowUnits, Goto, hostVars
<1>2. PICK main \in [Listed -> Pids \union {None}] :
        /\ \A u \in Listed : main[u] \in MainPids(u)
        /\ shown' = {[unit |-> u, main |-> main[u]] : u \in Listed}
  BY NoFailure DEF ShowUnits
<1>3. /\ {u.unit : u \in shown'} = Listed
      /\ \A u \in shown' : u.main \in MainPids(u.unit)
  <2>1. ASSUME NEW r \in shown'
        PROVE  r.unit \in Listed /\ r.main \in MainPids(r.unit)
    <3>1. PICK u \in Listed : r = [unit |-> u, main |-> main[u]]
      BY <1>2, <2>1
    <3>2. r.unit = u /\ r.main = main[u]
      BY <3>1
    <3>3. QED
      BY <1>2, <3>1, <3>2
  <2>2. ASSUME NEW u \in Listed
        PROVE  u \in {r.unit : r \in shown'}
    <3>1. [unit |-> u, main |-> main[u]] \in shown'
      BY <1>2
    <3>2. [unit |-> u, main |-> main[u]].unit = u
      OBVIOUS
    <3>3. QED
      BY <3>1, <3>2
  <2>3. QED
    BY <2>1, <2>2
<1>4. UnitsKnown'
  BY <1>1, <1>3, CollectedStays, SetsOfHost DEF UnitsKnown
<1>5. SocketsKnown'
  BY <1>1, CollectedStays DEF Collected, SocketsKnown
<1>6. RowsKnown'
  BY <1>1, SetsOfHost DEF Collected, RowsKnown, Identifiers
<1>7. ClaimsKnown'
  <2>1. ClaimedAlone({})
    BY <1>1 DEF Collected, ClaimsKnown
  <2>2. ClaimedAlone({})'
    BY <1>1, <2>1, ClaimedAs DEF ClaimedAlone
  <2>3. QED
    BY <1>1, <2>2 DEF ClaimsKnown
<1>8. QED
  BY <1>4, <1>5, <1>6, <1>7 DEF Collected

\* The sockets that are there lead to the units that answer.
LEMMA ServingUnits ==
  ASSUME born \in [Procs -> 0 .. MaxRestarts], socks = Listening, NEW u
  PROVE  u \in {UnitOf(s.pid[1]) : s \in OfUnits} <=> Answers(u)
<1>1. ASSUME NEW s \in OfUnits
      PROVE  Answers(UnitOf(s.pid[1]))
  <2>1. PICK p \in Procs : s \in [pid : {SocketPid(p)}, port : P(p).tcp]
    BY DEF OfUnits, Listening
  <2>2. Seen(p) /\ s.pid = Pid(p) /\ Owner(Pid(p)) = "systemd"
    BY <2>1 DEF OfUnits, Seen, Serves, SocketPid
  <2>3. Pid(p)[1] = p /\ ~InContainer(p) /\ P(p).unit # "none"
    BY <2>2, PidFacts DEF Owner
  <2>4. QED
    BY <2>2, <2>3 DEF Answers
<1>2. ASSUME NEW p \in Procs, Seen(p), ~InContainer(p), P(p).unit # "none"
      PROVE  \E s \in OfUnits : UnitOf(s.pid[1]) = UnitOf(p)
  <2>1. PICK n : n \in P(p).tcp
    BY <1>2 DEF Seen, Serves
  <2> DEFINE s == [pid |-> Pid(p), port |-> n]
  <2>2. s \in [pid : {SocketPid(p)}, port : P(p).tcp]
    BY <1>2, <2>1 DEF Seen, SocketPid
  <2>3. s \in socks
    BY <2>2 DEF Listening
  <2>4. Pid(p) # None /\ Pid(p)[1] = p /\ Owner(Pid(p)) = "systemd"
    BY <1>2, PidFacts DEF Owner
  <2>5. s \in OfUnits /\ UnitOf(s.pid[1]) = UnitOf(p)
    BY <2>3, <2>4 DEF OfUnits
  <2>6. QED
    BY <2>5
<1>3. QED
  BY <1>1, <1>2 DEF Answers

LEMMA UnitsCollected ==
  ASSUME Attribute, Undisturbed', host \in Hosts, born \in [Procs -> 0 .. MaxRestarts], Collected,
         "systemctl" \in host.tools
  PROVE  Collected'
<1> DEFINE Serving == {UnitOf(s.pid[1]) : s \in OfUnits}
           Chosen  == {u \in shown : \/ u.unit[1] = "operator"
                                     \/ u.unit[1] = "distro" /\ u.unit \in Serving}
           Mains   == {u.main : u \in Chosen} \ {None}
           new     == {Row("systemd", u.unit, u.main) : u \in Chosen}
<1>1. /\ UNCHANGED <<host, born, socks, shown>> /\ step = "attribute" /\ step' = "pm2"
      /\ rows' = rows \union new /\ claimed' = claimed \union UnitPids \union Mains
  BY DEF Attribute, Goto, hostVars
<1>2. \A u : u \in Serving <=> Answers(u)
  BY <1>1, ServingUnits DEF Collected, SocketsKnown
<1>3. {<<r.source, r.ident>> : r \in new} = UnitIds
  <2>1. \A u \in shown : u.unit \in Told
    BY <1>1 DEF Collected, UnitsKnown, Told
  <2>2. \A v \in Told : \E u \in shown : u.unit = v
    BY <1>1 DEF Collected, UnitsKnown, Told
  <2> HIDE DEF Serving
  <2>3. \A u \in Chosen : <<"systemd", u.unit>> \in UnitIds
    BY <1>2, <2>1 DEF UnitIds
  <2>4. ASSUME NEW v \in Told, v[1] = "operator" \/ (v[1] = "distro" /\ Answers(v))
        PROVE  \E u \in Chosen : u.unit = v
    BY <1>2, <2>2, <2>4
  <2>5. \A u \in Chosen : /\ Row("systemd", u.unit, u.main).source = "systemd"
                          /\ Row("systemd", u.unit, u.main).ident = u.unit
    BY RowFields
  <2> HIDE DEF Chosen
  <2>6. \A r \in new : <<r.source, r.ident>> \in UnitIds
    BY <2>3, <2>5
  <2>7. ASSUME NEW id \in UnitIds
        PROVE  \E r \in new : id = <<r.source, r.ident>>
    <3>1. PICK v \in {w \in Told : w[1] = "operator" \/ (w[1] = "distro" /\ Answers(w))} :
                 id = <<"systemd", v>>
      BY Zenon DEF UnitIds
    <3>2. v \in Told /\ (v[1] = "operator" \/ (v[1] = "distro" /\ Answers(v)))
      OBVIOUS
    <3>3. PICK u \in Chosen : u.unit = v
      BY <2>4, <3>2
    <3>4. Row("systemd", u.unit, u.main) \in new
      OBVIOUS
    <3>5. QED
      BY <2>5, <3>1, <3>3, <3>4
  <2> HIDE DEF new
  <2>8. QED
    BY <2>6, <2>7
<1>4. ASSUME NEW p \in Procs, Alone(p)
      PROVE  Pid(p) \notin claimed'
  <2>1. Pid(p) \notin claimed
    BY <1>1, <1>4 DEF Collected, ClaimsKnown, ClaimedAlone
  <2>2. Pid(p) \notin UnitPids
    BY <1>4, OwnerFacts DEF UnitPids, OfUnits
  <2>3. ASSUME NEW u \in shown, u.main = Pid(p)
        PROVE  FALSE
    <3>1. Pid(p) \in MainPids(u.unit) /\ Pid(p) # None
      BY <1>1, <2>3, PidFacts DEF Collected, UnitsKnown
    <3>2. PICK q \in Procs : P(q).unit # "none" /\ Pid(q) = Pid(p)
      BY <3>1 DEF MainPids
    <3>3. QED
      BY <1>4, <3>2, PidFacts DEF Alone
  <2>4. Pid(p) \notin Mains
    BY <2>3
  <2> HIDE DEF Mains
  <2>5. QED
    BY <1>1, <2>1, <2>2, <2>4
<1>5. Identifiers' = UnitsAndEarlier
  <2>1. Identifiers' = Identifiers \union UnitIds
    <3> HIDE DEF new
    <3>1. QED
      BY <1>1, <1>3, IdentifiersGrow
  <2>2. QED
    BY <1>1, <2>1 DEF Collected, RowsKnown, UnitsAndEarlier
<1>6. SocketsKnown' /\ UnitsKnown'
  BY <1>1, CollectedStays DEF Collected, SocketsKnown, UnitsKnown
<1>7. RowsKnown'
  BY <1>1, <1>5, IdsOfHost DEF RowsKnown
<1>8. ClaimsKnown'
  <2>1. ClaimedAlone({})'
    BY <1>1, <1>4, ClaimedAs
  <2>2. QED
    BY <1>1, <2>1 DEF ClaimsKnown
<1>9. QED
  BY <1>6, <1>7, <1>8 DEF Collected

\* What a manager's layer adds: its processes under their PIDs.
LEMMA OwnPM2Collected ==
  ASSUME DetectPM2, Undisturbed', host \in Hosts, born \in [Procs -> 0 .. MaxRestarts], Collected
  PROVE  Collected'
<1> DEFINE new == {Row("pm2", P(p).app, Pid(p)) : p \in OwnPM2}
<1>1. /\ UNCHANGED <<host, born, socks, shown>> /\ step = "pm2"
      /\ step' = (IF host.root THEN "pm2other" ELSE "supervisor") /\ Add(new)
  BY NoFailure DEF DetectPM2, Goto, hostVars, OwnPM2
<1>2. OwnPM2 \in SUBSET Procs
  BY FirstOfEachPicks DEF OwnPM2
<1>3. \A p : /\ Row("pm2", P(p).app, Pid(p)).source = "pm2"
             /\ Row("pm2", P(p).app, Pid(p)).ident = P(p).app
             /\ Row("pm2", P(p).app, Pid(p)).pid = Pid(p)
  BY RowFields
<1>4. {<<r.source, r.ident>> : r \in new} = OwnPM2Ids
  BY <1>3 DEF OwnPM2Ids
<1>5. {r.pid : r \in new} \ {None} = {Pid(q) : q \in OwnPM2}
  <2>1. \A q \in OwnPM2 : Pid(q) # None
    BY <1>2, PidFacts
  <2>2. {r.pid : r \in new} = {Pid(q) : q \in OwnPM2}
    BY <1>3
  <2>3. QED
    BY <2>1, <2>2
<1> HIDE DEF new
<1>6. Identifiers' = UnitsAndEarlier \union OwnPM2Ids
  BY <1>1, <1>4, IdentifiersGrow DEF Add, Collected, RowsKnown
<1>7. \A p \in Procs : Alone(p) => (Pid(p) \in claimed' <=> p \in {} \union OwnPM2)
  <2>1. ClaimedAlone({}) /\ claimed' = claimed \union {Pid(q) : q \in OwnPM2}
    BY <1>1, <1>5 DEF Add, Collected, ClaimsKnown
  <2>2. QED
    BY <1>2, <2>1, ClaimsGrow
<1>8. ~host.root => OtherPM2 = {} /\ OtherPM2Ids = {}
  BY DEF OtherPM2, OtherPM2Ids
<1>9. SocketsKnown' /\ UnitsKnown'
  BY <1>1, CollectedStays DEF Collected, SocketsKnown, UnitsKnown
<1>10. RowsKnown'
  BY <1>1, <1>6, <1>8, IdsOfHost DEF RowsKnown
<1>11. ClaimsKnown'
  <2>1. \A p \in Procs : Alone(p) => (Pid(p) \in claimed' <=> p \in OwnPM2)
    BY <1>7
  <2>2. ClaimedAlone(OwnPM2)'
    BY <1>1, <2>1, ClaimedAs
  <2>3. ~host.root => ClaimedAlone(OwnPM2 \union OtherPM2)'
    <3>1. ASSUME ~host.root
          PROVE  \A p \in Procs : Alone(p) => (Pid(p) \in claimed' <=> p \in OwnPM2 \union OtherPM2)
      BY <1>8, <2>1, <3>1
    <3>2. QED
      BY <1>1, <3>1, ClaimedAs
  <2>4. QED
    BY <1>1, <2>2, <2>3 DEF ClaimsKnown
<1>12. QED
  BY <1>9, <1>10, <1>11 DEF Collected

LEMMA OtherPM2Collected ==
  ASSUME DetectOtherPM2, Undisturbed', host \in Hosts, born \in [Procs -> 0 .. MaxRestarts],
         Collected, host.root
  PROVE  Collected'
<1> DEFINE new == {Row("pm2", <<"pm2other", P(p).app>>, Pid(p)) : p \in OtherPM2}
<1>1. /\ UNCHANGED <<host, born, socks, shown>> /\ step = "pm2other" /\ step' = "supervisor"
      /\ Add(new)
  BY NoFailure DEF DetectOtherPM2, Goto, hostVars, OtherPM2
<1>2. OtherPM2 \in SUBSET Procs
  BY FirstOfEachPicks DEF OtherPM2
<1>3. \A p : /\ Row("pm2", <<"pm2other", P(p).app>>, Pid(p)).source = "pm2"
             /\ Row("pm2", <<"pm2other", P(p).app>>, Pid(p)).ident = <<"pm2other", P(p).app>>
             /\ Row("pm2", <<"pm2other", P(p).app>>, Pid(p)).pid = Pid(p)
  BY RowFields
<1>4. {<<r.source, r.ident>> : r \in new} = OtherPM2Ids
  BY <1>3 DEF OtherPM2Ids
<1>5. {r.pid : r \in new} \ {None} = {Pid(q) : q \in OtherPM2}
  <2>1. \A q \in OtherPM2 : Pid(q) # None
    BY <1>2, PidFacts
  <2>2. {r.pid : r \in new} = {Pid(q) : q \in OtherPM2}
    BY <1>3
  <2>3. QED
    BY <2>1, <2>2
<1> HIDE DEF new
<1>6. Identifiers' = UnitsAndEarlier \union OwnPM2Ids \union OtherPM2Ids
  BY <1>1, <1>4, IdentifiersGrow DEF Add, Collected, RowsKnown
<1>7. \A p \in Procs : Alone(p) => (Pid(p) \in claimed' <=> p \in OwnPM2 \union OtherPM2)
  <2>1. ClaimedAlone(OwnPM2) /\ claimed' = claimed \union {Pid(q) : q \in OtherPM2}
    BY <1>1, <1>5 DEF Add, Collected, ClaimsKnown
  <2>2. QED
    BY <1>2, <2>1, ClaimsGrow
<1>8. SocketsKnown' /\ UnitsKnown'
  BY <1>1, CollectedStays DEF Collected, SocketsKnown, UnitsKnown
<1>9. RowsKnown'
  BY <1>1, <1>6, IdsOfHost DEF RowsKnown
<1>10. ClaimsKnown'
  <2>1. ClaimedAlone(OwnPM2 \union OtherPM2)'
    BY <1>1, <1>7, ClaimedAs
  <2>2. QED
    BY <1>1, <2>1 DEF ClaimsKnown
<1>11. QED
  BY <1>8, <1>9, <1>10 DEF Collected

LEMMA SupervisorCollected ==
  ASSUME DetectSupervisor, Undisturbed', host \in Hosts, born \in [Procs -> 0 .. MaxRestarts],
         Collected
  PROVE  Collected'
<1> DEFINE new == {Row("supervisor", P(p).app, Pid(p)) : p \in Supervised}
<1>1. /\ UNCHANGED <<host, born, socks, shown>> /\ step = "supervisor" /\ step' = "loose"
      /\ Add(new)
  BY NoFailure DEF DetectSupervisor, Goto, hostVars, Supervised
<1>2. Supervised \in SUBSET Procs
  BY DEF Supervised
<1>3. \A p : /\ Row("supervisor", P(p).app, Pid(p)).source = "supervisor"
             /\ Row("supervisor", P(p).app, Pid(p)).ident = P(p).app
             /\ Row("supervisor", P(p).app, Pid(p)).pid = Pid(p)
  BY RowFields
<1>4. {<<r.source, r.ident>> : r \in new} = SupervisedIds
  BY <1>3 DEF SupervisedIds
<1>5. {r.pid : r \in new} \ {None} = {Pid(q) : q \in Supervised}
  <2>1. \A q \in Supervised : Pid(q) # None
    BY <1>2, PidFacts
  <2>2. {r.pid : r \in new} = {Pid(q) : q \in Supervised}
    BY <1>3
  <2>3. QED
    BY <2>1, <2>2
<1> HIDE DEF new
<1>6. Identifiers' = SupervisedAndEarlier
  BY <1>1, <1>4, IdentifiersGrow DEF Add, Collected, RowsKnown, SupervisedAndEarlier
<1>7. \A p \in Procs : Alone(p) => (Pid(p) \in claimed'
                                      <=> p \in OwnPM2 \union OtherPM2 \union Supervised)
  <2>1. /\ ClaimedAlone(OwnPM2 \union OtherPM2)
        /\ claimed' = claimed \union {Pid(q) : q \in Supervised}
    BY <1>1, <1>5 DEF Add, Collected, ClaimsKnown
  <2>2. QED
    BY <1>2, <2>1, ClaimsGrow
<1>8. SocketsKnown' /\ UnitsKnown'
  BY <1>1, CollectedStays DEF Collected, SocketsKnown, UnitsKnown
<1>9. RowsKnown'
  BY <1>1, <1>6, IdsOfHost DEF RowsKnown
<1>10. ClaimsKnown'
  <2>1. ClaimedAlone(OwnPM2 \union OtherPM2 \union Supervised)'
    BY <1>1, <1>7, ClaimedAs
  <2>2. QED
    BY <1>1, <2>1 DEF ClaimsKnown
<1>11. QED
  BY <1>8, <1>9, <1>10 DEF Collected

\* What the sweep is left with: the strays, each on the ports it listens on.
LEMMA LeftAre ==
  ASSUME host \in Hosts, born \in [Procs -> 0 .. MaxRestarts], socks = Listening,
         ClaimedAlone(OwnPM2 \union OtherPM2 \union Supervised)
  PROVE  /\ LeftPids = {Pid(p) : p \in Strays}
         /\ \A p \in Strays : {s.port : s \in {t \in Left : t.pid = Pid(p)}} = P(p).tcp
<1>1. ASSUME NEW s \in Left
      PROVE  \E p \in Strays : s.pid = Pid(p) /\ s.port \in P(p).tcp
  <2>1. PICK p \in Procs : s \in [pid : {SocketPid(p)}, port : P(p).tcp]
    BY DEF Left, Listening
  <2>2. Seen(p) /\ s.pid = Pid(p) /\ s.port \in P(p).tcp
    BY <2>1 DEF Left, Seen, Serves, SocketPid
  <2>3. Pid(p)[1] = p
    BY PidFacts
  <2>4. Pid(p) \notin claimed /\ ~P(p).plumbing /\ Owner(Pid(p)) = "none"
    BY <2>2, <2>3 DEF Left
  <2>5. Alone(p)
    BY <2>4, OwnerOfLive DEF Alone
  <2>6. p \in Strays
    BY <2>2, <2>4, <2>5 DEF Strays, ClaimedAlone
  <2>7. QED
    BY <2>2, <2>6
<1>2. ASSUME NEW p \in Strays, NEW n \in P(p).tcp
      PROVE  \E s \in Left : s.pid = Pid(p) /\ s.port = n
  <2> DEFINE s == [pid |-> Pid(p), port |-> n]
  <2>1. p \in Procs /\ Seen(p) /\ Alone(p) /\ ~P(p).plumbing /\ Pid(p) \notin claimed
    BY DEF Strays, ClaimedAlone
  <2>2. s \in [pid : {SocketPid(p)}, port : P(p).tcp]
    BY <2>1 DEF Seen, SocketPid
  <2>3. s \in socks
    BY <2>1, <2>2 DEF Listening
  <2>4. Pid(p) # None /\ Pid(p)[1] = p /\ Owner(Pid(p)) = "none"
    BY <2>1, PidFacts, OwnerFacts
  <2>5. s \in Left
    BY <2>1, <2>3, <2>4 DEF Left
  <2>6. QED
    BY <2>5
<1>3. LeftPids = {Pid(p) : p \in Strays}
  <2>1. \A p \in Strays : \E n : n \in P(p).tcp
    BY DEF Strays, Seen, Serves
  <2>2. \A p \in Strays : Pid(p) \in LeftPids
    BY <1>2, <2>1 DEF LeftPids
  <2>3. \A pid \in LeftPids : \E p \in Strays : pid = Pid(p)
    BY <1>1 DEF LeftPids
  <2>4. QED
    BY <2>2, <2>3
<1>4. ASSUME NEW p \in Strays
      PROVE  {s.port : s \in {t \in Left : t.pid = Pid(p)}} = P(p).tcp
  <2>1. ASSUME NEW s \in Left, s.pid = Pid(p)
        PROVE  s.port \in P(p).tcp
    <3>1. PICK q \in Strays : s.pid = Pid(q) /\ s.port \in P(q).tcp
      BY <1>1
    <3>2. q = p
      BY <2>1, <3>1, PidFacts DEF Strays
    <3>3. QED
      BY <3>1, <3>2
  <2>2. QED
    BY <1>2, <2>1
<1>5. QED
  BY <1>3, <1>4

LEMMA SweepCollected ==
  ASSUME Loose, Undisturbed', host \in Hosts, born \in [Procs -> 0 .. MaxRestarts], Collected
  PROVE  Collected'
<1> DEFINE new == {LooseRow(pid) : pid \in LeftPids}
<1>1. /\ UNCHANGED <<host, born, socks, shown>> /\ step = "loose" /\ step' = "reported"
      /\ rows' = rows \union new
  BY LooseEffect DEF Loose, Goto, hostVars
<1>2. /\ LeftPids = {Pid(p) : p \in Strays}
      /\ \A p \in Strays : {s.port : s \in {t \in Left : t.pid = Pid(p)}} = P(p).tcp
  BY <1>1, LeftAre DEF Collected, SocketsKnown, ClaimsKnown
<1>3. ASSUME NEW p \in Strays
      PROVE  /\ LooseRow(Pid(p)).source = "process"
             /\ LooseRow(Pid(p)).ident = <<P(p).app, LowestPort(p)>>
  <2>1. LooseRow(Pid(p)) = Row("process", LooseIdent(Pid(p), P(p).tcp), Pid(p))
    BY <1>2 DEF LooseRow
  <2>2. Pid(p)[1] = p
    BY PidFacts DEF Strays
  <2>3. LooseIdent(Pid(p), P(p).tcp) = <<P(p).app, LowestPort(p)>>
    BY <2>2 DEF LooseIdent, LowestPort
  <2>4. QED
    BY <2>1, <2>3, RowFields
<1>4. {<<r.source, r.ident>> : r \in new} = StrayIds
  <2>1. new = {LooseRow(Pid(p)) : p \in Strays}
    BY <1>2
  <2>2. {<<r.source, r.ident>> : r \in new}
           = {<<LooseRow(Pid(p)).source, LooseRow(Pid(p)).ident>> : p \in Strays}
    BY <2>1
  <2>3. QED
    BY <1>3, <2>2 DEF StrayIds
<1> HIDE DEF new
<1>5. Identifiers' = Expected
  BY <1>1, <1>4, IdentifiersGrow DEF Collected, RowsKnown, Expected
<1>6. SocketsKnown' /\ UnitsKnown'
  BY <1>1, CollectedStays DEF Collected, SocketsKnown, UnitsKnown
<1>7. RowsKnown'
  BY <1>1, <1>5, IdsOfHost DEF RowsKnown
<1>8. ClaimsKnown'
  BY <1>1 DEF ClaimsKnown
<1>9. QED
  BY <1>6, <1>7, <1>8 DEF Collected

LEMMA StableInit == Init => StableInv
  BY DiscoveryAssumption
  DEF Init, StableInv, Collected, SocketsKnown, UnitsKnown, RowsKnown, ClaimsKnown

LEMMA StableStep == StableInv /\ [Next]_vars => StableInv'
<1> SUFFICES ASSUME StableInv, [Next]_vars
             PROVE  StableInv'
  OBVIOUS
<1>0. host \in Hosts /\ born \in [Procs -> 0 .. MaxRestarts]
  BY DEF StableInv
<1>1. CASE Begin
  <2>1. /\ UNCHANGED <<host, born, before>> /\ step' = "listeners" /\ rows' = {} /\ claimed' = {}
    BY <1>1 DEF Begin
  <2>2. Collected'
    BY <2>1 DEF Collected, SocketsKnown, UnitsKnown, RowsKnown, ClaimsKnown
  <2>3. QED
    BY <1>0, <2>1, <2>2, IdsOfHost DEF StableInv
<1>2. ASSUME Layers \/ Loose, Undisturbed' => Collected'
      PROVE  StableInv'
  <2>1. UNCHANGED <<host, born, before>> /\ step' # "listeners"
    BY <1>2 DEF Layers, Loose, CollectListeners, Docker, Podman, DetectContainers, ListUnits,
       ShowUnits, Attribute, DetectPM2, DetectOtherPM2, DetectSupervisor, Goto, hostVars, Engines
  <2>2. step' = "pm2other" => host.root
    BY <1>2 DEF Layers, Loose, CollectListeners, Docker, Podman, DetectContainers, ListUnits,
       ShowUnits, Attribute, DetectPM2, DetectOtherPM2, DetectSupervisor, Goto
  <2>3. step' \in {"show", "attribute"} => "systemctl" \in host.tools
    BY <1>2 DEF Layers, Loose, CollectListeners, Docker, Podman, DetectContainers, ListUnits,
       ShowUnits, Attribute, DetectPM2, DetectOtherPM2, DetectSupervisor, Goto, StableInv
  <2>4. QED
    BY <1>0, <1>2, <2>1, <2>2, <2>3, IdsOfHost DEF StableInv
<1>3. CASE CollectListeners
  <2>1. rows = {} /\ claimed = {}
    BY <1>3 DEF StableInv, CollectListeners, Goto
  <2>2. QED
    BY <1>2, <1>3, <2>1, ListeningCollected DEF Layers
<1>4. CASE Docker \/ Podman \/ ListUnits \/ ShowUnits \/ Attribute \/ DetectPM2 \/ DetectOtherPM2
           \/ DetectSupervisor \/ Loose
  <2>1. Undisturbed' => Collected
    BY <1>4, UndisturbedBack DEF Layers, StableInv
  <2>2. (DetectOtherPM2 => host.root) /\ (Attribute => "systemctl" \in host.tools)
    BY DEF DetectOtherPM2, Attribute, Goto, StableInv
  <2>3. Docker \/ Podman => (Undisturbed' => Collected')
    BY <1>0, <2>1, ContainersCollected DEF Docker, Podman, Engines
  <2>4. Undisturbed' => Collected'
    BY <1>0, <1>4, <2>1, <2>2, <2>3, ListingCollected, ShowingCollected, UnitsCollected,
       OwnPM2Collected, OtherPM2Collected, SupervisorCollected, SweepCollected
  <2>5. QED
    BY <1>2, <1>4, <2>4 DEF Layers
<1>5. CASE Report
  <2>1. UNCHANGED <<host, born>> /\ step = "reported" /\ step' = "idle"
        /\ before' = (IF Undisturbed THEN Identifiers ELSE before)
    BY <1>5 DEF Report, hostVars, Undisturbed
  <2>2. Undisturbed => Identifiers = Expected
    BY <2>1 DEF StableInv, Collected, RowsKnown
  <2>3. before' # None => before' = Expected
    BY <2>1, <2>2 DEF StableInv
  <2>4. Collected'
    BY <2>1 DEF Collected, SocketsKnown, UnitsKnown, RowsKnown, ClaimsKnown
  <2>5. QED
    BY <1>0, <2>1, <2>3, <2>4, IdsOfHost DEF StableInv
<1>6. ASSUME NEW p \in Procs, Restart(p)
      PROVE  StableInv'
  <2>1. /\ UNCHANGED <<host, step, rows, claimed, before>>
        /\ step # "idle" => moved' # {}
    BY <1>6 DEF Restart, foundVars
  <2>2. born' \in [Procs -> 0 .. MaxRestarts]
    BY <1>0, <1>6, DiscoveryAssumption DEF Restart
  <2>3. Undisturbed' => Collected'
    BY <2>1 DEF Undisturbed, Collected, SocketsKnown, UnitsKnown, RowsKnown, ClaimsKnown
  <2>4. QED
    BY <1>0, <2>1, <2>2, <2>3, IdsOfHost DEF StableInv
<1>7. CASE Expire
  <2>1. UNCHANGED <<host, born, step, rows, claimed, before>> /\ ~Undisturbed'
    BY <1>7, NoFailure DEF Expire, hostVars, foundVars
  <2>2. QED
    BY <1>0, <2>1, IdsOfHost DEF StableInv
<1>8. CASE Quiet \/ UNCHANGED vars
  <2>1. UNCHANGED <<host, born, moved, step, socks, shown, claimed, rows, failed, before>>
    BY <1>8 DEF Quiet, vars, hostVars, foundVars
  <2>2. /\ SocketsKnown' <=> SocketsKnown
        /\ UnitsKnown' <=> UnitsKnown
    BY <2>1, CollectedStays, SetsOfHost DEF SocketsKnown, UnitsKnown
  <2>3. RowsKnown' <=> RowsKnown
    BY <2>1, SetsOfHost, IdsOfHost DEF RowsKnown, Identifiers
  <2>4. \A S : (\A p \in Procs : Alone(p) => (Pid(p) \in claimed' <=> p \in S)) <=> ClaimedAlone(S)
    BY <2>1 DEF ClaimedAlone
  <2>5. ClaimsKnown => ClaimsKnown'
    BY <2>1, <2>4, ClaimedAs DEF ClaimsKnown
  <2>6. QED
    BY <1>0, <2>1, <2>2, <2>3, <2>5, IdsOfHost DEF StableInv, Undisturbed, Collected
<1>9. QED
  BY <1>1, <1>3, <1>4, <1>5, <1>6, <1>7, <1>8 DEF Next, Scan

\* Every scan in which no command fails and no process restarts reports the same
\* identifiers, whatever PIDs the host's processes have come to have in between.
THEOREM IdentifiersAreStable == Spec => []StableIdentifiers
<1>1. Spec => []StableInv
  BY StableInit, StableStep, PTL DEF Spec
<1>2. StableInv => StableIdentifiers
  BY DEF StableInv, StableIdentifiers, Undisturbed, Collected, RowsKnown
<1>3. QED
  BY <1>1, <1>2, PTL
==============================================================================
