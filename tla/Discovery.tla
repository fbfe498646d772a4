----------------------------- MODULE Discovery -----------------------------
(***************************************************************************)
(* The scan for services that ThalesOps did not deploy: Discover and its   *)
(* layers (src/internal/system/discovery.go).                              *)
(*                                                                         *)
(* A scan reads the listening sockets once and then asks Docker, Podman,   *)
(* systemd, PM2 and supervisor in turn; the last layer reports what listens *)
(* on TCP and nobody has claimed.  Every layer is a step: the host goes on *)
(* while the scan runs, so a process may restart under a new PID between   *)
(* two layers, a tool may fail and the budget may run out.                 *)
(***************************************************************************)
EXTENDS Integers, FiniteSets

CONSTANTS Procs,
          Apps,        \* the names processes go by
          Ports,
          Hosts,       \* the hosts to scan, see HostType
          FaultKinds,  \* which faults may happen, see AllFaults
          MaxFaults,   \* bound on the number of faults
          MaxRestarts, \* bound on the restarts of each process
          MaxScans,    \* bound on the number of scans
          None         \* no PID, no earlier scan

\* Both calls of ss fail, as where it is missing, or one of them; a layer's
\* command fails; the budget of the scan runs out.
AllFaults == {"ss", "sstcp", "ssudp", "docker", "podman", "list", "show", "pm2", "ps",
              "supervisor", "budget"}

Engines == {"docker", "podman"}

Managers == {"pm2", "pm2other", "supervisor"}

\* A process has a name and TCP ports it listens on, and runs as the agent's user
\* (mine) or as another.  It is listed by a container engine (ours: in a container
\* of ThalesOps; foreign: its cgroup names a runtime, and neither engine lists it:
\* Kubernetes, the Podman of another user, a unit called dockerize-api), by the PM2
\* daemon of the agent's user or of another one, by supervisor, or by nobody.  A
\* systemd unit it runs in is installed by the operator, by the distribution, is
\* of the distribution and not active, or is on the skip list.
Lists == Engines \union {"ours", "foreign", "no"} \union Managers

ProcType == [app : Apps, tcp : SUBSET Ports, listed : Lists,
             unit : {"none", "operator", "distro", "inactive", "skipped"},
             mine : BOOLEAN, plumbing : BOOLEAN]

\* The agent is root or not; the tools it finds in its PATH; the UDP sockets of the
\* host: none, none with an owner the agent sees, some with one.
HostType == [proc : [Procs -> ProcType], root : BOOLEAN,
             tools : SUBSET (Engines \union {"systemctl"}),
             udp : {"none", "hidden", "seen"}]

ASSUME DiscoveryAssumption ==
  /\ Ports \subseteq Nat /\ Hosts \subseteq HostType /\ FaultKinds \subseteq AllFaults
  /\ MaxFaults \in Nat /\ MaxRestarts \in Nat /\ MaxScans \in Nat
  /\ None \notin Apps /\ None \notin Procs \X Nat

VARIABLES
  host,     \* the host, never changed
  born,     \* per process, how often it has restarted: with it goes its PID
  step,     \* the layer whose turn it is
  socks,    \* the listening TCP sockets, as they were read
  shown,    \* the units as systemctl showed them
  claimed,  \* the PIDs attributed to a reported service
  rows,     \* what the scan reports
  degraded, \* whether it says that it under-reports
  expired,  \* whether the budget is used up
  failed,   \* the kinds of failures in this scan
  moved,    \* the processes that have restarted during this scan
  before,   \* the identifiers of the last undisturbed scan
  scans,    \* scans begun
  faults    \* faults so far

hostVars  == <<host, born, moved>>
foundVars == <<socks, shown, claimed, rows>>
vars == <<hostVars, step, foundVars, degraded, expired, failed, before, scans, faults>>

----------------------------------------------------------------------------
(* The host                                                                *)

P(p) == host.proc[p]
Pid(p) == <<p, born[p]>>
Pids == Procs \X (0 .. MaxRestarts)

\* Root sees the owner of every socket, another user its own processes.
Visible(p) == host.root \/ P(p).mine

\* What procOwner takes for a container.
InContainer(p) == P(p).listed \in Engines \union {"ours", "foreign"}

\* PM2 and supervisor run their programs in one unit, if they run in one.
UnitOf(p) == <<P(p).unit, IF P(p).listed \in Managers THEN P(p).listed ELSE P(p).app>>
Units == {UnitOf(p) : p \in {q \in Procs : P(q).unit # "none"}}

\* procOwner, by the cgroup of a PID; a login session is no owner, and a PID that
\* is gone has none.
Owner(pid) ==
  LET p == pid[1] IN
  IF pid # Pid(p) THEN "none"
  ELSE IF InContainer(p) THEN "container"
       ELSE IF P(p).unit = "none" THEN "none" ELSE "systemd"

----------------------------------------------------------------------------
(* Rows, steps, failures                                                   *)

Sources == Engines \union {"systemd", "pm2", "supervisor", "process"}

\* The identifier of a row, as far as rows of one source are told apart by it.
Idents == Apps \union (Apps \X Ports) \union ({"pm2other"} \X Apps)
            \union ({"operator", "distro"} \X (Apps \union Lists))
Row(source, ident, pid) == [source |-> source, ident |-> ident, pid |-> pid]

Steps == {"idle", "listeners", "docker", "podman", "list", "show", "attribute",
          "pm2", "pm2other", "supervisor", "loose", "reported"}

TypeOK ==
  /\ host \in Hosts /\ born \in [Procs -> 0 .. MaxRestarts]
  /\ step \in Steps
  /\ socks \subseteq [pid : Pids \union {None}, port : Ports]
  /\ shown \subseteq [unit : Units, main : Pids \union {None}]
  /\ claimed \subseteq Pids
  /\ \A r \in rows : /\ r.source \in Sources /\ r.ident \in Idents
                     /\ r.pid \in Pids \union {None}
  /\ degraded \in BOOLEAN /\ expired \in BOOLEAN
  /\ failed \subseteq AllFaults /\ moved \subseteq Procs
  /\ before = None \/ before \subseteq Sources \X Idents
  /\ scans \in Nat /\ faults \in Nat

Init ==
  /\ host \in Hosts /\ born = [p \in Procs |-> 0]
  /\ step = "idle"
  /\ socks = {} /\ shown = {} /\ claimed = {} /\ rows = {}
  /\ degraded = FALSE /\ expired = FALSE
  /\ failed = {} /\ moved = {} /\ before = None
  /\ scans = 0 /\ faults = 0

Goto(s, t) == step = s /\ step' = t /\ UNCHANGED <<hostVars, before, scans, expired>>

Works == ~expired /\ UNCHANGED <<failed, faults>>

\* A command fails by a fault, or because the budget is used up.
Fails(kind) ==
  /\ failed' = failed \union {kind}
  /\ IF expired THEN UNCHANGED faults
     ELSE /\ kind \in FaultKinds /\ faults < MaxFaults
          /\ faults' = faults + 1

\* Faulty variant: the PID of a row is not claimed.
AddNoClaim(new) == rows' = rows \union new /\ UNCHANGED claimed

\* scan.add
Add(new) ==
  /\ rows' = rows \union new
  /\ claimed' = claimed \union ({r.pid : r \in new} \ {None})

----------------------------------------------------------------------------
(* The layers                                                              *)

\* Discover begins: nothing is kept of an earlier scan.
Begin ==
  /\ step = "idle" /\ scans < MaxScans
  /\ step' = "listeners" /\ scans' = scans + 1
  /\ socks' = {} /\ shown' = {} /\ claimed' = {} /\ rows' = {}
  /\ degraded' = FALSE /\ expired' = FALSE /\ failed' = {} /\ moved' = {}
  /\ UNCHANGED <<host, born, before, faults>>

\* parseSS: the TCP sockets there are, with the owners the agent sees.
SocketPid(p) == IF Visible(p) THEN Pid(p) ELSE None
Listening    == UNION {[pid : {SocketPid(p)}, port : P(p).tcp] : p \in Procs}

\* There are sockets, and not one of either protocol names its owner.
Blind(tcp, udp) ==
  /\ tcp # {} \/ udp # "none"
  /\ udp # "seen" /\ \A s \in tcp : s.pid = None

\* collectListeners: one owner seen among all sockets is enough for the note to be
\* left out; that one of its two calls failed is not noted anywhere.
CollectListeners ==
  /\ Goto("listeners", "docker")
  /\ \/ Works /\ socks' = Listening /\ degraded' = Blind(Listening, host.udp)
     \/ Fails("ss") /\ UNCHANGED socks /\ degraded' = TRUE
     \/ ~expired /\ Fails("sstcp") /\ UNCHANGED socks /\ degraded' = Blind({}, host.udp)
     \/ ~expired /\ Fails("ssudp") /\ socks' = Listening /\ degraded' = Blind(Listening, "none")
  /\ UNCHANGED <<shown, claimed, rows>>

\* detectContainers: every container but our own, running or not; an engine that
\* is not there is skipped.
DetectContainers(engine, next) ==
  /\ Goto(engine, next)
  /\ \/ /\ engine \in host.tools /\ Works
        /\ Add({Row(engine, P(p).app, None) :
                  p \in {q \in Procs : P(q).listed = engine}})
        /\ UNCHANGED degraded
     \/ /\ engine \in host.tools /\ Fails(engine)
        /\ degraded' = TRUE /\ UNCHANGED <<rows, claimed>>
     \/ engine \notin host.tools /\ UNCHANGED <<rows, claimed, degraded, failed, faults>>
  /\ UNCHANGED <<socks, shown>>

Docker == DetectContainers("docker", "podman")
Podman == DetectContainers("podman", "list")

\* The units that are not on the skip list.
Listed == {u \in Units : u[1] # "skipped"}

\* detectSystemd: systemctl list-units, where there is a systemctl.
ListUnits ==
  /\ \/ /\ "systemctl" \in host.tools /\ Works
        /\ Goto("list", IF Listed = {} THEN "pm2" ELSE "show") /\ UNCHANGED degraded
     \/ /\ "systemctl" \in host.tools /\ Fails("list")
        /\ Goto("list", "pm2") /\ degraded' = TRUE
     \/ /\ "systemctl" \notin host.tools
        /\ Goto("list", "pm2") /\ UNCHANGED <<degraded, failed, faults>>
  /\ UNCHANGED foundVars

\* The PIDs systemd may call the main one of a unit; those of the daemons of PM2
\* and supervisor are not of interest here.
MainPids(u) ==
  LET S == {Pid(p) : p \in {q \in Procs : P(q).unit # "none" /\ UnitOf(q) = u
                                            /\ P(q).listed \notin Managers}}
  IN IF S = {} THEN {None} ELSE S

\* showUnits: one call for all units; that it failed is not noted anywhere.
ShowUnits ==
  /\ Goto("show", "attribute")
  /\ \/ /\ Works
        /\ \E main \in [Listed -> Pids \union {None}] :
             /\ \A u \in Listed : main[u] \in MainPids(u)
             /\ shown' = {[unit |-> u, main |-> main[u]] : u \in Listed}
     \/ Fails("show") /\ UNCHANGED shown
  /\ UNCHANGED <<socks, claimed, rows, degraded>>

\* The sockets whose owner runs in a unit.
OfUnits == {s \in socks : s.pid # None /\ Owner(s.pid) = "systemd"}

\* Faulty variant: whatever listens is claimed.
UnitPidsAll == {s.pid : s \in socks} \ {None}

UnitPids == {s.pid : s \in OfUnits}

\* detectSystemd: the owner of every socket that runs in a unit is claimed,
\* whether the unit is reported or not; reported are units the operator has
\* installed, and active ones that serve.
Attribute ==
  LET Serving == {UnitOf(s.pid[1]) : s \in OfUnits}
      Chosen  == {u \in shown : \/ u.unit[1] = "operator"
                                \/ u.unit[1] = "distro" /\ u.unit \in Serving}
      Mains   == {u.main : u \in Chosen} \ {None}
  IN
  /\ Goto("attribute", "pm2")
  /\ rows' = rows \union {Row("systemd", u.unit, u.main) : u \in Chosen}
  /\ claimed' = claimed \union UnitPids \union Mains
  /\ UNCHANGED <<socks, shown, degraded, failed, faults>>

\* The first of each name among S, in the list's order: what `seen` lets through.
FirstOfEach(S) == {CHOOSE p \in S : P(p).app = a : a \in {P(q).app : q \in S}}

\* detectPM2: the list of the agent's own daemon, and for root those of the other
\* users, under their names.  A list that cannot be read is skipped.
DetectPM2 ==
  /\ Goto("pm2", IF host.root THEN "pm2other" ELSE "supervisor")
  /\ \/ /\ Works
        /\ Add({Row("pm2", P(p).app, Pid(p)) :
                  p \in FirstOfEach({q \in Procs : P(q).listed = "pm2"})})
     \/ Fails("pm2") /\ UNCHANGED <<rows, claimed>>
  /\ UNCHANGED <<socks, shown, degraded>>

DetectOtherPM2 ==
  /\ Goto("pm2other", "supervisor")
  /\ \/ /\ Works
        /\ Add({Row("pm2", <<"pm2other", P(p).app>>, Pid(p)) :
                  p \in FirstOfEach({q \in Procs : P(q).listed = "pm2other"})})
     \/ Fails("ps") /\ UNCHANGED <<rows, claimed>>
  /\ UNCHANGED <<socks, shown, degraded>>

DetectSupervisor ==
  /\ Goto("supervisor", "loose")
  /\ \/ /\ Works
        /\ Add({Row("supervisor", P(p).app, Pid(p)) :
                  p \in {q \in Procs : P(q).listed = "supervisor"}})
     \/ Fails("supervisor") /\ UNCHANGED <<rows, claimed>>
  /\ UNCHANGED <<socks, shown, degraded>>

\* Faulty variant: the row is named by the PID.
LooseIdentByPid(pid, ports) == <<P(pid[1]).app, pid[2]>>

\* Name and lowest port, "not PID: a restart changes the PID but should stay the
\* same row".
LooseIdent(pid, ports) ==
  <<P(pid[1]).app, CHOOSE n \in ports : \A m \in ports : n <= m>>

\* detectLooseProcesses.
Loose ==
  LET left == {s \in socks : /\ s.pid # None /\ s.pid \notin claimed
                             /\ ~P(s.pid[1]).plumbing /\ Owner(s.pid) = "none"}
      PortsOf(pid) == {s.port : s \in {t \in left : t.pid = pid}}
  IN
  /\ Goto("loose", "reported")
  /\ Add({Row("process", LooseIdent(pid, PortsOf(pid)), pid) :
            pid \in {s.pid : s \in left}})
  /\ UNCHANGED <<socks, shown, degraded, failed, faults>>

Identifiers == {<<r.source, r.ident>> : r \in rows}

\* Discover returns; the heartbeat sends the rows.
Report ==
  /\ step = "reported" /\ step' = "idle"
  /\ before' = IF failed = {} /\ moved = {} THEN Identifiers ELSE before
  /\ UNCHANGED <<hostVars, foundVars, degraded, expired, failed, scans, faults>>

----------------------------------------------------------------------------
(* What happens meanwhile                                                  *)

\* Process p restarts.
Restart(p) ==
  /\ born[p] < MaxRestarts /\ born' = [born EXCEPT ![p] = @ + 1]
  /\ moved' = IF step = "idle" THEN moved ELSE moved \union {p}
  /\ UNCHANGED <<host, step, foundVars, degraded, expired, failed, before, scans, faults>>

\* The 25 seconds are over: no command works any more.
Expire ==
  /\ step \notin {"idle", "reported"} /\ ~expired /\ expired' = TRUE
  /\ Fails("budget") /\ UNCHANGED <<hostVars, step, foundVars, degraded, before, scans>>

Scan ==
  \/ Begin \/ CollectListeners \/ Docker \/ Podman \/ ListUnits \/ ShowUnits
  \/ Attribute \/ DetectPM2 \/ DetectOtherPM2 \/ DetectSupervisor \/ Loose \/ Report

Quiet == step = "idle" /\ scans = MaxScans /\ UNCHANGED vars

Next == Scan \/ (\E p \in Procs : Restart(p)) \/ Expire \/ Quiet

Spec == Init /\ [][Next]_vars

----------------------------------------------------------------------------
(* Properties                                                              *)

\* Left out on purpose: our own containers, plumbing, what runs in the units on the
\* skip list (a program that cron has started is among them) and in those of the
\* distribution that are not active.
LeftOut(p) ==
  \/ P(p).listed = "ours" \/ P(p).plumbing
  \/ ~InContainer(p) /\ P(p).unit \in {"skipped", "inactive"}

\* A row shows process p: its container, its unit, its manager's entry for its
\* name, or itself.
Shows(r, p) ==
  \/ r.source = P(p).listed /\ r.ident = P(p).app
  \/ r.source = "pm2" /\ r.ident = <<P(p).listed, P(p).app>>
  \/ r.source = "systemd" /\ r.ident = UnitOf(p)
  \/ r.source = "process" /\ r.pid = Pid(p)

Missing == {p \in Procs \ moved : /\ P(p).tcp # {} /\ ~LeftOut(p)
                                  /\ \A r \in rows : ~Shows(r, p)}

\* How a listening process can be lost without a note: the TCP call of ss fails and
\* the UDP call does not; the agent, not being root, cannot see whose socket it is,
\* but sees the owner of another one; it is in a container, and the engine is not
\* in the agent's PATH or not one of the two; it is in a unit, and systemctl show
\* fails or there is no systemctl.
SilentlyLost(p) ==
  \/ "sstcp" \in failed
  \/ ~Visible(p)
  \/ InContainer(p) /\ P(p).listed \notin host.tools
  \/ /\ ~InContainer(p) /\ P(p).unit # "none"
     /\ "show" \in failed \/ "systemctl" \notin host.tools

\* "Every remaining process holding a listening TCP socket" (:24) is found, or the
\* scan says that it under-reports: "a missing binary or a permission error
\* degrades one layer and is recorded as a note" (:27-29), but for the losses
\* above, which the code does not note.  Whatever else fails, or restarts
\* meanwhile, a process that listens is in the report or there is a note; where
\* PM2 or supervisor do not answer, the sweep finds their processes.
KnownSilentLosses ==
  step = "reported" /\ ~degraded => \A p \in Missing : SilentlyLost(p)

\* "Each layer claims the PIDs it owns so the same app is never reported twice"
\* (:24-26), as far as the sweep goes: it reports no PID of another row, and
\* nothing that lives in a unit or a container.
SweepTakesTheRest ==
  step = "reported" =>
    \A r \in {q \in rows : q.source = "process"} :
      /\ \A q \in rows \ {r} : q.pid # r.pid
      /\ \A p \in Procs \ moved :
           r.pid = Pid(p) => ~InContainer(p) /\ P(p).unit = "none"

\* Identifiers do not depend on PIDs: after restarts between two scans, with no
\* failure and no restart during either, the second has the identifiers of the
\* first (detectLooseProcesses, :846-847).
StableIdentifiers ==
  step = "reported" /\ failed = {} /\ moved = {} /\ before # None
    => Identifiers = before

=============================================================================
