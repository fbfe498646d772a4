---------------------------- MODULE MCDiscovery -----------------------------
(* Instances of Discovery: two processes of every kind, for an agent that   *)
(* is root or not, with one container engine and with or without systemctl; *)
(* the first one listens.                                                   *)
EXTENDS Discovery, TLC

CONSTANTS p1, p2, app1, app2

Process(app, tcp, kind, mine, plumbing) ==
  [app |-> app, tcp |-> tcp, listed |-> kind[1], unit |-> kind[2],
   mine |-> mine, plumbing |-> plumbing]

\* In a container, under a process manager with or without a unit, in a unit of
\* any kind, by itself.
Kinds ==
  {<<l, "none">> : l \in {"docker", "foreign", "ours", "pm2", "pm2other", "supervisor", "no"}}
    \union {<<"pm2", "operator">>}
    \union {<<"no", u>> : u \in {"operator", "distro", "inactive", "skipped"}}

Host(first, second, root, tools, udp) ==
  [proc |-> (p1 :> first @@ p2 :> second), root |-> root, tools |-> tools, udp |-> udp]

Usual == {"docker", "systemctl"}

\* Two processes of one kind that share their name (workers of one server, for
\* one) or do not; the second listens on both ports or on none.
OneKind ==
  {Host(Process(app1, {1}, k, FALSE, FALSE), Process(a, t, k, FALSE, FALSE), TRUE, Usual, "none") :
     k \in Kinds, a \in Apps, t \in {{}, Ports}}

\* One process by itself, and one of each other kind.
Mixed ==
  {Host(Process(app1, Ports, <<"no", "none">>, FALSE, FALSE), Process(app2, {2}, k, FALSE, b),
        TRUE, Usual, "none") : k \in Kinds, b \in BOOLEAN}

\* An agent that is not root, on a host where one of the two processes is its own
\* user's, both or none.
Unprivileged ==
  {Host(Process(app1, {1}, <<"no", "none">>, m, FALSE), Process(app2, {2}, k, n, FALSE),
        FALSE, Usual, u) :
     k \in {<<"docker", "none">>, <<"pm2", "none">>, <<"no", "none">>, <<"no", "distro">>},
     m \in BOOLEAN, n \in BOOLEAN, u \in {"none", "hidden", "seen"}}

\* No systemctl, and the engine of a container not in the PATH; a container, and a
\* unit whose name reads like one of a container.
Bare ==
  {Host(Process(app1, {1}, <<"no", "none">>, FALSE, FALSE), Process(app2, {2}, k, FALSE, FALSE),
        TRUE, {"docker"}, "none") :
     k \in {<<"podman", "none">>, <<"no", "operator">>, <<"pm2", "operator">>, <<"foreign", "distro">>}}
  \union
  {Host(Process(app1, {1}, <<"podman", "none">>, FALSE, FALSE),
        Process(app2, {2}, <<"foreign", u>>, FALSE, FALSE), TRUE, {"podman", "systemctl"}, "none") :
     u \in {"operator", "distro"}}

AllHosts == OneKind \union Mixed \union Unprivileged \union Bare
=============================================================================
