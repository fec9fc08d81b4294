--------------------------- MODULE MCInstanceFleet ---------------------------
(* InstanceProbe on two boxes and a register that is edited under the commands. *)
EXTENDS InstanceProbe, TLC

CONSTANTS mars, dorm, box1, box2, key, src, home, c0, c1, d1, shared, b0, b1, bd, o1, o2

\* A history that forks: c1 and d1 are children of c0.
MCAncestry == c0 :> {c0} @@ c1 :> {c0, c1} @@ d1 :> {c0, d1}

MCDelivery == c0 :> b0 @@ c1 :> b1 @@ d1 :> bd

Server(name, box) ==
    <<<<name, "KIND", "server-nuc">>, <<name, "SSH_HOST", box>>, <<name, "SSH_USER", "ops">>,
      <<name, "SSH_KEY", key>>, <<name, "ENV_PROFILE", "nuc">>, <<name, "CHECKOUT", "co">>,
      <<name, "SOURCE_CHECKOUT", src>>>>

Planned(name) ==
    <<<<name, "KIND", "standalone">>, <<name, "LIFECYCLE", "planned">>, <<name, "HOME", home>>>>

Standalone(name) ==
    <<<<name, "KIND", "standalone">>, <<name, "APP_ROOT", "app">>, <<name, "HOME", home>>>>

List(names) == <<<<Header, "VPATH_INSTANCES", names>>>>

\* The name is pointed at another box, an instance that was planned is built, and
\* the file is broken for a while.
MCText ==
       "first"  :> List(<<mars, dorm>>) \o Server(mars, box1) \o Planned(dorm)
    @@ "moved"  :> List(<<dorm, mars>>) \o Server(mars, box2) \o Standalone(dorm)
    @@ "broken" :> List(<<mars>>) \o Server(mars, box1) \o <<<<mars, "SSH_HOST", box2>>>>

MCAnswers ==
    {[api |-> "build", deployments |-> "all", complete |-> TRUE],
     [api |-> "build", deployments |-> "some", complete |-> FALSE],
     [api |-> "silent", deployments |-> "all", complete |-> TRUE],
     [api |-> "other", deployments |-> "all", complete |-> TRUE]}
=============================================================================
