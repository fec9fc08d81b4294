---------------------------- MODULE MCOpsService ----------------------------
(* OpsService on three requests and two applications.                      *)
EXTENDS OpsService, TLC

CONSTANTS a1, a2

AppCall(verb, app) ==
    [verb |-> verb, app |-> app, role |-> "app-dev", confirmed |-> FALSE]

AdminCall(verb, confirmed) ==
    [verb |-> verb, app |-> a1, role |-> "admin", confirmed |-> confirmed]

\* One call of each kind the gates and the locks tell apart.
MCCalls ==
    {AppCall("deploy", a1), AppCall("deploy", a2), AppCall("health", a1),
     AdminCall("reinstall", TRUE), AdminCall("reinstall", FALSE),
     AppCall("publish", a1), AppCall("unknown", a1),
     [AppCall("deploy", a1) EXCEPT !.role = "unknown"]}

\* Requests are interchangeable.
RequestSymmetry == Permutations(Requests)
=============================================================================
