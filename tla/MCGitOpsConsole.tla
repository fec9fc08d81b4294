--------------------------- MODULE MCGitOpsConsole ---------------------------
(* GitOpsConsole on two requests for one application. *)
EXTENDS GitOpsConsole

CONSTANTS app, auto

AppDev(verb) == [verb |-> verb, app |-> app, role |-> "app-dev", confirmed |-> FALSE]

Admin(verb) == [verb |-> verb, app |-> app, role |-> "admin", confirmed |-> TRUE]

\* What competes for the application and for the cluster, and a read.
MCConsoleCalls ==
    {AppDev("deploy"), AppDev("uninstall"), Admin("publish"), Admin("reinstall"),
     AppDev("health")}
=============================================================================
