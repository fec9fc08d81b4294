--------------------------- MODULE ExclusiveScopes ---------------------------
(***************************************************************************)
(* What the lock manager of the Ops service promises its callers, with no  *)
(* lock, thread or job list in sight: work is admitted into a scope, an    *)
(* application's own scope or the cluster's, and conflicting scopes are    *)
(* never occupied together.  The class docstring of ops/locks.py is this   *)
(* module in words; OpsService is shown to implement it.                   *)
(***************************************************************************)
CONSTANTS
    Jobs,    \* whatever can occupy a scope
    Apps,    \* the application scopes, app:<name> in the code
    Cluster  \* the exclusive scope

VARIABLE occupied  \* the set of <<scope, job>> pairs now at work

Scope == Apps \cup {Cluster}

\* "app: scopes serialize jobs per app and may coexist across different apps;
\* cluster is refused while any lock is held, and while held it refuses
\* everything else."
Conflict(s, t) == s = t \/ s = Cluster \/ t = Cluster

Init == occupied = {}

Enter(s, j) ==
    /\ \A o \in occupied : ~Conflict(s, o[1])
    /\ occupied' = occupied \cup {<<s, j>>}

Leave(s, j) ==
    /\ <<s, j>> \in occupied
    /\ occupied' = occupied \ {<<s, j>>}

\* The process that kept the scopes is restarted: they were only ever in memory.
Vacate == occupied' = {}

Next ==
    \/ \E s \in Scope, j \in Jobs : Enter(s, j) \/ Leave(s, j)
    \/ Vacate

Spec == Init /\ [][Next]_occupied
=============================================================================
