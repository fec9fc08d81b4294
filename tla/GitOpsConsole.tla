---------------------------- MODULE GitOpsConsole ----------------------------
(***************************************************************************)
(* A console that is configured with the GitOps engine: the Ops service    *)
(* (module OpsService) whose job threads run the engine's calls (module    *)
(* GitOpsEngine) while they are "working".                                 *)
(*                                                                         *)
(* GitOpsEngine lets a job in only when no other of its application is     *)
(* active.  Nothing here does: what keeps them apart, if anything, is the  *)
(* lock a request took when it was admitted, which its thread gives back   *)
(* after the outcome is on record.                                         *)
(***************************************************************************)
EXTENDS OpsService

CONSTANTS
    Renders, Automated, Absent, NoTask, MaxRenders   \* those of GitOpsEngine

VARIABLES
    installed, payloads, inputs, parked, running, renders,   \* the record
    step,                                   \* where each job's engine stands
    task, seenSet, text, sha

Engine == INSTANCE GitOpsEngine WITH Jobs <- Requests, pc <- step

ASSUME EngineAssumption == Engine!RendersAssumption /\ Engine!TaskAssumption

record == <<installed, payloads, inputs, parked, running, renders>>
engine == <<record, step, task, seenSet, text, sha>>
console == <<vars, engine>>

-----------------------------------------------------------------------------
\* The verbs whose jobs change the record.  A publish does it in its last stage,
\* which is a deploy.
RecordVerbs == {"deploy", "publish", "uninstall"}

EngineTask(c) ==
    [verb |-> IF c.verb = "uninstall" THEN "uninstall" ELSE "deploy", app |-> c.app]

ConsoleInit == Init /\ Engine!Init

\* The job's thread, or its publish pipeline, calls the engine.
EnterEngine(r) ==
    /\ pc[r] = "working"
    /\ step[r] = "idle"
    /\ call[r].verb \in RecordVerbs
    /\ task' = [task EXCEPT ![r] = EngineTask(call[r])]
    /\ step' = [step EXCEPT ![r] = "cascade"]
    /\ UNCHANGED <<vars, record, seenSet, text, sha>>

EngineWorks(r) ==
    /\ pc[r] = "working"
    /\ Engine!JobStep(r)
    /\ UNCHANGED vars

\* A read has nothing to do with the record.  A publish may stop before its last
\* stage, and the engine has no handler for what only the build host can do.  What ends
\* the engine's call in the middle ends it failed, whether the runner catches it or not.
EngineComesBack(r) ==
    /\ EngineEnds(r)
    /\ \/ call[r].verb \in {"status", "health"}
       \/ pc'[r] = "result" /\ step[r] = "succeeded"
       \/ pc'[r] \in {"fail", "release"} /\ step[r] = "failed"
       \/ /\ pc'[r] \in {"fail", "release"} /\ step[r] = "idle"
          /\ call[r].verb \notin {"deploy", "uninstall"}
    /\ UNCHANGED engine

Serve(r) ==
    /\ (\E c \in Calls : Receive(r, c)) \/ Submitter(r) \/ RunnerStep(r)
    /\ UNCHANGED engine

\* The build host and ArgoCD do not stop for a console.
Outside(a) ==
    /\ (\E input \in Renders : Engine!Render(a, input)) \/ Engine!Reconcile(a)
    /\ UNCHANGED vars

ConsoleNext ==
    \/ \E r \in Requests :
          Serve(r) \/ EnterEngine(r) \/ EngineWorks(r) \/ EngineComesBack(r)
    \/ \E a \in Apps : Outside(a)
    \/ Restart /\ Engine!ConsoleDies

\* The threads of the service are scheduled as in OpsService; of the engine
\* nothing is assumed.
ConsoleSpec == ConsoleInit /\ [][ConsoleNext]_console /\ Fairness

-----------------------------------------------------------------------------
(* What is checked.                                                        *)

\* What the record must say for a job's success to be true.
OnRecord(r) ==
    LET a == call[r].app IN
    /\ call[r].verb \in {"deploy", "publish"} => a \in installed /\ inputs[a] # Absent
    /\ call[r].verb = "uninstall" => a \notin installed /\ parked[a] # Absent

\* An outcome is true when it goes on record: at the moment the audit log says a
\* deploy, a publish or an uninstall succeeded, the Deploy-of-Record says the same,
\* although the engine came back several steps of other threads before.
AuditIsTrue ==
    [][audit' # audit /\ audit' # <<>> /\ audit'[1].result = "succeeded"
         => OnRecord(audit'[1].request)]_console
=============================================================================
