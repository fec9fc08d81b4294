---------------------------- MODULE GitOpsEngine ----------------------------
(***************************************************************************)
(* GitOpsEngine: deploy and uninstall as commits into the Deploy-of-Record *)
(* (a git repository behind Gitea), converged by ArgoCD.                   *)
(*                                                                         *)
(* Every action of a job is one HTTP call, and the order of the actions is *)
(* the order of the calls.  Jobs of different applications interleave at   *)
(* any call, and so does the build host, which renders applications into   *)
(* the same record.  Jobs of one application are serial: OpsService gives  *)
(* each the app:<name> lock (module OpsService).  Any call may fail, and a *)
(* write may take effect although its caller sees it fail.  A console that *)
(* dies ends all its jobs where they are, and nothing takes them up again. *)
(*                                                                         *)
(* Gitea's blob sha is the hash of the content, so a file's content stands *)
(* for its sha.                                                            *)
(***************************************************************************)
EXTENDS Naturals, FiniteSets

CONSTANTS
    Jobs,        \* deploy and uninstall jobs
    Apps,        \* application names
    Renders,     \* what an ApplicationSet input can hold
    Automated,   \* the inputs whose "automated" is true
    Absent,      \* no such file, no such Application
    NoTask,      \* a job nobody has submitted
    MaxRenders   \* bound on renders by the build host

ASSUME RendersAssumption ==
    /\ Automated \subseteq Renders
    /\ Absent \notin Renders
    /\ MaxRenders \in Nat

VARIABLES
    installed,   \* installed-set.json, its "apps" array
    payloads,    \* the applications with a directory apps/<app>
    inputs,      \* appset-inputs/<app>.json: what ArgoCD generates from
    parked,      \* uninstalled/<app>.json
    running,     \* the input ArgoCD's Application of each app was synced to
    renders,
    pc,          \* where each job stands
    task,        \* each job's verb and application
    seenSet,     \* the InstalledSet a job has read
    text,        \* the input text a job is moving
    sha          \* the blob sha a job resolved before a write

memory == <<seenSet, text, sha>>
vars == <<installed, payloads, inputs, parked, running, renders, pc, task,
          seenSet, text, sha>>

-----------------------------------------------------------------------------
\* "build" stands for every verb the engine has no handler for; status and
\* health only read.
Verb == {"deploy", "uninstall", "build"}

Task == [verb : Verb, app : Apps]

ASSUME TaskAssumption == NoTask \notin Task

File == Renders \cup {Absent}

\* The stages that end in an HTTP call, named for what it asks or does.
Reading == {"cascade", "payload", "input", "archive", "census", "set", "lane",
            "source", "target", "target sha", "source sha", "synced", "absent"}
Writing == {"commit", "put", "post", "delete"}

Stage == {"idle", "succeeded", "failed"} \cup Reading \cup Writing

Active(j) == pc[j] \in Reading \cup Writing

Deploys(j) == task[j].verb = "deploy"
App(j) == task[j].app

Goto(j, stage) == pc' = [pc EXCEPT ![j] = stage]

\* The call comes back and the job goes on, knowing no more than it did.
Onward(j, stage) == Goto(j, stage) /\ UNCHANGED memory

\* The job is over, and what its thread knew is gone.
End(j, outcome) ==
    /\ Goto(j, outcome)
    /\ seenSet' = [seenSet EXCEPT ![j] = {}]
    /\ text' = [text EXCEPT ![j] = Absent]
    /\ sha' = [sha EXCEPT ![j] = Absent]

\* A write's answer: it arrives, or it is lost and the job has failed.
Answered(j, stage) == Onward(j, stage) \/ End(j, "failed")

\* A deploy moves the input from the archive back, an uninstall the other way.
Source(j) == IF Deploys(j) THEN parked[App(j)] ELSE inputs[App(j)]
Target(j) == IF Deploys(j) THEN inputs[App(j)] ELSE parked[App(j)]

WriteTarget(j) ==
    \/ /\ Deploys(j)
       /\ inputs' = [inputs EXCEPT ![App(j)] = text[j]]
       /\ UNCHANGED parked
    \/ /\ ~Deploys(j)
       /\ parked' = [parked EXCEPT ![App(j)] = text[j]]
       /\ UNCHANGED inputs

RemoveSource(j) ==
    \/ /\ Deploys(j)
       /\ parked' = [parked EXCEPT ![App(j)] = Absent]
       /\ UNCHANGED inputs
    \/ /\ ~Deploys(j)
       /\ inputs' = [inputs EXCEPT ![App(j)] = Absent]
       /\ UNCHANGED parked

\* The record of a server in use: what is installed is rendered and in ArgoCD's
\* view, and what was uninstalled is parked.
Init ==
    /\ payloads \in SUBSET Apps
    /\ installed \in SUBSET payloads
    /\ \E render \in [Apps -> Renders], archive \in SUBSET (Apps \ installed) :
          /\ inputs = [a \in Apps |->
                IF a \in payloads \ archive THEN render[a] ELSE Absent]
          /\ parked = [a \in Apps |-> IF a \in archive THEN render[a] ELSE Absent]
    /\ running = inputs
    /\ renders = 0
    /\ pc = [j \in Jobs |-> "idle"]
    /\ task = [j \in Jobs |-> NoTask]
    /\ seenSet = [j \in Jobs |-> {}]
    /\ text = [j \in Jobs |-> Absent]
    /\ sha = [j \in Jobs |-> Absent]

-----------------------------------------------------------------------------
(* What a job does.                                                        *)

\* A mutant of Submit: no lock keeps the jobs of an application apart.
SubmitUnlocked(j, t) ==
    /\ pc[j] = "idle"
    /\ task' = [task EXCEPT ![j] = t]
    /\ Goto(j, IF t.verb = "build" THEN "failed" ELSE "cascade")
    /\ UNCHANGED <<installed, payloads, inputs, parked, running, renders, memory>>

\* The job's thread enters the engine, holding the lock of its application.
Submit(j, t) ==
    /\ pc[j] = "idle"
    /\ \A k \in Jobs : Active(k) => App(k) # t.app
    /\ task' = [task EXCEPT ![j] = t]
    /\ Goto(j, IF t.verb = "build" THEN "failed" ELSE "cascade")
    /\ UNCHANGED <<installed, payloads, inputs, parked, running, renders, memory>>

\* Reads of a deploy and of an uninstall that decide where it goes next.  What
\* an answer does not allow, CallFails does.
RequireCascade(j) ==
    /\ pc[j] = "cascade"
    /\ Onward(j, IF Deploys(j) THEN "payload" ELSE "census")

PayloadExists(j) ==
    /\ pc[j] = "payload"
    /\ App(j) \in payloads
    /\ Onward(j, "input")

InputExists(j) ==
    /\ pc[j] = "input"
    /\ Onward(j, IF inputs[App(j)] = Absent THEN "archive" ELSE "lane")

ArchiveExists(j) ==
    /\ pc[j] = "archive"
    /\ parked[App(j)] # Absent
    /\ Onward(j, "source")

\* The namespaces show no dependent project.
NoDependents(j) ==
    /\ pc[j] = "census"
    /\ Onward(j, "set")

CheckLane(j) ==
    /\ pc[j] = "lane"
    /\ inputs[App(j)] \in Automated
    /\ Onward(j, "set")

TargetExists(j) ==
    /\ pc[j] = "target"
    /\ Onward(j, IF Target(j) = Absent THEN "post" ELSE "target sha")

ReadSet(j) ==
    /\ pc[j] = "set"
    /\ seenSet' = [seenSet EXCEPT ![j] = installed]
    /\ \/ Deploys(j) /\ App(j) \in installed /\ Goto(j, "synced")
       \/ Deploys(j) /\ App(j) \notin installed /\ Goto(j, "commit")
       \/ ~Deploys(j) /\ App(j) \in installed /\ Goto(j, "commit")
    /\ UNCHANGED <<text, sha>>

\* A mutant of GetSource: the move reads the file it is about to write.
GetSourceOfTarget(j) ==
    /\ pc[j] = "source"
    /\ Source(j) # Absent
    /\ text' = [text EXCEPT ![j] = Target(j)]
    /\ Goto(j, "target")
    /\ UNCHANGED <<seenSet, sha>>

GetSource(j) ==
    /\ pc[j] = "source"
    /\ Source(j) # Absent
    /\ text' = [text EXCEPT ![j] = Source(j)]
    /\ Goto(j, "target")
    /\ UNCHANGED <<seenSet, sha>>

GetTargetSha(j) ==
    /\ pc[j] = "target sha"
    /\ Target(j) # Absent
    /\ sha' = [sha EXCEPT ![j] = Target(j)]
    /\ Goto(j, "put")
    /\ UNCHANGED <<seenSet, text>>

GetSourceSha(j) ==
    /\ pc[j] = "source sha"
    /\ Source(j) # Absent
    /\ sha' = [sha EXCEPT ![j] = Source(j)]
    /\ Goto(j, "delete")
    /\ UNCHANGED <<seenSet, text>>

\* _wait takes any Synced/Healthy for convergence, whatever it was synced to.
ObserveSynced(j) ==
    /\ pc[j] = "synced"
    /\ running[App(j)] # Absent
    /\ End(j, "succeeded")

ObserveAbsent(j) ==
    /\ pc[j] = "absent"
    /\ running[App(j)] = Absent
    /\ End(j, "succeeded")

\* The call is refused, or cannot be made, or the wait for ArgoCD times out; or
\* its answer is one the engine raises on: no cascade, dependents, no payload, no
\* input, not automated, not installed, file absent, sha not current.
CallFails(j) == Active(j) /\ End(j, "failed")

Read(j) ==
    /\ \/ RequireCascade(j) \/ PayloadExists(j) \/ InputExists(j)
       \/ ArchiveExists(j) \/ NoDependents(j) \/ CheckLane(j) \/ TargetExists(j)
       \/ ReadSet(j) \/ GetSource(j) \/ GetTargetSha(j) \/ GetSourceSha(j)
       \/ ObserveSynced(j) \/ ObserveAbsent(j) \/ CallFails(j)
    /\ UNCHANGED <<installed, payloads, inputs, parked, running, renders, task>>

-----------------------------------------------------------------------------
(* The writes: Gitea takes each when the sha it names is the current one.  *)

Mutated(j, set) == IF Deploys(j) THEN set \cup {App(j)} ELSE set \ {App(j)}

\* A mutant of CommitSet: the set is put back whatever has become of it.
CommitSetUnconditionally(j) ==
    /\ pc[j] = "commit"
    /\ installed' = Mutated(j, seenSet[j])
    /\ Answered(j, IF Deploys(j) THEN "synced" ELSE "source")
    /\ UNCHANGED <<payloads, inputs, parked, running, renders, task>>

\* A mutant of CommitSet: the status of the answer is not looked at.
CommitSetIgnoringConflict(j) ==
    /\ pc[j] = "commit"
    /\ installed' = IF installed = seenSet[j] THEN Mutated(j, seenSet[j]) ELSE installed
    /\ Answered(j, IF Deploys(j) THEN "synced" ELSE "source")
    /\ UNCHANGED <<payloads, inputs, parked, running, renders, task>>

CommitSet(j) ==
    /\ pc[j] = "commit"
    /\ installed = seenSet[j]
    /\ installed' = Mutated(j, seenSet[j])
    /\ Answered(j, IF Deploys(j) THEN "synced" ELSE "source")
    /\ UNCHANGED <<payloads, inputs, parked, running, renders, task>>

PutTarget(j) ==
    /\ pc[j] = "put"
    /\ Target(j) = sha[j]
    /\ WriteTarget(j)
    /\ Answered(j, "source sha")
    /\ UNCHANGED <<installed, payloads, running, renders, task>>

\* A mutant of PostTarget: a write that failed is taken for done.
PostTargetIgnoringFailure(j) ==
    /\ pc[j] = "post"
    /\ WriteTarget(j) \/ UNCHANGED <<inputs, parked>>
    /\ Answered(j, "source sha")
    /\ UNCHANGED <<installed, payloads, running, renders, task>>

PostTarget(j) ==
    /\ pc[j] = "post"
    /\ Target(j) = Absent
    /\ WriteTarget(j)
    /\ Answered(j, "source sha")
    /\ UNCHANGED <<installed, payloads, running, renders, task>>

DeleteSource(j) ==
    /\ pc[j] = "delete"
    /\ Source(j) = sha[j]
    /\ RemoveSource(j)
    /\ Answered(j, IF Deploys(j) THEN "lane" ELSE "absent")
    /\ UNCHANGED <<installed, payloads, running, renders, task>>

-----------------------------------------------------------------------------
(* The build host and ArgoCD.                                              *)

\* redeployApp: the application's payload and input, rendered afresh.
Render(a, input) ==
    /\ renders < MaxRenders
    /\ renders' = renders + 1
    /\ payloads' = payloads \cup {a}
    /\ inputs' = [inputs EXCEPT ![a] = input]
    /\ UNCHANGED <<installed, parked, running, pc, task, memory>>

\* The ApplicationSet generates an Application from each input, syncs it to the
\* input and prunes it with the input, in its own time.
Reconcile(a) ==
    /\ running[a] # inputs[a]
    /\ running' = [running EXCEPT ![a] = inputs[a]]
    /\ UNCHANGED <<installed, payloads, inputs, parked, renders, pc, task, memory>>

\* The console restarts (module OpsService): its jobs end wherever they stand.
ConsoleDies ==
    /\ pc' = [j \in Jobs |-> IF Active(j) THEN "failed" ELSE pc[j]]
    /\ seenSet' = [j \in Jobs |-> {}]
    /\ text' = [j \in Jobs |-> Absent]
    /\ sha' = [j \in Jobs |-> Absent]
    /\ UNCHANGED <<installed, payloads, inputs, parked, running, renders, task>>

JobStep(j) ==
    Read(j) \/ CommitSet(j) \/ PutTarget(j) \/ PostTarget(j) \/ DeleteSource(j)

Next ==
    \/ \E j \in Jobs : (\E t \in Task : Submit(j, t)) \/ JobStep(j)
    \/ \E a \in Apps : (\E input \in Renders : Render(a, input)) \/ Reconcile(a)
    \/ ConsoleDies

Spec == Init /\ [][Next]_vars
-----------------------------------------------------------------------------
(* What is checked.                                                        *)

TypeOK ==
    /\ installed \in SUBSET Apps /\ payloads \in SUBSET Apps
    /\ inputs \in [Apps -> File] /\ parked \in [Apps -> File]
    /\ running \in [Apps -> File]
    /\ renders \in 0..MaxRenders
    /\ pc \in [Jobs -> Stage]
    /\ task \in [Jobs -> Task \cup {NoTask}]
    /\ seenSet \in [Jobs -> SUBSET Apps]
    /\ text \in [Jobs -> File] /\ sha \in [Jobs -> File]
    /\ \A j \in Jobs :
          /\ Active(j) => task[j] \in Task
          /\ pc[j] \in {"target", "target sha", "put", "post"} => text[j] \in Renders

\* The set changes by one application at a time, and no commit undoes another
\* job's: the compare-and-swap on the blob sha of installed-set.json.
Record == INSTANCE InstalledSet

ImplementsInstalledSet == Record!Spec

\* Wherever a job stops, what the set names is in ArgoCD's view: a deploy puts the
\* input back before it commits, an uninstall commits before it takes it away.
InstalledIsGenerated == \A a \in installed : inputs[a] # Absent

\* An uninstall parks the input and an install restores it, and whichever call
\* fails, one copy of it is in the record: it can always be installed again.
HasInput(a) == inputs[a] # Absent \/ parked[a] # Absent

RenderNeverLost == [][\A a \in Apps : HasInput(a) => HasInput(a)']_vars

\* A job that reports success did what it was asked: after a deploy the set names
\* the application and ArgoCD has its input, after an uninstall the set does not
\* and the input is parked.
Finishes(j) == pc[j] # "succeeded" /\ pc'[j] = "succeeded"

SuccessIsOnRecord ==
    [][\A j \in Jobs : Finishes(j) =>
          IF Deploys(j)
          THEN App(j) \in installed /\ inputs[App(j)] # Absent
          ELSE App(j) \notin installed /\ parked[App(j)] # Absent]_vars

=============================================================================
