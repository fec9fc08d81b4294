---------------------------- MODULE GitOpsProofs ----------------------------
(***************************************************************************)
(* Proofs about GitOpsEngine for every number of jobs and applications and *)
(* any number of renders by the build host.                                *)
(*                                                                         *)
(* That what is installed is generated is not inductive: a commit needs to *)
(* know that the input was there when the job looked and has not gone      *)
(* since.  The strengthening says what each stage of a job has established *)
(* (Established) and that jobs of one application never overlap (Serial),  *)
(* so that nothing a stage established can be undone by another job.       *)
(***************************************************************************)
EXTENDS GitOpsEngine, TLAPS

\* The lock of OpsService, as the engine sees it.
Serial ==
    \A j, k \in Jobs : Active(j) /\ Active(k) /\ App(j) = App(k) => j = k

\* What a job knows of the record at the stage it has come to.
Established(j) ==
    Active(j) =>
      LET a == App(j) IN
      /\ pc[j] \in {"payload", "input", "archive", "lane", "synced"} => Deploys(j)
      /\ pc[j] \in {"census", "absent"} => ~Deploys(j)
      /\ Deploys(j) /\ pc[j] \in {"lane", "set", "commit", "synced", "source sha", "delete"}
            => inputs[a] # Absent
      /\ pc[j] = "synced" => a \in installed
      /\ ~Deploys(j) /\ pc[j] \in {"source", "target", "target sha", "put", "post",
                                   "source sha", "delete", "absent"}
            => a \notin installed
      /\ ~Deploys(j) /\ pc[j] \in {"source sha", "delete", "absent"}
            => parked[a] # Absent

IInv ==
    /\ TypeOK
    /\ Serial
    /\ \A j \in Jobs : Established(j)
    /\ InstalledIsGenerated

USE DEF Reading, Writing, Stage, Active, Goto

-----------------------------------------------------------------------------
LEMMA ActiveTask ==
    ASSUME IInv, NEW j \in Jobs, Active(j)
    PROVE  task[j] \in Task /\ App(j) \in Apps
  BY DEF IInv, TypeOK, Task, App

\* A step of a job is a step of a job that is active, and no other's.
LEMMA JobMoves ==
    ASSUME IInv, NEW j \in Jobs, JobStep(j)
    PROVE  /\ Active(j) /\ pc'[j] # "idle" /\ task' = task
           /\ \A k \in Jobs : k # j => pc'[k] = pc[k]
<1>1. CASE Read(j)
  BY <1>1 DEF Read, RequireCascade, PayloadExists, InputExists, ArchiveExists,
     NoDependents, CheckLane, TargetExists, ReadSet, GetSource, GetTargetSha,
     GetSourceSha, ObserveSynced, ObserveAbsent, CallFails, Onward, End, IInv, TypeOK
<1>2. CASE CommitSet(j) \/ PutTarget(j) \/ PostTarget(j) \/ DeleteSource(j)
  BY <1>2 DEF CommitSet, PutTarget, PostTarget, DeleteSource, Answered, Onward, End,
     IInv, TypeOK
<1> QED BY <1>1, <1>2 DEF JobStep

LEMMA InitInv == Init => IInv
<1> SUFFICES ASSUME Init PROVE IInv
  OBVIOUS
<1>1. PICK render \in [Apps -> Renders], archive \in SUBSET (Apps \ installed) :
        /\ inputs = [a \in Apps |->
              IF a \in payloads \ archive THEN render[a] ELSE Absent]
        /\ parked = [a \in Apps |-> IF a \in archive THEN render[a] ELSE Absent]
  BY DEF Init
<1>2. inputs \in [Apps -> File] /\ parked \in [Apps -> File]
  BY <1>1 DEF File
<1>3. TypeOK
  BY <1>2, RendersAssumption DEF Init, TypeOK, File
<1>4. InstalledIsGenerated
  BY <1>1, RendersAssumption DEF Init, InstalledIsGenerated
<1> QED
  BY <1>3, <1>4 DEF Init, IInv, Serial, Established

\* A job that moves touches only what belongs to its application, so what another
\* job has established stays: the two are never of one application.
LEMMA OthersStay ==
    ASSUME IInv, NEW j \in Jobs, NEW k \in Jobs, k # j, Active(j),
           pc'[k] = pc[k], task'[k] = task[k],
           \A a \in Apps : a # App(j) =>
               /\ inputs'[a] = inputs[a] /\ parked'[a] = parked[a]
               /\ a \in installed' <=> a \in installed
    PROVE  Established(k)'
<1>1. CASE ~Active(k)
  BY <1>1 DEF Established
<1>2. CASE Active(k)
  <2>1. App(k) \in Apps /\ App(k) # App(j)
    BY <1>2, ActiveTask DEF IInv, Serial
  <2>2. App(k)' = App(k) /\ (Deploys(k)' <=> Deploys(k))
    BY Zenon DEF App, Deploys
  <2>3. Established(k)
    BY DEF IInv
  <2> QED
    BY <1>2, <2>1, <2>2, <2>3 DEF Established
<1> QED BY <1>1, <1>2

\* No job of an application becomes active but through Submit.
LEMMA SerialStays ==
    ASSUME Serial, task' = task, \A k \in Jobs : Active(k)' => Active(k)
    PROVE  Serial'
<1>1. \A k \in Jobs : App(k)' = App(k)
  BY Zenon DEF App
<1> QED BY <1>1 DEF Serial

-----------------------------------------------------------------------------
LEMMA SubmitInv ==
    ASSUME IInv, NEW j \in Jobs, NEW t \in Task, Submit(j, t)
    PROVE  IInv'
<1>1. TypeOK'
  BY DEF IInv, TypeOK, Submit, Task, memory
<1>2. /\ task'[j] = t
      /\ \A k \in Jobs : k # j => task'[k] = task[k] /\ pc'[k] = pc[k]
  BY DEF IInv, TypeOK, Submit
<1>3. /\ App(j)' = t.app
      /\ \A k \in Jobs : k # j => App(k)' = App(k) /\ (Deploys(k)' <=> Deploys(k))
  BY <1>2, Zenon DEF App, Deploys
<1>4. Serial'
  <2>1. \A k \in Jobs : k # j /\ Active(k)' => App(k)' # t.app
    BY <1>2, <1>3 DEF Submit
  <2>2. \A k \in Jobs : k # j => (Active(k)' <=> Active(k)) /\ App(k)' = App(k)
    BY <1>2, <1>3
  <2>3. Serial
    BY DEF IInv
  <2> HIDE DEF Active
  <2>4. SUFFICES ASSUME NEW x \in Jobs, NEW y \in Jobs,
                        Active(x)', Active(y)', App(x)' = App(y)'
                 PROVE  x = y
    BY DEF Serial
  <2>5. CASE x # j /\ y # j
    BY <2>2, <2>3, <2>4, <2>5 DEF Serial
  <2>6. CASE x = j \/ y = j
    BY <1>3, <2>1, <2>4, <2>6
  <2> QED BY <2>5, <2>6
<1>5. ASSUME NEW k \in Jobs PROVE Established(k)'
  <2>1. CASE k = j
    BY <2>1 DEF IInv, Established, Submit, TypeOK
  <2>2. CASE k # j
    <3>1. Established(k)
      BY DEF IInv
    <3> QED
      BY <2>2, <1>2, <1>3, <3>1 DEF Established, Submit
  <2> QED BY <2>1, <2>2
<1>6. InstalledIsGenerated'
  BY DEF IInv, InstalledIsGenerated, Submit
<1> QED BY <1>1, <1>4, <1>5, <1>6 DEF IInv

LEMMA ReadInv ==
    ASSUME IInv, NEW j \in Jobs, Read(j)
    PROVE  IInv'
<1> USE DEF Onward, End, memory
<1>1. /\ UNCHANGED <<installed, payloads, inputs, parked, running, renders, task>>
      /\ \A k \in Jobs : k # j => pc'[k] = pc[k]
      /\ Active(j)
  BY DEF Read, RequireCascade, PayloadExists, InputExists, ArchiveExists,
     NoDependents, CheckLane, TargetExists, ReadSet, GetSource, GetTargetSha,
     GetSourceSha, ObserveSynced, ObserveAbsent, CallFails, IInv, TypeOK
<1>2. App(j) \in Apps /\ task[j] \in Task
  BY <1>1, ActiveTask
<1>3. Source(j) \in File /\ Target(j) \in File
  BY <1>2 DEF IInv, TypeOK, Source, Target
<1>4. /\ pc' \in [Jobs -> Stage] /\ seenSet' \in [Jobs -> SUBSET Apps]
      /\ text' \in [Jobs -> File] /\ sha' \in [Jobs -> File]
  BY <1>3 DEF Read, RequireCascade, PayloadExists, InputExists, ArchiveExists,
     NoDependents, CheckLane, TargetExists, ReadSet, GetSource, GetTargetSha,
     GetSourceSha, ObserveSynced, ObserveAbsent, CallFails, IInv, TypeOK, File
<1>5. pc'[j] \in {"target", "target sha", "put", "post"} => text'[j] \in Renders
  BY <1>3 DEF Read, RequireCascade, PayloadExists, InputExists, ArchiveExists,
     NoDependents, CheckLane, TargetExists, ReadSet, GetSource, GetTargetSha,
     GetSourceSha, ObserveSynced, ObserveAbsent, CallFails, IInv, TypeOK, File
<1>6. \A k \in Jobs : k # j => text'[k] = text[k]
  BY DEF Read, RequireCascade, PayloadExists, InputExists, ArchiveExists,
     NoDependents, CheckLane, TargetExists, ReadSet, GetSource, GetTargetSha,
     GetSourceSha, ObserveSynced, ObserveAbsent, CallFails, IInv, TypeOK
<1>7. TypeOK'
  BY <1>1, <1>2, <1>4, <1>5, <1>6 DEF IInv, TypeOK
<1>8. Serial'
  BY <1>1, SerialStays DEF IInv
<1>9. Established(j)'
  <2>1. App(j)' = App(j) /\ (Deploys(j)' <=> Deploys(j))
    BY <1>1, Zenon DEF App, Deploys
  <2>2. Established(j) /\ pc \in [Jobs -> Stage] /\ Absent \notin Automated
    BY RendersAssumption DEF IInv, TypeOK
  <2> USE <1>1, <2>1, <2>2 DEF Established
  <2>3. CASE RequireCascade(j) \/ PayloadExists(j) \/ InputExists(j)
    BY <2>3 DEF RequireCascade, PayloadExists, InputExists
  <2>4. CASE ArchiveExists(j) \/ NoDependents(j) \/ CheckLane(j)
    BY <2>4 DEF ArchiveExists, NoDependents, CheckLane
  <2>5. CASE TargetExists(j) \/ ReadSet(j)
    BY <2>5 DEF TargetExists, ReadSet
  <2>6. CASE GetSource(j) \/ GetTargetSha(j) \/ GetSourceSha(j)
    BY <2>6 DEF GetSource, GetTargetSha, GetSourceSha
  <2>7. CASE ObserveSynced(j) \/ ObserveAbsent(j) \/ CallFails(j)
    BY <2>7 DEF ObserveSynced, ObserveAbsent, CallFails
  <2> QED BY <2>3, <2>4, <2>5, <2>6, <2>7 DEF Read
<1>10. \A k \in Jobs : k # j => Established(k)'
  BY <1>1, OthersStay
<1>11. InstalledIsGenerated'
  BY <1>1 DEF IInv, InstalledIsGenerated
<1> QED BY <1>7, <1>8, <1>9, <1>10, <1>11 DEF IInv

-----------------------------------------------------------------------------
(* The writes.                                                             *)

\* What the answer to a write changes: the job's stage, and what it remembers.
LEMMA AnsweredStep ==
    ASSUME IInv, NEW j \in Jobs, NEW stage \in Stage, Answered(j, stage),
           stage \notin {"target", "target sha", "put", "post"}
    PROVE  /\ pc' \in [Jobs -> Stage] /\ seenSet' \in [Jobs -> SUBSET Apps]
           /\ text' \in [Jobs -> File] /\ sha' \in [Jobs -> File]
           /\ pc'[j] \in {stage, "failed"}
           /\ \A k \in Jobs : k # j => pc'[k] = pc[k] /\ text'[k] = text[k]
  BY DEF Answered, Onward, End, memory, IInv, TypeOK, File

LEMMA CommitInv ==
    ASSUME IInv, NEW j \in Jobs, CommitSet(j)
    PROVE  IInv'
<1> DEFINE stage == IF Deploys(j) THEN "synced" ELSE "source"
<1>1. /\ Answered(j, stage) /\ stage \in Stage
      /\ stage \notin {"target", "target sha", "put", "post"}
      /\ Active(j)
  BY DEF CommitSet
<1>2. UNCHANGED <<payloads, inputs, parked, running, renders, task>>
  BY DEF CommitSet
<1>3. App(j) \in Apps /\ task[j] \in Task
  BY <1>1, ActiveTask
<1>4. installed' = IF Deploys(j) THEN installed \cup {App(j)} ELSE installed \ {App(j)}
  BY DEF CommitSet, Mutated
<1>5. /\ pc' \in [Jobs -> Stage] /\ seenSet' \in [Jobs -> SUBSET Apps]
      /\ text' \in [Jobs -> File] /\ sha' \in [Jobs -> File]
      /\ pc'[j] \in {stage, "failed"}
      /\ \A k \in Jobs : k # j => pc'[k] = pc[k] /\ text'[k] = text[k]
  <2> HIDE DEF stage
  <2> QED BY <1>1, AnsweredStep
<1>6. TypeOK'
  <2>1. installed' \in SUBSET Apps
    BY <1>3, <1>4 DEF IInv, TypeOK
  <2>2. pc'[j] \notin {"target", "target sha", "put", "post"}
    BY <1>5
  <2> HIDE DEF stage
  <2> QED BY <1>2, <1>3, <1>5, <2>1, <2>2 DEF IInv, TypeOK
<1>7. Serial'
  BY <1>1, <1>2, <1>5, SerialStays DEF IInv
<1>8. App(j)' = App(j) /\ (Deploys(j)' <=> Deploys(j))
  BY <1>2, Zenon DEF App, Deploys
<1>9. Established(j)'
  BY <1>2, <1>3, <1>4, <1>5, <1>8 DEF IInv, Established, CommitSet
<1>10. \A k \in Jobs : k # j => Established(k)'
  BY <1>1, <1>2, <1>4, <1>5, OthersStay
<1>11. InstalledIsGenerated'
  <2>1. Deploys(j) => inputs[App(j)] # Absent
    BY DEF IInv, Established, CommitSet
  <2> QED BY <1>2, <1>4, <2>1 DEF IInv, InstalledIsGenerated
<1> QED BY <1>6, <1>7, <1>9, <1>10, <1>11 DEF IInv

LEMMA WriteInv ==
    ASSUME IInv, NEW j \in Jobs, PutTarget(j) \/ PostTarget(j)
    PROVE  IInv'
<1>1. /\ Answered(j, "source sha") /\ WriteTarget(j)
      /\ pc[j] \in {"put", "post"} /\ Active(j)
      /\ UNCHANGED <<installed, payloads, running, renders, task>>
  BY DEF PutTarget, PostTarget
<1>2. App(j) \in Apps /\ text[j] \in Renders /\ text[j] # Absent
  BY <1>1, ActiveTask, RendersAssumption DEF IInv, TypeOK
<1>3. /\ \/ inputs' = inputs
         \/ Deploys(j) /\ inputs' = [inputs EXCEPT ![App(j)] = text[j]]
      /\ \/ parked' = parked
         \/ ~Deploys(j) /\ parked' = [parked EXCEPT ![App(j)] = text[j]]
      /\ Deploys(j) => inputs'[App(j)] # Absent
      /\ ~Deploys(j) => parked'[App(j)] # Absent
  BY <1>1, <1>2 DEF WriteTarget, IInv, TypeOK
<1>4. /\ pc' \in [Jobs -> Stage] /\ seenSet' \in [Jobs -> SUBSET Apps]
      /\ text' \in [Jobs -> File] /\ sha' \in [Jobs -> File]
      /\ pc'[j] \in {"source sha", "failed"}
      /\ \A k \in Jobs : k # j => pc'[k] = pc[k] /\ text'[k] = text[k]
  BY <1>1, AnsweredStep
<1>5. TypeOK'
  BY <1>1, <1>2, <1>3, <1>4 DEF IInv, TypeOK, File
<1>6. Serial'
  BY <1>1, <1>4, SerialStays DEF IInv
<1>7. App(j)' = App(j) /\ (Deploys(j)' <=> Deploys(j))
  BY <1>1, Zenon DEF App, Deploys
<1>8. Established(j)'
  BY <1>1, <1>3, <1>4, <1>7 DEF IInv, Established
<1>9. \A k \in Jobs : k # j => Established(k)'
  <2>1. \A a \in Apps : a # App(j) =>
          inputs'[a] = inputs[a] /\ parked'[a] = parked[a]
    BY <1>3 DEF IInv, TypeOK
  <2> QED BY <1>1, <1>4, <2>1, OthersStay
<1>10. InstalledIsGenerated'
  BY <1>1, <1>2, <1>3 DEF IInv, TypeOK, InstalledIsGenerated
<1> QED BY <1>5, <1>6, <1>8, <1>9, <1>10 DEF IInv

LEMMA DeleteInv ==
    ASSUME IInv, NEW j \in Jobs, DeleteSource(j)
    PROVE  IInv'
<1> DEFINE stage == IF Deploys(j) THEN "lane" ELSE "absent"
<1>1. /\ Answered(j, stage) /\ stage \in Stage
      /\ stage \notin {"target", "target sha", "put", "post"}
      /\ pc[j] = "delete" /\ Active(j) /\ RemoveSource(j)
      /\ UNCHANGED <<installed, payloads, running, renders, task>>
  BY DEF DeleteSource
<1>2. App(j) \in Apps
  BY <1>1, ActiveTask
<1>3. /\ \/ inputs' = inputs
         \/ ~Deploys(j) /\ inputs' = [inputs EXCEPT ![App(j)] = Absent]
      /\ \/ parked' = parked
         \/ Deploys(j) /\ parked' = [parked EXCEPT ![App(j)] = Absent]
  BY <1>1 DEF RemoveSource
<1>4. /\ pc' \in [Jobs -> Stage] /\ seenSet' \in [Jobs -> SUBSET Apps]
      /\ text' \in [Jobs -> File] /\ sha' \in [Jobs -> File]
      /\ pc'[j] \in {stage, "failed"}
      /\ \A k \in Jobs : k # j => pc'[k] = pc[k] /\ text'[k] = text[k]
  <2> HIDE DEF stage
  <2> QED BY <1>1, AnsweredStep
<1>5. TypeOK'
  BY <1>1, <1>2, <1>3, <1>4 DEF IInv, TypeOK, File
<1>6. Serial'
  BY <1>1, <1>4, SerialStays DEF IInv
<1>7. App(j)' = App(j) /\ (Deploys(j)' <=> Deploys(j))
  BY <1>1, Zenon DEF App, Deploys
<1>8. /\ Deploys(j) => inputs[App(j)] # Absent
      /\ ~Deploys(j) => parked[App(j)] # Absent /\ App(j) \notin installed
  BY <1>1 DEF IInv, Established
<1>9. Established(j)'
  BY <1>1, <1>3, <1>4, <1>7, <1>8 DEF Established
<1>10. \A k \in Jobs : k # j => Established(k)'
  <2>1. \A a \in Apps : a # App(j) =>
          inputs'[a] = inputs[a] /\ parked'[a] = parked[a]
    BY <1>3 DEF IInv, TypeOK
  <2> QED BY <1>1, <1>4, <2>1, OthersStay
<1>11. InstalledIsGenerated'
  BY <1>1, <1>2, <1>3, <1>8 DEF IInv, TypeOK, InstalledIsGenerated
<1> QED BY <1>5, <1>6, <1>9, <1>10, <1>11 DEF IInv

-----------------------------------------------------------------------------
(* The build host and ArgoCD, and the theorems.                            *)

LEMMA OutsideInv ==
    ASSUME IInv, NEW a \in Apps,
           (\E input \in Renders : Render(a, input)) \/ Reconcile(a)
    PROVE  IInv'
<1>1. /\ UNCHANGED <<installed, parked, pc, task, seenSet, text, sha>>
      /\ \/ inputs' = inputs
         \/ \E input \in Renders : inputs' = [inputs EXCEPT ![a] = input]
  BY DEF Render, Reconcile, memory
<1>2. \A b \in Apps : inputs[b] # Absent => inputs'[b] # Absent
  BY <1>1, RendersAssumption DEF IInv, TypeOK
<1>3. TypeOK'
  <2>1. TypeOK
    BY DEF IInv
  <2>2. CASE Reconcile(a)
    <3>1. inputs[a] \in File /\ running' = [running EXCEPT ![a] = inputs[a]]
      BY <2>1, <2>2 DEF TypeOK, Reconcile
    <3> QED BY <1>1, <2>1, <2>2, <3>1 DEF TypeOK, Reconcile
  <2>3. CASE \E input \in Renders : Render(a, input)
    <3>1. PICK input \in Renders : Render(a, input)
      BY <2>3
    <3>2. /\ renders' = renders + 1 /\ renders < MaxRenders
          /\ payloads' = payloads \cup {a} /\ running' = running
          /\ inputs' = [inputs EXCEPT ![a] = input]
      BY <3>1 DEF Render
    <3>3. renders' \in 0..MaxRenders
      <4>1. renders \in 0..MaxRenders /\ MaxRenders \in Nat
        BY <2>1, RendersAssumption DEF TypeOK
      <4>2. renders' = renders + 1 /\ renders < MaxRenders
        BY <3>2
      <4> QED BY <4>1, <4>2
    <3>4. inputs' \in [Apps -> File]
      BY <3>2, <2>1 DEF TypeOK, File
    <3> QED BY <1>1, <2>1, <3>2, <3>3, <3>4 DEF TypeOK
  <2> QED BY <2>2, <2>3
<1>4. Serial'
  BY <1>1, SerialStays DEF IInv
<1>5. ASSUME NEW k \in Jobs PROVE Established(k)'
  <2>1. App(k)' = App(k) /\ (Deploys(k)' <=> Deploys(k)) /\ (Active(k)' <=> Active(k))
    BY <1>1, Zenon DEF App, Deploys
  <2>2. Active(k) => App(k) \in Apps
    BY ActiveTask
  <2>3. Established(k)
    BY DEF IInv
  <2> QED BY <1>1, <1>2, <2>1, <2>2, <2>3 DEF Established
<1>6. InstalledIsGenerated'
  BY <1>1, <1>2 DEF IInv, TypeOK, InstalledIsGenerated
<1> QED BY <1>3, <1>4, <1>5, <1>6 DEF IInv

\* A console that dies leaves no job active, and the record as it was.
LEMMA DiesInv == IInv /\ ConsoleDies => IInv'
<1> SUFFICES ASSUME IInv, ConsoleDies PROVE IInv'
  OBVIOUS
<1>1. /\ UNCHANGED <<installed, payloads, inputs, parked, running, renders, task>>
      /\ \A j \in Jobs : ~Active(j)' /\ pc'[j] \in {pc[j], "failed"}
  BY DEF ConsoleDies, IInv, TypeOK
<1>2. TypeOK'
  <2>1. /\ pc' \in [Jobs -> Stage] /\ seenSet' \in [Jobs -> SUBSET Apps]
        /\ text' \in [Jobs -> File] /\ sha' \in [Jobs -> File]
    BY DEF ConsoleDies, IInv, TypeOK, File
  <2> QED BY <1>1, <2>1 DEF IInv, TypeOK
<1>3. Serial' /\ \A j \in Jobs : Established(j)'
  <2> HIDE DEF Active
  <2> QED BY <1>1 DEF Serial, Established
<1>4. InstalledIsGenerated'
  BY <1>1 DEF IInv, InstalledIsGenerated
<1> QED BY <1>2, <1>3, <1>4 DEF IInv

LEMMA NextInv == IInv /\ [Next]_vars => IInv'
<1> SUFFICES ASSUME IInv, [Next]_vars PROVE IInv'
  OBVIOUS
<1>1. CASE UNCHANGED vars
  BY <1>1, Zenon DEF vars, IInv, TypeOK, Serial, Established, InstalledIsGenerated,
     App, Deploys
<1>2. ASSUME NEW j \in Jobs, NEW t \in Task, Submit(j, t) PROVE IInv'
  BY <1>2, SubmitInv
<1>3. ASSUME NEW j \in Jobs, JobStep(j) PROVE IInv'
  BY <1>3, ReadInv, CommitInv, WriteInv, DeleteInv DEF JobStep
<1>4. ASSUME NEW a \in Apps,
             (\E input \in Renders : Render(a, input)) \/ Reconcile(a)
      PROVE  IInv'
  BY <1>4, OutsideInv
<1>5. CASE ConsoleDies
  BY <1>5, DiesInv
<1> QED BY <1>1, <1>2, <1>3, <1>4, <1>5 DEF Next

THEOREM Invariance == Spec => []IInv
<1>1. Init => IInv
  BY InitInv
<1>2. IInv /\ [Next]_vars => IInv'
  BY NextInv
<1> QED BY <1>1, <1>2, PTL DEF Spec

\* Every variable keeps its type, and a job writes only text it has read.
THEOREM TypeCorrect == Spec => []TypeOK
<1>1. IInv => TypeOK
  BY DEF IInv
<1> QED BY <1>1, Invariance, PTL

\* What the InstalledSet names is in ArgoCD's view, whatever fails and when.
THEOREM Generated == Spec => []InstalledIsGenerated
<1>1. IInv => InstalledIsGenerated
  BY DEF IInv
<1> QED BY <1>1, Invariance, PTL

-----------------------------------------------------------------------------
(* One copy of every input: which file a job deletes, and when.            *)

\* No step takes the last copy of an input.
LEMMA KeepsInput ==
    ASSUME IInv, [Next]_vars
    PROVE  \A a \in Apps : HasInput(a) => HasInput(a)'
<1> SUFFICES ASSUME NEW a \in Apps, HasInput(a) PROVE HasInput(a)'
  OBVIOUS
<1>1. TypeOK /\ Absent \notin Renders
  BY RendersAssumption DEF IInv
<1>2. CASE inputs' = inputs /\ parked' = parked
  BY <1>2 DEF HasInput
<1>3. ASSUME NEW j \in Jobs, PutTarget(j) \/ PostTarget(j) PROVE HasInput(a)'
  <2>1. text[j] # Absent /\ App(j) \in Apps
    BY <1>1, <1>3, ActiveTask DEF TypeOK, PutTarget, PostTarget
  <2> QED
    BY <1>1, <1>3, <2>1 DEF TypeOK, PutTarget, PostTarget, WriteTarget, HasInput
<1>4. ASSUME NEW j \in Jobs, DeleteSource(j) PROVE HasInput(a)'
  <2>1. App(j) \in Apps /\ Active(j) /\ pc[j] = "delete" /\ Established(j)
    BY <1>4, ActiveTask DEF DeleteSource, IInv
  <2>2. IF Deploys(j) THEN inputs[App(j)] # Absent ELSE parked[App(j)] # Absent
    BY <2>1 DEF Established
  <2> QED
    BY <1>1, <1>4, <2>1, <2>2 DEF TypeOK, DeleteSource, RemoveSource, HasInput
<1>5. ASSUME NEW b \in Apps, NEW input \in Renders, Render(b, input) PROVE HasInput(a)'
  BY <1>1, <1>5 DEF TypeOK, Render, HasInput
<1> QED
  BY <1>2, <1>3, <1>4, <1>5
     DEF Next, JobStep, Submit, Read, CommitSet, Reconcile, ConsoleDies, vars

\* Whatever call fails, an application that could be installed still can be.
THEOREM RendersKept == Spec => RenderNeverLost
<1>1. IInv /\ [Next]_vars => [\A a \in Apps : HasInput(a) => HasInput(a)']_vars
  BY KeepsInput
<1> QED BY <1>1, Invariance, PTL DEF Spec, RenderNeverLost

-----------------------------------------------------------------------------
(* What a job that reports success has done.                               *)

\* Only the last look at ArgoCD ends a job in success.
LEMMA FinishIsObserved ==
    ASSUME IInv, [Next]_vars, NEW j \in Jobs, Finishes(j)
    PROVE  /\ ObserveSynced(j) \/ ObserveAbsent(j)
           /\ UNCHANGED <<installed, inputs, parked>>
<1>1. pc \in [Jobs -> Stage] /\ pc'[j] # pc[j] /\ pc'[j] = "succeeded"
  BY DEF IInv, TypeOK, Finishes
<1>2. ASSUME NEW k \in Jobs, NEW t \in Task, Submit(k, t) PROVE FALSE
  BY <1>1, <1>2 DEF Submit
<1>3. ASSUME NEW k \in Jobs,
             CommitSet(k) \/ PutTarget(k) \/ PostTarget(k) \/ DeleteSource(k)
      PROVE  FALSE
  BY <1>1, <1>3 DEF CommitSet, PutTarget, PostTarget, DeleteSource, Answered,
     Onward, End
<1>4. ASSUME NEW k \in Jobs, Read(k)
      PROVE  /\ k = j
             /\ ObserveSynced(k) \/ ObserveAbsent(k)
             /\ UNCHANGED <<installed, inputs, parked>>
  BY <1>1, <1>4 DEF Read, RequireCascade, PayloadExists, InputExists, ArchiveExists,
     NoDependents, CheckLane, TargetExists, ReadSet, GetSource, GetTargetSha,
     GetSourceSha, ObserveSynced, ObserveAbsent, CallFails, Onward, End
<1>5. ASSUME NEW a \in Apps, NEW input \in Renders, Render(a, input) PROVE FALSE
  BY <1>1, <1>5 DEF Render
<1>6. ASSUME NEW a \in Apps, Reconcile(a) PROVE FALSE
  BY <1>1, <1>6 DEF Reconcile
<1>7. CASE ConsoleDies
  BY <1>1, <1>7 DEF ConsoleDies
<1>8. pc' # pc
  BY <1>1
<1> QED BY <1>2, <1>3, <1>4, <1>5, <1>6, <1>7, <1>8 DEF Next, JobStep, vars

\* What a job that finishes has established is what success means.
LEMMA SuccessStep ==
    ASSUME IInv, [Next]_vars, NEW j \in Jobs, Finishes(j)
    PROVE  /\ IF Deploys(j)
              THEN App(j) \in installed /\ inputs[App(j)] # Absent
              ELSE App(j) \notin installed /\ parked[App(j)] # Absent
           /\ Active(j)
           /\ UNCHANGED <<installed, inputs, parked>>
<1>1. pc[j] \in {"synced", "absent"} /\ Active(j)
  BY FinishIsObserved DEF ObserveSynced, ObserveAbsent
<1>2. Established(j)
  BY DEF IInv
<1> QED BY <1>1, <1>2, FinishIsObserved DEF Established

\* A successful deploy or uninstall is on record when it is reported.
THEOREM SuccessRecorded == Spec => SuccessIsOnRecord
<1> DEFINE A == \A j \in Jobs : Finishes(j) =>
                   IF Deploys(j)
                   THEN App(j) \in installed /\ inputs[App(j)] # Absent
                   ELSE App(j) \notin installed /\ parked[App(j)] # Absent
<1>1. IInv /\ [Next]_vars => [A]_vars
  BY SuccessStep
<1> HIDE DEF A
<1>2. Spec => [][A]_vars
  BY <1>1, Invariance, PTL DEF Spec
<1> QED BY <1>2 DEF SuccessIsOnRecord, A

-----------------------------------------------------------------------------
(* An application nobody is working on.                                    *)

\* Its place in the set, its archive and its having an input are not disturbed:
\* other jobs write elsewhere, and a render only gives it a newer input.
LEMMA QuietApp ==
    ASSUME IInv, [Next]_vars, NEW a \in Apps, \A j \in Jobs : Active(j) => App(j) # a
    PROVE  /\ a \in installed' <=> a \in installed
           /\ parked'[a] = parked[a]
           /\ inputs[a] # Absent => inputs'[a] # Absent
<1>1. TypeOK /\ Absent \notin Renders
  BY RendersAssumption DEF IInv
<1>2. CASE UNCHANGED <<installed, inputs, parked>>
  BY <1>2
<1>3. ASSUME NEW j \in Jobs, CommitSet(j)
      PROVE  UNCHANGED <<inputs, parked>> /\ (a \in installed' <=> a \in installed)
  <2>1. App(j) # a
    BY <1>3 DEF CommitSet
  <2> QED BY <1>3, <2>1 DEF CommitSet, Mutated
<1>4. ASSUME NEW j \in Jobs, PutTarget(j) \/ PostTarget(j) \/ DeleteSource(j)
      PROVE  installed' = installed /\ inputs'[a] = inputs[a] /\ parked'[a] = parked[a]
  <2>1. App(j) # a
    BY <1>4 DEF PutTarget, PostTarget, DeleteSource
  <2> QED
    BY <1>1, <1>4, <2>1 DEF TypeOK, PutTarget, PostTarget, DeleteSource,
       WriteTarget, RemoveSource
<1>5. ASSUME NEW b \in Apps, NEW input \in Renders, Render(b, input)
      PROVE  UNCHANGED <<installed, parked>> /\ (inputs[a] # Absent => inputs'[a] # Absent)
  BY <1>1, <1>5 DEF TypeOK, Render
<1> QED
  BY <1>2, <1>3, <1>4, <1>5
     DEF Next, JobStep, Submit, Read, Reconcile, ConsoleDies, vars

-----------------------------------------------------------------------------
(* The engine implements the InstalledSet of the Deploy-of-Record.         *)

LEMMA InitRefines == Init => Record!Init
  BY DEF Init, Record!Init

LEMMA NextRefines == IInv /\ [Next]_vars => [Record!Next]_installed
<1> SUFFICES ASSUME IInv, [Next]_vars, installed' # installed PROVE Record!Next
  OBVIOUS
<1>1. PICK j \in Jobs : CommitSet(j)
  BY DEF Next, JobStep, Submit, Read, PutTarget, PostTarget, DeleteSource, Render,
     Reconcile, ConsoleDies, vars
<1>2. App(j) \in Apps
  BY <1>1, ActiveTask DEF CommitSet
<1>3. \/ installed' = installed \cup {App(j)}
      \/ installed' = installed \ {App(j)}
  BY <1>1 DEF CommitSet, Mutated
<1>4. Record!Add(App(j)) \/ Record!Remove(App(j))
  BY <1>3 DEF Record!Add, Record!Remove
<1> QED BY <1>2, <1>4 DEF Record!Next

\* Every commit of every job, and nothing else, is one atomic change of the set
\* by one application.
THEOREM Refinement == Spec => ImplementsInstalledSet
<1>1. Init => Record!Init
  BY InitRefines
<1>2. IInv /\ [Next]_vars => [Record!Next]_installed
  BY NextRefines
<1> QED BY <1>1, <1>2, Invariance, PTL DEF Spec, ImplementsInstalledSet, Record!Spec
=============================================================================
