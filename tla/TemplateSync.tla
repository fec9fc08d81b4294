---------------------------- MODULE TemplateSync ----------------------------
(***************************************************************************)
(* Pulling a newer template into a project that was created from it:       *)
(* scripts/sync_from_template.py, and the comparison of                    *)
(* scripts/check_template_drift.py.  A run plans once and then writes one  *)
(* file after the other; it may be killed, or fail, between two of them or *)
(* in the middle of writing one.  Between runs people work on the project  *)
(* and the template moves on.                                              *)
(*                                                                         *)
(* A file's content is the set of its lines, line endings apart, and work  *)
(* on the project adds lines of its own.  git merge-file is external.      *)
(***************************************************************************)
EXTENDS Naturals, Sequences, FiniteSets

CONSTANTS
    File,
    InDirectories,  \* the files of the tracked directories; the others are tracked by name
    Binary,         \* files git merge-file cannot merge
    TemplateLine, OwnLine, Marker,
    Template,       \* the template's versions: what each ships
    Absent, None

VARIABLES
    project,  \* the tracked files of the project
    tip,      \* the version the template's branch is at
    stamp,    \* .template-version
    run,      \* where a run stands
    exit,     \* the exit code of the last one
    typed,    \* the lines people put into each file and did not lose since: history
    dropped,  \* the lines of the template's they took out of it: history
    spoilt    \* the files the stamp says too much of, or a write of which was cut
              \* short, until they are copied whole: history

people == <<typed, dropped, tip>>
vars == <<project, stamp, run, exit, people, spoilt>>

Line == TemplateLine \cup OwnLine \cup {Marker}
Version == DOMAIN Template

ASSUME TemplateAssumption ==
    Template \in Seq([File -> {Absent} \cup SUBSET TemplateLine]) /\ Template # << >>

ASSUME LinesAssumption ==
    /\ TemplateLine \cap OwnLine = {} /\ Marker \notin TemplateLine \cup OwnLine
    /\ \A content \in SUBSET Line : content # Absent
    /\ None \notin Version \cup {0, 1}
    /\ InDirectories \subseteq File /\ Binary \subseteq File

Latest(f) == Template[tip][f]

\* history_blobs: what the template ever shipped as this file.  A version is a commit
\* with one parent: git log --raw shows nothing of a merge commit.
Shipped(f) == {Template[v][f] : v \in 1 .. tip} \ {Absent}

Has(v, f, line) == Template[v][f] # Absent /\ line \in Template[v][f]

\* The lines of a file the template had, took out and has again.
Returned(f) ==
    {line \in TemplateLine : \E v, w \in 1 .. tip :
        v < w /\ Has(v, f, line) /\ ~Has(w, f, line) /\ Has(tip, f, line)}

\* Mutant: what differs is stale as long as the stamp is.
KindByStamp(f) ==
    IF Latest(f) # Absent
    THEN CASE project[f] = Absent -> "new"
           [] project[f] = Latest(f) -> "same"
           [] stamp # tip -> "update"
           [] OTHER -> "custom"
    ELSE IF project[f] = Absent \/ f \notin InDirectories \/ Shipped(f) = {} THEN "own"
    ELSE IF project[f] \in Shipped(f) THEN "remove" ELSE "keep"

\* classify and removed_candidates.
Kind(f) ==
    IF Latest(f) # Absent
    THEN CASE project[f] = Absent -> "new"
           [] project[f] = Latest(f) -> "same"
           [] project[f] \in Shipped(f) \ {Latest(f)} -> "update"
           [] OTHER -> "custom"
    ELSE IF project[f] = Absent \/ f \notin InDirectories \/ Shipped(f) = {} THEN "own"
    ELSE IF project[f] \in Shipped(f) THEN "remove" ELSE "keep"

\* classify and report of check_template_drift: what is not as the template ships it.
Drifting == {f \in File : Latest(f) # Absent /\ project[f] # Latest(f)}

Of(kinds) == {f \in File : Kind(f) \in kinds}

\* left: what the plan has yet to copy or delete; customized: what is not resolved;
\* tried: of these, what the merge has been through.
Idle == [at |-> "idle", left |-> {}, customized |-> {}, tried |-> {}, keep |-> FALSE,
         base |-> None, force |-> FALSE]

Init ==
    /\ tip = 1
    /\ project = Template[1]
    /\ stamp \in {None, 1}
    /\ run = Idle /\ exit = None
    /\ typed = [f \in File |-> {}] /\ dropped = [f \in File |-> {}]
    /\ spoilt = {}

-----------------------------------------------------------------------------
(* A run: main and execute.                                                *)

Ends(code) == run' = Idle /\ exit' = code

DryRun ==
    /\ run.at = "idle"
    /\ exit' = IF Of({"new", "update", "custom", "remove"}) = {} THEN 0 ELSE 1
    /\ UNCHANGED <<project, stamp, run, people, spoilt>>

\* The clone fails: sys.exit with a message is exit code 1.
CloneFails ==
    /\ run.at = "idle"
    /\ Ends(1)
    /\ UNCHANGED <<project, stamp, people, spoilt>>

\* --apply.  Without --merge, or without a stamp, nothing customized is tried.
Apply(merge, force) ==
    /\ run.at = "idle"
    /\ run' = [at |-> "apply",
               left |-> Of({"new", "update", "remove"}),
               customized |-> Of({"custom"}),
               tried |-> IF merge /\ stamp # None THEN {} ELSE Of({"custom"}),
               keep |-> Of({"keep"}) # {},
               base |-> stamp, force |-> force]
    /\ exit' = None
    /\ UNCHANGED <<project, stamp, people, spoilt>>

Put(f, content) == project' = [project EXCEPT ![f] = content]

Applied(f) ==
    /\ run' = [run EXCEPT !.left = @ \ {f}]
    /\ dropped' = [dropped EXCEPT ![f] = {}]
    /\ spoilt' = spoilt \ {f}
    /\ UNCHANGED <<tip, typed, stamp, exit>>

Copy(f) ==
    /\ f \in run.left /\ Latest(f) # Absent
    /\ Put(f, Latest(f))
    /\ Applied(f)

Delete(f) ==
    /\ f \in run.left /\ Latest(f) = Absent
    /\ Put(f, Absent)
    /\ Applied(f)

\* Both changed what the base had: git merge-file may find them apart, or side by side.
Merged(ours, base, theirs) == (ours \ (base \ theirs)) \cup (theirs \ base)

Merges(ours, base, theirs) ==
    {Merged(ours, base, theirs)} \cup
    (IF base = theirs \/ base = ours THEN {} ELSE {ours \cup theirs \cup {Marker}})

\* execute, for one customized file.  There is nothing to merge from where the stamped
\* version did not ship it.  What merge-file cannot merge at all it prints nothing of,
\* and its exit code, 255, is taken for a number of conflicts.
Merge(f) ==
    /\ run.left = {} /\ f \in run.customized \ run.tried
    /\ \/ /\ Template[run.base][f] = Absent
          /\ UNCHANGED project
          /\ run' = [run EXCEPT !.tried = @ \cup {f}]
       \/ /\ Template[run.base][f] # Absent /\ f \in Binary
          /\ Put(f, {})
          /\ run' = [run EXCEPT !.tried = @ \cup {f}]
       \/ /\ Template[run.base][f] # Absent /\ f \notin Binary
          /\ \E content \in Merges(project[f], Template[run.base][f], Latest(f)) :
                /\ Put(f, content)
                /\ run' = IF content = Merged(project[f], Template[run.base][f], Latest(f))
                          THEN [run EXCEPT !.customized = @ \ {f}]
                          ELSE [run EXCEPT !.tried = @ \cup {f}]
    /\ UNCHANGED <<stamp, exit, people, spoilt>>

\* Mutant: what was customized and not merged is forgotten.
CleanOnceApplied == ~run.keep

Clean == run.customized = {} /\ ~run.keep

\* What a forced stamp says too much of.
Overstated == IF run.force /\ ~Clean THEN run.customized ELSE {}

\* Mutant: the exit code is the number of unresolved files.
FinishCounting ==
    /\ run.at = "apply" /\ run.left = {} /\ run.customized \subseteq run.tried
    /\ stamp' = IF Clean \/ run.force THEN tip ELSE stamp
    /\ spoilt' = spoilt \cup Overstated
    /\ Ends(Cardinality(run.customized))
    /\ UNCHANGED <<project, people>>

Finish ==
    /\ run.at = "apply" /\ run.left = {} /\ run.customized \subseteq run.tried
    /\ stamp' = IF Clean \/ run.force THEN tip ELSE stamp
    /\ spoilt' = spoilt \cup Overstated
    /\ Ends(IF Clean THEN 0 ELSE 1)
    /\ UNCHANGED <<project, people>>

\* The run is killed, or ends in an error: a git call fails, a disk is full.
Stops == run.at = "apply" /\ \E code \in {None, 1} : Ends(code)

Killed ==
    /\ Stops
    /\ UNCHANGED <<project, stamp, people, spoilt>>

\* copyfile and write_bytes truncate a file before they write it: what stands there
\* when the run stops is part of what was to be written.
CutShort(f, content) ==
    /\ \E part \in SUBSET content :
          /\ part # content
          /\ Put(f, part)
          /\ typed' = [typed EXCEPT ![f] = @ \cap part]
    /\ Stops
    /\ spoilt' = spoilt \cup {f}
    /\ UNCHANGED <<stamp, tip, dropped>>

\* The stamp is written last and written over.  Cut short it is empty or too short to name
\* a commit, which is no stamp; a longer part of it names the same one.
KilledInStamp ==
    /\ run.at = "apply" /\ run.left = {} /\ run.customized \subseteq run.tried
    /\ Clean \/ run.force
    /\ stamp' \in {None, tip}
    /\ spoilt' = spoilt \cup Overstated
    /\ Stops
    /\ UNCHANGED <<project, people>>

KilledInCopy(f) ==
    f \in run.left /\ Latest(f) # Absent /\ CutShort(f, Latest(f))

KilledInMerge(f) ==
    /\ run.left = {} /\ f \in run.customized \ run.tried
    /\ Template[run.base][f] # Absent /\ f \notin Binary
    /\ \E content \in Merges(project[f], Template[run.base][f], Latest(f)) :
          CutShort(f, content)

-----------------------------------------------------------------------------
(* Between runs.                                                           *)

TemplateMoves ==
    /\ run.at = "idle" /\ tip + 1 \in Version
    /\ tip' = tip + 1
    /\ UNCHANGED <<project, stamp, run, exit, typed, dropped, spoilt>>

Edit(f, content, own, gone) ==
    /\ run.at = "idle"
    /\ Put(f, content) /\ exit' = None
    /\ typed' = [typed EXCEPT ![f] = own] /\ dropped' = [dropped EXCEPT ![f] = gone]
    /\ UNCHANGED <<tip, stamp, run, spoilt>>

\* Somebody writes a line of the project's own, or a file of his own.
Work(f, line) ==
    Edit(f, (IF project[f] = Absent THEN {} ELSE project[f]) \cup {line},
         typed[f] \cup {line}, dropped[f])

\* Somebody takes a line of the template's out, or the marks of a conflict.
Cut(f, line) ==
    /\ project[f] # Absent /\ line \in project[f]
    /\ Edit(f, project[f] \ {line}, typed[f], dropped[f] \cup ({line} \ {Marker}))

Discard(f) == project[f] # Absent /\ Edit(f, Absent, {}, TemplateLine)

Next ==
    \/ DryRun \/ CloneFails \/ Finish \/ Killed \/ KilledInStamp \/ TemplateMoves
    \/ \E merge, force \in BOOLEAN : Apply(merge, force)
    \/ \E f \in File :
          \/ Copy(f) \/ Delete(f) \/ Merge(f) \/ KilledInCopy(f) \/ KilledInMerge(f)
          \/ Discard(f)
          \/ \E line \in OwnLine : Work(f, line)
          \/ \E line \in TemplateLine \cup {Marker} : Cut(f, line)

Spec == Init /\ [][Next]_vars

-----------------------------------------------------------------------------
TypeOK ==
    /\ project \in [File -> {Absent} \cup SUBSET Line]
    /\ tip \in Version
    /\ stamp \in Version \cup {None}
    /\ run \in [at : {"idle", "apply"}, left : SUBSET File, customized : SUBSET File,
                tried : SUBSET File, keep : BOOLEAN, base : Version \cup {None},
                force : BOOLEAN]
    /\ exit \in {0, 1, None}
    /\ typed \in [File -> SUBSET OwnLine] /\ dropped \in [File -> SUBSET TemplateLine]
    /\ spoilt \subseteq File

\* No run takes away a line the project's people wrote, but one that is stopped while
\* it writes a merged file: a file that holds one is never overwritten or deleted as
\* pristine, whatever was interrupted before and however many versions of the template
\* the project missed, and a merge that is written keeps it.  What is left of a file
\* whose write was cut short is kept like any other work.  Not so of a file git
\* merge-file cannot merge: its content is lost to the first merge.
OwnWorkKept ==
    \A f \in File \ Binary : typed[f] # {} => project[f] # Absent /\ typed[f] \subseteq project[f]

\* A run that applied and ended with exit code 0 has brought in all that the template
\* ships now, and check_template_drift finds only files that hold work of the project's
\* own: no run that stopped between two files, and no base that was taken for another
\* one, hides a change of the template.  Not so of a file that a stamp was forced over
\* unresolved, or a write of which was cut short, a copy's or a merge's, until it is
\* copied whole; nor of lines the template took out and brought back: from the older
\* base their absence looks like the project's own choice.
ZeroMeansDone ==
    [][run.at = "apply" /\ exit' = 0 =>
          \A f \in File \ spoilt : Latest(f) # Absent =>
             /\ project[f] # Absent
             /\ Latest(f) \ (dropped[f] \cup Returned(f)) \subseteq project[f]
             /\ f \in Drifting => typed[f] # {} \/ dropped[f] # {}]_vars
=============================================================================
