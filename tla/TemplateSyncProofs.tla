------------------------- MODULE TemplateSyncProofs -------------------------
(***************************************************************************)
(* Whatever the template ships in however many versions, and whatever runs *)
(* were interrupted, between two files or within one, no run takes a line  *)
(* of the project's own away, but one that is stopped while it writes a    *)
(* merged file: proved for every file git merge-file can merge.            *)
(*                                                                         *)
(* A plan is made once and executed later, so the invariant has to say that*)
(* it still holds of each file when its turn comes: what is left to copy or*)
(* delete has only lines of the template's, what is left to merge is there.*)
(* And an applied run that ends with 0 has brought all in, file by file    *)
(* where neither a forced stamp nor a write cut short spoilt it: for that  *)
(* the stamp has to stand for what the project had of the template's then. *)
(***************************************************************************)
EXTENDS TemplateSync, TLAPS

Content == {Absent} \cup SUBSET Line

Pristine(f) == project[f] = Absent \/ project[f] \subseteq TemplateLine

PlanHolds ==
    /\ \A f \in run.left : Pristine(f)
    /\ \A f \in run.customized : project[f] # Absent /\ Latest(f) # Absent
    /\ run.left \cap run.customized = {}
    /\ run.base = None => run.customized \subseteq run.tried
    /\ run.at = "idle" => run.left = {} /\ run.customized = {}

SyncInv == TypeOK /\ OwnWorkKept /\ PlanHolds

-----------------------------------------------------------------------------
(* What a template ships, and what a kind says of a file's content. *)

LEMMA ShippedLines ==
    ASSUME NEW v \in Version, NEW f \in File
    PROVE  Template[v][f] \in {Absent} \cup SUBSET TemplateLine
BY TemplateAssumption DEF Version

LEMMA KindOfContent ==
    ASSUME TypeOK, NEW f \in File
    PROVE  /\ Kind(f) \in {"new", "update", "remove"} => Pristine(f)
           /\ Kind(f) = "custom" => project[f] # Absent /\ Latest(f) # Absent
<1>1. \A content \in Shipped(f) : content \subseteq TemplateLine
    <2>1. 1 .. tip \subseteq Version
        BY TemplateAssumption DEF TypeOK, Version
    <2> QED BY <2>1, ShippedLines DEF Shipped
<1> QED BY <1>1 DEF Kind, Pristine

\* Where the template's lines and the project's are apart, a pristine file holds none of
\* the project's.
LEMMA PristineHasNoWork ==
    ASSUME TypeOK, OwnWorkKept, NEW f \in File \ Binary, Pristine(f)
    PROVE  typed[f] = {}
<1>1. typed[f] \subseteq OwnLine
    BY DEF TypeOK
<1>2. typed[f] # {} => typed[f] \subseteq TemplateLine
    BY DEF OwnWorkKept, Pristine
<1> QED BY <1>1, <1>2, LinesAssumption

LEMMA MergeKeepsWork ==
    ASSUME NEW ours \in SUBSET Line, NEW base \in SUBSET TemplateLine,
           NEW theirs \in SUBSET TemplateLine,
           NEW content \in Merges(ours, base, theirs),
           NEW own \in SUBSET OwnLine, own \subseteq ours
    PROVE  content \in SUBSET Line /\ own \subseteq content
<1>1. content = Merged(ours, base, theirs) \/ content = ours \cup theirs \cup {Marker}
    BY DEF Merges
<1> QED BY <1>1, LinesAssumption DEF Merged, Line

\* What a write that is cut short was writing.
LEMMA CutShortContent ==
    ASSUME SyncInv, NEW f \in File, KilledInCopy(f) \/ KilledInMerge(f)
    PROVE  \E content \in SUBSET Line : CutShort(f, content)
<1>1. Latest(f) # Absent => Latest(f) \in SUBSET Line
    BY ShippedLines DEF SyncInv, TypeOK, Latest, Line
<1>2. CASE KilledInCopy(f)
    BY <1>1, <1>2 DEF KilledInCopy
<1>3. CASE KilledInMerge(f)
    <2>1. PICK content \in Merges(project[f], Template[run.base][f], Latest(f)) :
             CutShort(f, content)
        BY <1>3 DEF KilledInMerge
    <2>2. /\ f \in run.customized \ run.tried /\ run.base \in Version
          /\ Template[run.base][f] # Absent
        BY <1>3 DEF KilledInMerge, SyncInv, TypeOK, PlanHolds
    <2>3. /\ project[f] \in SUBSET Line /\ Latest(f) \in SUBSET TemplateLine
          /\ Template[run.base][f] \in SUBSET TemplateLine
        BY <2>2, ShippedLines DEF SyncInv, TypeOK, PlanHolds, Latest
    <2>4. \/ content = Merged(project[f], Template[run.base][f], Latest(f))
          \/ content = project[f] \cup Latest(f) \cup {Marker}
        BY <2>1 DEF Merges
    <2>5. content \in SUBSET Line
        BY <2>3, <2>4 DEF Merged, Line
    <2> QED BY <2>1, <2>5
<1> QED BY <1>2, <1>3

-----------------------------------------------------------------------------
LEMMA SyncInit == Init => SyncInv
<1> SUFFICES ASSUME Init PROVE SyncInv
    OBVIOUS
<1>1. 1 \in Version
    BY TemplateAssumption DEF Version
<1>2. project \in [File -> Content]
    BY <1>1, TemplateAssumption DEF Init, Content, Line, Version
<1>3. TypeOK
    BY <1>1, <1>2 DEF Init, TypeOK, Idle, Content
<1> QED BY <1>3 DEF Init, SyncInv, OwnWorkKept, PlanHolds, Idle

LEMMA SyncNext == SyncInv /\ [Next]_vars => SyncInv'
<1> SUFFICES ASSUME SyncInv, [Next]_vars PROVE SyncInv'
    OBVIOUS
<1> USE DEF SyncInv
<1>1. CASE DryRun
    BY <1>1 DEF DryRun, TypeOK, OwnWorkKept, PlanHolds, Pristine, people
<1>2. CASE CloneFails
    BY <1>2 DEF CloneFails, Ends, Idle, TypeOK, OwnWorkKept, PlanHolds, people
<1>3. CASE Finish
    BY <1>3 DEF Finish, Overstated, Ends, Idle, TypeOK, OwnWorkKept, PlanHolds, people
<1>4. CASE Killed
    BY <1>4 DEF Killed, Stops, Ends, Idle, TypeOK, OwnWorkKept, PlanHolds, people
<1>13. CASE KilledInStamp
    BY <1>13 DEF KilledInStamp, Overstated, Stops, Ends, Idle, TypeOK, OwnWorkKept, PlanHolds,
                 people
<1>5. CASE TemplateMoves
    BY <1>5 DEF TemplateMoves, TypeOK, OwnWorkKept, PlanHolds, Pristine
<1>6. ASSUME NEW merge \in BOOLEAN, NEW force \in BOOLEAN, Apply(merge, force)
      PROVE  SyncInv'
    <2>1. run' = [at |-> "apply", left |-> Of({"new", "update", "remove"}),
                  customized |-> Of({"custom"}),
                  tried |-> IF merge /\ stamp # None THEN {} ELSE Of({"custom"}),
                  keep |-> Of({"keep"}) # {}, base |-> stamp, force |-> force]
        BY <1>6 DEF Apply
    <2>2. UNCHANGED <<project, tip, typed, dropped, stamp, spoilt>> /\ exit' = None
        BY <1>6 DEF Apply, people
    <2>3. TypeOK'
        <3>1. /\ Of({"new", "update", "remove"}) \in SUBSET File
              /\ Of({"custom"}) \in SUBSET File
            BY DEF Of
        <3> QED BY <2>1, <2>2, <3>1 DEF TypeOK
    <2>4. PlanHolds'
        <3>1. \A f \in Of({"new", "update", "remove"}) : Pristine(f)
            BY KindOfContent DEF Of
        <3>2. \A f \in Of({"custom"}) : project[f] # Absent /\ Latest(f) # Absent
            BY KindOfContent DEF Of
        <3>3. Of({"new", "update", "remove"}) \cap Of({"custom"}) = {}
            BY DEF Of
        <3>4. run'.base = None => run'.customized \subseteq run'.tried
            BY <2>1
        <3> QED BY <2>1, <2>2, <3>1, <3>2, <3>3, <3>4 DEF PlanHolds, Pristine, Latest
    <2> QED BY <2>2, <2>3, <2>4 DEF OwnWorkKept
<1>7. ASSUME NEW f \in File, Copy(f) \/ Delete(f)
      PROVE  SyncInv'
    <2>1. f \in run.left /\ project' = [project EXCEPT ![f] = Latest(f)]
        BY <1>7 DEF Copy, Delete, Put
    <2>2. Latest(f) \in {Absent} \cup SUBSET TemplateLine
        BY ShippedLines DEF Latest, TypeOK
    <2>3. (f \notin Binary => typed[f] = {}) /\ UNCHANGED <<typed, tip>>
        BY <1>7, <2>1, PristineHasNoWork DEF PlanHolds, Copy, Delete, Applied
    <2>4. run' = [run EXCEPT !.left = @ \ {f}]
        BY <1>7 DEF Copy, Delete, Applied
    <2>5. TypeOK'
        BY <1>7, <2>1, <2>2, <2>4 DEF Copy, Delete, Applied, TypeOK, Line
    <2>6. OwnWorkKept'
        BY <2>1, <2>3 DEF OwnWorkKept, TypeOK
    <2>7. PlanHolds'
        <3>1. \A g \in File \ {f} : project'[g] = project[g]
            BY <2>1 DEF TypeOK
        <3>2. run'.left = run.left \ {f} /\ run'.customized = run.customized
              /\ run'.tried = run.tried /\ run'.base = run.base /\ run'.at = run.at
            BY <2>4 DEF TypeOK
        <3> QED BY <2>1, <2>3, <3>1, <3>2 DEF PlanHolds, Pristine, Latest, TypeOK
    <2> QED BY <2>5, <2>6, <2>7
<1>8. ASSUME NEW f \in File, Merge(f)
      PROVE  SyncInv'
    <2>1. /\ f \in run.customized \ run.tried /\ run.left = {} /\ run.base \in Version
          /\ UNCHANGED <<stamp, exit, typed, dropped, tip, spoilt>>
        BY <1>8 DEF Merge, TypeOK, PlanHolds, people
    <2>2. \/ project' = project
          \/ \E content \in SUBSET Line :
                project' = [project EXCEPT ![f] = content]
                /\ (f \notin Binary => typed[f] \subseteq content)
        <3>1. CASE Template[run.base][f] = Absent
            BY <1>8, <3>1 DEF Merge
        <3>2. CASE Template[run.base][f] # Absent /\ f \in Binary
            BY <1>8, <3>2 DEF Merge, Put
        <3>3. CASE Template[run.base][f] # Absent /\ f \notin Binary
            <4>1. /\ project[f] \in SUBSET Line
                  /\ Template[run.base][f] \in SUBSET TemplateLine
                  /\ Latest(f) \in SUBSET TemplateLine
                BY <2>1, <3>3, ShippedLines DEF TypeOK, PlanHolds, Latest
            <4>2. typed[f] \in SUBSET OwnLine /\ typed[f] \subseteq project[f]
                BY <2>1, <3>3 DEF TypeOK, OwnWorkKept
            <4>3. PICK content \in Merges(project[f], Template[run.base][f], Latest(f)) :
                     project' = [project EXCEPT ![f] = content]
                BY <1>8, <3>3 DEF Merge, Put
            <4>4. content \in SUBSET Line /\ typed[f] \subseteq content
                BY <4>1, <4>2, MergeKeepsWork
            <4> QED BY <4>3, <4>4
        <3> QED BY <3>1, <3>2, <3>3
    <2>3. run' = [run EXCEPT !.tried = @ \cup {f}] \/ run' = [run EXCEPT !.customized = @ \ {f}]
        BY <1>8 DEF Merge
    <2>4. TypeOK'
        BY <2>1, <2>2, <2>3 DEF TypeOK
    <2>5. OwnWorkKept'
        BY <2>1, <2>2, LinesAssumption DEF OwnWorkKept, TypeOK
    <2>6. PlanHolds'
        <3>1. /\ run'.left = run.left /\ run'.customized \subseteq run.customized
              /\ run'.customized \ run'.tried \subseteq run.customized \ run.tried
              /\ run'.base = run.base /\ run'.at = run.at
            BY <2>3 DEF TypeOK
        <3>2. \A g \in run.customized : project'[g] # Absent
            BY <2>2, LinesAssumption DEF PlanHolds, TypeOK
        <3> QED BY <2>1, <3>1, <3>2 DEF PlanHolds, Latest, TypeOK
    <2> QED BY <2>4, <2>5, <2>6
<1>9. ASSUME NEW f \in File, NEW content \in SUBSET Line, CutShort(f, content)
      PROVE  SyncInv'
    <2>1. PICK part \in SUBSET content :
             /\ project' = [project EXCEPT ![f] = part]
             /\ typed' = [typed EXCEPT ![f] = @ \cap part]
        BY <1>9 DEF CutShort, Put
    <2>2. /\ run' = Idle /\ exit' \in {0, 1, None} /\ spoilt' = spoilt \cup {f}
          /\ UNCHANGED <<stamp, dropped, tip>>
        BY <1>9 DEF CutShort, Stops, Ends
    <2>3. part # Absent
        BY <2>1, LinesAssumption
    <2>4. TypeOK'
        BY <1>9, <2>1, <2>2 DEF TypeOK, Idle
    <2>5. OwnWorkKept'
        BY <2>1, <2>3 DEF OwnWorkKept, TypeOK
    <2> QED BY <2>2, <2>4, <2>5 DEF PlanHolds, Idle
<1>10. ASSUME NEW f \in File,
              \/ Discard(f)
              \/ \E line \in OwnLine : Work(f, line)
              \/ \E line \in TemplateLine \cup {Marker} : Cut(f, line)
       PROVE  SyncInv'
    <2>1. PICK content \in Content, own \in SUBSET OwnLine, gone \in SUBSET TemplateLine :
             /\ Edit(f, content, own, gone)
             /\ f \notin Binary /\ own # {} => content # Absent /\ own \subseteq content
        <3>1. CASE Discard(f)
            BY <3>1 DEF Discard, Content
        <3>2. ASSUME NEW line \in OwnLine, Work(f, line)
              PROVE  \E content \in Content, own \in SUBSET OwnLine, gone \in SUBSET TemplateLine :
                        /\ Edit(f, content, own, gone)
                        /\ f \notin Binary /\ own # {} => content # Absent /\ own \subseteq content
            <4>1. (IF project[f] = Absent THEN {} ELSE project[f]) \cup {line} \in SUBSET Line
                BY DEF TypeOK, Line
            <4>2. typed[f] \cup {line} \in SUBSET OwnLine /\ dropped[f] \in SUBSET TemplateLine
                BY DEF TypeOK
            <4>3. f \notin Binary =>
                    typed[f] \cup {line}
                      \subseteq (IF project[f] = Absent THEN {} ELSE project[f]) \cup {line}
                BY DEF OwnWorkKept
            <4> QED BY <3>2, <4>1, <4>2, <4>3, LinesAssumption DEF Work, Content
        <3>3. ASSUME NEW line \in TemplateLine \cup {Marker}, Cut(f, line)
              PROVE  \E content \in Content, own \in SUBSET OwnLine, gone \in SUBSET TemplateLine :
                        /\ Edit(f, content, own, gone)
                        /\ f \notin Binary /\ own # {} => content # Absent /\ own \subseteq content
            <4>1. project[f] \ {line} \in SUBSET Line
                BY <3>3 DEF Cut, TypeOK
            <4>2. /\ typed[f] \in SUBSET OwnLine
                  /\ dropped[f] \cup ({line} \ {Marker}) \in SUBSET TemplateLine
                BY DEF TypeOK
            <4>3. line \notin OwnLine
                BY LinesAssumption
            <4>4. f \notin Binary => typed[f] \subseteq project[f] \ {line}
                BY <4>2, <4>3 DEF OwnWorkKept
            <4> QED BY <3>3, <4>1, <4>2, <4>4, LinesAssumption DEF Cut, Content
        <3> QED BY <1>10, <3>1, <3>2, <3>3
    <2>2. /\ run.at = "idle" /\ project' = [project EXCEPT ![f] = content] /\ exit' = None
          /\ typed' = [typed EXCEPT ![f] = own] /\ dropped' = [dropped EXCEPT ![f] = gone]
          /\ UNCHANGED <<tip, stamp, run, spoilt>>
        BY <2>1 DEF Edit, Put
    <2>3. TypeOK'
        BY <2>2 DEF TypeOK, Content
    <2>4. OwnWorkKept'
        BY <2>1, <2>2 DEF OwnWorkKept, TypeOK
    <2> QED BY <2>2, <2>3, <2>4 DEF PlanHolds
<1>11. CASE UNCHANGED vars
    BY <1>11 DEF vars, people, TypeOK, OwnWorkKept, PlanHolds, Pristine, Latest
<1>12. ASSUME NEW f \in File, KilledInCopy(f) \/ KilledInMerge(f)
       PROVE  \E content \in SUBSET Line : CutShort(f, content)
    BY <1>12, CutShortContent
<1> QED
    BY <1>1, <1>2, <1>3, <1>4, <1>5, <1>6, <1>7, <1>8, <1>9, <1>10, <1>11, <1>12,
       <1>13 DEF Next

\* The files, the stamp and a run have their types, whatever interrupts it.
THEOREM SyncTypes == Spec => []TypeOK
<1>1. SyncInv => TypeOK
    BY DEF SyncInv
<1> QED BY <1>1, SyncInit, SyncNext, PTL DEF Spec

\* No run of sync_from_template takes a line of the project's own away, for any number of
\* files and versions, out of a file that git merge-file can merge, unless it is stopped
\* in the write of that file's merge: what this write had not reached is lost, and what
\* is left of the file is kept from there on.
THEOREM WorkIsKept == Spec => []OwnWorkKept
<1>1. SyncInv => OwnWorkKept
    BY DEF SyncInv
<1> QED BY <1>1, SyncInit, SyncNext, PTL DEF Spec

-----------------------------------------------------------------------------
(* What exit code 0 means.  A merge brings in what the template changed    *)
(* since the stamp; what it had before must be there already, or have been *)
(* taken out by somebody: that is what the stamp has to stand for.         *)

HasIt(f, line) == project[f] # Absent /\ line \in project[f]

\* A line the template has had since the stamp is in the file, or was taken out of it.
SinceStamp(f) ==
    \A line \in TemplateLine : (\A v \in stamp .. tip : Has(v, f, line)) =>
        line \in dropped[f] \cup Returned(f) \/ HasIt(f, line)

\* Nobody's work is in a file but in what was typed or dropped.
Touched(f) == typed[f] # {} \/ dropped[f] # {}

Untouched(f) == ~Touched(f) => project[f] \in Shipped(f) \cup {Absent}

UpToDate(f) ==
    /\ project[f] # Absent
    /\ Latest(f) \ (dropped[f] \cup Returned(f)) \subseteq project[f]
    /\ f \in Drifting => Touched(f)

PlanCovers ==
    /\ \A f \in run.customized \ spoilt : Touched(f)
    /\ \A f \in File \ spoilt : Latest(f) # Absent =>
          f \in run.left \/ f \in run.customized \/ UpToDate(f)

DoneInv ==
    /\ stamp # None => stamp \in 1 .. tip
    /\ run.at = "apply" => run.base = stamp /\ exit = None
    /\ \A f \in File \ spoilt : Untouched(f)
    /\ stamp # None => \A f \in File \ (Binary \cup spoilt) : SinceStamp(f)
    /\ run.at = "apply" => PlanCovers

LEMMA TipIsVersion ==
    ASSUME TypeOK
    PROVE  /\ tip \in Nat \ {0} /\ 1 .. tip \subseteq Version /\ Version \subseteq Nat \ {0}
           /\ tip \in 1 .. tip /\ None \notin 1 .. tip
<1>1. Version = 1 .. Len(Template) /\ Len(Template) \in Nat /\ tip \in Version
    BY TemplateAssumption DEF TypeOK, Version
<1> QED BY <1>1, LinesAssumption

\* A line that is in the stamped version and in the latest was never away, or returned.
LEMMA KeptOrReturned ==
    ASSUME TypeOK, stamp \in 1 .. tip, NEW f \in File, NEW line \in TemplateLine,
           Has(stamp, f, line), Has(tip, f, line), line \notin Returned(f)
    PROVE  \A v \in stamp .. tip : Has(v, f, line)
<1> SUFFICES ASSUME NEW v \in stamp .. tip, ~Has(v, f, line) PROVE FALSE
    OBVIOUS
<1>1. stamp \in 1 .. tip /\ v \in 1 .. tip /\ stamp < v
    <2>1. v # stamp
        OBVIOUS
    <2> QED BY <2>1, TipIsVersion
<1> QED BY <1>1 DEF Returned

\* A merge without conflicts brings a file up to date.
LEMMA MergeBringsIn ==
    ASSUME TypeOK, stamp \in 1 .. tip, NEW f \in File, SinceStamp(f),
           project[f] # Absent, Template[stamp][f] # Absent, Latest(f) # Absent
    PROVE  Latest(f) \ (dropped[f] \cup Returned(f))
              \subseteq Merged(project[f], Template[stamp][f], Latest(f))
<1> SUFFICES ASSUME NEW line \in Latest(f), line \notin dropped[f] \cup Returned(f),
                    line \in Template[stamp][f]
             PROVE  line \in project[f]
    BY DEF Merged
<1>1. line \in TemplateLine
    BY TipIsVersion, ShippedLines DEF Latest
<1>2. Has(stamp, f, line) /\ Has(tip, f, line)
    BY DEF Has, Latest
<1> QED BY <1>1, <1>2, KeptOrReturned DEF SinceStamp, HasIt

LEMMA DoneInit == Init => DoneInv
<1> SUFFICES ASSUME Init PROVE DoneInv
    OBVIOUS
<1>1. TypeOK
    BY SyncInit DEF SyncInv
<1>2. tip = 1 /\ stamp \in {None, 1} /\ run.at = "idle" /\ project = Template[1]
    BY DEF Init, Idle
<1>3. \A f \in File : Untouched(f)
    BY <1>2 DEF Untouched, Shipped
<1>4. \A f \in File : stamp # None => SinceStamp(f)
    BY <1>2 DEF SinceStamp, HasIt, Has
<1> QED BY <1>2, <1>3, <1>4 DEF DoneInv

\* A file as the template ships it is up to date, and holds what it had since the stamp.
LEMMA LatestIsUpToDate ==
    ASSUME TypeOK, NEW f \in File, Latest(f) # Absent, project[f] = Latest(f)
    PROVE  UpToDate(f)
BY DEF UpToDate, Drifting

LEMMA UpToDateSinceStamp ==
    ASSUME TypeOK, tip' = tip, stamp' \in 1 .. tip, NEW f \in File,
           Latest(f) # Absent => UpToDate(f)'
    PROVE  SinceStamp(f)'
<1> SUFFICES ASSUME NEW line \in TemplateLine, \A v \in stamp' .. tip : Has(v, f, line)
             PROVE  line \in dropped'[f] \cup Returned(f)' \/ HasIt(f, line)'
    BY DEF SinceStamp, Has
<1>1. tip \in stamp' .. tip
    BY TipIsVersion
<1>2. Latest(f) # Absent /\ line \in Latest(f)
    BY <1>1 DEF Has, Latest
<1> QED BY <1>2 DEF UpToDate, HasIt, Latest

\* What is planned covers every file that is not as the template ships it.
LEMMA ApplyCovers ==
    ASSUME TypeOK, NEW f \in File, Untouched(f)
    PROVE  /\ Kind(f) = "custom" => Touched(f)
           /\ Latest(f) # Absent =>
                Kind(f) \in {"new", "update"} \/ Kind(f) = "custom" \/ UpToDate(f)
<1>1. Kind(f) = "custom" => project[f] \notin Shipped(f) \cup {Absent}
    BY DEF Kind
<1>2. Latest(f) # Absent /\ Kind(f) \notin {"new", "update", "custom"}
        => project[f] = Latest(f)
    BY DEF Kind
<1> QED BY <1>1, <1>2, LatestIsUpToDate DEF Untouched

\* What is said of a file is about its own content and history, the stamp and the tip.
LEMMA OtherFiles ==
    ASSUME NEW f \in File, project'[f] = project[f], typed'[f] = typed[f],
           dropped'[f] = dropped[f], tip' = tip
    PROVE  /\ Untouched(f) => Untouched(f)'
           /\ Touched(f) => Touched(f)'
           /\ UpToDate(f) => UpToDate(f)'
           /\ stamp' = stamp /\ SinceStamp(f) => SinceStamp(f)'
<1>1. Latest(f)' = Latest(f) /\ Shipped(f)' = Shipped(f) /\ Returned(f)' = Returned(f)
    BY DEF Latest, Shipped, Returned
<1>2. f \in Drifting' <=> f \in Drifting
    BY <1>1 DEF Drifting
<1> QED BY <1>1, <1>2 DEF Untouched, Touched, UpToDate, SinceStamp, HasIt

\* The steps that plan, end or interrupt a run change no file.
LEMMA DoneOverRuns ==
    ASSUME SyncInv, DoneInv, UNCHANGED <<project, stamp, people, spoilt>>,
           \/ run'.at # "apply"
           \/ \E merge, force \in BOOLEAN : Apply(merge, force)
           \/ run' = run /\ (run.at = "idle" \/ exit' = exit)
    PROVE  DoneInv'
<1>1. UNCHANGED <<project, stamp, typed, dropped, tip, spoilt>>
    BY DEF people
<1>2. \A f \in File :
        /\ Untouched(f) => Untouched(f)'
        /\ Touched(f) => Touched(f)'
        /\ UpToDate(f) => UpToDate(f)'
        /\ SinceStamp(f) => SinceStamp(f)'
    BY <1>1, OtherFiles
<1>3. \A g \in File : Latest(g)' = Latest(g)
    BY <1>1 DEF Latest
<1>4. CASE run'.at # "apply"
    BY <1>1, <1>2, <1>4 DEF DoneInv
<1>5. ASSUME NEW merge \in BOOLEAN, NEW force \in BOOLEAN, Apply(merge, force)
      PROVE  DoneInv'
    <2>1. /\ run'.left = Of({"new", "update", "remove"}) /\ run'.customized = Of({"custom"})
          /\ run'.base = stamp /\ exit' = None
        BY <1>5 DEF Apply
    <2>2. PlanCovers'
        <3>1. \A f \in File \ spoilt : Untouched(f)
            BY DEF DoneInv
        <3>2. \A f \in run'.customized \ spoilt : Touched(f)'
            BY <1>2, <2>1, <3>1, ApplyCovers DEF SyncInv, Of
        <3>3. ASSUME NEW f \in File \ spoilt, Latest(f) # Absent
              PROVE  f \in run'.left \/ f \in run'.customized \/ UpToDate(f)'
            BY <1>2, <2>1, <3>1, <3>3, ApplyCovers DEF SyncInv, Of
        <3> QED BY <1>1, <1>3, <3>2, <3>3 DEF PlanCovers
    <2> QED BY <1>1, <1>2, <2>1, <2>2 DEF DoneInv
<1>6. CASE run' = run /\ (run.at = "idle" \/ exit' = exit)
    <2>1. PlanCovers => PlanCovers'
        BY <1>1, <1>2, <1>3, <1>6 DEF PlanCovers, SyncInv, TypeOK
    <2> QED BY <1>1, <1>2, <1>6, <2>1 DEF DoneInv
<1> QED BY <1>4, <1>5, <1>6

\* A step of a run that writes one file.
LEMMA DoneOverFile ==
    ASSUME SyncInv, DoneInv, NEW f \in File, run.at = "apply",
           UNCHANGED <<stamp, tip, exit, typed>>,
           spoilt' \in SUBSET spoilt, spoilt \ {f} \subseteq spoilt',
           run'.at = "apply", run'.base = run.base,
           run'.left \in SUBSET File, run'.customized \in SUBSET run.customized,
           \A g \in File \ {f} :
              /\ project'[g] = project[g] /\ dropped'[g] = dropped[g]
              /\ g \in run.left => g \in run'.left
              /\ g \in run.customized => g \in run'.customized,
           f \notin spoilt' =>
              /\ Untouched(f)'
              /\ stamp # None /\ f \notin Binary => SinceStamp(f)'
              /\ f \in run'.customized => Touched(f)'
              /\ Latest(f) # Absent =>
                    f \in run'.left \/ f \in run'.customized \/ UpToDate(f)'
    PROVE  DoneInv'
<1>1. \A g \in File \ {f} :
        /\ Untouched(g) => Untouched(g)'
        /\ Touched(g) => Touched(g)'
        /\ UpToDate(g) => UpToDate(g)'
        /\ SinceStamp(g) => SinceStamp(g)'
    BY OtherFiles
<1>2. \A g \in File : Latest(g)' = Latest(g)
    BY DEF Latest
<1>3. \A g \in File \ spoilt' : Untouched(g)'
    BY <1>1 DEF DoneInv
<1>4. stamp # None => \A g \in File \ (Binary \cup spoilt') : SinceStamp(g)'
    BY <1>1 DEF DoneInv
<1>5. PlanCovers'
    <2>1. PlanCovers /\ run.customized \subseteq File
        BY DEF DoneInv, SyncInv, TypeOK
    <2>2. \A g \in run'.customized \ spoilt' : Touched(g)'
        BY <1>1, <2>1 DEF PlanCovers
    <2>3. \A g \in File \ spoilt' : Latest(g) # Absent =>
             g \in run'.left \/ g \in run'.customized \/ UpToDate(g)'
        BY <1>1, <2>1 DEF PlanCovers
    <2> QED BY <1>2, <2>2, <2>3 DEF PlanCovers
<1> QED BY <1>3, <1>4, <1>5 DEF DoneInv

LEMMA DoneCopy ==
    ASSUME SyncInv, DoneInv, NEW f \in File, Copy(f) \/ Delete(f)
    PROVE  DoneInv'
<1>1. /\ f \in run.left /\ run' = [run EXCEPT !.left = @ \ {f}]
      /\ project' = [project EXCEPT ![f] = Latest(f)]
      /\ dropped' = [dropped EXCEPT ![f] = {}]
      /\ spoilt' = spoilt \ {f}
      /\ UNCHANGED <<tip, typed, stamp, exit>>
    BY DEF Copy, Delete, Put, Applied
<1>2. run.at = "apply"
    BY <1>1 DEF SyncInv, PlanHolds, TypeOK
<1>3. /\ run'.left = run.left \ {f} /\ run'.customized = run.customized
      /\ run'.base = run.base /\ run'.at = "apply"
    BY <1>1, <1>2 DEF SyncInv, TypeOK
<1>4. run'.left \in SUBSET File /\ run'.customized \in SUBSET run.customized
    BY <1>3 DEF SyncInv, TypeOK
<1>5. \A g \in File \ {f} : project'[g] = project[g] /\ dropped'[g] = dropped[g]
    BY <1>1 DEF SyncInv, TypeOK
<1>6. project'[f] = Latest(f) /\ Latest(f)' = Latest(f)
    BY <1>1 DEF SyncInv, TypeOK, Latest
<1>7. TypeOK'
    <2>1. [Next]_vars
        BY DEF Next
    <2> QED BY <2>1, SyncNext DEF SyncInv
<1>8. Untouched(f)'
    BY <1>1, <1>6, <1>7, TipIsVersion DEF Untouched, Shipped, Latest, SyncInv
<1>9. Latest(f) # Absent => UpToDate(f)'
    BY <1>6 DEF UpToDate, Drifting
<1>10. stamp # None => SinceStamp(f)'
    <2> SUFFICES ASSUME stamp # None PROVE SinceStamp(f)'
        OBVIOUS
    <2>1. stamp' \in 1 .. tip
        BY <1>1 DEF DoneInv
    <2> QED BY <1>1, <1>9, <2>1, UpToDateSinceStamp DEF SyncInv
<1>11. f \notin run'.customized
    BY <1>1, <1>3 DEF SyncInv, PlanHolds
<1> QED
    BY <1>1, <1>2, <1>3, <1>4, <1>5, <1>8, <1>9, <1>10, <1>11, DoneOverFile

LEMMA DoneMerge ==
    ASSUME SyncInv, DoneInv, NEW f \in File, Merge(f)
    PROVE  DoneInv'
<1>1. /\ f \in run.customized \ run.tried /\ run.left = {} /\ run.base \in Version
      /\ UNCHANGED <<stamp, exit, typed, dropped, tip, spoilt>>
    BY DEF Merge, SyncInv, TypeOK, PlanHolds, people
<1>2. run.at = "apply" /\ project[f] # Absent /\ Latest(f) # Absent
    BY <1>1 DEF SyncInv, PlanHolds, TypeOK
<1>3. stamp = run.base /\ stamp \in 1 .. tip /\ stamp # None
    BY <1>1, <1>2, LinesAssumption DEF DoneInv
<1>4. run' = [run EXCEPT !.tried = @ \cup {f}] \/ run' = [run EXCEPT !.customized = @ \ {f}]
    BY DEF Merge
<1>5. /\ run'.left = run.left /\ run'.base = run.base /\ run'.at = "apply"
      /\ run'.customized \in SUBSET run.customized
      /\ run.customized \ {f} \subseteq run'.customized
    BY <1>2, <1>4 DEF SyncInv, TypeOK
<1>6. \A g \in File \ {f} : project'[g] = project[g] /\ dropped'[g] = dropped[g]
    BY <1>1 DEF Merge, Put, SyncInv, TypeOK
<1>7. \A g \in File : Latest(g)' = Latest(g) /\ Returned(g)' = Returned(g)
    BY <1>1 DEF Latest, Returned
<1>8. f \notin spoilt =>
        /\ Touched(f)'
        /\ f \notin Binary => SinceStamp(f)'
        /\ f \in run'.customized \/ UpToDate(f)'
    <2> SUFFICES ASSUME f \notin spoilt
                 PROVE  /\ Touched(f)'
                        /\ f \notin Binary => SinceStamp(f)'
                        /\ f \in run'.customized \/ UpToDate(f)'
        OBVIOUS
    <2>1. Touched(f) /\ (f \notin Binary => SinceStamp(f))
        BY <1>1, <1>2, <1>3 DEF DoneInv, PlanCovers
    <2>2. Touched(f)'
        BY <1>1, <2>1 DEF Touched
    <2>3. CASE run' = [run EXCEPT !.tried = @ \cup {f}] /\ project' = project
        <3>1. SinceStamp(f) => SinceStamp(f)'
            BY <1>1, <2>3, OtherFiles
        <3>2. f \in run'.customized
            BY <1>1, <2>3 DEF SyncInv, TypeOK
        <3> QED BY <2>1, <2>2, <3>1, <3>2
    <2>4. CASE run' = [run EXCEPT !.tried = @ \cup {f}] /\ f \in Binary
        BY <1>1, <2>2, <2>4 DEF SyncInv, TypeOK
    <2>5. ASSUME f \notin Binary, Template[run.base][f] # Absent,
                 NEW content \in Merges(project[f], Template[run.base][f], Latest(f)),
                 Put(f, content)
          PROVE  UpToDate(f)' /\ SinceStamp(f)'
        <3>1. /\ project[f] \in SUBSET Line /\ Latest(f) \in SUBSET TemplateLine
              /\ Template[run.base][f] \in SUBSET TemplateLine
            BY <1>1, <1>2, <2>5, ShippedLines DEF SyncInv, TypeOK, Latest
        <3>2. content \in SUBSET Line
            <4>1. \/ content = Merged(project[f], Template[run.base][f], Latest(f))
                  \/ content = project[f] \cup Latest(f) \cup {Marker}
                BY DEF Merges
            <4> QED BY <3>1, <4>1 DEF Merged, Line
        <3>3. Latest(f) \ (dropped[f] \cup Returned(f)) \subseteq content
            <4>1. CASE content = Merged(project[f], Template[run.base][f], Latest(f))
                BY <1>2, <1>3, <2>1, <2>5, <4>1, MergeBringsIn DEF SyncInv
            <4>2. CASE content = project[f] \cup Latest(f) \cup {Marker}
                BY <4>2
            <4> QED BY <2>5, <4>1, <4>2 DEF Merges
        <3>4. project'[f] = content /\ content # Absent
            BY <2>5, <3>2, LinesAssumption DEF Put, SyncInv, TypeOK
        <3>5. UpToDate(f)'
            BY <1>1, <1>7, <2>2, <3>3, <3>4 DEF UpToDate
        <3>6. SinceStamp(f)'
            <4>1. stamp' \in 1 .. tip
                BY <1>1, <1>3
            <4> QED BY <1>1, <3>5, <4>1, UpToDateSinceStamp DEF SyncInv
        <3> QED BY <3>5, <3>6
    <2>6. CASE f \notin Binary /\ Template[run.base][f] # Absent
        BY <2>2, <2>5, <2>6 DEF Merge
    <2> QED BY <2>3, <2>4, <2>6 DEF Merge
<1>9. f \notin spoilt => Untouched(f)'
    BY <1>8 DEF Untouched
<1>10. run'.left \in SUBSET File
    BY <1>5 DEF SyncInv, TypeOK
<1> QED
    BY <1>1, <1>2, <1>5, <1>6, <1>8, <1>9, <1>10, DoneOverFile

LEMMA DoneFinish ==
    ASSUME SyncInv, DoneInv, Finish \/ KilledInStamp
    PROVE  /\ DoneInv'
           /\ exit' = 0 => \A f \in File \ spoilt : Latest(f) # Absent => UpToDate(f)
<1>1. /\ run.at = "apply" /\ run.left = {} /\ run'.at = "idle"
      /\ stamp' \in {stamp, None} \/ ((Clean \/ run.force) /\ stamp' = tip)
      /\ spoilt' = spoilt \cup Overstated
      /\ exit' = 0 => Clean
      /\ UNCHANGED <<project, typed, dropped, tip>>
    BY LinesAssumption DEF Finish, KilledInStamp, Stops, Ends, Idle, people
<1>2. \A f \in File \ spoilt :
        Latest(f) # Absent => f \in run.customized \/ UpToDate(f)
    BY <1>1 DEF DoneInv, PlanCovers
<1>3. \A f \in File :
        /\ Untouched(f) => Untouched(f)'
        /\ UpToDate(f) => UpToDate(f)'
        /\ stamp' = stamp /\ SinceStamp(f) => SinceStamp(f)'
    BY <1>1, OtherFiles
<1>4. stamp' # None => stamp' \in 1 .. tip'
    BY <1>1, TipIsVersion DEF DoneInv, SyncInv
<1>5. /\ spoilt \subseteq spoilt'
      /\ stamp' \in {stamp, None} \/ run.customized \subseteq spoilt'
    <2>1. Clean => run.customized = {}
        BY DEF Clean
    <2> QED BY <1>1, <2>1 DEF Overstated
<1>6. ASSUME stamp' # None, NEW f \in File \ (Binary \cup spoilt')
      PROVE  SinceStamp(f)'
    <2>1. CASE stamp' \in {stamp, None}
        BY <1>3, <1>5, <1>6, <2>1 DEF DoneInv
    <2>2. CASE run.customized \subseteq spoilt'
        <3>1. Latest(f) # Absent => UpToDate(f)'
            BY <1>2, <1>3, <1>5, <1>6, <2>2
        <3>2. stamp' \in 1 .. tip /\ tip' = tip
            BY <1>1, <1>4, <1>6
        <3> QED BY <3>1, <3>2, UpToDateSinceStamp DEF SyncInv
    <2> QED BY <1>5, <2>1, <2>2
<1>7. \A f \in File \ spoilt' : Untouched(f)'
    BY <1>3, <1>5 DEF DoneInv
<1>8. DoneInv'
    BY <1>1, <1>4, <1>6, <1>7 DEF DoneInv
<1>9. exit' = 0 => run.customized = {}
    BY <1>1 DEF Clean
<1> QED BY <1>2, <1>8, <1>9

LEMMA DoneMoves ==
    ASSUME SyncInv, DoneInv, TemplateMoves
    PROVE  DoneInv'
<1>1. /\ run'.at = "idle" /\ tip' = tip + 1
      /\ UNCHANGED <<project, stamp, typed, dropped, spoilt>>
    BY DEF TemplateMoves
<1>2. tip \in Nat /\ 1 .. tip \subseteq 1 .. tip' /\ tip \in 1 .. tip'
    BY <1>1, TipIsVersion DEF SyncInv
<1>3. \A f \in File : Untouched(f) => Untouched(f)'
    BY <1>1, <1>2 DEF Untouched, Touched, Shipped
<1>4. ASSUME stamp \in 1 .. tip, NEW f \in File, SinceStamp(f)
      PROVE  SinceStamp(f)'
    <2> SUFFICES ASSUME NEW line \in TemplateLine, \A v \in stamp .. tip' : Has(v, f, line)
                 PROVE  line \in dropped[f] \cup Returned(f)' \/ HasIt(f, line)
        BY <1>1 DEF SinceStamp, HasIt, Has
    <2>1. stamp .. tip \subseteq stamp .. tip' /\ tip' \in stamp .. tip'
        BY <1>1, <1>2, <1>4
    <2>2. line \in dropped[f] \cup Returned(f) \/ HasIt(f, line)
        BY <1>4, <2>1 DEF SinceStamp
    <2>3. line \in Returned(f) => line \in Returned(f)'
        BY <1>2, <2>1 DEF Returned, Has
    <2> QED BY <2>2, <2>3
<1>5. stamp # None => stamp \in 1 .. tip /\ stamp' \in 1 .. tip'
    BY <1>1, <1>2 DEF DoneInv
<1> QED BY <1>1, <1>3, <1>4, <1>5 DEF DoneInv

\* A write that is cut short takes its file out of what is said, and leaves the others.
LEMMA DoneCutShort ==
    ASSUME SyncInv, DoneInv, NEW f \in File, NEW content, CutShort(f, content)
    PROVE  DoneInv'
<1>1. /\ run'.at = "idle" /\ spoilt' = spoilt \cup {f}
      /\ UNCHANGED <<stamp, dropped, tip>>
    BY DEF CutShort, Stops, Ends, Idle
<1>2. \A g \in File \ {f} : project'[g] = project[g] /\ typed'[g] = typed[g]
    BY DEF CutShort, Put, SyncInv, TypeOK
<1>3. \A g \in File \ {f} :
        (Untouched(g) => Untouched(g)') /\ (SinceStamp(g) => SinceStamp(g)')
    BY <1>1, <1>2, OtherFiles
<1> QED BY <1>1, <1>3 DEF DoneInv

\* People's work on one file, between runs.
LEMMA DoneEdit ==
    ASSUME SyncInv, DoneInv, NEW f \in File, run.at = "idle", run' = run,
           UNCHANGED <<tip, stamp, spoilt>>,
           \A g \in File \ {f} : project'[g] = project[g] /\ typed'[g] = typed[g]
                                 /\ dropped'[g] = dropped[g],
           f \notin spoilt => Untouched(f)',
           \A line \in TemplateLine :
              line \in dropped[f] \/ HasIt(f, line) => line \in dropped'[f] \/ HasIt(f, line)'
    PROVE  DoneInv'
<1>1. \A g \in File \ {f} :
        (Untouched(g) => Untouched(g)') /\ (SinceStamp(g) => SinceStamp(g)')
    BY OtherFiles
<1>2. SinceStamp(f) => SinceStamp(f)'
    BY DEF SinceStamp, Returned
<1>3. \A g \in File \ spoilt : Untouched(g)'
    BY <1>1 DEF DoneInv
<1>4. stamp # None => \A g \in File \ (Binary \cup spoilt) : SinceStamp(g)'
    BY <1>1, <1>2 DEF DoneInv
<1> QED BY <1>3, <1>4 DEF DoneInv

LEMMA DoneEdits ==
    ASSUME SyncInv, DoneInv, NEW f \in File,
           \/ Discard(f)
           \/ \E line \in OwnLine : Work(f, line)
           \/ \E line \in TemplateLine \cup {Marker} : Cut(f, line)
    PROVE  DoneInv'
<1>1. ASSUME NEW content, NEW own, NEW gone, Edit(f, content, own, gone),
             f \notin spoilt => own # {} \/ gone # {} \/ content = Absent,
             \A line \in TemplateLine :
                line \in dropped[f] \/ HasIt(f, line) =>
                   line \in gone \/ (content # Absent /\ line \in content)
      PROVE  DoneInv'
    <2>1. /\ run.at = "idle" /\ run' = run /\ UNCHANGED <<tip, stamp, spoilt>>
          /\ project' = [project EXCEPT ![f] = content]
          /\ typed' = [typed EXCEPT ![f] = own] /\ dropped' = [dropped EXCEPT ![f] = gone]
        BY <1>1 DEF Edit, Put
    <2>2. project'[f] = content /\ typed'[f] = own /\ dropped'[f] = gone
        BY <2>1 DEF SyncInv, TypeOK
    <2>3. \A g \in File \ {f} : project'[g] = project[g] /\ typed'[g] = typed[g]
                                /\ dropped'[g] = dropped[g]
        BY <2>1 DEF SyncInv, TypeOK
    <2>4. f \notin spoilt => Untouched(f)'
        BY <1>1, <2>2 DEF Untouched, Touched
    <2>5. \A line \in TemplateLine :
             line \in dropped[f] \/ HasIt(f, line) => line \in dropped'[f] \/ HasIt(f, line)'
        BY <1>1, <2>2 DEF HasIt
    <2> QED BY <2>1, <2>3, <2>4, <2>5, DoneEdit
<1>2. CASE Discard(f)
    BY <1>1, <1>2 DEF Discard
<1>3. ASSUME NEW line \in OwnLine, Work(f, line)
      PROVE  DoneInv'
    <2> DEFINE content == (IF project[f] = Absent THEN {} ELSE project[f]) \cup {line}
    <2>1. Edit(f, content, typed[f] \cup {line}, dropped[f])
        BY <1>3 DEF Work
    <2>2. content # Absent
        <3>1. content \in SUBSET Line
            BY DEF SyncInv, TypeOK, Line
        <3> QED BY <3>1, LinesAssumption
    <2>3. \A l \in TemplateLine :
             l \in dropped[f] \/ HasIt(f, l) => l \in dropped[f] \/ (content # Absent /\ l \in content)
        BY <2>2 DEF HasIt
    <2>4. typed[f] \cup {line} # {}
        OBVIOUS
    <2> HIDE DEF content
    <2> QED BY <1>1, <2>1, <2>3, <2>4
<1>4. ASSUME NEW line \in TemplateLine \cup {Marker}, Cut(f, line)
      PROVE  DoneInv'
    <2> DEFINE content == project[f] \ {line}
               gone == dropped[f] \cup ({line} \ {Marker})
    <2>1. Edit(f, content, typed[f], gone) /\ project[f] # Absent /\ line \in project[f]
        BY <1>4 DEF Cut
    <2>2. content # Absent
        <3>1. content \in SUBSET Line
            BY <2>1 DEF SyncInv, TypeOK
        <3> QED BY <3>1, LinesAssumption
    <2>3. \A l \in TemplateLine :
             l \in dropped[f] \/ HasIt(f, l) => l \in gone \/ (content # Absent /\ l \in content)
        BY <2>2, LinesAssumption DEF HasIt
    <2>4. f \notin spoilt => typed[f] # {} \/ gone # {}
        <3>1. CASE line = Marker
            <4>1. \A shipped \in Shipped(f) : shipped \subseteq TemplateLine
                BY ShippedLines, TipIsVersion DEF Shipped, SyncInv
            <4>2. project[f] \notin Shipped(f) \cup {Absent}
                BY <2>1, <3>1, <4>1, LinesAssumption
            <4> QED BY <4>2 DEF DoneInv, Untouched, Touched
        <3>2. CASE line # Marker
            BY <3>2
        <3> QED BY <3>1, <3>2
    <2> HIDE DEF content, gone
    <2> QED BY <1>1, <2>1, <2>3, <2>4
<1> QED BY <1>2, <1>3, <1>4

LEMMA DoneNext == SyncInv /\ DoneInv /\ [Next]_vars => DoneInv'
<1> SUFFICES ASSUME SyncInv, DoneInv, [Next]_vars PROVE DoneInv'
    OBVIOUS
<1>1. CASE DryRun
    BY <1>1, DoneOverRuns DEF DryRun
<1>2. CASE CloneFails \/ Killed
    BY <1>2, DoneOverRuns DEF CloneFails, Killed, Stops, Ends, Idle
<1>3. CASE Finish \/ KilledInStamp
    BY <1>3, DoneFinish
<1>4. CASE TemplateMoves
    BY <1>4, DoneMoves
<1>5. ASSUME NEW merge \in BOOLEAN, NEW force \in BOOLEAN, Apply(merge, force)
      PROVE  DoneInv'
    BY <1>5, DoneOverRuns DEF Apply
<1>6. ASSUME NEW f \in File, Copy(f) \/ Delete(f)
      PROVE  DoneInv'
    BY <1>6, DoneCopy
<1>7. ASSUME NEW f \in File, Merge(f)
      PROVE  DoneInv'
    BY <1>7, DoneMerge
<1>8. ASSUME NEW f \in File, KilledInCopy(f) \/ KilledInMerge(f)
      PROVE  DoneInv'
    BY <1>8, DoneCutShort, CutShortContent
<1>9. ASSUME NEW f \in File,
             \/ Discard(f)
             \/ \E line \in OwnLine : Work(f, line)
             \/ \E line \in TemplateLine \cup {Marker} : Cut(f, line)
      PROVE  DoneInv'
    BY <1>9, DoneEdits
<1>10. CASE UNCHANGED vars
    <2>1. UNCHANGED <<project, stamp, people, spoilt>> /\ run' = run /\ exit' = exit
        BY <1>10 DEF vars
    <2> QED BY <2>1, DoneOverRuns
<1> QED BY <1>1, <1>2, <1>3, <1>4, <1>5, <1>6, <1>7, <1>8, <1>9, <1>10 DEF Next

\* Exit code 0 of a run of sync_from_template that applied means that all the template
\* ships is in, whichever runs were stopped between two files and whichever versions were
\* missed: of each file that no forced stamp left unresolved and no write was cut short
\* of since it was last copied whole, and but for lines the template brought back.
THEOREM ZeroIsDone == Spec => ZeroMeansDone
<1>1. ASSUME SyncInv, DoneInv, [Next]_vars
      PROVE  [run.at = "apply" /\ exit' = 0 =>
                \A f \in File \ spoilt : Latest(f) # Absent =>
                   /\ project[f] # Absent
                   /\ Latest(f) \ (dropped[f] \cup Returned(f)) \subseteq project[f]
                   /\ f \in Drifting => typed[f] # {} \/ dropped[f] # {}]_vars
    <2> SUFFICES ASSUME run.at = "apply", exit' = 0
                 PROVE  \A f \in File \ spoilt : Latest(f) # Absent => UpToDate(f)
        BY DEF UpToDate, Touched
    <2>1. exit = None /\ None # 0
        BY <1>1, LinesAssumption DEF DoneInv
    <2>2. CASE Finish
        BY <1>1, <2>2, DoneFinish
    <2>3. ~(DryRun \/ CloneFails \/ Killed \/ KilledInStamp \/ TemplateMoves)
        BY <2>1 DEF DryRun, KilledInStamp, CloneFails, Killed, Stops, TemplateMoves, Ends
    <2>4. ASSUME NEW merge \in BOOLEAN, NEW force \in BOOLEAN PROVE ~Apply(merge, force)
        BY DEF Apply
    <2>5. ASSUME NEW f \in File
          PROVE  /\ ~(Copy(f) \/ Delete(f) \/ Merge(f) \/ Discard(f))
                 /\ ~(KilledInCopy(f) \/ KilledInMerge(f))
                 /\ \A line : ~Work(f, line) /\ ~Cut(f, line)
        BY <2>1 DEF Copy, Delete, Applied, Merge, KilledInCopy, KilledInMerge, CutShort, Stops,
                    Ends, Discard, Work, Cut, Edit
    <2>6. ~UNCHANGED vars
        BY <2>1 DEF vars
    <2> QED BY <1>1, <2>2, <2>3, <2>4, <2>5, <2>6 DEF Next
<1> QED
    BY <1>1, SyncInit, SyncNext, DoneInit, DoneNext, PTL DEF Spec, ZeroMeansDone
=============================================================================
