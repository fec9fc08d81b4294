-------------------------- MODULE PublishPipeline --------------------------
(***************************************************************************)
(* Publishing one application: the stages of PublishPipeline over the      *)
(* registry entry apps/<name> and the server checkout apps_infra/apps/<name>,*)
(* beside the two other writers of those directories, which take no lock:  *)
(* the endpoint that uploads source and `vpath app refresh`.  Any of the   *)
(* three goes on while the others do.                                      *)
(*                                                                         *)
(* OpsService runs one publish of an application at a time (module         *)
(* OpsService), so there is one publisher here.  The upload handler is a   *)
(* coroutine that does not await while it writes, so there is one uploader.*)
(* Every write is one file, or one run of files between which nothing      *)
(* tells the writers apart, and a writer may stop after any of them: a full*)
(* disk, a refusal, a killed console.  What a stopped publish leaves is    *)
(* what the next one finds; there is no other memory of it.                *)
(*                                                                         *)
(* The text of manifests and their ports are abstracted away: the entry    *)
(* directory counts as claimed once its manifest is written.               *)
(***************************************************************************)
EXTENDS Naturals, FiniteSets

CONSTANTS
    Trees,      \* source trees: what a commit holds under a path of a repository
    Uploads,    \* what clients post to the source endpoint
    Missing,    \* no entry directory
    Bare,       \* an entry directory with a manifest and no provenance
    NoRecord,   \* no vpath-source.yaml
    NoTree,     \* a record without tree_sha
    NoRequest,
    NoPayload,
    MaxDisturbances   \* bound: uploads, refreshes and stops

VARIABLES
    entry,     \* apps/<name>: its vpath-source.yaml, or Bare, or Missing
    checkout,  \* the application's directory in the server checkout
    pc,        \* where each writer stands
    request,   \* what the publisher was asked for
    payload,   \* what each writer of the checkout is placing there
    seen,      \* the record a writer of the entry has read and will write
    slips      \* what went on that no code guards against, as far as the entry and
               \* the checkout still show it: history

memory == <<request, payload, seen>>
vars == <<entry, checkout, pc, memory, slips>>

-----------------------------------------------------------------------------
Request == [tree : Trees, replace : BOOLEAN]

\* vpath-source.yaml: where the tree came from, and the hash of the tree that was
\* fetched.  A tree stands for its hash.
Record == [of : Trees, bound : Trees \cup {NoTree}]

Payload == [tree : Trees, record : Record \cup {NoRecord}, replace : BOOLEAN]

\* A repository and a path in it; a commit says which of its trees.
ASSUME TreesAssumption ==
    \A t \in Trees : DOMAIN t = {"repo", "path", "commit"}

\* The provenance in an upload, if any, is that of what is uploaded.
ASSUME UploadsAssumption ==
    /\ Uploads \subseteq Payload
    /\ \A u \in Uploads : u.record # NoRecord =>
          u.record.of = u.tree /\ u.record.bound \in {u.tree, NoTree}

ASSUME MarkersAssumption ==
    /\ {Missing, Bare, NoRecord} \cap Record = {}
    /\ Missing # Bare
    /\ NoTree \notin Trees
    /\ NoRequest \notin Request
    /\ NoPayload \notin Payload

ASSUME BoundAssumption == MaxDisturbances \in Nat

\* The bundle holds its files in the order of their names, and vpath-source.yaml
\* somewhere among them: the files before it, and those after it.
Part == {"before", "after"}
File == Trees \X Part
Whole(t) == {t} \X Part

Writer == {"publish", "upload", "refresh"}

\* SourceMaterializer.materialize.
Placing == {"look", "clear", "make", "before", "provenance", "after"}

Stage == {"idle", "write"} \cup Placing \cup
         {"register", "claim", "overwrite", "record", "send", "stamp", "bind",
          "place", "render", "install"}

SameSource(t, u) == t.repo = u.repo /\ t.path = u.path

\* _require_overwrite_sanctioned.
Sanctioned(record) ==
    \/ request.replace
    \/ record # NoRecord /\ SameSource(record.of, request.tree)

\* target.exists() is false.
NoCheckout == [there |-> FALSE, files |-> {}, record |-> NoRecord]

Goto(w, stage) == pc' = [pc EXCEPT ![w] = stage]

\* The writer is done, well or not, and what it knew is gone with it.
Ends(w) ==
    /\ Goto(w, "idle")
    /\ request' = IF w = "publish" THEN NoRequest ELSE request
    /\ payload' = [payload EXCEPT ![w] = NoPayload]
    /\ seen' = [seen EXCEPT ![w] = NoRecord]

-----------------------------------------------------------------------------
(* Slips.  "refreshed": a refresh wrote the entry while a publish counted  *)
(* on what it said.  "elsewhere": a publish skipped register for a commit  *)
(* that is recorded under another path.  "crossed": both writers of the    *)
(* checkout were in it at once.  "torn": one of them stopped in it.  The   *)
(* strays are files uploaded since the publish under way looked at the     *)
(* checkout.  A record written anew clears the entry, a directory made anew*)
(* the checkout.  Uploads, refreshes and stops are counted against a bound.*)

Slip == {"refreshed", "elsewhere", "crossed", "torn"}

History == [entry : SUBSET Slip, checkout : SUBSET Slip, strays : SUBSET File,
            spent : 0..MaxDisturbances]

NoSlips == [entry |-> {}, checkout |-> {}, strays |-> {}, spent |-> 0]

InDirectory == {"clear", "before", "provenance", "after"}

Other(w) == IF w = "publish" THEN "upload" ELSE "publish"

\* What a step of w in the checkout adds to its slips.
Crossing(w) == IF pc[Other(w)] \in InDirectory THEN {"crossed"} ELSE {}

\* What a stop of w adds: it was in the checkout, or had just removed it.
Tearing(w) ==
    IF pc[w] \in InDirectory \/ (pc[w] = "make" /\ ~checkout.there) THEN {"torn"} ELSE {}

Crosses(w) ==
    slips' = [slips EXCEPT !.checkout = @ \cup Crossing(w),
                           !.strays = @ \cap checkout'.files]

\* A publish looks at the checkout: what is uploaded from here on it does not see.
Looks == slips' = [slips EXCEPT !.strays = {}]

Init ==
    /\ entry = Missing
    /\ checkout = NoCheckout
    /\ pc = [w \in Writer |-> "idle"]
    /\ request = NoRequest
    /\ payload = [w \in Writer |-> NoPayload]
    /\ seen = [w \in Writer |-> NoRecord]
    /\ slips = NoSlips

-----------------------------------------------------------------------------
(* The stages register and send of a publish.                              *)

\* The job's thread enters the pipeline, and preflight finds nothing to refuse.
Publish(q) ==
    /\ pc["publish"] = "idle"
    /\ request' = q
    /\ Goto("publish", "register")
    /\ UNCHANGED <<entry, checkout, payload, seen, slips>>

RegisterSkipped ==
    /\ pc["publish"] = "register"
    /\ entry \in Record
    /\ entry.of.commit = request.tree.commit
    /\ slips' = [slips EXCEPT !.entry =
                    @ \cup (IF entry.of = request.tree THEN {} ELSE {"elsewhere"})]
    /\ Goto("publish", "send")
    /\ UNCHANGED <<entry, checkout, memory>>

\* Another commit is recorded: the entry may be overwritten when the source is
\* the same or the request says replace.  Nothing recorded: register looks again.
Register ==
    /\ pc["publish"] = "register"
    /\ \/ /\ entry \in Record
          /\ entry.of.commit # request.tree.commit
          /\ Sanctioned(entry)
          /\ Goto("publish", "overwrite")
       \/ entry \notin Record /\ Goto("publish", "claim")
    /\ UNCHANGED <<entry, checkout, memory, slips>>

WriteManifest ==
    /\ \/ pc["publish"] = "overwrite"
       \/ pc["publish"] = "claim" /\ (entry = Missing \/ request.replace)
    /\ entry' = IF entry = Missing THEN Bare ELSE entry
    /\ Goto("publish", "record")
    /\ UNCHANGED <<checkout, memory, slips>>

WriteRecord ==
    /\ pc["publish"] = "record"
    /\ entry' = [of |-> request.tree, bound |-> NoTree]
    /\ slips' = [slips EXCEPT !.entry = {}]
    /\ Goto("publish", "send")
    /\ UNCHANGED <<checkout, memory>>

\* What the checkout records is this commit, with the tree the registry is bound to.
AlreadySent ==
    /\ checkout.record # NoRecord
    /\ checkout.record.of.commit = request.tree.commit
    /\ checkout.record.bound # NoTree
    /\ entry \in Record /\ checkout.record.bound = entry.bound

SendSkipped ==
    /\ pc["publish"] = "send"
    /\ AlreadySent
    /\ Looks
    /\ Goto("publish", "render")
    /\ UNCHANGED <<entry, checkout, memory>>

\* A mutant of Send: any directory in the way is taken for the application's.
SendUnguarded ==
    /\ pc["publish"] = "send"
    /\ ~AlreadySent
    /\ Looks
    /\ Goto("publish", "stamp")
    /\ UNCHANGED <<entry, checkout, memory>>

Send ==
    /\ pc["publish"] = "send"
    /\ ~AlreadySent
    /\ checkout.there => Sanctioned(checkout.record)
    /\ Looks
    /\ Goto("publish", "stamp")
    /\ UNCHANGED <<entry, checkout, memory>>

\* stamp_tree: read the record, hash the downloaded tree, write the record back.
ReadRecord ==
    /\ pc["publish"] = "stamp"
    /\ entry \in Record
    /\ seen' = [seen EXCEPT !["publish"] = entry]
    /\ Goto("publish", "bind")
    /\ UNCHANGED <<entry, checkout, request, payload, slips>>

BindTree ==
    /\ pc["publish"] = "bind"
    /\ entry' = [seen["publish"] EXCEPT !.bound = request.tree]
    /\ Goto("publish", "place")
    /\ seen' = [seen EXCEPT !["publish"] = NoRecord]
    /\ UNCHANGED <<checkout, request, payload, slips>>

\* _place_registered_files, bundle: the registered provenance travels with the
\* tree.  replace=target.exists(): what stands there now is not in a publish's way.
Place ==
    /\ pc["publish"] = "place"
    /\ entry \in Record
    /\ payload' = [payload EXCEPT !["publish"] =
                     [tree |-> request.tree, record |-> entry, replace |-> checkout.there]]
    /\ Goto("publish", "look")
    /\ UNCHANGED <<entry, checkout, request, seen, slips>>

-----------------------------------------------------------------------------
(* materialize, for the publish and for the upload endpoint.               *)

Upload(u) ==
    /\ pc["upload"] = "idle"
    /\ slips.spent < MaxDisturbances
    /\ payload' = [payload EXCEPT !["upload"] = u]
    /\ Goto("upload", "look")
    /\ slips' = [slips EXCEPT !.spent = @ + 1]
    /\ UNCHANGED <<entry, checkout, request, seen>>

\* A mutant of Look: the archive is extracted over what is there.
LookWithoutClearing(w) ==
    /\ pc[w] = "look"
    /\ checkout.there => payload[w].replace
    /\ Goto(w, IF checkout.there THEN "before" ELSE "make")
    /\ UNCHANGED <<entry, checkout, memory, slips>>

Look(w) ==
    /\ pc[w] = "look"
    /\ checkout.there => payload[w].replace
    /\ Goto(w, IF checkout.there THEN "clear" ELSE "make")
    /\ UNCHANGED <<entry, checkout, memory, slips>>

\* shutil.rmtree, in the order the directory lists its files.
Unlink(w) ==
    /\ pc[w] = "clear"
    /\ \/ \E f \in checkout.files : checkout' = [checkout EXCEPT !.files = @ \ {f}]
       \/ /\ checkout.record # NoRecord
          /\ checkout' = [checkout EXCEPT !.record = NoRecord]
    /\ Crosses(w)
    /\ UNCHANGED <<entry, pc, memory>>

RemoveDirectory(w) ==
    /\ pc[w] = "clear"
    /\ checkout.there /\ checkout.files = {} /\ checkout.record = NoRecord
    /\ checkout' = NoCheckout
    /\ Goto(w, "make")
    /\ Crosses(w)
    /\ UNCHANGED <<entry, memory>>

MakeDirectory(w) ==
    /\ pc[w] = "make"
    /\ ~checkout.there
    /\ checkout' = [checkout EXCEPT !.there = TRUE]
    /\ Goto(w, "before")
    /\ IF pc[Other(w)] \in InDirectory THEN Crosses(w)
       ELSE slips' = [slips EXCEPT !.checkout = {}]
    /\ UNCHANGED <<entry, memory>>

PastItsLook ==
    pc["publish"] \in {"stamp", "bind", "place", "render"} \cup Placing

\* extractall makes the directory again where somebody removed it meanwhile.
ExtractFiles(w) ==
    LET f == <<payload[w].tree, pc[w]>> IN
    /\ pc[w] \in {"before", "after"}
    /\ checkout' = [checkout EXCEPT !.there = TRUE, !.files = @ \cup {f}]
    /\ slips' = [slips EXCEPT
                    !.checkout = @ \cup Crossing(w),
                    !.strays = @ \cup (IF w = "upload" /\ PastItsLook THEN {f} ELSE {})]
    /\ \/ pc[w] = "before" /\ Goto(w, "provenance") /\ UNCHANGED memory
       \/ pc[w] = "after" /\ w = "upload" /\ Ends(w)
       \/ pc[w] = "after" /\ w = "publish" /\ Goto(w, "render")
          /\ payload' = [payload EXCEPT ![w] = NoPayload]
          /\ UNCHANGED <<request, seen>>
    /\ UNCHANGED entry

ExtractProvenance(w) ==
    /\ pc[w] = "provenance"
    /\ checkout' = IF payload[w].record = NoRecord THEN checkout
                   ELSE [checkout EXCEPT !.there = TRUE, !.record = payload[w].record]
    /\ Goto(w, "after")
    /\ slips' = [slips EXCEPT !.checkout =
                    @ \cup Crossing(w) \cup (IF w = "publish" THEN slips.entry ELSE {})]
    /\ UNCHANGED <<entry, memory>>

Materialize(w) ==
    \/ Look(w) \/ Unlink(w) \/ RemoveDirectory(w) \/ MakeDirectory(w)
    \/ ExtractFiles(w) \/ ExtractProvenance(w)

-----------------------------------------------------------------------------
(* The rest of a publish, the refresh command, and failure.                *)

\* LocalEngine builds what the checkout holds; then the GitOps engine installs it
\* (module GitOpsEngine).
Render ==
    /\ pc["publish"] = "render"
    /\ Goto("publish", "install")
    /\ UNCHANGED <<entry, checkout, memory, slips>>

Install ==
    /\ pc["publish"] = "install"
    /\ Ends("publish")
    /\ Looks
    /\ UNCHANGED <<entry, checkout>>

\* A mutant of Refresh: the new record keeps the tree_sha of the old one.
RefreshKeepingTree(t) ==
    /\ pc["refresh"] = "idle"
    /\ slips.spent < MaxDisturbances
    /\ entry \in Record
    /\ SameSource(t, entry.of)
    /\ seen' = [seen EXCEPT !["refresh"] = [of |-> t, bound |-> entry.bound]]
    /\ Goto("refresh", "write")
    /\ slips' = [slips EXCEPT !.spent = @ + 1]
    /\ UNCHANGED <<entry, checkout, request, payload>>

\* AppRegistry.refresh: repository and path are kept, the commit is the new one.
Refresh(t) ==
    /\ pc["refresh"] = "idle"
    /\ slips.spent < MaxDisturbances
    /\ entry \in Record
    /\ SameSource(t, entry.of)
    /\ seen' = [seen EXCEPT !["refresh"] = [of |-> t, bound |-> NoTree]]
    /\ Goto("refresh", "write")
    /\ slips' = [slips EXCEPT !.spent = @ + 1]
    /\ UNCHANGED <<entry, checkout, request, payload>>

\* Which stages of a publish count on the entry: those that have decided on it and will
\* read it again, and those that go on with what they have read.
WriteRefreshed ==
    /\ pc["refresh"] = "write"
    /\ entry' = seen["refresh"]
    /\ slips' = [slips EXCEPT !.entry =
                    IF pc["publish"] \in {"send", "stamp", "place"} THEN @ \cup {"refreshed"}
                    ELSE IF pc["publish"] \in {"bind"} \cup Placing THEN @ ELSE {}]
    /\ Ends("refresh")
    /\ UNCHANGED checkout

\* A mutant of Fail: the writer stays where it is although its workspace is gone.
FailInPlace(w) ==
    /\ pc[w] # "idle"
    /\ payload' = [payload EXCEPT ![w] = NoPayload]
    /\ UNCHANGED <<entry, checkout, pc, request, seen, slips>>

\* A refusal, an error or the end of the process: nothing is rolled back.
Fail(w) ==
    /\ pc[w] # "idle"
    /\ slips.spent < MaxDisturbances
    /\ Ends(w)
    /\ slips' = [slips EXCEPT
                    !.spent = @ + 1,
                    !.checkout = @ \cup Tearing(w),
                    !.strays = IF w = "publish" THEN {} ELSE @]
    /\ UNCHANGED <<entry, checkout>>

Next ==
    \/ \E q \in Request : Publish(q)
    \/ RegisterSkipped \/ Register \/ WriteManifest \/ WriteRecord
    \/ SendSkipped \/ Send \/ ReadRecord \/ BindTree \/ Place
    \/ \E w \in {"publish", "upload"} : Materialize(w)
    \/ Render \/ Install
    \/ \E u \in Uploads : Upload(u)
    \/ \E t \in Trees : Refresh(t)
    \/ WriteRefreshed
    \/ \E w \in Writer : Fail(w)

Spec == Init /\ [][Next]_vars
-----------------------------------------------------------------------------
(* What is checked.                                                        *)

TypeOK ==
    /\ entry \in Record \cup {Bare, Missing}
    /\ checkout \in [there : BOOLEAN, files : SUBSET File,
                     record : Record \cup {NoRecord}]
    /\ checkout.there \/ checkout = NoCheckout
    /\ pc \in [Writer -> Stage]
    /\ request \in Request \cup {NoRequest}
    /\ pc["publish"] # "idle" => request \in Request
    /\ payload \in [Writer -> Payload \cup {NoPayload}]
    /\ \A w \in Writer : pc[w] \in Placing => payload[w] \in Payload
    /\ seen \in [Writer -> Record \cup {NoRecord}]
    /\ slips \in History

\* A tree_sha in the registry or in the checkout is the hash of a tree of the commit
\* recorded with it, through any failures and any uploads: it is what a later publish
\* trusts to skip its send.  It is the tree of the recorded path too, unless a publish
\* found the commit recorded under another path and left that.  All of it unless a
\* refresh wrote the entry between two looks of a publish: stamp_tree takes what it reads
\* for what register left.
TreeBindsCommit ==
    \A place \in {"entry", "checkout"} :
        LET record == IF place = "entry" THEN entry ELSE checkout.record IN
        record \in Record /\ record.bound # NoTree /\ "refreshed" \notin slips[place] =>
            /\ record.bound.commit = record.of.commit
            /\ "elsewhere" \notin slips[place] => record.bound = record.of

\* A publish that did not ask to replace removes no file of the checkout that came
\* from another repository or path (_require_overwrite_sanctioned), but those that were
\* uploaded since it looked, and what a record misnames: one that a refresh or another
\* path got into, or of a checkout that two writers were in at once.
OverwriteSanctioned ==
    [][/\ pc["publish"] = "clear" /\ ~request.replace
       /\ slips'.checkout \cap {"refreshed", "elsewhere", "crossed"} = {}
       => \A f \in checkout.files \ (checkout'.files \cup slips.strays) :
             SameSource(f[1], request.tree)]_vars

\* What a publish renders is of the commit it was asked for, and of its path where the
\* registry binds that tree, whatever earlier publishes, uploads and failures left in the
\* checkout: but for files uploaded since it looked.  And it is the whole of a tree, also
\* after a skipped send, unless a writer stopped in the checkout or is in it now.
BuildsTheTree ==
    pc["publish"] = "render" /\ "crossed" \notin slips.checkout =>
        /\ \A f \in checkout.files \ slips.strays :
              /\ "refreshed" \notin slips.checkout => f[1].commit = request.tree.commit
              /\ entry \in Record /\ entry.bound = request.tree => f[1] = request.tree
        /\ "torn" \notin slips.checkout /\ pc["upload"] \notin InDirectory \cup {"make"} =>
              \E t \in Trees : checkout.files = Whole(t)

-----------------------------------------------------------------------------
(* What comments of the code say and the code does not do.                 *)

\* ops/publish.py: provenance records which commit is materialized, "so a re-run
\* skips what genuinely happened": what is rendered is the whole tree.
BuildsWhatWasPublished ==
    pc["publish"] = "render" => checkout.files = Whole(request.tree)
=============================================================================
