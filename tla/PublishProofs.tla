--------------------------- MODULE PublishProofs ---------------------------
(***************************************************************************)
(* Proofs about PublishPipeline for any set of trees and uploads, with a   *)
(* publish, an upload and a refresh going on beside one another and        *)
(* stopping anywhere.                                                      *)
(*                                                                         *)
(* The properties are consequences of what the stages of a writer have     *)
(* established about the entry (EntryInv), about what is being placed      *)
(* (PayloadInv), about the record in the checkout (RecordInv) and about the*)
(* files there (FilesInv), each as far as no slip that the code leaves open*)
(* has undone it.                                                          *)
(***************************************************************************)
EXTENDS PublishPipeline, TLAPS

\* Each writer is at a stage of its own program.
Programs ==
    /\ pc["refresh"] \in {"idle", "write"}
    /\ pc["upload"] \in {"idle"} \cup Placing
    /\ pc["publish"] # "write"

\* What holds whatever overlaps.
TypeInv ==
    /\ TypeOK /\ Programs
    /\ pc["publish"] = "bind" => seen["publish"] \in Record
    /\ pc["refresh"] = "write" => seen["refresh"] \in Record

\* One tree stands for the other: they are of one commit, and the same if no publish
\* has left a commit under another path.
Agree(t, u, slip) == t.commit = u.commit /\ ("elsewhere" \notin slip => t = u)

Binds(record, slip) ==
    record \in Record /\ record.bound # NoTree /\ "refreshed" \notin slip
        => Agree(record.bound, record.of, slip)

\* The record is of what the publish was asked for.
Requested(record, slip) ==
    "refreshed" \notin slip => record \in Record /\ Agree(record.of, request.tree, slip)

EntryInv ==
    /\ Binds(entry, slips.entry)
    /\ pc["publish"] \in {"send", "stamp", "place"} => Requested(entry, slips.entry)
    /\ pc["publish"] = "bind" => Requested(seen["publish"], slips.entry)
    /\ pc["publish"] = "place" /\ entry \in Record => entry.bound \in {request.tree, NoTree}
    /\ pc["refresh"] = "write" => seen["refresh"].bound = NoTree

Fits(p) == p.record # NoRecord => p.record.bound \in {p.tree, NoTree}

PayloadInv ==
    /\ \A w \in {"publish", "upload"} : pc[w] \in Placing => Fits(payload[w])
    /\ pc["upload"] \in Placing /\ payload["upload"].record # NoRecord
          => payload["upload"].record.of = payload["upload"].tree
    /\ pc["publish"] \in Placing =>
          /\ payload["publish"].tree = request.tree
          /\ Requested(payload["publish"].record, slips.entry)

RecordInv == Binds(checkout.record, slips.checkout)

\* The checkout shows nothing of these.
Clean == slips.checkout \cap {"refreshed", "elsewhere"} = {}

\* What a record says of the files beside it.
Recorded ==
    checkout.record # NoRecord =>
        /\ checkout.record.bound # NoTree => checkout.files \subseteq Whole(checkout.record.bound)
        /\ Clean => checkout.files \subseteq Whole(checkout.record.of)

\* How far a writer in the directory has come.
Extracted(w) ==
    /\ pc[w] = "before" => checkout.files = {} /\ checkout.record = NoRecord
    /\ pc[w] = "provenance" =>
          checkout.files = {<<payload[w].tree, "before">>} /\ checkout.record = NoRecord
    /\ pc[w] = "after" =>
          /\ checkout.files = {<<payload[w].tree, "before">>}
          /\ checkout.record = payload[w].record
          /\ Clean /\ checkout.record # NoRecord => checkout.record.of = payload[w].tree

\* What a publish that looked at the checkout may still clear, and what it renders.
Clearable ==
    pc["publish"] \in {"stamp", "bind", "place", "look", "clear"} /\ ~request.replace /\ Clean =>
        \A f \in checkout.files \ slips.strays : SameSource(f[1], request.tree)

Rendered ==
    pc["publish"] = "render" => \A f \in checkout.files \ slips.strays :
        /\ "refreshed" \notin slips.checkout => f[1].commit = request.tree.commit
        /\ entry \in Record /\ entry.bound = request.tree => f[1] = request.tree

FilesInv ==
    "crossed" \notin slips.checkout =>
        /\ Recorded
        /\ \A w \in {"publish", "upload"} : Extracted(w)
        /\ Clearable
        /\ Rendered

\* When nobody is in the directory it holds a whole tree, and a render finds one.
WholeInv ==
    "crossed" \notin slips.checkout /\ "torn" \notin slips.checkout =>
        /\ checkout.there /\ (\A w \in {"publish", "upload"} : pc[w] \notin InDirectory)
              => \E t \in Trees : checkout.files = Whole(t)
        /\ pc["publish"] = "render" => checkout.there \/ pc["upload"] = "make"

IInv == TypeInv /\ EntryInv /\ PayloadInv /\ RecordInv /\ FilesInv /\ WholeInv

USE DEF Writer, Stage, Placing, Goto, memory

-----------------------------------------------------------------------------
LEMMA Markers ==
    /\ Missing \notin Record /\ Bare \notin Record /\ NoRecord \notin Record
    /\ NoRequest \notin Request /\ NoPayload \notin Payload /\ NoTree \notin Trees
  BY MarkersAssumption

LEMMA RecordFields ==
    ASSUME NEW r \in Record
    PROVE  r.of \in Trees /\ r.bound \in Trees \cup {NoTree}
  BY DEF Record

LEMMA RequestFields ==
    ASSUME TypeOK, pc["publish"] # "idle"
    PROVE  request.tree \in Trees /\ request.replace \in BOOLEAN
  BY DEF TypeOK, Request

LEMMA PayloadFields ==
    ASSUME NEW u \in Payload
    PROVE  u.tree \in Trees /\ u.record \in Record \cup {NoRecord}
  BY DEF Payload

-----------------------------------------------------------------------------
(* Type correctness.                                                       *)

LEMMA TypeInit == Init => TypeInv
  BY BoundAssumption DEF Init, TypeInv, TypeOK, Programs, NoCheckout, NoSlips, File, History

LEMMA SlipsNext == TypeInv /\ [Next]_vars => slips' \in History
<1> SUFFICES ASSUME TypeInv, [Next]_vars PROVE slips' \in History
  OBVIOUS
<1>1. slips \in History /\ MaxDisturbances \in Nat
  BY BoundAssumption DEF TypeInv, TypeOK
<1> USE <1>1 DEF History, Slip
<1>2. CASE \/ \E q \in Request : Publish(q)
           \/ RegisterSkipped \/ Register \/ WriteManifest \/ WriteRecord
           \/ SendSkipped \/ Send \/ ReadRecord \/ BindTree \/ Place
           \/ Render \/ Install
  BY <1>2 DEF Publish, RegisterSkipped, Register, WriteManifest, WriteRecord, SendSkipped,
              Send, ReadRecord, BindTree, Place, Render, Install, Looks
<1>3. ASSUME NEW w \in {"publish", "upload"}, Materialize(w) PROVE slips' \in History
  <2>0. Crossing(w) \subseteq Slip
    BY DEF Crossing
  <2> HIDE DEF Slip
  <2>9. ASSUME Crosses(w) PROVE slips' \in History
    BY <2>0, <2>9 DEF Crosses
  <2> USE <1>3
  <2>1. CASE Look(w)
    BY <2>1 DEF Look
  <2>2. CASE Unlink(w)
    BY <2>2, <2>9 DEF Unlink
  <2>3. CASE RemoveDirectory(w)
    BY <2>3, <2>9 DEF RemoveDirectory
  <2>4. CASE MakeDirectory(w)
    BY <2>4, <2>9 DEF MakeDirectory
  <2>5. CASE ExtractFiles(w)
    <3>1. <<payload[w].tree, pc[w]>> \in File
      BY <2>5, PayloadFields DEF ExtractFiles, File, Part, TypeInv, TypeOK
    <3> QED
      BY <2>0, <2>5, <3>1 DEF ExtractFiles
  <2>6. CASE ExtractProvenance(w)
    BY <2>0, <2>6 DEF ExtractProvenance
  <2> QED
    BY <2>1, <2>2, <2>3, <2>4, <2>5, <2>6 DEF Materialize
<1>4. ASSUME NEW u \in Uploads, Upload(u) PROVE slips' \in History
  BY <1>4 DEF Upload
<1>5. ASSUME NEW t \in Trees, Refresh(t) PROVE slips' \in History
  BY <1>5 DEF Refresh
<1>6. CASE WriteRefreshed
  BY <1>6 DEF WriteRefreshed
<1>7. ASSUME NEW w \in Writer, Fail(w) PROVE slips' \in History
  <2>1. Tearing(w) \subseteq Slip
    BY DEF Tearing
  <2>2. slips.spent \in 0..MaxDisturbances /\ slips.spent < MaxDisturbances
    BY <1>7 DEF Fail
  <2>3. slips.spent + 1 \in 0..MaxDisturbances
    BY <2>2
  <2> HIDE DEF Slip
  <2> QED
    BY <1>7, <2>1, <2>3 DEF Fail
<1>8. CASE UNCHANGED vars
  BY <1>8 DEF vars
<1> QED
  BY <1>2, <1>3, <1>4, <1>5, <1>6, <1>7, <1>8 DEF Next

\* A writer that ends forgets what it knew, and nothing else moves.
LEMMA EndsType ==
    ASSUME TypeInv, NEW w \in Writer, Ends(w),
           entry' \in Record \cup {Bare, Missing},
           checkout' \in [there : BOOLEAN, files : SUBSET File,
                          record : Record \cup {NoRecord}],
           checkout'.there \/ checkout' = NoCheckout,
           slips' \in History
    PROVE  TypeInv'
  BY DEF TypeInv, TypeOK, Programs, Ends

LEMMA TypeStages ==
    ASSUME TypeInv, slips' \in History,
           \/ \E q \in Request : Publish(q)
           \/ RegisterSkipped \/ Register \/ WriteManifest \/ WriteRecord
           \/ SendSkipped \/ Send \/ ReadRecord \/ BindTree \/ Place
           \/ Render \/ Install
    PROVE  TypeInv'
<1> USE DEF TypeInv, TypeOK, Programs
<1>1. ASSUME NEW q \in Request, Publish(q) PROVE TypeInv'
  BY <1>1 DEF Publish
<1>2. CASE RegisterSkipped \/ Register \/ SendSkipped \/ Send \/ Render
  BY <1>2 DEF RegisterSkipped, Register, SendSkipped, Send, Render
<1>3. CASE WriteManifest
  BY <1>3 DEF WriteManifest
<1>4. CASE WriteRecord
  BY <1>4, RequestFields DEF WriteRecord, Record
<1>5. CASE ReadRecord
  BY <1>5 DEF ReadRecord
<1>6. CASE BindTree
  BY <1>6, RequestFields DEF BindTree, Record
<1>7. CASE Place
  BY <1>7, RequestFields DEF Place, Payload
<1>8. CASE Install
  BY <1>8, EndsType DEF Install
<1> QED
  BY <1>1, <1>2, <1>3, <1>4, <1>5, <1>6, <1>7, <1>8

LEMMA TypeMaterialize ==
    ASSUME TypeInv, NEW w \in {"publish", "upload"}, Materialize(w), slips' \in History
    PROVE  TypeInv'
<1> USE DEF TypeInv, TypeOK, Programs
<1>1. CASE Look(w)
  BY <1>1 DEF Look
<1>2. CASE Unlink(w)
  BY <1>2 DEF Unlink, NoCheckout
<1>3. CASE RemoveDirectory(w)
  BY <1>3 DEF RemoveDirectory, NoCheckout
<1>4. CASE MakeDirectory(w)
  BY <1>4 DEF MakeDirectory
<1>5. CASE ExtractFiles(w)
  <2>1. <<payload[w].tree, pc[w]>> \in File
    BY <1>5, PayloadFields DEF ExtractFiles, File, Part
  <2>2. /\ checkout' \in [there : BOOLEAN, files : SUBSET File,
                          record : Record \cup {NoRecord}]
        /\ checkout'.there
    BY <1>5, <2>1 DEF ExtractFiles
  <2> QED
    BY <1>5, <2>2, EndsType DEF ExtractFiles
<1>6. CASE ExtractProvenance(w)
  BY <1>6, PayloadFields DEF ExtractProvenance
<1> QED
  BY <1>1, <1>2, <1>3, <1>4, <1>5, <1>6 DEF Materialize

LEMMA TypeNext == TypeInv /\ [Next]_vars => TypeInv'
<1> SUFFICES ASSUME TypeInv, [Next]_vars PROVE TypeInv'
  OBVIOUS
<1>0. slips' \in History
  BY SlipsNext
<1> USE <1>0 DEF TypeInv, TypeOK, Programs
<1>1. ASSUME NEW u \in Uploads, Upload(u) PROVE TypeInv'
  BY <1>1, UploadsAssumption DEF Upload
<1>2. ASSUME NEW t \in Trees, Refresh(t) PROVE TypeInv'
  BY <1>2 DEF Refresh, Record
<1>3. CASE WriteRefreshed
  BY <1>3, EndsType DEF WriteRefreshed
<1>4. ASSUME NEW w \in Writer, Fail(w) PROVE TypeInv'
  BY <1>4, EndsType DEF Fail
<1>5. CASE UNCHANGED vars
  BY <1>5 DEF vars
<1> QED
  BY <1>1, <1>2, <1>3, <1>4, <1>5, TypeStages, TypeMaterialize DEF Next

\* The directories and the writers' memory are always of the kinds the code
\* writes, whatever overlaps and wherever a writer stops.
THEOREM TypeCorrect == Spec => []TypeOK
<1>1. TypeInv => TypeOK
  BY DEF TypeInv
<1> QED
  BY <1>1, TypeInit, TypeNext, PTL DEF Spec

-----------------------------------------------------------------------------
(* The entry.                                                              *)

\* A step that leaves the entry and its slips alone, and brings no writer to a stage
\* that counts on them.
LEMMA EntryFrame ==
    ASSUME EntryInv,
           entry' = entry, slips'.entry = slips.entry,
           pc'["publish"] \in {"send", "stamp", "bind", "place"} =>
              pc'["publish"] = pc["publish"] /\ request' = request
              /\ seen'["publish"] = seen["publish"],
           pc'["refresh"] = "write" =>
              pc["refresh"] = "write" /\ seen'["refresh"] = seen["refresh"]
    PROVE  EntryInv'
  BY DEF EntryInv, Binds, Requested, Agree

LEMMA EntryStages ==
    ASSUME TypeInv, EntryInv, TypeInv',
           \/ \E q \in Request : Publish(q)
           \/ RegisterSkipped \/ Register \/ WriteManifest \/ WriteRecord
           \/ SendSkipped \/ Send \/ ReadRecord \/ BindTree \/ Place
           \/ Render \/ Install
    PROVE  EntryInv'
<1> USE DEF TypeInv, TypeOK, History
<1>1. ASSUME NEW q \in Request, Publish(q) PROVE EntryInv'
  BY <1>1, EntryFrame DEF Publish
<1>2. CASE Register \/ Place \/ Render
  BY <1>2, EntryFrame DEF Register, Place, Render
<1>3. CASE SendSkipped
  BY <1>3, EntryFrame DEF SendSkipped, Looks
<1>4. CASE Install
  BY <1>4, EntryFrame DEF Install, Looks, Ends
<1>5. CASE RegisterSkipped
  <2>1. /\ entry' = entry /\ entry \in Record /\ request' = request /\ seen' = seen
        /\ entry.of.commit = request.tree.commit
        /\ slips'.entry = slips.entry \cup
              (IF entry.of = request.tree THEN {} ELSE {"elsewhere"})
        /\ pc'["publish"] = "send" /\ pc'["refresh"] = pc["refresh"]
    BY <1>5 DEF RegisterSkipped
  <2>2. Binds(entry, slips.entry)'
    BY <2>1 DEF EntryInv, Binds, Agree
  <2>3. Requested(entry, slips.entry)'
    BY <2>1 DEF Requested, Agree
  <2> QED
    BY <2>1, <2>2, <2>3 DEF EntryInv
<1>6. CASE WriteManifest
  <2>1. entry' = entry \/ entry' = Bare
    BY <1>6 DEF WriteManifest
  <2> QED
    BY <1>6, <2>1, Markers DEF WriteManifest, EntryInv, Binds
<1>7. CASE WriteRecord
  <2>1. entry' \in Record /\ entry'.of = request.tree /\ entry'.bound = NoTree
    BY <1>7, RequestFields DEF WriteRecord, Record
  <2> QED
    BY <1>7, <2>1 DEF WriteRecord, EntryInv, Binds, Requested, Agree
<1>8. CASE Send
  BY <1>8 DEF Send, Looks, EntryInv, Binds, Requested, Agree
<1>9. CASE ReadRecord
  BY <1>9 DEF ReadRecord, EntryInv, Binds, Requested, Agree
<1>10. CASE BindTree
  <2>1. request.tree \in Trees
    BY <1>10, RequestFields DEF BindTree
  <2>2. /\ entry' \in Record /\ entry'.of = seen["publish"].of
        /\ entry'.bound = request.tree
    BY <1>10, <2>1 DEF BindTree, Record
  <2> QED
    BY <1>10, <2>2 DEF BindTree, EntryInv, Binds, Requested, Agree
<1> QED
  BY <1>1, <1>2, <1>3, <1>4, <1>5, <1>6, <1>7, <1>8, <1>9, <1>10

\* No step in the checkout touches the entry.
LEMMA EntryMaterialize ==
    ASSUME TypeInv, EntryInv, NEW w \in {"publish", "upload"}, Materialize(w)
    PROVE  EntryInv'
<1> USE DEF TypeInv, TypeOK, History
<1>1. CASE Look(w)
  BY <1>1, EntryFrame DEF Look
<1>2. CASE Unlink(w)
  BY <1>2, EntryFrame DEF Unlink, Crosses
<1>3. CASE RemoveDirectory(w)
  BY <1>3, EntryFrame DEF RemoveDirectory, Crosses
<1>4. CASE MakeDirectory(w)
  BY <1>4, EntryFrame DEF MakeDirectory, Crosses
<1>5. CASE ExtractFiles(w)
  BY <1>5, EntryFrame DEF ExtractFiles, Ends
<1>6. CASE ExtractProvenance(w)
  BY <1>6, EntryFrame DEF ExtractProvenance
<1> QED
  BY <1>1, <1>2, <1>3, <1>4, <1>5, <1>6 DEF Materialize

LEMMA EntryNext == TypeInv /\ EntryInv /\ [Next]_vars => EntryInv'
<1> SUFFICES ASSUME TypeInv, EntryInv, [Next]_vars PROVE EntryInv'
  OBVIOUS
<1>0. TypeInv'
  BY TypeNext
<1> USE <1>0 DEF TypeInv, TypeOK, History
<1>1. ASSUME NEW u \in Uploads, Upload(u) PROVE EntryInv'
  BY <1>1, EntryFrame DEF Upload
<1>2. ASSUME NEW t \in Trees, Refresh(t) PROVE EntryInv'
  BY <1>2 DEF Refresh, EntryInv, Binds, Requested, Agree
<1>3. CASE WriteRefreshed
  BY <1>3 DEF WriteRefreshed, Ends, EntryInv, Binds, Requested, Agree
<1>4. ASSUME NEW w \in Writer, Fail(w) PROVE EntryInv'
  BY <1>4, EntryFrame DEF Fail, Ends
<1>5. CASE UNCHANGED vars
  BY <1>5, EntryFrame DEF vars
<1> QED
  BY <1>1, <1>2, <1>3, <1>4, <1>5, EntryStages, EntryMaterialize DEF Next

-----------------------------------------------------------------------------
(* What is being placed, and the record in the checkout.                   *)

LEMMA PayloadFrame ==
    ASSUME PayloadInv,
           \A w \in {"publish", "upload"} : pc'[w] \in Placing =>
              pc[w] \in Placing /\ payload'[w] = payload[w],
           pc'["publish"] \in Placing => request' = request /\ slips'.entry = slips.entry
    PROVE  PayloadInv'
  BY DEF PayloadInv, Fits, Requested, Agree

LEMMA PayloadStages ==
    ASSUME TypeInv, EntryInv, PayloadInv,
           \/ \E q \in Request : Publish(q)
           \/ RegisterSkipped \/ Register \/ WriteManifest \/ WriteRecord
           \/ SendSkipped \/ Send \/ ReadRecord \/ BindTree \/ Place
           \/ Render \/ Install
    PROVE  PayloadInv'
<1> USE DEF TypeInv, TypeOK
<1>1. CASE \/ \E q \in Request : Publish(q)
           \/ RegisterSkipped \/ Register \/ WriteManifest \/ WriteRecord
           \/ SendSkipped \/ Send \/ ReadRecord \/ BindTree \/ Render
  BY <1>1, PayloadFrame
  DEF Publish, RegisterSkipped, Register, WriteManifest, WriteRecord, SendSkipped, Send,
      ReadRecord, BindTree, Render
<1>2. CASE Install
  BY <1>2, PayloadFrame DEF Install, Ends
<1>3. CASE Place
  <2>1. /\ payload'["publish"].tree = request.tree
        /\ payload'["publish"].record = entry
        /\ payload'["upload"] = payload["upload"]
        /\ pc'["upload"] = pc["upload"]
        /\ request' = request /\ slips' = slips
    BY <1>3 DEF Place
  <2>2. /\ Requested(entry, slips.entry)
        /\ entry.bound \in {request.tree, NoTree}
    BY <1>3 DEF Place, EntryInv
  <2> QED
    BY <2>1, <2>2 DEF PayloadInv, Fits, Requested, Agree
<1> QED
  BY <1>1, <1>2, <1>3

LEMMA PayloadMaterialize ==
    ASSUME TypeInv, PayloadInv, NEW w \in {"publish", "upload"}, Materialize(w)
    PROVE  PayloadInv'
<1> USE DEF TypeInv, TypeOK, History
<1>1. CASE Look(w)
  BY <1>1, PayloadFrame DEF Look
<1>2. CASE Unlink(w)
  BY <1>2, PayloadFrame DEF Unlink, Crosses
<1>3. CASE RemoveDirectory(w)
  BY <1>3, PayloadFrame DEF RemoveDirectory, Crosses
<1>4. CASE MakeDirectory(w)
  BY <1>4, PayloadFrame DEF MakeDirectory, Crosses
<1>5. CASE ExtractFiles(w)
  BY <1>5, PayloadFrame DEF ExtractFiles, Ends
<1>6. CASE ExtractProvenance(w)
  BY <1>6, PayloadFrame DEF ExtractProvenance
<1> QED
  BY <1>1, <1>2, <1>3, <1>4, <1>5, <1>6 DEF Materialize

LEMMA PayloadNext == TypeInv /\ EntryInv /\ PayloadInv /\ [Next]_vars => PayloadInv'
<1> SUFFICES ASSUME TypeInv, EntryInv, PayloadInv, [Next]_vars PROVE PayloadInv'
  OBVIOUS
<1> USE DEF TypeInv, TypeOK, History
<1>1. ASSUME NEW u \in Uploads, Upload(u) PROVE PayloadInv'
  <2>1. u.record # NoRecord => u.record.of = u.tree /\ u.record.bound \in {u.tree, NoTree}
    BY UploadsAssumption
  <2> QED
    BY <1>1, <2>1 DEF Upload, PayloadInv, Fits, Requested, Agree
<1>2. ASSUME NEW t \in Trees, Refresh(t) PROVE PayloadInv'
  BY <1>2, PayloadFrame DEF Refresh
<1>3. CASE WriteRefreshed
  BY <1>3, PayloadFrame DEF WriteRefreshed, Ends
<1>4. ASSUME NEW w \in Writer, Fail(w) PROVE PayloadInv'
  BY <1>4, PayloadFrame DEF Fail, Ends
<1>5. CASE UNCHANGED vars
  BY <1>5, PayloadFrame DEF vars
<1> QED
  BY <1>1, <1>2, <1>3, <1>4, <1>5, PayloadStages, PayloadMaterialize DEF Next

\* A step that writes no record into the checkout, and keeps its slips unless there is
\* none.
LEMMA RecordFrame ==
    ASSUME RecordInv, checkout'.record \in {checkout.record, NoRecord},
           slips.checkout \subseteq slips'.checkout \/ checkout'.record = NoRecord
    PROVE  RecordInv'
  BY Markers DEF RecordInv, Binds, Agree

LEMMA RecordMaterialize ==
    ASSUME TypeInv, PayloadInv, RecordInv,
           NEW w \in {"publish", "upload"}, Materialize(w)
    PROVE  RecordInv'
<1> USE DEF TypeInv, TypeOK, History
<1>1. CASE Look(w)
  BY <1>1, RecordFrame DEF Look
<1>2. CASE Unlink(w)
  BY <1>2, RecordFrame DEF Unlink, Crosses
<1>3. CASE RemoveDirectory(w)
  BY <1>3, RecordFrame DEF RemoveDirectory, Crosses, NoCheckout
<1>4. CASE MakeDirectory(w)
  BY <1>4, RecordFrame DEF MakeDirectory, NoCheckout
<1>5. CASE ExtractFiles(w)
  BY <1>5, RecordFrame DEF ExtractFiles
<1>6. CASE ExtractProvenance(w)
  <2>1. slips.checkout \subseteq slips'.checkout
        /\ (w = "publish" => slips.entry \subseteq slips'.checkout)
    BY <1>6 DEF ExtractProvenance
  <2>2. CASE payload[w].record = NoRecord
    BY <1>6, <2>1, <2>2, RecordFrame DEF ExtractProvenance
  <2>3. CASE payload[w].record # NoRecord
    <3>1. /\ checkout'.record = payload[w].record
          /\ checkout'.record.bound \in {payload[w].tree, NoTree}
      BY <1>6, <2>3 DEF ExtractProvenance, PayloadInv, Fits
    <3>2. CASE w = "upload"
      BY <1>6, <2>3, <3>1, <3>2 DEF ExtractProvenance, PayloadInv, RecordInv, Binds, Agree
    <3>3. CASE w = "publish"
      <4>1. payload[w].tree = request.tree /\ Requested(payload[w].record, slips.entry)
        BY <1>6, <3>3 DEF ExtractProvenance, PayloadInv
      <4> QED
        BY <2>1, <3>1, <3>3, <4>1 DEF RecordInv, Binds, Requested, Agree
    <3> QED
      BY <3>2, <3>3
  <2> QED
    BY <2>2, <2>3
<1> QED
  BY <1>1, <1>2, <1>3, <1>4, <1>5, <1>6 DEF Materialize

\* Nothing but materialize touches the checkout, and of its slips only a stop adds one.
LEMMA Outside ==
    ASSUME TypeInv, [Next]_vars, ~ \E w \in {"publish", "upload"} : Materialize(w)
    PROVE  /\ checkout' = checkout
           /\ slips.checkout \subseteq slips'.checkout
           /\ slips'.checkout \subseteq slips.checkout \cup {"torn"}
<1> USE DEF TypeInv, TypeOK, History
<1>1. CASE \/ \E q \in Request : Publish(q)
           \/ RegisterSkipped \/ Register \/ WriteManifest \/ WriteRecord
           \/ SendSkipped \/ Send \/ ReadRecord \/ BindTree \/ Place
           \/ Render \/ Install
  BY <1>1 DEF Publish, RegisterSkipped, Register, WriteManifest, WriteRecord, SendSkipped,
              Send, ReadRecord, BindTree, Place, Render, Install, Looks
<1>2. ASSUME NEW u \in Uploads, Upload(u)
      PROVE  checkout' = checkout /\ slips'.checkout = slips.checkout
  BY <1>2 DEF Upload
<1>3. ASSUME NEW t \in Trees, Refresh(t)
      PROVE  checkout' = checkout /\ slips'.checkout = slips.checkout
  BY <1>3 DEF Refresh
<1>4. CASE WriteRefreshed
  BY <1>4 DEF WriteRefreshed
<1>5. ASSUME NEW w \in Writer, Fail(w)
      PROVE  checkout' = checkout /\ slips'.checkout = slips.checkout \cup Tearing(w)
  BY <1>5 DEF Fail
<1>6. \A w \in Writer : Tearing(w) \subseteq {"torn"}
  BY DEF Tearing
<1>7. CASE UNCHANGED vars
  BY <1>7 DEF vars
<1> QED
  BY <1>1, <1>2, <1>3, <1>4, <1>5, <1>6, <1>7 DEF Next

LEMMA RecordNext == TypeInv /\ PayloadInv /\ RecordInv /\ [Next]_vars => RecordInv'
<1> SUFFICES ASSUME TypeInv, PayloadInv, RecordInv, [Next]_vars PROVE RecordInv'
  OBVIOUS
<1>1. CASE \E w \in {"publish", "upload"} : Materialize(w)
  BY <1>1, RecordMaterialize
<1>2. CASE ~ \E w \in {"publish", "upload"} : Materialize(w)
  BY <1>2, Outside, RecordFrame
<1> QED
  BY <1>1, <1>2

-----------------------------------------------------------------------------
(* The files in the checkout.                                              *)

FilesKnown ==
    Recorded /\ (\A w \in {"publish", "upload"} : Extracted(w)) /\ Clearable /\ Rendered

\* The checkout stays as it is, and no writer gets on in it.
LEMMA FilesFrame ==
    ASSUME Recorded, \A w \in {"publish", "upload"} : Extracted(w),
           checkout' = checkout, slips.checkout \subseteq slips'.checkout,
           \A w \in {"publish", "upload"} : pc'[w] \in {"before", "provenance", "after"} =>
              pc'[w] = pc[w] /\ payload'[w] = payload[w]
    PROVE  Recorded' /\ \A w \in {"publish", "upload"} : Extracted(w)'
<1>1. Clean' => Clean
  BY DEF Clean
<1>2. Recorded'
  BY <1>1 DEF Recorded, Whole
<1>3. ASSUME NEW w \in {"publish", "upload"} PROVE Extracted(w)'
  BY <1>1, <1>3 DEF Extracted
<1> QED
  BY <1>2, <1>3

\* Nor does the publish get on, and no file turns up that was not uploaded.
LEMMA StrayFrame ==
    ASSUME Clearable, Rendered,
           checkout'.files \ slips'.strays \subseteq checkout.files \ slips.strays,
           slips.checkout \subseteq slips'.checkout \/ checkout'.files = {},
           entry' = entry, request' = request,
           pc'["publish"] \in {"stamp", "bind", "place", "look", "clear"} =>
              pc["publish"] \in {"stamp", "bind", "place", "look", "clear"},
           pc'["publish"] = "render" => pc["publish"] = "render"
    PROVE  Clearable' /\ Rendered'
<1>1. Clearable'
  BY DEF Clearable, Clean
<1>2. Rendered'
  BY DEF Rendered
<1> QED
  BY <1>1, <1>2

LEMMA FilesStages ==
    ASSUME TypeInv, RecordInv, FilesKnown, "crossed" \notin slips.checkout,
           \/ \E q \in Request : Publish(q)
           \/ RegisterSkipped \/ Register \/ WriteManifest \/ WriteRecord
           \/ SendSkipped \/ Send \/ ReadRecord \/ BindTree \/ Place
           \/ Render \/ Install
    PROVE  FilesKnown'
<1> USE DEF TypeInv, TypeOK, History
<1>1. Recorded' /\ \A w \in {"publish", "upload"} : Extracted(w)'
  <2>1. /\ checkout' = checkout /\ slips.checkout \subseteq slips'.checkout
        /\ \A w \in {"publish", "upload"} : pc'[w] \in {"before", "provenance", "after"} =>
              pc'[w] = pc[w] /\ payload'[w] = payload[w]
    <3>1. CASE Install
      BY <3>1 DEF Install, Ends, Looks
    <3> QED
      BY <3>1 DEF Publish, RegisterSkipped, Register, WriteManifest, WriteRecord,
                  SendSkipped, Send, ReadRecord, BindTree, Place, Render, Looks
  <2> QED
    BY <2>1, FilesFrame DEF FilesKnown
<1>2. CASE \/ \E q \in Request : Publish(q)
           \/ RegisterSkipped \/ Register \/ WriteManifest \/ WriteRecord
           \/ Render \/ Install
  <2>1. pc'["publish"] \in {"register", "send", "overwrite", "claim", "record", "install",
                            "idle"}
    BY <1>2 DEF Publish, RegisterSkipped, Register, WriteManifest, WriteRecord, Render,
                Install, Ends
  <2> QED
    BY <1>1, <2>1 DEF FilesKnown, Clearable, Rendered
<1>3. CASE SendSkipped
  <2>1. /\ checkout.record \in Record /\ checkout.record.of.commit = request.tree.commit
        /\ checkout.record.bound \in Trees /\ checkout.record.bound = entry.bound
        /\ checkout.record.bound # NoTree
    BY <1>3, RecordFields DEF SendSkipped, AlreadySent
  <2>2. checkout.files \subseteq Whole(checkout.record.bound)
    BY <2>1, Markers DEF FilesKnown, Recorded
  <2>3. \A f \in checkout.files : f[1] = checkout.record.bound
    BY <2>2 DEF Whole
  <2>4. "refreshed" \notin slips.checkout =>
           checkout.record.bound.commit = request.tree.commit
    BY <2>1 DEF RecordInv, Binds, Agree
  <2>5. Rendered'
    BY <1>3, <2>1, <2>3, <2>4 DEF SendSkipped, Looks, Rendered
  <2> QED
    BY <1>1, <1>3, <2>5 DEF SendSkipped, FilesKnown, Clearable
<1>4. CASE Send
  <2>1. ~request.replace /\ Clean =>
           \A f \in checkout.files : SameSource(f[1], request.tree)
    <3> SUFFICES ASSUME ~request.replace, Clean, NEW f \in checkout.files
                 PROVE  SameSource(f[1], request.tree)
      OBVIOUS
    <3>1. checkout.there
      BY DEF NoCheckout
    <3>2. checkout.record # NoRecord /\ SameSource(checkout.record.of, request.tree)
      BY <1>4, <3>1 DEF Send, Sanctioned
    <3>3. f[1] = checkout.record.of
      BY <3>2 DEF FilesKnown, Recorded, Whole
    <3> QED
      BY <3>2, <3>3
  <2>2. /\ checkout' = checkout /\ slips'.checkout = slips.checkout
        /\ request' = request /\ pc'["publish"] = "stamp"
    BY <1>4 DEF Send, Looks
  <2>3. Clearable'
    BY <2>1, <2>2 DEF Clearable, Clean
  <2> QED
    BY <1>1, <2>2, <2>3 DEF FilesKnown, Rendered
<1>5. CASE ReadRecord \/ Place
  BY <1>1, <1>5, StrayFrame DEF ReadRecord, Place, FilesKnown
<1>6. CASE BindTree
  <2>1. /\ pc["publish"] = "bind" /\ pc'["publish"] = "place"
        /\ checkout' = checkout /\ slips' = slips /\ request' = request
    BY <1>6 DEF BindTree
  <2>2. Clearable'
    BY <2>1 DEF FilesKnown, Clearable, Clean
  <2> QED
    BY <1>1, <2>1, <2>2 DEF FilesKnown, Rendered
<1> QED
  BY <1>2, <1>3, <1>4, <1>5, <1>6

\* A step in the directory that crosses nobody: the other writer is outside.
LEMMA FilesMaterialize ==
    ASSUME TypeInv, PayloadInv, FilesInv, NEW w \in {"publish", "upload"}, Materialize(w),
           "crossed" \notin slips'.checkout
    PROVE  FilesKnown'
<1> USE DEF TypeInv, TypeOK, History
<1> DEFINE v == Other(w)
<1>0. v \in {"publish", "upload"} /\ v # w /\ \A x \in {"publish", "upload"} : x = v \/ x = w
  BY DEF Other
<1>1. CASE Look(w)
  <2>1. /\ checkout' = checkout /\ slips' = slips /\ entry' = entry /\ request' = request
        /\ payload' = payload
        /\ pc[w] = "look" /\ pc' = [pc EXCEPT ![w] = pc'[w]] /\ pc'[w] \in {"clear", "make"}
    BY <1>1 DEF Look
  <2>2. FilesKnown
    BY <2>1 DEF FilesInv, FilesKnown
  <2>3. Recorded' /\ \A x \in {"publish", "upload"} : Extracted(x)'
    BY <2>1, <2>2, FilesFrame DEF FilesKnown
  <2>4. Clearable' /\ Rendered'
    BY <2>1, <2>2, StrayFrame DEF FilesKnown
  <2> QED
    BY <2>3, <2>4 DEF FilesKnown
<1>2. CASE MakeDirectory(w)
  <2>1. /\ checkout'.files = {} /\ checkout'.record = NoRecord
        /\ pc'[w] = "before" /\ pc'[v] = pc[v]
    BY <1>0, <1>2 DEF MakeDirectory, NoCheckout
  <2>2. pc[v] \notin InDirectory
    <3> SUFFICES ASSUME pc[v] \in InDirectory PROVE FALSE
      OBVIOUS
    <3>1. Crosses(w) /\ Crossing(w) = {"crossed"}
      BY <1>2 DEF MakeDirectory, Crossing
    <3> QED
      BY <3>1 DEF Crosses
  <2>3. pc'[v] \notin {"before", "provenance", "after"}
    BY <2>1, <2>2 DEF InDirectory
  <2>4. \A x \in {"publish", "upload"} : Extracted(x)'
    BY <1>0, <2>1, <2>3 DEF Extracted
  <2> QED
    BY <2>1, <2>4 DEF FilesKnown, Recorded, Clearable, Rendered
<1>3. ASSUME Unlink(w) \/ RemoveDirectory(w) \/ ExtractFiles(w) \/ ExtractProvenance(w)
      PROVE  /\ FilesKnown /\ slips.checkout \subseteq slips'.checkout
             /\ pc[v] \notin InDirectory /\ pc'[v] = pc[v]
  <2>1. slips.checkout \cup Crossing(w) \subseteq slips'.checkout /\ pc'[v] = pc[v]
    <3>1. CASE Unlink(w)
      BY <3>1 DEF Unlink, Crosses
    <3>2. CASE RemoveDirectory(w)
      BY <1>0, <3>2 DEF RemoveDirectory, Crosses
    <3>3. CASE ExtractFiles(w)
      BY <1>0, <3>3 DEF ExtractFiles, Ends
    <3>4. CASE ExtractProvenance(w)
      BY <1>0, <3>4 DEF ExtractProvenance
    <3> QED
      BY <1>3, <3>1, <3>2, <3>3, <3>4
  <2>2. "crossed" \notin slips.checkout /\ "crossed" \notin Crossing(w)
    BY <2>1
  <2> QED
    BY <2>1, <2>2 DEF Crossing, FilesInv, FilesKnown
<1>4. CASE Unlink(w)
  <2>1. /\ checkout'.files \subseteq checkout.files
        /\ checkout'.record \in {checkout.record, NoRecord}
        /\ checkout'.files \ slips'.strays \subseteq checkout.files \ slips.strays
        /\ entry' = entry /\ request' = request /\ pc' = pc /\ pc[w] = "clear"
    BY <1>4 DEF Unlink, Crosses
  <2>2. Recorded'
    BY <1>3, <1>4, <2>1 DEF FilesKnown, Recorded, Clean
  <2>3. \A x \in {"publish", "upload"} : Extracted(x)'
    BY <1>0, <1>3, <1>4, <2>1 DEF Extracted, InDirectory
  <2>4. Clearable' /\ Rendered'
    BY <1>3, <1>4, <2>1, StrayFrame DEF FilesKnown
  <2> QED
    BY <2>2, <2>3, <2>4 DEF FilesKnown
<1>5. CASE RemoveDirectory(w)
  <2>1. /\ checkout'.files = {} /\ checkout'.record = NoRecord
        /\ pc'[w] = "make"
    BY <1>5 DEF RemoveDirectory, NoCheckout
  <2>2. \A x \in {"publish", "upload"} : Extracted(x)'
    BY <1>0, <1>3, <1>5, <2>1 DEF Extracted, InDirectory
  <2> QED
    BY <2>1, <2>2 DEF FilesKnown, Recorded, Clearable, Rendered
<1>6. CASE ExtractFiles(w)
  <2> DEFINE f == <<payload[w].tree, pc[w]>>
  <2>1. /\ checkout'.files = checkout.files \cup {f} /\ checkout'.record = checkout.record
        /\ pc[w] \in {"before", "after"} /\ payload[w] \in Payload
        /\ pc[w] = "before" => pc'[w] = "provenance" /\ payload' = payload
        /\ pc[w] = "after" => pc'[w] \in {"idle", "render"}
        /\ entry' = entry
    BY <1>6 DEF ExtractFiles, Ends
  <2>2. f \in Whole(payload[w].tree) /\ f[1] = payload[w].tree
    BY <2>1 DEF Whole, Part
  <2>3. /\ pc[w] = "before" => checkout.files = {} /\ checkout.record = NoRecord
        /\ pc[w] = "after" => /\ checkout.files = {<<payload[w].tree, "before">>}
                              /\ checkout.record = payload[w].record
                              /\ Clean /\ checkout.record # NoRecord
                                    => checkout.record.of = payload[w].tree
    BY <1>3, <1>6 DEF FilesKnown, Extracted
  <2>4. Recorded'
    <3>1. CASE pc[w] = "before"
      BY <2>1, <2>3, <3>1 DEF Recorded
    <3>2. CASE pc[w] = "after"
      <4>1. checkout'.files \subseteq Whole(payload[w].tree)
        BY <2>1, <2>2, <2>3, <3>2 DEF Whole, Part
      <4>2. checkout.record # NoRecord =>
               checkout.record.bound \in {payload[w].tree, NoTree}
        BY <1>6, <2>3, <3>2 DEF PayloadInv, Fits
      <4>3. Clean' => Clean
        BY <1>3, <1>6 DEF Clean
      <4> QED
        BY <2>1, <2>3, <3>2, <4>1, <4>2, <4>3 DEF Recorded
    <3> QED
      BY <2>1, <3>1, <3>2
  <2>5. \A x \in {"publish", "upload"} : Extracted(x)'
    <3>1. Extracted(v)'
      BY <1>3, <1>6 DEF Extracted, InDirectory
    <3>2. Extracted(w)'
      BY <2>1, <2>3 DEF Extracted
    <3> QED
      BY <1>0, <3>1, <3>2
  <2>6. CASE w = "upload"
    <3>1. /\ request' = request /\ pc'["publish"] = pc["publish"]
          /\ PastItsLook => slips'.strays = slips.strays \cup {f}
          /\ slips.strays \subseteq slips'.strays
      BY <1>6, <2>6 DEF ExtractFiles, Ends
    <3>2. CASE PastItsLook
      <4>1. checkout'.files \ slips'.strays \subseteq checkout.files \ slips.strays
        BY <2>1, <3>1, <3>2
      <4>2. Clearable' /\ Rendered'
        BY <1>3, <1>6, <2>1, <3>1, <4>1, StrayFrame DEF FilesKnown
      <4> QED
        BY <2>4, <2>5, <4>2 DEF FilesKnown
    <3>3. CASE ~PastItsLook
      BY <2>4, <2>5, <3>1, <3>3 DEF PastItsLook, FilesKnown, Clearable, Rendered
    <3> QED
      BY <3>2, <3>3
  <2>7. CASE w = "publish"
    <3>1. payload[w].tree = request.tree
      BY <1>6, <2>1, <2>7 DEF PayloadInv
    <3>2. request' = request /\ pc'["publish"] \in {"provenance", "render"}
          /\ (pc'["publish"] = "render" => pc[w] = "after")
      BY <1>6, <2>7 DEF ExtractFiles
    <3>3. pc'["publish"] = "render" => \A g \in checkout'.files : g[1] = request.tree
      BY <2>1, <2>2, <2>3, <3>1, <3>2
    <3>4. Clearable' /\ Rendered'
      BY <3>2, <3>3 DEF Clearable, Rendered
    <3> QED
      BY <2>4, <2>5, <3>4 DEF FilesKnown
  <2> QED
    BY <2>6, <2>7
<1>7. CASE ExtractProvenance(w)
  <2>1. /\ checkout'.files = checkout.files
        /\ checkout'.record = IF payload[w].record = NoRecord THEN checkout.record
                              ELSE payload[w].record
        /\ pc[w] = "provenance" /\ pc'[w] = "after" /\ payload' = payload
        /\ entry' = entry /\ request' = request /\ slips'.strays = slips.strays
        /\ w = "publish" => slips.entry \subseteq slips'.checkout
    BY <1>7 DEF ExtractProvenance
  <2>2. checkout.files = {<<payload[w].tree, "before">>} /\ checkout.record = NoRecord
    BY <1>3, <1>7, <2>1 DEF FilesKnown, Extracted
  <2>3. checkout'.files \subseteq Whole(payload[w].tree)
    BY <2>1, <2>2 DEF Whole, Part
  <2>4. checkout'.record = payload[w].record
    BY <2>1, <2>2
  <2>5. checkout'.record # NoRecord =>
           checkout'.record.bound \in {payload[w].tree, NoTree}
    BY <2>1, <2>4 DEF PayloadInv, Fits
  <2>6. Clean' /\ checkout'.record # NoRecord => checkout'.record.of = payload[w].tree
    <3>1. CASE w = "upload"
      BY <2>1, <2>4, <3>1 DEF PayloadInv
    <3>2. CASE w = "publish"
      BY <2>1, <2>4, <3>2 DEF PayloadInv, Requested, Agree, Clean
    <3> QED
      BY <3>1, <3>2
  <2>7. Recorded'
    BY <2>3, <2>5, <2>6 DEF Recorded
  <2>8. \A x \in {"publish", "upload"} : Extracted(x)'
    <3>1. Extracted(v)'
      BY <1>3, <1>7 DEF Extracted, InDirectory
    <3>2. Extracted(w)'
      BY <2>1, <2>2, <2>4, <2>6 DEF Extracted
    <3> QED
      BY <1>0, <3>1, <3>2
  <2>9. /\ pc'["publish"] \in {"stamp", "bind", "place", "look", "clear"} =>
              pc["publish"] \in {"stamp", "bind", "place", "look", "clear"}
        /\ pc'["publish"] = "render" => pc["publish"] = "render"
    BY <1>7 DEF ExtractProvenance
  <2>10. Clearable' /\ Rendered'
    BY <1>3, <1>7, <2>1, <2>9, StrayFrame DEF FilesKnown
  <2> QED
    BY <2>7, <2>8, <2>10 DEF FilesKnown
<1> QED
  BY <1>1, <1>2, <1>4, <1>5, <1>6, <1>7 DEF Materialize

LEMMA FilesNext ==
    TypeInv /\ EntryInv /\ PayloadInv /\ RecordInv /\ FilesInv /\ [Next]_vars => FilesInv'
<1> SUFFICES ASSUME TypeInv, EntryInv, PayloadInv, RecordInv, FilesInv, [Next]_vars,
                    "crossed" \notin slips'.checkout
             PROVE  FilesKnown'
  BY DEF FilesInv, FilesKnown
<1>1. CASE \E w \in {"publish", "upload"} : Materialize(w)
  BY <1>1, FilesMaterialize
<1>2. CASE ~ \E w \in {"publish", "upload"} : Materialize(w)
  <2>1. /\ checkout' = checkout /\ slips.checkout \subseteq slips'.checkout
        /\ FilesKnown /\ "crossed" \notin slips.checkout
    BY <1>2, Outside DEF FilesInv, FilesKnown
  <2>2. CASE \/ \E q \in Request : Publish(q)
             \/ RegisterSkipped \/ Register \/ WriteManifest \/ WriteRecord
             \/ SendSkipped \/ Send \/ ReadRecord \/ BindTree \/ Place
             \/ Render \/ Install
    BY <2>1, <2>2, FilesStages
  <2> USE DEF TypeInv, TypeOK, History
  <2>3. ASSUME NEW u \in Uploads, Upload(u) PROVE FilesKnown'
    BY <2>1, <2>3, FilesFrame, StrayFrame DEF Upload, FilesKnown
  <2>4. ASSUME NEW t \in Trees, Refresh(t) PROVE FilesKnown'
    BY <2>1, <2>4, FilesFrame, StrayFrame DEF Refresh, FilesKnown
  <2>5. CASE WriteRefreshed
    <3>1. /\ pc'["publish"] = pc["publish"] /\ pc'["upload"] = pc["upload"]
          /\ payload'["publish"] = payload["publish"] /\ payload'["upload"] = payload["upload"]
          /\ request' = request /\ slips'.strays = slips.strays
          /\ slips'.checkout = slips.checkout
          /\ entry'.bound = NoTree
      BY <2>5 DEF WriteRefreshed, Ends, EntryInv
    <3>2. Recorded' /\ \A w \in {"publish", "upload"} : Extracted(w)'
      BY <2>1, <3>1, FilesFrame DEF FilesKnown
    <3>3. Clearable'
      BY <2>1, <3>1 DEF FilesKnown, Clearable, Clean
    <3>4. Rendered'
      BY <2>1, <3>1, Markers, RequestFields DEF FilesKnown, Rendered
    <3> QED
      BY <3>2, <3>3, <3>4 DEF FilesKnown
  <2>6. ASSUME NEW w \in Writer, Fail(w) PROVE FilesKnown'
    <3>1. /\ entry' = entry
          /\ \A x \in {"publish", "upload"} : x # w => pc'[x] = pc[x] /\ payload'[x] = payload[x]
          /\ pc'[w] = "idle"
          /\ w # "publish" => request' = request /\ slips'.strays = slips.strays
      BY <2>6 DEF Fail, Ends
    <3>2. Recorded' /\ \A x \in {"publish", "upload"} : Extracted(x)'
      BY <2>1, <3>1, FilesFrame DEF FilesKnown
    <3>3. CASE w = "publish"
      BY <3>1, <3>2, <3>3 DEF FilesKnown, Clearable, Rendered
    <3>4. CASE w # "publish"
      <4>1. Clearable' /\ Rendered'
        BY <2>1, <3>1, <3>4, StrayFrame DEF FilesKnown
      <4> QED
        BY <3>2, <4>1 DEF FilesKnown
    <3> QED
      BY <3>3, <3>4
  <2>7. CASE UNCHANGED vars
    BY <2>1, <2>7, FilesFrame, StrayFrame DEF vars, FilesKnown
  <2> QED
    BY <1>2, <2>2, <2>3, <2>4, <2>5, <2>6, <2>7 DEF Next
<1> QED
  BY <1>1, <1>2

-----------------------------------------------------------------------------
(* When the checkout is whole.                                             *)

Outsiders == \A w \in {"publish", "upload"} : pc[w] \notin InDirectory

LEMMA WholeMaterialize ==
    ASSUME TypeInv, PayloadInv, FilesInv, FilesInv', WholeInv,
           NEW w \in {"publish", "upload"}, Materialize(w)
    PROVE  WholeInv'
<1> USE DEF TypeInv, TypeOK, History
<1> SUFFICES ASSUME "crossed" \notin slips'.checkout, "torn" \notin slips'.checkout
             PROVE  /\ checkout'.there /\ Outsiders'
                          => \E t \in Trees : checkout'.files = Whole(t)
                    /\ pc'["publish"] = "render" => checkout'.there \/ pc'["upload"] = "make"
  BY DEF WholeInv, Outsiders
<1> DEFINE v == Other(w)
<1>0. v \in {"publish", "upload"} /\ v # w /\ \A x \in {"publish", "upload"} : x = v \/ x = w
  BY DEF Other
<1>1. CASE Look(w)
  <2>1. /\ checkout' = checkout /\ slips' = slips /\ pc[w] = "look"
        /\ pc' = [pc EXCEPT ![w] = IF checkout.there THEN "clear" ELSE "make"]
    BY <1>1 DEF Look
  <2>2. checkout.there => ~Outsiders'
    BY <2>1 DEF Outsiders, InDirectory
  <2>3. pc'["publish"] = "render" => pc["publish"] = "render" /\ w = "upload"
    BY <2>1
  <2> QED
    BY <2>1, <2>2, <2>3 DEF WholeInv
<1>2. CASE MakeDirectory(w)
  BY <1>2 DEF MakeDirectory, Outsiders, InDirectory
<1>3. CASE Unlink(w)
  <2>1. /\ pc' = pc /\ pc[w] = "clear" /\ checkout'.there = checkout.there
        /\ slips.checkout \subseteq slips'.checkout
    BY <1>3 DEF Unlink, Crosses
  <2> QED
    BY <2>1 DEF WholeInv, Outsiders, InDirectory
<1>4. CASE RemoveDirectory(w)
  BY <1>4 DEF RemoveDirectory, NoCheckout
<1>5. CASE ExtractFiles(w)
  <2>1. checkout'.there /\ pc[w] \in {"before", "after"} /\ payload[w].tree \in Trees
    BY <1>5, PayloadFields DEF ExtractFiles
  <2>2. CASE pc[w] = "before"
    <3>1. pc'[w] = "provenance"
      BY <1>5, <2>2 DEF ExtractFiles
    <3> QED
      BY <2>1, <3>1 DEF Outsiders, InDirectory
  <2>3. CASE pc[w] = "after"
    <3>1. "crossed" \notin slips.checkout
          /\ checkout'.files = checkout.files \cup {<<payload[w].tree, "after">>}
      BY <1>5, <2>3 DEF ExtractFiles
    <3>2. checkout.files = {<<payload[w].tree, "before">>}
      BY <2>3, <3>1 DEF FilesInv, Extracted
    <3>3. checkout'.files = Whole(payload[w].tree)
      BY <3>1, <3>2 DEF Whole, Part
    <3> QED
      BY <2>1, <3>3
  <2> QED
    BY <2>1, <2>2, <2>3
<1>6. CASE ExtractProvenance(w)
  <2>1. /\ pc'[w] = "after" /\ pc[w] = "provenance"
        /\ checkout.there => checkout'.there
        /\ slips.checkout \subseteq slips'.checkout
        /\ pc'["publish"] = "render" => pc["publish"] = "render" /\ w = "upload"
    BY <1>6 DEF ExtractProvenance
  <2> QED
    BY <2>1 DEF WholeInv, Outsiders, InDirectory
<1> QED
  BY <1>1, <1>2, <1>3, <1>4, <1>5, <1>6 DEF Materialize

LEMMA WholeNext ==
    TypeInv /\ PayloadInv /\ FilesInv /\ FilesInv' /\ WholeInv /\ [Next]_vars => WholeInv'
<1> SUFFICES ASSUME TypeInv, PayloadInv, FilesInv, FilesInv', WholeInv, [Next]_vars
             PROVE  WholeInv'
  OBVIOUS
<1>1. CASE \E w \in {"publish", "upload"} : Materialize(w)
  BY <1>1, WholeMaterialize
<1>2. CASE ~ \E w \in {"publish", "upload"} : Materialize(w)
  <2> SUFFICES ASSUME "crossed" \notin slips'.checkout, "torn" \notin slips'.checkout
               PROVE  /\ checkout'.there /\ Outsiders'
                            => \E t \in Trees : checkout'.files = Whole(t)
                      /\ pc'["publish"] = "render" => checkout'.there \/ pc'["upload"] = "make"
    BY DEF WholeInv, Outsiders
  <2>1. /\ checkout' = checkout
        /\ "crossed" \notin slips.checkout /\ "torn" \notin slips.checkout
    BY <1>2, Outside
  <2>2. /\ Outsiders' => Outsiders
        /\ pc'["publish"] = "render" => pc["publish"] = "render" \/ SendSkipped
        /\ pc["upload"] = "make" => pc'["upload"] = "make" \/ checkout.there
    <3> USE DEF TypeInv, TypeOK, History, Outsiders, InDirectory
    <3>1. CASE \/ \E q \in Request : Publish(q)
               \/ RegisterSkipped \/ Register \/ WriteManifest \/ WriteRecord
               \/ SendSkipped \/ Send \/ ReadRecord \/ BindTree \/ Place
               \/ Render
      BY <3>1 DEF Publish, RegisterSkipped, Register, WriteManifest, WriteRecord,
                  SendSkipped, Send, ReadRecord, BindTree, Place, Render, Looks
    <3>2. CASE Install
      BY <3>2 DEF Install, Ends
    <3>3. ASSUME NEW u \in Uploads, Upload(u)
          PROVE  /\ Outsiders' => Outsiders
                 /\ pc'["publish"] = "render" => pc["publish"] = "render"
                 /\ pc["upload"] # "make"
      BY <3>3 DEF Upload
    <3>4. ASSUME NEW t \in Trees, Refresh(t)
          PROVE  pc'["publish"] = pc["publish"] /\ pc'["upload"] = pc["upload"]
      BY <3>4 DEF Refresh
    <3>5. CASE WriteRefreshed
      BY <3>5 DEF WriteRefreshed, Ends
    <3>6. ASSUME NEW w \in Writer, Fail(w)
          PROVE  /\ Outsiders' => Outsiders
                 /\ pc'["publish"] = "render" => pc["publish"] = "render"
                 /\ pc["upload"] = "make" => pc'["upload"] = "make" \/ checkout.there
      <4>1. "torn" \notin Tearing(w) /\ pc' = [pc EXCEPT ![w] = "idle"]
        BY <3>6 DEF Fail, Ends
      <4> QED
        BY <4>1 DEF Tearing
    <3>7. CASE UNCHANGED vars
      BY <3>7 DEF vars
    <3> QED
      BY <1>2, <3>1, <3>2, <3>3, <3>4, <3>5, <3>6, <3>7 DEF Next
  <2>3. SendSkipped => checkout.there
    BY DEF SendSkipped, AlreadySent, NoCheckout, TypeInv, TypeOK
  <2> QED
    BY <2>1, <2>2, <2>3 DEF WholeInv, Outsiders
<1> QED
  BY <1>1, <1>2

-----------------------------------------------------------------------------
(* The properties.                                                         *)

LEMMA IInit == Init => IInv
  BY TypeInit, Markers
  DEF Init, IInv, EntryInv, PayloadInv, RecordInv, FilesInv, WholeInv, Binds, Recorded,
      Extracted, Clearable, Rendered, NoCheckout, NoSlips

LEMMA INext == IInv /\ [Next]_vars => IInv'
  BY TypeNext, EntryNext, PayloadNext, RecordNext, FilesNext, WholeNext DEF IInv

\* A tree_sha in the registry or in the checkout is the hash of the recorded commit's
\* tree (stamp_tree, materialize) for any trees, uploads and stops and with all writers
\* beside one another, unless a refresh came between two looks of a publish at the entry;
\* and of the recorded path, unless register left the commit under another.
THEOREM TreeIsBound == Spec => []TreeBindsCommit
<1>1. IInv => TreeBindsCommit
  BY DEF IInv, EntryInv, RecordInv, Binds, Agree, TreeBindsCommit
<1> QED
  BY <1>1, IInit, INext, PTL DEF Spec

\* What run_deploy's build finds is of the requested commit, of the requested tree where
\* the registry binds it, and whole, with all writers beside one another and whatever
\* earlier stops left, but for what the slips name: files uploaded since the publish
\* looked, two writers in the directory at once, a writer stopped in it.
THEOREM BuildsOnlyIt == Spec => []BuildsTheTree
<1>1. IInv => BuildsTheTree
  <2> SUFFICES ASSUME IInv, pc["publish"] = "render", "crossed" \notin slips.checkout
               PROVE  /\ \A f \in checkout.files \ slips.strays :
                            /\ "refreshed" \notin slips.checkout
                                  => f[1].commit = request.tree.commit
                            /\ entry \in Record /\ entry.bound = request.tree
                                  => f[1] = request.tree
                      /\ "torn" \notin slips.checkout
                            /\ pc["upload"] \notin InDirectory \cup {"make"}
                         => \E t \in Trees : checkout.files = Whole(t)
    BY DEF BuildsTheTree
  <2>1. Rendered
    BY DEF IInv, FilesInv
  <2>2. ASSUME "torn" \notin slips.checkout, pc["upload"] \notin InDirectory \cup {"make"}
        PROVE  \E t \in Trees : checkout.files = Whole(t)
    BY <2>2 DEF IInv, WholeInv, InDirectory
  <2> QED
    BY <2>1, <2>2 DEF Rendered
<1> QED
  BY <1>1, IInit, INext, PTL DEF Spec

\* A publish that did not ask to replace clears nothing of another source
\* (_require_overwrite_sanctioned), with all writers beside one another, but what was
\* uploaded since it looked and what a record misnames.
THEOREM NothingForeignCleared == Spec => OverwriteSanctioned
<1> DEFINE Sanction ==
      pc["publish"] = "clear" /\ ~request.replace
      /\ slips'.checkout \cap {"refreshed", "elsewhere", "crossed"} = {}
      => \A f \in checkout.files \ (checkout'.files \cup slips.strays) :
            SameSource(f[1], request.tree)
<1>1. IInv /\ [Next]_vars => [Sanction]_vars
  <2> SUFFICES ASSUME IInv, [Next]_vars, pc["publish"] = "clear", ~request.replace,
                      slips'.checkout \cap {"refreshed", "elsewhere", "crossed"} = {},
                      NEW f \in checkout.files \ (checkout'.files \cup slips.strays)
               PROVE  SameSource(f[1], request.tree)
    OBVIOUS
  <2> USE DEF IInv, TypeInv, TypeOK, History
  <2>1. slips.checkout \subseteq slips'.checkout
    <3>1. PICK w \in {"publish", "upload"} : Materialize(w)
      BY Outside
    <3>2. CASE Look(w)
      BY <3>2 DEF Look
    <3>3. CASE Unlink(w)
      BY <3>3 DEF Unlink, Crosses
    <3>4. CASE RemoveDirectory(w)
      BY <3>4 DEF RemoveDirectory, Crosses
    <3>5. CASE MakeDirectory(w)
      BY <3>5 DEF MakeDirectory, NoCheckout
    <3>6. CASE ExtractFiles(w)
      BY <3>6 DEF ExtractFiles
    <3>7. CASE ExtractProvenance(w)
      BY <3>7 DEF ExtractProvenance
    <3> QED
      BY <3>1, <3>2, <3>3, <3>4, <3>5, <3>6, <3>7 DEF Materialize
  <2>2. Clean /\ "crossed" \notin slips.checkout
    BY <2>1 DEF Clean
  <2> QED
    BY <2>2 DEF FilesInv, Clearable
<1> QED
  BY <1>1, IInit, INext, PTL DEF Spec, OverwriteSanctioned

SendLeavesTheTree ==
    pc["publish"] = "after" /\ pc'["publish"] = "render" /\ "crossed" \notin slips'.checkout
        => checkout'.files = Whole(request.tree)

\* A send that got through (materialize after stamp_tree) leaves the whole requested tree
\* and nothing else, unless another writer was in the directory meanwhile.
THEOREM SentWhole == Spec => [][SendLeavesTheTree]_vars
<1>1. IInv /\ [Next]_vars => [SendLeavesTheTree]_vars
  <2> SUFFICES ASSUME IInv, [Next]_vars, pc["publish"] = "after",
                      pc'["publish"] = "render", "crossed" \notin slips'.checkout
               PROVE  checkout'.files = Whole(request.tree)
    BY DEF SendLeavesTheTree
  <2> USE DEF IInv, TypeInv, TypeOK, History
  <2>1. ExtractFiles("publish")
    <3>1. CASE \/ \E q \in Request : Publish(q)
               \/ RegisterSkipped \/ Register \/ WriteManifest \/ WriteRecord
               \/ SendSkipped \/ Send \/ ReadRecord \/ BindTree \/ Place
               \/ Render \/ Install
      BY <3>1 DEF Publish, RegisterSkipped, Register, WriteManifest, WriteRecord,
                  SendSkipped, Send, ReadRecord, BindTree, Place, Render, Install
    <3>2. ASSUME NEW w \in {"publish", "upload"}, Materialize(w)
          PROVE  ExtractFiles("publish")
      BY <3>2 DEF Materialize, Look, Unlink, RemoveDirectory, MakeDirectory, ExtractFiles,
                  ExtractProvenance, Ends
    <3>3. ASSUME NEW u \in Uploads, Upload(u) PROVE FALSE
      BY <3>3 DEF Upload
    <3>4. ASSUME NEW t \in Trees, Refresh(t) PROVE FALSE
      BY <3>4 DEF Refresh
    <3>5. CASE WriteRefreshed
      BY <3>5 DEF WriteRefreshed, Ends
    <3>6. ASSUME NEW w \in Writer, Fail(w) PROVE FALSE
      BY <3>6 DEF Fail, Ends
    <3>7. CASE UNCHANGED vars
      BY <3>7 DEF vars
    <3> QED
      BY <3>1, <3>2, <3>3, <3>4, <3>5, <3>6, <3>7 DEF Next
  <2>2. /\ "crossed" \notin slips.checkout
        /\ checkout'.files = checkout.files \cup {<<payload["publish"].tree, "after">>}
    BY <2>1 DEF ExtractFiles
  <2>3. checkout.files = {<<payload["publish"].tree, "before">>}
    BY <2>2 DEF FilesInv, Extracted
  <2>4. payload["publish"].tree = request.tree
    BY DEF PayloadInv
  <2> QED
    BY <2>2, <2>3, <2>4 DEF Whole, Part
<1> QED
  BY <1>1, IInit, INext, PTL DEF Spec

=============================================================================
