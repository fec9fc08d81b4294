----------------------------- MODULE AppRegistry -----------------------------
(***************************************************************************)
(* The register of applications, apps/, with all the applications in it:   *)
(* ops/app_registry.py under the register stage of a publish and under     *)
(* `vpath app add`, `refresh` and `send`, which take no lock.  An entry is *)
(* two files, each emptied before it is written; the catalog that says     *)
(* which ports are taken knows applications by the name their manifests    *)
(* declare.  A command may stop anywhere.                                  *)
(*                                                                         *)
(* What a publish goes on to do is PublishPipeline.                        *)
(***************************************************************************)
EXTENDS Integers

CONSTANTS
    Name,      \* entry directories, in the order the catalog lists them
    Port, NoPort,
    Commits,   \* what a fetch can answer: the repository and the manifest it ships
    Given,     \* what can be given for a manifest to be made from
    Command,   \* commands and publishes under way at once
    Enough,    \* bound on how many there are in all
    NoManifest, Unreadable, Absent, Nothing

VARIABLES
    apps,       \* the two files of every entry
    command,    \* what is under way
    begun,      \* how many there were
    calm,       \* history: the entry was last registered by a command alone on it
    unchecked   \* history: pairs of entries whose ports were not compared

vars == <<apps, command, begun, calm, unchecked>>

Origin == {"upstream", "generated"}
Manifest == [name : Name, port : Port \cup {NoPort}, origin : Origin]

ASSUME NamesAssumption == Name \subseteq Int /\ Absent \notin Name /\ Enough \in Nat

ASSUME CommitsAssumption ==
    \A c \in Commits : /\ DOMAIN c = {"repo", "ships"}
                       /\ c.ships \in Manifest \cup {NoManifest, Unreadable}
                       /\ c.ships \in Manifest => c.ships.origin = "upstream"

ASSUME GivenAssumption == Given \subseteq {m \in Manifest : m.origin = "generated"}

Repo == {c.repo : c \in Commits}

\* vpath-source.yaml; what a file emptied in between gives is a record of nothing.
Source == [repo : Repo \cup {Nothing}, commit : Commits \cup {Nothing}, origin : Origin,
           bound : Commits \cup {Nothing}]

ASSUME MarkersAssumption ==
    /\ {NoManifest, Unreadable, Absent} \cap Manifest = {}
    /\ {Unreadable, Absent} \cap Source = {}
    /\ NoManifest \notin {Unreadable, Absent} /\ Unreadable # Absent
    /\ Nothing \notin Commits \cup Command \cup {c.repo : c \in Commits}
    /\ NoPort \notin Port

NoRecord == [repo |-> Nothing, commit |-> Nothing, origin |-> "generated", bound |-> Nothing]

Idle == [at |-> "idle", kind |-> "add", name |-> Absent, commit |-> Nothing, replace |-> FALSE,
         text |-> Absent, source |-> NoRecord, unseen |-> {}]

Init ==
    /\ apps = [n \in Name |-> [manifest |-> Absent, source |-> Absent]]
    /\ command = [w \in Command |-> Idle] /\ begun = 0
    /\ calm = [n \in Name |-> TRUE]
    /\ unchecked = {}

-----------------------------------------------------------------------------
(* The catalog.                                                            *)

Listed == {d \in Name : apps[d].manifest \in Manifest}

\* Of two manifests that declare one name the first is shown.
Shown(d) == /\ d \in Listed
            /\ \A x \in Listed : apps[x].manifest.name = apps[d].manifest.name => d <= x

Others(n) == {d \in Name : Shown(d) /\ apps[d].manifest.name # n}

PortsInUse(n) == {apps[d].manifest.port : d \in Others(n)} \ {NoPort}

\* Entries with a manifest that the look at the ports passes over.
Missed(n) == Listed \ (Others(n) \cup {n})

-----------------------------------------------------------------------------
Active == {w \in Command : command[w].at # "idle"}

Starts(w, new) ==
    /\ command[w].at = "idle" /\ begun < Enough
    /\ begun' = begun + 1
    /\ command' = [v \in Command |->
          IF v = w THEN [new EXCEPT !.unseen = {command[u].name : u \in Active}]
          ELSE IF v \in Active THEN [command[v] EXCEPT !.unseen = @ \cup {new.name}]
          ELSE command[v]]
    /\ calm' = [n \in Name |->
          calm[n] /\ ~(n = new.name /\ \E u \in Active : command[u].name = n)]
    /\ UNCHANGED <<apps, unchecked>>

Goes(w, next) == command' = [command EXCEPT ![w] = next]
GoesTo(w, where) == Goes(w, [command[w] EXCEPT !.at = where])
Ends(w) == Goes(w, Idle)
Alone(w) == command[w].name \notin command[w].unseen

\* The manifest of a fetched tree: the repository's own, or one made from the flags; a
\* manifest nobody can read has no name to register.
Described(c, g) == IF c.ships = NoManifest THEN g ELSE c.ships

Registering(kind, c, g, replace) ==
    [Idle EXCEPT !.at = IF kind = "add" THEN "register" ELSE "look",
                 !.kind = kind, !.name = Described(c, g).name, !.commit = c,
                 !.replace = replace, !.text = Described(c, g),
                 !.source = [repo |-> c.repo, commit |-> c, bound |-> Nothing,
                             origin |-> Described(c, g).origin]]

\* vpath app add, once the repository is read.
AddStarts(w, c, g, replace) ==
    /\ c.ships # Unreadable
    /\ Starts(w, Registering("add", c, g, replace))

\* The register stage, under the lock of the application.
PublishStarts(w, c, g, replace) ==
    /\ c.ships # Unreadable
    /\ \A v \in Active :
          ~(command[v].kind = "publish" /\ command[v].name = Described(c, g).name)
    /\ Starts(w, Registering("publish", c, g, replace))

\* A record that cannot be read is one of no repository.
Recorded(n) == IF apps[n].source \in Source THEN apps[n].source ELSE NoRecord

\* The commit is recorded already, or it may not overwrite what is.
PublishLooks(w) ==
    LET me == command[w] IN
    /\ me.at = "look"
    /\ IF apps[me.name].source = Absent THEN GoesTo(w, "register")
       ELSE IF Recorded(me.name).commit # me.commit
               /\ (me.replace \/ Recorded(me.name).repo = me.commit.repo)
            THEN Goes(w, [me EXCEPT !.at = "register", !.replace = TRUE])
            ELSE Ends(w)
    /\ UNCHANGED <<apps, begun, calm, unchecked>>

RegisterLooks(w) ==
    LET me == command[w] IN
    /\ me.at = "register"
    /\ IF apps[me.name].manifest # Absent /\ ~me.replace THEN Ends(w) ELSE GoesTo(w, "port")
    /\ UNCHANGED <<apps, begun, calm, unchecked>>

\* Mutant: what is replaced keeps its port unasked.
ChecksPortOfNew(w) ==
    LET me == command[w] IN
    /\ me.at = "port"
    /\ IF ~me.replace /\ me.text.port \in PortsInUse(me.name) THEN Ends(w)
       ELSE Goes(w, [me EXCEPT !.at = "clear", !.replace = FALSE,
                               !.unseen = @ \cup Missed(me.name)])
    /\ UNCHANGED <<apps, begun, calm, unchecked>>

ChecksPort(w) ==
    LET me == command[w] IN
    /\ me.at = "port"
    /\ IF me.text.port \in PortsInUse(me.name) THEN Ends(w)
       ELSE Goes(w, [me EXCEPT !.at = "clear", !.replace = FALSE,
                               !.unseen = @ \cup Missed(me.name)])
    /\ UNCHANGED <<apps, begun, calm, unchecked>>

\* The repository that is recorded is fetched; what is recorded is read again after it.
RefreshStarts(w, n, c) ==
    /\ apps[n].source \in Source /\ apps[n].source.repo = c.repo
    /\ Starts(w, [Idle EXCEPT !.at = "reread", !.kind = "refresh", !.name = n, !.commit = c])

Rereads(w) ==
    LET me == command[w] IN
    /\ me.at = "reread"
    /\ Goes(w, [me EXCEPT !.at = "keep",
                          !.source = [Recorded(me.name) EXCEPT !.commit = me.commit,
                                                               !.bound = Nothing]])
    /\ UNCHANGED <<apps, begun, calm, unchecked>>

\* Mutant: upstream's manifest is taken and still called ours.
KeepsOrigin(w) ==
    LET me == command[w] IN
    /\ me.at = "keep"
    /\ Goes(w, [me EXCEPT !.at = "clear",
                !.text = IF me.commit.ships = NoManifest THEN apps[me.name].manifest
                         ELSE me.commit.ships])
    /\ UNCHANGED <<apps, begun, calm, unchecked>>

\* Mutant: upstream's manifest is taken without asking whether there is one.
KeepsUnasked(w) ==
    LET me == command[w] IN
    /\ me.at = "keep"
    /\ Goes(w, [me EXCEPT !.at = "clear", !.text = me.commit.ships,
                          !.source.origin = "upstream"])
    /\ UNCHANGED <<apps, begun, calm, unchecked>>

\* Upstream always wins, whatever it ships.
Keeps(w) ==
    LET me == command[w] IN
    /\ me.at = "keep"
    /\ Goes(w, IF me.commit.ships = NoManifest
               THEN [me EXCEPT !.at = "clear", !.text = apps[me.name].manifest]
               ELSE [me EXCEPT !.at = "clear", !.text = me.commit.ships,
                               !.source.origin = "upstream"])
    /\ UNCHANGED <<apps, begun, calm, unchecked>>

-----------------------------------------------------------------------------
(* Writing, which empties a file before it writes: the catalog passes over *)
(* the manifest meanwhile.                                                 *)

Clears(w) ==
    /\ command[w].at = "clear"
    /\ apps' = [apps EXCEPT ![command[w].name].manifest = Unreadable]
    /\ GoesTo(w, "text")
    /\ UNCHANGED <<begun, calm, unchecked>>

\* A registration has looked at the ports of all it has seen; a refresh at none, and
\* what it leaves as it was is what it read.
Writes(w) ==
    LET me == command[w]
        pairs(S) == {{me.name, e} : e \in S \ {me.name}} IN
    /\ me.at = "text"
    /\ apps' = [apps EXCEPT ![me.name].manifest = me.text]
    /\ unchecked' =
          IF me.kind # "refresh"
          THEN {p \in unchecked : me.name \notin p} \cup pairs(me.unseen)
          ELSE IF me.commit.ships = NoManifest /\ Alone(w) THEN unchecked
          ELSE unchecked \cup pairs(Name)
    /\ GoesTo(w, "record")
    /\ UNCHANGED <<begun, calm>>

\* That it cannot be read by the catalog is then said, and the entry stays as it was
\* written.
Records(w) ==
    LET me == command[w] IN
    /\ me.at = "record"
    /\ apps' = [apps EXCEPT ![me.name].source = me.source]
    /\ calm' = [calm EXCEPT ![me.name] = @ \/ (Alone(w) /\ me.kind \in {"add", "publish"})]
    /\ IF me.kind = "send" THEN GoesTo(w, "manifest") ELSE Ends(w)
    /\ UNCHANGED <<begun, unchecked>>

-----------------------------------------------------------------------------
(* vpath app send.                                                         *)

\* Mutant: the head of the repository is sent.
SendsHead(w, n) ==
    /\ apps[n].source \in Source
    /\ \E c \in Commits : /\ apps[n].source.repo = c.repo
                          /\ Starts(w, [Idle EXCEPT !.at = "stamp", !.kind = "send",
                                                    !.name = n, !.commit = c])

SendStarts(w, n) ==
    /\ apps[n].source \in Source
    /\ apps[n].source.commit # Nothing /\ apps[n].source.repo # Nothing
    /\ Starts(w, [Idle EXCEPT !.at = "stamp", !.kind = "send", !.name = n,
                              !.commit = apps[n].source.commit])

\* stamp_tree, after the download.
Stamps(w) ==
    LET me == command[w] IN
    /\ me.at = "stamp"
    /\ Goes(w, [me EXCEPT !.at = "record",
                          !.source = [Recorded(me.name) EXCEPT !.bound = me.commit]])
    /\ UNCHANGED <<apps, begun, calm, unchecked>>

\* The registered files go on top of the tree, one after the other.
PlacesManifest(w) ==
    LET me == command[w] IN
    /\ me.at = "manifest"
    /\ Goes(w, [me EXCEPT !.at = "provenance", !.text = apps[me.name].manifest])
    /\ UNCHANGED <<apps, begun, calm, unchecked>>

\* The file is copied as it is, and stands here for what is read of it at the other end.
PlacesProvenance(w) ==
    LET me == command[w] IN
    /\ me.at = "provenance"
    /\ Goes(w, [me EXCEPT !.at = "push", !.source = Recorded(me.name)])
    /\ UNCHANGED <<apps, begun, calm, unchecked>>

\* Accepted, refused, or not answered.
Pushes(w) ==
    /\ command[w].at = "push"
    /\ Ends(w)
    /\ UNCHANGED <<apps, begun, calm, unchecked>>

-----------------------------------------------------------------------------
\* A disk that is full, a terminal that is closed; the record may be empty by then.
Killed(w) ==
    LET me == command[w] IN
    /\ w \in Active
    /\ Ends(w)
    /\ \/ UNCHANGED apps
       \/ me.at = "record" /\ apps' = [apps EXCEPT ![me.name].source = Unreadable]
    /\ calm' = [calm EXCEPT ![me.name] = @ /\ me.at \notin {"text", "record"}]
    /\ UNCHANGED <<begun, unchecked>>

Step(w) ==
    \/ PublishLooks(w) \/ RegisterLooks(w) \/ ChecksPort(w)
    \/ Rereads(w) \/ Keeps(w)
    \/ Clears(w) \/ Writes(w) \/ Records(w)
    \/ Stamps(w) \/ PlacesManifest(w) \/ PlacesProvenance(w) \/ Pushes(w)
    \/ Killed(w)

Begins(w) ==
    \/ \E c \in Commits, g \in Given, replace \in BOOLEAN :
          AddStarts(w, c, g, replace) \/ PublishStarts(w, c, g, replace)
    \/ \E n \in Name, c \in Commits : RefreshStarts(w, n, c)
    \/ \E n \in Name : SendStarts(w, n)

Next == \E w \in Command : Begins(w) \/ Step(w)

Spec == Init /\ [][Next]_vars

-----------------------------------------------------------------------------
Text == Manifest \cup {Unreadable, Absent}

Where == {"idle", "look", "register", "port", "reread", "keep", "clear", "text",
          "record", "stamp", "manifest", "provenance", "push"}

Work == [at : Where, kind : {"add", "publish", "refresh", "send"}, name : Name \cup {Absent},
         commit : Commits \cup {Nothing}, replace : BOOLEAN, text : Text, source : Source,
         unseen : SUBSET Name]

RegistryTypeOK ==
    /\ apps \in [Name -> [manifest : Text, source : Source \cup {Unreadable, Absent}]]
    /\ command \in [Command -> Work]
    /\ begun \in 0 .. Enough
    /\ calm \in [Name -> BOOLEAN]
    /\ unchecked \subseteq SUBSET Name

\* One fetch: a commit of that repository, its manifest if it ships one, and no claim
\* that a manifest made here is the repository's.
OneFetch(text, source) ==
    /\ source.commit \in Commits /\ source.commit.repo = source.repo
    /\ source.bound \in {source.commit, Nothing}
    /\ source.commit.ships # NoManifest =>
          text = source.commit.ships /\ source.origin = "upstream"
    /\ text \in Manifest => source.origin = text.origin

Written(n) == \E w \in Active : command[w].name = n /\ command[w].at \in {"text", "record"}

\* The two files of an entry describe one fetch of one repository, through every order of
\* commands on this entry and whatever else goes on in the others.  Commands that overlap
\* on the entry, or one that was stopped while it wrote, can part them; the next
\* registration that has the entry to itself puts it right.
EntryIsOneFetch ==
    \A n \in Name : calm[n] /\ ~Written(n) =>
        \/ apps[n].source = Absent /\ apps[n].manifest = Absent
        \/ apps[n].source \in Source /\ OneFetch(apps[n].manifest, apps[n].source)

\* Two applications take one port only past the check: by a refresh, which looks at no
\* port, by commands that overlap, or where a manifest that declares another entry's name
\* hides that entry's.  No crash, replacement or broken manifest makes it happen.
SamePort(d, e) ==
    apps[d].manifest.port # NoPort /\ apps[d].manifest.port = apps[e].manifest.port

PortsApart ==
    \A d, e \in Listed : d # e /\ SamePort(d, e) => {d, e} \in unchecked

\* What the design says: a port another manifest claims is refused.
NoPortTwice == \A d, e \in Listed : d # e => ~SamePort(d, e)

\* What `send` pushes is one commit: the tree, the manifest on top of it, the record that
\* travels with it and the tree that record is bound to.
SentIsOneFetch ==
    \A w \in Command : LET me == command[w] IN
        me.at = "push" /\ Alone(w) /\ calm[me.name] =>
            /\ me.source.commit = me.commit /\ me.source.bound = me.commit
            /\ OneFetch(me.text, me.source)
=============================================================================
