-------------------------- MODULE AppRegistryProofs --------------------------
(***************************************************************************)
(* An entry describes one fetch, what is sent is one commit and a port is  *)
(* taken twice only past the check, for every set of applications, commits *)
(* and commands and every number of them.                                  *)
(*                                                                         *)
(* The argument: of two commands under way each counts as seen by the      *)
(* other, so a command that has seen none on its entry is the only one     *)
(* there; what such a command carries and what the entry holds belong to   *)
(* one fetch, and only its own last write brings the calm back.            *)
(***************************************************************************)
EXTENDS AppRegistry, TLAPS

\* Of two commands under way each has seen the other; on one entry, neither is alone.
Seen ==
    \A w, v \in Active : w # v => command[v].name \in command[w].unseen

\* A command that is not alone on its entry has ended its calm.
CalmIsAlone == \A w \in Active : calm[command[w].name] => Alone(w)

Stages ==
    \A w \in Active : LET me == command[w] IN
        /\ me.name \in Name /\ me.commit \in Commits
        /\ me.kind \in {"add", "publish"} =>
              me.at \in {"look", "register", "port", "clear", "text", "record"}
        /\ me.kind = "refresh" => me.at \in {"reread", "keep", "clear", "text", "record"}
        /\ me.kind = "send" =>
              me.at \in {"stamp", "record", "manifest", "provenance", "push"}

\* What a command that may write carries.
Carried(w) ==
    LET me == command[w] IN
    /\ me.kind \in {"add", "publish"} => OneFetch(me.text, me.source)
    /\ me.kind = "refresh" /\ me.at \in {"clear", "text", "record"} /\ calm[me.name] =>
          OneFetch(me.text, me.source)
    /\ me.kind # "send" /\ me.at = "record" /\ Alone(w) => apps[me.name].manifest = me.text

\* What a command on a calm entry holds beside what is in the entry.
Holds(w) ==
    LET me == command[w]  e == apps[me.name] IN
    /\ me.at = "reread" => e.source \in Source /\ e.source.repo = me.commit.repo
    /\ me.at = "keep" =>
          /\ me.source.commit = me.commit /\ me.source.repo = me.commit.repo
          /\ me.source.bound = Nothing
          /\ e.manifest \in Manifest => me.source.origin = e.manifest.origin
    /\ me.at = "stamp" => e.source \in Source /\ e.source.commit = me.commit
    /\ me.kind = "send" /\ me.at = "record" =>
          /\ me.source.commit = me.commit /\ me.source.bound = me.commit
          /\ OneFetch(e.manifest, me.source)
    /\ me.at \in {"manifest", "provenance", "push"} =>
          e.source \in Source /\ e.source.commit = me.commit /\ e.source.bound = me.commit
    /\ me.at \in {"provenance", "push"} => me.text = e.manifest
    /\ me.at = "push" => me.source = e.source

Steady ==
    /\ Seen /\ CalmIsAlone /\ Stages
    /\ \A w \in Active : Carried(w) /\ (calm[command[w].name] => Holds(w))
    /\ EntryIsOneFetch

-----------------------------------------------------------------------------
LEMMA IdleIsWork == NoRecord \in Source /\ Idle \in Work
BY MarkersAssumption DEF NoRecord, Source, Origin, Idle, Work, Where, Text

LEMMA FetchTypes ==
    ASSUME NEW c \in Commits, NEW g \in Given, c.ships # Unreadable
    PROVE  /\ Described(c, g) \in Manifest /\ Described(c, g).name \in Name
           /\ c.repo \in Repo /\ Described(c, g).origin \in Origin
           /\ OneFetch(Described(c, g), [repo |-> c.repo, commit |-> c, bound |-> Nothing,
                                         origin |-> Described(c, g).origin])
<1>1. Described(c, g) \in Manifest
    BY CommitsAssumption, GivenAssumption DEF Described
<1>2. c.ships # NoManifest => Described(c, g) = c.ships /\ c.ships.origin = "upstream"
    BY CommitsAssumption DEF Described
<1> QED BY <1>1, <1>2 DEF Manifest, Repo, OneFetch

LEMMA NewWork ==
    ASSUME NEW kind \in {"add", "publish"}, NEW replace \in BOOLEAN,
           NEW c \in Commits, NEW g \in Given, c.ships # Unreadable
    PROVE  Registering(kind, c, g, replace) \in Work
<1> DEFINE source == [repo |-> c.repo, commit |-> c, bound |-> Nothing,
                      origin |-> Described(c, g).origin]
<1>1. source \in Source
    BY FetchTypes DEF Source
<1> HIDE DEF source
<1>2. /\ Described(c, g) \in Text /\ Described(c, g).name \in Name \cup {Absent}
      /\ c \in Commits \cup {Nothing}
    BY FetchTypes DEF Text
<1>3. Registering(kind, c, g, replace) =
        [Idle EXCEPT !.at = IF kind = "add" THEN "register" ELSE "look",
                 !.kind = kind, !.name = Described(c, g).name, !.commit = c,
                 !.replace = replace, !.text = Described(c, g), !.source = source]
    BY DEF Registering, source
<1> QED BY <1>1, <1>2, <1>3, IdleIsWork DEF Work, Where

\* What starts changes no other command but for what that has seen.
LEMMA StartsOthers ==
    ASSUME RegistryTypeOK, NEW w \in Command, NEW new \in Work, new.name \in Name,
           Starts(w, new), NEW v \in Command
    PROVE  /\ v = w => command'[v] = [new EXCEPT !.unseen = {command[u].name : u \in Active}]
           /\ v # w /\ v \in Active =>
                 command'[v] = [command[v] EXCEPT !.unseen = @ \cup {new.name}]
           /\ v # w /\ v \notin Active => command'[v] = command[v]
BY DEF Starts

LEMMA StartsTypes ==
    ASSUME RegistryTypeOK, Stages, NEW w \in Command, NEW new \in Work, new.name \in Name,
           Starts(w, new)
    PROVE  RegistryTypeOK'
<1> DEFINE seen == {command[u].name : u \in Active}
<1>1. seen \in SUBSET Name
    BY DEF Stages
<1> HIDE DEF seen
<1>2. [new EXCEPT !.unseen = seen] \in Work
    BY <1>1 DEF Work
<1>3. ASSUME NEW v \in Command PROVE command'[v] \in Work
    <2>1. command[v] \in Work
        BY DEF RegistryTypeOK
    <2>2. [command[v] EXCEPT !.unseen = @ \cup {new.name}] \in Work
        BY <2>1 DEF Work
    <2> QED BY <1>2, <2>1, <2>2, StartsOthers DEF seen
<1>4. command' \in [Command -> Work]
    <2>1. command' = [v \in Command |-> command'[v]]
        BY DEF Starts
    <2> QED BY <1>3, <2>1
<1>5. begun' \in 0 .. Enough
    BY NamesAssumption DEF Starts, RegistryTypeOK
<1>6. calm' \in [Name -> BOOLEAN]
    BY DEF Starts, RegistryTypeOK
<1> QED BY <1>4, <1>5, <1>6 DEF RegistryTypeOK, Starts

LEMMA GoesTypes ==
    ASSUME RegistryTypeOK, NEW w \in Command, NEW next \in Work, Goes(w, next)
    PROVE  /\ command' \in [Command -> Work]
           /\ command'[w] = next
           /\ \A v \in Command : v # w => command'[v] = command[v]
BY DEF Goes, RegistryTypeOK

LEMMA EntryTypes ==
    ASSUME RegistryTypeOK, NEW n \in Name
    PROVE  /\ apps[n].manifest \in Text /\ apps[n].source \in Source \cup {Unreadable, Absent}
           /\ Recorded(n) \in Source
BY IdleIsWork DEF RegistryTypeOK, Recorded

\* One step of a command under way keeps the types.
LEMMA StepTypes ==
    ASSUME RegistryTypeOK, Stages, NEW w \in Command, Step(w)
    PROVE  RegistryTypeOK'
<1> DEFINE me == command[w]
<1>1. me \in Work
    BY DEF RegistryTypeOK
<1>2. w \in Active
    BY DEF Step, PublishLooks, RegisterLooks, ChecksPort, Rereads, Keeps, Clears, Writes,
           Records, Stamps, PlacesManifest, PlacesProvenance, Pushes, Killed, Active
<1>3. me.name \in Name /\ me.commit \in Commits
    BY <1>2 DEF Stages
<1>4. /\ me.commit.ships \in Text \cup {NoManifest}
      /\ apps[me.name].manifest \in Text /\ Recorded(me.name) \in Source
    BY <1>3, EntryTypes, CommitsAssumption DEF Text
<1>5. ASSUME NEW where \in Where PROVE [me EXCEPT !.at = where] \in Work
    BY <1>1 DEF Work
<1>6. ASSUME NEW next \in Work, Goes(w, next), UNCHANGED <<apps, begun, calm, unchecked>>
      PROVE  RegistryTypeOK'
    BY <1>6, GoesTypes DEF RegistryTypeOK
<1>7. CASE PublishLooks(w) \/ RegisterLooks(w) \/ Pushes(w)
    <2>1. [me EXCEPT !.at = "register", !.replace = TRUE] \in Work
        BY <1>1 DEF Work, Where
    <2> QED BY <1>5, <1>6, <1>7, <2>1, IdleIsWork
            DEF PublishLooks, RegisterLooks, Pushes, GoesTo, Ends, Where
<1>8. CASE ChecksPort(w)
    <2>1. [me EXCEPT !.at = "clear", !.replace = FALSE,
                     !.unseen = @ \cup Missed(me.name)] \in Work
        BY <1>1 DEF Work, Where, Missed, Listed
    <2> QED BY <1>6, <1>8, <2>1, IdleIsWork DEF ChecksPort, Ends
<1>9. CASE Rereads(w)
    <2>1. [Recorded(me.name) EXCEPT !.commit = me.commit, !.bound = Nothing] \in Source
        BY <1>3, <1>4 DEF Source
    <2>2. [me EXCEPT !.at = "keep",
                     !.source = [Recorded(me.name) EXCEPT !.commit = me.commit,
                                                          !.bound = Nothing]] \in Work
        BY <1>1, <2>1 DEF Work, Where
    <2> QED BY <1>6, <1>9, <2>2 DEF Rereads
<1>10. CASE Keeps(w)
    <2>1. [me EXCEPT !.at = "clear", !.text = apps[me.name].manifest] \in Work
        BY <1>1, <1>4 DEF Work, Where
    <2>2. [me.source EXCEPT !.origin = "upstream"] \in Source
        BY <1>1 DEF Work, Source, Origin
    <2>3. me.commit.ships # NoManifest =>
             [me EXCEPT !.at = "clear", !.text = me.commit.ships,
                        !.source.origin = "upstream"] \in Work
        BY <1>1, <1>4, <2>2 DEF Work, Where
    <2> QED BY <1>6, <1>10, <2>1, <2>3 DEF Keeps
<1>11. CASE Clears(w)
    <2>1. apps' \in [Name -> [manifest : Text, source : Source \cup {Unreadable, Absent}]]
        BY <1>3, <1>11 DEF Clears, RegistryTypeOK, Text
    <2> QED BY <1>5, <1>11, <2>1, GoesTypes DEF Clears, GoesTo, RegistryTypeOK, Where
<1>12. CASE Writes(w)
    <2>1. apps' \in [Name -> [manifest : Text, source : Source \cup {Unreadable, Absent}]]
        BY <1>1, <1>3, <1>12 DEF Writes, RegistryTypeOK, Work
    <2>2. ASSUME NEW S \in SUBSET Name
          PROVE  {{me.name, e} : e \in S \ {me.name}} \subseteq SUBSET Name
        BY <1>3
    <2>3. unchecked' \subseteq SUBSET Name
        <3>1. me.unseen \in SUBSET Name
            BY <1>1 DEF Work
        <3> QED BY <1>12, <2>2, <3>1 DEF Writes, RegistryTypeOK
    <2> QED BY <1>5, <1>12, <2>1, <2>3, GoesTypes DEF Writes, GoesTo, RegistryTypeOK, Where
<1>13. CASE Records(w)
    <2>1. apps' \in [Name -> [manifest : Text, source : Source \cup {Unreadable, Absent}]]
        BY <1>1, <1>3, <1>13 DEF Records, RegistryTypeOK, Work
    <2>2. calm' \in [Name -> BOOLEAN]
        BY <1>3, <1>13 DEF Records, RegistryTypeOK, Alone
    <2> QED BY <1>5, <1>13, <2>1, <2>2, IdleIsWork, GoesTypes
            DEF Records, GoesTo, Ends, RegistryTypeOK, Where
<1>14. CASE Stamps(w)
    <2>1. [Recorded(me.name) EXCEPT !.bound = me.commit] \in Source
        BY <1>3, <1>4 DEF Source
    <2>2. [me EXCEPT !.at = "record",
                     !.source = [Recorded(me.name) EXCEPT !.bound = me.commit]] \in Work
        BY <1>1, <2>1 DEF Work, Where
    <2> QED BY <1>6, <1>14, <2>2 DEF Stamps
<1>15. CASE PlacesManifest(w)
    <2>1. [me EXCEPT !.at = "provenance", !.text = apps[me.name].manifest] \in Work
        BY <1>1, <1>4 DEF Work, Where
    <2> QED BY <1>6, <1>15, <2>1 DEF PlacesManifest
<1>16. CASE PlacesProvenance(w)
    <2>1. [me EXCEPT !.at = "push", !.source = Recorded(me.name)] \in Work
        BY <1>1, <1>4 DEF Work, Where
    <2> QED BY <1>6, <1>16, <2>1 DEF PlacesProvenance
<1>17. CASE Killed(w)
    <2>1. apps' \in [Name -> [manifest : Text, source : Source \cup {Unreadable, Absent}]]
        BY <1>3, <1>17 DEF Killed, RegistryTypeOK
    <2>2. calm' \in [Name -> BOOLEAN]
        BY <1>3, <1>17 DEF Killed, RegistryTypeOK
    <2> QED BY <1>17, <2>1, <2>2, IdleIsWork, GoesTypes DEF Killed, Ends, RegistryTypeOK
<1> QED BY <1>7, <1>8, <1>9, <1>10, <1>11, <1>12, <1>13, <1>14, <1>15, <1>16, <1>17 DEF Step

-----------------------------------------------------------------------------
(* What the step of one command leaves of the others.                      *)

\* The command that takes the step keeps its entry, and what else it has seen by then
\* does not include that.
Follows(next, me) ==
    \/ next = Idle
    \/ /\ next.at # "idle" /\ next.name = me.name /\ next.commit = me.commit
       /\ me.unseen \subseteq next.unseen
       /\ me.name \in next.unseen => me.name \in me.unseen

\* Only the entry of the command changes, and its calm comes back to it only when alone.
Touches(w) ==
    LET n == command[w].name IN
    /\ \A m \in Name \ {n} : apps'[m] = apps[m] /\ calm'[m] = calm[m]
    /\ calm'[n] => calm[n] \/ Alone(w)

LEMMA SeenKept ==
    ASSUME RegistryTypeOK, Steady, NEW w \in Active, NEW next \in Work, Goes(w, next),
           Follows(next, command[w]), Touches(w)
    PROVE  Seen' /\ CalmIsAlone'
<1> USE DEF Active
<1>1. /\ command'[w] = next
      /\ \A v \in Command : v # w => command'[v] = command[v]
    BY GoesTypes
<1>2. \A v \in Active' : v \in Active /\ command'[v].name = command[v].name
                         /\ command[v].unseen \subseteq command'[v].unseen
                         /\ (Alone(v) <=> Alone(v)')
    BY <1>1 DEF Follows, Idle, Alone
<1>3. Seen'
    BY <1>2 DEF Steady, Seen
<1>4. ASSUME NEW v \in Active', calm'[command'[v].name]
      PROVE  Alone(v)'
    <2>1. command[v].name \in Name /\ command[w].name \in Name
        BY <1>2 DEF Steady, Stages
    <2>2. CASE command[v].name # command[w].name
        BY <1>2, <1>4, <2>1, <2>2 DEF Steady, CalmIsAlone, Touches
    <2>3. CASE command[v].name = command[w].name /\ v # w
        <3>1. ~Alone(w) /\ ~Alone(v)
            BY <1>2, <2>3 DEF Steady, Seen, Alone
        <3> QED BY <1>2, <1>4, <2>3, <3>1 DEF Steady, CalmIsAlone, Touches
    <2>4. CASE v = w
        BY <1>2, <1>4, <2>4 DEF Steady, CalmIsAlone, Touches
    <2> QED BY <2>2, <2>3, <2>4
<1> QED BY <1>3, <1>4 DEF CalmIsAlone

LEMMA OthersHold ==
    ASSUME RegistryTypeOK, Steady, NEW w \in Active, NEW next \in Work, Goes(w, next),
           Touches(w), NEW v \in Active, v # w
    PROVE  Carried(v)' /\ (calm'[command'[v].name] => Holds(v)')
<1> USE DEF Active
<1>1. command'[v] = command[v]
    BY GoesTypes
<1>2. command[v].name \in Name /\ command[w].name \in Name
    BY DEF Steady, Stages
<1>3. CASE command[v].name # command[w].name
    <2>1. /\ apps'[command[v].name] = apps[command[v].name]
          /\ calm'[command[v].name] = calm[command[v].name]
        BY <1>2, <1>3 DEF Touches
    <2> QED BY <1>1, <2>1 DEF Steady, Carried, Holds, OneFetch, Alone
<1>4. CASE command[v].name = command[w].name
    <2>1. ~Alone(w) /\ ~Alone(v)
        BY <1>4 DEF Steady, Seen, Alone
    <2>2. ~calm'[command[v].name]
        BY <1>2, <1>4, <2>1 DEF Steady, CalmIsAlone, Touches
    <2> QED BY <1>1, <2>1, <2>2 DEF Steady, Carried, Alone, OneFetch
<1> QED BY <1>3, <1>4

\* An entry nobody wrote to stays as it was.
LEMMA EntryKept ==
    ASSUME RegistryTypeOK, Steady, NEW w \in Active, NEW next \in Work, Goes(w, next),
           NEW n \in Name, apps'[n] = apps[n], calm'[n] => calm[n], calm'[n], ~Written(n)',
           n = command[w].name => command[w].at \notin {"text", "record"}
    PROVE  \/ apps'[n].source = Absent /\ apps'[n].manifest = Absent
           \/ apps'[n].source \in Source /\ OneFetch(apps'[n].manifest, apps'[n].source)
<1>1. \A v \in Command : v # w => command'[v] = command[v]
    BY GoesTypes DEF Active
<1>2. ~Written(n)
    BY <1>1 DEF Written, Active
<1> QED BY <1>2 DEF Steady, EntryIsOneFetch, OneFetch

\* A move that writes nothing.
LEMMA MoveSteady ==
    ASSUME RegistryTypeOK, Steady, NEW w \in Active, NEW next \in Work, Goes(w, next),
           UNCHANGED <<apps, calm>>, Follows(next, command[w]), next.kind = command[w].kind,
           next.at # "idle", command[w].at \notin {"text", "record"},
           Stages', Carried(w)', calm[command[w].name] => Holds(w)'
    PROVE  Steady'
<1>1. Touches(w)
    BY DEF Touches
<1>2. command'[w] = next /\ \A v \in Command : v # w => command'[v] = command[v]
    BY GoesTypes DEF Active
<1>3. next.name = command[w].name
    BY DEF Follows, Idle
<1>4. \A v \in Active' : Carried(v)' /\ (calm'[command'[v].name] => Holds(v)')
    BY <1>1, <1>2, <1>3, OthersHold DEF Active
<1>5. EntryIsOneFetch'
    BY EntryKept DEF EntryIsOneFetch, OneFetch
<1> QED BY <1>1, <1>4, <1>5, SeenKept DEF Steady

\* An end, by itself or not: the last of what it wrote is OneFetch, or the calm is over.
LEMMA EndSteady ==
    ASSUME RegistryTypeOK, Steady, NEW w \in Active, Ends(w), Touches(w),
           \/ command[w].at \notin {"text", "record"} /\ UNCHANGED <<apps, calm>>
           \/ ~calm'[command[w].name]
           \/ LET n == command[w].name IN
              apps'[n].source \in Source /\ OneFetch(apps'[n].manifest, apps'[n].source)
    PROVE  Steady'
<1>1. Idle \in Work /\ Goes(w, Idle) /\ Follows(Idle, command[w])
    BY IdleIsWork DEF Ends, Follows
<1>2. Active' = Active \ {w} /\ \A v \in Active' : command'[v] = command[v]
    BY <1>1, GoesTypes DEF Active, Idle
<1>3. Stages'
    BY <1>2 DEF Steady, Stages
<1>4. \A v \in Active' : Carried(v)' /\ (calm'[command'[v].name] => Holds(v)')
    BY <1>1, <1>2, OthersHold
<1>5. ASSUME NEW n \in Name, calm'[n], ~Written(n)'
      PROVE  \/ apps'[n].source = Absent /\ apps'[n].manifest = Absent
             \/ apps'[n].source \in Source /\ OneFetch(apps'[n].manifest, apps'[n].source)
    <2>1. CASE n = command[w].name
        BY <1>1, <1>5, <2>1, EntryKept
    <2>2. CASE n # command[w].name
        <3>1. apps'[n] = apps[n] /\ calm'[n] = calm[n]
            BY <2>2 DEF Touches
        <3> QED BY <1>1, <1>5, <2>2, <3>1, EntryKept
    <2> QED BY <2>1, <2>2
<1>6. EntryIsOneFetch'
    BY <1>5 DEF EntryIsOneFetch, OneFetch
<1> QED BY <1>1, <1>3, <1>4, <1>6, SeenKept DEF Steady

\* What starts has seen who is there, and they it; on one entry that ends the calm.
LEMMA StartSteady ==
    ASSUME RegistryTypeOK, Steady, NEW w \in Command, NEW new \in Work, Starts(w, new),
           new.name \in Name, new.commit \in Commits,
           \/ /\ new.kind \in {"add", "publish"} /\ new.at \in {"look", "register"}
              /\ OneFetch(new.text, new.source)
           \/ /\ new.kind = "refresh" /\ new.at = "reread"
              /\ apps[new.name].source \in Source
              /\ apps[new.name].source.repo = new.commit.repo
           \/ /\ new.kind = "send" /\ new.at = "stamp"
              /\ apps[new.name].source \in Source
              /\ apps[new.name].source.commit = new.commit
    PROVE  Steady'
<1> DEFINE now == command'[w]
<1>1. /\ now = [new EXCEPT !.unseen = {command[u].name : u \in Active}]
      /\ \A v \in Active : v # w /\ v \in Command
      /\ \A v \in Active : command'[v] = [command[v] EXCEPT !.unseen = @ \cup {new.name}]
      /\ UNCHANGED apps
    BY StartsOthers DEF Starts, Active
<1>2. /\ now.at = new.at /\ now.kind = new.kind /\ now.name = new.name
      /\ now.commit = new.commit /\ now.text = new.text /\ now.source = new.source
      /\ now.unseen = {command[u].name : u \in Active}
    BY <1>1 DEF Work
<1> HIDE DEF now
<1>3. ASSUME NEW v \in Active
      PROVE  /\ command'[v].at = command[v].at /\ command'[v].kind = command[v].kind
             /\ command'[v].name = command[v].name /\ command'[v].commit = command[v].commit
             /\ command'[v].text = command[v].text /\ command'[v].source = command[v].source
             /\ command'[v].unseen = command[v].unseen \cup {new.name}
    <2>1. command[v] \in Work
        BY DEF RegistryTypeOK, Active
    <2>2. command'[v] = [command[v] EXCEPT !.unseen = @ \cup {new.name}]
        BY <1>1
    <2> QED BY <2>1, <2>2 DEF Work
<1>4. Active' = Active \cup {w}
    <2>1. new.at # "idle"
        OBVIOUS
    <2>2. ASSUME NEW v \in Command, v \notin Active, v # w PROVE v \notin Active'
        BY <2>2, StartsOthers DEF Active
    <2> QED BY <1>2, <1>3, <2>1, <2>2 DEF Active, now
<1>5. ASSUME NEW a \in Active', NEW b \in Active', a # b
      PROVE  command'[b].name \in command'[a].unseen
    <2>1. CASE a = w
        BY <1>2, <1>3, <1>4, <1>5, <2>1 DEF now
    <2>2. CASE b = w
        BY <1>2, <1>3, <1>4, <1>5, <2>2 DEF now
    <2>3. CASE a # w /\ b # w
        BY <1>3, <1>4, <1>5, <2>3 DEF Steady, Seen
    <2> QED BY <2>1, <2>2, <2>3
<1>6. \A n \in Name : calm'[n] =>
         calm[n] /\ (n = new.name => \A u \in Active : command[u].name # n)
    BY DEF Starts
<1>7. CalmIsAlone'
    BY <1>2, <1>3, <1>4, <1>6 DEF Steady, CalmIsAlone, Alone, Stages, now
<1>8. Stages'
    BY <1>2, <1>3, <1>4 DEF Steady, Stages, now
<1>9. Carried(w)' /\ (calm'[command'[w].name] => Holds(w)')
    BY <1>1, <1>2 DEF Carried, Holds, OneFetch, now
<1>10. ASSUME NEW v \in Active
       PROVE  Carried(v)' /\ (calm'[command'[v].name] => Holds(v)')
    <2>1. command[v].name \in Name
        BY DEF Steady, Stages
    <2>2. Alone(v)' => Alone(v)
        BY <1>3 DEF Alone
    <2> QED BY <1>1, <1>3, <1>6, <2>1, <2>2 DEF Steady, Carried, Holds, OneFetch
<1>11. EntryIsOneFetch'
    <2>1. \A n \in Name : Written(n) => Written(n)'
        BY <1>3, <1>4 DEF Written
    <2> QED BY <1>1, <1>6, <2>1 DEF Steady, EntryIsOneFetch, OneFetch
<1> QED BY <1>4, <1>5, <1>7, <1>8, <1>9, <1>10, <1>11 DEF Steady, Seen

LEMMA BeginSteady ==
    ASSUME RegistryTypeOK, Steady, NEW w \in Command, Begins(w)
    PROVE  RegistryTypeOK' /\ Steady'
<1>1. ASSUME NEW c \in Commits, NEW g \in Given, NEW replace \in BOOLEAN,
             NEW kind \in {"add", "publish"}, c.ships # Unreadable,
             Starts(w, Registering(kind, c, g, replace))
      PROVE  RegistryTypeOK' /\ Steady'
    <2> DEFINE new == Registering(kind, c, g, replace)
    <2>1. new \in Work
        BY <1>1, NewWork
    <2>2. /\ new.kind = kind /\ new.at \in {"look", "register"}
          /\ new.name = Described(c, g).name /\ new.commit = c
          /\ new.text = Described(c, g)
          /\ new.source = [repo |-> c.repo, commit |-> c, bound |-> Nothing,
                           origin |-> Described(c, g).origin]
        BY DEF Registering, Idle
    <2>3. new.name \in Name /\ OneFetch(new.text, new.source)
        BY <1>1, <2>2, FetchTypes
    <2> HIDE DEF new
    <2> QED BY <1>1, <2>1, <2>2, <2>3, StartSteady, StartsTypes DEF new, Steady
<1>2. ASSUME NEW n \in Name, NEW c \in Commits, RefreshStarts(w, n, c)
      PROVE  RegistryTypeOK' /\ Steady'
    <2> DEFINE new == [Idle EXCEPT !.at = "reread", !.kind = "refresh", !.name = n,
                                   !.commit = c]
    <2>1. new \in Work
        BY IdleIsWork DEF Work, Where
    <2>2. /\ new.at = "reread" /\ new.kind = "refresh" /\ new.name = n /\ new.commit = c
        BY DEF Idle
    <2>3. Starts(w, new) /\ apps[n].source \in Source /\ apps[n].source.repo = c.repo
        BY <1>2 DEF RefreshStarts
    <2> HIDE DEF new
    <2> QED BY <2>1, <2>2, <2>3, StartSteady, StartsTypes DEF Steady
<1>3. ASSUME NEW n \in Name, SendStarts(w, n)
      PROVE  RegistryTypeOK' /\ Steady'
    <2> DEFINE new == [Idle EXCEPT !.at = "stamp", !.kind = "send", !.name = n,
                                   !.commit = apps[n].source.commit]
    <2>1. /\ Starts(w, new) /\ apps[n].source \in Source
          /\ apps[n].source.commit \in Commits
        BY <1>3 DEF SendStarts, Source
    <2>2. new \in Work
        BY <2>1, IdleIsWork DEF Work, Where
    <2>3. /\ new.at = "stamp" /\ new.kind = "send" /\ new.name = n
          /\ new.commit = apps[n].source.commit
        BY DEF Idle
    <2> HIDE DEF new
    <2> QED BY <2>1, <2>2, <2>3, StartSteady, StartsTypes DEF Steady
<1> QED BY <1>1, <1>2, <1>3 DEF Begins, AddStarts, PublishStarts

-----------------------------------------------------------------------------
\* The steps that write nothing.
LEMMA QuietSteady ==
    ASSUME RegistryTypeOK, Steady, NEW w \in Command,
           \/ PublishLooks(w) \/ RegisterLooks(w) \/ ChecksPort(w) \/ Rereads(w) \/ Keeps(w)
           \/ Stamps(w) \/ PlacesManifest(w) \/ PlacesProvenance(w) \/ Pushes(w)
    PROVE  Steady'
<1> DEFINE me == command[w]  e == apps[me.name]
<1>1. w \in Active /\ me \in Work /\ UNCHANGED <<apps, calm>> /\ me.at \notin {"text", "record"}
    BY DEF Active, RegistryTypeOK, PublishLooks, RegisterLooks, ChecksPort, Rereads, Keeps,
           Stamps, PlacesManifest, PlacesProvenance, Pushes
<1>2. /\ me.name \in Name /\ me.commit \in Commits
      /\ Carried(w) /\ (calm[me.name] => Holds(w)) /\ (calm[me.name] => Alone(w))
    BY <1>1 DEF Steady, Stages, CalmIsAlone
<1>3. RegistryTypeOK'
    BY StepTypes DEF Step, Steady
<1>4. ASSUME Ends(w) PROVE Steady'
    BY <1>1, <1>4, EndSteady DEF Touches
<1>5. ASSUME NEW next \in Work, Goes(w, next), Follows(next, me), next.kind = me.kind,
             next.at # "idle",
             \/ me.kind \in {"add", "publish"} /\ next.at \in {"register", "port", "clear"}
             \/ me.kind = "refresh" /\ next.at \in {"keep", "clear"}
             \/ me.kind = "send" /\ next.at \in {"record", "manifest", "provenance", "push"},
             Carried(w)', calm[me.name] => Holds(w)'
      PROVE  Steady'
    <2>1. Stages'
        BY <1>1, <1>2, <1>5, GoesTypes DEF Steady, Stages, Active, Follows, Idle
    <2> QED BY <1>1, <1>5, <2>1, MoveSteady
<1>6. calm[me.name] => ~Written(me.name)
    BY <1>1, <1>2 DEF Steady, Seen, Alone, Written
<1>7. calm[me.name] =>
         \/ e.source = Absent /\ e.manifest = Absent
         \/ e.source \in Source /\ OneFetch(e.manifest, e.source)
    BY <1>2, <1>6 DEF Steady, EntryIsOneFetch
<1>16. /\ me.at \in {"look", "register", "port"} => me.kind \in {"add", "publish"}
       /\ me.at \in {"reread", "keep"} => me.kind = "refresh"
       /\ me.at \in {"stamp", "manifest", "provenance"} => me.kind = "send"
    <2>1. me.kind \in {"add", "publish", "refresh", "send"}
        BY <1>1 DEF Work
    <2> QED BY <1>1, <2>1 DEF Steady, Stages
<1>8. CASE PublishLooks(w) \/ RegisterLooks(w)
    <2> DEFINE on(where) == [me EXCEPT !.at = where]
               over == [me EXCEPT !.at = "register", !.replace = TRUE]
    <2>1. ASSUME NEW next \in Work, Goes(w, next), next.at \in {"register", "port"},
                 next.name = me.name, next.commit = me.commit, next.kind = me.kind,
                 next.unseen = me.unseen, next.text = me.text, next.source = me.source
          PROVE  Steady'
        <3>1. me.kind \in {"add", "publish"}
            BY <1>8, <1>16 DEF PublishLooks, RegisterLooks
        <3>2. command'[w] = next
            BY <2>1, GoesTypes DEF Active
        <3>3. Carried(w)' /\ (calm[me.name] => Holds(w)')
            BY <1>2, <2>1, <3>1, <3>2 DEF Carried, Holds, OneFetch
        <3>4. Follows(next, me) /\ next.at # "idle"
            BY <2>1 DEF Follows
        <3> QED BY <1>5, <2>1, <3>1, <3>3, <3>4
    <2>2. over \in Work /\ \A where \in Where : on(where) \in Work
        BY <1>1 DEF Work, Where
    <2>3. CASE Goes(w, over)
        BY <2>1, <2>2, <2>3, <1>1 DEF Work
    <2>4. CASE Goes(w, on("register")) \/ Goes(w, on("port"))
        <3>1. ASSUME NEW where \in {"register", "port"}, Goes(w, on(where)) PROVE Steady'
            <4>1. /\ on(where).at = where /\ on(where).name = me.name
                  /\ on(where).commit = me.commit /\ on(where).kind = me.kind
                  /\ on(where).unseen = me.unseen /\ on(where).text = me.text
                  /\ on(where).source = me.source
                BY <1>1 DEF Work
            <4>2. on(where) \in Work
                BY <2>2 DEF Where
            <4> HIDE DEF on
            <4> QED BY <2>1, <3>1, <4>1, <4>2
        <3> QED BY <2>4, <3>1
    <2> QED BY <1>4, <1>8, <2>3, <2>4 DEF PublishLooks, RegisterLooks, GoesTo
<1>9. CASE ChecksPort(w)
    <2> DEFINE next == [me EXCEPT !.at = "clear", !.replace = FALSE,
                                  !.unseen = @ \cup Missed(me.name)]
    <2>1. next \in Work
        BY <1>1 DEF Work, Where, Missed, Listed
    <2>2. /\ next.at = "clear" /\ next.name = me.name /\ next.commit = me.commit
          /\ next.kind = me.kind /\ next.unseen = me.unseen \cup Missed(me.name)
          /\ next.text = me.text /\ next.source = me.source
        BY <1>1 DEF Work
    <2>3. me.name \notin Missed(me.name)
        BY DEF Missed
    <2>4. me.kind \in {"add", "publish"}
        BY <1>9, <1>16 DEF ChecksPort
    <2> HIDE DEF next
    <2>5. CASE Goes(w, next)
        <3>1. command'[w] = next
            BY <2>1, <2>5, GoesTypes DEF Active
        <3>2. Carried(w)' /\ (calm[me.name] => Holds(w)')
            BY <1>2, <2>2, <2>4, <3>1 DEF Carried, Holds, OneFetch
        <3>3. Follows(next, me) /\ next.at # "idle"
            BY <2>2, <2>3 DEF Follows
        <3> QED BY <1>5, <2>1, <2>2, <2>4, <2>5, <3>2, <3>3
    <2> QED BY <1>4, <1>9, <2>5 DEF ChecksPort, next
<1>10. CASE Rereads(w)
    <2> DEFINE source == [Recorded(me.name) EXCEPT !.commit = me.commit, !.bound = Nothing]
               next == [me EXCEPT !.at = "keep", !.source = source]
    <2>1. Recorded(me.name) \in Source
        BY <1>2, EntryTypes
    <2>2. /\ source \in Source /\ source.commit = me.commit /\ source.bound = Nothing
          /\ source.repo = Recorded(me.name).repo /\ source.origin = Recorded(me.name).origin
        BY <1>2, <2>1 DEF Source
    <2>3. me.kind = "refresh"
        BY <1>10, <1>16 DEF Rereads
    <2> HIDE DEF source
    <2>4. /\ next \in Work /\ next.at = "keep" /\ next.name = me.name
          /\ next.commit = me.commit /\ next.kind = me.kind /\ next.unseen = me.unseen
          /\ next.source = source
        BY <1>1, <2>2 DEF Work, Where
    <2>5. Goes(w, next)
        BY <1>10 DEF Rereads, source
    <2> HIDE DEF next
    <2>6. command'[w] = next
        BY <2>4, <2>5, GoesTypes DEF Active
    <2>7. Carried(w)'
        BY <2>3, <2>4, <2>6 DEF Carried
    <2>8. calm[me.name] => Holds(w)'
        <3>1. calm[me.name] => /\ e.source \in Source /\ e.source.repo = me.commit.repo
                               /\ Recorded(me.name) = e.source
            BY <1>2, <1>10 DEF Holds, Rereads, Recorded
        <3>2. calm[me.name] => (e.manifest \in Manifest => e.source.origin = e.manifest.origin)
            BY <1>7, <3>1, MarkersAssumption DEF OneFetch
        <3> QED BY <1>1, <2>2, <2>3, <2>4, <2>6, <3>1, <3>2 DEF Holds
    <2> QED BY <1>5, <2>3, <2>4, <2>5, <2>7, <2>8 DEF Follows
<1>11. CASE Keeps(w)
    <2> DEFINE c == me.commit
    <2>1. me.kind = "refresh"
        BY <1>11, <1>16 DEF Keeps
    <2>2. calm[me.name] =>
             /\ me.source.commit = c /\ me.source.repo = c.repo /\ me.source.bound = Nothing
             /\ e.manifest \in Manifest => me.source.origin = e.manifest.origin
        BY <1>2, <1>11 DEF Holds, Keeps
    <2>3. ASSUME NEW next \in Work, Goes(w, next), next.at = "clear", next.name = me.name,
                 next.commit = c, next.kind = me.kind, next.unseen = me.unseen,
                 calm[me.name] => OneFetch(next.text, next.source)
          PROVE  Steady'
        <3>1. command'[w] = next
            BY <2>3, GoesTypes DEF Active
        <3>2. Carried(w)' /\ (calm[me.name] => Holds(w)')
            BY <1>1, <2>1, <2>3, <3>1 DEF Carried, Holds, OneFetch
        <3>3. Follows(next, me) /\ next.at # "idle"
            BY <2>3 DEF Follows
        <3> QED BY <1>5, <2>1, <2>3, <3>2, <3>3
    <2>4. CASE c.ships = NoManifest
        <3> DEFINE next == [me EXCEPT !.at = "clear", !.text = e.manifest]
        <3>1. e.manifest \in Text
            BY <1>2, EntryTypes
        <3>2. /\ next \in Work /\ next.at = "clear" /\ next.name = me.name
              /\ next.commit = c /\ next.kind = me.kind /\ next.unseen = me.unseen
              /\ next.text = e.manifest /\ next.source = me.source
            BY <1>1, <3>1 DEF Work, Where
        <3>3. Goes(w, next)
            BY <1>11, <2>4 DEF Keeps
        <3> HIDE DEF next
        <3>4. calm[me.name] => OneFetch(next.text, next.source)
            BY <1>2, <2>2, <2>4, <3>2 DEF OneFetch
        <3> QED BY <2>3, <3>2, <3>3, <3>4
    <2>5. CASE c.ships # NoManifest
        <3> DEFINE next == [me EXCEPT !.at = "clear", !.text = c.ships,
                                      !.source.origin = "upstream"]
        <3>1. c.ships \in Text
            BY <1>2, <2>5, CommitsAssumption DEF Text
        <3>2. me.source \in Source
            BY <1>1 DEF Work
        <3>3. [me.source EXCEPT !.origin = "upstream"] \in Source
            BY <3>2 DEF Source, Origin
        <3>4. /\ next \in Work /\ next.at = "clear" /\ next.name = me.name
              /\ next.commit = c /\ next.kind = me.kind /\ next.unseen = me.unseen
              /\ next.text = c.ships
              /\ next.source = [me.source EXCEPT !.origin = "upstream"]
            BY <1>1, <3>1, <3>3 DEF Work, Where
        <3>5. /\ next.source.repo = me.source.repo /\ next.source.commit = me.source.commit
              /\ next.source.bound = me.source.bound /\ next.source.origin = "upstream"
            BY <3>2, <3>4 DEF Source
        <3>6. Goes(w, next)
            BY <1>11, <2>5 DEF Keeps
        <3> HIDE DEF next
        <3>7. calm[me.name] => OneFetch(next.text, next.source)
            BY <1>2, <2>2, <3>4, <3>5, CommitsAssumption DEF OneFetch
        <3> QED BY <2>3, <3>4, <3>6, <3>7
    <2> QED BY <2>4, <2>5
<1>12. CASE Stamps(w)
    <2> DEFINE source == [Recorded(me.name) EXCEPT !.bound = me.commit]
               next == [me EXCEPT !.at = "record", !.source = source]
    <2>1. Recorded(me.name) \in Source
        BY <1>2, EntryTypes
    <2>2. /\ source \in Source /\ source.bound = me.commit
          /\ source.commit = Recorded(me.name).commit
          /\ source.repo = Recorded(me.name).repo /\ source.origin = Recorded(me.name).origin
        BY <1>2, <2>1 DEF Source
    <2>3. me.kind = "send"
        BY <1>12, <1>16 DEF Stamps
    <2> HIDE DEF source
    <2>4. /\ next \in Work /\ next.at = "record" /\ next.name = me.name
          /\ next.commit = me.commit /\ next.kind = me.kind /\ next.unseen = me.unseen
          /\ next.source = source
        BY <1>1, <2>2 DEF Work, Where
    <2>5. Goes(w, next)
        BY <1>12 DEF Stamps, source
    <2> HIDE DEF next
    <2>6. command'[w] = next
        BY <2>4, <2>5, GoesTypes DEF Active
    <2>7. Carried(w)'
        BY <2>3, <2>4, <2>6 DEF Carried
    <2>8. calm[me.name] => Holds(w)'
        <3>1. calm[me.name] => /\ e.source \in Source /\ e.source.commit = me.commit
                               /\ Recorded(me.name) = e.source
            BY <1>2, <1>12 DEF Holds, Stamps, Recorded
        <3>2. calm[me.name] => OneFetch(e.manifest, e.source)
            BY <1>7, <3>1, MarkersAssumption DEF OneFetch
        <3>3. calm[me.name] => OneFetch(e.manifest, source)
            BY <2>2, <3>1, <3>2 DEF OneFetch
        <3> QED BY <1>1, <2>2, <2>4, <2>6, <3>1, <3>3 DEF Holds, OneFetch
    <2> QED BY <1>5, <2>3, <2>4, <2>5, <2>7, <2>8 DEF Follows
<1>13. CASE PlacesManifest(w)
    <2> DEFINE next == [me EXCEPT !.at = "provenance", !.text = e.manifest]
    <2>1. e.manifest \in Text
        BY <1>2, EntryTypes
    <2>2. /\ next \in Work /\ next.at = "provenance" /\ next.name = me.name
          /\ next.commit = me.commit /\ next.kind = me.kind /\ next.unseen = me.unseen
          /\ next.text = e.manifest
        BY <1>1, <2>1 DEF Work, Where
    <2>3. Goes(w, next) /\ me.kind = "send"
        BY <1>13, <1>16 DEF PlacesManifest
    <2> HIDE DEF next
    <2>4. command'[w] = next
        BY <2>2, <2>3, GoesTypes DEF Active
    <2>5. Carried(w)' /\ (calm[me.name] => Holds(w)')
        BY <1>1, <1>2, <1>13, <2>2, <2>3, <2>4 DEF Carried, Holds, PlacesManifest
    <2> QED BY <1>5, <2>2, <2>3, <2>5 DEF Follows
<1>14. CASE PlacesProvenance(w)
    <2> DEFINE next == [me EXCEPT !.at = "push", !.source = Recorded(me.name)]
    <2>1. Recorded(me.name) \in Source
        BY <1>2, EntryTypes
    <2>2. /\ next \in Work /\ next.at = "push" /\ next.name = me.name
          /\ next.commit = me.commit /\ next.kind = me.kind /\ next.unseen = me.unseen
          /\ next.text = me.text /\ next.source = Recorded(me.name)
        BY <1>1, <2>1 DEF Work, Where
    <2>3. Goes(w, next) /\ me.kind = "send"
        BY <1>14, <1>16 DEF PlacesProvenance
    <2> HIDE DEF next
    <2>4. command'[w] = next
        BY <2>2, <2>3, GoesTypes DEF Active
    <2>5. Carried(w)' /\ (calm[me.name] => Holds(w)')
        BY <1>1, <1>2, <1>14, <2>2, <2>3, <2>4
        DEF Carried, Holds, PlacesProvenance, Recorded
    <2> QED BY <1>5, <2>2, <2>3, <2>5 DEF Follows
<1>15. CASE Pushes(w)
    BY <1>4, <1>15 DEF Pushes
<1> QED BY <1>8, <1>9, <1>10, <1>11, <1>12, <1>13, <1>14, <1>15

\* The steps that write.
LEMMA WritingSteady ==
    ASSUME RegistryTypeOK, Steady, NEW w \in Command, Clears(w) \/ Writes(w)
    PROVE  Steady'
<1> DEFINE me == command[w]
           next == [me EXCEPT !.at = IF me.at = "clear" THEN "text" ELSE "record"]
<1>1. w \in Active /\ me \in Work /\ me.at \in {"clear", "text"} /\ UNCHANGED calm
    BY DEF Active, RegistryTypeOK, Clears, Writes
<1>2. me.name \in Name /\ me.kind \in {"add", "publish", "refresh"} /\ Carried(w)
    BY <1>1 DEF Steady, Stages, Work
<1>3. /\ next \in Work /\ next.at = (IF me.at = "clear" THEN "text" ELSE "record")
      /\ next.name = me.name /\ next.commit = me.commit /\ next.kind = me.kind
      /\ next.unseen = me.unseen /\ next.text = me.text /\ next.source = me.source
    BY <1>1 DEF Work, Where
<1>4. Goes(w, next)
    BY DEF Clears, Writes, GoesTo
<1> HIDE DEF next
<1>5. Follows(next, me)
    BY <1>3 DEF Follows
<1>6. /\ Touches(w)
      /\ me.at = "text" => apps'[me.name].manifest = me.text
    BY <1>1, <1>2 DEF Touches, Clears, Writes, RegistryTypeOK
<1>7. command'[w] = next /\ \A v \in Command : v # w => command'[v] = command[v]
    BY <1>3, <1>4, GoesTypes DEF Active
<1>8. Stages'
    BY <1>1, <1>2, <1>3, <1>7 DEF Steady, Stages, Active
<1>9. Carried(w)' /\ Holds(w)'
    BY <1>1, <1>2, <1>3, <1>6, <1>7 DEF Carried, Holds, OneFetch
<1>10. \A v \in Active' : Carried(v)' /\ (calm'[command'[v].name] => Holds(v)')
    BY <1>1, <1>3, <1>4, <1>6, <1>7, <1>9, OthersHold DEF Active
<1>11. ASSUME NEW n \in Name, calm'[n], ~Written(n)'
       PROVE  \/ apps'[n].source = Absent /\ apps'[n].manifest = Absent
              \/ apps'[n].source \in Source /\ OneFetch(apps'[n].manifest, apps'[n].source)
    <2>1. n # me.name
        BY <1>3, <1>7, <1>11 DEF Written, Active
    <2>2. apps'[n] = apps[n] /\ calm'[n] = calm[n]
        BY <1>6, <2>1 DEF Touches
    <2> QED BY <1>1, <1>3, <1>4, <1>11, <2>1, <2>2, EntryKept
<1>12. EntryIsOneFetch'
    BY <1>11 DEF EntryIsOneFetch, OneFetch
<1> QED BY <1>1, <1>3, <1>4, <1>5, <1>6, <1>8, <1>10, <1>12, SeenKept DEF Steady

LEMMA RecordingSteady ==
    ASSUME RegistryTypeOK, Steady, NEW w \in Command, Records(w)
    PROVE  Steady'
<1> DEFINE me == command[w]  n == me.name
<1>1. w \in Active /\ me \in Work /\ me.at = "record"
    BY DEF Active, RegistryTypeOK, Records
<1>2. /\ n \in Name /\ me.commit \in Commits
      /\ Carried(w) /\ (calm[n] => Holds(w)) /\ (calm[n] => Alone(w))
    BY <1>1 DEF Steady, Stages, CalmIsAlone
<1>3. /\ apps'[n].source = me.source /\ apps'[n].manifest = apps[n].manifest
      /\ \A m \in Name \ {n} : apps'[m] = apps[m]
    BY <1>2 DEF Records, RegistryTypeOK
<1>4. /\ \A m \in Name \ {n} : calm'[m] = calm[m]
      /\ calm'[n] => calm[n] \/ (Alone(w) /\ me.kind \in {"add", "publish"})
      /\ me.kind \notin {"add", "publish"} => (calm'[n] => calm[n])
    BY <1>2 DEF Records, RegistryTypeOK
<1>5. Touches(w)
    BY <1>3, <1>4 DEF Touches
<1>6. calm'[n] => OneFetch(apps'[n].manifest, apps'[n].source)
    <2>1. me.kind \in {"add", "publish", "refresh", "send"}
        BY <1>1 DEF Work
    <2>2. CASE me.kind = "send"
        BY <1>1, <1>2, <1>3, <1>4, <2>2 DEF Holds, OneFetch
    <2>3. CASE me.kind # "send"
        BY <1>1, <1>2, <1>3, <1>4, <2>1, <2>3 DEF Carried, OneFetch
    <2> QED BY <2>2, <2>3
<1>7. apps'[n].source \in Source
    BY <1>1, <1>3 DEF Work
<1>8. CASE me.kind # "send"
    <2>1. Ends(w)
        BY <1>8 DEF Records
    <2> QED BY <1>1, <1>5, <1>6, <1>7, <2>1, EndSteady
<1>9. CASE me.kind = "send"
    <2> DEFINE next == [me EXCEPT !.at = "manifest"]
    <2>1. /\ next \in Work /\ next.at = "manifest" /\ next.name = n
          /\ next.commit = me.commit /\ next.kind = me.kind /\ next.unseen = me.unseen
          /\ next.text = me.text /\ next.source = me.source
        BY <1>1 DEF Work, Where
    <2>2. Goes(w, next)
        BY <1>9 DEF Records, GoesTo
    <2> HIDE DEF next
    <2>3. Follows(next, me)
        BY <2>1 DEF Follows
    <2>4. command'[w] = next /\ \A v \in Command : v # w => command'[v] = command[v]
        BY <2>1, <2>2, GoesTypes DEF Active
    <2>5. Stages'
        BY <1>1, <1>2, <1>9, <2>1, <2>4 DEF Steady, Stages, Active
    <2>6. Carried(w)' /\ (calm'[n] => Holds(w)')
        BY <1>1, <1>2, <1>3, <1>4, <1>7, <1>9, <2>1, <2>4 DEF Carried, Holds
    <2>7. \A v \in Active' : Carried(v)' /\ (calm'[command'[v].name] => Holds(v)')
        BY <1>1, <1>5, <2>1, <2>2, <2>4, <2>6, OthersHold DEF Active
    <2>8. ASSUME NEW m \in Name, calm'[m], ~Written(m)'
          PROVE  \/ apps'[m].source = Absent /\ apps'[m].manifest = Absent
                 \/ apps'[m].source \in Source /\ OneFetch(apps'[m].manifest, apps'[m].source)
        <3>1. CASE m = n
            BY <1>6, <1>7, <2>8, <3>1
        <3>2. CASE m # n
            BY <1>1, <1>3, <1>4, <2>1, <2>2, <2>8, <3>2, EntryKept
        <3> QED BY <3>1, <3>2
    <2>9. EntryIsOneFetch'
        BY <2>8 DEF EntryIsOneFetch, OneFetch
    <2> QED BY <1>1, <1>5, <2>1, <2>2, <2>3, <2>5, <2>7, <2>9, SeenKept DEF Steady
<1> QED BY <1>8, <1>9

LEMMA KilledSteady ==
    ASSUME RegistryTypeOK, Steady, NEW w \in Command, Killed(w)
    PROVE  Steady'
<1> DEFINE me == command[w]
<1>1. w \in Active /\ Ends(w)
    BY DEF Killed
<1>2. me.name \in Name
    BY <1>1 DEF Steady, Stages
<1>3. /\ \A m \in Name \ {me.name} : apps'[m] = apps[m] /\ calm'[m] = calm[m]
      /\ calm'[me.name] => calm[me.name] /\ me.at \notin {"text", "record"}
      /\ me.at \notin {"text", "record"} => UNCHANGED apps
    BY <1>2 DEF Killed, RegistryTypeOK
<1>4. me.at \notin {"text", "record"} => UNCHANGED calm
    BY <1>2 DEF Killed, RegistryTypeOK
<1>5. Touches(w)
    BY <1>3 DEF Touches
<1> QED BY <1>1, <1>3, <1>4, <1>5, EndSteady

-----------------------------------------------------------------------------
\* The types and the argument hold in every state.
THEOREM RegistrySteady == Spec => [](RegistryTypeOK /\ Steady)
<1>1. Init => RegistryTypeOK /\ Steady
    <2> SUFFICES ASSUME Init PROVE RegistryTypeOK /\ Steady
        OBVIOUS
    <2>1. RegistryTypeOK
        BY IdleIsWork, NamesAssumption DEF Init, RegistryTypeOK, Text
    <2>2. Active = {}
        BY DEF Init, Active, Idle
    <2> QED BY <2>1, <2>2
            DEF Steady, Seen, CalmIsAlone, Stages, EntryIsOneFetch, Init
<1>2. RegistryTypeOK /\ Steady /\ [Next]_vars => (RegistryTypeOK /\ Steady)'
    <2> SUFFICES ASSUME RegistryTypeOK, Steady, [Next]_vars PROVE (RegistryTypeOK /\ Steady)'
        OBVIOUS
    <2>1. ASSUME NEW w \in Command, Begins(w) PROVE (RegistryTypeOK /\ Steady)'
        BY <2>1, BeginSteady
    <2>2. ASSUME NEW w \in Command, Step(w) PROVE (RegistryTypeOK /\ Steady)'
        <3>1. RegistryTypeOK'
            BY <2>2, StepTypes DEF Steady
        <3>2. Steady'
            BY <2>2, QuietSteady, WritingSteady, RecordingSteady, KilledSteady DEF Step
        <3> QED BY <3>1, <3>2
    <2>3. CASE UNCHANGED vars
        BY <2>3 DEF vars, RegistryTypeOK, Steady, Seen, CalmIsAlone, Stages, Carried, Holds,
                    EntryIsOneFetch, OneFetch, Written, Active, Alone
    <2> QED BY <2>1, <2>2, <2>3 DEF Next
<1> QED BY <1>1, <1>2, PTL DEF Spec

\* Files, commands and the history of them keep their types.
THEOREM RegistryTypes == Spec => []RegistryTypeOK
BY RegistrySteady, PTL

\* The two files of an entry that was last registered by a command alone on it describe one
\* fetch of one repository.
THEOREM EntriesAreWhole == Spec => []EntryIsOneFetch
<1>1. RegistryTypeOK /\ Steady => EntryIsOneFetch
    BY DEF Steady
<1> QED BY <1>1, RegistrySteady, PTL

\* What `send` pushes from such an entry is one commit: tree, manifest and record.
THEOREM SentIsWhole == Spec => []SentIsOneFetch
<1>1. ASSUME RegistryTypeOK, Steady PROVE SentIsOneFetch
    <2> SUFFICES ASSUME NEW w \in Command, command[w].at = "push", Alone(w),
                        calm[command[w].name]
                 PROVE  /\ command[w].source.commit = command[w].commit
                        /\ command[w].source.bound = command[w].commit
                        /\ OneFetch(command[w].text, command[w].source)
        BY DEF SentIsOneFetch
    <2> DEFINE me == command[w]  e == apps[me.name]
    <2>1. w \in Active
        BY DEF Active
    <2>2. me.name \in Name /\ Holds(w)
        BY <1>1, <2>1 DEF Steady, Stages
    <2>3. /\ e.source \in Source /\ e.source.commit = me.commit /\ e.source.bound = me.commit
          /\ me.text = e.manifest /\ me.source = e.source
        BY <2>2 DEF Holds
    <2>4. ~Written(me.name)
        BY <1>1, <2>1 DEF Steady, Seen, Alone, Written
    <2>5. OneFetch(e.manifest, e.source)
        BY <1>1, <2>2, <2>3, <2>4, MarkersAssumption DEF Steady, EntryIsOneFetch
    <2> QED BY <2>3, <2>5 DEF OneFetch
<1> QED BY <1>1, RegistrySteady, PTL

-----------------------------------------------------------------------------
(* Ports.  What a command compared, or kept, is safe from the others: each *)
(* of them counts as seen by it, and it by them.                           *)

Equal(text, e) == text \in Manifest /\ text.port # NoPort /\ text.port = apps[e].manifest.port

\* What a registration compared stays so, but for entries of commands it has seen.
Looked(w) ==
    command[w].at \in {"clear", "text"} /\ command[w].kind # "refresh" =>
        \A e \in Listed \ {command[w].name} :
            Equal(command[w].text, e) => e \in command[w].unseen

\* A refresh that is alone and was shipped nothing writes what it read.
Keeping(w) ==
    /\ command[w].at \in {"clear", "text"} /\ command[w].kind = "refresh"
    /\ command[w].commit.ships = NoManifest /\ Alone(w)

Kept(w) ==
    Keeping(w) => \A e \in Listed \ {command[w].name} :
        Equal(command[w].text, e) => {command[w].name, e} \in unchecked

KeptBoth(w, v) ==
    Keeping(w) /\ Keeping(v) /\ command[w].name # command[v].name
    /\ command[w].text \in Manifest /\ command[v].text \in Manifest
    /\ command[w].text.port # NoPort /\ command[w].text.port = command[v].text.port =>
        {command[w].name, command[v].name} \in unchecked

PortsSteady ==
    /\ PortsApart
    /\ \A w \in Active : Looked(w) /\ Kept(w) /\ \A v \in Active : KeptBoth(w, v)

\* What a command goes on with, if it may write, is what it had.
GoesOn(v) ==
    command'[v].at \in {"clear", "text"} =>
        /\ command[v].at \in {"clear", "text"} /\ command'[v].kind = command[v].kind
        /\ command'[v].name = command[v].name /\ command'[v].text = command[v].text
        /\ command'[v].commit = command[v].commit
        /\ command[v].unseen \subseteq command'[v].unseen

LEMMA Pairs == ASSUME NEW a, NEW b PROVE {a, b} = {b, a}
OBVIOUS

\* Fewer manifests, and more that counts as not compared.
LEMMA FewerListed ==
    ASSUME PortsSteady, NEW v \in Active, NEW u \in Active, GoesOn(v), GoesOn(u),
           Listed' \subseteq Listed, \A e \in Listed' : apps'[e].manifest = apps[e].manifest,
           unchecked \subseteq unchecked'
    PROVE  Looked(v)' /\ Kept(v)' /\ KeptBoth(v, u)' /\ PortsApart'
<1>1. Looked(v) /\ Kept(v) /\ KeptBoth(v, u) /\ PortsApart
    BY DEF PortsSteady
<1>2. PortsApart'
    BY <1>1 DEF PortsApart, SamePort
<1>3. Looked(v)'
    BY <1>1 DEF Looked, GoesOn, Equal
<1>4. (Keeping(v)' => Keeping(v)) /\ (Keeping(u)' => Keeping(u))
    BY DEF Keeping, GoesOn, Alone
<1>5. Kept(v)'
    BY <1>1, <1>4 DEF Kept, GoesOn, Equal, Keeping
<1>6. KeptBoth(v, u)'
    BY <1>1, <1>4 DEF KeptBoth, GoesOn, Keeping
<1> QED BY <1>2, <1>3, <1>5, <1>6

LEMMA PortsGoOn ==
    ASSUME PortsSteady,
           \A v \in Active' : \/ v \in Active /\ GoesOn(v)
                              \/ command'[v].at \notin {"clear", "text"},
           Listed' \subseteq Listed, \A e \in Listed' : apps'[e].manifest = apps[e].manifest,
           unchecked \subseteq unchecked'
    PROVE  PortsSteady'
<1>1. PortsApart'
    BY DEF PortsSteady, PortsApart, SamePort
<1>2. ASSUME NEW v \in Active', NEW u \in Active'
      PROVE  Looked(v)' /\ Kept(v)' /\ KeptBoth(v, u)'
    <2>1. CASE v \in Active /\ GoesOn(v) /\ u \in Active /\ GoesOn(u)
        BY <2>1, FewerListed
    <2>2. CASE command'[v].at \notin {"clear", "text"}
        BY <2>2 DEF Looked, Kept, KeptBoth, Keeping
    <2>3. CASE v \in Active /\ GoesOn(v) /\ command'[u].at \notin {"clear", "text"}
        BY <2>3, FewerListed DEF KeptBoth, Keeping
    <2> QED BY <1>2, <2>1, <2>2, <2>3
<1> QED BY <1>1, <1>2 DEF PortsSteady

\* The manifests are the same where only a record is written, or nothing.
LEMMA SameListed ==
    ASSUME NEW w \in Active, RegistryTypeOK, Steady,
           PublishLooks(w) \/ RegisterLooks(w) \/ ChecksPort(w) \/ Rereads(w) \/ Keeps(w)
           \/ Stamps(w) \/ PlacesManifest(w) \/ PlacesProvenance(w) \/ Pushes(w)
           \/ Records(w) \/ Killed(w)
    PROVE  /\ Listed' = Listed /\ UNCHANGED unchecked
           /\ \A e \in Name : apps'[e].manifest = apps[e].manifest
<1>1. command[w].name \in Name
    BY DEF Steady, Stages
<1>2. \A e \in Name : apps'[e].manifest = apps[e].manifest
    BY <1>1 DEF PublishLooks, RegisterLooks, ChecksPort, Rereads, Keeps, Stamps,
                PlacesManifest, PlacesProvenance, Pushes, Records, Killed, RegistryTypeOK
<1>3. UNCHANGED unchecked
    BY DEF PublishLooks, RegisterLooks, ChecksPort, Rereads, Keeps, Stamps,
           PlacesManifest, PlacesProvenance, Pushes, Records, Killed
<1> QED BY <1>2, <1>3 DEF Listed

\* Only the command that takes the step changes.
LEMMA OthersGoOn ==
    ASSUME RegistryTypeOK, NEW w \in Active, NEW next \in Work, Goes(w, next)
    PROVE  /\ command'[w] = next
           /\ \A v \in Active' : v # w => v \in Active /\ command'[v] = command[v] /\ GoesOn(v)
<1>1. /\ command'[w] = next
      /\ \A v \in Command : v # w => command'[v] = command[v]
    BY GoesTypes DEF Active
<1> QED BY <1>1 DEF Active, GoesOn

LEMMA ChecksPortKeepsApart ==
    ASSUME RegistryTypeOK, Steady, PortsSteady, NEW w \in Active, ChecksPort(w)
    PROVE  PortsSteady'
<1> DEFINE me == command[w]  n == me.name
           next == [me EXCEPT !.at = "clear", !.replace = FALSE,
                              !.unseen = @ \cup Missed(n)]
<1>1. me \in Work /\ me.at = "port" /\ n \in Name /\ me.kind \in {"add", "publish"}
    BY DEF RegistryTypeOK, Active, Steady, Stages, ChecksPort, Work
<1>2. /\ Listed' = Listed /\ UNCHANGED unchecked
      /\ \A e \in Name : apps'[e].manifest = apps[e].manifest
    BY SameListed
<1>20. /\ Listed' \subseteq Listed /\ unchecked \subseteq unchecked'
       /\ \A e \in Listed' : apps'[e].manifest = apps[e].manifest
    BY <1>2 DEF Listed
<1>3. next \in Work
    BY <1>1 DEF Work, Where, Missed, Listed
<1>4. /\ next.at = "clear" /\ next.name = n /\ next.kind = me.kind /\ next.text = me.text
      /\ next.unseen = me.unseen \cup Missed(n)
    BY <1>1 DEF Work
<1> HIDE DEF next
<1>5. CASE Ends(w)
    <2>1. command'[w].at = "idle"
          /\ \A v \in Active' : v # w => v \in Active /\ GoesOn(v)
        BY <1>5, IdleIsWork, OthersGoOn DEF Ends, Idle
    <2> QED BY <1>2, <2>1, PortsGoOn DEF Listed
<1>6. CASE me.text.port \notin PortsInUse(n) /\ Goes(w, next)
    <2>1. /\ command'[w] = next
          /\ \A v \in Active' : v # w => v \in Active /\ GoesOn(v)
        BY <1>3, <1>6, OthersGoOn
    <2>2. Looked(w)'
        <3>1. ASSUME NEW e \in Listed, e # n, Equal(me.text, e) PROVE e \in Missed(n)
            <4>1. e \notin Others(n)
                BY <1>6, <3>1 DEF PortsInUse, Equal
            <4> QED BY <3>1, <4>1 DEF Missed
        <3> QED BY <1>2, <1>4, <2>1, <3>1 DEF Looked, Equal, Listed
    <2>3. ~Keeping(w)'
        BY <1>1, <1>4, <2>1 DEF Keeping
    <2>4. PortsApart'
        BY <1>2 DEF PortsSteady, PortsApart, SamePort, Listed
    <2>5. ASSUME NEW v \in Active', NEW u \in Active', v # w
          PROVE  Looked(v)' /\ Kept(v)' /\ KeptBoth(v, u)'
        <3>1. v \in Active /\ GoesOn(v)
            BY <2>1, <2>5
        <3>2. Looked(v)' /\ Kept(v)'
            BY <1>2, <3>1, FewerListed DEF Listed
        <3>3. CASE u # w
            <4>1. u \in Active /\ GoesOn(u)
                BY <2>1, <2>5, <3>3
            <4> QED BY <1>20, <3>1, <4>1, FewerListed
        <3>4. CASE u = w
            BY <2>3, <3>2, <3>4 DEF KeptBoth
        <3> QED BY <3>2, <3>3, <3>4
    <2> QED BY <2>2, <2>3, <2>4, <2>5 DEF PortsSteady, Kept, KeptBoth
<1> QED BY <1>5, <1>6 DEF ChecksPort, next

LEMMA KeepsKeepsApart ==
    ASSUME RegistryTypeOK, Steady, PortsSteady, NEW w \in Active, Keeps(w)
    PROVE  PortsSteady'
<1> DEFINE me == command[w]  n == me.name
           kept == [me EXCEPT !.at = "clear", !.text = apps[n].manifest]
           new == [me EXCEPT !.at = "clear", !.text = me.commit.ships,
                             !.source.origin = "upstream"]
           next == IF me.commit.ships = NoManifest THEN kept ELSE new
<1>1. me \in Work /\ me.at = "keep" /\ n \in Name /\ me.commit \in Commits
      /\ me.kind = "refresh"
    BY DEF RegistryTypeOK, Active, Steady, Stages, Keeps, Work
<1>2. /\ Listed' = Listed /\ UNCHANGED unchecked
      /\ \A e \in Name : apps'[e].manifest = apps[e].manifest
    BY SameListed
<1>20. /\ Listed' \subseteq Listed /\ unchecked \subseteq unchecked'
       /\ \A e \in Listed' : apps'[e].manifest = apps[e].manifest
    BY <1>2 DEF Listed
<1>3. apps[n].manifest \in Text
    BY <1>1, EntryTypes
<1>4. next \in Work
    <2>1. kept \in Work
        BY <1>1, <1>3 DEF Work, Where
    <2>2. me.commit.ships # NoManifest => new \in Work
        <3>1. [me.source EXCEPT !.origin = "upstream"] \in Source
            BY <1>1 DEF Work, Source, Origin
        <3>2. me.commit.ships # NoManifest => me.commit.ships \in Text
            BY <1>1, CommitsAssumption DEF Text
        <3> QED BY <1>1, <3>1, <3>2 DEF Work, Where
    <2> QED BY <2>1, <2>2
<1>5. /\ next.at = "clear" /\ next.name = n /\ next.kind = "refresh"
      /\ next.commit = me.commit /\ next.unseen = me.unseen
      /\ me.commit.ships = NoManifest => next.text = apps[n].manifest
    BY <1>1 DEF Work
<1>6. Goes(w, next)
    BY DEF Keeps
<1> HIDE DEF next
<1>7. /\ command'[w] = next
      /\ \A v \in Active' : v # w => v \in Active /\ command'[v] = command[v] /\ GoesOn(v)
    BY <1>4, <1>6, OthersGoOn
<1>8. PortsApart'
    BY <1>2 DEF PortsSteady, PortsApart, SamePort, Listed
<1>9. Looked(w)'
    BY <1>5, <1>7 DEF Looked
<1>10. Keeping(w)' => command'[w].text = apps[n].manifest /\ Alone(w)
    BY <1>5, <1>7 DEF Keeping, Alone
<1>11. Kept(w)'
    <2> SUFFICES ASSUME Keeping(w)', NEW e \in Listed, e # n, Equal(apps[n].manifest, e)
                 PROVE  {n, e} \in unchecked
        BY <1>2, <1>5, <1>7, <1>10 DEF Kept, Equal, Listed
    <2> QED BY <1>1 DEF PortsSteady, PortsApart, SamePort, Equal, Listed
<1>12. ASSUME NEW v \in Active', v # w PROVE KeptBoth(v, w)' /\ KeptBoth(w, v)'
    <2> SUFFICES ASSUME Keeping(w)', Keeping(v)', command[v].name # n,
                        apps[n].manifest \in Manifest, command[v].text \in Manifest,
                        command[v].text.port # NoPort,
                        command[v].text.port = apps[n].manifest.port
                 PROVE  {command[v].name, n} \in unchecked /\ {n, command[v].name} \in unchecked
        BY <1>2, <1>5, <1>7, <1>10, <1>12 DEF KeptBoth
    <2>1. Keeping(v) /\ Kept(v)
        BY <1>7, <1>12 DEF Keeping, Alone, PortsSteady
    <2>2. n \in Listed \ {command[v].name} /\ Equal(command[v].text, n)
        BY <1>1 DEF Listed, Equal
    <2> QED BY <2>1, <2>2, Pairs DEF Kept
<1>13. ASSUME NEW v \in Active', NEW u \in Active', v # w
       PROVE  Looked(v)' /\ Kept(v)' /\ KeptBoth(v, u)'
    <2>1. v \in Active /\ GoesOn(v)
        BY <1>7, <1>13
    <2>2. Looked(v)' /\ Kept(v)'
        BY <1>2, <2>1, FewerListed DEF Listed
    <2>3. CASE u # w
        <3>1. u \in Active /\ GoesOn(u)
            BY <1>7, <1>13, <2>3
        <3> QED BY <1>20, <2>1, <3>1, FewerListed
    <2>4. CASE u = w
        BY <1>12, <1>13, <2>2, <2>4
    <2> QED BY <2>2, <2>3, <2>4
<1> QED BY <1>8, <1>9, <1>11, <1>12, <1>13 DEF PortsSteady, KeptBoth

\* A manifest that is emptied is one fewer; what was compared with it stays so.
LEMMA ClearsKeepsApart ==
    ASSUME RegistryTypeOK, Steady, PortsSteady, NEW w \in Active, Clears(w)
    PROVE  PortsSteady'
<1> DEFINE me == command[w]  n == me.name  next == [me EXCEPT !.at = "text"]
<1>1. me \in Work /\ me.at = "clear" /\ n \in Name
    BY DEF RegistryTypeOK, Active, Steady, Stages, Clears
<1>2. /\ apps'[n].manifest = Unreadable /\ \A m \in Name \ {n} : apps'[m] = apps[m]
      /\ UNCHANGED unchecked
    BY <1>1 DEF Clears, RegistryTypeOK
<1>3. Listed' \subseteq Listed /\ \A e \in Listed' : apps'[e].manifest = apps[e].manifest
    BY <1>2, MarkersAssumption DEF Listed
<1>4. /\ next \in Work /\ next.at = "text" /\ next.name = n /\ next.kind = me.kind
      /\ next.commit = me.commit /\ next.unseen = me.unseen /\ next.text = me.text
    BY <1>1 DEF Work, Where
<1>5. Goes(w, next)
    BY DEF Clears, GoesTo
<1> HIDE DEF next
<1>6. \A v \in Active' : v \in Active /\ GoesOn(v)
    <2>1. GoesOn(w)
        BY <1>1, <1>4, <1>5, OthersGoOn DEF GoesOn
    <2> QED BY <1>4, <1>5, <2>1, OthersGoOn
<1> QED BY <1>2, <1>3, <1>6, PortsGoOn

LEMMA WritesKeepsApart ==
    ASSUME RegistryTypeOK, Steady, PortsSteady, NEW w \in Active, Writes(w)
    PROVE  PortsSteady'
<1> DEFINE me == command[w]  n == me.name  next == [me EXCEPT !.at = "record"]
           pairs(S) == {{n, e} : e \in S \ {n}}
           retained == me.commit.ships = NoManifest /\ Alone(w)
<1>1. me \in Work /\ me.at = "text" /\ n \in Name
    BY DEF RegistryTypeOK, Active, Steady, Stages, Writes
<1>2. apps'[n].manifest = me.text /\ \A m \in Name \ {n} : apps'[m] = apps[m]
    BY <1>1 DEF Writes, RegistryTypeOK
<1>3. /\ next \in Work /\ next.at = "record"
    BY <1>1 DEF Work, Where
<1>4. Goes(w, next)
    BY DEF Writes, GoesTo
<1> HIDE DEF next
<1>5. /\ command'[w].at = "record"
      /\ \A v \in Active' : v # w => v \in Active /\ command'[v] = command[v]
    BY <1>3, <1>4, OthersGoOn
<1>6. unchecked' = IF me.kind # "refresh"
                   THEN {p \in unchecked : n \notin p} \cup pairs(me.unseen)
                   ELSE IF retained THEN unchecked ELSE unchecked \cup pairs(Name)
    BY DEF Writes
<1>7. ASSUME NEW S, NEW e \in S, e # n PROVE {n, e} \in pairs(S) /\ {e, n} \in pairs(S)
    BY <1>7, Pairs
<1> HIDE DEF pairs
\* Pairs of other entries are as they were.
<1>8. ASSUME NEW a, NEW b, a # n, b # n, {a, b} \in unchecked PROVE {a, b} \in unchecked'
    BY <1>6, <1>8
\* What was written has a port that was compared, or the pair says that it was not.
<1>9. ASSUME NEW e \in Listed, e # n, Equal(me.text, e)
      PROVE  {n, e} \in unchecked' /\ {e, n} \in unchecked'
    <2>1. Looked(w) /\ Kept(w)
        BY DEF PortsSteady
    <2>2. CASE me.kind # "refresh"
        BY <1>1, <1>6, <1>7, <1>9, <2>1, <2>2 DEF Looked
    <2>3. CASE me.kind = "refresh" /\ retained
        <3>1. Keeping(w)
            BY <1>1, <2>3 DEF Keeping
        <3> QED BY <1>6, <1>9, <2>1, <2>3, <3>1, Pairs DEF Kept
    <2>4. CASE me.kind = "refresh" /\ ~retained
        <3>1. e \in Name
            BY DEF Listed
        <3> QED BY <1>6, <1>7, <1>9, <2>4, <3>1
    <2> QED BY <2>2, <2>3, <2>4
<1>10. PortsApart'
    <2> SUFFICES ASSUME NEW d \in Listed', NEW e \in Listed', d # e, SamePort(d, e)'
                 PROVE  {d, e} \in unchecked'
        BY DEF PortsApart
    <2>1. d # n /\ e # n => d \in Listed /\ e \in Listed /\ SamePort(d, e)
        BY <1>2 DEF Listed, SamePort
    <2>2. CASE d # n /\ e # n
        BY <1>8, <2>1, <2>2 DEF PortsSteady, PortsApart
    <2>3. CASE d = n
        <3>1. e \in Listed /\ Equal(me.text, e)
            BY <1>2, <2>3 DEF Listed, SamePort, Equal
        <3> QED BY <1>9, <2>3, <3>1
    <2>4. CASE e = n
        <3>1. d \in Listed /\ Equal(me.text, d)
            BY <1>2, <2>4 DEF Listed, SamePort, Equal
        <3> QED BY <1>9, <2>4, <3>1
    <2> QED BY <2>2, <2>3, <2>4
<1>11. ASSUME NEW v \in Active', v # w
       PROVE  /\ v \in Active /\ command'[v] = command[v]
              /\ n \in command[v].unseen /\ command[v].name \in me.unseen
              /\ Keeping(v) => command[v].name # n
              /\ command[v].name \in Name
    <2>1. v \in Active /\ command'[v] = command[v]
        BY <1>5, <1>11
    <2> QED BY <1>11, <2>1 DEF Steady, Seen, Stages, Keeping, Alone
<1>12. ASSUME NEW v \in Active', v # w PROVE Looked(v)'
    <2>1. Looked(v)
        BY <1>11, <1>12 DEF PortsSteady
    <2> QED BY <1>2, <1>11, <1>12, <2>1 DEF Looked, Listed, Equal
\* The pair of what is written and of what another keeps is counted, whoever writes it.
<1>13. ASSUME NEW v \in Active', v # w, Keeping(v), me.text \in Manifest,
              command[v].text \in Manifest, me.text.port # NoPort,
              me.text.port = command[v].text.port
       PROVE  {command[v].name, n} \in unchecked'
    <2>1. command[v].name # n /\ command[v].name \in me.unseen /\ command[v].name \in Name
        BY <1>11, <1>13
    <2>2. CASE me.kind # "refresh" \/ ~retained
        BY <1>6, <1>7, <2>1, <2>2
    <2>3. CASE me.kind = "refresh" /\ retained
        <3>1. Keeping(w) /\ KeptBoth(v, w)
            BY <1>1, <1>11, <1>13, <2>3 DEF Keeping, PortsSteady
        <3> QED BY <1>6, <1>13, <2>1, <2>3, <3>1 DEF KeptBoth
    <2> QED BY <2>2, <2>3
<1>14. ASSUME NEW v \in Active', v # w PROVE Kept(v)'
    <2> SUFFICES ASSUME Keeping(v)', NEW e \in Listed', e # command[v].name,
                        Equal(command[v].text, e)'
                 PROVE  {command[v].name, e} \in unchecked'
        BY <1>11, <1>14 DEF Kept, Equal
    <2>1. Keeping(v) /\ Kept(v) /\ command[v].name # n
        BY <1>11, <1>14 DEF Keeping, Alone, PortsSteady
    <2>2. CASE e = n
        BY <1>2, <1>11, <1>13, <1>14, <2>1, <2>2 DEF Equal, Listed
    <2>3. CASE e # n
        <3>1. e \in Listed /\ Equal(command[v].text, e)
            BY <1>2, <1>11, <1>14, <2>3 DEF Listed, Equal
        <3> QED BY <1>8, <2>1, <2>3, <3>1 DEF Kept
    <2> QED BY <2>2, <2>3
<1>15. ASSUME NEW v \in Active', NEW u \in Active', v # w, u # w PROVE KeptBoth(v, u)'
    <2>1. KeptBoth(v, u)
        BY <1>11, <1>15 DEF PortsSteady
    <2> QED BY <1>8, <1>11, <1>15, <2>1 DEF KeptBoth, Keeping, Alone
<1>16. Looked(w)' /\ ~Keeping(w)'
    BY <1>5 DEF Looked, Keeping
<1> QED BY <1>10, <1>12, <1>14, <1>15, <1>16 DEF PortsSteady, Kept, KeptBoth

LEMMA StepKeepsApart ==
    ASSUME RegistryTypeOK, Steady, PortsSteady, NEW w \in Command, Step(w)
    PROVE  PortsSteady'
<1> DEFINE me == command[w]
<1>1. w \in Active /\ me \in Work
    BY DEF RegistryTypeOK, Active, Step, PublishLooks, RegisterLooks, ChecksPort, Rereads,
           Keeps, Clears, Writes, Records, Stamps, PlacesManifest, PlacesProvenance, Pushes,
           Killed
<1>2. ASSUME NEW next \in Work, Goes(w, next), next.at \notin {"clear", "text"},
             PublishLooks(w) \/ RegisterLooks(w) \/ Rereads(w) \/ Stamps(w)
             \/ PlacesManifest(w) \/ PlacesProvenance(w) \/ Pushes(w) \/ Records(w)
             \/ Killed(w)
      PROVE  PortsSteady'
    <2>1. Listed' = Listed /\ UNCHANGED unchecked
          /\ \A e \in Name : apps'[e].manifest = apps[e].manifest
        BY <1>1, <1>2, SameListed
    <2>2. \A v \in Active' : \/ v \in Active /\ GoesOn(v)
                             \/ command'[v].at \notin {"clear", "text"}
        BY <1>1, <1>2, OthersGoOn
    <2> QED BY <2>1, <2>2, PortsGoOn DEF Listed
<1>3. RegistryTypeOK'
    BY StepTypes DEF Steady
<1>4. command'[w] \in Work
    BY <1>3 DEF RegistryTypeOK
<1>5. CASE PublishLooks(w) \/ RegisterLooks(w) \/ Rereads(w) \/ Stamps(w)
           \/ PlacesManifest(w) \/ PlacesProvenance(w) \/ Pushes(w) \/ Records(w) \/ Killed(w)
    <2>1. PICK next : Goes(w, next) /\ next.at \notin {"clear", "text"}
        <3>1. Idle.at = "idle"
            BY DEF Idle
        <3>2. CASE PublishLooks(w)
            <4>1. [me EXCEPT !.at = "register"].at = "register"
                  /\ [me EXCEPT !.at = "register", !.replace = TRUE].at = "register"
                BY <1>1 DEF Work
            <4> QED BY <3>1, <3>2, <4>1 DEF PublishLooks, Ends, GoesTo
        <3>3. CASE RegisterLooks(w) \/ Pushes(w) \/ Killed(w) \/ Records(w)
            <4>1. [me EXCEPT !.at = "port"].at = "port"
                  /\ [me EXCEPT !.at = "manifest"].at = "manifest"
                BY <1>1 DEF Work
            <4> QED BY <3>1, <3>3, <4>1 DEF RegisterLooks, Pushes, Killed, Records, Ends, GoesTo
        <3>4. CASE Rereads(w) \/ Stamps(w) \/ PlacesManifest(w) \/ PlacesProvenance(w)
            <4>1. ASSUME NEW source, NEW text
                  PROVE  /\ [me EXCEPT !.at = "keep", !.source = source].at = "keep"
                         /\ [me EXCEPT !.at = "record", !.source = source].at = "record"
                         /\ [me EXCEPT !.at = "push", !.source = source].at = "push"
                         /\ [me EXCEPT !.at = "provenance", !.text = text].at = "provenance"
                BY <1>1 DEF Work
            <4> QED BY <3>4, <4>1 DEF Rereads, Stamps, PlacesManifest, PlacesProvenance
        <3> QED BY <1>5, <3>2, <3>3, <3>4
    <2>2. next = command'[w]
        BY <2>1 DEF Goes, RegistryTypeOK
    <2> QED BY <1>2, <1>4, <1>5, <2>1, <2>2
<1> QED BY <1>1, <1>5, ChecksPortKeepsApart, KeepsKeepsApart, ClearsKeepsApart,
           WritesKeepsApart DEF Step

LEMMA StartKeepsApart ==
    ASSUME RegistryTypeOK, Steady, PortsSteady, NEW w \in Command, NEW new \in Work,
           new.name \in Name, Starts(w, new), new.at \notin {"clear", "text"}
    PROVE  PortsSteady'
<1>1. Listed' = Listed /\ UNCHANGED <<apps, unchecked>>
    BY DEF Starts, Listed
<1>2. command'[w].at \notin {"clear", "text"}
    <2> DEFINE seen == {command[u].name : u \in Active}
    <2>1. command'[w] = [new EXCEPT !.unseen = seen]
        BY DEF Starts
    <2> HIDE DEF seen
    <2> QED BY <2>1 DEF Work
<1>3. ASSUME NEW v \in Active', v # w PROVE v \in Active /\ GoesOn(v)
    <2>1. v \in Active
        <3>1. v \notin Active => command'[v] = command[v]
            BY <1>3 DEF Starts, Active
        <3> QED BY <3>1 DEF Active
    <2>2. command[v] \in Work
        BY <2>1 DEF RegistryTypeOK, Active
    <2>3. command'[v] = [command[v] EXCEPT !.unseen = @ \cup {new.name}]
        BY <1>3, <2>1 DEF Starts, Active
    <2> QED BY <2>1, <2>2, <2>3 DEF GoesOn, Work
<1> QED BY <1>1, <1>2, <1>3, PortsGoOn

\* Two applications take one port only past the check.
THEOREM PortsStayApart == Spec => []PortsApart
<1>1. Init => PortsSteady
    BY MarkersAssumption
    DEF Init, PortsSteady, PortsApart, Listed, Active, Idle
<1>2. RegistryTypeOK /\ Steady /\ PortsSteady /\ [Next]_vars => PortsSteady'
    <2> SUFFICES ASSUME RegistryTypeOK, Steady, PortsSteady, [Next]_vars PROVE PortsSteady'
        OBVIOUS
    <2>1. ASSUME NEW w \in Command, Begins(w) PROVE PortsSteady'
        <3>1. ASSUME NEW kind \in {"add", "publish"}, NEW c \in Commits, NEW g \in Given,
                     NEW replace \in BOOLEAN, c.ships # Unreadable,
                     Starts(w, Registering(kind, c, g, replace))
              PROVE  PortsSteady'
            <4> DEFINE new == Registering(kind, c, g, replace)
            <4>1. new \in Work
                BY <3>1, NewWork
            <4>2. new.name = Described(c, g).name /\ new.at \in {"look", "register"}
                BY DEF Registering, Idle
            <4>3. new.name \in Name
                BY <3>1, <4>2, FetchTypes
            <4> HIDE DEF new
            <4> QED BY <3>1, <4>1, <4>2, <4>3, StartKeepsApart DEF new
        <3>2. ASSUME NEW n \in Name, NEW c \in Commits, NEW where \in {"reread", "stamp"},
                     NEW kind \in {"refresh", "send"},
                     Starts(w, [Idle EXCEPT !.at = where, !.kind = kind, !.name = n,
                                            !.commit = c])
              PROVE  PortsSteady'
            <4> DEFINE new == [Idle EXCEPT !.at = where, !.kind = kind, !.name = n,
                                           !.commit = c]
            <4>1. new \in Work
                BY IdleIsWork DEF Work, Where
            <4>2. new.name = n /\ new.at = where
                BY DEF Idle
            <4> HIDE DEF new
            <4> QED BY <3>2, <4>1, <4>2, StartKeepsApart DEF new
        <3>3. CASE \E n \in Name, c \in Commits : RefreshStarts(w, n, c)
            BY <3>2, <3>3 DEF RefreshStarts
        <3>4. CASE \E n \in Name : SendStarts(w, n)
            BY <3>2, <3>4 DEF SendStarts, Source
        <3> QED BY <2>1, <3>1, <3>3, <3>4 DEF Begins, AddStarts, PublishStarts
    <2>2. ASSUME NEW w \in Command, Step(w) PROVE PortsSteady'
        BY <2>2, StepKeepsApart
    <2>3. CASE UNCHANGED vars
        BY <2>3 DEF vars, PortsSteady, PortsApart, SamePort, Looked, Kept, KeptBoth, Keeping,
                    Equal, Listed, Active, Alone
    <2> QED BY <2>1, <2>2, <2>3 DEF Next
<1>3. PortsSteady => PortsApart
    BY DEF PortsSteady
<1> QED BY <1>1, <1>2, <1>3, RegistrySteady, PTL DEF Spec
=============================================================================
