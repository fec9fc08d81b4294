---------------------------- MODULE InstanceFleet ----------------------------
(***************************************************************************)
(* The commands an operator gives to the instances of the register, and the*)
(* boxes they reach: instances/selector.py and instances/transport.py.     *)
(* Two operators may be at work on one box, the register may be edited and *)
(* a key taken away while a command runs, a box may go down, and a command *)
(* that waited too long goes away while what it started on the box does not*)
(* stop, a push among it.                                                  *)
(*                                                                         *)
(* A box, its git and its Gradle pipeline are external: they are modelled  *)
(* by what the commands ask of them.  The line of an exec is the operator's*)
(* own, and may do to the box's git and platform what it likes.            *)
(***************************************************************************)
EXTENDS InstanceRegister, Naturals

CONSTANTS
    Files,       \* the states of the register's file
    Text,        \* the lines of each, or NoFile
    Paths,       \* keys and directories of the operators' machine
    Box, Commit, Branch, Operator,
    NoBranch,    \* a branch the box does not have
    Nobody,      \* the operator of a command whose client is gone
    Given,       \* the --branch of a delivery, None where it is left out
    None,        \* no commit, no command, no exit code yet
    Ancestry,    \* a commit's ancestors, itself among them
    Delivery,    \* the branch delivery-<sha> of a commit
    Commands,    \* bound on the commands that are given
    Upsets       \* bound on what happens to the boxes, the register and the disk, and
                 \* on what the lines of exec do

VARIABLES
    register,  \* instances.local.env
    disk,      \* which of Paths exist
    boxes,     \* what is on each box
    jobs,      \* what runs on the boxes for a command, or for one that is gone
    cmd,       \* where each operator's command stands
    exit,      \* the exit code of each operator's last command
    given,     \* how many commands were given
    upset,     \* how much happened that no command did
    overruled, \* branches of boxes that a forcing or deleting push, or the line of an
               \* exec, took from where they were: history
    delivered  \* the commits deliveries to a box ended well for, by a branch that was
               \* not overruled and since a line of exec last moved its head: history

client == <<cmd, exit, given>>
machine == <<register, disk, upset>>
history == <<overruled, delivered>>
fleet == <<machine, boxes, jobs, client, history>>

-----------------------------------------------------------------------------
(* Commits and boxes.                                                      *)

Contains(c, d) == d \in Ancestry[c]

ASSUME HistoryAssumption ==
    /\ \A c \in Commit : Contains(c, c)
    /\ \A c, d, e \in Commit : Contains(c, d) /\ Contains(d, e) => Contains(c, e)

ASSUME BoundsAssumption == Commands \in Nat /\ Upsets \in Nat

ASSUME NamesAssumption ==
    /\ \A c \in Commit : Delivery[c] \in Branch
    /\ Given \subseteq Branch \cup {None}
    /\ None \notin Commit \cup Branch /\ NoBranch \notin Commit
    /\ Nobody \notin Operator

\* serving is the build the platform answers with, None while it is silent.
BoxState == [up : BOOLEAN, head : Commit, branches : [Branch -> Commit \cup {NoBranch}],
             serving : Commit \cup {None}]

Verb == {"push", "merge", "gradle", "exec"}
Job == [of : Operator \cup {Nobody}, box : Box, verb : Verb, branch : Branch \cup {None},
        sha : Commit \cup {None}, force : BOOLEAN, from : Commit]

\* --sha goes into the refspec as it is given: a commit, one with a + before it, or
\* nothing, which deletes the branch.
Plain(c) == c.sha # None /\ ~c.force

Started == {"exec", "gradle", "deliver"}

\* What the client of a command has to say to its box.
Stage == {"push", "merge", "gradle", "exec", "waiting"}

\* What load returns for each file it does not refuse.
Loaded == [f \in {g \in Files : Loads(Text[g])} |-> Registry(Text[f])]

\* Each command loads the register for itself.
Known == IF register \in DOMAIN Loaded THEN DOMAIN Loaded[register] ELSE {}

\* An instance as some register had it: the file and the name.
Declared(i) == Loaded[i[1]][i[2]]

\* ssh_target.
Host(i) == Field(Declared(i), "SSH_HOST")

\* require_ssh: the key is checked only where the register names one.
CanSsh(i) ==
    /\ IsServer(Declared(i))
    /\ ~IsPlanned(Declared(i))
    /\ Field(Declared(i), "SSH_KEY") \in {""} \cup disk

\* The live servers of all registers, and what is asked of them.
Reachable ==
    {i \in Files \X LegalNames :
        /\ i[1] \in DOMAIN Loaded /\ i[2] \in DOMAIN Loaded[i[1]]
        /\ IsServer(Declared(i)) /\ ~IsPlanned(Declared(i))}

Command == [at : Stage, to : Reachable, sha : Commit \cup {None}, force : BOOLEAN,
            branch : Branch \cup {None}]

ASSUME CommandAssumption == None \notin Command

ASSUME HostsAssumption == \A i \in Reachable : Host(i) \in Box

\* deliver_commands, and git_ssh_command, which refuses an environment that would
\* override the register's key.
CanDeliver(i) ==
    /\ CanSsh(i)
    /\ Field(Declared(i), "SOURCE_CHECKOUT") \in disk
    /\ "GIT_SSH_COMMAND" \notin disk

Init ==
    /\ register \in Files
    /\ disk = Paths \ {"GIT_SSH_COMMAND"}
    /\ \E c \in Commit :
          /\ \A d \in Commit : Contains(d, c)
          /\ boxes = [b \in Box |-> [up |-> TRUE, head |-> c, serving |-> c,
                                     branches |-> [r \in Branch |-> NoBranch]]]
    /\ jobs = {}
    /\ cmd = [o \in Operator |-> None]
    /\ exit = [o \in Operator |-> None]
    /\ given = 0 /\ upset = 0
    /\ overruled = {}
    /\ delivered = [b \in Box |-> {}]

-----------------------------------------------------------------------------
(* A command begins: main of the selector.                                 *)

Exit(o, code) ==
    /\ exit' = [exit EXCEPT ![o] = code]
    /\ cmd' = [cmd EXCEPT ![o] = None]

Begin(o, stage, i, sha, force, branch) ==
    /\ cmd' = [cmd EXCEPT ![o] = [at |-> stage, to |-> i, sha |-> sha, force |-> force,
                                  branch |-> branch]]
    /\ exit' = [exit EXCEPT ![o] = None]

Count == given < Commands /\ given' = given + 1

Asked(o) ==
    /\ cmd[o] = None /\ Count
    /\ UNCHANGED <<machine, boxes, jobs, history>>

\* The register, the name, the kind, the lifecycle, the key and the source checkout
\* let the command run; gradle_command, exec and the two halves of a delivery.
Allowed(name, verb) ==
    /\ register \in DOMAIN Loaded
    /\ verb # "list" => name \in Known
    /\ verb \in {"exec", "gradle"} => CanSsh(<<register, name>>)
    /\ verb = "deliver" => CanDeliver(<<register, name>>)

\* RegistryError or TransportError.
Refuse(o, name, verb) == Asked(o) /\ ~Allowed(name, verb) /\ Exit(o, 2)

\* list and show print what the register says; with --print the others print what
\* they would run.
Look(o, name, verb) == Asked(o) /\ Allowed(name, verb) /\ Exit(o, 0)

\* exec and gradle: the register is not read again after this.
Run(o, name, verb) ==
    Asked(o) /\ Allowed(name, verb) /\ Begin(o, verb, <<register, name>>, None, FALSE, None)

\* Mutant: no branch name is made up where none is given.
DeliverAsGiven(o, name, sha, branch) ==
    /\ Asked(o) /\ Allowed(name, "deliver")
    /\ Begin(o, "push", <<register, name>>, sha, FALSE, branch)

\* deliver: both halves are worded from the instance as the register has it now.
Deliver(o, name, sha, branch) ==
    /\ Asked(o) /\ Allowed(name, "deliver")
    /\ Begin(o, "push", <<register, name>>, sha, FALSE,
             IF branch = None THEN Delivery[sha] ELSE branch)

\* The same with a + before the commit, or without one.  (Where no branch is given it
\* is one of that odd name, which no other delivery has.)
DeliverAsWorded(o, name, sha, force, branch) ==
    /\ sha = None \/ force
    /\ Asked(o) /\ Allowed(name, "deliver")
    /\ Begin(o, "push", <<register, name>>, sha, force, branch)

-----------------------------------------------------------------------------
(* The command runs: transport.run and what it reaches.                    *)

At(o, stages) == cmd[o] # None /\ cmd[o].at \in stages

Goto(o, stage) == cmd' = [cmd EXCEPT ![o].at = stage] /\ UNCHANGED <<exit, given>>

Done(o, code) == Exit(o, code) /\ UNCHANGED given

\* Mutant: git push --force.
LandsForced(p, tip) == p.sha # None \/ tip # NoBranch

\* git push without force: a branch that is there only moves forward, unless the
\* refspec says +.
Lands(p, tip) ==
    IF p.sha = None THEN tip # NoBranch
    ELSE p.force \/ tip = NoBranch \/ Contains(p.sha, tip)

\* The branch of the push p moves, or is gone.
Update(p, b) ==
    LET tip == boxes[b].branches[p.branch]
    IN  /\ Lands(p, tip)
        /\ boxes' = [boxes EXCEPT ![b].branches[p.branch] =
                        IF p.sha = None THEN NoBranch ELSE p.sha]
        /\ overruled' = IF Plain(p) THEN overruled ELSE overruled \cup {<<b, p.branch>>}

Push(o) ==
    LET b == Host(cmd[o].to)
    IN  /\ At(o, {"push"})
        /\ boxes[b].up
        /\ Update(cmd[o], b)
        /\ \/ Goto(o, "merge")
           \/ Done(o, 1)     \* the branch moved, and the answer was lost
        /\ UNCHANGED <<machine, jobs, delivered>>

\* The job that a command leaves on box b.
JobOf(o, b, verb) ==
    [of |-> o, box |-> b, verb |-> verb, branch |-> cmd[o].branch, sha |-> cmd[o].sha,
     force |-> cmd[o].force, from |-> boxes[b].head]

\* The timeout ends git on this machine; the box may take the push yet.
PushGivesUp(o) ==
    LET b == Host(cmd[o].to)
    IN  /\ At(o, {"push"})
        /\ boxes[b].up
        /\ jobs' = jobs \cup {[JobOf(o, b, "push") EXCEPT !.of = Nobody]}
        /\ Done(o, 1)
        /\ UNCHANGED <<machine, boxes, history>>

\* Mutant: the merge is sent whether or not the push landed.
PushFailureIgnored(o) ==
    /\ At(o, {"push"})
    /\ Goto(o, "merge")
    /\ UNCHANGED <<machine, boxes, jobs, history>>

\* Refused by the box, unreachable (255), not answered in time (124): all exit 1.
PushFails(o) ==
    /\ At(o, {"push"})
    /\ Done(o, 1)
    /\ UNCHANGED <<machine, boxes, jobs, history>>

\* git or ssh is not on this machine.
ToolMissing(o) ==
    /\ At(o, {"push", "merge", "gradle", "exec"})
    /\ Done(o, 2)
    /\ UNCHANGED <<machine, boxes, jobs, history>>

\* The box takes the command line.  gradle builds what is checked out now.
Connect(o) ==
    LET b == Host(cmd[o].to)
    IN  /\ At(o, {"merge", "gradle", "exec"})
        /\ boxes[b].up
        /\ jobs' = jobs \cup {JobOf(o, b, cmd[o].at)}
        /\ Goto(o, "waiting")
        /\ UNCHANGED <<machine, boxes, history>>

NoConnection(o) ==
    /\ At(o, {"merge", "gradle", "exec"})
    /\ Done(o, 1)
    /\ UNCHANGED <<machine, boxes, jobs, history>>

\* Mutant: no timeout.
NeverGivesUp(o) ==
    /\ At(o, {"waiting"})
    /\ FALSE
    /\ UNCHANGED <<machine, boxes, jobs, client, history>>

\* The timeout, or the connection is cut: what was started runs on.
GiveUp(o) ==
    /\ At(o, {"waiting"})
    /\ Done(o, 1)
    /\ jobs' = {[j EXCEPT !.of = IF @ = o THEN Nobody ELSE @] : j \in jobs}
    /\ UNCHANGED <<machine, boxes, history>>

\* What the job was for hears how it went.
Answer(j, ok) ==
    IF j.of = Nobody THEN UNCHANGED <<client, delivered>>
    ELSE /\ Done(j.of, IF ok THEN 0 ELSE 1)
         /\ delivered' = IF ok /\ j.verb = "merge" /\ <<j.box, j.branch>> \notin overruled
                         THEN [delivered EXCEPT ![j.box] = @ \cup {j.sha}] ELSE delivered

\* Mutant: git reset --hard <branch>.
ResetHard(j) ==
    LET tip == boxes[j.box].branches[j.branch]
    IN  tip # NoBranch /\ boxes' = [boxes EXCEPT ![j.box].head = tip]

\* git merge --ff-only <branch>: already there, or straight ahead.
Merge(j) ==
    LET head == boxes[j.box].head
        tip == boxes[j.box].branches[j.branch]
    IN  /\ tip # NoBranch
        /\ Contains(tip, head) \/ Contains(head, tip)
        /\ boxes' = [boxes EXCEPT ![j.box].head = IF Contains(tip, head) THEN tip ELSE @]

MergeEnds(j) ==
    /\ j \in jobs /\ j.verb = "merge"
    /\ jobs' = jobs \ {j}
    /\ \/ Merge(j) /\ Answer(j, TRUE)
       \/ UNCHANGED boxes /\ Answer(j, FALSE)   \* or local changes are in the way
    /\ UNCHANGED <<machine, overruled>>

RunEnds(j) ==
    /\ j \in jobs /\ j.verb \in {"gradle", "exec"}
    /\ jobs' = jobs \ {j}
    /\ \/ /\ boxes' = IF j.verb = "gradle" THEN [boxes EXCEPT ![j.box].serving = j.from]
                      ELSE boxes
          /\ Answer(j, TRUE)
       \/ UNCHANGED boxes /\ Answer(j, FALSE)
    /\ UNCHANGED <<machine, overruled>>

\* A push whose client is gone lands after all, or does not.
PushEnds(j) ==
    /\ j \in jobs /\ j.verb = "push"
    /\ jobs' = jobs \ {j}
    /\ Update(j, j.box) \/ UNCHANGED <<boxes, overruled>>
    /\ UNCHANGED <<machine, client, delivered>>

-----------------------------------------------------------------------------
(* The world around the commands.                                          *)

Upset == upset < Upsets /\ upset' = upset + 1

\* The line of an exec, as it is sent, moves the checkout or a branch, or starts and
\* stops the platform; also when nobody waits for it any more.
Rework(j) ==
    /\ j \in jobs /\ j.verb = "exec"
    /\ Upset
    /\ \/ /\ \E c \in Commit : boxes' = [boxes EXCEPT ![j.box].head = c]
          /\ delivered' = [delivered EXCEPT ![j.box] = {}]
          /\ UNCHANGED overruled
       \/ \E r \in Branch, c \in Commit \cup {NoBranch} :
             /\ boxes' = [boxes EXCEPT ![j.box].branches[r] = c]
             /\ overruled' = overruled \cup {<<j.box, r>>}
             /\ UNCHANGED delivered
       \/ /\ \E s \in Commit \cup {None} : boxes' = [boxes EXCEPT ![j.box].serving = s]
          /\ UNCHANGED history
    /\ UNCHANGED <<register, disk, jobs, client>>

BoxDown(b) ==
    /\ boxes[b].up
    /\ Upset
    /\ boxes' = [boxes EXCEPT ![b].up = FALSE]
    /\ jobs' = {j \in jobs : j.box # b}
    /\ UNCHANGED <<register, disk, client, history>>

BoxUp(b) ==
    /\ ~boxes[b].up
    /\ \E s \in {boxes[b].serving, None} :
          boxes' = [boxes EXCEPT ![b].up = TRUE, ![b].serving = s]
    /\ UNCHANGED <<machine, jobs, client, history>>

EditRegister ==
    /\ Upset
    /\ register' \in Files
    /\ UNCHANGED <<disk, boxes, jobs, client, history>>

\* A key is extracted or taken away, GIT_SSH_COMMAND set or unset.
Rearrange ==
    /\ Upset
    /\ \E p \in Paths : disk' = IF p \in disk THEN disk \ {p} ELSE disk \cup {p}
    /\ UNCHANGED <<register, boxes, jobs, client, history>>
-----------------------------------------------------------------------------
Next ==
    \/ \E o \in Operator :
          \/ \E n \in LegalNames :
                \/ \E v \in {"list", "show"} \cup Started : Look(o, n, v) \/ Refuse(o, n, v)
                \/ \E v \in Started \ {"deliver"} : Run(o, n, v)
                \/ \E c \in Commit, r \in Given : Deliver(o, n, c, r)
                \/ \E c \in Commit \cup {None}, f \in BOOLEAN, r \in Given \ {None} :
                      DeliverAsWorded(o, n, c, f, r)
          \/ Push(o) \/ PushFails(o) \/ PushGivesUp(o) \/ ToolMissing(o)
          \/ Connect(o) \/ NoConnection(o) \/ GiveUp(o)
    \/ \E j \in jobs : MergeEnds(j) \/ RunEnds(j) \/ PushEnds(j) \/ Rework(j)
    \/ \E b \in Box : BoxDown(b) \/ BoxUp(b)
    \/ EditRegister \/ Rearrange

\* subprocess.run comes back, or its timeout ends it; nothing is promised of boxes.
Fairness ==
    \A o \in Operator :
        WF_fleet(PushFails(o)) /\ WF_fleet(NoConnection(o)) /\ WF_fleet(GiveUp(o))

Spec == Init /\ [][Next]_fleet /\ Fairness

-----------------------------------------------------------------------------
TypeOK ==
    /\ register \in Files
    /\ disk \subseteq Paths
    /\ boxes \in [Box -> BoxState]
    /\ jobs \subseteq Job
    /\ \A j \in jobs : j.verb \in {"push", "merge"} => j.branch \in Branch
    /\ cmd \in [Operator -> Command \cup {None}]
    /\ \A o \in Operator : At(o, {"push", "merge"}) => cmd[o].branch \in Branch
    /\ exit \in [Operator -> {0, 1, 2, None}]
    /\ given \in 0 .. Commands /\ upset \in 0 .. Upsets
    /\ overruled \subseteq Box \X Branch
    /\ delivered \in [Box -> SUBSET Commit]

\* The branch of p leads to its commit.
Leads(p, b) ==
    LET tip == boxes[b].branches[p.branch]
    IN  tip # NoBranch /\ Contains(tip, p.sha)

\* A merge runs on a box only after the push of its own delivery landed there, and
\* its branch still leads to the commit that was to be delivered: the push is the
\* guard of the merge, whatever a second delivery does to a branch both were given,
\* whatever push lands late, and whatever box the register names by now; unless a
\* delivery that says to force or to delete, or the line of an exec, took the branch.
MergeFollowsPush ==
    /\ \A j \in jobs : j.verb = "merge" /\ <<j.box, j.branch>> \notin overruled => Leads(j, j.box)
    /\ \A o \in Operator :
          LET b == Host(cmd[o].to)
          IN  At(o, {"merge"}) /\ <<b, cmd[o].branch>> \notin overruled => Leads(cmd[o], b)

\* Every commit a delivery ended with exit code 0 for is in the history the box has
\* checked out, then and until the line of an exec moves its head, whatever else is
\* delivered: unless the branch it came by was overruled before it was merged.
DeliveredMeansThere ==
    \A b \in Box, c \in Commit : c \in delivered[b] => Contains(boxes[b].head, c)

Forward ==
    \A b \in Box :
      /\ Contains(boxes'[b].head, boxes[b].head)
      /\ \A r \in Branch :
            boxes[b].branches[r] # NoBranch /\ <<b, r>> \notin overruled' =>
               /\ boxes'[b].branches[r] # NoBranch
               /\ Contains(boxes'[b].branches[r], boxes[b].branches[r])

\* A checkout and the branches delivered to it only ever move forward: no push or
\* merge, early or late, no build and no crash takes a commit away that a box had.
\* What an exec runs there may, and a delivery worded to force or to delete may take
\* its own branch back.
OnlyForward == [][(\E j \in jobs : Rework(j)) \/ Forward]_fleet

\* Every command comes back to its operator, also from a box that never answers.
CommandReturns == \A o \in Operator : cmd[o] # None ~> cmd[o] = None
=============================================================================
