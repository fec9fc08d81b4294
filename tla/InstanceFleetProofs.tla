-------------------------- MODULE InstanceFleetProofs --------------------------
(***************************************************************************)
(* Proofs about the commands of the instance selector, for every history of*)
(* commits, every register and every number of boxes and operators, with   *)
(* the probe beside them: types, the push as the guard of the merge, and   *)
(* that what a delivery reported delivered stays on the box.               *)
(*                                                                         *)
(* The inductive invariant is the conjunction of the three: a merge may be *)
(* reported only because the branch it takes contains the commit, and that *)
(* stays so because every step either moves a branch ahead or overrules it:*)
(* a delivery worded to force or to delete does, and the line of an exec.  *)
(* The probe has an invariant of its own: its readings tell how it found   *)
(* the boxes.                                                              *)
(***************************************************************************)
EXTENDS InstanceProbe, TLAPS

-----------------------------------------------------------------------------
(* The register.                                                           *)

\* In a register that is not refused every line is read as it stands, wherever it is in
\* the file: no other line speaks for its field.
THEOREM LinesAreRead ==
    ASSUME NEW lines, Readable(lines), NEW i \in DOMAIN lines
    PROVE  /\ lines[i][2] \in DOMAIN Fields(lines, lines[i][1])
           /\ Fields(lines, lines[i][1])[lines[i][2]] = lines[i][3]
<1> DEFINE of == {k \in DOMAIN lines : lines[k][1] = lines[i][1]}
           best == CHOOSE k \in of : lines[k][2] = lines[i][2]
<1>1. i \in of
  OBVIOUS
<1>2. best \in of /\ lines[best][2] = lines[i][2]
  BY <1>1
<1>3. best = i
  BY <1>2 DEF Readable
<1>4. /\ lines[i][2] \in {lines[k][2] : k \in of}
      /\ Fields(lines, lines[i][1])
           = [f \in {lines[k][2] : k \in of} |-> lines[CHOOSE k \in of : lines[k][2] = f][3]]
  BY <1>1 DEF Fields
<1> QED
  BY <1>3, <1>4

\* What load returns is whole: whoever is in the register has a legal name and declares
\* all his kind requires, so that no command finds a coordinate missing half-way.
THEOREM LoadedIsWhole ==
    ASSUME NEW file, Loads(file), NEW n \in DOMAIN Registry(file)
    PROVE  n \in LegalNames /\ WellDeclared(Registry(file)[n])
<1>1. PICK i \in DOMAIN Names(file) : n = Names(file)[i]
  BY DEF Registry
<1>2. n \in LegalNames /\ WellDeclared(Fields(file, n))
  BY <1>1 DEF Loads
<1>3. Registry(file)[n] = Fields(file, n)
  BY DEF Registry
<1> QED
  BY <1>2, <1>3

\* ssh_target never names an empty host or user: what a command may reach was declared
\* with both.
THEOREM TargetsAreNamed ==
    ASSUME NEW i \in Reachable
    PROVE  Host(i) # "" /\ Field(Declared(i), "SSH_USER") # ""
<1>1. /\ i[1] \in {g \in Files : Loads(Text[g])} /\ Loaded[i[1]] = Registry(Text[i[1]])
      /\ i[2] \in DOMAIN Registry(Text[i[1]])
      /\ IsServer(Declared(i)) /\ ~IsPlanned(Declared(i))
  BY DEF Reachable, Loaded
<1>2. WellDeclared(Declared(i))
  BY <1>1, LoadedIsWhole DEF Declared
<1> QED
  BY <1>1, <1>2 DEF WellDeclared, IsServer, Required, Host

-----------------------------------------------------------------------------
(* The commands.                                                           *)

\* The merge of p on box b has its guard: the push of p landed there and its branch
\* still leads to the commit, or the branch was overruled.
Guarded(p, b) == <<b, p.branch>> \in overruled \/ (p.sha \in Commit /\ Leads(p, b))

MergesGuarded ==
    /\ \A j \in jobs : j.verb = "merge" => Guarded(j, j.box)
    /\ \A o \in Operator : At(o, {"merge"}) => Guarded(cmd[o], Host(cmd[o].to))

IInv == TypeOK /\ MergesGuarded /\ DeliveredMeansThere

LEMMA GuardMeansFollows == MergesGuarded => MergeFollowsPush
  BY DEF MergesGuarded, Guarded, MergeFollowsPush

LEMMA InitTypeOK == Init => TypeOK
  BY BoundsAssumption DEF Init, TypeOK, BoxState, At

LEMMA InitIInv == Init => IInv
<1> SUFFICES ASSUME Init PROVE IInv
  OBVIOUS
<1>1. TypeOK
  BY InitTypeOK
<1>2. MergesGuarded
  BY DEF Init, MergesGuarded, At
<1>3. DeliveredMeansThere
  BY DEF Init, DeliveredMeansThere
<1> QED
  BY <1>1, <1>2, <1>3 DEF IInv

(* Every step, the line of an exec included, keeps a branch that it does not overrule. *)
Onward ==
    /\ overruled \subseteq overruled'
    /\ \A b \in Box, r \in Branch :
          boxes[b].branches[r] # NoBranch /\ <<b, r>> \notin overruled' =>
             /\ boxes'[b].branches[r] # NoBranch
             /\ Contains(boxes'[b].branches[r], boxes[b].branches[r])

LEMMA BranchesKept ==
    ASSUME TypeOK, overruled \subseteq overruled',
           \A b \in Box : boxes'[b].branches = boxes[b].branches
    PROVE  Onward
<1> SUFFICES ASSUME NEW b \in Box, NEW r \in Branch, boxes[b].branches[r] # NoBranch
             PROVE  Contains(boxes[b].branches[r], boxes[b].branches[r])
  BY DEF Onward
<1>1. boxes[b].branches[r] \in Commit
  BY DEF TypeOK, BoxState
<1> QED
  BY <1>1, HistoryAssumption

\* What a merge has as its guard it keeps.
LEMMA GuardKept ==
    ASSUME TypeOK, Onward, boxes' \in [Box -> BoxState],
           NEW b \in Box, NEW r \in Branch, NEW s \in Commit,
           boxes[b].branches[r] # NoBranch, Contains(boxes[b].branches[r], s)
    PROVE  \/ <<b, r>> \in overruled'
           \/ boxes'[b].branches[r] # NoBranch /\ Contains(boxes'[b].branches[r], s)
<1> SUFFICES ASSUME <<b, r>> \notin overruled'
             PROVE  boxes'[b].branches[r] # NoBranch /\ Contains(boxes'[b].branches[r], s)
  OBVIOUS
<1>1. boxes'[b].branches[r] # NoBranch /\ Contains(boxes'[b].branches[r], boxes[b].branches[r])
  BY DEF Onward
<1>2. boxes[b].branches[r] \in Commit /\ boxes'[b].branches[r] \in Commit
  BY <1>1 DEF TypeOK, BoxState
<1> QED
  BY <1>1, <1>2, HistoryAssumption

\* All merges do, whoever's step it is; a merge that is new must come with its guard.
LEMMA GuardsKept ==
    ASSUME TypeOK, MergesGuarded, Onward, boxes' \in [Box -> BoxState],
           \A j \in jobs' : j.verb = "merge" =>
              \/ \E k \in jobs : k.verb = "merge" /\ k.box = j.box /\ k.branch = j.branch
                                 /\ k.sha = j.sha
              \/ \E o \in Operator : /\ At(o, {"merge"}) /\ j.box = Host(cmd[o].to)
                                     /\ j.branch = cmd[o].branch /\ j.sha = cmd[o].sha,
           \A o \in Operator : At(o, {"merge"})' =>
              \/ At(o, {"merge"}) /\ cmd'[o] = cmd[o]
              \/ Guarded(cmd[o], Host(cmd[o].to))'
    PROVE  MergesGuarded'
<1>1. ASSUME NEW b \in Box, NEW r \in Branch, NEW s,
             <<b, r>> \in overruled \/
                (/\ s \in Commit /\ boxes[b].branches[r] # NoBranch
                 /\ Contains(boxes[b].branches[r], s))
      PROVE  <<b, r>> \in overruled' \/
                (/\ s \in Commit /\ boxes'[b].branches[r] # NoBranch
                 /\ Contains(boxes'[b].branches[r], s))
  <2>1. CASE <<b, r>> \in overruled
    BY <2>1 DEF Onward
  <2>2. CASE <<b, r>> \notin overruled
    BY <1>1, <2>2, GuardKept
  <2> QED
    BY <2>1, <2>2
<1>2. \A o \in Operator : At(o, {"merge"}) =>
         cmd[o].branch \in Branch /\ Host(cmd[o].to) \in Box
  BY HostsAssumption DEF TypeOK, At, Command
<1>3. \A j \in jobs : j.verb = "merge" => j.branch \in Branch /\ j.box \in Box
  BY DEF TypeOK, Job
<1>4. ASSUME NEW j \in jobs', j.verb = "merge"
      PROVE  Guarded(j, j.box)'
  <2>1. CASE \E k \in jobs : k.verb = "merge" /\ k.box = j.box /\ k.branch = j.branch
                             /\ k.sha = j.sha
    BY <1>1, <1>3, <2>1 DEF MergesGuarded, Guarded, Leads
  <2>2. CASE \E o \in Operator : /\ At(o, {"merge"}) /\ j.box = Host(cmd[o].to)
                                 /\ j.branch = cmd[o].branch /\ j.sha = cmd[o].sha
    <3> PICK o \in Operator : /\ At(o, {"merge"}) /\ j.box = Host(cmd[o].to)
                               /\ j.branch = cmd[o].branch /\ j.sha = cmd[o].sha
      BY <2>2
    <3>1. /\ j.box \in Box /\ j.branch \in Branch
          /\ <<j.box, j.branch>> \in overruled \/
               (/\ j.sha \in Commit /\ boxes[j.box].branches[j.branch] # NoBranch
                /\ Contains(boxes[j.box].branches[j.branch], j.sha))
      BY <1>2 DEF MergesGuarded, Guarded, Leads
    <3> QED
      BY <1>1, <3>1 DEF Guarded, Leads
  <2> QED
    BY <1>4, <2>1, <2>2
<1>5. ASSUME NEW o \in Operator, At(o, {"merge"}), cmd'[o] = cmd[o]
      PROVE  Guarded(cmd[o], Host(cmd[o].to))'
  BY <1>1, <1>2, <1>5 DEF MergesGuarded, Guarded, Leads, Host, Declared
<1> QED
  BY <1>4, <1>5 DEF MergesGuarded

(* What the operators' own machine does leaves the boxes and the jobs alone. *)
LEMMA AllowedReachable ==
    ASSUME NEW name \in LegalNames, NEW verb \in Started, register \in Files, Allowed(name, verb)
    PROVE  <<register, name>> \in Reachable
  BY DEF Allowed, Started, CanSsh, CanDeliver, Reachable, Known

LEMMA AskedStep ==
    ASSUME IInv, NEW o \in Operator,
           Asked(o),
           exit' \in [Operator -> {0, 1, 2, None}],
           NEW c \in Command \cup {None},
           cmd' = [cmd EXCEPT ![o] = c],
           c # None => c.at # "merge" /\ (c.at = "push" => c.branch \in Branch)
    PROVE  IInv'
<1> USE DEF Asked, Count, machine, history
<1>1. TypeOK'
  BY BoundsAssumption DEF IInv, TypeOK, At, Command
<1>2. MergesGuarded'
  <2>1. Onward
    BY BranchesKept DEF IInv
  <2>2. \A p \in Operator : At(p, {"merge"})' => At(p, {"merge"}) /\ cmd'[p] = cmd[p]
    BY DEF IInv, TypeOK, At
  <2> QED
    BY <2>1, <2>2, GuardsKept DEF IInv, TypeOK
<1>3. DeliveredMeansThere'
  BY DEF IInv, DeliveredMeansThere
<1> QED
  BY <1>1, <1>2, <1>3 DEF IInv

LEMMA RefuseStep ==
    ASSUME IInv, NEW o \in Operator, NEW n, NEW v, Refuse(o, n, v) \/ Look(o, n, v)
    PROVE  IInv'
<1>1. cmd' = [cmd EXCEPT ![o] = None] /\ exit' \in [Operator -> {0, 1, 2, None}] /\ Asked(o)
  BY DEF IInv, TypeOK, Refuse, Look, Exit
<1> QED
  BY <1>1, AskedStep

\* What a command that is begun is, and whom else it touches.
LEMMA BeginsOne ==
    ASSUME TypeOK, NEW o \in Operator, NEW stage \in Stage, NEW n \in LegalNames,
           NEW verb \in Started, Allowed(n, verb),
           NEW sha \in Commit \cup {None}, NEW force \in BOOLEAN,
           NEW branch \in Branch \cup {None},
           Begin(o, stage, <<register, n>>, sha, force, branch)
    PROVE  \E c \in Command :
              /\ c.at = stage /\ c.branch = branch
              /\ cmd' = [cmd EXCEPT ![o] = c]
              /\ exit' \in [Operator -> {0, 1, 2, None}] /\ exit'[o] = None
              /\ \A p \in Operator : p # o => exit'[p] = exit[p]
<1> DEFINE c == [at |-> stage, to |-> <<register, n>>, sha |-> sha, force |-> force,
                 branch |-> branch]
<1>1. c \in Command
  BY AllowedReachable DEF TypeOK, Command
<1>2. /\ cmd' = [cmd EXCEPT ![o] = c]
      /\ exit' \in [Operator -> {0, 1, 2, None}] /\ exit'[o] = None
      /\ \A p \in Operator : p # o => exit'[p] = exit[p]
  BY DEF Begin, TypeOK
<1> WITNESS c \in Command
<1> QED
  BY <1>2

LEMMA Begun ==
    ASSUME TypeOK, NEW o \in Operator, NEW n \in LegalNames,
           \/ \E v \in Started \ {"deliver"} : Run(o, n, v)
           \/ \E d \in Commit, r \in Given : Deliver(o, n, d, r)
           \/ \E d \in Commit \cup {None}, f \in BOOLEAN, r \in Given \ {None} :
                 DeliverAsWorded(o, n, d, f, r)
    PROVE  /\ Asked(o)
           /\ \E c \in Command :
                 /\ \/ c.at \in {"gradle", "exec"} /\ c.branch = None
                    \/ c.at = "push" /\ c.branch \in Branch
                 /\ cmd' = [cmd EXCEPT ![o] = c]
                 /\ exit' \in [Operator -> {0, 1, 2, None}] /\ exit'[o] = None
                 /\ \A p \in Operator : p # o => exit'[p] = exit[p]
<1>1. CASE \E v \in Started \ {"deliver"} : Run(o, n, v)
  <2> PICK v \in {"gradle", "exec"} : Run(o, n, v)
    BY <1>1 DEF Started
  <2>1. /\ v \in Stage /\ v \in Started
        /\ None \in Commit \cup {None} /\ FALSE \in BOOLEAN
        /\ None \in Branch \cup {None}
    BY DEF Stage, Started
  <2>2. Asked(o) /\ Allowed(n, v) /\ Begin(o, v, <<register, n>>, None, FALSE, None)
    BY DEF Run
  <2>3. \E c \in Command :
           /\ c.at = v /\ c.branch = None
           /\ cmd' = [cmd EXCEPT ![o] = c]
           /\ exit' \in [Operator -> {0, 1, 2, None}] /\ exit'[o] = None
           /\ \A p \in Operator : p # o => exit'[p] = exit[p]
    BY <2>1, <2>2, BeginsOne
  <2> QED
    BY <2>1, <2>2, <2>3
<1>2. CASE \E d \in Commit, r \in Given : Deliver(o, n, d, r)
  <2> PICK d \in Commit, r \in Given : Deliver(o, n, d, r)
    BY <1>2
  <2> DEFINE b == IF r = None THEN Delivery[d] ELSE r
  <2>1. b \in Branch /\ "push" \in Stage /\ "deliver" \in Started
    BY NamesAssumption DEF Stage, Started
  <2>2. Asked(o) /\ Allowed(n, "deliver") /\ Begin(o, "push", <<register, n>>, d, FALSE, b)
    BY DEF Deliver
  <2> HIDE DEF b
  <2>3. \E c \in Command :
           /\ c.at = "push" /\ c.branch = b
           /\ cmd' = [cmd EXCEPT ![o] = c]
           /\ exit' \in [Operator -> {0, 1, 2, None}] /\ exit'[o] = None
           /\ \A p \in Operator : p # o => exit'[p] = exit[p]
    BY <2>1, <2>2, BeginsOne
  <2> QED
    BY <2>1, <2>2, <2>3
<1>3. CASE \E d \in Commit \cup {None}, f \in BOOLEAN, r \in Given \ {None} :
              DeliverAsWorded(o, n, d, f, r)
  <2> PICK d \in Commit \cup {None}, f \in BOOLEAN, r \in Given \ {None} :
              DeliverAsWorded(o, n, d, f, r)
    BY <1>3
  <2>1. r \in Branch /\ "push" \in Stage /\ "deliver" \in Started
    BY NamesAssumption DEF Stage, Started
  <2>2. Asked(o) /\ Allowed(n, "deliver") /\ Begin(o, "push", <<register, n>>, d, f, r)
    BY DEF DeliverAsWorded
  <2>3. \E c \in Command :
           /\ c.at = "push" /\ c.branch = r
           /\ cmd' = [cmd EXCEPT ![o] = c]
           /\ exit' \in [Operator -> {0, 1, 2, None}] /\ exit'[o] = None
           /\ \A p \in Operator : p # o => exit'[p] = exit[p]
    BY <2>1, <2>2, BeginsOne
  <2> QED
    BY <2>1, <2>2, <2>3
<1> QED
  BY <1>1, <1>2, <1>3

LEMMA BegunStep ==
    ASSUME IInv, NEW o \in Operator, NEW n \in LegalNames,
           \/ \E v \in Started \ {"deliver"} : Run(o, n, v)
           \/ \E d \in Commit, r \in Given : Deliver(o, n, d, r)
           \/ \E d \in Commit \cup {None}, f \in BOOLEAN, r \in Given \ {None} :
                 DeliverAsWorded(o, n, d, f, r)
    PROVE  IInv'
<1>1. PICK c \in Command :
         /\ \/ c.at \in {"gradle", "exec"} /\ c.branch = None
            \/ c.at = "push" /\ c.branch \in Branch
         /\ cmd' = [cmd EXCEPT ![o] = c]
         /\ exit' \in [Operator -> {0, 1, 2, None}]
  BY Begun DEF IInv
<1>2. Asked(o)
  BY Begun DEF IInv
<1> QED
  BY <1>1, <1>2, AskedStep

-----------------------------------------------------------------------------
(* A command that ends, or moves on, without touching a box.               *)
LEMMA ClientStep ==
    ASSUME IInv, NEW o \in Operator,
           Done(o, 1) \/ Done(o, 2),
           jobs' \subseteq Job,
           \A j \in jobs' : \/ j.verb = "push" /\ j.branch \in Branch
                            \/ \E k \in jobs : k.verb = j.verb /\ k.box = j.box
                                               /\ k.branch = j.branch /\ k.sha = j.sha,
           UNCHANGED <<machine, boxes, history>>
    PROVE  IInv'
<1> USE DEF machine, history
<1>0. cmd' = [cmd EXCEPT ![o] = None]
  BY DEF Done, Exit
<1>1. TypeOK'
  <2>1. \A j \in jobs' : j.verb \in {"push", "merge"} => j.branch \in Branch
    BY DEF IInv, TypeOK
  <2>2. exit' \in [Operator -> {0, 1, 2, None}]
    BY DEF IInv, TypeOK, Done, Exit
  <2>3. \A p \in Operator : At(p, {"push", "merge"})' => cmd'[p].branch \in Branch
    BY <1>0 DEF IInv, TypeOK, At
  <2> QED
    BY <1>0, <2>1, <2>2, <2>3 DEF IInv, TypeOK, Done
<1>2. MergesGuarded'
  <2>1. Onward
    BY BranchesKept DEF IInv
  <2>2. \A p \in Operator : At(p, {"merge"})' => cmd'[p] = cmd[p] /\ At(p, {"merge"})
    BY <1>0 DEF IInv, TypeOK, At
  <2> QED
    BY <2>1, <2>2, GuardsKept DEF IInv, TypeOK
<1>3. DeliveredMeansThere'
  BY DEF IInv, DeliveredMeansThere
<1> QED
  BY <1>1, <1>2, <1>3 DEF IInv

LEMMA EndStep ==
    ASSUME IInv, NEW o \in Operator,
           PushFails(o) \/ ToolMissing(o) \/ NoConnection(o) \/ GiveUp(o)
    PROVE  IInv'
<1>1. Done(o, 1) \/ Done(o, 2)
  BY DEF PushFails, ToolMissing, NoConnection, GiveUp
<1>2. jobs' = jobs \/ jobs' = {[j EXCEPT !.of = IF @ = o THEN Nobody ELSE @] : j \in jobs}
  BY DEF PushFails, ToolMissing, NoConnection, GiveUp
<1>3. /\ jobs' \subseteq Job
      /\ \A j \in jobs' : \E k \in jobs : k.verb = j.verb /\ k.box = j.box
                                          /\ k.branch = j.branch /\ k.sha = j.sha
  BY <1>2 DEF IInv, TypeOK, Job
<1>4. UNCHANGED <<machine, boxes, history>>
  BY DEF PushFails, ToolMissing, NoConnection, GiveUp
<1> QED
  BY <1>1, <1>3, <1>4, ClientStep

\* A push that is left to the box is of nobody.
LEMMA LeftToTheBox ==
    ASSUME IInv, NEW o \in Operator, PushGivesUp(o)
    PROVE  \E j \in Job : j.of = Nobody /\ j.verb = "push" /\ j.branch \in Branch
                          /\ jobs' = jobs \cup {j}
<1> DEFINE c == cmd[o]
           b == Host(c.to)
           j == [JobOf(o, b, "push") EXCEPT !.of = Nobody]
<1>1. c \in Command /\ b \in Box /\ c.branch \in Branch
  BY HostsAssumption DEF IInv, TypeOK, PushGivesUp, At, Command
<1>2. boxes[b].head \in Commit
  BY <1>1 DEF IInv, TypeOK, BoxState
<1>3. j = [of |-> Nobody, box |-> b, verb |-> "push", branch |-> c.branch, sha |-> c.sha,
           force |-> c.force, from |-> boxes[b].head]
  BY DEF JobOf
<1>4. j \in Job /\ j.of = Nobody /\ j.verb = "push" /\ j.branch = c.branch
  BY <1>1, <1>2, <1>3 DEF Job, Verb, Command
<1>5. jobs' = jobs \cup {j}
  BY DEF PushGivesUp
<1> HIDE DEF j
<1> QED
  BY <1>1, <1>4, <1>5

LEMMA PushGivesUpStep ==
    ASSUME IInv, NEW o \in Operator, PushGivesUp(o)
    PROVE  IInv'
<1>1. PICK j \in Job : j.verb = "push" /\ j.branch \in Branch /\ jobs' = jobs \cup {j}
  BY LeftToTheBox
<1>2. jobs' \subseteq Job
  BY <1>1 DEF IInv, TypeOK
<1>3. Done(o, 1) /\ UNCHANGED <<machine, boxes, history>>
  BY DEF PushGivesUp
<1> QED
  BY <1>1, <1>2, <1>3, ClientStep

-----------------------------------------------------------------------------
(* A branch of a box is updated.                                           *)

\* A push, early or late, moves the branch it names ahead, to its commit, or overrules it.
LEMMA Updated ==
    ASSUME TypeOK, NEW b \in Box, NEW r \in Branch, NEW s \in Commit \cup {None},
           NEW force \in BOOLEAN, NEW p, p.branch = r, p.sha = s, p.force = force,
           Update(p, b)
    PROVE  /\ boxes' \in [Box -> BoxState]
           /\ overruled' \subseteq Box \X Branch
           /\ \A x \in Box : boxes'[x].head = boxes[x].head
           /\ Onward
           /\ <<b, r>> \in overruled' \/
                (s \in Commit /\ boxes'[b].branches[r] # NoBranch
                 /\ Contains(boxes'[b].branches[r], s))
<1> DEFINE tip == boxes[b].branches[r]
           new == IF s = None THEN NoBranch ELSE s
<1>1. /\ boxes' = [boxes EXCEPT ![b].branches[r] = new]
      /\ overruled' = IF s # None /\ ~force THEN overruled ELSE overruled \cup {<<b, r>>}
      /\ s # None /\ ~force => tip = NoBranch \/ Contains(s, tip)
  BY DEF Update, Plain, Lands
<1>2. new \in Commit \cup {NoBranch}
  OBVIOUS
<1> HIDE DEF new
<1>3. boxes' \in [Box -> BoxState]
  BY <1>1, <1>2 DEF TypeOK, BoxState
<1>4. \A x \in Box : /\ boxes'[x].head = boxes[x].head
                    /\ \A q \in Branch :
                          boxes'[x].branches[q] = IF x = b /\ q = r THEN new
                                                  ELSE boxes[x].branches[q]
  BY <1>1 DEF TypeOK, BoxState
<1>5. overruled' \subseteq Box \X Branch /\ overruled \subseteq overruled'
  BY <1>1 DEF TypeOK
<1>6. <<b, r>> \notin overruled' => s \in Commit /\ new = s /\ s # NoBranch
  BY <1>1, NamesAssumption DEF new
<1>7. Onward
  <2>1. ASSUME NEW x \in Box, NEW q \in Branch, boxes[x].branches[q] # NoBranch,
               <<x, q>> \notin overruled'
        PROVE  /\ boxes'[x].branches[q] # NoBranch
               /\ Contains(boxes'[x].branches[q], boxes[x].branches[q])
    <3>1. CASE x = b /\ q = r
      <4>1. /\ boxes'[x].branches[q] = s /\ s # NoBranch /\ s \in Commit
            /\ s # None /\ ~force
        BY <1>1, <1>4, <1>6, <2>1, <3>1
      <4> QED
        BY <1>1, <2>1, <3>1, <4>1
    <3>2. CASE ~(x = b /\ q = r)
      <4>1. boxes'[x].branches[q] = boxes[x].branches[q]
        BY <1>4, <3>2
      <4>2. boxes[x].branches[q] \in Commit
        BY <2>1 DEF TypeOK, BoxState
      <4> QED
        BY <2>1, <4>1, <4>2, HistoryAssumption
    <3> QED
      BY <3>1, <3>2
  <2> QED
    BY <1>5, <2>1 DEF Onward
<1>8. ASSUME <<b, r>> \notin overruled'
      PROVE  /\ s \in Commit /\ boxes'[b].branches[r] # NoBranch
             /\ Contains(boxes'[b].branches[r], s)
  BY <1>4, <1>6, <1>8, HistoryAssumption
<1> QED
  BY <1>3, <1>4, <1>5, <1>7, <1>8

\* What the push of a command does to its box.
LEMMA PushUpdates ==
    ASSUME TypeOK, NEW o \in Operator, Push(o)
    PROVE  LET b == Host(cmd[o].to)
               r == cmd[o].branch
           IN  /\ cmd[o] \in Command /\ b \in Box /\ r \in Branch
               /\ boxes' \in [Box -> BoxState]
               /\ overruled' \subseteq Box \X Branch
               /\ \A x \in Box : boxes'[x].head = boxes[x].head
               /\ Onward
               /\ <<b, r>> \in overruled' \/
                    (cmd[o].sha \in Commit /\ boxes'[b].branches[r] # NoBranch
                     /\ Contains(boxes'[b].branches[r], cmd[o].sha))
<1>1. cmd[o] \in Command /\ Host(cmd[o].to) \in Box /\ cmd[o].branch \in Branch
  BY HostsAssumption DEF TypeOK, Push, At, Command
<1>2. cmd[o].sha \in Commit \cup {None} /\ cmd[o].force \in BOOLEAN
  BY <1>1 DEF Command
<1>3. Update(cmd[o], Host(cmd[o].to))
  BY DEF Push
<1> QED
  BY <1>1, <1>2, <1>3, Updated

LEMMA PushStep ==
    ASSUME IInv, NEW o \in Operator, Push(o)
    PROVE  IInv'
<1> DEFINE c == cmd[o]
           b == Host(c.to)
<1>1. /\ c \in Command /\ b \in Box /\ c.branch \in Branch
      /\ boxes' \in [Box -> BoxState]
      /\ overruled' \subseteq Box \X Branch
      /\ \A x \in Box : boxes'[x].head = boxes[x].head
      /\ Onward
      /\ <<b, c.branch>> \in overruled' \/
           (c.sha \in Commit /\ boxes'[b].branches[c.branch] # NoBranch
            /\ Contains(boxes'[b].branches[c.branch], c.sha))
  BY PushUpdates DEF IInv
<1>2. UNCHANGED <<machine, jobs, delivered, given>>
  BY DEF Push, Goto, Done
<1>3. cmd' = [cmd EXCEPT ![o].at = "merge"] \/ cmd' = [cmd EXCEPT ![o] = None]
  BY DEF Push, Goto, Done, Exit
<1>4. TypeOK'
  <2>1. exit' \in [Operator -> {0, 1, 2, None}]
    BY DEF Push, Goto, Done, Exit, IInv, TypeOK
  <2>2. cmd' \in [Operator -> Command \cup {None}]
    BY <1>1, <1>3 DEF IInv, TypeOK, Command, Stage
  <2>3. \A p \in Operator : At(p, {"push", "merge"})' => cmd'[p].branch \in Branch
    BY <1>1, <1>3 DEF IInv, TypeOK, Command, At
  <2> QED
    BY <1>1, <1>2, <2>1, <2>2, <2>3 DEF IInv, TypeOK, machine
<1>5. MergesGuarded'
  <2>1. \A p \in Operator \ {o} : cmd'[p] = cmd[p] /\ (At(p, {"merge"})' => At(p, {"merge"}))
    BY <1>3 DEF IInv, TypeOK, At
  <2>2. ASSUME At(o, {"merge"})'
        PROVE  Guarded(cmd[o], Host(cmd[o].to))'
    <3>1. cmd'[o].to = c.to /\ cmd'[o].branch = c.branch /\ cmd'[o].sha = c.sha
      BY <1>1, <1>3, <2>2 DEF IInv, TypeOK, Command, At
    <3>2. Host(cmd'[o].to) = b
      BY <3>1
    <3> QED
      BY <1>1, <3>1, <3>2 DEF Guarded, Leads
  <2> QED
    BY <1>1, <1>2, <2>1, <2>2, GuardsKept DEF IInv, TypeOK
<1>6. DeliveredMeansThere'
  BY <1>1, <1>2 DEF IInv, TypeOK, BoxState, DeliveredMeansThere
<1> QED
  BY <1>4, <1>5, <1>6 DEF IInv

LEMMA PushEndsUpdates ==
    ASSUME TypeOK, NEW j \in jobs, PushEnds(j)
    PROVE  /\ boxes' \in [Box -> BoxState]
           /\ overruled' \subseteq Box \X Branch
           /\ \A x \in Box : boxes'[x].head = boxes[x].head
           /\ Onward
<1>1. j \in Job /\ j.branch \in Branch
  BY DEF PushEnds, TypeOK
<1>2. CASE Update(j, j.box)
  <2>1. j.box \in Box /\ j.sha \in Commit \cup {None} /\ j.force \in BOOLEAN
    BY <1>1 DEF Job
  <2> QED
    BY <1>1, <1>2, <2>1, Updated
<1>3. CASE UNCHANGED <<boxes, overruled>>
  BY <1>3, BranchesKept DEF TypeOK
<1> QED
  BY <1>2, <1>3 DEF PushEnds

LEMMA PushEndsStep ==
    ASSUME IInv, NEW j \in jobs, PushEnds(j)
    PROVE  IInv'
<1>1. /\ boxes' \in [Box -> BoxState] /\ overruled' \subseteq Box \X Branch
      /\ \A x \in Box : boxes'[x].head = boxes[x].head
      /\ Onward
  BY PushEndsUpdates DEF IInv
<1>2. jobs' \subseteq jobs /\ UNCHANGED <<machine, client, delivered>>
  BY DEF PushEnds
<1> USE DEF machine, client
<1>3. TypeOK'
  BY <1>1, <1>2 DEF IInv, TypeOK, At
<1>4. MergesGuarded'
  <2>1. \A p \in Operator : At(p, {"merge"})' => At(p, {"merge"}) /\ cmd'[p] = cmd[p]
    BY <1>2 DEF At
  <2> QED
    BY <1>1, <1>2, <2>1, GuardsKept DEF IInv
<1>5. DeliveredMeansThere'
  BY <1>1, <1>2 DEF IInv, DeliveredMeansThere
<1> QED
  BY <1>3, <1>4, <1>5 DEF IInv

LEMMA ConnectStep ==
    ASSUME IInv, NEW o \in Operator, Connect(o)
    PROVE  IInv'
<1> DEFINE c == cmd[o]
           b == Host(c.to)
           j == JobOf(o, b, c.at)
<1>1. c \in Command /\ b \in Box /\ c.at \in Verb
  BY HostsAssumption DEF IInv, TypeOK, Connect, At, Command, Verb
<1>2. /\ jobs' = jobs \cup {j}
      /\ cmd' = [cmd EXCEPT ![o].at = "waiting"]
      /\ UNCHANGED <<machine, boxes, history, exit, given>>
  BY DEF Connect, Goto
<1>3. /\ j \in Job /\ j.verb = c.at /\ j.box = b /\ j.branch = c.branch /\ j.sha = c.sha
  BY <1>1 DEF IInv, TypeOK, BoxState, Job, Command, JobOf
<1>4. c.at # "push" /\ (c.at = "merge" => At(o, {"merge"}) /\ c.branch \in Branch)
  BY <1>1 DEF Connect, At, IInv, TypeOK
<1> HIDE DEF j
<1>5. TypeOK'
  <2>1. cmd' \in [Operator -> Command \cup {None}]
    BY <1>1, <1>2 DEF IInv, TypeOK, Command, Stage
  <2>2. \A p \in Operator : At(p, {"push", "merge"})' => cmd'[p].branch \in Branch
    BY <1>1, <1>2 DEF IInv, TypeOK, Command, At
  <2>3. \A k \in jobs' : k.verb \in {"push", "merge"} => k.branch \in Branch
    BY <1>2, <1>3, <1>4 DEF IInv, TypeOK
  <2> QED
    BY <1>2, <1>3, <2>1, <2>2, <2>3 DEF IInv, TypeOK, machine, history
<1>6. MergesGuarded'
  <2>1. \A p \in Operator : At(p, {"merge"})' => cmd'[p] = cmd[p] /\ At(p, {"merge"})
    BY <1>1, <1>2 DEF IInv, TypeOK, Command, At
  <2>2. Onward
    BY <1>2, BranchesKept DEF IInv, history
  <2>3. ASSUME NEW k \in jobs', k.verb = "merge"
        PROVE  \/ k \in jobs
               \/ At(o, {"merge"}) /\ k.box = b /\ k.branch = c.branch /\ k.sha = c.sha
    BY <1>2, <1>3, <1>4, <2>3
  <2>4. boxes' \in [Box -> BoxState]
    BY <1>2 DEF IInv, TypeOK
  <2> QED
    BY <2>1, <2>2, <2>3, <2>4, GuardsKept DEF IInv
<1>7. DeliveredMeansThere'
  BY <1>2 DEF IInv, DeliveredMeansThere, history
<1> QED
  BY <1>5, <1>6, <1>7 DEF IInv

-----------------------------------------------------------------------------
(* A box is done with something.                                           *)

LEMMA AnswerStep ==
    ASSUME IInv, NEW j \in jobs, NEW ok \in BOOLEAN, Answer(j, ok),
           jobs' = jobs \ {j},
           boxes' \in [Box -> BoxState],
           \A b \in Box : /\ boxes'[b].branches = boxes[b].branches
                          /\ Contains(boxes'[b].head, boxes[b].head),
           ok /\ j.verb = "merge" /\ <<j.box, j.branch>> \notin overruled =>
              j.sha \in Commit /\ Contains(boxes'[j.box].head, j.sha),
           UNCHANGED <<machine, overruled>>
    PROVE  IInv'
<1> USE DEF machine, client
<1>0. j \in Job
  BY DEF IInv, TypeOK
<1>1. \A o \in Operator : cmd'[o] = cmd[o] \/ cmd'[o] = None
  BY DEF Answer, Done, Exit, IInv, TypeOK
<1>2. \/ delivered' = delivered
      \/ /\ j.sha \in Commit /\ Contains(boxes'[j.box].head, j.sha)
         /\ delivered' = [delivered EXCEPT ![j.box] = @ \cup {j.sha}]
  BY DEF Answer
<1>3. TypeOK'
  <2>1. cmd' \in [Operator -> Command \cup {None}] /\ exit' \in [Operator -> {0, 1, 2, None}]
    BY <1>0 DEF Answer, Done, Exit, IInv, TypeOK, Job
  <2>2. \A o \in Operator : At(o, {"push", "merge"})' => cmd'[o].branch \in Branch
    BY <1>1 DEF At, IInv, TypeOK
  <2>3. delivered' \in [Box -> SUBSET Commit] /\ given' = given
    BY <1>0, <1>2 DEF Answer, Done, IInv, TypeOK, Job
  <2> QED
    BY <2>1, <2>2, <2>3 DEF IInv, TypeOK
<1>4. MergesGuarded'
  <2>1. \A o \in Operator : At(o, {"merge"})' => At(o, {"merge"}) /\ cmd'[o] = cmd[o]
    BY <1>1 DEF At
  <2>2. Onward
    BY BranchesKept DEF IInv
  <2> QED
    BY <2>1, <2>2, GuardsKept DEF IInv
<1>5. DeliveredMeansThere'
  <2>1. ASSUME NEW b \in Box, NEW c \in Commit, c \in delivered'[b]
        PROVE  Contains(boxes'[b].head, c)
    <3>1. CASE c \in delivered[b]
      BY <3>1, HistoryAssumption DEF IInv, TypeOK, BoxState, DeliveredMeansThere
    <3>2. CASE c \notin delivered[b]
      BY <1>0, <1>2, <2>1, <3>2 DEF IInv, TypeOK, Job
    <3> QED
      BY <3>1, <3>2
  <2> QED
    BY <2>1 DEF DeliveredMeansThere
<1> QED
  BY <1>3, <1>4, <1>5 DEF IInv

LEMMA MergeMoves ==
    ASSUME IInv, NEW j \in jobs, j.verb = "merge", Merge(j)
    PROVE  /\ boxes' \in [Box -> BoxState]
           /\ \A b \in Box : /\ boxes'[b].branches = boxes[b].branches
                             /\ Contains(boxes'[b].head, boxes[b].head)
           /\ <<j.box, j.branch>> \notin overruled =>
                 j.sha \in Commit /\ Contains(boxes'[j.box].head, j.sha)
<1> DEFINE head == boxes[j.box].head
           tip == boxes[j.box].branches[j.branch]
<1>1. /\ j \in Job /\ j.branch \in Branch /\ head \in Commit
      /\ tip # NoBranch /\ tip \in Commit
  BY DEF IInv, TypeOK, Job, BoxState, Merge
<1>2. <<j.box, j.branch>> \notin overruled => j.sha \in Commit /\ Contains(tip, j.sha)
  BY DEF IInv, MergesGuarded, Guarded, Leads
<1>3. /\ Contains(tip, head) \/ Contains(head, tip)
      /\ boxes' = [boxes EXCEPT ![j.box].head = IF Contains(tip, head) THEN tip ELSE @]
  BY DEF Merge
<1>4. CASE Contains(tip, head)
  <2>1. boxes' = [boxes EXCEPT ![j.box].head = tip]
    BY <1>3, <1>4
  <2> QED
    BY <1>1, <1>2, <1>4, <2>1, HistoryAssumption DEF IInv, TypeOK, Job, BoxState
<1>5. CASE ~Contains(tip, head)
  <2>1. boxes' = [boxes EXCEPT ![j.box].head = head]
    BY <1>3, <1>5
  <2>2. <<j.box, j.branch>> \notin overruled => j.sha \in Commit /\ Contains(head, j.sha)
    BY <1>1, <1>2, <1>3, <1>5, HistoryAssumption
  <2> QED
    BY <1>1, <2>1, <2>2, HistoryAssumption DEF IInv, TypeOK, Job, BoxState
<1> QED
  BY <1>4, <1>5

LEMMA MergeStep ==
    ASSUME IInv, NEW j \in jobs, MergeEnds(j)
    PROVE  IInv'
<1>1. CASE Merge(j) /\ Answer(j, TRUE)
  BY <1>1, MergeMoves, AnswerStep DEF MergeEnds
<1>2. CASE UNCHANGED boxes /\ Answer(j, FALSE)
  <2>1. \A b \in Box : Contains(boxes'[b].head, boxes[b].head)
    BY <1>2, HistoryAssumption DEF IInv, TypeOK, BoxState
  <2> QED
    BY <1>2, <2>1, AnswerStep DEF MergeEnds, IInv, TypeOK
<1> QED
  BY <1>1, <1>2 DEF MergeEnds

LEMMA RunEndsStep ==
    ASSUME IInv, NEW j \in jobs, RunEnds(j)
    PROVE  IInv'
<1>1. j \in Job /\ j.verb # "merge"
  BY DEF RunEnds, IInv, TypeOK
<1>2. /\ boxes' \in [Box -> BoxState]
      /\ \A b \in Box : boxes'[b].branches = boxes[b].branches /\ boxes'[b].head = boxes[b].head
  <2>1. UNCHANGED boxes \/ boxes' = [boxes EXCEPT ![j.box].serving = j.from]
    BY DEF RunEnds
  <2>2. j.box \in Box /\ j.from \in Commit
    BY <1>1 DEF Job
  <2>3. CASE UNCHANGED boxes
    BY <2>3 DEF IInv, TypeOK
  <2>4. CASE boxes' = [boxes EXCEPT ![j.box].serving = j.from]
    BY <2>2, <2>4 DEF IInv, TypeOK, BoxState
  <2> QED
    BY <2>1, <2>3, <2>4
<1>3. \A b \in Box : Contains(boxes'[b].head, boxes[b].head)
  BY <1>2, HistoryAssumption DEF IInv, TypeOK, BoxState
<1> QED
  BY <1>1, <1>2, <1>3, AnswerStep DEF RunEnds

\* The line of an exec keeps or overrules each branch too, and what it moves the head
\* from is no longer vouched for.
LEMMA Reworked ==
    ASSUME TypeOK, NEW j \in jobs, Rework(j)
    PROVE  /\ boxes' \in [Box -> BoxState]
           /\ overruled' \subseteq Box \X Branch
           /\ delivered' \in [Box -> SUBSET Commit]
           /\ Onward
           /\ \A b \in Box : \/ boxes'[b].head = boxes[b].head /\ delivered'[b] = delivered[b]
                             \/ delivered'[b] = {}
<1>0. j.box \in Box
  BY DEF TypeOK, Job
<1>1. CASE /\ \E c \in Commit : boxes' = [boxes EXCEPT ![j.box].head = c]
           /\ delivered' = [delivered EXCEPT ![j.box] = {}]
           /\ UNCHANGED overruled
  <2> PICK c \in Commit : boxes' = [boxes EXCEPT ![j.box].head = c]
    BY <1>1
  <2>1. /\ boxes' \in [Box -> BoxState]
        /\ \A b \in Box : boxes'[b].branches = boxes[b].branches
        /\ \A b \in Box : boxes'[b].head = boxes[b].head \/ b = j.box
    BY <1>0 DEF TypeOK, BoxState
  <2> QED
    BY <1>0, <1>1, <2>1, BranchesKept DEF TypeOK
<1>2. CASE \E r \in Branch, c \in Commit \cup {NoBranch} :
             /\ boxes' = [boxes EXCEPT ![j.box].branches[r] = c]
             /\ overruled' = overruled \cup {<<j.box, r>>}
             /\ UNCHANGED delivered
  <2> PICK r \in Branch, c \in Commit \cup {NoBranch} :
             /\ boxes' = [boxes EXCEPT ![j.box].branches[r] = c]
             /\ overruled' = overruled \cup {<<j.box, r>>}
             /\ UNCHANGED delivered
    BY <1>2
  <2>0. boxes' \in [Box -> BoxState]
    BY <1>0 DEF TypeOK, BoxState
  <2>1. \A b \in Box : /\ boxes'[b].head = boxes[b].head
                       /\ \A q \in Branch :
                             boxes'[b].branches[q] = IF b = j.box /\ q = r THEN c
                                                     ELSE boxes[b].branches[q]
    BY <1>0 DEF TypeOK, BoxState
  <2>2. ASSUME NEW b \in Box, NEW q \in Branch, boxes[b].branches[q] # NoBranch,
               <<b, q>> \notin overruled'
        PROVE  /\ boxes'[b].branches[q] # NoBranch
               /\ Contains(boxes'[b].branches[q], boxes[b].branches[q])
    <3>1. boxes'[b].branches[q] = boxes[b].branches[q] /\ boxes[b].branches[q] \in Commit
      BY <2>1, <2>2 DEF TypeOK, BoxState
    <3> QED
      BY <2>2, <3>1, HistoryAssumption
  <2>3. Onward
    BY <2>2 DEF Onward
  <2> QED
    BY <1>0, <2>0, <2>1, <2>3 DEF TypeOK
<1>3. CASE /\ \E s \in Commit \cup {None} : boxes' = [boxes EXCEPT ![j.box].serving = s]
           /\ UNCHANGED history
  <2> PICK s \in Commit \cup {None} : boxes' = [boxes EXCEPT ![j.box].serving = s]
    BY <1>3
  <2>1. /\ boxes' \in [Box -> BoxState]
        /\ \A b \in Box : boxes'[b].branches = boxes[b].branches /\ boxes'[b].head = boxes[b].head
    BY <1>0 DEF TypeOK, BoxState
  <2> QED
    BY <1>3, <2>1, BranchesKept DEF TypeOK, history
<1> QED
  BY <1>1, <1>2, <1>3 DEF Rework

LEMMA ReworkStep ==
    ASSUME IInv, NEW j \in jobs, Rework(j)
    PROVE  IInv'
<1>1. /\ boxes' \in [Box -> BoxState]
      /\ overruled' \subseteq Box \X Branch
      /\ delivered' \in [Box -> SUBSET Commit]
      /\ Onward
      /\ \A b \in Box : \/ boxes'[b].head = boxes[b].head /\ delivered'[b] = delivered[b]
                        \/ delivered'[b] = {}
  BY Reworked DEF IInv
<1>2. Upset /\ UNCHANGED <<register, disk, jobs, client>>
  BY DEF Rework
<1>3. TypeOK'
  BY <1>1, <1>2, BoundsAssumption DEF IInv, TypeOK, At, client, Upset
<1>4. MergesGuarded'
  <2>1. \A p \in Operator : At(p, {"merge"})' => At(p, {"merge"}) /\ cmd'[p] = cmd[p]
    BY <1>2 DEF At, client
  <2> QED
    BY <1>1, <1>2, <2>1, GuardsKept DEF IInv
<1>5. DeliveredMeansThere'
  BY <1>1 DEF IInv, DeliveredMeansThere
<1> QED
  BY <1>3, <1>4, <1>5 DEF IInv

-----------------------------------------------------------------------------
(* The world around the commands.                                          *)

LEMMA WorldStep ==
    ASSUME IInv,
           boxes' \in [Box -> BoxState],
           \A b \in Box : boxes'[b].branches = boxes[b].branches /\ boxes'[b].head = boxes[b].head,
           jobs' \subseteq jobs,
           register' \in Files, disk' \subseteq Paths, upset' \in 0 .. Upsets,
           UNCHANGED <<client, history>>
    PROVE  IInv'
<1> USE DEF client, history
<1>1. TypeOK'
  BY DEF IInv, TypeOK, At
<1>2. MergesGuarded'
  <2>1. \A p \in Operator : At(p, {"merge"})' => At(p, {"merge"}) /\ cmd'[p] = cmd[p]
    BY DEF At
  <2>2. Onward
    BY BranchesKept DEF IInv
  <2> QED
    BY <2>1, <2>2, GuardsKept DEF IInv
<1>3. DeliveredMeansThere'
  BY DEF IInv, DeliveredMeansThere
<1> QED
  BY <1>1, <1>2, <1>3 DEF IInv

LEMMA UpsetCounts ==
    ASSUME TypeOK, Upset
    PROVE  upset' \in 0 .. Upsets
  BY BoundsAssumption DEF TypeOK, Upset

LEMMA BoxDownStep ==
    ASSUME IInv, NEW b \in Box, BoxDown(b)
    PROVE  IInv'
<1>1. boxes' = [boxes EXCEPT ![b].up = FALSE]
  BY DEF BoxDown
<1>2. /\ boxes' \in [Box -> BoxState]
      /\ \A x \in Box : boxes'[x].branches = boxes[x].branches /\ boxes'[x].head = boxes[x].head
  BY <1>1 DEF IInv, TypeOK, BoxState
<1> QED
  BY <1>2, UpsetCounts, WorldStep DEF BoxDown, IInv, TypeOK

LEMMA BoxUpStep ==
    ASSUME IInv, NEW b \in Box, BoxUp(b)
    PROVE  IInv'
<1> PICK s \in {boxes[b].serving, None} :
            boxes' = [boxes EXCEPT ![b].up = TRUE, ![b].serving = s]
  BY DEF BoxUp
<1>1. s \in Commit \cup {None}
  BY DEF IInv, TypeOK, BoxState
<1>2. /\ boxes' \in [Box -> BoxState]
      /\ \A x \in Box : boxes'[x].branches = boxes[x].branches /\ boxes'[x].head = boxes[x].head
  BY <1>1 DEF IInv, TypeOK, BoxState
<1> QED
  BY <1>2, WorldStep DEF BoxUp, IInv, TypeOK, machine

LEMMA EditStep ==
    ASSUME IInv, EditRegister \/ Rearrange
    PROVE  IInv'
  BY UpsetCounts, WorldStep DEF EditRegister, Rearrange, IInv, TypeOK

LEMMA FleetStep == IInv /\ [Next]_fleet => IInv'
<1> SUFFICES ASSUME IInv, [Next]_fleet PROVE IInv'
  OBVIOUS
<1>1. CASE UNCHANGED fleet
  BY <1>1, WorldStep DEF fleet, machine, IInv, TypeOK
<1>2. CASE Next
  BY <1>2, RefuseStep, BegunStep, EndStep, PushStep, PushGivesUpStep, ConnectStep, MergeStep,
     RunEndsStep, PushEndsStep, ReworkStep, BoxDownStep, BoxUpStep, EditStep DEF Next
<1> QED
  BY <1>1, <1>2

\* Of what the fleet is, the probe touches only the number of commands given.
LEMMA ProbeStep ==
    ASSUME IInv, Probe
    PROVE  IInv'
<1>1. CASE UNCHANGED fleet
  BY <1>1, FleetStep
<1>2. CASE ProbeStarts
  <2> USE <1>2 DEF ProbeStarts, Count, machine, history
  <2>1. TypeOK'
    BY BoundsAssumption DEF IInv, TypeOK, At
  <2>2. MergesGuarded'
    BY DEF IInv, MergesGuarded, Guarded, Leads, At
  <2>3. DeliveredMeansThere'
    BY DEF IInv, DeliveredMeansThere
  <2> QED
    BY <2>1, <2>2, <2>3 DEF IInv
<1> QED
  BY <1>1, <1>2 DEF Probe, ProbeRefused, ProbeEnds, LookAtPlanned, LookAtStandalone,
     LookAtCheckout, NotReached, LookAtPlatform, ProbeCrashes, Note

LEMMA ProbeInvStep ==
    ASSUME IInv, [ProbeNext]_vars
    PROVE  IInv'
<1>1. CASE ProbeNext
  BY <1>1, FleetStep, ProbeStep DEF ProbeNext
<1>2. CASE UNCHANGED vars
  BY <1>2, FleetStep DEF vars
<1> QED
  BY <1>1, <1>2

LEMMA Invariance == ProbeSpec => []IInv
<1>1. ProbeInit => IInv
  BY InitIInv DEF ProbeInit
<1> QED
  BY <1>1, ProbeInvStep, PTL DEF ProbeSpec

-----------------------------------------------------------------------------
\* Every variable of the commands, of the jobs on the boxes and of the boxes keeps its
\* type: a command that reaches a box names a live server of the register.
THEOREM FleetTypes == ProbeSpec => []TypeOK
  BY Invariance, PTL DEF IInv

\* cmd_deliver: no merge is sent to a box, or is still at work there, whose branch does
\* not lead to the commit that its own delivery pushed: unless a delivery that forces or
\* deletes, or the line of an exec, overruled the branch.
THEOREM PushGuardsMerge == ProbeSpec => []MergeFollowsPush
<1>1. IInv => MergeFollowsPush
  BY GuardMeansFollows DEF IInv
<1> QED
  BY <1>1, Invariance, PTL

\* What a delivery ended with exit code 0 for stays in the history of the checkout until
\* the line of an exec moves the head, if its branch was not overruled before its merge.
THEOREM DeliveredStays == ProbeSpec => []DeliveredMeansThere
  BY Invariance, PTL DEF IInv

-----------------------------------------------------------------------------
LEMMA KeptIsForward ==
    ASSUME IInv, overruled \subseteq overruled',
           \A b \in Box : boxes'[b].branches = boxes[b].branches /\ boxes'[b].head = boxes[b].head
    PROVE  Forward
  BY HistoryAssumption DEF IInv, TypeOK, BoxState, Forward

LEMMA UpdateIsForward ==
    ASSUME IInv, (\E o \in Operator : Push(o)) \/ (\E j \in jobs : PushEnds(j))
    PROVE  Forward
<1>1. Onward /\ \A x \in Box : boxes'[x].head = boxes[x].head
  BY PushUpdates, PushEndsUpdates DEF IInv
<1>2. \A x \in Box : Contains(boxes'[x].head, boxes[x].head)
  BY <1>1, HistoryAssumption DEF IInv, TypeOK, BoxState
<1> QED
  BY <1>1, <1>2 DEF Forward, Onward

LEMMA JobIsForward ==
    ASSUME IInv, NEW j \in jobs, MergeEnds(j) \/ RunEnds(j)
    PROVE  Forward
<1>0. overruled' = overruled
  BY DEF MergeEnds, RunEnds
<1>1. CASE j.verb = "merge" /\ Merge(j)
  <2>1. \A b \in Box : /\ boxes'[b].branches = boxes[b].branches
                      /\ Contains(boxes'[b].head, boxes[b].head)
    BY <1>1, MergeMoves
  <2>2. Onward
    BY <1>0, <2>1, BranchesKept DEF IInv
  <2> QED
    BY <2>1, <2>2 DEF Onward, Forward
<1>2. CASE UNCHANGED boxes
  BY <1>0, <1>2, KeptIsForward
<1>3. CASE boxes' = [boxes EXCEPT ![j.box].serving = j.from]
  BY <1>0, <1>3, KeptIsForward DEF IInv, TypeOK, BoxState
<1> QED
  BY <1>1, <1>2, <1>3 DEF MergeEnds, RunEnds

LEMMA NextIsForward == IInv /\ Next => (\E j \in jobs : Rework(j)) \/ Forward
<1> SUFFICES ASSUME IInv, Next PROVE (\E j \in jobs : Rework(j)) \/ Forward
  OBVIOUS
<1>1. CASE UNCHANGED <<boxes, overruled>>
  BY <1>1, KeptIsForward
<1>2. CASE (\E o \in Operator : Push(o)) \/ (\E j \in jobs : PushEnds(j))
  BY <1>2, UpdateIsForward
<1>3. CASE \E j \in jobs : MergeEnds(j) \/ RunEnds(j)
  BY <1>3, JobIsForward
<1>4. CASE \E b \in Box : BoxDown(b) \/ BoxUp(b)
  <2> PICK b \in Box : BoxDown(b) \/ BoxUp(b)
    BY <1>4
  <2>1. PICK s : \/ boxes' = [boxes EXCEPT ![b].up = FALSE]
                 \/ boxes' = [boxes EXCEPT ![b].up = TRUE, ![b].serving = s]
    BY DEF BoxDown, BoxUp
  <2>2. overruled' = overruled
    BY DEF BoxDown, BoxUp, history
  <2>3. \A x \in Box : boxes'[x].branches = boxes[x].branches /\ boxes'[x].head = boxes[x].head
    <3>1. CASE boxes' = [boxes EXCEPT ![b].up = FALSE]
      BY <3>1 DEF IInv, TypeOK, BoxState
    <3>2. CASE boxes' = [boxes EXCEPT ![b].up = TRUE, ![b].serving = s]
      BY <3>2 DEF IInv, TypeOK, BoxState
    <3> QED
      BY <2>1, <3>1, <3>2
  <2> QED
    BY <2>2, <2>3, KeptIsForward
<1>5. CASE \E o \in Operator :
             \/ \E n \in LegalNames :
                   \/ \E v \in {"list", "show"} \cup Started : Look(o, n, v) \/ Refuse(o, n, v)
                   \/ \E v \in Started \ {"deliver"} : Run(o, n, v)
                   \/ \E c \in Commit, r \in Given : Deliver(o, n, c, r)
                   \/ \E c \in Commit \cup {None}, f \in BOOLEAN, r \in Given \ {None} :
                         DeliverAsWorded(o, n, c, f, r)
             \/ PushFails(o) \/ PushGivesUp(o) \/ ToolMissing(o)
             \/ Connect(o) \/ NoConnection(o) \/ GiveUp(o)
  <2>1. UNCHANGED <<boxes, overruled>>
    BY <1>5 DEF Look, Refuse, Run, Deliver, DeliverAsWorded, Asked, PushFails, PushGivesUp,
                ToolMissing, Connect, NoConnection, GiveUp, history
  <2> QED
    BY <1>1, <2>1
<1>6. CASE EditRegister \/ Rearrange
  BY <1>1, <1>6 DEF EditRegister, Rearrange, history
<1>7. CASE \E j \in jobs : Rework(j)
  BY <1>7
<1> QED
  BY <1>2, <1>3, <1>4, <1>5, <1>6, <1>7 DEF Next

\* No push and no merge, whoever gave the command, however late it lands and whatever
\* else runs, takes a commit out of a checkout, and none takes one out of a branch that
\* no delivery worded to force or to delete it and no exec had hold of.  What the line of
\* an exec does itself is the operator's.
THEOREM NothingTakenAway == ProbeSpec => OnlyForward
<1>1. IInv /\ [ProbeNext]_vars => [(\E j \in jobs : Rework(j)) \/ Forward]_fleet
  <2> SUFFICES ASSUME IInv, [ProbeNext]_vars
               PROVE  [(\E j \in jobs : Rework(j)) \/ Forward]_fleet
    OBVIOUS
  <2>1. CASE Next
    BY <2>1, NextIsForward
  <2>2. CASE Probe
    <3>1. UNCHANGED <<boxes, overruled>>
      BY <2>2 DEF Probe, ProbeStarts, ProbeRefused, ProbeEnds, LookAtPlanned, history,
         LookAtStandalone, LookAtCheckout, NotReached, LookAtPlatform, ProbeCrashes, Note, fleet
    <3> QED
      BY <3>1, KeptIsForward
  <2>3. CASE UNCHANGED vars
    BY <2>3 DEF vars
  <2> QED
    BY <2>1, <2>2, <2>3 DEF ProbeNext
<1> QED
  BY <1>1, Invariance, PTL DEF ProbeSpec, OnlyForward

-----------------------------------------------------------------------------
(* Whose answer a command hears, and the safety half of CommandReturns.    *)

\* The job answers to the command c: on its box, for its commit and its branch.
IsOf(j, c) == j.box = Host(c.to) /\ j.sha = c.sha /\ j.branch = c.branch

\* A job that answers to an operator is the one job of the command that operator is
\* waiting for, on the box that command is for, and merges if the command delivers.
JobsOwned ==
    /\ \A j \in jobs : j.of # Nobody => At(j.of, {"waiting"}) /\ IsOf(j, cmd[j.of])
    /\ \A j, k \in jobs : j.of = k.of /\ j.of # Nobody => j = k
    /\ \A j \in jobs : j.of # Nobody => (j.verb = "merge" <=> j.branch # None)
    /\ \A o \in Operator : At(o, {"gradle", "exec"}) => cmd[o].branch = None
    /\ \A o \in Operator : cmd[o] # None => exit[o] = None

OwnInv == IInv /\ JobsOwned

\* The steps a command has left: its push, its merge or its build, and the wait.
Left(o) == IF cmd[o] = None THEN 0
           ELSE IF cmd[o].at = "push" THEN 3
           ELSE IF cmd[o].at = "waiting" THEN 1 ELSE 2

\* A command is never set back and never retried, and keeps its instance, commit and
\* branch from its first half to its second; it has an exit code once it is over and
\* not before.
RunsDown(o) ==
    \/ cmd'[o] = cmd[o] /\ exit'[o] = None
    \/ /\ cmd'[o] # None /\ Left(o)' < Left(o)
       /\ cmd'[o] = [cmd[o] EXCEPT !.at = cmd'[o].at]
       /\ exit'[o] = None
    \/ cmd'[o] = None /\ exit'[o] \in {0, 1, 2}

CommandsRunDown == \A o \in Operator : cmd[o] # None => RunsDown(o)

\* The operator waits for a delivery by a branch that was not overruled.
Delivers(o) ==
    /\ cmd[o] # None /\ cmd[o].branch # None
    /\ <<Host(cmd[o].to), cmd[o].branch>> \notin overruled

\* A delivery that ends with exit code 0 has its own commit in the checkout of its own
\* box, not what an earlier command left running there, or the other operator's: unless
\* its branch was overruled.
SuccessIsOwn ==
    \A o \in Operator :
        Delivers(o) /\ cmd'[o] = None /\ exit'[o] = 0 =>
            /\ cmd[o].sha \in delivered'[Host(cmd[o].to)]
            /\ Contains(boxes'[Host(cmd[o].to)].head, cmd[o].sha)

\* What a step does to the commands, for the three kinds of step there are.
Moves(o) ==
    /\ \A p \in Operator : p # o => cmd'[p] = cmd[p] /\ exit'[p] = exit[p]
    /\ cmd[o] # None => RunsDown(o)

LEMMA OwnStays ==
    ASSUME OwnInv, jobs' \subseteq jobs, UNCHANGED <<cmd, exit>>
    PROVE  JobsOwned' /\ \A o \in Operator : cmd[o] # None => RunsDown(o) /\ cmd'[o] # None
  BY DEF OwnInv, JobsOwned, IsOf, At, RunsDown, IInv, TypeOK, Job

\* A command is given.
LEMMA OwnAsked ==
    ASSUME OwnInv, NEW o \in Operator, Asked(o),
           exit' \in [Operator -> {0, 1, 2, None}],
           \A p \in Operator : p # o => exit'[p] = exit[p],
           NEW c \in Command \cup {None},
           cmd' = [cmd EXCEPT ![o] = c],
           c # None => /\ exit'[o] = None /\ c.at # "waiting"
                       /\ c.at \in {"gradle", "exec"} => c.branch = None
    PROVE  JobsOwned' /\ Moves(o)
<1> USE DEF OwnInv, IInv, TypeOK, JobsOwned, IsOf, At, Asked
<1>1. /\ cmd'[o] = c /\ jobs' = jobs /\ cmd[o] = None
      /\ \A p \in Operator : p # o => cmd'[p] = cmd[p]
  OBVIOUS
<1>2. \A j \in jobs : j.of # Nobody => j.of \in Operator /\ j.of # o
  BY <1>1 DEF Job
<1>3. Moves(o)
  BY <1>1 DEF Moves
<1> QED
  BY <1>1, <1>2, <1>3

LEMMA OwnBegins ==
    ASSUME OwnInv, NEW o \in Operator, NEW n \in LegalNames,
           \/ \E v \in {"list", "show"} \cup Started : Look(o, n, v) \/ Refuse(o, n, v)
           \/ \E v \in Started \ {"deliver"} : Run(o, n, v)
           \/ \E d \in Commit, r \in Given : Deliver(o, n, d, r)
           \/ \E d \in Commit \cup {None}, f \in BOOLEAN, r \in Given \ {None} :
                 DeliverAsWorded(o, n, d, f, r)
    PROVE  JobsOwned' /\ Moves(o) /\ cmd[o] = None
<1>1. ASSUME NEW v, Look(o, n, v) \/ Refuse(o, n, v)
      PROVE  JobsOwned' /\ Moves(o) /\ cmd[o] = None
  <2>1. /\ cmd' = [cmd EXCEPT ![o] = None] /\ exit' \in [Operator -> {0, 1, 2, None}]
        /\ Asked(o) /\ \A p \in Operator : p # o => exit'[p] = exit[p]
    BY <1>1 DEF Look, Refuse, Exit, OwnInv, IInv, TypeOK
  <2> QED
    BY <2>1, OwnAsked DEF Asked
<1>2. ASSUME \/ \E v \in Started \ {"deliver"} : Run(o, n, v)
             \/ \E d \in Commit, r \in Given : Deliver(o, n, d, r)
             \/ \E d \in Commit \cup {None}, f \in BOOLEAN, r \in Given \ {None} :
                   DeliverAsWorded(o, n, d, f, r)
      PROVE  JobsOwned' /\ Moves(o) /\ cmd[o] = None
  <2>1. Asked(o)
    BY <1>2, Begun DEF OwnInv, IInv
  <2>2. PICK c \in Command :
           /\ \/ c.at \in {"gradle", "exec"} /\ c.branch = None
              \/ c.at = "push" /\ c.branch \in Branch
           /\ cmd' = [cmd EXCEPT ![o] = c]
           /\ exit' \in [Operator -> {0, 1, 2, None}] /\ exit'[o] = None
           /\ \A p \in Operator : p # o => exit'[p] = exit[p]
    BY <1>2, Begun DEF OwnInv, IInv
  <2> QED
    BY <2>1, <2>2, OwnAsked DEF Asked
<1> QED
  BY <1>1, <1>2

\* A command ends before it has anything running, or gives up what it has.
LEMMA OwnEnds ==
    ASSUME OwnInv, NEW o \in Operator, Done(o, 1) \/ Done(o, 2), cmd[o] # None,
           \/ jobs' \subseteq jobs \cup {j \in Job : j.of = Nobody} /\ ~At(o, {"waiting"})
           \/ jobs' = {[j EXCEPT !.of = IF @ = o THEN Nobody ELSE @] : j \in jobs}
    PROVE  JobsOwned' /\ Moves(o) /\ exit'[o] # 0
<1> USE DEF OwnInv, IInv, TypeOK
<1>1. /\ cmd' = [cmd EXCEPT ![o] = None] /\ cmd'[o] = None /\ exit'[o] \in {1, 2}
      /\ \A p \in Operator : p # o => cmd'[p] = cmd[p] /\ exit'[p] = exit[p]
  BY DEF Done, Exit
<1>2. Moves(o)
  BY <1>1 DEF Moves, RunsDown
<1>3. ASSUME NEW j \in jobs', j.of # Nobody PROVE j \in jobs /\ j.of # o
  BY <1>3 DEF JobsOwned, Job
<1>4. \A j \in jobs' : j.of # Nobody => j \in jobs /\ j.of \in Operator /\ j.of # o
  BY <1>3 DEF Job
<1> QED
  BY <1>1, <1>2, <1>4 DEF JobsOwned, IsOf, At

\* A delivery that is past its push goes on to its merge.
LEMMA OwnPushes ==
    ASSUME OwnInv, NEW o \in Operator, Push(o)
    PROVE  JobsOwned' /\ Moves(o) /\ exit'[o] # 0
<1> DEFINE c == cmd[o]
<1>1. c \in Command /\ c.at = "push" /\ jobs' = jobs /\ c # None
  BY CommandAssumption DEF OwnInv, IInv, TypeOK, Push, At
<1>2. CASE Goto(o, "merge")
  <2>1. /\ cmd'[o] = [c EXCEPT !.at = "merge"] /\ exit' = exit
        /\ \A p \in Operator : p # o => cmd'[p] = cmd[p]
    BY <1>2 DEF Goto, OwnInv, IInv, TypeOK
  <2>2. cmd'[o] \in Command /\ cmd'[o].at = "merge" /\ cmd'[o] # None
    BY <1>1, <2>1, CommandAssumption DEF Command, Stage
  <2>3. exit[o] = None
    BY <1>1 DEF OwnInv, JobsOwned
  <2>4. Moves(o)
    BY <1>1, <2>1, <2>2, <2>3 DEF Moves, RunsDown, Left
  <2>5. \A j \in jobs : j.of # Nobody => j.of \in Operator /\ j.of # o
    BY <1>1 DEF OwnInv, JobsOwned, IInv, TypeOK, Job, At
  <2>6. JobsOwned'
    <3>1. ASSUME NEW j \in jobs', j.of # Nobody
          PROVE  At(j.of, {"waiting"})' /\ IsOf(j, cmd[j.of])'
      <4>1. j \in jobs /\ cmd'[j.of] = cmd[j.of]
        BY <1>1, <2>1, <2>5, <3>1
      <4> QED
        BY <3>1, <4>1 DEF OwnInv, JobsOwned, At, IsOf
    <3>2. /\ \A j, k \in jobs' : j.of = k.of /\ j.of # Nobody => j = k
          /\ \A j \in jobs' : j.of # Nobody => (j.verb = "merge" <=> j.branch # None)
      BY <1>1 DEF OwnInv, JobsOwned
    <3>3. \A p \in Operator : At(p, {"gradle", "exec"})' => cmd'[p].branch = None
      BY <2>1, <2>2 DEF OwnInv, JobsOwned, At
    <3>4. \A p \in Operator : cmd'[p] # None => exit'[p] = None
      BY <2>1, <2>3 DEF OwnInv, JobsOwned
    <3> QED
      BY <3>1, <3>2, <3>3, <3>4 DEF JobsOwned
  <2> QED
    BY <2>1, <2>3, <2>4, <2>6, NoneAssumption
<1>3. CASE Done(o, 1)
  <2>1. ~At(o, {"waiting"})
    BY <1>1 DEF At
  <2> QED
    BY <1>1, <1>3, <2>1, OwnEnds
<1> QED
  BY <1>2, <1>3 DEF Push

\* What a command starts on its box answers to it, and to it alone.
LEMMA OwnConnects ==
    ASSUME OwnInv, NEW o \in Operator, Connect(o)
    PROVE  JobsOwned' /\ Moves(o) /\ exit'[o] # 0
<1> DEFINE c == cmd[o]
           j == JobOf(o, Host(c.to), c.at)
<1>1. /\ c \in Command /\ c # None /\ c.at \in {"merge", "gradle", "exec"}
      /\ jobs' = jobs \cup {j} /\ Goto(o, "waiting")
  BY DEF OwnInv, IInv, TypeOK, Connect, At
<1>2. /\ cmd'[o] = [c EXCEPT !.at = "waiting"] /\ exit' = exit
      /\ \A p \in Operator : p # o => cmd'[p] = cmd[p]
  BY <1>1 DEF Goto, OwnInv, IInv, TypeOK
<1>3. /\ cmd'[o] \in Command /\ cmd'[o].at = "waiting" /\ cmd'[o] # None
      /\ cmd'[o].to = c.to /\ cmd'[o].sha = c.sha /\ cmd'[o].branch = c.branch
  BY <1>1, <1>2, CommandAssumption DEF Command, Stage
<1>4. exit[o] = None
  BY <1>1 DEF OwnInv, JobsOwned
<1>5. Moves(o)
  BY <1>1, <1>2, <1>3, <1>4 DEF Moves, RunsDown, Left
<1>6. \A k \in jobs : k.of # Nobody => k.of \in Operator /\ k.of # o
  BY <1>1 DEF OwnInv, JobsOwned, IInv, TypeOK, Job, At
<1>7. j.of = o /\ j.verb = c.at /\ j.sha = c.sha /\ j.box = Host(c.to) /\ j.branch = c.branch
  BY DEF JobOf
<1>8. j.verb = "merge" <=> j.branch # None
  BY <1>1, <1>7, NamesAssumption DEF OwnInv, JobsOwned, IInv, TypeOK, At
<1> HIDE DEF j
<1>9. JobsOwned'
  <2>1. ASSUME NEW k \in jobs', k.of # Nobody
        PROVE  At(k.of, {"waiting"})' /\ IsOf(k, cmd[k.of])'
    <3>1. CASE k = j
      BY <1>3, <1>7, <3>1 DEF At, IsOf
    <3>2. CASE k # j
      <4>1. k \in jobs /\ cmd'[k.of] = cmd[k.of]
        BY <1>1, <1>2, <1>6, <2>1, <3>2
      <4> QED
        BY <2>1, <4>1 DEF OwnInv, JobsOwned, At, IsOf
    <3> QED
      BY <3>1, <3>2
  <2>2. \A k, l \in jobs' : k.of = l.of /\ k.of # Nobody => k = l
    BY <1>1, <1>6, <1>7 DEF OwnInv, JobsOwned
  <2>3. \A k \in jobs' : k.of # Nobody => (k.verb = "merge" <=> k.branch # None)
    BY <1>1, <1>8 DEF OwnInv, JobsOwned
  <2>4. \A p \in Operator : At(p, {"gradle", "exec"})' => cmd'[p].branch = None
    BY <1>2, <1>3 DEF OwnInv, JobsOwned, At
  <2>5. \A p \in Operator : cmd'[p] # None => exit'[p] = None
    BY <1>2, <1>4 DEF OwnInv, JobsOwned
  <2> QED
    BY <2>1, <2>2, <2>3, <2>4, <2>5 DEF JobsOwned
<1> QED
  BY <1>2, <1>4, <1>5, <1>9, NoneAssumption

\* A job ends.  Who waits for it, if anybody does, hears how it went.
LEMMA OwnAnswers ==
    ASSUME OwnInv, NEW j \in jobs, MergeEnds(j) \/ RunEnds(j)
    PROVE  /\ JobsOwned'
           /\ \A o \in Operator : cmd[o] # None => RunsDown(o)
           /\ \A o \in Operator : Delivers(o) /\ exit'[o] = 0 =>
                 cmd[o].sha \in delivered'[Host(cmd[o].to)]
<1> USE DEF OwnInv, IInv, TypeOK, Delivers
<1>1. jobs' = jobs \ {j} /\ \E ok \in BOOLEAN : Answer(j, ok)
  BY DEF MergeEnds, RunEnds
<1>2. CASE j.of = Nobody
  <2>1. UNCHANGED <<cmd, exit>>
    BY <1>1, <1>2 DEF Answer, client
  <2>2. \A o \in Operator : cmd[o] # None => exit'[o] = None
    BY <2>1 DEF JobsOwned
  <2> HIDE DEF OwnInv, IInv, TypeOK
  <2> QED
    BY <1>1, <2>1, <2>2, OwnStays, NoneAssumption
<1>3. CASE j.of # Nobody
  <2> DEFINE o == j.of
  <2>1. PICK ok \in BOOLEAN : Answer(j, ok)
    BY <1>1
  <2>2. /\ o \in Operator /\ At(o, {"waiting"}) /\ j \in Job
        /\ j.box = Host(cmd[o].to) /\ j.sha = cmd[o].sha /\ j.branch = cmd[o].branch
        /\ j.verb = "merge" <=> j.branch # None
    BY <1>3 DEF JobsOwned, IsOf, Job
  <2>3. /\ cmd'[o] = None /\ exit'[o] = (IF ok THEN 0 ELSE 1)
        /\ \A p \in Operator : p # o => cmd'[p] = cmd[p] /\ exit'[p] = exit[p]
    BY <1>3, <2>1, <2>2 DEF Answer, Done, Exit
  <2>4. JobsOwned'
    BY <1>1, <1>3, <2>2, <2>3 DEF JobsOwned, IsOf, At, Job
  <2>5. \A p \in Operator : cmd[p] # None => RunsDown(p)
    BY <2>3 DEF RunsDown, JobsOwned
  <2>6. ok /\ Delivers(o) => cmd[o].sha \in delivered'[Host(cmd[o].to)]
    <3>1. ok /\ Delivers(o) =>
             j.verb = "merge" /\ delivered' = [delivered EXCEPT ![j.box] = @ \cup {j.sha}]
      BY <1>3, <2>1, <2>2 DEF Answer
    <3> QED
      BY <2>2, <3>1 DEF Job
  <2>7. ASSUME NEW p \in Operator, Delivers(p), exit'[p] = 0
        PROVE  cmd[p].sha \in delivered'[Host(cmd[p].to)]
    <3>1. CASE p = o
      BY <2>3, <2>6, <2>7, <3>1
    <3>2. CASE p # o
      BY <2>3, <2>7, <3>2, NoneAssumption DEF JobsOwned
    <3> QED
      BY <3>1, <3>2
  <2> QED
    BY <2>4, <2>5, <2>7
<1> QED
  BY <1>2, <1>3

\* What an operator's own step comes to for all of them.
LEMMA OwnStep ==
    ASSUME OwnInv, NEW o \in Operator, Moves(o)
    PROVE  \A p \in Operator : cmd[p] # None =>
              /\ RunsDown(p)
              /\ p # o => exit'[p] = None
  BY DEF Moves, RunsDown, OwnInv, JobsOwned

LEMMA OwnNext ==
    ASSUME OwnInv, [Next]_fleet
    PROVE  /\ JobsOwned' /\ CommandsRunDown
           /\ \A o \in Operator : Delivers(o) /\ exit'[o] = 0 =>
                 cmd[o].sha \in delivered'[Host(cmd[o].to)]
<1>1. ASSUME NEW o \in Operator, JobsOwned', Moves(o), exit'[o] # 0 \/ cmd[o] = None
      PROVE  /\ CommandsRunDown
             /\ \A p \in Operator : cmd[p] # None => exit'[p] # 0
  BY <1>1, OwnStep, NoneAssumption DEF CommandsRunDown
<1>2. ASSUME NEW o \in Operator,
             PushFails(o) \/ PushGivesUp(o) \/ ToolMissing(o) \/ NoConnection(o) \/ GiveUp(o)
      PROVE  JobsOwned' /\ Moves(o) /\ exit'[o] # 0
  <2>1. Done(o, 1) \/ Done(o, 2)
    BY <1>2 DEF PushFails, PushGivesUp, ToolMissing, NoConnection, GiveUp
  <2>2. cmd[o] # None
    BY <1>2 DEF PushFails, PushGivesUp, ToolMissing, NoConnection, GiveUp, At
  <2>3. \/ jobs' \subseteq jobs \cup {j \in Job : j.of = Nobody} /\ ~At(o, {"waiting"})
        \/ jobs' = {[j EXCEPT !.of = IF @ = o THEN Nobody ELSE @] : j \in jobs}
    <3>1. CASE PushGivesUp(o)
      <4>1. ~At(o, {"waiting"})
        BY <3>1 DEF PushGivesUp, At
      <4> QED
        BY <3>1, <4>1, LeftToTheBox DEF OwnInv
    <3>2. CASE PushFails(o) \/ ToolMissing(o) \/ NoConnection(o) \/ GiveUp(o)
      BY <3>2 DEF PushFails, ToolMissing, NoConnection, GiveUp, At
    <3> QED
      BY <1>2, <3>1, <3>2
  <2> QED
    BY <2>1, <2>2, <2>3, OwnEnds
<1>3. ASSUME \/ \E b \in Box : BoxDown(b) \/ BoxUp(b)
             \/ \E j \in jobs : PushEnds(j) \/ Rework(j)
             \/ EditRegister \/ Rearrange \/ UNCHANGED fleet
      PROVE  JobsOwned' /\ CommandsRunDown /\ \A o \in Operator : cmd[o] # None => exit'[o] # 0
  <2>1. jobs' \subseteq jobs /\ UNCHANGED <<cmd, exit>>
    BY <1>3 DEF BoxDown, BoxUp, PushEnds, Rework, EditRegister, Rearrange, fleet, client
  <2>2. \A o \in Operator : cmd[o] # None => exit'[o] # 0
    BY <2>1, NoneAssumption DEF OwnInv, JobsOwned
  <2> QED
    BY <2>1, <2>2, OwnStays DEF CommandsRunDown
<1>4. ASSUME NEW j \in jobs, MergeEnds(j) \/ RunEnds(j)
      PROVE  /\ JobsOwned' /\ CommandsRunDown
             /\ \A o \in Operator : Delivers(o) /\ exit'[o] = 0 =>
                   cmd[o].sha \in delivered'[Host(cmd[o].to)]
  BY <1>4, OwnAnswers DEF CommandsRunDown
<1>5. ASSUME JobsOwned', CommandsRunDown, \A o \in Operator : cmd[o] # None => exit'[o] # 0
      PROVE  /\ JobsOwned' /\ CommandsRunDown
             /\ \A o \in Operator : Delivers(o) /\ exit'[o] = 0 =>
                   cmd[o].sha \in delivered'[Host(cmd[o].to)]
  BY <1>5 DEF Delivers
<1> QED
  BY <1>1, <1>2, <1>3, <1>4, <1>5, OwnBegins, OwnPushes, OwnConnects DEF Next

LEMMA OwnProbe ==
    ASSUME OwnInv, [ProbeNext]_vars
    PROVE  JobsOwned' /\ CommandsRunDown /\ SuccessIsOwn
<1>1. IInv'
  BY ProbeInvStep DEF OwnInv
<1>2. CASE [Next]_fleet
  <2>1. /\ JobsOwned' /\ CommandsRunDown
        /\ \A o \in Operator : Delivers(o) /\ exit'[o] = 0 =>
              cmd[o].sha \in delivered'[Host(cmd[o].to)]
    BY <1>2, OwnNext
  <2>2. ASSUME NEW o \in Operator, Delivers(o)
        PROVE  Host(cmd[o].to) \in Box
    BY <2>2, HostsAssumption DEF OwnInv, IInv, TypeOK, Command, Delivers
  <2>3. SuccessIsOwn
    BY <1>1, <2>1, <2>2 DEF SuccessIsOwn, IInv, TypeOK, DeliveredMeansThere
  <2> QED
    BY <2>1, <2>3
<1>3. CASE Probe
  <2>1. UNCHANGED <<jobs, cmd, exit>>
    BY <1>3 DEF Probe, ProbeStarts, ProbeRefused, ProbeEnds, LookAtPlanned, LookAtStandalone,
       LookAtCheckout, NotReached, LookAtPlatform, ProbeCrashes, Note, fleet, client
  <2> QED
    BY <2>1, OwnStays DEF CommandsRunDown, SuccessIsOwn, Delivers
<1> QED
  BY <1>2, <1>3 DEF ProbeNext, vars

LEMMA OwnInvariance == ProbeSpec => []OwnInv
<1>1. ProbeInit => JobsOwned
  BY NoneAssumption DEF ProbeInit, Init, JobsOwned, At
<1> QED
  BY <1>1, Invariance, OwnProbe, PTL DEF ProbeSpec, OwnInv

\* Every command is over after at most three steps of its own and comes back with one
\* exit code, however many operators share a box and whatever becomes of it.
THEOREM CommandsComeBack == ProbeSpec => [][CommandsRunDown]_vars
  BY OwnInvariance, OwnProbe, PTL DEF ProbeSpec

\* The exit code of a delivery is its own: 0 only when its commit is in the checkout of
\* its box, although what an earlier command started there may still be running; unless a
\* delivery that forces or deletes, or the line of an exec, overruled its branch.
THEOREM SuccessIsOnTheBox == ProbeSpec => [][SuccessIsOwn]_vars
  BY OwnInvariance, OwnProbe, PTL DEF ProbeSpec
-----------------------------------------------------------------------------
(* The probe.                                                              *)

\* What the probe has yet to read are instances of a register it loaded.
Listed == {i \in Files \X LegalNames : i[1] \in DOMAIN Loaded /\ i[2] \in DOMAIN Loaded[i[1]]}

ProbeFields ==
    /\ probe.left \in Seq(Listed)
    /\ DOMAIN probe = {"at", "left", "checkout", "readings"}
    /\ probe.at \in {"idle", "next", "reading"}
    /\ probe.checkout \in Commit \cup {None}
    /\ probe.readings \subseteq Reading
    /\ status \in {0, 1, 2, 3, None}
    /\ found \subseteq {"fine", "unread", "sick", "drift"}

\* What a reading must say of an instance, for how it was found.
Tells(reading, was) ==
    /\ was = "unread" => reading.gaps \/ reading.verdict = "UNREACHABLE"
    /\ was = "sick" => reading.verdict = "UNHEALTHY"
    /\ was = "drift" => reading.verdict = "DRIFT"
    /\ reading.verdict = "DRIFT" /\ ~reading.gaps => was = "drift"

\* The readings the probe has so far say how it found things.
Accounted ==
    /\ "unread" \in found => \E r \in probe.readings : r.gaps \/ r.verdict = "UNREACHABLE"
    /\ "sick" \in found => \E r \in probe.readings : r.verdict = "UNHEALTHY"
    /\ "drift" \in found => \E r \in probe.readings : r.verdict = "DRIFT"
    /\ \A r \in probe.readings : r.verdict = "DRIFT" /\ ~r.gaps => "drift" \in found

ProbeInv ==
    /\ ProbeFields
    /\ probe.at # "idle" => Accounted
    /\ VerdictIsEarned

LEMMA NoteTells ==
    ASSUME ProbeInv, probe.at # "idle", probe.left # << >>, NEW reading \in Reading,
           NEW was \in {"fine", "unread", "sick", "drift"}, Tells(reading, was),
           Note(reading, was)
    PROVE  ProbeInv'
<1>1. /\ DOMAIN probe' = DOMAIN probe /\ probe'.at = "next" /\ probe'.checkout = None
      /\ probe'.left = Tail(probe.left) /\ probe.left # << >>
      /\ probe'.readings = probe.readings \cup {reading}
      /\ found' = found \cup {was} /\ status' = status
  BY DEF Note, ProbeInv, ProbeFields
<1>2. ProbeFields'
  BY <1>1 DEF ProbeInv, ProbeFields
<1>3. Accounted'
  BY <1>1 DEF ProbeInv, Accounted, Tells
<1> QED
  BY <1>1, <1>2, <1>3 DEF ProbeInv, VerdictIsEarned

\* What is read of a box tells how it was.
LEMMA PlatformTells ==
    ASSUME NEW checkout, NEW serving, NEW answer \in BoxAnswer, answer.api # "other"
    PROVE  /\ ServerReading(checkout, serving, answer) \in Reading
           /\ Was(checkout, serving, answer) \in {"fine", "unread", "sick", "drift"}
           /\ Tells(ServerReading(checkout, serving, answer), Was(checkout, serving, answer))
<1>1. /\ answer.api \in {"build", "silent", "garbage", "other", "no port"}
      /\ answer.deployments \in {"all", "some", "none"} /\ answer.complete \in BOOLEAN
  BY DEF BoxAnswer
<1> DEFINE bad == answer.api \in {"silent", "garbage"} \/ answer.deployments = "some"
           drift == answer.api = "build" /\ checkout # serving
           gaps == answer.api = "no port" \/ answer.deployments = "none" \/ ~answer.complete
           verdict == IF bad THEN "UNHEALTHY" ELSE IF drift THEN "DRIFT" ELSE "HEALTHY"
           was == Was(checkout, serving, answer)
<1>2. ServerReading(checkout, serving, answer) = [verdict |-> verdict, gaps |-> gaps]
  BY DEF ServerReading, Reads
<1>3. gaps \in BOOLEAN /\ verdict \in {"HEALTHY", "UNHEALTHY", "DRIFT"}
  OBVIOUS
<1>4. /\ was \in {"fine", "unread", "sick", "drift"}
      /\ was = "unread" => gaps
      /\ was = "sick" => verdict = "UNHEALTHY"
      /\ was = "drift" => verdict = "DRIFT"
      /\ verdict = "DRIFT" /\ ~gaps => was = "drift"
  BY <1>1 DEF Was
<1> HIDE DEF verdict, gaps, was
<1>5. [verdict |-> verdict, gaps |-> gaps] \in Reading
  BY <1>3 DEF Reading
<1>6. Tells([verdict |-> verdict, gaps |-> gaps], was)
  BY <1>4 DEF Tells
<1> QED
  BY <1>2, <1>4, <1>5, <1>6 DEF was

LEMMA ProbeLooks ==
    ASSUME IInv, ProbeInv, Probe
    PROVE  ProbeInv'
<1>1. CASE ProbeStarts
  <2>1. PICK names \in {Names(Text[register])} \cup {<<n>> : n \in Known} :
           probe' = [Idle EXCEPT !.at = "next",
                        !.left = [i \in DOMAIN names |-> <<register, names[i]>>]]
    BY <1>1 DEF ProbeStarts
  <2>2. /\ register \in Files /\ register \in DOMAIN Loaded
        /\ status' = None /\ found' = {}
    BY <1>1 DEF ProbeStarts, IInv, TypeOK
  <2>3. Names(Text[register]) \in Seq(LegalNames)
    BY <2>2, ListsAssumption
  <2>4. Known = {Names(Text[register])[i] : i \in DOMAIN Names(Text[register])}
    BY <2>2 DEF Known, Loaded, Registry
  <2>5. names \in Seq(LegalNames) /\ \A i \in DOMAIN names : names[i] \in Known
    <3>1. CASE names = Names(Text[register])
      BY <2>3, <2>4, <3>1
    <3>2. ASSUME NEW n \in Known, names = <<n>>
          PROVE  names \in Seq(LegalNames) /\ \A i \in DOMAIN names : names[i] \in Known
      <4>1. n \in LegalNames
        BY <2>3, <2>4
      <4> QED
        BY <3>2, <4>1
    <3> QED
      BY <2>1, <3>1, <3>2
  <2>6. [i \in DOMAIN names |-> <<register, names[i]>>] \in Seq(Listed)
    BY <2>2, <2>5 DEF Listed, Known
  <2> QED
    BY <2>1, <2>2, <2>6 DEF Idle, ProbeInv, ProbeFields, Accounted, VerdictIsEarned
<1>2. CASE ProbeRefused
  BY <1>2 DEF ProbeRefused, ProbeInv, ProbeFields, Accounted, VerdictIsEarned
<1>3. CASE ProbeEnds
  <2>1. /\ probe' = Idle /\ status' = ExitCode(probe.readings) /\ found' = found /\ Accounted
    BY <1>3 DEF ProbeEnds, ProbeInv
  <2>2. VerdictIsEarned'
    BY <2>1 DEF ProbeInv, ProbeFields, Accounted, ExitCode, VerdictIsEarned
  <2> QED
    BY <2>1, <2>2 DEF Idle, ProbeInv, ProbeFields, ExitCode
<1>4. CASE LookAtPlanned
  <2>1. PICK reading, was :
           /\ Note(reading, was) /\ probe.at # "idle" /\ probe.left # << >>
           /\ \/ reading = Reads("DRIFT", FALSE) /\ was = "drift"
              \/ reading = Reads("PLANNED", FALSE) /\ was = "fine"
    BY <1>4 DEF LookAtPlanned, Looking, PlannedReading
  <2> QED
    BY <2>1, NoteTells DEF Reads, Reading, Tells
<1>5. CASE LookAtStandalone
  <2>1. PICK running \in BOOLEAN :
           Note(StandaloneReading(running), "unread") /\ probe.at # "idle" /\ probe.left # << >>
    BY <1>5 DEF LookAtStandalone, Looking
  <2>2. StandaloneReading(running) \in Reading /\ Tells(StandaloneReading(running), "unread")
    BY DEF StandaloneReading, Reads, Reading, Tells
  <2> QED
    BY <2>1, <2>2, NoteTells
<1>6. CASE LookAtCheckout
  <2> DEFINE seen == boxes[Host(Head(probe.left))].head
  <2>1. /\ probe' = [probe EXCEPT !.at = "reading", !.checkout = seen]
        /\ UNCHANGED <<status, found>> /\ probe.at # "idle"
        /\ probe.left # << >> /\ CanSsh(Head(probe.left))
    BY <1>6 DEF LookAtCheckout, Looking
  <2>2. seen \in Commit
    <3>1. Head(probe.left) \in Listed
      BY <2>1 DEF ProbeInv, ProbeFields
    <3>2. Head(probe.left) \in Reachable
      BY <2>1, <3>1 DEF CanSsh, Reachable, Listed
    <3>3. Host(Head(probe.left)) \in Box
      BY <3>2, HostsAssumption
    <3> QED
      BY <3>3 DEF IInv, TypeOK, BoxState
  <2> HIDE DEF seen
  <2> QED
    BY <2>1, <2>2 DEF ProbeInv, ProbeFields, Accounted, VerdictIsEarned
<1>7. CASE NotReached
  <2>1. Unreachable \in Reading /\ Tells(Unreachable, "unread")
    BY DEF Unreachable, Reads, Reading, Tells
  <2> QED
    BY <1>7, <2>1, NoteTells DEF NotReached, Looking
<1>8. CASE LookAtPlatform
  <2> DEFINE box == boxes[Host(Head(probe.left))]
  <2>1. PICK answer \in Answers :
           /\ answer.api # "other"
           /\ Note(ServerReading(probe.checkout, box.serving, answer),
                   Was(probe.checkout, box.serving, answer))
    BY <1>8 DEF LookAtPlatform
  <2>2. answer \in BoxAnswer /\ probe.at # "idle" /\ probe.left # << >>
    BY <1>8, AnswersAssumption DEF LookAtPlatform, Looking
  <2> QED
    BY <2>1, <2>2, PlatformTells, NoteTells
<1>9. CASE ProbeCrashes
  BY <1>9 DEF ProbeCrashes, Idle, ProbeInv, ProbeFields, VerdictIsEarned
<1> QED
  BY <1>1, <1>2, <1>3, <1>4, <1>5, <1>6, <1>7, <1>8, <1>9 DEF Probe

LEMMA ProbeInvariance == ProbeSpec => []ProbeInv
<1>1. ProbeInit => ProbeInv
  <2> SUFFICES ASSUME probe = Idle, status = None, found = {} PROVE ProbeInv
    BY DEF ProbeInit
  <2>1. /\ DOMAIN probe = {"at", "left", "checkout", "readings"} /\ probe.at = "idle"
        /\ probe.left = << >> /\ probe.checkout = None /\ probe.readings = {}
    BY DEF Idle
  <2>2. << >> \in Seq(Listed)
    OBVIOUS
  <2> QED
    BY <2>1, <2>2, NoneAssumption DEF ProbeInv, ProbeFields, VerdictIsEarned
<1>2. IInv /\ ProbeInv /\ [ProbeNext]_vars => ProbeInv'
  <2> SUFFICES ASSUME IInv, ProbeInv, [ProbeNext]_vars PROVE ProbeInv'
    OBVIOUS
  <2>1. CASE UNCHANGED <<probe, status, found>>
    BY <2>1 DEF ProbeInv, ProbeFields, Accounted, VerdictIsEarned
  <2> QED
    BY <2>1, ProbeLooks DEF ProbeNext, vars
<1> QED
  BY <1>1, <1>2, Invariance, PTL DEF ProbeSpec

\* The commands beside the probe and the probe itself keep their types.
THEOREM ProbeTypes == ProbeSpec => []ProbeTypeOK
<1>1. IInv /\ ProbeInv => ProbeTypeOK
  BY DEF IInv, ProbeInv, ProbeFields, ProbeTypeOK
<1> QED
  BY <1>1, Invariance, ProbeInvariance, PTL

\* exit_code of the probe: 0 and 3 speak of instances it has seen, each of them, whatever
\* a box answers and whatever is delivered, edited or taken down between two looks.
THEOREM VerdictHolds == ProbeSpec => []VerdictIsEarned
<1>1. ProbeInv => VerdictIsEarned
  BY DEF ProbeInv
<1> QED
  BY <1>1, ProbeInvariance, PTL
=============================================================================
