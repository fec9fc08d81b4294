---------------------------- MODULE InstanceProbe ----------------------------
(***************************************************************************)
(* vpath-instance-status (instances/probe.py) beside the commands of       *)
(* InstanceFleet: it reads every declared instance, one after the other,   *)
(* and one box in two looks, its checkout and then what it runs, between   *)
(* which a delivery or a build may end.  It changes nothing, so there is   *)
(* one probe.                                                              *)
(***************************************************************************)
EXTENDS InstanceFleet

CONSTANT Answers     \* what a box's platform, cluster and files may say

VARIABLES
    probe,      \* where the probe stands, and the readings it has
    status,     \* its exit code, or None while it runs and before
    found       \* how the instances were when it looked: history

vars == <<fleet, probe, status, found>>

-----------------------------------------------------------------------------
(* One reading.                                                            *)

\* The payload's lines, as the notes tell them apart.  "other" is JSON that is not
\* an object.
BoxAnswer == [api : {"build", "silent", "garbage", "other", "no port"},
              deployments : {"all", "some", "none"},
              complete : BOOLEAN]   \* profile, marker and labelled image are all there

Reading == [verdict : {"HEALTHY", "UNHEALTHY", "UNREACHABLE", "STOPPED", "PLANNED", "DRIFT"},
            gaps : BOOLEAN]

Reads(verdict, gaps) == [verdict |-> verdict, gaps |-> gaps]

Unreachable == Reads("UNREACHABLE", TRUE)

\* _note_checkout, _note_running, _note_history and the comparison of _read_server:
\* what is served is held against the checkout only where nothing was worse.
ServerReading(checkout, serving, answer) ==
    Reads(IF answer.api \in {"silent", "garbage"} \/ answer.deployments = "some"
          THEN "UNHEALTHY"
          ELSE IF answer.api = "build" /\ checkout # serving THEN "DRIFT" ELSE "HEALTHY",
          answer.api = "no port" \/ answer.deployments = "none" \/ ~answer.complete)

\* _read_standalone: its address is a gap always.
StandaloneReading(running) == Reads(IF running THEN "HEALTHY" ELSE "STOPPED", TRUE)

\* read_instance of a planned one looks for the home directory of the register.
PlannedReading(i) ==
    Reads(IF Field(Declared(i), "HOME") \in disk THEN "DRIFT" ELSE "PLANNED", FALSE)

\* Mutant: drift outranks what could not be established.
DriftFirst(readings) ==
    IF \E r \in readings : r.verdict = "DRIFT" THEN 3
    ELSE IF \E r \in readings : r.gaps \/ r.verdict = "UNREACHABLE" THEN 2
    ELSE IF \E r \in readings : r.verdict = "UNHEALTHY" THEN 1
    ELSE 0

\* exit_code: 2 > 1 > 3 > 0.
ExitCode(readings) ==
    IF \E r \in readings : r.gaps \/ r.verdict = "UNREACHABLE" THEN 2
    ELSE IF \E r \in readings : r.verdict = "UNHEALTHY" THEN 1
    ELSE IF \E r \in readings : r.verdict = "DRIFT" THEN 3
    ELSE 0

-----------------------------------------------------------------------------
(* The probe.                                                              *)

ASSUME AnswersAssumption == Answers \subseteq BoxAnswer

ASSUME NoneAssumption == None \notin {0, 1, 2, 3}

\* VPATH_INSTANCES is a list of names.
ASSUME ListsAssumption == \A f \in DOMAIN Loaded : Names(Text[f]) \in Seq(LegalNames)

Idle == [at |-> "idle", left |-> << >>, checkout |-> None, readings |-> {}]

ProbeInit == Init /\ probe = Idle /\ status = None /\ found = {}

\* main: all the declared instances, or the one that is named.
ProbeStarts ==
    /\ probe.at = "idle" /\ register \in DOMAIN Loaded
    /\ \E names \in {Names(Text[register])} \cup {<<n>> : n \in Known} :
          probe' = [Idle EXCEPT !.at = "next",
                       !.left = [i \in DOMAIN names |-> <<register, names[i]>>]]
    /\ status' = None /\ found' = {}
    /\ Count
    /\ UNCHANGED <<machine, boxes, jobs, cmd, exit, history>>

ProbeRefused ==
    /\ probe.at = "idle"
    /\ LegalNames \ Known # {}
    /\ status' = 2 /\ found' = {}
    /\ UNCHANGED <<fleet, probe>>

\* The reading of the instance at hand is done: how it was, and what is said of it.
Note(reading, was) ==
    /\ probe' = [probe EXCEPT !.at = "next", !.left = Tail(@), !.checkout = None,
                              !.readings = @ \cup {reading}]
    /\ found' = found \cup {was}
    /\ UNCHANGED <<fleet, status>>

Looking(at) == probe.at = at /\ probe.left # << >>

LookAtPlanned ==
    /\ Looking("next") /\ IsPlanned(Declared(Head(probe.left)))
    /\ Note(PlannedReading(Head(probe.left)),
            IF Field(Declared(Head(probe.left)), "HOME") \in disk THEN "drift" ELSE "fine")

LookAtStandalone ==
    /\ Looking("next")
    /\ ~IsPlanned(Declared(Head(probe.left))) /\ ~IsServer(Declared(Head(probe.left)))
    /\ \E running \in BOOLEAN : Note(StandaloneReading(running), "unread")

\* The payload starts with the checkout.
LookAtCheckout ==
    LET i == Head(probe.left)
    IN  /\ Looking("next")
        /\ CanSsh(i) /\ boxes[Host(i)].up
        /\ probe' = [probe EXCEPT !.at = "reading", !.checkout = boxes[Host(i)].head]
        /\ UNCHANGED <<fleet, status, found>>

\* No key, no connection, no answer in time: whatever was printed is not read.
NotReached ==
    /\ Looking("next") \/ Looking("reading")
    /\ IsServer(Declared(Head(probe.left))) /\ ~IsPlanned(Declared(Head(probe.left)))
    /\ Note(Unreachable, "unread")

\* How a box was: history.
Was(checkout, serving, answer) ==
    IF answer.api = "no port" \/ answer.deployments = "none" \/ ~answer.complete THEN "unread"
    ELSE IF answer.api # "build" \/ answer.deployments # "all" THEN "sick"
    ELSE IF serving # checkout THEN "drift" ELSE "fine"

LookAtPlatform ==
    LET box == boxes[Host(Head(probe.left))]
    IN  /\ Looking("reading") /\ box.up
        /\ \E answer \in Answers :
              /\ answer.api = "build" => box.serving # None
              /\ answer.api # "other"
              /\ Note(ServerReading(probe.checkout, box.serving, answer),
                      Was(probe.checkout, box.serving, answer))

\* _build_id of JSON that is not an object raises AttributeError, which ends the
\* probe: an uncaught exception is exit code 1.
ProbeCrashes ==
    /\ Looking("reading") /\ boxes[Host(Head(probe.left))].up
    /\ \E answer \in Answers : answer.api = "other"
    /\ probe' = Idle /\ status' = 1
    /\ found' = found \cup {"unread"}
    /\ UNCHANGED fleet

ProbeEnds ==
    /\ probe.at = "next" /\ probe.left = << >>
    /\ probe' = Idle /\ status' = ExitCode(probe.readings)
    /\ UNCHANGED <<fleet, found>>

Probe ==
    \/ ProbeStarts \/ ProbeRefused \/ ProbeEnds
    \/ LookAtPlanned \/ LookAtStandalone \/ LookAtCheckout \/ NotReached
    \/ LookAtPlatform \/ ProbeCrashes

ProbeNext == Probe \/ (Next /\ UNCHANGED <<probe, status, found>>)

ProbeSpec == ProbeInit /\ [][ProbeNext]_vars /\ Fairness

-----------------------------------------------------------------------------
ProbeTypeOK ==
    /\ TypeOK
    /\ probe.at \in {"idle", "next", "reading"}
    /\ probe.checkout \in Commit \cup {None}
    /\ probe.readings \subseteq Reading
    /\ status \in {0, 1, 2, 3, None}
    /\ found \subseteq {"fine", "unread", "sick", "drift"}

\* What the probe's exit code vouches for: 0, that it has seen every instance it was
\* asked about and each was as it should be, its platform serving the commit that was
\* checked out when the probe looked; 3, that it has seen them all, and one of them
\* was not what the register or its own checkout says.  Nothing it could not look
\* at, and nothing that stopped answering half way, is among them.
VerdictIsEarned ==
    probe.at = "idle" =>
        /\ status = 0 => found \subseteq {"fine"}
        /\ status = 3 => "drift" \in found /\ found \subseteq {"fine", "drift"}
=============================================================================
