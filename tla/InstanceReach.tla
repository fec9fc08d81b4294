---------------------------- MODULE InstanceReach ----------------------------
(***************************************************************************)
(* Whether the instance answers: the verdict OpsService keeps for the      *)
(* console's polls, and the SSH tunnel an operator starts when it does not.*)
(*                                                                         *)
(* Polls and starts are handlers on threads of FastAPI's pool.  A poll that*)
(* finds the kept verdict too old probes the instance itself, for up to    *)
(* three seconds a door, and writes the verdict and its time without the   *)
(* service mutex; a start polls the local port for up to twenty seconds.   *)
(* Every read and every write of something shared is an action, except that*)
(* the three reads of one answer are taken together.                       *)
(*                                                                         *)
(* The instance answers exactly while something listens on the local port: *)
(* what else can keep it away is abstracted into the tunnel's own failures.*)
(***************************************************************************)
EXTENDS Naturals

CONSTANTS
    Polls,    \* handlers of GET /api/state, one poll after another each
    Starts,   \* requests to start the tunnel
    Waits,    \* WAIT_SECONDS in steps of POLL_SECONDS
    NoReach   \* no verdict kept

ASSUME WaitsAssumption == Waits \in Nat \ {0}

VARIABLES
    ssh,      \* the ssh each start has spawned
    foreign,  \* whether somebody else's process listens on the port
    pc,       \* where each start stands
    waited,   \* how long each start has waited for the port
    audited,  \* the starts the audit log records
    reach,    \* OpsService._reach
    expired,  \* whether _probe_at is more than PROBE_TTL ago
    at,       \* where each poll stands
    found,    \* what each poll's own probe found
    raced     \* history: starts that returned while a probe had looked and not stored

starters == <<pc, waited, audited>>
pollers == <<at, found>>
vars == <<ssh, foreign, starters, reach, expired, pollers, raced>>

-----------------------------------------------------------------------------
\* "opened" has returned to its caller; the three after it have raised.
Ended == {"opened", "refused", "failed"}
Underway == {"check", "key", "spawn", "listen", "poll", "audit", "invalidate"}

Running(s) == ssh[s] \in {"dialing", "listening"}

\* is_up.
Listening == foreign \/ \E s \in Starts : ssh[s] = "listening"

Opened == {s \in Starts : pc[s] = "opened"}

\* A Reach, and the starts that had succeeded before the probe that made it.
Verdict == [ok : BOOLEAN, after : SUBSET Starts]

\* The service is new.  Something may already listen on the port.
Init ==
    /\ ssh = [s \in Starts |-> "none"]
    /\ foreign \in BOOLEAN
    /\ pc = [s \in Starts |-> "idle"]
    /\ waited = [s \in Starts |-> 0]
    /\ audited = {}
    /\ reach = NoReach
    /\ expired = TRUE
    /\ at = [p \in Polls |-> "idle"]
    /\ found = [p \in Polls |-> NoReach]
    /\ raced = {}

-----------------------------------------------------------------------------
(* start_tunnel, and within it tunnel.start.                               *)

Goto(s, stage) == pc' = [pc EXCEPT ![s] = stage]

\* Not an admin: refused, and on record.
RefuseStart(s) ==
    /\ pc[s] = "idle"
    /\ audited' = audited \cup {s}
    /\ Goto(s, "refused")
    /\ UNCHANGED <<ssh, foreign, waited, reach, expired, pollers, raced>>

\* An admin: the start is made, unless the instance declares no tunnel.
RequestStart(s) ==
    /\ pc[s] = "idle"
    /\ Goto(s, "check") \/ Goto(s, "failed")
    /\ UNCHANGED <<ssh, foreign, waited, audited, reach, expired, pollers, raced>>

FindAlreadyUp(s) ==
    /\ pc[s] = "check"
    /\ Goto(s, IF Listening THEN "audit" ELSE "key")
    /\ UNCHANGED <<ssh, foreign, waited, audited, reach, expired, pollers, raced>>

\* The key is a file, or the start ends here.
FindKey(s) ==
    /\ pc[s] = "key"
    /\ Goto(s, "spawn") \/ Goto(s, "failed")
    /\ UNCHANGED <<ssh, foreign, waited, audited, reach, expired, pollers, raced>>

\* Popen raises where there is no ssh.
Spawn(s) ==
    /\ pc[s] = "spawn"
    /\ \/ ssh' = [ssh EXCEPT ![s] = "dialing"] /\ Goto(s, "listen")
       \/ Goto(s, "failed") /\ UNCHANGED ssh
    /\ UNCHANGED <<foreign, waited, audited, reach, expired, pollers, raced>>

\* The port answers, whoever opened it.
FindUp(s) ==
    /\ pc[s] = "listen"
    /\ waited[s] < Waits
    /\ Goto(s, IF Listening THEN "audit" ELSE "poll")
    /\ UNCHANGED <<ssh, foreign, waited, audited, reach, expired, pollers, raced>>

\* A mutant of KeepWaiting: the time waited is not counted.
KeepWaitingUncounted(s) ==
    /\ pc[s] = "poll"
    /\ Goto(s, IF Running(s) THEN "listen" ELSE "failed")
    /\ UNCHANGED <<ssh, foreign, waited, audited, reach, expired, pollers, raced>>

\* A mutant of KeepWaiting: the time is counted twice.
KeepWaitingTwice(s) ==
    /\ pc[s] = "poll"
    /\ \/ Running(s) /\ Goto(s, "listen") /\ waited' = [waited EXCEPT ![s] = @ + 2]
       \/ ~Running(s) /\ Goto(s, "failed") /\ UNCHANGED waited
    /\ UNCHANGED <<ssh, foreign, audited, reach, expired, pollers, raced>>

\* process.poll: an ssh that died is reported in its own words.
KeepWaiting(s) ==
    /\ pc[s] = "poll"
    /\ \/ Running(s) /\ Goto(s, "listen") /\ waited' = [waited EXCEPT ![s] = @ + 1]
       \/ ~Running(s) /\ Goto(s, "failed") /\ UNCHANGED waited
    /\ UNCHANGED <<ssh, foreign, audited, reach, expired, pollers, raced>>

\* A mutant of GiveUp: the ssh that would not open the port is left to itself.
GiveUpLeavingProcess(s) ==
    /\ pc[s] = "listen"
    /\ waited[s] >= Waits
    /\ Goto(s, "failed")
    /\ UNCHANGED <<ssh, foreign, waited, audited, reach, expired, pollers, raced>>

\* terminate, although the port may have come up since it was last looked at.
GiveUp(s) ==
    /\ pc[s] = "listen"
    /\ waited[s] >= Waits
    /\ ssh' = [ssh EXCEPT ![s] = "exited"]
    /\ Goto(s, "failed")
    /\ UNCHANGED <<foreign, waited, audited, reach, expired, pollers, raced>>

RecordStart(s) ==
    /\ pc[s] = "audit"
    /\ audited' = audited \cup {s}
    /\ Goto(s, "invalidate")
    /\ UNCHANGED <<ssh, foreign, waited, reach, expired, pollers, raced>>

Returns(s) ==
    /\ Goto(s, "opened")
    /\ raced' = raced \cup (IF \E p \in Polls : at[p] = "store" THEN {s} ELSE {})

\* Mutant: the verdict of before the tunnel stays.
KeepVerdict(s) ==
    /\ pc[s] = "invalidate"
    /\ Returns(s)
    /\ UNCHANGED <<ssh, foreign, waited, audited, reach, expired, pollers>>

\* "The next poll must look again, not read a cache."
Invalidate(s) ==
    /\ pc[s] = "invalidate"
    /\ reach' = NoReach
    /\ Returns(s)
    /\ UNCHANGED <<ssh, foreign, waited, audited, expired, pollers>>

StartStep(s) ==
    \/ FindAlreadyUp(s) \/ FindKey(s) \/ Spawn(s) \/ FindUp(s) \/ KeepWaiting(s)
    \/ GiveUp(s) \/ RecordStart(s) \/ Invalidate(s)

-----------------------------------------------------------------------------
(* The processes and the clock.                                            *)

\* ssh is through, and binds the port if nobody has.
SshOpens(s) ==
    /\ ssh[s] = "dialing"
    /\ ~Listening
    /\ ssh' = [ssh EXCEPT ![s] = "listening"]
    /\ UNCHANGED <<foreign, starters, reach, expired, pollers, raced>>

\* No route, no key accepted, the port taken (ExitOnForwardFailure), or later the
\* connection lost (ServerAliveInterval).
SshExits(s) ==
    /\ Running(s)
    /\ ssh' = [ssh EXCEPT ![s] = "exited"]
    /\ UNCHANGED <<foreign, starters, reach, expired, pollers, raced>>

\* The operator's own `ssh -D`, opened or closed by hand.
ForeignTunnel ==
    /\ foreign \/ ~Listening
    /\ foreign' = ~foreign
    /\ UNCHANGED <<ssh, starters, reach, expired, pollers, raced>>

\* PROBE_TTL passes since the last time written.
Expire ==
    /\ ~expired
    /\ expired' = TRUE
    /\ UNCHANGED <<ssh, foreign, starters, reach, pollers, raced>>

-----------------------------------------------------------------------------
(* state, and within it _instance_state.                                   *)

\* A mutant of Poll: a verdict that was kept is good for ever.
PollWithoutExpiry(p, fresh) ==
    /\ at[p] = "idle"
    /\ at' = [at EXCEPT ![p] = IF fresh \/ reach = NoReach THEN "probe" ELSE "answer"]
    /\ UNCHANGED <<ssh, foreign, starters, reach, expired, found, raced>>

Poll(p, fresh) ==
    /\ at[p] = "idle"
    /\ at' = [at EXCEPT ![p] =
                 IF fresh \/ reach = NoReach \/ expired THEN "probe" ELSE "answer"]
    /\ UNCHANGED <<ssh, foreign, starters, reach, expired, found, raced>>

\* The moment the instance is looked at, within the time the probe takes.
Probe(p) ==
    /\ at[p] = "probe"
    /\ found' = [found EXCEPT ![p] = [ok |-> Listening, after |-> Opened]]
    /\ at' = [at EXCEPT ![p] = "store"]
    /\ UNCHANGED <<ssh, foreign, starters, reach, expired, raced>>

StoreReach(p) ==
    /\ at[p] = "store"
    /\ reach' = found[p]
    /\ found' = [found EXCEPT ![p] = NoReach]
    /\ at' = [at EXCEPT ![p] = "stamp"]
    /\ UNCHANGED <<ssh, foreign, starters, expired, raced>>

StampTime(p) ==
    /\ at[p] = "stamp"
    /\ expired' = FALSE
    /\ at' = [at EXCEPT ![p] = "answer"]
    /\ UNCHANGED <<ssh, foreign, starters, reach, found, raced>>

\* The verdict kept by now, whoever found it.  When a start has just put None in
\* its place the read raises and the poll is answered with a 500.
Answer(p) ==
    /\ at[p] = "answer"
    /\ at' = [at EXCEPT ![p] = "idle"]
    /\ UNCHANGED <<ssh, foreign, starters, reach, expired, found, raced>>

PollStep(p) == Probe(p) \/ StoreReach(p) \/ StampTime(p) \/ Answer(p)

-----------------------------------------------------------------------------
Next ==
    \/ \E s \in Starts :
          RefuseStart(s) \/ RequestStart(s) \/ StartStep(s) \/ SshOpens(s) \/ SshExits(s)
    \/ ForeignTunnel \/ Expire
    \/ \E p \in Polls : PollStep(p) \/ \E fresh \in BOOLEAN : Poll(p, fresh)

\* A handler's thread runs on; time passes; and an open page polls every second.
\* Nothing is assumed of ssh, nor of the operator.
Fairness ==
    /\ \A s \in Starts : WF_vars(StartStep(s))
    /\ \A p \in Polls : WF_vars(PollStep(p)) /\ WF_vars(Poll(p, FALSE))
    /\ WF_vars(Expire)

Spec == Init /\ [][Next]_vars /\ Fairness
-----------------------------------------------------------------------------
(* What is checked.                                                        *)

TypeOK ==
    /\ ssh \in [Starts -> {"none", "dialing", "listening", "exited"}]
    /\ foreign \in BOOLEAN
    /\ pc \in [Starts -> {"idle"} \cup Underway \cup Ended]
    /\ waited \in [Starts -> 0..Waits]
    /\ audited \in SUBSET Starts
    /\ reach \in Verdict \cup {NoReach}
    /\ expired \in BOOLEAN
    /\ at \in [Polls -> {"idle", "probe", "store", "stamp", "answer"}]
    /\ found \in [Polls -> Verdict \cup {NoReach}]
    /\ \A p \in Polls : at[p] = "store" => found[p] \in Verdict
    /\ raced \in SUBSET Starts

\* "The one action that starts a process on the console's host" leaves none there
\* that nobody answers for: an ssh that runs belongs to a start still under way,
\* or to one that has succeeded and is on record.  A start that failed left none.
NoProcessUnaccounted ==
    \A s \in Starts : Running(s) =>
        pc[s] \in Underway \/ (pc[s] = "opened" /\ s \in audited)

\* A start comes back, whatever ssh does: its wait is bounded and nothing in it
\* waits for the process.
StartReturns == \A s \in Starts : pc[s] \in Underway ~> pc[s] \in Ended

\* An old verdict written over a newer one, or after the tunnel was opened, does
\* not stay: once the tunnel is up, or down, for good, so is what polls are told.
ReachSettles ==
    \A up \in BOOLEAN :
        <>[](Listening = up) => <>[](reach # NoReach => reach.ok = up)

\* After a start no poll reads a verdict from before it out of the cache, unless a probe
\* had looked before the start and stored its verdict after it.
NextPollLooksAgain == reach # NoReach => Opened \ raced \subseteq reach.after
=============================================================================
