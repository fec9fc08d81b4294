------------------------- MODULE InstanceReachProofs -------------------------
(***************************************************************************)
(* Proofs about InstanceReach for any number of polls and of starts and any*)
(* length of the wait.                                                     *)
(*                                                                         *)
(* That every running ssh is accounted for is not inductive: one has to    *)
(* know that a start has no ssh before it spawns one, that a start about to*)
(* succeed is on record before it does, and that one that reports its ssh  *)
(* dead is right (Accounts).                                               *)
(***************************************************************************)
EXTENDS InstanceReach, TLAPS

\* What the stage of a start says of its ssh, its wait and the audit log.
Accounts ==
    \A s \in Starts :
        /\ pc[s] \in {"idle", "check", "key", "spawn", "refused"} => ssh[s] = "none"
        /\ pc[s] = "poll" => waited[s] < Waits
        /\ pc[s] = "failed" => ~Running(s)
        /\ pc[s] \in {"invalidate", "opened"} => s \in audited

IInv == TypeOK /\ Accounts

USE DEF Underway, Ended, Goto, Running, starters, pollers

-----------------------------------------------------------------------------
LEMMA InitInv == Init => IInv
  BY WaitsAssumption DEF Init, IInv, TypeOK, Accounts

\* A start's own steps.
LEMMA StartInv ==
    ASSUME IInv, NEW s \in Starts,
           RefuseStart(s) \/ RequestStart(s) \/ StartStep(s)
    PROVE  IInv'
<1> USE DEF IInv, TypeOK, Accounts
<1>1. CASE RefuseStart(s) BY <1>1 DEF RefuseStart
<1>2. CASE RequestStart(s) BY <1>2 DEF RequestStart
<1>3. CASE FindAlreadyUp(s) BY <1>3 DEF FindAlreadyUp
<1>4. CASE FindKey(s) BY <1>4 DEF FindKey
<1>5. CASE Spawn(s) BY <1>5 DEF Spawn
<1>6. CASE FindUp(s) BY <1>6 DEF FindUp
<1>7. CASE KeepWaiting(s)
  <2>1. CASE Running(s)
    BY <1>7, <2>1, WaitsAssumption DEF KeepWaiting
  <2>2. CASE ~Running(s)
    BY <1>7, <2>2 DEF KeepWaiting
  <2> QED BY <2>1, <2>2
<1>8. CASE GiveUp(s) BY <1>8 DEF GiveUp
<1>9. CASE RecordStart(s) BY <1>9 DEF RecordStart
<1>10. CASE Invalidate(s) BY <1>10 DEF Invalidate, Returns
<1> QED
  BY <1>1, <1>2, <1>3, <1>4, <1>5, <1>6, <1>7, <1>8, <1>9, <1>10 DEF StartStep

\* What ssh, the operator and the clock do.
LEMMA OutsideInv ==
    ASSUME IInv,
           \/ \E s \in Starts : SshOpens(s) \/ SshExits(s)
           \/ ForeignTunnel \/ Expire
    PROVE  IInv'
<1> USE DEF IInv, TypeOK, Accounts
<1>1. ASSUME NEW s \in Starts, SshOpens(s) PROVE IInv'
  BY <1>1 DEF SshOpens
<1>2. ASSUME NEW s \in Starts, SshExits(s) PROVE IInv'
  BY <1>2 DEF SshExits
<1>3. CASE ForeignTunnel BY <1>3 DEF ForeignTunnel
<1>4. CASE Expire BY <1>4 DEF Expire
<1> QED
  BY <1>1, <1>2, <1>3, <1>4

\* A poll changes nothing a start depends on.
LEMMA PollInv ==
    ASSUME IInv, NEW p \in Polls,
           PollStep(p) \/ \E fresh \in BOOLEAN : Poll(p, fresh)
    PROVE  IInv'
<1> USE DEF IInv, TypeOK, Accounts
<1>1. ASSUME NEW fresh \in BOOLEAN, Poll(p, fresh) PROVE IInv'
  BY <1>1 DEF Poll
<1>2. CASE Probe(p)
  <2>1. [ok |-> Listening, after |-> Opened] \in Verdict
    BY DEF Verdict, Listening, Opened
  <2> QED BY <1>2, <2>1 DEF Probe
<1>3. CASE StoreReach(p) BY <1>3 DEF StoreReach
<1>4. CASE StampTime(p) BY <1>4 DEF StampTime
<1>5. CASE Answer(p) BY <1>5 DEF Answer
<1> QED
  BY <1>1, <1>2, <1>3, <1>4, <1>5 DEF PollStep

LEMMA NextInv == IInv /\ [Next]_vars => IInv'
<1> SUFFICES ASSUME IInv, [Next]_vars PROVE IInv'
  OBVIOUS
<1>1. CASE UNCHANGED vars
  BY <1>1 DEF vars, IInv, TypeOK, Accounts
<1>2. CASE Next
  BY <1>2, StartInv, OutsideInv, PollInv DEF Next
<1> QED
  BY <1>1, <1>2

THEOREM Invariance == Spec => []IInv
  BY InitInv, NextInv, PTL DEF Spec
-----------------------------------------------------------------------------
\* Type correctness: no start waits longer than WAIT_SECONDS, and a poll stores
\* only what a probe found.
THEOREM TypeCorrect == Spec => []TypeOK
<1>1. IInv => TypeOK
  BY DEF IInv
<1> QED
  BY <1>1, Invariance, PTL

\* No ssh is left on the console's host by a start that failed, or by one that is
\* not on record, however many starts race for the port.
THEOREM ProcessesAccounted == Spec => []NoProcessUnaccounted
<1>1. IInv => NoProcessUnaccounted
  BY DEF IInv, TypeOK, Accounts, NoProcessUnaccounted
<1> QED
  BY <1>1, Invariance, PTL

\* A verdict found and not stored yet is as old as the probe that found it.
FoundLooksAgain ==
    \A p \in Polls : at[p] = "store" => Opened \ raced \subseteq found[p].after

LEMMA LooksAgainInv ==
    ASSUME IInv, NextPollLooksAgain, FoundLooksAgain, [Next]_vars
    PROVE  NextPollLooksAgain' /\ FoundLooksAgain'
<1> USE DEF NextPollLooksAgain, FoundLooksAgain
<1>1. ASSUME NEW s \in Starts, Invalidate(s) PROVE NextPollLooksAgain' /\ FoundLooksAgain'
  <2>1. /\ Opened' \subseteq Opened \cup {s}
        /\ UNCHANGED <<at, found>> /\ reach' = NoReach
        /\ raced' = raced \cup (IF \E p \in Polls : at[p] = "store" THEN {s} ELSE {})
    BY <1>1 DEF Invalidate, Returns, Opened, IInv, TypeOK
  <2> QED BY <2>1
<1>2. ASSUME Opened' = Opened, UNCHANGED <<at, found, reach, raced>>
      PROVE  NextPollLooksAgain' /\ FoundLooksAgain'
  BY <1>2
<1>3. ASSUME NEW s \in Starts,
             \/ RefuseStart(s) \/ RequestStart(s) \/ FindAlreadyUp(s) \/ FindKey(s)
             \/ Spawn(s) \/ FindUp(s) \/ KeepWaiting(s) \/ GiveUp(s) \/ RecordStart(s)
      PROVE  Opened' = Opened /\ UNCHANGED <<at, found, reach, raced>>
  BY <1>3 DEF RefuseStart, RequestStart, FindAlreadyUp, FindKey, Spawn, FindUp, KeepWaiting,
              GiveUp, RecordStart, Opened, IInv, TypeOK
<1>4. ASSUME NEW p \in Polls, Probe(p) PROVE NextPollLooksAgain' /\ FoundLooksAgain'
  <2>1. /\ Opened' = Opened /\ UNCHANGED <<reach, raced>>
        /\ \A q \in Polls : q # p => at'[q] = at[q] /\ found'[q] = found[q]
        /\ found'[p].after = Opened
    BY <1>4 DEF Probe, Opened, IInv, TypeOK
  <2> QED BY <2>1
<1>5. ASSUME NEW p \in Polls, StoreReach(p) PROVE NextPollLooksAgain' /\ FoundLooksAgain'
  <2>1. /\ Opened' = Opened /\ UNCHANGED raced /\ reach' = found[p] /\ at[p] = "store"
        /\ \A q \in Polls : q # p => at'[q] = at[q] /\ found'[q] = found[q]
        /\ at'[p] = "stamp"
    BY <1>5 DEF StoreReach, Opened, IInv, TypeOK
  <2> QED BY <2>1
<1>6. ASSUME NEW p \in Polls, StampTime(p) \/ Answer(p) \/ \E fresh \in BOOLEAN : Poll(p, fresh)
      PROVE  NextPollLooksAgain' /\ FoundLooksAgain'
  <2>1. /\ Opened' = Opened /\ UNCHANGED <<found, reach, raced>>
        /\ \A q \in Polls : at'[q] = "store" => at[q] = "store"
    BY <1>6 DEF StampTime, Answer, Poll, Opened, IInv, TypeOK
  <2> QED BY <2>1
<1>7. CASE \/ \E s \in Starts : SshOpens(s) \/ SshExits(s)
           \/ ForeignTunnel \/ Expire \/ UNCHANGED vars
  <2>1. Opened' = Opened /\ UNCHANGED <<at, found, reach, raced>>
    BY <1>7 DEF SshOpens, SshExits, ForeignTunnel, Expire, vars, Opened
  <2> QED BY <1>2, <2>1
<1> QED BY <1>1, <1>2, <1>3, <1>4, <1>5, <1>6, <1>7 DEF Next, StartStep, PollStep

\* After a start no poll reads a verdict of before it out of the cache, but for a probe
\* that had looked before the start returned, however many polls and starts there are.
THEOREM LooksAgain == Spec => []NextPollLooksAgain
<1>1. Init => NextPollLooksAgain /\ FoundLooksAgain
  BY DEF Init, NextPollLooksAgain, FoundLooksAgain
<1> QED BY <1>1, Invariance, LooksAgainInv, PTL DEF Spec

-----------------------------------------------------------------------------
(* The safety half of StartReturns: how many steps a start has left.       *)

\* Every second round of the wait counts one more of waited, the rest is in line.
Left(s) ==
    IF pc[s] = "check" THEN 2 * Waits + 6
    ELSE IF pc[s] = "key" THEN 2 * Waits + 5
    ELSE IF pc[s] = "spawn" THEN 2 * Waits + 4
    ELSE IF pc[s] = "listen" THEN 2 * (Waits - waited[s]) + 3
    ELSE IF pc[s] = "poll" THEN 2 * (Waits - waited[s]) + 2
    ELSE IF pc[s] = "audit" THEN 2
    ELSE IF pc[s] = "invalidate" THEN 1 ELSE 0

\* A start that is under way has at most 2 * Waits + 6 steps to make, and one that is
\* not has none; each of its own steps leaves it fewer, and no step of another start,
\* of ssh, of the operator or of a poll gives any back.
RunsDown ==
    \A s \in Starts :
        /\ StartStep(s) => Left(s)' < Left(s)
        /\ pc[s] \in Underway /\ ~StartStep(s) => Left(s)' = Left(s)

LeftCounts ==
    \A s \in Starts :
        /\ Left(s) \in 0..(2 * Waits + 6)
        /\ Left(s) > 0 <=> pc[s] \in Underway

LEMMA LeftBounded == IInv => LeftCounts
<1> SUFFICES ASSUME IInv, NEW s \in Starts
             PROVE  /\ Left(s) \in 0..(2 * Waits + 6)
                    /\ Left(s) > 0 <=> pc[s] \in Underway
  BY DEF LeftCounts
<1>1. /\ waited[s] \in 0..Waits /\ Waits \in Nat
      /\ pc[s] \in {"idle"} \cup Underway \cup Ended
  BY WaitsAssumption DEF IInv, TypeOK
<1> QED BY <1>1 DEF Left

\* A start's own step is a step down.
LEMMA StartDescends ==
    ASSUME IInv, NEW s \in Starts, StartStep(s)
    PROVE  Left(s)' < Left(s)
<1>1. /\ waited[s] \in 0..Waits /\ Waits \in Nat
      /\ pc[s] = "poll" => waited[s] < Waits
      /\ pc \in [Starts -> {"idle"} \cup Underway \cup Ended]
      /\ waited \in [Starts -> 0..Waits]
  BY WaitsAssumption DEF IInv, TypeOK, Accounts
<1> USE DEF Left
<1>2. CASE FindAlreadyUp(s) \/ FindKey(s) \/ Spawn(s) \/ RecordStart(s) \/ Invalidate(s)
  <2>1. \/ pc[s] = "check" /\ pc'[s] \in {"audit", "key"}
        \/ pc[s] = "key" /\ pc'[s] \in {"spawn", "failed"}
        \/ pc[s] = "spawn" /\ pc'[s] \in {"listen", "failed"}
        \/ pc[s] = "audit" /\ pc'[s] = "invalidate"
        \/ pc[s] = "invalidate" /\ pc'[s] = "opened"
    BY <1>1, <1>2 DEF FindAlreadyUp, FindKey, Spawn, RecordStart, Invalidate, Returns
  <2>2. waited'[s] = waited[s]
    BY <1>2 DEF FindAlreadyUp, FindKey, Spawn, RecordStart, Invalidate
  <2> QED BY <1>1, <2>1, <2>2
<1>3. CASE FindUp(s) \/ GiveUp(s)
  <2>1. /\ pc[s] = "listen" /\ pc'[s] \in {"audit", "poll", "failed"}
        /\ waited'[s] = waited[s]
    BY <1>1, <1>3 DEF FindUp, GiveUp
  <2> QED BY <1>1, <2>1
<1>4. CASE KeepWaiting(s)
  <2>1. /\ pc[s] = "poll"
        /\ pc'[s] = "failed" \/ (pc'[s] = "listen" /\ waited'[s] = waited[s] + 1)
    BY <1>1, <1>4 DEF KeepWaiting
  <2> QED BY <1>1, <2>1
<1> QED
  BY <1>2, <1>3, <1>4 DEF StartStep

\* A step of start q leaves the stage and the wait of every other start alone.
LEMMA StartsApart ==
    ASSUME IInv, NEW q \in Starts, RefuseStart(q) \/ RequestStart(q) \/ StartStep(q),
           NEW s \in Starts, s # q
    PROVE  pc'[s] = pc[s] /\ waited'[s] = waited[s]
  BY DEF IInv, TypeOK, RefuseStart, RequestStart, StartStep, FindAlreadyUp, FindKey, Spawn,
         FindUp, KeepWaiting, GiveUp, RecordStart, Invalidate, Returns

LEMMA StepsRunDown == IInv /\ [Next]_vars => RunsDown
<1> SUFFICES ASSUME IInv, [Next]_vars, NEW s \in Starts,
                    pc[s] \in Underway, ~StartStep(s)
             PROVE  Left(s)' = Left(s)
  BY StartDescends DEF RunsDown
<1> SUFFICES pc'[s] = pc[s] /\ waited'[s] = waited[s]
  BY DEF Left
<1>1. ASSUME NEW q \in Starts, RefuseStart(q) \/ RequestStart(q) \/ StartStep(q)
      PROVE  pc'[s] = pc[s] /\ waited'[s] = waited[s]
  <2>1. CASE q = s BY <1>1, <2>1 DEF RefuseStart, RequestStart
  <2>2. CASE q # s BY <1>1, <2>2, StartsApart
  <2> QED BY <2>1, <2>2
<1>2. CASE \/ \E q \in Starts : SshOpens(q) \/ SshExits(q)
           \/ ForeignTunnel \/ Expire \/ UNCHANGED vars
  BY <1>2 DEF SshOpens, SshExits, ForeignTunnel, Expire, vars
<1>3. ASSUME NEW p \in Polls, PollStep(p) \/ \E fresh \in BOOLEAN : Poll(p, fresh)
      PROVE  pc'[s] = pc[s] /\ waited'[s] = waited[s]
  BY <1>3 DEF PollStep, Probe, StoreReach, StampTime, Answer, Poll
<1> QED BY <1>1, <1>2, <1>3 DEF Next

\* start_tunnel comes back within 2 * Waits + 6 steps of its own thread, whatever the
\* others do: its loop over WAIT_SECONDS counts, and nothing sets the count back.
THEOREM StartsRunDown == Spec => [](LeftCounts) /\ [][RunsDown]_vars
  BY Invariance, LeftBounded, StepsRunDown, PTL DEF Spec
-----------------------------------------------------------------------------
(* The safety half of ReachSettles: what is settled stays settled.         *)

\* The verdict on show, and every verdict a poll is about to store, is how the port is.
Settled ==
    /\ reach # NoReach => reach.ok = Listening
    /\ \A p \in Polls : at[p] = "store" => found[p].ok = Listening

\* Only the port going up or down can make a settled verdict wrong again: no poll brings
\* back an older one, and no start.
SettledStays == Settled /\ Listening' = Listening => Settled'

LEMMA StepsSettle == IInv /\ [Next]_vars => SettledStays
<1> SUFFICES ASSUME IInv, [Next]_vars, Settled, Listening' = Listening PROVE Settled'
  BY DEF SettledStays
<1> USE DEF Settled
<1>1. ASSUME UNCHANGED <<at, found>>, reach' \in {reach, NoReach} PROVE Settled'
  BY <1>1
<1>2. ASSUME NEW s \in Starts, RefuseStart(s) \/ RequestStart(s) \/ StartStep(s) PROVE Settled'
  <2>1. UNCHANGED <<at, found>> /\ reach' \in {reach, NoReach}
    BY <1>2 DEF RefuseStart, RequestStart, StartStep, FindAlreadyUp, FindKey, Spawn, FindUp,
       KeepWaiting, GiveUp, RecordStart, Invalidate
  <2> QED BY <1>1, <2>1
<1>3. CASE \/ \E s \in Starts : SshOpens(s) \/ SshExits(s)
           \/ ForeignTunnel \/ Expire \/ UNCHANGED vars
  <2>1. UNCHANGED <<at, found, reach>>
    BY <1>3 DEF SshOpens, SshExits, ForeignTunnel, Expire, vars
  <2> QED BY <1>1, <2>1
<1>4. ASSUME NEW p \in Polls, Probe(p) PROVE Settled'
  <2>1. /\ reach' = reach /\ found'[p].ok = Listening
        /\ \A q \in Polls : q # p => at'[q] = at[q] /\ found'[q] = found[q]
    BY <1>4 DEF Probe, IInv, TypeOK
  <2> QED BY <2>1
<1>5. ASSUME NEW p \in Polls, StoreReach(p) PROVE Settled'
  <2>1. /\ reach' = found[p] /\ at[p] = "store" /\ at'[p] = "stamp"
        /\ \A q \in Polls : q # p => at'[q] = at[q] /\ found'[q] = found[q]
    BY <1>5 DEF StoreReach, IInv, TypeOK
  <2> QED BY <2>1
<1>6. ASSUME NEW p \in Polls, StampTime(p) \/ Answer(p) \/ \E fresh \in BOOLEAN : Poll(p, fresh)
      PROVE  Settled'
  <2>1. /\ UNCHANGED <<found, reach>>
        /\ \A q \in Polls : at'[q] = "store" => at[q] = "store"
    BY <1>6 DEF StampTime, Answer, Poll, IInv, TypeOK
  <2> QED BY <2>1
<1> QED BY <1>2, <1>3, <1>4, <1>5, <1>6 DEF Next, PollStep

\* While the port stays as it is, a verdict that says so is never replaced by one that
\* does not, however many polls and starts overlap.
THEOREM VerdictStaysSettled == Spec => [][SettledStays]_vars
  BY Invariance, StepsSettle, PTL DEF Spec
=============================================================================
