-------------------------- MODULE OpsServiceProofs --------------------------
(***************************************************************************)
(* Proofs about OpsService for every number of requests and applications,  *)
(* every set of calls and every bound.                                     *)
(*                                                                         *)
(* Mutual exclusion is not inductive: release pops a scope without looking *)
(* at who holds it.  What is inductive is that the lock table and the      *)
(* stages of the jobs say the same thing (LocksAreJobSideEffects), that the*)
(* table never grants the cluster beside anything (LocksCompatible), and   *)
(* what the stages say of the rest of a job's state (StagesAgree).         *)
(***************************************************************************)
EXTENDS GitOpsConsole, TLAPS

USE DEF Stage, Holding, Scope, JobState, Goto

-----------------------------------------------------------------------------
(* The two bounded newest-first lists.                                     *)

\* insert(0, x) and the trim keep a list of the same elements, within its bound
\* and with x first.
LEMMA NewestLemma ==
    ASSUME NEW S, NEW x \in S, NEW s \in Seq(S), NEW max \in Nat \ {0},
           Len(s) <= max
    PROVE  /\ Newest(x, s, max) \in Seq(S)
           /\ Len(Newest(x, s, max)) <= max
           /\ Newest(x, s, max)[1] = x
           /\ Newest(x, s, max) # <<>>
<1> DEFINE n == IF Len(s) < max THEN Len(s) + 1 ELSE max
<1> DEFINE f == [i \in 1..n |-> IF i = 1 THEN x ELSE s[i - 1]]
<1>1. n \in Nat /\ n >= 1 /\ n <= max /\ n <= Len(s) + 1
  OBVIOUS
<1>2. \A i \in 1..n : f[i] \in S
  <2> TAKE i \in 1..n
  <2>1. CASE i = 1 BY <2>1
  <2>2. CASE i # 1
    <3>1. i - 1 \in 1..Len(s) BY <1>1, <2>2
    <3>2. s[i - 1] \in S BY <3>1
    <3> QED BY <2>2, <3>2
  <2> QED BY <2>1, <2>2
<1>3. f \in [1..n -> S]
  BY <1>2
<1>4. f \in Seq(S) /\ Len(f) = n
  BY <1>1, <1>3
<1>5. f[1] = x
  BY <1>1
<1>6. f = Newest(x, s, max)
  BY DEF Newest
<1> HIDE DEF f, n
<1>7. f # <<>>
  BY <1>1, <1>4
<1> QED
  BY <1>1, <1>4, <1>5, <1>6, <1>7
-----------------------------------------------------------------------------
(* The inductive invariant.                                                *)

\* The lock table never holds the cluster beside another scope.
LocksCompatible ==
    \A s, t \in Scope :
        /\ locks[s] # Free /\ locks[t] # Free
        /\ s = Cluster \/ t = Cluster
        => s = t

\* What a request's stage says of its call and of its job's state.
StagesAgree ==
    \A r \in Requests :
        /\ pc[r] # "idle" => call[r] \in Calls
        /\ pc[r] \in Holding => jobState[r] # "none"
        /\ pc[r] = "working" => jobState[r] = "running"
        /\ pc[r] = "audit" => jobState[r] \in {"succeeded", "failed"}

IInv ==
    /\ TypeOK
    /\ StagesAgree
    /\ LocksAreJobSideEffects
    /\ LocksCompatible

\* The scope of a call is a lockable scope or none.
LEMMA LockScopeType ==
    ASSUME NEW c \in Calls
    PROVE  LockScope(c) \in Scope \cup {NoScope}
  BY CallsAssumption DEF LockScope, Call

\* The service starts with nothing locked and nobody at work.
LEMMA InitInv == Init => IInv
<1> SUFFICES ASSUME Init PROVE IInv
  OBVIOUS
<1>1. TypeOK
  BY BoundsAssumption DEF Init, TypeOK
<1>2. StagesAgree
  BY DEF Init, StagesAgree
<1>3. LocksAreJobSideEffects
  BY MarkersAssumption DEF Init, LocksAreJobSideEffects, Occupies
<1>4. LocksCompatible
  BY DEF Init, LocksCompatible
<1> QED
  BY <1>1, <1>2, <1>3, <1>4 DEF IInv

\* A step that keeps the lock table and moves one request between two stages
\* that both hold a lock, or both do not, keeps the table and the stages equal.
LEMMA MoveKeepsLocks ==
    ASSUME IInv, NEW r \in Requests, NEW stage \in Stage, Goto(r, stage),
           pc[r] \in Holding <=> stage \in Holding,
           call' = call, locks' = locks
    PROVE  LocksAreJobSideEffects' /\ LocksCompatible'
<1>1. \A q \in Requests, s \in Scope : Occupies(q, s)' <=> Occupies(q, s)
  BY DEF Occupies, LockScope, IInv, TypeOK
<1> QED
  BY <1>1 DEF LocksAreJobSideEffects, LocksCompatible, IInv

\* Every action of the service keeps the invariant.
LEMMA NextInv == IInv /\ [Next]_vars => IInv'
<1> SUFFICES ASSUME IInv, [Next]_vars PROVE IInv'
  OBVIOUS
<1> USE DEF IInv
<1>1. ASSUME NEW r \in Requests, NEW c \in Calls, Receive(r, c) PROVE IInv'
  <2>1. TypeOK' BY <1>1 DEF Receive, TypeOK
  <2>2. StagesAgree' BY <1>1 DEF Receive, TypeOK, StagesAgree
  <2>3. \A q \in Requests, s \in Scope : Occupies(q, s)' <=> Occupies(q, s)
    BY <1>1 DEF Receive, Occupies, TypeOK
  <2>4. LocksAreJobSideEffects' /\ LocksCompatible'
    BY <1>1, <2>3 DEF Receive, LocksAreJobSideEffects, LocksCompatible
  <2> QED BY <2>1, <2>2, <2>4
<1>2. ASSUME NEW r \in Requests, RefuseAudited(r) PROVE IInv'
  <2>1. PICK result \in {"REFUSED (unknown role)", "REFUSED (role)"} :
            RecordAudit(r, result)
    BY <1>2 DEF RefuseAudited
  <2>2. TypeOK'
    BY <1>2, <2>1, NewestLemma, BoundsAssumption
    DEF RefuseAudited, RecordAudit, TypeOK, AuditEntry
  <2>3. StagesAgree' BY <1>2 DEF RefuseAudited, TypeOK, StagesAgree
  <2>4. LocksAreJobSideEffects' /\ LocksCompatible'
    BY <1>2, MoveKeepsLocks DEF RefuseAudited
  <2> QED BY <2>2, <2>3, <2>4
<1>3. ASSUME NEW r \in Requests, RefuseSilently(r) PROVE IInv'
  <2>1. TypeOK' BY <1>3 DEF RefuseSilently, TypeOK
  <2>2. StagesAgree' BY <1>3 DEF RefuseSilently, TypeOK, StagesAgree
  <2>3. LocksAreJobSideEffects' /\ LocksCompatible'
    BY <1>3, MoveKeepsLocks DEF RefuseSilently
  <2> QED BY <2>1, <2>2, <2>3
<1>4. ASSUME NEW r \in Requests, Admit(r) PROVE IInv'
  <2> DEFINE scope == LockScope(call[r])
  <2>1. call[r] \in Calls /\ scope \in Scope \cup {NoScope}
    BY <1>4, LockScopeType DEF Admit, StagesAgree
  <2>2. StagesAgree' BY <1>4 DEF Admit, TypeOK, StagesAgree
  <2>3. \A q \in Requests, s \in Scope :
            Occupies(q, s)' <=> Occupies(q, s) \/ (q = r /\ s = scope)
    BY <1>4, MarkersAssumption DEF Admit, Occupies, LockScope, TypeOK
  <2>4. CASE scope = NoScope
    <3>1. TypeOK' BY <1>4, <2>4, MarkersAssumption DEF Admit, TypeOK
    <3>2. LocksAreJobSideEffects' /\ LocksCompatible'
      BY <1>4, <2>3, <2>4, MarkersAssumption
      DEF Admit, LocksAreJobSideEffects, LocksCompatible
    <3> QED BY <2>2, <3>1, <3>2
  <2>5. CASE scope # NoScope
    <3>1. /\ locks' = [locks EXCEPT ![scope] = r]
          /\ scope \in Scope
          /\ \A t \in Scope : t = Cluster \/ scope = Cluster \/ t = scope
                                => locks[t] = Free
      BY <1>4, <2>1, <2>5 DEF Admit, Blocking
    <3>2. TypeOK' BY <1>4, <3>1 DEF Admit, TypeOK
    <3>3. LocksAreJobSideEffects'
      <4> SUFFICES ASSUME NEW s \in Scope, NEW q \in Requests
                   PROVE  locks'[s] = q <=> Occupies(q, s)'
        BY DEF LocksAreJobSideEffects
      <4>1. locks[s] = q <=> Occupies(q, s)
        BY DEF LocksAreJobSideEffects
      <4>2. ~Occupies(r, s)
        BY <1>4 DEF Admit, Occupies
      <4>3. CASE s = scope
        <5>1. locks'[s] = r /\ locks[s] = Free
          BY <3>1, <4>3 DEF TypeOK
        <5>2. ~Occupies(q, s)
          BY <4>1, <5>1, MarkersAssumption
        <5> QED BY <2>3, <4>3, <5>1, <5>2
      <4>4. CASE s # scope
        <5>1. locks'[s] = locks[s]
          BY <3>1, <4>4 DEF TypeOK
        <5> QED BY <2>3, <4>1, <4>4, <5>1
      <4> QED BY <4>3, <4>4
    <3>4. LocksCompatible'
      BY <3>1, MarkersAssumption DEF LocksCompatible, TypeOK
    <3> QED BY <2>2, <3>2, <3>3, <3>4
  <2> QED BY <2>4, <2>5
<1>5. ASSUME NEW r \in Requests, InsertJob(r) PROVE IInv'
  <2>1. TypeOK'
    BY <1>5, NewestLemma, BoundsAssumption DEF InsertJob, TypeOK
  <2>2. StagesAgree' BY <1>5 DEF InsertJob, TypeOK, StagesAgree
  <2>3. LocksAreJobSideEffects' /\ LocksCompatible'
    BY <1>5, MoveKeepsLocks DEF InsertJob
  <2> QED BY <2>1, <2>2, <2>3
<1>6. ASSUME NEW r \in Requests, StartThread(r) PROVE IInv'
  <2>1. TypeOK' BY <1>6 DEF StartThread, TypeOK
  <2>2. StagesAgree' BY <1>6 DEF StartThread, TypeOK, StagesAgree
  <2>3. LocksAreJobSideEffects' /\ LocksCompatible'
    BY <1>6, MoveKeepsLocks DEF StartThread
  <2> QED BY <2>1, <2>2, <2>3
<1>7. ASSUME NEW r \in Requests, StartThreadFails(r) PROVE IInv'
  <2>1. TypeOK' BY <1>7 DEF StartThreadFails, TypeOK
  <2>2. StagesAgree' BY <1>7 DEF StartThreadFails, TypeOK, StagesAgree
  <2>3. LocksAreJobSideEffects' /\ LocksCompatible'
    BY <1>7, MoveKeepsLocks DEF StartThreadFails
  <2> QED BY <2>1, <2>2, <2>3
<1>8. ASSUME NEW r \in Requests, Begin(r) PROVE IInv'
  <2>1. TypeOK' BY <1>8 DEF Begin, TypeOK
  <2>2. StagesAgree' BY <1>8 DEF Begin, TypeOK, StagesAgree
  <2>3. LocksAreJobSideEffects' /\ LocksCompatible'
    BY <1>8, MoveKeepsLocks DEF Begin
  <2> QED BY <2>1, <2>2, <2>3
<1>9. ASSUME NEW r \in Requests, EngineEnds(r) PROVE IInv'
  <2>1. PICK stage \in {"result", "fail", "release"} : Goto(r, stage)
    BY <1>9 DEF EngineEnds
  <2>2. TypeOK' BY <1>9, <2>1 DEF EngineEnds, TypeOK
  <2>3. StagesAgree' BY <1>9, <2>1 DEF EngineEnds, TypeOK, StagesAgree
  <2>4. LocksAreJobSideEffects' /\ LocksCompatible'
    BY <1>9, <2>1, MoveKeepsLocks DEF EngineEnds
  <2> QED BY <2>2, <2>3, <2>4
<1>10. ASSUME NEW r \in Requests, RecordResult(r) PROVE IInv'
  <2>1. TypeOK' BY <1>10 DEF RecordResult, TypeOK
  <2>2. StagesAgree' BY <1>10 DEF RecordResult, TypeOK, StagesAgree
  <2>3. LocksAreJobSideEffects' /\ LocksCompatible'
    BY <1>10, MoveKeepsLocks DEF RecordResult
  <2> QED BY <2>1, <2>2, <2>3
<1>11. ASSUME NEW r \in Requests, Finish(r) PROVE IInv'
  <2>1. TypeOK' BY <1>11 DEF Finish, TypeOK
  <2>2. StagesAgree' BY <1>11 DEF Finish, TypeOK, StagesAgree
  <2>3. LocksAreJobSideEffects' /\ LocksCompatible'
    BY <1>11, MoveKeepsLocks DEF Finish
  <2> QED BY <2>1, <2>2, <2>3
<1>12. ASSUME NEW r \in Requests, RecordOutcome(r) PROVE IInv'
  <2>1. [request |-> r, result |-> jobState[r]] \in AuditEntry
    BY <1>12 DEF RecordOutcome, StagesAgree, AuditEntry
  <2>2. TypeOK'
    BY <1>12, <2>1, NewestLemma, BoundsAssumption
    DEF RecordOutcome, RecordAudit, TypeOK
  <2>3. StagesAgree' BY <1>12 DEF RecordOutcome, TypeOK, StagesAgree
  <2>4. LocksAreJobSideEffects' /\ LocksCompatible'
    BY <1>12, MoveKeepsLocks DEF RecordOutcome
  <2> QED BY <2>2, <2>3, <2>4
<1>13. ASSUME NEW r \in Requests, Release(r) PROVE IInv'
  <2>1. TypeOK' BY <1>13 DEF Release, TypeOK
  <2>2. StagesAgree' BY <1>13 DEF Release, TypeOK, StagesAgree
  <2>3. \A q \in Requests, s \in Scope :
            Occupies(q, s)' <=> Occupies(q, s) /\ q # r
    BY <1>13 DEF Release, Occupies, LockScope, TypeOK
  <2>4. \A s \in Scope : s = LockScope(call[r]) => locks[s] = r
    BY <1>13, MarkersAssumption DEF Release, LocksAreJobSideEffects, Occupies
  <2>5. \A s \in Scope : s # LockScope(call[r]) => locks[s] # r
    BY <1>13 DEF Release, LocksAreJobSideEffects, Occupies
  <2>6. LocksAreJobSideEffects'
    BY <1>13, <2>3, <2>4, <2>5, MarkersAssumption
    DEF Release, LocksAreJobSideEffects
  <2>7. LocksCompatible' BY <1>13 DEF Release, LocksCompatible
  <2> QED BY <2>1, <2>2, <2>6, <2>7
<1>14. CASE Restart
  <2>1. TypeOK' BY <1>14, BoundsAssumption DEF Restart, TypeOK
  <2>2. StagesAgree' BY <1>14 DEF Restart, TypeOK, StagesAgree
  <2>3. LocksAreJobSideEffects' /\ LocksCompatible'
    BY <1>14, MarkersAssumption
    DEF Restart, LocksAreJobSideEffects, LocksCompatible, Occupies
  <2> QED BY <2>1, <2>2, <2>3
<1>15. CASE UNCHANGED vars
  BY <1>15 DEF vars, TypeOK, StagesAgree, LocksAreJobSideEffects, LocksCompatible,
     Occupies, LockScope
<1> QED
  BY <1>1, <1>2, <1>3, <1>4, <1>5, <1>6, <1>7, <1>8, <1>9, <1>10, <1>11, <1>12,
     <1>13, <1>14, <1>15
  DEF Next, Submitter, RunnerStep

THEOREM Invariance == Spec => []IInv
  BY InitInv, NextInv, PTL DEF Spec

-----------------------------------------------------------------------------
(* What follows from it.                                                   *)

\* Every variable of the service has its type, the two lists their bounds.
THEOREM TypeCorrect == Spec => []TypeOK
<1>1. IInv => TypeOK
  BY DEF IInv
<1> QED
  BY <1>1, Invariance, PTL

\* Locks are side effects of jobs: a scope is locked by exactly the job that is
\* between taking it and giving it back.
THEOREM LocksFollowJobs == Spec => []LocksAreJobSideEffects
<1>1. IInv => LocksAreJobSideEffects
  BY DEF IInv
<1> QED
  BY <1>1, Invariance, PTL

\* Jobs whose scopes conflict are never under way together.
LEMMA InvExcludes == IInv => MutualExclusion
<1> SUFFICES ASSUME IInv,
                    NEW r \in Requests, NEW q \in Requests,
                    NEW s \in Scope, NEW t \in Scope,
                    Occupies(r, s), Occupies(q, t),
                    s = t \/ s = Cluster \/ t = Cluster
             PROVE  r = q
  BY DEF MutualExclusion
<1>1. locks[s] = r /\ locks[t] = q
  BY DEF IInv, LocksAreJobSideEffects
<1>2. s = t
  BY <1>1, MarkersAssumption DEF IInv, LocksCompatible
<1> QED
  BY <1>1, <1>2

THEOREM Exclusion == Spec => []MutualExclusion
  BY InvExcludes, Invariance, PTL

-----------------------------------------------------------------------------
(* The refinement: what a step does to the set of occupied scopes.         *)

OccupiedPairs == {o \in Scope \X Requests : Occupies(o[2], o[1])}

\* The service's initial states are initial states of the abstract scopes.
LEMMA InitRefines == Init => Exclusive!Init
  BY DEF Init, Exclusive!Init, Occupies

\* A step of a request that leaves its holding stages alone changes nothing there.
LEMMA MoveIsStutter ==
    ASSUME IInv, NEW r \in Requests, NEW stage \in Stage, Goto(r, stage),
           pc[r] \in Holding <=> stage \in Holding, call' = call
    PROVE  OccupiedPairs' = OccupiedPairs
  BY DEF OccupiedPairs, Occupies, LockScope, IInv, TypeOK

\* Every step of the service is a step of the abstract scopes, or a stutter:
\* admitting a job enters its scope, releasing it leaves, a restart vacates all.
LEMMA NextRefines == IInv /\ IInv' /\ [Next]_vars => [Exclusive!Next]_OccupiedPairs
<1> SUFFICES ASSUME IInv, IInv', [Next]_vars
             PROVE  Exclusive!Next \/ OccupiedPairs' = OccupiedPairs
  OBVIOUS
<1>1. ASSUME NEW r \in Requests, NEW c \in Calls, Receive(r, c)
      PROVE  OccupiedPairs' = OccupiedPairs
  BY <1>1 DEF Receive, OccupiedPairs, Occupies, IInv, TypeOK
<1>2. ASSUME NEW r \in Requests, Admit(r)
      PROVE  Exclusive!Next \/ OccupiedPairs' = OccupiedPairs
  <2> DEFINE scope == LockScope(call[r])
  <2>1. scope \in Scope \cup {NoScope}
    BY <1>2, LockScopeType DEF Admit, IInv, StagesAgree
  <2>2. \A q \in Requests, s \in Scope :
            Occupies(q, s)' <=> Occupies(q, s) \/ (q = r /\ s = scope)
    BY <1>2, MarkersAssumption DEF Admit, Occupies, LockScope, IInv, TypeOK
  <2>3. CASE scope = NoScope
    BY <2>2, <2>3, MarkersAssumption DEF OccupiedPairs
  <2>4. CASE scope # NoScope
    <3>1. scope \in Scope
      BY <2>1, <2>4
    <3>2. ASSUME NEW o \in OccupiedPairs
          PROVE  ~Exclusive!Conflict(scope, o[1])
      <4>1. o[1] \in Scope /\ o[2] \in Requests /\ locks[o[1]] = o[2]
        BY <3>2 DEF OccupiedPairs, IInv, LocksAreJobSideEffects
      <4>2. locks[o[1]] # Free
        BY <4>1, MarkersAssumption
      <4> QED
        BY <1>2, <2>4, <4>1, <4>2 DEF Admit, Blocking, Exclusive!Conflict
    <3>3. OccupiedPairs' = OccupiedPairs \cup {<<scope, r>>}
      BY <2>2, <3>1 DEF OccupiedPairs
    <3>4. Exclusive!Enter(scope, r)
      BY <3>2, <3>3 DEF Exclusive!Enter, OccupiedPairs
    <3> QED
      BY <3>1, <3>4 DEF Exclusive!Next, Exclusive!Scope
  <2> QED BY <2>3, <2>4
<1>3. ASSUME NEW r \in Requests, Release(r)
      PROVE  Exclusive!Next \/ OccupiedPairs' = OccupiedPairs
  <2> DEFINE scope == LockScope(call[r])
  <2>1. scope \in Scope \cup {NoScope}
    BY <1>3, LockScopeType DEF Release, IInv, StagesAgree
  <2>2. \A q \in Requests, s \in Scope :
            Occupies(q, s)' <=> Occupies(q, s) /\ q # r
    BY <1>3 DEF Release, Occupies, LockScope, IInv, TypeOK
  <2>3. \A s \in Scope : Occupies(r, s) <=> s = scope
    BY <1>3, MarkersAssumption DEF Release, Occupies
  <2>4. CASE scope = NoScope
    BY <2>2, <2>3, <2>4, MarkersAssumption DEF OccupiedPairs
  <2>5. CASE scope # NoScope
    <3>1. scope \in Scope
      BY <2>1, <2>5
    <3>2. OccupiedPairs' = OccupiedPairs \ {<<scope, r>>}
      BY <2>2, <2>3, <3>1 DEF OccupiedPairs
    <3>3. <<scope, r>> \in OccupiedPairs
      BY <2>3, <3>1 DEF OccupiedPairs
    <3>4. Exclusive!Leave(scope, r)
      BY <3>2, <3>3 DEF Exclusive!Leave, OccupiedPairs
    <3> QED
      BY <3>1, <3>4 DEF Exclusive!Next, Exclusive!Scope
  <2> QED BY <2>4, <2>5
<1>4. ASSUME Restart PROVE Exclusive!Next
  <2>1. OccupiedPairs' = {}
    BY <1>4 DEF Restart, OccupiedPairs, Occupies
  <2> QED
    BY <2>1 DEF Exclusive!Next, Exclusive!Vacate, OccupiedPairs
<1>5. ASSUME NEW r \in Requests,
             \/ RefuseAudited(r) \/ RefuseSilently(r) \/ InsertJob(r)
             \/ StartThread(r) \/ StartThreadFails(r) \/ Begin(r) \/ EngineEnds(r)
             \/ RecordResult(r) \/ Finish(r) \/ RecordOutcome(r)
      PROVE  OccupiedPairs' = OccupiedPairs
  <2>1. call' = call
    BY <1>5 DEF RefuseAudited, RefuseSilently, InsertJob, StartThread,
       StartThreadFails, Begin, EngineEnds, RecordResult, Finish, RecordOutcome
  <2>2. PICK stage \in Stage :
            Goto(r, stage) /\ (pc[r] \in Holding <=> stage \in Holding)
    BY <1>5 DEF RefuseAudited, RefuseSilently, InsertJob, StartThread,
       StartThreadFails, Begin, EngineEnds, RecordResult, Finish, RecordOutcome
  <2> QED BY <2>1, <2>2, MoveIsStutter
<1>6. CASE UNCHANGED vars
  BY <1>6 DEF vars, OccupiedPairs, Occupies, LockScope
<1> QED
  BY <1>1, <1>2, <1>3, <1>4, <1>5, <1>6 DEF Next, Submitter, RunnerStep

\* The service implements the abstract exclusive scopes.
THEOREM Refinement == Spec => ImplementsExclusiveScopes
<1>1. IInv /\ IInv' /\ [Next]_vars => [Exclusive!Next]_OccupiedPairs
  BY NextRefines
<1> QED
  BY <1>1, InitRefines, Invariance, PTL
  DEF Spec, ImplementsExclusiveScopes, Exclusive!Spec, OccupiedPairs

-----------------------------------------------------------------------------
(* The records a job leaves.                                               *)

\* An entry that tells an outcome is made by the thread of that job, of its state.
LEMMA OutcomeStep ==
    ASSUME IInv, [Next]_vars, audit' # audit, audit' # <<>>,
           audit'[1].result \in {"succeeded", "failed"}
    PROVE  \E r \in Requests :
              /\ RecordOutcome(r)
              /\ audit'[1] = [request |-> r, result |-> jobState[r]]
<1>1. \/ \E r \in Requests : RefuseAudited(r) \/ RecordOutcome(r)
      \/ Restart
  BY DEF Next, Submitter, RunnerStep, Receive, RefuseSilently, Admit, InsertJob,
     StartThread, StartThreadFails, Begin, EngineEnds, RecordResult, Finish, Release,
     vars
<1>2. CASE Restart
  BY <1>2 DEF Restart
<1>3. ASSUME NEW r \in Requests, NEW result,
             result \in {"REFUSED (unknown role)", "REFUSED (role)",
                         "succeeded", "failed"},
             RecordAudit(r, result)
      PROVE  audit'[1] = [request |-> r, result |-> result]
  <2> DEFINE e == [request |-> r, result |-> result]
  <2>1. e \in AuditEntry
    BY <1>3 DEF AuditEntry
  <2>2. audit \in Seq(AuditEntry) /\ Len(audit) <= MaxEntries
    BY DEF IInv, TypeOK
  <2>3. audit' = Newest(e, audit, MaxEntries)
    BY <1>3 DEF RecordAudit
  <2> HIDE DEF e
  <2>4. Newest(e, audit, MaxEntries)[1] = e
    BY <2>1, <2>2, NewestLemma, BoundsAssumption
  <2> QED BY <2>3, <2>4 DEF e
<1>4. ASSUME NEW r \in Requests, RefuseAudited(r) PROVE FALSE
  <2>1. PICK result \in {"REFUSED (unknown role)", "REFUSED (role)"} :
            RecordAudit(r, result)
    BY <1>4 DEF RefuseAudited
  <2>2. audit'[1] = [request |-> r, result |-> result]
    BY <1>3, <2>1
  <2>3. audit'[1].result = [request |-> r, result |-> result].result
    BY <2>2, Zenon
  <2>4. result \notin {"succeeded", "failed"}
    OBVIOUS
  <2> QED BY <2>3, <2>4
<1>5. ASSUME NEW r \in Requests, RecordOutcome(r)
      PROVE  audit'[1] = [request |-> r, result |-> jobState[r]]
  BY <1>3, <1>5 DEF RecordOutcome, IInv, StagesAgree
<1> QED
  BY <1>1, <1>2, <1>4, <1>5

\* A job's outcome goes on record while the job still has its scope.
LEMMA AuditStep ==
    IInv /\ [Next]_vars =>
        [audit' # audit /\ audit' # <<>> =>
           LET e == audit'[1] IN
           e.result \in {"succeeded", "failed"} =>
             \A s \in Scope : LockScope(call[e.request]) = s => locks'[s] = e.request
        ]_vars
<1> SUFFICES ASSUME IInv, Next, audit' # audit, audit' # <<>>,
                    audit'[1].result \in {"succeeded", "failed"},
                    NEW s \in Scope, LockScope(call[audit'[1].request]) = s
             PROVE  locks'[s] = audit'[1].request
  OBVIOUS
<1>1. PICK r \in Requests :
          RecordOutcome(r) /\ audit'[1] = [request |-> r, result |-> jobState[r]]
  BY OutcomeStep
<1>2. Occupies(r, s)
  BY <1>1, MarkersAssumption DEF RecordOutcome, Occupies
<1>3. locks[s] = r /\ locks' = locks
  BY <1>1, <1>2 DEF RecordOutcome, IInv, LocksAreJobSideEffects
<1> QED
  BY <1>1, <1>3

THEOREM OutcomeOrder == Spec => OutcomeAuditedUnderLock
  BY AuditStep, Invariance, PTL DEF Spec, OutcomeAuditedUnderLock

Shorter(m, n) == IF m < n THEN m ELSE n

\* The list is the last jobs there were, newest first, and every job is among these jobs.
ListIsNewest ==
    /\ Len(jobs) = Shorter(Len(order), MaxJobsKept)
    /\ \A i \in DOMAIN jobs : jobs[i] = order[i]
    /\ \A r \in Requests :
          jobState[r] # "none" /\ pc[r] # "insert" => \E k \in DOMAIN order : order[k] = r

\* A job that is none of the newest is older than each of them.
LEMMA NewestDisplace == IInv /\ ListIsNewest => ListedUnlessDisplaced
<1> SUFFICES ASSUME IInv, ListIsNewest, NEW r \in Requests,
                    jobState[r] # "none", pc[r] # "insert", ~Listed(r)
             PROVE  Len(jobs) = MaxJobsKept /\ \A i \in DOMAIN jobs : Newer(jobs[i], r)
  BY DEF ListedUnlessDisplaced
<1>1. PICK k \in DOMAIN order : order[k] = r
  BY DEF ListIsNewest
<1>2. jobs \in Seq(Requests) /\ order \in Seq(Requests) /\ k \in 1..Len(order)
  BY <1>1 DEF IInv, TypeOK
<1>3. k > Len(jobs)
  <2>1. k \notin DOMAIN jobs
    BY <1>1 DEF Listed, ListIsNewest
  <2> QED BY <1>2, <2>1
<1>4. Len(jobs) = MaxJobsKept
  BY <1>2, <1>3, BoundsAssumption DEF ListIsNewest, Shorter
<1>5. ASSUME NEW i \in DOMAIN jobs PROVE Newer(jobs[i], r)
  <2>1. i \in DOMAIN order /\ i < k /\ jobs[i] = order[i]
    BY <1>2, <1>3 DEF ListIsNewest
  <2> QED BY <1>1, <2>1 DEF Newer
<1> QED BY <1>4, <1>5

LEMMA ListInsert ==
    ASSUME IInv, ListIsNewest, NEW r \in Requests, InsertJob(r)
    PROVE  ListIsNewest'
<1>1. /\ jobs \in Seq(Requests) /\ order \in Seq(Requests) /\ Len(jobs) <= MaxJobsKept
      /\ jobs' = Newest(r, jobs, MaxJobsKept) /\ order' = <<r>> \o order
  BY DEF InsertJob, IInv, TypeOK
<1>2. /\ Len(order') = Len(order) + 1 /\ DOMAIN order' = 1..(Len(order) + 1)
      /\ order'[1] = r /\ \A k \in 1..Len(order) : order'[k + 1] = order[k]
  BY <1>1
<1>3. /\ DOMAIN jobs' = 1..(IF Len(jobs) < MaxJobsKept THEN Len(jobs) + 1 ELSE MaxJobsKept)
      /\ \A i \in DOMAIN jobs' : jobs'[i] = IF i = 1 THEN r ELSE jobs[i - 1]
  BY <1>1 DEF Newest
<1>4. Len(jobs') = IF Len(jobs) < MaxJobsKept THEN Len(jobs) + 1 ELSE MaxJobsKept
  <2>1. jobs' \in Seq(Requests)
    BY <1>1, NewestLemma, BoundsAssumption
  <2>2. DOMAIN jobs' = 1..Len(jobs') /\ Len(jobs') \in Nat
    BY <2>1
  <2> QED BY <1>1, <1>3, <2>2, BoundsAssumption
<1>5. Len(jobs') = Shorter(Len(order'), MaxJobsKept)
  BY <1>1, <1>2, <1>4, BoundsAssumption DEF ListIsNewest, Shorter
<1>6. ASSUME NEW i \in DOMAIN jobs' PROVE jobs'[i] = order'[i]
  <2>1. CASE i = 1 BY <1>2, <1>3, <2>1
  <2>2. CASE i # 1
    <3>1. i - 1 \in DOMAIN jobs /\ i - 1 \in 1..Len(order) /\ i \in Nat
      BY <1>1, <1>3, <1>6, <2>2, BoundsAssumption DEF ListIsNewest, Shorter
    <3>2. jobs'[i] = jobs[i - 1] /\ jobs[i - 1] = order[i - 1]
      BY <1>3, <1>6, <2>2, <3>1 DEF ListIsNewest
    <3>3. order'[(i - 1) + 1] = order[i - 1]
      BY <1>2, <3>1
    <3>4. (i - 1) + 1 = i
      BY <3>1
    <3> QED BY <3>2, <3>3, <3>4
  <2> QED BY <2>1, <2>2
<1>7. ASSUME NEW q \in Requests, jobState'[q] # "none", pc'[q] # "insert"
      PROVE  \E k \in DOMAIN order' : order'[k] = q
  <2>1. CASE q = r BY <1>1, <1>2, <2>1
  <2>2. CASE q # r
    <3>1. jobState[q] # "none" /\ pc[q] # "insert"
      BY <1>7, <2>2 DEF InsertJob, IInv, TypeOK
    <3>2. PICK k \in DOMAIN order : order[k] = q
      BY <3>1 DEF ListIsNewest
    <3>3. k \in 1..Len(order)
      BY <1>1, <3>2
    <3>4. k + 1 \in DOMAIN order' /\ order'[k + 1] = q
      BY <1>1, <1>2, <3>2, <3>3
    <3> QED BY <3>4
  <2> QED BY <2>1, <2>2
<1> QED BY <1>5, <1>6, <1>7 DEF ListIsNewest

\* No step but an insertion changes the list, and a restart empties it.
LEMMA ListStep == IInv /\ ListIsNewest /\ [Next]_vars => ListIsNewest'
<1> SUFFICES ASSUME IInv, ListIsNewest, [Next]_vars PROVE ListIsNewest'
  OBVIOUS
<1>1. ASSUME UNCHANGED <<jobs, order>>,
             \A q \in Requests : jobState'[q] # "none" /\ pc'[q] # "insert"
                                   => jobState[q] # "none" /\ pc[q] # "insert"
      PROVE  ListIsNewest'
  BY <1>1 DEF ListIsNewest
<1>2. ASSUME NEW r \in Requests,
             \/ \E c \in Calls : Receive(r, c)
             \/ RefuseAudited(r) \/ RefuseSilently(r) \/ Admit(r)
             \/ StartThread(r) \/ StartThreadFails(r)
      PROVE  ListIsNewest'
  <2>1. /\ UNCHANGED <<jobs, order>> /\ pc[r] # "insert"
        /\ \A q \in Requests \ {r} : jobState'[q] = jobState[q] /\ pc'[q] = pc[q]
        /\ jobState'[r] = jobState[r] \/ pc'[r] = "insert"
    BY <1>2 DEF Receive, RefuseAudited, RefuseSilently, Admit, StartThread,
       StartThreadFails, IInv, TypeOK
  <2> QED BY <1>1, <2>1
<1>3. ASSUME NEW r \in Requests,
             \/ Begin(r) \/ EngineEnds(r) \/ RecordResult(r) \/ Finish(r)
             \/ RecordOutcome(r) \/ Release(r)
      PROVE  ListIsNewest'
  <2>1. /\ UNCHANGED <<jobs, order>> /\ pc[r] \notin {"insert", "idle"}
        /\ \A q \in Requests \ {r} : jobState'[q] = jobState[q] /\ pc'[q] = pc[q]
        /\ jobState[r] # "none"
    BY <1>3 DEF Begin, EngineEnds, RecordResult, Finish, RecordOutcome,
       Release, IInv, TypeOK, StagesAgree
  <2> QED BY <1>1, <2>1
<1>4. CASE Restart
  BY <1>4, BoundsAssumption DEF Restart, ListIsNewest, Shorter
<1>5. CASE UNCHANGED vars
  BY <1>5 DEF vars, ListIsNewest
<1> QED
  BY <1>2, <1>3, <1>4, <1>5, ListInsert DEF Next, Submitter, RunnerStep

\* A job is off the list only when as many newer ones as the list holds are on it.
THEOREM ListedJobs == Spec => []ListedUnlessDisplaced
<1>1. Init => ListIsNewest
  BY BoundsAssumption DEF Init, ListIsNewest, Shorter
<1> QED
  BY <1>1, ListStep, NewestDisplace, Invariance, PTL DEF Spec

-----------------------------------------------------------------------------
(* The safety half of ScopesComeBack: how many steps a job that holds a    *)
(* lock has left until its lock is given back.                             *)

Left(r) ==
    IF pc[r] = "insert" THEN 8
    ELSE IF pc[r] = "start" THEN 7
    ELSE IF pc[r] = "queued" THEN 6
    ELSE IF pc[r] = "working" THEN 5
    ELSE IF pc[r] = "result" THEN 4
    ELSE IF pc[r] \in {"succeed", "fail"} THEN 3
    ELSE IF pc[r] = "audit" THEN 2
    ELSE IF pc[r] = "release" THEN 1 ELSE 0

\* A lock is held by a job that has a step to make, or whose thread never started.
HoldersHaveSteps ==
    \A s \in Scope, r \in Requests : locks[s] = r => Left(r) > 0 \/ pc[r] = "lost"

\* While a job holds a scope nothing sets it back: a step either leaves it where it is,
\* with its scope, or brings it nearer to giving the scope back.  Nobody gives it back
\* but the job that has it, when that is all it has left, and a restart.
HoldersRunDown ==
    \A s \in Scope, r \in Requests : locks[s] = r =>
        /\ pc'[r] = pc[r] \/ Left(r)' < Left(r) \/ pc'[r] = "killed"
        /\ locks'[s] # r => (pc[r] = "release" /\ pc'[r] = "done") \/ pc'[r] = "killed"
        /\ RunnerStep(r) \/ Submitter(r) \/ EngineEnds(r) => Left(r)' < Left(r)

\* The steps of a request that holds a scope, or might.
LEMMA HoldersOwnStep ==
    ASSUME IInv, NEW r \in Requests, pc[r] \in Holding,
           Submitter(r) \/ RunnerStep(r) \/ EngineEnds(r)
    PROVE  /\ Left(r)' < Left(r) /\ call'[r] = call[r]
           /\ pc'[r] \in Holding \/ (pc[r] = "release" /\ pc'[r] = "done")
<1>1. pc \in [Requests -> Stage]
  BY DEF IInv, TypeOK
<1>2. \/ pc[r] = "insert" /\ pc'[r] = "start"
      \/ pc[r] = "start" /\ pc'[r] \in {"queued", "lost"}
      \/ pc[r] = "queued" /\ pc'[r] = "working"
      \/ pc[r] = "working" /\ pc'[r] \in {"result", "fail", "release"}
      \/ pc[r] = "result" /\ pc'[r] = "succeed"
      \/ pc[r] \in {"succeed", "fail"} /\ pc'[r] = "audit"
      \/ pc[r] = "audit" /\ pc'[r] = "release"
      \/ pc[r] = "release" /\ pc'[r] = "done"
  BY <1>1 DEF Submitter, RunnerStep, RefuseAudited, RefuseSilently, Admit, InsertJob,
     StartThread, StartThreadFails, Begin, EngineEnds, RecordResult, Finish, RecordOutcome,
     Release
<1>3. call' = call
  BY DEF Submitter, RunnerStep, RefuseAudited, RefuseSilently, Admit, InsertJob,
     StartThread, StartThreadFails, Begin, EngineEnds, RecordResult, Finish, RecordOutcome,
     Release
<1> QED BY <1>2, <1>3 DEF Left

\* Everything else leaves it where it is, but for a restart.
LEMMA HoldersRest ==
    ASSUME IInv, [Next]_vars, NEW r \in Requests, pc[r] \in Holding,
           ~(Submitter(r) \/ RunnerStep(r) \/ EngineEnds(r))
    PROVE  (pc'[r] = pc[r] \/ pc'[r] = "killed") /\ call'[r] = call[r]
<1>1. pc \in [Requests -> Stage] /\ call \in [Requests -> Calls \cup {NoCall}]
  BY DEF IInv, TypeOK
<1>2. ASSUME NEW q \in Requests, NEW c \in Calls, Receive(q, c)
      PROVE  pc'[r] = pc[r] /\ call'[r] = call[r]
  BY <1>1, <1>2 DEF Receive
<1>3. ASSUME NEW q \in Requests, Submitter(q) \/ RunnerStep(q) \/ EngineEnds(q)
      PROVE  pc'[r] = pc[r] /\ call'[r] = call[r]
  <2>1. q # r
    BY <1>3
  <2> QED
    BY <1>1, <1>3, <2>1 DEF Submitter, RunnerStep, RefuseAudited, RefuseSilently, Admit,
       InsertJob, StartThread, StartThreadFails, Begin, EngineEnds, RecordResult, Finish,
       RecordOutcome, Release
<1>4. CASE Restart BY <1>1, <1>4 DEF Restart
<1>5. CASE UNCHANGED vars BY <1>5 DEF vars
<1> QED BY <1>2, <1>3, <1>4, <1>5 DEF Next

LEMMA HolderStep == IInv /\ IInv' /\ [Next]_vars => HoldersRunDown
<1> SUFFICES ASSUME IInv, IInv', [Next]_vars,
                    NEW s \in Scope, NEW r \in Requests, locks[s] = r
             PROVE  /\ pc'[r] = pc[r] \/ Left(r)' < Left(r) \/ pc'[r] = "killed"
                    /\ locks'[s] # r => \/ pc[r] = "release" /\ pc'[r] = "done"
                                       \/ pc'[r] = "killed"
                    /\ RunnerStep(r) \/ Submitter(r) \/ EngineEnds(r) => Left(r)' < Left(r)
  BY DEF HoldersRunDown
<1>1. Occupies(r, s)
  BY DEF IInv, LocksAreJobSideEffects
<1>2. pc[r] \in Holding
  BY <1>1 DEF Occupies
<1>3. call'[r] = call[r] /\ pc'[r] \in Holding => locks'[s] = r
  BY <1>1 DEF IInv, LocksAreJobSideEffects, Occupies, LockScope
<1>4. CASE Submitter(r) \/ RunnerStep(r) \/ EngineEnds(r)
  BY <1>2, <1>3, <1>4, HoldersOwnStep
<1>5. CASE ~(Submitter(r) \/ RunnerStep(r) \/ EngineEnds(r))
  BY <1>2, <1>3, <1>5, HoldersRest
<1> QED BY <1>4, <1>5

LEMMA HolderWaits == IInv => HoldersHaveSteps
  BY DEF IInv, LocksAreJobSideEffects, Occupies, HoldersHaveSteps, Left

\* A scope comes back after at most eight steps of the job that holds it, whatever the
\* other jobs do, or its job's thread was never started: the lock of a job is given back
\* by that job, although release pops a scope without asking whose it is.
THEOREM HoldersReturn == Spec => []HoldersHaveSteps /\ [][HoldersRunDown]_vars
  BY Invariance, HolderWaits, HolderStep, PTL DEF Spec
-----------------------------------------------------------------------------
(* With the GitOps engine (module GitOpsConsole): what GitOpsProofs shows  *)
(* of the engine is shown here of the engine the service runs.             *)

Proved == INSTANCE GitOpsProofs WITH Jobs <- Requests, pc <- step

LEMMA EngineConstants == Proved!RendersAssumption /\ Proved!TaskAssumption
  BY EngineAssumption
  DEF Engine!RendersAssumption, Engine!TaskAssumption, Engine!Task, Engine!Verb,
      Proved!RendersAssumption, Proved!TaskAssumption, Proved!Task, Proved!Verb

\* The two instances say the same: of a job's step,
LEMMA SameJob ==
    ASSUME NEW r \in Requests
    PROVE  Engine!JobStep(r) <=> Proved!JobStep(r)
<1> USE DEF Engine!Goto, Engine!Onward, Engine!End, Engine!Answered, Engine!memory,
      Engine!Deploys, Engine!App, Engine!Source, Engine!Target, Engine!Active,
      Engine!Reading, Engine!Writing,
      Proved!Goto, Proved!Onward, Proved!End, Proved!Answered, Proved!memory,
      Proved!Deploys, Proved!App, Proved!Source, Proved!Target, Proved!Active,
      Proved!Reading, Proved!Writing
<1>1. Engine!Read(r) <=> Proved!Read(r)
  BY DEF Engine!Read, Engine!RequireCascade, Engine!PayloadExists, Engine!InputExists,
     Engine!ArchiveExists, Engine!NoDependents, Engine!CheckLane, Engine!TargetExists,
     Engine!ReadSet, Engine!GetSource, Engine!GetTargetSha, Engine!GetSourceSha,
     Engine!ObserveSynced, Engine!ObserveAbsent, Engine!CallFails,
     Proved!Read, Proved!RequireCascade, Proved!PayloadExists, Proved!InputExists,
     Proved!ArchiveExists, Proved!NoDependents, Proved!CheckLane, Proved!TargetExists,
     Proved!ReadSet, Proved!GetSource, Proved!GetTargetSha, Proved!GetSourceSha,
     Proved!ObserveSynced, Proved!ObserveAbsent, Proved!CallFails
<1>2. /\ Engine!CommitSet(r) <=> Proved!CommitSet(r)
      /\ Engine!PutTarget(r) <=> Proved!PutTarget(r)
      /\ Engine!PostTarget(r) <=> Proved!PostTarget(r)
      /\ Engine!DeleteSource(r) <=> Proved!DeleteSource(r)
  BY DEF Engine!CommitSet, Engine!PutTarget, Engine!PostTarget, Engine!DeleteSource,
     Engine!Mutated, Engine!WriteTarget, Engine!RemoveSource,
     Proved!CommitSet, Proved!PutTarget, Proved!PostTarget, Proved!DeleteSource,
     Proved!Mutated, Proved!WriteTarget, Proved!RemoveSource
<1> QED BY <1>1, <1>2, Zenon DEF Engine!JobStep, Proved!JobStep

\* and of the whole of the engine.
LEMMA SameEngine ==
    /\ Engine!vars = Proved!vars
    /\ Engine!Init <=> Proved!Init
    /\ Engine!Next <=> Proved!Next
<1>1. Engine!vars = Proved!vars
  BY DEF Engine!vars, Proved!vars, Engine!memory, Proved!memory
<1>2. Engine!Init <=> Proved!Init
  BY DEF Engine!Init, Proved!Init
<1>3. Engine!Task = Proved!Task
  BY DEF Engine!Task, Engine!Verb, Proved!Task, Proved!Verb
<1>4. ASSUME NEW r \in Requests, NEW t PROVE Engine!Submit(r, t) <=> Proved!Submit(r, t)
  BY DEF Engine!Submit, Engine!Goto, Engine!memory, Engine!App, Engine!Active,
     Engine!Reading, Engine!Writing,
     Proved!Submit, Proved!Goto, Proved!memory, Proved!App, Proved!Active,
     Proved!Reading, Proved!Writing
<1>5. ASSUME NEW a \in Apps
      PROVE  /\ Engine!Reconcile(a) <=> Proved!Reconcile(a)
             /\ \A i \in Renders : Engine!Render(a, i) <=> Proved!Render(a, i)
  BY DEF Engine!Reconcile, Engine!Render, Engine!memory,
     Proved!Reconcile, Proved!Render, Proved!memory
<1>6. Engine!ConsoleDies <=> Proved!ConsoleDies
  BY DEF Engine!ConsoleDies, Engine!Active, Engine!Reading, Engine!Writing,
     Proved!ConsoleDies, Proved!Active, Proved!Reading, Proved!Writing
<1>7. Engine!Next <=> Proved!Next
  BY <1>3, <1>4, <1>5, <1>6, SameJob, Zenon DEF Engine!Next, Proved!Next
<1> QED BY <1>1, <1>2, <1>7

\* The stages of a request whose job's thread has not begun.
BeforeWork == {"idle", "gates", "refused", "insert", "start", "lost", "queued"}

Succeeds(r) ==
    \/ pc[r] \in {"result", "succeed"}
    \/ pc[r] \in {"audit", "release"} /\ jobState[r] = "succeeded"

\* What the service's stages and the engine's say of each other.
Linked ==
    \A r \in Requests :
        /\ Proved!Active(r) => pc[r] = "working"
        /\ pc[r] \in BeforeWork => step[r] = "idle"
        /\ step[r] # "idle" =>
              call[r].verb \in RecordVerbs /\ task[r] = EngineTask(call[r])
        /\ Succeeds(r) /\ call[r].verb \in RecordVerbs => step[r] = "succeeded"

\* While a job that the engine has served holds its lock, the record says so.
SuccessHolds ==
    \A r \in Requests : step[r] = "succeeded" /\ pc[r] \in Holding => OnRecord(r)

ConsoleInv == IInv /\ Proved!IInv /\ Linked /\ SuccessHolds

\* The engine stands still when the record and its jobs do.
LEMMA Still == engine' = engine <=> UNCHANGED Proved!vars
  BY DEF engine, record, Proved!vars, Proved!memory

\* What the composition does to the service is a step of the service.
LEMMA ServiceStep == [ConsoleNext]_console => [Next]_vars
<1>1. ASSUME NEW r \in Requests, Serve(r) PROVE Next
  BY <1>1 DEF Serve, Next
<1>2. ASSUME NEW r \in Requests, EngineComesBack(r) PROVE Next
  BY <1>2 DEF EngineComesBack, Next
<1>3. ASSUME NEW r \in Requests, EnterEngine(r) \/ EngineWorks(r) PROVE vars' = vars
  BY <1>3 DEF EnterEngine, EngineWorks
<1>4. ASSUME NEW a \in Apps, Outside(a) PROVE vars' = vars
  BY <1>4 DEF Outside
<1>5. Restart => Next
  BY DEF Next
<1>6. console' = console => vars' = vars
  BY DEF console
<1> QED BY <1>1, <1>2, <1>3, <1>4, <1>5, <1>6, Zenon DEF ConsoleNext

\* A job at work in the engine has its application's lock, and so is the only one.
LEMMA OneAtWork ==
    ASSUME IInv, Linked, NEW r \in Requests, NEW q \in Requests,
           pc[r] \in Holding, call[r].verb \in RecordVerbs,
           Proved!Active(q), Proved!App(q) = call[r].app
    PROVE  q = r
<1>1. /\ pc[q] = "working" /\ call[q].verb \in RecordVerbs
      /\ task[q] = EngineTask(call[q])
  BY DEF Linked, Proved!Active, Proved!Reading, Proved!Writing
<1>2. call[r] \in Calls /\ call[q] \in Calls
  BY <1>1 DEF IInv, StagesAgree
<1>3. call[q].app = call[r].app
  BY <1>1 DEF EngineTask, Proved!App
<1>4. /\ LockScope(call[r]) = call[r].app /\ LockScope(call[q]) = call[r].app
      /\ call[r].app \in Scope /\ call[r].app # NoScope
  BY <1>1, <1>2, <1>3, CallsAssumption, MarkersAssumption
     DEF LockScope, RecordVerbs, DestructiveVerbs, ReadVerbs, Call
<1>5. Occupies(r, call[r].app) /\ Occupies(q, call[r].app)
  BY <1>1, <1>4 DEF Occupies
<1>6. MutualExclusion
  BY InvExcludes
<1> QED BY <1>4, <1>5, <1>6 DEF MutualExclusion

\* What the composition does to the engine is a step of the engine: the lock is the
\* guard of Submit.
LEMMA EngineStep ==
    ASSUME IInv, Linked, Proved!TypeOK, [ConsoleNext]_console
    PROVE  [Proved!Next]_(Proved!vars)
<1>1. ASSUME engine' = engine PROVE UNCHANGED Proved!vars
  BY <1>1, Still
<1>2. ASSUME NEW r \in Requests, Serve(r) \/ EngineComesBack(r) PROVE engine' = engine
  BY <1>2 DEF Serve, EngineComesBack
<1>3. ASSUME NEW r \in Requests, EnterEngine(r) PROVE Engine!Next
  <2> DEFINE t == EngineTask(call[r])
  <2>1. /\ pc[r] = "working" /\ step[r] = "idle" /\ call[r] \in Calls
        /\ call[r].verb \in RecordVerbs
        /\ task' = [task EXCEPT ![r] = t] /\ step' = [step EXCEPT ![r] = "cascade"]
        /\ UNCHANGED <<record, seenSet, text, sha>>
    BY <1>3 DEF EnterEngine, IInv, StagesAgree
  <2>2. t \in Engine!Task /\ t.verb # "build" /\ t.app = call[r].app
    BY <2>1, CallsAssumption DEF EngineTask, Call, Engine!Task, Engine!Verb
  <2>3. ASSUME NEW q \in Requests, Engine!Active(q) PROVE Engine!App(q) # t.app
    <3>1. Proved!Active(q) /\ ~Proved!Active(r) /\ Engine!App(q) = Proved!App(q)
      BY <2>1, <2>3 DEF Engine!Active, Engine!Reading, Engine!Writing, Engine!App,
         Proved!Active, Proved!Reading, Proved!Writing, Proved!App
    <3> HIDE DEF t
    <3> QED BY <2>1, <2>2, <3>1, OneAtWork
  <2> HIDE DEF t
  <2>4. Engine!Submit(r, t)
    BY <2>1, <2>2, <2>3 DEF Engine!Submit, Engine!Goto, Engine!memory, record
  <2> QED BY <2>2, <2>4 DEF Engine!Next
<1>4. ASSUME NEW r \in Requests, EngineWorks(r) PROVE Engine!Next
  BY <1>4 DEF EngineWorks, Engine!Next
<1>5. ASSUME NEW a \in Apps, Outside(a) PROVE Engine!Next
  BY <1>5 DEF Outside, Engine!Next
<1>6. Engine!ConsoleDies => Engine!Next
  BY DEF Engine!Next
<1>7. console' = console => engine' = engine
  BY DEF console
<1>8. Engine!Next \/ engine' = engine
  BY <1>2, <1>3, <1>4, <1>5, <1>6, <1>7, Zenon DEF ConsoleNext
<1> QED BY <1>1, <1>8, SameEngine, Zenon

\* Where a step of the service can take a request, as far as the engine cares.
LEMMA ServeMoves ==
    ASSUME IInv, NEW r \in Requests, Serve(r)
    PROVE  /\ engine' = engine
           /\ \A q \in Requests \ {r} :
                 pc'[q] = pc[q] /\ call'[q] = call[q] /\ jobState'[q] = jobState[q]
           /\ pc[r] # "working"
           /\ pc[r] \in BeforeWork => pc'[r] \in BeforeWork \cup {"working"}
           /\ pc[r] \notin BeforeWork =>
                 /\ pc'[r] \notin BeforeWork /\ call'[r] = call[r]
                 /\ Succeeds(r)' => Succeeds(r)
<1>1. CASE \E c \in Calls : Receive(r, c)
  BY <1>1 DEF Serve, Receive, BeforeWork, IInv, TypeOK
<1>2. CASE Submitter(r)
  BY <1>2 DEF Serve, Submitter, RefuseAudited, RefuseSilently, Admit, InsertJob,
     StartThread, StartThreadFails, BeforeWork, IInv, TypeOK
<1>3. CASE RunnerStep(r)
  BY <1>3 DEF Serve, RunnerStep, Begin, RecordResult, Finish, RecordOutcome,
     Release, BeforeWork, Succeeds, IInv, TypeOK
<1> QED BY <1>1, <1>2, <1>3 DEF Serve

\* A thread that has begun keeps its call, and does not come by a lock again.
LEMMA Onwards ==
    ASSUME IInv, [Next]_vars, NEW r \in Requests, pc[r] \notin BeforeWork
    PROVE  call'[r] = call[r] /\ (pc'[r] \in Holding => pc[r] \in Holding)
<1>1. ASSUME NEW q \in Requests, NEW c \in Calls, Receive(q, c)
      PROVE  call'[r] = call[r] /\ pc'[r] = pc[r]
  BY <1>1 DEF Receive, BeforeWork, IInv, TypeOK
<1>2. ASSUME NEW q \in Requests, Submitter(q)
      PROVE  call'[r] = call[r] /\ pc'[r] = pc[r]
  BY <1>2 DEF Submitter, RefuseAudited, RefuseSilently, Admit, InsertJob,
     StartThread, StartThreadFails, BeforeWork, IInv, TypeOK
<1>3. ASSUME NEW q \in Requests, RunnerStep(q) \/ EngineEnds(q)
      PROVE  call' = call /\ (pc'[r] = pc[r] \/ pc[r] \in Holding)
  BY <1>3 DEF RunnerStep, Begin, RecordResult, Finish, RecordOutcome, Release,
     EngineEnds, IInv, TypeOK
<1>4. ASSUME Restart
      PROVE  call' = call /\ pc'[r] \notin Holding
  BY <1>4 DEF Restart, IInv, TypeOK
<1>5. CASE UNCHANGED vars
  BY <1>5 DEF vars
<1> QED BY <1>1, <1>2, <1>3, <1>4, <1>5 DEF Next

LEMMA LinkedInv ==
    ASSUME IInv, Proved!IInv, Linked, [ConsoleNext]_console
    PROVE  Linked'
<1> USE DEF Proved!Active, Proved!Reading, Proved!Writing
<1>1. step \in [Requests -> Proved!Stage] /\ task \in [Requests -> Proved!Task \cup {NoTask}]
  BY DEF Proved!IInv, Proved!TypeOK
<1>2. ASSUME NEW r \in Requests, Serve(r) PROVE Linked'
  <2>1. step' = step /\ task' = task
    BY <1>2, ServeMoves DEF engine
  <2>2. ASSUME NEW q \in Requests, q # r
        PROVE  /\ pc'[q] = pc[q] /\ call'[q] = call[q]
               /\ Succeeds(q)' => Succeeds(q)
    BY <1>2, <2>2, ServeMoves DEF Succeeds
  <2>3. CASE pc[r] \in BeforeWork
    <3>1. step[r] = "idle" /\ pc'[r] \in BeforeWork \cup {"working"} /\ ~Succeeds(r)'
      BY <1>2, <2>3, ServeMoves DEF Linked, BeforeWork, Succeeds
    <3> HIDE DEF BeforeWork, Succeeds
    <3> QED BY <2>1, <2>2, <3>1 DEF Linked
  <2>4. CASE pc[r] \notin BeforeWork
    <3>1. /\ pc'[r] \notin BeforeWork /\ call'[r] = call[r] /\ pc[r] # "working"
          /\ Succeeds(r)' => Succeeds(r)
      BY <1>2, <2>4, ServeMoves
    <3> QED BY <2>1, <2>2, <3>1 DEF Linked
  <2> QED BY <2>3, <2>4
<1>3. ASSUME NEW r \in Requests, EnterEngine(r) PROVE Linked'
  <2>1. /\ pc[r] = "working" /\ call[r].verb \in RecordVerbs
        /\ UNCHANGED <<pc, call, jobState>>
        /\ step' = [step EXCEPT ![r] = "cascade"]
        /\ task' = [task EXCEPT ![r] = EngineTask(call[r])]
    BY <1>3 DEF EnterEngine, vars
  <2>2. \A q \in Requests : Succeeds(q)' <=> Succeeds(q)
    BY <2>1 DEF Succeeds
  <2> QED BY <1>1, <2>1, <2>2 DEF Linked, BeforeWork, Succeeds
<1>4. ASSUME NEW r \in Requests, EngineWorks(r) PROVE Linked'
  <2>1. /\ pc[r] = "working" /\ UNCHANGED <<pc, call, jobState>>
        /\ Proved!Active(r) /\ step'[r] # "idle" /\ task' = task
        /\ \A q \in Requests : q # r => step'[q] = step[q]
    <3>1. Proved!JobStep(r) /\ pc[r] = "working" /\ UNCHANGED <<pc, call, jobState>>
      BY <1>4, SameJob DEF EngineWorks, vars
    <3> QED BY <3>1, EngineConstants, Proved!JobMoves
  <2>2. \A q \in Requests : Succeeds(q)' <=> Succeeds(q)
    BY <2>1 DEF Succeeds
  <2> QED BY <1>1, <2>1, <2>2 DEF Linked, BeforeWork, Succeeds
<1>5. ASSUME NEW r \in Requests, EngineComesBack(r) PROVE Linked'
  <2>1. /\ pc[r] = "working" /\ pc'[r] \in {"result", "fail", "release"}
        /\ jobState[r] = "running"
        /\ \A q \in Requests : q # r => pc'[q] = pc[q]
        /\ UNCHANGED <<call, jobState, step, task>>
        /\ \/ call[r].verb \in {"status", "health"}
           \/ pc'[r] = "result" /\ step[r] = "succeeded"
           \/ pc'[r] \in {"fail", "release"} /\ step[r] \in {"failed", "idle"}
    BY <1>5 DEF EngineComesBack, EngineEnds, engine, IInv, TypeOK, StagesAgree
  <2>2. call[r].verb \in {"status", "health"} =>
            call[r].verb \notin RecordVerbs /\ step[r] = "idle"
    BY DEF Linked, RecordVerbs
  <2>3. \A q \in Requests : q # r => (Succeeds(q)' <=> Succeeds(q))
    BY <2>1 DEF Succeeds
  <2>4. Succeeds(r)' <=> pc'[r] = "result"
    BY <2>1 DEF Succeeds
  <2>5. pc'[r] \notin BeforeWork
    BY <2>1 DEF BeforeWork
  <2> HIDE DEF BeforeWork, Succeeds
  <2> QED BY <2>1, <2>2, <2>3, <2>4, <2>5 DEF Linked
<1>6. ASSUME NEW a \in Apps, Outside(a) PROVE Linked'
  <2>1. UNCHANGED <<pc, call, jobState, step, task>>
    BY <1>6 DEF Outside, Engine!Render, Engine!Reconcile, vars
  <2> QED BY <2>1 DEF Linked, BeforeWork, Succeeds
<1>7. CASE Restart /\ Engine!ConsoleDies
  <2>1. /\ call' = call /\ task' = task
        /\ \A r \in Requests :
              /\ pc'[r] \in {"idle", "done", "refused", "killed"}
              /\ pc'[r] \in {"idle", "refused"} => pc'[r] = pc[r]
              /\ step'[r] = IF Proved!Active(r) THEN "failed" ELSE step[r]
    BY <1>7 DEF Restart, Engine!ConsoleDies, Engine!Active, Engine!Reading,
       Engine!Writing, IInv, TypeOK
  <2>2. \A r \in Requests : ~Succeeds(r)'
    BY <2>1 DEF Succeeds
  <2> QED BY <2>1, <2>2 DEF Linked, BeforeWork
<1>8. CASE UNCHANGED console
  BY <1>8 DEF console, vars, engine, Linked, BeforeWork, Succeeds
<1> QED
  BY <1>2, <1>3, <1>4, <1>5, <1>6, <1>7, <1>8 DEF ConsoleNext

LEMMA SuccessInv ==
    ASSUME ConsoleInv, [ConsoleNext]_console
    PROVE  SuccessHolds'
<1> SUFFICES ASSUME NEW r \in Requests, step'[r] = "succeeded", pc'[r] \in Holding
             PROVE  OnRecord(r)'
  BY DEF SuccessHolds
<1> USE DEF Proved!Active, Proved!Reading, Proved!Writing
<1>1. /\ IInv /\ Linked /\ SuccessHolds /\ Proved!IInv
      /\ [Next]_vars /\ [Proved!Next]_(Proved!vars)
  <2>1. IInv /\ Linked /\ SuccessHolds /\ Proved!IInv /\ Proved!TypeOK
    BY DEF ConsoleInv, Proved!IInv
  <2> QED BY <2>1, ServiceStep, EngineStep
<1>2. CASE step[r] # "succeeded"
  <2>1. Proved!Finishes(r)
    BY <1>2 DEF Proved!Finishes
  <2>2. /\ IF Proved!Deploys(r)
           THEN Proved!App(r) \in installed /\ inputs[Proved!App(r)] # Absent
           ELSE Proved!App(r) \notin installed /\ parked[Proved!App(r)] # Absent
        /\ Proved!Active(r)
        /\ UNCHANGED <<installed, inputs, parked>>
    BY <1>1, <2>1, EngineConstants, Proved!SuccessStep
  <2>3. /\ call[r].verb \in RecordVerbs /\ task[r] = EngineTask(call[r])
        /\ pc[r] \notin BeforeWork
    BY <1>1, <2>2 DEF Linked
  <2>4. call'[r] = call[r]
    BY <1>1, <2>3, Onwards
  <2>5. /\ Proved!App(r) = call[r].app
        /\ Proved!Deploys(r) <=> call[r].verb \in {"deploy", "publish"}
    BY <2>3 DEF EngineTask, RecordVerbs, Proved!App, Proved!Deploys
  <2> QED BY <2>2, <2>4, <2>5 DEF OnRecord
<1>3. CASE step[r] = "succeeded"
  <2>1. pc[r] \notin BeforeWork /\ call[r].verb \in RecordVerbs
    BY <1>1, <1>3 DEF Linked
  <2>2. call'[r] = call[r] /\ pc[r] \in Holding
    BY <1>1, <2>1, Onwards
  <2>3. OnRecord(r)
    BY <1>1, <1>3, <2>2 DEF SuccessHolds
  <2>4. call[r] \in Calls /\ call[r].app \in Apps
    BY <1>1, <2>1, CallsAssumption DEF IInv, StagesAgree, BeforeWork, Call
  <2>5. ASSUME NEW q \in Requests, Proved!Active(q)
        PROVE  Proved!App(q) # call[r].app
    BY <1>1, <1>3, <2>1, <2>2, <2>5, OneAtWork
  <2>6. LET a == call[r].app IN
        /\ a \in installed' <=> a \in installed
        /\ parked'[a] = parked[a]
        /\ inputs[a] # Absent => inputs'[a] # Absent
    <3> HIDE DEF Proved!Active
    <3> QED BY <1>1, <2>4, <2>5, EngineConstants, Proved!QuietApp
  <2> QED BY <2>2, <2>3, <2>6 DEF OnRecord
<1> QED BY <1>2, <1>3

-----------------------------------------------------------------------------
(* What the composition shows.                                             *)

LEMMA ConsoleInitInv == ConsoleInit => ConsoleInv
<1> SUFFICES ASSUME ConsoleInit PROVE ConsoleInv
  OBVIOUS
<1>1. Init /\ Proved!Init
  BY SameEngine DEF ConsoleInit
<1>2. IInv /\ Proved!IInv
  BY <1>1, InitInv, EngineConstants, Proved!InitInv
<1>3. \A r \in Requests : pc[r] = "idle" /\ step[r] = "idle"
  BY <1>1 DEF Init, Proved!Init
<1>4. Linked /\ SuccessHolds
  BY <1>3 DEF Linked, SuccessHolds, Succeeds, Proved!Active, Proved!Reading,
     Proved!Writing
<1> QED BY <1>2, <1>4 DEF ConsoleInv

LEMMA ConsoleNextInv == ConsoleInv /\ [ConsoleNext]_console => ConsoleInv'
<1> SUFFICES ASSUME ConsoleInv, [ConsoleNext]_console PROVE ConsoleInv'
  OBVIOUS
<1>1. IInv /\ Proved!IInv /\ Linked /\ Proved!TypeOK
  BY DEF ConsoleInv, Proved!IInv
<1>2. IInv'
  BY <1>1, ServiceStep, NextInv
<1>3. Proved!IInv'
  BY <1>1, EngineStep, EngineConstants, Proved!NextInv
<1>4. Linked' /\ SuccessHolds'
  BY <1>1, LinkedInv, SuccessInv
<1> QED BY <1>2, <1>3, <1>4 DEF ConsoleInv

THEOREM ConsoleInvariance == ConsoleSpec => []ConsoleInv
  BY ConsoleInitInv, ConsoleNextInv, PTL DEF ConsoleSpec

\* The service does not notice which engine it runs: what is shown of it alone is
\* so with this one.
THEOREM ConsoleIsService == ConsoleSpec => Spec
<1>1. ConsoleInit => Init
  BY DEF ConsoleInit
<1> QED BY <1>1, ServiceStep, PTL DEF ConsoleSpec, Spec

\* The engine's demand that jobs of one application be serial is met by the lock of
\* the service, which it knows nothing of: every behaviour of the console, with its
\* restarts, is one of the engine as modelled alone.
THEOREM ConsoleIsEngine == ConsoleSpec => Engine!Spec
<1>1. ConsoleInv => IInv /\ Linked /\ Proved!TypeOK
  BY DEF ConsoleInv, Proved!IInv
<1>2. ConsoleInit => Engine!Init
  BY DEF ConsoleInit
<1>3. ConsoleInv /\ [ConsoleNext]_console => [Engine!Next]_(Engine!vars)
  <2> SUFFICES ASSUME ConsoleInv, [ConsoleNext]_console
               PROVE  [Engine!Next]_(Engine!vars)
    OBVIOUS
  <2>1. [Proved!Next]_(Proved!vars)
    BY <1>1, EngineStep
  <2>2. UNCHANGED Proved!vars => UNCHANGED Engine!vars
    BY DEF Engine!vars, Proved!vars, Engine!memory, Proved!memory
  <2> QED BY <2>1, <2>2, SameEngine
<1> QED BY <1>2, <1>3, ConsoleInvariance, PTL DEF ConsoleSpec, Engine!Spec

\* A success is true when it goes on record.
THEOREM OutcomesAreTrue == ConsoleSpec => AuditIsTrue
<1> DEFINE A == audit' # audit /\ audit' # <<>> /\ audit'[1].result = "succeeded"
                  => OnRecord(audit'[1].request)
<1>1. ConsoleInv /\ [ConsoleNext]_console => [A]_console
  <2> SUFFICES ASSUME ConsoleInv, [ConsoleNext]_console, audit' # audit,
                      audit' # <<>>, audit'[1].result = "succeeded"
               PROVE  OnRecord(audit'[1].request)
    OBVIOUS
  <2>1. IInv /\ Linked /\ SuccessHolds /\ [Next]_vars
    BY ServiceStep DEF ConsoleInv
  <2>2. PICK r \in Requests :
            RecordOutcome(r) /\ audit'[1] = [request |-> r, result |-> jobState[r]]
    BY <2>1, OutcomeStep
  <2>3. Succeeds(r) /\ pc[r] \in Holding
    BY <2>2 DEF RecordOutcome, Succeeds
  <2>4. CASE call[r].verb \in RecordVerbs
    BY <2>1, <2>2, <2>3, <2>4 DEF Linked, SuccessHolds
  <2>5. CASE call[r].verb \notin RecordVerbs
    BY <2>2, <2>5 DEF OnRecord, RecordVerbs
  <2> QED BY <2>4, <2>5
<1> HIDE DEF A
<1>2. ConsoleSpec => [][A]_console
  BY <1>1, ConsoleInvariance, PTL DEF ConsoleSpec
<1> QED BY <1>2 DEF AuditIsTrue, A

\* With the lock in place of the guard, the record is still sound: what the set names
\* is generated, no input is lost, and no commit undoes another.
THEOREM RecordIsSound ==
    ConsoleSpec => /\ []Engine!InstalledIsGenerated
                   /\ Engine!RenderNeverLost
                   /\ Engine!ImplementsInstalledSet
<1> DEFINE Kept == \A a \in Apps : Engine!HasInput(a) => Engine!HasInput(a)'
<1>1. ConsoleInv => Engine!InstalledIsGenerated
  BY DEF ConsoleInv, Proved!IInv, Proved!InstalledIsGenerated,
     Engine!InstalledIsGenerated
<1>2. ConsoleInv /\ [ConsoleNext]_console => [Kept]_(Engine!vars)
  <2> SUFFICES ASSUME ConsoleInv, [ConsoleNext]_console PROVE Kept
    OBVIOUS
  <2>1. Proved!IInv /\ [Proved!Next]_(Proved!vars)
    BY EngineStep DEF ConsoleInv, Proved!IInv
  <2>2. \A a \in Apps : Proved!HasInput(a) => Proved!HasInput(a)'
    BY <2>1, EngineConstants, Proved!KeepsInput
  <2> QED BY <2>2 DEF Proved!HasInput, Engine!HasInput
<1>3. ConsoleInit => Engine!Record!Init
  BY DEF ConsoleInit, Engine!Init, Engine!Record!Init
<1>4. ConsoleInv /\ [ConsoleNext]_console => [Engine!Record!Next]_installed
  <2> SUFFICES ASSUME ConsoleInv, [ConsoleNext]_console
               PROVE  [Engine!Record!Next]_installed
    OBVIOUS
  <2>1. Proved!IInv /\ [Proved!Next]_(Proved!vars)
    BY EngineStep DEF ConsoleInv, Proved!IInv
  <2>2. [Proved!Record!Next]_installed
    BY <2>1, EngineConstants, Proved!NextRefines
  <2> QED
    BY <2>2 DEF Proved!Record!Next, Proved!Record!Add, Proved!Record!Remove,
       Engine!Record!Next, Engine!Record!Add, Engine!Record!Remove
<1> HIDE DEF Kept
<1>5. ConsoleSpec => []Engine!InstalledIsGenerated
  BY <1>1, ConsoleInvariance, PTL
<1>6. ConsoleSpec => [][Kept]_(Engine!vars)
  BY <1>2, ConsoleInvariance, PTL DEF ConsoleSpec
<1>7. ConsoleSpec => Engine!ImplementsInstalledSet
  BY <1>3, <1>4, ConsoleInvariance, PTL
     DEF ConsoleSpec, Engine!ImplementsInstalledSet, Engine!Record!Spec
<1>8. ConsoleSpec => Engine!RenderNeverLost
  BY <1>6 DEF Kept, Engine!RenderNeverLost
<1> QED BY <1>5, <1>7, <1>8
=============================================================================
