----------------------------- MODULE OpsService -----------------------------
(***************************************************************************)
(* The Ops service of the console: OpsService.submit, the LockManager, the *)
(* bounded job list, the bounded audit log and the worker thread JobRunner *)
(* runs for each job.                                                      *)
(*                                                                         *)
(* A request is one POST /api/jobs.  FastAPI runs the handler on a thread  *)
(* of its pool, so requests interleave; a request that passes its gates    *)
(* continues as the job's own daemon thread.  pc[r] is where that pair of  *)
(* threads stands.  Every shared write below is one critical section of    *)
(* the code (the service mutex, the lock manager's or the audit log's), and*)
(* the order of the actions of one request is the order of its statements. *)
(***************************************************************************)
EXTENDS Naturals, Sequences, FiniteSets

CONSTANTS
    Requests,     \* submissions, each at most one job
    Apps,         \* application names
    Cluster,      \* CLUSTER_SCOPE
    NoScope,      \* lock_scope's None: a read takes no lock
    Free,         \* no job: an unlocked scope, no health verdict yet
    NoCall,       \* a request nobody has sent
    Calls,        \* what clients send: verb, app, role and typed confirmation
    MaxJobsKept,  \* MAX_JOBS_KEPT of ops/service.py
    MaxEntries,   \* max_entries of ops/audit.py
    MaxRestarts   \* bound on console restarts

VARIABLES
    pc,        \* where each request's thread stands
    call,      \* what each request asked
    locks,     \* LockManager._locks: the job holding each scope, or Free
    jobState,  \* Job.state, "none" while there is no Job object in memory
    jobs,      \* OpsService._jobs, newest first
    order,     \* every job put on that list since the console started, newest
               \* first: history
    audit,     \* AuditLog._events, newest first
    health,    \* OpsService._health: the job whose verdict is shown, or Free
    restarts

vars == <<pc, call, locks, jobState, jobs, order, audit, health, restarts>>

-----------------------------------------------------------------------------
(* ops/model.py: the verb set, who may use each verb and what it locks.    *)

Verb == {"build", "deploy", "health", "status", "logs", "uninstall",
         "reinstall", "erase", "publish"}
Role == {"server-dev", "app-dev", "admin"}

RoleRank == [role \in Role |-> IF role = "server-dev" THEN 0
                               ELSE IF role = "app-dev" THEN 1 ELSE 2]

DestructiveVerbs == {"reinstall", "erase"}
ReadVerbs == {"health", "status", "logs"}

VerbRole == [verb \in Verb |->
    IF verb \in ReadVerbs THEN "server-dev"
    ELSE IF verb \in {"reinstall", "erase", "publish"} THEN "admin"
    ELSE "app-dev"]

\* An app:<name> scope is written as the application itself.
LockScope(c) ==
    IF c.verb \in DestructiveVerbs THEN Cluster
    ELSE IF c.verb \in ReadVerbs THEN NoScope
    ELSE c.app

Scope == Apps \cup {Cluster}

\* What a client may put into a call.  "unknown" is any text that names no verb
\* or no role: verb and role reach the service as plain strings.
Call == [verb : Verb \cup {"unknown"}, app : Apps,
         role : Role \cup {"unknown"}, confirmed : BOOLEAN]

ASSUME CallsAssumption == Calls \subseteq Call

\* The markers are none of the things they stand beside.
ASSUME MarkersAssumption ==
    /\ Cluster \notin Apps
    /\ NoScope \notin Scope
    /\ Free \notin Requests
    /\ NoCall \notin Calls

ASSUME BoundsAssumption ==
    /\ MaxJobsKept \in Nat \ {0}
    /\ MaxEntries \in Nat \ {0}
    /\ MaxRestarts \in Nat

-----------------------------------------------------------------------------
(* Where a request can be.                                                 *)

Stage == {"idle", "gates", "insert", "start", "queued", "working", "result",
          "succeed", "fail", "audit", "release",
          "done", "refused", "lost", "killed"}

\* The stages in which a job that locks anything has its lock.  "lost" is among
\* them: the job's thread never started, and only that thread would unlock.
Holding == {"insert", "start", "queued", "working", "result", "succeed",
            "fail", "audit", "release", "lost"}

JobState == {"none", "queued", "running", "succeeded", "failed"}

AuditEntry == [request : Requests,
               result : {"REFUSED (unknown role)", "REFUSED (role)",
                         "succeeded", "failed"}]

\* insert(0, x) followed by del s[max:].
Newest(x, s, max) ==
    [i \in 1..(IF Len(s) < max THEN Len(s) + 1 ELSE max) |->
        IF i = 1 THEN x ELSE s[i - 1]]

RecordAudit(r, result) ==
    audit' = Newest([request |-> r, result |-> result], audit, MaxEntries)

Goto(r, stage) == pc' = [pc EXCEPT ![r] = stage]

\* A mutant of Blocking: a job is kept out by the exclusive scope only.
BlockingByClusterOnly(s) ==
    {t \in Scope : locks[t] # Free /\ (t = Cluster \/ s = Cluster)}

\* _blocking_lock: what stands in the way of taking scope s.
Blocking(s) ==
    {t \in Scope : locks[t] # Free /\ (t = Cluster \/ s = Cluster \/ t = s)}

\* The first gate a call fails, in the order submit applies them.
Verdict(c) ==
    IF c.verb \notin Verb THEN "unknown verb"
    ELSE IF c.role \notin Role THEN "unknown role"
    ELSE IF RoleRank[c.role] < RoleRank[VerbRole[c.verb]] THEN "role"
    ELSE IF c.verb \in DestructiveVerbs /\ ~c.confirmed THEN "unconfirmed"
    ELSE "admit"

-----------------------------------------------------------------------------
Init ==
    /\ pc = [r \in Requests |-> "idle"]
    /\ call = [r \in Requests |-> NoCall]
    /\ locks = [s \in Scope |-> Free]
    /\ jobState = [r \in Requests |-> "none"]
    /\ jobs = <<>> /\ order = <<>>
    /\ audit = <<>>
    /\ health = Free
    /\ restarts = 0

\* A client posts a verb.
Receive(r, c) ==
    /\ pc[r] = "idle"
    /\ call' = [call EXCEPT ![r] = c]
    /\ Goto(r, "gates")
    /\ UNCHANGED <<locks, jobState, jobs, order, audit, health, restarts>>

\* _parse_role and _check_rbac record what they refuse.
RefuseAudited(r) ==
    /\ pc[r] = "gates"
    /\ \/ Verdict(call[r]) = "unknown role"
          /\ RecordAudit(r, "REFUSED (unknown role)")
       \/ Verdict(call[r]) = "role"
          /\ RecordAudit(r, "REFUSED (role)")
    /\ Goto(r, "refused")
    /\ UNCHANGED <<call, locks, jobState, jobs, order, health, restarts>>

\* _parse_verb, _check_confirmation and a held lock raise and record nothing.
RefuseSilently(r) ==
    /\ pc[r] = "gates"
    /\ \/ Verdict(call[r]) \in {"unknown verb", "unconfirmed"}
       \/ /\ Verdict(call[r]) = "admit"
          /\ LockScope(call[r]) # NoScope
          /\ Blocking(LockScope(call[r])) # {}
    /\ Goto(r, "refused")
    /\ UNCHANGED <<call, locks, jobState, jobs, order, audit, health, restarts>>

\* A mutant of Admit: the exclusive scope is granted beside a held app scope.
AdmitIgnoringHeldApps(r) ==
    LET s == LockScope(call[r]) IN
    /\ pc[r] = "gates"
    /\ Verdict(call[r]) = "admit"
    /\ \/ s = NoScope /\ UNCHANGED locks
       \/ /\ s # NoScope
          /\ Blocking(s) \cap {s, Cluster} = {}
          /\ locks' = [locks EXCEPT ![s] = r]
    /\ jobState' = [jobState EXCEPT ![r] = "queued"]
    /\ Goto(r, "insert")
    /\ UNCHANGED <<call, jobs, order, audit, health, restarts>>

\* The gates are passed: the Job is made and its scope taken, if it has one.
Admit(r) ==
    LET s == LockScope(call[r]) IN
    /\ pc[r] = "gates"
    /\ Verdict(call[r]) = "admit"
    /\ \/ s = NoScope /\ UNCHANGED locks
       \/ /\ s # NoScope
          /\ Blocking(s) = {}
          /\ locks' = [locks EXCEPT ![s] = r]
    /\ jobState' = [jobState EXCEPT ![r] = "queued"]
    /\ Goto(r, "insert")
    /\ UNCHANGED <<call, jobs, order, audit, health, restarts>>

\* A mutant of InsertJob: a job for which there is no room is not listed.
InsertJobIfRoom(r) ==
    /\ pc[r] = "insert"
    /\ jobs' = IF Len(jobs) < MaxJobsKept THEN <<r>> \o jobs ELSE jobs
    /\ order' = <<r>> \o order
    /\ Goto(r, "start")
    /\ UNCHANGED <<call, locks, jobState, audit, health, restarts>>

\* A mutant of InsertJob: the list is trimmed before the insertion, not after.
InsertJobTrimmingTooLittle(r) ==
    /\ pc[r] = "insert"
    /\ jobs' = Newest(r, jobs, MaxJobsKept + 1)
    /\ order' = <<r>> \o order
    /\ Goto(r, "start")
    /\ UNCHANGED <<call, locks, jobState, audit, health, restarts>>

InsertJob(r) ==
    /\ pc[r] = "insert"
    /\ jobs' = Newest(r, jobs, MaxJobsKept)
    /\ order' = <<r>> \o order
    /\ Goto(r, "start")
    /\ UNCHANGED <<call, locks, jobState, audit, health, restarts>>

StartThread(r) ==
    /\ pc[r] = "start"
    /\ Goto(r, "queued")
    /\ UNCHANGED <<call, locks, jobState, jobs, order, audit, health, restarts>>

\* Thread.start raises RuntimeError when the host grants no more threads: the
\* request ends in a 500, the job stays queued and nothing releases its lock.
StartThreadFails(r) ==
    /\ pc[r] = "start"
    /\ Goto(r, "lost")
    /\ UNCHANGED <<call, locks, jobState, jobs, order, audit, health, restarts>>

-----------------------------------------------------------------------------
(* JobRunner.run, on the job's own thread.                                 *)

Begin(r) ==
    /\ pc[r] = "queued"
    /\ jobState' = [jobState EXCEPT ![r] = "running"]
    /\ Goto(r, "working")
    /\ UNCHANGED <<call, locks, jobs, order, audit, health, restarts>>

\* The engine or the publish pipeline comes back: with a result, or raising a
\* typed failure or any other Exception, which the runner reports alike.  What no
\* handler of _execute takes (a BaseException, or dict(result) of what is no mapping)
\* still goes through the finally of run: the lock goes back, the job stays running
\* and nothing is put on record.
EngineEnds(r) ==
    /\ pc[r] = "working"
    /\ \E stage \in {"result", "fail", "release"} : Goto(r, stage)
    /\ UNCHANGED <<call, locks, jobState, jobs, order, audit, health, restarts>>

\* The verdict replaces the one on show when there is one: a gated verb's result
\* may also be None.
RecordResult(r) ==
    /\ pc[r] = "result"
    /\ \/ call[r].verb \in {"health", "reinstall"} /\ health' = r
       \/ UNCHANGED health
    /\ Goto(r, "succeed")
    /\ UNCHANGED <<call, locks, jobState, jobs, order, audit, restarts>>

\* _finish, its first half: the state a poll of the job shows.
Finish(r) ==
    /\ pc[r] \in {"succeed", "fail"}
    /\ jobState' = [jobState EXCEPT
                       ![r] = IF pc[r] = "succeed" THEN "succeeded" ELSE "failed"]
    /\ Goto(r, "audit")
    /\ UNCHANGED <<call, locks, jobs, order, audit, health, restarts>>

\* A mutant of RecordOutcome: the lock goes back before the outcome is on record.
RecordOutcomeAfterRelease(r) ==
    /\ pc[r] = "audit"
    /\ RecordAudit(r, jobState[r])
    /\ Goto(r, "release")
    /\ locks' = [s \in Scope |-> IF locks[s] = r THEN Free ELSE locks[s]]
    /\ UNCHANGED <<call, jobState, jobs, order, health, restarts>>

\* _finish, its second half.
RecordOutcome(r) ==
    /\ pc[r] = "audit"
    /\ RecordAudit(r, jobState[r])
    /\ Goto(r, "release")
    /\ UNCHANGED <<call, locks, jobState, jobs, order, health, restarts>>

\* A mutant of Release: a failed job forgets its lock.
ReleaseOnSuccessOnly(r) ==
    /\ pc[r] = "release"
    /\ locks' = [s \in Scope |->
                    IF s = LockScope(call[r]) /\ jobState[r] = "succeeded"
                    THEN Free ELSE locks[s]]
    /\ Goto(r, "done")
    /\ UNCHANGED <<call, jobState, jobs, order, audit, health, restarts>>

\* LockManager.release pops the scope, whoever holds it.
Release(r) ==
    /\ pc[r] = "release"
    /\ locks' = [s \in Scope |-> IF s = LockScope(call[r]) THEN Free ELSE locks[s]]
    /\ Goto(r, "done")
    /\ UNCHANGED <<call, jobState, jobs, order, audit, health, restarts>>

-----------------------------------------------------------------------------
(* The console process dies and is started again: all of the above was in  *)
(* its memory, and nothing of it is reconciled or restored.                *)

Restart ==
    /\ restarts < MaxRestarts
    /\ restarts' = restarts + 1
    /\ pc' = [r \in Requests |->
                 IF pc[r] \in {"idle", "done", "refused"} THEN pc[r] ELSE "killed"]
    /\ locks' = [s \in Scope |-> Free]
    /\ jobState' = [r \in Requests |-> "none"]
    /\ jobs' = <<>> /\ order' = <<>>
    /\ audit' = <<>>
    /\ health' = Free
    /\ UNCHANGED call

-----------------------------------------------------------------------------
Submitter(r) ==
    \/ RefuseAudited(r) \/ RefuseSilently(r) \/ Admit(r)
    \/ InsertJob(r) \/ StartThread(r) \/ StartThreadFails(r)

\* What the runner does without waiting for the engine.
RunnerStep(r) ==
    \/ Begin(r) \/ RecordResult(r) \/ Finish(r) \/ RecordOutcome(r) \/ Release(r)

Next ==
    \/ \E r \in Requests :
          \/ \E c \in Calls : Receive(r, c)
          \/ Submitter(r)
          \/ RunnerStep(r)
          \/ EngineEnds(r)
    \/ Restart

\* A thread that can run does, eventually.  Nothing is assumed of the engine
\* (LocalEngine waits for its child with no timeout), of clients, or of crashes.
Fairness ==
    \A r \in Requests : WF_vars(Submitter(r)) /\ WF_vars(RunnerStep(r))

Spec == Init /\ [][Next]_vars /\ Fairness
-----------------------------------------------------------------------------
(* What is checked.                                                        *)

TypeOK ==
    /\ pc \in [Requests -> Stage]
    /\ call \in [Requests -> Calls \cup {NoCall}]
    /\ locks \in [Scope -> Requests \cup {Free}]
    /\ jobState \in [Requests -> JobState]
    /\ jobs \in Seq(Requests) /\ Len(jobs) <= MaxJobsKept
    /\ order \in Seq(Requests)
    /\ audit \in Seq(AuditEntry) /\ Len(audit) <= MaxEntries
    /\ health \in Requests \cup {Free}
    /\ restarts \in 0..MaxRestarts

Occupies(r, s) == pc[r] \in Holding /\ LockScope(call[r]) = s /\ s # NoScope

\* A scope is locked by a job exactly while that job is between taking it and
\* giving it back, although release pops the scope without asking whose it is:
\* "locks exist only as job side effects" (docs/PLATFORM_FUNCTIONS.md).
LocksAreJobSideEffects ==
    \A s \in Scope, r \in Requests : locks[s] = r <=> Occupies(r, s)

\* Two jobs that lock conflicting scopes are never both under way: jobs of one
\* application are serial, and a reinstall or an erase is alone among the jobs
\* that lock anything.
MutualExclusion ==
    \A r, q \in Requests, s, t \in Scope :
        /\ Occupies(r, s) /\ Occupies(q, t)
        /\ s = t \/ s = Cluster \/ t = Cluster
        => r = q

\* The service implements the abstract exclusive scopes: a job occupies its
\* scope from the moment it is admitted until its lock is given back.
Exclusive == INSTANCE ExclusiveScopes WITH
    Jobs <- Requests,
    occupied <- {o \in Scope \X Requests : Occupies(o[2], o[1])}

ImplementsExclusiveScopes == Exclusive!Spec

Listed(r) == \E i \in DOMAIN jobs : jobs[i] = r

Newer(q, r) == \E i, k \in DOMAIN order : i < k /\ order[i] = q /\ order[k] = r

\* A job that is under way or over and is not listed has been pushed out by as many newer
\* ones as the list holds: none is dropped while there was room, or in place of an older
\* one, in whatever order the threads of the requests come to the list.
ListedUnlessDisplaced ==
    \A r \in Requests :
        jobState[r] # "none" /\ pc[r] # "insert" /\ ~Listed(r) =>
            Len(jobs) = MaxJobsKept /\ \A i \in DOMAIN jobs : Newer(jobs[i], r)

\* The outcome of a job goes on record while the job still has its scope, so the
\* outcomes of one application's jobs are on record in the order they ran.
OutcomeAuditedUnderLock ==
    [][audit' # audit /\ audit' # <<>> =>
         LET e == audit'[1] IN
         e.result \in {"succeeded", "failed"} =>
             \A s \in Scope : LockScope(call[e.request]) = s => locks'[s] = e.request
      ]_vars

\* If engines always come back in the end, every scope comes back too, unless
\* the thread of the job that holds it was never started.
ScopesComeBack ==
    (\A r \in Requests : []<>(pc[r] # "working")) =>
        \A s \in Scope, r \in Requests :
            (locks[s] = r) ~> (locks[s] # r \/ pc[r] = "lost")

-----------------------------------------------------------------------------
(* What the documents say and the code does not do.                        *)

\* docs/PLATFORM_FUNCTIONS.md, Locks: "locks exist only as job side effects, so
\* they cannot leak": no lock is left with a thread that will never release it.
LocksCannotLeak ==
    \A s \in Scope : locks[s] # Free => pc[locks[s]] # "lost"
=============================================================================
