----------------------------- MODULE CommandLine -----------------------------
(***************************************************************************)
(* The vpath command line (cli/main.py, cli/client.py) and the Ops API it  *)
(* talks to: one login or command after the other in one terminal, the job *)
(* a command makes or finds in its way, a console that restarts, answers   *)
(* that are lost.  The handler of a poll reads the job without the         *)
(* service's mutex, field after field, beside the job's own thread.        *)
(***************************************************************************)
EXTENDS DeviceLogin

CONSTANTS
    WaitTimeout,  \* timeout_seconds of wait
    MaxLog        \* bound on the lines a job emits

ASSUME WaitAssumption == WaitTimeout \in Nat /\ MaxLog \in Nat

VARIABLES
    cmd,   \* the command
    job,   \* the platform's last job of the application
    fate   \* what became of this command's job: history

vars == <<loginVars, cmd, job, fate>>

\* doctor asks and ends as status does.  Of the verbs that run, health takes no lock.
Kind == {"run", "status", "logs", "push"}
Active == {"queued", "running"}
Terminal == {"succeeded", "failed"}
JobState == Active \cup Terminal \cup {"none"}

NoJob == [of |-> "nobody", state |-> "none", log |-> 0, told |-> FALSE, lock |-> FALSE,
          listed |-> FALSE]
NewJob == [NoJob EXCEPT !.of = "this", !.state = "queued", !.lock = TRUE, !.listed = TRUE]

\* A job no command here waits for is only a lock.
OtherJob == [NoJob EXCEPT !.of = "other", !.lock = TRUE]

NoAnswer == [state |-> "none", log |-> 0]
NoFate == [state |-> "none", log |-> 0]

Init ==
    /\ LoginInit
    /\ cmd = [at |-> "idle", kind |-> "status", bearer |-> 0, left |-> 0, seen |-> 0,
              answer |-> NoAnswer, exit |-> None, crashed |-> FALSE]
    /\ job = NoJob /\ fate = NoFate

Exit(code) == cmd' = [cmd EXCEPT !.at = "idle", !.bearer = 0, !.left = 0, !.exit = code,
                                 !.answer = NoAnswer]

\* An exception nobody catches: a traceback, exit code 1.
Crash == cmd' = [cmd EXCEPT !.at = "idle", !.bearer = 0, !.left = 0, !.exit = 1,
                            !.answer = NoAnswer, !.crashed = TRUE]

CommandStarts(kind) ==
    /\ cmd.at = "idle" /\ login.at = "idle"
    /\ cmd' = [at |-> IF kind = "run" THEN "submit" ELSE "ask", kind |-> kind,
               bearer |-> AccessToken, left |-> 0, seen |-> 0, answer |-> NoAnswer,
               exit |-> None, crashed |-> FALSE]
    /\ job' = IF job.lock THEN OtherJob ELSE NoJob
    /\ fate' = NoFate
    /\ UNCHANGED loginVars

\* bundle and provenance_of, before anything is sent.
BundleFails ==
    /\ cmd.at = "ask" /\ cmd.kind = "push"
    /\ Exit(2)
    /\ UNCHANGED <<loginVars, job, fate>>

-----------------------------------------------------------------------------
(* What a request comes to.                                                *)

\* No token, a token too old, or no keys to check it with: 401.
Unauthenticated ==
    /\ cmd.at \in {"submit", "ask"}
    /\ Exit(5)
    /\ UNCHANGED <<loginVars, job, fate>>

\* httpx.HTTPError, which logs does not catch.
Unreachable ==
    /\ cmd.at \in {"submit", "ask"}
    /\ IF cmd.kind = "logs" THEN Crash ELSE Exit(2)
    /\ UNCHANGED <<loginVars, job, fate>>

\* An answer that is no JSON.
Garbled ==
    /\ cmd.at \in {"submit", "ask"}
    /\ Crash
    /\ UNCHANGED <<loginVars, job, fate>>

Valid == cmd.bearer > 0

\* submit's gates: 403, 409, and 400 for the rest.
Refused ==
    /\ cmd.at = "submit" /\ Valid
    /\ Exit(3) \/ (job.lock /\ Exit(4)) \/ Exit(2)
    /\ UNCHANGED <<loginVars, job, fate>>

Accepted ==
    /\ cmd.at = "submit" /\ Valid /\ ~job.lock
    /\ job' = NewJob /\ fate' = [NoFate EXCEPT !.state = "queued"]
    /\ cmd' = [cmd EXCEPT !.at = "ask", !.left = WaitTimeout]
    /\ UNCHANGED loginVars

\* Mutant: what is not answered is sent again.
AcceptedUnheardRetried ==
    /\ cmd.at = "submit" /\ Valid /\ ~job.lock
    /\ job' = NewJob /\ fate' = [NoFate EXCEPT !.state = "queued"]
    /\ UNCHANGED <<loginVars, cmd>>

\* The job is made and the answer lost.
AcceptedUnheard ==
    /\ cmd.at = "submit" /\ Valid /\ ~job.lock
    /\ job' = NewJob /\ fate' = [NoFate EXCEPT !.state = "queued"]
    /\ Exit(2)
    /\ UNCHANGED loginVars

\* Mutant: a status without an exit code of its own passes through.
OneShotByStatus ==
    /\ cmd.at = "ask" /\ cmd.kind # "run" /\ Valid
    /\ \/ Exit(0)
       \/ cmd.kind = "logs" /\ Exit(404)
       \/ cmd.kind = "push" /\ \E code \in {400, 3, 4} : Exit(code)
    /\ UNCHANGED <<loginVars, job, fate>>

\* The requests of status, doctor, logs and push-source, each of them one.
OneShot ==
    /\ cmd.at = "ask" /\ cmd.kind # "run" /\ Valid
    /\ \/ Exit(0)
       \/ cmd.kind = "logs" /\ Exit(2)
       \/ cmd.kind = "push" /\ \E code \in 2 .. 4 : Exit(code)
    /\ UNCHANGED <<loginVars, job, fate>>

Known == job.of = "this" /\ job.listed

\* A job displaced from the list, or forgotten by a restart: 404.
UnknownJob ==
    /\ cmd.at = "ask" /\ cmd.kind = "run" /\ Valid /\ ~Known
    /\ Exit(2)
    /\ UNCHANGED <<loginVars, job, fate>>

Found ==
    /\ cmd.at = "ask" /\ cmd.kind = "run" /\ Valid /\ Known
    /\ cmd' = [cmd EXCEPT !.at = "read1"]
    /\ UNCHANGED <<loginVars, job, fate>>

\* Mutant: the log is read before the state.
LogBeforeState == <<"log", "state">>

\* The order of Job.to_dict.
Fields == <<"state", "log">>

Read(n, here, next) ==
    /\ cmd.at = here
    /\ cmd' = [cmd EXCEPT !.at = next, !.answer = [@ EXCEPT ![Fields[n]] = job[Fields[n]]]]
    /\ UNCHANGED <<loginVars, job, fate>>

ReadOne == Read(1, "read1", "read2")
ReadTwo == Read(2, "read2", "look")

\* The new lines are printed with every answer.
Prints(code) == cmd' = [cmd EXCEPT !.at = "idle", !.bearer = 0, !.left = 0, !.exit = code,
                                   !.seen = cmd.answer.log, !.answer = NoAnswer]

Outcome == \/ cmd.answer.state = "succeeded" /\ Prints(0)
           \/ cmd.answer.state = "failed" /\ Prints(1)

\* Mutant: a job is waited for however long it takes.
LookPatiently ==
    /\ cmd.at = "look"
    /\ \/ Outcome
       \/ cmd.answer.state \in Active
          /\ cmd' = [cmd EXCEPT !.at = "ask", !.seen = cmd.answer.log]
    /\ UNCHANGED <<loginVars, job, fate>>

\* wait: after the deadline it is 408, which is no code of its own.
Look ==
    /\ cmd.at = "look"
    /\ \/ Outcome
       \/ cmd.answer.state \in Active /\ cmd.left = 0 /\ Prints(2)
       \/ cmd.answer.state \in Active /\ cmd.left > 0
          /\ cmd' = [cmd EXCEPT !.at = "ask", !.seen = cmd.answer.log]
    /\ UNCHANGED <<loginVars, job, fate>>

-----------------------------------------------------------------------------
(* The platform.                                                           *)

JobGoes(next) ==
    /\ job' = next
    /\ fate' = IF job.of = "this"
               THEN [state |-> next.state, log |-> next.log - (IF next.told THEN 1 ELSE 0)]
               ELSE fate
    /\ UNCHANGED <<loginVars, cmd>>

JobBegins == job.state = "queued" /\ JobGoes([job EXCEPT !.state = "running"])
JobEmits == job.state = "running" /\ job.log < MaxLog /\ JobGoes([job EXCEPT !.log = @ + 1])

\* _finish: the state, then the message, then the lock.
JobFinishes ==
    /\ job.state = "running"
    /\ \E outcome \in Terminal : JobGoes([job EXCEPT !.state = outcome])
JobTells ==
    /\ job.state \in Terminal /\ ~job.told
    /\ JobGoes([job EXCEPT !.log = @ + 1, !.told = TRUE])
JobReleases == job.told /\ job.lock /\ JobGoes([job EXCEPT !.lock = FALSE])
OtherReleases == job.of = "other" /\ JobGoes(NoJob)

\* A hundred later jobs.
Displaced == job.listed /\ JobGoes([job EXCEPT !.listed = FALSE])

\* What is being read is the job's own object, so another job changes nothing of it.
OthersJob ==
    /\ ~job.lock /\ cmd.at \notin {"read1", "read2"}
    /\ job' = OtherJob
    /\ UNCHANGED <<loginVars, cmd, fate>>

\* Jobs and locks are gone, and with them the answer under way.
Restart ==
    /\ job' = NoJob
    /\ IF cmd.at \in {"read1", "read2"} THEN Exit(2) ELSE UNCHANGED cmd
    /\ UNCHANGED <<loginVars, fate>>

Tick ==
    /\ LoginTick
    /\ cmd' = [cmd EXCEPT !.left = Older(@)]
    /\ UNCHANGED <<job, fate>>

\* A token may live much longer than any command, or not.
TokenAges ==
    /\ stored' = Older(stored) /\ cmd' = [cmd EXCEPT !.bearer = Older(@)]
    /\ UNCHANGED <<grant, login, job, fate>>

-----------------------------------------------------------------------------
CommandStep ==
    \/ BundleFails \/ Unauthenticated \/ Unreachable \/ Garbled
    \/ Refused \/ Accepted \/ AcceptedUnheard \/ OneShot
    \/ UnknownJob \/ Found \/ ReadOne \/ ReadTwo \/ Look

Platform == JobBegins \/ JobEmits \/ JobFinishes \/ JobTells \/ JobReleases \/ OtherReleases
            \/ Displaced \/ OthersJob \/ Restart

Beside == UNCHANGED <<cmd, job, fate>>

Next ==
    \/ CommandStep \/ Platform \/ Tick \/ TokenAges
    \/ \E kind \in Kind : CommandStarts(kind)
    \/ cmd.at = "idle" /\ LoginStarts /\ Beside
    \/ (LoginStep \/ SlowDown \/ LoginKilled \/ UserDecides) /\ Beside

\* Every request ends, by the client's timeout if by nothing else, and time goes on.
Fairness == WF_vars(CommandStep) /\ WF_vars(LoginStep /\ Beside) /\ WF_vars(Tick)

Spec == Init /\ [][Next]_vars /\ Fairness

-----------------------------------------------------------------------------
Answer == [state : JobState, log : 0 .. MaxLog + 1]

Command ==
    [at : {"idle", "submit", "ask", "read1", "read2", "look"}, kind : Kind,
     bearer : 0 .. Life, left : 0 .. WaitTimeout, seen : 0 .. MaxLog + 1,
     answer : Answer,
     exit : {None} \cup 0 .. 5, crashed : BOOLEAN]

Job == [of : {"nobody", "this", "other"}, state : JobState, log : 0 .. MaxLog + 1,
        told : BOOLEAN, lock : BOOLEAN, listed : BOOLEAN]

CommandTypeOK ==
    /\ LoginTypeOK
    /\ cmd \in Command
    /\ job \in Job
    /\ fate \in [state : JobState, log : 0 .. MaxLog]

Over == cmd.at = "idle" /\ cmd.kind = "run" /\ ~cmd.crashed

\* An exit code is true of the command's own job: 0 when it succeeded, 1 when it failed,
\* 3 and 4 only when the platform made none, whatever answer was lost, whatever restarted
\* and whoever else holds the application.
ExitCodeIsTrue ==
    Over => /\ cmd.exit = 0 => fate.state = "succeeded"
            /\ cmd.exit = 1 => fate.state = "failed"
            /\ cmd.exit \in {3, 4} => fate.state = "none"

\* With the outcome the command has printed every line the job emitted: a state that is
\* terminal when it is read is followed by a log that has them, which holds by the order
\* of the fields of to_dict alone.
OutcomeHasItsLog == Over /\ cmd.exit \in {0, 1} => cmd.seen >= fate.log

\* A login comes to an end, however often Keycloak slows it down and if the user never
\* answers; so does a command, if the job never ends.
LoginReturns == login.at # "idle" ~> login.at = "idle"
CommandComesBack == cmd.at # "idle" ~> cmd.at = "idle"
=============================================================================
