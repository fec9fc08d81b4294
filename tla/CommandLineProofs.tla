-------------------------- MODULE CommandLineProofs --------------------------
(***************************************************************************)
(* The exit code of a command and the log it printed, for every deadline,  *)
(* token life and length of a log.                                         *)
(*                                                                         *)
(* The argument is about what a command knows while its job goes on beside *)
(* it: a state that was terminal when it was read stays what it was, and by*)
(* then the log had every line the job emitted, so a log read after such a *)
(* state has them too.                                                     *)
(***************************************************************************)
EXTENDS CommandLine, TLAPS

\* The job on the platform and what became of the command's job are one, while it is there.
JobIsFate ==
    /\ job.of = "this" => /\ job.state # "none" /\ fate.state = job.state
                          /\ job.log = fate.log + (IF job.told THEN 1 ELSE 0)
    /\ job.told => job.state \in Terminal
    /\ ~job.told => job.log <= MaxLog

\* What a command has read holds of its job.
AnswerHolds ==
    /\ cmd.at \in {"read1", "read2"} => job.of = "this"
    /\ cmd.at \in {"read2", "look"} /\ cmd.answer.state \in Terminal =>
          fate.state = cmd.answer.state
    /\ cmd.at = "look" /\ cmd.answer.state \in Terminal => cmd.answer.log >= fate.log
    /\ cmd.at = "submit" => fate.state = "none" /\ job.of # "this"
    /\ cmd.at \in {"submit", "read1", "read2", "look"} => cmd.kind = "run"

CommandInv ==
    CommandTypeOK /\ JobIsFate /\ AnswerHolds /\ ExitCodeIsTrue /\ OutcomeHasItsLog

-----------------------------------------------------------------------------
LEMMA EndedTypes ==
    ASSUME NEW code \in {None, 0, 1, 2, 5}
    PROVE  Ended(code) \in Login
BY TimesAssumption DEF Ended, Login

\* The login changes only what is its own.
LEMMA LoginTypes ==
    ASSUME LoginTypeOK, LoginStarts \/ LoginStep \/ SlowDown \/ LoginKilled \/ UserDecides
                        \/ LoginTick
    PROVE  LoginTypeOK'
<1>1. login' \in Login
    <2> USE DEF LoginTypeOK
    <2>1. ASSUME NEW code \in {None, 0, 1, 2, 5}, LoginEnds(code)
          PROVE  login' \in Login
        BY <2>1, EndedTypes DEF LoginEnds
    <2>2. ASSUME NEW where \in {"authorize", "poll", "save"}, LoginGoes(where)
          PROVE  login' \in Login
        BY <2>2 DEF LoginGoes, Login
    <2>3. CASE LoginStarts
        <3>1. [Ended(None) EXCEPT !.at = "discovery"] \in Login
            BY EndedTypes DEF Login
        <3> QED BY <2>1, <2>3, <3>1 DEF LoginStarts
    <2>4. CASE Authorize
        <3>1. [login EXCEPT !.at = "poll", !.interval = Interval, !.left = Timeout] \in Login
            <4>1. Interval \in 0 .. MaxInterval /\ Timeout \in 0 .. Timeout
                BY TimesAssumption
            <4> QED BY <4>1 DEF Login
        <3> QED BY <2>1, <2>4, <3>1 DEF Authorize, NoUsableAnswer
    <2>5. CASE Poll
        <3>1. [login EXCEPT !.at = "sleep", !.asleep = login.interval] \in Login
            BY DEF Login
        <3> QED BY <2>1, <2>2, <2>5, <3>1 DEF Poll, NoUsableAnswer
    <2>6. CASE SlowDown
        <3>1. login.interval + Increment \in 0 .. MaxInterval
            BY <2>6, TimesAssumption DEF SlowDown, Login
        <3> QED BY <2>6, <3>1 DEF SlowDown, Login
    <2>7. CASE LoginTick
        <3>1. /\ Older(login.left) \in 0 .. Timeout
              /\ Older(login.asleep) \in 0 .. MaxInterval
            BY TimesAssumption DEF Older, Login
        <3> QED BY <2>7, <3>1 DEF LoginTick, Login
    <2>8. CASE Discovery \/ Wakes \/ TimesOut \/ Save \/ LoginKilled \/ UserDecides
        BY <2>1, <2>2, <2>8
        DEF Discovery, Wakes, TimesOut, Save, LoginKilled, UserDecides, NoUsableAnswer
    <2> QED BY <2>3, <2>4, <2>5, <2>6, <2>7, <2>8 DEF LoginStep
<1>2. grant' \in {"none", "pending", "approved", "denied", "expired", "used"}
    BY DEF LoginTypeOK, LoginStarts, LoginStep, SlowDown, LoginKilled, UserDecides, LoginTick,
           Discovery, Authorize, Poll, Wakes, TimesOut, Save
<1>3. stored' \in {None, Broken} \cup 0 .. Life
    <2>1. Life \in 0 .. Life
        BY TimesAssumption
    <2> QED
        BY <2>1
        DEF LoginTypeOK, LoginStarts, LoginStep, SlowDown, LoginKilled, UserDecides, LoginTick,
            Discovery, Authorize, Poll, Wakes, TimesOut, Save
<1> QED BY <1>1, <1>2, <1>3 DEF LoginTypeOK

LEMMA AnswerTypes == NoAnswer \in Answer /\ NoFate \in [state : JobState, log : 0 .. MaxLog]
BY WaitAssumption DEF NoAnswer, NoFate, Answer, JobState

LEMMA JobTypes == NoJob \in Job /\ NewJob \in Job /\ OtherJob \in Job
<1>1. 0 \in 0 .. MaxLog + 1 /\ {"none", "queued"} \subseteq JobState
    BY WaitAssumption DEF JobState, Active
<1>2. NoJob \in Job
    BY <1>1 DEF NoJob, Job
<1> QED BY <1>1, <1>2 DEF NewJob, OtherJob, Job

LEMMA ZeroTypes == 0 \in 0 .. Life /\ 0 \in 0 .. WaitTimeout /\ 0 \in 0 .. MaxLog + 1
BY TimesAssumption, WaitAssumption

\* A command that ends.
LEMMA ExitTypes ==
    ASSUME cmd \in Command, NEW code \in 0 .. 5, Exit(code)
    PROVE  cmd' \in Command
BY AnswerTypes, ZeroTypes DEF Exit, Command

LEMMA CrashTypes ==
    ASSUME cmd \in Command, Crash
    PROVE  cmd' \in Command
<1>1. 1 \in {None} \cup 0 .. 5
    OBVIOUS
<1> QED BY <1>1, AnswerTypes, ZeroTypes DEF Crash, Command

LEMMA PrintsTypes ==
    ASSUME cmd \in Command, NEW code \in 0 .. 5, Prints(code)
    PROVE  cmd' \in Command
BY AnswerTypes, ZeroTypes DEF Prints, Command, Answer

LEMMA LoginSame ==
    ASSUME LoginTypeOK, UNCHANGED <<grant, login, stored>>
    PROVE  LoginTypeOK'
BY DEF LoginTypeOK

LEMMA TheInit == Init => CommandInv
<1> SUFFICES ASSUME Init PROVE CommandInv
    OBVIOUS
<1>1. CommandTypeOK
    <2>1. login \in Login /\ grant = "none" /\ stored \in {None, Broken} \cup 0 .. Life
        BY EndedTypes, TimesAssumption DEF Init, LoginInit
    <2>2. cmd \in Command
        BY AnswerTypes, ZeroTypes DEF Init, Command, Kind
    <2> QED BY <2>1, <2>2, AnswerTypes, JobTypes DEF Init, CommandTypeOK, LoginTypeOK
<1> QED
    BY <1>1, WaitAssumption
    DEF Init, CommandInv, JobIsFate, AnswerHolds, ExitCodeIsTrue, OutcomeHasItsLog, Over,
        NoJob, NoFate, Terminal

\* A request that ends the command leaves job and history as they are.
LEMMA EndingStep ==
    ASSUME CommandInv, cmd.at \in {"submit", "ask"}, UNCHANGED <<loginVars, job, fate>>,
           NEW code \in {0, 2, 3, 4, 5},
           code = 0 => cmd.kind # "run",
           code \in {3, 4} => cmd.at = "submit" \/ cmd.kind # "run",
           Exit(code)
    PROVE  CommandInv'
<1> USE DEF CommandInv
<1>1. /\ cmd'.at = "idle" /\ cmd'.kind = cmd.kind /\ cmd'.exit = code
      /\ cmd'.crashed = cmd.crashed /\ cmd'.seen = cmd.seen
    BY DEF CommandTypeOK, Command, Exit
<1>2. CommandTypeOK'
    <2>1. cmd' \in Command
        <3>1. code \in 0 .. 5 /\ cmd \in Command
            BY DEF CommandTypeOK
        <3> QED BY <3>1, ExitTypes
    <2> QED BY <2>1, LoginSame DEF CommandTypeOK, loginVars
<1>3. JobIsFate' /\ AnswerHolds'
    BY <1>1 DEF JobIsFate, AnswerHolds
<1>4. ExitCodeIsTrue' /\ OutcomeHasItsLog'
    BY <1>1 DEF ExitCodeIsTrue, OutcomeHasItsLog, Over, AnswerHolds
<1> QED BY <1>2, <1>3, <1>4

LEMMA CrashStep ==
    ASSUME CommandInv, UNCHANGED <<loginVars, job, fate>>, Crash
    PROVE  CommandInv'
<1> USE DEF CommandInv, Crash
<1>1. cmd'.at = "idle" /\ cmd'.crashed = TRUE
    BY DEF CommandTypeOK, Command, Job
<1>2. CommandTypeOK'
    <2>1. cmd' \in Command
        BY CrashTypes DEF CommandTypeOK
    <2> QED BY <2>1, LoginSame DEF CommandTypeOK, loginVars
<1> QED
    BY <1>1, <1>2 DEF JobIsFate, AnswerHolds, ExitCodeIsTrue, OutcomeHasItsLog, Over

-----------------------------------------------------------------------------
(* The platform: a step of the job on its way to what it becomes. *)
LEMMA JobStep ==
    ASSUME CommandInv,
           JobBegins \/ JobEmits \/ JobFinishes \/ JobTells \/ JobReleases \/ OtherReleases
           \/ Displaced
    PROVE  CommandInv'
<1> USE WaitAssumption DEF CommandInv
<1>1. PICK next : /\ JobGoes(next)
                  /\ next \in Job
                  /\ next.told => next.state \in Terminal
                  /\ ~next.told => next.log <= MaxLog
                  /\ job.of # "this" => next.of # "this"
                  /\ job.of = "this" =>
                        /\ next.of = "this" /\ next.state # "none"
                        /\ job.state \in Terminal => next.state = job.state
                                                     /\ next.log - (IF next.told THEN 1 ELSE 0) = fate.log
                        /\ next.log - (IF next.told THEN 1 ELSE 0) \in 0 .. MaxLog
    <2> DEFINE Good(next) ==
                  /\ JobGoes(next)
                  /\ next \in Job
                  /\ next.told => next.state \in Terminal
                  /\ ~next.told => next.log <= MaxLog
                  /\ job.of # "this" => next.of # "this"
                  /\ job.of = "this" =>
                        /\ next.of = "this" /\ next.state # "none"
                        /\ job.state \in Terminal => next.state = job.state
                                                     /\ next.log - (IF next.told THEN 1 ELSE 0) = fate.log
                        /\ next.log - (IF next.told THEN 1 ELSE 0) \in 0 .. MaxLog
    <2> SUFFICES \E next : Good(next)
        OBVIOUS
    <2> USE DEF CommandTypeOK, Command, Job, JobIsFate, JobState, Active, Terminal
    <2>1. CASE JobBegins
        <3>1. Good([job EXCEPT !.state = "running"])
            BY <2>1 DEF JobBegins
        <3> QED BY <3>1
    <2>2. CASE JobEmits
        <3>1. Good([job EXCEPT !.log = @ + 1])
            BY <2>2 DEF JobEmits
        <3> QED BY <3>1
    <2>3. CASE JobFinishes
        <3>1. PICK outcome \in Terminal : JobGoes([job EXCEPT !.state = outcome])
            BY <2>3 DEF JobFinishes
        <3>2. Good([job EXCEPT !.state = outcome])
            BY <2>3, <3>1 DEF JobFinishes
        <3> QED BY <3>2
    <2>4. CASE JobTells
        <3>1. Good([job EXCEPT !.log = @ + 1, !.told = TRUE])
            <4> DEFINE next == [job EXCEPT !.log = @ + 1, !.told = TRUE]
            <4>0. job.log + 1 \in 0 .. MaxLog + 1
                BY <2>4 DEF JobTells
            <4>1. /\ next.of = job.of /\ next.state = job.state /\ next.log = job.log + 1
                  /\ next.told = TRUE /\ next \in Job
                BY <4>0
            <4>2. job.state \in Terminal /\ ~job.told /\ JobGoes(next)
                BY <2>4 DEF JobTells
            <4> HIDE DEF next
            <4>3. Good(next)
                BY <4>1, <4>2
            <4> QED BY <4>3 DEF next
        <3> QED BY <3>1
    <2>5. CASE JobReleases
        <3>1. Good([job EXCEPT !.lock = FALSE])
            <4> DEFINE next == [job EXCEPT !.lock = FALSE]
            <4>1. /\ next.of = job.of /\ next.state = job.state /\ next.log = job.log
                  /\ next.told = job.told /\ next \in Job
                OBVIOUS
            <4>2. JobGoes(next)
                BY <2>5 DEF JobReleases
            <4> HIDE DEF next
            <4>3. Good(next)
                BY <4>1, <4>2
            <4> QED BY <4>3 DEF next
        <3> QED BY <3>1
    <2>6. CASE OtherReleases
        <3>1. Good(NoJob)
            BY <2>6 DEF OtherReleases, NoJob
        <3> QED BY <3>1
    <2>7. CASE Displaced
        <3>1. Good([job EXCEPT !.listed = FALSE])
            <4> DEFINE next == [job EXCEPT !.listed = FALSE]
            <4>1. /\ next.of = job.of /\ next.state = job.state /\ next.log = job.log
                  /\ next.told = job.told /\ next \in Job
                OBVIOUS
            <4>2. JobGoes(next)
                BY <2>7 DEF Displaced
            <4> HIDE DEF next
            <4>3. Good(next)
                BY <4>1, <4>2
            <4> QED BY <4>3 DEF next
        <3> QED BY <3>1
    <2> QED BY <2>1, <2>2, <2>3, <2>4, <2>5, <2>6, <2>7
<1>2. job' = next /\ UNCHANGED <<grant, login, stored, cmd>>
    BY <1>1 DEF JobGoes, loginVars
<1>3. fate' = IF job.of = "this"
              THEN [state |-> next.state, log |-> next.log - (IF next.told THEN 1 ELSE 0)]
              ELSE fate
    BY <1>1 DEF JobGoes
<1>4. CommandTypeOK'
    BY <1>1, <1>2, <1>3, LoginSame DEF CommandTypeOK, Command, Job
<1>5. JobIsFate'
    BY <1>1, <1>2, <1>3 DEF JobIsFate, CommandTypeOK, Command, Job
<1>6. fate.state \in Terminal \/ fate.state = "none" => fate'.state = fate.state /\ fate'.log = fate.log
    BY <1>1, <1>3 DEF JobIsFate, CommandTypeOK, Command, Job, Terminal
<1>7. AnswerHolds'
    BY <1>1, <1>2, <1>6 DEF AnswerHolds
<1>8. ExitCodeIsTrue' /\ OutcomeHasItsLog'
    BY <1>2, <1>6 DEF ExitCodeIsTrue, OutcomeHasItsLog, Over, Terminal
<1> QED BY <1>4, <1>5, <1>7, <1>8

LEMMA OtherStep ==
    ASSUME CommandInv, OthersJob
    PROVE  CommandInv'
<1> USE WaitAssumption DEF CommandInv
<1>1. job' = OtherJob /\ UNCHANGED <<grant, login, stored, cmd, fate>>
      /\ cmd.at \notin {"read1", "read2"}
    BY DEF OthersJob, loginVars
<1>2. CommandTypeOK' /\ JobIsFate'
    BY <1>1, LoginSame, JobTypes DEF CommandTypeOK, JobIsFate, OtherJob, NoJob
<1> QED
    BY <1>1, <1>2 DEF AnswerHolds, ExitCodeIsTrue, OutcomeHasItsLog, Over, OtherJob, NoJob

LEMMA RestartStep ==
    ASSUME CommandInv, Restart
    PROVE  CommandInv'
<1> USE WaitAssumption DEF CommandInv
<1>1. job' = NoJob /\ UNCHANGED <<grant, login, stored, fate>>
    BY DEF Restart, loginVars
<1>2. JobIsFate'
    BY <1>1 DEF JobIsFate, NoJob
<1>3. CASE cmd.at \in {"read1", "read2"}
    <2>1. cmd'.at = "idle" /\ cmd'.exit = 2
        BY <1>3 DEF Restart, Exit, CommandTypeOK, Command, Job
    <2>2. CommandTypeOK'
        BY <1>1, <1>3, LoginSame, JobTypes, ExitTypes DEF Restart, CommandTypeOK
    <2> QED
        BY <1>2, <2>1, <2>2 DEF AnswerHolds, ExitCodeIsTrue, OutcomeHasItsLog, Over
<1>4. CASE cmd.at \notin {"read1", "read2"}
    <2>1. cmd' = cmd
        BY <1>4 DEF Restart
    <2>2. CommandTypeOK'
        BY <1>1, <2>1, LoginSame, JobTypes DEF CommandTypeOK
    <2> QED
        BY <1>1, <1>2, <1>4, <2>1, <2>2
        DEF AnswerHolds, ExitCodeIsTrue, OutcomeHasItsLog, Over, NoJob
<1> QED BY <1>3, <1>4

-----------------------------------------------------------------------------
(* The command. *)
LEMMA StartStep ==
    ASSUME CommandInv, NEW kind \in Kind, CommandStarts(kind)
    PROVE  CommandInv'
<1> USE WaitAssumption, TimesAssumption DEF CommandInv
<1>1. /\ cmd' = [at |-> IF kind = "run" THEN "submit" ELSE "ask", kind |-> kind,
                 bearer |-> AccessToken, left |-> 0, seen |-> 0, answer |-> NoAnswer,
                 exit |-> None, crashed |-> FALSE]
      /\ job' = IF job.lock THEN OtherJob ELSE NoJob
      /\ fate' = NoFate /\ UNCHANGED <<grant, login, stored>>
    BY DEF CommandStarts, loginVars
<1>2. AccessToken \in 0 .. Life
    <2>1. stored \in {None, Broken} \cup 0 .. Life
        BY DEF CommandTypeOK, LoginTypeOK
    <2> QED BY <2>1, ZeroTypes DEF AccessToken
<1>3. CommandTypeOK'
    <2>1. cmd' \in Command
        BY <1>1, <1>2, AnswerTypes, ZeroTypes DEF Command
    <2> QED BY <1>1, <2>1, LoginSame, JobTypes, AnswerTypes DEF CommandTypeOK
<1> QED
    BY <1>1, <1>3
    DEF JobIsFate, AnswerHolds, ExitCodeIsTrue, OutcomeHasItsLog, Over, OtherJob, NoJob, NoFate,
        Terminal

LEMMA AcceptStep ==
    ASSUME CommandInv, Accepted \/ AcceptedUnheard
    PROVE  CommandInv'
<1> USE WaitAssumption, TimesAssumption DEF CommandInv
<1>1. /\ job' = NewJob /\ fate' = [NoFate EXCEPT !.state = "queued"]
      /\ UNCHANGED <<grant, login, stored>> /\ cmd.at = "submit" /\ cmd.kind = "run"
    BY DEF Accepted, AcceptedUnheard, AnswerHolds, loginVars
<1>2. /\ cmd'.at \in {"ask", "idle"} /\ (cmd'.at = "idle" => cmd'.exit = 2)
    BY DEF Accepted, AcceptedUnheard, Exit, CommandTypeOK, Command, Job
<1>3. CommandTypeOK'
    <2>1. cmd' \in Command
        <3>1. WaitTimeout \in 0 .. WaitTimeout
            BY WaitAssumption
        <3>2. CASE Accepted
            BY <3>1, <3>2 DEF Accepted, CommandTypeOK, Command
        <3>3. CASE AcceptedUnheard
            BY <3>3, ExitTypes DEF AcceptedUnheard, CommandTypeOK
        <3> QED BY <3>2, <3>3
    <2>2. fate' \in [state : JobState, log : 0 .. MaxLog]
        BY <1>1, WaitAssumption DEF NoFate, JobState, Active
    <2> QED BY <1>1, <2>1, <2>2, LoginSame, JobTypes DEF CommandTypeOK
<1>4. JobIsFate'
    BY <1>1 DEF JobIsFate, NewJob, NoJob, NoFate
<1> QED
    BY <1>2, <1>3, <1>4 DEF AnswerHolds, ExitCodeIsTrue, OutcomeHasItsLog, Over

LEMMA ReadStep ==
    ASSUME CommandInv, Found \/ ReadOne \/ ReadTwo
    PROVE  CommandInv'
<1> USE WaitAssumption, TimesAssumption DEF CommandInv
<1>1. UNCHANGED <<grant, login, stored, job, fate>>
    BY DEF Found, ReadOne, ReadTwo, Read, loginVars
<1>2. CASE Found
    <2>1. cmd' = [cmd EXCEPT !.at = "read1"] /\ job.of = "this" /\ cmd.kind = "run"
        BY <1>2 DEF Found, Known
    <2>2. CommandTypeOK'
        BY <1>1, <2>1, LoginSame DEF CommandTypeOK, Command, Job
    <2>3. cmd'.at = "read1" /\ cmd'.kind = "run"
        BY <2>1 DEF CommandTypeOK, Command, Job
    <2> QED
        BY <1>1, <2>1, <2>2, <2>3
        DEF JobIsFate, AnswerHolds, ExitCodeIsTrue, OutcomeHasItsLog, Over
<1>3. CASE ReadOne
    <2>1. /\ cmd.at = "read1" /\ job.of = "this" /\ cmd.kind = "run"
          /\ cmd' = [cmd EXCEPT !.at = "read2",
                                !.answer = [cmd.answer EXCEPT !["state"] = job["state"]]]
        BY <1>3 DEF ReadOne, Read, Fields, AnswerHolds
    <2>2. CommandTypeOK'
        <3>1. [cmd.answer EXCEPT !["state"] = job["state"]] \in Answer
            BY DEF CommandTypeOK, Command, Job, Answer
        <3> QED BY <1>1, <2>1, <3>1, LoginSame DEF CommandTypeOK, Command
    <2>3. cmd'.at = "read2" /\ cmd'.kind = "run" /\ cmd'.answer.state = job.state
        BY <2>1 DEF CommandTypeOK, Command, Job, Answer
    <2> QED
        BY <1>1, <2>1, <2>2, <2>3
        DEF JobIsFate, AnswerHolds, ExitCodeIsTrue, OutcomeHasItsLog, Over
<1>4. CASE ReadTwo
    <2>1. /\ cmd.at = "read2" /\ job.of = "this" /\ cmd.kind = "run"
          /\ cmd' = [cmd EXCEPT !.at = "look",
                                !.answer = [cmd.answer EXCEPT !["log"] = job["log"]]]
        BY <1>4 DEF ReadTwo, Read, Fields, AnswerHolds
    <2>2. CommandTypeOK'
        <3>1. [cmd.answer EXCEPT !["log"] = job["log"]] \in Answer
            BY DEF CommandTypeOK, Command, Job, Answer
        <3> QED BY <1>1, <2>1, <3>1, LoginSame DEF CommandTypeOK, Command
    <2>3. cmd'.at = "look" /\ cmd'.kind = "run" /\ cmd'.answer.log = job.log
          /\ cmd'.answer.state = cmd.answer.state
        BY <2>1 DEF CommandTypeOK, Command, Job, Answer
    <2>4. job.log >= fate.log
        BY <2>1 DEF JobIsFate, CommandTypeOK, Command, Job
    <2> QED
        BY <1>1, <2>1, <2>2, <2>3, <2>4
        DEF JobIsFate, AnswerHolds, ExitCodeIsTrue, OutcomeHasItsLog, Over
<1> QED BY <1>2, <1>3, <1>4

LEMMA LookStep ==
    ASSUME CommandInv, Look
    PROVE  CommandInv'
<1> USE WaitAssumption, TimesAssumption DEF CommandInv
<1>1. UNCHANGED <<grant, login, stored, job, fate>> /\ cmd.at = "look" /\ cmd.kind = "run"
    BY DEF Look, AnswerHolds, loginVars
<1>2. JobIsFate'
    BY <1>1 DEF JobIsFate
<1>3. ASSUME NEW code \in {0, 1, 2}, Prints(code),
             code = 0 => cmd.answer.state = "succeeded",
             code = 1 => cmd.answer.state = "failed"
      PROVE  CommandInv'
    <2>1. cmd'.at = "idle" /\ cmd'.exit = code /\ cmd'.seen = cmd.answer.log
        BY <1>3 DEF Prints, CommandTypeOK, Command, Job
    <2>2. CommandTypeOK'
        BY <1>1, <1>3, LoginSame, PrintsTypes DEF CommandTypeOK
    <2>3. ExitCodeIsTrue' /\ OutcomeHasItsLog'
        BY <1>1, <1>3, <2>1 DEF ExitCodeIsTrue, OutcomeHasItsLog, Over, AnswerHolds, Terminal
    <2> QED BY <1>2, <2>1, <2>2, <2>3 DEF AnswerHolds
<1>4. CASE cmd' = [cmd EXCEPT !.at = "ask", !.seen = cmd.answer.log]
    <2>1. cmd'.at = "ask"
        BY <1>4 DEF CommandTypeOK, Command, Job
    <2>2. CommandTypeOK'
        BY <1>1, <1>4, LoginSame DEF CommandTypeOK, Command, Answer
    <2> QED
        BY <1>2, <2>1, <2>2 DEF AnswerHolds, ExitCodeIsTrue, OutcomeHasItsLog, Over
<1> QED BY <1>3, <1>4 DEF Look, Outcome

LEMMA TheNext == CommandInv /\ [Next]_vars => CommandInv'
<1> SUFFICES ASSUME CommandInv, [Next]_vars PROVE CommandInv'
    OBVIOUS
<1>1. CASE BundleFails
    BY <1>1, EndingStep DEF BundleFails
<1>2. CASE Unauthenticated
    BY <1>2, EndingStep DEF Unauthenticated
<1>3. CASE Unreachable
    BY <1>3, EndingStep, CrashStep DEF Unreachable
<1>4. CASE Garbled
    BY <1>4, CrashStep DEF Garbled
<1>5. CASE Refused
    BY <1>5, EndingStep DEF Refused
<1>6. CASE OneShot
    <2>1. PICK code \in {0, 2, 3, 4} : Exit(code)
        BY <1>6 DEF OneShot
    <2> QED BY <1>6, <2>1, EndingStep DEF OneShot
<1>7. CASE UnknownJob
    BY <1>7, EndingStep DEF UnknownJob
<1>8. CASE Tick \/ TokenAges
    <2>1. /\ UNCHANGED <<job, fate, grant>>
          /\ cmd'.at = cmd.at /\ cmd'.kind = cmd.kind /\ cmd'.exit = cmd.exit
          /\ cmd'.seen = cmd.seen /\ cmd'.answer = cmd.answer /\ cmd'.crashed = cmd.crashed
        BY <1>8 DEF Tick, TokenAges, LoginTick, CommandInv, CommandTypeOK, Command, Job
    <2>2. LoginTypeOK'
        <3>1. CASE Tick
            BY <3>1, LoginTypes DEF Tick, CommandInv, CommandTypeOK, Command, Job
        <3>2. CASE TokenAges
            <4>1. LoginTypeOK /\ Older(stored) \in {None, Broken} \cup 0 .. Life
                BY TimesAssumption DEF Older, CommandInv, CommandTypeOK, LoginTypeOK
            <4> QED BY <3>2, <4>1 DEF TokenAges, LoginTypeOK
        <3> QED BY <1>8, <3>1, <3>2
    <2>3. CommandTypeOK'
        BY <1>8, <2>2, TimesAssumption, WaitAssumption, LoginSame
        DEF Tick, TokenAges, Older, CommandInv, CommandTypeOK, Command, Job
    <2> QED
        BY <2>1, <2>3
        DEF CommandInv, JobIsFate, AnswerHolds, ExitCodeIsTrue, OutcomeHasItsLog, Over
<1>9. CASE (LoginStarts \/ LoginStep \/ SlowDown \/ LoginKilled \/ UserDecides) /\ Beside
    <2>1. LoginTypeOK'
        BY <1>9, LoginTypes DEF CommandInv, CommandTypeOK, Command, Job
    <2>2. UNCHANGED <<cmd, job, fate>>
        BY <1>9 DEF Beside
    <2> QED
        BY <2>1, <2>2
        DEF CommandInv, CommandTypeOK, Command, Job, JobIsFate, AnswerHolds, ExitCodeIsTrue, OutcomeHasItsLog, Over
<1>10. CASE UNCHANGED vars
    <2>1. UNCHANGED <<grant, login, stored, cmd, job, fate>>
        BY <1>10 DEF vars, loginVars
    <2>2. CommandTypeOK'
        BY <2>1, LoginSame DEF CommandInv, CommandTypeOK
    <2> QED
        BY <2>1, <2>2
        DEF CommandInv, JobIsFate, AnswerHolds, ExitCodeIsTrue, OutcomeHasItsLog, Over
<1> QED
    BY <1>1, <1>2, <1>3, <1>4, <1>5, <1>6, <1>7, <1>8, <1>9, <1>10, JobStep, OtherStep,
       RestartStep, StartStep, AcceptStep, ReadStep, LookStep
    DEF Next, CommandStep, Platform

\* Login, command, job and token keep their types for every bound.
THEOREM CommandTypes == Spec => []CommandTypeOK
<1>1. CommandInv => CommandTypeOK
    BY DEF CommandInv
<1> QED BY <1>1, TheInit, TheNext, PTL DEF Spec

\* The exit code tells the truth about the command's own job, through lost answers,
\* restarts and jobs of others.
THEOREM ExitCodes == Spec => []ExitCodeIsTrue
<1>1. CommandInv => ExitCodeIsTrue
    BY DEF CommandInv
<1> QED BY <1>1, TheInit, TheNext, PTL DEF Spec

\* An outcome comes with all that the job emitted, although the poll reads the job field
\* by field beside the job's thread.
THEOREM OutcomesHaveLogs == Spec => []OutcomeHasItsLog
<1>1. CommandInv => OutcomeHasItsLog
    BY DEF CommandInv
<1> QED BY <1>1, TheInit, TheNext, PTL DEF Spec
-----------------------------------------------------------------------------
(* The safety half of LoginReturns and CommandComesBack: what a deadline   *)
(* leaves to do.                                                           *)

Polling == {"poll", "sleep"}
Asking == {"ask", "read1", "read2", "look"}

\* The steps a command has left once it no longer asks again.
CommandLeft ==
    IF cmd.at = "ask" THEN 4
    ELSE IF cmd.at = "read1" THEN 3
    ELSE IF cmd.at = "read2" THEN 2
    ELSE IF cmd.at = "look" THEN 1 ELSE 0

\* Nothing gives a login that polls more time, slow_down included, and nothing a command
\* that waits for its job.  Past its deadline a login does not poll again: it wakes from
\* the sleep it is in and ends.  Past its own a command does not ask again: what it does
\* brings it nearer to its end, whatever becomes of its job.
DeadlinesStand ==
    /\ login.at \in Polling =>
          /\ login'.at \in Polling => login'.left <= login.left
          /\ login.left = 0 =>
                /\ \/ login'.at \in {login.at, "idle"}
                   \/ login.at = "sleep" /\ login'.at = "poll"
                /\ login'.asleep <= login.asleep
    /\ cmd.at \in Asking =>
          /\ cmd'.at \in Asking => cmd'.left <= cmd.left
          /\ cmd.left = 0 => cmd'.at = cmd.at \/ CommandLeft' < CommandLeft

LEMMA OlderIsLess ==
    ASSUME NEW n \in Nat
    PROVE  Older(n) \in Nat /\ Older(n) <= n
  BY DEF Older

\* The half of DeadlinesStand about the login.
LEMMA LoginDeadline ==
    ASSUME CommandInv, [Next]_vars, login.at \in Polling
    PROVE  /\ login'.at \in Polling => login'.left <= login.left
           /\ login.left = 0 =>
                /\ \/ login'.at \in {login.at, "idle"}
                   \/ login.at = "sleep" /\ login'.at = "poll"
                /\ login'.asleep <= login.asleep
<1>1. login \in Login /\ login.left \in Nat /\ login.asleep \in Nat
    <2>1. login \in Login
        BY DEF CommandInv, CommandTypeOK, LoginTypeOK
    <2> QED BY <2>1, TimesAssumption DEF Login
<1>2. CASE Tick
    <2>1. login'.at = login.at /\ login'.left = Older(login.left)
          /\ login'.asleep = Older(login.asleep)
        BY <1>1, <1>2 DEF Tick, LoginTick, Login
    <2> QED BY <1>1, <2>1, OlderIsLess
<1>3. ASSUME NEW code, LoginEnds(code)
      PROVE  login'.at = "idle" /\ login'.asleep = 0
    BY <1>3 DEF LoginEnds, Ended
<1>4. CASE Poll
    <2>1. login.left > 0
        BY <1>4 DEF Poll
    <2>2. \/ login'.left = login.left
          \/ login'.at = "idle"
        BY <1>1, <1>3, <1>4 DEF Poll, NoUsableAnswer, LoginGoes, Login
    <2> QED BY <1>1, <2>1, <2>2 DEF Polling
<1>5. CASE Wakes \/ SlowDown
    BY <1>1, <1>5 DEF Wakes, SlowDown, LoginGoes, Login
<1>6. CASE TimesOut \/ LoginKilled
    BY <1>1, <1>3, <1>6 DEF TimesOut, LoginKilled, Polling
<1>7. CASE login' = login
    BY <1>1, <1>7
<1>8. \/ Tick \/ Poll \/ Wakes \/ SlowDown \/ TimesOut \/ LoginKilled
      \/ login' = login
    <2>1. CASE CommandStep
        BY <2>1 DEF CommandStep, BundleFails, Unauthenticated, Unreachable, Garbled, Refused,
           Accepted, AcceptedUnheard, OneShot, UnknownJob, Found, ReadOne, ReadTwo, Read,
           Look, loginVars
    <2>2. CASE Platform
        BY <2>2 DEF Platform, JobBegins, JobEmits, JobFinishes, JobTells, JobReleases,
           OtherReleases, Displaced, OthersJob, Restart, JobGoes, loginVars
    <2>3. CASE TokenAges \/ \E kind \in Kind : CommandStarts(kind)
        BY <2>3 DEF TokenAges, CommandStarts, loginVars
    <2>4. CASE LoginStarts \/ Discovery \/ Authorize \/ Save
        BY <2>4 DEF LoginStarts, Discovery, Authorize, Save, Polling
    <2>5. CASE UserDecides \/ UNCHANGED vars
        BY <2>5 DEF UserDecides, vars, loginVars
    <2> QED BY <2>1, <2>2, <2>3, <2>4, <2>5 DEF Next, LoginStep
<1> QED BY <1>2, <1>4, <1>5, <1>6, <1>7, <1>8

\* The half about the command.
LEMMA CommandDeadline ==
    ASSUME CommandInv, [Next]_vars, cmd.at \in Asking
    PROVE  /\ cmd'.at \in Asking => cmd'.left <= cmd.left
           /\ cmd.left = 0 => cmd'.at = cmd.at \/ CommandLeft' < CommandLeft
<1>1. cmd \in Command /\ cmd.left \in Nat
    <2>1. cmd \in Command
        BY DEF CommandInv, CommandTypeOK
    <2> QED BY <2>1, WaitAssumption DEF Command
<1>2. ASSUME cmd'.at = "idle"
      PROVE  /\ cmd'.at \in Asking => cmd'.left <= cmd.left
             /\ cmd.left = 0 => cmd'.at = cmd.at \/ CommandLeft' < CommandLeft
    BY <1>2 DEF Asking, CommandLeft
<1>3. ASSUME NEW code, Exit(code) \/ Prints(code) \/ Crash
      PROVE  cmd'.at = "idle"
    BY <1>1, <1>3 DEF Exit, Prints, Crash, Command
<1>4. CASE \/ BundleFails \/ Unauthenticated \/ Unreachable \/ Garbled \/ Refused
           \/ AcceptedUnheard \/ OneShot \/ UnknownJob
    <2>1. cmd'.at = "idle"
        BY <1>3, <1>4 DEF BundleFails, Unauthenticated, Unreachable, Garbled, Refused,
           AcceptedUnheard, OneShot, UnknownJob
    <2> QED BY <1>2, <2>1
<1>5. CASE Found \/ ReadOne \/ ReadTwo
    <2>1. /\ cmd'.left = cmd.left
          /\ \/ cmd.at = "ask" /\ cmd'.at = "read1"
             \/ cmd.at = "read1" /\ cmd'.at = "read2"
             \/ cmd.at = "read2" /\ cmd'.at = "look"
        BY <1>1, <1>5 DEF Found, ReadOne, ReadTwo, Read, Command
    <2> QED BY <1>1, <2>1 DEF CommandLeft
<1>6. CASE Look
    <2>1. CASE Outcome \/ Prints(2)
        BY <1>2, <1>3, <2>1 DEF Outcome
    <2>2. CASE cmd.left > 0 /\ cmd' = [cmd EXCEPT !.at = "ask", !.seen = cmd.answer.log]
        BY <1>1, <2>2 DEF Command
    <2> QED BY <1>6, <2>1, <2>2 DEF Look
<1>7. CASE Restart
    <2>1. cmd'.at = "idle" \/ cmd' = cmd
        BY <1>3, <1>7 DEF Restart
    <2> QED BY <1>1, <1>2, <2>1
<1>8. CASE Tick \/ TokenAges
    <2>1. cmd'.at = cmd.at /\ cmd'.left \in {cmd.left, Older(cmd.left)}
        BY <1>1, <1>8 DEF Tick, TokenAges, Command
    <2> QED BY <1>1, <2>1, OlderIsLess
<1>9. CASE cmd' = cmd
    BY <1>1, <1>9
<1>10. \/ CommandStep \/ Restart \/ Tick \/ TokenAges \/ cmd' = cmd
    BY DEF Next, Platform, JobBegins, JobEmits, JobFinishes, JobTells, JobReleases,
       OtherReleases, Displaced, OthersJob, JobGoes, CommandStarts, Beside, vars, Asking
<1>11. ~Accepted
    BY DEF Accepted, Asking
<1> QED
    BY <1>4, <1>5, <1>6, <1>7, <1>8, <1>9, <1>10, <1>11 DEF CommandStep

\* Deadlines are deadlines for every bound: no answer of Keycloak, of the platform or of
\* the job sets one back.
THEOREM DeadlinesHold == Spec => [][DeadlinesStand]_vars
<1>1. CommandInv /\ [Next]_vars => DeadlinesStand
    BY LoginDeadline, CommandDeadline DEF DeadlinesStand
<1> QED BY <1>1, TheInit, TheNext, PTL DEF Spec
=============================================================================
