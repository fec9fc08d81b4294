# A formal model of the vpath platform console

The repository is the management console of a vpath platform: a small web service (FastAPI, one
process, everything in memory) that accepts platform verbs over HTTP and carries them out against a
cluster. It builds, deploys, publishes, uninstalls, reinstalls and erases applications, and reports
on them. This directory holds TLA+ models of it, TLC configurations that check them on small
instances, and TLAPS proofs that hold for every value of the constants.

## Inventory

| Part | State | Operations | Talks to |
|---|---|---|---|
| **Ops service** `ops/service.py`, `locks.py`, `audit.py`, `job_runner.py`, `model.py` | scope locks, list of at most 100 jobs, audit log of at most 500 events, last health verdict; all in memory | `submit` (gates, lock, thread), the worker thread, queries, `start_tunnel`, reach cache | engines, publish pipeline |
| **GitOps engine** `ops/gitops_engine.py`, `gitea.py`, `argocd.py`, `deploy_record.py` | none of its own; the Deploy-of-Record is a git repository: `installed-set.json`, `appset-inputs/`, `uninstalled/`, `apps/` | `deploy`, `uninstall`, reads | Gitea and ArgoCD over HTTP, beside the build host |
| **Publish pipeline** `ops/publish*.py`, `source.py`, `bundle.py`, `tree_hash.py` | server checkout `apps_infra/apps/<name>` | preflight, register, send, render, install; upload endpoint | register, repositories, local engine, GitOps engine |
| **Register of applications** `ops/app_registry.py`, `cli/app_cmds.py` | entries `apps/<name>`: a manifest and a provenance record each | register, refresh, stamp; `vpath app add/refresh/send` | repositories, upload endpoint |
| **Preflight and fetching** `repo_probe.py`, `repo_fetch.py`, `repo_tarball.py`, `app_preflight.py`, `app_layout.py` | none | probe, download, extract, classify | GitHub, GitLab |
| **Local engine** `ops/engine.py` | a child process per job | run a script, report its exit | build host |
| **Tunnel and reach** `ops/tunnel.py`, part of `service.py` | a child `ssh`, a cached reachability verdict | start, probe | the instance |
| **Runtime, catalog, browser** `app_runtime.py`, `apps.py`, `served_catalog.py`, `browse.py` | a cache with a time to live | read only | cluster |
| **API** `api/*.py` | sessions in signed cookies, JWKS cache | routes, authentication, Keycloak proxy | ops service |
| **Console pages** `api/*.js` | what the page last polled | polling, painting | API |
| **Command line** `cli/main.py`, `client.py`, `auth.py` | a token file | device login; submit a verb and wait for its job; one-shot requests | Keycloak, API |
| **Instances** `instances/*.py` | the register, a file of KEY=VALUE lines | load; list, show, exec, gradle, deliver; probe | ssh, git, the boxes |
| **Repository tooling** `scripts/` | `.template-version`, the tracked files | pull a newer template; drift check; scanners, agent hooks | git |

How they interact: an HTTP handler calls `OpsService.submit` on a pool thread; the service takes a
lock and starts a thread per job; the thread calls an engine or the publish pipeline; the pipeline
writes two directories of the host and calls the local engine and then the GitOps engine; the GitOps
engine edits a git repository by compare-and-swap and waits for ArgoCD. Queries and pages read the
in-memory state at any moment. The upload endpoint and the `vpath app` commands write the same
directories as the pipeline without going through the lock. The instance commands and the template
scripts are processes of their own: they share files and boxes with each other and nothing with the
service.

What is hard in it, and what would make each part right:

- *Interleaving of requests and job threads* (ops service). Conflicting scopes must never be held
  together; the lock must follow the job; outcomes must be on record in the order jobs ran; the
  bounded lists must drop only the oldest; locks must come back.
- *Calls that fail, or whose answers are lost, anywhere in a sequence of six writes* (GitOps
  engine). What is named installed must be generated; the only copy of an application's input must
  not be deleted; a success must be true; two commits must not undo each other.
- *A publish that stops after any write, and other writers of its directories* (publish). A
  provenance must describe what lies beside it; a directory of another source must not be cleared
  unasked; a build must be of what was asked for.
- *A cached verdict, polled and invalidated by several threads without a mutex, beside a child
  process that may do anything* (tunnel and reach). A stale verdict must not stay; a start must come
  back and leave no process nobody knows of.
- *A port chosen by reading every manifest and taken by writing one; two files per entry, several
  commands, no lock* (register of applications). The two files of an entry must describe one fetch;
  what is sent must be one commit; two applications must not take one port.
- *Deadlines, lost answers, a job displaced or forgotten while it is waited for, a job read field by
  field while it changes* (command line). An exit code must be true; the outcome must come with its
  log; a login and a command must end.
- *Two operators on one box, a register edited between two halves of a command, a client that gives
  up on work that goes on* (instances). What was reported delivered must be there and stay; nothing
  may move a box back; the probe must not vouch for what it did not see.
- *A plan made once and executed file by file, killed anywhere, run again against another version*
  (template). No line of the project's own may be lost; exit code 0 must mean done.
- *Cached and polled values in the browser.* Not modelled.

`PROJECT.json` lists every hazard at its line, with the properties that cover it.

## Modules

| Module | Role |
|---|---|
| `ExclusiveScopes` | abstract: what the lock manager promises |
| `OpsService` | submit, locks, job list, audit log, worker threads, restart |
| `MCOpsService`, `OpsServiceProofs` | small instance; theorems |
| `InstalledSet` | abstract: the set changes by one application at a time |
| `GitOpsEngine` | every HTTP call of deploy and uninstall; build host; ArgoCD |
| `MCGitOpsEngine`, `GitOpsProofs` | small instance; theorems |
| `GitOpsConsole` | composes `OpsService` and `GitOpsEngine`: job threads that run the engine under their locks |
| `MCGitOpsConsole` | small instance; its theorems are in `OpsServiceProofs` |
| `PublishPipeline` | register, send, materialize, upload, refresh, for one application |
| `MCPublishPipeline`, `PublishProofs` | small instances; theorems |
| `InstanceReach` | `start_tunnel` and its ssh; the kept verdict and the polls that replace it |
| `MCInstanceReach`, `InstanceReachProofs` | small instance; theorems |
| `AppRegistry` | every entry of `apps/` under add, publish, refresh and send |
| `MCAppRegistry`, `AppRegistryProofs` | small instance; theorems |
| `DeviceLogin` | the device flow and the token file |
| `CommandLine` | extends it: a command, its job, the API between them |
| `MCCommandLine`, `CommandLineProofs` | small instance; theorems |
| `InstanceRegister` | the register's lines, and when loading them refuses (operators only) |
| `InstanceFleet` | extends it: operators' commands, their transport, the boxes |
| `InstanceProbe` | extends it: the probe beside the commands |
| `MCInstanceFleet`, `InstanceFleetProofs` | small instance of all three; theorems |
| `TemplateSync` | a run of `sync_from_template`, people and template between runs |
| `MCTemplateSync`, `TemplateSyncProofs` | small instance; theorems |

### OpsService

One request is one `POST /api/jobs`; if admitted, its job's thread continues it. `pc[r]` is where
that pair of threads stands. `Receive` is the route. `RefuseAudited`, `RefuseSilently` and `Admit`
are the gates of `submit`, in its order (verb, role, rank, confirmation, lock); `Admit` is the
critical section of `LockManager.acquire`. `InsertJob`, `StartThread` and `StartThreadFails` are the
rest of `submit`. `Begin`, `EngineEnds`, `RecordResult`, `Finish`, `RecordOutcome` and `Release` are
`JobRunner.run`, one action per shared write, since each is a critical section of a different mutex.
`EngineEnds` may also go straight to `Release`: an exception no handler of `_execute` takes still
passes the `finally` of `run`, and leaves the job running with no outcome on record. `order` is a
history: the jobs as they came to the list. `Restart` is the console process dying: nothing is
persisted. Abstracted: texts of messages, log streaming, timestamps; `app:<name>` is the application
itself. An engine is one step that ends in a result or an error.

### GitOpsEngine

One action per HTTP call, in the order of the calls. `Reading` stages decide where a job goes;
`Writing` stages are Gitea's compare-and-swap on a blob's sha, and since the sha is a hash of the
content, the content stands for it. A write has two outcomes when it takes effect: the answer
arrives, or it is lost (`Answered`). `CallFails` is every refusal, error, timeout and every answer
the engine raises on. `ConsoleDies` ends every job where it stands, as the death of the process
does: the threads are daemons and nothing takes their work up again. `Render` is the build host
writing an application into the record, `Reconcile` is ArgoCD, in its own time. `Submit` has the
guard that jobs of an application are serial; `GitOpsConsole` has no such guard and implements this
module (`ConsoleIsEngine`). Gitea, ArgoCD and the build host are external: modelled from how the
code calls them.

### GitOpsConsole

The console as it is configured on a box: what `OpsService` leaves open while a job is `working`,
the engine does. `EnterEngine` is the runner, or the last stage of a publish, calling the engine;
`EngineWorks` is any call of that job; `EngineComesBack` is how the runner learns of it: success
only when the engine has succeeded, failure when it has failed, when a publish stops before its last
stage or when the engine has no handler for the verb (build, logs, reinstall, erase). Status and
health read and may do either. `Serve` is every other step of the service, during which the record
does not move; `Outside` is the build host and ArgoCD. `Restart` of the service and `ConsoleDies` of
the engine are one step. Nothing in the module says that two jobs of an application are apart; the
locks have to.

### PublishPipeline

`entry` is `apps/<name>` and `checkout` is the application's directory in the server checkout. A
commit names a tree; a tree stands for its hash. A publish walks `RegisterSkipped`/`Register`,
`WriteManifest`, `WriteRecord`, `SendSkipped`/`Send`, `ReadRecord`, `BindTree`, `Place`,
`Materialize`, `Render`, `Install`. `Materialize` (also used by the upload endpoint) is `Look`,
`Unlink`*, `RemoveDirectory`, `MakeDirectory`, `ExtractFiles`, `ExtractProvenance`. A tree's files
are two groups, those that precede `vpath-source.yaml` in the bundle and those that follow it: that
is as much as the properties tell apart. `Fail` ends a writer after any write and rolls nothing
back, which is what the code does. A publish, an upload and a refresh go on beside one another and
take no lock of each other's; there is one of each, since `OpsService` runs one publish of an
application at a time and the upload handler does not await while it writes. `slips` is a history of
what the code guards against nowhere, as far as the two directories still show it: a record
`refreshed` between two looks of a publish, a commit left under another path (`elsewhere`), both
writers in the checkout at once (`crossed`), a stop in the middle of it (`torn`), and the files
uploaded since a publish looked (`strays`). A record written anew clears the one, a directory made
anew the other. The properties say by it what they leave out. Left out: the manifests' text and
their ports (a directory with a manifest and no provenance is `Bare`) and the commands `add` and
`send`, which `AppRegistry` has; torn writes of a single file; preflight, whose answers are the
request.

### InstanceReach

A start walks `RequestStart`, `FindAlreadyUp`, `FindKey`, `Spawn`, then `FindUp` and `KeepWaiting`
in turn until the port answers, ssh ends or the wait does (`GiveUp`), then `RecordStart` and
`Invalidate`. `SshOpens`, `SshExits` and `ForeignTunnel` are the processes, free to do anything at
any time. A poll is `Poll` (which decides whether to probe), `Probe` (the moment the instance is
looked at), `StoreReach`, `StampTime`, `Answer`: four accesses to shared attributes that the code
makes without the mutex. A verdict carries the starts that had succeeded when it was found, which is
what tells an old one from a new one; `raced` keeps the starts that returned while a probe had
looked and not yet stored. Left out: which of the two doors did not answer and why; the rest of the
snapshot, which `OpsService` has; audit entries are a set.

### AppRegistry

`apps[n]` is the entry's two files, its manifest (the name it declares and its port) and its record
(repository, commit, origin, bound tree). Directories and declared names are told apart, because the
catalog goes by the declared name: `Shown` is what it lists, and `PortsInUse` what `_check_port`
compares with. A command is one process of the command line or the register stage of a publish:
`AddStarts`/`PublishStarts`, `PublishLooks`, `RegisterLooks`, `ChecksPort`, `Clears`, `Writes`,
`Records` are `register` and `_write`; `RefreshStarts`, `Rereads`, `Keeps` are `refresh` up to the
same writes; `SendStarts`, `Stamps`, `Records`, `PlacesManifest`, `PlacesProvenance`, `Pushes` are
`send`. `Killed` ends one anywhere. What a fetch answers may change from one command to the next.
`calm` and `unchecked` are histories: which entries were last registered by a command alone on them,
and which pairs of ports nobody compared. Left out: the text of a manifest but for name and port;
the download's failures, which end a command before it has changed anything.

### DeviceLogin and CommandLine

`DeviceLogin` is `device_login` step by step, with what is left of every time: the deadline, the
sleep between polls, the token's life. `SlowDown` lengthens the interval and leaves the deadline.
`CommandLine` puts one command at a time beside it. `Accepted`, `AcceptedUnheard`, `Refused`,
`Unauthenticated`, `Unreachable`, `Garbled` are what a request comes to; `Found`, `ReadOne`,
`ReadTwo` are the handler of a poll, which reads the job's state and then its log without the mutex
(`Fields` is the order of `Job.to_dict`); `Look` is `wait`. The job's own thread is reduced to what
a poll can tell apart: it begins, emits, sets the state, appends the message and gives the lock
back, each in a step of its own. `fate` is the history of the command's own job. Left out: what is
printed, but for how many log lines; the API's other routes.

### InstanceRegister, InstanceFleet and InstanceProbe

`Loads` of `InstanceRegister` is every check of `load_registry`, and `Registry` what it returns: all
of it or nothing. In `InstanceFleet` each operator has one command: `Look`, `Refuse`, `Run` and
`Deliver` begin it; `Push`, `PushFails`, `PushGivesUp`, `Connect`, `NoConnection`, `GiveUp`,
`ToolMissing` are `transport.run`; `MergeEnds`, `RunEnds` and `PushEnds` are what runs on the box,
which goes on after its client has gone (`Nobody`), a push among it. `--sha` goes into the refspec
as it is given: `DeliverAsWorded` is a delivery with a + before the commit, or with an empty value,
which deletes the branch (`Lands`, `Update`). The line of an exec is the operator's own: `Rework`
lets it move the checkout or any branch anywhere and start or stop the platform, also when nobody
waits for it any more. `overruled` is the history of the branches these two took from where they
were; `delivered` forgets a box when the line of an exec moves its head. Git is as much as a history
of commits, branches that only a push moves and `merge --ff-only`. `BoxDown`, `BoxUp`,
`EditRegister`, `Rearrange` are the world. `InstanceProbe` reads one instance after the other, and a
box in two looks (`LookAtCheckout`, `LookAtPlatform`) between which anything above may happen;
`ServerReading` and `ExitCode` are its rules. Left out: rendering, masking of secrets, the payload's
text, and a `--sha` or `--branch` that is no commit or name of git's.

### TemplateSync

A file is the set of its lines. `Kind` is `classify` and `removed_candidates`; `Apply` plans,
`Copy`, `Delete` and `Merge` execute one file each, `Finish` writes the stamp and the exit code.
`Killed` ends a run between two of these; `KilledInCopy`, `KilledInMerge` and `KilledInStamp` end it
in the middle of a write, which leaves part of what was to be written, because `copyfile`,
`write_bytes` and `write_text` truncate first. `spoilt` is the history of the files a write of which
was cut short or a stamp was forced over. Between runs `Work`, `Cut`, `Discard` and `TemplateMoves`.
`git merge-file` is external: apart it merges, side by side it may mark a conflict. Left out: modes,
line endings, the order of lines; a version that only a merge commit of the template produced, which
`git log --raw` does not list; `init_project`.

## What is checked

| Run | Instance | Question | Result |
|---|---|---|---|
| `ops_core` | 3 requests, 2 applications, 8 kinds of call, lists of 2, 1 restart; about 508,000 states | do locks, job list and audit log agree at every interleaving; does the service implement `ExclusiveScopes` | holds |
| `console` | 2 requests, 1 application, 5 kinds of call, 1 render, 1 restart; about 317,000 states | with the engine behind it, does every lock come back, and is a success true when it goes on record | holds |
| `ops_lock_leak` | 2 requests | can no lock leak, as the documents say | violated |
| `gitops` | 3 jobs, 2 applications, 2 inputs, 1 render; about 842,000 states | is nothing lost when any call fails | holds |
| `publish` | 2 commits of a path and another path of the first; a publish, an upload and a refresh at once; 2 uploads, 3 disturbances; about 7,066,000 states | does a publish record, clear and render only what is its own, up to the slips | holds |
| `publish_whole` | 2 commits of a source | is the whole tree rendered | violated |
| `reach` | 1 start, 2 polls at a time, an operator's own tunnel, a wait of 3 looks; about 27,000 states | is no ssh left behind, does a start return, does the next poll look again, does a stale verdict go away | holds |
| `registry` | 2 applications, 2 ports, 5 answers of 2 repositories, 2 commands at a time, 4 in all; about 1,056,000 states | are an entry and what is sent of one fetch; is a port taken twice only past the check | holds |
| `registry_ports` | the same | is a port never taken twice, as the design says | violated |
| `cli` | deadlines of 1 and 2 units, tokens of 2, two slow_downs, one log line; about 282,000 states | are exit codes true, does the outcome come with its log, do login and command end | holds |
| `fleet` | 2 operators, a probe, 2 boxes, 3 commits that fork, 3 registers, deliveries of every wording, 2 commands, 1 upset; about 586,000 states | is what was delivered there, does nothing move back, is the probe's verdict earned, does a command return | holds |
| `sync` | 3 versions of 2 files, one of them binary; about 119,000 states | is no own line lost, does 0 mean done | holds |

Each violated run checks a sentence of the repository's own documents or comments; the findings in
`PROJECT.json` quote it and describe the counterexample. The other findings have no run: they were
met while translating, or they are what a property's exception stands for (`OwnWorkKept` leaves out
binary files and a merge stopped while it is written, `ZeroMeansDone` what a stamp was forced over
or a write cut short, `NextPollLooksAgain` starts that raced a probe, the properties of a publish
its slips, those of the deliveries the branches that were overruled).

Properties that hold:

- `LocksAreJobSideEffects`: a scope is locked by a job exactly while the job is between taking and
  giving it back. It is not by construction: `release` pops the scope whoever holds it.
- `MutualExclusion`, `ImplementsExclusiveScopes`: conflicting scopes are never occupied together. It
  is stated of jobs that lock something; reads take no lock.
- `OutcomeAuditedUnderLock`: outcomes of one application are on record in running order.
- `ListedUnlessDisplaced`: a job that is not listed was pushed out by as many newer ones as the list
  holds, in whatever order the threads came to the list, or went with the process.
- `ScopesComeBack`: if engines come back, so do locks, except of a thread never started.
- `AuditIsTrue`: when the audit log says that a deploy, a publish or an uninstall succeeded, the
  Deploy-of-Record says so too, although other threads have moved since the engine came back.
- `InstalledIsGenerated`, `RenderNeverLost`, `SuccessIsOnRecord`, `ImplementsInstalledSet`:
  whichever call fails, what the set names has its input, one copy of an input survives, success is
  true of the record, and no commit undoes another.
- `TreeBindsCommit`: a `tree_sha` is that of a tree of the commit recorded with it, also of its path
  unless a publish left that commit under another; except in a record that a refresh wrote between
  two looks of a publish.
- `BuildsTheTree`: what a publish renders is of the commit it was asked for, of its path where the
  registry binds that tree, and whole unless a writer stopped in the checkout or is in it. Files
  uploaded since it looked are left out, and a checkout that two writers were in at once.
- `OverwriteSanctioned`: a publish that did not ask to replace removes nothing of another source,
  except what was uploaded since it looked and what a record misnames that one of the slips got
  into. Each exception is a race or a stale skip of the code, and a finding.
- `NoProcessUnaccounted`: an ssh that runs belongs to a start under way or one on record.
- `StartReturns`: a start ends whatever ssh does.
- `NextPollLooksAgain`: after a start no kept verdict is from before it, unless a probe was between
  looking and storing when the start returned.
- `ReachSettles`: although an older verdict can be written over a newer one, the kept one ends up
  right when the tunnel stays as it is: the expiry repairs what the invalidation misses.
- `EntryIsOneFetch`, `SentIsOneFetch`: whatever order commands come in and wherever they stop, an
  entry last registered by a command alone on it is of one fetch of one repository, and what `send`
  pushes from it is that commit. Commands that overlap can part the two files.
- `PortsApart`: two entries share a port only if a refresh, an overlap or a manifest that declares
  another entry's name let one of them past the check.
- `ExitCodeIsTrue`, `OutcomeHasItsLog`: an exit code is true of the command's own job, and with the
  outcome every line the job emitted is printed. The second holds by the order of two reads.
- `LoginReturns`, `CommandComesBack`: a login and a command end, whatever Keycloak, the user and the
  job do.
- `MergeFollowsPush`, `DeliveredMeansThere`, `OnlyForward`: a merge is sent only behind its own
  push, what was reported delivered stays in the box's history until the line of an exec moves its
  head, and no push, merge, build or crash moves a box back, also when two deliveries share a
  branch, the register changes half way or a push lands late. What an exec runs is set apart, and so
  is a branch that a delivery was worded to force or to delete.
- `VerdictIsEarned`: 0 and 3 of the probe speak only of instances it has seen.
- `CommandReturns`: a command on a box comes back, also from a box that never answers.
- `OwnWorkKept`, `ZeroMeansDone`: no run takes away a line of the project's but one stopped in the
  write of a merge, and an applied run that ends with 0 has brought in what the template ships,
  except to files that a stamp was forced over or a write of which was cut short (until they are
  copied whole), and lines that left the template and returned.

Each property has a mutant in its module: a plausible bug in one definition (`...IgnoringHeldApps`,
`...Unconditionally`) that the property catches.

### Bounds, and why they suffice

Requests and jobs: two conflict, and a third is needed to meet what a failed, finished or displaced
one left behind. Applications: two scopes that do not conflict, plus the cluster. Lists of two with
three requests overflow. One restart meets every stage; the second would meet only a state the first
can also produce. Two inputs and one render let the record change under a job that has read it. Two
commits of one path and another path of the first distinguish "same source" from "same commit", and
make a skip of the wrong path possible; three uploads, refreshes and stops (`MaxDisturbances`) are
one of each, or two that leave something for a third to meet. Two polls write the verdict over each
other; the operator's tunnel takes the port as another start's ssh would, so one start suffices. Two
entries and two ports make every clash of ports; four commands let two overlap on what two earlier
ones left; the five answers are a repository that has no manifest, gains one, breaks it and renames
it into another's name. Two boxes let a register point a name at the other; a history that forks is
what fast-forward can refuse; with two commands and one upset each stage of a delivery meets another
delivery, an edit or an outage. Three template versions let a file miss one and a line leave and
return. Times of one and two units make every expiry come before, with and after the event it races.
Jobs, requests, applications and commands are symmetric in the safety runs; the runs with liveness
use no symmetry. `CHECK_DEADLOCK FALSE` is set where a bounded number of requests, jobs or commands
ends, or a publish may be followed by none; `cli` and `sync` never stop and are checked for
deadlock.

### Fairness

`OpsService` states weak fairness of each thread's own steps (`Submitter`, `RunnerStep`), because an
operating-system thread that can run does run and holds the mutexes for a few statements. Nothing is
assumed of the engine (`LocalEngine` waits for its child without a timeout), of clients or of
crashes; `ScopesComeBack` has "engines come back" as its hypothesis. `InstanceReach` states weak
fairness of the handlers' own steps, of the clock (`Expire`), and of a poll without `fresh`: an open
page polls every second. Nothing is assumed of ssh or of the operator. `CommandLine` states weak
fairness of the command's and the login's own steps (a request ends, by the client's timeout if by
nothing else) and of time; nothing is assumed of the job, the user or Keycloak's patience beyond the
bound on slow_downs. `InstanceFleet` states weak fairness of the three ways in which `transport.run`
gives up by itself, and nothing of boxes. The other modules state safety only.

### Assumptions

- Nothing is assumed of how the operators of `PublishPipeline` and `AppRegistry` share their
  directories: what overlaps and stops can spoil is in the histories `slips`, `calm` and
  `unchecked`, and the properties name it. Bounds are numbers (`BoundAssumption`,
  `BoundsAssumption`).
- The provenance inside an upload is that of what is uploaded: `vpath app send` makes it so.
- A client that times out does not have its write applied later than its next call.
- The record at the start is that of a server in use: installed applications are rendered,
  uninstalled ones parked. The register of applications starts empty.
- `None` is no command and no exit code (`CommandAssumption`, `NoneAssumption`), every host the
  register names is a box (`HostsAssumption`), and the declared names are lists (`ListsAssumption`).
- A template's lines and a project's own are told apart by their text (`LinesAssumption`).

## What is proved

All are theorems of the specification, for all constants that satisfy the named assumptions of the
module.

**OpsServiceProofs.** Inductive invariant `IInv`: `TypeOK`, `LocksAreJobSideEffects`, and two
strengthenings. `LocksCompatible` (no two conflicting scopes are locked) is what the guard of
`Admit` maintains, and with `LocksAreJobSideEffects` it gives `MutualExclusion`. `StagesAgree` ties
a job's stage to its state and to its having a call: without it a step of the runner could belong to
a request that locks nothing. From it: `TypeCorrect`, `LocksFollowJobs`, `Exclusion`, `Refinement`
(each step is a step of `ExclusiveScopes` or a stutter), `OutcomeOrder`, `ListedJobs` (by its own
step lemma, on `NewestLemma` about the bounded lists).

The second half is about `GitOpsConsole`, with `GitOpsProofs` instantiated for the engine that the
service runs. `ConsoleInv` is both invariants and two links: `Linked` (a job active in the engine is
`working`, its task is what its call asked, and a job of the record's verbs that is being reported
as a success has succeeded in the engine) and `SuccessHolds` (what a served job achieved stays true
while it holds its lock). `OneAtWork` is where the two halves meet: two jobs in the engine for one
application would occupy one scope, which `MutualExclusion` forbids. So `EnterEngine` is a `Submit`
whose guard holds, which gives `ConsoleIsEngine`; `ConsoleIsService` is the other projection, with
its fairness. `SuccessHolds` rests on `QuietApp` (of an application nobody is working on, only a
render touches anything) and gives `OutcomesAreTrue`. `RecordIsSound` restates the engine's results
without its guard.

`HoldersReturn` is the safety half of `ScopesComeBack`: `Left` ranks the stages of a job, every step
of the job lowers it, no other step touches it but a restart, and only the job itself empties the
scope, although `Release` pops it without asking whose it is.

**GitOpsProofs.** `IInv`: `TypeOK`, `InstalledIsGenerated`, `Serial` (at most one active job per
application) and `Established` (what a job's past calls make true at its stage). `Established` is
the heart: an uninstall that may delete an input has the application out of the set; a deploy past
`lane` has an input in place; a job that is moving a file has its text from the source. It survives
other jobs because of `Serial`, and the build host because it never deletes. From it: `TypeCorrect`,
`Generated`, `RendersKept`, `SuccessRecorded`, `Refinement`.

**PublishProofs.** With all three writers interleaved and stopping anywhere. `IInv`: `TypeInv`, and
what the stages of a writer have established, each part as far as no slip has undone it: `EntryInv`
(the entry is of what the publish was asked for while it counts on it), `PayloadInv` (a record that
is placed fits its tree), `RecordInv` (`TreeBindsCommit` of the checkout), `FilesInv` (what a record
says of the files beside it, how far an extraction has come, what may be cleared and what is
rendered) and `WholeInv` (a checkout nobody is in holds a whole tree). `FilesInv` is needed because
the skip of `send` trusts a provenance alone. From it: `TypeCorrect`, `TreeIsBound`, `BuildsOnlyIt`,
`NothingForeignCleared` and `SentWhole`, which says that a placing that ends leaves the whole
requested tree and nothing else, unless the other writer was in the checkout with it.

**InstanceReachProofs.** `IInv`: `TypeOK` and `Accounts` (what the stage of a start says of its ssh,
its wait and the audit log): that a failed start has no running ssh rests on its having had none
before it spawned one. From it: `TypeCorrect`, `ProcessesAccounted`. `LooksAgain` needs one more
fact beside the property: a verdict that was found and not yet stored is no older than the starts
that did not race it. `StartsRunDown` bounds a start by the variant `Left` (two steps a round of the
wait, the rest in line), which needs `Accounts`: a start that polls has waited less than `Waits`.
`VerdictStaysSettled` says that `Settled` (the verdict on show and those about to be stored are how
the port is) is closed under every step that leaves the port as it is.

**AppRegistryProofs.** `RegistrySteady`: of two commands under way each counts as seen by the other
(`Seen`), so on a calm entry a command is alone (`CalmIsAlone`); `Stages` ties kind to stage;
`Carried` says that what a registration carries is of one fetch, and `Holds` what a command on a
calm entry may conclude from what it has read. From it: `RegistryTypes`, `EntriesAreWhole`,
`SentIsWhole`. `PortsStayApart` has an invariant of its own: `Looked` (what a registration compared
stays compared but for entries it has seen begun), `Kept` and `KeptBoth` (a refresh that keeps its
port brings no new pair).

**CommandLineProofs.** `CommandInv`: `JobIsFate` (the platform's job and the command's history agree
while the job is there) and `AnswerHolds` (a terminal state that was read stays true, and a log read
after it is complete). From it: `CommandTypes`, `ExitCodes`, `OutcomesHaveLogs`, for every deadline,
token life and length of log. `DeadlinesHold`: what is left of a deadline never grows, and once
nothing is left a login only wakes and ends and a command only comes nearer to its end. Before the
deadline there is no variant to find: a command asks, and a login whose interval is 0 polls, any
number of times between two ticks, so there the liveness rests on time going on.

**InstanceFleetProofs.** `TypeOK`, `MergeFollowsPush` and `DeliveredMeansThere` are inductive
together: a merge may be reported only because its branch contains the commit (`MergesGuarded`), and
that stays so because every step moves a branch forward or overrules it (`Onward`). From it:
`FleetTypes`, `PushGuardsMerge`, `DeliveredStays`, `NothingTakenAway`, for every history of commits,
register, number of boxes and operators, and with the probe beside. The probe's own invariant is
`ProbeInv`: `Accounted` says that the readings so far tell how each instance was found, and the exit
code is computed from the readings alone. From it: `ProbeTypes`, `VerdictHolds`. They assume that
the declared names are lists (`ListsAssumption`) and that no exit code and no command is `None`
(`NoneAssumption`, `CommandAssumption`).

`OwnInv` adds `JobsOwned`: a job on a box that answers to an operator is the one job of the command
this operator waits for, on its box and with its commit. It is what makes an exit code the command's
own: a command given up leaves its job to `Nobody` before the operator can give another. From it:
`CommandsComeBack` (at most three steps, never set back, one exit code) and `SuccessIsOnTheBox`
(exit code 0 of a delivery: its own commit is in the checkout of its own box, unless its branch was
overruled). `LinesAreRead`, `LoadedIsWhole` and `TargetsAreNamed` are about the register's
operators: what is loaded is what its lines say, whole, and no command is given an empty target.

**TemplateSyncProofs.** `SyncInv`: `TypeOK`, `OwnWorkKept` and `PlanHolds`, which says that the plan
still holds of each file when its turn comes. From it: `SyncTypes`, `WorkIsKept`. What exit code 0
means needs `DoneInv` too. A clean merge brings in what the template changed since the stamp, so the
stamp has to stand for the rest: `SinceStamp` (a line the template has had since the stamp is in the
file, or was taken out by somebody), `Untouched` (a file nobody touched is as some version shipped
it) and `PlanCovers` (what is neither planned nor customized is up to date). From it: `ZeroIsDone`.
A write cut short takes its file out of both (`spoilt`) or its lost lines out of `typed`: that is
all the stops in `CutShort` need, and the rest holds of such a file as of any other.

Only model-checked: `ScopesComeBack`, `StartReturns`, `ReachSettles`, `LoginReturns`,
`CommandComesBack`, `CommandReturns`, and every violation. Liveness under fairness is out of this
prover's reach; of each of the six the safety half is proved (`HoldersReturn`, `StartsRunDown`,
`VerdictStaysSettled`, `DeadlinesHold`, `CommandsComeBack`): what a step can never undo, and for how
many steps it can go on. What is left to TLC is that the step a fair thread has to take is enabled,
and the rule that it is then taken.

## Not modelled, and why

- Probing, fetching, layout and preflight of repositories (`repo_*.py`, `app_preflight.py`,
  `app_layout.py`): sequential reads of a remote; their answers are inputs of `PublishPipeline` and
  `AppRegistry`.
- Local and simulated engine: `EngineEnds` stands for how its child returns.
- Runtime, catalog cache and browser: read-only views; a stale catalog changes nothing it is asked
  about.
- Keycloak proxy, builders, server: they forward and wire. Of the API, authentication of a request
  and the routes that submit and show a job are in `CommandLine` and `OpsService`.
- Console pages: one race of their scripts is listed as a hazard; it affects what one page shows.
- `record_source` of the ops service adds an audit event and nothing else.
- `init_project`, the scanners and the agent hooks: they read files and print, or run once on a new
  copy.

## Plan

1. Done: `OpsService`, `GitOpsEngine`, `PublishPipeline`, `InstanceReach`, `InstanceFleet` with its
   register and probe, `TemplateSync`, `CommandLine` with `DeviceLogin`, `AppRegistry`, each with
   its small instance and its proofs.
2. Done: `GitOpsConsole`, the service with the engine behind it, so that the guard of `Submit` is a
   consequence and not a parameter.
3. `AppRegistry` under `PublishPipeline`'s register stage, so that `Bare` and the torn entries are
   one state.
4. The race of the console's pages, and the expiry of the served catalog.
