# A specification of the agent's exports

The agent runs on a customer's machine. It receives requests from the backend,
asks integrations (github, jira, ...) for what is new, writes the objects to
files, uploads them, and remembers how far it got. These TLA+ modules model the
parts of it whose correctness depends on the order of steps: queues and
goroutines, files that must survive a kill, pages that are listed while objects
change, requests that are retried, and state that is saved in one place and used
in another. TLC checks them on small instances, TLAPS proves the main invariants
for every value of the constants.

Paths below are relative to `src/`; `PROJECT.json` maps every definition to the
lines it models, and lists the runs, the theorems, the hazards of the code with
the properties that cover them, and the two disagreements that runs show.

    tlc -workers 2 -config FsQueue.cfg MCFsQueue      # one run
    tlapm FsQueueProofs.tla                           # one module's proofs


## 1. The system

| Component | Code | State | Operations |
|---|---|---|---|
| Supervisor | `cmd/cmdrun`, `pkg/pservice` | retry count, crash files | restarts the service whenever it ends; writes its stderr and a metadata file if it crashed |
| Service and its handlers | `cmd/cmdrunnorestarts/run.go`, `*_events.go` | subscriptions, onboarding counter | start-up (updates, crash reports, pings), one handler per kind of event |
| Export queue | `exporter/run.go`, `exporter/fsqueue` | `export_queue.json`, pending map, channel, waiters | save and forward a request, export it, forget it, replay what is left after a restart |
| Exporter | `exporter/exporter.go`, `state_dir.go`, `events.go` | running flag, backup directory | merging of the integrations, backup/restore of the progress, export subcommand, upload, answers |
| Subcommands | `subcommand/` | map of processes | run a subcommand, cancel it |
| Validation, onboarding, mutation | `cmdvalidateconfig`, `cmdexportonboarddata`, `cmdmutate`, `pkg/iloader` | output, parameter and log files | start an integration, call it, end it, report its panics, answer |
| Export subcommand | `cmd/cmdexport` | sessions, last processed positions, store of sent objects | integrations in parallel, then git, saves, check for unfinished files |
| Export sessions | `pkg/expsessions` | sessions, temp files, uploads dir | open, write, done, rollback, deduplication, progress tracking |
| Session senders | `integrations/pkg/objsender` | batches | send, done, rollback, on the side of the integration |
| Project pool | `integrations/pkg/repoprojects` | results, failure count, fatal error | workers that export one repo or project after the other |
| Integrations' exports | `integrations/*/integration.go` and beside it | sessions, goroutines, channels | what is exported in which session and order, for the organization and for each project |
| Listings | `integrations/*/api` and their callers | offset, checkpoint | pages of what has changed since the last export |
| Clients | `integrations/*/requests.go`, `requester.go`, `pkg/requests`, `pkg/oauthtoken` | retries, slots, token | http requests, retries, pauses, new tokens |
| Pull request pipeline | `integrations/github`, `integrations/bitbucket` | channels, error under a mutex | list pages, copy them to exporters, drain them after an error |
| Git processing | `slimrippy` | checkpoint per repo | commits and branches from the commit graph |
| Webhook subcommand | `cmd/cmdwebhook`, `webhook_events.go` | the same progress files | exports one repo, passes the payload on, answers with the objects |
| Updater, crash sender | `updater/`, `crashes/` | binaries, backups, crash files | replace the binaries; send and remove crash files |
| Log sender | `logsender/` | channel, buffer | upload log lines |

They interact like this. The supervisor starts the service, which replaces its
binaries if it is told to, sends what crash files there are, and subscribes. The
backend's export request comes through a subscription to the queue, which saves it
and hands it to one worker goroutine. The worker calls the exporter: it backs the
progress files up (or restores them, when a backup is left from an export that did
not get to its end), starts the export subcommand as a process, uploads the files,
deletes the backup and answers. The subcommand starts the integrations as
processes; each lists what has changed with its client, and calls back over rpc to
open sessions and to write objects, for its projects with a pool of goroutines.
Cancel, webhook, validation, onboarding and mutation requests arrive in goroutines
of their own while an export runs: one signals the export's process, another runs a
subcommand that reads and writes the same progress files, all may write the same
log file of an integration. Everything that is logged goes through the log sender.

**What is hard.** Kills at any point (an update, a crash, a cancel request, a
panic in an integration, a reboot) with state in seven files and two binaries;
goroutines that share maps, channels and tokens; progress that is saved before what
it covers was delivered; objects that move in a listing while its pages are
fetched; sessions whose file and checkpoint are written in several calls; and error
paths of pools, pipelines, retries and exports that only run when several things
happen at once. The repository's tests run one component with one goroutine and
without faults; none of this is in their reach.

**What makes each part correct**

- queue: an accepted request is exported although the service is killed, once per
  process, and no bookkeeping of one request is used for another;
- answers: each project that is asked for is exported once, by an account that may
  read it; the backend is told of each request, once, and the truth;
- exporter and its subcommand: what the next export skips was delivered; a failed
  export is repeated from where it started; everything is delivered in the end;
- listings: no change falls between two checkpoints;
- clients: a call ends, is tried as often as allowed, and returns what the service
  has or an error; a token that expires once fails nothing;
- exports of the integrations: no session is left, nothing is left out without an
  error, no goroutine outlives the function;
- git processing: each commit is sent once; what is said of a branch is true;
- webhooks: they may run at any time without disturbing the exports;
- other requests: a success is one, a panic is reported, no process is left;
- cancellation: it ends the export it found, no other, and never leaves one
  without anybody who waits for it;
- sessions and pool: a checkpoint means that everything up to it is in a finished
  file; a project that failed leaves nothing behind; the results tell the truth;
- pull requests: the function ends, and no page is lost without an error;
- supervisor and updater: the service comes back, with binaries that fit each other,
  and crashes are reported;
- log sender: lines arrive in order, and no writer waits for ever.


## 2. The modules

| Module | What it is |
|---|---|
| `DurableQueue` | what the agent promises about export requests |
| `FsQueue` | the queue and its goroutines; `FsQueueProofs` |
| `ExportAnswers` | export requests from their arrival to their answers; `ExportsProofs` |
| `IncrementalExport` | exports in sequence, their files, webhooks beside them; `IncrementalExportProofs` |
| `Subcommand` | the export's process and its cancellation; `SubcommandProofs` |
| `BackendRequests`, `IntegrationRequests` | validations, onboardings, mutations and webhooks; the calls each integration makes for them; `SubcommandProofs` |
| `ProjectPool` | workers, senders and session manager; `ProjectPoolProofs` |
| `ExportPlan`, `IntegrationPlans` | the Export of an integration with its goroutines; the steps of each of them; `ExportsProofs` |
| `PullRequestPipeline` | the pipeline of github and bitbucket; `PullRequestPipelineProofs` |
| `Listing`, `IntegrationListings` | pages of objects that change meanwhile; each listing of each integration; `ExportsProofs` |
| `Requests`, `IntegrationClients` | calls over http; each client; `RequestsProofs` |
| `RepoCommits`, `RepoState` | the commits of a repo and the checkpoint from export to export; the state of both, for those that use them; `ExportsProofs` |
| `History` | what an export says of the repo's branches, on top of `RepoCommits`; `ExportsProofs` |
| `Walks` | the walks through the graph of commits, as the code does them |
| `ServiceLifecycle` | supervisor, start of the service, updater, crash files; `ServiceLifecycleProofs` |
| `LogSender` | the log on its way to the backend; `RequestsProofs` |
| `MC...` | what TLC checks: each extends, or instantiates, the modules its runs are about |

How they fit together: `FsQueue` takes an export for one step, which
`ExportAnswers` divides into those the backend sees, and `IncrementalExport` into
those that touch files; there the subcommand is a sequence of sessions, whose inner
steps are `ProjectPool`, `ExportPlan` and `PullRequestPipeline`. In these a list of
objects is one step, which is `Listing`, where a page is one step, which is
`Requests`. Each module assumes of the one below what that one's properties say,
and lets its steps fail where that one may fail.

Four modules are of data. `IntegrationListings`, `IntegrationPlans`,
`IntegrationClients` and `IntegrationRequests` describe what the integrations do as
records and sequences of steps, an operator for each function of theirs, and TLC
checks the module that executes them with all of them. What is known to go wrong
with one of them is a field of its description (`leaves`, `misses`, `leaks`,
`hangs`; `since`, `pages`, `dates`, `shift`; `loses`, `panics`, `empty`), which the
properties name as an exception, so that the exceptions are few and can be read.

Four of the `MC` modules hold components that share no state: `MCSubcommand`
(`Subcommand` or `BackendRequests`), `MCExports` (`ExportAnswers` or `ExportPlan`, and in
a run of its own `Listing`), `MCRequests` (`LogSender` or `Requests`) and `MCRepos`
(`PullRequestPipeline` or `RepoCommits` with `History`). A behaviour is
of one of them, as its variable `part` says; the other ones stay as they are. It is one
run instead of two, no composition. `SubcommandProofs`, `ExportsProofs` and
`RequestsProofs` extend the `MC` module, so that they can speak of all its components;
what they prove holds for all values of its constants.

Operators named `Action_Something`, marked "A bug to catch", are variants of the
definition before the underscore with a plausible mistake. No specification uses
them; each property of a passing run has one that violates it, so the property
says something about the code.

### FsQueue

The three goroutines of `Exporter.Run` and one waiter per forwarded entry.
`file` is `export_queue.json`; `pending`, `idgen`, `replaying`, `toReplay` and
`sending` are the fields and the program counter of `Queue.Run`, which holds the
mutex of the queue during the replay; `forward` is the buffered channel of
`forwardRequests`. `Start` is `New` with `readData`, which takes `idgen` from the
largest id in the file. `AddData` saves before `Send` forwards; `HandDone` is the
worker's signal to a waiter, which needs the mutex in `DataDone`. A failing save
leaves the memory changed and the file as it was (`AddDataFails`,
`DataDoneFails`). `Crash` may happen in every state and leaves the file only.

`DurableQueue` knows nothing of processes, ids or channels: requests are held from
acceptance until they were exported at least once. `Abstract` maps what is in the
file to what is held.

### ExportAnswers

A request is rejected (too old, or it cannot be converted) or queued, taken,
announced, exported, uploaded, cleaned up after and answered; every step may fail
and every publishing of an answer may be lost, after which the request is taken for
done. `Crash` leaves it in the queue, to be exported again. `Started` is what the
subcommand gets: the integrations of the configuration file and of the request,
without projects an earlier one already has (`Deduped`), and with those of one
account merged (`Merged`, `AuthToString`). It is a function from numbers in the list to
integrations, whose projects are a function from the places that asked for them: which
comes first is in the numbers, and no list is built. A request without upload url panics
(`UploadPanics`).

### IncrementalExport

One export after the other, each step of which the process may be killed at.
The objects of a key (a model of an integration, or a git repo) are numbered as
they are created; a position in `last_processed.json` (`lp`) or a checkpoint of a
repo (`cp`) is such a number. `MakeBackup` ... `RestoreCp` are
`backupRestoreStateDir` file by file; `Cleanup` empties uploads and temp files;
`Load` starts the subcommand; `SessionDone`, `RepoDone` and their failures are
what it does for a key; `SaveLp` and `SaveDedup` write the files; `CheckTemp` is
the check for unfinished files, with which a session that was left open fails the
export; `Upload` and `DeleteBackup` end it. `Interrupt` is a kill, a panic or a
cancelled export. With `TornCopies` the kill may also hit the copy of a file.
A webhook is `HookStart` (reads the positions of all keys), `HookExportsRepo`
(moves the repo's checkpoint), `HookSaves` (writes all positions as they were
read), `HookAnswers` (delivers the objects).

### Subcommand and BackendRequests

`Subcommand` is the map `processes` that the exporter and the handler of cancel
requests use without a lock. `removeProcess`, which both call, is three steps: look
the name up, delete it, signal the process id that was found; so the two may
overlap. Process ids are handed out again. What `Run` reports depends on whether
the entry is still there when the process has ended (`Check`, `result`).

`BackendRequests` follows the requests of the other handlers: the parameter file,
the subcommand, the log file that is created anew for each start of an integration
and shared by requests with the same id (`log`, `LogName`, `torn`), the calls one by
one, the clone of a validation, the end of the integration with the report of its
panic, the output file and the answer. `fault` kinds may each hit a request once.
`Together` of `MCSubcommand` says which operations are checked side by side: two
that write one log file.

### ProjectPool

`Process.Run` step by step for each worker: take a project, look at the shared
error and failure count, call `ProjectFn`, count progress, report, end the
sessions one by one, or roll them back. `ProjectFnStep` stands for the
integrations' code: open a session of a model, through the `ProjectCtx` or (for
the models in `Inner`, as jira does for comments) beside it, send objects in
batches, end inner sessions, succeed or fail at any point. The session manager is
`sessions`, `uploads`, `leftTemps` and `checkpoints`: `Manager.Done` turns a temp
file into a finished one and sets the checkpoint, `Rollback` removes it. Files
are the sequences of the objects' numbers, so a batch that is lost, doubled or
flushed late shows.

### ExportPlan

A plan is the sequence of steps of each goroutine of a function, each with the
session it is about and what may happen on an error: it is returned, only logged,
taken for the end, or leaves something undone. `Give`, `Close`, `Receive` and
`Answer` are the channels between them. When the main one has returned, `Return`
does what the pool does with the sessions of a project, and `CheckFiles` what the
agent does with an integration that left a file.

### PullRequestPipeline

One action per statement at which a goroutine may wait: receiving or sending on a
channel, the mutex of `setErr`, the wait group. `stage` says which of the
channels a drain is at; `setErr` reads each until it is closed, one after the
other. `ExportFails` may happen to any exporter on any page. `Blocked` is the state that
the function does not leave: the feeder waits for room in a channel that nobody reads, and
the goroutine with `errMu` for another one to be closed, which the feeder would do.

### Listing

Objects are created, updated and deleted by others at any time; an export asks for
one page after the other, in the order, with the offset or cursor and since the
time that the listing's description says, and ends as the code does: at a short
page, an empty one, an object it knows, or the first error. `second` is the time as
services tell it, `lp` the checkpoint, which is the start of the session, and `AskedFor`
what becomes of it in the request: the same, or for azure's work items and sonarqube's
measures another time on hosts whose zone is not UTC (`shift`). `unsent` are the objects
whose current version was never exported.

### Requests

Calls that run side by side and share slots, a token and what the backend was told
of pauses. `Answered` is any answer of the service, as often as it likes; `Retried`,
`Throttled`, `Unauthorized`, `Failed` and `Panics` are what the clients do with it, in
terms of their description. The service may refuse any token, also one that is new: its
access was revoked, or is not enough. The client cannot tell this from a token that has
expired; `denied` remembers it for the properties. `Refresh` is a new token, got by several
calls at once or only by the first within a minute.

### RepoCommits and History

The repo is any graph that grows by commits and merges, with a default branch and
another one that may be made, moved back or deleted, between exports. `RepoCommits` is
what an export reads, sends and keeps in the checkpoint. `Fail` is an export that cannot
list the branches: its commits were sent. What fails after that, writing the checkpoint,
and before it, reading the repo, are left out.
What a walk visits is said without walking, as the least set with the first commit that
is closed under what the walk goes on with (`Reach`): the parents, or none at the commits
where it stops. `History` adds what is made of the graph for a branch, as sets of commits
with their heads; the order of `Commits` is left out. The walks themselves, recursive and
with their visited sets and order, are the operators of `Walks`. TLC compares them with
`History` for every graph of four commits, every pair of heads and every set to stop at
(`WalksAssumption` of `MCRepos`): what is visited, that the last commit of a branch is the
last of its list, and the marks of `dedupLinearFromHead`.

### ServiceLifecycle

One version of the agent and of its integrations each, in place, as a backup and as
asked for; every rename of the updater is a step, after which the service or the
machine may stop. The supervisor writes a crash file and then its metadata;
the service sends and then removes those it finds when it starts. `Delay` is the
delay between restarts, with the width of the conversion to an integer.

### LogSender

The channel, the buffer of the goroutine that reads it, and its uploads. `Write` is
the step that may wait for room, with the mutex of the logger. `Close` closes the
channel first; `CloseRest` waits for the goroutine and uploads the rest, while other
parts still log.


## 3. What is checked

TLC explores the whole state space of each instance. Bounds are the constants named
`Max...`, and the sets and numbers of a cfg.

| Run | Instance | Shows |
|---|---|---|
| `queue` | 3 requests, channel of 1, 2 kills, 1 failing save | `EveryEntryTracked`, `AtMostOncePerBoot`, `ServedInOrder`, `AcceptedIsExported`, and that it implements `DurableQueue` |
| `incremental` | a model and a repo with 2 objects each, 3 faults | `NothingSkipped`, `ChangedUnderBackup`, `EverythingDelivered` |
| `incremental_hooks` | webhooks of the repo, 1 failing, no failing export | `OthersDelivered`: the keys without webhooks are delivered; that nothing of them is skipped is proved (`SkipsNothingBeside`) |
| `incremental_dedup_loses` | the store of sent objects, 1 fault | violated `EverythingDelivered` |
| `cancel` | 3 exports, 3 cancel requests, 2 process ids | `NeverRefused`, `CancelledAfterRequest`, `CancelEnds` |
| | or any request of the other handlers, or 2 that share a log file; 2 faults | `OutcomeTrue`, `RequestsEnd` |
| `pool` | 3 projects, 2 models, 2 workers, batches of 2, 1 failing call | `CheckpointedIsUploaded`, `Settled`, `LeftOutForAReason`, `RunReturns` |
| `repos` | 3 exporters, channels of 2, 4 pages | `QuietAfterReturn`, `OkMeansExported`, `PullRequestsReturn`: the function returns, or is `Blocked` |
| | or every graph of 4 commits with 2 branches, 1 pull request, exports that fail | `CommitsTrue`, `BranchTrue`, `PullRequestsSent` |
| `pull_requests_stuck` | the same exporters, channels and pages | violated `Returns` |
| `listing` | every listing, hosts in UTC, west and east of it, 3 objects, pages of 2, a "minute" of 3 seconds, 4 seconds, 1 fault | `NothingMissed`, `EverythingSent` |
| `exports` | every plan, 2 failing steps | `SessionsSettled`, `PlanReturns` |
| | or 2 requests of every content, 2 failures or crashes | `StartedRight`, `AnswersTrue`, `ExportRequestsEnd` |
| `service` | 2 versions, 3 crash files, 2 failures, crashes or stops, 2 requests | `BinariesKept`, `UpdatesKept`, `CrashesDelivered`, `ComesBack` |
| `requests` | every client, 2 calls, 1 slot, a token that expires once, any answers | `EndsForAReason`, `Resumed`, `CallsEnd` |
| | or 6 lines of 2 goroutines, channel of 2, 2 failing uploads | `LinesKept`, `WritersGoOn` |

Some of these properties are conjunctions of named parts, each stated by itself in
the module: `Settled`, `OutcomeTrue`, `SessionsSettled`, `StartedRight`,
`AnswersTrue`, `BinariesKept`, `UpdatesKept`, `CrashesDelivered`, `EndsForAReason`,
`LinesKept`, `CommitsTrue`, `BranchTrue`. The type invariants are among the parts, or
proved (section 5). `NothingLost`, `HolderDrains` and the types of the other modules
are proved and no longer part of a run; `NothingLost` is what `DurableQueue` says of
`held`. The lengths of the delays between restarts are an assumption of
`MCServiceLifecycle`, `WaitsLonger`, which TLC evaluates; so is what the walks of the code
visit, `WalksAssumption` of `MCRepos`.

**Why the bounds are enough.** The code treats all requests, keys, projects, pages
and objects alike, so what matters is how many can be in different situations at
once. With three requests and a channel of one entry, one is exported, one waits in
the channel and one blocks `Run`; two kills give an entry that is replayed twice. With
three faults an export may fail, fail again while it is repeated from the backup,
and be killed in the restore. Two objects per key separate "nothing", "some" and
"all". Two process ids are the fewest with which one is used again while another
is still known. Of the three projects two are exported while the third waits or
is left out; a model with two objects fills a batch exactly, one with one object
does not. Three pages fill a channel of two and leave one in the hand of the
feeder; the fourth is the one for which it finds no room, so that both ways on, the drain
that frees it and the one that does not, are in the run. That one page less never blocks
the feeder is proved for all numbers (`EnoughRoom`).

Three objects and pages of two give a full page, one that is not full, and one
object that moves between them; four seconds with a minute of three are enough for
an object that changes before, in and after a page, an export that begins in the same
minute as the last one, and one that begins in the next; a zone is a second away from UTC,
as the code treats a shift of any size alike. Two failing steps let the second one hit the
handling of the first. Two export requests are one that is exported while the other waits,
each with up to two of five integrations: two accounts, a token that is renewed, two
definitions, a project asked for twice and none. Two versions and three crash files are an
update and a downgrade, and a crash in each of: before the update, during it, and after.
Two calls meet the same expired token and the same slot. Six lines fill a channel of two,
the buffer and the writers' hands, with two uploads between them. Four commits are the
fewest with a branch that is merged both ways; larger graphs, with two merges in one
branch, were not explored. Exports of the second commit may fail (`Failing`, `MaxInVain`):
one that went well comes before them, and the branches still have two commits to grow and
to move.

**Fairness.** Weak fairness of every goroutine's next step is what the Go
scheduler gives; a mutex or channel that stays available is taken in the end. Faults
are never fair: a save, a session, an upload may always succeed, and their number is
bounded, as delivery cannot be expected from an upload that fails for ever.

- `FsQueue`: also of `Start`, which is the supervisor's restart loop.
- `IncrementalExport`, `Listing`: the backend requests exports again and again, and a
  process that is not hit by a fault goes on. Nothing is assumed of the creation of
  objects, the arrival of requests, `--reprocess-historical`.
- `Subcommand`: the exporter's goroutine and the canceller's. Nothing is assumed of the
  end of an export's process, which only a cancel request can bring about.
- `BackendRequests`: each request's own goroutine and process, while the service is up.
- `ExportPlan`: each goroutine; a request to a service ends (`CallsEnd` of `Requests`).
- `ExportAnswers`: the goroutine that exports; an export ends, and publishing has a
  deadline of fifteen minutes.
- `ServiceLifecycle`: the supervisor, and the service's start and updates.
- `LogSender`: its goroutine and the writer; an upload ends after two minutes.
- `Requests`: every pause ends and every request is answered. Strong fairness is used
  for the slots, which a Go channel gives in the order of waiting, and for the answers
  other than "abuse": the service does not answer with that for ever.
- `PullRequestPipeline`: each goroutine; the requests of the listing and of the exporters
  end, with or without an error (`CallsEnd`).
- `DurableQueue`, `RepoCommits`, `History`: none, safety only.

**Where the system may stop.** Runs whose instance comes to an end when the bounded
requests, objects or commits are used up, or the one function that is modelled has
returned, say `CHECK_DEADLOCK FALSE`: `cancel`, `exports`, `listing`, `requests` and
`service`; so do `repos` and `pull_requests_stuck`, where the pipeline really gets stuck
(`Blocked`). That a goroutine is stuck shows there as a violated `CancelEnds`,
`RequestsEnd`, `PlanReturns`, `ExportRequestsEnd`, `EverythingSent`, `CallsEnd`,
`WritersGoOn`, `ComesBack` or `PullRequestsReturn`. The other modules stutter when all is
done (`Idle`), so that TLC's check for deadlocks stays on.


## 4. What the code does otherwise

Two runs are expected to violate their property; `findings` in `PROJECT.json` quotes what
the code says of it.

- `incremental_dedup_loses`: objects are marked as sent when they are written to a session;
  the marks are outside of the backup. After a rollback or a failing upload the retry
  filters the objects out.
- `pull_requests_stuck`: an exporter that fails drains the channels one after the other,
  each until it is closed (`github/integration.go:641`). Its own channel is read by nobody
  meanwhile; when it is full the feeder waits for room in it, closes no channel, and
  `exportPullRequestsForRepo` never returns (`Returns`). The channels hold ten pages, so a
  repo with twelve is enough. `PullRequestsReturn` says that this is the only way not to
  return.

The rest is what the models showed, or had to name as an exception of a property. A
constant in parentheses is the value with which TLC shows a property violated.

*Exports.* A backup counts as complete from the creation of its directory on, so that a
kill during the copy makes the next export restore half a file over a good one
(`TornCopies = TRUE` and `MaxFaults = 1` in `Incremental.cfg`, `EverythingDelivered`). A
webhook moves the checkpoint that it shares with the exports before its answer is
delivered; when it fails later nobody sends the commits (`EverythingDelivered` with the
constants of `IncrementalHooks.cfg`), and one that runs while an export fails writes
positions back that the restore had taken away (`MaxFaults = 1`, `MaxHookFaults = 0`).

*Cancellation.* A cancel request that is slow between lookup and delete removes the
entry of the next export, which is then reported as cancelled when it fails: hence
`CancelledAfterRequest` speaks of this export or one before it.

*Answers.* Results are stored under the name, the type and the id of an integration and
looked up by its id (`events.go:68`): each is reported as incremental and without
error. An inverted test loses the git errors of projects (`exporter.go:204`). A request
without upload url is dereferenced before it is checked; the service panics, and the
queue replays the request at each start: nothing behind it is ever exported
(`UploadPanics`, the exception of `ExportRequestsEnd`). Merged integrations keep the
exclusions of the first one only; an integration of the configuration file that lists no
inclusions never runs. A deadline is checked when a request arrives, not when it is
replayed. The check at `exporter.go:234`, whose error would be answered as a success, is
never met: integrations without inclusions were left out before (`Wanted`), and one
without id or name fails in `AuthFromEvent` (`inconfig/config.go:73`), which is answered
(`Prepare`).

*Project pool, pull requests.* A worker ends with its first failed project, so that a run
with concurrency one leaves out everything after it, without an error: the third case
of `LeftOutForAReason`. Sessions that an integration opens beside the `ProjectCtx` are
not rolled back with their project (`Inner`). The error of the listing of pull requests
may come after the function has returned success (`listErr` in `OkMeansExported`).

*Exports of the integrations.* gitlab's issues and comments may wait for each other for
ever (`hangs`); the goroutine of gcal's users ends their session after the function may
have returned (`leaks`); bitbucket leaves the session of a workspace's users when it may
not read them, and the agent refuses the whole export (`leaves`); gitlab, bitbucket and
azure log errors of lists and set the checkpoint all the same (`misses`). Users are
marked as sent before they are, in jira and github, so that the next project does not
send them when this one is rolled back.

*Listings.* jira's window is minutes, rounded and computed anew for each page; azure's
pull requests are listed by their creation only; commits have the date their author
gave; some lists are read up to their first page; an offset into a list from which an
object was deleted skips another. The checkpoint is in the local time of the host: the
query for azure's work items marks that as UTC (`azure/api/work_issue.go:15`), and the one
for sonarqube's measures turns the sign of a zone that begins with `+0`
(`sonarqube/api/common.go:102`). East of UTC both ask for what has changed since hours
after the checkpoint, and changes between the two are not exported until there is another
one. `Reliable` names all of these; without its `listing.shift <= 0` TLC shows
`NothingMissed` violated.

*Clients.* `NewRetryableDefault` never retries: the two durations are swapped
(`requests.go:112`), and a retry would read a body that is closed; without a response
there is a nil dereference (`requests.go:199`). bitbucket returns a page that cannot be
decoded, and one that is not found, as an empty one; gitlab retries 401 and 404 at once;
github's "abuse" is retried without limit, and so is a request of office365 whose token is
refused: it gets a new token each time and counts nothing (`office365/api/common.go:97`).
Only while the service goes on with that, a call does not end (`CallsEnd`). The first call
that goes on after a pause says so for all (`Resumed` holds in one direction only). gcal
and office365 decode the answer that comes after a new token into the request.

*Git history.* A branch that is merged into a default branch without a merge commit,
or made there, gets the whole history as its own, where the comment at
`slimrippy/internal/branches/process.go:51` says "Does not include commits that were on
master before it was created"; with merges in the default branch
`BehindDefaultCount` counts commits that the branch has, where the comment at line 58 says
"the number of commits on master that are not in this branch": with 1 - 3 on the default
branch, 1 - 2 - 4 on the other and 2 merged in 3, the branch lacks 3 and is told to be
behind by two (hence `Linear` in `BehindByMissing`); of two pull requests with the
same last commit one is exported and both are noted as seen; so is one whose commit the
repo lacks; a change of the default branch alone is not noticed. When the branches of a
repo cannot be listed, its commits are sent again by the next export (`inVain`).

*Service.* With `PP_AGENT_UPDATE_VERSION` set to the version of the agent, missing
integrations are never installed (`run.go:141`). A panic of Go has exit status 2, which
the supervisor does not take for a crash: its file gets no metadata and is never
reported (`cmdrun/run.go:109`). A second rename that fails and is retried deletes the
backup, and what restores it is never reached (`updater.go:260`). An export may start
between the update's check and its restart. After thirty failing starts, 23 hours, the
next delay is none. The closers of the service close the log sender first; what other
parts log then panics. The service's log has no timer: the last lines wait for the next
one; a writer that waits for room holds the mutex that all loggers share.

*Other requests.* A change that was made may be answered as a failure, when the issue
cannot be read again or the integration not be ended. An integration runs on after a list
it does not support or a clone url that is not valid (`EndedWithRequest`). Log files are
shared: "0" by validations and mutations of one integration, "id1" by webhooks; a panic in
one that was created again is lost (`PanicsReported`). When the parameter file cannot be
written the service panics. An onboarding with an error is not answered. `TestClone`
returns at once (`test_clone.go:9`). The webhooks are always "github"'s.


## 5. What is proved

The theorems hold for every set of requests, keys, projects, workers, models, process
ids and goroutines, all capacities, batch sizes and numbers of objects, lines and
faults. The assumptions are the named `ASSUME`s of the modules: numbers are natural
numbers, a channel or batch has room for one, null values differ from real ones, and
the sets of projects and workers are finite. Four are about the descriptions of the
integrations, which TLC evaluates for each of them: `RequestsAssumption`, that the
calls of an operation of `BackendRequests` are of the known kinds and only reading is
gone on after when it fails (`OperationsAssumption`); `ClientsAssumption`, that a client
of `Requests` is one of `IntegrationClients`; `SoundAssumption`, that a listing is
`Sound`: it asks for changes after the checkpoint only if dates tell them apart, ends at
an old object only if the latest update comes first, and uses offsets only if an update
does not move an object towards the end; and `SettlesAssumption`, that a plan
`Settles`. That is a condition on the text of a plan, not on its runs: helpers are waited
for, with nothing between their start and the wait that could leave the function, unless
the plan is known to leak (`Quiet`); a session is ended on every way on which the function
returns no error (`Closes`), or opened in the context of the pool (`Pools`), or never
written to (`Unused`); a step that leaves objects of a session out fails the function, and
comes before the session's end (`Fails`). All plans of the integrations meet it but for the
sessions in their `leaves` and `misses`.

| Theorem | Says |
|---|---|
| `FsQueueProofs!TypeCorrect`, `NothingIsLost` | types; an accepted request is in the file until it was exported |
| `FsQueueProofs!EntriesTracked` | every entry is at exactly one place on its way, and has its waiter |
| `FsQueueProofs!OncePerBoot`, `ServedInTheirOrder` | at most one export per start of the process, in the order of saving |
| `FsQueueProofs!Refinement` | every behaviour of the queue is one of `DurableQueue` |
| `ExportsProofs!NothingIsMissed` | no change of an object falls between two checkpoints, whatever changes while pages are fetched |
| `ExportsProofs!SessionsAreSettled` | an Export leaves no session open and no checkpoint beyond what was sent, and none of its goroutines runs on, whichever steps fail and however the goroutines interleave |
| `ExportsProofs!RightIsStarted` | what is started for a request has each project that it or the configuration asks for once, by an account that asked for it, and no account twice; types |
| `ExportsProofs!AnswersAreTrue` | a request is answered, once but for interruptions, and success only after a complete upload |
| `ExportsProofs!CommitsAreTrue` | each commit of a repo is sent once from export to export, but for exports that fail, however the branches move; the graph of the checkpoint is complete; a skipped export has nothing to send; types |
| `ExportsProofs!BranchesAreTrue` | the commits, fork points and distance that are sent of a branch are what their definitions say, and an export that is skipped leaves nothing untrue |
| `ExportsProofs!WalksVisitReach` | a walk over any graph that has the parents of its commits, in whichever order it goes on, has visited what `Reach` says when nothing is left |
| `ExportsProofs!PullRequestsAreSent` | a pull request is noted as seen only by an export that sends a branch that ends at its last commit |
| `IncrementalExportProofs!TypeCorrect` | types; no export is under way without a backup |
| `IncrementalExportProofs!SkipsNothing` | without webhooks and the store of sent objects: the state the next export starts from covers delivered objects only |
| `IncrementalExportProofs!SkipsNothingBeside` | the same of keys without webhooks, whatever webhooks of others save and wherever they fail, while no export fails |
| `IncrementalExportProofs!ChangesUnderBackup` | but for webhooks: progress changes only under a backup |
| `SubcommandProofs!TypeCorrect`, `NeverFindsAnother` | a signal is sent only for an entry that was found; `addProcess` never fails, and every running process is waited for |
| `SubcommandProofs!CancelledOnlyAfterRequest` | an export is reported as cancelled only if a cancel request found it, or one before it |
| `SubcommandProofs!OutcomesAreTrue` | of the other requests: a success is one, panics are reported, no integration is left, with the exceptions `OutcomeTrue` names |
| `ProjectPoolProofs!TypeCorrect`, `CheckpointMeansUploaded` | a checkpoint is set only when one finished file has every object, each once and in order |
| `ProjectPoolProofs!ProjectsAreSettled` | the results are true, and only inner sessions of failed projects are left |
| `ProjectPoolProofs!LeftOutOnlyForAReason` | projects are left out after a fatal error, too many failures, or one for each worker |
| `PullRequestPipelineProofs!TypeCorrect`, `HolderIsTheDrainer`, `QuietWhenReturned`, `MissedMeansError` | types; the mutex; nothing runs on after the return; no error means that every page was exported, or the listing failed |
| `PullRequestPipelineProofs!EnoughRoom` | the function is never stuck (`Blocked`) when there is at most one page more than a channel has room for |
| `RequestsProofs!TypeCorrect`, `LinesAreKept` | types; lines reach the backend in their order, none twice, and none is lost but by an upload that failed |
| `RequestsProofs!CallsEndForAReason`, `ResumedWhenAwake` | a call returns what the service has or fails for a reason; the backend knows when the last pause is over |
| `ServiceLifecycleProofs!TypeCorrect`, `BinariesAreKept` | types; the service runs with binaries of its version, or their backups are there |
| `ServiceLifecycleProofs!UpdatesAreKept`, `RemovedOnlyWhenReceived` | an update does not disturb the jobs it saw and is answered as what it is; a crash file is removed only when it was received |

**The arguments.** None of the invariants is inductive as it stands.

*Queue.* `NothingLost` needs to know that an entry is deleted only after its own
export: `FinishingExported` (an id that a waiter is about to delete belongs to a
request that was exported), `FileCoversPending` (the file has every entry of the
map), and, since an id in the hand of a goroutine must not be given out again,
`IdsBounded`, which after a restart comes from `MaxIdOf` and needs that the ids in
the file are bounded, `FileIdsBounded`. `DeadIsEmpty` says that a process that
does not run has no memory. The refinement adds `OnlyAccepted`: what goes through
the goroutines was accepted. Each step of the queue is then an `Accept`, `Export`
or `Forget` of the abstract one, or a stutter; the save of one request may bring
an earlier deletion to disk, which is why `Accept` takes a set with it.
`AtMostOncePerBoot` counts: an entry that this process has not exported has an export
left (`OneLeft`), and a request is in the map under one id only, because one that is
saved is new (`NewRequests`). For the order, `InOrder` says that on the way through the
goroutines the replayed ids come first, all of them at most `bootMax`, and then the new
ones in the order they were given out.

*Answers.* `Counted`: before it is answered, a request has as many answers as it was
interrupted, at most, and one more afterwards; `Uploaded`: from the end of the upload
to the answer "success" the request is among those delivered. What is started for a
request is a function from places in the list of integrations, so that nothing is said by
recursion over the list: a project is left at the least place that asks for it
(`AskedFirst`), an account at the least integration that uses it (`AccountFirst`), and the
least number of a set exists by the well-foundedness of `<` (`Least`). From that
`MergedRight` follows for any list, and `StartedInv` says whose list was taken.

*Listings.* `NothingMissed` is about the time between exports. During one, `Unsent` says
of each version that was not sent that it is ahead of the cursor, the offset or in the
ids (`ToCome`), collected, or so late that the next export takes it (`Later`); and that
this export takes it, for it may fail and leave the checkpoint as it was. A change makes
its object `Later`, for by `Times` no checkpoint is after the current second; it leaves
the other objects where they are, and none of them falls below an offset, as with a
listing in order of creation, or of the latest update, nothing moves from before an
object to behind it (`RankGrows`). A page takes the first of what is ahead
(`PageIsPrefix`), and ends the listing at an old object only if all behind it are older,
so that what is left of `ToCome` is collected or `Later`. That is where each rule of
`Sound` is needed.

*Plans.* What a step of a goroutine does is summed up by `Effect`: where the goroutine
goes, and what becomes of one session, object queue or channel; the invariant is proved
from that alone. `Returning` says that the function is at its end when it has failed or
returned, so that a helper starts once and before it. `Joining` gives `QuietAfterReturn`:
while an awaited helper runs, the function has only steps before it that lead to its wait.
A session that is to be ended by the function is still to be ended while it is open,
unless the function has failed (`Closing`), and no way of going on skips its end. One that
the pool ends is in its context, or was opened when the function had returned: then it is
empty, and nothing is left in the channel for it (`Pooling`, `TooLate`), as with the
comments of gitlab. `Ending` says that nothing of an ended session is left to be sent, so
that a step that fails finds its session open, and by `Missed` the function has then failed.

*Git history.* `RepoInv`: what was seen is what the graph of the checkpoint has, and with
a commit its parents were seen. So a walk that stops at what was seen misses nothing behind
it, and what was seen together with what an export reads has every head and is closed again
(`ReadClosed`): then it has all that is behind each head, since `Reach` is the least such
set. What is read was not seen, so a commit is sent once, and once more by each export that
has read it and failed (`inVain`). The repo grows by commits whose
parents are there (`GrowEffect`), and the heads of the last export were seen, so that
nothing is new when they have not moved (`ExportedSeen`). The hypothesis
`RepoAssumption`, that there is room for a commit, is asserted in `MCRepos`.

*Branches.* A walk does not leave a part of the graph that has all that is behind its
commits (`ReachSame`, `WalksSame`), and the graph of the checkpoint is such a part of the
repo by `RepoInv`. So what is made of it is what would be made of the repo (`BranchSame`),
no walk misses a commit (`CommitsFound`), and it stays so while the repo grows: `ToldInv`
says that of the heads at the last export. The rest is about any history in which parents
are earlier (`Acyclic`). The default branch without a merged one is closed under parents
but for the one's head, so that with the branch's own commits it has all that is behind the
head (`OwnFacts`). What is behind a commit is the commit and what is behind its parents, and
no commit is behind its parents (`ForkFacts`). The commits that a branch lacks are among
those that are counted, for the walk goes on from all others; when the default branch is
linear, a commit that is counted and not lacking would have behind it the commit at which
the two met, and be behind that one (`LacksFacts`).
That a walk visits `Reach` is proved of its single turns: the first commit was visited or
will be, all that was or will be visited is in `Reach`, and what is next to a visited
commit was visited or will be (`OnItsWay`, kept by `VisitsOnTheWay`). When nothing is left
the visited commits are closed, and `Reach` is the least such set (`WalksVisitReach`).

*Incremental export.* `Coverage` says for every place of an export which of the
files, the backup or the memory covers delivered objects only. What the
subcommand has collected counts as covered by the union of what was uploaded and
what lies in the uploads dir, unless a temp file is left that will fail the export,
and after the upload by the former alone; a failure or a kill returns to the backup,
which only moves when it is made anew from files that are covered. The two assumptions
are needed: section 4 says what happens without them. `Beside` is its counterpart beside
webhooks: the positions that a webhook holds, and may save at any time, cover what was
delivered or what an export has saved and not yet uploaded. Only if that export does not
fail is it delivered then: hence the assumption that none does.

*Cancellation.* `EntryOfCurrent`: an entry exists only between `addProcess` and the
removal at the end of the same export, and a running process is the one that the
exporter waits for. Cancel requests can only remove entries, so they do not
disturb it. `FoundByRequest` says who may have removed one: where the entry of the export
that runs is missing, a cancel request had found it, or one before it, for what a request
is about to delete is `wanted`.

*Pool.* `WorkerOK(w)` ties each sender of a worker to the session it opened: the
file of the session followed by the batch of the sender is the first `sent`
objects, and the key is one of the worker's own project and has no checkpoint yet.
`JobsOK` says that no two workers have the same project, which makes the workers'
sessions disjoint: `OtherWorkers` shows that a step of one leaves the invariant of
the others alone. When a session is ended everything was sent, so the file has
all, and it is the only file of its key. `ToldTrue` says that a reported success has a
checkpoint, or a sender that is about to get one, for each of its keys; `LeftInv`, that
an open session has a sender, or is an inner one of a project that failed; `ReasonInv`,
that until the run is stopped each worker that has returned while projects were left has
failed at one of its own, so that they can be counted against `failedCount`.

*Pull requests.* `ClosedAndEmpty` is what an exporter or a drain knows when it has
seen the end of a channel; `NoPageLost` accounts for every page that was listed:
each exporter has exported it, holds it, or will find it in its channel or in the
hand of the feeder, unless somebody has failed, and whoever has failed either has
set `rerr` or is one the function still waits for (`Failing`). `EnoughRoom` counts:
what is in a channel, and the page with which its exporter has failed, was sent there
(`Counted`); with the page for which the feeder finds no room in a full channel that is two
more than there is room for.

*Other requests.* The requests of the handlers share nothing but the log files, so the
invariant speaks of one: `Made` says how far the calls have got when it has not failed,
and that a change among them was made; `Ended`, in which states the integration still
runs, and `Left`, after which of them it is left; `PanicKept`, where the report of a
panic is until it is sent, in the log file or taken from there, unless another request
has created the file again. `Untouched` shows that a step of one request takes nothing
from the others but that file.

*Service.* `FilesInv` says which crash files are complete, still written, or being
reported, and that one is not sent more often than something failed in between;
`UpdaterInv`, that an update runs only in the process that was asked for it or was just
started, which part it is at, and that every job of that time began after it had looked.
`Matching` is what makes `Equipped` inductive: unless an update was interrupted after it
had replaced something (`torn`), the two binaries are of one version, or the integrations
are missing and the environment names a version; and the service is of that one.

*Calls.* `EndOK` gives every end its reason in terms of what a client does with an
outcome (`ClientOK`, the only thing the proof uses of the clients and proved for each of
them). That a token fails no call needs `Expiries`: a token that is not valid has
expired, and one that a call meets after it has got a new one has expired twice, unless
the service refused one that was valid (`denied`). Each
step is one call's, and `Kept` says what is enough for it, so that the others' ends keep
their reasons (`KeptInv`); the expiry itself is the step of no call (`ExpireInv`).

*Log sender.* What is sent, what is in the buffer, in the channel and in the writer's
hand ascend as one sequence (`AscendsConcat` divides it), and together with the lines
of failed uploads they are all lines; the writer has the last one.

**Not proved.** Liveness under fairness is out of TLAPS's reach and checked by TLC only:
`AcceptedIsExported`, `OthersDelivered`, `CrashesReported` and the others of section 3.
Every safety property of section 3 has its theorem. What a walk visits is proved of its
turns, which leave its order open (`WalksVisitReach`); that the recursive operators of
`Walks` take such turns and come to an end, the order in which they list the commits, and
the marks of `dedupLinearFromHead` would be inductions over graphs, and TLC evaluates them
(`WalksAssumption`).


## 6. What the models leave out

- *Data.* An object is its key and a number; that two objects have the same hash does
  not occur. The translation of the services' json, the mutations' contents and the
  lines of the log are abstracted.
- *Steps taken as one.* A call of the session manager (it holds a lock, except that
  `Write` looks a session up under it and writes outside, `expsessions/sessions.go:102`;
  `QuietAfterReturn` of `ExportPlan` says that nobody writes when sessions are ended);
  reading or writing a Go map; writing a file by a temp file and a rename; the loading
  and saving of one repo's checkpoint; the export of one page of pull requests. In
  `ProjectPool` a session is used by one goroutine.
- *One at a time.* The service handles one webhook and one cancel request at a
  time; the model of exports has one integration, whose keys end in any order.
- *Side by side.* Components that share an `MC` module are not composed; an update
  meets jobs, not the steps of an export.
- *Uploads.* The backend has all of an upload or nothing, and `UploadFails` may
  mean either. The dev channel, which skips the upload, is not modelled.
- *Projects.* All projects of an instance have the same models and numbers of
  objects.
- *Processes.* A kill of the service leaves an export subcommand running as an
  orphan; `Interrupt` ends both. Ids are used again by exports only, not by other
  programs.
- *Libraries.* The subscriptions to the backend's events, the rpc library, and the http
  client with retries of its own that gitlab and three more use, are taken to do what
  they promise.
- *Answers.* Which error or kind of export an answer names for an integration: the code
  looks them up under another key than it stores them under, and names none.
- *Not modelled*, with the reason in `components`: the progress tracker (counters that
  are only logged), the remaining subcommands (enrolment, checks of the machine), the
  cache of git clones and archives (runs of git and zip), configuration, generated code
  and the wrappers of operating systems.


## 7. What could follow

1. `ExpSessions`: sessions that several goroutines write to, as git processing does,
   with `Write` and `Done` overlapping, and tracking sessions.
2. `ServiceLifecycle` with the queue instead of `jobs`, so that an update ends an export
   that the queue then replays with the new binaries.
