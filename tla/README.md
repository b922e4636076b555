# A verification of batfish's servers and clients

Batfish analyses network configurations. A *coordinator* keeps a queue of
works and a pool of workers, assigns works to idle workers and asks after
them; a *worker* is a batfish process in service mode that runs one task at a
time; a *client*, in Java or in a web page, uploads what is to be analysed,
queues a work and polls for its end. This directory models that distribution,
what the coordinator keeps for the clients, and the clients, in TLA+, checks it
with TLC and proves parts of it with TLAPS. Paths are relative to the repository's root; `C/` stands for
`projects/coordinator/src/org/batfish/coordinator/`, `B/` for
`projects/batfish/src/org/batfish/`.

## The system

| component | state | operations | talks to |
|---|---|---|---|
| work queue, `C/WorkQueueMgr.java`, `QueuedWork.java`, `queues/MemoryQueue.java` | incomplete and completed queue; status, worker and last check of each work | queue, take for assignment, mark (success, failure, error), take for checking, process a check | called by WorkMgr |
| pool, `C/PoolMgr.java`, `PoolMgrService.java` | the believed status of each worker | add, delete, take for assignment, mark the result, refresh | HTTP `getstatus` of a worker |
| assignment and checking, `C/WorkMgr.java` | locals of the threads in `assignWork` and `checkTask` | queueWork, the periodic AssignWorkTask | queue, pool, HTTP `runtask` and `gettaskstatus` |
| worker service, `B/main/Driver.java`, `Service.java`, `Task.java` | `_idle`, `_taskLog`, the threads of a task | runTask, getStatus, getTaskStatus, registration | coordinator's pool service |
| start, `C/Main.java` | the static fields of the managers | mainRun | all of the coordinator |
| container store, `C/WorkMgr.java` (rest) | directories | upload, delete, list, get, put | file system |
| authorizers, `C/authorizer/` | caches, connection | authorize, check | database or files |
| Java client, `projects/batfish-client` | the current container, testrig and environment; the work it waits for | init, set, delete, answer, generate | `WorkMgrService` |
| web client, `projects/wwwroot/trybatfish.html` and `scripts/` | a list of calls for each click, polling timers, the page's globals and buttons, the zip file to be sent, the picture of the topology | startCalls, makeNextCall, callbacks, loading, highlighting | `WorkMgrService` |
| job executor, `B/job/BatfishJobExecutor.java` | futures | executeJobs | the analysis |
| analysis, `B/` (grammar, representation, logic, nxtnet, z3) | configurations | batch computation | files, solvers |

What is hard in it:

* One method of the queue, `getWorkForChecking`, takes no lock, while all
  others do.
* `assignWork` runs on several threads and holds no lock between taking a
  work, taking a worker, the request and the two marks; `checkTask` holds none
  between taking a work, the request and processing the answer.
* `refreshWorkerStatus` tests and writes the believed status in separate
  steps, around an HTTP request, on any number of threads.
* Requests fail with or without having had an effect, workers restart and
  forget everything, workers leave the pool and come back.
* A worker's task is run by a thread that waits for an inner thread with a
  deadline and stops it asynchronously; only `Exception` is caught.
* The periodic tasks are started by constructors, before the objects they go
  through are published.
* Uploads and deletions of the same name overlap on the HTTP threads, each in
  several steps on the file system, with no lock, and fail half-way.
* The database authorizer caches what the database said some time ago.
* Every click in the web page starts a chain of callbacks, several chains are
  under way at a time, and they share the page's globals; replies are lost and
  a restarted coordinator knows no work any more.

What makes the components correct is stated as the properties below. The
hazards, each at its line, with the properties about it, are listed in
`PROJECT.json`.

## Modules

| module | models | abstract specification |
|---|---|---|
| `WorkLifecycle` | what the queue promises of each work | |
| `WorkQueueMgr` | the queue, with the scheduler thread's check | implements `WorkLifecycle` |
| `WorkQueueMgr_proofs` | theorems about it | |
| `PoolMgr` | the pool and the refreshing threads | |
| `PoolMgr_proofs` | theorems about it | |
| `WorkerService` | what a worker promises the coordinator | |
| `Driver` | a worker, thread by thread | implements `WorkerService` |
| `Driver_proofs` | theorems about it | |
| `WorkMgr` | `queueWork`, `assignWork`, `checkTask`, composed with `WorkQueueMgr`, `PoolMgr` and `WorkerService` by INSTANCE | |
| `WorkMgr_proofs` | theorems about the composition | |
| `Startup` | the start of the coordinator | |
| `TestrigLife` | what the container store promises of a testrig | |
| `ContainerStore` | uploads and deletions, step by step | implements `TestrigLife` |
| `ContainerStore_proofs` | theorems about it | |
| `DbAuthorizer`, `DbAuthorizer_proofs` | the database authorizer and its cache; theorems | |
| `FileAuthorizer` | the authorizer that keeps a file | |
| `JobExecutor` | `BatfishJobExecutor.executeJobs` | |
| `Client` | the Java client | |
| `WorkClient` | the web page's chains of calls, with the testrigs of `TestrigLife` | |
| `ConfigInput` | how a configuration gets into the web page | |
| `Topology` | the picture of the topology and its highlights | |
| `MCParts_proofs` | theorems about `FileAuthorizer`, `JobExecutor`, `Client` and `Startup`, and about the parts side by side | |
| `MCWeb_proofs` | theorems about `WorkClient`, `ConfigInput` and `Topology`, and about the page as a whole | |

The `MC*` modules are what TLC runs, with symmetry sets where they are used.
`MCParts` and `MCWeb` each put parts that do not depend on each other into one
run: a variable `part`, fixed in the initial state, says which of them moves,
and the others stay in one initial state. The states are the sum of the parts'
and not their product, and every part is explored as it would be alone.
`MCWorkMgr` chooses in the initial state how many workers there are (`fleet`).

**WorkQueueMgr.** `incomplete` and `completed` are the two queues; `status`,
`assignedWorker` and `lastChecked` are fields of `QueuedWork`. A synchronized
method is one step: its thread holds the manager's monitor. Two things are
finer, because `getWorkForChecking` takes no monitor. Its scan of the list,
its test of a status and its write are steps (`BeginScan`, `ScanStep`,
`TakeForChecking`...), with the iterator's check for modification
(`ScanFails`); and `markAssignmentSuccess` is split between the two writes of
`QueuedWork.setAssignment`, with `monitor` standing for the lock held in
between. `checker` is the one thread that calls these methods, from
`getWorkForChecking` to the end of the check. What a check finds out is left
open in this module. That the mark methods are called only with a work the
caller holds is a guard here, and a result in `WorkMgr` (`OneHolder`).

**PoolMgr.** `pool` is the map (`ABSENT`: no entry), `handed` the worker each
assigning thread has, `refresher` the threads in `refreshWorkerStatus`: the
poller of `WorkerStatusRefreshTask` and the threads of registrations and
hints. Asking, testing and writing are separate steps; the ways in which a
request can end are those the code tells apart.

**Driver.** One worker. `handler` are HTTP threads in
`RunBatfishThroughService`, `job` the thread of each task, `batfish` the inner
thread, `exceptional` the flag by which it tells how it ended. A
`java.lang.Error` can be thrown where the code does not catch it (`StartFails`,
`LaunchFails`, `RunFails`), and the process can be restarted.

**WorkMgr.** The threads in `assignWork` (`assigner`), their run requests
(`request`, and `orphans` for those nobody waits for any more), the result of
the status request (`answer`), and which half of `AssignWorkTask` the
scheduler is in (`turn`). A request can fail before it arrives, after it was
served, or be on its way still. `reported` is a history variable: what workers
have logged. The workers are those of `WorkerService`, which `Driver`
implements, with all their steps, also that an Error leaves one stuck for ever
(`LoseTask`).

**Startup.** `Main.mainRun` step by step, the first runs of the two periodic
tasks, and workers that register meanwhile.

**ContainerStore.** A container, a testrig in it and an environment in that;
`dirs` are the directories, `raw` and `moved` the uploads whose files are where
they were unzipped or where they belong. `uploadTestrig` and
`uploadEnvironment` are the same steps on different directories: the tests,
`mkdirs`, unzip, listing, move, and for a testrig the default environment.
`FileUtils.deleteDirectory` is two steps, the files and then the directory,
which fails when something has come in between. An upload may fail at every
step after `mkdirs`, and leaves what it has made. `TestrigLife` is the testrig
as clients see it; the web client runs on that specification.

**DbAuthorizer.** A request looks into the cache, asks the database and writes
the cache, each a synchronized step, with other requests, the clock and an
administrator who revokes permissions in between. All tries of a statement may
fail, and a try may fail although it has made the row. `MaxLag` bounds the time a
request takes from the database's answer to its entry in the cache: without any
such bound no entry is ever too old.

**FileAuthorizer** has the monitor of `authorizeContainer`, and the file that
`FileUtils.write` empties before it fills it.

**JobExecutor.** The caller's rounds over the futures (the jobs may be
shuffled, so their order is left open), the threads of the pool, and the four
ways in which a job ends: with a result, with one whose host name another
result has, with the cause of a failure, or by an exception.

**Client.** The commands that change the current container, testrig and
environment, or hand a work to the coordinator, request by request; each
request may fail with or without having had an effect. The coordinator is
reduced to directories and to what was parsed. Nobody else uses the containers
of this client.

**WorkClient.** `calls[e]` is the list of calls of entry point `e`, `turn` the
entry point for which the script is running (the page's script runs to
completion), `requests` what is on its way, `timers` the entry points that are
about to poll. Buttons can be clicked whenever they are enabled. The
coordinator serves requests in any order, takes works for any testrig that has
a directory, and may restart once; a reply can be lost, and a request fail,
with or without having had an effect. `Init` is the page as it is loaded, after
a login, with a testrig selected, or with an environment too.

**ConfigInput.** `testrigZip` is the page's one variable for the zip file of
either box; `loads` are the samples and files that have not arrived yet. The
base box is written by samples, files, the user and `showOldTestrig`, which puts
a description of the selected testrig there and leaves `testrigZip` alone: where
that is empty, the description is what "Process delta configuration" sends. The
model counts it as an entry. The other effect of `showOldTestrig`, on the names, is
in `WorkClient`. In `SendsLastEntry`, `plain` says that the last entry is one that is
sent and that nothing on its way can replace it: a zip file that was asked for
earlier replaces anything, also when it arrives before a text does, and an earlier
text of the base box replaces a text. Everything else may arrive late, or fail.

**Topology.** `ParseTopology` adds to the picture, the select handler clears
the highlights and makes those of a view, item by item in the data's order.

## Runs

| run | instance | what it shows |
|---|---|---|
| `queue` | 3 works, 2 workers | `OnePlacePerWork`, `StatusMatchesQueue`, `CheckedWorkIsHeld`, `FreshStrikes`, `KeepsTurn`, and the refinement of `WorkLifecycle` |
| `queue_torn` | 1 work, 1 worker | finding: `NoTornAssignment` is violated |
| `pool` | 2 workers, 2 assigners, 2 refreshing threads | `OfferedIsHeld`, `NoComeback`, `KeepsBeingPolled` |
| `pool_offered` | 1 worker | finding: `RefreshLeavesOffered` is violated |
| `worker` | 2 works, 2 requests, 1 Error, 1 restart, with and without a deadline | `OneOwner`, `OneBatfish`, `NormalMeansReturned`, `BecomesIdleAgain`, and the refinement of `WorkerService` |
| `worker_error` | 1 work, 1 Error | finding: `NonIdleIsOwned` is violated |
| `coordination` | 1 work; 1 worker and 2 faults of any kind, or 2 workers and none | `OneHolder`, `OutcomeHappened`, `AsksAnAcceptor`, also with a work that both workers run |
| `coordination_live` | 1 work, 1 worker, 1 fault of any kind but an Error | `EveryWorkEnds` |
| `startup_assigns` | 1 worker | finding: `AssignsPeriodically` is violated |
| `parts`, store | 4 requests | `OneUploader`, `UploadedIsThere`, and the refinement of `TestrigLife` |
| `parts`, db | 2 requests, 1 pair of key and container, expiry 2, lag 1, time 5 | `LetInSoonAfter` |
| `parts`, file | 2 requests | `NoneRefused` |
| `parts`, start | 2 workers | `Progress`: `RegistersInTheEnd` |
| `parts`, jobs | 4 jobs, 2 threads, with and without `exitOnFirstError` | `AllOrException`, `Progress`: `Ends` |
| `parts`, client | 4 commands, 2 testrigs, 1 environment, 2 containers, 1 restart | `NamesAreGood`, `Progress`: `CommandsEnd` |
| `web`, client | 2 entry points, 1 restart | `OneThread`, `ChecksHold`, `InOrder`, `ReadyWhenEnabled`, `FetchedWhereDone`, `EveryChainEnds` |
| `web`, input | 3 entries | `SendsLastEntry` |
| `web`, topology | 2 links that share a node, topologies of up to 2, 2 colours, views with up to one item in each part | `ShownAsGiven` |
| `web_done` | as `web` | finding: `DoneIsDone` is violated |

Deadlock is not checked where the program really comes to rest: in
`startup_assigns`, `parts` and `web`, when all workers are in and both tasks
were cancelled, when all requests are served, all jobs are collected, and the
user enters nothing more. That nothing stops too early is what the liveness
properties say there.

### Bounds

Works and workers are interchangeable (symmetry in `queue` and `coordination`), and the
properties of the queue relate at most two works and the scan position: three
works give a scan with a work before and one after the work it is about, and
a queue in which works ahead of and behind a leaving one must keep their
order. The pool's properties are about one worker; two let the poller be
between workers. `Handler`, `Spawned`, `Trigger` and `Registrar` bound how
many threads of a kind run at a time; two of a kind suffice to have each
meet another. Whether a worker has a deadline (`hasDeadline`) is an option,
chosen in `Init`.

In `WorkMgr`, `MaxRefreshing` bounds the threads that refresh at a time beside
the scheduler (all overlaps are in `pool`), `MaxFaults` and `FaultKinds` how
many and which faults happen: a lost request or reply, a failed check, an Error
that ends the thread of a task, a restart, a change of the pool, a failed refresh. Two faults let a work be
freed by two missed checks in a row, or be accepted again by a restarted
worker after a lost reply. The work that two workers run needs no fault: it
comes from the assignment given up in `queue_torn`. The two runs share one
module and differ in what they make small; two works in one run, and faults
with two workers, take longer than is practical to check every time (two works
with one worker, three assigning threads and no fault were checked once, and
keep `OneHolder`).

In `ContainerStore`, a request serves one purpose and ends; four of them give
two uploads of a testrig that meet each other, a deletion of it, and an upload
into it or a deletion of what is above. The proofs are for any number. In
`WorkClient`, `MaxStarts` bounds the entry points: two give every overlap of
two chains, and of a chain with what an earlier one has left; the initial states
stand for the chains before. Three entries in `ConfigInput` are two that load
at the same time, and an edit or an old testrig. In `Topology` a link marks three elements, so that a
view with one link and a path of one already mixes colours; the proof is for any
numbers of items (`MaxItems`) and of links (`MaxLinks`). In `JobExecutor` four jobs on two threads have
some wait while others end in a different order than they were submitted. In
`Client` four commands are a testrig, an environment in it, and two that come
between or after.

### Fairness

* `PoolMgr!FairSpec`: the poller runs again and again
  (`scheduleWithFixedDelay`, and every exception of a refresh is caught), and
  each of its requests ends. The last is an assumption about workers and
  network: the HTTP client is given no timeout.
* `Driver!FairSpec`: HTTP threads and the threads of tasks run. Nothing is
  assumed of the inner thread: Batfish may never end. A deadline passes
  eventually; `BecomesIdleAgain` is about workers that have one.
* `WorkMgr!FairSpec`: threads run, requests that do not fail end, workers that
  the coordinator does not know register (`Driver.mainRun` does so once a
  minute), and tasks end (by themselves or by their deadline). Faults are
  never forced. The same for `Client!FairSpec`: requests end, not every
  request for a status fails, and works end; nobody has to give a command.
* `WorkClient!FairSpec`: the script runs, timers fire, requests are answered or
  fail (the browser gives up a connection), works end. Nobody has to click.
* `JobExecutor!FairSpec`: the caller runs, a thread of the pool takes a job as
  long as one waits, jobs end. `MCFairness` in `MCParts` and `Fairness` in
  `MCWeb` assume each of these of the part that moves.
* `Startup!FairSpec`: threads and the executors run. The violation does not
  use any unfairness: it ends in a state in which both tasks are cancelled.

## Findings

1. `queue_torn`. `getWorkForChecking` (`C/WorkQueueMgr.java:111`) is the one
   method without `synchronized`. It can find a work ASSIGNED before its
   worker is written; `checkTask` then makes the work UNASSIGNED although the
   worker is running it, and the work is assigned once more, to be run twice
   or to end as an ASSIGNMENTERROR on the same worker (duplicate id).
2. `pool_offered`. A refresh (`C/PoolMgr.java:170`) overwrites
   TRYINGTOASSIGN, which its comment says it leaves alone.
3. `worker_error`. An `Error` leaves a worker claimed for ever
   (`B/main/Driver.java:345`).
4. `startup_assigns`. The first run of a periodic task can come before the
   static field it uses is assigned (`C/WorkMgr.java:84`, `C/PoolMgr.java:43`);
   the task is then cancelled silently. This would also explain the comment at
   `C/WorkMgr.java:74` ("for some bizarre reason ... assignwork never fires").
5. `web_done`. An entry point that `finishEntryPoint` has ended goes on:
   `txtToConfigBlob` (`projects/wwwroot/scripts/workclient.js:432`) finishes it
   when there is no text and returns to a caller that uploads what it got,
   nothing. The reply, a failure, finishes it again, with "undefined" in the
   output. A topology that cannot be drawn does so too (line 175), and the next
   call then enables the buttons for questions. `OneThread` shows how far this
   can go: no further than one request or one call, and nothing is left over.

## Proofs

`WorkQueueMgr_proofs` proves, for any sets of works and workers, that `IInv`
is an inductive invariant of `WorkQueueMgr!Spec`: type correctness,
`OnePlacePerWork`, `StatusMatchesQueue`, `CheckedWorkIsHeld`, `FreshStrikes`,
and `Bookkeeping`, which says what the locals of the scheduler thread and of a
half-done assignment imply of the work they are about. `Bookkeeping` is what
makes the rest inductive: that the work about to be taken for checking is
still ASSIGNED (no other step takes it away: assigned works are only touched
by the scheduler thread), so that the unsynchronized write of CHECKINGSTATUS
does not overwrite a status written by another; and that an assignment given
up for want of a worker never had a missed check, so that `FreshStrikes`
holds although nothing clears the last check there. From `IInv` follow the
invariants, `KeepsTurn` (from lemmas on what removing and appending do to a
sequence without repetition), and the refinement: every step maps to a step of
one work's life or to a stutter.

`PoolMgr_proofs` proves `TypeOK`, `OfferedIsHeld` and `NoComeback` for any sets
of workers and threads. `OfferedIsHeld` needs no strengthening beyond types: a
refresh writes only the codes in `Polled`, and a thread drops the worker it was
handed in the step that reports on it.

`Driver_proofs` proves `TypeOK`, `OneOwner`, `NormalMeansReturned`, `OneBatfish`
and the refinement of `WorkerService` for any works, HTTP threads, Errors and restarts, with or without
a deadline. `OneOwner`, restated of the threads instead of their sets
(`Ownership`), is inductive with the types: a step changes who owns the worker
only together with `idle`, or hands it from the request to the task.
`NormalMeansReturned` is not: `Verdict` adds what the two threads of a task
know of each other: without an Error, an inner thread is dead only if it was
stopped, one that failed has set the flag, and when the flag is read and is
not set, `run()` has returned, because the thread that stops the other sets the
flag between the stop and the reading. `OneBatfish` follows from both:
a running thread that was not stopped is one its task waits for, and there is
one task that owns the worker. For the refinement, `View` says that the stage
and the claim that the coordinator is promised are those of the one owner
(that there is one whenever the worker is not idle, if only a thread that an
Error has ended, is a part of `Progress`), and `Progress` what the task log says
of the owner's task: a request that is about to start its task has just logged
it, a task that has not begun is `Unscheduled`, one that has is `InProgress`
until it reports its end, and an id that is not in the log never ran. Then
claiming, logging, beginning, reporting, and becoming idle are each the step of
`WorkerService` of that name, and all that goes on with the inner thread is a
stutter.

`ContainerStore_proofs` proves, for any number of requests, `OneUploader`,
`UploadedIsThere` and that every step is one of `TestrigLife` or a stutter. The
inductive invariant `IInv` says beside them that directories are nested
(`Nested`), that who goes on with an upload has its directory until somebody
deletes it (`HeldIsThere`), that files in a directory are of uploads of that
directory and come only after its `mkdirs` (`OwnFiles`), and that an upload
that is past its unzip has its files there, raw or moved as its step says
(`Filled`). All of these hold up to `Asked` and `Buried`: once a deletion is
under way, or an upload that failed takes what was put into it along, little
can be said, and these are history in the state, because a request keeps its
kind when it has ended.

`DbAuthorizer_proofs` proves `LetInSoonAfter` for any requests, pairs, expiry,
lag and time. `DbInv` says that an entry of the cache is no younger than the
time at which the permission was last there plus the lag (`CachedWasHeld`),
that a request on its way from the database to the cache was told so at a time
when the permission was there, and that this is not longer ago than the lag
(`OnTheWay`), and that a permission that is there now was there now
(`History`).

`WorkMgr_proofs` proves `TypeOK`, `OneHolder`, `OutcomeHappened` and
`AsksAnAcceptor` of the whole: any works, workers and assigning threads, any
number of faults of any kind, with works that two workers run. Its first result
is that every step of the composition uses each part as that part's module
allows (`UsesQueue`, `UsesPool`, `UsesService`): the queue's methods are called
by threads that hold the work they are called with, which the module of the queue
has as a guard. So every behaviour of the whole is one of the queue, of the pool
and of the workers' services (`Composition`), and what is proved of the queue
and the pool alone holds in the whole (`QueuesInOrder`, `EveryWorkLives`,
`PartsKeepSteps`). The inductive invariant `IInv` is the queue's, the four
properties, and:

* `Locals`: which locals a thread in `assignWork` has at each line;
* `Served`: while an assigner's request is being served, its worker is claimed for
  its work, so that an acceptance is one of that work;
* `AcceptedOnly`: whoever is written down as the worker of a work, or is about to
  be, has accepted it. The three places matter: the reply, the thread between the
  marks, and the half-written assignment;
* `EndsReported`: an end that a worker has in its log, or that it has answered and
  is not processed yet, was reported. The answer outlives the log, which a restart
  forgets.

`OneHolder` and the queue's invariant depend on each other: that a work has one
holder makes each mark legal, and that marks are legal keeps the queue in order.
`OfferedMarked` says of the whole what `OfferedIsHeld` says of the pool: the
thread that has the worker is at a line from which it will report on it.

`MCParts_proofs` proves four parts of `MCParts`, each by its own invariant.
`AuthorizedIsLetIn`: at most one request is in `authorizeContainer` (`OneWriter`),
and the pair of everybody who was authorized is in the file, or in the copy that
the writer has while the file is empty (`NoneLost`). `AllJobsOrException`, for any
finite set of jobs: a job is still among the futures or was noted as collected,
no host was collected twice (`Collected`), and what `executeJobs` ended with is
justified by how jobs ended (`Justified`). `NamesStayGood`: what a command that is
under way relies on (`CommandInv`), with `NamesAreGood` itself.
`WorkManagerFindsPool`, which no run checks: `assignWork`, with a work that it has
marked, never finds the field of the pool manager null. Its invariant (`StartInv`) is
which fields are assigned at each step of `mainRun`, and that the task of the work
manager runs only when its field is. `PartsSafe` says that all parts keep their types
and these promises in what the run checks.

`MCWeb_proofs` proves all the safety properties of the chains in `WorkClient`, for
any number of entry points that overlap. Its `IInv` is `TypeOK`, `FetchedWhereDone`
and:

* `Own`, of each entry point by itself: its list is a part of one of the page's
  chains (`Chained`); nothing is there of it before it starts (`Fresh`); each of its
  requests is one of its current call, and what was to be done before it is sent
  was done (`Asked`); one thing at a time continues it, and one does as long as it
  is live (`Single`); what was done when the script runs for it (`Running`); and of
  one that has ended nothing is left in the maps (`Cleaned`). `OneThread` and
  `InOrder` follow from these. That a chain with an ended entry point gets no
  further than one request needs all of `Asked` and `Running`;
* `Named` and `ButtonsNamed`: the names of container and environment are set before
  the calls, and the buttons, that need them, and never taken back. With `Own`
  they give `ChecksHold`;
* `Alone`, of entry points that no other has overlapped: no other is live, the
  testrig of its works is the page's current one, and one whose last work of the
  upload ended normally has a parsed testrig. With `Named` it gives
  `ReadyWhenEnabled` and, step by step, `FetchedWhereDone`.

`LastEntryIsSent` is proved by an invariant of `ConfigInput` (`InputInv`): as long as
the last entry is plain, it is what would be sent, or it is still loading and will
replace what would be sent; and of what else is still loading nothing is a zip file,
and nothing a text of the base box unless a zip file is the last entry.

`ViewsAreShownAsGiven` is about loops over lists of any length, which `Topology`
writes as recursive functions. Two lemmas make them accessible: `SetInduction`, from
the fact of the library that the natural numbers are well founded, and `Recursion`,
that a function with such a definition exists, so that what `CHOOSE` picks for it
satisfies the definition. Then `ParsedType` is an induction over the links that
`ParseTopology` adds, and `Highlighted` one over the marks of a view: after each of
them, every element has the mixture of the colours it was given so far (`OneMore`,
`OneMark`), and all marks give it what the view does (`ViewGives`). `ArrowAtExit`
says that `AddArrow`, which looks for the name of the first node, finds the end at
which the path leaves the link, also of a link from a node to itself.

`PageHasClient` says that the page as a whole behaves as `WorkClient` does, so
that the theorems hold in it.

The assumptions are those on the constants: the null values are none of the
works, workers and statuses, the poller is not one of the spawned threads, the
bounds are natural numbers, the set of jobs is finite, and the null values and the
markers of the web client (`None`, `Empty`) are none of the values they stand
beside. Of the topology, a link is a pair of pairs of numbers, and no view uses
`ColorEnum.default` as a colour: it would count as no colour at all.

Only model-checked: all liveness properties (TLAPS has no rule for ENABLED, on
which fairness rests). The workers of the composition are those of `WorkerService`,
and take steps that it allows, and any of these (`Composition`); that `Driver`
implements it is a theorem about one worker (`KeepsPromise`). That the two compose, so that the theorems about
the whole hold with a `Driver` for each worker, is an argument on paper.

## What is abstracted

* Only interleavings of reads and writes are modelled: a `HashMap` or
  `LinkedList` corrupted by unsynchronized access, and stale reads the Java
  memory model allows, are not.
* A work is its id; task arguments, container names and results are left out.
  A request refused for its arguments is a refusal without state (`Arrive`).
* The exception for a duplicate id in `queueUnassignedWork` is a stutter.
* `LinkedList.remove` of a work that is not in the queue does not happen
  (`StatusMatchesQueue`).
* Dates in `QueuedWork` and `Task` are only logged.
* `getLength`, `getStatusJson`, `getWork` and the status queries of clients
  change nothing.

* In the container store, a testrig's files are there or not, as one thing; a
  directory listing, a move or an unzip that sees half of another's files
  appears as the failure it leads to.
* In the web client, testrigs are named by who uploads them (the page gives
  every testrig the same name in a container of its own), GUIDs by the type of
  the work, and a text is there or not. In `Topology`, names are numbers, and no
  name is a part of another's: `AddArrow` looks for a name by `includes`, and
  picks the wrong end when one is.

## Not modelled

* The network analysis, the parsers and the solvers: a batch computation.
* Questions and single objects in the container store (one file each, and no
  check of what came), the listings of the services, `AzureQueue` (not
  implemented in the source), the all-in-one launcher, the Python client.
* In the web page: the list of earlier questions, layouts, tool tips, and the
  calls that no button names. The libraries under `projects/wwwroot/libs`
  (jQuery, cytoscape, JSZip...) are third-party code, many times longer than the
  page's own scripts; what they do appears where the scripts use it.

## Plan

1. A run of the queue's liveness with a work whose task does not end, ahead of one
   whose task does.
2. A composition of the coordinator with a `Driver` for each worker in place of
   `WorkerService`, by the theorem `KeepsPromise`.
3. In `Startup`, the other exceptions that cancel a periodic task, and the managers'
   work while the rest of the coordinator comes up.
