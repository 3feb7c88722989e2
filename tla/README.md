# ACE3 in TLA+

ACE3 analyses observables: collectors submit *root analyses* to engine nodes, the workers of a
node run analysis modules over them, some become alerts, and analysts disposition alerts and ask
for more analysis.  Everything that must survive a process or be shared by two of them is in a
MySQL database, in files below the storage directory of a root analysis, or in small tracking
files.  This directory holds TLA+ modules of the part of the system where that matters: the lock
on a root analysis, the work queue, the passes of the executor over one root, the life of a root
from its submission to a closed alert, the delivery of submissions from a collector to the nodes,
the draining of a node, network semaphores, and the queues of remediations and file collections.

Paths below are relative to the repository.  A definition's comment says what it stands for;
`PROJECT.json` gives the lines it was translated from.

## 1. Inventory

| Part | State | Operations | Talks to |
|---|---|---|---|
| Locks table, `saq/database/util/locking.py` | rows of `locks`: uuid, lock_uuid, lock_time | acquire_lock, release_lock, force_release_lock, get_expired_locks | everything that changes a root |
| Lock manager of a worker, `saq/engine/lock_manager/distributed.py` | the target, the keepalive thread, `_lock_lost` | start_keepalive, stop_keepalive, the keepalive loop | locks table; cancels the executor |
| Recovery, `saq/engine/recovery.py` | none | recover_expired_locks, by the managers, periodically | locks table |
| Workload manager, `saq/engine/workload_manager/database.py` | rows of `workload` and `delayed_analysis` | add, get_next_work_target, transfer_work_target, clear_work_target | locks table, other nodes |
| Worker, `saq/engine/worker.py`, `tracking.py` | the work item, two tracking files (target, module) | worker_loop, execute, _handle_failed_analysis, delay_analysis | lock manager, workload manager, orchestrator |
| Worker manager, `saq/engine/worker_manager.py`, `core.py` | the Worker objects and their processes | check_workers, restart_worker, restart_workers | reads the tracking files, kills processes |
| Orchestrator, `saq/engine/analysis_orchestrator.py` | the in-memory root of a pass | orchestrate_analysis: load, check the disposition, execute, handle detections, convert, schedule, clean up | executor, workload, alerts table, storage |
| Executor, `saq/engine/executor.py` | work stack, dependencies, cancellation, final analysis mode | execute, periodic time and disposition checks | modules, tracking files, root.json |
| Analyst actions, `saq/database/util/alert.py`, `app/analysis/views/edit/observable.py`, `aceapi_v2/alerts/service.py` | the alert row, root.json, workload rows | set_dispositions, add_observable and its siblings | locks, workload |
| Node status and draining, `saq/database/util/node.py`, `saq/engine/node_manager` | `nodes.status`, `collector_status` | drain, collectors_drained, drained, and their reversals; transfer of delayed work | workload, collectors |
| Collectors, `saq/collectors` | staging directories, `incoming_workload`, `work_distribution` | collect, filter duplicates, assign to groups, deliver in locked batches, clean up | nodes (HTTP or local submit) |
| Network semaphores, `saq/network_semaphore` | counts per name, on the server and as a fallback in each client process | acquire, release, maintenance of undefined ones | executor |
| Remediation and file collection, `saq/remediation`, `saq/file_collection` | queue rows with a lock and a status | queue, collect, work, cancel, retry | GUI |
| Analysis cache, `saq/analysis/cache.py` | cached deltas of module runs | look up, replay, write | executor |
| Web interfaces, modules, configuration | | | |

What is hard, and what must hold:

* **Two processes, one root.**  The executor writes the whole of root.json after every module.
  Two workers on one root would undo each other's work; only a row in `locks` and a keepalive
  thread prevent it (`MutualExclusion`, `ExclusiveAnalysis`).
* **Workers are killed on purpose** -- by the time limit of a module, the memory limit, a refresh.
  A killed worker runs no `finally`: its lock, rows, tracking files and storage stay.  Work must
  not be lost, and must go on (`InFlightWorkKept`, `NoWorkDropped`, `QueueDrains`).
* **Who may free a lock.**  The owner, a recovery once the lock has aged, and the replacement of a
  dead worker at its start-up (`ImplementsLease`, `ReleasesOnlyTheDead`, `NoOrphanLock`).
* **Work creates work.**  A pass adds delayed requests, a mode change queues another pass, an
  analyst queues more.  The last one to leave removes the storage, and somebody must look at the
  detections (`CleanupLast`, `DetectionsAlerted`, `AlertStorageKept`, `Settles`).
* **Analysts write while workers read.**  A disposition takes no lock (`DispositionNoticed`,
  `OpenRequestQueued`).
* **Three kinds of threads, two tables, one directory.**  A collector's submission is a row per group
  of nodes and a directory, and the thread that assigns it, those that deliver it and the one that
  removes it share no lock.  It must reach every group, once, or be given up visibly, and its
  directory must outlive its rows (`Accounted`, `IncomingKept`, `DeliveredOnce`, `SettledStays`,
  `FullDeliveryKept`, `DeliveryEnds`).
* **Passes within a pass.**  A module may wait for another one's analysis, on another observable,
  over several passes, and delay its own.  Nothing may be left out, and it must end (`AllSettled`,
  `Thorough`, `WaitsHonoured`, `DelayedResumed`, `Ends`).
* **Several nodes.**  A node that drains pushes delayed analysis away while its workers still take
  due requests, other nodes pull its workload, submissions race the check that it is drained, and
  engines and collectors die.  Rows and files must stay together, and the drain must end
  (`HasStorage`, `FarKept`, `SubmissionKept`, `DrainEnds`, `DelayedKept`).
* **Permits over a network.**  The client, its thread in the server and the connection fail
  separately (`Conserved`, `LimitKept`, `PermitsReturn`).
* **Requests that change the world.**  A remediation is not idempotent, its service polls a table
  that analysts write to (`OneAttempt`, `CompletedStays`, `Settles`).

`PROJECT.json` lists the hazards at their lines with the properties that cover them.

## 2. Modules

    Lease                what the locks table promises, every call atomic
      ^ implemented by
    LockProtocol         the SQL statements, keepalive threads, recovery, errors, crashes
      | justifies the atomic lock of
    WorkQueue            workers of one node: claim, analyse, clear, die, be replaced, recover
      | justifies "one pass at a time" of
    AlertLifecycle       one root: modes, delayed requests, detections, cleanup, analysts

    WorkDistribution     a collector service: stage, filter, assign, deliver, clean up
                         (its submissions become the workload rows of WorkQueue)
    Executor             one root within a claimed row: work stack, dependencies, delays
                         (its pending requests are the delayed rows of WorkQueue)
    NodeDrain            several nodes: drain, transfer, pull, late work, dying engines
    NetworkSemaphore     clients, server threads and fallbacks of counting semaphores
    RequestQueue         the service that remediations and file collections share

`MC...` modules are the instances for TLC, `...Proofs` modules hold the theorems.

**LockProtocol.**  A client stands for its lock_uuid.  A worker has a main thread (`pc`, `call`)
and a keepalive thread (`ka`); a recovery is one call of `recover_lost_root`.  `Insert`, `Update`
and `Reread` are the three statements of acquire_lock, each a transaction (the pool runs READ
COMMITTED).  `AcquireError` returns False although the INSERT may have committed.
`aged` abstracts lock_time: `Expire` makes a row older than lock_timeout_seconds.  With the
default configuration the timeout is four hours (`lock_timeout: 240:00`) and the keepalive ten
seconds, so a live worker's lock ages only where the constant `Starved` says so.
`FairSpec` assumes only that keepalive threads run.

**WorkQueue.**  A row is `<<root, n>>`: the workload row, n = 0, or a delayed request.  A process
goes through `PC`: `List` reads a table, `Acquire` and `Verify` are the rest of
get_next_work_target, `Begin` is track_current_work_target and start_keepalive, `Load` to `Abort`
are the orchestrated analysis, `Check` and `RemoveStorage` the cleanup, `Clear` and `Release`
clear_work_target.  `current` is the manager's list of workers; `Die`, `Restart`, `StartUp` and
`ForceRelease` are supervision and _handle_failed_analysis.  `memory` and `recorded` hold which
delayed requests the in-memory and the saved root know of, since a request whose row exists and
whose root.json does not know it cannot be loaded.  `ended` is history: the rows whose analysis
was completed or abandoned.  The set `Faults` selects what the environment does.

**AlertLifecycle.**  `rows` are the analysis modes queued, `disk` is root.json, `root` the copy of
the current pass, `original` its original_analysis_mode.  `Claim` to `Clear` are the steps of one
pass; `Crash` ends it with rows and disk as they are.  A conversion is `Convert` (root.save() in the
new mode), `Insert` (ALERT()) and `Schedule`; a crash may come between any two.  `Fail` are the
exceptions that the code catches on the way: of the check of outstanding work (`DetectFails`), of
that save (`ConvertFails`, after which nothing but the clearing of the row is done), of ALERT()
before or after its commit (`InsertFails`), of schedule() and of the cleanup.  `detected`, `asked`,
`unnoticed`, `abandoned` and `missed` (the conversion was not made, and need not be made again) are
history.

**WorkDistribution.**  `place` is the directory of a submission, `workload` and `rows` the two tables,
`marked` the duplicate filter.  The collection thread goes through `Collect` (the filter),
`PrepareFiles` (the rename), `InsertWorkload` and one `AssignToGroup` per group, each committed by
itself; `ScheduleError` is its exception handler.  A delivery thread repeats `Claim`, then for each
row of its batch `SettleUnsent`, or `Submit` followed by `RecordAttempt` or `Settle`; without nodes,
`DropQueue`.  The cleanup thread lists, removes the directory, deletes the row.  `Restart` is a crash
with the start-up that follows.  Nodes are the set `online`; `Submit` chooses whether the submission
arrives and what the caller is told.  `ForeignService` is another collector service whose groups have
the same names.  `fate` and `log` are history.  Abstractions: the UPDATE and SELECT of a claim are
one step; which rows are in a batch is left open (the code orders by priority); `old` says that a
lock is ten minutes old, for all locks of a thread together, since one UPDATE set them; the lock of
a handled row is dropped, since every reader asks for READY or LOCKED too.

**Executor.**  A task is an observable and a module.  `Turn` is what `_execute_recursive_analysis`
chooses next: the delayed request of the pass, a dependency that is ready (`FirstActive`, by score),
an item of the work stack, the final analysis mode, or the end of the pass.  `RunModule` tries the
modules of the item in hand one by one: `Refuse`, `LeaveDelayed`, `Defer` (a declared dependency is
missing), `NotRequired`, or the module runs and does one of `Behaviours` -- completes, finds nothing
or another observable, leaves its analysis open, delays, raises, waits, stops the pass by a
circular wait, or is replayed from the cache.  `deps` is the dependency list of the root with its
four statuses; `Chain`, `Failed` and `DelayedDep` are its recursive properties, written over the
links.  `loaded` separates the dependencies an earlier pass saved.  `ran` and `seen` are history.

**NodeDrain.**  A root in `Old` is an alert with a delayed analysis, one in `Fresh` a submission to
come.  `status` is `nodes.status`, `engine` and `beat` the engine and the age of its heartbeat,
`pass` one call of transfer_delayed_analysis (`Begin`, `Handle`, `Upload`, `Repoint`, `Remove`),
`worker` one worker per node (`List` to `Finish`), which also pulls work from other nodes:
transfer_work_target is `Take` (the lock and the new directory), `Download`, `Commit` (the three
UPDATEs), `Relocate` (load and save in the new place) and `Clear` (the best-effort removal on the
other node).  An exception in any of the middle three is `Dropped`: the directory goes and the lock
is released, but what was committed stays, and `torn` remembers the root. `work`, `delayed` and
`location` are the node ids in the three tables, `copies` the nodes that have the files, `shells`
those that died with a directory half downloaded, which makes every later pull of the root bail out.
`Advance`, `Revert` and `Undrain` are execute_drain_routines, `collector` what a collector service
knows and reports.  `ran` is history.  Abstractions: one root per transfer step (transfer_limit only
delays the rest), the choice of a target is any node that suits, a root that cannot be loaded is
skipped.  `Expire` ages the locks of engines that are not up, and `NotListed` says that what a
worker has listed does not outlive a restart of another engine.

**NetworkSemaphore.**  A client asks once.  `Connect` to `Released` is the client, `Lookup` to `Close`
its thread in the server, `wire` the one message between them, `Fallback` the acquisition in the
client's own process when the server cannot be had.  An object `<<place, name, i>>` is one
semaphore that was ever created, since a forgotten one may still be held.  `Break`, `Kill` and
`ServerStops` are the faults.

**RequestQueue.**  `service` says whose queue it is; `Select`, `Lock` and `Fetch` are the three
statements of a collector, `Take` and `Finish` a worker thread, `ReadToCancel` and `Cancel`, `Retry`
and `Delete` the analyst.  `broken` are the threads whose database session an error left unusable,
until the service restarts: a request that was deleted during its attempt makes `Finish` one of
those errors, `FinishFails` is any other.  File collections add the delay between attempts, the age
limit and the alert that is gone.

Abstractions: root.json is only what the properties tell apart; priorities, node assignment and
the order of a listing are a free choice of a row; time is a boolean per lock; logs, embeddings,
statistics and the observable index are left out.  In WorkQueue every root is submitted once, in a
mode that sets cleanup, without work_dir (the default configuration).

## 3. Runs

| Run | Instance | Shows |
|---|---|---|
| Lock | 2 roots, one of which starves, 2 workers, 2 recoveries, 1 database error; 1,493,428 states | TypeOK, MutualExclusion, NoOrphanLock, ImplementsLease (refinement), LossIsNoticed (liveness) |
| QueueWork | 2 roots, 3 processes, 2 workers, 2 delayed requests each, 1 failed DELETE, crashes; 4,571,000 up to symmetry | ExclusiveAnalysis, InFlightWorkKept, CleanupLast, NoWorkDropped, ReleasesOnlyTheDead |
| QueueFaults | 1 root, 2 processes, 1 worker, every fault; 53,564 | QueueDrains, LocksFreed (liveness) |
| AlertLifecycle | 2 delayed requests, 1 disposition, 1 request, 1 crash, 1 error; 38,863 | TypeOK, DetectionsAlerted, AlertStorageKept, DispositionNoticed, OpenRequestQueued, Settles (liveness) |
| Delivery | 2 submissions with one key, groups "main" (full delivery, 2 threads) and "qa" (sampled), any 1 fault; 598,262 | Accounted, IncomingKept, FullDeliveryKept, DeliveredOnce, SettledStays, DeliveryEnds (liveness) |
| Executor | 2 observables, 2 modules, 1 declared dependency, 4 wait graphs, any 2 behaviours, 2 delays; 489,004 | DelayedResumed, AllSettled, Thorough, WaitsHonoured, Ends (liveness) |
| Semaphore | 3 clients in 2 processes, 1 defined name of limit 1, 1 fault; 453,279 | TypeOK, Conserved, LimitKept, PermitsReturn (liveness) |
| Requests | 2 requests, 2 threads, 2 retries, 1 delay, 2 mishaps (database errors among them), both services; 105,528 | OneAttempt, CompletedStays, Settles (liveness) |
| NodeDrain | 2 nodes, 1 drain, 2 alerts or 1 submission, 1 request, 1 failure (of an engine, a collector or a pull); 786,681 | HasStorage, FarKept, SubmissionKept, DrainEnds (liveness) |
| ExecutorDropsItem | 2 observables, 2 modules, any flat waits, 1 delay | NothingDropped violated: finding 1 |
| DrainLosesDelayed | 2 nodes, 1 alert with a delayed analysis that is due, 1 drain | DelayedKept violated: finding 2 |
| DeliveryCrash | 1 submission with a key, 1 crash | ReplayedNotLost violated: finding 3 |

*Bounds.*  Two workers and a recovery are every pair of clients that can race for a lock; the second
recovery lets a lock change hands twice.  In WorkQueue two workers and a third process let either be
replaced, the bystander claim the root meanwhile, and the replacement meet it; two delayed requests
are the fewest for which "another request" and "my request" differ while both exist.  In
WorkDistribution two threads of a group are the fewest that can race for a row, the second group has
no full delivery so that both ways of losing its nodes occur, and one submission goes to both
groups, since only then can the cleanup come between two assignments.  In Executor one observable is
given and the other found, so that items are pushed while others are in hand; two modules are the
fewest of which one waits for the other within an observable and across; `MaxKinds` lets any two
behaviours meet without the product of all eight.  In NetworkSemaphore the third client is in a
process of its own, so that one place is asked by two and the other by one, and the three objects of
a name are as many as three clients can create.  In RequestQueue two requests are the fewest for
which the order of the queue matters; two mishaps allow a cancellation and a crash, or a deletion
that leaves a session unusable and the restart that repairs it.  In AlertLifecycle a crash and an
error can meet in one conversion.  In NodeDrain the second node is the target of the transfer and
pulls from the first; the alerts and the submission are separate initial states, since they share no
row.  `MaxMishaps`, `MaxFaults`, `MaxFailures`, `MaxRetries`, `MaxDrains`, `MaxRequests`,
`MaxDelays` and the like bound what the environment does: with unboundedly many faults nothing need
ever finish.

*Deadlock* is not checked: every instance may stop with all work done or all processes used.

*Fairness.*  WorkQueue: weak fairness of each process's own steps and of leaving modules, and strong
fairness of `Finish`, since the analysis time limits (`_check_for_analysis_timeout`) end a pass
however often it enters another module; weak fairness of the manager's one-second loop (`Restart`),
of time (`Expire`) and of the periodic recovery (`Recover`).  No fairness for submissions, faults,
keepalives, or claiming a particular row.  AlertLifecycle: a worker claims what is queued and goes
on, and a pass ends.  LockProtocol: keepalive threads only.  WorkDistribution: weak fairness of
`Progress` as a whole, that is, as long as there is something to do some thread of the service does
something, or nodes come back; each loop sleeps at most a second or so between its rounds.  Executor:
a pass goes on, and requests are claimed when due.  NetworkSemaphore: each client and each thread of
the server goes on, a holder comes to the end of its module, and a connection that is gone is seen to
be.  RequestQueue: the two loops of the service, a service that ended is started again, locks age; strong
fairness of selecting a given row, since every poll looks at the whole table.  NodeDrain: the routines of the
controller and the polls of workers and collectors, and time; none for operators, analysts,
restarts and faults, so a drain is only promised while the engine lives.

## 4. Findings

1. **A module is left out** (`ExecutorDropsItem`).  `_get_next_work_item` drops an item whose observable
   has an unresolved dependency.  The item may stand for all modules and the dependency for one of
   them.  If that one delays, the request and the dependency bring back only it and the module that
   waits; a later module never executes on the observable, and in final analysis mode is only asked
   for its final analysis.  `Thorough` says what does hold: nothing is left out when nobody delays,
   or when modules wait within one observable only -- and, where modules may find nothing, when
   nothing that is waited for waits itself (`Flat`, see below).
2. **A drain may lose delayed analysis** (`DrainLosesDelayed`).  A worker lists a request that is due; the
   drain uploads the root, repoints its row, removes the files and releases the lock; the worker
   takes the lock, finds no files, believes the work done and deletes the row by its id -- the row
   that is now the other node's.  get_work_target looks at its row again after it has the lock;
   get_delayed_analysis_work_target does not.  `FarKept` is the part that holds: analysis
   that is not due yet is safe.
3. **A crash may lose a submission** (`DeliveryCrash`).  The key of a submission is marked, and committed,
   before its directory leaves staging.  `recover_staging` replays what is staged after a crash; the
   filter then takes the submission for a duplicate of itself and discards it.

Met while modelling and not a run of its own:

* *A crash may lose queued work.*  A module adds a delayed request, the root is saved, the worker
  dies, and another worker takes the delayed request first.  Its `_check_for_outstanding_work`
  (analysis_orchestrator.py:324-336) asks for workload rows of *other* modes and other delayed
  requests; the root's own workload row is neither, so the storage directory is removed and the row,
  when claimed, is dropped as already processed.  `CleanupLast` without `~killed` shows it.
* *A starting worker may free a live worker's lock.*  The start-up of a worker whose tracking files name
  a root reads the lock_uuid the root has then and deletes it.  After an engine restart, which deletes
  the node's locks, that may be the lock of a sibling that has just claimed the root: with `"restart"` in
  `Faults` and four processes `ReleasesOnlyTheDead` is violated, although worker.py:556-558 says that
  "we can never delete a lock a *different* live worker has since taken over".
* *A requested analysis is cancelled.*  The consume-once flag of an analyst's request protects the pass
  from the disposition check at its start and not from the same check every five seconds
  (executor.py:924): on a dispositioned alert the pass is cancelled and its row deleted.  OpenRequestQueued
  excepts such dispositions.
* *Modules that wait for each other's delayed analysis* (T delays, U waits for T, S waits for U, on
  different observables) make the pass that resumes U go round for ever: the dependency of S is ready
  as soon as nothing in its chain is delayed *itself*, U raises again, and so on; the docstring of `delayed`
  (dependency.py) says "any in the chain".  The wait graphs of the runs have no chain across three.
* *The first of three is never run again.*  Of three modules of which each waits for the next, the last
  finds nothing: its dependency fails, which re-runs the second only, and the dependency of the first
  is failed as well since its chain is, so nothing re-runs the first (dependency.py).  It is left to final
  analysis.  One observable, plain waits or declared dependencies: the reason for `Flat` in `Thorough`.
* *Declared dependencies may go round for ever.*  With dependencies declared by module 1 on 3, 2 on
  1 and 3 on 4, a lower number running first, `_link_dependencies` links older dependencies to a
  newer one and never a newer one to an older; get_active_dependency then finds the one of 2 on 1
  first, whose target defers again, and only the time limits end the pass.  The run of `Ends`
  declares one dependency.
* A wait that failed across observables never re-runs the module that waited; a cache hit leaves the
  buffered observables to the next module that runs; `_check_circular_dependency` compares the types
  of modules and not their observables, so a legal wait may abort the whole pass.
* *An undefined semaphore may have two holders.*  The maintenance thread forgets a semaphore of
  count 0 while a client is between its lookup and its acquisition (server.py:99); the next one is
  given a new semaphore.  test_network_semaphore.py (test_acquire_block_network_semaphore) expects
  the second to block.  A client whose connection broke goes on as if it had the semaphore, and the
  server's recv has no time limit, so a peer that vanishes without a reset keeps its permit.
* *A cancelled request may be carried out all the same*, and its result overwrites the status
  (remediation/types.py:27: "final and no more retries should be attempted").  Requests are collected
  newest first, so REMOVE and RESTORE of one target may run in reverse or at once.  A file collection
  whose alert is gone, or that expired, stays open for ever (`Settles` excepts it).
* *A conversion may be missed.*  `_convert_to_alert` saves the root in mode correlation
  (analysis_orchestrator.py:433) and calls ALERT() nine lines later, whose exception is only logged
  (443-445).  If ALERT() raises, or the worker dies before it in a pass over a delayed request, the
  root that is loaded next time has mode and original mode correlation,
  `_handle_analysis_mode_changes` sees no change, and no alert is ever inserted.  A failed check of
  outstanding work (313) or save also skips the detections while the row is cleared.
  `DetectionsAlerted` excepts these (`missed`).  A retry over the *workload* row does convert, since
  that row sets the mode again; but if the alert is already there and the retry's check of the
  detections fails, the pass ends in a mode with cleanup and removes the directory of the alert:
  `AlertStorageKept` excepts it too.
* *Deleting a request while it is worked on disables the thread.*  The outcome's history entry
  refers to a row that is gone; `worker_loop` (remediation/worker.py:77-82,
  file_collection/worker.py:89-94) logs the exception without a rollback or a remove of the session,
  and every later outcome of the thread is lost, whatever was done in the world.  Locks age and the
  requests are attempted again, perhaps by the same thread.  `Settles` excepts the time from such an
  error to the next restart.
* *A failed pull separates rows and files.*  transfer_work_target commits the rows (database.py:193)
  and then loads and saves the root in the same try, whose handler removes the directory (201-213,
  "the transfer failed before we took ownership of the item").  Workload, delayed analysis and alert
  are then on a node without the files: its worker takes that for work already done and deletes the
  row, and a delayed analysis that is not due keeps the node from being drained, since every
  transfer pass skips it.  No crash is needed.  `HasStorage`, `SubmissionKept` and `DrainEnds`
  except these roots (`torn`), and `FarKept` holds for them too.
* In a drain: the lock of a transfer has no keepalive (drain.py:136-141); its "overwrite makes a retry after a
  partial failure idempotent" (drain.py:151) would overwrite what the target did in between; a root that
  cannot be loaded is skipped and blocks the drain; a collector that reported "drained" once lets a second
  drain pass with a backlog; an engine whose loop stalled and was taken for stopped does not come back until
  it restarts; an analyst's request that arrives between listing and transfer leaves a workload row on
  a node without the files, which is dropped.  An engine that dies after it created the directory of a transfer
  (database.py:146) bails out of every later pull of that root (`shells`).
* A worker whose lock was taken over still executes clear_work_target's DELETE
  (database.py:486-491) of a row the new owner is working on, and a lock lost before `execute()` has
  a context to cancel is not acted on (executor.py:362-367).  With `"starve"` in `Faults`,
  ExclusiveAnalysis, InFlightWorkKept, CleanupLast and NoWorkDropped are all violated.
* SIGHUP starts the same Worker objects again while their old processes finish: both have one
  lock_uuid and one tracking directory.  With `"reload"` no safety property of WorkQueue holds.
* A second disposition set during a dispositioned pass is swallowed by INSERT IGNORE, and its row
  then deleted with the first: DispositionNoticed fails for MaxDispositions = 2.
* A worker that dies between abandoning its delayed requests and handling the detections of its
  root leaves them unhandled when the pass was over a delayed request: DetectionsAlerted exempts it
  (`abandoned`).
* A replacement whose start takes more than a second after a module timed out is itself killed,
  again and again: `restart_worker` does not wait for it, and `analysis_has_timed_out` reads the
  module file that only `_handle_failed_analysis`, after the modules are loaded, removes.

* With two groups, the cleanup can list a submission that its first group has completed while it is
  still being assigned to the second: its directory and rows are deleted and the second group never
  gets it.  No fault is needed.  Accounted, IncomingKept and FullDeliveryKept except it (`overtaken`).
* A collector service that starts, or whose group has no nodes, changes the rows of the other
  services that deliver to groups of the same names: neither UPDATE looks at the type of the workload.
  A lock seconds old is then freed and the row delivered again, although remote_node.py:498-500 relies
  on nothing else claiming it for ten minutes.  DeliveredOnce speaks of runs without mishaps.
* An exception after the directory was moved to incoming, or a crash there, leaves a submission that
  nothing will assign and nothing will clean up (`interrupted`).
* "All submissions assigned to the group will eventually be submitted" (remote_node.py:187-189)
  holds up to dead letters: FullDeliveryKept says "delivered or refused".

## 5. Proofs

The `...Proofs` modules are checked by TLAPS, for every value of the constants allowed by the
modules' named assumptions.

*LockProtocol.*  `TypeCorrect`; `MutualExclusionHolds`; `NoOrphanLockHolds`; and `LeaseImplemented`:
the protocol implements `Lease`.  Mutual exclusion is not inductive: it follows from "a worker that
was told it has the root, and works on it, owns the row", which for a root that does not starve
every step keeps, because a row somebody maintains does not age and only aged rows are taken over;
the theorem says so of every root outside `Starved`.  The absence of orphans needs in addition where
the keepalive thread can be when the main thread has moved on: off or ended, since stop_keepalive
joins it.  The refinement maps `owner` to the table and `told` to what each main thread was last
told; each step is a step of Lease or a stutter.

*AlertLifecycle.*  `TypeCorrect`, `AlertStorageKeptHolds` and `DetectionsAlertedHolds` follow from
`InvariantHolds`, the inductive invariant `IInv`.  `FoundKept`: every copy of the root, saved or in
memory, agrees about detections.  `SavedMode`: the saved root of what is no alert is in the mode it
was submitted with, but between the two steps of its conversion, and until a pass over its workload
row repeats them.  `ModeKept`: the mode changes during a pass only by conversion. `OthersRemain`:
after the detections were looked at, an unconverted root with detections has other work outstanding
-- this stays true until the row is cleared, since during a pass rows are only added.  `PlainWork`:
what is not an alert has only its original row.  `LastWork`: a root about to become an alert has no
work but that of the pass.  `WorkRemains`: so when the pass is over something is queued, or the
conversion was missed (`missed`, an exception of every part that needs one).
`DispositionNoticedHolds` and `OpenRequestQueuedHolds` assume `Few`, that the analyst sets one
disposition: with a second the first fails (section 4).  They add to `IInv` where the row of a
disposition or of a request can be -- queued, or claimed by a pass that has yet to look at the
disposition -- and that what the pass read is what the alert has, unless the row came after it.

*Executor.*  `Base` is what holds in every state: the stack and its tracker agree, the item in hand
is for one module when it serves a dependency, a delayed request comes before all else, and what has
analysis was accepted.  It rests on three lemmas about the operators: `PushedFits` (what
WorkStack.append leaves), `SeededGrows` (what _seed_declared_dependencies adds) and `FirstActiveIn`
(what get_active_dependency returns), the first two by induction on the length of a run
(`Recursion`, `SetInduction`). `ModuleShape` reduces the twelve steps of a module to three.
`DelayedResumedHolds` needs nothing more.  `TypeCorrect` adds that a root holds every observable
once, given that it starts so (an assumption on Given, which the registry of observables grants):
what modules find is appended without what is known. `AllSettledHolds` adds `Finishing` (in final
analysis mode nothing is delayed, no dependency interferes, and whatever is not settled is on the
stack or in hand) and `Finished`; it assumes `Undeclared`, since final analysis seeds declared
dependencies too and then drops items like any other pass: the run checks one declared dependency.
`WaitsHonouredHolds` adds `Honest`: a dependency that was completed has a verdict, and analysis is
open only while the request that resumes it is worked on.  It assumes `Deferless` (no declared
dependencies, or no delays): the deferral of a resumed module would leave its analysis open.
`ThoroughHolds` is the longest argument, since it has to follow an item that was dropped.  It
assumes `Undeclared` and `Flat` (nothing waited for waits itself), where a chain of dependencies is
one dependency (`FlatChain`, `FlatActive`).  `Orderly` joins `OnWaits` and `Placed` (where
dependencies and items come from), `Waiters` (a task waits once at a time, and is not delayed
meanwhile), `InOrder` (dependencies on one task are served oldest first), `Handed` (what the item in
hand is for), `Tried` and `Exhausted` (what is settled ran). Its core says that a wanted task is
never lost: `Due` is a task that ran or that the dependencies, the item in hand or a delayed request
will bring up.  Without delays every wanted task is due or on the stack (`Awake`), since an item is
dropped only while a dependency on its observable is outstanding, and then the first active one
would be taken instead; with delays and waits within an observable, every observable is either
untouched, with its plain entry on the stack, or visited, with all its tasks due (`Each`).  `Turned`
sums up what one module does, so that `TurnKeeps` covers all their actions.

*NetworkSemaphore.*  `IInv` is `Formed` (what the places of a client and of its thread imply about
its object), `Linked` (the two ends of a connection and the message between them agree) and
`Balanced` (`Conserved`, and that the count of an object is the number of clients that are counted).
`ConservedHolds` is a conjunct; `LimitKeptHolds` maps each connected client that believes it has the
semaphore to its thread, which by `Linked` holds a permit of the registered object, and counts.

*NodeDrain.*  `IInv` joins `Owned` (a lock is held by whoever its stage says), `Placed` (what is
`HasStorage`, and which copies there are while a transfer runs), `Transferring`, `Analysing` (what a
worker knows is still so) and `FarKept`, `SubmissionKept` themselves.  The argument is that each
move of a root happens under its lock, that a move adds the files before the row and removes them
after it, and that a listing a worker acts upon without looking again concerns due requests only.  A
pull is followed step by step: until its commit nothing points at the new node and after it nothing
at the old one (`Fetched`), so either directory can be removed in its turn; the one step that takes
the download back behind the commit puts the root in `torn`, which both theorems except and no other
step enlarges.

*WorkDistribution.*  `IInv` says where things are: `Housed` (a workload row comes after the rename into incoming
and the cleanup works on workload rows), `Unassigned` (the groups left to the collection thread have no
row), `Listing` (what the cleanup listed has nothing queued, now or later, unless it overtook the
assignment), `Recorded` (a settled row is in the history and a thread about to settle was told), `MarkedBy`
(somebody was collected, or interrupted, for each marked key).  `AccountedHolds` follows from `Assigned` and
`Discarded`.  `RowStep` is the lemma the rest leans on: any step does one of four things to a row --
nothing that matters, a settlement, an assignment or a removal -- so `SettledStaysHolds` only has to exclude the
assignment.  `DeliveredOnceHolds` uses `CalmInv`, about runs without faults: a batch is locked by
its thread alone, and what was delivered and is not settled is the item in that thread's hands.

*RequestQueue.*  `IInv` is `Collecting` (what a collector between its statements has selected and locked), and
for each request nobody put back `Single` and `Guarded`: whatever is on the queue or in a thread's hands has
a row that is locked by this service.  `CompletedStaysHolds` is the action property: only a row
that is eligible is set in progress, and a completed one is not, unless it was cancelled or put back.

*WorkQueue.*  `TypeCorrect` holds under every fault.  The other theorems assume `CrashOnly`: workers
may be killed at any point, and the faults named in section 4 (starved keepalives, late
replacements, engine restarts, SIGHUP) do not happen -- with each of them some of the properties
fail.  `Owned` gives ExclusiveAnalysis: what a process in `Holding` was told about its lock is so,
since a row that somebody refreshes does not age.  `Left` gives ReleasesOnlyTheDead: the target and
module files of a dead worker name a root that is still locked by the dead, because it ages only
once nobody is left to release it, and `Staffed` says that a worker name has one process. `Present`
is InFlightWorkKept from the lookup of the row on.  CleanupLast (`Cleaned`) and NoWorkDropped need
the most: `Concluded` follows an item from the end of its analysis to its DELETE, and `Begun` says
that delayed requests exist only once the pass of the workload row has begun, so that a pass which
sees no delayed request (`NothingLeft`) leaves no row behind.  The last is what a kill destroys,
whence `Tame`.

*Only model-checked:* liveness (LossIsNoticed, QueueDrains, LocksFreed, the two Settles, DeliveryEnds, Ends,
PermitsReturn, DrainEnds), which is out of the prover's reach;
for Executor, AllSettled, WaitsHonoured (with delays) and Thorough where etc/saq.default.yaml declares
dependencies between modules, and Thorough where waits are chained.

## 6. Not modelled

Single threaded mode and the in-memory workload manager (used by tests and the command line);
controlled shutdown; the time a replacement worker takes to start (hazard at worker.py:464: its
property needs wall-clock limits and endlessly many processes); collectors that do not stage
(email); the persistence a hunt keeps of its own; the retry loop of `execute_with_retry` (a call is
one step); relocation to a work_dir; failures to save the root while it is analysed; a failure to
remove the download of a failed pull, and a pull from a node without a row in `nodes` (rows of that
table are never removed); analysis groups, exclusions and limits (a constant of Executor); the keys
and deltas of the analysis cache (a hit is an action of Executor); embeddings and the observable
index; the content of analyses; the parsers, scanners and command line tools of `bin`, `phishkit`
and `saq/modules`, which keep no state that two processes share.  MySQL, the file system and the
operating system are external and taken at their documented behaviour.

## 7. Plan

1. **WorkerSupervision**: the manager's one-second loop, module time limits and the tracking files, where
   a replacement may be slow to start.
2. The composition of Executor with AlertLifecycle, in place of the free choice of what a pass does.
3. Proofs: AllSettled and Thorough with declared dependencies, by an invariant about final analysis that bounds
   what its own dependencies can drop; and Thorough where waits are chained.
