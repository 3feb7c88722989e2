----------------------------- MODULE WorkQueue -----------------------------
(***************************************************************************)
(* The worker processes of one engine node taking work items from the      *)
(* workload and delayed_analysis tables (saq/engine/workload_manager/      *)
(* database.py), analysing them (saq/engine/worker.py, analysis_           *)
(* orchestrator.py, executor.py), and being restarted and recovered        *)
(* (worker_manager.py, recovery.py).                                       *)
(*                                                                         *)
(* The locks table changes in single steps here: module LockProtocol shows *)
(* that the SQL statements of locking.py implement such a table.  Every    *)
(* root is submitted once, in one analysis mode whose configuration sets   *)
(* cleanup, and no work_dir is configured (the default), so a root has one *)
(* storage directory.  A row is <<root, n>>: the workload row when n = 0,  *)
(* otherwise a delayed analysis request.                                   *)
(***************************************************************************)
EXTENDS Naturals, FiniteSets

CONSTANTS Roots,      \* root analyses submitted to the node
          Procs,      \* operating system processes; one that died is not used again
          Slots,      \* worker names: each has one tracking directory
          NoOne,      \* no lock row
          NoRow,      \* no work item
          NoRoot,     \* no tracked target
          NoName,     \* the worker name of a process that was never started
          MaxDelays,  \* delayed requests that modules may add to a root
          MaxMishaps, \* failed DELETEs of clear_work_target, and keepalives that are starved
          Faults      \* what the environment may do, a subset of AllFaults

\* crash: a worker dies outside its idle loop.  starve: the lock of a live worker
\* ages.  late: a dead worker's lock ages before its replacement has started.
\* restart: the engine restarts.  reload: the engine gets SIGHUP.
AllFaults == {"crash", "starve", "late", "restart", "reload"}

ASSUME QueueAssumption ==
    /\ IsFiniteSet(Procs)
    /\ NoOne \notin Procs
    /\ NoRoot \notin Roots
    /\ NoName \notin Slots
    /\ NoRow \notin Roots \X Nat
    /\ MaxDelays \in Nat
    /\ MaxMishaps \in Nat
    /\ Faults \subseteq AllFaults

VARIABLES
    rows,      \* the rows of the workload and delayed_analysis tables
    locks,     \* the lock_uuid of the locks row of each root, NoOne without one
    aged,      \* roots whose lock is older than lock_timeout_seconds
    stored,    \* roots whose storage directory exists
    recorded,  \* per root, the delayed requests its saved root.json knows of
    target,    \* per worker name, the target file of the tracking directory
    module,    \* worker names whose tracking directory has a module file
    current,   \* per worker name, the process its Worker object monitors
    pc,        \* where each process is
    uuid,      \* the lock_uuid of each process, named by its Worker's first process
    name,      \* the worker name of each process
    item,      \* the row each process listed or works on
    memory,    \* the delayed requests each process's in-memory root knows of
    keeping,   \* processes whose keepalive thread runs
    cancelled, \* processes whose analysis context is cancelled
    seen,      \* the lock_uuid a starting process read
    ended,     \* rows whose analysis ran to its end or was abandoned by its module
    delays,    \* per root, how many delayed requests were added
    mishaps,   \* failed DELETEs and starved keepalives so far
    killed     \* a worker has died outside its idle loop

vars == <<rows, locks, aged, stored, recorded, target, module, current, pc, uuid, name,
          item, memory, keeping, cancelled, seen, ended, delays, mishaps, killed>>

tables   == <<rows, locks, aged>>
tracking == <<target, module>>
identity == <<current, uuid, name>>
bounds   == <<delays, mishaps, killed>>
local    == <<item, memory, keeping, cancelled, seen>>

PC == {"unborn", "startup", "releasing", "idle", "listed", "verifying", "claimed", "ready",
       "analysing", "module", "checking", "removing", "clearing", "unlocking", "dead"}

Rows == Roots \X (0 .. MaxDelays)

Root(p) == item[p][1]

Alive(p) == pc[p] \notin {"unborn", "dead"}

\* The process was told that it has the lock of Root(p), and has not released it.
Holding == {"verifying", "claimed", "ready", "analysing", "module", "checking",
            "removing", "clearing", "unlocking"}

\* The process runs orchestrate_analysis on the storage directory of Root(p).
InPass(p) == pc[p] \in {"analysing", "module", "checking", "removing"}

Image(f) == {f[x] : x \in DOMAIN f}

RowsOf(r) == {row \in rows : row[1] = r}

TypeOK ==
    /\ rows \subseteq Rows
    /\ locks \in [Roots -> Procs \cup {NoOne}]
    /\ aged \subseteq Roots
    /\ stored \subseteq Roots
    /\ recorded \in [Roots -> SUBSET (1 .. MaxDelays)]
    /\ target \in [Slots -> Roots \cup {NoRoot}]
    /\ module \subseteq Slots
    /\ current \in [Slots -> Procs]
    /\ pc \in [Procs -> PC]
    /\ uuid \in [Procs -> Procs]
    /\ name \in [Procs -> Slots \cup {NoName}]
    /\ item \in [Procs -> Rows \cup {NoRow}]
    /\ memory \in [Procs -> SUBSET (1 .. MaxDelays)]
    /\ keeping \subseteq Procs
    /\ cancelled \subseteq Procs
    /\ seen \in [Procs -> Procs \cup {NoOne}]
    /\ ended \subseteq Rows
    /\ delays \in [Roots -> 0 .. MaxDelays]
    /\ mishaps \in 0 .. MaxMishaps
    /\ killed \in BOOLEAN

Init ==
    /\ rows = {}
    /\ locks = [r \in Roots |-> NoOne]
    /\ aged = {}
    /\ stored = {}
    /\ recorded = [r \in Roots |-> {}]
    /\ target = [s \in Slots |-> NoRoot]
    /\ module = {}
    /\ current \in [Slots -> Procs]
    /\ \A s, t \in Slots : s # t => current[s] # current[t]
    /\ name = [p \in Procs |->
                 IF p \in Image(current) THEN CHOOSE s \in Slots : current[s] = p ELSE NoName]
    /\ pc = [p \in Procs |-> IF p \in Image(current) THEN "startup" ELSE "unborn"]
    /\ uuid = [p \in Procs |-> p]
    /\ item = [p \in Procs |-> NoRow]
    /\ memory = [p \in Procs |-> {}]
    /\ keeping = {}
    /\ cancelled = {}
    /\ seen = [p \in Procs |-> NoOne]
    /\ ended = {}
    /\ delays = [r \in Roots |-> 0]
    /\ mishaps = 0
    /\ killed = FALSE

-----------------------------------------------------------------------------

\* add_workload of a root that was just created and saved.
Submit(r) ==
    /\ <<r, 0>> \notin rows \cup ended
    /\ r \notin stored
    /\ rows' = rows \cup {<<r, 0>>}
    /\ stored' = stored \cup {r}
    /\ UNCHANGED <<locks, aged, recorded, tracking, identity, pc, local, ended, bounds>>

-----------------------------------------------------------------------------
\* Taking a work item: get_next_work_target.

Goto(p, where) == pc' = [pc EXCEPT ![p] = where]

\* Mutant of Free: the lock is granted whoever holds it.
AnyLock(p, r) == locks[r] \in Procs \cup {NoOne}

\* acquire_lock of p would return True (LockProtocol).
Free(p, r) == locks[r] \in {NoOne, uuid[p]}

Lock(p, r) ==
    /\ locks' = [locks EXCEPT ![r] = uuid[p]]
    /\ aged' = aged \ {r}

\* DELETE FROM locks WHERE uuid = r AND lock_uuid = u.
Unlock(u, r) ==
    IF locks[r] = u
    THEN locks' = [locks EXCEPT ![r] = NoOne] /\ aged' = aged \ {r}
    ELSE UNCHANGED <<locks, aged>>

\* The SELECT of either table: rows whose root had no lock when it ran.
List(p) ==
    /\ pc[p] = "idle"
    /\ \E row \in rows :
          /\ locks[row[1]] = NoOne
          /\ item' = [item EXCEPT ![p] = row]
    /\ Goto(p, "listed")
    /\ UNCHANGED <<tables, stored, recorded, tracking, identity, memory, keeping, cancelled,
                   seen, ended, bounds>>

\* Only a row of the workload table is looked up again.
Acquire(p) ==
    /\ pc[p] = "listed"
    /\ IF Free(p, Root(p))
       THEN /\ Lock(p, Root(p))
            /\ Goto(p, IF item[p][2] = 0 THEN "verifying" ELSE "claimed")
            /\ UNCHANGED item
       ELSE /\ Goto(p, "idle")
            /\ item' = [item EXCEPT ![p] = NoRow]
            /\ UNCHANGED <<locks, aged>>
    /\ UNCHANGED <<rows, stored, recorded, tracking, identity, memory, keeping, cancelled,
                   seen, ended, bounds>>

\* Mutant of Verify: the row is not looked up again.
VerifyNothing(p) ==
    /\ pc[p] = "verifying"
    /\ Goto(p, "claimed")
    /\ UNCHANGED <<tables, stored, recorded, tracking, identity, local, ended, bounds>>

Verify(p) ==
    /\ pc[p] = "verifying"
    /\ IF item[p] \in rows
       THEN Goto(p, "claimed") /\ UNCHANGED <<item, locks, aged>>
       ELSE /\ Goto(p, "idle")
            /\ item' = [item EXCEPT ![p] = NoRow]
            /\ Unlock(uuid[p], Root(p))
    /\ UNCHANGED <<rows, stored, recorded, tracking, identity, memory, keeping, cancelled,
                   seen, ended, bounds>>

\* worker_loop tracks the target and execute starts the keepalive thread; when that
\* fails, execute returns and the tracking is cleared.
Begin(p) ==
    /\ pc[p] = "claimed"
    /\ module' = module \ {name[p]}
    /\ IF Free(p, Root(p))
       THEN /\ Lock(p, Root(p))
            /\ target' = [target EXCEPT ![name[p]] = Root(p)]
            /\ keeping' = keeping \cup {p}
            /\ Goto(p, "ready")
            /\ UNCHANGED item
       ELSE /\ target' = [target EXCEPT ![name[p]] = NoRoot]
            /\ Goto(p, "idle")
            /\ item' = [item EXCEPT ![p] = NoRow]
            /\ UNCHANGED <<keeping, locks, aged>>
    /\ UNCHANGED <<rows, stored, recorded, identity, memory, cancelled, seen, ended, bounds>>

-----------------------------------------------------------------------------
\* Analysing it: orchestrate_analysis.

\* _process_work_item: a missing directory, or a delayed request that the saved root does
\* not know of, ends the work item with no analysis and no post-analysis logic.
Load(p) ==
    /\ pc[p] = "ready"
    /\ LET loads == /\ Root(p) \in stored
                    /\ item[p][2] \in recorded[Root(p)] \cup {0}
       IN IF loads
          THEN /\ Goto(p, "analysing")
               /\ memory' = [memory EXCEPT ![p] = recorded[Root(p)]]
          ELSE Goto(p, "clearing") /\ UNCHANGED memory
    /\ UNCHANGED <<tables, stored, recorded, tracking, identity, item, keeping, cancelled,
                   seen, ended, bounds>>

\* A module is tracked before it runs.
EnterModule(p) ==
    /\ pc[p] = "analysing"
    /\ p \notin cancelled
    /\ module' = module \cup {name[p]}
    /\ Goto(p, "module")
    /\ UNCHANGED <<tables, stored, recorded, target, identity, local, ended, bounds>>

\* delay_analysis, called by the running module: the row exists before the root is saved.
DelayAnalysis(p) ==
    LET r == Root(p)
        n == delays[r] + 1
    IN /\ pc[p] = "module"
       /\ n <= MaxDelays
       /\ rows' = rows \cup {<<r, n>>}
       /\ delays' = [delays EXCEPT ![r] = n]
       /\ memory' = [memory EXCEPT ![p] = @ \cup {n}]
       /\ UNCHANGED <<locks, aged, stored, recorded, tracking, identity, pc, item, keeping,
                      cancelled, seen, ended, mishaps, killed>>

\* root.save() makes the storage directory again when it is missing.
Save(p) ==
    /\ recorded' = [recorded EXCEPT ![Root(p)] = memory[p]]
    /\ stored' = stored \cup {Root(p)}

\* The root is saved after the module, unless the module raised an exception.
LeaveModule(p) ==
    /\ pc[p] = "module"
    /\ Save(p) \/ UNCHANGED <<recorded, stored>>
    /\ module' = module \ {name[p]}
    /\ Goto(p, "analysing")
    /\ UNCHANGED <<tables, target, identity, local, ended, bounds>>

\* execute() returns: nothing is left to analyse, or the analysis is cancelled.
Finish(p) ==
    /\ pc[p] = "analysing"
    /\ Save(p)
    /\ ended' = IF p \in cancelled THEN ended ELSE ended \cup {item[p]}
    /\ Goto(p, "checking")
    /\ UNCHANGED <<tables, tracking, identity, local, bounds>>

DelayedOf(r) == {row \in rows : row[1] = r /\ row[2] # 0}

\* execute() raises, for example AnalysisTimeoutError: the delayed requests are abandoned.
Abort(p) ==
    /\ pc[p] \in {"analysing", "module"}
    /\ Save(p)
    /\ rows' = rows \ DelayedOf(Root(p))
    /\ ended' = ended \cup DelayedOf(Root(p)) \cup {item[p]}
    /\ module' = module \ {name[p]}
    /\ Goto(p, "checking")
    /\ UNCHANGED <<locks, aged, target, identity, local, bounds>>

-----------------------------------------------------------------------------
\* After the analysis: _handle_cleanup, then the finally blocks of execute and worker_loop.

\* Mutant of Outstanding: delayed requests do not count.
OutstandingLock(p) == locks[Root(p)] \notin {NoOne, uuid[p]}

\* _check_for_outstanding_work.  Its query of the workload table names only other
\* analysis modes, and a root has one mode here.
Outstanding(p) ==
    \/ locks[Root(p)] \notin {NoOne, uuid[p]}
    \/ DelayedOf(Root(p)) \ {item[p]} # {}

Check(p) ==
    /\ pc[p] = "checking"
    /\ Goto(p, IF Outstanding(p) THEN "clearing" ELSE "removing")
    /\ UNCHANGED <<tables, stored, recorded, tracking, identity, local, ended, bounds>>

RemoveStorage(p) ==
    /\ pc[p] = "removing"
    /\ stored' = stored \ {Root(p)}
    /\ Goto(p, "clearing")
    /\ UNCHANGED <<tables, recorded, tracking, identity, local, ended, bounds>>

\* Mutant of Clear: every row of the root is deleted, not only the item's.
ClearRoot(p) ==
    /\ pc[p] = "clearing"
    /\ keeping' = keeping \ {p}
    /\ rows' = rows \ RowsOf(Root(p))
    /\ Goto(p, "unlocking")
    /\ UNCHANGED <<locks, aged, stored, recorded, tracking, identity, item, memory,
                   cancelled, seen, ended, bounds>>

\* Mutant of Clear: only the workload table is deleted from.
ClearWorkloadOnly(p) ==
    /\ pc[p] = "clearing"
    /\ keeping' = keeping \ {p}
    /\ rows' = IF item[p][2] = 0 THEN rows \ {item[p]} ELSE rows
    /\ Goto(p, "unlocking")
    /\ UNCHANGED <<locks, aged, stored, recorded, tracking, identity, item, memory,
                   cancelled, seen, ended, bounds>>

\* stop_keepalive, then the DELETE of clear_work_target.
Clear(p) ==
    /\ pc[p] = "clearing"
    /\ keeping' = keeping \ {p}
    /\ rows' = rows \ {item[p]}
    /\ Goto(p, "unlocking")
    /\ UNCHANGED <<locks, aged, stored, recorded, tracking, identity, item, memory,
                   cancelled, seen, ended, bounds>>

\* Back to the worker loop, with nothing tracked.
Idle(p) ==
    /\ Goto(p, "idle")
    /\ item' = [item EXCEPT ![p] = NoRow]
    /\ memory' = [memory EXCEPT ![p] = {}]
    /\ keeping' = keeping \ {p}
    /\ cancelled' = cancelled \ {p}
    /\ target' = [target EXCEPT ![name[p]] = NoRoot]

\* The DELETE fails: clear_work_target does not get to release_lock either.
ClearError(p) ==
    /\ pc[p] = "clearing"
    /\ mishaps < MaxMishaps
    /\ mishaps' = mishaps + 1
    /\ Idle(p)
    /\ UNCHANGED <<tables, stored, recorded, module, identity, seen, ended, delays, killed>>

Release(p) ==
    /\ pc[p] = "unlocking"
    /\ Unlock(uuid[p], Root(p))
    /\ Idle(p)
    /\ UNCHANGED <<rows, stored, recorded, module, identity, seen, ended, bounds>>

-----------------------------------------------------------------------------
\* The keepalive thread.

\* It inserts the row again when it is gone, refreshes its own, and when the row is
\* another's it ends, cancelling the analysis if execute() has begun and not returned.
Keepalive(p) ==
    LET r == Root(p)
    IN /\ p \in keeping
       /\ IF Free(p, r)
          THEN Lock(p, r) /\ UNCHANGED <<keeping, cancelled>>
          ELSE /\ keeping' = keeping \ {p}
               /\ cancelled' = IF pc[p] \in {"analysing", "module"}
                               THEN cancelled \cup {p} ELSE cancelled
               /\ UNCHANGED <<locks, aged>>
       /\ UNCHANGED <<rows, stored, recorded, tracking, identity, pc, item, memory, seen,
                      ended, bounds>>

-----------------------------------------------------------------------------
\* Process start and death, the engine's restarts, and recovery of lost work.

Unborn == {p \in Procs : pc[p] = "unborn"}

\* Nothing of a process that is gone remains but its rows, its lock and its tracking files.
Forget(gone) ==
    /\ item' = [p \in Procs |-> IF p \in gone THEN NoRow ELSE item[p]]
    /\ memory' = [p \in Procs |-> IF p \in gone THEN {} ELSE memory[p]]
    /\ seen' = [p \in Procs |-> IF p \in gone THEN NoOne ELSE seen[p]]
    /\ keeping' = keeping \ gone
    /\ cancelled' = cancelled \ gone

\* Mutant of StartUp: a tracked target is enough.
StartUpWithoutModule(p) ==
    LET r == target[name[p]]
    IN /\ pc[p] = "startup"
       /\ IF r # NoRoot /\ r \in stored
          THEN /\ seen' = [seen EXCEPT ![p] = locks[r]]
               /\ item' = [item EXCEPT ![p] = <<r, 0>>]
               /\ Goto(p, "releasing")
          ELSE Goto(p, "idle") /\ UNCHANGED <<item, seen>>
       /\ UNCHANGED <<tables, stored, recorded, tracking, identity, memory, keeping,
                      cancelled, ended, bounds>>

\* _handle_failed_analysis: nothing to do unless a target and a module are tracked.  The
\* failure is recorded in the root, and the lock of the root is read.
StartUp(p) ==
    LET r == target[name[p]]
        failed == r # NoRoot /\ name[p] \in module
    IN /\ pc[p] = "startup"
       /\ IF failed /\ r \in stored
          THEN /\ seen' = [seen EXCEPT ![p] = locks[r]]
               /\ item' = [item EXCEPT ![p] = <<r, 0>>]
               /\ Goto(p, "releasing")
               /\ UNCHANGED tracking
          ELSE /\ Goto(p, "idle")
               /\ target' = [target EXCEPT ![name[p]] = IF failed THEN NoRoot ELSE r]
               /\ module' = IF failed THEN module \ {name[p]} ELSE module
               /\ UNCHANGED <<item, seen>>
       /\ UNCHANGED <<tables, stored, recorded, identity, memory, keeping, cancelled,
                      ended, bounds>>

\* force_release_lock with the lock_uuid that was read, or with None.
ForceRelease(p) ==
    /\ pc[p] = "releasing"
    /\ Unlock(IF seen[p] = NoOne THEN locks[Root(p)] ELSE seen[p], Root(p))
    /\ target' = [target EXCEPT ![name[p]] = NoRoot]
    /\ module' = module \ {name[p]}
    /\ item' = [item EXCEPT ![p] = NoRow]
    /\ seen' = [seen EXCEPT ![p] = NoOne]
    /\ Goto(p, "idle")
    /\ UNCHANGED <<rows, stored, recorded, identity, memory, keeping, cancelled, ended, bounds>>

DeadSlots == {s \in Slots : pc[current[s]] = "dead"}

\* A worker in its idle loop exits by itself at auto_refresh_frequency; elsewhere it is
\* killed.  A process is left to replace every monitored one.
Die(p) ==
    /\ Alive(p)
    /\ "crash" \in Faults \/ pc[p] = "idle"
    /\ p \in Image(current) => Cardinality(Unborn) > Cardinality(DeadSlots)
    /\ Goto(p, "dead")
    /\ Forget({p})
    /\ killed' = (killed \/ pc[p] # "idle")
    /\ UNCHANGED <<tables, stored, recorded, tracking, identity, ended, delays, mishaps>>

\* restart_worker: a new Worker object with the dead one's name.
Restart(s) ==
    /\ pc[current[s]] = "dead"
    /\ \E q \in Unborn :
          /\ current' = [current EXCEPT ![s] = q]
          /\ name' = [name EXCEPT ![q] = s]
          /\ Goto(q, "startup")
    /\ UNCHANGED <<tables, stored, recorded, tracking, uuid, local, ended, bounds>>

\* A process for every worker name.
Start(next) ==
    /\ \A s, t \in Slots : s # t => next[s] # next[t]
    /\ current' = next
    /\ name' = [p \in Procs |->
                  IF p \in Image(next) THEN CHOOSE s \in Slots : next[s] = p ELSE name[p]]

\* The engine is stopped; when it starts, initialize_node deletes the locks of the node.
EngineRestart ==
    /\ "restart" \in Faults
    /\ \E next \in [Slots -> Unborn] :
          /\ Start(next)
          /\ pc' = [p \in Procs |-> IF p \in Image(next) THEN "startup"
                                    ELSE IF Alive(p) THEN "dead" ELSE pc[p]]
    /\ Forget({p \in Procs : Alive(p)})
    /\ locks' = [r \in Roots |-> NoOne]
    /\ aged' = {}
    /\ UNCHANGED <<rows, stored, recorded, tracking, uuid, ended, bounds>>

\* SIGHUP: restart_workers starts every Worker object again, with its lock_uuid and
\* tracking directory, and the processes it had go on until they find no work.
Reload ==
    /\ "reload" \in Faults
    /\ \E next \in [Slots -> Unborn] :
          /\ Start(next)
          /\ pc' = [p \in Procs |-> IF p \in Image(next) THEN "startup" ELSE pc[p]]
          /\ uuid' = [p \in Procs |-> IF p \in Image(next)
                                      THEN uuid[current[name'[p]]] ELSE uuid[p]]
    /\ UNCHANGED <<tables, stored, recorded, tracking, local, ended, bounds>>

Maintained(r) ==
    \E p \in Procs : pc[p] \in Holding /\ Root(p) = r /\ uuid[p] = locks[r]

\* The start-up of a dead worker's replacement has yet to find the root it was analysing.
Bereft(r) ==
    \E s \in module : target[s] = r /\ pc[current[s]] \in {"dead", "startup", "releasing"}

Expire(r) ==
    /\ locks[r] # NoOne
    /\ r \notin aged
    /\ Bereft(r) => "late" \in Faults
    /\ IF Maintained(r)
       THEN "starve" \in Faults /\ mishaps < MaxMishaps /\ mishaps' = mishaps + 1
       ELSE UNCHANGED mishaps
    /\ aged' = aged \cup {r}
    /\ UNCHANGED <<rows, locks, stored, recorded, tracking, identity, pc, local, ended, delays,
                   killed>>

\* Mutant of Recover: the lock is taken over, refreshed, and not released.
RecoverWithoutRelease(r) ==
    /\ r \in aged
    /\ aged' = aged \ {r}
    /\ UNCHANGED <<rows, locks, stored, recorded, tracking, identity, pc, local, ended, bounds>>

\* recover_lost_root takes an aged lock over and releases it.
Recover(r) ==
    /\ r \in aged
    /\ Unlock(locks[r], r)
    /\ UNCHANGED <<rows, stored, recorded, tracking, identity, pc, local, ended, bounds>>

-----------------------------------------------------------------------------
Work(p) ==
    \/ StartUp(p) \/ ForceRelease(p)
    \/ List(p) \/ Acquire(p) \/ Verify(p) \/ Begin(p) \/ Load(p)
    \/ LeaveModule(p) \/ Check(p) \/ RemoveStorage(p) \/ Clear(p) \/ Release(p)

Next ==
    \/ \E r \in Roots : Submit(r) \/ Expire(r) \/ Recover(r)
    \/ \E p \in Procs : \/ Work(p) \/ EnterModule(p) \/ DelayAnalysis(p) \/ Finish(p)
                        \/ Abort(p) \/ ClearError(p) \/ Keepalive(p) \/ Die(p)
    \/ \E s \in Slots : Restart(s)
    \/ EngineRestart
    \/ Reload

Spec == Init /\ [][Next]_vars

\* A running process goes on and its modules end, at the latest by the analysis time limits;
\* the manager replaces dead workers; unrefreshed locks age and are recovered.
FairSpec ==
    /\ Spec
    /\ \A p \in Procs : WF_vars(Work(p)) /\ SF_vars(Finish(p))
    /\ \A s \in Slots : WF_vars(Restart(s))
    /\ \A r \in Roots : WF_vars(Expire(r)) /\ WF_vars(Recover(r))

-----------------------------------------------------------------------------
\* Two workers never analyse one root at a time: executor.py rewrites the whole of its
\* root.json after every module, so the second would undo what the first has saved.
ExclusiveAnalysis ==
    \A p, q \in Procs : p # q /\ InPass(p) /\ InPass(q) => Root(p) # Root(q)

\* A workload item being analysed is still in the workload table (recovery.py: the row "for
\* an in-flight item survives the death of its worker"), or its analysis would be lost with
\* the worker.
InFlightWorkKept ==
    \A p \in Procs : pc[p] \in {"analysing", "module"} /\ item[p][2] = 0 => item[p] \in rows

\* Storage is removed only when no work is left: a row without a storage directory is one
\* whose analysis was completed, as long as workers die only in their idle loop.
CleanupLast ==
    ~killed => \A row \in rows : row[1] \notin stored => row \in ended

\* A row that the saved root knows of is deleted only after its analysis was completed or
\* abandoned with the analysis of the root.  With workers that die in the middle of a pass
\* this holds for roots that never had a delayed request, and for no others.
NoWorkDropped ==
    [][\A row \in rows \ rows' :
          (killed' => delays[row[1]] = 0) =>
             row \in ended' \/ row[2] \notin recorded[row[1]] \cup {0}]_vars

\* The start-up of a worker never deletes a lock that a live worker holds (worker.py: "we can
\* never delete a lock a *different* live worker has since taken over").
ReleasesOnlyTheDead ==
    [][\A p, q \in Procs :
          pc[p] = "releasing" /\ pc[q] \in Holding /\ Root(q) = Root(p)
             /\ locks[Root(q)] = uuid[q] /\ pc'[p] = "idle" =>
          locks'[Root(q)] = uuid[q]]_vars

\* Every row is worked on until it is gone, whatever dies and whichever locks leak.
QueueDrains == \A row \in Rows : row \in rows ~> row \notin rows

\* No root stays locked for ever.
LocksFreed == \A r \in Roots : locks[r] # NoOne ~> locks[r] = NoOne
=============================================================================
