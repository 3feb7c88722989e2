----------------------------- MODULE NodeDrain -----------------------------
(***************************************************************************)
(* Draining a node (saq/database/util/node.py, saq/engine/node_manager):   *)
(* the status of the nodes, the drain routines of their engines, the       *)
(* collectors that must flush first, and the two ways work moves between   *)
(* nodes: a draining node pushes its delayed analysis away, and a running  *)
(* node pulls the workload of others.                                      *)
(*                                                                         *)
(* A root has at most one delayed analysis and one workload entry.  What   *)
(* running them does, and delaying again, is the matter of WorkQueue; the  *)
(* loss of a lock whose owner lives is that of LockProtocol.               *)
(***************************************************************************)
EXTENDS Naturals, FiniteSets

CONSTANTS Nodes,
          Collecting,   \* those that run a collector
          Drainable,    \* those an operator may drain
          First,        \* the node the old roots are on
          Old,          \* alerts with a delayed analysis outstanding
          Fresh,        \* roots yet to be submitted
          Due,          \* the old roots whose delayed analysis is due
          Loads,        \* the roots there are, old and to come: sets of roots
          Suits,        \* the nodes whose analysis modes a root suits
          None,
          MaxDrains, MaxRequests, MaxFaults  \* bounds on what operators, analysts and faults do

Roots == Old \cup Fresh
Flushing == "draining_collectors"
Draining == {Flushing, "draining", "drained"}
Finished == {"drained", "stopped"}

ASSUME DrainAssumption ==
    /\ Collecting \subseteq Nodes /\ Drainable \subseteq Nodes /\ First \in Nodes
    /\ IsFiniteSet(Old) /\ IsFiniteSet(Fresh) /\ Old \cap Fresh = {} /\ Due \subseteq Old
    /\ Loads \subseteq SUBSET Roots
    /\ Suits \in [Roots -> SUBSET Nodes]
    /\ None \notin Nodes \cup (Nodes \X {"drain", "worker"})
    /\ MaxDrains \in Nat /\ MaxRequests \in Nat /\ MaxFaults \in Nat

VARIABLES
    status,     \* nodes.status
    engine,     \* the engine of each node
    beat,       \* nodes.last_update is recent
    pass,       \* the transfer pass of each engine
    worker,     \* a worker of each engine
    lock,       \* the owner of the lock on each root
    delayed,    \* the node of its delayed_analysis row
    work,       \* the node of its workload row
    copies,     \* the nodes that have its storage directory
    location,   \* alerts.location
    shells,     \* the nodes that died with a directory half downloaded
    torn,       \* roots whose pull failed after its rows were committed
    collector,  \* the collector of each node, and its collector_status row
    stage,      \* how far the submission of each root is
    ran,        \* what has been analysed: <<root, kind>>
    drains, requests, faults

rows == <<delayed, work>>
disk == <<copies, location, shells, torn>>
counters == <<drains, requests, faults>>
vars == <<status, engine, beat, pass, worker, lock, rows, disk, collector, stage, ran, counters>>

NoPass == [step |-> "none", todo |-> {}, stuck |-> {}, skipped |-> FALSE, root |-> None, to |-> None]
Idle == [step |-> "idle", root |-> None, kind |-> None, from |-> None]
Outside == [at |-> "outside", node |-> None, by |-> None]

Statuses == {"starting", "running", "stopped"} \cup Draining
Passes == [step : {"none", "looping", "locked", "uploaded", "repointed", "counting"},
           todo : SUBSET Roots, stuck : SUBSET Roots, skipped : BOOLEAN,
           root : Old \cup {None}, to : Nodes \cup {None}]
Workers == [step : {"idle", "listed", "pulling", "downloaded", "moved", "pulled", "working"},
            root : Roots \cup {None}, kind : {"delayed", "work", None}, from : Nodes \cup {None}]
Stages == [at : {"never", "outside", "backlog", "accepted", "in"}, node : Nodes \cup {None},
           by : Collecting \cup {None}]
Collectors == [runs : BOOLEAN, sees : Statuses, says : {"running", "draining"} \cup Finished,
               fresh : BOOLEAN]

TypeOK ==
    /\ status \in [Nodes -> Statuses]
    /\ engine \in [Nodes -> {"down", "starting", "up"}]
    /\ beat \in [Nodes -> BOOLEAN]
    /\ pass \in [Nodes -> Passes] /\ worker \in [Nodes -> Workers]
    /\ lock \in [Roots -> (Nodes \X {"drain", "worker"}) \cup {None}]
    /\ delayed \in [Roots -> Nodes \cup {None}] /\ work \in [Roots -> Nodes \cup {None}]
    /\ copies \in [Roots -> SUBSET Nodes] /\ location \in [Roots -> Nodes \cup {None}]
    /\ shells \in [Roots -> SUBSET Nodes] /\ torn \subseteq Roots
    /\ collector \in [Collecting -> Collectors]
    /\ stage \in [Roots -> Stages]
    /\ ran \subseteq Roots \X {"delayed", "work"}

Init ==
    /\ status = [n \in Nodes |-> "running"] /\ engine = [n \in Nodes |-> "up"]
    /\ beat = [n \in Nodes |-> TRUE]
    /\ pass = [n \in Nodes |-> NoPass] /\ worker = [n \in Nodes |-> Idle]
    /\ lock = [r \in Roots |-> None]
    /\ work = [r \in Roots |-> None]
    /\ \E load \in Loads :
          /\ delayed = [r \in Roots |-> IF r \in Old \cap load THEN First ELSE None]
          /\ copies = [r \in Roots |-> IF r \in Old \cap load THEN {First} ELSE {}]
          /\ location = delayed
          /\ stage = [r \in Roots |-> IF r \in Fresh \cap load THEN Outside
                                     ELSE [Outside EXCEPT !.at = "never"]]
    /\ shells = [r \in Roots |-> {}] /\ torn = {}
    /\ collector = [m \in Collecting |->
                       [runs |-> TRUE, sees |-> "running", says |-> "running", fresh |-> TRUE]]
    /\ ran = {}
    /\ drains = 0 /\ requests = 0 /\ faults = 0

Set(n, s) == status' = [status EXCEPT ![n] = s]
Fault == faults < MaxFaults /\ faults' = faults + 1 /\ UNCHANGED <<drains, requests>>

-----------------------------------------------------------------------------
\* Operators and analysts.

Drain(n) ==
    /\ n \in Drainable /\ drains < MaxDrains /\ status[n] = "running"
    /\ Set(n, Flushing) /\ drains' = drains + 1
    /\ UNCHANGED <<engine, beat, pass, worker, lock, rows, disk, collector, stage, ran, requests, faults>>

Resume(n) ==
    /\ status[n] \in Draining
    /\ Set(n, "running")
    /\ UNCHANGED <<engine, beat, pass, worker, lock, rows, disk, collector, stage, ran, counters>>

\* A disposition puts the alert in the workload of the node it is on.
Request(r) ==
    /\ location[r] # None /\ requests < MaxRequests /\ work[r] = None
    /\ work' = [work EXCEPT ![r] = location[r]] /\ requests' = requests + 1
    /\ ran' = ran \ {<<r, "work">>}
    /\ UNCHANGED <<status, engine, beat, pass, worker, lock, delayed, disk, collector, stage,
                   drains, faults>>

-----------------------------------------------------------------------------
\* The life of an engine.

\* What a worker listed it locks within moments: the listing outlasts neither
\* a restart nor the timeout of a lock.
NotListed(r) == \A n \in Nodes : worker[n].step = "listed" => worker[n].root # r

\* Mutant of LocksOf: a pattern that matches the owners of every node.
LocksOfAll(n) == {r \in Roots : lock[r] # None}
LocksOf(n) == {r \in Roots : lock[r] \in {<<n, "drain">>, <<n, "worker">>}}

\* initialize_node: a restart cancels a drain, and clears the locks of the node.
Start(n) ==
    /\ engine[n] = "down" /\ \A r \in LocksOf(n) : NotListed(r)
    /\ engine' = [engine EXCEPT ![n] = "starting"]
    /\ Set(n, "starting")
    /\ beat' = [beat EXCEPT ![n] = TRUE]
    /\ lock' = [r \in Roots |-> IF r \in LocksOf(n) THEN None ELSE lock[r]]
    /\ UNCHANGED <<pass, worker, rows, disk, collector, stage, ran, counters>>

Run(n) ==
    /\ engine[n] = "starting"
    /\ engine' = [engine EXCEPT ![n] = "up"] /\ Set(n, "running")
    /\ UNCHANGED <<beat, pass, worker, lock, rows, disk, collector, stage, ran, counters>>

\* The end of the controller loop, the workers having ended.
Stop(n) ==
    /\ engine[n] = "up" /\ pass[n].step = "none" /\ worker[n] = Idle /\ Fault
    /\ engine' = [engine EXCEPT ![n] = "down"] /\ Set(n, "stopped")
    /\ UNCHANGED <<beat, pass, worker, lock, rows, disk, collector, stage, ran>>

\* The host goes down with its controller and workers; rows and files stay, and what a
\* worker had downloaded of a root.
Crash(n) ==
    /\ engine[n] # "down" /\ Fault
    /\ engine' = [engine EXCEPT ![n] = "down"]
    /\ pass' = [pass EXCEPT ![n] = NoPass] /\ worker' = [worker EXCEPT ![n] = Idle]
    /\ shells' = IF worker[n].step = "pulling"
                 THEN [shells EXCEPT ![worker[n].root] = @ \cup {n}] ELSE shells
    /\ UNCHANGED <<status, beat, lock, rows, copies, location, torn, collector, stage, ran>>

\* The heartbeat of a dead engine ages; so does that of one held up by its transfers.
Lapse(n) ==
    /\ beat[n]
    /\ \/ engine[n] = "down" /\ UNCHANGED counters
       \/ pass[n].step # "none" /\ Fault
    /\ beat' = [beat EXCEPT ![n] = FALSE]
    /\ UNCHANGED <<status, engine, pass, worker, lock, rows, disk, collector, stage, ran>>

Beat(n) ==
    /\ engine[n] = "up" /\ ~beat[n] /\ pass[n].step = "none"
    /\ beat' = [beat EXCEPT ![n] = TRUE]
    /\ UNCHANGED <<status, engine, pass, worker, lock, rows, disk, collector, stage, ran, counters>>

\* reconcile_stale_node_statuses, by the engine of the primary node.
Reconcile(n) ==
    /\ ~beat[n] /\ status[n] \in {"starting", "running", "draining", "drained"}
    /\ \E p \in Nodes : engine[p] = "up"
    /\ Set(n, "stopped")
    /\ UNCHANGED <<engine, beat, pass, worker, lock, rows, disk, collector, stage, ran, counters>>

\* recover_expired_locks, of a lock whose owner died.
Expire(r) ==
    /\ lock[r] # None /\ engine[lock[r][1]] = "down" /\ NotListed(r)
    /\ lock' = [lock EXCEPT ![r] = None]
    /\ UNCHANGED <<status, engine, beat, pass, worker, rows, disk, collector, stage, ran, counters>>

-----------------------------------------------------------------------------
\* execute_drain_routines.

\* Mutant of Pending: a collector that died unflushed blocks the drain.
PendingEver(n) == n \in Collecting /\ collector[n].says \notin Finished

\* A collector that reported lately has not finished flushing.
Pending(n) == n \in Collecting /\ collector[n].fresh /\ collector[n].says \notin Finished

Routine(n) == engine[n] = "up" /\ pass[n].step = "none"

Advance(n) ==
    /\ Routine(n) /\ status[n] = Flushing /\ ~Pending(n)
    /\ Set(n, "draining")
    /\ UNCHANGED <<engine, beat, pass, worker, lock, rows, disk, collector, stage, ran, counters>>

Revert(n) ==
    /\ Routine(n) /\ status[n] = "draining" /\ Pending(n)
    /\ Set(n, Flushing)
    /\ UNCHANGED <<engine, beat, pass, worker, lock, rows, disk, collector, stage, ran, counters>>

Undrain(n) ==
    /\ Routine(n) /\ status[n] = "drained" /\ \E r \in Roots : work[r] = n
    /\ Set(n, "draining")
    /\ UNCHANGED <<engine, beat, pass, worker, lock, rows, disk, collector, stage, ran, counters>>

\* transfer_delayed_analysis: the roots with nothing but delayed analysis.
Candidates(n) == {r \in Roots : delayed[r] = n /\ work[r] = None /\ lock[r] = None}

\* get_compatible_transfer_target; which of them is the least loaded is left open.
Targets(n, r) == {t \in Suits[r] \ {n} : status[t] = "running" /\ beat[t]}

Step(n, p) == pass' = [pass EXCEPT ![n] = p]
Skipped(n, r) == [pass[n] EXCEPT !.step = "looping", !.todo = @ \ {r}, !.skipped = TRUE,
                                 !.root = None, !.to = None]
Unlock(r, owner) == lock' = IF lock[r] = owner THEN [lock EXCEPT ![r] = None] ELSE lock

Begin(n) ==
    /\ Routine(n) /\ status[n] = "draining" /\ ~Pending(n)
    /\ Step(n, [NoPass EXCEPT !.step = "looping", !.todo = Candidates(n)])
    /\ UNCHANGED <<status, engine, beat, worker, lock, rows, disk, collector, stage, ran, counters>>

\* The next candidate: skipped, left where it is, or locked.
Handle(n, r) ==
    /\ pass[n].step = "looping" /\ r \in pass[n].todo
    /\ \/ /\ n \notin copies[r] \/ (Targets(n, r) # {} /\ lock[r] # None)
          /\ Step(n, Skipped(n, r)) /\ UNCHANGED lock
       \/ /\ n \in copies[r] /\ Targets(n, r) = {}
          /\ Step(n, [pass[n] EXCEPT !.todo = @ \ {r}, !.stuck = @ \cup {r}])
          /\ UNCHANGED lock
       \/ /\ n \in copies[r] /\ lock[r] = None
          /\ lock' = [lock EXCEPT ![r] = <<n, "drain">>]
          /\ \E t \in Targets(n, r) :
                Step(n, [pass[n] EXCEPT !.step = "locked", !.root = r, !.to = t])
    /\ UNCHANGED <<status, engine, beat, worker, rows, disk, collector, stage, ran, counters>>

\* The target extracts the directory, over its own if it has one, and moves the alert.
Received(r, t) ==
    /\ copies' = [copies EXCEPT ![r] = @ \cup {t}]
    /\ location' = [location EXCEPT ![r] = t]
    /\ shells' = [shells EXCEPT ![r] = @ \ {t}]
    /\ UNCHANGED torn

Upload(n) ==
    /\ pass[n].step = "locked"
    /\ \/ /\ Received(pass[n].root, pass[n].to)
          /\ Step(n, [pass[n] EXCEPT !.step = "uploaded"])
          /\ UNCHANGED <<lock, counters>>
       \/ \* it failed, or its answer was lost
          /\ Fault
          /\ Received(pass[n].root, pass[n].to) \/ UNCHANGED disk
          /\ Step(n, Skipped(n, pass[n].root))
          /\ Unlock(pass[n].root, <<n, "drain">>)
    /\ UNCHANGED <<status, engine, beat, worker, rows, collector, stage, ran>>

\* The row is pointed at the target unless it is no longer on this node.
Repoint(n) ==
    /\ pass[n].step = "uploaded"
    /\ LET r == pass[n].root IN
       \/ /\ delayed[r] = n
          /\ delayed' = [delayed EXCEPT ![r] = pass[n].to]
          /\ Step(n, [pass[n] EXCEPT !.step = "repointed"])
          /\ UNCHANGED lock
       \/ /\ delayed[r] # n
          /\ Step(n, Skipped(n, r))
          /\ Unlock(r, <<n, "drain">>)
          /\ UNCHANGED delayed
    /\ UNCHANGED <<status, engine, beat, worker, work, disk, collector, stage, ran, counters>>

Remove(n) ==
    /\ pass[n].step = "repointed"
    /\ copies' = [copies EXCEPT ![pass[n].root] = @ \ {n}]
    /\ Unlock(pass[n].root, <<n, "drain">>)
    /\ Step(n, [pass[n] EXCEPT !.step = "looping", !.todo = @ \ {pass[n].root},
                               !.root = None, !.to = None])
    /\ UNCHANGED <<status, engine, beat, worker, rows, location, shells, torn, collector, stage,
                   ran, counters>>

\* The rows left for want of a target are counted ...
Count(n) ==
    /\ pass[n].step = "looping" /\ pass[n].todo = {}
    /\ Step(n, IF pass[n].skipped THEN NoPass
               ELSE [pass[n] EXCEPT !.step = "counting", !.stuck = {r \in @ : delayed[r] = n}])
    /\ UNCHANGED <<status, engine, beat, worker, lock, rows, disk, collector, stage, ran, counters>>

\* ... and check_and_mark_drained expects as many.
Empty(n, stuck) ==
    /\ ~\E r \in Roots : work[r] = n
    /\ Cardinality({r \in Roots : delayed[r] = n}) = Cardinality(stuck)
    /\ ~Pending(n)

Mark(n) ==
    /\ pass[n].step = "counting"
    /\ IF status[n] = "draining" /\ Empty(n, pass[n].stuck) THEN Set(n, "drained") ELSE UNCHANGED status
    /\ Step(n, NoPass)
    /\ UNCHANGED <<engine, beat, worker, lock, rows, disk, collector, stage, ran, counters>>

-----------------------------------------------------------------------------
\* A worker: what it may take is listed, then locked.

Listed(n, r, kind, from) ==
    worker' = [worker EXCEPT ![n] = [step |-> "listed", root |-> r, kind |-> kind, from |-> from]]

List(n, r) ==
    /\ engine[n] = "up" /\ worker[n] = Idle /\ lock[r] = None
    /\ \/ r \in Due /\ delayed[r] = n /\ Listed(n, r, "delayed", n)
       \/ work[r] = n /\ Listed(n, r, "work", n)
       \/ /\ work[r] \notin {n, None} /\ n \in Suits[r]
          /\ status[n] = "running"   \* a node being drained pulls nothing
          /\ Listed(n, r, "work", work[r])
    /\ UNCHANGED <<status, engine, beat, pass, lock, rows, disk, collector, stage, ran, counters>>

Take(n) ==
    /\ worker[n].step = "listed"
    /\ LET r == worker[n].root
           local == worker[n].from = n
           \* a workload row is looked up again, a delayed_analysis row is not
           there == worker[n].kind = "delayed" \/ work[r] # None
           \* "target_dir for transfer exists! bailing"
           free == lock[r] = None /\ there /\ (local \/ n \notin copies[r] \cup shells[r])
       IN
       \/ /\ ~free
          /\ worker' = [worker EXCEPT ![n] = Idle]
          /\ UNCHANGED lock
       \/ /\ free
          /\ lock' = [lock EXCEPT ![r] = <<n, "worker">>]
          /\ worker' = [worker EXCEPT ![n].step = IF local THEN "working" ELSE "pulling"]
    /\ UNCHANGED <<status, engine, beat, pass, rows, disk, collector, stage, ran, counters>>

\* transfer_work_target after the lock.  An exception in any step of it removes the
\* directory and releases the lock; what was committed by then stays.
Dropped(n) ==
    /\ copies' = [copies EXCEPT ![worker[n].root] = @ \ {n}]
    /\ Unlock(worker[n].root, <<n, "worker">>)
    /\ worker' = [worker EXCEPT ![n] = Idle]

Download(n) ==
    /\ worker[n].step = "pulling"
    /\ LET r == worker[n].root
           there == worker[n].from \in copies[r]
       IN
       \/ /\ there
          /\ copies' = [copies EXCEPT ![r] = @ \cup {n}]
          /\ worker' = [worker EXCEPT ![n].step = "downloaded"]
          /\ UNCHANGED <<lock, counters>>
       \/ /\ Dropped(n)
          /\ Fault \/ (~there /\ UNCHANGED counters)
    /\ UNCHANGED <<status, engine, beat, pass, rows, location, shells, torn, collector, stage, ran>>

\* Mutant of Pulled: the delayed_analysis rows stay where they were.
PulledWork(n, r) ==
    /\ location' = [location EXCEPT ![r] = n]
    /\ work' = [work EXCEPT ![r] = IF @ = None THEN None ELSE n]
    /\ UNCHANGED delayed

\* The rows and the alert follow the copy, in one transaction.
Pulled(n, r) ==
    /\ location' = [location EXCEPT ![r] = n]
    /\ work' = [work EXCEPT ![r] = IF @ = None THEN None ELSE n]
    /\ delayed' = [delayed EXCEPT ![r] = IF @ = None THEN None ELSE n]

Commit(n) ==
    /\ worker[n].step = "downloaded"
    /\ \/ /\ Pulled(n, worker[n].root)
          /\ worker' = [worker EXCEPT ![n].step = "moved"]
          /\ UNCHANGED <<copies, lock, counters>>
       \/ Dropped(n) /\ Fault /\ UNCHANGED <<rows, location>>
    /\ UNCHANGED <<status, engine, beat, pass, shells, torn, collector, stage, ran>>

\* root.load() and root.save() in the new place, with the rows already there.
Relocate(n) ==
    /\ worker[n].step = "moved"
    /\ \/ /\ worker' = [worker EXCEPT ![n].step = "pulled"]
          /\ UNCHANGED <<copies, lock, torn, counters>>
       \/ Dropped(n) /\ Fault /\ torn' = torn \cup {worker[n].root}
    /\ UNCHANGED <<status, engine, beat, pass, rows, location, shells, collector, stage, ran>>

\* The remote copy is cleared if the remote node manages to.
Clear(n) ==
    /\ worker[n].step = "pulled"
    /\ worker' = [worker EXCEPT ![n].step = "working"]
    /\ \/ /\ copies' = [copies EXCEPT ![worker[n].root] = @ \ {worker[n].from}]
          /\ UNCHANGED counters
       \/ Fault /\ UNCHANGED copies
    /\ UNCHANGED <<status, engine, beat, pass, lock, rows, location, shells, torn, collector, stage,
                   ran>>

\* Mutant of Cleared: every row of the root is deleted.
ClearedAll(r, kind) ==
    /\ delayed' = [delayed EXCEPT ![r] = None]
    /\ work' = [work EXCEPT ![r] = None]

\* clear_work_target
Cleared(r, kind) ==
    IF kind = "delayed"
    THEN delayed' = [delayed EXCEPT ![r] = None] /\ UNCHANGED work
    ELSE work' = [work EXCEPT ![r] = None] /\ UNCHANGED delayed

\* Without its directory the item is cleared all the same, "already processed?".
Finish(n) ==
    /\ worker[n].step = "working"
    /\ LET r == worker[n].root
           kind == worker[n].kind
       IN /\ ran' = IF n \in copies[r] THEN ran \cup {<<r, kind>>} ELSE ran
          /\ Cleared(r, kind)
          /\ Unlock(r, <<n, "worker">>)
    /\ worker' = [worker EXCEPT ![n] = Idle]
    /\ UNCHANGED <<status, engine, beat, pass, disk, collector, stage, counters>>

-----------------------------------------------------------------------------
\* Submissions, by collectors and by clients of the API.

Backlog(m) == {r \in Fresh : stage[r].at \in {"backlog", "accepted"} /\ stage[r].by = m}

Collect(m, r) ==
    /\ collector[m].runs /\ collector[m].sees \notin Draining
    /\ stage[r].at = "outside"
    /\ stage' = [stage EXCEPT ![r] = [at |-> "backlog", node |-> None, by |-> m]]
    /\ UNCHANGED <<status, engine, beat, pass, worker, lock, rows, disk, collector, ran, counters>>

Accepted(r, t, m) == stage' = [stage EXCEPT ![r] = [at |-> "accepted", node |-> t, by |-> m]]

Deliver(m, r, t) ==
    /\ collector[m].runs /\ stage[r].at = "backlog" /\ stage[r].by = m
    /\ t \in Suits[r] /\ status[t] \in {"running", Flushing} /\ beat[t]
    /\ Accepted(r, t, m)
    /\ UNCHANGED <<status, engine, beat, pass, worker, lock, rows, disk, collector, ran, counters>>

Submit(r, t) ==
    /\ stage[r].at = "outside"
    /\ status[t] \notin {"draining", "drained"}   \* reject_if_node_draining
    /\ Accepted(r, t, None)
    /\ UNCHANGED <<status, engine, beat, pass, worker, lock, rows, disk, collector, ran, counters>>

\* The rest of the request; the status is not looked at again.
Arrive(r) ==
    /\ stage[r].at = "accepted"
    /\ stage' = [stage EXCEPT ![r] = [Outside EXCEPT !.at = "in"]]
    /\ Received(r, stage[r].node)
    /\ work' = [work EXCEPT ![r] = stage[r].node]
    /\ UNCHANGED <<status, engine, beat, pass, worker, lock, delayed, collector, ran, counters>>

\* What the collector knows of the status of its node is up to ten seconds old.
See(m) ==
    /\ collector[m].runs /\ collector[m].sees # status[m]
    /\ collector' = [collector EXCEPT ![m].sees = status[m]]
    /\ UNCHANGED <<status, engine, beat, pass, worker, lock, rows, disk, stage, ran, counters>>

Saying(m) ==
    IF collector[m].sees \notin Draining THEN "running"
    ELSE IF Backlog(m) # {} THEN "draining" ELSE "drained"

Report(m) ==
    /\ collector[m].runs
    /\ collector' = [collector EXCEPT ![m].says = Saying(m), ![m].fresh = TRUE]
    /\ collector' # collector
    /\ UNCHANGED <<status, engine, beat, pass, worker, lock, rows, disk, stage, ran, counters>>

\* It is stopped, which it reports, or dies.
Leave(m) ==
    /\ collector[m].runs /\ Fault
    /\ \/ collector' = [collector EXCEPT ![m].runs = FALSE, ![m].says = "stopped", ![m].fresh = TRUE]
       \/ collector' = [collector EXCEPT ![m].runs = FALSE]
    /\ UNCHANGED <<status, engine, beat, pass, worker, lock, rows, disk, stage, ran>>

\* Its row ages ...
Forget(m) ==
    /\ ~collector[m].runs /\ collector[m].fresh
    /\ collector' = [collector EXCEPT ![m].fresh = FALSE]
    /\ UNCHANGED <<status, engine, beat, pass, worker, lock, rows, disk, stage, ran, counters>>

\* ... until it is back, with the backlog it left.
Return(m) ==
    /\ ~collector[m].runs
    /\ collector' = [collector EXCEPT ![m].runs = TRUE, ![m].sees = status[m]]
    /\ UNCHANGED <<status, engine, beat, pass, worker, lock, rows, disk, stage, ran, counters>>

-----------------------------------------------------------------------------
NodeNext(n) ==
    \/ Drain(n) \/ Resume(n)
    \/ Start(n) \/ Run(n) \/ Stop(n) \/ Crash(n) \/ Lapse(n) \/ Beat(n) \/ Reconcile(n)
    \/ Advance(n) \/ Revert(n) \/ Undrain(n)
    \/ Begin(n) \/ (\E r \in Old : Handle(n, r)) \/ Upload(n) \/ Repoint(n) \/ Remove(n)
    \/ Count(n) \/ Mark(n)
    \/ (\E r \in Roots : List(n, r)) \/ Take(n)
    \/ Download(n) \/ Commit(n) \/ Relocate(n) \/ Clear(n) \/ Finish(n)

CollectorNext(m) ==
    \/ \E r \in Fresh : Collect(m, r) \/ \E t \in Nodes : Deliver(m, r, t)
    \/ See(m) \/ Report(m) \/ Leave(m) \/ Forget(m) \/ Return(m)

Next ==
    \/ \E n \in Nodes : NodeNext(n)
    \/ \E m \in Collecting : CollectorNext(m)
    \/ \E r \in Fresh : Arrive(r) \/ \E t \in Nodes : Submit(r, t)
    \/ \E r \in Old : Request(r)
    \/ \E r \in Roots : Expire(r)

Spec == Init /\ [][Next]_vars

\* The controller loop runs its routines every few seconds while the engine lives,
\* workers and collectors poll, requests end, and a heartbeat or a report that
\* nobody renews ages.  No fairness for operators, analysts, restarts and faults.
FairSpec ==
    /\ Spec
    /\ \A n \in Nodes :
          /\ WF_vars(Beat(n)) /\ WF_vars(Run(n))
          /\ WF_vars(Advance(n) \/ Revert(n) \/ Undrain(n) \/ Begin(n))
          /\ WF_vars((\E r \in Old : Handle(n, r)) \/ Upload(n) \/ Repoint(n) \/ Remove(n)
                     \/ Count(n) \/ Mark(n))
          /\ WF_vars(\E r \in Roots : List(n, r))
          /\ WF_vars(Take(n) \/ Download(n) \/ Commit(n) \/ Relocate(n) \/ Clear(n)
                     \/ Finish(n))
    /\ \A m \in Collecting :
          /\ WF_vars(See(m)) /\ WF_vars(Report(m)) /\ WF_vars(Forget(m))
          /\ WF_vars(\E r \in Fresh, t \in Nodes : Deliver(m, r, t))
    /\ \A r \in Fresh : WF_vars(Arrive(r))
    /\ \A r \in Roots : WF_vars(Expire(r))
-----------------------------------------------------------------------------
\* Whatever moves a root, and wherever an engine dies while it does, the delayed
\* analysis of the root and the alert are always on a node that has its files:
\* the sender of a transfer removes its copy only after the row was committed,
\* and a pull moves the delayed_analysis rows along (drain.py, transfer_work_target).
\* The exception is a pull whose root.load() or root.save() raises: the handler
\* removes the download, and the rows that were committed before stay on the node
\* that no longer has it (workload_manager/database.py:193-213).
HasStorage ==
    \A r \in Roots \ torn :
        /\ delayed[r] # None => delayed[r] \in copies[r]
        /\ location[r] # None => location[r] \in copies[r]

\* A delayed analysis that is not due yet survives drains, pulls by other
\* nodes, analyst requests on its root and crashes between any of their steps.
FarKept == \A r \in Old \ Due : location[r] # None => delayed[r] # None

\* A submission some node accepted is analysed, where its files are, before its
\* workload row goes, also when it raced a drain, was pulled by another node
\* while the first one was at it, or lost its node half way.  But after a pull that
\* failed behind its commit (database.py:193-213) the row is on a node without the
\* files, whose worker takes that for work already done.
SubmissionKept ==
    \A r \in Fresh \ torn : stage[r].at = "in" /\ work[r] = None => <<r, "work">> \in ran

\* A drain ends as long as the engine lives: neither delayed analysis that can
\* go nowhere, nor a collector that died unflushed, nor one that comes back with
\* a backlog keeps the node draining for ever (execute_drain_routines).  Delayed
\* analysis without its files does: every pass skips it, and ends unmarked.
DrainEnds ==
    \A n \in Drainable :
        engine[n] = "up" /\ status[n] \in {Flushing, "draining"} ~>
            \/ engine[n] # "up" \/ status[n] \notin {Flushing, "draining"}
            \/ \E r \in torn : delayed[r] = n

\* "a draining node pushes [delayed analysis] to another node that can accept
\* [it].  If no compatible node exists the work stays put [...] and resumes when
\* the node starts back up" (saq/engine/node_manager/drain.py:3-8): it is never
\* lost.  The code loses it: a worker that listed the row before the transfer
\* locks the root after it, finds no files, and deletes the row the other node
\* was to run, by its id.
DelayedKept ==
    \A r \in Old : location[r] # None /\ delayed[r] = None => <<r, "delayed">> \in ran
=============================================================================
