-------------------------- MODULE WorkDistribution --------------------------
(***************************************************************************)
(* A collector service: submissions staged by hunts are filtered for       *)
(* duplicates, moved to the incoming directory, assigned to groups of      *)
(* nodes, delivered by the threads of each group and finally cleaned up    *)
(* (saq/collectors).  The collection thread, the cleanup thread and the    *)
(* delivery threads share the tables incoming_workload and                 *)
(* work_distribution and the directories; a statement that commits is one  *)
(* step, as is a rename or removal of a directory.                         *)
(***************************************************************************)
EXTENDS Naturals, FiniteSets

CONSTANTS Submissions,
          Groups,        \* RemoteNodeGroups
          Threads,       \* delivery threads, each with its work_lock_uuid
          GroupOf,       \* the group of a thread
          FullDelivery,  \* the groups with full_delivery
          Sampled,       \* the groups whose coverage is below 100
          Keys,          \* keys of the duplicate filter
          NoKey,
          Kinds,         \* the keys and group_assignments each submission may come with
          BatchSize,
          MaxAttempts,   \* max_delivery_attempts
          None,
          Faults,        \* what the environment may do, a subset of AllFaults
          MaxMishaps     \* how often it does

\* crash: the process dies and is started again.  error: a statement or rename of the
\* collection thread raises.  lost: a node received what its reply does not confirm.
\* age: a lock gets ten minutes old.  outage: the nodes of a group go offline.
\* foreign: another collector service, sharing the groups, starts or finds no nodes.
AllFaults == {"crash", "error", "lost", "age", "outage", "foreign"}

ASSUME DistributionAssumption ==
    /\ GroupOf \in [Threads -> Groups]
    /\ FullDelivery \subseteq Groups
    /\ Sampled \subseteq Groups
    /\ NoKey \notin Keys
    /\ Kinds \in [Submissions -> SUBSET [key : Keys \cup {NoKey}, groups : SUBSET Groups]]
    /\ BatchSize \in Nat \ {0}
    /\ MaxAttempts \in Nat \ {0}
    /\ None \notin Threads \cup Submissions
    /\ Faults \subseteq AllFaults
    /\ MaxMishaps \in Nat

VARIABLES
    place,      \* the directory that holds each submission
    key,        \* its submission_key
    wanted,     \* its group_assignments
    marked,     \* the keys the duplicate filter has recorded
    workload,   \* the submissions with a row of incoming_workload
    rows,       \* the row of work_distribution of each submission and group
    collector,  \* the collection thread
    cleaner,    \* the cleanup thread
    thread,     \* the delivery threads
    online,     \* the groups that have nodes for the queued modes
    mishaps,    \* how many bounded faults happened
    fate,       \* of each submission: what befell it
    log         \* of each submission and group: what happened

vars == <<place, key, wanted, marked, workload, rows, collector, cleaner, thread, online,
          mishaps, fate, log>>
submitted == <<key, wanted>>

Places == {"unseen", "staged", "incoming", "deleted", "discarded", "quarantined"}

Row == [status : {"none", "READY", "LOCKED", "COMPLETED", "ERROR"},
        lock : Threads \cup {None}, old : BOOLEAN, attempts : Nat]
NoRow == [status |-> "none", lock |-> None, old |-> FALSE, attempts |-> 0]
NewRow == [NoRow EXCEPT !.status = "READY"]

Pairs == Submissions \X Groups

\* interrupted: process_submission did not come to its end.  overtaken: the cleanup listed
\* the submission while it was being assigned.
Fates == {"interrupted", "overtaken"}

\* refused: a node refused it for good, or MaxAttempts times.
Events == {"delivered", "twice", "refused", "settled"}

ThreadPoints == {"idle", "batch", "sent", "refused", "failed"}

TypeOK ==
    /\ place \in [Submissions -> Places]
    /\ key \in [Submissions -> Keys \cup {NoKey}]
    /\ wanted \in [Submissions -> SUBSET Groups]
    /\ marked \subseteq Keys
    /\ workload \subseteq Submissions
    /\ rows \in [Pairs -> Row]
    /\ \A pair \in Pairs : rows[pair].status # "none" => pair[1] \in workload
    /\ collector \in [at : {"idle", "marked", "moved", "assigning"},
                      item : Submissions \cup {None}, left : SUBSET Groups]
    /\ cleaner \in [listed : SUBSET Submissions, removed : Submissions \cup {None}]
    /\ thread \in [Threads -> [at : ThreadPoints, batch : SUBSET Submissions,
                               item : Submissions \cup {None}]]
    /\ online \subseteq Groups
    /\ mishaps \in 0 .. MaxMishaps
    /\ fate \in [Submissions -> SUBSET Fates]
    /\ log \in [Pairs -> SUBSET Events]

Resting == [at |-> "idle", item |-> None, left |-> {}]
NothingListed == [listed |-> {}, removed |-> None]
Idle == [at |-> "idle", batch |-> {}, item |-> None]

Init ==
    /\ place = [s \in Submissions |-> "unseen"]
    /\ key = [s \in Submissions |-> NoKey]
    /\ wanted = [s \in Submissions |-> {}]
    /\ marked = {}
    /\ workload = {}
    /\ rows = [pair \in Pairs |-> NoRow]
    /\ collector = Resting
    /\ cleaner = NothingListed
    /\ thread = [t \in Threads |-> Idle]
    /\ online = Groups
    /\ mishaps = 0
    /\ fate = [s \in Submissions |-> {}]
    /\ log = [pair \in Pairs |-> {}]

Mishap(fault) ==
    /\ fault \in Faults
    /\ mishaps < MaxMishaps
    /\ mishaps' = mishaps + 1

Pending(row) == row.status \in {"READY", "LOCKED"}
Done(row) == row.status \in {"COMPLETED", "ERROR"}

\* _determine_target_groups: assignments that name no known group are ignored.
TargetGroups(s) == IF wanted[s] = {} THEN Groups ELSE wanted[s]

Note(event, pairs) ==
    [pair \in Pairs |-> IF pair \in pairs THEN log[pair] \cup {event} ELSE log[pair]]
Befalls(what, s) == [fate EXCEPT ![s] = @ \cup {what}]

-----------------------------------------------------------------------------
\* Hunts and the collection thread.

\* stage_submission: the rename into the staging directory.
Stage(s) ==
    /\ place[s] = "unseen"
    /\ place' = [place EXCEPT ![s] = "staged"]
    /\ \E kind \in Kinds[s] :
          /\ key' = [key EXCEPT ![s] = kind.key]
          /\ wanted' = [wanted EXCEPT ![s] = kind.groups]
    /\ UNCHANGED <<marked, workload, rows, collector, cleaner, thread, online, mishaps,
                   fate, log>>

\* process_submission: a duplicate is discarded, another key is marked.
Collect(s) ==
    /\ collector.at = "idle"
    /\ place[s] = "staged"
    /\ IF key[s] \in marked
       THEN /\ place' = [place EXCEPT ![s] = "discarded"]
            /\ UNCHANGED <<marked, collector>>
       ELSE /\ marked' = marked \cup ({key[s]} \ {NoKey})
            /\ collector' = [collector EXCEPT !.at = "marked", !.item = s]
            /\ UNCHANGED place
    /\ UNCHANGED <<submitted, workload, rows, cleaner, thread, online, mishaps, fate, log>>

\* prepare_submission_files
PrepareFiles ==
    /\ collector.at = "marked"
    /\ place' = [place EXCEPT ![collector.item] = "incoming"]
    /\ collector' = [collector EXCEPT !.at = "moved"]
    /\ UNCHANGED <<submitted, marked, workload, rows, cleaner, thread, online, mishaps, fate,
                   log>>

InsertWorkload ==
    /\ collector.at = "moved"
    /\ workload' = workload \cup {collector.item}
    /\ collector' = [collector EXCEPT !.at = "assigning", !.left = TargetGroups(collector.item)]
    /\ UNCHANGED <<place, submitted, marked, rows, cleaner, thread, online, mishaps, fate, log>>

\* Mutant of AssignToGroup: the loop over the groups ends one group early.
AssignAllButOne(g) ==
    /\ collector.at = "assigning"
    /\ g \in collector.left
    /\ collector.item \in workload
    /\ rows' = [rows EXCEPT ![<<collector.item, g>>] = NewRow]
    /\ collector' = IF Cardinality(collector.left) <= 2
                    THEN Resting ELSE [collector EXCEPT !.left = @ \ {g}]
    /\ UNCHANGED <<place, submitted, marked, workload, cleaner, thread, online, mishaps, fate,
                   log>>

\* assign_work_to_group: the foreign key makes it fail once the workload row is gone.
AssignToGroup(g) ==
    /\ collector.at = "assigning"
    /\ g \in collector.left
    /\ collector.item \in workload
    /\ rows' = [rows EXCEPT ![<<collector.item, g>>] = NewRow]
    /\ collector' = IF collector.left = {g}
                    THEN Resting ELSE [collector EXCEPT !.left = @ \ {g}]
    /\ UNCHANGED <<place, submitted, marked, workload, cleaner, thread, online, mishaps, fate,
                   log>>

\* An exception ends process_submission; what is still staged is quarantined.
ScheduleError(s) ==
    /\ IF collector.at = "idle" THEN place[s] = "staged" ELSE collector.item = s
    /\ IF collector.at = "assigning" /\ s \notin workload
       THEN UNCHANGED mishaps ELSE Mishap("error")
    /\ place' = [place EXCEPT ![s] = IF @ = "staged" THEN "quarantined" ELSE @]
    /\ fate' = Befalls("interrupted", s)
    /\ collector' = Resting
    /\ UNCHANGED <<submitted, marked, workload, rows, cleaner, thread, online, log>>

\* clear_expired_data, after a collection pass.
ForgetKey(k) ==
    /\ collector.at = "idle"
    /\ k \in marked
    /\ marked' = marked \ {k}
    /\ UNCHANGED <<place, submitted, workload, rows, collector, cleaner, thread, online,
                   mishaps, fate, log>>

-----------------------------------------------------------------------------
\* The delivery threads: RemoteNodeGroup.execute.

ReleaseLocks(groups) ==
    [pair \in Pairs |->
        IF pair[2] \in groups /\ rows[pair].status = "LOCKED"
        THEN [rows[pair] EXCEPT !.status = "READY", !.lock = None, !.old = FALSE]
        ELSE rows[pair]]

\* The lock of a handled row stays, but is not looked at any more.
Handled(row, status) == [row EXCEPT !.status = status, !.lock = None, !.old = FALSE]

MarkError(g) ==
    [pair \in Pairs |->
        IF pair[2] = g /\ rows[pair].status # "none"
        THEN Handled(rows[pair], "ERROR") ELSE rows[pair]]

\* UPDATE of the status of one row, which may be gone.
SetStatus(s, g, status) ==
    [rows EXCEPT ![<<s, g>>] = IF @.status = "none" THEN @ ELSE Handled(@, status)]

Existing(pairs) == {pair \in pairs : rows[pair].status # "none"}

\* Mutant of Claimable: locks of any age are taken.
ClaimableAnyAge(g) == {s \in Submissions : Pending(rows[<<s, g>>])}

Claimable(g) ==
    {s \in Submissions : rows[<<s, g>>].status = "READY"
                         \/ (rows[<<s, g>>].status = "LOCKED" /\ rows[<<s, g>>].old)}

\* What t holds: a row that is READY has no lock.
Own(t) ==
    {s \in Submissions :
        rows[<<s, GroupOf[t]>>].status = "LOCKED" /\ rows[<<s, GroupOf[t]>>].lock = t}

\* The LIMIT of the UPDATE; which rows come first is left open.
Batches(rowsOf) ==
    {batch \in SUBSET rowsOf :
        Cardinality(batch) = IF Cardinality(rowsOf) < BatchSize
                             THEN Cardinality(rowsOf) ELSE BatchSize}

\* Statements lock a batch, unless the thread still holds one, and select what it holds.
Claim(t) ==
    LET g == GroupOf[t] IN
    /\ thread[t].at = "idle"
    /\ g \in online
    /\ \E batch \in IF Own(t) # {} THEN {Own(t)} ELSE Batches(Claimable(g)) :
          /\ batch # {}
          /\ rows' = [pair \in Pairs |->
                        IF pair[1] \in batch \ Own(t) /\ pair[2] = g
                        THEN [rows[pair] EXCEPT !.status = "LOCKED", !.lock = t, !.old = FALSE]
                        ELSE rows[pair]]
          /\ thread' = [thread EXCEPT ![t].at = "batch", ![t].batch = batch]
    /\ UNCHANGED <<place, submitted, marked, workload, collector, cleaner, online, mishaps,
                   fate, log>>

\* Mutant of DropQueue: groups with full_delivery are cleared as well.
DropQueueOfAny(t) ==
    LET g == GroupOf[t] IN
    /\ thread[t].at = "idle"
    /\ g \notin online
    /\ \E s \in Submissions : Pending(rows[<<s, g>>])
    /\ rows' = MarkError(g)
    /\ log' = Note("settled", Existing(Submissions \X {g}))
    /\ UNCHANGED <<place, submitted, marked, workload, collector, cleaner, thread, online,
                   mishaps, fate>>

\* Without nodes a group that is not in full_delivery mode clears its queue.
DropQueue(t) ==
    LET g == GroupOf[t] IN
    /\ thread[t].at = "idle"
    /\ g \notin online \cup FullDelivery
    /\ \E s \in Submissions : Pending(rows[<<s, g>>])
    /\ rows' = MarkError(g)
    /\ log' = Note("settled", Existing(Submissions \X {g}))
    /\ UNCHANGED <<place, submitted, marked, workload, collector, cleaner, thread, online,
                   mishaps, fate>>

\* The state of a thread after it handled s.
After(t, s) ==
    IF thread[t].batch \ {s} = {} THEN Idle
    ELSE [at |-> "batch", batch |-> thread[t].batch \ {s}, item |-> None]

\* The submission cannot be loaded, or is skipped because of the coverage of the group.
SettleUnsent(t, s) ==
    LET g == GroupOf[t] IN
    /\ thread[t].at = "batch"
    /\ s \in thread[t].batch
    /\ \/ place[s] # "incoming" /\ rows' = SetStatus(s, g, "ERROR")
       \/ place[s] = "incoming" /\ g \in Sampled /\ rows' = SetStatus(s, g, "COMPLETED")
    /\ thread' = [thread EXCEPT ![t] = After(t, s)]
    /\ log' = Note("settled", Existing({<<s, g>>}))
    /\ UNCHANGED <<place, submitted, marked, workload, collector, cleaner, online, mishaps,
                   fate>>

\* target.submit: it arrives or not, and the caller is told or gets an exception, which may
\* be a connection error.
Submit(t, s) ==
    LET g == GroupOf[t] IN
    \E arrives \in BOOLEAN, outcome \in {"sent", "refused", "failed"} :
        /\ thread[t].at = "batch"
        /\ s \in thread[t].batch
        /\ place[s] = "incoming"
        /\ outcome = "sent" => arrives
        /\ outcome = "refused" => g \in FullDelivery
        /\ IF arrives /\ outcome # "sent" THEN Mishap("lost") ELSE UNCHANGED mishaps
        /\ thread' = [thread EXCEPT ![t].at = outcome, ![t].item = s]
        /\ log' = [log EXCEPT ![<<s, g>>] =
                     @ \cup (IF arrives THEN {"delivered"} ELSE {})
                       \cup (IF arrives /\ "delivered" \in @ THEN {"twice"} ELSE {})
                       \cup (IF outcome = "failed" THEN {"refused"} ELSE {})]
        /\ UNCHANGED <<place, submitted, marked, workload, rows, collector, cleaner, online,
                       fate>>

\* Mutant of RecordAttempt: a delivery that keeps failing is retried for ever.
RetryForEver(t) ==
    /\ thread[t].at = "refused"
    /\ thread' = [thread EXCEPT ![t] = After(t, thread[t].item)]
    /\ UNCHANGED <<place, submitted, marked, workload, rows, collector, cleaner, online,
                   mishaps, fate, log>>

Attempted(row) ==
    IF row.status = "none" THEN row ELSE [row EXCEPT !.attempts = @ + 1]

\* record_delivery_attempt; a row that is gone counts as exhausted.
RecordAttempt(t) ==
    LET g == GroupOf[t]
        s == thread[t].item
        exhausted == rows[<<s, g>>].status = "none" \/ rows[<<s, g>>].attempts + 1 >= MaxAttempts
    IN
    /\ thread[t].at = "refused"
    /\ rows' = [rows EXCEPT ![<<s, g>>] = Attempted(@)]
    /\ thread' = [thread EXCEPT ![t] = IF exhausted THEN [@ EXCEPT !.at = "failed"]
                                       ELSE After(t, s)]
    /\ log' = IF exhausted THEN Note("refused", {<<s, g>>}) ELSE log
    /\ UNCHANGED <<place, submitted, marked, workload, collector, cleaner, online, mishaps,
                   fate>>

\* The row of the item is COMPLETED or, after a failure, ERROR.
Settle(t) ==
    LET g == GroupOf[t]
        s == thread[t].item
    IN
    /\ thread[t].at \in {"sent", "failed"}
    /\ rows' = SetStatus(s, g, IF thread[t].at = "sent" THEN "COMPLETED" ELSE "ERROR")
    /\ thread' = [thread EXCEPT ![t] = After(t, s)]
    /\ log' = Note("settled", Existing({<<s, g>>}))
    /\ UNCHANGED <<place, submitted, marked, workload, collector, cleaner, online, mishaps,
                   fate>>

-----------------------------------------------------------------------------
\* The cleanup thread: execute_workload_cleanup.

\* Mutant of Completed: one group that handled the submission is enough.
CompletedSomewhere == {s \in workload : \E g \in Groups : Done(rows[<<s, g>>])}

\* get_completed_workloads: an inner join, so a submission needs a row to be listed.
Completed ==
    {s \in workload : /\ \E g \in Groups : Done(rows[<<s, g>>])
                      /\ \A g \in Groups : ~Pending(rows[<<s, g>>])}

ListCompleted ==
    /\ cleaner = NothingListed
    /\ Completed # {}
    /\ cleaner' = [cleaner EXCEPT !.listed = Completed]
    /\ fate' = IF collector.item \in Completed
               THEN Befalls("overtaken", collector.item) ELSE fate
    /\ UNCHANGED <<place, submitted, marked, workload, rows, collector, thread, online,
                   mishaps, log>>

DeleteDirectory(s) ==
    /\ s \in cleaner.listed
    /\ cleaner.removed = None
    /\ place' = [place EXCEPT ![s] = "deleted"]
    /\ cleaner' = [cleaner EXCEPT !.removed = s]
    /\ UNCHANGED <<submitted, marked, workload, rows, collector, thread, online, mishaps,
                   fate, log>>

\* delete_workload; the rows of work_distribution go with it (ON DELETE CASCADE).
DeleteWorkload ==
    LET s == cleaner.removed IN
    /\ s # None
    /\ workload' = workload \ {s}
    /\ rows' = [pair \in Pairs |-> IF pair[1] = s THEN NoRow ELSE rows[pair]]
    /\ cleaner' = [listed |-> cleaner.listed \ {s}, removed |-> None]
    /\ UNCHANGED <<place, submitted, marked, collector, thread, online, mishaps, fate, log>>

-----------------------------------------------------------------------------
\* The environment.

\* Mutant of Restart: every row of the groups becomes READY.
RestartAll ==
    /\ Mishap("crash")
    /\ collector' = Resting
    /\ cleaner' = NothingListed
    /\ thread' = [t \in Threads |-> Idle]
    /\ fate' = IF collector.item = None THEN fate ELSE Befalls("interrupted", collector.item)
    /\ rows' = [pair \in Pairs |-> IF rows[pair].status = "none" THEN NoRow ELSE NewRow]
    /\ UNCHANGED <<place, submitted, marked, workload, online, log>>

\* The process dies; when it is started again, recover_staging leaves what is staged to the
\* collection thread and clear_work_locks frees the rows of its groups.
Restart ==
    /\ Mishap("crash")
    /\ collector' = Resting
    /\ cleaner' = NothingListed
    /\ thread' = [t \in Threads |-> Idle]
    /\ fate' = IF collector.item = None THEN fate ELSE Befalls("interrupted", collector.item)
    /\ rows' = ReleaseLocks(Groups)
    /\ UNCHANGED <<place, submitted, marked, workload, online, log>>

\* The locks of t, which one UPDATE set, get ten minutes old; only other threads look at that.
Age(t) ==
    LET held == {pair \in Pairs : rows[pair].status = "LOCKED" /\ rows[pair].lock = t} IN
    /\ Mishap("age")
    /\ \E other \in Threads \ {t} : GroupOf[other] = GroupOf[t]
    /\ \E pair \in held : ~rows[pair].old
    /\ rows' = [pair \in Pairs |->
                  IF pair \in held THEN [rows[pair] EXCEPT !.old = TRUE] ELSE rows[pair]]
    /\ UNCHANGED <<place, submitted, marked, workload, collector, cleaner, thread, online,
                   fate, log>>

GoOffline(g) ==
    /\ Mishap("outage")
    /\ g \in online
    /\ online' = online \ {g}
    /\ UNCHANGED <<place, submitted, marked, workload, rows, collector, cleaner, thread, fate,
                   log>>

GoOnline(g) ==
    /\ g \notin online
    /\ online' = online \cup {g}
    /\ UNCHANGED <<place, submitted, marked, workload, rows, collector, cleaner, thread,
                   mishaps, fate, log>>

\* Neither clear_work_locks nor the clearing of a queue looks at the type of the workload.
ForeignService(g) ==
    /\ Mishap("foreign")
    /\ \/ /\ rows' = ReleaseLocks({g})
          /\ UNCHANGED log
       \/ /\ g \notin FullDelivery
          /\ rows' = MarkError(g)
          /\ log' = Note("settled", Existing(Submissions \X {g}))
    /\ UNCHANGED <<place, submitted, marked, workload, collector, cleaner, thread, online,
                   fate>>

-----------------------------------------------------------------------------
CollectionLoop ==
    \/ \E s \in Submissions : Collect(s) \/ ScheduleError(s)
    \/ PrepareFiles \/ InsertWorkload
    \/ \E g \in Groups : AssignToGroup(g)

DeliveryLoop(t) ==
    \/ Claim(t) \/ DropQueue(t) \/ RecordAttempt(t) \/ Settle(t)
    \/ \E s \in Submissions : SettleUnsent(t, s) \/ Submit(t, s)

CleanupLoop ==
    ListCompleted \/ DeleteWorkload \/ \E s \in Submissions : DeleteDirectory(s)

Progress ==
    \/ CollectionLoop \/ CleanupLoop
    \/ \E t \in Threads : DeliveryLoop(t)
    \/ \E g \in Groups : GoOnline(g)

Next ==
    \/ Progress
    \/ \E s \in Submissions : Stage(s)
    \/ \E k \in Keys : ForgetKey(k)
    \/ Restart
    \/ \E t \in Threads : Age(t)
    \/ \E g \in Groups : GoOffline(g) \/ ForeignService(g)

Spec == Init /\ [][Next]_vars

\* Some thread goes on, or nodes come back, as long as there is anything to do.
FairSpec == Spec /\ WF_vars(Progress)

-----------------------------------------------------------------------------
\* Another submission with the same key was collected before.
IsDuplicate(s) ==
    \E other \in Submissions \ {s} :
        /\ key[other] = key[s]
        /\ place[other] \notin {"unseen", "staged"} \/ "interrupted" \in fate[other]

\* Every submission that left the staging directory is accounted for: each of its groups
\* still has to handle it or has handled it, or it is a duplicate, or in quarantine.  Excepted
\* are those whose scheduling a crash or an exception interrupted and those that the cleanup
\* listed before they were assigned to all their groups.
Accounted ==
    \A s \in Submissions :
        \/ place[s] \in {"unseen", "staged", "quarantined"}
        \/ place[s] = "discarded" /\ IsDuplicate(s)
        \/ collector.item = s
        \/ fate[s] # {}
        \/ \A g \in TargetGroups(s) : Pending(rows[<<s, g>>]) \/ "settled" \in log[<<s, g>>]

\* The directory of a submission is there as long as a group has to deliver it.
IncomingKept ==
    \A s \in Submissions, g \in Groups :
        Pending(rows[<<s, g>>]) => place[s] = "incoming" \/ "overtaken" \in fate[s]

\* A group with full delivery gives nothing up that a node did not refuse.
FullDeliveryKept ==
    \A s \in Submissions, g \in FullDelivery \ Sampled :
        "settled" \in log[<<s, g>>] =>
            log[<<s, g>>] \cap {"delivered", "refused"} # {} \/ "overtaken" \in fate[s]

\* As long as nothing fails, a group receives a submission once, however many threads it has.
DeliveredOnce == mishaps = 0 => \A pair \in Pairs : "twice" \notin log[pair]

\* What a group has handled is never queued again, whoever claims, steals or clears rows.
SettledStays ==
    [][\A pair \in Pairs : Done(rows[pair]) => Done(rows'[pair]) \/ rows'[pair] = NoRow]_vars

\* Every submission with a workload row is handled and cleaned up, although some are refused
\* again and again -- unless its scheduling was interrupted.
DeliveryEnds ==
    \A s \in Submissions :
        s \in workload ~> s \notin workload \/ "interrupted" \in fate[s]

\* What is staged is replayed after a crash: it is discarded only for another submission.
ReplayedNotLost ==
    \A s \in Submissions : place[s] = "discarded" => IsDuplicate(s)
=============================================================================
