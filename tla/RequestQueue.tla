---------------------------- MODULE RequestQueue ----------------------------
(***************************************************************************)
(* Requests that wait in a table of the database for a service: the        *)
(* remediations (saq/remediation) and the file collections                 *)
(* (saq/file_collection).  Each service has a single collector, which      *)
(* locks rows and puts them on a queue in memory, and worker threads,      *)
(* which try the request and write the outcome.  Analysts cancel, retry    *)
(* and delete requests meanwhile.                                          *)
(*                                                                         *)
(* The two services are written alike; where they differ the definitions   *)
(* look at service, which never changes.  The delay between attempts is    *)
(* abstracted: a request that was tried before is due when the collector   *)
(* says so.                                                                *)
(***************************************************************************)
EXTENDS Naturals, Sequences, FiniteSets

CONSTANTS MaxRequests,  \* rows that are ever inserted; ids are 1, 2, ...
          Services,     \* of "remediation", "collection"
          Threads,      \* worker threads
          MaxRetries,   \* max_retries of a file collection
          MaxDelays,    \* bound on DELAYED results of remediations
          MaxMishaps    \* bound on what analysts do, crashes, slow threads, database errors

Requests == 1 .. MaxRequests
Item == [id : Requests, retry : Nat]
NoItem == <<>>

ASSUME RequestQueueAssumption ==
    /\ MaxRequests \in Nat /\ MaxDelays \in Nat /\ MaxMishaps \in Nat
    /\ MaxRetries \in Nat \ {0}
    /\ Services \subseteq {"remediation", "collection"}

VARIABLES
    service,
    status,     \* the status column, or that there is no row yet or no more
    lock,       \* the lock column: nobody's, of the collection under way, of an older one
    aged,       \* requests whose lock_time is older than lock_timeout_seconds
    retry,      \* the retry_count column
    expired,    \* requests past max_collection_time_seconds
    gone,       \* requests whose alert cannot be found
    up,         \* the service runs
    collector,  \* what its collector did last
    targets,    \* the ids it selected
    queue,      \* work_queue, in memory
    thread,     \* the item each thread works on
    broken,     \* threads whose database session nobody rolled back after a failed flush
    cancelling, \* requests an analyst is about to cancel, having read them
    cancelled,  \* requests that were ever cancelled
    redone,     \* requests that were put back by hand, or tried for longer than the timeout
    delays, mishaps

rowVars == <<status, lock, aged, retry>>
lostVars == <<expired, gone>>
memVars == <<collector, targets, queue, thread, broken>>
pastVars == <<cancelling, cancelled, redone>>
vars == <<service, rowVars, lostVars, up, memVars, pastVars, delays, mishaps>>

TypeOK ==
    /\ service \in Services
    /\ status \in [Requests -> {"absent", "new", "in progress", "completed", "deleted"}]
    /\ lock \in [Requests -> {"none", "ours", "older"}]
    /\ retry \in [Requests -> Nat]
    /\ aged \subseteq Requests /\ expired \subseteq Requests /\ gone \subseteq Requests
    /\ up \in BOOLEAN
    /\ collector \in {"idle", "selected", "locked"}
    /\ targets \subseteq Requests
    /\ queue \in Seq(Item) /\ thread \in [Threads -> Item \cup {NoItem}]
    /\ broken \subseteq Threads
    /\ cancelling \subseteq Requests /\ cancelled \subseteq Requests /\ redone \subseteq Requests
    /\ delays \in 0 .. MaxDelays /\ mishaps \in 0 .. MaxMishaps

Init ==
    /\ service \in Services
    /\ status = [r \in Requests |-> "absent"] /\ lock = [r \in Requests |-> "none"]
    /\ aged = {} /\ retry = [r \in Requests |-> 0]
    /\ expired = {} /\ gone = {}
    /\ up = TRUE /\ collector = "idle" /\ targets = {}
    /\ queue = <<>> /\ thread = [w \in Threads |-> NoItem] /\ broken = {}
    /\ cancelling = {} /\ cancelled = {} /\ redone = {}
    /\ delays = 0 /\ mishaps = 0

Row(r) == status[r] \notin {"absent", "deleted"}
Open(r) == status[r] \in {"new", "in progress"}

Mishap == mishaps < MaxMishaps /\ mishaps' = mishaps + 1

\* A request is inserted.
Queue(r) ==
    /\ status[r] = "absent" /\ \A q \in Requests : q < r => status[q] # "absent"
    /\ status' = [status EXCEPT ![r] = "new"]
    /\ UNCHANGED <<service, lock, aged, retry, lostVars, up, memVars, pastVars, delays, mishaps>>

-----------------------------------------------------------------------------
\* The collector.

\* Mutant of Unlocked: the lock is not looked at.
UnlockedAlways(r) == TRUE

\* Mutant of Unlocked: locks do not time out.
UnlockedOnly(r) == lock[r] = "none"

\* Not locked, or locked for too long.
Unlocked(r) == lock[r] = "none" \/ r \in aged

\* Mutant of Eligible: completed rows are found as well.
EligibleAll == {r \in Requests : Row(r) /\ Unlocked(r) /\ r \notin expired}

\* The rows the query finds, apart from the delay since the last attempt.
Eligible == {r \in Requests : Open(r) /\ Unlocked(r) /\ r \notin expired}

Select ==
    /\ up /\ collector = "idle"
    /\ \E found \in SUBSET Eligible :
          /\ found # {} /\ {r \in Eligible : status[r] = "new"} \subseteq found
          /\ targets' = found
    /\ collector' = "selected"
    /\ UNCHANGED <<service, rowVars, lostVars, up, queue, thread, broken, pastVars, delays,
                   mishaps>>

\* The UPDATE names the ids that were selected and nothing else.
Lock ==
    /\ up /\ collector = "selected"
    /\ status' = [r \in Requests |-> IF r \in targets /\ Row(r) THEN "in progress" ELSE status[r]]
    /\ lock' = [r \in Requests |-> IF r \in targets /\ Row(r) THEN "ours" ELSE lock[r]]
    /\ aged' = aged \ targets
    /\ targets' = {} /\ collector' = "locked"
    /\ UNCHANGED <<service, retry, lostVars, up, queue, thread, broken, pastVars, delays, mishaps>>

\* The one sequence of the members of S in descending order.
NewestFirst(S) ==
    {ids \in [1 .. Cardinality(S) -> S] : \A i, j \in DOMAIN ids : i < j => ids[i] > ids[j]}

\* Rows that hold the lock go to the queue, the newest first; a file collection
\* whose alert is gone does not.
Fetch ==
    /\ up /\ collector = "locked"
    /\ \E ids \in NewestFirst({r \in Requests \ gone : lock[r] = "ours" /\ Row(r)}) :
          queue' = queue \o [i \in DOMAIN ids |->
                                [id |-> ids[i],
                                 retry |-> IF service = "collection" THEN retry[ids[i]] ELSE 0]]
    /\ lock' = [r \in Requests |-> IF lock[r] = "ours" THEN "older" ELSE lock[r]]
    /\ collector' = "idle"
    /\ UNCHANGED <<service, status, aged, retry, lostVars, up, targets, thread, broken, pastVars,
                   delays, mishaps>>

Collect == Select \/ Lock \/ Fetch

-----------------------------------------------------------------------------
\* A worker thread.

Take(w) ==
    /\ up /\ thread[w] = NoItem /\ queue # <<>>
    /\ thread' = [thread EXCEPT ![w] = Head(queue)] /\ queue' = Tail(queue)
    /\ UNCHANGED <<service, rowVars, lostVars, up, collector, targets, broken, pastVars, delays,
                   mishaps>>

\* should_retry says no: so many attempts were made.
Enough(n) == n >= MaxRetries

\* What status a result leaves.  An ERROR is retried by file collection only.
After(result, n) ==
    IF IF service = "remediation" THEN result # "delayed" ELSE result = "final" \/ Enough(n)
    THEN "completed" ELSE "in progress"

\* The outcome is written over whatever is in the row.
Outcome(i, result) ==
    /\ status' = [status EXCEPT ![i.id] = After(result, i.retry + 1)]
    /\ lock' = [lock EXCEPT ![i.id] = "none"] /\ aged' = aged \ {i.id}
    /\ retry' = [retry EXCEPT ![i.id] = IF service = "collection" THEN i.retry + 1 ELSE @]

\* The attempt is over.  Without a row the history entry has nothing to refer to: the flush
\* raises, worker_loop logs that and goes on, and every later statement of the thread raises.
Finish(w) ==
    /\ up /\ thread[w] # NoItem
    /\ \E result \in {"final", "error", "delayed"} :
          /\ IF service = "remediation" /\ result = "delayed"
             THEN delays < MaxDelays /\ delays' = delays + 1 ELSE UNCHANGED delays
          /\ IF Row(thread[w].id) /\ w \notin broken
             THEN Outcome(thread[w], result) ELSE UNCHANGED rowVars
    /\ broken' = IF Row(thread[w].id) THEN broken ELSE broken \cup {w}
    /\ thread' = [thread EXCEPT ![w] = NoItem]
    /\ UNCHANGED <<service, lostVars, up, collector, targets, queue, pastVars, mishaps>>

\* A database error loses the outcome; whether the session survives depends on the error.
FinishFails(w) ==
    /\ Mishap /\ up /\ thread[w] # NoItem
    /\ broken' \in {broken, broken \cup {w}}
    /\ thread' = [thread EXCEPT ![w] = NoItem]
    /\ UNCHANGED <<service, rowVars, lostVars, up, collector, targets, queue, pastVars, delays>>

Work(w) == Take(w) \/ Finish(w)

-----------------------------------------------------------------------------
\* Analysts.

\* The row is read; a file collection must not be completed.
ReadToCancel(r) ==
    /\ Mishap
    /\ Row(r) /\ (service = "collection" => status[r] # "completed")
    /\ cancelling' = cancelling \cup {r}
    /\ UNCHANGED <<service, rowVars, lostVars, up, memVars, cancelled, redone, delays>>

\* It is completed, whatever became of it; the lock stays.
Cancel(r) ==
    /\ r \in cancelling /\ cancelling' = cancelling \ {r}
    /\ status' = [status EXCEPT ![r] = IF Row(r) THEN "completed" ELSE @]
    /\ cancelled' = cancelled \cup {r}
    /\ UNCHANGED <<service, lock, aged, retry, lostVars, up, memVars, redone, delays, mishaps>>

\* retry_remediations takes completed rows only.
Retry(r) ==
    /\ Mishap
    /\ Row(r) /\ (service = "remediation" => status[r] = "completed")
    /\ status' = [status EXCEPT ![r] = "new"] /\ retry' = [retry EXCEPT ![r] = 0]
    /\ lock' = [lock EXCEPT ![r] = "none"] /\ aged' = aged \ {r}
    /\ redone' = redone \cup {r}
    /\ UNCHANGED <<service, lostVars, up, memVars, cancelling, cancelled, delays>>

Delete(r) ==
    /\ Mishap /\ Row(r)
    /\ status' = [status EXCEPT ![r] = "deleted"] /\ lock' = [lock EXCEPT ![r] = "none"]
    /\ aged' = aged \ {r} /\ retry' = [retry EXCEPT ![r] = 0]
    /\ UNCHANGED <<service, lostVars, up, memVars, pastVars, delays>>

-----------------------------------------------------------------------------
\* Time and failure.

Copies(r) == {i \in DOMAIN queue : queue[i].id = r}
Workers(r) == {w \in Threads : thread[w] # NoItem /\ thread[w].id = r}
InFlight(r) == (lock[r] = "ours" /\ up) \/ Copies(r) # {} \/ Workers(r) # {}

\* The lock times out.  That of a request still in flight is the exception.
Age(r) ==
    /\ lock[r] # "none" /\ r \notin aged /\ Row(r)
    /\ aged' = aged \cup {r}
    /\ IF InFlight(r) THEN Mishap /\ redone' = redone \cup {r} ELSE UNCHANGED <<mishaps, redone>>
    /\ UNCHANGED <<service, status, lock, retry, lostVars, up, memVars, cancelling, cancelled, delays>>

\* Too old a file collection is not selected again.
Expire(r) ==
    /\ Mishap /\ service = "collection" /\ Row(r) /\ r \notin expired
    /\ expired' = expired \cup {r}
    /\ UNCHANGED <<service, rowVars, gone, up, memVars, pastVars, delays>>

\* The alert of a file collection is deleted.
LoseAlert(r) ==
    /\ Mishap /\ service = "collection" /\ Row(r) /\ r \notin gone
    /\ gone' = gone \cup {r}
    /\ UNCHANGED <<service, rowVars, expired, up, memVars, pastVars, delays>>

\* The service ends, or is killed: queue and attempts are lost, the locks stay.
Crash ==
    /\ Mishap /\ up /\ up' = FALSE
    /\ collector' = "idle" /\ targets' = {}
    /\ queue' = <<>> /\ thread' = [w \in Threads |-> NoItem] /\ broken' = {}
    /\ lock' = [r \in Requests |-> IF lock[r] = "ours" THEN "older" ELSE lock[r]]
    /\ UNCHANGED <<service, status, aged, retry, lostVars, pastVars, delays>>

Restart ==
    /\ ~up /\ up' = TRUE
    /\ UNCHANGED <<service, rowVars, lostVars, memVars, pastVars, delays, mishaps>>

-----------------------------------------------------------------------------
Next ==
    \/ Collect
    \/ \E w \in Threads : Work(w) \/ FinishFails(w)
    \/ \E r \in Requests :
          \/ Queue(r) \/ ReadToCancel(r) \/ Cancel(r) \/ Retry(r) \/ Delete(r)
          \/ Age(r) \/ Expire(r) \/ LoseAlert(r)
    \/ Crash \/ Restart

Spec == Init /\ [][Next]_vars

\* The loops of the service run on, an ended service is started again, and time
\* passes: locks age, and the delay before the next attempt ends.
FairSpec ==
    /\ Spec /\ WF_vars(Collect) /\ \A w \in Threads : WF_vars(Work(w))
    /\ WF_vars(Restart)
    /\ \A r \in Requests : WF_vars(Age(r)) /\ SF_vars(Select /\ r \in targets')

-----------------------------------------------------------------------------
\* A request is in the hands of one thread at most, and on the queue at most once,
\* though the collector looks at the table again and again and the service may be
\* restarted: remediations are not idempotent.  (Unless the lock timed out under a
\* slow thread, or the request was put back by hand.)
OneAttempt ==
    \A r \in Requests \ redone : Cardinality(Copies(r)) + Cardinality(Workers(r)) <= 1

\* A completed request is not taken up again, unless somebody cancelled it or put it back.
CompletedStays ==
    [][\A r \in Requests \ (cancelled \cup redone)' :
          status[r] = "completed" => status'[r] \in {"completed", "deleted"}]_vars

\* Every request is settled in the end, whatever crashes in between: locks of lost
\* items time out.  A file collection that expired or lost its alert may stay open.
\* No request needs to settle while the session of a thread is unusable, because
\* its attempts leave no outcome (remediation/worker.py:77, file_collection/worker.py:89,
\* both without a rollback); after a restart all that are open must settle again.
Settles ==
    \A r \in Requests :
        [](Row(r) => <>(~Open(r) \/ r \in expired \cup gone \/ broken # {}))

=============================================================================
