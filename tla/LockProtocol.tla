---------------------------- MODULE LockProtocol ----------------------------
(***************************************************************************)
(* The locks table (saq/database/util/locking.py) used by worker processes *)
(* (saq/engine/lock_manager/distributed.py) and by the managers' recovery  *)
(* of lost work (saq/engine/recovery.py), one SQL statement per step.      *)
(*                                                                         *)
(* Every client has its own lock_uuid: a Worker object makes one when it   *)
(* is created, recover_lost_root makes one per call, so an element of      *)
(* Recoveries is one call.  A client therefore stands for its lock_uuid.   *)
(* A worker has two threads that call acquire_lock with the same uuid, the *)
(* one that claims and analyses and the keepalive thread.                  *)
(***************************************************************************)
EXTENDS Naturals, FiniteSets

CONSTANTS Roots,        \* root analyses that can be locked
          Workers,      \* worker processes; one that died is not used again
          Recoveries,   \* calls of recover_lost_root
          NoOne,        \* no lock row
          NoRoot,       \* no lock target
          Starved,      \* roots whose live workers may miss keepalives until the lock ages
          MaxFaults     \* how many database errors a behaviour may contain

Clients == Workers \cup Recoveries

ASSUME LockAssumption ==
    /\ Workers \cap Recoveries = {}
    /\ NoOne \notin Clients
    /\ NoRoot \notin Roots
    /\ Starved \subseteq Roots
    /\ MaxFaults \in Nat

VARIABLES
    locks,    \* lock_uuid column of the row of each root, NoOne without a row
    aged,     \* roots whose row's lock_time is at least lock_timeout_seconds old
    pc,       \* where the main thread of each client is
    target,   \* the root each client works on
    call,     \* the main thread's next SQL statement inside acquire_lock
    ka,       \* where each worker's keepalive thread is
    lost,     \* workers with _lock_lost: the keepalive thread found the lock gone
    faults    \* database errors so far

vars == <<locks, aged, pc, target, call, ka, lost, faults>>

WorkerPC   == {"idle", "claiming", "claimed", "starting", "working", "joining", "releasing", "dead"}
RecoveryPC == {"listing", "recovering", "releasing", "done", "dead"}
Statement  == {"none", "insert", "update", "reread"}
KeepalivePC == {"off", "waiting", "insert", "update", "reread", "exited"}

\* The main thread was told that it has the lock and has not yet given it back.
Told(c) == pc[c] \in {"claimed", "starting", "working", "joining", "releasing"}

\* The worker may be reading and writing the root it claimed.
Busy(w) == pc[w] \in {"claimed", "starting", "working", "joining"}

TypeOK ==
    /\ locks \in [Roots -> Clients \cup {NoOne}]
    /\ aged \subseteq Roots
    /\ pc \in [Clients -> WorkerPC \cup RecoveryPC]
    /\ target \in [Clients -> Roots \cup {NoRoot}]
    /\ call \in [Clients -> Statement]
    /\ ka \in [Workers -> KeepalivePC]
    /\ lost \subseteq Workers
    /\ faults \in 0 .. MaxFaults

Init ==
    /\ locks = [r \in Roots |-> NoOne]
    /\ aged = {}
    /\ pc = [c \in Clients |-> IF c \in Workers THEN "idle" ELSE "listing"]
    /\ target = [c \in Clients |-> NoRoot]
    /\ call = [c \in Clients |-> "none"]
    /\ ka = [w \in Workers |-> "off"]
    /\ lost = {}
    /\ faults = 0

-----------------------------------------------------------------------------
\* The statements of locking.py, as changes of the table.

\* INSERT, or a matching UPDATE: the row carries c and NOW().
Stamp(c, r) ==
    /\ locks' = [locks EXCEPT ![r] = c]
    /\ aged' = aged \ {r}

\* Mutant of Matches: a recovery takes any lock over, not only an aged one.
MatchesAnyAge(c, r) == locks[r] = c \/ (c \in Recoveries /\ locks[r] # NoOne)

\* The WHERE clause of the UPDATE; only recoveries pass allow_expired_takeover.
Matches(c, r) ==
    \/ locks[r] = c
    \/ c \in Recoveries /\ locks[r] # NoOne /\ r \in aged

\* Mutant of DeleteOwn: the row is kept and its lock_uuid blanked.
BlankOwn(c, r) ==
    IF locks[r] = c
    THEN locks' = [locks EXCEPT ![r] = NoRoot] /\ UNCHANGED aged
    ELSE UNCHANGED <<locks, aged>>

\* DELETE FROM locks WHERE uuid = r AND lock_uuid = c.
DeleteOwn(c, r) ==
    IF locks[r] = c
    THEN locks' = [locks EXCEPT ![r] = NoOne] /\ aged' = aged \ {r}
    ELSE UNCHANGED <<locks, aged>>

-----------------------------------------------------------------------------
\* acquire_lock in the main thread of client c.

\* Where the main thread goes when acquire_lock returns True, or False.
Granted == [claiming |-> "claimed", starting |-> "working", recovering |-> "releasing"]
Denied  == [claiming |-> "idle", starting |-> "idle", recovering |-> "done"]

ReturnTrue(c) ==
    /\ pc' = [pc EXCEPT ![c] = Granted[pc[c]]]
    /\ call' = [call EXCEPT ![c] = "none"]
    /\ UNCHANGED target
    /\ IF pc[c] = "starting"
       THEN ka' = [ka EXCEPT ![c] = "waiting"] /\ lost' = lost \ {c}
       ELSE UNCHANGED <<ka, lost>>

ReturnFalse(c) ==
    /\ pc' = [pc EXCEPT ![c] = Denied[pc[c]]]
    /\ call' = [call EXCEPT ![c] = "none"]
    /\ target' = [target EXCEPT ![c] = NoRoot]
    /\ UNCHANGED <<ka, lost>>

\* The INSERT commits, or fails on the primary key and the UPDATE follows.
Insert(c) ==
    /\ call[c] = "insert"
    /\ \/ locks[target[c]] = NoOne /\ Stamp(c, target[c]) /\ ReturnTrue(c)
       \/ /\ locks[target[c]] # NoOne
          /\ call' = [call EXCEPT ![c] = "update"]
          /\ UNCHANGED <<locks, aged, pc, target, ka, lost>>
    /\ UNCHANGED faults

Update(c) ==
    /\ call[c] = "update"
    /\ IF Matches(c, target[c]) THEN Stamp(c, target[c]) ELSE UNCHANGED <<locks, aged>>
    /\ call' = [call EXCEPT ![c] = "reread"]
    /\ UNCHANGED <<pc, target, ka, lost, faults>>

\* Mutant of Reread: a row of anybody counts as the caller's.
RereadAnyRow(c) ==
    /\ call[c] = "reread"
    /\ IF locks[target[c]] # NoOne THEN ReturnTrue(c) ELSE ReturnFalse(c)
    /\ UNCHANGED <<locks, aged, faults>>

\* The SELECT after the UPDATE decides what is returned.
Reread(c) ==
    /\ call[c] = "reread"
    /\ IF locks[target[c]] = c THEN ReturnTrue(c) ELSE ReturnFalse(c)
    /\ UNCHANGED <<locks, aged, faults>>

\* A database error inside acquire_lock: False, although an INSERT may have committed.
AcquireError(c) ==
    /\ faults < MaxFaults /\ faults' = faults + 1
    /\ call[c] # "none"
    /\ \/ UNCHANGED <<locks, aged>>
       \/ call[c] = "insert" /\ locks[target[c]] = NoOne /\ Stamp(c, target[c])
    /\ ReturnFalse(c)

-----------------------------------------------------------------------------
\* The worker's main thread.

\* A claim: the listing is not trusted, any root may be tried.
Claim(w, r) ==
    /\ pc[w] = "idle"
    /\ pc' = [pc EXCEPT ![w] = "claiming"]
    /\ target' = [target EXCEPT ![w] = r]
    /\ call' = [call EXCEPT ![w] = "insert"]
    /\ UNCHANGED <<locks, aged, ka, lost, faults>>

\* Mutant of Abandon: the worker moves on to the next row and keeps the lock.
AbandonWithoutRelease(w) ==
    /\ pc[w] = "claimed"
    /\ pc' = [pc EXCEPT ![w] = "idle"]
    /\ target' = [target EXCEPT ![w] = NoRoot]
    /\ UNCHANGED <<locks, aged, call, ka, lost, faults>>

\* The workload row was gone after the lock was taken: release without working.
Abandon(w) ==
    /\ pc[w] = "claimed"
    /\ pc' = [pc EXCEPT ![w] = "releasing"]
    /\ UNCHANGED <<locks, aged, target, call, ka, lost, faults>>

\* start_keepalive acquires the lock once more before it starts the thread.
StartKeepalive(w) ==
    /\ pc[w] = "claimed"
    /\ pc' = [pc EXCEPT ![w] = "starting"]
    /\ call' = [call EXCEPT ![w] = "insert"]
    /\ UNCHANGED <<locks, aged, target, ka, lost, faults>>

\* Analysis ended, for whatever reason: stop_keepalive sets the control event ...
SetControlEvent(w) ==
    /\ pc[w] = "working"
    /\ pc' = [pc EXCEPT ![w] = "joining"]
    /\ UNCHANGED <<locks, aged, target, call, ka, lost, faults>>

\* ... and joins the thread, which leaves at its next test of the event.
JoinKeepalive(w) ==
    /\ pc[w] = "joining"
    /\ ka[w] \in {"waiting", "exited"}
    /\ ka' = [ka EXCEPT ![w] = "off"]
    /\ pc' = [pc EXCEPT ![w] = "releasing"]
    /\ UNCHANGED <<locks, aged, target, call, lost, faults>>

\* release_lock; a database error leaves the row behind and is only logged.
Release(c) ==
    /\ pc[c] = "releasing"
    /\ \/ DeleteOwn(c, target[c]) /\ UNCHANGED faults
       \/ faults < MaxFaults /\ faults' = faults + 1 /\ UNCHANGED <<locks, aged>>
    /\ pc' = [pc EXCEPT ![c] = IF c \in Workers THEN "idle" ELSE "done"]
    /\ target' = [target EXCEPT ![c] = NoRoot]
    /\ UNCHANGED <<call, ka, lost>>

-----------------------------------------------------------------------------
\* The keepalive thread.

\* wait(keepalive_frequency) timed out with the event not set.
KeepaliveWake(w) ==
    /\ ka[w] = "waiting" /\ pc[w] = "working"
    /\ ka' = [ka EXCEPT ![w] = "insert"]
    /\ UNCHANGED <<locks, aged, pc, target, call, lost, faults>>

\* A row that is gone is inserted again.
KeepaliveInsert(w) ==
    /\ ka[w] = "insert"
    /\ \/ locks[target[w]] = NoOne /\ Stamp(w, target[w]) /\ ka' = [ka EXCEPT ![w] = "waiting"]
       \/ /\ locks[target[w]] # NoOne
          /\ ka' = [ka EXCEPT ![w] = "update"]
          /\ UNCHANGED <<locks, aged>>
    /\ UNCHANGED <<pc, target, call, lost, faults>>

KeepaliveUpdate(w) ==
    /\ ka[w] = "update"
    /\ IF Matches(w, target[w]) THEN Stamp(w, target[w]) ELSE UNCHANGED <<locks, aged>>
    /\ ka' = [ka EXCEPT ![w] = "reread"]
    /\ UNCHANGED <<pc, target, call, lost, faults>>

LockLost(w) ==
    /\ lost' = lost \cup {w}
    /\ ka' = [ka EXCEPT ![w] = "exited"]

\* Mutant of KeepaliveReread: a row of anybody counts as the lock kept.
KeepaliveRereadAnyRow(w) ==
    /\ ka[w] = "reread"
    /\ ka' = [ka EXCEPT ![w] = "waiting"]
    /\ UNCHANGED <<locks, aged, pc, target, call, lost, faults>>

KeepaliveReread(w) ==
    /\ ka[w] = "reread"
    /\ IF locks[target[w]] = w
       THEN ka' = [ka EXCEPT ![w] = "waiting"] /\ UNCHANGED lost
       ELSE LockLost(w)
    /\ UNCHANGED <<locks, aged, pc, target, call, faults>>

\* An error counts as a lost lock.
KeepaliveError(w) ==
    /\ faults < MaxFaults /\ faults' = faults + 1
    /\ ka[w] \in {"insert", "update", "reread"}
    /\ \/ UNCHANGED <<locks, aged>>
       \/ ka[w] = "insert" /\ locks[target[w]] = NoOne /\ Stamp(w, target[w])
    /\ LockLost(w)
    /\ UNCHANGED <<pc, target, call>>

-----------------------------------------------------------------------------
\* Recovery, death and time.

\* get_expired_locks listed r; recover_lost_root is about to take it over.
ListExpired(c, r) ==
    /\ pc[c] = "listing" /\ locks[r] # NoOne /\ r \in aged
    /\ pc' = [pc EXCEPT ![c] = "recovering"]
    /\ target' = [target EXCEPT ![c] = r]
    /\ call' = [call EXCEPT ![c] = "insert"]
    /\ UNCHANGED <<locks, aged, ka, lost, faults>>

\* SIGKILL, os._exit or a crash ends both threads at once; the row stays.
Die(c) ==
    /\ pc[c] \notin {"dead", "done"}
    /\ pc' = [pc EXCEPT ![c] = "dead"]
    /\ call' = [call EXCEPT ![c] = "none"]
    /\ target' = [target EXCEPT ![c] = NoRoot]
    /\ ka' = [w \in Workers |-> IF w = c THEN "off" ELSE ka[w]]
    /\ UNCHANGED <<locks, aged, lost, faults>>

\* The owner is a live worker that is using the lock.
Maintained(r) == locks[r] \in Workers /\ target[locks[r]] = r

\* lock_timeout_seconds pass.  The timeout is hours and the keepalive frequency
\* seconds, so without starvation this happens only to locks nobody maintains.
Expire(r) ==
    /\ locks[r] # NoOne /\ r \notin aged
    /\ r \in Starved \/ ~Maintained(r)
    /\ aged' = aged \cup {r}
    /\ UNCHANGED <<locks, pc, target, call, ka, lost, faults>>

-----------------------------------------------------------------------------
Acquire(c) == Insert(c) \/ Update(c) \/ Reread(c) \/ AcquireError(c)

Keepalive(w) ==
    KeepaliveWake(w) \/ KeepaliveInsert(w) \/ KeepaliveUpdate(w) \/ KeepaliveReread(w)

Next ==
    \/ \E c \in Clients : Acquire(c) \/ Release(c) \/ Die(c)
    \/ \E w \in Workers :
          \/ Abandon(w) \/ StartKeepalive(w) \/ SetControlEvent(w) \/ JoinKeepalive(w)
          \/ Keepalive(w) \/ KeepaliveError(w)
    \/ \E w \in Workers, r \in Roots : Claim(w, r)
    \/ \E c \in Recoveries, r \in Roots : ListExpired(c, r)
    \/ \E r \in Roots : Expire(r)

Spec == Init /\ [][Next]_vars

\* The keepalive thread of a live process keeps running; nothing else is assumed.
FairSpec == Spec /\ \A w \in Workers : WF_vars(Keepalive(w))

-----------------------------------------------------------------------------
\* Two workers never both have a root, neither of them told otherwise, whose
\* keepalives keep its lock from ageing: acquire_lock's INSERT, UPDATE and
\* SELECT, the recovery's takeover and release, and every interleaving of them,
\* whatever starvation does to the locks of the other roots.
MutualExclusion ==
    \A v, w \in Workers :
        Busy(v) /\ Busy(w) /\ target[v] = target[w] /\ target[v] \notin Starved => v = w

\* Without database errors a live worker's lock is always one it is using: the
\* keepalive thread, which inserts a missing row, never does so after release_lock
\* (stop_keepalive joins it), so no root stays locked by a worker that moved on.
NoOrphanLock ==
    faults = 0 =>
        \A r \in Roots, w \in Workers : locks[r] = w /\ pc[w] # "dead" => target[w] = r

\* The abstract lease: what the table says, and what each client was told.
Beliefs == [c \in Clients |-> IF Told(c) THEN target[c] ELSE NoRoot]

Promise == INSTANCE Lease WITH owner <- locks, told <- Beliefs

\* Statement by statement the code behaves as the atomic lease: a lock changes hands
\* only when free or aged, only its owner removes it, and acquire_lock returns True
\* only at a moment when the caller owns the lock.
ImplementsLease == Promise!Spec

\* A worker whose lock went to somebody else does not analyse on for ever unaware: its
\* keepalive thread flags the loss, unless the row came back to it or work ended.
LossIsNoticed ==
    \A w \in Workers :
        (pc[w] = "working" /\ locks[target[w]] # w)
            ~> (pc[w] # "working" \/ w \in lost \/ locks[target[w]] = w)
=============================================================================
