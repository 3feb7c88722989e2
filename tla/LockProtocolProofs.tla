------------------------- MODULE LockProtocolProofs -------------------------
(***************************************************************************)
(* Proofs about LockProtocol, for any number of roots, workers, recoveries *)
(* and database errors.                                                    *)
(***************************************************************************)
EXTENDS LockProtocol, TLAPS

\* Each kind of client stays in its own program.
PCShape ==
    /\ \A w \in Workers : pc[w] \in WorkerPC
    /\ \A c \in Recoveries : pc[c] \in RecoveryPC

\* acquire_lock is being executed exactly in these phases.
CallShape ==
    \A c \in Clients : call[c] # "none" <=> pc[c] \in {"claiming", "starting", "recovering"}

\* A client has a target exactly from its claim to its release.
TargetShape ==
    \A c \in Clients :
        IF pc[c] \in {"idle", "listing", "done", "dead"}
        THEN target[c] = NoRoot ELSE target[c] \in Roots

\* The keepalive thread exists only while the main thread works or joins it.
KeepaliveShape == \A w \in Workers : ka[w] # "off" => pc[w] \in {"working", "joining"}

\* TypeOK is not inductive alone: Granted and Denied are applied to pc[c], and the
\* statements index the table with target[c].
TypeInv == TypeOK /\ PCShape /\ CallShape /\ TargetShape /\ KeepaliveShape

\* What the two ways out of acquire_lock do to the program counter.
LEMMA Outcomes ==
    ASSUME NEW p \in {"claiming", "starting", "recovering"}
    PROVE  /\ p = "claiming" => Granted[p] = "claimed" /\ Denied[p] = "idle"
           /\ p = "starting" => Granted[p] = "working" /\ Denied[p] = "idle"
           /\ p = "recovering" => Granted[p] = "releasing" /\ Denied[p] = "done"
BY DEF Granted, Denied

LEMMA TypeInit == Init => TypeInv
BY LockAssumption DEF Init, TypeInv, TypeOK, PCShape, CallShape, TargetShape, KeepaliveShape,
   Clients, WorkerPC, RecoveryPC, Statement, KeepalivePC

\* Every action of either thread keeps the types and the shape.
LEMMA TypeStep == TypeInv /\ [Next]_vars => TypeInv'
<1> SUFFICES ASSUME TypeInv, [Next]_vars PROVE TypeInv'
    OBVIOUS
<1> USE LockAssumption DEF TypeInv, TypeOK, PCShape, CallShape, TargetShape, KeepaliveShape,
        Clients, WorkerPC, RecoveryPC, Statement, KeepalivePC
<1>1. ASSUME NEW c \in Clients, Insert(c) PROVE TypeInv'
    BY <1>1, Outcomes DEF Insert, Stamp, ReturnTrue
<1>2. ASSUME NEW c \in Clients, Update(c) PROVE TypeInv'
    BY <1>2 DEF Update, Stamp
<1>3. ASSUME NEW c \in Clients, Reread(c) PROVE TypeInv'
    BY <1>3, Outcomes DEF Reread, ReturnTrue, ReturnFalse
<1>4. ASSUME NEW c \in Clients, AcquireError(c) PROVE TypeInv'
    BY <1>4, Outcomes DEF AcquireError, Stamp, ReturnFalse
<1>5. ASSUME NEW c \in Clients, Release(c) PROVE TypeInv'
    BY <1>5 DEF Release, DeleteOwn
<1>6. ASSUME NEW c \in Clients, Die(c) PROVE TypeInv'
    BY <1>6 DEF Die
<1>7. ASSUME NEW w \in Workers, Abandon(w) PROVE TypeInv'
    BY <1>7 DEF Abandon
<1>8. ASSUME NEW w \in Workers, StartKeepalive(w) PROVE TypeInv'
    BY <1>8 DEF StartKeepalive
<1>9. ASSUME NEW w \in Workers, SetControlEvent(w) PROVE TypeInv'
    BY <1>9 DEF SetControlEvent
<1>10. ASSUME NEW w \in Workers, JoinKeepalive(w) PROVE TypeInv'
    BY <1>10 DEF JoinKeepalive
<1>11. ASSUME NEW w \in Workers, KeepaliveWake(w) PROVE TypeInv'
    BY <1>11 DEF KeepaliveWake
<1>12. ASSUME NEW w \in Workers, KeepaliveInsert(w) PROVE TypeInv'
    BY <1>12 DEF KeepaliveInsert, Stamp
<1>13. ASSUME NEW w \in Workers, KeepaliveUpdate(w) PROVE TypeInv'
    BY <1>13 DEF KeepaliveUpdate, Stamp
<1>14. ASSUME NEW w \in Workers, KeepaliveReread(w) PROVE TypeInv'
    BY <1>14 DEF KeepaliveReread, LockLost
<1>15. ASSUME NEW w \in Workers, KeepaliveError(w) PROVE TypeInv'
    BY <1>15 DEF KeepaliveError, LockLost, Stamp
<1>16. ASSUME NEW w \in Workers, NEW r \in Roots, Claim(w, r) PROVE TypeInv'
    BY <1>16 DEF Claim
<1>17. ASSUME NEW c \in Recoveries, NEW r \in Roots, ListExpired(c, r) PROVE TypeInv'
    BY <1>17 DEF ListExpired
<1>18. ASSUME NEW r \in Roots, Expire(r) PROVE TypeInv'
    BY <1>18 DEF Expire
<1>19. CASE UNCHANGED vars
    BY <1>19 DEF vars
<1> QED
    BY <1>1, <1>2, <1>3, <1>4, <1>5, <1>6, <1>7, <1>8, <1>9, <1>10, <1>11, <1>12, <1>13, <1>14, <1>15, <1>16, <1>17, <1>18, <1>19 DEF Next, Acquire, Keepalive

\* TypeOK: every variable keeps its type, under any interleaving.
THEOREM TypeCorrect == Spec => []TypeOK
<1>1. Spec => []TypeInv
    BY TypeInit, TypeStep, PTL DEF Spec
<1> QED
    BY <1>1, PTL DEF TypeInv

-----------------------------------------------------------------------------
\* On a root that is not starved, a worker that was told it has the lock owns a
\* fresh row, and so does one whose UPDATE matched but whose SELECT is still to come.
LeaseHeld ==
    \A w \in Workers : target[w] \notin Starved =>
        /\ Told(w) => locks[target[w]] = w /\ target[w] \notin aged
        /\ call[w] = "reread" /\ locks[target[w]] = w => target[w] \notin aged

LEMMA LeaseHeldStep ==
    ASSUME TypeInv, LeaseHeld, [Next]_vars
    PROVE  LeaseHeld'
<1> USE LockAssumption DEF TypeInv, TypeOK, PCShape, CallShape, TargetShape, KeepaliveShape,
        Clients, WorkerPC, RecoveryPC, Statement, KeepalivePC, LeaseHeld, Told
<1>1. ASSUME NEW c \in Clients, Insert(c) PROVE LeaseHeld'
    BY <1>1, Outcomes DEF Insert, Stamp, ReturnTrue
<1>2. ASSUME NEW c \in Clients, Update(c) PROVE LeaseHeld'
    BY <1>2 DEF Update, Matches, Stamp
<1>3. ASSUME NEW c \in Clients, Reread(c) PROVE LeaseHeld'
    BY <1>3, Outcomes DEF Reread, ReturnTrue, ReturnFalse
<1>4. ASSUME NEW c \in Clients, AcquireError(c) PROVE LeaseHeld'
    BY <1>4, Outcomes DEF AcquireError, Stamp, ReturnFalse
<1>5. ASSUME NEW c \in Clients, Release(c) PROVE LeaseHeld'
    BY <1>5 DEF Release, DeleteOwn
<1>6. ASSUME NEW c \in Clients, Die(c) PROVE LeaseHeld'
    BY <1>6 DEF Die
<1>7. ASSUME NEW w \in Workers, Abandon(w) \/ StartKeepalive(w) \/ SetControlEvent(w) PROVE LeaseHeld'
    BY <1>7 DEF Abandon, StartKeepalive, SetControlEvent
<1>8. ASSUME NEW w \in Workers, JoinKeepalive(w) \/ KeepaliveWake(w) PROVE LeaseHeld'
    BY <1>8 DEF JoinKeepalive, KeepaliveWake
<1>9. ASSUME NEW w \in Workers, KeepaliveInsert(w) PROVE LeaseHeld'
    BY <1>9 DEF KeepaliveInsert, Stamp
<1>10. ASSUME NEW w \in Workers, KeepaliveUpdate(w) PROVE LeaseHeld'
    BY <1>10 DEF KeepaliveUpdate, Matches, Stamp
<1>11. ASSUME NEW w \in Workers, KeepaliveReread(w) PROVE LeaseHeld'
    BY <1>11 DEF KeepaliveReread, LockLost
<1>12. ASSUME NEW w \in Workers, KeepaliveError(w) PROVE LeaseHeld'
    BY <1>12 DEF KeepaliveError, LockLost, Stamp
<1>13. ASSUME NEW w \in Workers, NEW r \in Roots, Claim(w, r) PROVE LeaseHeld'
    BY <1>13 DEF Claim
<1>14. ASSUME NEW c \in Recoveries, NEW r \in Roots, ListExpired(c, r) PROVE LeaseHeld'
    BY <1>14 DEF ListExpired
<1>15. ASSUME NEW r \in Roots, Expire(r) PROVE LeaseHeld'
    BY <1>15 DEF Expire, Maintained
<1>16. CASE UNCHANGED vars
    BY <1>16 DEF vars
<1> QED
    BY <1>1, <1>2, <1>3, <1>4, <1>5, <1>6, <1>7, <1>8, <1>9,
       <1>10, <1>11, <1>12, <1>13, <1>14, <1>15, <1>16 DEF Next, Acquire, Keepalive

\* MutualExclusion: no two workers have the same root, for any number of clients and
\* any interleaving, crash or database error, if its lock does not age while maintained.
THEOREM MutualExclusionHolds == Spec => []MutualExclusion
<1>1. Init => LeaseHeld
    BY LockAssumption DEF Init, LeaseHeld, Told, Clients
<1>2. TypeInv /\ LeaseHeld /\ [Next]_vars => LeaseHeld'
    BY LeaseHeldStep
<1>3. LeaseHeld => MutualExclusion
    BY DEF LeaseHeld, MutualExclusion, Busy, Told
<1> QED
    BY <1>1, <1>2, <1>3, TypeInit, TypeStep, PTL DEF Spec
-----------------------------------------------------------------------------
\* NoOrphanLock is inductive with TypeInv: the keepalive thread is off whenever the
\* main thread releases, and only a database error can leave a row behind.
LEMMA NoOrphanStep ==
    ASSUME TypeInv, NoOrphanLock, [Next]_vars
    PROVE  NoOrphanLock'
<1> USE LockAssumption DEF TypeInv, TypeOK, PCShape, CallShape, TargetShape, KeepaliveShape,
        Clients, WorkerPC, RecoveryPC, Statement, KeepalivePC, NoOrphanLock
<1>1. ASSUME NEW c \in Clients, Insert(c) PROVE NoOrphanLock'
    BY <1>1, Outcomes DEF Insert, Stamp, ReturnTrue
<1>2. ASSUME NEW c \in Clients, Update(c) PROVE NoOrphanLock'
    BY <1>2 DEF Update, Matches, Stamp
<1>3. ASSUME NEW c \in Clients, Reread(c) PROVE NoOrphanLock'
    BY <1>3, Outcomes DEF Reread, ReturnTrue, ReturnFalse
<1>4. ASSUME NEW c \in Clients, AcquireError(c) PROVE NoOrphanLock'
    BY <1>4 DEF AcquireError
<1>5. ASSUME NEW c \in Clients, Release(c) PROVE NoOrphanLock'
    BY <1>5 DEF Release, DeleteOwn
<1>6. ASSUME NEW c \in Clients, Die(c) PROVE NoOrphanLock'
    BY <1>6 DEF Die
<1>7. ASSUME NEW w \in Workers, Abandon(w) \/ StartKeepalive(w) \/ SetControlEvent(w) PROVE NoOrphanLock'
    BY <1>7 DEF Abandon, StartKeepalive, SetControlEvent
<1>8. ASSUME NEW w \in Workers, JoinKeepalive(w) \/ KeepaliveWake(w) PROVE NoOrphanLock'
    BY <1>8 DEF JoinKeepalive, KeepaliveWake
<1>9. ASSUME NEW w \in Workers, KeepaliveInsert(w) PROVE NoOrphanLock'
    BY <1>9 DEF KeepaliveInsert, Stamp
<1>10. ASSUME NEW w \in Workers, KeepaliveUpdate(w) PROVE NoOrphanLock'
    BY <1>10 DEF KeepaliveUpdate, Matches, Stamp
<1>11. ASSUME NEW w \in Workers, KeepaliveReread(w) PROVE NoOrphanLock'
    BY <1>11 DEF KeepaliveReread, LockLost
<1>12. ASSUME NEW w \in Workers, KeepaliveError(w) PROVE NoOrphanLock'
    BY <1>12 DEF KeepaliveError
<1>13. ASSUME NEW w \in Workers, NEW r \in Roots, Claim(w, r) PROVE NoOrphanLock'
    BY <1>13 DEF Claim
<1>14. ASSUME NEW c \in Recoveries, NEW r \in Roots, ListExpired(c, r) PROVE NoOrphanLock'
    BY <1>14 DEF ListExpired
<1>15. ASSUME NEW r \in Roots, Expire(r) PROVE NoOrphanLock'
    BY <1>15 DEF Expire
<1>16. CASE UNCHANGED vars
    BY <1>16 DEF vars
<1> QED
    BY <1>1, <1>2, <1>3, <1>4, <1>5, <1>6, <1>7, <1>8, <1>9,
       <1>10, <1>11, <1>12, <1>13, <1>14, <1>15, <1>16 DEF Next, Acquire, Keepalive

\* NoOrphanLock: without database errors no worker leaves a lock behind that it is not
\* using, whatever the keepalive thread, recoveries and deaths of others do meanwhile.
THEOREM NoOrphanLockHolds == Spec => []NoOrphanLock
<1>1. Init => NoOrphanLock
    BY LockAssumption DEF Init, NoOrphanLock, Clients
<1>2. TypeInv /\ NoOrphanLock /\ [Next]_vars => NoOrphanLock'
    BY NoOrphanStep
<1> QED
    BY <1>1, <1>2, TypeInit, TypeStep, PTL DEF Spec
-----------------------------------------------------------------------------
\* A step of client c changes what c believes and nothing else of Beliefs.
LEMMA OnlyOwnBelief ==
    ASSUME NEW c \in Clients,
           \A d \in Clients \ {c} : pc'[d] = pc[d] /\ target'[d] = target[d]
    PROVE  Beliefs' = [Beliefs EXCEPT ![c] = (IF Told(c) THEN target[c] ELSE NoRoot)']
BY DEF Beliefs, Told

\* Beliefs follow the program counters and the targets.
LEMMA SameBeliefs ==
    ASSUME UNCHANGED <<pc, target>>
    PROVE  UNCHANGED Beliefs /\ \A c \in Clients : Beliefs' = [Beliefs EXCEPT ![c] = Beliefs[c]]
BY DEF Beliefs, Told

\* Every statement of the code is one step of the lease or none.
LEMMA LeaseStep == TypeInv /\ [Next]_vars => [Promise!Next]_Promise!vars
<1> SUFFICES ASSUME TypeInv, [Next]_vars PROVE [Promise!Next]_Promise!vars
    OBVIOUS
<1> DEFINE Step == [Promise!Next]_Promise!vars
<1> USE LockAssumption DEF TypeInv, TypeOK, PCShape, CallShape, TargetShape, KeepaliveShape,
        Clients, WorkerPC, RecoveryPC, Statement, KeepalivePC
<1>0. /\ \A c \in Clients, r \in Roots :
            Promise!Take(c, r) \/ Promise!Refresh(c, r) \/ Promise!TakeOver(c, r)
              \/ Promise!Tell(c, r) \/ Promise!GiveBack(c, r) => Step
      /\ \A c \in Clients : Promise!Forget(c) => Step
      /\ \A r \in Roots : Promise!Age(r) => Step
      /\ UNCHANGED <<locks, aged, Beliefs>> => Step
    BY DEF Promise!Next, Promise!vars
<1> HIDE DEF Step
<1>1. ASSUME NEW c \in Clients, Insert(c) PROVE Step
    <2>1. CASE locks[target[c]] = NoOne
        <3>1. Beliefs' = [Beliefs EXCEPT ![c] = (IF Told(c) THEN target[c] ELSE NoRoot)']
            BY <1>1, <2>1, OnlyOwnBelief DEF Insert, ReturnTrue
        <3>2. Promise!Take(c, target[c])
            BY <1>1, <2>1, <3>1, Outcomes
               DEF Insert, Stamp, ReturnTrue, Told, Promise!Take, Promise!Own, Promise!MaybeTell
        <3> QED
            BY <1>0, <1>1, <3>2 DEF Insert
    <2>2. CASE locks[target[c]] # NoOne
        BY <1>0, <1>1, <2>2, SameBeliefs DEF Insert
    <2> QED
        BY <2>1, <2>2
<1>2. ASSUME NEW c \in Clients, Update(c) PROVE Step
    <2>1. UNCHANGED Beliefs
        BY <1>2, SameBeliefs DEF Update
    <2>2. CASE locks[target[c]] = c
        <3>1. Promise!Refresh(c, target[c])
            BY <1>2, <2>1, <2>2 DEF Update, Matches, Stamp, Promise!Refresh, Promise!Own
        <3> QED
            BY <1>0, <1>2, <3>1 DEF Update
    <2>3. CASE locks[target[c]] # c /\ Matches(c, target[c])
        <3>1. Promise!TakeOver(c, target[c])
            BY <1>2, <2>1, <2>3 DEF Update, Matches, Stamp, Promise!TakeOver, Promise!Own
        <3> QED
            BY <1>0, <1>2, <3>1 DEF Update
    <2>4. CASE ~Matches(c, target[c])
        BY <1>0, <1>2, <2>1, <2>4 DEF Update
    <2> QED
        BY <2>2, <2>3, <2>4
<1>3. ASSUME NEW c \in Clients, Reread(c) PROVE Step
    <2>1. Beliefs' = [Beliefs EXCEPT ![c] = (IF Told(c) THEN target[c] ELSE NoRoot)']
        BY <1>3, OnlyOwnBelief DEF Reread, ReturnTrue, ReturnFalse
    <2>2. CASE locks[target[c]] = c
        <3>1. /\ pc'[c] = Granted[pc[c]] /\ target' = target
              /\ pc[c] \in {"claiming", "starting", "recovering"}
            BY <1>3, <2>2 DEF Reread, ReturnTrue
        <3>2. Beliefs' = [Beliefs EXCEPT ![c] = target[c]]
            BY <2>1, <3>1, Outcomes DEF Told
        <3>3. Promise!Tell(c, target[c])
            BY <1>3, <2>2, <3>2 DEF Reread, Promise!Tell
        <3> QED
            BY <1>0, <3>1, <3>3
    <2>3. CASE locks[target[c]] # c
        <3>1. Promise!Forget(c)
            BY <1>3, <2>1, <2>3, Outcomes DEF Reread, ReturnFalse, Told, Promise!Forget
        <3> QED
            BY <1>0, <3>1
    <2> QED
        BY <2>2, <2>3
<1>4. ASSUME NEW c \in Clients, AcquireError(c) PROVE Step
    <2>1. Beliefs' = [Beliefs EXCEPT ![c] = NoRoot]
        BY <1>4, OnlyOwnBelief, Outcomes DEF AcquireError, ReturnFalse, Told
    <2>2. CASE UNCHANGED <<locks, aged>>
        BY <1>0, <2>1, <2>2 DEF Promise!Forget
    <2>3. CASE locks[target[c]] = NoOne /\ Stamp(c, target[c])
        <3>1. Promise!Take(c, target[c])
            BY <2>1, <2>3 DEF Stamp, Promise!Take, Promise!Own, Promise!MaybeTell
        <3> QED
            BY <1>0, <1>4, <3>1 DEF AcquireError
    <2> QED
        BY <1>4, <2>2, <2>3 DEF AcquireError
<1>5. ASSUME NEW c \in Clients, Release(c) PROVE Step
    <2>1. Beliefs' = [Beliefs EXCEPT ![c] = NoRoot]
        BY <1>5, OnlyOwnBelief DEF Release, Told
    <2>2. Beliefs[c] = target[c]
        BY <1>5 DEF Release, Beliefs, Told
    <2>3. CASE DeleteOwn(c, target[c])
        <3>1. Promise!GiveBack(c, target[c])
            BY <2>1, <2>2, <2>3 DEF DeleteOwn, Promise!GiveBack
        <3> QED
            BY <1>0, <1>5, <3>1 DEF Release
    <2>4. CASE UNCHANGED <<locks, aged>>
        BY <1>0, <2>1, <2>4 DEF Promise!Forget
    <2> QED
        BY <1>5, <2>3, <2>4 DEF Release
<1>6. ASSUME NEW c \in Clients, Die(c) PROVE Step
    <2>1. Beliefs' = [Beliefs EXCEPT ![c] = NoRoot]
        BY <1>6, OnlyOwnBelief DEF Die, Told
    <2> QED
        BY <1>0, <1>6, <2>1 DEF Die, Promise!Forget
<1>7. ASSUME NEW w \in Workers, Abandon(w) \/ StartKeepalive(w) \/ SetControlEvent(w) PROVE Step
    <2>1. UNCHANGED Beliefs
        BY <1>7 DEF Abandon, StartKeepalive, SetControlEvent, Beliefs, Told
    <2> QED
        BY <1>0, <1>7, <2>1 DEF Abandon, StartKeepalive, SetControlEvent
<1>8. ASSUME NEW w \in Workers, JoinKeepalive(w) \/ KeepaliveWake(w) PROVE Step
    <2>1. UNCHANGED Beliefs
        BY <1>8 DEF JoinKeepalive, KeepaliveWake, Beliefs, Told
    <2> QED
        BY <1>0, <1>8, <2>1 DEF JoinKeepalive, KeepaliveWake
<1>9. ASSUME NEW w \in Workers, KeepaliveInsert(w) PROVE Step
    <2>1. UNCHANGED Beliefs /\ Beliefs' = [Beliefs EXCEPT ![w] = Beliefs[w]]
        BY <1>9, SameBeliefs DEF KeepaliveInsert
    <2>2. CASE locks[target[w]] = NoOne
        <3>1. Promise!Take(w, target[w])
            BY <1>9, <2>1, <2>2 DEF KeepaliveInsert, Stamp, Promise!Take, Promise!Own, Promise!MaybeTell
        <3> QED
            BY <1>0, <1>9, <3>1 DEF KeepaliveInsert
    <2>3. CASE locks[target[w]] # NoOne
        BY <1>0, <1>9, <2>1, <2>3 DEF KeepaliveInsert
    <2> QED
        BY <2>2, <2>3
<1>10. ASSUME NEW w \in Workers, KeepaliveUpdate(w) PROVE Step
    <2>1. UNCHANGED Beliefs
        BY <1>10, SameBeliefs DEF KeepaliveUpdate
    <2>2. CASE locks[target[w]] = w
        <3>1. Promise!Refresh(w, target[w])
            BY <1>10, <2>1, <2>2 DEF KeepaliveUpdate, Matches, Stamp, Promise!Refresh, Promise!Own
        <3> QED
            BY <1>0, <1>10, <3>1 DEF KeepaliveUpdate
    <2>3. CASE locks[target[w]] # w
        BY <1>0, <1>10, <2>1, <2>3 DEF KeepaliveUpdate, Matches
    <2> QED
        BY <2>2, <2>3
<1>11. ASSUME NEW w \in Workers, KeepaliveReread(w) PROVE Step
    BY <1>0, <1>11, SameBeliefs DEF KeepaliveReread
<1>12. ASSUME NEW w \in Workers, KeepaliveError(w) PROVE Step
    <2>1. UNCHANGED Beliefs /\ Beliefs' = [Beliefs EXCEPT ![w] = Beliefs[w]]
        BY <1>12, SameBeliefs DEF KeepaliveError
    <2>2. CASE UNCHANGED <<locks, aged>>
        BY <1>0, <2>1, <2>2
    <2>3. CASE ka[w] = "insert" /\ locks[target[w]] = NoOne /\ Stamp(w, target[w])
        <3>1. Promise!Take(w, target[w])
            BY <2>1, <2>3 DEF Stamp, Promise!Take, Promise!Own, Promise!MaybeTell
        <3> QED
            BY <1>0, <2>3, <3>1
    <2> QED
        BY <1>12, <2>2, <2>3 DEF KeepaliveError
<1>13. ASSUME NEW w \in Workers, NEW r \in Roots, Claim(w, r) PROVE Step
    <2>1. UNCHANGED Beliefs
        BY <1>13 DEF Claim, Beliefs, Told
    <2> QED
        BY <1>0, <1>13, <2>1 DEF Claim
<1>14. ASSUME NEW c \in Recoveries, NEW r \in Roots, ListExpired(c, r) PROVE Step
    <2>1. UNCHANGED Beliefs
        BY <1>14 DEF ListExpired, Beliefs, Told
    <2> QED
        BY <1>0, <1>14, <2>1 DEF ListExpired
<1>15. ASSUME NEW r \in Roots, Expire(r) PROVE Step
    BY <1>0, <1>15, SameBeliefs DEF Expire, Promise!Age
<1>16. ASSUME UNCHANGED vars PROVE Step
    BY <1>0, <1>16, SameBeliefs DEF vars
<1>17. Step
    BY <1>1, <1>2, <1>3, <1>4, <1>5, <1>6, <1>7, <1>8, <1>9,
       <1>10, <1>11, <1>12, <1>13, <1>14, <1>15, <1>16 DEF Next, Acquire, Keepalive
<1> QED
    BY <1>17 DEF Step

\* ImplementsLease: the protocol of SQL statements implements the atomic lease, for any
\* number of roots, workers, recoveries and database errors.
THEOREM LeaseImplemented == Spec => ImplementsLease
<1>1. Init => Promise!Init
    BY LockAssumption DEF Init, Promise!Init, Beliefs, Told, Clients
<1>2. TypeInv /\ [Next]_vars => [Promise!Next]_Promise!vars
    BY LeaseStep
<1> QED
    BY <1>1, <1>2, TypeInit, TypeStep, PTL DEF Spec, ImplementsLease, Promise!Spec
=============================================================================
