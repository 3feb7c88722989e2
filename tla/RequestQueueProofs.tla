------------------------- MODULE RequestQueueProofs -------------------------
(***************************************************************************)
(* Proofs about the queues of remediations and file collections, for any   *)
(* number of requests and threads: no request is attempted twice at once,  *)
(* and none that is completed is taken up again.                           *)
(***************************************************************************)
EXTENDS RequestQueue, FiniteSetTheorems, SequenceTheorems, TLAPS

Flying(r) == Copies(r) # {} \/ Workers(r) # {}

\* In one place at most: at one position of the queue or with one thread.
Single(r) ==
    /\ \A i, j \in Copies(r) : i = j
    /\ \A w, x \in Workers(r) : w = x
    /\ Copies(r) = {} \/ Workers(r) = {}

\* The collector has selected or locked rows only between its own steps.
Collecting ==
    /\ collector # "selected" => targets = {}
    /\ collector # "locked" => \A r \in Requests : lock[r] # "ours"
    /\ collector # "idle" => up

\* A request in flight holds a lock that has not timed out, unless its row is
\* gone; so one that is found unlocked, or has just been locked, is not in flight.
Guarded(r) ==
    /\ Flying(r) => status[r] = "deleted" \/ (lock[r] = "older" /\ r \notin aged)
    /\ r \in targets => ~Flying(r)
    /\ lock[r] = "ours" => ~Flying(r) /\ r \notin aged
    /\ r \notin cancelled =>
          (Flying(r) \/ r \in targets \/ lock[r] = "ours" => status[r] # "completed")

IInv == Collecting /\ \A r \in Requests \ redone : Single(r) /\ Guarded(r)

-----------------------------------------------------------------------------
\* TypeOK, but for the part that is Boolean.
Shape ==
    /\ status \in [Requests -> {"absent", "new", "in progress", "completed", "deleted"}]
    /\ lock \in [Requests -> {"none", "ours", "older"}]
    /\ retry \in [Requests -> Nat]
    /\ aged \subseteq Requests
    /\ collector \in {"idle", "selected", "locked"}
    /\ targets \subseteq Requests
    /\ queue \in Seq(Item) /\ thread \in [Threads -> Item \cup {NoItem}]
Ledger ==
    /\ service \in Services
    /\ expired \subseteq Requests /\ gone \subseteq Requests
    /\ cancelling \subseteq Requests /\ cancelled \subseteq Requests /\ redone \subseteq Requests
    /\ delays \in 0 .. MaxDelays /\ mishaps \in 0 .. MaxMishaps
    /\ broken \subseteq Threads

LEMMA TypeParts == TypeOK <=> Shape /\ Ledger /\ up \in BOOLEAN
BY DEF TypeOK, Shape, Ledger

LEMMA TypeInit == Init => TypeOK
<1> SUFFICES ASSUME Init
             PROVE  Shape /\ Ledger /\ up \in BOOLEAN
    BY TypeParts
<1> QED
    BY RequestQueueAssumption DEF Init, Shape, Ledger, Item, NoItem

\* What analysts, time and failures do to a request.
Disturb(r) ==
    \/ Queue(r) \/ ReadToCancel(r) \/ Cancel(r) \/ Retry(r) \/ Delete(r)
    \/ Age(r) \/ Expire(r) \/ LoseAlert(r)

LEMMA LedgerNext == Ledger /\ up \in BOOLEAN /\ [Next]_vars => Ledger' /\ up' \in BOOLEAN
<1> SUFFICES ASSUME Ledger, up \in BOOLEAN, [Next]_vars
             PROVE  Ledger' /\ up' \in BOOLEAN
    OBVIOUS
<1>1. up' \in BOOLEAN
    BY DEF Next, vars, Collect, Select, Lock, Fetch, Work, Take, Finish, FinishFails, Queue,
           ReadToCancel, Cancel, Retry, Delete, Age, Expire, LoseAlert, Crash, Restart
<1>2. CASE Collect \/ \E w \in Threads : Take(w)
    BY <1>2 DEF Ledger, Collect, Select, Lock, Fetch, Take, lostVars, pastVars
<1>3. CASE \E w \in Threads : Finish(w)
    BY <1>3, RequestQueueAssumption DEF Ledger, Finish, lostVars, pastVars
<1>7. CASE \E w \in Threads : FinishFails(w)
    BY <1>7, RequestQueueAssumption DEF Ledger, FinishFails, Mishap, lostVars, pastVars
<1>4. ASSUME NEW r \in Requests, Disturb(r)
      PROVE  Ledger'
  <2> USE RequestQueueAssumption DEF Ledger, Mishap, lostVars, memVars, pastVars
  <2>1. CASE Queue(r) \/ ReadToCancel(r) \/ Cancel(r)
      BY <2>1 DEF Queue, ReadToCancel, Cancel
  <2>2. CASE Retry(r) \/ Delete(r)
      BY <2>2 DEF Retry, Delete
  <2>3. CASE Age(r)
      BY <2>3 DEF Age
  <2>4. CASE Expire(r) \/ LoseAlert(r)
      BY <2>4 DEF Expire, LoseAlert
  <2> QED
      BY <1>4, <2>1, <2>2, <2>3, <2>4 DEF Disturb
<1>5. CASE Crash \/ Restart
  <2>1. /\ mishaps' = mishaps \/ (mishaps < MaxMishaps /\ mishaps' = mishaps + 1)
        /\ UNCHANGED <<service, expired, gone, cancelling, cancelled, redone, delays>>
        /\ broken' \in {broken, {}}
      BY <1>5 DEF Crash, Restart, Mishap, lostVars, memVars, pastVars
  <2>2. mishaps' \in 0 .. MaxMishaps
      BY <2>1, RequestQueueAssumption DEF Ledger
  <2> QED
      BY <1>1, <2>1, <2>2 DEF Ledger
<1>6. CASE UNCHANGED vars
    BY <1>6 DEF vars, Ledger, lostVars, memVars, pastVars
<1> QED
    BY <1>1, <1>2, <1>3, <1>4, <1>5, <1>6, <1>7 DEF Next, Work, Disturb

\* What Fetch appends to the queue: each of the rows that hold the lock once.
LEMMA Fetched ==
    ASSUME Shape, Fetch
    PROVE  \E new \in Seq(Item) :
              /\ queue' = queue \o new
              /\ \A i \in 1 .. Len(new) : lock[new[i].id] = "ours"
              /\ \A i, j \in 1 .. Len(new) : new[i].id = new[j].id => i = j
<1> DEFINE S == {r \in Requests \ gone : lock[r] = "ours" /\ Row(r)}
           K == Cardinality(S)
<1>1. PICK ids \in NewestFirst(S) :
          queue' = queue \o [i \in DOMAIN ids |->
                                [id |-> ids[i],
                                 retry |-> IF service = "collection" THEN retry[ids[i]] ELSE 0]]
    BY DEF Fetch
<1>2. K \in Nat
  <2>1. IsFiniteSet(Requests)
    <3>1. MaxRequests \in Int
        BY RequestQueueAssumption
    <3> QED
        BY <3>1, FS_Interval DEF Requests
  <2> QED
      BY <2>1, FS_Subset, FS_CardinalityType
<1>3. ids \in [1 .. K -> S] /\ \A i, j \in 1 .. K : i < j => ids[i] > ids[j]
    BY <1>1 DEF NewestFirst
<1>4. \A i \in 1 .. K : ids[i] \in Requests /\ lock[ids[i]] = "ours"
    BY <1>3
<1> DEFINE new == [i \in 1 .. K |-> [id |-> ids[i],
                                     retry |-> IF service = "collection" THEN retry[ids[i]] ELSE 0]]
<1> HIDE DEF S, K
<1>5. \A i \in 1 .. K : new[i] \in Item /\ new[i].id = ids[i]
    BY <1>4 DEF Item, Shape
<1>6. new \in Seq(Item) /\ Len(new) = K
  <2>1. new \in [1 .. K -> Item]
      BY <1>5
  <2> HIDE DEF new
  <2> QED
      BY <1>2, <2>1
<1>7. queue' = queue \o new
    BY <1>1, <1>3
<1>8. \A i, j \in 1 .. K : ids[i] = ids[j] => i = j
  <2> SUFFICES ASSUME NEW i \in 1 .. K, NEW j \in 1 .. K, ids[i] = ids[j], i # j
               PROVE  FALSE
      OBVIOUS
  <2>1. ids[i] \in Nat
      BY <1>4, RequestQueueAssumption DEF Requests
  <2>2. i < j \/ j < i
      BY <1>2
  <2> QED
      BY <1>3, <2>1, <2>2
<1> HIDE DEF new
<1>9. \A i \in 1 .. Len(new) : lock[new[i].id] = "ours"
    BY <1>4, <1>5, <1>6
<1>10. \A i, j \in 1 .. Len(new) : new[i].id = new[j].id => i = j
    BY <1>5, <1>6, <1>8
<1> QED
    BY <1>6, <1>7, <1>9, <1>10

LEMMA ShapeNext == Shape /\ [Next]_vars => Shape'
<1> SUFFICES ASSUME Shape, [Next]_vars
             PROVE  Shape'
    OBVIOUS
<1> USE DEF Shape, rowVars, memVars
<1>1. CASE Select
    BY <1>1 DEF Select, Eligible
<1>2. CASE Lock
    BY <1>2 DEF Lock
<1>3. CASE Fetch
  <2>1. queue' \in Seq(Item)
    <3>1. PICK new \in Seq(Item) : queue' = queue \o new
        BY <1>3, Fetched
    <3>2. queue \in Seq(Item)
        OBVIOUS
    <3> HIDE DEF Shape
    <3> QED
        BY <3>1, <3>2, ConcatProperties
  <2>2. lock' \in [Requests -> {"none", "ours", "older"}] /\ UNCHANGED <<status, aged, retry, targets, thread>>
        /\ collector' = "idle"
      BY <1>3 DEF Fetch
  <2> QED
      BY <2>1, <2>2
<1>4. ASSUME NEW w \in Threads, Take(w)
      PROVE  Shape'
  <2>1. UNCHANGED <<status, lock, aged, retry, collector, targets>>
      BY <1>4 DEF Take
  <2>2. queue # <<>> /\ queue' = Tail(queue) /\ thread' = [thread EXCEPT ![w] = Head(queue)]
      BY <1>4 DEF Take
  <2>3. Head(queue) \in Item /\ queue' \in Seq(Item)
    <3>1. queue \in Seq(Item) /\ queue # <<>>
        BY <2>2
    <3> HIDE DEF Shape
    <3>2. Head(queue) \in Item /\ Tail(queue) \in Seq(Item)
        BY <3>1, HeadTailProperties
    <3> QED
        BY <2>2, <3>2
  <2> QED
      BY <2>1, <2>2, <2>3
<1>5. ASSUME NEW w \in Threads, Finish(w)
      PROVE  Shape'
  <2>1. thread[w] \in Item /\ thread[w].id \in Requests /\ thread[w].retry \in Nat
      BY <1>5 DEF Finish, Item
  <2>2. PICK result \in {"final", "error", "delayed"} : Outcome(thread[w], result) \/ UNCHANGED rowVars
      BY <1>5 DEF Finish
  <2>3. After(result, thread[w].retry + 1) \in {"in progress", "completed"}
      BY DEF After
  <2>4. status' \in [Requests -> {"absent", "new", "in progress", "completed", "deleted"}]
        /\ lock' \in [Requests -> {"none", "ours", "older"}] /\ aged' \subseteq Requests
      BY <2>1, <2>2, <2>3 DEF Outcome
  <2>5. retry' \in [Requests -> Nat]
    <3> DEFINE i == thread[w].id
               n == thread[w].retry + 1
    <3>1. \/ retry' = [retry EXCEPT ![i] = n]
          \/ retry' = [retry EXCEPT ![i] = retry[i]]
          \/ retry' = retry
      <4>1. CASE service = "collection"
          BY <2>2, <4>1 DEF Outcome
      <4>2. CASE service # "collection"
          BY <2>2, <4>2 DEF Outcome
      <4> QED
          BY <4>1, <4>2
    <3>2. i \in Requests /\ n \in Nat /\ retry[i] \in Nat /\ retry \in [Requests -> Nat]
      <4>1. i \in Requests
          BY <2>1
      <4>2. retry \in [Requests -> Nat]
          OBVIOUS
      <4>3. n \in Nat
        <5> HIDE DEF Shape
        <5> QED
          BY <2>1
      <4> QED
          BY <4>1, <4>2, <4>3
    <3> HIDE DEF i, n, Shape
    <3>3. CASE retry' = [retry EXCEPT ![i] = n]
        BY <3>2, <3>3
    <3>4. CASE retry' = [retry EXCEPT ![i] = retry[i]]
        BY <3>2, <3>4
    <3>5. CASE retry' = retry
        BY <3>2, <3>5
    <3> QED
        BY <3>1, <3>3, <3>4, <3>5
  <2>6. UNCHANGED <<collector, targets, queue>> /\ thread' \in [Threads -> Item \cup {NoItem}]
      BY <1>5 DEF Finish
  <2> QED
      BY <2>4, <2>5, <2>6
<1>9. ASSUME NEW w \in Threads, FinishFails(w)
      PROVE  Shape'
    BY <1>9 DEF FinishFails
<1>6. ASSUME NEW r \in Requests, Disturb(r)
      PROVE  Shape'
  <2>1. CASE Queue(r) \/ ReadToCancel(r) \/ Cancel(r)
      BY <2>1 DEF Queue, ReadToCancel, Cancel
  <2>2. CASE Retry(r) \/ Delete(r)
    <3>1. /\ \E s \in {"new", "deleted"} : status' = [status EXCEPT ![r] = s]
          /\ retry' = [retry EXCEPT ![r] = 0]
          /\ lock' = [lock EXCEPT ![r] = "none"] /\ aged' = aged \ {r}
          /\ UNCHANGED <<collector, targets, queue, thread>>
        BY <2>2 DEF Retry, Delete
    <3> QED
        BY <3>1
  <2>3. CASE Age(r) \/ Expire(r) \/ LoseAlert(r)
      BY <2>3 DEF Age, Expire, LoseAlert
  <2> QED
      BY <1>6, <2>1, <2>2, <2>3 DEF Disturb
<1>7. CASE Crash \/ Restart
  <2>1. CASE Crash
    <3>1. /\ collector' = "idle" /\ targets' = {} /\ queue' = <<>>
          /\ thread' = [w \in Threads |-> NoItem]
          /\ lock' = [r \in Requests |-> IF lock[r] = "ours" THEN "older" ELSE lock[r]]
          /\ UNCHANGED <<status, aged, retry>>
        BY <2>1 DEF Crash
    <3>2. queue' \in Seq(Item)
        BY <3>1, EmptySeq
    <3>3. thread' \in [Threads -> Item \cup {NoItem}]
        BY <3>1
    <3> QED
        BY <3>1, <3>2, <3>3
  <2>2. CASE Restart
    <3>1. UNCHANGED <<rowVars, memVars>>
        BY <2>2 DEF Restart
    <3> QED
        BY <3>1
  <2> QED
      BY <1>7, <2>1, <2>2
<1>8. CASE UNCHANGED vars
    BY <1>8 DEF vars
<1> QED
    BY <1>1, <1>2, <1>3, <1>4, <1>5, <1>6, <1>7, <1>8, <1>9 DEF Next, Collect, Work, Disturb
-----------------------------------------------------------------------------
\* The invariant, action by action.  Of what an action does, a request keeps
\* its part when it is in no more places and its row is no less guarded.

LEMMA KeepsPlace ==
    ASSUME NEW r, Single(r), Copies(r)' \subseteq Copies(r), Workers(r)' \subseteq Workers(r)
    PROVE  Single(r)' /\ (Flying(r)' => Flying(r))
BY DEF Single, Flying

LEMMA SelectStep ==
    ASSUME Shape, IInv, Select
    PROVE  IInv'
<1>1. /\ collector' = "selected" /\ targets' \subseteq Eligible /\ up
      /\ UNCHANGED <<status, lock, aged, queue, thread, cancelled, redone>>
      /\ collector = "idle"
    BY DEF Select, rowVars, pastVars
<1>2. up' = up
    BY DEF Select
<1>3. Collecting'
    BY <1>1, <1>2 DEF IInv, Collecting
<1>4. ASSUME NEW r \in Requests \ redone
      PROVE  Single(r)' /\ Guarded(r)'
  <2>1. Single(r) /\ Guarded(r)
      BY DEF IInv
  <2>2. Single(r)' /\ (Flying(r)' <=> Flying(r))
      BY <1>1, <2>1 DEF Single, Flying, Copies, Workers
  <2>3. r \in targets' => status[r] \in {"new", "in progress"} /\ (lock[r] = "none" \/ r \in aged)
      BY <1>1 DEF Eligible, Open, Unlocked
  <2> QED
      BY <1>1, <2>1, <2>2, <2>3 DEF Guarded
<1> QED
    BY <1>1, <1>3, <1>4 DEF IInv

LEMMA LockStep ==
    ASSUME Shape, IInv, Lock
    PROVE  IInv'
<1>1. /\ collector = "selected" /\ collector' = "locked" /\ targets' = {}
      /\ status' = [r \in Requests |-> IF r \in targets /\ Row(r) THEN "in progress" ELSE status[r]]
      /\ lock' = [r \in Requests |-> IF r \in targets /\ Row(r) THEN "ours" ELSE lock[r]]
      /\ aged' = aged \ targets
      /\ UNCHANGED <<queue, thread, cancelled, redone>>
    BY DEF Lock, pastVars
<1>2. up'
    BY DEF Lock
<1>3. Collecting'
    BY <1>1, <1>2 DEF Collecting
<1>4. ASSUME NEW r \in Requests \ redone
      PROVE  Single(r)' /\ Guarded(r)'
  <2>1. Single(r) /\ Guarded(r) /\ lock[r] # "ours"
      BY <1>1 DEF IInv, Collecting
  <2>2. Single(r)' /\ (Flying(r)' <=> Flying(r))
      BY <1>1, <2>1 DEF Single, Flying, Copies, Workers
  <2> QED
      BY <1>1, <2>1, <2>2 DEF Guarded, Row
<1> QED
    BY <1>1, <1>3, <1>4 DEF IInv

LEMMA FetchStep ==
    ASSUME Shape, IInv, Fetch
    PROVE  IInv'
<1>1. /\ collector = "locked" /\ collector' = "idle"
      /\ lock' = [r \in Requests |-> IF lock[r] = "ours" THEN "older" ELSE lock[r]]
      /\ UNCHANGED <<status, aged, targets, thread, cancelled, redone>>
    BY DEF Fetch, pastVars
<1>2. Collecting'
    BY <1>1 DEF IInv, Collecting
<1>3. PICK new \in Seq(Item) :
          /\ queue' = queue \o new
          /\ \A i \in 1 .. Len(new) : lock[new[i].id] = "ours"
          /\ \A i, j \in 1 .. Len(new) : new[i].id = new[j].id => i = j
    BY Fetched
<1>4. queue \in Seq(Item) /\ Len(queue) \in Nat /\ Len(new) \in Nat
    BY LenProperties DEF Shape
<1>5. /\ DOMAIN queue = 1 .. Len(queue) /\ DOMAIN queue' = 1 .. Len(queue) + Len(new)
      /\ \A i \in 1 .. Len(queue) + Len(new) :
            queue'[i] = IF i <= Len(queue) THEN queue[i] ELSE new[i - Len(queue)]
    BY <1>3, <1>4, ConcatProperties, LenProperties
<1>6. ASSUME NEW r \in Requests \ redone
      PROVE  Single(r)' /\ Guarded(r)'
  <2>1. Single(r) /\ Guarded(r)
      BY DEF IInv
  <2>2. Workers(r)' = Workers(r)
      BY <1>1 DEF Workers
  <2>3. CASE lock[r] = "ours"
    <3>1. Copies(r) = {} /\ Workers(r) = {}
        BY <2>1, <2>3 DEF Guarded, Flying
    <3>2. \A i \in Copies(r)' : i - Len(queue) \in 1 .. Len(new) /\ new[i - Len(queue)].id = r
        BY <1>4, <1>5, <3>1 DEF Copies
    <3>3. \A i, j \in Copies(r)' : i = j
      <4> SUFFICES ASSUME NEW i \in Copies(r)', NEW j \in Copies(r)'
                   PROVE  i = j
          OBVIOUS
      <4>1. i - Len(queue) = j - Len(queue)
          BY <1>3, <3>2
      <4>2. i \in Nat /\ j \in Nat
          BY <1>4, <1>5 DEF Copies
      <4> QED
          BY <1>4, <4>1, <4>2
    <3>4. Single(r)'
        BY <2>2, <3>1, <3>3 DEF Single
    <3> QED
        BY <1>1, <2>1, <2>3, <3>4 DEF IInv, Collecting, Guarded
  <2>4. CASE lock[r] # "ours"
    <3>1. Copies(r)' \subseteq Copies(r)
      <4> SUFFICES ASSUME NEW i \in Copies(r)', i \notin Copies(r)
                   PROVE  FALSE
          OBVIOUS
      <4>1. i \in 1 .. Len(queue) + Len(new) /\ queue'[i].id = r
          BY <1>5 DEF Copies
      <4>2. CASE i <= Len(queue)
          BY <1>4, <1>5, <4>1, <4>2 DEF Copies
      <4>3. CASE ~(i <= Len(queue))
        <5>1. i - Len(queue) \in 1 .. Len(new) /\ new[i - Len(queue)].id = r
            BY <1>4, <1>5, <4>1, <4>3
        <5> QED
            BY <1>3, <2>4, <5>1
      <4> QED
          BY <4>2, <4>3
    <3>2. Single(r)' /\ (Flying(r)' => Flying(r))
        BY <2>1, <2>2, <3>1, KeepsPlace
    <3> QED
        BY <1>1, <2>1, <2>4, <3>2 DEF Guarded
  <2> QED
      BY <2>3, <2>4
<1> QED
    BY <1>1, <1>2, <1>6 DEF IInv

LEMMA TakeStep ==
    ASSUME Shape, IInv, NEW w \in Threads, Take(w)
    PROVE  IInv'
<1>1. /\ thread[w] = NoItem /\ queue # <<>>
      /\ thread' = [thread EXCEPT ![w] = Head(queue)] /\ queue' = Tail(queue)
      /\ UNCHANGED <<status, lock, aged, collector, targets, cancelled, redone>>
    BY DEF Take, rowVars, pastVars
<1>2. up' = up
    BY DEF Take
<1>3. Collecting'
    BY <1>1, <1>2 DEF IInv, Collecting
<1>4. /\ Len(queue) \in Nat \ {0} /\ DOMAIN queue = 1 .. Len(queue)
      /\ DOMAIN queue' = 1 .. Len(queue) - 1
      /\ \A i \in 1 .. Len(queue) - 1 : queue'[i] = queue[i + 1]
      /\ Head(queue) = queue[1]
  <2>1. queue \in Seq(Item)
      BY DEF Shape
  <2> QED
      BY <1>1, <2>1, EmptySeq
<1>5. /\ thread'[w] = queue[1]
      /\ \A x \in Threads : x # w => thread'[x] = thread[x]
    BY <1>1, <1>4 DEF Shape
<1>6. ASSUME NEW r \in Requests \ redone
      PROVE  Single(r)' /\ Guarded(r)'
  <2>1. Single(r) /\ Guarded(r)
      BY DEF IInv
  <2>2. \A i \in Copies(r)' : i + 1 \in Copies(r) /\ i \in Nat /\ i + 1 # 1
      BY <1>4 DEF Copies
  <2>3. CASE queue[1].id # r
    <3>1. Workers(r)' = Workers(r)
        BY <1>1, <1>5, <2>3 DEF Workers, NoItem
    <3>2. \A i, j \in Copies(r)' : i = j
      <4> SUFFICES ASSUME NEW i \in Copies(r)', NEW j \in Copies(r)'
                   PROVE  i = j
          OBVIOUS
      <4>1. i + 1 = j + 1 /\ i \in Nat /\ j \in Nat
          BY <2>1, <2>2 DEF Single
      <4> QED
          BY <4>1
    <3>3. Single(r)' /\ (Flying(r)' => Flying(r))
        BY <2>1, <2>2, <3>1, <3>2 DEF Single, Flying
    <3> QED
        BY <1>1, <2>1, <3>3 DEF Guarded
  <2>4. CASE queue[1].id = r
    <3>1. 1 \in Copies(r)
        BY <1>4, <2>4 DEF Copies
    <3>2. Copies(r)' = {} /\ Workers(r) = {}
        BY <2>1, <2>2, <3>1 DEF Single
    <3>3. Workers(r)' \subseteq {w}
        BY <1>5, <3>2 DEF Workers
    <3>4. Single(r)' /\ Flying(r)
        BY <3>1, <3>2, <3>3 DEF Single, Flying
    <3> QED
        BY <1>1, <2>1, <3>4 DEF Guarded
  <2> QED
      BY <2>3, <2>4
<1> QED
    BY <1>1, <1>3, <1>6 DEF IInv

LEMMA FinishStep ==
    ASSUME Shape, IInv, NEW w \in Threads, Finish(w) \/ FinishFails(w)
    PROVE  IInv'
<1> DEFINE q == thread[w].id
<1>1. /\ thread[w] # NoItem /\ thread' = [thread EXCEPT ![w] = NoItem]
      /\ UNCHANGED <<collector, targets, queue, cancelled, redone>>
    BY DEF Finish, FinishFails, pastVars
<1>2. up' = up
    BY DEF Finish, FinishFails
<1>3. q \in Requests
    BY <1>1 DEF Shape, Item
<1>4. \/ UNCHANGED <<status, lock, aged>>
      \/ /\ \E s \in {"in progress", "completed"} : status' = [status EXCEPT ![q] = s]
         /\ lock' = [lock EXCEPT ![q] = "none"] /\ aged' = aged \ {q}
  <2>1. PICK result \in {"final", "error", "delayed"} :
            Outcome(thread[w], result) \/ UNCHANGED rowVars
      BY DEF Finish, FinishFails
  <2>2. After(result, thread[w].retry + 1) \in {"in progress", "completed"}
      BY DEF After
  <2> QED
      BY <2>1, <2>2 DEF Outcome, rowVars
<1>5. w \in Workers(q)
    BY <1>1 DEF Workers
<1> HIDE DEF q
<1>6. Collecting'
    BY <1>1, <1>2, <1>3, <1>4 DEF IInv, Collecting, Shape
<1>7. ASSUME NEW r \in Requests \ redone
      PROVE  Single(r)' /\ Guarded(r)'
  <2>1. Single(r) /\ Guarded(r)
      BY DEF IInv
  <2>2. Copies(r)' = Copies(r) /\ Workers(r)' \subseteq Workers(r) \ {w}
      BY <1>1 DEF Copies, Workers, Shape
  <2>3. Single(r)' /\ (Flying(r)' => Flying(r))
      BY <2>1, <2>2, KeepsPlace
  <2>4. CASE r = q
    <3>1. Copies(r)' = {} /\ Workers(r)' = {}
        BY <1>5, <2>1, <2>2, <2>4 DEF Single
    <3>2. ~Flying(r)' /\ Flying(r)
        BY <1>5, <2>4, <3>1 DEF Flying
    <3> QED
        BY <1>1, <1>3, <1>4, <2>1, <2>3, <2>4, <3>2 DEF Guarded, Shape
  <2>5. CASE r # q
      BY <1>1, <1>3, <1>4, <2>1, <2>3, <2>5 DEF Guarded, Shape
  <2> QED
      BY <2>4, <2>5
<1> QED
    BY <1>1, <1>6, <1>7 DEF IInv

LEMMA DisturbStep ==
    ASSUME Shape, IInv, NEW q \in Requests, Disturb(q)
    PROVE  IInv'
<1>1. UNCHANGED <<collector, targets, queue, thread>> /\ redone \subseteq redone' /\ cancelled \subseteq cancelled'
    BY DEF Disturb, Queue, ReadToCancel, Cancel, Retry, Delete, Age, Expire, LoseAlert,
           memVars, pastVars
<1>2. up' = up
    BY DEF Disturb, Queue, ReadToCancel, Cancel, Retry, Delete, Age, Expire, LoseAlert
<1>3. /\ lock' = lock \/ lock' = [lock EXCEPT ![q] = "none"]
      /\ \A r \in Requests : r # q => status'[r] = status[r] /\ (r \in aged' <=> r \in aged)
    BY DEF Disturb, Queue, ReadToCancel, Cancel, Retry, Delete, Age, Expire, LoseAlert,
           rowVars, Shape
<1>4. q \in redone' \/ Guarded(q) => q \in redone' \/
          \/ status'[q] = status[q] /\ lock' = lock /\ aged' = aged
          \/ status[q] = "absent" /\ status'[q] = "new" /\ lock' = lock /\ aged' = aged
          \/ q \in cancelled' /\ lock' = lock /\ aged' = aged
             /\ (status'[q] = "deleted" <=> status[q] = "deleted")
          \/ status'[q] = "deleted" /\ lock'[q] = "none" /\ q \notin aged'
          \/ ~Flying(q) /\ lock[q] # "ours" /\ lock' = lock /\ status'[q] = status[q]
  <2>1. CASE Queue(q) \/ ReadToCancel(q) \/ Expire(q) \/ LoseAlert(q)
      BY <2>1 DEF Queue, ReadToCancel, Expire, LoseAlert, rowVars, Shape
  <2>2. CASE Cancel(q)
      BY <2>2 DEF Cancel, Row, Shape
  <2>3. CASE Retry(q)
      BY <2>3 DEF Retry
  <2>4. CASE Delete(q)
      BY <2>4 DEF Delete, Shape
  <2>5. CASE Age(q)
    <3>1. lock' = lock /\ status' = status
        BY <2>5 DEF Age
    <3>2. CASE InFlight(q)
        BY <2>5, <3>2 DEF Age
    <3>3. CASE ~InFlight(q)
      <4>1. lock[q] = "ours" => up
          BY DEF IInv, Collecting
      <4>2. ~Flying(q) /\ lock[q] # "ours"
          BY <3>3, <4>1 DEF InFlight, Flying
      <4> QED
          BY <3>1, <4>2
    <3> QED
        BY <3>2, <3>3
  <2> QED
      BY <2>1, <2>2, <2>3, <2>4, <2>5 DEF Disturb
<1>5. Collecting'
    BY <1>1, <1>2, <1>3 DEF IInv, Collecting, Shape
<1>6. ASSUME NEW r \in Requests \ redone'
      PROVE  Single(r)' /\ Guarded(r)'
  <2>1. Single(r) /\ Guarded(r)
      BY <1>1 DEF IInv
  <2>2. Single(r)' /\ (Flying(r)' <=> Flying(r))
      BY <1>1, <2>1 DEF Single, Flying, Copies, Workers
  <2>3. CASE r = q
      BY <1>1, <1>4, <2>1, <2>2, <2>3 DEF Guarded, Shape
  <2>4. CASE r # q
      BY <1>1, <1>3, <2>1, <2>2, <2>4 DEF Guarded, Shape
  <2> QED
      BY <2>3, <2>4
<1> QED
    BY <1>1, <1>5, <1>6 DEF IInv

LEMMA ServiceStep ==
    ASSUME Shape, IInv, Crash \/ Restart
    PROVE  IInv'
<1>1. CASE Crash
  <2>1. /\ collector' = "idle" /\ targets' = {} /\ queue' = <<>>
        /\ thread' = [w \in Threads |-> NoItem]
        /\ lock' = [r \in Requests |-> IF lock[r] = "ours" THEN "older" ELSE lock[r]]
        /\ UNCHANGED <<status, aged, cancelled, redone>>
      BY <1>1 DEF Crash, pastVars
  <2>2. Collecting'
      BY <2>1 DEF Collecting, Shape
  <2>3. ASSUME NEW r \in Requests \ redone
        PROVE  Single(r)' /\ Guarded(r)'
    <3>1. Copies(r)' = {} /\ Workers(r)' = {}
        BY <2>1 DEF Copies, Workers
    <3>2. Single(r)' /\ ~Flying(r)'
        BY <3>1 DEF Single, Flying
    <3> QED
        BY <2>1, <3>2 DEF Guarded, Shape
  <2> QED
      BY <2>1, <2>2, <2>3 DEF IInv
<1>2. CASE Restart
  <2>1. up' /\ UNCHANGED <<status, lock, aged, collector, targets, queue, thread, cancelled, redone>>
      BY <1>2 DEF Restart, rowVars, memVars, pastVars
  <2>2. Collecting'
      BY <2>1 DEF IInv, Collecting
  <2>3. ASSUME NEW r \in Requests \ redone
        PROVE  Single(r)' /\ Guarded(r)'
      BY <2>1 DEF IInv, Single, Guarded, Flying, Copies, Workers
  <2> QED
      BY <2>1, <2>2, <2>3 DEF IInv
<1> QED
    BY <1>1, <1>2

-----------------------------------------------------------------------------
LEMMA InitInv == Init => Shape /\ IInv
<1> SUFFICES ASSUME Init
             PROVE  Shape /\ IInv
    OBVIOUS
<1>1. Shape
    BY TypeInit, TypeParts
<1>2. Collecting
    BY DEF Init, Collecting
<1>3. ASSUME NEW r \in Requests
      PROVE  Single(r) /\ Guarded(r)
  <2>1. Copies(r) = {} /\ Workers(r) = {}
      BY DEF Init, Copies, Workers
  <2>2. Single(r) /\ ~Flying(r)
      BY <2>1 DEF Single, Flying
  <2>3. r \notin targets /\ lock[r] = "none"
      BY DEF Init
  <2> QED
      BY <2>2, <2>3 DEF Guarded
<1> QED
    BY <1>1, <1>2, <1>3 DEF IInv

LEMMA NextInv == Shape /\ IInv /\ [Next]_vars => Shape' /\ IInv'
<1> SUFFICES ASSUME Shape, IInv, [Next]_vars
             PROVE  IInv'
    BY ShapeNext
<1>1. CASE UNCHANGED vars
  <2>1. up' = up
      BY <1>1 DEF vars
  <2>2. UNCHANGED <<status, lock, aged, collector, targets, queue, thread, cancelled, redone>>
      BY <1>1 DEF vars, rowVars, memVars, pastVars
  <2>3. Collecting'
      BY <2>1, <2>2 DEF IInv, Collecting
  <2>4. ASSUME NEW r \in Requests \ redone
        PROVE  Single(r)' /\ Guarded(r)'
      BY <2>2 DEF IInv, Single, Guarded, Flying, Copies, Workers
  <2> QED
      BY <2>2, <2>3, <2>4 DEF IInv
<1> QED
    BY <1>1, SelectStep, LockStep, FetchStep, TakeStep, FinishStep, DisturbStep, ServiceStep
    DEF Next, Collect, Work, Disturb

\* The types of the rows, of what the service has in memory, and of the ledger.
THEOREM TypeCorrect == Spec => []TypeOK
<1>1. Init => Shape /\ Ledger /\ up \in BOOLEAN
    BY TypeInit, TypeParts
<1>2. Shape /\ Ledger /\ up \in BOOLEAN /\ [Next]_vars => (Shape /\ Ledger /\ up \in BOOLEAN)'
    BY ShapeNext, LedgerNext
<1>3. Shape /\ Ledger /\ up \in BOOLEAN => TypeOK
    BY TypeParts
<1> QED
    BY <1>1, <1>2, <1>3, PTL DEF Spec

\* No request is attempted by two threads at once, nor waits on the queue twice,
\* whatever crashes and however often the collector looks, as long as no lock
\* times out under an attempt and nobody puts the request back by hand.
THEOREM OneAttemptHolds == Spec => []OneAttempt
<1>1. IInv => OneAttempt
  <2> SUFFICES ASSUME IInv, NEW r \in Requests \ redone
               PROVE  Cardinality(Copies(r)) + Cardinality(Workers(r)) <= 1
      BY DEF OneAttempt
  <2>1. Single(r)
      BY DEF IInv
  <2>2. Copies(r) = {} \/ \E i : Copies(r) = {i}
      BY <2>1 DEF Single
  <2>3. Workers(r) = {} \/ \E w : Workers(r) = {w}
      BY <2>1 DEF Single
  <2>4. Cardinality({}) = 0 /\ \A x : Cardinality({x}) = 1
      BY FS_EmptySet, FS_Singleton
  <2>5. /\ Copies(r) = {} \/ Workers(r) = {}
        /\ Cardinality(Copies(r)) \in {0, 1} /\ Cardinality(Workers(r)) \in {0, 1}
      BY <2>1, <2>2, <2>3, <2>4 DEF Single
  <2> QED
      BY <2>4, <2>5
<1> QED
    BY <1>1, InitInv, NextInv, PTL DEF Spec

\* A completed request is not taken up again, unless somebody cancelled it or put it back:
\* an outcome is written only for a request in flight, and none of these is completed.
THEOREM CompletedStaysHolds == Spec => CompletedStays
<1>1. ASSUME Shape, IInv, Next, NEW r \in Requests \ (cancelled \cup redone)', status[r] = "completed"
      PROVE  status'[r] \in {"completed", "deleted"}
  <2>1. CASE Select \/ Fetch \/ (\E w \in Threads : Take(w)) \/ Crash \/ Restart
      BY <1>1, <2>1 DEF Select, Fetch, Take, Crash, Restart, rowVars
  <2>2. CASE Lock
    <3>1. r \notin redone /\ r \notin cancelled /\ status' =
              [q \in Requests |-> IF q \in targets /\ Row(q) THEN "in progress" ELSE status[q]]
        BY <2>2 DEF Lock, pastVars
    <3>2. r \notin targets
        BY <1>1, <3>1 DEF IInv, Guarded
    <3> QED
        BY <1>1, <3>1, <3>2
  <2>3. ASSUME NEW w \in Threads, Finish(w) \/ FinishFails(w)
        PROVE  status'[r] \in {"completed", "deleted"}
    <3>1. r \notin redone /\ r \notin cancelled /\ thread[w] # NoItem
        BY <2>3 DEF Finish, FinishFails, pastVars
    <3>2. ~Flying(r)
        BY <1>1, <3>1 DEF IInv, Guarded
    <3>3. thread[w].id # r
        BY <3>1, <3>2 DEF Flying, Workers
    <3>4. status' = status \/ \E s : status' = [status EXCEPT ![thread[w].id] = s]
        BY <2>3 DEF Finish, FinishFails, Outcome, rowVars
    <3> QED
        BY <1>1, <3>3, <3>4 DEF Shape
  <2>4. ASSUME NEW q \in Requests, Disturb(q)
        PROVE  status'[r] \in {"completed", "deleted"}
    <3>1. q = r \/ status'[r] = status[r]
        BY <1>1, <2>4 DEF Disturb, Queue, ReadToCancel, Cancel, Retry, Delete, Age, Expire, LoseAlert,
                    rowVars, Shape
    <3>2. CASE q = r
        BY <1>1, <2>4, <3>2 DEF Disturb, Queue, ReadToCancel, Cancel, Retry, Delete, Age, Expire,
                               LoseAlert, rowVars, Shape
    <3> QED
        BY <1>1, <3>1, <3>2
  <2> QED
      BY <1>1, <2>1, <2>2, <2>3, <2>4 DEF Next, Collect, Work, Disturb
<1>2. Shape /\ IInv /\ [Next]_vars =>
          [\A r \in Requests \ (cancelled \cup redone)' :
              status[r] = "completed" => status'[r] \in {"completed", "deleted"}]_vars
    BY <1>1
<1> QED
    BY <1>2, InitInv, NextInv, PTL DEF Spec, CompletedStays
=============================================================================
