--------------------------- MODULE NodeDrainProofs ---------------------------
(***************************************************************************)
(* Proofs about draining, for any nodes, roots and collectors: whatever    *)
(* moves a root, its work is where its files are, delayed analysis that is *)
(* not due is never lost, and a submission is analysed before its workload *)
(* row goes, unless a pull of the root failed behind its commit.           *)
(***************************************************************************)
EXTENDS NodeDrain, TLAPS

Moving(n) == pass[n].step \in {"locked", "uploaded", "repointed"}
Busy(n) == worker[n].step \in {"pulling", "downloaded", "moved", "pulled", "working"}
\* It may give up the pull with the root where it was.
Fetching(n) == worker[n].step \in {"pulling", "downloaded"}

\* A dead engine holds nothing; a pass and a worker own the root they are at,
\* so no two are ever at the same one.
Owned ==
    \A n \in Nodes :
        /\ engine[n] = "down" => pass[n].step = "none" /\ worker[n] = Idle
        /\ Moving(n) => /\ pass[n].root \in Old /\ pass[n].to \in Nodes \ {n}
                        /\ lock[pass[n].root] = <<n, "drain">>
        /\ worker[n].step # "idle" => /\ worker[n].root \in Roots /\ worker[n].from \in Nodes
        /\ Busy(n) => lock[worker[n].root] = <<n, "worker">>

\* Where the rows and the directories of a root are; a submission has no
\* delayed analysis.  A root whose pull failed behind its commit may have its
\* rows elsewhere than its files.
PlacedAt(r) ==
    /\ delayed[r] # None \/ work[r] # None => location[r] # None
    /\ r \notin torn =>
          /\ delayed[r] # None => delayed[r] \in copies[r]
          /\ location[r] # None => location[r] \in copies[r]
    /\ stage[r].at = "accepted" => stage[r].node \in Nodes
    /\ r \in Fresh =>
          /\ delayed[r] = None
          /\ work[r] # None => stage[r].at = "in"
          /\ r \notin torn /\ work[r] # None => work[r] \in copies[r]
Placed == \A r \in Roots : PlacedAt(r)

\* What a transfer knows of its root: once the target has the files nothing but
\* the row is left on the sender, and then not even that.
Transferring ==
    \A n \in Nodes :
        /\ \A r \in pass[n].todo : r \in Old => location[r] # None
        /\ Moving(n) => location[pass[n].root] # None
        /\ pass[n].step \in {"uploaded", "repointed"} =>
              location[pass[n].root] = pass[n].to /\ pass[n].to \in copies[pass[n].root]
        /\ pass[n].step = "repointed" => delayed[pass[n].root] # n

\* What a worker knows of a root it pulls: until the commit nothing points at
\* its own node, and after it nothing at the node the root came from.
Fetched(n) ==
    LET r == worker[n].root
        from == worker[n].from
    IN  /\ worker[n].step \in {"pulling", "downloaded", "moved", "pulled"} =>
              from # n /\ (worker[n].step = "pulling" <=> n \notin copies[r])
        /\ Fetching(n) /\ r \notin torn =>
              /\ delayed[r] # n /\ location[r] # n
              /\ r \in Fresh => work[r] # n
        /\ worker[n].step \in {"moved", "pulled"} =>
              /\ location[r] = n /\ delayed[r] # from
              /\ r \in Fresh => work[r] # from

\* What a worker knows of its item: delayed analysis runs where it was due, and
\* a submission's files stay for as long as its workload row, unless its lock
\* is held by a pull that moved the row.
Informed(n) ==
    LET r == worker[n].root
        from == worker[n].from
    IN  /\ location[r] # None
        /\ worker[n].kind = "delayed" => r \in Due /\ from = n
        /\ worker[n].kind \in {"delayed", "work"}
        /\ Fetched(n)
        /\ r \in Fresh => stage[r].at = "in"
        /\ r \in Fresh \ torn =>
              /\ from = n /\ worker[n].step = "listed" =>
                    \/ n \in copies[r] \/ work[r] = None
                    \/ lock[r] # None /\ \A m \in Nodes : Fetching(m) => worker[m].root # r
              /\ worker[n].step = "working" => n \in copies[r]

Analysing == \A n \in Nodes : worker[n].step # "idle" => Informed(n)

IInv == Owned /\ Placed /\ Transferring /\ Analysing /\ FarKept /\ SubmissionKept

\* Actions that move nothing: neither the engines nor what they hold, list or transfer.
Quiet(n) ==
    \/ Drain(n) \/ Resume(n) \/ Lapse(n) \/ Beat(n) \/ Reconcile(n)
    \/ Advance(n) \/ Revert(n) \/ Undrain(n)
QuietCollector(m) ==
    See(m) \/ Report(m) \/ Leave(m) \/ Forget(m) \/ Return(m)

LEMMA TypeQuiet ==
    ASSUME TypeOK,
           \/ \E n \in Nodes : Quiet(n)
           \/ \E m \in Collecting : QuietCollector(m)
    PROVE  TypeOK' /\ UNCHANGED <<engine, pass, worker, lock, rows, disk, stage, ran>>
<1>1. ASSUME NEW n \in Nodes, Quiet(n)
      PROVE  TypeOK' /\ UNCHANGED <<engine, pass, worker, lock, rows, disk, stage, ran>>
    <2>1. /\ UNCHANGED <<engine, pass, worker, lock, rows, disk, stage, ran, collector>>
          /\ status' = status \/ \E s \in Statuses : status' = [status EXCEPT ![n] = s]
          /\ beat' = beat \/ \E b \in BOOLEAN : beat' = [beat EXCEPT ![n] = b]
        BY <1>1 DEF Quiet, Drain, Resume, Lapse, Beat, Reconcile, Advance, Revert, Undrain, Set,
                    Statuses, Draining, Flushing
    <2> QED
        BY <2>1 DEF TypeOK, rows, disk
<1>2. ASSUME NEW m \in Collecting, QuietCollector(m)
      PROVE  TypeOK' /\ UNCHANGED <<engine, pass, worker, lock, rows, disk, stage, ran>>
    <2>1. UNCHANGED <<status, beat, engine, pass, worker, lock, rows, disk, stage, ran>>
        BY <1>2 DEF QuietCollector, See, Report, Leave, Forget, Return
    <2>2. collector' \in [Collecting -> Collectors]
      <3>0. collector \in [Collecting -> Collectors] /\ status \in [Nodes -> Statuses]
          BY DEF TypeOK
      <3> USE <3>0, DrainAssumption DEF Collectors
      <3>1. CASE See(m)
        <4>1. status[m] \in Statuses /\ collector' = [collector EXCEPT ![m].sees = status[m]]
            BY <3>1 DEF See
        <4> QED
            BY <4>1
      <3>2. CASE Report(m)
        <4>1. PICK s \in {"running", "draining"} \cup Finished :
                  collector' = [collector EXCEPT ![m].says = s, ![m].fresh = TRUE]
            BY <3>2 DEF Report, Saying, Finished
        <4> QED
            BY <4>1
      <3>3. CASE Leave(m)
        <4>1. PICK c \in Collectors : collector' = [collector EXCEPT ![m] = c]
          <5>1. CASE collector' = [collector EXCEPT ![m].runs = FALSE, ![m].says = "stopped",
                                                    ![m].fresh = TRUE]
            <6> DEFINE c == [collector[m] EXCEPT !.runs = FALSE]
                       d == [c EXCEPT !.says = "stopped"]
                       e == [d EXCEPT !.fresh = TRUE]
            <6>1. c \in Collectors
                OBVIOUS
            <6>2. d \in Collectors
              <7> HIDE DEF c
              <7> QED
                BY <6>1 DEF Finished
            <6>3. e \in Collectors
              <7> HIDE DEF d
              <7> QED
                BY <6>2
            <6>4. collector' = [collector EXCEPT ![m] = e]
                BY <5>1, Zenon
            <6> QED
                BY <6>3, <6>4
          <5>2. CASE collector' = [collector EXCEPT ![m].runs = FALSE]
            <6> DEFINE c == [collector[m] EXCEPT !.runs = FALSE]
            <6>1. c \in Collectors
                OBVIOUS
            <6> QED
                BY <5>2, <6>1
          <5> QED
            BY <3>3, <5>1, <5>2 DEF Leave
        <4> QED
            BY <4>1
      <3>4. CASE Forget(m)
            BY <3>4 DEF Forget
      <3>5. CASE Return(m)
        <4>1. status[m] \in Statuses
              /\ collector' = [collector EXCEPT ![m].runs = TRUE, ![m].sees = status[m]]
            BY <3>5 DEF Return
        <4> QED
            BY <4>1
      <3> QED
        BY <1>2, <3>1, <3>2, <3>3, <3>4, <3>5 DEF QuietCollector
    <2> QED
        BY <2>1, <2>2 DEF TypeOK, rows, disk
<1> QED
    BY <1>1, <1>2

LEMMA TypeEngine ==
    ASSUME TypeOK, Owned, NEW n \in Nodes, Start(n) \/ Run(n) \/ Stop(n) \/ Crash(n)
    PROVE  TypeOK'
<1> USE DrainAssumption DEF TypeOK, Set, rows, disk, Statuses, Fault
<1>1. CASE Start(n)
    BY <1>1 DEF Start
<1>2. CASE Run(n) \/ Stop(n)
    BY <1>2 DEF Run, Stop
<1>3. CASE Crash(n)
  <2>1. shells' \in [Roots -> SUBSET Nodes]
      BY <1>3 DEF Crash, Owned
  <2>2. NoPass \in Passes /\ Idle \in Workers
      BY DEF NoPass, Idle, Passes, Workers
  <2> QED
      BY <1>3, <2>1, <2>2 DEF Crash
<1> QED
    BY <1>1, <1>2, <1>3

LEMMA TypePass ==
    ASSUME TypeOK, Owned, NEW n \in Nodes,
           \/ Begin(n) \/ (\E r \in Old : Handle(n, r)) \/ Upload(n) \/ Repoint(n) \/ Remove(n)
           \/ Count(n) \/ Mark(n)
    PROVE  TypeOK'
<1> USE DrainAssumption DEF TypeOK, rows, disk, Unlock, Step
<1>1. pass[n] \in Passes
    OBVIOUS
<1>2. \A r \in Roots : r \in pass[n].todo => Skipped(n, r) \in Passes
    BY <1>1 DEF Passes, Skipped
<1>3. CASE Begin(n)
    BY <1>3 DEF Begin, NoPass, Passes, Candidates
<1>4. ASSUME NEW r \in Old, Handle(n, r)
      PROVE  TypeOK'
  <2>1. PICK p \in Passes : pass' = [pass EXCEPT ![n] = p]
    <3>1. CASE Step(n, Skipped(n, r)) /\ r \in pass[n].todo
        BY <1>2, <3>1 DEF Roots
    <3>2. CASE Step(n, [pass[n] EXCEPT !.todo = @ \ {r}, !.stuck = @ \cup {r}])
      <4>1. [pass[n] EXCEPT !.todo = @ \ {r}] \in Passes
          BY <1>1 DEF Passes
      <4>2. [pass[n] EXCEPT !.stuck = @ \cup {r}] \in Passes
          BY <1>1 DEF Passes, Roots
      <4>3. [pass[n] EXCEPT !.todo = @ \ {r}, !.stuck = @ \cup {r}] \in Passes
          BY <1>1, <4>1, <4>2 DEF Passes
      <4> QED
          BY <3>2, <4>3
    <3>3. ASSUME NEW t \in Targets(n, r),
                 Step(n, [pass[n] EXCEPT !.step = "locked", !.root = r, !.to = t])
          PROVE  \E p \in Passes : pass' = [pass EXCEPT ![n] = p]
        BY <1>1, <3>3 DEF Passes, Targets, Roots
    <3> QED
        BY <1>4, <3>1, <3>2, <3>3 DEF Handle
  <2>2. lock' = lock \/ lock' = [lock EXCEPT ![r] = <<n, "drain">>]
      BY <1>4 DEF Handle
  <2>3. UNCHANGED <<status, engine, beat, worker, rows, disk, collector, stage, ran>>
      BY <1>4 DEF Handle
  <2> QED
      BY <2>1, <2>2, <2>3 DEF Roots
<1>5. CASE Upload(n)
  <2>0. pass[n].root \in Roots /\ pass[n].to \in Nodes
      BY <1>5 DEF Upload, Owned, Moving, Roots
  <2>1. PICK p \in Passes : pass' = [pass EXCEPT ![n] = p]
      BY <1>1, <1>5 DEF Upload, Passes, Skipped
  <2>2. lock' = lock \/ \E r \in Roots : lock' = [lock EXCEPT ![r] = None]
      BY <2>0, <1>5 DEF Upload
  <2>3. /\ copies' \in [Roots -> SUBSET Nodes] /\ location' \in [Roots -> Nodes \cup {None}]
        /\ shells' \in [Roots -> SUBSET Nodes] /\ torn' = torn
    <3> DEFINE q == pass[n].root
               t == pass[n].to
    <3>1. Received(q, t) \/ UNCHANGED disk
        BY <1>5 DEF Upload
    <3> HIDE DEF q, t
    <3>2. q \in Roots /\ t \in Nodes
        BY <2>0 DEF q, t
    <3> QED
        BY <3>1, <3>2 DEF Received
  <2>4. UNCHANGED <<status, engine, beat, worker, rows, collector, stage, ran>>
      BY <1>5 DEF Upload
  <2> QED
      BY <2>1, <2>2, <2>3, <2>4
<1>6. CASE Repoint(n) \/ Remove(n)
  <2>0. pass[n].root \in Roots /\ pass[n].to \in Nodes
      BY <1>6 DEF Repoint, Remove, Owned, Moving, Roots
  <2>1. PICK p \in Passes : pass' = [pass EXCEPT ![n] = p]
      BY <1>1, <1>6 DEF Repoint, Remove, Passes, Skipped
  <2> DEFINE r == pass[n].root
             t == pass[n].to
  <2>2. /\ lock' = lock \/ lock' = [lock EXCEPT ![r] = None]
        /\ delayed' = delayed \/ delayed' = [delayed EXCEPT ![r] = t]
        /\ copies' = copies \/ copies' = [copies EXCEPT ![r] = @ \ {n}]
        /\ UNCHANGED <<status, engine, beat, worker, work, location, shells, torn, collector, stage, ran>>
      BY <1>6 DEF Repoint, Remove
  <2>3. r \in Roots /\ t \in Nodes
      BY <2>0
  <2> HIDE DEF r, t
  <2>4. /\ lock' \in [Roots -> (Nodes \X {"drain", "worker"}) \cup {None}]
        /\ delayed' \in [Roots -> Nodes \cup {None}] /\ copies' \in [Roots -> SUBSET Nodes]
      BY <2>2, <2>3
  <2> QED
      BY <2>1, <2>2, <2>4
<1>7. CASE Count(n) \/ Mark(n)
  <2>1. PICK p \in Passes : pass' = [pass EXCEPT ![n] = p]
      BY <1>1, <1>7 DEF Count, Mark, Passes, NoPass
  <2>2. status' = status \/ status' = [status EXCEPT ![n] = "drained"]
      BY <1>7 DEF Count, Mark, Set
  <2>3. UNCHANGED <<engine, beat, worker, lock, rows, disk, collector, stage, ran>>
      BY <1>7 DEF Count, Mark
  <2> QED
      BY <2>1, <2>2, <2>3 DEF Statuses, Draining
<1> QED
    BY <1>3, <1>4, <1>5, <1>6, <1>7

LEMMA TypeWorker ==
    ASSUME TypeOK, Owned, Analysing, NEW n \in Nodes,
           \/ (\E r \in Roots : List(n, r)) \/ Take(n)
           \/ Download(n) \/ Commit(n) \/ Relocate(n) \/ Clear(n) \/ Finish(n)
    PROVE  TypeOK'
<1> USE DrainAssumption DEF TypeOK, rows, disk, Unlock
<1>1. worker[n] \in Workers
    OBVIOUS
<1>2. worker[n].step # "idle" => worker[n].root \in Roots /\ worker[n].from \in Nodes
    BY DEF Owned
<1>3. PICK w \in Workers : worker' = [worker EXCEPT ![n] = w]
    BY <1>1 DEF List, Listed, Take, Download, Commit, Relocate, Dropped, Clear, Finish, Workers, Idle
<1>4. CASE \E r \in Roots : List(n, r)
    BY <1>3, <1>4 DEF List
<1>5. CASE Take(n)
  <2> DEFINE r == worker[n].root
  <2>1. r \in Roots
      BY <1>2, <1>5 DEF Take
  <2>2. lock' = lock \/ lock' = [lock EXCEPT ![r] = <<n, "worker">>]
      BY <1>5 DEF Take
  <2>3. UNCHANGED <<status, engine, beat, pass, rows, disk, collector, stage, ran>>
      BY <1>5 DEF Take
  <2> HIDE DEF r
  <2> QED
      BY <1>3, <2>1, <2>2, <2>3
<1>6. CASE Download(n) \/ Commit(n) \/ Relocate(n)
  <2> DEFINE r == worker[n].root
  <2>1. r \in Roots
      BY <1>2, <1>6 DEF Download, Commit, Relocate
  <2>2. lock' = lock \/ lock' = [lock EXCEPT ![r] = None]
      BY <1>6 DEF Download, Commit, Relocate, Dropped
  <2>3. /\ UNCHANGED <<rows, location>> \/ Pulled(n, r)
        /\ torn' \in {torn, torn \cup {r}}
        /\ \/ copies' = copies \/ copies' = [copies EXCEPT ![r] = @ \cup {n}]
           \/ copies' = [copies EXCEPT ![r] = @ \ {n}]
      BY <1>6 DEF Download, Commit, Relocate, Dropped
  <2>4. UNCHANGED <<status, engine, beat, pass, shells, collector, stage, ran>>
      BY <1>6 DEF Download, Commit, Relocate
  <2> HIDE DEF r
  <2>5. /\ delayed' \in [Roots -> Nodes \cup {None}] /\ work' \in [Roots -> Nodes \cup {None}]
        /\ location' \in [Roots -> Nodes \cup {None}]
    <3>1. CASE UNCHANGED <<rows, location>>
        BY <3>1
    <3>2. CASE Pulled(n, r)
        BY <2>1, <3>2 DEF Pulled
    <3> QED
        BY <2>3, <3>1, <3>2
  <2>6. copies' \in [Roots -> SUBSET Nodes] /\ torn' \subseteq Roots
      BY <2>1, <2>3
  <2>7. lock' \in [Roots -> (Nodes \X {"drain", "worker"}) \cup {None}]
      BY <2>1, <2>2
  <2> QED
      BY <1>3, <2>4, <2>5, <2>6, <2>7
<1>7. CASE Clear(n)
    BY <1>2, <1>3, <1>7 DEF Clear
<1>8. CASE Finish(n)
  <2> DEFINE r == worker[n].root
             kind == worker[n].kind
  <2>1. r \in Roots /\ kind \in {"delayed", "work"}
      BY <1>2, <1>8 DEF Finish, Analysing, Informed
  <2>2. lock' = lock \/ lock' = [lock EXCEPT ![r] = None]
      BY <1>8 DEF Finish
  <2>3. Cleared(r, kind) /\ (ran' = ran \/ ran' = ran \cup {<<r, kind>>})
      BY <1>8 DEF Finish
  <2>4. UNCHANGED <<status, engine, beat, pass, disk, collector, stage>>
      BY <1>8 DEF Finish
  <2> HIDE DEF r, kind
  <2>5. delayed' \in [Roots -> Nodes \cup {None}] /\ work' \in [Roots -> Nodes \cup {None}]
      BY <2>1, <2>3 DEF Cleared
  <2>6. lock' \in [Roots -> (Nodes \X {"drain", "worker"}) \cup {None}]
      BY <2>1, <2>2
  <2> QED
      BY <1>3, <2>1, <2>3, <2>4, <2>5, <2>6
<1> QED
    BY <1>4, <1>5, <1>6, <1>7, <1>8

\* The submission of a root, up to its acceptance.
Submitting ==
    \E r \in Fresh :
        \/ \E m \in Collecting : Collect(m, r) \/ \E t \in Nodes : Deliver(m, r, t)
        \/ \E t \in Nodes : Submit(r, t)

LEMMA TypeRoot ==
    ASSUME TypeOK, Placed,
           \/ Submitting
           \/ \E r \in Fresh : Arrive(r)
           \/ \E r \in Old : Request(r)
           \/ \E r \in Roots : Expire(r)
    PROVE  TypeOK'
<1> USE DrainAssumption DEF TypeOK, rows, disk
<1>1. CASE Submitting
  <2>1. PICK r \in Fresh, s \in Stages : stage' = [stage EXCEPT ![r] = s]
      BY <1>1 DEF Submitting, Collect, Deliver, Submit, Accepted, Stages
  <2>2. UNCHANGED <<status, engine, beat, pass, worker, lock, rows, disk, collector, ran>>
      BY <1>1 DEF Submitting, Collect, Deliver, Submit
  <2> QED
      BY <2>1, <2>2
<1>2. ASSUME NEW r \in Fresh, Arrive(r)
      PROVE  TypeOK'
  <2>1. r \in Roots /\ stage[r].node \in Nodes
      BY <1>2 DEF Arrive, Placed, PlacedAt, Roots
  <2>2. [Outside EXCEPT !.at = "in"] \in Stages
      BY DEF Outside, Stages
  <2> QED
      BY <1>2, <2>1, <2>2 DEF Arrive, Received
<1>3. ASSUME NEW r \in Old, Request(r)
      PROVE  TypeOK'
    BY <1>3 DEF Request, Roots
<1>4. ASSUME NEW r \in Roots, Expire(r)
      PROVE  TypeOK'
    BY <1>4 DEF Expire
<1> QED
    BY <1>1, <1>2, <1>3, <1>4

-----------------------------------------------------------------------------
\* The invariant, action by action.

LEMMA NothingMoved ==
    ASSUME IInv, UNCHANGED <<engine, pass, worker, lock, rows, disk, stage, ran>>
    PROVE  IInv'
BY DEF IInv, Owned, Placed, PlacedAt, Transferring, Analysing, Informed, Fetched, Fetching, FarKept, SubmissionKept, Moving, Busy, rows, disk

LEMMA Submitted ==
    ASSUME TypeOK, IInv, Submitting
    PROVE  IInv'
<1>1. PICK r \in Fresh : \E s \in Stages :
          /\ stage' = [stage EXCEPT ![r] = s] /\ s.at \in {"backlog", "accepted"}
          /\ s.at = "accepted" => s.node \in Nodes
          /\ stage[r].at \in {"outside", "backlog"}
    BY DrainAssumption DEF Submitting, Collect, Deliver, Submit, Accepted, Stages
<1>2. UNCHANGED <<engine, pass, worker, lock, rows, disk, ran>>
    BY DEF Submitting, Collect, Deliver, Submit
<1>3. \A q \in Roots : stage'[q].at = "in" <=> stage[q].at = "in"
    BY <1>1 DEF TypeOK
<1>4. \A q \in Roots : stage'[q].at = "accepted" => stage'[q].node \in Nodes
    BY <1>1 DEF TypeOK, IInv, Placed, PlacedAt
<1>5. Owned' /\ Transferring' /\ FarKept'
    BY <1>2 DEF IInv, Owned, Transferring, FarKept, Moving, Busy, rows, disk
<1>6. Placed'
    BY <1>2, <1>3, <1>4 DEF IInv, Placed, PlacedAt, rows, disk
<1>7. Analysing'
    BY <1>2, <1>3 DEF IInv, Analysing, Informed, Fetched, Fetching, Owned, Busy, rows, disk
<1>8. SubmissionKept'
    BY <1>2, <1>3 DEF IInv, SubmissionKept, Roots, rows, disk
<1> QED
    BY <1>5, <1>6, <1>7, <1>8 DEF IInv

LEMMA Arrived ==
    ASSUME TypeOK, IInv, NEW r \in Fresh, Arrive(r)
    PROVE  IInv'
<1> DEFINE t == stage[r].node
<1>1. r \in Roots /\ r \notin Old /\ t \in Nodes /\ stage[r].at = "accepted"
    BY DrainAssumption DEF Arrive, IInv, Placed, PlacedAt, Roots
<1>2. /\ UNCHANGED <<engine, pass, worker, lock, delayed, torn, ran>>
      /\ copies' = [copies EXCEPT ![r] = @ \cup {t}]
      /\ location' = [location EXCEPT ![r] = t]
      /\ work' = [work EXCEPT ![r] = t]
      /\ stage' = [stage EXCEPT ![r] = [Outside EXCEPT !.at = "in"]]
    BY DEF Arrive, Received
<1>3. \A n \in Nodes : worker[n].step # "idle" => worker[n].root # r
    BY <1>1 DEF IInv, Analysing, Informed, Fetched, Fetching
<1> HIDE DEF t
<1>4. Owned'
    BY <1>2 DEF IInv, Owned, Moving, Busy
<1>5. Placed'
    BY <1>1, <1>2, DrainAssumption DEF IInv, Placed, PlacedAt, TypeOK, Outside
<1>6. Transferring'
    BY <1>1, <1>2, DrainAssumption DEF IInv, Transferring, Owned, Moving, TypeOK
<1>7. Analysing'
    BY <1>2, <1>3 DEF IInv, Analysing, Informed, Fetched, Fetching, Owned, Busy, TypeOK
<1>8. FarKept'
    BY <1>1, <1>2 DEF IInv, FarKept, TypeOK, Roots
<1>9. SubmissionKept'
    BY <1>1, <1>2, DrainAssumption DEF IInv, SubmissionKept, TypeOK, Roots
<1> QED
    BY <1>4, <1>5, <1>6, <1>7, <1>8, <1>9 DEF IInv

LEMMA Requested ==
    ASSUME TypeOK, IInv, NEW r \in Old, Request(r)
    PROVE  IInv'
<1>1. /\ UNCHANGED <<engine, pass, worker, lock, delayed, disk, stage>>
      /\ location[r] # None /\ location[r] \in Nodes /\ r \in Roots /\ r \notin Fresh
      /\ work' = [work EXCEPT ![r] = location[r]]
      /\ ran' = ran \ {<<r, "work">>}
    BY DrainAssumption DEF Request, TypeOK, Roots
<1>2. Owned' /\ Transferring' /\ FarKept'
    BY <1>1 DEF IInv, Owned, Transferring, FarKept, Moving, Busy, disk
<1>3. Placed'
    BY <1>1 DEF IInv, Placed, PlacedAt, TypeOK, disk
<1>4. Analysing'
    BY <1>1 DEF IInv, Analysing, Informed, Fetched, Fetching, Owned, Busy, TypeOK, disk
<1>5. SubmissionKept'
    BY <1>1 DEF IInv, SubmissionKept, TypeOK, Roots, disk
<1> QED
    BY <1>2, <1>3, <1>4, <1>5 DEF IInv

\* A lock goes that no living pass or worker holds, of a root nobody has listed.
LEMMA LocksGone ==
    ASSUME TypeOK, IInv, UNCHANGED <<pass, worker, rows, disk, stage, ran>>,
           NEW S \in SUBSET Roots,
           lock' = [r \in Roots |-> IF r \in S THEN None ELSE lock[r]],
           \A r \in S : NotListed(r) /\ lock[r] # None /\ engine[lock[r][1]] = "down",
           \A n \in Nodes : engine'[n] = "down" => engine[n] = "down"
    PROVE  IInv'
<1>1. \A n \in Nodes : /\ Moving(n) => pass[n].root \notin S
                       /\ worker[n].step # "idle" => worker[n].root \notin S
  <2> SUFFICES ASSUME NEW n \in Nodes
               PROVE  /\ Moving(n) => pass[n].root \notin S
                      /\ worker[n].step # "idle" => worker[n].root \notin S
      OBVIOUS
  <2>1. Moving(n) => lock[pass[n].root] = <<n, "drain">> /\ engine[n] # "down"
      BY DEF IInv, Owned, Moving
  <2>2. Busy(n) => lock[worker[n].root] = <<n, "worker">> /\ engine[n] # "down"
      BY DEF IInv, Owned, Busy, Idle
  <2>3. worker[n].step \in {"idle", "listed"} \/ Busy(n)
      BY DEF TypeOK, Workers, Busy
  <2> QED
      BY <2>1, <2>2, <2>3 DEF NotListed
<1>2. Owned'
  <2> SUFFICES ASSUME NEW n \in Nodes
               PROVE  /\ engine'[n] = "down" => pass[n].step = "none" /\ worker[n] = Idle
                      /\ Moving(n) => /\ pass[n].root \in Old /\ pass[n].to \in Nodes \ {n}
                                      /\ lock'[pass[n].root] = <<n, "drain">>
                      /\ worker[n].step # "idle" => worker[n].root \in Roots /\ worker[n].from \in Nodes
                      /\ Busy(n) => lock'[worker[n].root] = <<n, "worker">>
      BY DEF Owned, Moving, Busy
  <2> QED
      BY <1>1 DEF IInv, Owned, Moving, Busy, Roots
<1>3. Placed' /\ Transferring' /\ FarKept' /\ SubmissionKept'
    BY DEF IInv, Placed, PlacedAt, Transferring, FarKept, SubmissionKept, Moving, rows, disk
<1>4. Analysing'
    BY <1>1 DEF IInv, Analysing, Informed, Fetched, Fetching, Owned, Busy, rows, disk, TypeOK
<1> QED
    BY <1>2, <1>3, <1>4 DEF IInv

LEMMA EngineMoves ==
    ASSUME TypeOK, IInv, NEW n \in Nodes, Start(n) \/ Run(n) \/ Stop(n) \/ Crash(n)
    PROVE  IInv'
<1>1. CASE Start(n)
  <2>1. /\ UNCHANGED <<pass, worker, rows, disk, stage, ran>>
        /\ engine[n] = "down" /\ engine' = [engine EXCEPT ![n] = "starting"]
        /\ lock' = [r \in Roots |-> IF r \in LocksOf(n) THEN None ELSE lock[r]]
        /\ \A r \in LocksOf(n) : NotListed(r)
      BY <1>1 DEF Start
  <2>2. LocksOf(n) \in SUBSET Roots
        /\ \A r \in LocksOf(n) : lock[r] # None /\ engine[lock[r][1]] = "down"
      BY <2>1, DrainAssumption DEF LocksOf
  <2>3. \A m \in Nodes : engine'[m] = "down" => engine[m] = "down"
      BY <2>1 DEF TypeOK
  <2> QED
      BY <2>1, <2>2, <2>3, LocksGone
<1>2. CASE Run(n)
  <2>1. engine' = [engine EXCEPT ![n] = "up"] /\ UNCHANGED <<pass, worker, lock, rows, disk, stage, ran>>
      BY <1>2 DEF Run
  <2>2. Owned'
      BY <2>1 DEF IInv, Owned, Moving, Busy, TypeOK
  <2> QED
      BY <2>1, <2>2 DEF IInv, Placed, PlacedAt, Transferring, Analysing, Informed, Fetched, Fetching, FarKept, SubmissionKept,
                        Moving, Busy, rows, disk
<1>3. CASE Stop(n)
  <2>1. /\ engine' = [engine EXCEPT ![n] = "down"]
        /\ pass[n].step = "none" /\ worker[n] = Idle
        /\ UNCHANGED <<pass, worker, lock, rows, disk, stage, ran>>
      BY <1>3 DEF Stop
  <2>2. Owned'
      BY <2>1 DEF IInv, Owned, Moving, Busy, TypeOK
  <2> QED
      BY <2>1, <2>2 DEF IInv, Placed, PlacedAt, Transferring, Analysing, Informed, Fetched, Fetching, FarKept, SubmissionKept,
                        Moving, Busy, rows, disk
<1>4. CASE Crash(n)
  <2>1. /\ engine' = [engine EXCEPT ![n] = "down"]
        /\ pass' = [pass EXCEPT ![n] = NoPass] /\ worker' = [worker EXCEPT ![n] = Idle]
        /\ UNCHANGED <<lock, rows, copies, location, torn, stage, ran>>
      BY <1>4 DEF Crash
  <2>2. Owned'
      BY <2>1 DEF IInv, Owned, Moving, Busy, TypeOK, NoPass, Idle
  <2>3. Transferring'
      BY <2>1 DEF IInv, Transferring, Moving, TypeOK, NoPass, disk, rows
  <2>4. Analysing'
      BY <2>1 DEF IInv, Analysing, Informed, Fetched, Fetching, Busy, TypeOK, Idle, disk, rows
  <2> QED
      BY <2>1, <2>2, <2>3, <2>4 DEF IInv, Placed, PlacedAt, FarKept, SubmissionKept, rows, disk
<1> QED
    BY <1>1, <1>2, <1>3, <1>4

LEMMA Expired ==
    ASSUME TypeOK, IInv, NEW r \in Roots, Expire(r)
    PROVE  IInv'
<1>1. /\ UNCHANGED <<engine, pass, worker, rows, disk, stage, ran>>
      /\ lock[r] # None /\ engine[lock[r][1]] = "down" /\ NotListed(r)
      /\ lock' = [q \in Roots |-> IF q \in {r} THEN None ELSE lock[q]]
    BY DEF Expire, TypeOK
<1> DEFINE S == {r}
<1>2. S \in SUBSET Roots /\ \A q \in S : NotListed(q) /\ lock[q] # None /\ engine[lock[q][1]] = "down"
    BY <1>1
<1>3. lock' = [q \in Roots |-> IF q \in S THEN None ELSE lock[q]]
    BY <1>1
<1>4. \A n \in Nodes : engine'[n] = "down" => engine[n] = "down"
    BY <1>1
<1> HIDE DEF S
<1> QED
    BY <1>1, <1>2, <1>3, <1>4, LocksGone

-----------------------------------------------------------------------------
\* The transfer of delayed analysis.

LEMMA Passed ==
    ASSUME TypeOK, IInv, NEW n \in Nodes, Begin(n) \/ Count(n) \/ Mark(n)
    PROVE  IInv'
<1>1. PICK p \in Passes :
          /\ pass' = [pass EXCEPT ![n] = p]
          /\ engine[n] = "down" => p.step = "none"
          /\ p.step \in {"none", "looping", "counting"}
          /\ \A r \in p.todo : location[r] # None
  <2>1. CASE Begin(n)
    <3> DEFINE p == [NoPass EXCEPT !.step = "looping", !.todo = Candidates(n)]
    <3>1. p \in Passes /\ p.step = "looping" /\ p.todo = Candidates(n)
        BY DEF NoPass, Passes, Candidates
    <3>2. \A r \in Candidates(n) : location[r] # None
        BY DrainAssumption DEF Candidates, IInv, Placed, PlacedAt
    <3>3. pass' = [pass EXCEPT ![n] = p] /\ engine[n] = "up"
        BY <2>1 DEF Begin, Step, Routine
    <3> HIDE DEF p
    <3> QED
        BY <3>1, <3>2, <3>3
  <2>2. NoPass \in Passes
      BY DEF NoPass, Passes
  <2>3. CASE Count(n)
    <3> DEFINE c == [pass[n] EXCEPT !.step = "counting", !.stuck = {r \in @ : delayed[r] = n}]
    <3>1. c \in Passes /\ c.step = "counting" /\ c.todo = {}
        BY <2>3 DEF Count, TypeOK, Passes
    <3>2. engine[n] # "down"
        BY <2>3 DEF Count, IInv, Owned
    <3>3. pass' = [pass EXCEPT ![n] = NoPass] \/ pass' = [pass EXCEPT ![n] = c]
        BY <2>3 DEF Count, Step
    <3> HIDE DEF c
    <3> QED
        BY <2>2, <3>1, <3>2, <3>3 DEF NoPass
  <2>4. CASE Mark(n)
      BY <2>2, <2>4 DEF Mark, Step, NoPass
  <2> QED
      BY <2>1, <2>3, <2>4
<1>2. UNCHANGED <<engine, worker, lock, rows, disk, stage, ran>>
    BY DEF Begin, Count, Mark
<1>3. Owned'
    BY <1>1, <1>2 DEF IInv, Owned, Moving, Busy, TypeOK
<1>4. Transferring'
    BY <1>1, <1>2 DEF IInv, Transferring, Moving, TypeOK, disk, rows
<1> QED
    BY <1>2, <1>3, <1>4 DEF IInv, Placed, PlacedAt, Analysing, Informed, Fetched, Fetching, Busy, FarKept, SubmissionKept, rows, disk

\* Giving up a root: whatever else it is, its lock goes if the pass has it.
LEMMA SkippedRoot ==
    ASSUME TypeOK, IInv, NEW n \in Nodes, NEW r \in Roots, NEW p \in Passes,
           engine[n] # "down", p.step = "looping", p.todo \subseteq pass[n].todo,
           pass' = [pass EXCEPT ![n] = p],
           lock' = lock \/ (Moving(n) /\ pass[n].root = r /\ lock' = [lock EXCEPT ![r] = None]),
           UNCHANGED <<engine, worker, rows, disk, stage, ran>>
    PROVE  IInv'
<1>1. \A m \in Nodes : /\ Moving(m)' => m # n /\ Moving(m) /\ pass'[m] = pass[m]
                       /\ Busy(m)' <=> Busy(m)
    BY DEF Moving, Busy, TypeOK
<1>2. \A q \in Roots, m \in Nodes : m # n /\ lock[q] \in {<<m, "drain">>, <<m, "worker">>} =>
          lock'[q] = lock[q]
    BY DEF IInv, Owned, TypeOK
<1>3. \A m \in Nodes : Busy(m) => lock'[worker[m].root] = <<m, "worker">>
  <2> SUFFICES ASSUME NEW m \in Nodes, Busy(m)
               PROVE  lock'[worker[m].root] = <<m, "worker">>
      OBVIOUS
  <2>1. lock[worker[m].root] = <<m, "worker">> /\ worker[m].root \in Roots
      BY DEF IInv, Owned, Busy
  <2>2. Moving(n) => lock[pass[n].root] = <<n, "drain">>
      BY DEF IInv, Owned
  <2> QED
      BY <2>1, <2>2 DEF TypeOK
<1>4. Owned'
  <2>1. \A m \in Nodes : Moving(m)' => /\ pass'[m].root \in Old /\ pass'[m].to \in Nodes \ {m}
                                       /\ lock'[pass'[m].root] = <<m, "drain">>
    <3> SUFFICES ASSUME NEW m \in Nodes, Moving(m)'
                 PROVE  /\ pass'[m].root \in Old /\ pass'[m].to \in Nodes \ {m}
                        /\ lock'[pass'[m].root] = <<m, "drain">>
        OBVIOUS
    <3>1. m # n /\ Moving(m) /\ pass'[m] = pass[m]
        BY <1>1
    <3>2. /\ pass[m].root \in Old /\ pass[m].to \in Nodes \ {m}
          /\ lock[pass[m].root] = <<m, "drain">> /\ pass[m].root \in Roots
        BY <3>1 DEF IInv, Owned, Roots
    <3>3. lock'[pass[m].root] = <<m, "drain">>
        BY <1>2, <3>1, <3>2
    <3> QED
        BY <3>1, <3>2, <3>3
  <2>2. \A m \in Nodes : engine'[m] = "down" => pass'[m].step = "none" /\ worker'[m] = Idle
      BY DEF IInv, Owned, TypeOK
  <2> QED
      BY <1>1, <1>3, <2>1, <2>2 DEF IInv, Owned
<1>5. Transferring'
    BY <1>1 DEF IInv, Transferring, Moving, TypeOK, disk, rows
<1>6. Analysing'
    BY DrainAssumption DEF IInv, Analysing, Informed, Fetched, Fetching, Owned, Moving, Busy, TypeOK, disk, rows
<1> QED
    BY <1>4, <1>5, <1>6 DEF IInv, Placed, PlacedAt, FarKept, SubmissionKept, rows, disk

\* Who holds the lock on a root is the only one at it.
LEMMA Alone ==
    ASSUME TypeOK, Owned, NEW n \in Nodes, NEW r \in Roots
    PROVE  /\ Moving(n) /\ pass[n].root = r =>
                /\ \A m \in Nodes \ {n} : Moving(m) => pass[m].root # r
                /\ \A m \in Nodes : Busy(m) => worker[m].root # r
           /\ Busy(n) /\ worker[n].root = r =>
                /\ \A m \in Nodes \ {n} : Busy(m) => worker[m].root # r
                /\ \A m \in Nodes : Moving(m) => pass[m].root # r
BY DEF Owned

LEMMA Handled ==
    ASSUME TypeOK, IInv, NEW n \in Nodes, NEW r \in Old, Handle(n, r)
    PROVE  IInv'
<1>1. /\ UNCHANGED <<engine, worker, rows, disk, stage, ran>>
      /\ pass[n].step = "looping" /\ r \in pass[n].todo
      /\ r \in Roots /\ r \notin Fresh /\ pass[n] \in Passes /\ ~Moving(n)
    BY DrainAssumption DEF Handle, TypeOK, Roots, Moving
<1>2. engine[n] # "down" /\ location[r] # None
    BY <1>1 DEF IInv, Owned, Transferring
<1>3. CASE Step(n, Skipped(n, r)) /\ UNCHANGED lock
  <2> DEFINE p == Skipped(n, r)
  <2>1. p \in Passes /\ p.step = "looping" /\ p.todo \subseteq pass[n].todo
      BY <1>1 DEF Skipped, Passes
  <2>2. pass' = [pass EXCEPT ![n] = p]
      BY <1>3 DEF Step
  <2> HIDE DEF p
  <2> QED
      BY <1>1, <1>2, <1>3, <2>1, <2>2, SkippedRoot
<1>4. CASE Step(n, [pass[n] EXCEPT !.todo = @ \ {r}, !.stuck = @ \cup {r}]) /\ UNCHANGED lock
  <2> DEFINE p == [pass[n] EXCEPT !.todo = @ \ {r}, !.stuck = @ \cup {r}]
  <2>1. p.step = "looping" /\ p.todo \subseteq pass[n].todo
      BY <1>1 DEF Passes
  <2>2. [pass[n] EXCEPT !.todo = @ \ {r}] \in Passes
      BY <1>1 DEF Passes
  <2>3. p \in Passes
      BY <1>1, <2>2 DEF Passes
  <2>4. pass' = [pass EXCEPT ![n] = p]
      BY <1>4 DEF Step
  <2> HIDE DEF p
  <2> QED
      BY <1>1, <1>2, <1>4, <2>1, <2>3, <2>4, SkippedRoot
<1>5. ASSUME NEW t \in Targets(n, r), lock[r] = None,
             lock' = [lock EXCEPT ![r] = <<n, "drain">>],
             Step(n, [pass[n] EXCEPT !.step = "locked", !.root = r, !.to = t])
      PROVE  IInv'
  <2>1. t \in Nodes \ {n}
      BY <1>1, DrainAssumption DEF Targets
  <2>2. PICK p : /\ pass' = [pass EXCEPT ![n] = p]
                 /\ p.step = "locked" /\ p.root = r /\ p.to = t /\ p.todo = pass[n].todo
    <3> DEFINE p == [pass[n] EXCEPT !.step = "locked", !.root = r, !.to = t]
    <3>1. p.step = "locked" /\ p.root = r /\ p.to = t /\ p.todo = pass[n].todo
        BY <1>1 DEF Passes
    <3>2. pass' = [pass EXCEPT ![n] = p]
        BY <1>5 DEF Step
    <3> HIDE DEF p
    <3> QED
        BY <3>1, <3>2
  <2>0. \A m \in Nodes : <<m, "drain">> # None /\ <<m, "worker">> # None
    <3> SUFFICES ASSUME NEW m \in Nodes
                 PROVE  <<m, "drain">> # None /\ <<m, "worker">> # None
        OBVIOUS
    <3>1. <<m, "drain">> \in Nodes \X {"drain", "worker"} /\ <<m, "worker">> \in Nodes \X {"drain", "worker"}
        OBVIOUS
    <3> QED
        BY <3>1, DrainAssumption
  <2>3. \A m \in Nodes : (Moving(m) => pass[m].root # r) /\ (Busy(m) => worker[m].root # r)
    <3>1. lock[r] = None
        BY <1>5
    <3> SUFFICES ASSUME NEW m \in Nodes
                 PROVE  (Moving(m) => pass[m].root # r) /\ (Busy(m) => worker[m].root # r)
        OBVIOUS
    <3>2. Moving(m) => lock[pass[m].root] = <<m, "drain">>
        BY DEF IInv, Owned
    <3>3. Busy(m) => lock[worker[m].root] = <<m, "worker">>
        BY DEF IInv, Owned
    <3> QED
        BY <2>0, <3>1, <3>2, <3>3
  <2>4. Owned'
      BY <1>1, <1>2, <1>5, <2>1, <2>2, <2>3 DEF IInv, Owned, Moving, Busy, TypeOK, Roots
  <2>5. Transferring'
      BY <1>1, <1>2, <2>2 DEF IInv, Transferring, Moving, TypeOK, disk, rows
  <2>6. Analysing'
      BY <1>1, <1>5 DEF IInv, Analysing, Informed, Fetched, Fetching, Owned, Busy, TypeOK, disk, rows
  <2> QED
      BY <1>1, <2>4, <2>5, <2>6 DEF IInv, Placed, PlacedAt, FarKept, SubmissionKept, rows, disk
<1> QED
    BY <1>3, <1>4, <1>5 DEF Handle

LEMMA Uploaded ==
    ASSUME TypeOK, IInv, NEW n \in Nodes, Upload(n)
    PROVE  IInv'
<1> DEFINE r == pass[n].root
           t == pass[n].to
<1>1. /\ UNCHANGED <<engine, worker, rows, stage, ran>>
      /\ pass[n].step = "locked" /\ Moving(n) /\ pass[n] \in Passes
      /\ r \in Old /\ r \in Roots /\ r \notin Fresh /\ t \in Nodes \ {n} /\ t # None
      /\ lock[r] = <<n, "drain">> /\ location[r] # None /\ engine[n] # "down"
    BY DrainAssumption DEF Upload, IInv, Owned, Transferring, Moving, TypeOK, Roots
<1>2. /\ \A m \in Nodes \ {n} : Moving(m) => pass[m].root # r
      /\ \A m \in Nodes : Busy(m) => worker[m].root # r
    BY <1>1, Alone DEF IInv
<1>3. ASSUME Received(r, t), UNCHANGED <<lock>>, Step(n, [pass[n] EXCEPT !.step = "uploaded"])
      PROVE  IInv'
  <2> DEFINE p == [pass[n] EXCEPT !.step = "uploaded"]
  <2>1. p.step = "uploaded" /\ p.root = r /\ p.to = t /\ p.todo = pass[n].todo
      BY <1>1 DEF Passes
  <2>2. pass' = [pass EXCEPT ![n] = p]
      BY <1>3 DEF Step
  <2>3. /\ copies' = [copies EXCEPT ![r] = @ \cup {t}] /\ location' = [location EXCEPT ![r] = t]
        /\ torn' = torn
      BY <1>3 DEF Received
  <2> HIDE DEF p, r, t
  <2>4. Owned'
      BY <1>1, <1>3, <2>1, <2>2 DEF IInv, Owned, Moving, Busy, TypeOK
  <2>5. Placed'
      BY <1>1, <2>3 DEF IInv, Placed, PlacedAt, TypeOK, rows
  <2>6. Transferring'
    <3>1. \A m \in Nodes, q \in Roots : q \in pass'[m].todo => q \in pass[m].todo
        BY <2>1, <2>2 DEF TypeOK
    <3>2. \A m \in Nodes \ {n} : pass'[m] = pass[m]
        BY <2>2 DEF TypeOK
    <3>3. pass'[n] = p
        BY <2>2 DEF TypeOK
    <3>4. \A q \in Roots : q # r => location'[q] = location[q] /\ copies'[q] = copies[q]
        BY <2>3 DEF TypeOK
    <3>5. location'[r] = t /\ t \in copies'[r]
        BY <1>1, <2>3 DEF TypeOK
    <3> SUFFICES ASSUME NEW m \in Nodes
                 PROVE  /\ \A q \in pass'[m].todo : q \in Old => location'[q] # None
                        /\ Moving(m)' => location'[pass'[m].root] # None
                        /\ pass'[m].step \in {"uploaded", "repointed"} =>
                              location'[pass'[m].root] = pass'[m].to /\ pass'[m].to \in copies'[pass'[m].root]
                        /\ pass'[m].step = "repointed" => delayed'[pass'[m].root] # m
        BY DEF Transferring
    <3>6. \A q \in pass'[m].todo : q \in Old => location'[q] # None
        BY <1>1, <3>1, <3>4, <3>5 DEF IInv, Transferring, Roots
    <3>7. CASE m = n
        BY <1>1, <2>1, <3>3, <3>5, <3>6, <3>7
    <3>8. CASE m # n
      <4>1. Moving(m) => pass[m].root \in Roots /\ pass[m].root # r
          BY <1>2, <3>8 DEF IInv, Owned, Roots
      <4> QED
          BY <1>1, <3>2, <3>4, <3>6, <3>8, <4>1 DEF IInv, Transferring, Moving, rows
    <3> QED
        BY <3>7, <3>8
  <2>7. Analysing'
      BY <1>1, <1>2, <1>3, <2>3 DEF IInv, Analysing, Informed, Fetched, Fetching, Owned, Busy, TypeOK, rows
  <2>8. FarKept' /\ SubmissionKept'
      BY <1>1, <2>3 DEF IInv, FarKept, SubmissionKept, TypeOK, Roots, rows
  <2> QED
      BY <2>4, <2>5, <2>6, <2>7, <2>8 DEF IInv
<1>4. ASSUME Received(r, t) \/ UNCHANGED disk, Step(n, Skipped(n, r)), Unlock(r, <<n, "drain">>)
      PROVE  IInv'
  <2> DEFINE p == Skipped(n, r)
  <2>1. p.step = "looping" /\ p.todo \subseteq pass[n].todo
      BY <1>1 DEF Skipped, Passes
  <2>2. pass' = [pass EXCEPT ![n] = p] /\ lock' = [lock EXCEPT ![r] = None]
      BY <1>1, <1>4 DEF Step, Unlock
  <2>3. /\ \/ copies' = [copies EXCEPT ![r] = @ \cup {t}] /\ location' = [location EXCEPT ![r] = t]
           \/ copies' = copies /\ location' = location
        /\ torn' = torn
      BY <1>4 DEF Received, disk
  <2> HIDE DEF p, r, t
  <2>4. Owned'
      BY <1>1, <1>2, <2>1, <2>2 DEF IInv, Owned, Moving, Busy, TypeOK, Roots
  <2>5. Placed'
      BY <1>1, <2>3 DEF IInv, Placed, PlacedAt, TypeOK, rows
  <2>6. Transferring'
    <3>1. \A m \in Nodes : pass'[m].todo \subseteq pass[m].todo
        BY <2>1, <2>2 DEF TypeOK
    <3>2. \A m \in Nodes : m # n => pass'[m] = pass[m]
        BY <2>2 DEF TypeOK
    <3>3. \A m \in Nodes : Moving(m)' => m # n /\ Moving(m) /\ pass[m].root # r /\ pass[m].root \in Roots
        BY <1>2, <2>1, <2>2 DEF IInv, Owned, Moving, TypeOK, Roots
    <3>4. \A q \in Roots : /\ q # r => location'[q] = location[q] /\ copies'[q] = copies[q]
                           /\ location[q] # None => location'[q] # None
        BY <1>1, <2>3 DEF TypeOK
    <3>5. \A m \in Nodes : \A q \in pass'[m].todo : q \in Old => location'[q] # None
        BY <3>1, <3>4 DEF IInv, Transferring, Roots
    <3>6. \A m \in Nodes : pass'[m].step \in {"uploaded", "repointed"} => Moving(m)'
        BY DEF Moving
    <3> SUFFICES ASSUME NEW m \in Nodes, Moving(m)'
                 PROVE  /\ location'[pass'[m].root] # None
                        /\ pass'[m].step \in {"uploaded", "repointed"} =>
                              location'[pass'[m].root] = pass'[m].to /\ pass'[m].to \in copies'[pass'[m].root]
                        /\ pass'[m].step = "repointed" => delayed'[pass'[m].root] # m
        BY <3>5, <3>6 DEF Transferring
    <3> QED
        BY <1>1, <3>2, <3>3, <3>4 DEF IInv, Transferring, rows
  <2>7. Analysing'
      BY <1>1, <1>2, <2>2, <2>3 DEF IInv, Analysing, Informed, Fetched, Fetching, Owned, Busy, TypeOK, rows
  <2>8. FarKept' /\ SubmissionKept'
      BY <1>1, <2>3 DEF IInv, FarKept, SubmissionKept, TypeOK, Roots, rows
  <2> QED
      BY <2>4, <2>5, <2>6, <2>7, <2>8 DEF IInv
<1> QED
    BY <1>3, <1>4 DEF Upload

LEMMA Repointed ==
    ASSUME TypeOK, IInv, NEW n \in Nodes, Repoint(n)
    PROVE  IInv'
<1> DEFINE r == pass[n].root
           t == pass[n].to
<1>1. /\ UNCHANGED <<engine, worker, work, disk, stage, ran>>
      /\ pass[n].step = "uploaded" /\ Moving(n) /\ pass[n] \in Passes
      /\ r \in Old /\ r \in Roots /\ r \notin Fresh /\ t \in Nodes \ {n} /\ t # None
      /\ location[r] = t /\ t \in copies[r]
      /\ lock[r] = <<n, "drain">> /\ engine[n] # "down"
    BY DrainAssumption DEF Repoint, IInv, Owned, Transferring, Moving, TypeOK, Roots
<1>2. /\ \A m \in Nodes \ {n} : Moving(m) => pass[m].root # r
      /\ \A m \in Nodes : Busy(m) => worker[m].root # r
    BY <1>1, Alone DEF IInv
<1>3. ASSUME delayed' = [delayed EXCEPT ![r] = t], UNCHANGED lock,
             Step(n, [pass[n] EXCEPT !.step = "repointed"])
      PROVE  IInv'
  <2> DEFINE p == [pass[n] EXCEPT !.step = "repointed"]
  <2>1. p.step = "repointed" /\ p.root = r /\ p.to = t /\ p.todo = pass[n].todo
      BY <1>1 DEF Passes
  <2>2. pass' = [pass EXCEPT ![n] = p]
      BY <1>3 DEF Step
  <2> HIDE DEF p, r, t
  <2>3. Owned'
      BY <1>1, <1>3, <2>1, <2>2 DEF IInv, Owned, Moving, Busy, TypeOK
  <2>4. Placed'
      BY <1>1, <1>3 DEF IInv, Placed, PlacedAt, TypeOK, disk
  <2>5. Transferring'
    <3>1. \A m \in Nodes \ {n} : pass'[m] = pass[m]
        BY <2>2 DEF TypeOK
    <3>2. pass'[n] = p
        BY <2>2 DEF TypeOK
    <3>3. \A q \in Roots : q # r => delayed'[q] = delayed[q]
        BY <1>3 DEF TypeOK
    <3>4. delayed'[r] = t
        BY <1>1, <1>3 DEF TypeOK
    <3> SUFFICES ASSUME NEW m \in Nodes
                 PROVE  /\ \A q \in pass'[m].todo : q \in Old => location'[q] # None
                        /\ Moving(m)' => location'[pass'[m].root] # None
                        /\ pass'[m].step \in {"uploaded", "repointed"} =>
                              location'[pass'[m].root] = pass'[m].to /\ pass'[m].to \in copies'[pass'[m].root]
                        /\ pass'[m].step = "repointed" => delayed'[pass'[m].root] # m
        BY DEF Transferring
    <3>5. CASE m = n
        BY <1>1, <2>1, <3>2, <3>4, <3>5 DEF IInv, Transferring, disk
    <3>6. CASE m # n
      <4>1. Moving(m) => pass[m].root \in Roots /\ pass[m].root # r
          BY <1>2, <3>6 DEF IInv, Owned, Roots
      <4> QED
          BY <1>1, <3>1, <3>3, <3>6, <4>1 DEF IInv, Transferring, Moving, disk
    <3> QED
        BY <3>5, <3>6
  <2>6. Analysing'
      BY <1>1, <1>2, <1>3 DEF IInv, Analysing, Informed, Fetched, Fetching, Owned, Busy, TypeOK, disk
  <2>7. FarKept' /\ SubmissionKept'
      BY <1>1, <1>3 DEF IInv, FarKept, SubmissionKept, TypeOK, Roots, disk
  <2> QED
      BY <2>3, <2>4, <2>5, <2>6, <2>7 DEF IInv
<1>4. ASSUME Step(n, Skipped(n, r)), Unlock(r, <<n, "drain">>), UNCHANGED delayed
      PROVE  IInv'
  <2> DEFINE p == Skipped(n, r)
  <2>1. p \in Passes /\ p.step = "looping" /\ p.todo \subseteq pass[n].todo
      BY <1>1 DEF Skipped, Passes
  <2>2. pass' = [pass EXCEPT ![n] = p] /\ lock' = [lock EXCEPT ![r] = None]
      BY <1>1, <1>4 DEF Step, Unlock
  <2>3. UNCHANGED <<engine, worker, rows, disk, stage, ran>>
      BY <1>1, <1>4 DEF rows
  <2> HIDE DEF p
  <2> QED
      BY <1>1, <2>1, <2>2, <2>3, SkippedRoot
<1> QED
    BY <1>3, <1>4 DEF Repoint

LEMMA Removed ==
    ASSUME TypeOK, IInv, NEW n \in Nodes, Remove(n)
    PROVE  IInv'
<1> DEFINE r == pass[n].root
           t == pass[n].to
           p == [pass[n] EXCEPT !.step = "looping", !.todo = @ \ {r}, !.root = None, !.to = None]
<1>1. /\ UNCHANGED <<engine, worker, rows, location, torn, stage, ran>>
      /\ pass[n].step = "repointed" /\ Moving(n) /\ pass[n] \in Passes
      /\ r \in Old /\ r \in Roots /\ r \notin Fresh /\ t \in Nodes \ {n}
      /\ location[r] = t /\ t \in copies[r] /\ delayed[r] # n
      /\ lock[r] = <<n, "drain">> /\ engine[n] # "down"
    BY DrainAssumption DEF Remove, IInv, Owned, Transferring, Moving, TypeOK, Roots
<1>2. /\ \A m \in Nodes \ {n} : Moving(m) => pass[m].root # r
      /\ \A m \in Nodes : Busy(m) => worker[m].root # r
    BY <1>1, Alone DEF IInv
<1>3. copies' = [copies EXCEPT ![r] = @ \ {n}] /\ lock' = [lock EXCEPT ![r] = None]
    BY <1>1 DEF Remove, Unlock
<1>4. p.step = "looping" /\ p.todo \subseteq pass[n].todo
    BY <1>1 DEF Passes
<1>5. pass' = [pass EXCEPT ![n] = p]
    BY DEF Remove, Step
<1> HIDE DEF r, t, p
<1>6. Owned'
    BY <1>1, <1>2, <1>3, <1>4, <1>5 DEF IInv, Owned, Moving, Busy, TypeOK, Roots
<1>7. Placed'
    BY <1>1, <1>3 DEF IInv, Placed, PlacedAt, TypeOK, rows
<1>8. Transferring'
  <2>1. \A m \in Nodes : pass'[m].todo \subseteq pass[m].todo
      BY <1>4, <1>5 DEF TypeOK
  <2>2. \A m \in Nodes : m # n => pass'[m] = pass[m]
      BY <1>5 DEF TypeOK
  <2>3. \A m \in Nodes : Moving(m)' => m # n /\ Moving(m) /\ pass[m].root # r /\ pass[m].root \in Roots
      BY <1>2, <1>4, <1>5 DEF IInv, Owned, Moving, TypeOK, Roots
  <2>4. \A q \in Roots : q # r => copies'[q] = copies[q]
      BY <1>3 DEF TypeOK
  <2>5. \A m \in Nodes : \A q \in pass'[m].todo : q \in Old => location'[q] # None
      BY <1>1, <2>1 DEF IInv, Transferring
  <2>6. \A m \in Nodes : pass'[m].step \in {"uploaded", "repointed"} => Moving(m)'
      BY DEF Moving
  <2> SUFFICES ASSUME NEW m \in Nodes, Moving(m)'
               PROVE  /\ location'[pass'[m].root] # None
                      /\ pass'[m].step \in {"uploaded", "repointed"} =>
                            location'[pass'[m].root] = pass'[m].to /\ pass'[m].to \in copies'[pass'[m].root]
                      /\ pass'[m].step = "repointed" => delayed'[pass'[m].root] # m
      BY <2>5, <2>6 DEF Transferring
  <2> QED
      BY <1>1, <2>2, <2>3, <2>4 DEF IInv, Transferring, rows
<1>9. Analysing'
    BY <1>1, <1>2, <1>3 DEF IInv, Analysing, Informed, Fetched, Fetching, Owned, Busy, TypeOK, rows
<1>10. FarKept' /\ SubmissionKept'
    BY <1>1 DEF IInv, FarKept, SubmissionKept, rows
<1> QED
    BY <1>6, <1>7, <1>8, <1>9, <1>10 DEF IInv

-----------------------------------------------------------------------------
\* The worker.

LEMMA ListedRoot ==
    ASSUME TypeOK, IInv, NEW n \in Nodes, NEW r \in Roots, List(n, r)
    PROVE  IInv'
<1>1. PICK kind \in {"delayed", "work"}, from \in Nodes :
          /\ worker' = [worker EXCEPT ![n] =
                           [step |-> "listed", root |-> r, kind |-> kind, from |-> from]]
          /\ kind = "delayed" => r \in Due /\ from = n /\ delayed[r] = n
          /\ kind = "work" => work[r] = from
  <2>1. CASE r \in Due /\ delayed[r] = n /\ Listed(n, r, "delayed", n)
      BY <2>1 DEF Listed
  <2>2. CASE work[r] = n /\ Listed(n, r, "work", n)
      BY <2>2 DEF Listed
  <2>3. CASE work[r] \notin {n, None} /\ Listed(n, r, "work", work[r])
      BY <2>3 DEF Listed, TypeOK
  <2> QED
      BY <2>1, <2>2, <2>3 DEF List
<1>2. /\ UNCHANGED <<engine, pass, lock, rows, disk, stage, ran>>
      /\ worker[n] = Idle /\ engine[n] = "up"
    BY DEF List
<1>3. location[r] # None
      /\ (r \in Fresh => kind = "work" /\ stage[r].at = "in")
      /\ (r \in Fresh \ torn => from \in copies[r])
    BY <1>1, DrainAssumption DEF IInv, Placed, PlacedAt
<1>4. Owned'
    BY <1>1, <1>2 DEF IInv, Owned, Moving, Busy, TypeOK
<1>5. Analysing'
  <2>1. \A m \in Nodes : m # n => worker'[m] = worker[m]
      BY <1>1 DEF TypeOK
  <2>2. worker'[n] = [step |-> "listed", root |-> r, kind |-> kind, from |-> from]
      BY <1>1 DEF TypeOK
  <2> SUFFICES ASSUME NEW m \in Nodes, worker'[m].step # "idle"
               PROVE  Informed(m)'
      BY DEF Analysing
  <2>3. CASE m = n
      BY <1>1, <1>2, <1>3, <2>2, <2>3 DEF Informed, Fetched, Fetching, Busy, rows, disk
  <2>4. CASE m # n
    <3>1. \A k \in Nodes : Fetching(k)' => Fetching(k) /\ worker'[k] = worker[k]
        BY <2>1, <2>2 DEF Fetching
    <3>2. Informed(m) /\ worker'[m] = worker[m]
        BY <2>1, <2>4 DEF IInv, Analysing
    <3>3. Fetched(m)'
        BY <1>2, <3>2 DEF Informed, Fetched, Fetching, rows, disk
    <3> QED
        BY <1>2, <3>1, <3>2, <3>3 DEF Informed, rows, disk
  <2> QED
      BY <2>3, <2>4
<1> QED
    BY <1>2, <1>4, <1>5 DEF IInv, Placed, PlacedAt, Transferring, Moving, FarKept, SubmissionKept, rows, disk

LEMMA Taken ==
    ASSUME TypeOK, IInv, NEW n \in Nodes, Take(n)
    PROVE  IInv'
<1> DEFINE r == worker[n].root
           from == worker[n].from
<1>1. /\ UNCHANGED <<engine, pass, rows, disk, stage, ran>>
      /\ worker[n].step = "listed" /\ worker[n] \in Workers /\ ~Busy(n) /\ engine[n] # "down"
      /\ r \in Roots /\ from \in Nodes
    BY DEF Take, IInv, Owned, TypeOK, Busy, Idle
<1>2. \A m \in Nodes : <<m, "drain">> # None /\ <<m, "worker">> # None
  <2> SUFFICES ASSUME NEW m \in Nodes
               PROVE  <<m, "drain">> # None /\ <<m, "worker">> # None
      OBVIOUS
  <2>1. <<m, "drain">> \in Nodes \X {"drain", "worker"} /\ <<m, "worker">> \in Nodes \X {"drain", "worker"}
      OBVIOUS
  <2> QED
      BY <2>1, DrainAssumption
<1>3. ASSUME worker' = [worker EXCEPT ![n] = Idle], UNCHANGED lock
      PROVE  IInv'
  <2>1. Owned'
      BY <1>1, <1>3 DEF IInv, Owned, Moving, Busy, TypeOK, Idle
  <2>2. Analysing'
      BY <1>1, <1>3 DEF IInv, Analysing, Informed, Fetched, Fetching, Busy, TypeOK, Idle, rows, disk
  <2> QED
      BY <1>1, <1>3, <2>1, <2>2
      DEF IInv, Placed, PlacedAt, Transferring, Moving, FarKept, SubmissionKept, rows, disk
<1>4. ASSUME NEW s \in {"working", "pulling"}, lock[r] = None,
             worker[n].kind = "delayed" \/ work[r] # None,
             s = "working" <=> from = n, s = "pulling" => n \notin copies[r],
             lock' = [lock EXCEPT ![r] = <<n, "worker">>],
             worker' = [worker EXCEPT ![n].step = s]
      PROVE  IInv'
  <2> DEFINE w == [worker[n] EXCEPT !.step = s]
  <2>1. w.step = s /\ w.root = r /\ w.from = from /\ w.kind = worker[n].kind
      BY <1>1 DEF Workers
  <2>2. worker'[n] = w /\ \A m \in Nodes : m # n => worker'[m] = worker[m]
      BY <1>4 DEF TypeOK
  <2>3. lock'[r] = <<n, "worker">> /\ \A q \in Roots : q # r => lock'[q] = lock[q]
      BY <1>1, <1>4 DEF TypeOK
  <2>4. Informed(n) /\ (r \in Fresh => worker[n].kind = "work")
      BY <1>1, DrainAssumption DEF IInv, Analysing, Informed
  <2>5. \A m \in Nodes : (Moving(m) => pass[m].root # r) /\ (Busy(m) => worker[m].root # r)
    <3>1. \A m \in Nodes : /\ Moving(m) => lock[pass[m].root] = <<m, "drain">>
                           /\ Busy(m) => lock[worker[m].root] = <<m, "worker">>
        BY DEF IInv, Owned
    <3> QED
        BY <1>2, <1>4, <3>1
  <2>6. /\ s = "pulling" /\ r \notin torn =>
              delayed[r] # n /\ location[r] # n /\ (r \in Fresh => work[r] # n)
        /\ s = "working" /\ r \in Fresh \ torn => n \in copies[r]
    <3>1. n # None
        BY DrainAssumption
    <3>2. CASE s = "pulling"
        BY <1>1, <1>4, <3>1, <3>2 DEF IInv, Placed, PlacedAt
    <3>3. CASE s = "working"
        BY <1>1, <1>4, <2>4, <3>3 DEF Informed
    <3> QED
        BY <3>2, <3>3
  <2> HIDE DEF w, r, from
  <2>7. Owned'
    <3> SUFFICES ASSUME NEW m \in Nodes
                 PROVE  /\ engine'[m] = "down" => pass'[m].step = "none" /\ worker'[m] = Idle
                        /\ Moving(m)' => /\ pass'[m].root \in Old /\ pass'[m].to \in Nodes \ {m}
                                         /\ lock'[pass'[m].root] = <<m, "drain">>
                        /\ worker'[m].step # "idle" => worker'[m].root \in Roots /\ worker'[m].from \in Nodes
                        /\ Busy(m)' => lock'[worker'[m].root] = <<m, "worker">>
        BY DEF Owned
    <3>1. Moving(m) => lock'[pass[m].root] = <<m, "drain">>
        BY <2>3, <2>5 DEF IInv, Owned, Roots
    <3>2. CASE m = n
        BY <1>1, <2>1, <2>2, <2>3, <3>1, <3>2 DEF IInv, Owned, Moving, Busy
    <3>3. CASE m # n
      <4>1. Busy(m) => lock'[worker[m].root] = <<m, "worker">>
          BY <2>3, <2>5 DEF IInv, Owned, Busy
      <4> QED
          BY <1>1, <2>2, <3>1, <3>3, <4>1 DEF IInv, Owned, Moving, Busy
    <3> QED
        BY <3>2, <3>3
  <2>8. Analysing'
    <3> SUFFICES ASSUME NEW m \in Nodes, worker'[m].step # "idle"
                 PROVE  Informed(m)'
        BY DEF Analysing
    <3>1. CASE m = n
      <4>1. Fetched(n)'
          BY <1>1, <1>4, <2>1, <2>2, <2>6 DEF Fetched, Fetching, rows, disk, r, from
      <4> QED
          BY <1>1, <1>4, <2>1, <2>2, <2>4, <2>6, <3>1, <4>1 DEF Informed, rows, disk, r, from
    <3>2. CASE m # n
      <4> DEFINE q == worker[m].root
      <4>1. Informed(m) /\ q \in Roots /\ worker'[m] = worker[m]
          BY <2>2, <3>2 DEF IInv, Analysing, Owned
      <4>2. Fetched(m)'
          BY <1>1, <4>1 DEF Informed, Fetched, Fetching, rows, disk
      <4>3. q \in Fresh \ torn /\ worker[m].from = m /\ worker[m].step = "listed" =>
                \/ m \in copies[q] \/ work[q] = None
                \/ lock'[q] # None /\ \A k \in Nodes : Fetching(k)' => worker'[k].root # q
        <5>1. CASE q = r
            BY <1>4, <4>1, <5>1 DEF Informed
        <5>2. CASE q # r
          <6>1. \A k \in Nodes : Fetching(k)' => worker'[k].root = r \/ (Fetching(k) /\ worker'[k] = worker[k])
              BY <2>1, <2>2 DEF Fetching
          <6> QED
              BY <2>3, <4>1, <5>2, <6>1 DEF Informed
        <5> QED
            BY <5>1, <5>2
      <4> QED
          BY <1>1, <4>1, <4>2, <4>3 DEF Informed, rows, disk
    <3> QED
        BY <3>1, <3>2
  <2> QED
      BY <1>1, <2>7, <2>8 DEF IInv, Placed, PlacedAt, Transferring, Moving, FarKept, SubmissionKept, rows, disk
<1> QED
  <2>1. worker[n].kind = "delayed" => from = n
      BY <1>1 DEF IInv, Analysing, Informed
  <2> QED
      BY <1>3, <1>4, <2>1 DEF Take

\* A worker at its root r leaves all others alone: what remains to be shown of
\* a step of it is what it makes of r, and of those who have listed r.
LEMMA AtItsRoot ==
    ASSUME TypeOK, IInv, NEW n \in Nodes, NEW r \in Roots, Busy(n), worker[n].root = r,
           UNCHANGED <<engine, pass, stage>>,
           \A m \in Nodes \ {n} : worker'[m] = worker[m],
           \A q \in Roots \ {r} :
               /\ lock'[q] = lock[q] /\ copies'[q] = copies[q] /\ location'[q] = location[q]
               /\ delayed'[q] = delayed[q] /\ work'[q] = work[q] /\ (q \in torn' <=> q \in torn),
           torn \subseteq torn', location'[r] # None,
           \/ worker'[n] = Idle
           \/ /\ lock'[r] = lock[r] /\ worker'[n].root = r /\ worker'[n].from = worker[n].from
              /\ Informed(n)',
           PlacedAt(r)',
           r \in Fresh \ torn' =>
               \A m \in Nodes \ {n} :
                   worker[m].from = m /\ worker[m].step = "listed" /\ worker[m].root = r =>
                       \/ m \in copies'[r] \/ work'[r] = None
                       \/ lock'[r] # None /\ ~Fetching(n)',
           FarKept', SubmissionKept'
    PROVE  IInv'
<1>1. /\ \A m \in Nodes \ {n} : Busy(m) => worker[m].root \in Roots \ {r}
      /\ \A m \in Nodes : Moving(m) => pass[m].root \in Roots \ {r}
    BY Alone DEF IInv, Owned, Busy, Roots
<1>2. lock[r] = <<n, "worker">> /\ engine[n] # "down" /\ worker[n].from \in Nodes
    BY DEF IInv, Owned, Busy, Idle
<1>3. Owned'
  <2> SUFFICES ASSUME NEW m \in Nodes
               PROVE  /\ engine'[m] = "down" => pass'[m].step = "none" /\ worker'[m] = Idle
                      /\ Moving(m)' => /\ pass'[m].root \in Old /\ pass'[m].to \in Nodes \ {m}
                                       /\ lock'[pass'[m].root] = <<m, "drain">>
                      /\ worker'[m].step # "idle" => worker'[m].root \in Roots /\ worker'[m].from \in Nodes
                      /\ Busy(m)' => lock'[worker'[m].root] = <<m, "worker">>
      BY DEF Owned
  <2>1. Moving(m) => lock'[pass[m].root] = <<m, "drain">>
      BY <1>1 DEF IInv, Owned
  <2>2. CASE m = n
      BY <1>2, <2>1, <2>2 DEF IInv, Owned, Moving, Busy, Idle
  <2>3. CASE m # n
    <3>1. Busy(m) => lock'[worker[m].root] = <<m, "worker">>
        BY <1>1, <2>3 DEF IInv, Owned
    <3> QED
        BY <2>1, <2>3, <3>1 DEF IInv, Owned, Moving, Busy
  <2> QED
      BY <2>2, <2>3
<1>4. Placed'
  <2> SUFFICES ASSUME NEW q \in Roots \ {r}
               PROVE  PlacedAt(q)'
      BY DEF Placed
  <2> QED
      BY DEF IInv, Placed, PlacedAt
<1>5. Transferring'
  <2> SUFFICES ASSUME NEW m \in Nodes
               PROVE  /\ \A q \in pass'[m].todo : q \in Old => location'[q] # None
                      /\ Moving(m)' => location'[pass'[m].root] # None
                      /\ pass'[m].step \in {"uploaded", "repointed"} =>
                            location'[pass'[m].root] = pass'[m].to /\ pass'[m].to \in copies'[pass'[m].root]
                      /\ pass'[m].step = "repointed" => delayed'[pass'[m].root] # m
      BY DEF Transferring
  <2>1. \A q \in Old : location[q] # None => location'[q] # None
      BY DEF Roots
  <2>2. pass'[m] = pass[m] /\ (Moving(m) => pass[m].root \in Roots \ {r})
      BY <1>1
  <2> QED
      BY <2>1, <2>2 DEF IInv, Transferring, Moving
<1>6. Analysing'
  <2> SUFFICES ASSUME NEW m \in Nodes \ {n}, worker'[m].step # "idle"
               PROVE  Informed(m)'
      BY DEF Analysing, Idle
  <2> DEFINE q == worker[m].root
  <2>1. worker'[m] = worker[m] /\ Informed(m) /\ q \in Roots /\ worker[m] \in Workers
      BY DEF IInv, Analysing, Owned, TypeOK
  <2>2. \A k \in Nodes : Fetching(k)' =>
            /\ worker'[k].root = r => k = n
            /\ worker'[k].root # r => Fetching(k) /\ worker'[k].root = worker[k].root
      BY <1>1 DEF Fetching, Busy, Idle
  <2>3. CASE q = r
    <3>1. worker[m].step = "listed"
        BY <1>1, <2>1, <2>3 DEF Busy, Workers
    <3>2. Fetched(m)'
        BY <2>1, <3>1 DEF Fetched, Fetching
    <3>3. r \in Fresh \ torn' /\ worker[m].from = m =>
              \/ m \in copies'[r] \/ work'[r] = None
              \/ lock'[r] # None /\ \A k \in Nodes : Fetching(k)' => worker'[k].root # r
        BY <2>2, <2>3, <3>1
    <3> QED
        BY <2>1, <2>3, <3>1, <3>2, <3>3 DEF Informed
  <2>4. CASE q # r
    <3>1. Fetched(m)'
        BY <2>1, <2>4 DEF Informed, Fetched, Fetching
    <3>2. (\A k \in Nodes : Fetching(k) => worker[k].root # q) =>
              \A k \in Nodes : Fetching(k)' => worker'[k].root # q
        BY <2>2, <2>4
    <3> QED
        BY <2>1, <2>4, <3>1, <3>2 DEF Informed
  <2> QED
      BY <2>3, <2>4
<1> QED
    BY <1>3, <1>4, <1>5, <1>6 DEF IInv

\* What a worker in the middle of a pull knows.
LEMMA InThePull ==
    ASSUME TypeOK, IInv, NEW n \in Nodes,
           worker[n].step \in {"pulling", "downloaded", "moved", "pulled"}
    PROVE  /\ worker[n] \in Workers /\ worker[n].root \in Roots /\ worker[n].from \in Nodes \ {n}
           /\ n # None /\ lock[worker[n].root] = <<n, "worker">> /\ <<n, "worker">> # None
           /\ Busy(n) /\ Informed(n) /\ Fetched(n) /\ PlacedAt(worker[n].root)
           /\ \A m \in Nodes \ {n} :
                  /\ worker[m].root = worker[n].root /\ worker[m].root \in Fresh \ torn
                  /\ worker[m].from = m /\ worker[m].step = "listed"
                  => \/ m \in copies[worker[n].root] \/ work[worker[n].root] = None
                     \/ ~Fetching(n)
<1>1. <<n, "worker">> \in Nodes \X {"drain", "worker"}
    OBVIOUS
<1>2. Busy(n) /\ Informed(n) /\ Fetched(n)
    BY DEF IInv, Analysing, Informed, Busy
<1>3. \A m \in Nodes : worker[m].step = "listed" => Informed(m)
    BY DEF IInv, Analysing
<1>4. worker[n].from # n
    BY <1>2 DEF Fetched
<1> QED
    BY <1>1, <1>2, <1>3, <1>4, DrainAssumption DEF IInv, Owned, Placed, Informed, TypeOK

\* The pull is given up: before its commit nothing has changed, and after it
\* the root is one of those whose files are not where its rows are.
LEMMA GivenUp ==
    ASSUME TypeOK, IInv, NEW n \in Nodes,
           worker[n].step \in {"pulling", "downloaded", "moved", "pulled"}, Dropped(n),
           UNCHANGED <<engine, pass, rows, location, stage, ran>>,
           \/ Fetching(n) /\ torn' = torn
           \/ torn' = torn \cup {worker[n].root}
    PROVE  IInv'
<1>0. PICK r \in Roots : r = worker[n].root
    BY InThePull
<1>1. /\ worker[n] \in Workers /\ r = worker[n].root /\ n # None /\ lock[r] = <<n, "worker">>
      /\ Busy(n) /\ Informed(n) /\ Fetched(n) /\ PlacedAt(r)
    BY <1>0, InThePull
<1>2. /\ lock' = [lock EXCEPT ![r] = None] /\ worker' = [worker EXCEPT ![n] = Idle]
      /\ copies' = [copies EXCEPT ![r] = @ \ {n}]
    BY <1>1 DEF Dropped, Unlock
<1>3. r \notin torn' => Fetching(n) /\ delayed[r] # n /\ location[r] # n /\ (r \in Fresh => work[r] # n)
    BY <1>1 DEF Fetched
<1>4. r \in Fresh \ torn' =>
          \A m \in Nodes \ {n} :
              worker[m].from = m /\ worker[m].step = "listed" /\ worker[m].root = r =>
                  m \in copies[r] \/ work[r] = None
    BY <1>1, <1>3, InThePull
<1>5. /\ copies'[r] = copies[r] \ {n} /\ worker'[n] = Idle
      /\ \A m \in Nodes \ {n} : worker'[m] = worker[m]
      /\ \A q \in Roots \ {r} : lock'[q] = lock[q] /\ copies'[q] = copies[q] /\ (q \in torn' <=> q \in torn)
    BY <1>1, <1>2 DEF TypeOK
<1>6. PlacedAt(r)'
    BY <1>1, <1>3, <1>5 DEF PlacedAt, rows
<1>7. location[r] # None /\ torn \subseteq torn'
    BY <1>1 DEF Informed
<1>8. FarKept' /\ SubmissionKept'
    BY <1>7 DEF IInv, FarKept, SubmissionKept, rows
<1> QED
    BY <1>1, <1>4, <1>5, <1>6, <1>7, <1>8, AtItsRoot DEF rows

LEMMA Downloaded ==
    ASSUME TypeOK, IInv, NEW n \in Nodes, Download(n)
    PROVE  IInv'
<1>0. PICK r \in Roots : r = worker[n].root
    BY InThePull DEF Download
<1> DEFINE w == [worker[n] EXCEPT !.step = "downloaded"]
<1>1. /\ worker[n] \in Workers /\ r = worker[n].root /\ n # None /\ lock[r] = <<n, "worker">>
      /\ Busy(n) /\ Informed(n) /\ Fetched(n) /\ PlacedAt(r) /\ worker[n].step = "pulling"
      /\ UNCHANGED <<engine, pass, rows, location, torn, stage, ran>>
    BY <1>0, InThePull DEF Download
<1>2. CASE Dropped(n)
    BY <1>1, <1>2, GivenUp DEF Fetching
<1>3. ASSUME copies' = [copies EXCEPT ![r] = @ \cup {n}], worker' = [worker EXCEPT ![n] = w],
             UNCHANGED lock
      PROVE  IInv'
  <2>1. w.step = "downloaded" /\ w.root = r /\ w.from = worker[n].from /\ w.kind = worker[n].kind
      BY <1>1 DEF Workers
  <2>2. /\ copies'[r] = copies[r] \cup {n} /\ worker'[n] = w
        /\ \A m \in Nodes \ {n} : worker'[m] = worker[m]
        /\ \A q \in Roots \ {r} : copies'[q] = copies[q]
      BY <1>1, <1>3 DEF TypeOK
  <2>3. r \in Fresh \ torn =>
            \A m \in Nodes \ {n} :
                worker[m].from = m /\ worker[m].step = "listed" /\ worker[m].root = r =>
                    m \in copies[r] \/ work[r] = None
      BY <1>1, InThePull DEF Fetching
  <2> HIDE DEF w
  <2>4. Fetched(n)'
      BY <1>1, <2>1, <2>2 DEF Fetched, Fetching, rows
  <2>5. Informed(n)'
      BY <1>1, <2>1, <2>2, <2>4 DEF Informed, rows
  <2>6. PlacedAt(r)' /\ location[r] # None
      BY <1>1, <2>2 DEF PlacedAt, Informed, rows
  <2>7. FarKept' /\ SubmissionKept'
      BY <1>1 DEF IInv, FarKept, SubmissionKept, rows
  <2> QED
      BY <1>1, <1>3, <2>1, <2>2, <2>3, <2>5, <2>6, <2>7, AtItsRoot DEF rows
<1> QED
    BY <1>1, <1>2, <1>3 DEF Download

LEMMA Committed ==
    ASSUME TypeOK, IInv, NEW n \in Nodes, Commit(n)
    PROVE  IInv'
<1>0. PICK r \in Roots : r = worker[n].root
    BY InThePull DEF Commit
<1> DEFINE w == [worker[n] EXCEPT !.step = "moved"]
<1>1. /\ worker[n] \in Workers /\ r = worker[n].root /\ worker[n].from \in Nodes \ {n} /\ n # None
      /\ lock[r] = <<n, "worker">>
      /\ Busy(n) /\ Informed(n) /\ Fetched(n) /\ PlacedAt(r) /\ worker[n].step = "downloaded"
      /\ UNCHANGED <<engine, pass, torn, stage, ran>>
    BY <1>0, InThePull DEF Commit
<1>2. CASE Dropped(n) /\ UNCHANGED <<rows, location>>
    BY <1>1, <1>2, GivenUp DEF Fetching
<1>3. ASSUME Pulled(n, r), worker' = [worker EXCEPT ![n] = w], UNCHANGED <<copies, lock>>
      PROVE  IInv'
  <2>1. w.step = "moved" /\ w.root = r /\ w.from = worker[n].from /\ w.kind = worker[n].kind
      BY <1>1 DEF Workers
  <2>2. /\ location'[r] = n /\ work'[r] = (IF work[r] = None THEN None ELSE n)
        /\ delayed'[r] = (IF delayed[r] = None THEN None ELSE n) /\ worker'[n] = w
        /\ \A m \in Nodes \ {n} : worker'[m] = worker[m]
        /\ \A q \in Roots \ {r} :
              location'[q] = location[q] /\ work'[q] = work[q] /\ delayed'[q] = delayed[q]
    <3>1. /\ location'[r] = n /\ work'[r] = (IF work[r] = None THEN None ELSE n)
          /\ delayed'[r] = (IF delayed[r] = None THEN None ELSE n)
          /\ \A q \in Roots \ {r} :
                location'[q] = location[q] /\ work'[q] = work[q] /\ delayed'[q] = delayed[q]
        BY <1>3 DEF TypeOK, Pulled
    <3> QED
        BY <1>3, <3>1 DEF TypeOK
  <2>3. r \in Fresh \ torn =>
            \A m \in Nodes \ {n} :
                worker[m].from = m /\ worker[m].step = "listed" /\ worker[m].root = r =>
                    m \in copies[r] \/ work[r] = None
      BY <1>1, InThePull DEF Fetching
  <2>4. n \in copies[r] /\ worker[n].from # None
      BY <1>1, DrainAssumption DEF Fetched
  <2> HIDE DEF w
  <2>5. Fetched(n)'
      BY <1>1, <1>3, <2>1, <2>2, <2>4 DEF Fetched, Fetching
  <2>6. Informed(n)'
      BY <1>1, <1>3, <2>1, <2>2, <2>5 DEF Informed
  <2>7. PlacedAt(r)' /\ location[r] # None
      BY <1>1, <1>3, <2>2, <2>4 DEF PlacedAt, Informed
  <2>8. \A q \in Roots : /\ work'[q] = None <=> work[q] = None
                         /\ delayed'[q] = None <=> delayed[q] = None
                         /\ location'[q] = None <=> location[q] = None
      BY <1>1, <2>2, <2>7
  <2>9. FarKept' /\ SubmissionKept'
      BY <1>1, <2>8 DEF IInv, FarKept, SubmissionKept, Roots
  <2>10. location'[r] # None
      BY <1>1, <2>2
  <2> QED
      BY <1>1, <1>3, <2>1, <2>2, <2>3, <2>6, <2>7, <2>9, <2>10, AtItsRoot
<1> QED
    BY <1>1, <1>2, <1>3 DEF Commit

LEMMA Relocated ==
    ASSUME TypeOK, IInv, NEW n \in Nodes, Relocate(n)
    PROVE  IInv'
<1>0. PICK r \in Roots : r = worker[n].root
    BY InThePull DEF Relocate
<1> DEFINE w == [worker[n] EXCEPT !.step = "pulled"]
<1>1. /\ worker[n] \in Workers /\ r = worker[n].root /\ lock[r] = <<n, "worker">>
      /\ Busy(n) /\ Informed(n) /\ Fetched(n) /\ PlacedAt(r) /\ worker[n].step = "moved"
      /\ <<n, "worker">> # None
      /\ UNCHANGED <<engine, pass, rows, location, stage, ran>>
    BY <1>0, InThePull DEF Relocate
<1>2. CASE Dropped(n) /\ torn' = torn \cup {r}
    BY <1>1, <1>2, GivenUp
<1>3. ASSUME worker' = [worker EXCEPT ![n] = w], UNCHANGED <<copies, lock, torn>>
      PROVE  IInv'
  <2>1. w.step = "pulled" /\ w.root = r /\ w.from = worker[n].from /\ w.kind = worker[n].kind
      BY <1>1 DEF Workers
  <2>2. worker'[n] = w /\ \A m \in Nodes \ {n} : worker'[m] = worker[m]
      BY <1>3 DEF TypeOK
  <2> HIDE DEF w
  <2>3. Fetched(n)' /\ ~Fetching(n)'
      BY <1>1, <1>3, <2>1, <2>2 DEF Fetched, Fetching, rows
  <2>4. Informed(n)'
      BY <1>1, <1>3, <2>1, <2>2, <2>3 DEF Informed, rows
  <2>5. PlacedAt(r)' /\ location[r] # None
      BY <1>1, <1>3 DEF PlacedAt, Informed, rows
  <2>6. FarKept' /\ SubmissionKept'
      BY <1>1, <1>3 DEF IInv, FarKept, SubmissionKept, rows
  <2> QED
      BY <1>1, <1>3, <2>1, <2>2, <2>3, <2>4, <2>5, <2>6, AtItsRoot DEF rows
<1> QED
    BY <1>1, <1>2, <1>3 DEF Relocate

LEMMA RemoteCleared ==
    ASSUME TypeOK, IInv, NEW n \in Nodes, Clear(n)
    PROVE  IInv'
<1>0. PICK r \in Roots : r = worker[n].root
    BY InThePull DEF Clear
<1> DEFINE from == worker[n].from
           w == [worker[n] EXCEPT !.step = "working"]
<1>1. /\ worker[n] \in Workers /\ r = worker[n].root /\ from \in Nodes \ {n} /\ lock[r] = <<n, "worker">>
      /\ Busy(n) /\ Informed(n) /\ Fetched(n) /\ PlacedAt(r) /\ worker[n].step = "pulled"
      /\ <<n, "worker">> # None
      /\ UNCHANGED <<engine, pass, lock, rows, location, torn, stage, ran>>
      /\ worker' = [worker EXCEPT ![n] = w]
    BY <1>0, InThePull DEF Clear
<1>2. w.step = "working" /\ w.root = r /\ w.from = from /\ w.kind = worker[n].kind
    BY <1>1 DEF Workers
<1>3. worker'[n] = w /\ \A m \in Nodes \ {n} : worker'[m] = worker[m]
    BY <1>1 DEF TypeOK
<1>4. /\ \A q \in Roots \ {r} : copies'[q] = copies[q]
      /\ copies'[r] \in {copies[r], copies[r] \ {from}}
    BY <1>1 DEF Clear, TypeOK
<1>5. n \in copies'[r]
    BY <1>1, <1>4 DEF Fetched
<1> HIDE DEF w
<1>6. Informed(n)' /\ ~Fetching(n)'
    BY <1>1, <1>2, <1>3, <1>5 DEF Informed, Fetched, Fetching, rows
<1>7. PlacedAt(r)' /\ location[r] # None
    BY <1>1, <1>4, <1>5 DEF PlacedAt, Informed, Fetched, rows
<1>8. FarKept' /\ SubmissionKept'
    BY <1>1 DEF IInv, FarKept, SubmissionKept, rows
<1> QED
    BY <1>1, <1>2, <1>3, <1>4, <1>6, <1>7, <1>8, AtItsRoot DEF rows

LEMMA WorkerFinished ==
    ASSUME TypeOK, IInv, NEW n \in Nodes, Finish(n)
    PROVE  IInv'
<1>0. PICK r \in Roots : r = worker[n].root
    BY DEF Finish, IInv, Owned
<1> DEFINE kind == worker[n].kind
<1>1. /\ UNCHANGED <<engine, pass, disk, stage>>
      /\ worker[n].step = "working" /\ Busy(n)
      /\ r = worker[n].root /\ Informed(n) /\ lock[r] = <<n, "worker">> /\ PlacedAt(r)
      /\ kind \in {"delayed", "work"} /\ (kind = "delayed" => r \in Due)
      /\ (r \in Fresh \ torn => n \in copies[r])
    BY <1>0 DEF Finish, IInv, Owned, Placed, Analysing, Informed, TypeOK, Busy
<1>2. /\ worker'[n] = Idle /\ \A m \in Nodes \ {n} : worker'[m] = worker[m]
      /\ \A q \in Roots \ {r} : lock'[q] = lock[q] /\ delayed'[q] = delayed[q] /\ work'[q] = work[q]
      /\ kind = "delayed" => delayed'[r] = None /\ work'[r] = work[r]
      /\ kind = "work" => delayed'[r] = delayed[r] /\ work'[r] = None
      /\ ran \subseteq ran' /\ (n \in copies[r] => <<r, kind>> \in ran')
  <2>1. worker' = [worker EXCEPT ![n] = Idle] /\ lock' = [lock EXCEPT ![r] = None] /\ Cleared(r, kind)
      BY <1>1 DEF Finish, Unlock
  <2>2. ran' = IF n \in copies[r] THEN ran \cup {<<r, kind>>} ELSE ran
      BY <1>1 DEF Finish
  <2> HIDE DEF kind
  <2>3. ran \subseteq ran' /\ (n \in copies[r] => <<r, kind>> \in ran')
      BY <2>2
  <2> QED
      BY <1>1, <2>1, <2>3 DEF Cleared, TypeOK
<1>3. r \in Fresh => kind = "work"
    BY <1>1, DrainAssumption
<1>4. location[r] # None
    BY <1>1 DEF Informed
<1> HIDE DEF kind
<1>5. PlacedAt(r)'
  <2>1. delayed'[r] \in {delayed[r], None} /\ work'[r] \in {work[r], None}
      BY <1>1, <1>2
  <2> QED
      BY <1>1, <2>1 DEF PlacedAt, disk
<1>6. FarKept'
    BY <1>1, <1>2 DEF IInv, FarKept, disk, Roots
<1>7. SubmissionKept'
  <2> SUFFICES ASSUME NEW q \in Fresh \ torn', stage'[q].at = "in", work'[q] = None
               PROVE  <<q, "work">> \in ran'
      BY DEF SubmissionKept
  <2>1. CASE q = r
      BY <1>1, <1>2, <1>3, <2>1 DEF disk
  <2>2. CASE q # r
      BY <1>1, <1>2, <2>2 DEF IInv, SubmissionKept, Roots, disk
  <2> QED
      BY <2>1, <2>2
<1> QED
    BY <1>1, <1>2, <1>3, <1>4, <1>5, <1>6, <1>7, AtItsRoot DEF disk

-----------------------------------------------------------------------------
LEMMA InitInv ==
    ASSUME Init
    PROVE  TypeOK /\ IInv
<1> USE DrainAssumption DEF Init
<1>1. PICK load \in Loads :
          /\ delayed = [r \in Roots |-> IF r \in Old \cap load THEN First ELSE None]
          /\ copies = [r \in Roots |-> IF r \in Old \cap load THEN {First} ELSE {}]
          /\ location = delayed
          /\ stage = [r \in Roots |-> IF r \in Fresh \cap load THEN Outside
                                     ELSE [Outside EXCEPT !.at = "never"]]
    OBVIOUS
<1>2. TypeOK
  <2>1. NoPass \in Passes /\ Idle \in Workers
        /\ Outside \in Stages /\ [Outside EXCEPT !.at = "never"] \in Stages
      BY DEF NoPass, Passes, Idle, Workers, Outside, Stages
  <2>2. [runs |-> TRUE, sees |-> "running", says |-> "running", fresh |-> TRUE] \in Collectors
      BY DEF Collectors, Statuses
  <2> QED
      BY <1>1, <2>1, <2>2 DEF TypeOK, Statuses
<1>3. Owned /\ Transferring /\ Analysing
    BY DEF Owned, Transferring, Analysing, Moving, Busy, NoPass, Idle
<1>4. \A r \in Roots : stage[r].at \in {"never", "outside"}
    BY <1>1 DEF Outside
<1>5. Placed /\ FarKept /\ SubmissionKept
    BY <1>1, <1>4 DEF Placed, PlacedAt, FarKept, SubmissionKept, Roots
<1> QED
    BY <1>2, <1>3, <1>5 DEF IInv

LEMMA NextInv ==
    ASSUME TypeOK, IInv, [Next]_vars
    PROVE  TypeOK' /\ IInv'
<1> USE DEF IInv
<1>1. ASSUME NEW n \in Nodes, Quiet(n)
      PROVE  TypeOK' /\ IInv'
    BY <1>1, TypeQuiet, NothingMoved
<1>2. ASSUME NEW m \in Collecting, QuietCollector(m)
      PROVE  TypeOK' /\ IInv'
    BY <1>2, TypeQuiet, NothingMoved
<1>3. ASSUME NEW n \in Nodes, Start(n) \/ Run(n) \/ Stop(n) \/ Crash(n)
      PROVE  TypeOK' /\ IInv'
    BY <1>3, TypeEngine, EngineMoves
<1>4. ASSUME NEW n \in Nodes,
             \/ Begin(n) \/ (\E r \in Old : Handle(n, r)) \/ Upload(n) \/ Repoint(n) \/ Remove(n)
             \/ Count(n) \/ Mark(n)
      PROVE  TypeOK' /\ IInv'
    BY <1>4, TypePass, Passed, Handled, Uploaded, Repointed, Removed
<1>5. ASSUME NEW n \in Nodes,
             \/ (\E r \in Roots : List(n, r)) \/ Take(n)
             \/ Download(n) \/ Commit(n) \/ Relocate(n) \/ Clear(n) \/ Finish(n)
      PROVE  TypeOK' /\ IInv'
    BY <1>5, TypeWorker, ListedRoot, Taken, Downloaded, Committed, Relocated, RemoteCleared, WorkerFinished
<1>6. ASSUME \/ Submitting
             \/ \E r \in Fresh : Arrive(r)
             \/ \E r \in Old : Request(r)
             \/ \E r \in Roots : Expire(r)
      PROVE  TypeOK' /\ IInv'
    BY <1>6, TypeRoot, Submitted, Arrived, Requested, Expired
<1>7. CASE UNCHANGED vars
  <2>1. TypeOK'
      BY <1>7 DEF vars, TypeOK, rows, disk
  <2> QED
      BY <1>7, <2>1, NothingMoved DEF vars
<1>8. ASSUME NEW n \in Nodes, NodeNext(n)
      PROVE  TypeOK' /\ IInv'
    BY <1>1, <1>3, <1>4, <1>5, <1>8 DEF NodeNext, Quiet
<1>9. ASSUME NEW m \in Collecting, CollectorNext(m)
      PROVE  TypeOK' /\ IInv'
    BY <1>2, <1>6, <1>9 DEF CollectorNext, QuietCollector, Submitting
<1> QED
    BY <1>6, <1>7, <1>8, <1>9 DEF Next, Submitting

\* The type invariant: the statuses, passes, workers, rows, directories and
\* reports are what the code can make them.
THEOREM TypeCorrect == Spec => []TypeOK
<1>1. Init => TypeOK /\ IInv
    BY InitInv
<1>2. TypeOK /\ IInv /\ [Next]_vars => TypeOK' /\ IInv'
    BY NextInv
<1> QED
    BY <1>1, <1>2, PTL DEF Spec

LEMMA Invariance == Spec => []IInv
<1>1. Init => TypeOK /\ IInv
    BY InitInv
<1>2. TypeOK /\ IInv /\ [Next]_vars => TypeOK' /\ IInv'
    BY NextInv
<1> QED
    BY <1>1, <1>2, PTL DEF Spec

\* Delayed analysis, and the alert, are always on a node that has the files,
\* through transfers, pulls that fail before their commit, crashes and lost answers
\* (drain.py, transfer_work_target), unless a pull of the root failed after it
\* (workload_manager/database.py:193-213).
THEOREM HasStorageHolds == Spec => []HasStorage
<1>1. IInv => HasStorage
    BY DEF IInv, Placed, PlacedAt, HasStorage
<1> QED
    BY <1>1, Invariance, PTL

\* Delayed analysis that is not due survives every transfer, pull and crash
\* (transfer_delayed_analysis, transfer_work_target).
THEOREM FarKeptHolds == Spec => []FarKept
<1>1. IInv => FarKept
    BY DEF IInv
<1> QED
    BY <1>1, Invariance, PTL

\* A submission that was accepted is analysed before its workload row goes
\* (clear_work_target, after transfer_work_target and a drain in between), unless a
\* pull of it failed behind its commit (workload_manager/database.py:193-213).
THEOREM SubmissionKeptHolds == Spec => []SubmissionKept
<1>1. IInv => SubmissionKept
    BY DEF IInv
<1> QED
    BY <1>1, Invariance, PTL
=============================================================================
