----------------------- MODULE WorkDistributionProofs -----------------------
(***************************************************************************)
(* Proofs about a collector service, for any submissions, groups, delivery *)
(* threads and faults: what left the staging directory is accounted for,   *)
(* its directory stays as long as somebody has to deliver it, groups with  *)
(* full delivery give nothing up, what is settled stays settled, and       *)
(* without faults nothing is delivered twice.                              *)
(***************************************************************************)
EXTENDS WorkDistribution, TLAPS

\* What the collection thread is at, and what a delivery thread hands to a node.
Shaped ==
    /\ collector.at = "idle" <=> collector.item = None
    /\ \A t \in Threads :
          thread[t].at \in {"sent", "refused", "failed"} => thread[t].item \in thread[t].batch

\* Where the directories are: a workload row is inserted after the rename into
\* incoming, and the cleanup works on submissions with a workload row.
Housed ==
    /\ \A s \in Submissions : place[s] = "unseen" => fate[s] = {}
    /\ \A s \in workload : place[s] \in {"incoming", "deleted"}
    /\ cleaner.listed \subseteq workload
    /\ cleaner.removed # None => cleaner.removed \in cleaner.listed
    /\ collector.at = "marked" => place[collector.item] = "staged"
    /\ collector.at = "moved" =>
          place[collector.item] = "incoming" /\ collector.item \notin workload
    /\ collector.at = "assigning" =>
          \/ place[collector.item] = "incoming"
          \/ place[collector.item] = "deleted" /\ "overtaken" \in fate[collector.item]

\* The groups that are still to be assigned to have no row of the submission.
Unassigned ==
    /\ \A g \in collector.left : rows[<<collector.item, g>>].status = "none"
    /\ collector.at # "assigning" => collector.left = {}

\* A key was marked for somebody who was collected, or interrupted while he was.
MarkedBy ==
    \A k \in marked : \E s \in Submissions :
        /\ key[s] = k
        /\ \/ place[s] \notin {"unseen", "staged"}
           \/ "interrupted" \in fate[s]
           \/ collector.item = s

Discarded ==
    \A s \in Submissions : place[s] = "discarded" => IsDuplicate(s) \/ fate[s] # {}

\* The part of Accounted that rows are about.
Assigned ==
    \A s \in Submissions :
        place[s] \in {"incoming", "deleted"} /\ fate[s] = {} =>
            \A g \in TargetGroups(s) :
                \/ Pending(rows[<<s, g>>])
                \/ "settled" \in log[<<s, g>>]
                \/ collector.item = s /\ (collector.at = "moved" \/ g \in collector.left)

\* What the cleanup listed has nothing left to deliver, now or later.
Listing ==
    \A s \in cleaner.listed :
        \/ "overtaken" \in fate[s]
        \/ collector.item # s /\ \A g \in Groups : ~Pending(rows[<<s, g>>])

\* The history agrees with the rows and with the threads.
Recorded ==
    /\ \A pair \in Pairs : Done(rows[pair]) => "settled" \in log[pair]
    /\ \A t \in Threads :
          /\ thread[t].at = "sent" => "delivered" \in log[<<thread[t].item, GroupOf[t]>>]
          /\ thread[t].at = "failed" => "refused" \in log[<<thread[t].item, GroupOf[t]>>]

IInv ==
    /\ Shaped /\ Housed /\ Unassigned /\ MarkedBy /\ Discarded /\ Assigned
    /\ Listing /\ Recorded /\ IncomingKept /\ FullDeliveryKept

\* The submission is still to be assigned to the group.
Ahead(s, g) ==
    \/ place[s] \in {"unseen", "staged"}
    \/ collector.item = s /\ (collector.at = "moved" \/ g \in collector.left)

\* Until then nobody has had to do with it in the group.
Fresh ==
    \A s \in Submissions, g \in Groups :
        Ahead(s, g) =>
            /\ log[<<s, g>>] = {}
            /\ \A t \in Threads : GroupOf[t] = g => s \notin thread[t].batch

\* What a thread has in its batch is locked by it, no other thread has it, and it was
\* delivered only if it is the item in hand.
Holds(t, s) ==
    LET pair == <<s, GroupOf[t]>>
    IN  /\ \/ rows[pair].status = "none"
           \/ rows[pair].status = "LOCKED" /\ rows[pair].lock = t
        /\ "delivered" \in log[pair] => thread[t].at = "sent" /\ thread[t].item = s
        /\ \A u \in Threads \ {t} : GroupOf[u] = GroupOf[t] => s \notin thread[u].batch
Held ==
    \A t \in Threads :
        /\ thread[t].at = "idle" => thread[t].batch = {}
        /\ \A s \in thread[t].batch : Holds(t, s)

\* What was delivered and is not settled is in the batch of a thread.
InHand ==
    \A s \in Submissions, g \in Groups :
        Pending(rows[<<s, g>>]) /\ "delivered" \in log[<<s, g>>] =>
            \E t \in Threads : GroupOf[t] = g /\ s \in thread[t].batch

Undisturbed ==
    /\ online = Groups
    /\ \A pair \in Pairs : rows[pair].status = "LOCKED" => ~rows[pair].old
    /\ \A pair \in Pairs : "twice" \notin log[pair]

\* As long as nothing fails.
Calm == Undisturbed /\ Fresh /\ Held /\ InHand

CalmInv == mishaps = 0 => Calm
-----------------------------------------------------------------------------
\* What becomes of one row is a row, and one of no submission stays none.
RowsTyped(r, w) ==
    /\ r \in [Pairs -> Row]
    /\ \A pair \in Pairs : r[pair].status # "none" => pair[1] \in w

LEMMA PairFacts ==
    ASSUME NEW s \in Submissions, NEW g \in Groups
    PROVE  <<s, g>> \in Pairs /\ <<s, g>>[1] = s /\ <<s, g>>[2] = g
BY DEF Pairs

LEMMA RowFacts ==
    ASSUME NEW row \in Row
    PROVE  /\ NoRow \in Row /\ NewRow \in Row
           /\ Handled(row, "ERROR") \in Row /\ Handled(row, "COMPLETED") \in Row
           /\ [row EXCEPT !.attempts = @ + 1] \in Row
           /\ [row EXCEPT !.old = TRUE] \in Row
           /\ [row EXCEPT !.status = "READY", !.lock = None, !.old = FALSE] \in Row
           /\ \A t \in Threads : [row EXCEPT !.status = "LOCKED", !.lock = t, !.old = FALSE] \in Row
<1>1. NoRow \in Row /\ NewRow \in Row
    BY DEF Row, NoRow, NewRow
<1>2. ASSUME NEW status \in {"ERROR", "COMPLETED", "READY", "LOCKED"}, NEW lock \in Threads \cup {None}
      PROVE  [row EXCEPT !.status = status, !.lock = lock, !.old = FALSE] \in Row
  <2> DEFINE a == [row EXCEPT !.status = status]
             b == [a EXCEPT !.lock = lock]
  <2>1. a \in Row
      BY DEF Row
  <2>2. b \in Row
    <3> HIDE DEF a
    <3> QED
      BY <2>1 DEF Row
  <2>3. [b EXCEPT !.old = FALSE] \in Row
    <3> HIDE DEF b
    <3> QED
      BY <2>2 DEF Row
  <2> QED
      BY <2>3
<1>3. [row EXCEPT !.attempts = @ + 1] \in Row
    BY DEF Row
<1>4. [row EXCEPT !.old = TRUE] \in Row
    BY DEF Row
<1> QED
    BY <1>1, <1>2, <1>3, <1>4 DEF Handled

LEMMA SetStatusTyped ==
    ASSUME RowsTyped(rows, workload), NEW s \in Submissions, NEW g \in Groups,
           NEW status \in {"ERROR", "COMPLETED"}
    PROVE  RowsTyped(SetStatus(s, g, status), workload)
<1>1. rows[<<s, g>>] \in Row
    BY PairFacts DEF RowsTyped
<1>2. Handled(rows[<<s, g>>], status) \in Row
    BY <1>1, RowFacts
<1> QED
    BY <1>2, PairFacts DEF RowsTyped, SetStatus

LEMMA MarkErrorTyped ==
    ASSUME RowsTyped(rows, workload), NEW g \in Groups
    PROVE  RowsTyped(MarkError(g), workload)
<1>1. \A pair \in Pairs : Handled(rows[pair], "ERROR") \in Row
    BY RowFacts DEF RowsTyped
<1> QED
    BY <1>1 DEF RowsTyped, MarkError

LEMMA ReleaseLocksTyped ==
    ASSUME RowsTyped(rows, workload), NEW groups
    PROVE  RowsTyped(ReleaseLocks(groups), workload)
<1>1. \A pair \in Pairs :
          [rows[pair] EXCEPT !.status = "READY", !.lock = None, !.old = FALSE] \in Row
    BY RowFacts DEF RowsTyped
<1> QED
    BY <1>1 DEF RowsTyped, ReleaseLocks

LEMMA RowsTypedStep ==
    ASSUME TypeOK, Shaped, [Next]_vars
    PROVE  RowsTyped(rows', workload')
<1> DEFINE W == workload
<1>0. RowsTyped(rows, W) /\ W \subseteq Submissions
    BY DEF TypeOK, RowsTyped
<1> HIDE DEF W
<1>1. CASE UNCHANGED <<rows, workload>>
    BY <1>0, <1>1 DEF W
<1>2. CASE InsertWorkload
  <2>1. rows' = rows /\ workload \subseteq workload'
      BY <1>2 DEF InsertWorkload
  <2> QED
      BY <2>1, <1>0 DEF RowsTyped, W
<1>3. ASSUME NEW g \in Groups, AssignToGroup(g)
      PROVE  RowsTyped(rows', workload')
  <2>1. /\ collector.item \in Submissions \cap W
        /\ rows' = [rows EXCEPT ![<<collector.item, g>>] = NewRow] /\ workload' = workload
      BY <1>3, <1>0 DEF AssignToGroup, W
  <2>2. NewRow \in Row
      BY DEF Row, NoRow, NewRow
  <2> QED
      BY <2>1, <2>2, <1>0, PairFacts DEF RowsTyped, W
<1>4. ASSUME NEW t \in Threads, Claim(t)
      PROVE  RowsTyped(rows', workload')
  <2>1. PICK batch :
           rows' = [pair \in Pairs |->
                      IF pair[1] \in batch \ Own(t) /\ pair[2] = GroupOf[t]
                      THEN [rows[pair] EXCEPT !.status = "LOCKED", !.lock = t, !.old = FALSE]
                      ELSE rows[pair]] /\ batch \in IF Own(t) # {} THEN {Own(t)} ELSE Batches(Claimable(GroupOf[t]))
      BY <1>4 DEF Claim
  <2>2. batch \ Own(t) \subseteq Claimable(GroupOf[t])
      BY <2>1 DEF Batches
  <2>3. \A pair \in Pairs : pair[1] \in batch \ Own(t) /\ pair[2] = GroupOf[t] =>
                            rows[pair].status # "none"
      BY <2>2 DEF Claimable, Pairs
  <2>4. \A pair \in Pairs :
            [rows[pair] EXCEPT !.status = "LOCKED", !.lock = t, !.old = FALSE] \in Row
      BY <1>0, RowFacts DEF RowsTyped
  <2>5. workload' = workload
      BY <1>4 DEF Claim
  <2> QED
      BY <2>1, <2>3, <2>4, <2>5, <1>0 DEF RowsTyped, W
<1>5. ASSUME NEW t \in Threads, DropQueue(t)
      PROVE  RowsTyped(rows', workload')
    BY <1>5, <1>0, MarkErrorTyped, DistributionAssumption DEF DropQueue, W
<1>6. ASSUME NEW t \in Threads, NEW s \in Submissions, SettleUnsent(t, s)
      PROVE  RowsTyped(rows', workload')
    BY <1>6, <1>0, SetStatusTyped, DistributionAssumption DEF SettleUnsent, W
<1>7. ASSUME NEW t \in Threads, RecordAttempt(t)
      PROVE  RowsTyped(rows', workload')
  <2> DEFINE p == <<thread[t].item, GroupOf[t]>>
  <2>1. p \in Pairs
      BY <1>7, DistributionAssumption DEF RecordAttempt, Shaped, TypeOK, Pairs
  <2>2. workload' = workload /\ rows' = [rows EXCEPT ![p] = Attempted(rows[p])]
      BY <1>7 DEF RecordAttempt
  <2>3. rows[p] \in Row
      BY <2>1, <1>0 DEF RowsTyped
  <2>4. Attempted(rows[p]) \in Row /\ Attempted(rows[p]).status = rows[p].status
      BY <2>3 DEF Attempted, Row
  <2> HIDE DEF p
  <2> QED
      BY <2>1, <2>2, <2>4, <1>0 DEF RowsTyped, W
<1>8. ASSUME NEW t \in Threads, Settle(t)
      PROVE  RowsTyped(rows', workload')
  <2>1. thread[t].item \in Submissions /\ GroupOf[t] \in Groups
      BY <1>8, DistributionAssumption DEF Settle, Shaped, TypeOK
  <2> QED
      BY <1>8, <2>1, <1>0, SetStatusTyped DEF Settle, W
<1>9. CASE DeleteWorkload
  <2>1. NoRow \in Row /\ NoRow.status = "none"
      BY DEF Row, NoRow
  <2> QED
      BY <1>9, <2>1, <1>0 DEF DeleteWorkload, RowsTyped, W
<1>10. CASE Restart
    BY <1>10, <1>0, ReleaseLocksTyped DEF Restart, W
<1>11. ASSUME NEW t \in Threads, Age(t)
       PROVE  RowsTyped(rows', workload')
  <2>1. \A pair \in Pairs : [rows[pair] EXCEPT !.old = TRUE] \in Row
      BY <1>0, RowFacts DEF RowsTyped
  <2> QED
      BY <1>11, <2>1, <1>0 DEF Age, RowsTyped, W
<1>12. ASSUME NEW g \in Groups, ForeignService(g)
       PROVE  RowsTyped(rows', workload')
    BY <1>12, <1>0, ReleaseLocksTyped, MarkErrorTyped DEF ForeignService, W
<1>13. CASE CollectionLoop
  <2>1. ASSUME NEW s \in Submissions, Collect(s) \/ ScheduleError(s)
        PROVE  UNCHANGED <<rows, workload>>
      BY <2>1 DEF Collect, ScheduleError
  <2>2. PrepareFiles => UNCHANGED <<rows, workload>>
      BY DEF PrepareFiles
  <2> QED
      BY <2>1, <2>2, <1>1, <1>2, <1>3, <1>13 DEF CollectionLoop
<1>14. CASE CleanupLoop
  <2>1. ListCompleted \/ (\E s \in Submissions : DeleteDirectory(s)) => UNCHANGED <<rows, workload>>
      BY DEF ListCompleted, DeleteDirectory
  <2> QED
      BY <2>1, <1>1, <1>9, <1>14 DEF CleanupLoop
<1>15. ASSUME NEW t \in Threads, DeliveryLoop(t)
       PROVE  RowsTyped(rows', workload')
  <2>1. (\E s \in Submissions : Submit(t, s)) => UNCHANGED <<rows, workload>>
      BY DEF Submit
  <2> QED
      BY <2>1, <1>1, <1>4, <1>5, <1>6, <1>7, <1>8, <1>15 DEF DeliveryLoop
<1>16. ASSUME NEW g \in Groups, GoOnline(g) \/ GoOffline(g)
       PROVE  UNCHANGED <<rows, workload>>
    BY <1>16 DEF GoOnline, GoOffline
<1>17. (\E s \in Submissions : Stage(s)) \/ (\E k \in Keys : ForgetKey(k)) \/ UNCHANGED vars
          => UNCHANGED <<rows, workload>>
    BY DEF Stage, ForgetKey, vars
<1> QED
    BY <1>1, <1>10, <1>11, <1>12, <1>13, <1>14, <1>15, <1>16, <1>17 DEF Next, Progress

\* The rest of TypeOK: what is neither a row nor with a thread ...
LEMMA TableTypes ==
    ASSUME TypeOK, Shaped, [Next]_vars
    PROVE  /\ place' \in [Submissions -> Places]
           /\ key' \in [Submissions -> Keys \cup {NoKey}]
           /\ wanted' \in [Submissions -> SUBSET Groups]
           /\ marked' \subseteq Keys
           /\ workload' \subseteq Submissions
           /\ online' \subseteq Groups
<1> USE DistributionAssumption DEF TypeOK, Shaped, Places, submitted
<1>1. ASSUME NEW s \in Submissions, Stage(s) \/ Collect(s) \/ ScheduleError(s) \/ DeleteDirectory(s)
      PROVE  /\ place' \in [Submissions -> Places] /\ key' \in [Submissions -> Keys \cup {NoKey}]
             /\ wanted' \in [Submissions -> SUBSET Groups] /\ marked' \subseteq Keys
             /\ UNCHANGED <<workload, online>>
  <2>1. CASE Stage(s)
      BY <2>1 DEF Stage
  <2>2. CASE Collect(s)
      BY <2>2 DEF Collect
  <2>3. CASE ScheduleError(s)
      BY <2>3 DEF ScheduleError
  <2>4. CASE DeleteDirectory(s)
      BY <2>4 DEF DeleteDirectory
  <2> QED
      BY <1>1, <2>1, <2>2, <2>3, <2>4
<1>2. CASE PrepareFiles \/ InsertWorkload \/ ListCompleted \/ DeleteWorkload \/ Restart
    BY <1>2 DEF PrepareFiles, InsertWorkload, ListCompleted, DeleteWorkload, Restart
<1>3. ASSUME NEW g \in Groups, AssignToGroup(g) \/ GoOnline(g) \/ GoOffline(g) \/ ForeignService(g)
      PROVE  UNCHANGED <<place, submitted, marked, workload>> /\ online' \subseteq Groups
    BY <1>3 DEF AssignToGroup, GoOnline, GoOffline, ForeignService
<1>4. ASSUME NEW t \in Threads, DeliveryLoop(t) \/ Age(t)
      PROVE  UNCHANGED <<place, submitted, marked, workload, online>>
    BY <1>4 DEF DeliveryLoop, Claim, DropQueue, RecordAttempt, Settle, SettleUnsent, Submit, Age
<1>5. ASSUME NEW k \in Keys, ForgetKey(k)
      PROVE  UNCHANGED <<place, submitted, workload, online>> /\ marked' \subseteq Keys
    BY <1>5 DEF ForgetKey
<1>6. CASE UNCHANGED vars
    BY <1>6 DEF vars
<1> QED
    BY <1>1, <1>2, <1>3, <1>4, <1>5, <1>6 DEF Next, Progress, CollectionLoop, CleanupLoop

\* ... the history ...
LEMMA HistoryTypes ==
    ASSUME TypeOK, Shaped, [Next]_vars
    PROVE  /\ mishaps' \in 0 .. MaxMishaps
           /\ fate' \in [Submissions -> SUBSET Fates]
           /\ log' \in [Pairs -> SUBSET Events]
<1> USE DistributionAssumption DEF TypeOK, Mishap, Fates, Befalls
<1>1. ASSUME NEW event \in Events, NEW pairs
      PROVE  Note(event, pairs) \in [Pairs -> SUBSET Events]
    BY <1>1 DEF Note
<1>2. "settled" \in Events /\ "refused" \in Events
    BY DEF Events
<1>3. ASSUME NEW s \in Submissions, Stage(s) \/ Collect(s) \/ ScheduleError(s) \/ DeleteDirectory(s)
      PROVE  /\ mishaps' \in 0 .. MaxMishaps /\ fate' \in [Submissions -> SUBSET Fates]
             /\ UNCHANGED log
    BY <1>3 DEF Stage, Collect, ScheduleError, DeleteDirectory
<1>4. CASE PrepareFiles \/ InsertWorkload \/ ListCompleted \/ DeleteWorkload \/ Restart
    BY <1>4 DEF PrepareFiles, InsertWorkload, ListCompleted, DeleteWorkload, Restart
<1>5. ASSUME NEW g \in Groups, AssignToGroup(g) \/ GoOnline(g) \/ GoOffline(g) \/ ForeignService(g)
      PROVE  /\ mishaps' \in 0 .. MaxMishaps /\ UNCHANGED fate
             /\ log' \in [Pairs -> SUBSET Events]
    BY <1>1, <1>2, <1>5 DEF AssignToGroup, GoOnline, GoOffline, ForeignService
<1>6. ASSUME NEW t \in Threads, DeliveryLoop(t) \/ Age(t)
      PROVE  /\ mishaps' \in 0 .. MaxMishaps /\ UNCHANGED fate
             /\ log' \in [Pairs -> SUBSET Events]
  <2>1. CASE Claim(t) \/ DropQueue(t) \/ RecordAttempt(t) \/ Settle(t)
    <3>1. mishaps' = mishaps /\ fate' = fate
        BY <2>1 DEF Claim, DropQueue, RecordAttempt, Settle
    <3>2. Claim(t) => log' = log
        BY DEF Claim
    <3>3. DropQueue(t) \/ Settle(t) => \E pairs : log' = Note("settled", pairs)
        BY DEF DropQueue, Settle
    <3>4. RecordAttempt(t) => log' = log \/ \E pairs : log' = Note("refused", pairs)
        BY DEF RecordAttempt
    <3> QED
        BY <1>1, <1>2, <2>1, <3>1, <3>2, <3>3, <3>4
  <2>4. CASE Age(t)
      BY <2>4 DEF Age
  <2>2. ASSUME NEW s \in Submissions, SettleUnsent(t, s)
        PROVE  mishaps' = mishaps /\ fate' = fate /\ log' \in [Pairs -> SUBSET Events]
      BY <1>1, <1>2, <2>2 DEF SettleUnsent
  <2>3. ASSUME NEW s \in Submissions, Submit(t, s)
        PROVE  /\ mishaps' \in 0 .. MaxMishaps /\ fate' = fate
               /\ log' \in [Pairs -> SUBSET Events]
    <3>1. mishaps' \in 0 .. MaxMishaps /\ fate' = fate
        BY <2>3 DEF Submit
    <3>2. PICK told \in SUBSET Events :
              log' = [log EXCEPT ![<<s, GroupOf[t]>>] = @ \cup told]
      <4>1. PICK arrives \in BOOLEAN, outcome \in {"sent", "refused", "failed"} :
                log' = [log EXCEPT ![<<s, GroupOf[t]>>] =
                          @ \cup (IF arrives THEN {"delivered"} ELSE {})
                            \cup (IF arrives /\ "delivered" \in @ THEN {"twice"} ELSE {})
                            \cup (IF outcome = "failed" THEN {"refused"} ELSE {})]
          BY <2>3 DEF Submit
      <4> DEFINE told == (IF arrives THEN {"delivered"} ELSE {})
                     \cup (IF arrives /\ "delivered" \in log[<<s, GroupOf[t]>>] THEN {"twice"} ELSE {})
                     \cup (IF outcome = "failed" THEN {"refused"} ELSE {})
      <4>2. told \in SUBSET Events
          BY DEF Events
      <4>3. log' = [log EXCEPT ![<<s, GroupOf[t]>>] = @ \cup told]
          BY <4>1
      <4> QED
          BY <4>2, <4>3
    <3> QED
        BY <3>1, <3>2
  <2> QED
      BY <1>6, <2>1, <2>2, <2>3, <2>4 DEF DeliveryLoop
<1>7. ASSUME NEW k \in Keys, ForgetKey(k)
      PROVE  UNCHANGED <<mishaps, fate, log>>
    BY <1>7 DEF ForgetKey
<1>8. CASE UNCHANGED vars
    BY <1>8 DEF vars
<1> QED
    BY <1>3, <1>4, <1>5, <1>6, <1>7, <1>8 DEF Next, Progress, CollectionLoop, CleanupLoop

\* ... and the threads.
LEMMA CollectorShape ==
    ASSUME TypeOK, Shaped, [Next]_vars
    PROVE  /\ collector' \in [at : {"idle", "marked", "moved", "assigning"},
                              item : Submissions \cup {None}, left : SUBSET Groups]
           /\ (collector.at = "idle" <=> collector.item = None)'
           /\ cleaner' \in [listed : SUBSET Submissions, removed : Submissions \cup {None}]
<1> USE DistributionAssumption DEF TypeOK, Shaped, Resting, NothingListed
<1>1. ASSUME NEW s \in Submissions, Stage(s) \/ Collect(s) \/ ScheduleError(s) \/ DeleteDirectory(s)
      PROVE  /\ collector' \in [at : {"idle", "marked", "moved", "assigning"},
                                item : Submissions \cup {None}, left : SUBSET Groups]
             /\ (collector.at = "idle" <=> collector.item = None)'
             /\ cleaner' \in [listed : SUBSET Submissions, removed : Submissions \cup {None}]
  <2>1. CASE Stage(s) \/ ScheduleError(s)
      BY <2>1 DEF Stage, ScheduleError
  <2>2. CASE Collect(s)
      BY <2>2 DEF Collect
  <2>3. CASE DeleteDirectory(s)
      BY <2>3 DEF DeleteDirectory
  <2> QED
      BY <1>1, <2>1, <2>2, <2>3
<1>2. CASE PrepareFiles
    BY <1>2 DEF PrepareFiles
<1>3. CASE InsertWorkload
  <2>1. TargetGroups(collector.item) \subseteq Groups
      BY <1>3 DEF InsertWorkload, TargetGroups
  <2> QED
      BY <1>3, <2>1 DEF InsertWorkload
<1>4. CASE ListCompleted
  <2>1. Completed \subseteq Submissions
      BY DEF Completed
  <2> QED
      BY <1>4, <2>1 DEF ListCompleted
<1>5. CASE DeleteWorkload \/ Restart
    BY <1>5 DEF DeleteWorkload, Restart
<1>6. ASSUME NEW g \in Groups, AssignToGroup(g)
      PROVE  /\ collector' \in [at : {"idle", "marked", "moved", "assigning"},
                                item : Submissions \cup {None}, left : SUBSET Groups]
             /\ (collector.at = "idle" <=> collector.item = None)'
             /\ UNCHANGED cleaner
    BY <1>6 DEF AssignToGroup
<1>7. ASSUME NEW t \in Threads, DeliveryLoop(t) \/ Age(t)
      PROVE  UNCHANGED <<collector, cleaner>>
    BY <1>7 DEF DeliveryLoop, Claim, DropQueue, RecordAttempt, Settle, SettleUnsent, Submit, Age
<1>8. \/ \E g \in Groups : GoOnline(g) \/ GoOffline(g) \/ ForeignService(g)
      \/ \E k \in Keys : ForgetKey(k)
      \/ UNCHANGED vars
      => UNCHANGED <<collector, cleaner>>
    BY DEF GoOnline, GoOffline, ForeignService, ForgetKey, vars
<1>9. UNCHANGED <<collector, cleaner>> =>
      /\ collector' \in [at : {"idle", "marked", "moved", "assigning"},
                         item : Submissions \cup {None}, left : SUBSET Groups]
      /\ (collector.at = "idle" <=> collector.item = None)'
      /\ cleaner' \in [listed : SUBSET Submissions, removed : Submissions \cup {None}]
    OBVIOUS
<1> QED
  <2>1. CASE CollectionLoop
      BY <2>1, <1>1, <1>2, <1>3, <1>6, <1>9 DEF CollectionLoop
  <2>2. CASE CleanupLoop
      BY <2>2, <1>1, <1>4, <1>5, <1>9 DEF CleanupLoop
  <2>3. CASE Restart \/ \E s \in Submissions : Stage(s)
      BY <2>3, <1>1, <1>5
  <2>4. CASE ~(CollectionLoop \/ CleanupLoop \/ Restart \/ \E s \in Submissions : Stage(s))
      BY <2>4, <1>7, <1>8, <1>9 DEF Next, Progress
  <2> QED
      BY <2>1, <2>2, <2>3, <2>4

LEMMA ThreadShape ==
    ASSUME TypeOK, Shaped, [Next]_vars
    PROVE  /\ thread' \in [Threads -> [at : ThreadPoints, batch : SUBSET Submissions,
                                       item : Submissions \cup {None}]]
           /\ \A t \in Threads :
                 thread'[t].at \in {"sent", "refused", "failed"} => thread'[t].item \in thread'[t].batch
<1> DEFINE State == [at : ThreadPoints, batch : SUBSET Submissions, item : Submissions \cup {None}]
           Sound(x) == x \in State /\ (x.at \in {"sent", "refused", "failed"} => x.item \in x.batch)
<1>0. ASSUME NEW t \in Threads, NEW x, Sound(x), thread' = [thread EXCEPT ![t] = x]
      PROVE  thread' \in [Threads -> State] /\ \A u \in Threads : Sound(thread'[u])
    BY <1>0 DEF TypeOK, Shaped
<1>1. ASSUME NEW t \in Threads, NEW s
      PROVE  Sound(After(t, s))
    BY DEF TypeOK, After, Idle, ThreadPoints
<1>2. ASSUME NEW t \in Threads, DeliveryLoop(t) \/ Age(t)
      PROVE  thread' = thread \/ \E x : Sound(x) /\ thread' = [thread EXCEPT ![t] = x]
  <2> thread[t] \in State
      BY DEF TypeOK
  <2>1. CASE Claim(t)
    <3>1. PICK batch \in SUBSET Submissions :
              thread' = [thread EXCEPT ![t].at = "batch", ![t].batch = batch]
      <4>1. Own(t) \subseteq Submissions /\ Claimable(GroupOf[t]) \subseteq Submissions
          BY DEF Own, Claimable
      <4> QED
          BY <2>1, <4>1 DEF Claim, Batches
    <3> DEFINE x == [thread[t] EXCEPT !.at = "batch", !.batch = batch]
    <3>2. Sound(x)
        BY DEF ThreadPoints
    <3>3. thread' = [thread EXCEPT ![t] = x]
        BY <3>1
    <3> QED
        BY <3>2, <3>3
  <2>2. CASE DropQueue(t) \/ Age(t)
      BY <2>2 DEF DropQueue, Age
  <2>3. CASE RecordAttempt(t)
    <3> DEFINE x == [thread[t] EXCEPT !.at = "failed"]
    <3>1. Sound(x)
        BY <2>3 DEF RecordAttempt, Shaped, ThreadPoints
    <3>2. thread' = [thread EXCEPT ![t] = x]
          \/ thread' = [thread EXCEPT ![t] = After(t, thread[t].item)]
        BY <2>3 DEF RecordAttempt
    <3> QED
        BY <3>1, <3>2, <1>1
  <2>4. CASE Settle(t)
      BY <2>4, <1>1 DEF Settle
  <2>5. ASSUME NEW s \in Submissions, SettleUnsent(t, s)
        PROVE  \E x : Sound(x) /\ thread' = [thread EXCEPT ![t] = x]
      BY <2>5, <1>1 DEF SettleUnsent
  <2>6. ASSUME NEW s \in Submissions, Submit(t, s)
        PROVE  \E x : Sound(x) /\ thread' = [thread EXCEPT ![t] = x]
    <3>1. PICK outcome \in {"sent", "refused", "failed"} :
              s \in thread[t].batch /\ thread' = [thread EXCEPT ![t].at = outcome, ![t].item = s]
        BY <2>6 DEF Submit
    <3> DEFINE x == [thread[t] EXCEPT !.at = outcome, !.item = s]
    <3>2. Sound(x)
        BY <3>1 DEF ThreadPoints
    <3>3. thread' = [thread EXCEPT ![t] = x]
        BY <3>1
    <3> QED
        BY <3>2, <3>3
  <2> QED
      BY <1>2, <2>1, <2>2, <2>3, <2>4, <2>5, <2>6 DEF DeliveryLoop
<1>3. CASE Restart
    BY <1>3 DEF Restart, Idle, ThreadPoints
<1>4. \/ \E s \in Submissions : Stage(s) \/ Collect(s) \/ ScheduleError(s) \/ DeleteDirectory(s)
      \/ PrepareFiles \/ InsertWorkload \/ ListCompleted \/ DeleteWorkload
      \/ \E g \in Groups : AssignToGroup(g) \/ GoOnline(g) \/ GoOffline(g) \/ ForeignService(g)
      \/ \E k \in Keys : ForgetKey(k)
      \/ UNCHANGED vars
      => UNCHANGED thread
    BY DEF Stage, Collect, ScheduleError, DeleteDirectory, PrepareFiles, InsertWorkload, ListCompleted,
           DeleteWorkload, AssignToGroup, GoOnline, GoOffline, ForeignService, ForgetKey, vars
<1>5. UNCHANGED thread => thread' \in [Threads -> State] /\ \A u \in Threads : Sound(thread'[u])
    BY DEF TypeOK, Shaped
<1>6. thread' \in [Threads -> State] /\ \A u \in Threads : Sound(thread'[u])
  <2> HIDE DEF State, Sound
  <2>1. CASE UNCHANGED thread
      BY <2>1, <1>5
  <2>2. CASE \E t \in Threads : \E x : Sound(x) /\ thread' = [thread EXCEPT ![t] = x]
      BY <2>2, <1>0
  <2>3. CASE Restart
      BY <2>3, <1>3 DEF State, Sound
  <2> QED
      BY <2>1, <2>2, <2>3, <1>2, <1>4 DEF Next, Progress, CollectionLoop, CleanupLoop
<1> QED
    BY <1>6

LEMMA TypeStep ==
    ASSUME TypeOK, Shaped, [Next]_vars
    PROVE  TypeOK' /\ Shaped'
BY RowsTypedStep, TableTypes, HistoryTypes, CollectorShape, ThreadShape DEF TypeOK, Shaped, RowsTyped

LEMMA TypeInit == Init => TypeOK /\ Shaped
BY DistributionAssumption
   DEF Init, TypeOK, Shaped, Places, Row, NoRow, Resting, NothingListed, Idle, ThreadPoints

-----------------------------------------------------------------------------
\* What a step does to one row and its history: nothing that matters, a settlement, an
\* assignment or a removal.
Alike(pair) ==
    /\ Pending(rows'[pair]) <=> Pending(rows[pair])
    /\ Done(rows'[pair]) <=> Done(rows[pair])
    /\ rows'[pair].status = "none" <=> rows[pair].status = "none"
    /\ "settled" \in log'[pair] <=> "settled" \in log[pair]
Settles(pair) ==
    /\ rows[pair].status # "none" /\ Done(rows'[pair]) /\ "settled" \in log'[pair]
    /\ \/ pair[2] \notin FullDelivery \ Sampled
       \/ place[pair[1]] # "incoming"
       \/ \E t \in Threads :
             thread[t].at \in {"sent", "failed"} /\ pair = <<thread[t].item, GroupOf[t]>>
Appears(pair) ==
    /\ collector.at = "assigning" /\ pair[1] = collector.item /\ pair[2] \in collector.left
    /\ rows'[pair] = NewRow /\ UNCHANGED <<log, place, fate>>
    /\ \E g \in Groups : AssignToGroup(g) /\ pair = <<collector.item, g>>
Vanishes(pair) ==
    DeleteWorkload /\ pair[1] = cleaner.removed /\ rows'[pair] = NoRow /\ UNCHANGED log

RowChange(pair) ==
    /\ log[pair] \subseteq log'[pair]
    /\ Alike(pair) \/ Settles(pair) \/ Appears(pair) \/ Vanishes(pair)

\* A batch has rows that are pending.
LEMMA ClaimedRows ==
    ASSUME TypeOK, NEW t \in Threads, NEW pair \in Pairs, Claim(t)
    PROVE  \/ rows'[pair] = rows[pair]
           \/ /\ rows'[pair] = [rows[pair] EXCEPT !.status = "LOCKED", !.lock = t, !.old = FALSE]
              /\ pair[2] = GroupOf[t] /\ pair[1] \in Claimable(GroupOf[t])
              /\ pair[1] \in thread'[t].batch
<1>1. PICK batch :
         /\ rows' = [q \in Pairs |->
                    IF q[1] \in batch \ Own(t) /\ q[2] = GroupOf[t]
                    THEN [rows[q] EXCEPT !.status = "LOCKED", !.lock = t, !.old = FALSE]
                    ELSE rows[q]]
         /\ batch \in IF Own(t) # {} THEN {Own(t)} ELSE Batches(Claimable(GroupOf[t]))
         /\ thread' = [thread EXCEPT ![t].at = "batch", ![t].batch = batch]
    BY DEF Claim
<1>2. batch \ Own(t) \subseteq Claimable(GroupOf[t])
    BY <1>1 DEF Batches
<1>3. thread'[t].batch = batch
    BY <1>1 DEF TypeOK
<1> QED
    BY <1>1, <1>2, <1>3

LEMMA SettlementChange ==
    ASSUME TypeOK, NEW s \in Submissions, NEW g \in Groups, NEW status \in {"ERROR", "COMPLETED"},
           rows' = SetStatus(s, g, status), log' = Note("settled", Existing({<<s, g>>})),
           NEW pair \in Pairs
    PROVE  /\ log[pair] \subseteq log'[pair]
           /\ \/ Alike(pair)
              \/ /\ pair = <<s, g>> /\ rows[pair].status # "none"
                 /\ Done(rows'[pair]) /\ "settled" \in log'[pair]
<1>1. log'[pair] = IF pair = <<s, g>> /\ rows[pair].status # "none"
                   THEN log[pair] \cup {"settled"} ELSE log[pair]
    BY DEF Note, Existing
<1>2. rows'[pair] = IF pair = <<s, g>> /\ rows[pair].status # "none"
                    THEN Handled(rows[pair], status) ELSE rows[pair]
    BY DEF SetStatus, TypeOK
<1>3. rows[pair] \in Row
    BY DEF TypeOK
<1>4. Done(Handled(rows[pair], status))
    BY <1>3 DEF Handled, Done, Row
<1> QED
    BY <1>1, <1>2, <1>4 DEF Alike

LEMMA QueueDropChange ==
    ASSUME TypeOK, NEW g \in Groups, rows' = MarkError(g),
           log' = Note("settled", Existing(Submissions \X {g})), NEW pair \in Pairs
    PROVE  /\ log[pair] \subseteq log'[pair]
           /\ \/ Alike(pair)
              \/ /\ pair[2] = g /\ rows[pair].status # "none"
                 /\ Done(rows'[pair]) /\ "settled" \in log'[pair]
<1>1. log'[pair] = IF pair[2] = g /\ rows[pair].status # "none"
                   THEN log[pair] \cup {"settled"} ELSE log[pair]
    BY DEF Note, Existing, Pairs
<1>2. rows'[pair] = IF pair[2] = g /\ rows[pair].status # "none"
                    THEN Handled(rows[pair], "ERROR") ELSE rows[pair]
    BY DEF MarkError
<1>3. rows[pair] \in Row
    BY DEF TypeOK
<1>4. Done(Handled(rows[pair], "ERROR"))
    BY <1>3 DEF Handled, Done, Row
<1> QED
    BY <1>1, <1>2, <1>4 DEF Alike

LEMMA ReleaseChange ==
    ASSUME TypeOK, NEW groups, rows' = ReleaseLocks(groups), log' = log, NEW pair \in Pairs
    PROVE  Alike(pair)
<1>1. rows[pair] \in Row
    BY DEF TypeOK
<1>2. \/ rows'[pair] = rows[pair]
      \/ /\ rows[pair].status = "LOCKED"
         /\ rows'[pair] = [rows[pair] EXCEPT !.status = "READY", !.lock = None, !.old = FALSE]
    BY DEF ReleaseLocks
<1>3. [rows[pair] EXCEPT !.status = "READY", !.lock = None, !.old = FALSE].status = "READY"
    BY <1>1 DEF Row
<1> QED
    BY <1>2, <1>3 DEF Alike, Pending, Done

LEMMA RowStep ==
    ASSUME TypeOK, Shaped, [Next]_vars, NEW pair \in Pairs
    PROVE  RowChange(pair)
<1> USE DistributionAssumption
<1>0. rows[pair] \in Row
    BY DEF TypeOK
<1>1. CASE UNCHANGED <<rows, log>>
    BY <1>1 DEF RowChange, Alike
<1>2. ASSUME NEW g \in Groups, AssignToGroup(g)
      PROVE  RowChange(pair)
  <2>1. CASE pair = <<collector.item, g>>
    <3>1. rows'[pair] = NewRow
        BY <1>2, <2>1 DEF AssignToGroup, TypeOK
    <3> QED
        BY <1>2, <2>1, <3>1 DEF RowChange, Appears, AssignToGroup
  <2>2. CASE pair # <<collector.item, g>>
      BY <1>2, <2>2 DEF AssignToGroup, TypeOK, RowChange, Alike
  <2> QED
      BY <2>1, <2>2
<1>3. ASSUME NEW t \in Threads, Claim(t)
      PROVE  RowChange(pair)
  <2>1. log' = log
      BY <1>3 DEF Claim
  <2>2. [rows[pair] EXCEPT !.status = "LOCKED", !.lock = t, !.old = FALSE].status = "LOCKED"
      BY <1>0 DEF Row
  <2>3. pair[2] = GroupOf[t] /\ pair[1] \in Claimable(GroupOf[t]) => Pending(rows[pair])
      BY DEF Claimable, Pending, Pairs
  <2> QED
      BY <1>3, <2>1, <2>2, <2>3, ClaimedRows DEF RowChange, Alike, Pending, Done
<1>4. ASSUME NEW t \in Threads, DropQueue(t)
      PROVE  RowChange(pair)
    BY <1>4, QueueDropChange DEF DropQueue, RowChange, Settles
<1>5. ASSUME NEW t \in Threads, NEW s \in Submissions, SettleUnsent(t, s)
      PROVE  RowChange(pair)
  <2>1. /\ log' = Note("settled", Existing({<<s, GroupOf[t]>>}))
        /\ \/ place[s] # "incoming" /\ rows' = SetStatus(s, GroupOf[t], "ERROR")
           \/ GroupOf[t] \in Sampled /\ rows' = SetStatus(s, GroupOf[t], "COMPLETED")
      BY <1>5 DEF SettleUnsent
  <2>2. GroupOf[t] \in Groups
      OBVIOUS
  <2>3. /\ log[pair] \subseteq log'[pair]
        /\ \/ Alike(pair)
           \/ /\ pair = <<s, GroupOf[t]>> /\ rows[pair].status # "none"
              /\ Done(rows'[pair]) /\ "settled" \in log'[pair]
    <3>1. CASE rows' = SetStatus(s, GroupOf[t], "ERROR")
        BY <2>1, <2>2, <3>1, SettlementChange
    <3>2. CASE rows' = SetStatus(s, GroupOf[t], "COMPLETED")
        BY <2>1, <2>2, <3>2, SettlementChange
    <3> QED
        BY <2>1, <3>1, <3>2
  <2>4. place[s] # "incoming" \/ GroupOf[t] \in Sampled
      BY <2>1
  <2> QED
      BY <2>3, <2>4 DEF RowChange, Settles
<1>6. ASSUME NEW t \in Threads, NEW s \in Submissions, Submit(t, s)
      PROVE  RowChange(pair)
  <2>1. rows' = rows
      BY <1>6 DEF Submit
  <2>2. PICK told : "settled" \notin told /\ log' = [log EXCEPT ![<<s, GroupOf[t]>>] = @ \cup told]
    <3>1. PICK arrives \in BOOLEAN, outcome \in {"sent", "refused", "failed"} :
                log' = [log EXCEPT ![<<s, GroupOf[t]>>] =
                          @ \cup (IF arrives THEN {"delivered"} ELSE {})
                            \cup (IF arrives /\ "delivered" \in @ THEN {"twice"} ELSE {})
                            \cup (IF outcome = "failed" THEN {"refused"} ELSE {})]
        BY <1>6 DEF Submit
    <3> DEFINE told == (IF arrives THEN {"delivered"} ELSE {})
                   \cup (IF arrives /\ "delivered" \in log[<<s, GroupOf[t]>>] THEN {"twice"} ELSE {})
                   \cup (IF outcome = "failed" THEN {"refused"} ELSE {})
    <3>2. log' = [log EXCEPT ![<<s, GroupOf[t]>>] = @ \cup told]
        BY <3>1
    <3>3. "settled" \notin told
        OBVIOUS
    <3> HIDE DEF told
    <3> QED
        BY <3>2, <3>3
  <2>3. log[pair] \subseteq log'[pair] /\ ("settled" \in log'[pair] <=> "settled" \in log[pair])
      BY <2>2 DEF TypeOK
  <2> QED
      BY <2>1, <2>3 DEF RowChange, Alike
<1>7. ASSUME NEW t \in Threads, RecordAttempt(t)
      PROVE  RowChange(pair)
  <2>1. log' = log \/ log' = Note("refused", {<<thread[t].item, GroupOf[t]>>})
      BY <1>7 DEF RecordAttempt
  <2>2. log[pair] \subseteq log'[pair] /\ ("settled" \in log'[pair] <=> "settled" \in log[pair])
      BY <2>1 DEF Note
  <2>3. rows' = [rows EXCEPT ![<<thread[t].item, GroupOf[t]>>] = Attempted(@)]
      BY <1>7 DEF RecordAttempt
  <2>4. rows'[pair] = rows[pair] \/ rows'[pair] = Attempted(rows[pair])
      BY <2>3 DEF TypeOK
  <2>5. Attempted(rows[pair]).status = rows[pair].status
      BY <1>0 DEF Attempted, Row
  <2> QED
      BY <2>2, <2>4, <2>5 DEF RowChange, Alike, Pending, Done
<1>8. ASSUME NEW t \in Threads, Settle(t)
      PROVE  RowChange(pair)
  <2>1. thread[t].item \in Submissions
      BY <1>8 DEF Settle, Shaped, TypeOK
  <2>2. /\ log' = Note("settled", Existing({<<thread[t].item, GroupOf[t]>>}))
        /\ rows' = SetStatus(thread[t].item, GroupOf[t],
                             IF thread[t].at = "sent" THEN "COMPLETED" ELSE "ERROR")
        /\ thread[t].at \in {"sent", "failed"}
      BY <1>8 DEF Settle
  <2> QED
      BY <2>1, <2>2, SettlementChange DEF RowChange, Settles
<1>9. CASE DeleteWorkload
  <2>1. log' = log /\ rows' = [q \in Pairs |-> IF q[1] = cleaner.removed THEN NoRow ELSE rows[q]]
      BY <1>9 DEF DeleteWorkload
  <2> QED
      BY <1>9, <2>1 DEF RowChange, Alike, Vanishes
<1>10. CASE Restart
    BY <1>10, ReleaseChange DEF Restart, RowChange
<1>11. ASSUME NEW t \in Threads, Age(t)
       PROVE  RowChange(pair)
  <2>1. log' = log /\ (rows'[pair] = rows[pair] \/ rows'[pair] = [rows[pair] EXCEPT !.old = TRUE])
      BY <1>11 DEF Age
  <2>2. [rows[pair] EXCEPT !.old = TRUE].status = rows[pair].status
      BY <1>0 DEF Row
  <2> QED
      BY <2>1, <2>2 DEF RowChange, Alike, Pending, Done
<1>12. ASSUME NEW g \in Groups, ForeignService(g)
       PROVE  RowChange(pair)
    BY <1>12, ReleaseChange, QueueDropChange DEF ForeignService, RowChange, Settles
<1>13. CASE CollectionLoop
  <2>1. ASSUME NEW s \in Submissions, Collect(s) \/ ScheduleError(s)
        PROVE  UNCHANGED <<rows, log>>
      BY <2>1 DEF Collect, ScheduleError
  <2>2. PrepareFiles \/ InsertWorkload => UNCHANGED <<rows, log>>
      BY DEF PrepareFiles, InsertWorkload
  <2> QED
      BY <2>1, <2>2, <1>1, <1>2, <1>13 DEF CollectionLoop
<1>14. CASE CleanupLoop
  <2>1. ListCompleted \/ (\E s \in Submissions : DeleteDirectory(s)) => UNCHANGED <<rows, log>>
      BY DEF ListCompleted, DeleteDirectory
  <2> QED
      BY <2>1, <1>1, <1>9, <1>14 DEF CleanupLoop
<1>15. ASSUME NEW t \in Threads, DeliveryLoop(t)
       PROVE  RowChange(pair)
    BY <1>3, <1>4, <1>5, <1>6, <1>7, <1>8, <1>15 DEF DeliveryLoop
<1>16. ASSUME NEW g \in Groups, GoOnline(g) \/ GoOffline(g)
       PROVE  UNCHANGED <<rows, log>>
    BY <1>16 DEF GoOnline, GoOffline
<1>17. (\E s \in Submissions : Stage(s)) \/ (\E k \in Keys : ForgetKey(k)) \/ UNCHANGED vars
          => UNCHANGED <<rows, log>>
    BY DEF Stage, ForgetKey, vars
<1> QED
    BY <1>1, <1>10, <1>11, <1>12, <1>13, <1>14, <1>15, <1>16, <1>17 DEF Next, Progress

-----------------------------------------------------------------------------
\* The delivery threads and most of the environment leave the submissions to the
\* collection thread and the cleanup.
shop == <<place, key, wanted, workload, collector, cleaner, fate>>

LEMMA ShopSteps ==
    ASSUME [Next]_vars
    PROVE  \/ UNCHANGED shop /\ marked' \subseteq marked
           \/ UNCHANGED marked /\ (\E s \in Submissions : Stage(s) \/ ScheduleError(s))
           \/ \E s \in Submissions : Collect(s)
           \/ UNCHANGED marked /\ (PrepareFiles \/ InsertWorkload \/ \E g \in Groups : AssignToGroup(g))
           \/ UNCHANGED marked /\ (CleanupLoop \/ Restart)
<1>1. ASSUME NEW t \in Threads, DeliveryLoop(t)
      PROVE  UNCHANGED shop /\ marked' = marked
  <2>1. Claim(t) => UNCHANGED shop /\ marked' = marked
      BY DEF Claim, shop, submitted
  <2>2. DropQueue(t) \/ RecordAttempt(t) \/ Settle(t) => UNCHANGED shop /\ marked' = marked
      BY DEF DropQueue, RecordAttempt, Settle, shop, submitted
  <2>3. ASSUME NEW s \in Submissions, SettleUnsent(t, s) \/ Submit(t, s)
        PROVE  UNCHANGED shop /\ marked' = marked
      BY <2>3 DEF SettleUnsent, Submit, shop, submitted
  <2> QED
      BY <1>1, <2>1, <2>2, <2>3 DEF DeliveryLoop
<1>2. ASSUME NEW g \in Groups, GoOnline(g) \/ GoOffline(g) \/ ForeignService(g)
      PROVE  UNCHANGED shop /\ marked' = marked
    BY <1>2 DEF GoOnline, GoOffline, ForeignService, shop, submitted
<1>3. ASSUME NEW t \in Threads, Age(t)
      PROVE  UNCHANGED shop /\ marked' = marked
    BY <1>3 DEF Age, shop, submitted
<1>4. ASSUME NEW k \in Keys, ForgetKey(k)
      PROVE  UNCHANGED shop /\ marked' \subseteq marked
    BY <1>4 DEF ForgetKey, shop, submitted
<1>5. UNCHANGED vars => UNCHANGED shop /\ marked' = marked
    BY DEF vars, shop
<1>6. (\E s \in Submissions : Stage(s) \/ ScheduleError(s)) => UNCHANGED marked
    BY DEF Stage, ScheduleError
<1>7. PrepareFiles \/ InsertWorkload \/ (\E g \in Groups : AssignToGroup(g)) => UNCHANGED marked
    BY DEF PrepareFiles, InsertWorkload, AssignToGroup
<1>8. CleanupLoop \/ Restart => UNCHANGED marked
    BY DEF CleanupLoop, ListCompleted, DeleteDirectory, DeleteWorkload, Restart
<1> QED
    BY <1>1, <1>2, <1>3, <1>4, <1>5, <1>6, <1>7, <1>8 DEF Next, Progress, CollectionLoop

\* What a step does to one submission.
LEMMA SubmissionStep ==
    ASSUME TypeOK, Shaped, Housed, [Next]_vars, NEW s \in Submissions
    PROVE  /\ fate[s] \subseteq fate'[s]
           /\ \/ place'[s] = place[s]
              \/ place[s] = "unseen" /\ place'[s] = "staged" /\ fate'[s] = fate[s]
              \/ place[s] = "staged" /\ place'[s] \in {"discarded", "incoming", "quarantined"}
              \/ DeleteDirectory(s) /\ place'[s] = "deleted"
           /\ place[s] # "unseen" => key'[s] = key[s] /\ wanted'[s] = wanted[s]
           /\ place[s] = "unseen" => fate'[s] = {}
<1>0. collector.item # None => place[collector.item] # "unseen"
    BY DEF TypeOK, Shaped, Housed
<1>1. CASE UNCHANGED shop
    BY <1>1 DEF shop, Housed
<1>2. ASSUME NEW x \in Submissions, Stage(x)
      PROVE  /\ fate' = fate
             /\ place'[s] = place[s] \/ (place[s] = "unseen" /\ place'[s] = "staged")
             /\ place[s] # "unseen" => key'[s] = key[s] /\ wanted'[s] = wanted[s]
  <2>1. s # x \/ place[s] = "unseen"
      BY <1>2 DEF Stage
  <2>2. /\ fate' = fate
        /\ place' = [place EXCEPT ![x] = "staged"]
        /\ \E kind : key' = [key EXCEPT ![x] = kind.key] /\ wanted' = [wanted EXCEPT ![x] = kind.groups]
      BY <1>2 DEF Stage
  <2> QED
      BY <2>1, <2>2 DEF TypeOK
<1>3. ASSUME NEW x \in Submissions, ScheduleError(x)
      PROVE  /\ fate[s] \subseteq fate'[s] /\ UNCHANGED submitted
             /\ place'[s] = place[s] \/ (place[s] = "staged" /\ place'[s] = "quarantined")
             /\ place[s] = "unseen" => fate'[s] = fate[s]
  <2>1. place[x] # "unseen"
      BY <1>3, <1>0, DistributionAssumption DEF ScheduleError
  <2> QED
      BY <1>3, <2>1 DEF ScheduleError, Befalls, TypeOK
<1>4. ASSUME NEW x \in Submissions, Collect(x)
      PROVE  /\ fate' = fate /\ UNCHANGED submitted
             /\ place'[s] = place[s] \/ (place[s] = "staged" /\ place'[s] = "discarded")
    BY <1>4 DEF Collect, TypeOK
<1>5. ASSUME PrepareFiles
      PROVE  /\ fate' = fate /\ UNCHANGED submitted
             /\ place'[s] = place[s] \/ (place[s] = "staged" /\ place'[s] = "incoming")
    BY <1>5 DEF PrepareFiles, TypeOK, Housed
<1>6. ASSUME InsertWorkload \/ \E g \in Groups : AssignToGroup(g)
      PROVE  UNCHANGED <<fate, submitted, place>>
    BY <1>6 DEF InsertWorkload, AssignToGroup, submitted
<1>7. ASSUME ListCompleted
      PROVE  /\ fate[s] \subseteq fate'[s] /\ UNCHANGED <<submitted, place>>
             /\ place[s] = "unseen" => fate'[s] = fate[s]
  <2>1. fate' = fate \/ fate' = Befalls("overtaken", collector.item)
      BY <1>7 DEF ListCompleted
  <2>2. collector.item \in Completed \/ fate' = fate
      BY <1>7 DEF ListCompleted
  <2>3. collector.item \in Completed => place[collector.item] # "unseen"
      BY DEF Completed, Housed
  <2>4. UNCHANGED <<submitted, place>>
      BY <1>7 DEF ListCompleted
  <2> QED
      BY <2>1, <2>2, <2>3, <2>4 DEF Befalls, TypeOK
<1>8. ASSUME NEW x \in Submissions, DeleteDirectory(x)
      PROVE  /\ UNCHANGED <<submitted, fate>>
             /\ place'[s] = place[s] \/ (DeleteDirectory(s) /\ place'[s] = "deleted")
    BY <1>8 DEF DeleteDirectory, TypeOK
<1>9. ASSUME DeleteWorkload
      PROVE  UNCHANGED <<fate, submitted, place>>
    BY <1>9 DEF DeleteWorkload, submitted
<1>10. ASSUME Restart
       PROVE  /\ fate[s] \subseteq fate'[s] /\ UNCHANGED <<submitted, place>>
              /\ place[s] = "unseen" => fate'[s] = fate[s]
  <2>1. /\ fate' = fate \/ (collector.item # None /\ fate' = Befalls("interrupted", collector.item))
        /\ UNCHANGED <<submitted, place>>
      BY <1>10 DEF Restart
  <2> QED
      BY <1>0, <2>1 DEF Befalls, TypeOK
<1> QED
    BY <1>1, <1>2, <1>3, <1>4, <1>5, <1>6, <1>7, <1>8, <1>9, <1>10, ShopSteps
       DEF CleanupLoop, submitted, Housed

-----------------------------------------------------------------------------
LEMMA HousedStep ==
    ASSUME TypeOK, Shaped, Housed, Listing, [Next]_vars
    PROVE  Housed'
<1> USE DistributionAssumption
<1>1. CASE UNCHANGED shop
    BY <1>1 DEF shop, Housed
<1>2. ASSUME NEW s \in Submissions, Stage(s)
      PROVE  Housed'
  <2>1. /\ place[s] = "unseen" /\ place' = [place EXCEPT ![s] = "staged"]
        /\ UNCHANGED <<workload, collector, cleaner, fate>>
      BY <1>2 DEF Stage
  <2>2. collector.item # s
      BY <2>1 DEF Housed, Shaped, TypeOK
  <2> QED
      BY <2>1, <2>2 DEF Housed, Shaped, TypeOK
<1>3. ASSUME NEW s \in Submissions, ScheduleError(s)
      PROVE  Housed'
  <2>1. /\ place' = [place EXCEPT ![s] = IF @ = "staged" THEN "quarantined" ELSE @]
        /\ UNCHANGED <<workload, cleaner>> /\ collector' = Resting
      BY <1>3 DEF ScheduleError
  <2>2. \A x \in Submissions : place'[x] = "unseen" => fate'[x] = {}
    <3>1. ASSUME NEW x \in Submissions, place'[x] = "unseen"
          PROVE  fate'[x] = {}
      <4>1. place[x] = "unseen"
          BY <2>1, <3>1 DEF TypeOK
      <4> QED
          BY <4>1, SubmissionStep
    <3> QED
        BY <3>1
  <2>3. \A x \in workload : place'[x] = place[x]
      BY <2>1 DEF Housed, TypeOK
  <2> QED
      BY <2>1, <2>2, <2>3 DEF Housed, Resting
<1>4. ASSUME NEW s \in Submissions, Collect(s)
      PROVE  Housed'
  <2>1. /\ collector.at = "idle" /\ place[s] = "staged"
        /\ UNCHANGED <<workload, cleaner, fate>>
        /\ \/ place' = [place EXCEPT ![s] = "discarded"] /\ collector' = collector
           \/ place' = place /\ collector' = [collector EXCEPT !.at = "marked", !.item = s]
      BY <1>4 DEF Collect
  <2> QED
      BY <2>1 DEF Housed, TypeOK
<1>5. CASE PrepareFiles
  <2>1. /\ collector.at = "marked" /\ place' = [place EXCEPT ![collector.item] = "incoming"]
        /\ UNCHANGED <<workload, cleaner, fate>>
        /\ collector' = [collector EXCEPT !.at = "moved"]
      BY <1>5 DEF PrepareFiles
  <2>2. collector.item \in Submissions
      BY <2>1 DEF Shaped, TypeOK
  <2>3. collector'.at = "moved" /\ collector'.item = collector.item
      BY <2>1 DEF TypeOK
  <2> QED
      BY <2>1, <2>2, <2>3 DEF Housed, TypeOK
<1>6. CASE InsertWorkload
  <2>1. /\ collector.at = "moved" /\ workload' = workload \cup {collector.item}
        /\ UNCHANGED <<place, cleaner, fate>>
        /\ collector' = [collector EXCEPT !.at = "assigning", !.left = TargetGroups(collector.item)]
      BY <1>6 DEF InsertWorkload
  <2>2. collector'.at = "assigning" /\ collector'.item = collector.item
      BY <2>1 DEF TypeOK
  <2> QED
      BY <2>1, <2>2 DEF Housed
<1>7. ASSUME NEW g \in Groups, AssignToGroup(g)
      PROVE  Housed'
  <2>1. /\ collector.at = "assigning" /\ UNCHANGED <<place, workload, cleaner, fate>>
        /\ collector' = Resting \/ collector' = [collector EXCEPT !.left = @ \ {g}]
      BY <1>7 DEF AssignToGroup
  <2>2. collector'.at = "idle" \/ (collector'.at = "assigning" /\ collector'.item = collector.item)
      BY <2>1 DEF Resting, TypeOK
  <2> QED
      BY <2>1, <2>2 DEF Housed
<1>8. CASE ListCompleted
  <2>1. /\ cleaner = NothingListed /\ cleaner' = [cleaner EXCEPT !.listed = Completed]
        /\ UNCHANGED <<place, workload, collector>>
      BY <1>8 DEF ListCompleted
  <2>2. cleaner'.listed \subseteq workload /\ cleaner'.removed = None
      BY <2>1 DEF NothingListed, Completed, TypeOK
  <2>3. \A x \in Submissions : fate[x] \subseteq fate'[x] /\ (place[x] = "unseen" => fate'[x] = {})
      BY SubmissionStep
  <2>4. collector.at # "idle" => collector.item \in Submissions
      BY DEF Shaped, TypeOK
  <2> QED
      BY <2>1, <2>2, <2>3, <2>4 DEF Housed
<1>9. ASSUME NEW s \in Submissions, DeleteDirectory(s)
      PROVE  Housed'
  <2>1. /\ s \in cleaner.listed /\ cleaner.removed = None
        /\ place' = [place EXCEPT ![s] = "deleted"] /\ cleaner' = [cleaner EXCEPT !.removed = s]
        /\ UNCHANGED <<workload, collector, fate>>
      BY <1>9 DEF DeleteDirectory
  <2>2. cleaner'.listed = cleaner.listed /\ cleaner'.removed = s
      BY <2>1 DEF TypeOK
  <2>3. collector.item # s \/ "overtaken" \in fate[s]
      BY <2>1 DEF Listing
  <2>4. s \in workload /\ place[s] \in {"incoming", "deleted"}
      BY <2>1 DEF Housed
  <2>5. \A x \in Submissions : place'[x] = IF x = s THEN "deleted" ELSE place[x]
      BY <2>1 DEF TypeOK
  <2>6. workload \subseteq Submissions /\ (collector.at # "idle" => collector.item \in Submissions)
      BY DEF TypeOK, Shaped
  <2>7. \A x \in workload : place'[x] \in {"incoming", "deleted"}
      BY <2>5, <2>6 DEF Housed
  <2>8. \A x \in Submissions : place'[x] = "unseen" => fate'[x] = {}
      BY <2>1, <2>5 DEF Housed
  <2>9. /\ collector.at = "marked" => place'[collector.item] = "staged"
        /\ collector.at = "moved" => place'[collector.item] = "incoming"
        /\ collector.at = "assigning" =>
              \/ place'[collector.item] = "incoming"
              \/ place'[collector.item] = "deleted" /\ "overtaken" \in fate[collector.item]
      BY <2>3, <2>4, <2>5, <2>6 DEF Housed
  <2> QED
      BY <2>1, <2>2, <2>7, <2>8, <2>9 DEF Housed
<1>10. CASE DeleteWorkload
  <2>1. /\ workload' = workload \ {cleaner.removed} /\ UNCHANGED <<place, collector, fate>>
        /\ cleaner' = [listed |-> cleaner.listed \ {cleaner.removed}, removed |-> None]
      BY <1>10 DEF DeleteWorkload
  <2> QED
      BY <2>1 DEF Housed
<1>11. CASE Restart
  <2>1. /\ collector' = Resting /\ cleaner' = NothingListed /\ UNCHANGED <<place, workload>>
      BY <1>11 DEF Restart
  <2>2. \A x \in Submissions : place[x] = "unseen" => fate'[x] = {}
      BY SubmissionStep
  <2> QED
      BY <2>1, <2>2 DEF Housed, Resting, NothingListed
<1> QED
    BY <1>1, <1>2, <1>3, <1>4, <1>5, <1>6, <1>7, <1>8, <1>9, <1>10, <1>11, ShopSteps DEF CleanupLoop

LEMMA UnassignedStep ==
    ASSUME TypeOK, Shaped, Housed, Unassigned, [Next]_vars
    PROVE  Unassigned'
<1> USE DistributionAssumption
<1>1. ASSUME UNCHANGED collector, NEW g \in collector.left
      PROVE  rows'[<<collector.item, g>>].status = "none"
  <2>1. <<collector.item, g>> \in Pairs
      BY <1>1 DEF Shaped, Unassigned, TypeOK, Pairs
  <2>2. rows[<<collector.item, g>>].status = "none"
      BY <1>1 DEF Unassigned
  <2>3. RowChange(<<collector.item, g>>)
      BY <2>1, RowStep
  <2>4. ~Appears(<<collector.item, g>>)
    <3>1. ASSUME NEW h \in Groups, AssignToGroup(h), <<collector.item, g>> = <<collector.item, h>>
          PROVE  collector' # collector
        BY <3>1, <1>1 DEF AssignToGroup, Resting, TypeOK
    <3> QED
        BY <1>1, <3>1 DEF Appears
  <2> QED
      BY <2>2, <2>3, <2>4 DEF RowChange, Alike, Settles, Vanishes, NoRow
<1>2. CASE UNCHANGED collector
    BY <1>1, <1>2 DEF Unassigned
<1>3. CASE collector' = Resting
    BY <1>3 DEF Unassigned, Resting
<1>4. CASE \E s \in Submissions : Collect(s)
  <2>1. collector'.left = collector.left /\ collector.at = "idle"
      BY <1>4 DEF Collect, TypeOK
  <2> QED
      BY <2>1 DEF Unassigned
<1>5. CASE PrepareFiles
  <2>1. collector'.left = collector.left /\ collector.at = "marked"
      BY <1>5 DEF PrepareFiles, TypeOK
  <2> QED
      BY <2>1 DEF Unassigned
<1>6. CASE InsertWorkload
  <2>1. /\ collector'.item = collector.item /\ collector'.at = "assigning" /\ rows' = rows
        /\ collector'.left = TargetGroups(collector.item)
      BY <1>6 DEF InsertWorkload, TypeOK
  <2>2. collector.item \in Submissions \ workload
      BY <1>6 DEF InsertWorkload, Housed, Shaped, TypeOK
  <2>3. TargetGroups(collector.item) \subseteq Groups
      BY <2>2 DEF TargetGroups, TypeOK
  <2>4. \A g \in Groups : rows[<<collector.item, g>>].status = "none"
      BY <2>2, PairFacts DEF TypeOK
  <2> QED
      BY <2>1, <2>3, <2>4 DEF Unassigned
<1>7. ASSUME NEW g \in Groups, AssignToGroup(g)
      PROVE  Unassigned'
  <2>1. CASE collector' = Resting
      BY <1>3, <2>1
  <2>2. CASE collector' = [collector EXCEPT !.left = @ \ {g}]
    <3>1. /\ collector'.at = "assigning" /\ collector'.item = collector.item
          /\ collector'.left = collector.left \ {g}
        BY <1>7, <2>2 DEF AssignToGroup, TypeOK
    <3>2. rows' = [rows EXCEPT ![<<collector.item, g>>] = NewRow]
        BY <1>7 DEF AssignToGroup
    <3>3. \A h \in collector.left \ {g} : rows'[<<collector.item, h>>] = rows[<<collector.item, h>>]
      <4>1. collector.left \subseteq Groups /\ collector.item \in Submissions
          BY <1>7 DEF AssignToGroup, Shaped, TypeOK
      <4> QED
          BY <3>2, <4>1 DEF TypeOK, Pairs
    <3> QED
        BY <3>1, <3>3 DEF Unassigned
  <2> QED
      BY <1>7, <2>1, <2>2 DEF AssignToGroup
<1>8. (\E s \in Submissions : Stage(s)) \/ CleanupLoop => UNCHANGED collector
    BY DEF Stage, CleanupLoop, ListCompleted, DeleteDirectory, DeleteWorkload
<1>9. (\E s \in Submissions : ScheduleError(s)) \/ Restart => collector' = Resting
    BY DEF ScheduleError, Restart
<1> QED
    BY <1>2, <1>3, <1>4, <1>5, <1>6, <1>7, <1>8, <1>9, ShopSteps DEF shop

LEMMA MarkedByStep ==
    ASSUME TypeOK, Shaped, Housed, MarkedBy, [Next]_vars
    PROVE  MarkedBy'
<1> USE DistributionAssumption
<1> DEFINE Marks(s, k) ==
        /\ key[s] = k
        /\ place[s] \notin {"unseen", "staged"} \/ "interrupted" \in fate[s] \/ collector.item = s
<1>1. ASSUME NEW s \in Submissions, NEW k, Marks(s, k)
      PROVE  Marks(s, k)'
  <2>1. place[s] # "unseen"
    <3>1. place[s] = "unseen" => fate[s] = {} /\ collector.item # s
        BY DEF Housed, Shaped, TypeOK
    <3> QED
        BY <1>1, <3>1
  <2>2. key'[s] = k /\ fate[s] \subseteq fate'[s]
      BY <1>1, <2>1, SubmissionStep
  <2>3. place[s] # "staged" => place'[s] \notin {"unseen", "staged"}
      BY <2>1, SubmissionStep DEF TypeOK
  <2>4. ASSUME place[s] = "staged", collector.item = s
        PROVE  \/ place'[s] # "staged" /\ place'[s] # "unseen"
               \/ "interrupted" \in fate'[s] \/ collector'.item = s
    <3>1. collector.at = "marked"
        BY <2>4 DEF Housed, Shaped, TypeOK
    <3>2. UNCHANGED shop => collector'.item = s
        BY <2>4 DEF shop
    <3>3. (\E x \in Submissions : Stage(x)) \/ CleanupLoop => collector'.item = s
        BY <2>4 DEF Stage, CleanupLoop, ListCompleted, DeleteDirectory, DeleteWorkload
    <3>4. ASSUME NEW x \in Submissions, ScheduleError(x)
          PROVE  "interrupted" \in fate'[s]
        BY <2>4, <3>1, <3>4 DEF ScheduleError, Befalls, TypeOK
    <3>5. Restart => "interrupted" \in fate'[s]
        BY <2>4 DEF Restart, Befalls, TypeOK
    <3>6. PrepareFiles => collector'.item = s
        BY <2>4 DEF PrepareFiles, TypeOK
    <3>7. /\ ~InsertWorkload
          /\ \A g \in Groups : ~AssignToGroup(g)
          /\ \A x \in Submissions : ~Collect(x)
        BY <3>1 DEF InsertWorkload, AssignToGroup, Collect
    <3> QED
        BY <3>2, <3>3, <3>4, <3>5, <3>6, <3>7, ShopSteps
  <2> QED
      BY <1>1, <2>2, <2>3, <2>4
<1>2. ASSUME NEW k \in marked' \ marked
      PROVE  \E s \in Submissions : Marks(s, k)'
  <2>1. PICK s \in Submissions : Collect(s)
      BY <1>2, ShopSteps
  <2>2. key[s] = k /\ UNCHANGED key /\ collector' = [collector EXCEPT !.at = "marked", !.item = s]
      BY <1>2, <2>1 DEF Collect, submitted
  <2>3. collector'.item = s
      BY <2>2 DEF TypeOK
  <2> QED
      BY <2>2, <2>3
<1>3. \A k \in marked : \E s \in Submissions : Marks(s, k)
    BY DEF MarkedBy
<1> HIDE DEF Marks
<1>4. \A k \in marked' : \E s \in Submissions : Marks(s, k)'
    BY <1>1, <1>2, <1>3
<1> QED
    BY <1>4 DEF MarkedBy, Marks

LEMMA DiscardedStep ==
    ASSUME TypeOK, Shaped, Housed, MarkedBy, Discarded, [Next]_vars
    PROVE  Discarded'
<1> USE DistributionAssumption
<1> SUFFICES ASSUME NEW s \in Submissions, place'[s] = "discarded"
             PROVE  IsDuplicate(s)' \/ fate'[s] # {}
    BY DEF Discarded
<1>1. place[s] # "unseen" /\ key'[s] = key[s] /\ fate[s] \subseteq fate'[s]
    BY SubmissionStep
<1>2. CASE place[s] = "discarded"
  <2>1. ASSUME IsDuplicate(s)
        PROVE  IsDuplicate(s)'
    <3>1. PICK other \in Submissions \ {s} :
              /\ key[other] = key[s]
              /\ place[other] \notin {"unseen", "staged"} \/ "interrupted" \in fate[other]
        BY <2>1 DEF IsDuplicate
    <3>2. place[other] # "unseen"
        BY <3>1 DEF Housed
    <3>3. key'[other] = key[other] /\ fate[other] \subseteq fate'[other]
        BY <3>2, SubmissionStep
    <3>4. place[other] # "staged" => place'[other] \notin {"unseen", "staged"}
        BY <3>2, SubmissionStep DEF TypeOK
    <3> QED
        BY <1>1, <3>1, <3>3, <3>4 DEF IsDuplicate
  <2> QED
      BY <1>1, <1>2, <2>1 DEF Discarded
<1>3. CASE place[s] # "discarded"
  <2>1. Collect(s) /\ key[s] \in marked
    <3>1. place[s] = "staged"
        BY <1>3, SubmissionStep
    <3>2. \A x \in Submissions : Stage(x) => place'[s] = place[s] \/ place'[s] = "staged"
        BY DEF Stage, TypeOK
    <3>3. \A x \in Submissions : ScheduleError(x) => place'[s] = place[s] \/ place'[s] = "quarantined"
        BY DEF ScheduleError, TypeOK
    <3>4. PrepareFiles => place'[s] = place[s] \/ place'[s] = "incoming"
        BY DEF PrepareFiles, TypeOK
    <3>5. InsertWorkload \/ (\E g \in Groups : AssignToGroup(g)) \/ Restart => place'[s] = place[s]
        BY DEF InsertWorkload, AssignToGroup, Restart
    <3>6. ListCompleted \/ DeleteWorkload => place'[s] = place[s]
        BY DEF ListCompleted, DeleteWorkload
    <3>7. \A x \in Submissions : DeleteDirectory(x) => place'[s] = place[s] \/ place'[s] = "deleted"
        BY DEF DeleteDirectory, TypeOK
    <3>8. UNCHANGED shop => place'[s] = place[s]
        BY DEF shop
    <3>9. PICK x \in Submissions : Collect(x)
        BY <1>3, <3>2, <3>3, <3>4, <3>5, <3>6, <3>7, <3>8, ShopSteps DEF CleanupLoop
    <3> QED
        BY <1>3, <3>9 DEF Collect, TypeOK
  <2>2. collector.item = None /\ place[s] = "staged" /\ key' = key /\ fate' = fate
      BY <2>1 DEF Collect, Shaped, submitted
  <2>3. PICK other \in Submissions :
            /\ key[other] = key[s]
            /\ place[other] \notin {"unseen", "staged"} \/ "interrupted" \in fate[other]
      BY <2>1, <2>2 DEF MarkedBy
  <2>4. CASE other = s
      BY <2>2, <2>3, <2>4
  <2>5. CASE other # s
    <3>1. place'[other] = place[other]
        BY <2>1, <2>5 DEF Collect, TypeOK
    <3> QED
        BY <2>2, <2>3, <2>5, <3>1 DEF IsDuplicate
  <2> QED
      BY <2>4, <2>5
<1> QED
    BY <1>2, <1>3

-----------------------------------------------------------------------------
LEMMA ListingStep ==
    ASSUME TypeOK, Shaped, Housed, Listing, [Next]_vars
    PROVE  Listing'
<1> USE DistributionAssumption
<1>1. ASSUME NEW s \in cleaner.listed
      PROVE  \/ "overtaken" \in fate'[s]
             \/ collector'.item # s /\ \A g \in Groups : ~Pending(rows'[<<s, g>>])
  <2>1. s \in Submissions /\ s \in workload /\ place[s] \in {"incoming", "deleted"}
      BY DEF Housed, TypeOK
  <2>2. fate[s] \subseteq fate'[s]
      BY <2>1, SubmissionStep
  <2>3. CASE "overtaken" \in fate[s]
      BY <2>2, <2>3
  <2>4. CASE collector.item # s /\ \A g \in Groups : ~Pending(rows[<<s, g>>])
    <3>1. collector'.item # s
      <4>1. UNCHANGED collector => collector'.item # s
          BY <2>4
      <4>2. collector' = Resting => collector'.item # s
          BY <2>1 DEF Resting
      <4>3. ASSUME NEW x \in Submissions, Collect(x)
            PROVE  collector'.item # s
          BY <2>1, <2>4, <4>3 DEF Collect, TypeOK
      <4>4. PrepareFiles \/ InsertWorkload => collector'.item # s
          BY <2>4 DEF PrepareFiles, InsertWorkload, TypeOK
      <4>5. ASSUME NEW g \in Groups, AssignToGroup(g)
            PROVE  collector'.item # s
          BY <2>4, <4>2, <4>5 DEF AssignToGroup, TypeOK
      <4>6. (\E x \in Submissions : Stage(x)) \/ CleanupLoop => UNCHANGED collector
          BY DEF Stage, CleanupLoop, ListCompleted, DeleteDirectory, DeleteWorkload
      <4>7. (\E x \in Submissions : ScheduleError(x)) \/ Restart => collector' = Resting
          BY DEF ScheduleError, Restart
      <4> QED
          BY <4>1, <4>2, <4>3, <4>4, <4>5, <4>6, <4>7, ShopSteps DEF shop
    <3>2. ASSUME NEW g \in Groups
          PROVE  ~Pending(rows'[<<s, g>>])
      <4>1. RowChange(<<s, g>>) /\ ~Pending(rows[<<s, g>>])
          BY <2>1, <2>4, PairFacts, RowStep
      <4>2. ~Appears(<<s, g>>)
          BY <2>4 DEF Appears
      <4>3. Done(rows'[<<s, g>>]) \/ rows'[<<s, g>>] = NoRow => ~Pending(rows'[<<s, g>>])
          BY DEF Done, Pending, NoRow
      <4> QED
          BY <4>1, <4>2, <4>3 DEF RowChange, Alike, Settles, Vanishes
    <3> QED
        BY <3>1, <3>2
  <2> QED
      BY <2>3, <2>4 DEF Listing
<1>2. CASE cleaner'.listed \subseteq cleaner.listed
    BY <1>1, <1>2 DEF Listing
<1>3. CASE ListCompleted
  <2>1. /\ cleaner' = [cleaner EXCEPT !.listed = Completed] /\ UNCHANGED <<rows, collector>>
        /\ collector.item \in Completed => fate' = Befalls("overtaken", collector.item)
      BY <1>3 DEF ListCompleted
  <2>2. cleaner'.listed = Completed /\ Completed \subseteq Submissions
      BY <2>1 DEF Completed, TypeOK
  <2>3. ASSUME NEW s \in Completed
        PROVE  \/ "overtaken" \in fate'[s]
               \/ collector.item # s /\ \A g \in Groups : ~Pending(rows[<<s, g>>])
      BY <2>1, <2>2, <2>3 DEF Completed, Befalls, TypeOK
  <2> QED
      BY <2>1, <2>2, <2>3 DEF Listing
<1>4. ASSUME NEW s \in Submissions, DeleteDirectory(s)
      PROVE  cleaner'.listed \subseteq cleaner.listed
    BY <1>4 DEF DeleteDirectory, TypeOK
<1>5. DeleteWorkload \/ Restart => cleaner'.listed \subseteq cleaner.listed
    BY DEF DeleteWorkload, Restart, NothingListed
<1>6. ASSUME NEW s \in Submissions, Stage(s) \/ ScheduleError(s) \/ Collect(s)
      PROVE  UNCHANGED cleaner
    BY <1>6 DEF Stage, ScheduleError, Collect
<1>7. PrepareFiles \/ InsertWorkload \/ (\E g \in Groups : AssignToGroup(g)) => UNCHANGED cleaner
    BY DEF PrepareFiles, InsertWorkload, AssignToGroup
<1> QED
    BY <1>2, <1>3, <1>4, <1>5, <1>6, <1>7, ShopSteps DEF CleanupLoop, shop

LEMMA RecordedStep ==
    ASSUME TypeOK, Shaped, Recorded, [Next]_vars
    PROVE  Recorded'
<1> USE DistributionAssumption
<1>1. ASSUME NEW pair \in Pairs, Done(rows'[pair])
      PROVE  "settled" \in log'[pair]
  <2>1. ~Done(NoRow) /\ ~Done(NewRow)
      BY DEF Done, NewRow, NoRow
  <2> QED
      BY <1>1, <2>1, RowStep DEF RowChange, Alike, Settles, Appears, Vanishes, Recorded
<1>2. ASSUME NEW t \in Threads, thread'[t] = thread[t] \/ thread'[t].at \notin {"sent", "failed"}
      PROVE  /\ thread'[t].at = "sent" => "delivered" \in log'[<<thread'[t].item, GroupOf[t]>>]
             /\ thread'[t].at = "failed" => "refused" \in log'[<<thread'[t].item, GroupOf[t]>>]
  <2>1. CASE thread'[t] = thread[t] /\ thread[t].at \in {"sent", "failed"}
    <3>1. <<thread[t].item, GroupOf[t]>> \in Pairs
        BY <2>1 DEF Shaped, TypeOK, Pairs
    <3>2. log[<<thread[t].item, GroupOf[t]>>] \subseteq log'[<<thread[t].item, GroupOf[t]>>]
        BY <3>1, RowStep DEF RowChange
    <3> QED
        BY <2>1, <3>2 DEF Recorded
  <2> QED
      BY <1>2, <2>1
<1> DEFINE Told(t) ==
        /\ thread'[t].at = "sent" => "delivered" \in log'[<<thread'[t].item, GroupOf[t]>>]
        /\ thread'[t].at = "failed" => "refused" \in log'[<<thread'[t].item, GroupOf[t]>>]
<1>3. ASSUME NEW t \in Threads, NEW u \in Threads, NEW s \in Submissions, Submit(u, s)
      PROVE  Told(t)
  <2>1. PICK arrives \in BOOLEAN, outcome \in {"sent", "refused", "failed"} :
            /\ outcome = "sent" => arrives
            /\ thread' = [thread EXCEPT ![u].at = outcome, ![u].item = s]
            /\ log' = [log EXCEPT ![<<s, GroupOf[u]>>] =
                         @ \cup (IF arrives THEN {"delivered"} ELSE {})
                           \cup (IF arrives /\ "delivered" \in @ THEN {"twice"} ELSE {})
                           \cup (IF outcome = "failed" THEN {"refused"} ELSE {})]
      BY <1>3 DEF Submit
  <2>2. CASE t = u
    <3>1. thread'[t].at = outcome /\ thread'[t].item = s
        BY <2>1, <2>2 DEF TypeOK
    <3>2. <<s, GroupOf[u]>> \in Pairs
        BY PairFacts
    <3>3. /\ outcome = "sent" => "delivered" \in log'[<<s, GroupOf[u]>>]
          /\ outcome = "failed" => "refused" \in log'[<<s, GroupOf[u]>>]
        BY <2>1, <3>2 DEF TypeOK
    <3> QED
        BY <2>2, <3>1, <3>3
  <2>3. CASE t # u
      BY <1>2, <2>1, <2>3 DEF TypeOK
  <2> QED
      BY <2>2, <2>3
<1>4. ASSUME NEW t \in Threads, NEW u \in Threads, RecordAttempt(u)
      PROVE  Told(t)
  <2> DEFINE s == thread[u].item
             exhausted == \/ rows[<<s, GroupOf[u]>>].status = "none"
                          \/ rows[<<s, GroupOf[u]>>].attempts + 1 >= MaxAttempts
  <2>1. /\ thread[u].at = "refused"
        /\ thread' = [thread EXCEPT ![u] = IF exhausted THEN [@ EXCEPT !.at = "failed"]
                                           ELSE After(u, s)]
        /\ log' = IF exhausted THEN Note("refused", {<<s, GroupOf[u]>>}) ELSE log
      BY <1>4 DEF RecordAttempt
  <2>2. <<s, GroupOf[u]>> \in Pairs
      BY <2>1 DEF Shaped, TypeOK, Pairs
  <2>3. After(u, s).at \in {"idle", "batch"}
      BY DEF After, Idle
  <2> HIDE DEF exhausted
  <2>4. CASE t = u /\ exhausted
    <3>1. thread'[t] = [thread[u] EXCEPT !.at = "failed"]
        BY <2>1, <2>4 DEF TypeOK
    <3>2. thread'[t].at = "failed" /\ thread'[t].item = s
        BY <3>1 DEF TypeOK
    <3>3. "refused" \in log'[<<s, GroupOf[u]>>]
        BY <2>1, <2>2, <2>4 DEF Note
    <3> QED
        BY <2>4, <3>2, <3>3
  <2>5. CASE t = u /\ ~exhausted
    <3>1. thread'[t] = After(u, s)
        BY <2>1, <2>5 DEF TypeOK
    <3> QED
        BY <1>2, <2>3, <3>1
  <2>6. CASE t # u
      BY <1>2, <2>1, <2>6 DEF TypeOK
  <2> QED
      BY <2>4, <2>5, <2>6
<1>5. ASSUME NEW t \in Threads, NEW u \in Threads, Claim(u)
      PROVE  Told(t)
  <2>1. PICK batch : thread' = [thread EXCEPT ![u].at = "batch", ![u].batch = batch]
      BY <1>5 DEF Claim
  <2> QED
      BY <1>2, <2>1 DEF TypeOK
<1>6. ASSUME NEW t \in Threads, NEW u \in Threads, NEW s,
             thread' = [thread EXCEPT ![u] = After(u, s)]
      PROVE  Told(t)
  <2>1. After(u, s).at \in {"idle", "batch"}
      BY DEF After, Idle
  <2> QED
      BY <1>2, <1>6, <2>1 DEF TypeOK
<1>7. ASSUME NEW t \in Threads, UNCHANGED thread \/ Restart
      PROVE  Told(t)
    BY <1>2, <1>7 DEF Restart, Idle
<1> HIDE DEF Told
<1>8. ASSUME NEW t \in Threads, NEW u \in Threads, DeliveryLoop(u)
      PROVE  Told(t)
  <2>1. DropQueue(u) => UNCHANGED thread
      BY DEF DropQueue
  <2>2. Settle(u) => thread' = [thread EXCEPT ![u] = After(u, thread[u].item)]
      BY DEF Settle
  <2>3. \A s \in Submissions : SettleUnsent(u, s) => thread' = [thread EXCEPT ![u] = After(u, s)]
      BY DEF SettleUnsent
  <2> QED
      BY <1>3, <1>4, <1>5, <1>6, <1>7, <1>8, <2>1, <2>2, <2>3 DEF DeliveryLoop
<1>9. CollectionLoop \/ CleanupLoop => UNCHANGED thread
  <2>1. \A s \in Submissions : Collect(s) \/ ScheduleError(s) => UNCHANGED thread
      BY DEF Collect, ScheduleError
  <2>2. PrepareFiles \/ InsertWorkload => UNCHANGED thread
      BY DEF PrepareFiles, InsertWorkload
  <2>3. \A g \in Groups : AssignToGroup(g) => UNCHANGED thread
      BY DEF AssignToGroup
  <2>4. CleanupLoop => UNCHANGED thread
      BY DEF CleanupLoop, ListCompleted, DeleteDirectory, DeleteWorkload
  <2> QED
      BY <2>1, <2>2, <2>3, <2>4 DEF CollectionLoop
<1>10. /\ \A s \in Submissions : Stage(s) => UNCHANGED thread
       /\ \A k \in Keys : ForgetKey(k) => UNCHANGED thread
       /\ \A u \in Threads : Age(u) => UNCHANGED thread
       /\ \A g \in Groups : GoOffline(g) \/ GoOnline(g) \/ ForeignService(g) => UNCHANGED thread
       /\ UNCHANGED vars => UNCHANGED thread
    BY DEF Stage, ForgetKey, Age, GoOffline, GoOnline, ForeignService, vars
<1>11. \A t \in Threads : Told(t)
    BY <1>7, <1>8, <1>9, <1>10 DEF Next, Progress
<1> QED
    BY <1>1, <1>11 DEF Recorded, Told

-----------------------------------------------------------------------------
LEMMA IncomingKeptStep ==
    ASSUME TypeOK, Shaped, Housed, Listing, IncomingKept, [Next]_vars
    PROVE  IncomingKept'
<1> SUFFICES ASSUME NEW s \in Submissions, NEW g \in Groups, Pending(rows'[<<s, g>>])
             PROVE  place'[s] = "incoming" \/ "overtaken" \in fate'[s]
    BY DEF IncomingKept
<1>1. RowChange(<<s, g>>)
    BY PairFacts, RowStep
<1>2. fate[s] \subseteq fate'[s]
    BY SubmissionStep
<1>3. CASE Pending(rows[<<s, g>>])
  <2>1. CASE "overtaken" \in fate[s]
      BY <1>2, <2>1
  <2>2. CASE place[s] = "incoming" /\ "overtaken" \notin fate[s]
    <3>1. ~DeleteDirectory(s)
        BY <1>3, <2>2 DEF DeleteDirectory, Listing
    <3> QED
        BY <2>2, <3>1, SubmissionStep
  <2> QED
      BY <1>3, <2>1, <2>2 DEF IncomingKept
<1>4. CASE Appears(<<s, g>>)
  <2>1. collector.at = "assigning" /\ s = collector.item /\ place' = place
      BY <1>4 DEF Appears
  <2> QED
      BY <1>2, <2>1 DEF Housed
<1>5. ~(Done(rows'[<<s, g>>]) \/ rows'[<<s, g>>] = NoRow)
    BY DEF Done, Pending, NoRow
<1> QED
    BY <1>1, <1>3, <1>4, <1>5 DEF RowChange, Alike, Settles, Vanishes

LEMMA FullDeliveryKeptStep ==
    ASSUME TypeOK, Shaped, Housed, Recorded, IncomingKept, FullDeliveryKept, [Next]_vars
    PROVE  FullDeliveryKept'
<1> USE DistributionAssumption
<1> SUFFICES ASSUME NEW s \in Submissions, NEW g \in FullDelivery \ Sampled,
                    "settled" \in log'[<<s, g>>]
             PROVE  log'[<<s, g>>] \cap {"delivered", "refused"} # {} \/ "overtaken" \in fate'[s]
    BY DEF FullDeliveryKept
<1>1. <<s, g>> \in Pairs /\ <<s, g>>[1] = s /\ <<s, g>>[2] = g
    BY PairFacts
<1>2. RowChange(<<s, g>>) /\ log[<<s, g>>] \subseteq log'[<<s, g>>]
    BY <1>1, RowStep DEF RowChange
<1>3. fate[s] \subseteq fate'[s]
    BY SubmissionStep
<1>4. CASE "settled" \in log[<<s, g>>]
    BY <1>2, <1>3, <1>4 DEF FullDeliveryKept
<1>5. CASE "settled" \notin log[<<s, g>>]
  <2>1. Settles(<<s, g>>)
      BY <1>2, <1>5 DEF RowChange, Alike, Appears, Vanishes
  <2>2. Pending(rows[<<s, g>>])
    <3>1. rows[<<s, g>>].status \in {"none", "READY", "LOCKED", "COMPLETED", "ERROR"}
        BY <1>1 DEF TypeOK, Row
    <3>2. ~Done(rows[<<s, g>>])
        BY <1>1, <1>5 DEF Recorded
    <3> QED
        BY <2>1, <3>1, <3>2 DEF Settles, Pending, Done
  <2>3. CASE place[s] # "incoming"
      BY <1>3, <2>2, <2>3 DEF IncomingKept
  <2>4. CASE \E t \in Threads :
               thread[t].at \in {"sent", "failed"} /\ <<s, g>> = <<thread[t].item, GroupOf[t]>>
    <3>1. log[<<s, g>>] \cap {"delivered", "refused"} # {}
        BY <2>4 DEF Recorded
    <3> QED
        BY <1>2, <3>1
  <2> QED
      BY <1>1, <2>1, <2>3, <2>4 DEF Settles
<1> QED
    BY <1>4, <1>5

LEMMA AssignedStep ==
    ASSUME TypeOK, Shaped, Housed, Listing, Recorded, Assigned, [Next]_vars
    PROVE  Assigned'
<1> USE DistributionAssumption
<1> SUFFICES ASSUME NEW s \in Submissions, place'[s] \in {"incoming", "deleted"}, fate'[s] = {},
                    NEW g \in TargetGroups(s)'
             PROVE  \/ Pending(rows'[<<s, g>>])
                    \/ "settled" \in log'[<<s, g>>]
                    \/ /\ collector'.item = s
                       /\ collector'.at = "moved" \/ g \in collector'.left
    BY DEF Assigned
<1>1. fate[s] = {} /\ place[s] \in {"staged", "incoming", "deleted"}
  <2>1. DeleteDirectory(s) => place[s] \in {"incoming", "deleted"}
      BY DEF DeleteDirectory, Housed
  <2> QED
      BY <2>1, SubmissionStep DEF TypeOK
<1>2. CASE place[s] = "staged"
  <2>1. PrepareFiles /\ collector.item = s
    <3>1. place'[s] # place[s] /\ place'[s] \notin {"discarded", "quarantined"}
        BY <1>2
    <3>2. \A x \in Submissions : Stage(x) => place'[s] = place[s] \/ place'[s] = "staged"
        BY DEF Stage, TypeOK
    <3>3. \A x \in Submissions : ScheduleError(x) => place'[s] = place[s] \/ place'[s] = "quarantined"
        BY DEF ScheduleError, TypeOK
    <3>4. \A x \in Submissions : Collect(x) => place'[s] = place[s] \/ place'[s] = "discarded"
        BY DEF Collect, TypeOK
    <3>5. InsertWorkload \/ (\E h \in Groups : AssignToGroup(h)) \/ Restart => place'[s] = place[s]
        BY DEF InsertWorkload, AssignToGroup, Restart
    <3>6. ListCompleted \/ DeleteWorkload => place'[s] = place[s]
        BY DEF ListCompleted, DeleteWorkload
    <3>7. \A x \in Submissions : DeleteDirectory(x) => place'[s] = place[s]
      <4>1. s \notin cleaner.listed
          BY <1>2 DEF Housed
      <4> QED
          BY <4>1 DEF DeleteDirectory, TypeOK
    <3>8. UNCHANGED shop => place'[s] = place[s]
        BY DEF shop
    <3>9. PrepareFiles
        BY <1>2, <3>1, <3>2, <3>3, <3>4, <3>5, <3>6, <3>7, <3>8, ShopSteps DEF CleanupLoop
    <3> QED
        BY <3>1, <3>9 DEF PrepareFiles, TypeOK
  <2> QED
      BY <2>1 DEF PrepareFiles, TypeOK
<1>3. CASE place[s] \in {"incoming", "deleted"}
  <2>1. wanted'[s] = wanted[s]
      BY <1>3, SubmissionStep
  <2>2. g \in TargetGroups(s) /\ g \in Groups
      BY <2>1 DEF TargetGroups, TypeOK
  <2>3. <<s, g>> \in Pairs /\ <<s, g>>[1] = s /\ <<s, g>>[2] = g
      BY <2>2, PairFacts
  <2>4. RowChange(<<s, g>>) /\ log[<<s, g>>] \subseteq log'[<<s, g>>]
      BY <2>3, RowStep DEF RowChange
  <2>5. CASE "settled" \in log[<<s, g>>]
      BY <2>4, <2>5
  <2>6. CASE Pending(rows[<<s, g>>])
    <3>1. ~Vanishes(<<s, g>>)
      <4>1. DeleteWorkload => cleaner.removed \in cleaner.listed
          BY DEF DeleteWorkload, Housed
      <4> QED
          BY <1>1, <2>2, <2>3, <2>6, <4>1 DEF Vanishes, Listing
    <3>2. Appears(<<s, g>>) => Pending(rows'[<<s, g>>])
        BY DEF Appears, Pending, NewRow, NoRow
    <3> QED
        BY <2>4, <2>6, <3>1, <3>2 DEF RowChange, Alike, Settles
  <2>7. CASE collector.item = s /\ (collector.at = "moved" \/ g \in collector.left)
    <3>1. UNCHANGED collector => collector'.item = s /\ (collector'.at = "moved" \/ g \in collector'.left)
        BY <2>7
    <3>2. \A x \in Submissions : ScheduleError(x) => fate'[s] # {}
      <4>1. collector.at # "idle"
          BY <2>7 DEF Shaped, TypeOK
      <4> QED
          BY <2>7, <4>1 DEF ScheduleError, Befalls, TypeOK
    <3>3. Restart => fate'[s] # {}
      <4>1. Restart => fate' = Befalls("interrupted", s)
          BY <2>7 DEF Restart
      <4>2. Befalls("interrupted", s)[s] = fate[s] \cup {"interrupted"}
          BY DEF Befalls, TypeOK
      <4> QED
          BY <4>1, <4>2
    <3>4. ~PrepareFiles /\ \A x \in Submissions : ~Collect(x)
        BY <1>3, <2>7 DEF PrepareFiles, Collect, Housed, Shaped, TypeOK
    <3>5. InsertWorkload => collector'.item = s /\ g \in collector'.left
        BY <2>2, <2>7 DEF InsertWorkload, TypeOK
    <3>6. ASSUME NEW h \in Groups, AssignToGroup(h)
          PROVE  \/ Pending(rows'[<<s, g>>])
                 \/ collector'.item = s /\ g \in collector'.left
      <4>1. g \in collector.left /\ collector.item = s
          BY <2>7, <3>6 DEF AssignToGroup
      <4>2. CASE g = h
        <5>1. rows'[<<s, g>>] = NewRow
            BY <2>3, <3>6, <4>1, <4>2 DEF AssignToGroup, TypeOK
        <5> QED
            BY <5>1 DEF Pending, NewRow, NoRow
      <4>3. CASE g # h
        <5>1. collector' = [collector EXCEPT !.left = @ \ {h}]
            BY <3>6, <4>1, <4>3 DEF AssignToGroup
        <5> QED
            BY <4>1, <4>3, <5>1 DEF TypeOK
      <4> QED
          BY <4>2, <4>3
    <3>7. (\E x \in Submissions : Stage(x)) \/ CleanupLoop \/ UNCHANGED shop => UNCHANGED collector
        BY DEF Stage, CleanupLoop, ListCompleted, DeleteDirectory, DeleteWorkload, shop
    <3> QED
        BY <3>1, <3>2, <3>3, <3>4, <3>5, <3>6, <3>7, ShopSteps
  <2> QED
      BY <1>1, <1>3, <2>2, <2>5, <2>6, <2>7 DEF Assigned
<1> QED
    BY <1>1, <1>2, <1>3

-----------------------------------------------------------------------------
LEMMA IInvInit == Init => IInv
<1> SUFFICES ASSUME Init
             PROVE  IInv
    OBVIOUS
<1>1. \A pair \in Pairs : ~Pending(rows[pair]) /\ ~Done(rows[pair]) /\ log[pair] = {}
    BY DEF Init, NoRow, Pending, Done
<1>2. Shaped /\ Unassigned /\ MarkedBy
    BY DEF Init, Resting, Idle, Shaped, Unassigned, MarkedBy
<1>3. Housed /\ Discarded /\ Assigned /\ Listing
    BY DEF Init, Resting, NothingListed, Housed, Discarded, Assigned, Listing
<1>4. Recorded
    BY <1>1 DEF Init, Idle, Recorded
<1>5. IncomingKept
    BY <1>1, PairFacts DEF IncomingKept
<1>6. FullDeliveryKept
    BY <1>1, PairFacts, DistributionAssumption DEF FullDeliveryKept
<1> QED
    BY <1>2, <1>3, <1>4, <1>5, <1>6 DEF IInv

LEMMA IInvStep == TypeOK /\ IInv /\ [Next]_vars => TypeOK' /\ IInv'
BY TypeStep, HousedStep, UnassignedStep, MarkedByStep, DiscardedStep, AssignedStep, ListingStep,
   RecordedStep, IncomingKeptStep, FullDeliveryKeptStep DEF IInv

\* The tables, the directories and the threads keep their types, and the invariant that
\* relates them is kept by every handler of the collector service and every fault.
THEOREM InvariantHolds == Spec => [](TypeOK /\ IInv)
<1>1. Init => TypeOK /\ IInv
    BY TypeInit, IInvInit
<1> QED
    BY <1>1, IInvStep, PTL DEF Spec

\* The state stays within its types.
THEOREM TypeCorrect == Spec => []TypeOK
BY InvariantHolds, PTL

\* Whatever left the staging directory is handled, queued or excused, for any number of
\* groups, threads and faults.
THEOREM AccountedHolds == Spec => []Accounted
<1>1. TypeOK /\ IInv => Accounted
  <2> SUFFICES ASSUME TypeOK, IInv, NEW s \in Submissions,
                      place[s] \notin {"unseen", "staged", "quarantined"},
                      collector.item # s, fate[s] = {}
               PROVE  \/ place[s] = "discarded" /\ IsDuplicate(s)
                      \/ \A g \in TargetGroups(s) :
                            Pending(rows[<<s, g>>]) \/ "settled" \in log[<<s, g>>]
      BY DEF Accounted
  <2>1. place[s] \in {"incoming", "deleted", "discarded"}
      BY DEF TypeOK, Places
  <2> QED
      BY <2>1 DEF IInv, Assigned, Discarded
<1> QED
    BY <1>1, InvariantHolds, PTL

\* No directory is removed while a group still has to deliver it, unless the cleanup
\* listed the submission before its assignment was complete.
THEOREM IncomingKeptHolds == Spec => []IncomingKept
<1>1. IInv => IncomingKept
    BY DEF IInv
<1> QED
    BY <1>1, InvariantHolds, PTL

\* A group with full delivery and full coverage settles only what a node received or refused.
THEOREM FullDeliveryKeptHolds == Spec => []FullDeliveryKept
<1>1. IInv => FullDeliveryKept
    BY DEF IInv
<1> QED
    BY <1>1, InvariantHolds, PTL

\* A handled row stays handled until its submission is removed: no claim, stolen lock,
\* restart or foreign service queues it again.
THEOREM SettledStaysHolds == Spec => SettledStays
<1>1. TypeOK /\ IInv /\ [Next]_vars =>
         [\A pair \in Pairs : Done(rows[pair]) => Done(rows'[pair]) \/ rows'[pair] = NoRow]_vars
  <2> SUFFICES ASSUME TypeOK, IInv, [Next]_vars, NEW pair \in Pairs, Done(rows[pair])
               PROVE  Done(rows'[pair]) \/ rows'[pair] = NoRow
      OBVIOUS
  <2>1. RowChange(pair)
      BY RowStep DEF IInv
  <2>2. ~Appears(pair)
    <3>1. pair = <<pair[1], pair[2]>>
        BY DEF Pairs
    <3>2. Appears(pair) => rows[<<collector.item, pair[2]>>].status = "none"
        BY DEF Appears, IInv, Unassigned
    <3> QED
        BY <3>1, <3>2 DEF Appears, Done
  <2> QED
      BY <2>1, <2>2 DEF RowChange, Alike, Settles, Vanishes
<1> QED
    BY <1>1, InvariantHolds, PTL DEF Spec, SettledStays

-----------------------------------------------------------------------------
\* The steps of a run in which nothing fails.
LEMMA CalmSteps ==
    ASSUME TypeOK, [Next]_vars, mishaps' = 0
    PROVE  /\ mishaps = 0
           /\ \/ UNCHANGED <<rows, thread, log>>
              \/ \E g \in Groups : AssignToGroup(g)
              \/ \E t \in Threads : DeliveryLoop(t)
              \/ DeleteWorkload
           /\ online = Groups => online' = Groups
<1>1. ASSUME NEW fault, Mishap(fault)
      PROVE  FALSE
    BY <1>1 DEF Mishap, TypeOK
<1>2. ~Restart /\ (\A t \in Threads : ~Age(t)) /\ \A g \in Groups : ~GoOffline(g) /\ ~ForeignService(g)
    BY <1>1 DEF Restart, Age, GoOffline, ForeignService
<1>3. ASSUME NEW s \in Submissions, Stage(s) \/ Collect(s) \/ ScheduleError(s)
      PROVE  UNCHANGED <<rows, thread, log, online>> /\ (mishaps' = mishaps)
    BY <1>1, <1>3 DEF Stage, Collect, ScheduleError
<1>4. ASSUME PrepareFiles \/ InsertWorkload \/ ListCompleted
      PROVE  UNCHANGED <<rows, thread, log, online, mishaps>>
    BY <1>4 DEF PrepareFiles, InsertWorkload, ListCompleted
<1>5. ASSUME NEW g \in Groups, AssignToGroup(g)
      PROVE  UNCHANGED <<online, mishaps>>
    BY <1>5 DEF AssignToGroup
<1>6. ASSUME NEW s \in Submissions, DeleteDirectory(s)
      PROVE  UNCHANGED <<rows, thread, log, online, mishaps>>
    BY <1>6 DEF DeleteDirectory
<1>7. DeleteWorkload => UNCHANGED <<online, mishaps>>
    BY DEF DeleteWorkload
<1>8. ASSUME NEW k \in Keys, ForgetKey(k)
      PROVE  UNCHANGED <<rows, thread, log, online, mishaps>>
    BY <1>8 DEF ForgetKey
<1>9. ASSUME NEW g \in Groups, GoOnline(g)
      PROVE  UNCHANGED <<rows, thread, log, mishaps>> /\ (online = Groups => online' = Groups)
    BY <1>9 DEF GoOnline
<1>10. ASSUME NEW t \in Threads, DeliveryLoop(t)
       PROVE  UNCHANGED <<online, mishaps>>
  <2>1. Claim(t) \/ DropQueue(t) \/ RecordAttempt(t) \/ Settle(t) => UNCHANGED <<online, mishaps>>
      BY DEF Claim, DropQueue, RecordAttempt, Settle
  <2>2. \A s \in Submissions : SettleUnsent(t, s) => UNCHANGED <<online, mishaps>>
      BY DEF SettleUnsent
  <2>3. \A s \in Submissions : Submit(t, s) => UNCHANGED <<online, mishaps>>
      BY <1>1 DEF Submit
  <2> QED
      BY <1>10, <2>1, <2>2, <2>3 DEF DeliveryLoop
<1>11. UNCHANGED vars => UNCHANGED <<rows, thread, log, online, mishaps>>
    BY DEF vars
<1>12. CASE UNCHANGED vars
    BY <1>11, <1>12
<1>13. CASE CollectionLoop
    BY <1>3, <1>4, <1>5, <1>13 DEF CollectionLoop
<1>14. CASE CleanupLoop
    BY <1>4, <1>6, <1>7, <1>14 DEF CleanupLoop
<1> QED
    BY <1>2, <1>3, <1>8, <1>9, <1>10, <1>12, <1>13, <1>14 DEF Next, Progress

LEMMA AheadNone ==
    ASSUME TypeOK, Shaped, Housed, Unassigned, NEW s \in Submissions, NEW g \in Groups, Ahead(s, g)
    PROVE  rows[<<s, g>>].status = "none"
<1>1. CASE collector.item = s /\ g \in collector.left
    BY <1>1 DEF Unassigned
<1>2. CASE s \notin workload
    BY <1>2, PairFacts DEF TypeOK
<1> QED
    BY <1>1, <1>2 DEF Ahead, Housed

LEMMA AheadShrinks ==
    ASSUME TypeOK, Shaped, Housed, Unassigned, [Next]_vars,
           NEW s \in Submissions, NEW g \in Groups, Ahead(s, g)'
    PROVE  Ahead(s, g)
<1> USE DistributionAssumption
<1>1. CASE place'[s] \in {"unseen", "staged"}
    BY <1>1, SubmissionStep DEF Ahead
<1>2. CASE collector'.item = s /\ (collector'.at = "moved" \/ g \in collector'.left)
  <2>1. UNCHANGED collector => Ahead(s, g)
      BY <1>2 DEF Ahead
  <2>2. collector' # Resting
      BY <1>2 DEF Resting
  <2>3. ASSUME NEW x \in Submissions, Collect(x)
        PROVE  Ahead(s, g)
      BY <1>2, <2>1, <2>3 DEF Collect, Unassigned, TypeOK
  <2>4. PrepareFiles => Ahead(s, g)
      BY <1>2 DEF PrepareFiles, Housed, TypeOK, Ahead
  <2>5. InsertWorkload => Ahead(s, g)
      BY <1>2 DEF InsertWorkload, TypeOK, Ahead
  <2>6. \A h \in Groups : AssignToGroup(h) => Ahead(s, g)
      BY <1>2, <2>2 DEF AssignToGroup, TypeOK, Ahead
  <2>7. (\E x \in Submissions : Stage(x)) \/ CleanupLoop \/ UNCHANGED shop => UNCHANGED collector
      BY DEF Stage, CleanupLoop, ListCompleted, DeleteDirectory, DeleteWorkload, shop
  <2>8. (\E x \in Submissions : ScheduleError(x)) \/ Restart => collector' = Resting
      BY DEF ScheduleError, Restart
  <2> QED
      BY <2>1, <2>2, <2>3, <2>4, <2>5, <2>6, <2>7, <2>8, ShopSteps
<1> QED
    BY <1>1, <1>2 DEF Ahead

\* A thread works on s: it may leave its batch, other rows and batches stay.
WorksOn(t, s) ==
    /\ s \in thread[t].batch
    /\ \A pair \in Pairs \ {<<s, GroupOf[t]>>} : rows'[pair] = rows[pair] /\ log'[pair] = log[pair]
    /\ \A u \in Threads \ {t} : thread'[u] = thread[u]
    /\ thread'[t].batch \in {thread[t].batch, thread[t].batch \ {s}}
    /\ thread'[t].at = "idle" => thread'[t].batch = {}
    /\ \A x \in thread[t].batch \ {s} : ~(thread[t].at = "sent" /\ thread[t].item = x)
    /\ ~rows'[<<s, GroupOf[t]>>].old \/ rows'[<<s, GroupOf[t]>>].status # "LOCKED"
    /\ "twice" \notin log'[<<s, GroupOf[t]>>]
    /\ \/ s \in thread'[t].batch /\ Holds(t, s)'
       \/ s \notin thread'[t].batch /\ Done(rows'[<<s, GroupOf[t]>>])
       \/ s \notin thread'[t].batch /\ rows'[<<s, GroupOf[t]>>].status = "none"
       \/ s \notin thread'[t].batch /\ "delivered" \notin log'[<<s, GroupOf[t]>>]

LEMMA WorksOnCalm ==
    ASSUME TypeOK, Shaped, Housed, Unassigned, Calm, [Next]_vars, online' = Groups,
           NEW t \in Threads, NEW s, WorksOn(t, s)
    PROVE  Calm'
<1> USE DistributionAssumption
<1>1. s \in Submissions
    BY DEF WorksOn, TypeOK
<1>2. Undisturbed'
    BY DEF WorksOn, Undisturbed, Calm, TypeOK
<1>3. Fresh'
  <2> SUFFICES ASSUME NEW x \in Submissions, NEW g \in Groups, Ahead(x, g)'
               PROVE  /\ log'[<<x, g>>] = {}
                      /\ \A u \in Threads : GroupOf[u] = g => x \notin thread'[u].batch
      BY DEF Fresh
  <2>1. /\ log[<<x, g>>] = {}
        /\ \A u \in Threads : GroupOf[u] = g => x \notin thread[u].batch
      BY AheadShrinks DEF Fresh, Calm
  <2>2. <<x, g>> # <<s, GroupOf[t]>>
      BY <2>1 DEF WorksOn
  <2> QED
      BY <2>1, <2>2, PairFacts DEF WorksOn
<1>4. Held'
  <2> SUFFICES ASSUME NEW u \in Threads
               PROVE  /\ thread'[u].at = "idle" => thread'[u].batch = {}
                      /\ \A x \in thread'[u].batch : Holds(u, x)'
      BY DEF Held
  <2>1. thread'[u].at = "idle" => thread'[u].batch = {}
      BY DEF WorksOn, Held, Calm
  <2>2. ASSUME NEW x \in thread'[u].batch, <<x, GroupOf[u]>> # <<s, GroupOf[t]>>
        PROVE  Holds(u, x)'
    <3>1. x \in thread[u].batch /\ x \in Submissions
        BY <2>2 DEF WorksOn, TypeOK
    <3>2. Holds(u, x)
        BY <3>1 DEF Held, Calm
    <3>3. rows'[<<x, GroupOf[u]>>] = rows[<<x, GroupOf[u]>>] /\ log'[<<x, GroupOf[u]>>] = log[<<x, GroupOf[u]>>]
        BY <2>2, <3>1, PairFacts DEF WorksOn
    <3>4. \A v \in Threads : thread'[v].batch \subseteq thread[v].batch
        BY DEF WorksOn
    <3>5. "delivered" \in log[<<x, GroupOf[u]>>] => u # t
        BY <2>2, <3>1, <3>2 DEF Holds, WorksOn
    <3> QED
        BY <3>2, <3>3, <3>4, <3>5 DEF Holds, WorksOn
  <2>3. ASSUME NEW x \in thread'[u].batch, <<x, GroupOf[u]>> = <<s, GroupOf[t]>>
        PROVE  Holds(u, x)'
    <3>1. CASE u = t
        BY <2>3, <3>1 DEF WorksOn
    <3>2. CASE u # t
      <4>1. s \in thread[u].batch /\ s \in thread[t].batch /\ GroupOf[u] = GroupOf[t]
          BY <2>3, <3>2 DEF WorksOn
      <4> QED
          BY <3>2, <4>1 DEF Held, Holds, Calm
    <3> QED
        BY <3>1, <3>2
  <2> QED
      BY <2>1, <2>2, <2>3
<1>5. InHand'
  <2> SUFFICES ASSUME NEW x \in Submissions, NEW g \in Groups, Pending(rows'[<<x, g>>]),
                      "delivered" \in log'[<<x, g>>]
               PROVE  \E u \in Threads : GroupOf[u] = g /\ x \in thread'[u].batch
      BY DEF InHand
  <2>1. CASE <<x, g>> = <<s, GroupOf[t]>>
    <3>1. s \in thread'[t].batch
        BY <2>1 DEF WorksOn, Done, Pending
    <3> QED
        BY <2>1, <3>1
  <2>2. CASE <<x, g>> # <<s, GroupOf[t]>>
    <3>1. rows'[<<x, g>>] = rows[<<x, g>>] /\ log'[<<x, g>>] = log[<<x, g>>]
        BY <2>2, PairFacts DEF WorksOn
    <3>2. PICK u \in Threads : GroupOf[u] = g /\ x \in thread[u].batch
        BY <3>1 DEF InHand, Calm
    <3>3. x \in thread'[u].batch
        BY <2>2, <3>2 DEF WorksOn
    <3> QED
        BY <3>2, <3>3
  <2> QED
      BY <2>1, <2>2
<1> QED
    BY <1>2, <1>3, <1>4, <1>5 DEF Calm

\* A row that is settled.
LEMMA SettleWorksOn ==
    ASSUME TypeOK, Calm, NEW t \in Threads, NEW s \in thread[t].batch,
           NEW status \in {"ERROR", "COMPLETED"},
           thread[t].at = "batch" \/ thread[t].item = s,
           rows' = SetStatus(s, GroupOf[t], status),
           thread' = [thread EXCEPT ![t] = After(t, s)],
           log' = Note("settled", Existing({<<s, GroupOf[t]>>}))
    PROVE  WorksOn(t, s)
<1> USE DistributionAssumption
<1> DEFINE pair == <<s, GroupOf[t]>>
<1>1. pair \in Pairs
    BY PairFacts DEF TypeOK
<1>2. \A q \in Pairs \ {pair} : rows'[q] = rows[q] /\ log'[q] = log[q]
    BY DEF SetStatus, Note, Existing, TypeOK
<1>3. (\A u \in Threads \ {t} : thread'[u] = thread[u]) /\ thread'[t] = After(t, s)
    BY DEF TypeOK
<1>4. /\ thread'[t].batch = thread[t].batch \ {s}
      /\ thread'[t].at = "idle" => thread'[t].batch = {}
    BY <1>3 DEF After, Idle
<1>5. rows[pair] \in Row
    BY <1>1 DEF TypeOK
<1>6. \/ rows'[pair] = rows[pair] /\ rows[pair].status = "none"
      \/ rows'[pair] = Handled(rows[pair], status)
    BY <1>1 DEF SetStatus, TypeOK
<1>7. Handled(rows[pair], status).status = status
    BY <1>5 DEF Handled, Row
<1>8. "twice" \notin log'[pair]
    BY <1>1 DEF Note, Calm, Undisturbed
<1>9. Done(rows'[pair]) \/ rows'[pair].status = "none"
    BY <1>6, <1>7 DEF Done
<1>10. rows'[pair].status # "LOCKED"
    BY <1>9 DEF Done
<1> HIDE DEF pair
<1>11. \A x \in thread[t].batch \ {s} : ~(thread[t].at = "sent" /\ thread[t].item = x)
    OBVIOUS
<1> QED
    BY <1>2, <1>3, <1>4, <1>8, <1>9, <1>10, <1>11 DEF WorksOn, pair

LEMMA SubmitWorksOn ==
    ASSUME TypeOK, Calm, mishaps = 0, mishaps' = 0,
           NEW t \in Threads, NEW s \in Submissions, Submit(t, s)
    PROVE  WorksOn(t, s)
<1> USE DistributionAssumption
<1> DEFINE pair == <<s, GroupOf[t]>>
<1>1. pair \in Pairs
    BY PairFacts
<1>2. PICK arrives \in BOOLEAN, outcome \in {"sent", "refused", "failed"} :
          /\ thread[t].at = "batch" /\ s \in thread[t].batch
          /\ outcome = "sent" => arrives
          /\ IF arrives /\ outcome # "sent" THEN Mishap("lost") ELSE UNCHANGED mishaps
          /\ thread' = [thread EXCEPT ![t].at = outcome, ![t].item = s]
          /\ log' = [log EXCEPT ![pair] =
                       @ \cup (IF arrives THEN {"delivered"} ELSE {})
                         \cup (IF arrives /\ "delivered" \in @ THEN {"twice"} ELSE {})
                         \cup (IF outcome = "failed" THEN {"refused"} ELSE {})]
          /\ rows' = rows
    BY DEF Submit
<1>3. arrives => outcome = "sent"
    BY <1>2 DEF Mishap
<1>4. Holds(t, s)
    BY <1>2 DEF Calm, Held
<1>5. "delivered" \notin log[pair]
    BY <1>2, <1>4 DEF Holds
<1>6. (\A q \in Pairs \ {pair} : log'[q] = log[q]) /\ rows' = rows
    BY <1>2 DEF TypeOK
<1>7. /\ "twice" \notin log'[pair]
      /\ "delivered" \in log'[pair] => outcome = "sent"
    BY <1>1, <1>2, <1>3, <1>5 DEF TypeOK, Calm, Undisturbed
<1>8. /\ \A u \in Threads \ {t} : thread'[u] = thread[u]
      /\ thread'[t].at = outcome /\ thread'[t].item = s /\ thread'[t].batch = thread[t].batch
    BY <1>2 DEF TypeOK
<1>9. Holds(t, s)'
    BY <1>4, <1>6, <1>7, <1>8 DEF Holds, pair
<1>10. ~rows'[pair].old \/ rows'[pair].status # "LOCKED"
    BY <1>1, <1>6 DEF Calm, Undisturbed
<1> QED
    BY <1>2, <1>6, <1>7, <1>8, <1>9, <1>10 DEF WorksOn

LEMMA AttemptWorksOn ==
    ASSUME TypeOK, Shaped, Calm, NEW t \in Threads, RecordAttempt(t),
           NEW s, s = thread[t].item
    PROVE  WorksOn(t, s)
<1> USE DistributionAssumption
<1> DEFINE pair == <<s, GroupOf[t]>>
           exhausted == rows[pair].status = "none" \/ rows[pair].attempts + 1 >= MaxAttempts
<1>1. /\ thread[t].at = "refused"
      /\ rows' = [rows EXCEPT ![pair] = Attempted(@)]
      /\ thread' = [thread EXCEPT ![t] = IF exhausted THEN [@ EXCEPT !.at = "failed"]
                                         ELSE After(t, s)]
      /\ log' = IF exhausted THEN Note("refused", {pair}) ELSE log
    BY DEF RecordAttempt
<1>2. s \in thread[t].batch /\ s \in Submissions
    BY <1>1 DEF Shaped, TypeOK
<1>3. pair \in Pairs
    BY <1>2, PairFacts
<1>4. Holds(t, s)
    BY <1>2 DEF Calm, Held
<1>5. "delivered" \notin log[pair]
    BY <1>1, <1>4 DEF Holds
<1> HIDE DEF exhausted
<1>6. \A q \in Pairs \ {pair} : rows'[q] = rows[q] /\ log'[q] = log[q]
    BY <1>1 DEF Note, TypeOK
<1>7. "delivered" \notin log'[pair] /\ "twice" \notin log'[pair]
    BY <1>1, <1>3, <1>5 DEF Note, Calm, Undisturbed
<1>8. rows'[pair] = Attempted(rows[pair]) /\ rows[pair] \in Row
    BY <1>1, <1>3 DEF TypeOK
<1>9. /\ rows'[pair].status = rows[pair].status /\ rows'[pair].lock = rows[pair].lock
      /\ rows'[pair].old = rows[pair].old
    BY <1>8 DEF Attempted, Row
<1>10. ~rows'[pair].old \/ rows'[pair].status # "LOCKED"
    BY <1>3, <1>9 DEF Calm, Undisturbed
<1>11. \A u \in Threads \ {t} : thread'[u] = thread[u]
    BY <1>1 DEF TypeOK
<1>12. CASE exhausted
  <2>1. thread'[t] = [thread[t] EXCEPT !.at = "failed"]
      BY <1>1, <1>12 DEF TypeOK
  <2>2. thread'[t].at = "failed" /\ thread'[t].batch = thread[t].batch
      BY <2>1 DEF TypeOK
  <2>3. Holds(t, s)'
    <3>1. \A u \in Threads \ {t} : GroupOf[u] = GroupOf[t] => s \notin thread'[u].batch
        BY <1>4, <1>11 DEF Holds
    <3> QED
        BY <1>4, <1>7, <1>9, <3>1 DEF Holds
  <2> QED
      BY <1>1, <1>2, <1>6, <1>7, <1>10, <1>11, <2>2, <2>3 DEF WorksOn
<1>13. CASE ~exhausted
  <2>1. thread'[t] = After(t, s)
      BY <1>1, <1>13 DEF TypeOK
  <2>2. /\ thread'[t].batch = thread[t].batch \ {s}
        /\ thread'[t].at = "idle" => thread'[t].batch = {}
      BY <2>1 DEF After, Idle
  <2> QED
      BY <1>1, <1>2, <1>6, <1>7, <1>10, <1>11, <2>2 DEF WorksOn
<1> QED
    BY <1>12, <1>13

\* A batch that is taken while nothing fails was nobody's before.
LEMMA ClaimCalm ==
    ASSUME TypeOK, Shaped, Housed, Unassigned, Calm, [Next]_vars, online' = Groups,
           NEW t \in Threads, Claim(t)
    PROVE  Calm'
<1> USE DistributionAssumption
<1> DEFINE g == GroupOf[t]
<1>1. PICK batch :
          /\ thread[t].at = "idle"
          /\ batch \in IF Own(t) # {} THEN {Own(t)} ELSE Batches(Claimable(g))
          /\ batch # {}
          /\ rows' = [q \in Pairs |->
                     IF q[1] \in batch \ Own(t) /\ q[2] = g
                     THEN [rows[q] EXCEPT !.status = "LOCKED", !.lock = t, !.old = FALSE]
                     ELSE rows[q]]
          /\ thread' = [thread EXCEPT ![t].at = "batch", ![t].batch = batch]
          /\ log' = log
    BY DEF Claim
<1>2. batch \subseteq Own(t) \cup Claimable(g) /\ batch \subseteq Submissions
    BY <1>1 DEF Batches, Own, Claimable
<1>3. /\ \A u \in Threads \ {t} : thread'[u] = thread[u]
      /\ thread'[t].at = "batch" /\ thread'[t].batch = batch
      /\ thread[t].batch = {}
  <2>1. thread[t].batch = {}
      BY <1>1 DEF Calm, Held
  <2>2. \A u \in Threads \ {t} : thread'[u] = thread[u]
      BY <1>1 DEF TypeOK
  <2>3. thread'[t].at = "batch" /\ thread'[t].batch = batch
    <3> DEFINE begun == [thread EXCEPT ![t].at = "batch"]
    <3>1. thread' = [begun EXCEPT ![t].batch = batch]
        BY <1>1
    <3>2. /\ DOMAIN begun = Threads /\ begun[t] = [thread[t] EXCEPT !.at = "batch"]
          /\ DOMAIN begun[t] = {"at", "batch", "item"} /\ begun[t].at = "batch"
        BY DEF TypeOK
    <3> HIDE DEF begun
    <3> QED
        BY <3>1, <3>2
  <2> QED
      BY <2>1, <2>2, <2>3
<1>4. ASSUME NEW s \in batch
      PROVE  /\ \/ rows[<<s, g>>].status = "READY"
                \/ rows[<<s, g>>].status = "LOCKED" /\ rows[<<s, g>>].lock = t
             /\ s \in Submissions /\ <<s, g>> \in Pairs
  <2>1. s \in Submissions /\ <<s, g>> \in Pairs
      BY <1>2, PairFacts
  <2>2. rows[<<s, g>>].status = "LOCKED" => ~rows[<<s, g>>].old
      BY <2>1 DEF Calm, Undisturbed
  <2> QED
      BY <1>2, <2>1, <2>2 DEF Own, Claimable
<1>5. ASSUME NEW s \in batch, NEW u \in Threads, GroupOf[u] = g
      PROVE  s \notin thread[u].batch
  <2>1. s \in thread[u].batch => Holds(u, s)
      BY DEF Calm, Held
  <2> QED
      BY <1>3, <1>4, <1>5, <2>1 DEF Holds
<1>6. ASSUME NEW s \in batch
      PROVE  "delivered" \notin log[<<s, g>>]
    BY <1>4, <1>5 DEF Calm, InHand, Pending
<1>7. ASSUME NEW s \in batch
      PROVE  /\ rows'[<<s, g>>].status = "LOCKED" /\ rows'[<<s, g>>].lock = t
             /\ ~rows'[<<s, g>>].old
  <2>1. rows[<<s, g>>] \in Row
      BY <1>4 DEF TypeOK
  <2> DEFINE locked == [rows[<<s, g>>] EXCEPT !.status = "LOCKED", !.lock = t, !.old = FALSE]
  <2>2. locked.status = "LOCKED" /\ locked.lock = t /\ ~locked.old
      BY <2>1 DEF Row
  <2>3. s \notin Own(t) => rows'[<<s, g>>] = locked
      BY <1>1, <1>4
  <2>4. s \in Own(t) => rows'[<<s, g>>] = rows[<<s, g>>]
      BY <1>1, <1>4
  <2>5. s \in Own(t) => rows[<<s, g>>].status = "LOCKED" /\ rows[<<s, g>>].lock = t
      BY DEF Own
  <2>6. rows[<<s, g>>].status = "LOCKED" => ~rows[<<s, g>>].old
      BY <1>4 DEF Calm, Undisturbed
  <2> HIDE DEF locked
  <2> QED
      BY <2>2, <2>3, <2>4, <2>5, <2>6
<1>8. \A q \in Pairs : q[1] \notin batch \/ q[2] # g => rows'[q] = rows[q]
    BY <1>1
<1>9. Undisturbed'
  <2> SUFFICES ASSUME NEW q \in Pairs, rows'[q].status = "LOCKED"
               PROVE  ~rows'[q].old
      BY <1>1 DEF Undisturbed, Calm
  <2>1. CASE q[1] \in batch /\ q[2] = g
    <3>1. q = <<q[1], g>>
        BY <2>1 DEF Pairs
    <3> QED
        BY <2>1, <3>1, <1>7
  <2>2. CASE ~(q[1] \in batch /\ q[2] = g)
      BY <1>8, <2>2 DEF Undisturbed, Calm
  <2> QED
      BY <2>1, <2>2
<1>10. Fresh'
  <2> SUFFICES ASSUME NEW s \in Submissions, NEW h \in Groups, Ahead(s, h)'
               PROVE  /\ log'[<<s, h>>] = {}
                      /\ \A u \in Threads : GroupOf[u] = h => s \notin thread'[u].batch
      BY DEF Fresh
  <2>1. Ahead(s, h)
      BY AheadShrinks
  <2>2. /\ log[<<s, h>>] = {}
        /\ \A u \in Threads : GroupOf[u] = h => s \notin thread[u].batch
      BY <2>1 DEF Fresh, Calm
  <2>3. h = g => s \notin batch
      BY <1>4, <2>1, AheadNone
  <2> QED
      BY <1>1, <1>3, <2>2, <2>3
<1>11. Held'
  <2>1. ASSUME NEW s \in batch
        PROVE  Holds(t, s)'
    <3>1. \A u \in Threads \ {t} : GroupOf[u] = g => s \notin thread'[u].batch
        BY <1>3, <1>5
    <3> QED
        BY <1>1, <1>6, <1>7, <3>1 DEF Holds
  <2>2. ASSUME NEW u \in Threads \ {t}, NEW s \in thread[u].batch
        PROVE  Holds(u, s)'
    <3>1. Holds(u, s) /\ s \in Submissions
        BY DEF Calm, Held, TypeOK
    <3>2. GroupOf[u] = g => s \notin batch
        BY <1>5
    <3>3. rows'[<<s, GroupOf[u]>>] = rows[<<s, GroupOf[u]>>]
        BY <1>8, <3>1, <3>2, PairFacts
    <3>4. \A v \in Threads \ {u} : GroupOf[v] = GroupOf[u] => s \notin thread'[v].batch
        BY <1>3, <3>1, <3>2 DEF Holds
    <3> QED
        BY <1>1, <1>3, <3>1, <3>3, <3>4 DEF Holds
  <2> QED
      BY <1>3, <2>1, <2>2 DEF Held, Calm
<1>12. InHand'
  <2> SUFFICES ASSUME NEW s \in Submissions, NEW h \in Groups, Pending(rows'[<<s, h>>]),
                      "delivered" \in log[<<s, h>>]
               PROVE  \E u \in Threads : GroupOf[u] = h /\ s \in thread'[u].batch
      BY <1>1 DEF InHand
  <2>1. ~(h = g /\ s \in batch)
      BY <1>6
  <2>2. rows'[<<s, h>>] = rows[<<s, h>>]
      BY <1>8, <2>1, PairFacts
  <2>3. PICK u \in Threads : GroupOf[u] = h /\ s \in thread[u].batch
      BY <2>2 DEF InHand, Calm
  <2> QED
      BY <1>3, <2>3
<1> QED
    BY <1>9, <1>10, <1>11, <1>12 DEF Calm

\* The steps that leave the threads and the history alone.
LEMMA RowsCalm ==
    ASSUME TypeOK, Shaped, Housed, Unassigned, Calm, [Next]_vars, online' = Groups,
           UNCHANGED <<thread, log>>,
           \A q \in Pairs : \/ rows'[q] = rows[q]
                            \/ rows'[q] = NoRow
                            \/ rows'[q] = NewRow /\ Ahead(q[1], q[2])
    PROVE  Calm'
<1> USE DistributionAssumption
<1>1. Undisturbed'
    BY DEF Undisturbed, Calm, NoRow, NewRow
<1>2. Fresh'
    BY AheadShrinks DEF Fresh, Calm
<1>3. Held'
  <2> SUFFICES ASSUME NEW t \in Threads, NEW s \in thread[t].batch
               PROVE  Holds(t, s)'
      BY DEF Held, Calm
  <2>1. Holds(t, s) /\ s \in Submissions
      BY DEF Held, Calm, TypeOK
  <2>2. ~Ahead(s, GroupOf[t])
      BY <2>1 DEF Calm, Fresh
  <2>3. rows'[<<s, GroupOf[t]>>] = rows[<<s, GroupOf[t]>>] \/ rows'[<<s, GroupOf[t]>>] = NoRow
      BY <2>1, <2>2, PairFacts
  <2> QED
      BY <2>1, <2>3 DEF Holds, NoRow
<1>4. InHand'
  <2> SUFFICES ASSUME NEW s \in Submissions, NEW g \in Groups, Pending(rows'[<<s, g>>]),
                      "delivered" \in log[<<s, g>>]
               PROVE  \E u \in Threads : GroupOf[u] = g /\ s \in thread[u].batch
      BY DEF InHand
  <2>1. ~Ahead(s, g)
      BY DEF Calm, Fresh
  <2>2. rows'[<<s, g>>] = rows[<<s, g>>]
      BY <2>1, PairFacts DEF NoRow, Pending
  <2> QED
      BY <2>2 DEF Calm, InHand
<1> QED
    BY <1>1, <1>2, <1>3, <1>4 DEF Calm

LEMMA CalmInvStep ==
    ASSUME TypeOK, Shaped, Housed, Unassigned, CalmInv, [Next]_vars
    PROVE  CalmInv'
<1> USE DistributionAssumption
<1> SUFFICES ASSUME mishaps' = 0
             PROVE  Calm'
    BY DEF CalmInv
<1>1. mishaps = 0
    BY CalmSteps
<1>2. Calm /\ online' = Groups
    BY <1>1, CalmSteps DEF CalmInv, Calm, Undisturbed
<1>3. CASE UNCHANGED <<rows, thread, log>>
    BY <1>2, <1>3, RowsCalm
<1>4. ASSUME NEW g \in Groups, AssignToGroup(g)
      PROVE  Calm'
  <2>1. /\ UNCHANGED <<thread, log>> /\ g \in collector.left
        /\ rows' = [rows EXCEPT ![<<collector.item, g>>] = NewRow]
      BY <1>4 DEF AssignToGroup
  <2>2. Ahead(collector.item, g)
      BY <2>1 DEF Ahead
  <2>3. \A q \in Pairs : rows'[q] = rows[q] \/ (rows'[q] = NewRow /\ q = <<collector.item, g>>)
      BY <2>1 DEF TypeOK
  <2>4. \A q \in Pairs : rows'[q] = rows[q] \/ (rows'[q] = NewRow /\ Ahead(q[1], q[2]))
      BY <2>2, <2>3
  <2> QED
      BY <1>2, <2>1, <2>4, RowsCalm
<1>5. CASE DeleteWorkload
  <2>1. /\ UNCHANGED <<thread, log>>
        /\ rows' = [q \in Pairs |-> IF q[1] = cleaner.removed THEN NoRow ELSE rows[q]]
      BY <1>5 DEF DeleteWorkload
  <2>2. \A q \in Pairs : rows'[q] = rows[q] \/ rows'[q] = NoRow
      BY <2>1
  <2> QED
      BY <1>2, <2>1, <2>2, RowsCalm
<1>6. ASSUME NEW t \in Threads, DeliveryLoop(t)
      PROVE  Calm'
  <2>1. CASE Claim(t)
      BY <1>2, <2>1, ClaimCalm
  <2>2. ~DropQueue(t)
      BY <1>2 DEF DropQueue, Calm, Undisturbed
  <2>3. CASE RecordAttempt(t)
    <3>1. PICK s : s = thread[t].item
        OBVIOUS
    <3> QED
        BY <1>2, <2>3, <3>1, AttemptWorksOn, WorksOnCalm
  <2>4. CASE Settle(t)
    <3>1. PICK s : s = thread[t].item
        OBVIOUS
    <3>2. PICK status \in {"ERROR", "COMPLETED"} :
              status = IF thread[t].at = "sent" THEN "COMPLETED" ELSE "ERROR"
        OBVIOUS
    <3>3. /\ s \in thread[t].batch
          /\ rows' = SetStatus(s, GroupOf[t], status)
          /\ thread' = [thread EXCEPT ![t] = After(t, s)]
          /\ log' = Note("settled", Existing({<<s, GroupOf[t]>>}))
        BY <2>4, <3>1, <3>2 DEF Settle, Shaped
    <3>4. WorksOn(t, s)
        BY <1>2, <3>1, <3>3, SettleWorksOn
    <3> QED
        BY <1>2, <3>4, WorksOnCalm
  <2>5. ASSUME NEW s \in Submissions, SettleUnsent(t, s)
        PROVE  Calm'
    <3>1. PICK status \in {"ERROR", "COMPLETED"} : rows' = SetStatus(s, GroupOf[t], status)
        BY <2>5 DEF SettleUnsent
    <3>2. /\ s \in thread[t].batch /\ thread[t].at = "batch"
          /\ thread' = [thread EXCEPT ![t] = After(t, s)]
          /\ log' = Note("settled", Existing({<<s, GroupOf[t]>>}))
        BY <2>5 DEF SettleUnsent
    <3>3. WorksOn(t, s)
        BY <1>2, <3>1, <3>2, SettleWorksOn
    <3> QED
        BY <1>2, <3>3, WorksOnCalm
  <2>6. ASSUME NEW s \in Submissions, Submit(t, s)
        PROVE  Calm'
      BY <1>1, <1>2, <2>6, SubmitWorksOn, WorksOnCalm
  <2> QED
      BY <1>6, <2>1, <2>2, <2>3, <2>4, <2>5, <2>6 DEF DeliveryLoop
<1> QED
    BY <1>3, <1>4, <1>5, <1>6, CalmSteps

\* In a run without faults a group receives each submission at most once.
THEOREM DeliveredOnceHolds == Spec => []DeliveredOnce
<1>1. Init => CalmInv
  <2> SUFFICES ASSUME Init
               PROVE  Calm
      BY DEF CalmInv
  <2>1. \A pair \in Pairs : rows[pair].status = "none" /\ log[pair] = {}
      BY DEF Init, NoRow
  <2>2. \A t \in Threads : thread[t].batch = {}
      BY DEF Init, Idle
  <2>3. Undisturbed
      BY <2>1 DEF Init, Undisturbed
  <2>4. Fresh /\ Held
      BY <2>1, <2>2, PairFacts DEF Fresh, Held
  <2>5. InHand
      BY <2>1, PairFacts DEF InHand
  <2> QED
      BY <2>3, <2>4, <2>5 DEF Calm
<1>2. TypeOK /\ IInv /\ CalmInv /\ [Next]_vars => CalmInv'
    BY CalmInvStep DEF IInv
<1>3. CalmInv => DeliveredOnce
    BY DEF CalmInv, Calm, Undisturbed, DeliveredOnce
<1> QED
    BY <1>1, <1>2, <1>3, InvariantHolds, PTL DEF Spec
=============================================================================
