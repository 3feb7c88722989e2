-------------------------- MODULE WorkQueueProofs --------------------------
(***************************************************************************)
(* Proofs about the workers of a node, for any numbers of roots, processes *)
(* and worker names, when workers may be killed at any point: no root is   *)
(* analysed twice at a time, a row stays until its analysis is over,       *)
(* storage goes last, and a replacement releases only what the dead held.  *)
(***************************************************************************)
EXTENDS WorkQueue, TLAPS

\* Workers may die anywhere, but their locks age only when nobody is left to refresh or
\* release them, and the engine is not restarted.
CrashOnly == Faults \subseteq {"crash"}

\* A process has a worker name while it lives and a work item while it has one to do.
Shaped ==
    \A p \in Procs :
        /\ Alive(p) => name[p] \in Slots
        /\ pc[p] \notin {"unborn", "startup", "idle", "dead"} => item[p] \in Rows

\* Each worker name has one process at a time.
Staffed ==
    /\ \A p \in Procs : uuid[p] = p
    /\ \A p \in Procs : Alive(p) => current[name[p]] = p
    /\ \A s \in Slots : pc[current[s]] # "unborn" /\ name[current[s]] = s

\* Requests are numbered as they are added.
Numbered ==
    /\ \A row \in rows : row[2] <= delays[row[1]]
    /\ \A p \in Procs : item[p] # NoRow => item[p][2] <= delays[Root(p)]

\* What a process was told about its lock is so.
Owned ==
    /\ \A p \in Procs : pc[p] \in Holding => locks[Root(p)] = p /\ Root(p) \notin aged
    /\ \A p \in keeping : pc[p] \in Holding \ {"verifying", "claimed", "unlocking"}
    /\ cancelled = {}

\* The tracking directory of a worker name.
Tracked ==
    /\ \A p \in Procs : pc[p] \in Holding \ {"verifying", "claimed"} => target[name[p]] = Root(p)
    /\ \A s \in module : target[s] # NoRoot
    /\ \A p \in Procs : Alive(p) /\ name[p] \in module => pc[p] \in {"module", "startup", "releasing"}

\* A root whose worker died in a module stays locked by the dead until the replacement,
\* which read that lock, releases it.
Left ==
    /\ \A s \in module :
          pc[current[s]] \in {"dead", "startup", "releasing"} =>
              /\ locks[target[s]] \in Procs
              /\ pc[locks[target[s]]] = "dead" /\ name[locks[target[s]]] = s
              /\ target[s] \notin aged
    /\ \A p \in Procs :
          pc[p] = "releasing" =>
              /\ name[p] \in module /\ target[name[p]] = Root(p)
              /\ seen[p] = locks[Root(p)]

\* InFlightWorkKept from the moment the row was looked up; the storage is there.
Present ==
    \A p \in Procs :
        /\ pc[p] \in {"claimed", "ready", "analysing", "module"} /\ item[p][2] = 0 => item[p] \in rows
        /\ InPass(p) => Root(p) \in stored

\* The roots that CleanupLast and NoWorkDropped speak of.
Tame(r) == killed => delays[r] = 0

\* Requests are added by the pass of the workload row or after it.
Begun ==
    \A r \in Roots :
        ~killed /\ delays[r] > 0 =>
            \/ <<r, 0>> \in ended
            \/ \E q \in Procs : pc[q] \in {"analysing", "module"} /\ item[q] = <<r, 0>>

\* What follows the analysis of a row.
Concluded ==
    \A p \in Procs :
        /\ pc[p] \in {"checking", "removing"} => item[p] \in ended
        /\ pc[p] = "removing" /\ Tame(Root(p)) => RowsOf(Root(p)) \subseteq ended
        /\ pc[p] = "clearing" /\ Tame(Root(p)) /\ (item[p] \in rows \/ item[p][2] = 0) =>
              item[p] \in ended \/ item[p][2] \notin recorded[Root(p)] \cup {0}

Cleaned == \A row \in rows : Tame(row[1]) /\ row[1] \notin stored => row \in ended

IInv ==
    /\ Staffed /\ Numbered /\ Owned /\ Tracked /\ Left /\ Present
    /\ Begun /\ Concluded /\ Cleaned

-----------------------------------------------------------------------------
\* What each step does to the types of the state.
LEMMA ItemTyped ==
    ASSUME TypeOK, Shaped, NEW p \in Procs,
           pc[p] \notin {"unborn", "startup", "idle", "dead"}
    PROVE  /\ item[p] \in Rows /\ Root(p) \in Roots /\ item[p][2] \in 0 .. MaxDelays
           /\ item[p] = <<Root(p), item[p][2]>> /\ name[p] \in Slots
           /\ delays[Root(p)] \in 0 .. MaxDelays
BY DEF Shaped, Rows, Root, TypeOK, Alive

LEMMA NoRowApart == NoRow \notin Rows
BY QueueAssumption DEF Rows

\* The steps of one process that is neither started nor killed, by what they may change.
LEMMA WorkTypes ==
    ASSUME TypeOK, Shaped, NEW p \in Procs,
           \/ List(p) \/ Acquire(p) \/ Verify(p) \/ Begin(p) \/ Load(p) \/ EnterModule(p)
           \/ Check(p) \/ RemoveStorage(p) \/ Clear(p) \/ ClearError(p) \/ Release(p)
    PROVE  TypeOK'
<1> USE QueueAssumption
<1>1. CASE List(p)
  <2>1. PICK row \in rows : item' = [item EXCEPT ![p] = row]
      BY <1>1 DEF List
  <2> QED
      BY <1>1, <2>1 DEF List, TypeOK, tables, tracking, identity, bounds, Goto, PC
<1>2. CASE Acquire(p)
    BY <1>2, ItemTyped DEF Acquire, Lock, TypeOK, tables, tracking, identity, bounds, Goto, PC
<1>3. CASE Verify(p)
    BY <1>3, ItemTyped DEF Verify, Unlock, TypeOK, tracking, identity, bounds, Goto, PC
<1>4. CASE Begin(p)
    BY <1>4, ItemTyped DEF Begin, Lock, TypeOK, identity, bounds, Goto, PC
<1>5. CASE Load(p)
    BY <1>5, ItemTyped DEF Load, TypeOK, tables, tracking, identity, bounds, Goto, PC
<1>6. CASE EnterModule(p)
    BY <1>6, ItemTyped DEF EnterModule, TypeOK, tables, identity, local, bounds, Goto, PC
<1>7. CASE Check(p)
    BY <1>7 DEF Check, TypeOK, tables, tracking, identity, local, bounds, Goto, PC
<1>8. CASE RemoveStorage(p)
    BY <1>8 DEF RemoveStorage, TypeOK, tables, tracking, identity, local, bounds, Goto, PC
<1>9. CASE Clear(p)
    BY <1>9 DEF Clear, TypeOK, tracking, identity, bounds, Goto, PC
<1>10. CASE ClearError(p)
    BY <1>10, ItemTyped DEF ClearError, Idle, TypeOK, tables, identity, Goto, PC
<1>11. CASE Release(p)
    BY <1>11, ItemTyped DEF Release, Unlock, Idle, TypeOK, identity, bounds, Goto, PC
<1> QED
    BY <1>1, <1>2, <1>3, <1>4, <1>5, <1>6, <1>7, <1>8, <1>9, <1>10, <1>11

LEMMA PassTypes ==
    ASSUME TypeOK, Shaped, NEW p \in Procs,
           DelayAnalysis(p) \/ LeaveModule(p) \/ Finish(p) \/ Abort(p) \/ Keepalive(p)
    PROVE  TypeOK'
<1> USE QueueAssumption
<1>1. CASE DelayAnalysis(p)
  <2> DEFINE r == Root(p)
             n == delays[r] + 1
  <2>1. r \in Roots /\ n \in 1 .. MaxDelays /\ <<r, n>> \in Rows
      BY <1>1, ItemTyped DEF DelayAnalysis, Rows
  <2>2. rows' \subseteq Rows /\ memory' \in [Procs -> SUBSET (1 .. MaxDelays)]
      BY <1>1, <2>1 DEF DelayAnalysis, TypeOK
  <2>3. delays' \in [Roots -> 0 .. MaxDelays]
      BY <1>1, <2>1 DEF DelayAnalysis, TypeOK
  <2> QED
      BY <1>1, <2>2, <2>3 DEF DelayAnalysis, TypeOK, tracking, identity
<1>2. CASE LeaveModule(p)
    BY <1>2, ItemTyped DEF LeaveModule, Save, TypeOK, tables, identity, local, bounds, Goto, PC
<1>3. CASE Finish(p)
    BY <1>3, ItemTyped DEF Finish, Save, TypeOK, tables, tracking, identity, local, bounds, Goto, PC
<1>4. CASE Abort(p)
    BY <1>4, ItemTyped DEF Abort, Save, DelayedOf, TypeOK, identity, local, bounds, Goto, PC
<1>5. CASE Keepalive(p)
  <2>1. Root(p) \in Roots \/ locks' = locks \/ locks' = [locks EXCEPT ![Root(p)] = uuid[p]]
      BY <1>5 DEF Keepalive, Lock
  <2>2. locks' \in [Roots -> Procs \cup {NoOne}] /\ aged' \subseteq Roots
      BY <1>5 DEF Keepalive, Lock, TypeOK
  <2>3. keeping' \subseteq Procs /\ cancelled' \subseteq Procs
      BY <1>5 DEF Keepalive, TypeOK
  <2> QED
      BY <1>5, <2>2, <2>3 DEF Keepalive, TypeOK, tracking, identity, bounds
<1> QED
    BY <1>1, <1>2, <1>3, <1>4, <1>5

LEMMA StartTypes ==
    ASSUME TypeOK, Shaped, NEW p \in Procs, StartUp(p) \/ ForceRelease(p) \/ Die(p)
    PROVE  TypeOK'
<1> USE QueueAssumption
<1>1. CASE StartUp(p)
  <2>1. name[p] \in Slots
      BY <1>1 DEF StartUp, Shaped, Alive
  <2>2. target[name[p]] # NoRoot => target[name[p]] \in Roots /\ <<target[name[p]], 0>> \in Rows
      BY <2>1 DEF TypeOK, Rows
  <2> QED
      BY <1>1, <2>1, <2>2 DEF StartUp, TypeOK, tables, identity, bounds, tracking, Goto, PC
<1>2. CASE ForceRelease(p)
    BY <1>2, ItemTyped DEF ForceRelease, Unlock, TypeOK, identity, bounds, Goto, PC
<1>3. CASE Die(p)
    BY <1>3 DEF Die, Forget, TypeOK, tables, tracking, identity, bounds, Goto, PC
<1> QED
    BY <1>1, <1>2, <1>3

LEMMA EngineTypes ==
    ASSUME TypeOK, Shaped,
           (\E s \in Slots : Restart(s)) \/ EngineRestart \/ Reload \/ UNCHANGED vars
             \/ \E r \in Roots : Submit(r) \/ Expire(r) \/ Recover(r)
    PROVE  TypeOK'
<1> USE QueueAssumption
<1>1. ASSUME NEW s \in Slots, Restart(s)
      PROVE  TypeOK'
    BY <1>1 DEF Restart, Unborn, TypeOK, tables, tracking, local, bounds, Goto, PC
<1>2. ASSUME NEW next \in [Slots -> Unborn], Start(next)
      PROVE  current' \in [Slots -> Procs] /\ name' \in [Procs -> Slots \cup {NoName}]
  <2>1. \A p \in Procs : p \in Image(next) => (CHOOSE s \in Slots : next[s] = p) \in Slots
      BY DEF Image
  <2> QED
      BY <1>2, <2>1 DEF Start, Unborn, TypeOK
<1>3. CASE EngineRestart
  <2>1. PICK next \in [Slots -> Unborn] :
            /\ Start(next)
            /\ pc' = [p \in Procs |-> IF p \in Image(next) THEN "startup"
                                      ELSE IF Alive(p) THEN "dead" ELSE pc[p]]
      BY <1>3 DEF EngineRestart
  <2>2. pc' \in [Procs -> PC]
      BY <2>1 DEF TypeOK, PC
  <2>3. current' \in [Slots -> Procs] /\ name' \in [Procs -> Slots \cup {NoName}]
      BY <2>1, <1>2
  <2>4. /\ item' \in [Procs -> Rows \cup {NoRow}] /\ memory' \in [Procs -> SUBSET (1 .. MaxDelays)]
        /\ seen' \in [Procs -> Procs \cup {NoOne}] /\ keeping' \subseteq Procs /\ cancelled' \subseteq Procs
      BY <1>3 DEF EngineRestart, Forget, TypeOK
  <2> QED
      BY <1>3, <2>2, <2>3, <2>4 DEF EngineRestart, TypeOK, tracking, bounds
<1>4. CASE Reload
  <2>1. PICK next \in [Slots -> Unborn] :
            /\ Start(next)
            /\ pc' = [p \in Procs |-> IF p \in Image(next) THEN "startup" ELSE pc[p]]
            /\ uuid' = [p \in Procs |-> IF p \in Image(next)
                                        THEN uuid[current[name'[p]]] ELSE uuid[p]]
      BY <1>4 DEF Reload
  <2>2. pc' \in [Procs -> PC]
      BY <2>1 DEF TypeOK, PC
  <2>3. current' \in [Slots -> Procs] /\ name' \in [Procs -> Slots \cup {NoName}]
      BY <2>1, <1>2
  <2>4. \A p \in Image(next) : name'[p] \in Slots
      BY <2>1 DEF Start, Image, Unborn
  <2>5. uuid' \in [Procs -> Procs]
      BY <2>1, <2>4 DEF TypeOK
  <2> QED
      BY <1>4, <2>2, <2>3, <2>5 DEF Reload, TypeOK, tables, tracking, local, bounds
<1>5. ASSUME NEW r \in Roots, Submit(r)
      PROVE  TypeOK'
  <2>1. <<r, 0>> \in Rows
      BY DEF Rows
  <2> QED
      BY <1>5, <2>1 DEF Submit, TypeOK, tracking, identity, local, bounds
<1>6. ASSUME NEW r \in Roots, Expire(r)
      PROVE  TypeOK'
    BY <1>6 DEF Expire, TypeOK, tracking, identity, local
<1>7. ASSUME NEW r \in Roots, Recover(r)
      PROVE  TypeOK'
    BY <1>7 DEF Recover, Unlock, TypeOK, tracking, identity, local, bounds
<1>8. CASE UNCHANGED vars
    BY <1>8 DEF vars, TypeOK
<1> QED
    BY <1>1, <1>3, <1>4, <1>5, <1>6, <1>7, <1>8

LEMMA TypeStep ==
    ASSUME TypeOK, Shaped, [Next]_vars
    PROVE  TypeOK'
BY WorkTypes, PassTypes, StartTypes, EngineTypes DEF Next, Work

-----------------------------------------------------------------------------
\* A process changes nothing of the others.
Acts(p) ==
    \/ Work(p) \/ EnterModule(p) \/ DelayAnalysis(p) \/ Finish(p)
    \/ Abort(p) \/ ClearError(p) \/ Keepalive(p) \/ Die(p)

OthersStay(p) ==
    /\ UNCHANGED identity
    /\ \A q \in Procs \ {p} :
          /\ pc'[q] = pc[q] /\ item'[q] = item[q] /\ seen'[q] = seen[q]
          /\ q \in keeping' => q \in keeping

LEMMA ActsAlone ==
    ASSUME TypeOK, NEW p \in Procs, Acts(p)
    PROVE  OthersStay(p)
<1>1. List(p) \/ Acquire(p) \/ Verify(p) => OthersStay(p)
    BY DEF List, Acquire, Verify, OthersStay, Goto, TypeOK
<1>2. Begin(p) \/ Load(p) \/ LeaveModule(p) => OthersStay(p)
    BY DEF Begin, Load, LeaveModule, local, OthersStay, Goto, TypeOK
<1>3. Check(p) \/ RemoveStorage(p) \/ Clear(p) => OthersStay(p)
    BY DEF Check, RemoveStorage, Clear, local, OthersStay, Goto, TypeOK
<1>4. Release(p) \/ ClearError(p) => OthersStay(p)
    BY DEF Release, ClearError, Idle, OthersStay, Goto, TypeOK
<1>5. StartUp(p) \/ ForceRelease(p) => OthersStay(p)
    BY DEF StartUp, ForceRelease, OthersStay, Goto, TypeOK
<1>6. EnterModule(p) \/ DelayAnalysis(p) \/ Finish(p) \/ Abort(p) => OthersStay(p)
    BY DEF EnterModule, DelayAnalysis, Finish, Abort, local, OthersStay, Goto, TypeOK
<1>7. Keepalive(p) => OthersStay(p)
    BY DEF Keepalive, OthersStay, TypeOK
<1>8. Die(p) => OthersStay(p)
    BY DEF Die, Forget, OthersStay, Goto, TypeOK
<1> QED
    BY <1>1, <1>2, <1>3, <1>4, <1>5, <1>6, <1>7, <1>8 DEF Acts, Work

LEMMA ShapedStep ==
    ASSUME TypeOK, Shaped, [Next]_vars
    PROVE  Shaped'
<1> USE QueueAssumption
<1> DEFINE Fit(q) == /\ Alive(q) => name[q] \in Slots
                     /\ pc[q] \notin {"unborn", "startup", "idle", "dead"} => item[q] \in Rows
<1>1. ASSUME NEW p \in Procs, Acts(p)
      PROVE  Fit(p)'
  <2>1. name'[p] = name[p]
      BY <1>1, ActsAlone DEF OthersStay, identity
  <2>2. (List(p) \/ Acquire(p) \/ Verify(p) \/ Begin(p)) => Fit(p)'
    <3>1. CASE List(p)
      <4>1. PICK row \in rows : item' = [item EXCEPT ![p] = row]
          BY <3>1 DEF List
      <4> QED
          BY <3>1, <2>1, <4>1 DEF List, Goto, TypeOK, Shaped, Alive
    <3>2. CASE Acquire(p)
        BY <3>2, <2>1 DEF Acquire, Goto, TypeOK, Shaped, Alive
    <3>3. CASE Verify(p)
        BY <3>3, <2>1 DEF Verify, Goto, TypeOK, Shaped, Alive
    <3>4. CASE Begin(p)
        BY <3>4, <2>1 DEF Begin, Goto, TypeOK, Shaped, Alive
    <3> QED
        BY <3>1, <3>2, <3>3, <3>4
  <2>3. (Load(p) \/ LeaveModule(p) \/ Check(p) \/ RemoveStorage(p) \/ Clear(p)) => Fit(p)'
      BY <2>1 DEF Load, LeaveModule, Check, RemoveStorage, Clear, local, Goto, TypeOK, Shaped, Alive
  <2>4. (Release(p) \/ ClearError(p)) => Fit(p)'
      BY <2>1 DEF Release, ClearError, Idle, Goto, TypeOK, Shaped, Alive
  <2>5. StartUp(p) => Fit(p)'
    <3> SUFFICES ASSUME StartUp(p)
                 PROVE  Fit(p)'
        OBVIOUS
    <3>1. name[p] \in Slots
        BY DEF StartUp, Shaped, Alive
    <3>2. target[name[p]] # NoRoot => <<target[name[p]], 0>> \in Rows
        BY <3>1 DEF TypeOK, Rows
    <3> QED
        BY <2>1, <3>1, <3>2 DEF StartUp, Goto, TypeOK, Alive
  <2>6. ForceRelease(p) => Fit(p)'
      BY <2>1 DEF ForceRelease, Goto, TypeOK, Shaped, Alive
  <2>7. (EnterModule(p) \/ DelayAnalysis(p) \/ Finish(p) \/ Abort(p) \/ Keepalive(p)) => Fit(p)'
      BY <2>1 DEF EnterModule, DelayAnalysis, Finish, Abort, Keepalive, local, Goto, TypeOK, Shaped, Alive
  <2>8. Die(p) => Fit(p)'
      BY DEF Die, Goto, TypeOK, Alive
  <2> QED
      BY <1>1, <2>2, <2>3, <2>4, <2>5, <2>6, <2>7, <2>8 DEF Acts, Work
<1>2. ASSUME NEW p \in Procs, Acts(p), NEW q \in Procs
      PROVE  Fit(q)'
  <2>1. CASE q = p
      BY <1>1, <1>2, <2>1
  <2>2. CASE q # p
      BY <1>2, <2>2, ActsAlone DEF OthersStay, identity, Shaped, Alive
  <2> QED
      BY <2>1, <2>2
<1>3. ASSUME NEW s \in Slots, Restart(s), NEW q \in Procs
      PROVE  Fit(q)'
    BY <1>3 DEF Restart, Unborn, local, Goto, TypeOK, Shaped, Alive
<1>4. ASSUME NEW next \in [Slots -> Unborn], Start(next), NEW q \in Procs
      PROVE  q \in Image(next) => name'[q] \in Slots
  <2>1. q \in Image(next) => (CHOOSE s \in Slots : next[s] = q) \in Slots
      BY DEF Image
  <2> QED
      BY <1>4, <2>1 DEF Start
<1>5. ASSUME NEW next \in [Slots -> Unborn], Start(next), NEW q \in Procs
      PROVE  q \notin Image(next) => name'[q] = name[q]
    BY <1>5 DEF Start
<1>6. ASSUME EngineRestart, NEW q \in Procs
      PROVE  Fit(q)'
  <2>1. PICK next \in [Slots -> Unborn] :
            /\ Start(next)
            /\ pc' = [p \in Procs |-> IF p \in Image(next) THEN "startup"
                                      ELSE IF Alive(p) THEN "dead" ELSE pc[p]]
      BY <1>6 DEF EngineRestart
  <2>2. q \in Image(next) => name'[q] \in Slots
      BY <1>4, <2>1
  <2>3. (pc'[q] = "startup" /\ q \in Image(next)) \/ pc'[q] \in {"unborn", "dead"}
      BY <2>1 DEF Alive, TypeOK
  <2> QED
      BY <2>2, <2>3 DEF Alive
<1>7. ASSUME Reload, NEW q \in Procs
      PROVE  Fit(q)'
  <2>1. PICK next \in [Slots -> Unborn] :
            /\ Start(next)
            /\ pc' = [p \in Procs |-> IF p \in Image(next) THEN "startup" ELSE pc[p]]
      BY <1>7 DEF Reload
  <2>2. /\ q \in Image(next) => name'[q] \in Slots
        /\ q \notin Image(next) => name'[q] = name[q]
      BY <1>4, <1>5, <2>1
  <2>3. pc'[q] = IF q \in Image(next) THEN "startup" ELSE pc[q]
      BY <2>1
  <2>4. item' = item
      BY <1>7 DEF Reload, local
  <2> QED
      BY <2>2, <2>3, <2>4 DEF Alive, Shaped
<1>8. ASSUME NEW q \in Procs, UNCHANGED <<pc, item, name>>
      PROVE  Fit(q)'
    BY <1>8 DEF Shaped, Alive
<1>9. ASSUME NEW r \in Roots, Submit(r) \/ Expire(r) \/ Recover(r)
      PROVE  UNCHANGED <<pc, item, name>>
    BY <1>9 DEF Submit, Expire, Recover, identity, local
<1>10. UNCHANGED vars => UNCHANGED <<pc, item, name>>
    BY DEF vars
<1> HIDE DEF Fit
<1>11. \A q \in Procs : Fit(q)'
    BY <1>2, <1>3, <1>6, <1>7, <1>8, <1>9, <1>10 DEF Next, Acts
<1> QED
    BY <1>11 DEF Fit, Shaped

LEMMA TypeInit == Init => TypeOK /\ Shaped
<1> SUFFICES ASSUME Init
             PROVE  TypeOK /\ Shaped
    OBVIOUS
<1>1. \A p \in Image(current) : (CHOOSE s \in Slots : current[s] = p) \in Slots
    BY DEF Image, Init
<1>2. name \in [Procs -> Slots \cup {NoName}] /\ pc \in [Procs -> PC]
    BY <1>1 DEF Init, PC
<1>3. Shaped
    BY <1>1 DEF Init, Shaped, Alive
<1>4. /\ rows \subseteq Rows /\ aged \subseteq Roots /\ stored \subseteq Roots /\ module \subseteq Slots
      /\ keeping \subseteq Procs /\ cancelled \subseteq Procs /\ ended \subseteq Rows
    BY DEF Init
<1>5. /\ locks \in [Roots -> Procs \cup {NoOne}] /\ target \in [Slots -> Roots \cup {NoRoot}]
      /\ current \in [Slots -> Procs] /\ uuid \in [Procs -> Procs]
      /\ item \in [Procs -> Rows \cup {NoRow}] /\ seen \in [Procs -> Procs \cup {NoOne}]
    BY DEF Init
<1>6. recorded \in [Roots -> SUBSET (1 .. MaxDelays)] /\ memory \in [Procs -> SUBSET (1 .. MaxDelays)]
    BY DEF Init
<1>7. 0 \in 0 .. MaxDelays /\ 0 \in 0 .. MaxMishaps
    BY QueueAssumption
<1>8. delays \in [Roots -> 0 .. MaxDelays] /\ mishaps \in 0 .. MaxMishaps
    BY <1>7 DEF Init
<1>9. killed \in BOOLEAN
    BY DEF Init
<1> QED
    BY <1>2, <1>3, <1>4, <1>5, <1>6, <1>8, <1>9 DEF TypeOK

-----------------------------------------------------------------------------
\* From here on workers die, but no lock of a live worker ages and nothing is restarted
\* under it.
LEMMA CrashSteps ==
    ASSUME CrashOnly, [Next]_vars
    PROVE  \/ \E p \in Procs : Acts(p)
           \/ \E s \in Slots : Restart(s)
           \/ \E r \in Roots : Submit(r) \/ Expire(r) \/ Recover(r)
           \/ UNCHANGED vars
BY DEF CrashOnly, Next, Acts, EngineRestart, Reload

LEMMA ActsAlive ==
    ASSUME TypeOK, Owned, NEW p \in Procs, Acts(p)
    PROVE  Alive(p) /\ pc'[p] # "unborn"
<1>1. Work(p) => Alive(p) /\ pc'[p] # "unborn"
  <2>1. List(p) \/ Acquire(p) \/ Verify(p) \/ Begin(p) \/ Load(p) => Alive(p) /\ pc'[p] # "unborn"
      BY DEF List, Acquire, Verify, Begin, Load, Alive, Goto, TypeOK
  <2>2. LeaveModule(p) \/ Check(p) \/ RemoveStorage(p) \/ Clear(p) => Alive(p) /\ pc'[p] # "unborn"
      BY DEF LeaveModule, Check, RemoveStorage, Clear, Alive, Goto, TypeOK
  <2>3. Release(p) \/ StartUp(p) \/ ForceRelease(p) => Alive(p) /\ pc'[p] # "unborn"
      BY DEF Release, Idle, StartUp, ForceRelease, Alive, Goto, TypeOK
  <2> QED
      BY <2>1, <2>2, <2>3 DEF Work
<1>2. EnterModule(p) \/ DelayAnalysis(p) \/ Finish(p) \/ Abort(p) => Alive(p) /\ pc'[p] # "unborn"
    BY DEF EnterModule, DelayAnalysis, Finish, Abort, Alive, Goto, TypeOK
<1>3. ClearError(p) \/ Die(p) => Alive(p) /\ pc'[p] # "unborn"
    BY DEF ClearError, Idle, Die, Alive, Goto, TypeOK
<1>4. Keepalive(p) => Alive(p) /\ pc'[p] # "unborn"
    BY DEF Keepalive, Owned, Holding, Alive
<1> QED
    BY <1>1, <1>2, <1>3, <1>4 DEF Acts

LEMMA OneProcess ==
    ASSUME Staffed, NEW p \in Procs, NEW q \in Procs, Alive(p), Alive(q), name[p] = name[q]
    PROVE  p = q
BY DEF Staffed

LEMMA StaffedStep ==
    ASSUME CrashOnly, TypeOK, Shaped, Owned, Staffed, [Next]_vars
    PROVE  Staffed'
<1>1. ASSUME NEW p \in Procs, Acts(p)
      PROVE  Staffed'
  <2>1. UNCHANGED identity /\ (\A q \in Procs : Alive(q)' => Alive(q))
      BY <1>1, ActsAlone, ActsAlive DEF OthersStay, Alive
  <2>2. \A q \in Procs : pc'[q] = "unborn" => pc[q] = "unborn"
      BY <1>1, ActsAlone, ActsAlive DEF OthersStay
  <2> QED
      BY <2>1, <2>2 DEF Staffed, identity, TypeOK
<1>2. ASSUME NEW s \in Slots, Restart(s)
      PROVE  Staffed'
  <2>1. PICK q \in Procs :
            /\ pc[q] = "unborn" /\ pc[current[s]] = "dead"
            /\ current' = [current EXCEPT ![s] = q] /\ name' = [name EXCEPT ![q] = s]
            /\ pc' = [pc EXCEPT ![q] = "startup"] /\ uuid' = uuid
      BY <1>2 DEF Restart, Unborn, Goto
  <2>2. ASSUME NEW t \in Slots
        PROVE  pc'[current'[t]] # "unborn" /\ name'[current'[t]] = t
    <3>1. CASE t = s
        BY <2>1, <3>1 DEF TypeOK
    <3>2. CASE t # s
        BY <2>1, <3>2 DEF TypeOK, Staffed
    <3> QED
        BY <3>1, <3>2
  <2>3. ASSUME NEW p \in Procs, Alive(p)'
        PROVE  current'[name'[p]] = p
    <3>1. CASE p = q
        BY <2>1, <3>1 DEF TypeOK
    <3>2. CASE p # q
      <4>1. Alive(p) /\ name'[p] = name[p]
          BY <2>1, <2>3, <3>2 DEF TypeOK, Alive
      <4>2. current[name[p]] = p /\ name[p] # s /\ name[p] \in Slots
          BY <2>1, <4>1 DEF Staffed, Shaped, Alive
      <4> QED
          BY <2>1, <4>1, <4>2 DEF TypeOK
    <3> QED
        BY <3>1, <3>2
  <2> QED
      BY <2>1, <2>2, <2>3 DEF Staffed
<1>3. ASSUME NEW r \in Roots, Submit(r) \/ Expire(r) \/ Recover(r)
      PROVE  UNCHANGED <<pc, identity>>
    BY <1>3 DEF Submit, Expire, Recover, identity
<1>4. UNCHANGED vars => UNCHANGED <<pc, identity>>
    BY DEF vars, identity
<1>5. UNCHANGED <<pc, identity>> => Staffed'
    BY DEF Staffed, identity, Alive
<1> QED
    BY <1>1, <1>2, <1>3, <1>4, <1>5, CrashSteps

\* The lock of a root changes only for whoever has it or finds it free, or when it is
\* released on behalf of the dead.
LEMMA ActsLocks ==
    ASSUME TypeOK, Shaped, Staffed, Left, NEW p \in Procs, Acts(p), NEW r \in Roots
    PROVE  /\ aged' \subseteq aged
           /\ \/ locks'[r] = locks[r]
              \/ locks[r] \in {NoOne, p}
              \/ /\ ForceRelease(p) /\ r = Root(p)
                 /\ pc[locks[r]] = "dead" /\ name[locks[r]] = name[p]
<1> DEFINE Fine == aged' \subseteq aged /\ (locks'[r] = locks[r] \/ locks[r] \in {NoOne, p})
<1>1. uuid[p] = p
    BY DEF Staffed
<1>2. (List(p) \/ StartUp(p) \/ Load(p) \/ LeaveModule(p)) => Fine
    BY DEF List, StartUp, Load, LeaveModule, tables
<1>3. Check(p) \/ RemoveStorage(p) \/ Clear(p) => Fine
    BY DEF Check, RemoveStorage, Clear, tables
<1>4. EnterModule(p) \/ DelayAnalysis(p) \/ Finish(p) \/ Abort(p) => Fine
    BY DEF EnterModule, DelayAnalysis, Finish, Abort, tables
<1>5. ClearError(p) \/ Die(p) => Fine
    BY DEF ClearError, Die, tables
<1>6. Acquire(p) \/ Begin(p) \/ Keepalive(p) => Fine
    BY <1>1 DEF Acquire, Begin, Keepalive, Free, Lock, TypeOK
<1>7. Verify(p) \/ Release(p) => Fine
    BY <1>1 DEF Verify, Release, Unlock, TypeOK
<1>8. ASSUME ForceRelease(p)
      PROVE  aged' \subseteq aged /\ (locks'[r] = locks[r] \/ (r = Root(p) /\ pc[locks[r]] = "dead" /\ name[locks[r]] = name[p]))
  <2>1. pc[p] = "releasing"
      BY <1>8 DEF ForceRelease
  <2>2. name[p] \in module /\ target[name[p]] = Root(p) /\ name[p] \in Slots /\ current[name[p]] = p
      BY <2>1 DEF Left, Shaped, Staffed, Alive
  <2>3. pc[locks[Root(p)]] = "dead" /\ name[locks[Root(p)]] = name[p]
      BY <2>1, <2>2 DEF Left
  <2>4. aged' \subseteq aged /\ (r # Root(p) => locks'[r] = locks[r])
      BY <1>8 DEF ForceRelease, Unlock, TypeOK
  <2> QED
      BY <2>3, <2>4
<1> QED
    BY <1>2, <1>3, <1>4, <1>5, <1>6, <1>7, <1>8 DEF Acts, Work

\* What a process that works on a root does to its own lock.
LEMMA ActsOwned ==
    ASSUME CrashOnly, TypeOK, Shaped, Staffed, Owned, NEW p \in Procs, Acts(p)
    PROVE  /\ pc'[p] \in Holding => locks'[item'[p][1]] = p /\ item'[p][1] \notin aged'
           /\ p \in keeping' => pc'[p] \in Holding \ {"verifying", "claimed", "unlocking"}
           /\ cancelled' = {}
<1> USE QueueAssumption
<1> DEFINE Good == /\ pc'[p] \in Holding => locks'[item'[p][1]] = p /\ item'[p][1] \notin aged'
                   /\ p \in keeping' => pc'[p] \in Holding \ {"verifying", "claimed", "unlocking"}
                   /\ cancelled' = {}
<1>1. uuid[p] = p
    BY DEF Staffed
<1>2. List(p) \/ StartUp(p) \/ ForceRelease(p) => Good
    BY DEF List, StartUp, ForceRelease, Owned, Holding, Goto, TypeOK
<1>3. CASE Acquire(p) \/ Begin(p)
  <2>1. Root(p) \in Roots
      BY <1>3, ItemTyped DEF Acquire, Begin
  <2>2. Acquire(p) => Good
      BY <1>1, <2>1 DEF Acquire, Lock, Root, Owned, Holding, Goto, TypeOK
  <2>3. Begin(p) => Good
      BY <1>1, <2>1 DEF Begin, Lock, Root, Owned, Holding, Goto, TypeOK
  <2> QED
      BY <1>3, <2>2, <2>3
<1>4. Verify(p) => Good
    BY DEF Verify, Root, Owned, Holding, Goto, TypeOK
<1>5. Load(p) \/ LeaveModule(p) \/ Check(p) \/ RemoveStorage(p) \/ Clear(p) => Good
    BY DEF Load, LeaveModule, Check, RemoveStorage, Clear, tables, local, Root, Owned, Holding, Goto, TypeOK
<1>6. EnterModule(p) \/ DelayAnalysis(p) \/ Finish(p) \/ Abort(p) => Good
    BY DEF EnterModule, DelayAnalysis, Finish, Abort, tables, local, Root, Owned, Holding, Goto, TypeOK
<1>7. ClearError(p) \/ Release(p) => Good
    BY DEF ClearError, Release, Idle, Owned, Holding, Goto, TypeOK
<1>8. CASE Keepalive(p)
  <2>1. pc[p] \in Holding \ {"verifying", "claimed", "unlocking"} /\ locks[Root(p)] = p
      BY <1>8 DEF Keepalive, Owned
  <2>2. Root(p) \in Roots
      BY <2>1, ItemTyped DEF Holding
  <2>3. Free(p, Root(p))
      BY <1>1, <2>1 DEF Free
  <2>4. Lock(p, Root(p)) /\ UNCHANGED <<keeping, cancelled, pc, item>>
      BY <1>8, <2>3 DEF Keepalive
  <2> QED
      BY <1>1, <2>1, <2>2, <2>4 DEF Lock, Root, Owned, TypeOK
<1>9. Die(p) => Good
    BY DEF Die, Forget, Owned, Holding, Goto, TypeOK
<1> QED
    BY <1>2, <1>3, <1>4, <1>5, <1>6, <1>7, <1>8, <1>9 DEF Acts, Work

LEMMA OwnedStep ==
    ASSUME CrashOnly, TypeOK, Shaped, Staffed, Owned, Left, [Next]_vars
    PROVE  Owned'
<1> USE QueueAssumption
<1>1. ASSUME NEW p \in Procs, Acts(p)
      PROVE  Owned'
  <2>1. ASSUME NEW q \in Procs, q # p, pc'[q] \in Holding
        PROVE  locks'[item'[q][1]] = q /\ item'[q][1] \notin aged'
    <3>1. pc[q] \in Holding /\ item'[q] = item[q]
        BY <1>1, <2>1, ActsAlone DEF OthersStay
    <3>2. locks[Root(q)] = q /\ Root(q) \notin aged
        BY <3>1 DEF Owned
    <3>3. Root(q) \in Roots /\ pc[q] # "dead"
        BY <3>1, ItemTyped DEF Holding
    <3>4. locks'[Root(q)] = locks[Root(q)] /\ aged' \subseteq aged
        BY <1>1, <2>1, <3>2, <3>3, ActsLocks
    <3> QED
        BY <3>1, <3>2, <3>4 DEF Root
  <2>2. \A q \in Procs : q # p /\ q \in keeping' => pc'[q] \in Holding \ {"verifying", "claimed", "unlocking"}
      BY <1>1, ActsAlone DEF OthersStay, Owned
  <2>3. keeping' \subseteq Procs
      BY TypeStep DEF TypeOK
  <2> QED
      BY <1>1, <2>1, <2>2, <2>3, ActsOwned DEF Owned, Root
<1>2. ASSUME NEW s \in Slots, Restart(s)
      PROVE  Owned'
  <2>1. PICK q \in Procs : pc[q] = "unborn" /\ pc' = [pc EXCEPT ![q] = "startup"]
      BY <1>2 DEF Restart, Unborn, Goto
  <2>2. UNCHANGED <<locks, aged, item, keeping, cancelled>>
      BY <1>2 DEF Restart, tables, local
  <2>3. \A p \in Procs : pc'[p] \in Holding => pc[p] \in Holding
      BY <2>1 DEF TypeOK, Holding
  <2>4. \A p \in keeping : p # q
      BY <2>1 DEF Owned, Holding
  <2> QED
      BY <2>1, <2>2, <2>3, <2>4 DEF Owned, Root, TypeOK
<1>3. ASSUME NEW r \in Roots, Expire(r)
      PROVE  Owned'
  <2>1. ~Maintained(r)
      BY <1>3 DEF Expire, CrashOnly
  <2>2. \A p \in Procs : pc[p] \in Holding => Root(p) # r
      BY <2>1 DEF Maintained, Owned, Staffed
  <2>3. aged' = aged \cup {r} /\ UNCHANGED <<locks, pc, item, keeping, cancelled>>
      BY <1>3 DEF Expire, local
  <2> QED
      BY <2>2, <2>3 DEF Owned, Root
<1>4. ASSUME NEW r \in Roots, Recover(r)
      PROVE  Owned'
  <2>1. \A p \in Procs : pc[p] \in Holding => Root(p) # r
      BY <1>4 DEF Recover, Owned
  <2>2. UNCHANGED <<pc, item, keeping, cancelled>> /\ aged' \subseteq aged
      BY <1>4 DEF Recover, Unlock, local
  <2>3. \A x \in Roots : x # r => locks'[x] = locks[x]
      BY <1>4 DEF Recover, Unlock, TypeOK
  <2>4. \A p \in Procs : pc[p] \in Holding => Root(p) \in Roots
      BY ItemTyped DEF Holding
  <2> QED
      BY <2>1, <2>2, <2>3, <2>4 DEF Owned, Root
<1>5. ASSUME NEW r \in Roots, Submit(r)
      PROVE  UNCHANGED <<locks, aged, pc, item, keeping, cancelled>>
    BY <1>5 DEF Submit, local
<1>6. UNCHANGED vars => UNCHANGED <<locks, aged, pc, item, keeping, cancelled>>
    BY DEF vars
<1>7. UNCHANGED <<locks, aged, pc, item, keeping, cancelled>> => Owned'
    BY DEF Owned, Root
<1> QED
    BY <1>1, <1>2, <1>3, <1>4, <1>5, <1>6, <1>7, CrashSteps

-----------------------------------------------------------------------------
\* The tracking directories.
LEMMA ActsTracking ==
    ASSUME TypeOK, NEW p \in Procs, Acts(p), NEW s \in Slots, s # name[p]
    PROVE  target'[s] = target[s] /\ (s \in module' <=> s \in module)
<1> DEFINE Same == target'[s] = target[s] /\ (s \in module' <=> s \in module)
<1>1. List(p) \/ Acquire(p) \/ Verify(p) \/ Load(p) \/ Check(p) \/ RemoveStorage(p) \/ Clear(p) => Same
    BY DEF List, Acquire, Verify, Load, Check, RemoveStorage, Clear, tracking
<1>2. Begin(p) \/ LeaveModule(p) \/ ForceRelease(p) => Same
    BY DEF Begin, LeaveModule, ForceRelease, TypeOK
<1>3. StartUp(p) => Same
    BY DEF StartUp, tracking, TypeOK
<1>4. ClearError(p) \/ Release(p) => Same
    BY DEF ClearError, Release, Idle, TypeOK
<1>5. EnterModule(p) \/ DelayAnalysis(p) \/ Finish(p) \/ Abort(p) => Same
    BY DEF EnterModule, DelayAnalysis, Finish, Abort, tracking
<1>6. Keepalive(p) \/ Die(p) => Same
    BY DEF Keepalive, Die, tracking
<1> QED
    BY <1>1, <1>2, <1>3, <1>4, <1>5, <1>6 DEF Acts, Work

\* What a process does to its own tracking directory.
LEMMA ActsTracked ==
    ASSUME TypeOK, Shaped, Owned, Tracked, NEW p \in Procs, Acts(p)
    PROVE  /\ pc'[p] \in Holding \ {"verifying", "claimed"} => target'[name[p]] = item'[p][1]
           /\ name[p] \in module' => target'[name[p]] # NoRoot
           /\ Alive(p)' /\ name[p] \in module' => pc'[p] \in {"module", "startup", "releasing"}
<1> USE QueueAssumption
<1> DEFINE Good == /\ pc'[p] \in Holding \ {"verifying", "claimed"} => target'[name[p]] = item'[p][1]
                   /\ name[p] \in module' => target'[name[p]] # NoRoot
                   /\ pc'[p] \notin {"unborn", "dead"} /\ name[p] \in module' =>
                         pc'[p] \in {"module", "startup", "releasing"}
<1>0. /\ Alive(p) /\ name[p] \in Slots
      /\ name[p] \in module => target[name[p]] # NoRoot /\ pc[p] \in {"module", "startup", "releasing"}
    BY ActsAlive DEF Shaped, Tracked
<1>1. List(p) \/ Acquire(p) \/ Verify(p) => Good
    BY <1>0 DEF List, Acquire, Verify, tracking, Holding, Goto, TypeOK
<1>2. Begin(p) => Good
    BY <1>0 DEF Begin, Root, Holding, Goto, TypeOK
<1>3. Load(p) \/ LeaveModule(p) \/ Check(p) \/ RemoveStorage(p) \/ Clear(p) => Good
    BY <1>0 DEF Load, LeaveModule, Check, RemoveStorage, Clear, tracking, local, Tracked, Root,
                Holding, Goto, TypeOK
<1>4. EnterModule(p) => Good
  <2>1. EnterModule(p) => Root(p) \in Roots /\ target[name[p]] = Root(p)
      BY ItemTyped DEF EnterModule, Tracked, Holding
  <2> QED
      BY <1>0, <2>1 DEF EnterModule, local, Root, Holding, Goto, TypeOK
<1>5. DelayAnalysis(p) \/ Finish(p) \/ Abort(p) => Good
    BY <1>0 DEF DelayAnalysis, Finish, Abort, tracking, local, Tracked, Root, Holding, Goto, TypeOK
<1>6. ClearError(p) \/ Release(p) => Good
    BY <1>0 DEF ClearError, Release, Idle, Holding, Goto, TypeOK
<1>7. StartUp(p) \/ ForceRelease(p) => Good
    BY <1>0 DEF StartUp, ForceRelease, tracking, Holding, Goto, TypeOK
<1>8. Keepalive(p) => Good
    BY <1>0 DEF Keepalive, tracking, Tracked, Root, Holding, TypeOK
<1>9. Die(p) => Good
    BY <1>0 DEF Die, tracking, Holding, Goto, TypeOK
<1> QED
    BY <1>1, <1>2, <1>3, <1>4, <1>5, <1>6, <1>7, <1>8, <1>9 DEF Acts, Work, Alive

LEMMA TrackedStep ==
    ASSUME CrashOnly, TypeOK, Shaped, Staffed, Owned, Tracked, [Next]_vars
    PROVE  Tracked'
<1> USE QueueAssumption
<1>1. ASSUME NEW p \in Procs, Acts(p)
      PROVE  Tracked'
  <2>1. Alive(p) /\ name[p] \in Slots /\ current[name[p]] = p /\ UNCHANGED identity
      BY <1>1, ActsAlive, ActsAlone DEF Shaped, Staffed, OthersStay
  <2>2. ASSUME NEW q \in Procs, q # p, Alive(q)'
        PROVE  /\ pc'[q] = pc[q] /\ item'[q] = item[q] /\ name[q] # name[p] /\ name[q] \in Slots
               /\ target'[name[q]] = target[name[q]] /\ (name[q] \in module' <=> name[q] \in module)
    <3>1. pc'[q] = pc[q] /\ item'[q] = item[q]
        BY <1>1, <2>2, ActsAlone DEF OthersStay
    <3>2. Alive(q) /\ name[q] \in Slots
        BY <2>2, <3>1 DEF Alive, Shaped
    <3>3. name[q] # name[p]
        BY <2>1, <2>2, <3>2, OneProcess
    <3> QED
        BY <1>1, <3>1, <3>2, <3>3, ActsTracking
  <2>3. \A q \in Procs : pc'[q] \in Holding => Alive(q)'
      BY DEF Holding, Alive
  <2>4. \A q \in Procs : pc'[q] \in Holding \ {"verifying", "claimed"} => target'[name'[q]] = item'[q][1]
      BY <1>1, <2>1, <2>2, <2>3, ActsTracked DEF Tracked, Root, identity
  <2>5. \A q \in Procs : Alive(q)' /\ name'[q] \in module' => pc'[q] \in {"module", "startup", "releasing"}
    <3>1. ASSUME NEW q \in Procs, q # p, Alive(q)', name[q] \in module'
          PROVE  pc'[q] \in {"module", "startup", "releasing"}
        BY <2>2, <3>1 DEF Tracked, Alive
    <3> QED
        BY <1>1, <2>1, <3>1, ActsTracked DEF identity
  <2>6. \A s \in module' : target'[s] # NoRoot
    <3>1. module' \subseteq Slots
        BY TypeStep DEF TypeOK
    <3> QED
        BY <1>1, <3>1, ActsTracked, ActsTracking DEF Tracked
  <2> QED
      BY <2>4, <2>5, <2>6 DEF Tracked, Root
<1>2. ASSUME NEW s \in Slots, Restart(s)
      PROVE  Tracked'
  <2>1. PICK q \in Procs : /\ pc[q] = "unborn" /\ pc' = [pc EXCEPT ![q] = "startup"]
                           /\ name' = [name EXCEPT ![q] = s]
      BY <1>2 DEF Restart, Unborn, Goto
  <2>2. UNCHANGED <<target, module, item>>
      BY <1>2 DEF Restart, tracking, local
  <2> QED
      BY <2>1, <2>2 DEF Tracked, Root, Alive, Holding, TypeOK
<1>3. ASSUME NEW r \in Roots, Submit(r) \/ Expire(r) \/ Recover(r)
      PROVE  UNCHANGED <<pc, name, target, module, item>>
    BY <1>3 DEF Submit, Expire, Recover, tracking, identity, local
<1>4. UNCHANGED vars => UNCHANGED <<pc, name, target, module, item>>
    BY DEF vars
<1>5. UNCHANGED <<pc, name, target, module, item>> => Tracked'
    BY DEF Tracked, Root, Alive
<1> QED
    BY <1>1, <1>2, <1>3, <1>4, <1>5, CrashSteps

LEMMA LeftStep ==
    ASSUME CrashOnly, TypeOK, Shaped, Staffed, Owned, Tracked, Left, [Next]_vars
    PROVE  Left'
<1> USE QueueAssumption
<1> DEFINE Gone == {"dead", "startup", "releasing"}
           Bequest(s) == /\ locks[target[s]] \in Procs
                         /\ pc[locks[target[s]]] = "dead" /\ name[locks[target[s]]] = s
                         /\ target[s] \notin aged
           Reads(p) == /\ name[p] \in module /\ target[name[p]] = Root(p)
                       /\ seen[p] = locks[Root(p)]
<1>1. ASSUME NEW p \in Procs, Acts(p)
      PROVE  Left'
  <2>1. Alive(p) /\ name[p] \in Slots /\ current[name[p]] = p /\ UNCHANGED identity
      BY <1>1, ActsAlive, ActsAlone DEF Shaped, Staffed, OthersStay
  <2>2. ASSUME NEW s \in module, s \in module', pc[current[s]] \in Gone, pc'[current[s]] \in Gone
        PROVE  Bequest(s)' /\ target'[s] = target[s] /\ locks'[target[s]] = locks[target[s]]
    <3>1. s \in Slots /\ target[s] \in Roots /\ Bequest(s)
        BY <2>2 DEF Tracked, Left, TypeOK
    <3>2. target'[s] = target[s]
      <4>1. CASE s # name[p]
          BY <1>1, <3>1, <4>1, ActsTracking
      <4>2. CASE s = name[p]
        <5>1. pc[p] \in {"startup", "releasing"}
            BY <2>1, <2>2, <4>2 DEF Alive
        <5>2. StartUp(p) \/ ForceRelease(p) \/ Die(p) \/ Keepalive(p)
            BY <1>1, <5>1 DEF Acts, Work, List, Acquire, Verify, Begin, Load, LeaveModule, Check,
                              RemoveStorage, Clear, Release, EnterModule, DelayAnalysis, Finish,
                              Abort, ClearError
        <5>3. StartUp(p) => target'[s] = target[s]
            BY <2>2, <3>1, <4>2 DEF StartUp, tracking, TypeOK
        <5>4. ~ForceRelease(p)
            BY <2>2, <4>2 DEF ForceRelease
        <5>5. Die(p) \/ Keepalive(p) => target' = target
            BY DEF Die, Keepalive, tracking
        <5> QED
            BY <5>2, <5>3, <5>4, <5>5
      <4> QED
          BY <4>1, <4>2
    <3>3. locks[target[s]] # NoOne /\ locks[target[s]] # p
        BY <2>1, <3>1 DEF Alive
    <3>4. ~(ForceRelease(p) /\ name[locks[target[s]]] = name[p])
        BY <2>2, <3>1 DEF ForceRelease
    <3>5. locks'[target[s]] = locks[target[s]] /\ aged' \subseteq aged
        BY <1>1, <3>1, <3>3, <3>4, ActsLocks
    <3>6. pc'[locks[target[s]]] = "dead"
        BY <1>1, <3>1, <3>3, ActsAlone DEF OthersStay
    <3> QED
        BY <2>1, <3>1, <3>2, <3>5, <3>6 DEF identity
  <2>3. ASSUME NEW s \in module', pc'[current[s]] \in Gone
        PROVE  s \in module /\ (pc[current[s]] \in Gone \/ (s = name[p] /\ Die(p) /\ pc[p] = "module"))
    <3>1. s \in Slots /\ current[s] \in Procs
        BY TypeStep DEF TypeOK
    <3>2. CASE s # name[p]
      <4>1. current[s] # p
          BY <3>1, <3>2 DEF Staffed
      <4> QED
          BY <1>1, <2>3, <3>1, <3>2, <4>1, ActsTracking, ActsAlone DEF OthersStay
    <3>3. CASE s = name[p]
      <4>1. pc'[p] \in Gone /\ name[p] \in module'
          BY <2>1, <2>3, <3>3
      <4>2. StartUp(p) \/ Keepalive(p) => name[p] \in module /\ pc[p] \in Gone
          BY <4>1 DEF StartUp, Keepalive, tracking, Goto, TypeOK
      <4>3. Die(p) => name[p] \in module /\ (pc[p] \in Gone \/ pc[p] = "module")
          BY <2>1, <4>1 DEF Die, tracking, Tracked
      <4>4. ~(List(p) \/ Acquire(p) \/ Verify(p) \/ Begin(p) \/ Load(p) \/ LeaveModule(p))
          BY <4>1 DEF List, Acquire, Verify, Begin, Load, LeaveModule, Goto, TypeOK
      <4>5. ~(Check(p) \/ RemoveStorage(p) \/ Clear(p) \/ Release(p) \/ ForceRelease(p) \/ ClearError(p))
          BY <4>1 DEF Check, RemoveStorage, Clear, Release, ForceRelease, ClearError, Idle, Goto, TypeOK
      <4>6. ~(EnterModule(p) \/ DelayAnalysis(p) \/ Finish(p) \/ Abort(p))
          BY <4>1 DEF EnterModule, DelayAnalysis, Finish, Abort, Goto, TypeOK
      <4> QED
          BY <1>1, <2>1, <3>3, <4>2, <4>3, <4>4, <4>5, <4>6 DEF Acts, Work
    <3> QED
        BY <3>2, <3>3
  <2>4. ASSUME Die(p), pc[p] = "module", name[p] \in module
        PROVE  Bequest(name[p])'
    <3>1. locks[Root(p)] = p /\ Root(p) \notin aged /\ target[name[p]] = Root(p)
        BY <2>4 DEF Owned, Tracked, Holding
    <3>2. UNCHANGED <<locks, aged, target, name>> /\ pc'[p] = "dead"
        BY <2>4 DEF Die, tables, tracking, identity, Goto, TypeOK
    <3> QED
        BY <3>1, <3>2
  <2>5. \A s \in module' : pc'[current'[s]] \in Gone => Bequest(s)'
    <3> HIDE DEF Bequest, Gone
    <3> QED
      BY <2>1, <2>2, <2>3, <2>4 DEF identity
  <2>6. ASSUME NEW q \in Procs, pc'[q] = "releasing"
        PROVE  Reads(q)'
    <3>1. CASE q = p
      <4>1. StartUp(p) \/ Keepalive(p)
        <5>1. ~(List(p) \/ Acquire(p) \/ Verify(p) \/ Begin(p) \/ Load(p) \/ LeaveModule(p))
            BY <2>6, <3>1 DEF List, Acquire, Verify, Begin, Load, LeaveModule, Goto, TypeOK
        <5>2. ~(Check(p) \/ RemoveStorage(p) \/ Clear(p) \/ Release(p) \/ ForceRelease(p) \/ ClearError(p))
            BY <2>6, <3>1 DEF Check, RemoveStorage, Clear, Release, ForceRelease, ClearError, Idle, Goto, TypeOK
        <5>3. ~(EnterModule(p) \/ DelayAnalysis(p) \/ Finish(p) \/ Abort(p) \/ Die(p))
            BY <2>6, <3>1 DEF EnterModule, DelayAnalysis, Finish, Abort, Die, Goto, TypeOK
        <5> QED
            BY <1>1, <5>1, <5>2, <5>3 DEF Acts, Work
      <4>2. ~Keepalive(p)
          BY <2>6, <3>1 DEF Keepalive, Owned, Holding
      <4>3. /\ name[p] \in module /\ UNCHANGED <<module, target, locks>>
            /\ item' = [item EXCEPT ![p] = <<target[name[p]], 0>>]
            /\ seen' = [seen EXCEPT ![p] = locks[target[name[p]]]]
          BY <2>6, <3>1, <4>1, <4>2 DEF StartUp, tracking, tables, Goto, TypeOK
      <4>4. item'[p] = <<target[name[p]], 0>> /\ seen'[p] = locks[target[name[p]]]
          BY <4>3 DEF TypeOK
      <4> QED
          BY <2>1, <3>1, <4>3, <4>4 DEF Root, identity
    <3>2. CASE q # p
      <4>1. pc[q] = "releasing" /\ item'[q] = item[q] /\ seen'[q] = seen[q]
          BY <1>1, <2>6, <3>2, ActsAlone DEF OthersStay
      <4>2. Alive(q) /\ name[q] \in Slots /\ current[name[q]] = q /\ name[q] # name[p]
          BY <2>1, <3>2, <4>1, OneProcess DEF Alive, Shaped, Staffed
      <4>3. Reads(q)
          BY <4>1 DEF Left
      <4>4. name[q] \in module' /\ target'[name[q]] = target[name[q]]
          BY <1>1, <4>2, <4>3, ActsTracking
      <4>5. locks'[target[name[q]]] = locks[target[name[q]]]
          BY <2>2, <2>6, <4>1, <4>2, <4>3, <4>4
      <4> QED
          BY <2>1, <4>1, <4>3, <4>4, <4>5 DEF Root, identity
    <3> QED
        BY <3>1, <3>2
  <2> QED
      BY <2>5, <2>6 DEF Left
<1>2. ASSUME NEW s \in Slots, Restart(s)
      PROVE  Left'
  <2>1. PICK q \in Procs :
            /\ pc[q] = "unborn" /\ pc[current[s]] = "dead"
            /\ current' = [current EXCEPT ![s] = q] /\ name' = [name EXCEPT ![q] = s]
            /\ pc' = [pc EXCEPT ![q] = "startup"]
      BY <1>2 DEF Restart, Unborn, Goto
  <2>2. UNCHANGED <<locks, aged, target, module, item, seen>>
      BY <1>2 DEF Restart, tables, tracking, local
  <2>3. ASSUME NEW t \in module, pc'[current'[t]] \in Gone
        PROVE  Bequest(t)'
    <3>1. t \in Slots /\ pc[current[t]] \in Gone
        BY <2>1, <2>3 DEF TypeOK, Staffed
    <3>2. Bequest(t)
        BY <3>1 DEF Left
    <3>3. locks[target[t]] # q
        BY <2>1, <3>2
    <3> QED
        BY <2>1, <2>2, <3>2, <3>3 DEF TypeOK
  <2>4. ASSUME NEW p \in Procs, pc'[p] = "releasing"
        PROVE  Reads(p)'
    <3>1. p # q /\ pc[p] = "releasing"
        BY <2>1, <2>4 DEF TypeOK
    <3>2. Reads(p)
        BY <3>1 DEF Left
    <3> QED
        BY <2>1, <2>2, <3>1, <3>2 DEF Root, TypeOK
  <2> QED
      BY <2>2, <2>3, <2>4 DEF Left
<1>3. ASSUME NEW r \in Roots, Expire(r) \/ Recover(r), ~Bereft(r), r \in Roots
      PROVE  Left'
  <2>1. UNCHANGED <<target, module, identity, pc, item, seen>>
      BY <1>3 DEF Expire, Recover, tracking, local
  <2>2. \A x \in Roots \ {r} : locks'[x] = locks[x] /\ (x \in aged' => x \in aged)
      BY <1>3 DEF Expire, Recover, Unlock, TypeOK
  <2>3. ASSUME NEW t \in module, pc[current[t]] \in Gone
        PROVE  Bequest(t)' /\ locks'[target[t]] = locks[target[t]]
    <3>1. Bequest(t) /\ target[t] \in Roots \ {r}
        BY <1>3, <2>3 DEF Left, Bereft, Tracked, TypeOK
    <3> QED
        BY <2>1, <2>2, <3>1 DEF identity
  <2>4. ASSUME NEW p \in Procs, pc[p] = "releasing"
        PROVE  Reads(p)'
    <3>1. Reads(p) /\ name[p] \in module /\ pc[current[name[p]]] \in Gone
        BY <2>4 DEF Left, Staffed, Alive
    <3> QED
        BY <2>1, <2>3, <3>1 DEF identity, Root
  <2> QED
      BY <2>1, <2>3, <2>4 DEF Left, identity
<1>4. ASSUME NEW r \in Roots, Expire(r)
      PROVE  ~Bereft(r)
    BY <1>4 DEF Expire, CrashOnly
<1>5. ASSUME NEW r \in Roots, Recover(r)
      PROVE  ~Bereft(r)
    BY <1>5 DEF Recover, Bereft, Left
<1>6. ASSUME NEW r \in Roots, Submit(r)
      PROVE  UNCHANGED <<locks, aged, target, module, pc, current, name, item, seen>>
    BY <1>6 DEF Submit, tracking, identity, local
<1>7. UNCHANGED vars => UNCHANGED <<locks, aged, target, module, pc, current, name, item, seen>>
    BY DEF vars
<1>8. UNCHANGED <<locks, aged, target, module, pc, current, name, item, seen>> => Left'
    BY DEF Left, Root
<1> QED
    BY <1>1, <1>2, <1>3, <1>4, <1>5, <1>6, <1>7, <1>8, CrashSteps

-----------------------------------------------------------------------------
\* Rows come and go in few ways, and what is recorded about them only grows.
Adds(row) ==
    \/ \E r \in Roots : Submit(r) /\ row = <<r, 0>>
    \/ \E p \in Procs : DelayAnalysis(p) /\ row = <<Root(p), delays[Root(p)] + 1>>
Deletes(row) ==
    \E p \in Procs : (Clear(p) /\ row = item[p]) \/ (Abort(p) /\ row \in DelayedOf(Root(p)))

LEMMA RowsStep ==
    ASSUME CrashOnly, [Next]_vars
    PROVE  /\ \A row \in rows' \ rows : Adds(row)
           /\ \A row \in rows \ rows' : Deletes(row)
<1>1. \A r \in Roots : Submit(r) => rows' = rows \cup {<<r, 0>>}
    BY DEF Submit
<1>2. \A p \in Procs : DelayAnalysis(p) => rows' = rows \cup {<<Root(p), delays[Root(p)] + 1>>}
    BY DEF DelayAnalysis
<1>3. \A p \in Procs : Clear(p) => rows' = rows \ {item[p]}
    BY DEF Clear
<1>4. \A p \in Procs : Abort(p) => rows' = rows \ DelayedOf(Root(p))
    BY DEF Abort
<1>5. ASSUME NEW p \in Procs, Work(p), ~Clear(p)
      PROVE  rows' = rows
    BY <1>5 DEF Work, StartUp, ForceRelease, List, Acquire, Verify, Begin, Load, LeaveModule, Check,
                RemoveStorage, Release, tables
<1>6. ASSUME NEW p \in Procs, EnterModule(p) \/ Finish(p) \/ ClearError(p) \/ Keepalive(p) \/ Die(p)
      PROVE  rows' = rows
    BY <1>6 DEF EnterModule, Finish, ClearError, Keepalive, Die, tables
<1>7. ASSUME NEW p \in Procs, Acts(p)
      PROVE  \/ rows' = rows \/ DelayAnalysis(p) \/ Clear(p) \/ Abort(p)
    BY <1>5, <1>6, <1>7 DEF Acts
<1>8. \A s \in Slots : Restart(s) => rows' = rows
    BY DEF Restart, tables
<1>9. \A r \in Roots : Expire(r) \/ Recover(r) => rows' = rows
    BY DEF Expire, Recover
<1>10. UNCHANGED vars => rows' = rows
    BY DEF vars
<1>11. \/ rows' = rows
       \/ \E r \in Roots : Submit(r)
       \/ \E p \in Procs : DelayAnalysis(p) \/ Clear(p) \/ Abort(p)
    BY <1>7, <1>8, <1>9, <1>10, CrashSteps
<1> QED
    BY <1>1, <1>2, <1>3, <1>4, <1>11 DEF Adds, Deletes

LEMMA RecordsStep ==
    ASSUME CrashOnly, TypeOK, Shaped, [Next]_vars
    PROVE  /\ ended \subseteq ended' /\ (killed => killed')
           /\ \A r \in Roots : delays[r] <= delays'[r]
           /\ \A r \in stored \ stored' : \E p \in Procs : RemoveStorage(p) /\ Root(p) = r
           /\ \A r \in Roots :
                 \/ recorded'[r] = recorded[r]
                 \/ \E p \in Procs : pc[p] \in {"analysing", "module"} /\ Root(p) = r
<1> USE QueueAssumption
<1> DEFINE Same == UNCHANGED <<ended, killed, delays, stored, recorded>>
<1>0. \A r \in Roots : delays[r] <= delays[r]
    BY DEF TypeOK
<1>1. CASE Same
    BY <1>0, <1>1
<1>2. ASSUME NEW p \in Procs, Work(p), ~RemoveStorage(p), ~LeaveModule(p)
      PROVE  Same
    BY <1>2 DEF Work, StartUp, ForceRelease, List, Acquire, Verify, Begin, Load, Check, Clear,
                Release, bounds
<1>3. ASSUME NEW p \in Procs, EnterModule(p) \/ ClearError(p) \/ Keepalive(p)
      PROVE  Same
    BY <1>3 DEF EnterModule, ClearError, Keepalive, bounds
<1>4. ASSUME NEW p \in Procs, RemoveStorage(p)
      PROVE  /\ UNCHANGED <<ended, killed, delays, recorded>>
             /\ stored' = stored \ {Root(p)}
    BY <1>4 DEF RemoveStorage, bounds
<1>5. ASSUME NEW p \in Procs, LeaveModule(p) \/ Finish(p) \/ Abort(p)
      PROVE  /\ pc[p] \in {"analysing", "module"}
             /\ ended \subseteq ended' /\ UNCHANGED <<killed, delays>> /\ stored \subseteq stored'
             /\ recorded' = recorded \/ recorded' = [recorded EXCEPT ![Root(p)] = memory[p]]
    BY <1>5 DEF LeaveModule, Finish, Abort, Save, bounds
<1>6. ASSUME NEW p \in Procs, DelayAnalysis(p)
      PROVE  /\ UNCHANGED <<ended, killed, stored, recorded>>
             /\ \A r \in Roots : delays[r] <= delays'[r]
    BY <1>6 DEF DelayAnalysis, TypeOK
<1>7. ASSUME NEW p \in Procs, Die(p)
      PROVE  UNCHANGED <<ended, delays, stored, recorded>> /\ (killed => killed')
    BY <1>7 DEF Die
<1>8. ASSUME NEW r \in Roots, Submit(r)
      PROVE  UNCHANGED <<ended, killed, delays, recorded>> /\ stored \subseteq stored'
    BY <1>8 DEF Submit, bounds
<1>9. ASSUME NEW r \in Roots, Expire(r) \/ Recover(r)
      PROVE  Same
    BY <1>9 DEF Expire, Recover, bounds
<1>10. \A s \in Slots : Restart(s) => Same
    BY DEF Restart, bounds
<1>11. UNCHANGED vars => Same
    BY DEF vars
<1>12. ASSUME NEW p \in Procs, RemoveStorage(p)
       PROVE  /\ ended \subseteq ended' /\ (killed => killed')
              /\ \A r \in Roots : delays[r] <= delays'[r]
              /\ \A r \in stored \ stored' : \E q \in Procs : RemoveStorage(q) /\ Root(q) = r
              /\ \A r \in Roots : recorded'[r] = recorded[r]
    BY <1>0, <1>4, <1>12
<1>13. ASSUME NEW p \in Procs, LeaveModule(p) \/ Finish(p) \/ Abort(p)
       PROVE  /\ ended \subseteq ended' /\ (killed => killed')
              /\ \A r \in Roots : delays[r] <= delays'[r]
              /\ stored \subseteq stored'
              /\ \A r \in Roots :
                    \/ recorded'[r] = recorded[r]
                    \/ \E q \in Procs : pc[q] \in {"analysing", "module"} /\ Root(q) = r
    BY <1>0, <1>5, <1>13 DEF TypeOK
<1> HIDE DEF Same
<1>14. \/ Same
       \/ \E p \in Procs : \/ RemoveStorage(p) \/ LeaveModule(p) \/ Finish(p) \/ Abort(p)
                           \/ DelayAnalysis(p) \/ Die(p)
       \/ \E r \in Roots : Submit(r)
    BY <1>2, <1>3, <1>9, <1>10, <1>11, CrashSteps DEF Acts
<1> QED
    BY <1>0, <1>1, <1>6, <1>7, <1>8, <1>12, <1>13, <1>14

LEMMA NumberedStep ==
    ASSUME CrashOnly, TypeOK, Shaped, Numbered, [Next]_vars
    PROVE  Numbered'
<1> USE QueueAssumption
<1>1. ASSUME NEW row \in rows'
      PROVE  row[2] <= delays'[row[1]]
  <2>1. CASE row \in rows
    <3>1. row[1] \in Roots /\ row[2] \in Nat /\ row[2] <= delays[row[1]]
        BY <2>1 DEF Numbered, TypeOK, Rows
    <3>2. delays[row[1]] \in Nat /\ delays'[row[1]] \in Nat /\ delays[row[1]] <= delays'[row[1]]
        BY <3>1, RecordsStep, TypeStep DEF TypeOK
    <3> QED
        BY <3>1, <3>2
  <2>2. ASSUME NEW r \in Roots, row = <<r, 0>>
        PROVE  row[2] <= delays'[row[1]]
      BY <2>2, TypeStep DEF TypeOK
  <2>3. ASSUME NEW p \in Procs, DelayAnalysis(p), row = <<Root(p), delays[Root(p)] + 1>>
        PROVE  row[2] <= delays'[row[1]]
    <3>1. Root(p) \in Roots
        BY <2>3, ItemTyped DEF DelayAnalysis
    <3> QED
        BY <2>3, <3>1 DEF DelayAnalysis, TypeOK
  <2> QED
      BY <2>1, <2>2, <2>3, RowsStep DEF Adds
<1>2. ASSUME NEW p \in Procs, item'[p] # NoRow
      PROVE  item'[p][2] <= delays'[item'[p][1]]
  <2>1. item'[p] \in Rows
      BY <1>2, TypeStep DEF TypeOK
  <2>2. item'[p] = item[p] \/ item'[p] \in rows \/ item'[p][2] = 0
    <3>1. ASSUME NEW q \in Procs, Work(q)
          PROVE  item'[p] = item[p] \/ item'[p] \in rows \/ item'[p][2] = 0
      <4>1. CASE List(q)
          BY <4>1 DEF List, TypeOK
      <4>2. CASE StartUp(q)
          BY <4>2 DEF StartUp, TypeOK
      <4>3. CASE ForceRelease(q) \/ Acquire(q) \/ Verify(q) \/ Begin(q) \/ Release(q)
          BY <1>2, <4>3 DEF ForceRelease, Acquire, Verify, Begin, Release, Idle, TypeOK
      <4>4. CASE Load(q) \/ LeaveModule(q) \/ Check(q) \/ RemoveStorage(q) \/ Clear(q)
          BY <4>4 DEF Load, LeaveModule, Check, RemoveStorage, Clear, local
      <4> QED
          BY <3>1, <4>1, <4>2, <4>3, <4>4 DEF Work
    <3>2. ASSUME NEW q \in Procs,
                 EnterModule(q) \/ DelayAnalysis(q) \/ Finish(q) \/ Abort(q) \/ Keepalive(q)
          PROVE  item' = item
        BY <3>2 DEF EnterModule, DelayAnalysis, Finish, Abort, Keepalive, local
    <3>3. ASSUME NEW q \in Procs, ClearError(q) \/ Die(q)
          PROVE  item'[p] = item[p]
        BY <1>2, <3>3 DEF ClearError, Idle, Die, Forget, TypeOK
    <3>4. /\ \A s \in Slots : Restart(s) => item' = item
          /\ \A r \in Roots : Submit(r) \/ Expire(r) \/ Recover(r) => item' = item
          /\ UNCHANGED vars => item' = item
        BY DEF Restart, Submit, Expire, Recover, local, vars
    <3> QED
        BY <3>1, <3>2, <3>3, <3>4, CrashSteps DEF Acts
  <2>3. /\ delays[item'[p][1]] <= delays'[item'[p][1]] /\ item'[p][2] \in Nat
        /\ delays[item'[p][1]] \in Nat /\ delays'[item'[p][1]] \in Nat
      BY <2>1, RecordsStep, TypeStep DEF TypeOK, Rows
  <2>4. item'[p][2] <= delays[item'[p][1]] \/ item'[p][2] = 0
      BY <1>2, <2>2 DEF Numbered, Root
  <2> QED
      BY <2>3, <2>4
<1> QED
    BY <1>1, <1>2 DEF Numbered, Root

\* Numbers of requests change only when a module adds one.
LEMMA DelaysStep ==
    ASSUME CrashOnly, TypeOK, [Next]_vars, NEW r \in Roots
    PROVE  delays'[r] = delays[r] \/ \E p \in Procs : DelayAnalysis(p) /\ Root(p) = r
<1>1. ASSUME NEW p \in Procs, Work(p)
      PROVE  delays' = delays
    BY <1>1 DEF Work, StartUp, ForceRelease, List, Acquire, Verify, Begin, Load, LeaveModule, Check,
                RemoveStorage, Clear, Release, bounds
<1>2. ASSUME NEW p \in Procs,
             EnterModule(p) \/ Finish(p) \/ Abort(p) \/ ClearError(p) \/ Keepalive(p) \/ Die(p)
      PROVE  delays' = delays
    BY <1>2 DEF EnterModule, Finish, Abort, ClearError, Keepalive, Die, bounds
<1>3. ASSUME NEW p \in Procs, DelayAnalysis(p), Root(p) # r
      PROVE  delays'[r] = delays[r]
    BY <1>3 DEF DelayAnalysis, TypeOK
<1>4. /\ \A s \in Slots : Restart(s) => delays' = delays
      /\ \A x \in Roots : Submit(x) \/ Expire(x) \/ Recover(x) => delays' = delays
      /\ UNCHANGED vars => delays' = delays
    BY DEF Restart, Submit, Expire, Recover, bounds, vars
<1> QED
    BY <1>1, <1>2, <1>3, <1>4, CrashSteps DEF Acts

\* A process moves by a step of its own, or is started.
LEMMA Moves ==
    ASSUME CrashOnly, TypeOK, [Next]_vars, NEW q \in Procs
    PROVE  \/ Acts(q)
           \/ pc'[q] = pc[q] /\ item'[q] = item[q]
           \/ pc[q] = "unborn" /\ pc'[q] = "startup"
<1>1. ASSUME NEW p \in Procs, Acts(p), p # q
      PROVE  pc'[q] = pc[q] /\ item'[q] = item[q]
    BY <1>1, ActsAlone DEF OthersStay
<1>2. ASSUME NEW s \in Slots, Restart(s)
      PROVE  \/ pc'[q] = pc[q] /\ item'[q] = item[q]
             \/ pc[q] = "unborn" /\ pc'[q] = "startup"
  <2>1. PICK u \in Procs : pc[u] = "unborn" /\ pc' = [pc EXCEPT ![u] = "startup"]
      BY <1>2 DEF Restart, Unborn, Goto
  <2>2. item' = item
      BY <1>2 DEF Restart, local
  <2> QED
      BY <2>1, <2>2 DEF TypeOK
<1>3. /\ \A r \in Roots : Submit(r) \/ Expire(r) \/ Recover(r) => UNCHANGED <<pc, item>>
      /\ UNCHANGED vars => UNCHANGED <<pc, item>>
    BY DEF Submit, Expire, Recover, local, vars
<1> QED
    BY <1>1, <1>2, <1>3, CrashSteps

\* How a process comes to where it is in a pass.
LEMMA Arrivals ==
    ASSUME TypeOK, Owned, NEW p \in Procs, Acts(p)
    PROVE  /\ pc'[p] \in {"claimed", "ready", "analysing", "module"} /\ item'[p][2] = 0 =>
                 /\ item'[p] = item[p]
                 /\ \/ pc[p] \in {"claimed", "ready", "analysing", "module"}
                    \/ pc[p] = "verifying" /\ item[p] \in rows
           /\ pc'[p] \in {"analysing", "module", "checking", "removing"} =>
                 /\ item'[p] = item[p]
                 /\ \/ pc[p] \in {"analysing", "module", "checking", "removing"}
                    \/ pc[p] = "ready" /\ Root(p) \in stored
           /\ pc'[p] = "checking" => pc[p] = "checking" \/ item[p] \in ended'
           /\ pc'[p] = "removing" => pc[p] = "removing" \/ (pc[p] = "checking" /\ ~Outstanding(p))
           /\ pc'[p] = "clearing" =>
                 /\ item'[p] = item[p]
                 /\ \/ pc[p] \in {"clearing", "checking", "removing"}
                    \/ /\ pc[p] = "ready" /\ rows' = rows
                       /\ Root(p) \notin stored \/ item[p][2] \notin recorded[Root(p)] \cup {0}
           /\ pc[p] \in {"analysing", "module"} =>
                 \/ pc'[p] \in {"analysing", "module"} /\ item'[p] = item[p]
                 \/ item[p] \in ended'
                 \/ killed'
<1> DEFINE A == pc'[p] \in {"claimed", "ready", "analysing", "module"} /\ item'[p][2] = 0 =>
                 /\ item'[p] = item[p]
                 /\ \/ pc[p] \in {"claimed", "ready", "analysing", "module"}
                    \/ pc[p] = "verifying" /\ item[p] \in rows
           B == pc'[p] \in {"analysing", "module", "checking", "removing"} =>
                 /\ item'[p] = item[p]
                 /\ \/ pc[p] \in {"analysing", "module", "checking", "removing"}
                    \/ pc[p] = "ready" /\ Root(p) \in stored
           C == pc'[p] = "checking" => pc[p] = "checking" \/ item[p] \in ended'
           D == pc'[p] = "removing" => pc[p] = "removing" \/ (pc[p] = "checking" /\ ~Outstanding(p))
           E == pc'[p] = "clearing" =>
                 /\ item'[p] = item[p]
                 /\ \/ pc[p] \in {"clearing", "checking", "removing"}
                    \/ /\ pc[p] = "ready" /\ rows' = rows
                       /\ Root(p) \notin stored \/ item[p][2] \notin recorded[Root(p)] \cup {0}
           F == pc[p] \in {"analysing", "module"} =>
                 \/ pc'[p] \in {"analysing", "module"} /\ item'[p] = item[p]
                 \/ item[p] \in ended'
                 \/ killed'
           All == A /\ B /\ C /\ D /\ E /\ F
<1>1. StartUp(p) \/ ForceRelease(p) \/ List(p) \/ Acquire(p) => All
    BY DEF StartUp, ForceRelease, List, Acquire, Goto, TypeOK
<1>2. Verify(p) \/ Begin(p) => All
    BY DEF Verify, Begin, Goto, TypeOK
<1>3. Load(p) => All
    BY DEF Load, tables, Goto, TypeOK
<1>4. LeaveModule(p) \/ EnterModule(p) \/ DelayAnalysis(p) => All
    BY DEF LeaveModule, EnterModule, DelayAnalysis, local, Goto, TypeOK
<1>5. Check(p) \/ RemoveStorage(p) \/ Clear(p) => All
    BY DEF Check, RemoveStorage, Clear, local, Goto, TypeOK
<1>6. Finish(p) \/ Abort(p) => All
    BY DEF Finish, Abort, local, Owned, Goto, TypeOK
<1>7. Release(p) \/ ClearError(p) => All
    BY DEF Release, ClearError, Idle, Goto, TypeOK
<1>8. Keepalive(p) => All
    BY DEF Keepalive, Owned, Holding, TypeOK
<1>9. Die(p) => All
    BY DEF Die, Goto, TypeOK
<1> HIDE DEF All
<1>10. All
    BY <1>1, <1>2, <1>3, <1>4, <1>5, <1>6, <1>7, <1>8, <1>9 DEF Acts, Work
<1> QED
    BY <1>10 DEF All

\* Two processes do not hold the lock of one root.
LEMMA OneHolder ==
    ASSUME Owned, NEW p \in Procs, NEW q \in Procs, pc[p] \in Holding, pc[q] \in Holding,
           Root(p) = Root(q)
    PROVE  p = q
BY DEF Owned

\* Another process adds no request to a root that is held, and deletes no row of it.
LEMMA HeldRows ==
    ASSUME CrashOnly, TypeOK, Shaped, Owned, Present, [Next]_vars, NEW p \in Procs, pc[p] \in Holding
    PROVE  /\ \A row \in rows' \ rows : row[1] = Root(p) =>
                 row[2] = 0 \/ pc[p] = "module"
           /\ \A row \in rows' \ rows : row[1] = Root(p) => ~InPass(p) \/ pc[p] = "module"
           /\ \A row \in rows \ rows' : row[1] = Root(p) =>
                 (pc[p] = "clearing" /\ row = item[p]) \/ row[2] # 0
<1>1. ASSUME NEW row \in rows' \ rows, row[1] = Root(p)
      PROVE  (row[2] = 0 \/ pc[p] = "module") /\ (~InPass(p) \/ pc[p] = "module")
  <2>1. CASE \E r \in Roots : Submit(r) /\ row = <<r, 0>>
      BY <1>1, <2>1 DEF Submit, Present
  <2>2. ASSUME NEW q \in Procs, DelayAnalysis(q), row = <<Root(q), delays[Root(q)] + 1>>
        PROVE  pc[p] = "module"
      BY <1>1, <2>2, OneHolder DEF DelayAnalysis, Holding
  <2> QED
      BY <2>1, <2>2, RowsStep DEF Adds
<1>2. ASSUME NEW row \in rows \ rows', row[1] = Root(p)
      PROVE  (pc[p] = "clearing" /\ row = item[p]) \/ row[2] # 0
  <2>1. ASSUME NEW q \in Procs, Clear(q), row = item[q]
        PROVE  pc[p] = "clearing" /\ row = item[p]
    <3>1. p = q
        BY <1>2, <2>1, OneHolder DEF Clear, Holding, Root
    <3> QED
        BY <2>1, <3>1 DEF Clear
  <2>2. ASSUME NEW q \in Procs, row \in DelayedOf(Root(q))
        PROVE  row[2] # 0
      BY <2>2 DEF DelayedOf
  <2> QED
      BY <2>1, <2>2, RowsStep DEF Deletes
<1> QED
    BY <1>1, <1>2

LEMMA PresentStep ==
    ASSUME CrashOnly, TypeOK, Shaped, Owned, Present, [Next]_vars
    PROVE  Present'
<1> DEFINE Early == {"claimed", "ready", "analysing", "module"}
           Pass == {"analysing", "module", "checking", "removing"}
<1>1. ASSUME NEW q \in Procs, pc'[q] \in Early, item'[q][2] = 0
      PROVE  item'[q] \in rows'
  <2>1. /\ item'[q] = item[q] /\ pc[q] \in Early \cup {"verifying"}
        /\ pc[q] = "verifying" => item[q] \in rows
    <3>1. CASE Acts(q)
        BY <1>1, <3>1, Arrivals
    <3>2. CASE pc'[q] = pc[q] /\ item'[q] = item[q]
        BY <1>1, <3>2
    <3>3. pc'[q] # "startup"
        BY <1>1
    <3> QED
        BY <3>1, <3>2, <3>3, Moves
  <2>2. item[q] \in rows
      BY <1>1, <2>1 DEF Present
  <2>3. pc[q] \in Holding /\ pc[q] # "clearing"
      BY <2>1 DEF Holding
  <2> QED
      BY <1>1, <2>1, <2>2, <2>3, HeldRows DEF Root
<1>2. ASSUME NEW q \in Procs, pc'[q] \in Pass
      PROVE  item'[q][1] \in stored'
  <2>1. /\ item'[q] = item[q] /\ pc[q] \in Pass \cup {"ready"}
        /\ pc[q] = "ready" => Root(q) \in stored
        /\ pc[q] = "removing" => pc'[q] = "removing"
    <3>1. CASE Acts(q)
      <4>1. pc[q] = "removing" => pc'[q] = "removing"
          BY <1>2, <3>1 DEF Acts, Work, StartUp, ForceRelease, List, Acquire, Verify, Begin, Load,
                LeaveModule, Check, RemoveStorage, Clear, Release, EnterModule, DelayAnalysis,
                Finish, Abort, ClearError, Keepalive, Die, Goto, TypeOK
      <4> QED
          BY <1>2, <3>1, <4>1, Arrivals
    <3>2. CASE pc'[q] = pc[q] /\ item'[q] = item[q]
        BY <1>2, <3>2
    <3>3. pc'[q] # "startup"
        BY <1>2
    <3> QED
        BY <3>1, <3>2, <3>3, Moves
  <2>2. Root(q) \in stored
      BY <2>1 DEF Present, InPass
  <2>3. ASSUME NEW u \in Procs, RemoveStorage(u), Root(u) = Root(q)
        PROVE  FALSE
    <3>1. u = q
        BY <2>1, <2>3, OneHolder DEF RemoveStorage, Holding
    <3> QED
        BY <1>2, <2>3, <3>1 DEF RemoveStorage, Goto, TypeOK
  <2> QED
      BY <2>1, <2>2, <2>3, RecordsStep DEF Root
<1> QED
    BY <1>1, <1>2 DEF Present, InPass, Root

LEMMA BegunStep ==
    ASSUME CrashOnly, TypeOK, Shaped, Owned, Numbered, Begun, [Next]_vars
    PROVE  Begun'
<1> USE QueueAssumption
<1> DEFINE Doing(q, r) == pc[q] \in {"analysing", "module"} /\ item[q] = <<r, 0>>
<1> SUFFICES ASSUME NEW r \in Roots, ~killed', delays'[r] > 0
             PROVE  \/ <<r, 0>> \in ended'
                    \/ \E q \in Procs : pc'[q] \in {"analysing", "module"} /\ item'[q] = <<r, 0>>
    BY DEF Begun
<1>1. ~killed /\ ended \subseteq ended' /\ delays[r] \in Nat
    BY RecordsStep DEF TypeOK
<1>2. <<r, 0>> \in ended \/ \E q \in Procs : Doing(q, r)
  <2>1. CASE delays[r] > 0
      BY <1>1, <2>1 DEF Begun
  <2>2. ASSUME delays[r] = 0
        PROVE  \E q \in Procs : Doing(q, r)
    <3>1. PICK p \in Procs : DelayAnalysis(p) /\ Root(p) = r
        BY <2>2, DelaysStep
    <3>2. pc[p] = "module" /\ item[p] = <<r, item[p][2]>> /\ item[p][2] \in Nat /\ item[p] # NoRow
        BY <3>1, ItemTyped, NoRowApart DEF DelayAnalysis
    <3>3. item[p][2] <= 0
        BY <2>2, <3>1, <3>2 DEF Numbered
    <3> QED
        BY <3>2, <3>3
  <2> QED
      BY <1>1, <2>1, <2>2
<1>3. ASSUME NEW q \in Procs, Doing(q, r)
      PROVE  \/ <<r, 0>> \in ended'
             \/ pc'[q] \in {"analysing", "module"} /\ item'[q] = <<r, 0>>
    BY <1>3, Moves, Arrivals
<1> QED
    BY <1>1, <1>2, <1>3

LEMMA TameBefore ==
    ASSUME CrashOnly, TypeOK, Shaped, [Next]_vars, NEW r \in Roots, Tame(r)'
    PROVE  Tame(r)
<1> USE QueueAssumption
<1>1. (killed => killed') /\ delays[r] <= delays'[r] /\ delays[r] \in Nat
    BY RecordsStep DEF TypeOK
<1>2. killed' => delays'[r] = 0
    BY DEF Tame
<1> QED
    BY <1>1, <1>2 DEF Tame

\* A pass that found no outstanding work leaves none behind.
LEMMA NothingLeft ==
    ASSUME TypeOK, Shaped, Owned, Numbered, Begun, Concluded, NEW p \in Procs, pc[p] = "checking",
           ~Outstanding(p), Tame(Root(p))
    PROVE  RowsOf(Root(p)) \subseteq ended
<1> USE QueueAssumption
<1> SUFFICES ASSUME NEW row \in rows, row[1] = Root(p), row # item[p]
             PROVE  row \in ended
    BY DEF RowsOf, Concluded
<1>1. row[2] = 0 /\ row = <<Root(p), 0>>
    BY DEF Outstanding, DelayedOf, TypeOK, Rows
<1>2. item[p][2] \in Nat /\ item[p][2] # 0 /\ Root(p) \in Roots /\ item[p] \in Rows
    BY <1>1, ItemTyped
<1>3. delays[Root(p)] \in Nat /\ item[p][2] <= delays[Root(p)]
    BY <1>2, NoRowApart DEF Numbered, TypeOK
<1>4. delays[Root(p)] > 0 /\ ~killed
    BY <1>2, <1>3 DEF Tame
<1>5. ASSUME NEW q \in Procs, pc[q] \in {"analysing", "module"}, item[q] = <<Root(p), 0>>
      PROVE  FALSE
    BY <1>5, OneHolder DEF Holding, Root
<1> QED
    BY <1>1, <1>2, <1>4, <1>5 DEF Begun

LEMMA ConcludedStep ==
    ASSUME CrashOnly, TypeOK, Shaped, Owned, Numbered, Present, Begun, Concluded, Cleaned, [Next]_vars
    PROVE  Concluded'
<1> USE QueueAssumption
<1> DEFINE Follows(p) ==
              /\ pc[p] \in {"checking", "removing"} => item[p] \in ended
              /\ pc[p] = "removing" /\ Tame(Root(p)) => RowsOf(Root(p)) \subseteq ended
              /\ pc[p] = "clearing" /\ Tame(Root(p)) /\ (item[p] \in rows \/ item[p][2] = 0) =>
                    item[p] \in ended \/ item[p][2] \notin recorded[Root(p)] \cup {0}
<1> SUFFICES ASSUME NEW p \in Procs, pc'[p] \in {"checking", "removing", "clearing"}
             PROVE  Follows(p)'
    BY DEF Concluded
<1>1. /\ item'[p] = item[p]
      /\ pc'[p] = "checking" => pc[p] = "checking" \/ item[p] \in ended'
      /\ pc'[p] = "removing" => pc[p] = "removing" \/ (pc[p] = "checking" /\ ~Outstanding(p))
      /\ pc'[p] = "clearing" =>
            \/ pc[p] \in {"clearing", "checking", "removing"}
            \/ /\ pc[p] = "ready" /\ rows' = rows
               /\ Root(p) \notin stored \/ item[p][2] \notin recorded[Root(p)] \cup {0}
  <2>1. CASE Acts(p)
      BY <2>1, Arrivals
  <2>2. CASE pc'[p] = pc[p] /\ item'[p] = item[p]
      BY <2>2
  <2> QED
      BY <2>1, <2>2, Moves
<1>2. pc[p] \in {"analysing", "module", "checking", "removing", "clearing", "ready"}
  <2>1. CASE Acts(p)
      BY <2>1, Arrivals
  <2>2. CASE pc'[p] = pc[p] /\ item'[p] = item[p]
      BY <2>2
  <2> QED
      BY <2>1, <2>2, Moves
<1>3. PICK r \in Roots : r = Root(p)
    BY <1>2, ItemTyped
<1>4. pc[p] \in Holding /\ ended \subseteq ended'
    BY <1>2, RecordsStep DEF Holding
<1>5. pc'[p] \in {"checking", "removing"} => item'[p] \in ended'
    BY <1>1, <1>4 DEF Concluded
<1>6. ASSUME pc'[p] = "removing", Tame(r)'
      PROVE  RowsOf(r)' \subseteq ended'
  <2>1. Tame(r) /\ InPass(p) /\ pc[p] # "module"
      BY <1>1, <1>6, TameBefore DEF InPass
  <2>2. RowsOf(r) \subseteq ended
      BY <1>1, <1>3, <1>6, <2>1, NothingLeft DEF Concluded
  <2>3. \A row \in rows' \ rows : row[1] # r
      BY <1>3, <1>4, <2>1, HeldRows
  <2> QED
      BY <1>4, <2>2, <2>3 DEF RowsOf
<1>7. ASSUME pc'[p] = "clearing", Tame(r)', item[p] \in rows' \/ item[p][2] = 0
      PROVE  item[p] \in ended' \/ item[p][2] \notin recorded'[r] \cup {0}
  <2>1. Tame(r) /\ pc[p] \in {"checking", "removing", "clearing", "ready"}
      BY <1>1, <1>7, TameBefore
  <2>2. recorded'[r] = recorded[r]
      BY <1>3, <1>4, <2>1, RecordsStep, OneHolder DEF Holding
  <2>3. item[p] \in rows \/ item[p][2] = 0
      BY <1>3, <1>4, <1>7, <2>1, HeldRows DEF Root
  <2>4. CASE pc[p] \in {"checking", "removing"}
      BY <1>4, <2>4 DEF Concluded
  <2>5. CASE pc[p] = "clearing"
      BY <1>3, <1>4, <2>1, <2>2, <2>3, <2>5 DEF Concluded
  <2>6. CASE pc[p] = "ready"
    <3>1. r \notin stored \/ item[p][2] \notin recorded[r] \cup {0}
        BY <1>1, <1>3, <1>7, <2>6
    <3>2. item[p] \in rows
        BY <2>3, <2>6 DEF Present
    <3>3. r \notin stored => item[p] \in ended
        BY <1>3, <2>1, <3>2 DEF Cleaned, Root
    <3> QED
        BY <1>4, <2>2, <3>1, <3>3
  <2> QED
      BY <2>1, <2>4, <2>5, <2>6
<1>8. Root(p)' = r /\ RowsOf(Root(p))' = RowsOf(r)' /\ (Tame(Root(p))' <=> Tame(r)')
    BY <1>1, <1>3 DEF Root, RowsOf, Tame
<1>9. /\ pc'[p] = "clearing" /\ Tame(r)' /\ (item'[p] \in rows' \/ item'[p][2] = 0) =>
            item'[p] \in ended' \/ item'[p][2] \notin recorded'[r] \cup {0}
      /\ pc'[p] = "removing" /\ Tame(r)' => RowsOf(r)' \subseteq ended'
    BY <1>1, <1>6, <1>7
<1> QED
    BY <1>5, <1>8, <1>9

LEMMA CleanedStep ==
    ASSUME CrashOnly, TypeOK, Shaped, Owned, Present, Concluded, Cleaned, [Next]_vars
    PROVE  Cleaned'
<1> SUFFICES ASSUME NEW row \in rows', Tame(row[1])', row[1] \notin stored'
             PROVE  row \in ended'
    BY DEF Cleaned
<1>1. PICK r \in Roots : r = row[1]
    BY TypeStep DEF TypeOK, Rows
<1>2. Tame(r) /\ ended \subseteq ended'
    BY <1>1, TameBefore, RecordsStep
<1>3. ASSUME NEW x \in Roots, Submit(x), row = <<x, 0>>
      PROVE  FALSE
    BY <1>3 DEF Submit
<1>4. ASSUME NEW p \in Procs, DelayAnalysis(p), row = <<Root(p), delays[Root(p)] + 1>>
      PROVE  FALSE
    BY <1>4 DEF DelayAnalysis, Present, InPass
<1>5. row \in rows
    BY <1>3, <1>4, RowsStep DEF Adds
<1>6. ASSUME NEW p \in Procs, RemoveStorage(p), Root(p) = r
      PROVE  row \in ended
    BY <1>1, <1>2, <1>5, <1>6 DEF RemoveStorage, Concluded, RowsOf
<1> QED
    BY <1>1, <1>2, <1>5, <1>6, RecordsStep DEF Cleaned

-----------------------------------------------------------------------------
LEMMA IInvInit == Init => IInv
<1> USE QueueAssumption
<1> SUFFICES ASSUME Init
             PROVE  IInv
    OBVIOUS
<1>1. TypeOK /\ Shaped
    BY TypeInit
<1>2. \A p \in Procs : pc[p] \in {"startup", "unborn"}
    BY DEF Init
<1>3. Staffed
  <2>1. ASSUME NEW s \in Slots
        PROVE  name[current[s]] = s /\ pc[current[s]] = "startup"
    <3>1. current[s] \in Procs /\ current[s] \in Image(current)
        BY DEF Init, Image
    <3>2. \E t \in Slots : current[t] = current[s]
        OBVIOUS
    <3>3. PICK u \in Slots : u = (CHOOSE t \in Slots : current[t] = current[s]) /\ current[u] = current[s]
        BY <3>2
    <3>4. u = s
        BY <3>3 DEF Init
    <3>5. name[current[s]] = u
        BY <3>1, <3>3 DEF Init
    <3> QED
        BY <3>1, <3>4, <3>5 DEF Init
  <2>2. ASSUME NEW p \in Procs, Alive(p)
        PROVE  current[name[p]] = p
    <3>1. p \in Image(current)
        BY <2>2 DEF Init, Alive
    <3>2. PICK s \in Slots : current[s] = p
        BY <3>1 DEF Image, Init
    <3> QED
        BY <2>1, <3>2
  <2>3. \A p \in Procs : uuid[p] = p
      BY DEF Init
  <2> QED
      BY <2>1, <2>2, <2>3 DEF Staffed
<1>4. Numbered /\ Owned /\ Tracked /\ Left
    BY <1>2 DEF Init, Numbered, Owned, Tracked, Left, Holding
<1>5. Present /\ Begun /\ Concluded /\ Cleaned
    BY <1>2 DEF Init, Present, InPass, Begun, Concluded, Cleaned
<1> QED
    BY <1>3, <1>4, <1>5 DEF IInv

LEMMA IInvStep ==
    ASSUME CrashOnly, TypeOK, Shaped, IInv, [Next]_vars
    PROVE  IInv'
BY StaffedStep, NumberedStep, OwnedStep, TrackedStep, LeftStep, PresentStep, BegunStep,
   ConcludedStep, CleanedStep DEF IInv

\* Whatever the environment does - kills, starved keepalives, an engine restart, SIGHUP - the
\* tables, the tracking directories and the worker processes keep their shape.
THEOREM TypeCorrect == Spec => []TypeOK
<1>1. Init => TypeOK /\ Shaped
    BY TypeInit
<1>2. TypeOK /\ Shaped /\ [Next]_vars => (TypeOK /\ Shaped)'
    BY TypeStep, ShapedStep
<1> QED
    BY <1>1, <1>2, PTL DEF Spec

\* The inductive invariant, when workers may die at any point and nothing else goes wrong.
THEOREM InvariantHolds ==
    ASSUME CrashOnly
    PROVE  Spec => [](TypeOK /\ Shaped /\ IInv)
<1>1. Init => TypeOK /\ Shaped /\ IInv
    BY TypeInit, IInvInit
<1>2. TypeOK /\ Shaped /\ IInv /\ [Next]_vars => (TypeOK /\ Shaped /\ IInv)'
    BY TypeStep, ShapedStep, IInvStep
<1> QED
    BY <1>1, <1>2, PTL DEF Spec

\* Two workers of a node never analyse one root at the same time, however often workers die
\* and are replaced: whoever is in orchestrate_analysis holds the row of the locks table.
THEOREM ExclusiveAnalysisHolds ==
    ASSUME CrashOnly
    PROVE  Spec => []ExclusiveAnalysis
<1>1. IInv => ExclusiveAnalysis
    BY DEF IInv, Owned, ExclusiveAnalysis, InPass, Holding
<1> QED
    BY <1>1, InvariantHolds, PTL

\* The workload row of an item being analysed is in the table: _get_next_work_target looked it
\* up under the lock, and only the holder of the lock deletes it, in clear_work_target.
THEOREM InFlightWorkKeptHolds ==
    ASSUME CrashOnly
    PROVE  Spec => []InFlightWorkKept
<1>1. IInv => InFlightWorkKept
    BY DEF IInv, Present, InFlightWorkKept
<1> QED
    BY <1>1, InvariantHolds, PTL

\* While no worker was killed in the middle of a pass, _handle_cleanup removes the storage
\* directory of a root only after every row left in the tables was worked off.
THEOREM CleanupLastHolds ==
    ASSUME CrashOnly
    PROVE  Spec => []CleanupLast
<1>1. IInv => CleanupLast
    BY DEF IInv, Cleaned, Tame, CleanupLast
<1> QED
    BY <1>1, InvariantHolds, PTL

\* clear_work_target and the abandonment of delayed requests delete a row only after its
\* analysis, except for requests of a root whose worker was killed in the middle of a pass.
THEOREM NoWorkDroppedHolds ==
    ASSUME CrashOnly
    PROVE  Spec => NoWorkDropped
<1>1. ASSUME TypeOK, Shaped, IInv, [Next]_vars,
             NEW row \in rows \ rows', killed' => delays[row[1]] = 0
      PROVE  row \in ended' \/ row[2] \notin recorded[row[1]] \cup {0}
  <2>1. Tame(row[1])
      BY <1>1, RecordsStep DEF Tame
  <2>2. ASSUME NEW p \in Procs, Clear(p), row = item[p]
        PROVE  row \in ended' \/ row[2] \notin recorded[row[1]] \cup {0}
    <3>1. row \in ended \/ row[2] \notin recorded[row[1]] \cup {0}
        BY <1>1, <2>1, <2>2 DEF Clear, IInv, Concluded, Root
    <3> QED
        BY <2>2, <3>1 DEF Clear
  <2>3. ASSUME NEW p \in Procs, Abort(p), row \in DelayedOf(Root(p))
        PROVE  row \in ended'
      BY <2>3 DEF Abort
  <2> QED
      BY <1>1, <2>2, <2>3, RowsStep DEF Deletes
<1>2. TypeOK /\ Shaped /\ IInv /\ [Next]_vars =>
          [\A row \in rows \ rows' :
              (killed' => delays[row[1]] = 0) =>
                 row \in ended' \/ row[2] \notin recorded[row[1]] \cup {0}]_vars
    BY <1>1
<1> QED
    BY <1>2, InvariantHolds, PTL DEF Spec, NoWorkDropped

\* The start-up of a replacement, which deletes the lock its predecessor left, never deletes
\* one that a live worker holds: the lock_uuid it read is a dead worker's.
THEOREM ReleasesOnlyTheDeadHolds ==
    ASSUME CrashOnly
    PROVE  Spec => ReleasesOnlyTheDead
<1>1. ASSUME TypeOK, Shaped, IInv, [Next]_vars, NEW p \in Procs, NEW q \in Procs,
             pc[p] = "releasing", pc[q] \in Holding, Root(q) = Root(p),
             locks[Root(q)] = uuid[q], pc'[p] = "idle"
      PROVE  FALSE
  <2>1. Staffed /\ Left
      BY <1>1 DEF IInv
  <2>2. name[p] \in module /\ current[name[p]] = p /\ target[name[p]] = Root(p)
      BY <1>1, <2>1 DEF Left, Staffed, Alive
  <2>3. pc[locks[Root(p)]] = "dead"
      BY <1>1, <2>1, <2>2 DEF Left
  <2> QED
      BY <1>1, <2>1, <2>3 DEF Staffed, Holding
<1>2. TypeOK /\ Shaped /\ IInv /\ [Next]_vars =>
          [\A p, q \in Procs :
              pc[p] = "releasing" /\ pc[q] \in Holding /\ Root(q) = Root(p)
                 /\ locks[Root(q)] = uuid[q] /\ pc'[p] = "idle" =>
              locks'[Root(q)] = uuid[q]]_vars
    BY <1>1
<1> QED
    BY <1>2, InvariantHolds, PTL DEF Spec, ReleasesOnlyTheDead
=============================================================================
