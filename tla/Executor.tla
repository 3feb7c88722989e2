------------------------------ MODULE Executor ------------------------------
(***************************************************************************)
(* The analysis executor (saq/engine/executor.py): the passes over one     *)
(* root analysis, the work stack, the dependencies between analyses that   *)
(* wait_for_analysis and declared dependencies create, delayed analysis    *)
(* and the final analysis mode.                                            *)
(*                                                                         *)
(* A task <<o, m>> is the analysis of observable o by module m.  A pass is *)
(* single threaded, so a step is one turn of the main loop or one module   *)
(* of the work item in hand; what a module does is the environment's       *)
(* choice among Behaviours, and which tasks a task waits for is chosen in  *)
(* the initial state.  Modules are numbered in priority order.             *)
(***************************************************************************)
EXTENDS Naturals, Sequences, FiniteSets, SequencesExt

CONSTANTS Observables,  \* observables the root can come to hold
          Given,        \* those it starts with, a sequence
          NModules,     \* modules of the analysis mode
          Accepts,      \* tasks whose module accepts the observable
          WaitGraphs,   \* what tasks may call wait_for_analysis on, acyclic functions
          Declared,     \* the modules each module declares a dependency on
          Behaviours,   \* what modules may do besides completing or finding nothing
          MaxDelays,    \* bound on calls of delay_analysis that are granted
          MaxKinds      \* bound on how many of Behaviours one execution shows

Modules == 1 .. NModules
Tasks == Observables \X Modules
AllBehaviours == {"find", "nothing", "delay", "partial", "error", "unmet", "hit", "stop"}
Nil == 0                \* no module, or no dependency

ASSUME ExecutorAssumption ==
    /\ NModules \in Nat
    /\ Given \in Seq(Observables) /\ IsInjective(Given)
    /\ Accepts \subseteq Tasks
    /\ WaitGraphs \subseteq [Tasks -> SUBSET Accepts]
    /\ Declared \in [Modules -> SUBSET Modules]
    /\ Behaviours \subseteq AllBehaviours
    /\ MaxDelays \in Nat /\ MaxKinds \in Nat

VARIABLES
    waits,      \* the tasks each task waits for before it can finish
    known,      \* observables of the root, in the order they were added
    analysis,   \* what each observable holds for each module
    pc,         \* the executor: in a pass, between passes, or aborted by an exception
    final,      \* final_analysis_mode
    request,    \* the delayed analysis request of this pass, <<>> in a root pass
    first,      \* first_pass: the request was not taken yet
    work,       \* the work stack, a sequence of items
    tracker,    \* observables the stack refuses a second plain entry of
    buffer,     \* work_stack_buffer: observables touched by the modules that ran
    item,       \* the item in hand
    todo,       \* modules still to try on it
    deps,       \* dependency_tracking, a sequence
    loaded,     \* how many of them were read from disk when the pass began
    pending,    \* delayed analysis requests in the database
    posted,     \* post-analysis has run
    ran,        \* tasks whose execute_analysis came to an end
    seen,       \* what modules did so far, of Behaviours
    delays      \* delays granted so far

passVars == <<pc, final, request, first, item, todo>>
workVars == <<work, tracker, buffer>>
vars == <<waits, known, analysis, passVars, workVars, deps, loaded, pending, posted, ran,
          seen, delays>>

Item == [obs : Observables, mod : Modules \cup {Nil}, dep : Nat]
NoItem == <<>>
Content == {"none", "absent", "partial", "delayed", "completed"}

TypeOK ==
    /\ waits \in WaitGraphs
    /\ known \in Seq(Observables) /\ Cardinality(ToSet(known)) = Len(known)
    /\ analysis \in [Tasks -> Content]
    /\ pc \in {"pass", "idle", "aborted"}
    /\ final \in BOOLEAN /\ first \in BOOLEAN /\ posted \in BOOLEAN
    /\ request \in Tasks \cup {<<>>}
    /\ work \in Seq(Item) /\ tracker \subseteq Observables /\ buffer \in Seq(Observables)
    /\ item \in Item \cup {NoItem} /\ todo \subseteq Modules
    /\ deps \in Seq([src : Tasks, tgt : Tasks,
                     status : {"ready", "completed", "resolved", "failed"}])
    /\ loaded \in 0 .. Len(deps)
    /\ pending \subseteq Tasks
    /\ ran \subseteq Tasks /\ seen \subseteq Behaviours
    /\ delays \in 0 .. MaxDelays

-----------------------------------------------------------------------------
\* The work stack.

Plain(o) == [obs |-> o, mod |-> Nil, dep |-> Nil]
Only(t) == [obs |-> t[1], mod |-> t[2], dep |-> Nil]

\* WorkStack.append of a plain observable, for each of os in turn.
Pushed(w, tr, os) ==
    LET push[n \in 0 .. Len(os)] ==
            IF n = 0 THEN [work |-> w, tracker |-> tr]
            ELSE IF os[n] \in push[n - 1].tracker THEN push[n - 1]
            ELSE [work    |-> Append(push[n - 1].work, Plain(os[n])),
                  tracker |-> push[n - 1].tracker \cup {os[n]}]
    IN push[Len(os)]

Init ==
    /\ waits \in WaitGraphs
    /\ known = Given
    /\ analysis = [t \in Tasks |-> "none"]
    /\ pc = "pass" /\ final = FALSE /\ request = <<>> /\ first = TRUE
    /\ LET s == Pushed(<<>>, {}, Given) IN work = s.work /\ tracker = s.tracker
    /\ buffer = <<>> /\ item = NoItem /\ todo = {}
    /\ deps = <<>> /\ loaded = 0
    /\ pending = {} /\ posted = FALSE /\ ran = {} /\ seen = {} /\ delays = 0

-----------------------------------------------------------------------------
\* Dependencies.

\* What .next holds: links are made to a new dependency when it is added, and
\* between all of them when they are loaded.
NextOf(i) ==
    LET after == {j \in DOMAIN deps \ {i} :
                     deps[j].src = deps[i].tgt /\ (j > i \/ (i <= loaded /\ j <= loaded))}
    IN IF after = {} THEN {} ELSE {Max(after)}

\* The dependency and those reached from it by .next: the least set closed under it.
Chain(i) ==
    LET closed == {S \in SUBSET DOMAIN deps : i \in S /\ \A j \in S : NextOf(j) \subseteq S}
    IN {j \in DOMAIN deps : \A S \in closed : j \in S}

Failed(i) == \E j \in Chain(i) : deps[j].status = "failed"
DelayedDep(i) ==
    \/ analysis[deps[i].src] = "delayed"
    \/ \E j \in Chain(i) : analysis[deps[j].tgt] = "delayed"

Active == {i \in DOMAIN deps : ~Failed(i) /\ ~DelayedDep(i) /\ deps[i].status # "resolved"}

\* The first of active_dependencies: the shortest chain, then the oldest.
FirstActive ==
    CHOOSE i \in Active : \A j \in Active :
        \/ Cardinality(Chain(i)) < Cardinality(Chain(j))
        \/ Cardinality(Chain(i)) = Cardinality(Chain(j)) /\ i <= j

\* get_dependency: the first dependency on t, whoever waits; is it closed?
Closed(t) ==
    LET on == {i \in DOMAIN deps : deps[i].tgt = t}
    IN on # {} /\ LET i == Min(on) IN deps[i].status \in {"completed", "resolved"} \/ Failed(i)

\* Mutant of Unmet: analysis that is there but not complete is enough.
UnmetIfMissing(t) == ~Closed(t) /\ analysis[t] = "none"

\* wait_for_analysis raises, or a declared dependency is unmet.
Unmet(t) == ~Closed(t) /\ analysis[t] \in {"none", "partial", "delayed"}

\* _check_circular_dependency compares the types of the analyses only.
Circular(src, tgt) ==
    LET up[n \in 0 .. Len(deps)] ==
            IF n = 0 THEN {src}
            ELSE up[n - 1] \cup {deps[i].src : i \in {j \in DOMAIN deps : deps[j].tgt \in up[n - 1]}}
    IN \E i \in DOMAIN deps : deps[i].tgt \in up[Len(deps)] /\ deps[i].src[2] = tgt[2]

SetStatus(ds, i, s) == [ds EXCEPT ![i].status = s]

\* Mutant of Consumed: a completed dependency is never resolved.
ConsumedNever == deps

\* The dependencies once the item in hand ran to the source of a completed one.
Consumed == IF item.dep # Nil /\ deps[item.dep].status = "completed"
            THEN SetStatus(deps, item.dep, "resolved") ELSE deps

\* Once it could not be analysed.
Spoiled == IF item.dep # Nil THEN SetStatus(deps, item.dep, "failed") ELSE deps

Depends(ds, src, tgt) == \E i \in DOMAIN ds : ds[i].src = src /\ ds[i].tgt = tgt
Added(ds, src, tgt) ==
    IF Depends(ds, src, tgt) THEN ds
    ELSE Append(ds, [src |-> src, tgt |-> tgt, status |-> "ready"])

\* A dependency of src on each of us, in the order of their modules.
Seeded(ds, src, us) ==
    LET seed[m \in 0 .. NModules] ==
            IF m = 0 THEN ds
            ELSE IF <<src[1], m>> \in us THEN Added(seed[m - 1], src, <<src[1], m>>)
            ELSE seed[m - 1]
    IN seed[NModules]

-----------------------------------------------------------------------------
\* The main loop, between work items.

Turn == pc = "pass" /\ todo = {}
AnyDelayed == \E t \in Tasks : analysis[t] = "delayed"

\* No delayed analysis is outstanding.
FinalAllowed == ~AnyDelayed

\* Mutant of Everything: only what the root was created with.
EverythingGiven == Given

\* root.all, as far as it can be analysed.
Everything == known

\* Nothing left to do and nothing delayed: everything is placed back on the stack.
EnterFinal ==
    /\ Turn /\ work = <<>> /\ Active = {} /\ ~final /\ FinalAllowed
    /\ final' = TRUE
    /\ LET s == Pushed(<<>>, tracker, Everything) IN work' = s.work /\ tracker' = s.tracker
    /\ UNCHANGED <<waits, known, analysis, pc, request, first, item, todo, buffer, deps,
                   loaded, pending, posted, ran, seen, delays>>

\* The pass is over; what it kept in memory goes, and post-analysis runs unless
\* analysis is delayed.
LeavePass ==
    /\ pc' = "idle" /\ final' = FALSE /\ item' = NoItem /\ todo' = {}
    /\ work' = <<>> /\ tracker' = {} /\ buffer' = <<>>
    /\ posted' = (posted \/ ~AnyDelayed)
    /\ UNCHANGED <<waits, known, analysis, request, first, deps, loaded, pending, ran, delays>>

EndPass ==
    /\ Turn /\ work = <<>> /\ Active = {}
    /\ final \/ ~FinalAllowed
    /\ LeavePass
    /\ UNCHANGED seen

\* The request of a delayed pass comes first.
TakeRequest ==
    /\ Turn /\ request # <<>> /\ first
    /\ first' = FALSE
    /\ item' = Head(work) /\ todo' = {Head(work).mod}
    /\ work' = Tail(work) /\ tracker' = tracker \ {Head(work).obs}
    /\ UNCHANGED <<waits, known, analysis, pc, final, request, buffer, deps, loaded, pending,
                   posted, ran, seen, delays>>

\* Run the target of the first active dependency, or its source again.
TakeDependency ==
    /\ Turn /\ ~(request # <<>> /\ first) /\ Active # {}
    /\ LET d == FirstActive
           owed == deps[d].status = "ready" /\ analysis[deps[d].tgt] = "none"
           t == IF owed THEN deps[d].tgt ELSE deps[d].src
       IN /\ item' = [obs |-> t[1], mod |-> t[2], dep |-> d]
          /\ todo' = {t[2]}
          /\ deps' = IF ~owed /\ deps[d].status = "ready"
                     THEN SetStatus(deps, d, "completed") ELSE deps
    /\ UNCHANGED <<waits, known, analysis, pc, final, request, first, workVars, loaded, pending,
                   posted, ran, seen, delays>>

\* Mutant of Outstanding: a dependency that was resolved counts as well.
OutstandingEver(o) == \E i \in DOMAIN deps : deps[i].tgt[1] = o /\ ~Failed(i)

\* A dependency on the observable that is neither resolved nor failed.
Outstanding(o) == \E i \in DOMAIN deps :
    deps[i].tgt[1] = o /\ deps[i].status # "resolved" /\ ~Failed(i)

\* Pop the stack; an item whose observable somebody waits for is dropped.
PopItem ==
    /\ Turn /\ ~(request # <<>> /\ first) /\ Active = {} /\ work # <<>>
    /\ LET i == Head(work) IN
          /\ work' = Tail(work) /\ tracker' = tracker \ {i.obs}
          /\ IF Outstanding(i.obs)
             THEN UNCHANGED <<item, todo>>
             ELSE item' = i /\ todo' = IF i.mod = Nil THEN Modules ELSE {i.mod}
    /\ UNCHANGED <<waits, known, analysis, pc, final, request, first, buffer, deps, loaded,
                   pending, posted, ran, seen, delays>>

-----------------------------------------------------------------------------
\* One module of the item in hand.

Module == Min(todo)
Task == <<item.obs, Module>>

Trying == pc = "pass" /\ todo # {}

\* is_resuming_delayed_module looks at the module of the item only.
Resuming == request # <<>> /\ item.mod = request[2]

Accepted(t) == t \in Accepts /\ analysis[t] \notin {"absent", "completed"}

DeclaredUnmet(t) == {u \in {<<t[1], m>> : m \in Declared[t[2]]} : Accepted(u) /\ Unmet(u)}

\* The module is not run at all, and what is on the buffer stays there.
Skip(ds, w) ==
    /\ todo' = todo \ {Module}
    /\ deps' = ds /\ work' = w
    /\ UNCHANGED <<waits, known, analysis, pc, final, request, first, item, tracker, buffer,
                   loaded, pending, posted, ran, delays>>

\* A module does b.
Saw(b) ==
    /\ b \in Behaviours
    /\ seen' = seen \cup {b}
    /\ Cardinality(seen \cup {b}) <= MaxKinds

Refuse ==
    /\ Trying /\ ~Accepted(Task)
    /\ Skip(Spoiled, work)
    /\ UNCHANGED seen

\* Delayed here: the request will resume it.
LeaveDelayed ==
    /\ Trying /\ Accepted(Task) /\ analysis[Task] = "delayed"
    /\ Skip(deps, work)
    /\ UNCHANGED seen

Ready(t) == Trying /\ Accepted(t) /\ analysis[t] # "delayed"

\* An exception nobody catches ends the pass and abandons the delayed requests.
Abort ==
    /\ pc' = "aborted" /\ pending' = {} /\ todo' = {}
    /\ UNCHANGED <<waits, known, analysis, final, request, first, item, workVars, deps, loaded,
                   posted, ran, delays>>

\* _seed_declared_dependencies adds the missing dependencies and defers the module.
Defer ==
    /\ Ready(Task) /\ DeclaredUnmet(Task) # {}
    /\ IF \E u \in DeclaredUnmet(Task) : ~Depends(deps, Task, u) /\ Circular(Task, u)
       THEN Abort
       ELSE Skip(Seeded(Consumed, Task, DeclaredUnmet(Task)), work)
    /\ UNCHANGED seen

\* The source of the dependency in hand goes to the head of the stack.
Requeued == <<Only(deps[item.dep].src)>> \o work

ForReady == item.dep # Nil /\ deps[item.dep].status = "ready"

\* custom_requirement is false: no result is recorded, but a dependency fails.
NotRequired ==
    /\ Ready(Task) /\ DeclaredUnmet(Task) = {}
    /\ IF ForReady THEN Skip(Spoiled, Requeued) ELSE Skip(Consumed, work)
    /\ Saw("unmet")

\* _process_generated_analysis: the dependency and the stack once the module left a.
AfterModule(a) ==
    IF ~ForReady THEN [ds |-> Consumed, w |-> work]
    ELSE IF a \in {"none", "absent"} THEN [ds |-> Spoiled, w |-> Requeued]
    ELSE IF a = "delayed" THEN [ds |-> deps, w |-> work]
    ELSE [ds |-> SetStatus(deps, item.dep, "completed"), w |-> Requeued]

\* What the listeners put on the buffer: the observable when analysis was added to
\* it, then the observables the module added or changed.
Events(t, a, found) ==
    (IF analysis[t] = "none" /\ a \notin {"none", "absent"} THEN <<t[1]>> ELSE <<>>)
        \o SetToSeq(found)

Discovered(found) == known \o SetToSeq(found \ ToSet(known))

\* Analysis objects on the buffer are not queued, but they end final analysis too.
Stirred(t, a, found) ==
    \/ buffer \o Events(t, a, found) # <<>>
    \/ a = "completed" /\ analysis[t] # "completed"

\* The buffer is emptied onto the stack w.
Flush(w, os, stirred) ==
    LET s == Pushed(w, tracker, os)
    IN /\ work' = s.work /\ tracker' = s.tracker /\ buffer' = <<>>
       /\ final' = (final /\ ~stirred)

\* The module ran and left a for its observable.
Leave(t, a, found) ==
    /\ todo' = todo \ {Module}
    /\ analysis' = [analysis EXCEPT ![t] = a]
    /\ known' = Discovered(found)
    /\ LET after == AfterModule(a) IN
          /\ deps' = after.ds
          /\ Flush(after.w, buffer \o Events(t, a, found), Stirred(t, a, found))
    /\ UNCHANGED <<waits, pc, request, first, item, loaded, posted>>

\* A module adds or changes finitely many observables.
Found == IF "find" \in Behaviours THEN {S \in SUBSET Observables : IsFiniteSet(S)} ELSE {{}}

\* A module waits for analysis of observables it can see.
Awaited(t) == {u \in waits[t] : u[1] \in ToSet(known)}

\* execute_analysis gets to the end only when it does not wait for anything; a resumed
\* module continues the analysis it has.
Runs(t) ==
    /\ Ready(t) /\ DeclaredUnmet(t) = {} /\ ~final
    /\ (Resuming /\ analysis[t] = "partial") \/ \A u \in Awaited(t) : ~Unmet(u)

\* Analysis is created, or was there, and is complete.
Complete ==
    /\ Runs(Task)
    /\ \E found \in Found : Leave(Task, "completed", found)
    /\ ran' = ran \cup {Task}
    /\ UNCHANGED <<pending, delays, seen>>

\* The module returns without having created analysis.
FindNothing ==
    /\ Runs(Task) /\ analysis[Task] = "none"
    /\ Saw("nothing") /\ Leave(Task, "absent", {})
    /\ ran' = ran \cup {Task}
    /\ UNCHANGED <<pending, delays>>

\* INCOMPLETE: a module with a second phase left the analysis open.
LeaveOpen ==
    /\ Runs(Task)
    /\ Saw("partial") /\ Leave(Task, "partial", {})
    /\ ran' = ran \cup {Task}
    /\ UNCHANGED <<pending, delays>>

\* delay_analysis: a request is stored and the analysis is marked delayed.
Delay ==
    /\ delays < MaxDelays
    /\ Runs(Task)
    /\ Saw("delay") /\ \E found \in Found : Leave(Task, "delayed", found)
    /\ pending' = pending \cup {Task}
    /\ delays' = delays + 1
    /\ UNCHANGED ran

\* The module raises: its dependency fails, and nothing is recorded for the task.
Raise ==
    /\ Ready(Task) /\ DeclaredUnmet(Task) = {}
    /\ todo' = todo \ {Module}
    /\ deps' = Spoiled
    /\ Flush(work, buffer, buffer # <<>>)
    /\ UNCHANGED <<waits, known, analysis, pc, request, first, item, loaded, pending, posted,
                   ran, delays>>
    /\ Saw("error")

\* wait_for_analysis raised: the dependency is added and another module has its turn.
Wait ==
    /\ Ready(Task) /\ DeclaredUnmet(Task) = {} /\ ~final
    /\ ~(Resuming /\ analysis[Task] = "partial")
    /\ \E u \in {v \in Awaited(Task) : Unmet(v)} :
          IF ~Depends(deps, Task, u) /\ Circular(Task, u)
          THEN Abort
          ELSE /\ deps' = Added(Consumed, Task, u)
               /\ todo' = todo \ {Module}
               /\ Flush(work, buffer, buffer # <<>>)
               /\ UNCHANGED <<waits, known, analysis, pc, request, first, item, loaded, pending,
                              posted, ran, delays>>
    /\ UNCHANGED seen

\* execute_final_analysis: nothing by default, which closes what was open and
\* records that a module never reached found nothing.
Finalise ==
    /\ Ready(Task) /\ DeclaredUnmet(Task) = {} /\ final
    /\ Leave(Task, IF analysis[Task] = "none" THEN "absent" ELSE "completed", {})
    /\ UNCHANGED <<pending, delays, ran, seen>>

\* A cached result is replayed; the buffer is not flushed.
Replay ==
    /\ Ready(Task) /\ DeclaredUnmet(Task) = {} /\ ~Resuming
    /\ todo' = todo \ {Module}
    /\ analysis' = [analysis EXCEPT ![Task] = "completed"]
    /\ \E found \in Found :
          /\ known' = Discovered(found)
          /\ buffer' = buffer \o Events(Task, "completed", found)
    /\ LET after == AfterModule("completed") IN deps' = after.ds /\ work' = after.w
    /\ ran' = ran \cup {Task}
    /\ UNCHANGED <<waits, pc, final, request, first, item, tracker, loaded, pending, posted,
                   delays>>
    /\ Saw("hit")

\* The alert was dispositioned, the module cancelled, or the observable is whitelisted.
Cancel ==
    /\ Trying
    /\ LeavePass
    /\ Saw("stop")

-----------------------------------------------------------------------------
\* Mutant of Others: clearing one delayed request clears those of all modules.
OthersNone(t) == {}

\* The requests left when the one for t is claimed.
Others(t) == pending \ {t}

\* The next pass: a worker claims a delayed analysis request of the root, which
\* was saved and is loaded again.
Resume(t) ==
    /\ pc = "idle" /\ t \in pending
    /\ pc' = "pass" /\ request' = t /\ first' = TRUE
    /\ pending' = Others(t)
    /\ analysis' = [analysis EXCEPT ![t] = IF @ = "delayed" THEN "partial" ELSE @]
    /\ work' = <<Only(t)>>
    /\ loaded' = Len(deps)
    /\ UNCHANGED <<waits, known, final, item, todo, tracker, buffer, deps, posted, ran, seen,
                   delays>>

Loop == EnterFinal \/ EndPass \/ TakeRequest \/ TakeDependency \/ PopItem

RunModule ==
    \/ Refuse \/ LeaveDelayed \/ Defer \/ NotRequired
    \/ Complete \/ FindNothing \/ LeaveOpen \/ Delay \/ Raise \/ Wait \/ Finalise \/ Replay

Next == Loop \/ RunModule \/ Cancel \/ \E t \in Tasks : Resume(t)

Spec == Init /\ [][Next]_vars

\* The worker goes on with its pass, and delayed requests are claimed when due.
FairSpec == Spec /\ WF_vars(Loop \/ RunModule) /\ WF_vars(\E t \in Tasks : Resume(t))

-----------------------------------------------------------------------------
Executes == Complete \/ FindNothing \/ LeaveOpen \/ Delay
Settled(t) == analysis[t] \in {"absent", "completed"}
Wanted == {t \in Accepts : t[1] \in ToSet(known)}

\* Post-analysis ran, and modules did nothing but complete, find observables and B.
Over(B) == posted /\ pc = "idle" /\ seen \subseteq B

\* No task waits for the analysis of another observable.
Local == \A t \in Tasks : \A u \in waits[t] : u[1] = t[1]

\* Nothing that a task waits for, or declares, waits or declares anything itself.
Needs(t) == waits[t] \cup {<<t[1], m>> : m \in Declared[t[2]]}
Flat == \A t \in Tasks : \A u \in Needs(t) : Needs(u) = {}

\* Delayed analysis always has a request that will resume it: no sequence of passes
\* leaves an analysis marked delayed that nobody comes back to (delay_analysis stores
\* the request, the load for the request clears the mark).  Only an exception that
\* ends the pass, which clears the requests, abandons it.
DelayedResumed == pc # "aborted" => \A t \in Tasks : analysis[t] = "delayed" => t \in pending

\* When the analysis of a root ends, every module has left a verdict on every
\* observable it accepts, those other modules added included: analysis is complete
\* or known to be absent, whatever waited, was left open or was delayed.  (Final
\* analysis mode is what has to see to the rest.)
AllSettled == Over({"nothing", "partial", "delay"}) => \A t \in Wanted : Settled(t)

\* And execute_analysis itself came to its end for each of them: a task is not only
\* finalised because the item for it was lost among the stack, the dependencies and
\* the passes.  With delays this takes waits within an observable, see NothingDropped;
\* and where the last of a chain of waits finds nothing the first is never run again.
Thorough ==
    /\ Over({"nothing", "partial", "delay"})
    /\ ("delay" \in seen => Local) /\ ("nothing" \in seen => Flat)
    => Wanted \subseteq ran

\* executor.py:832-833: a popped item whose observable is awaited may be dropped,
\* because get_completed_dependency_work_item takes care of it.
NothingDropped == Over({"delay"}) => Wanted \subseteq ran

\* A module runs to its end only over what it asked for: each analysis it waits for
\* is complete or absent by then, or the dependency on it failed, however many
\* passes and other dependencies came between.
WaitsHonoured ==
    [][Executes /\ ~(Resuming /\ analysis[Task] = "partial")
                /\ seen \cap {"partial", "error", "unmet", "stop"} = {}
       => \A u \in Awaited(Task) :
             Settled(u) \/ \E i \in DOMAIN deps : deps[i].tgt = u /\ Failed(i)]_vars

\* The analysis of a root ends: passes end, and so do the delayed requests that
\* call for another pass; waiting modules do not send each other round for ever.
Ends == <>[](pc # "pass" /\ pending = {})
=============================================================================
