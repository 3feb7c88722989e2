----------------------------- MODULE MCExecutor -----------------------------
(***************************************************************************)
(* Small instances of Executor.                                            *)
(***************************************************************************)
EXTENDS Executor

\* The root starts with the first observable.
OneGiven == <<"o1">>
TwoGiven == <<"o1", "o2">>

AllTasks == Tasks

Acyclic(g) == \A S \in SUBSET Tasks \ {{}} : \E t \in S : g[t] \cap S = {}
AnyWaits == {g \in [Tasks -> SUBSET Tasks] : Acyclic(g)}

\* No task that is waited for, or that somebody declares, waits itself.
Needed(g, t) == g[t] \cup {<<t[1], m>> : m \in Declared[t[2]]}
FlatWaits == {g \in AnyWaits : \A t \in Tasks : \A u \in Needed(g, t) : Needed(g, u) = {}}

\* Nobody waits; the first module of one observable waits for the second module of
\* the other; or a second module waits for the first one, which depends on it.
Waiting(t, u) == [s \in Tasks |-> IF s = t THEN {u} ELSE {}]
CrossWaits == {[t \in Tasks |-> {}], Waiting(<<"o1", 1>>, <<"o2", 2>>),
               Waiting(<<"o2", 1>>, <<"o1", 2>>), Waiting(<<"o1", 2>>, <<"o1", 1>>)}

\* The first module declares that it depends on the second.
FirstNeedsSecond == [m \in Modules |-> IF m = 1 THEN {2} ELSE {}]

NoWaits == {[t \in Tasks |-> {}]}
NoDeclared == [m \in Modules |-> {}]
=============================================================================
