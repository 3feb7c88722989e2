--------------------------- MODULE ExecutorProofs ---------------------------
(***************************************************************************)
(* Proofs about the analysis executor, for any observables, modules, waits *)
(* and behaviours of the modules: delayed analysis is resumed; the         *)
(* analysis of a root ends with everything settled and, where nothing      *)
(* waited for waits itself, with every task executed; and a module runs to *)
(* its end only over what it waited for.                                   *)
(*                                                                         *)
(* The module goes from the operators of the model (what WorkStack.append, *)
(* _seed_declared_dependencies and get_active_dependency return) to Base,  *)
(* the invariant about stack, tracker, item in hand and dependencies that  *)
(* all four rest on, and then to one invariant for each property.          *)
(***************************************************************************)
EXTENDS Executor, TLAPS, WellFoundedInduction, FiniteSetTheorems

-----------------------------------------------------------------------------
\* Numbers, and functions defined by recursion on them.

LEMMA LeastNat == ASSUME NEW T, T \subseteq Nat, T # {} PROVE \E x \in T : \A y \in T : x <= y
<1> DEFINE R == OpToRel(<, Nat)
<1>1. IsWellFoundedOn(R, Nat)
    BY NatLessThanWellFounded
<1> HIDE DEF R
<1>2. PICK x \in T : \A y \in T : ~ (<<y, x>> \in R)
    BY <1>1, WFMin, Zenon
<1>3. ASSUME NEW y \in T PROVE x <= y
    <2>1. x \in Nat /\ y \in Nat /\ ~ (<<y, x>> \in R)
        BY <1>2
    <2>2. ~ (y < x)
        BY <2>1 DEF R, OpToRel
    <2> QED
        BY <2>1, <2>2
<1> QED
    BY <1>3

LEMMA MinIn == ASSUME NEW T, T \subseteq Nat, T # {} PROVE Min(T) \in T /\ \A y \in T : Min(T) <= y
<1>1. \E x \in T : \A y \in T : x <= y
    BY LeastNat
<1> QED
    BY <1>1 DEF Min

LEMMA SetInduction ==
    ASSUME NEW T, 0 \in T, \A n \in Nat : n \in T => n + 1 \in T
    PROVE  Nat \subseteq T
<1> SUFFICES ASSUME Nat \ T # {} PROVE FALSE
    OBVIOUS
<1>1. PICK x \in Nat \ T : \A y \in Nat \ T : x <= y
    BY LeastNat
<1>2. x # 0 /\ x - 1 \in Nat
    BY <1>1
<1>3. x - 1 \in T
    BY <1>1, <1>2
<1> QED
    BY <1>1, <1>2, <1>3

\* A run of step from base: f[0] is base, and f[n] what step[n] makes of f[n - 1].
IsRun(f, D, N, base, step) ==
    /\ f \in [0 .. N -> D] /\ f[0] = base
    /\ \A n \in 1 .. N : f[n] = step[n][f[n - 1]]

LEMMA Recursion ==
    ASSUME NEW D, NEW base \in D, NEW N \in Nat, NEW step \in [1 .. N -> [D -> D]]
    PROVE  \E f : IsRun(f, D, N, base, step)
<1> DEFINE T == {k \in Nat : k <= N => \E f : IsRun(f, D, k, base, step)}
<1>1. 0 \in T
    <2>1. IsRun([n \in 0 .. 0 |-> base], D, 0, base, step)
        BY DEF IsRun
    <2> QED
        BY <2>1
<1>2. ASSUME NEW k \in Nat, k \in T PROVE k + 1 \in T
    <2> SUFFICES ASSUME k + 1 <= N PROVE \E f : IsRun(f, D, k + 1, base, step)
        OBVIOUS
    <2>1. PICK f : IsRun(f, D, k, base, step)
        BY <1>2
    <2> DEFINE g == [n \in 0 .. k + 1 |-> IF n = k + 1 THEN step[k + 1][f[k]] ELSE f[n]]
    <2>2. g \in [0 .. k + 1 -> D]
        BY <2>1 DEF IsRun
    <2>3. IsRun(g, D, k + 1, base, step)
        BY <2>1, <2>2 DEF IsRun
    <2> QED
        BY <2>3
<1>3. N \in T
    BY <1>1, <1>2, SetInduction
<1> QED
    BY <1>3
StackItem == [obs : Observables, mod : Modules \cup {Nil}, dep : {Nil}]

\* What Pushed returns: w comes first and plain entries of os follow, every observable is
\* tracked, and every tracked one was tracked before or has a plain entry.
Fits(s, w, tr, os, n) ==
    /\ s.work \in Seq(StackItem) /\ s.tracker \subseteq Observables
    /\ Len(w) <= Len(s.work) /\ \A k \in 1 .. Len(w) : s.work[k] = w[k]
    /\ \A k \in 1 .. Len(s.work) : k > Len(w) => \E m \in 1 .. n : s.work[k] = Plain(os[m])
    /\ \A k \in 1 .. n : os[k] \in s.tracker
    /\ \A o \in s.tracker : o \in tr \/ \E k \in DOMAIN s.work : s.work[k] = Plain(o)

LEMMA PushedFits ==
    ASSUME NEW w \in Seq(StackItem), NEW tr \in SUBSET Observables, NEW os \in Seq(Observables)
    PROVE  Fits(Pushed(w, tr, os), w, tr, os, Len(os))
<1> DEFINE N == Len(os)
           D == [work : Seq(StackItem), tracker : SUBSET Observables]
           base == [work |-> w, tracker |-> tr]
           next(acc, o) == IF o \in acc.tracker THEN acc
                           ELSE [work    |-> Append(acc.work, Plain(o)),
                                 tracker |-> acc.tracker \cup {o}]
           step == [n \in 1 .. N |-> [acc \in D |-> next(acc, os[n])]]
           Rec(f) == f = [n \in 0 .. N |-> IF n = 0 THEN base
                                           ELSE IF os[n] \in f[n - 1].tracker THEN f[n - 1]
                                           ELSE [work    |-> Append(f[n - 1].work, Plain(os[n])),
                                                 tracker |-> f[n - 1].tracker \cup {os[n]}]]
           push == CHOOSE f : Rec(f)
<1>1. N \in Nat /\ base \in D /\ \A n \in 1 .. N : os[n] \in Observables
    OBVIOUS
<1>2. ASSUME NEW acc \in D, NEW o \in Observables PROVE next(acc, o) \in D
    <2>1. Plain(o) \in StackItem
        BY DEF Plain, StackItem
    <2> QED
        BY <2>1
<1>3. step \in [1 .. N -> [D -> D]]
    BY <1>1, <1>2
<1>4. \E f : Rec(f)
    <2>1. PICK f : IsRun(f, D, N, base, step)
        <3> HIDE DEF step, D, base, N
        <3> QED
            BY <1>1, <1>3, Recursion
    <2>2. \A n \in 1 .. N : f[n] = next(f[n - 1], os[n])
        <3> TAKE n \in 1 .. N
        <3>1. n - 1 \in 0 .. N
            BY <1>1
        <3>2. f[n - 1] \in D
            <4> HIDE DEF D, N, base, step
            <4> QED
                BY <2>1, <3>1 DEF IsRun
        <3>3. f[n] = step[n][f[n - 1]]
            BY <2>1 DEF IsRun
        <3>4. step[n][f[n - 1]] = next(f[n - 1], os[n])
            <4> HIDE DEF D, N, next
            <4> QED
                BY <3>2
        <3> QED
            BY <3>3, <3>4
    <2>3. Rec(f)
        <3>1. f = [n \in 0 .. N |-> f[n]] /\ f[0] = base
            BY <2>1 DEF IsRun
        <3>2. \A n \in 0 .. N : n = 0 \/ n \in 1 .. N
            BY <1>1
        <3> QED
            BY <2>2, <3>1, <3>2
    <2> QED
        BY <2>3
<1>5. Rec(push)
    <2> HIDE DEF Rec
    <2> QED
        BY <1>4
<1>6. push[0] = base /\ \A n \in 1 .. N : push[n] = next(push[n - 1], os[n])
    <2> HIDE DEF push
    <2>1. push[0] = base
        BY <1>1, <1>5
    <2>2. ASSUME NEW n \in 1 .. N PROVE push[n] = next(push[n - 1], os[n])
        <3>1. n \in 0 .. N /\ n # 0
            BY <1>1
        <3> HIDE DEF N
        <3> QED
            BY <1>5, <3>1
    <2> QED
        BY <2>1, <2>2
<1>7. Pushed(w, tr, os) = push[N]
    BY DEF Pushed
<1> HIDE DEF push
<1> DEFINE T == {n \in Nat : n <= N => Fits(push[n], w, tr, os, n)}
<1>8. 0 \in T
    <2>1. Fits(base, w, tr, os, 0)
        BY DEF Fits
    <2> QED
        BY <1>6, <2>1
<1>9. ASSUME NEW n \in Nat, n \in T PROVE n + 1 \in T
    <2> SUFFICES ASSUME n + 1 <= N PROVE Fits(push[n + 1], w, tr, os, n + 1)
        OBVIOUS
    <2> DEFINE acc == push[n]
               o == os[n + 1]
    <2>1. Fits(acc, w, tr, os, n)
        BY <1>1, <1>9
    <2>2. push[n + 1] = next(acc, o) /\ o \in Observables
        <3>1. n + 1 \in 1 .. N /\ (n + 1) - 1 = n
            BY <1>1
        <3> HIDE DEF N, next
        <3> QED
            BY <1>1, <1>6, <3>1
    <2> HIDE DEF acc, o
    <2>3. CASE o \in acc.tracker
        <3>1. push[n + 1] = acc
            BY <2>2, <2>3
        <3>2. \A m \in 1 .. n : m \in 1 .. n + 1
            OBVIOUS
        <3> QED
            BY <2>1, <2>3, <3>1, <3>2 DEF Fits, o
    <2>4. CASE o \notin acc.tracker
        <3> DEFINE s == [work    |-> Append(acc.work, Plain(o)), tracker |-> acc.tracker \cup {o}]
        <3>1. push[n + 1] = s
            BY <2>2, <2>4
        <3>2. Plain(o) \in StackItem
            BY <2>2 DEF Plain, StackItem
        <3>3. acc.work \in Seq(StackItem) /\ acc.tracker \subseteq Observables
            BY <2>1 DEF Fits
        <3>4. /\ s.work \in Seq(StackItem) /\ s.tracker \subseteq Observables
              /\ Len(s.work) = Len(acc.work) + 1 /\ s.work[Len(acc.work) + 1] = Plain(o)
              /\ \A k \in 1 .. Len(acc.work) : s.work[k] = acc.work[k]
            BY <2>2, <3>2, <3>3
        <3> HIDE DEF s
        <3>5. Len(w) <= Len(s.work) /\ \A k \in 1 .. Len(w) : s.work[k] = w[k]
            <4> HIDE DEF acc
            <4>1. w \in Seq(StackItem) /\ Len(w) \in Nat /\ Len(acc.work) \in Nat
                BY <3>3
            <4>2. Len(w) <= Len(acc.work) /\ \A k \in 1 .. Len(w) : acc.work[k] = w[k]
                BY <2>1 DEF Fits
            <4>3. \A k \in 1 .. Len(w) : k \in 1 .. Len(acc.work)
                BY <4>1, <4>2
            <4> QED
                BY <3>4, <4>1, <4>2, <4>3
        <3>6. \A k \in 1 .. n + 1 : os[k] \in s.tracker
            BY <2>1 DEF Fits, s, o
        <3>7. ASSUME NEW p \in s.tracker, p \notin tr
              PROVE  \E k \in DOMAIN s.work : s.work[k] = Plain(p)
            <4>1. CASE p = o
                BY <3>3, <3>4, <4>1
            <4>2. CASE p # o
                <5>1. PICK k \in DOMAIN acc.work : acc.work[k] = Plain(p)
                    BY <2>1, <3>7, <4>2 DEF Fits, s
                <5> QED
                    BY <3>3, <3>4, <5>1
            <4> QED
                BY <4>1, <4>2
        <3>8. ASSUME NEW k \in 1 .. Len(s.work), k > Len(w)
              PROVE  \E m \in 1 .. n + 1 : s.work[k] = Plain(os[m])
            <4>1. CASE k \in 1 .. Len(acc.work)
                <5>1. PICK m \in 1 .. n : acc.work[k] = Plain(os[m])
                    BY <2>1, <3>8, <4>1 DEF Fits
                <5>2. m \in 1 .. n + 1 /\ s.work[k] = Plain(os[m])
                    BY <3>4, <4>1, <5>1
                <5> QED
                    BY <5>2
            <4>2. CASE k \notin 1 .. Len(acc.work)
                <5>1. k = Len(acc.work) + 1 /\ n + 1 \in 1 .. n + 1
                    BY <3>3, <3>4, <4>2
                <5> QED
                    BY <3>4, <5>1 DEF o
            <4> QED
                BY <4>1, <4>2
        <3> QED
            BY <3>1, <3>4, <3>5, <3>6, <3>7, <3>8 DEF Fits
    <2> QED
        BY <2>3, <2>4
<1>10. N \in T
    <2> HIDE DEF T
    <2> QED
        BY <1>1, <1>8, <1>9, SetInduction
<1> QED
    BY <1>1, <1>7, <1>10

\* The found observables, listed: a sequence that has each of them once.
LEMMA Listed ==
    ASSUME NEW S, IsFiniteSet(S)
    PROVE  SetToSeq(S) \in Seq(S) /\ ToSet(SetToSeq(S)) = S /\ IsInjective(SetToSeq(S))
<1>1. Cardinality(S) \in Nat /\ ExistsBijection(1 .. Cardinality(S), S)
    BY FS_CardinalityType
<1>2. \E f \in [1 .. Cardinality(S) -> S] : IsInjective(f)
    BY <1>1 DEF ExistsBijection, Bijection, Injection
<1>3. SetToSeq(S) \in [1 .. Cardinality(S) -> S] /\ IsInjective(SetToSeq(S))
    BY <1>2 DEF SetToSeq
<1>4. SetToSeq(S) \in Surjection(1 .. Cardinality(S), S)
    <2>1. SetToSeq(S) \in Injection(1 .. Cardinality(S), S)
        BY <1>3 DEF Injection
    <2>2. IsFiniteSet(1 .. Cardinality(S)) /\ Cardinality(1 .. Cardinality(S)) = Cardinality(S)
        BY <1>1, FS_Interval
    <2> QED
        BY <2>1, <2>2, FS_Injection
<1>5. ToSet(SetToSeq(S)) = S
    BY <1>3, <1>4 DEF ToSet, Surjection
<1> QED
    BY <1>1, <1>3, <1>5

Dependency == [src : Tasks, tgt : Tasks, status : {"ready", "completed", "resolved", "failed"}]

\* What Seeded returns: the dependencies there were come first, and the others are ready.
Grown(ds, old) ==
    /\ ds \in Seq(Dependency)
    /\ Len(old) <= Len(ds) /\ \A k \in 1 .. Len(old) : ds[k] = old[k]
    /\ \A k \in 1 .. Len(ds) : k > Len(old) => ds[k].status = "ready"

LEMMA AddedGrows ==
    ASSUME NEW old \in Seq(Dependency), NEW ds, Grown(ds, old), NEW src \in Tasks, NEW tgt \in Tasks
    PROVE  Grown(Added(ds, src, tgt), old)
<1> DEFINE d == [src |-> src, tgt |-> tgt, status |-> "ready"]
<1>1. CASE Depends(ds, src, tgt)
    BY <1>1 DEF Added
<1>2. CASE ~Depends(ds, src, tgt)
    <2>1. Added(ds, src, tgt) = Append(ds, d)
        BY <1>2 DEF Added
    <2>2. d \in Dependency /\ d.status = "ready"
        BY DEF Dependency
    <2> HIDE DEF d
    <2>3. ds \in Seq(Dependency) /\ Len(old) \in Nat /\ Len(ds) \in Nat
        BY DEF Grown
    <2>4. /\ Append(ds, d) \in Seq(Dependency)
          /\ Len(Append(ds, d)) = Len(ds) + 1
          /\ Append(ds, d)[Len(ds) + 1] = d
          /\ \A k \in 1 .. Len(ds) : Append(ds, d)[k] = ds[k]
        BY <2>2, <2>3
    <2> QED
        BY <2>1, <2>2, <2>3, <2>4 DEF Grown
<1> QED
    BY <1>1, <1>2

LEMMA SeededGrows ==
    ASSUME NEW old \in Seq(Dependency), NEW src \in Tasks, NEW us
    PROVE  Grown(Seeded(old, src, us), old)
<1> DEFINE D == {ds \in Seq(Dependency) : Grown(ds, old)}
           next(ds, m) == IF <<src[1], m>> \in us THEN Added(ds, src, <<src[1], m>>) ELSE ds
           step == [m \in 1 .. NModules |-> [ds \in D |-> next(ds, m)]]
           Rec(f) == f = [m \in 0 .. NModules |->
                            IF m = 0 THEN old
                            ELSE IF <<src[1], m>> \in us THEN Added(f[m - 1], src, <<src[1], m>>)
                            ELSE f[m - 1]]
           seed == CHOOSE f : Rec(f)
<1>1. NModules \in Nat /\ old \in D
    BY ExecutorAssumption DEF Grown
<1>2. ASSUME NEW ds \in D, NEW m \in 1 .. NModules PROVE next(ds, m) \in D
    <2>1. <<src[1], m>> \in Tasks
        BY DEF Tasks, Modules
    <2>2. CASE <<src[1], m>> \in us
        <3>1. Grown(Added(ds, src, <<src[1], m>>), old)
            BY <2>1, AddedGrows
        <3> QED
            BY <2>2, <3>1 DEF Grown
    <2> QED
        BY <2>2
<1>3. step \in [1 .. NModules -> [D -> D]]
    BY <1>2
<1>4. \E f : Rec(f) /\ f \in [0 .. NModules -> D]
    <2>1. PICK f : IsRun(f, D, NModules, old, step)
        <3> HIDE DEF step, D
        <3> QED
            BY <1>1, <1>3, Recursion
    <2>2. ASSUME NEW m \in 1 .. NModules PROVE f[m] = next(f[m - 1], m)
        <3>1. m - 1 \in 0 .. NModules
            BY <1>1
        <3>2. f[m - 1] \in D
            <4> HIDE DEF D, step
            <4> QED
                BY <2>1, <3>1 DEF IsRun
        <3>3. f[m] = step[m][f[m - 1]]
            BY <2>1 DEF IsRun
        <3>4. step[m][f[m - 1]] = next(f[m - 1], m)
            <4> HIDE DEF D, next
            <4> QED
                BY <3>2
        <3> QED
            BY <3>3, <3>4
    <2>3. f \in [0 .. NModules -> D] /\ f = [m \in 0 .. NModules |-> f[m]] /\ f[0] = old
        <3> HIDE DEF D, step
        <3> QED
            BY <2>1 DEF IsRun
    <2>4. Rec(f)
        <3>1. \A m \in 0 .. NModules : m = 0 \/ m \in 1 .. NModules
            BY <1>1
        <3> HIDE DEF D
        <3> QED
            BY <2>2, <2>3, <3>1
    <2> QED
        BY <2>3, <2>4
<1>5. Rec(seed)
    <2> HIDE DEF Rec
    <2> QED
        BY <1>4
<1>6. Seeded(old, src, us) = seed[NModules]
    BY DEF Seeded
<1> DEFINE T == {m \in Nat : m <= NModules => seed[m] \in D}
<1>7. 0 \in T
    <2>1. seed[0] = old
        <3> HIDE DEF seed
        <3> QED
            BY <1>1, <1>5
    <2> HIDE DEF seed
    <2> QED
        BY <1>1, <2>1
<1>8. ASSUME NEW m \in Nat, m \in T PROVE m + 1 \in T
    <2> SUFFICES ASSUME m + 1 <= NModules PROVE seed[m + 1] \in D
        OBVIOUS
    <2>1. m + 1 \in 0 .. NModules /\ m + 1 \in 1 .. NModules /\ m + 1 # 0 /\ (m + 1) - 1 = m
        BY <1>1
    <2>2. seed[m + 1] = next(seed[m], m + 1)
        <3> HIDE DEF seed
        <3> QED
            BY <1>5, <2>1
    <2>3. seed[m] \in D
        BY <1>1, <1>8
    <2> HIDE DEF seed, D, next
    <2> QED
        BY <1>2, <2>1, <2>2, <2>3
<1>9. NModules \in T
    <2> HIDE DEF T
    <2> QED
        BY <1>1, <1>7, <1>8, SetInduction
<1> QED
    BY <1>1, <1>6, <1>9

LEMMA ChainHas ==
    ASSUME NEW i \in DOMAIN deps
    PROVE  i \in Chain(i) /\ Chain(i) \subseteq DOMAIN deps
BY DEF Chain

\* The first of the active dependencies is one of them, and the first by its chain.
LEMMA FirstActiveIn ==
    ASSUME deps \in Seq(Dependency), Active # {}
    PROVE  /\ FirstActive \in Active
           /\ \A j \in Active :
                 \/ Cardinality(Chain(FirstActive)) < Cardinality(Chain(j))
                 \/ Cardinality(Chain(FirstActive)) = Cardinality(Chain(j)) /\ FirstActive <= j
<1>1. Active \subseteq DOMAIN deps /\ DOMAIN deps = 1 .. Len(deps) /\ Len(deps) \in Nat
    BY DEF Active
<1>2. IsFiniteSet(DOMAIN deps)
    BY <1>1, FS_Interval
<1>3. ASSUME NEW j \in Active PROVE Cardinality(Chain(j)) \in Nat
    <2>1. Chain(j) \subseteq DOMAIN deps
        BY <1>1, ChainHas
    <2> QED
        BY <1>2, <2>1, FS_Subset, FS_CardinalityType
<1> DEFINE sizes == {Cardinality(Chain(j)) : j \in Active}
<1>4. PICK c \in sizes : \A d \in sizes : c <= d
    <2>1. sizes \subseteq Nat /\ sizes # {}
        BY <1>3
    <2> HIDE DEF sizes
    <2> QED
        BY <2>1, LeastNat
<1> DEFINE shortest == {j \in Active : Cardinality(Chain(j)) = c}
<1>5. PICK i \in shortest : \A j \in shortest : i <= j
    <2>1. shortest \subseteq Nat /\ shortest # {}
        BY <1>1, <1>4
    <2> HIDE DEF shortest
    <2> QED
        BY <2>1, LeastNat
<1>6. ASSUME NEW j \in Active
      PROVE  \/ Cardinality(Chain(i)) < Cardinality(Chain(j))
             \/ Cardinality(Chain(i)) = Cardinality(Chain(j)) /\ i <= j
    <2>1. c <= Cardinality(Chain(j)) /\ Cardinality(Chain(i)) = c /\ c \in Nat
        BY <1>3, <1>4, <1>5
    <2>2. CASE Cardinality(Chain(j)) = c
        BY <1>5, <2>1, <2>2
    <2> QED
        BY <1>3, <2>1, <2>2
<1> QED
    BY <1>5, <1>6 DEF FirstActive

-----------------------------------------------------------------------------
\* What holds in every state.

Typed ==
    /\ waits \in [Tasks -> SUBSET Accepts]
    /\ known \in Seq(Observables)
    /\ analysis \in [Tasks -> Content]
    /\ pc \in {"pass", "idle", "aborted"}
    /\ final \in BOOLEAN /\ first \in BOOLEAN /\ posted \in BOOLEAN
    /\ request \in Tasks \cup {<<>>}
    /\ work \in Seq(StackItem) /\ tracker \in SUBSET Observables /\ buffer \in Seq(Observables)
    /\ deps \in Seq(Dependency) /\ loaded \in Nat
    /\ pending \in SUBSET Tasks
    /\ todo \in SUBSET Modules
    /\ todo # {} => pc = "pass" /\ item \in Item /\ (item.mod # Nil => todo = {item.mod})

\* An item for a dependency is for one module, and for the target until that is completed.
InHand ==
    todo # {} /\ item.dep # Nil =>
        /\ item.dep \in DOMAIN deps /\ item.mod # Nil
        /\ deps[item.dep].status = "ready" => deps[item.dep].tgt = <<item.obs, item.mod>>

\* A delayed request comes first, before anything else is on the stack.
FirstTurn ==
    pc = "pass" /\ request # <<>> /\ first => todo = {} /\ ~final /\ work = <<Only(request)>>

\* The stack refuses a second plain entry only of what is on it.
OnStack == \A o \in tracker : \E n \in DOMAIN work : work[n] = Plain(o)

\* Only accepted tasks come to hold something, and a request is of a delayed one.
Touched ==
    /\ \A t \in Tasks : analysis[t] # "none" => t \in Accepts
    /\ \A t \in pending : analysis[t] = "delayed"

\* Between two passes nothing is kept in memory.
Between == pc = "idle" => ~final /\ tracker = {}

Base == Typed /\ InHand /\ FirstTurn /\ OnStack /\ Touched /\ Between

-----------------------------------------------------------------------------
\* What a step makes of the stack and of the dependencies.

\* Everything on the stack stays, and the stack tracks only what is on it.
Kept(w, tr) ==
    /\ w \in Seq(StackItem) /\ tr \in SUBSET Observables
    /\ \A n \in DOMAIN work : \E k \in DOMAIN w : w[k] = work[n]
    /\ \A o \in tr : \E k \in DOMAIN w : w[k] = Plain(o)

LEMMA WorkKept == ASSUME Base PROVE Kept(work, tracker)
BY DEF Base, Typed, OnStack, Kept

LEMMA RequeuedKept ==
    ASSUME Base, todo # {}, item.dep # Nil
    PROVE  Kept(Requeued, tracker)
<1> DEFINE s == Only(deps[item.dep].src)
<1>1. item.dep \in DOMAIN deps /\ deps \in Seq(Dependency) /\ work \in Seq(StackItem)
    BY DEF Base, Typed, InHand
<1>2. deps[item.dep].src \in Tasks
    <2>1. deps[item.dep] \in Dependency
        BY <1>1
    <2> QED
        BY <2>1 DEF Dependency
<1>3. s \in StackItem
    BY <1>2 DEF Only, StackItem, Tasks
<1> HIDE DEF s
<1>4. /\ <<s>> \o work \in Seq(StackItem)
      /\ Len(<<s>> \o work) = Len(work) + 1
      /\ \A n \in 1 .. Len(work) : (<<s>> \o work)[n + 1] = work[n]
    BY <1>1, <1>3
<1>5. \A n \in DOMAIN work : \E k \in DOMAIN (<<s>> \o work) : (<<s>> \o work)[k] = work[n]
    <2> TAKE n \in DOMAIN work
    <2>1. n \in 1 .. Len(work) /\ n + 1 \in DOMAIN (<<s>> \o work)
        BY <1>1, <1>4
    <2> QED
        BY <1>4, <2>1
<1>6. Requeued = <<s>> \o work
    BY DEF Requeued, s
<1> QED
    BY <1>4, <1>5, <1>6 DEF Base, Typed, OnStack, Kept

LEMMA FlushKept ==
    ASSUME Base, NEW w, Kept(w, tracker), NEW os \in Seq(Observables), NEW stirred, Flush(w, os, stirred)
    PROVE  Kept(work', tracker') /\ buffer' = <<>> /\ (stirred \in BOOLEAN => final' = (final /\ ~stirred))
<1> DEFINE s == Pushed(w, tracker, os)
<1>1. work' = s.work /\ tracker' = s.tracker /\ buffer' = <<>> /\ final' = (final /\ ~stirred)
    BY DEF Flush
<1>2. w \in Seq(StackItem) /\ tracker \in SUBSET Observables
    BY DEF Kept
<1>3. Fits(s, w, tracker, os, Len(os))
    BY <1>2, PushedFits
<1> HIDE DEF s
<1>4. work' \in Seq(StackItem) /\ tracker' \in SUBSET Observables
    BY <1>1, <1>3 DEF Fits
<1>5. ASSUME NEW k \in DOMAIN w PROVE k \in DOMAIN work' /\ work'[k] = w[k]
    <2>1. k \in 1 .. Len(w) /\ Len(w) <= Len(work') /\ Len(w) \in Nat /\ Len(work') \in Nat
        BY <1>1, <1>2, <1>3, <1>4 DEF Fits
    <2> QED
        BY <1>1, <1>3, <1>4, <2>1 DEF Fits
<1>6. \A n \in DOMAIN work : \E k \in DOMAIN work' : work'[k] = work[n]
    BY <1>5 DEF Kept
<1>7. \A o \in tracker' : \E k \in DOMAIN work' : work'[k] = Plain(o)
    <2> TAKE o \in tracker'
    <2>1. CASE o \in tracker
        BY <1>5, <2>1 DEF Kept
    <2>2. CASE o \notin tracker
        BY <1>1, <1>3, <2>2 DEF Fits
    <2> QED
        BY <2>1, <2>2
<1> QED
    BY <1>1, <1>4, <1>6, <1>7 DEF Kept

\* Dependencies move on: new ones are ready, and done says whether the target of the one
\* in hand was completed.
Moved(ds, done) ==
    /\ ds \in Seq(Dependency) /\ Len(deps) <= Len(ds)
    /\ \A k \in 1 .. Len(ds) :
          IF k <= Len(deps)
          THEN /\ ds[k].tgt = deps[k].tgt
               /\ \/ ds[k].status = deps[k].status
                  \/ ds[k].status = "failed"
                  \/ ds[k].status = "resolved" /\ deps[k].status = "completed"
                  \/ /\ done /\ k = item.dep
                     /\ deps[k].status = "ready" /\ ds[k].status = "completed"
          ELSE ds[k].status = "ready"

LEMMA StatusSet ==
    ASSUME deps \in Seq(Dependency), NEW i \in DOMAIN deps,
           NEW s \in {"ready", "completed", "resolved", "failed"}
    PROVE  /\ SetStatus(deps, i, s) \in Seq(Dependency)
           /\ Len(SetStatus(deps, i, s)) = Len(deps)
           /\ SetStatus(deps, i, s)[i].tgt = deps[i].tgt
           /\ SetStatus(deps, i, s)[i].src = deps[i].src
           /\ SetStatus(deps, i, s)[i].status = s
           /\ \A k \in 1 .. Len(deps) : k # i => SetStatus(deps, i, s)[k] = deps[k]
<1> DEFINE d == [deps[i] EXCEPT !.status = s]
           ds == [deps EXCEPT ![i] = d]
<1>1. SetStatus(deps, i, s) = ds
    BY DEF SetStatus
<1>2. i \in 1 .. Len(deps) /\ deps[i] \in Dependency
    OBVIOUS
<1>3. d \in Dependency /\ d.tgt = deps[i].tgt /\ d.src = deps[i].src /\ d.status = s
    BY <1>2 DEF Dependency
<1> HIDE DEF d
<1>4. /\ ds \in Seq(Dependency) /\ Len(ds) = Len(deps) /\ ds[i] = d
      /\ \A k \in 1 .. Len(deps) : k # i => ds[k] = deps[k]
    BY <1>2, <1>3
<1> QED
    BY <1>1, <1>3, <1>4

LEMMA SetMoves ==
    ASSUME Base, NEW i \in DOMAIN deps, NEW s \in {"completed", "resolved", "failed"}, NEW done,
           \/ s = "failed"
           \/ s = "resolved" /\ deps[i].status = "completed"
           \/ s = "completed" /\ deps[i].status = "ready" /\ done /\ i = item.dep
    PROVE  Moved(SetStatus(deps, i, s), done)
<1> DEFINE ds == SetStatus(deps, i, s)
<1>1. deps \in Seq(Dependency) /\ Len(deps) \in Nat
    BY DEF Base, Typed
<1>2. /\ ds \in Seq(Dependency) /\ Len(ds) = Len(deps)
      /\ ds[i].tgt = deps[i].tgt /\ ds[i].status = s
      /\ \A k \in 1 .. Len(deps) : k # i => ds[k] = deps[k]
    BY <1>1, StatusSet
<1> HIDE DEF ds
<1>3. ASSUME NEW k \in 1 .. Len(ds)
      PROVE  /\ k <= Len(deps) /\ ds[k].tgt = deps[k].tgt
             /\ \/ ds[k].status = deps[k].status
                \/ ds[k].status = "failed"
                \/ ds[k].status = "resolved" /\ deps[k].status = "completed"
                \/ /\ done /\ k = item.dep
                   /\ deps[k].status = "ready" /\ ds[k].status = "completed"
    <2>1. k \in 1 .. Len(deps)
        BY <1>2
    <2>2. CASE k = i
        BY <1>1, <1>2, <2>1, <2>2
    <2>3. CASE k # i
        BY <1>1, <1>2, <2>1, <2>3
    <2> QED
        BY <2>2, <2>3
<1>4. Moved(ds, done)
    BY <1>1, <1>2, <1>3 DEF Moved
<1> QED
    BY <1>4 DEF ds

LEMMA StayMoves == ASSUME Base, NEW done PROVE Moved(deps, done)
BY DEF Base, Typed, Moved

LEMMA ConsumedMoves == ASSUME Base, todo # {} PROVE Moved(Consumed, FALSE)
<1>1. CASE item.dep # Nil /\ deps[item.dep].status = "completed"
    <2>1. item.dep \in DOMAIN deps
        BY <1>1 DEF Base, InHand
    <2> QED
        BY <1>1, <2>1, SetMoves DEF Consumed
<1>2. CASE ~(item.dep # Nil /\ deps[item.dep].status = "completed")
    BY <1>2, StayMoves DEF Consumed
<1> QED
    BY <1>1, <1>2

LEMMA SpoiledMoves == ASSUME Base, todo # {} PROVE Moved(Spoiled, FALSE)
<1>1. CASE item.dep # Nil
    <2>1. item.dep \in DOMAIN deps
        BY <1>1 DEF Base, InHand
    <2> QED
        BY <1>1, <2>1, SetMoves DEF Spoiled
<1>2. CASE ~(item.dep # Nil)
    BY <1>2, StayMoves DEF Spoiled
<1> QED
    BY <1>1, <1>2

LEMMA GrownMoves ==
    ASSUME Base, NEW old, Moved(old, FALSE), NEW ds, Grown(ds, old)
    PROVE  Moved(ds, FALSE)
<1>1. /\ old \in Seq(Dependency) /\ ds \in Seq(Dependency) /\ deps \in Seq(Dependency)
      /\ Len(old) \in Nat /\ Len(ds) \in Nat /\ Len(deps) \in Nat
    BY DEF Base, Typed, Moved, Grown
<1>2. Len(deps) <= Len(old) /\ Len(old) <= Len(ds)
    BY DEF Moved, Grown
<1>3. ASSUME NEW k \in 1 .. Len(ds), k <= Len(deps) PROVE k \in 1 .. Len(old) /\ ds[k] = old[k]
    BY <1>1, <1>2, <1>3 DEF Grown
<1>4. ASSUME NEW k \in 1 .. Len(ds), ~(k <= Len(deps)) PROVE ds[k].status = "ready"
    <2>1. CASE k \in 1 .. Len(old)
        BY <1>1, <1>4, <2>1 DEF Grown, Moved
    <2>2. CASE k \notin 1 .. Len(old)
        BY <1>1, <2>2 DEF Grown
    <2> QED
        BY <2>1, <2>2
<1> QED
    BY <1>1, <1>2, <1>3, <1>4 DEF Moved

\* What the process of a result leaves, depending on whether the target was completed.
LEMMA AfterMoves ==
    ASSUME Base, todo # {}, NEW a
    PROVE  /\ Moved(AfterModule(a).ds, a \notin {"none", "absent", "delayed"})
           /\ Kept(AfterModule(a).w, tracker)
<1>1. CASE ~ForReady
    <2>1. AfterModule(a) = [ds |-> Consumed, w |-> work]
        BY <1>1 DEF AfterModule
    <2>2. AfterModule(a).ds = Consumed /\ AfterModule(a).w = work
        BY <2>1
    <2> QED
        BY <2>2, ConsumedMoves, WorkKept DEF Moved
<1>2. CASE ForReady
    <2>1. item.dep # Nil /\ item.dep \in DOMAIN deps /\ deps[item.dep].status = "ready"
        BY <1>2 DEF ForReady, Base, InHand
    <2>2. CASE a \in {"none", "absent"}
        <3>1. AfterModule(a) = [ds |-> Spoiled, w |-> Requeued]
            BY <1>2, <2>2 DEF AfterModule
        <3>2. AfterModule(a).ds = Spoiled /\ AfterModule(a).w = Requeued
            BY <3>1
        <3> QED
            BY <2>1, <3>2, SpoiledMoves, RequeuedKept DEF Moved
    <2>3. CASE a = "delayed"
        <3>1. AfterModule(a) = [ds |-> deps, w |-> work]
            BY <1>2, <2>3 DEF AfterModule
        <3>2. AfterModule(a).ds = deps /\ AfterModule(a).w = work
            BY <3>1
        <3> QED
            BY <3>2, StayMoves, WorkKept
    <2>4. CASE a \notin {"none", "absent", "delayed"}
        <3>1. AfterModule(a) = [ds |-> SetStatus(deps, item.dep, "completed"), w |-> Requeued]
            BY <1>2, <2>4 DEF AfterModule
        <3>2. /\ AfterModule(a).ds = SetStatus(deps, item.dep, "completed")
              /\ AfterModule(a).w = Requeued
            BY <3>1
        <3>3. Moved(SetStatus(deps, item.dep, "completed"), a \notin {"none", "absent", "delayed"})
            BY <2>1, <2>4, SetMoves
        <3> QED
            BY <2>1, <3>2, <3>3, RequeuedKept
    <2> QED
        BY <2>2, <2>3, <2>4
<1> QED
    BY <1>1, <1>2

-----------------------------------------------------------------------------
\* What the steps of a module come down to.

\* The module leaves no result.
Idled ==
    /\ todo # {} /\ todo' = todo \ {Module}
    /\ UNCHANGED <<waits, known, analysis, pc, request, first, item, loaded, pending, posted>>
    /\ Moved(deps', FALSE) /\ Kept(work', tracker') /\ buffer' \in Seq(Observables)
    /\ final' \in BOOLEAN

\* An exception ends the pass.
Aborted ==
    /\ pc' = "aborted" /\ pending' = {} /\ todo' = {}
    /\ UNCHANGED <<waits, known, analysis, final, request, first, item, work, tracker, buffer,
                   deps, loaded, posted>>

\* The module leaves a.
Left(a) ==
    /\ todo # {} /\ todo' = todo \ {Module}
    /\ Task \in Accepts /\ analysis[Task] \notin {"absent", "completed", "delayed"}
    /\ a = "partial" => "partial" \in seen'
    /\ a = "delayed" => "delay" \in Behaviours
    /\ analysis' = [analysis EXCEPT ![Task] = a]
    /\ known' \in Seq(Observables)
    /\ pending' = IF a = "delayed" THEN pending \cup {Task} ELSE pending
    /\ UNCHANGED <<waits, pc, request, first, item, loaded, posted>>
    /\ Moved(deps', a \notin {"none", "absent", "delayed"})
    /\ Kept(work', tracker') /\ buffer' \in Seq(Observables)
    /\ final' \in BOOLEAN

LEMMA InTurn ==
    ASSUME Base, todo # {}
    PROVE  /\ Module \in todo /\ Module \in Modules /\ Task \in Tasks /\ item \in Item
           /\ Task = <<item.obs, Module>> /\ Module # Nil
           /\ item.mod # Nil => Module = item.mod
           /\ item.dep # Nil => todo \ {Module} = {}
<1>1. todo \in SUBSET Modules /\ item \in Item /\ (item.mod # Nil => todo = {item.mod})
    BY DEF Base, Typed
<1>2. Modules \subseteq Nat \ {Nil}
    BY ExecutorAssumption DEF Modules, Nil
<1>3. Module \in todo
    BY <1>1, <1>2, MinIn DEF Module
<1>4. item.dep # Nil => item.mod # Nil
    BY DEF Base, InHand
<1>5. Task \in Tasks /\ Task = <<item.obs, Module>>
    BY <1>1, <1>3 DEF Task, Tasks, Item
<1>6. item.mod # Nil => Module = item.mod
    BY <1>1, <1>3
<1>7. item.dep # Nil => todo \ {Module} = {}
    BY <1>1, <1>4, <1>6
<1> QED
    BY <1>1, <1>2, <1>3, <1>5, <1>6, <1>7

LEMMA EventsTyped ==
    ASSUME Base, NEW t \in Tasks, NEW a, NEW found \in SUBSET Observables, IsFiniteSet(found)
    PROVE  Events(t, a, found) \in Seq(Observables) /\ Discovered(found) \in Seq(Observables)
<1>1. SetToSeq(found) \in Seq(Observables)
    BY Listed
<1>2. SetToSeq(found \ ToSet(known)) \in Seq(Observables)
    <2>1. IsFiniteSet(found \ ToSet(known))
        BY FS_Difference
    <2> QED
        BY <2>1, Listed
<1>3. t[1] \in Observables
    BY DEF Tasks
<1> QED
    BY <1>1, <1>2, <1>3 DEF Events, Discovered, Base, Typed

LEMMA FoundTyped == ASSUME NEW found \in Found PROVE found \in SUBSET Observables /\ IsFiniteSet(found)
BY FS_EmptySet DEF Found

LEMMA LeaveShape ==
    ASSUME Base, Ready(Task), NEW a \in Content, NEW found \in SUBSET Observables, IsFiniteSet(found),
           a = "partial" => "partial" \in seen', a = "delayed" => "delay" \in Behaviours,
           Leave(Task, a, found), pending' = IF a = "delayed" THEN pending \cup {Task} ELSE pending
    PROVE  Left(a)
<1>1. todo # {} /\ Task \in Accepts /\ analysis[Task] \notin {"absent", "completed", "delayed"}
    BY DEF Ready, Trying, Accepted
<1>2. Task \in Tasks
    BY <1>1, InTurn
<1> DEFINE after == AfterModule(a)
           os == buffer \o Events(Task, a, found)
           stirred == Stirred(Task, a, found)
<1>3. /\ todo' = todo \ {Module} /\ analysis' = [analysis EXCEPT ![Task] = a]
      /\ known' = Discovered(found) /\ deps' = after.ds
      /\ UNCHANGED <<waits, pc, request, first, item, loaded, posted>>
      /\ Flush(after.w, os, stirred)
    BY DEF Leave
<1>4. Moved(after.ds, a \notin {"none", "absent", "delayed"}) /\ Kept(after.w, tracker)
    BY <1>1, AfterMoves
<1>5. os \in Seq(Observables) /\ known' \in Seq(Observables)
    BY <1>2, <1>3, EventsTyped DEF Base, Typed
<1>6. Kept(work', tracker') /\ buffer' = <<>>
    <2> HIDE DEF after, os, stirred
    <2> QED
        BY <1>3, <1>4, <1>5, FlushKept
<1>7. final' \in BOOLEAN
    BY <1>3 DEF Flush
<1> QED
    BY <1>1, <1>3, <1>4, <1>5, <1>6, <1>7 DEF Left

LEMMA SkipShape ==
    ASSUME Base, Trying, NEW ds, NEW w, Moved(ds, FALSE), Kept(w, tracker), Skip(ds, w)
    PROVE  Idled
BY DEF Base, Typed, Trying, Skip, Idled

LEMMA FlushShape ==
    ASSUME Base, Trying, Moved(deps', FALSE), Flush(work, buffer, buffer # <<>>),
           todo' = todo \ {Module},
           UNCHANGED <<waits, known, analysis, pc, request, first, item, loaded, pending, posted>>
    PROVE  Idled
<1>1. Kept(work, tracker) /\ buffer \in Seq(Observables)
    BY WorkKept DEF Base, Typed
<1>2. Kept(work', tracker') /\ buffer' = <<>>
    BY <1>1, FlushKept
<1>3. final' \in BOOLEAN
    BY DEF Flush
<1>4. buffer' \in Seq(Observables) /\ todo # {}
    BY <1>2 DEF Trying
<1> QED
    BY <1>2, <1>3, <1>4 DEF Idled

LEMMA ModuleShape ==
    ASSUME Base, RunModule
    PROVE  Idled \/ Aborted \/ \E a \in Content \ {"none"} : Left(a)
<1> USE WorkKept
<1>1. Kept(work, tracker)
    OBVIOUS
<1>2. CASE Refuse
    <2>1. todo # {}
        BY <1>2 DEF Refuse, Trying
    <2> QED
        BY <1>1, <1>2, <2>1, SkipShape, SpoiledMoves DEF Refuse
<1>3. CASE LeaveDelayed
    BY <1>1, <1>3, SkipShape, StayMoves DEF LeaveDelayed
<1>4. CASE Defer
    <2>1. todo # {} /\ Trying
        BY <1>4 DEF Defer, Ready, Trying
    <2>2. CASE Abort
        BY <2>2 DEF Abort, Aborted, workVars
    <2>3. CASE Skip(Seeded(Consumed, Task, DeclaredUnmet(Task)), work)
        <3>1. Moved(Consumed, FALSE) /\ Task \in Tasks
            BY <2>1, ConsumedMoves, InTurn
        <3>2. Grown(Seeded(Consumed, Task, DeclaredUnmet(Task)), Consumed)
            BY <3>1, SeededGrows DEF Moved
        <3>3. Moved(Seeded(Consumed, Task, DeclaredUnmet(Task)), FALSE)
            BY <3>1, <3>2, GrownMoves
        <3> QED
            BY <1>1, <2>1, <2>3, <3>3, SkipShape
    <2> QED
        BY <1>4, <2>2, <2>3 DEF Defer
<1>5. CASE NotRequired
    <2>1. todo # {} /\ Trying
        BY <1>5 DEF NotRequired, Ready, Trying
    <2>2. CASE ForReady
        <3>1. Kept(Requeued, tracker)
            BY <2>1, <2>2, RequeuedKept DEF ForReady
        <3> QED
            BY <1>5, <2>1, <2>2, <3>1, SkipShape, SpoiledMoves DEF NotRequired
    <2>3. CASE ~ForReady
        BY <1>1, <1>5, <2>1, <2>3, SkipShape, ConsumedMoves DEF NotRequired
    <2> QED
        BY <2>2, <2>3
<1>6. CASE Complete
    <2>1. PICK found \in Found : Leave(Task, "completed", found)
        BY <1>6 DEF Complete
    <2> QED
        BY <1>6, <2>1, FoundTyped, LeaveShape DEF Complete, Runs, Content
<1>7. CASE FindNothing
    BY <1>7, FS_EmptySet, LeaveShape DEF FindNothing, Runs, Content
<1>8. CASE LeaveOpen
    BY <1>8, FS_EmptySet, LeaveShape DEF LeaveOpen, Saw, Runs, Content
<1>9. CASE Delay
    <2>1. PICK found \in Found : Leave(Task, "delayed", found)
        BY <1>9 DEF Delay
    <2> QED
        BY <1>9, <2>1, FoundTyped, LeaveShape DEF Delay, Saw, Runs, Content
<1>10. CASE Raise
    <2>1. todo # {} /\ Trying
        BY <1>10 DEF Raise, Ready, Trying
    <2>2. Moved(deps', FALSE)
        BY <1>10, <2>1, SpoiledMoves DEF Raise
    <2> QED
        BY <1>10, <2>1, <2>2, FlushShape DEF Raise
<1>11. CASE Wait
    <2>1. todo # {} /\ Trying
        BY <1>11 DEF Wait, Ready, Trying
    <2>2. PICK u \in Awaited(Task) :
             \/ Abort
             \/ /\ deps' = Added(Consumed, Task, u)
                /\ todo' = todo \ {Module}
                /\ Flush(work, buffer, buffer # <<>>)
                /\ UNCHANGED <<waits, known, analysis, pc, request, first, item, loaded,
                               pending, posted, ran, delays>>
        BY <1>11 DEF Wait
    <2>3. CASE Abort
        BY <2>3 DEF Abort, Aborted, workVars
    <2>4. CASE deps' = Added(Consumed, Task, u)
        <3>1. Moved(Consumed, FALSE) /\ Task \in Tasks
            BY <2>1, ConsumedMoves, InTurn
        <3>2. u \in Tasks
            BY <3>1, ExecutorAssumption DEF Awaited, Base, Typed
        <3>3. Consumed \in Seq(Dependency) /\ Grown(Consumed, Consumed)
            BY <3>1 DEF Moved, Grown
        <3>4. Grown(Added(Consumed, Task, u), Consumed)
            BY <3>1, <3>2, <3>3, AddedGrows
        <3>5. Moved(deps', FALSE)
            BY <2>4, <3>1, <3>4, GrownMoves
        <3>6. CASE Abort
            BY <3>6 DEF Abort, Aborted, workVars
        <3> QED
            BY <2>1, <2>2, <3>5, <3>6, FlushShape
    <2> QED
        BY <2>2, <2>3, <2>4
<1>12. CASE Finalise
    <2>1. CASE analysis[Task] = "none"
        <3>1. Leave(Task, "absent", {})
            BY <1>12, <2>1 DEF Finalise
        <3> QED
            BY <1>12, <3>1, FS_EmptySet, LeaveShape DEF Finalise, Content
    <2>2. CASE analysis[Task] # "none"
        <3>1. Leave(Task, "completed", {})
            BY <1>12, <2>2 DEF Finalise
        <3> QED
            BY <1>12, <3>1, FS_EmptySet, LeaveShape DEF Finalise, Content
    <2> QED
        BY <2>1, <2>2
<1>13. CASE Replay
    <2>1. todo # {} /\ Task \in Accepts /\ analysis[Task] \notin {"absent", "completed", "delayed"}
        BY <1>13 DEF Replay, Ready, Trying, Accepted
    <2>2. PICK found \in Found : /\ known' = Discovered(found)
                                 /\ buffer' = buffer \o Events(Task, "completed", found)
        BY <1>13 DEF Replay
    <2>3. known' \in Seq(Observables) /\ buffer' \in Seq(Observables)
        BY <2>1, <2>2, FoundTyped, EventsTyped, InTurn DEF Base, Typed
    <2>4. Moved(deps', TRUE) /\ Kept(work', tracker')
        <3>1. /\ deps' = AfterModule("completed").ds /\ work' = AfterModule("completed").w
              /\ tracker' = tracker
            BY <1>13 DEF Replay
        <3>2. "completed" \notin {"none", "absent", "delayed"}
            OBVIOUS
        <3>3. Moved(AfterModule("completed").ds, TRUE) /\ Kept(AfterModule("completed").w, tracker)
            BY <2>1, <3>2, AfterMoves DEF Moved
        <3> QED
            BY <3>1, <3>3
    <2>5. Left("completed")
        BY <1>13, <2>1, <2>3, <2>4 DEF Replay, Left, Base, Typed, Moved
    <2> QED
        BY <2>5 DEF Content
<1> QED
    BY <1>2, <1>3, <1>4, <1>5, <1>6, <1>7, <1>8, <1>9, <1>10, <1>11, <1>12, <1>13 DEF RunModule

-----------------------------------------------------------------------------
\* Base is inductive.

LEMMA BaseInit == Init => Base
<1> SUFFICES ASSUME Init PROVE Base
    OBVIOUS
<1> DEFINE s == Pushed(<<>>, {}, Given)
<1>1. work = s.work /\ tracker = s.tracker
    BY DEF Init
<1>2. Fits(s, <<>>, {}, Given, Len(Given))
    <2>1. <<>> \in Seq(StackItem) /\ {} \in SUBSET Observables /\ Given \in Seq(Observables)
        BY ExecutorAssumption
    <2> QED
        BY <2>1, PushedFits
<1> HIDE DEF s
<1>3. work \in Seq(StackItem) /\ tracker \in SUBSET Observables /\ OnStack
    BY <1>1, <1>2 DEF Fits, OnStack
<1>4. Typed
    <2>1. waits \in [Tasks -> SUBSET Accepts] /\ known \in Seq(Observables)
        BY ExecutorAssumption DEF Init
    <2>2. analysis \in [Tasks -> Content] /\ request \in Tasks \cup {<<>>}
        BY DEF Init, Content
    <2>3. buffer \in Seq(Observables) /\ deps \in Seq(Dependency)
        BY DEF Init
    <2> QED
        BY <1>3, <2>1, <2>2, <2>3 DEF Init, Typed
<1> QED
    BY <1>3, <1>4 DEF Init, Base, InHand, FirstTurn, Touched, Between, Nil

LEMMA BaseIdled == ASSUME Base, Idled PROVE Base'
<1>1. item.dep # Nil => todo' = {}
    BY InTurn DEF Idled
<1>2. /\ todo' \in SUBSET Modules /\ todo' \subseteq todo
      /\ item.mod # Nil => todo' = {}
    BY InTurn DEF Idled, Base, Typed
<1>3. Typed'
    BY <1>2 DEF Base, Typed, Idled, Moved, Kept
<1>4. InHand'
    BY <1>1 DEF InHand, Idled
<1>5. FirstTurn'
    BY DEF Base, FirstTurn, Idled
<1>6. OnStack'
    BY DEF OnStack, Idled, Kept
<1>7. Touched'
    BY DEF Base, Touched, Idled
<1>8. Between'
    BY DEF Base, Typed, Between, Idled
<1> QED
    BY <1>3, <1>4, <1>5, <1>6, <1>7, <1>8 DEF Base

LEMMA BaseAborted == ASSUME Base, Aborted PROVE Base'
BY DEF Base, Typed, InHand, FirstTurn, OnStack, Touched, Between, Aborted

LEMMA BaseLeft == ASSUME Base, NEW a \in Content \ {"none"}, Left(a) PROVE Base'
<1>1. item.dep # Nil => todo' = {}
    BY InTurn DEF Left
<1>2. /\ todo' \in SUBSET Modules /\ todo' \subseteq todo
      /\ item.mod # Nil => todo' = {}
    BY InTurn DEF Left, Base, Typed
<1>3. Task \in Tasks
    BY InTurn DEF Left
<1>4. analysis' \in [Tasks -> Content] /\ pending' \in SUBSET Tasks
    BY <1>3 DEF Left, Base, Typed
<1>5. Typed'
    BY <1>2, <1>4 DEF Base, Typed, Left, Moved, Kept
<1>6. InHand'
    BY <1>1 DEF InHand, Left
<1>7. FirstTurn'
    BY DEF Base, FirstTurn, Left
<1>8. OnStack'
    BY DEF OnStack, Left, Kept
<1>9. Touched'
    <2>1. \A t \in Tasks : analysis'[t] = IF t = Task THEN a ELSE analysis[t]
        BY <1>3 DEF Left, Base, Typed
    <2>2. \A t \in Tasks : analysis'[t] # "none" => t \in Accepts
        BY <2>1 DEF Left, Base, Touched
    <2>3. ASSUME NEW t \in pending' PROVE analysis'[t] = "delayed"
        <3>1. t \in Tasks
            BY <1>4
        <3>2. CASE t \in pending
            BY <2>1, <3>1, <3>2 DEF Left, Base, Touched
        <3>3. CASE t \notin pending
            BY <2>1, <2>3, <3>1, <3>3 DEF Left
        <3> QED
            BY <3>2, <3>3
    <2> QED
        BY <2>2, <2>3 DEF Touched
<1>10. Between'
    BY DEF Base, Typed, Between, Left
<1> QED
    BY <1>5, <1>6, <1>7, <1>8, <1>9, <1>10 DEF Base

LEMMA BaseLeaves == ASSUME Base, LeavePass PROVE Base'
<1>1. Typed'
    <2>1. posted' \in BOOLEAN
        BY DEF LeavePass
    <2>2. <<>> \in Seq(StackItem) /\ <<>> \in Seq(Observables)
        OBVIOUS
    <2> QED
        BY <2>1, <2>2 DEF Base, Typed, LeavePass
<1>2. InHand' /\ FirstTurn' /\ OnStack' /\ Touched' /\ Between'
    BY DEF Base, InHand, FirstTurn, OnStack, Touched, Between, LeavePass
<1> QED
    BY <1>1, <1>2 DEF Base

LEMMA BaseResume == ASSUME Base, NEW t \in Tasks, Resume(t) PROVE Base'
<1>1. /\ pc = "idle" /\ t \in pending /\ pc' = "pass" /\ request' = t /\ first'
      /\ pending' = pending \ {t} /\ work' = <<Only(t)>> /\ todo' = todo
      /\ analysis' = [analysis EXCEPT ![t] = IF @ = "delayed" THEN "partial" ELSE @]
      /\ loaded' = Len(deps) /\ final' = final
      /\ UNCHANGED <<waits, known, item, tracker, buffer, deps, posted>>
    BY DEF Resume, Others
<1>2. <<Only(t)>> \in Seq(StackItem)
    <2>1. Only(t) \in StackItem
        BY DEF Only, StackItem, Tasks
    <2> QED
        BY <2>1
<1>3. todo = {}
    BY <1>1 DEF Base, Typed
<1>4. analysis' \in [Tasks -> Content]
    BY <1>1 DEF Base, Typed, Content
<1>5. Typed'
    BY <1>1, <1>2, <1>3, <1>4 DEF Base, Typed
<1>6. InHand' /\ FirstTurn' /\ OnStack' /\ Between'
    BY <1>1, <1>3 DEF Base, Between, InHand, FirstTurn, OnStack
<1>7. Touched'
    <2>1. ASSUME NEW u \in Tasks, analysis'[u] # "none" PROVE u \in Accepts
        <3>1. analysis[u] # "none"
            BY <1>1, <2>1 DEF Base, Typed
        <3> QED
            BY <3>1 DEF Base, Touched
    <2>2. ASSUME NEW u \in pending' PROVE analysis'[u] = "delayed"
        BY <1>1, <2>2 DEF Base, Typed, Touched
    <2> QED
        BY <2>1, <2>2 DEF Touched
<1> QED
    BY <1>5, <1>6, <1>7 DEF Base

\* The head of the stack is an item, and the tail is on the stack.
LEMMA Popped ==
    ASSUME Base, work # <<>>
    PROVE  /\ Head(work) \in StackItem /\ Tail(work) \in Seq(StackItem)
           /\ \A n \in DOMAIN work : work[n] = Head(work) \/ \E k \in DOMAIN Tail(work) : Tail(work)[k] = work[n]
           /\ \A k \in DOMAIN Tail(work) : \E n \in DOMAIN work : work[n] = Tail(work)[k]
<1>1. work \in Seq(StackItem)
    BY DEF Base, Typed
<1>2. /\ Head(work) \in StackItem /\ Tail(work) \in Seq(StackItem) /\ Head(work) = work[1]
      /\ Len(Tail(work)) = Len(work) - 1
      /\ \A k \in 1 .. Len(Tail(work)) : Tail(work)[k] = work[k + 1]
    BY <1>1
<1>3. ASSUME NEW n \in DOMAIN work, n # 1
      PROVE  \E k \in DOMAIN Tail(work) : Tail(work)[k] = work[n]
    <2>1. n - 1 \in DOMAIN Tail(work) /\ (n - 1) + 1 = n /\ n - 1 \in 1 .. Len(Tail(work))
        BY <1>1, <1>2, <1>3
    <2> QED
        BY <1>2, <2>1
<1>4. ASSUME NEW k \in DOMAIN Tail(work)
      PROVE  \E n \in DOMAIN work : work[n] = Tail(work)[k]
    <2>1. k \in 1 .. Len(Tail(work)) /\ k + 1 \in DOMAIN work
        BY <1>1, <1>2
    <2> QED
        BY <1>2, <2>1
<1> QED
    BY <1>2, <1>3, <1>4

LEMMA BasePops == ASSUME Base, PopItem PROVE Base'
<1> DEFINE i == Head(work)
<1>1. /\ pc = "pass" /\ todo = {} /\ ~(request # <<>> /\ first) /\ work # <<>>
      /\ work' = Tail(work) /\ tracker' = tracker \ {i.obs}
      /\ UNCHANGED <<waits, known, analysis, pc, final, request, first, buffer, deps, loaded,
                     pending, posted>>
    BY DEF PopItem, Turn
<1>2. i \in StackItem /\ Tail(work) \in Seq(StackItem)
    BY <1>1, Popped
<1>3. \/ todo' = {}
      \/ item' = i /\ todo' = IF i.mod = Nil THEN Modules ELSE {i.mod}
    BY <1>1 DEF PopItem
<1>4. i \in Item /\ i.dep = Nil /\ i.mod \in Modules \cup {Nil}
    BY <1>2 DEF StackItem, Item, Nil
<1>5. ASSUME NEW o \in tracker, o # i.obs PROVE \E k \in DOMAIN Tail(work) : Tail(work)[k] = Plain(o)
    <2>1. PICK n \in DOMAIN work : work[n] = Plain(o)
        BY DEF Base, OnStack
    <2>2. work[n] # i
        BY <1>5, <2>1 DEF Plain
    <2> QED
        BY <1>1, <2>1, <2>2, Popped
<1> HIDE DEF i
<1>6. todo' \in SUBSET Modules
    BY <1>3, <1>4
<1>7. todo' # {} => pc' = "pass" /\ item' \in Item /\ (item'.mod # Nil => todo' = {item'.mod})
                   /\ item'.dep = Nil
    BY <1>1, <1>3, <1>4
<1>8. Typed'
    BY <1>1, <1>2, <1>6, <1>7 DEF Base, Typed
<1>9. InHand' /\ FirstTurn' /\ Between'
    BY <1>1, <1>7 DEF InHand, FirstTurn, Between
<1>10. OnStack'
    BY <1>1, <1>5 DEF OnStack
<1>11. Touched'
    BY <1>1 DEF Base, Touched
<1> QED
    BY <1>8, <1>9, <1>10, <1>11 DEF Base

LEMMA BaseTakesRequest == ASSUME Base, TakeRequest PROVE Base'
<1>1. /\ pc = "pass" /\ todo = {} /\ request # <<>> /\ first /\ ~first'
      /\ item' = Head(work) /\ todo' = {Head(work).mod}
      /\ work' = Tail(work) /\ tracker' = tracker \ {Head(work).obs}
      /\ UNCHANGED <<waits, known, analysis, pc, final, request, buffer, deps, loaded,
                     pending, posted>>
    BY DEF TakeRequest, Turn
<1>2. work = <<Only(request)>> /\ request \in Tasks
    BY <1>1 DEF Base, Typed, FirstTurn
<1>3. Head(work) = Only(request) /\ Tail(work) = <<>>
    BY <1>2
<1>4. /\ Only(request) \in Item /\ Only(request).dep = Nil
      /\ Only(request).mod \in Modules /\ Only(request).obs = request[1]
    BY <1>2 DEF Only, Item, Tasks, Nil
<1>5. tracker' = {}
    <2> SUFFICES ASSUME NEW o \in tracker PROVE o = request[1]
        BY <1>1, <1>3, <1>4
    <2>1. PICK n \in DOMAIN work : work[n] = Plain(o)
        BY DEF Base, OnStack
    <2>2. Plain(o) = Only(request)
        BY <1>2, <2>1
    <2> QED
        BY <2>2 DEF Plain, Only
<1>6. first' \in BOOLEAN
    BY DEF TakeRequest
<1>7. Typed'
    <2>1. <<>> \in Seq(StackItem)
        OBVIOUS
    <2> QED
        BY <1>1, <1>3, <1>4, <1>5, <1>6, <2>1 DEF Base, Typed
<1>8. InHand' /\ FirstTurn' /\ Between' /\ OnStack'
    BY <1>1, <1>3, <1>4, <1>5 DEF InHand, FirstTurn, Between, OnStack
<1>9. Touched'
    BY <1>1 DEF Base, Touched
<1> QED
    BY <1>7, <1>8, <1>9 DEF Base

\* The step that takes a dependency, with what is known of the one it takes.
LEMMA Taken ==
    ASSUME Base, TakeDependency
    PROVE  LET d == FirstActive
               owed == deps[d].status = "ready" /\ analysis[deps[d].tgt] = "none"
               t == IF owed THEN deps[d].tgt ELSE deps[d].src
           IN /\ d \in Active /\ d \in DOMAIN deps /\ deps[d] \in Dependency
              /\ analysis[deps[d].tgt] # "delayed"
              /\ pc = "pass" /\ todo = {} /\ ~(request # <<>> /\ first)
              /\ item' = [obs |-> t[1], mod |-> t[2], dep |-> d] /\ todo' = {t[2]}
              /\ deps' = IF ~owed /\ deps[d].status = "ready"
                         THEN SetStatus(deps, d, "completed") ELSE deps
              /\ UNCHANGED <<waits, known, analysis, pc, final, request, first, work, tracker,
                             buffer, loaded, pending, posted>>
<1> DEFINE d == FirstActive
<1>1. Active # {} /\ deps \in Seq(Dependency)
    BY DEF TakeDependency, Base, Typed
<1>2. d \in Active
    BY <1>1, FirstActiveIn
<1>3. d \in DOMAIN deps /\ deps[d] \in Dependency /\ ~DelayedDep(d)
    BY <1>1, <1>2 DEF Active
<1>4. analysis[deps[d].tgt] # "delayed"
    BY <1>3, ChainHas DEF DelayedDep
<1>5. /\ pc = "pass" /\ todo = {} /\ ~(request # <<>> /\ first)
      /\ UNCHANGED <<waits, known, analysis, pc, final, request, first, work, tracker,
                     buffer, loaded, pending, posted>>
    BY DEF TakeDependency, Turn, workVars
<1> QED
    BY <1>2, <1>3, <1>4, <1>5 DEF TakeDependency

LEMMA BaseTakes == ASSUME Base, TakeDependency PROVE Base'
<1> DEFINE d == FirstActive
           owed == deps[d].status = "ready" /\ analysis[deps[d].tgt] = "none"
           t == IF owed THEN deps[d].tgt ELSE deps[d].src
<1>1. /\ d \in DOMAIN deps /\ deps[d] \in Dependency
      /\ pc = "pass" /\ todo = {} /\ ~(request # <<>> /\ first)
      /\ item' = [obs |-> t[1], mod |-> t[2], dep |-> d] /\ todo' = {t[2]}
      /\ deps' = IF ~owed /\ deps[d].status = "ready"
                 THEN SetStatus(deps, d, "completed") ELSE deps
      /\ UNCHANGED <<waits, known, analysis, pc, final, request, first, work, tracker,
                     buffer, loaded, pending, posted>>
    BY Taken
<1> HIDE DEF d
<1>2. deps \in Seq(Dependency) /\ d \in Nat
    BY <1>1 DEF Base, Typed
<1>3. t \in Tasks
    BY <1>1 DEF Dependency
<1>4. /\ deps' \in Seq(Dependency) /\ d \in DOMAIN deps' /\ deps'[d].tgt = deps[d].tgt
      /\ deps'[d].status = "ready" => owed
    <2>1. CASE ~owed /\ deps[d].status = "ready"
        <3>1. /\ SetStatus(deps, d, "completed") \in Seq(Dependency)
              /\ Len(SetStatus(deps, d, "completed")) = Len(deps)
              /\ SetStatus(deps, d, "completed")[d].tgt = deps[d].tgt
              /\ SetStatus(deps, d, "completed")[d].status = "completed"
            BY <1>1, <1>2, StatusSet
        <3> QED
            BY <1>1, <1>2, <2>1, <3>1
    <2>2. CASE ~(~owed /\ deps[d].status = "ready")
        BY <1>1, <1>2, <2>2
    <2> QED
        BY <2>1, <2>2
<1>5. t = <<t[1], t[2]>> /\ t[1] \in Observables /\ t[2] \in Modules
    BY <1>3 DEF Tasks
<1>6. item' \in Item /\ item'.mod = t[2] /\ item'.obs = t[1] /\ item'.dep = d
    BY <1>1, <1>2, <1>5 DEF Item
<1>7. InHand'
    <2>1. t[2] # Nil
        BY <1>5 DEF Modules, Nil
    <2>2. owed => deps'[d].tgt = t
        BY <1>4
    <2> HIDE DEF owed, t
    <2> QED
        BY <1>4, <1>5, <1>6, <2>1, <2>2 DEF InHand
<1>8. Typed'
    <2>1. todo' = {item'.mod} /\ todo' \in SUBSET Modules
        BY <1>1, <1>5, <1>6
    <2> HIDE DEF owed, t
    <2> QED
        BY <1>1, <1>4, <1>6, <2>1 DEF Base, Typed
<1>9. FirstTurn' /\ OnStack' /\ Touched' /\ Between'
    <2> HIDE DEF owed, t
    <2> QED
        BY <1>1 DEF Base, FirstTurn, OnStack, Touched, Between
<1> QED
    BY <1>7, <1>8, <1>9 DEF Base

LEMMA BaseEntersFinal == ASSUME Base, EnterFinal PROVE Base'
<1> DEFINE s == Pushed(<<>>, tracker, Everything)
<1>1. /\ pc = "pass" /\ todo = {} /\ work = <<>> /\ final'
      /\ work' = s.work /\ tracker' = s.tracker
      /\ UNCHANGED <<waits, known, analysis, pc, request, first, item, todo, buffer, deps,
                     loaded, pending, posted>>
    BY DEF EnterFinal, Turn
<1>2. Fits(s, <<>>, tracker, Everything, Len(Everything))
    <2>1. <<>> \in Seq(StackItem) /\ tracker \in SUBSET Observables /\ known \in Seq(Observables)
        BY DEF Base, Typed
    <2> QED
        BY <2>1, PushedFits DEF Everything
<1> HIDE DEF s
<1>3. tracker = {}
    BY <1>1 DEF Base, OnStack
<1>4. Typed'
    <2>1. final' \in BOOLEAN
        BY DEF EnterFinal
    <2> QED
        BY <1>1, <1>2, <2>1 DEF Base, Typed, Fits
<1>5. OnStack'
    BY <1>1, <1>2, <1>3 DEF OnStack, Fits
<1>6. FirstTurn'
    <2>1. ~(request # <<>> /\ first)
        BY <1>1 DEF Base, FirstTurn
    <2> QED
        BY <1>1, <2>1 DEF FirstTurn
<1>7. InHand' /\ Touched' /\ Between'
    BY <1>1 DEF Base, InHand, Touched, Between
<1> QED
    BY <1>4, <1>5, <1>6, <1>7 DEF Base

LEMMA BaseStep == Base /\ [Next]_vars => Base'
<1> SUFFICES ASSUME Base, [Next]_vars PROVE Base'
    OBVIOUS
<1>1. CASE Loop
    <2>1. CASE EnterFinal
        BY <2>1, BaseEntersFinal
    <2>2. CASE EndPass
        BY <2>2, BaseLeaves DEF EndPass
    <2>3. CASE TakeRequest
        BY <2>3, BaseTakesRequest
    <2>4. CASE TakeDependency
        BY <2>4, BaseTakes
    <2>5. CASE PopItem
        BY <2>5, BasePops
    <2> QED
        BY <1>1, <2>1, <2>2, <2>3, <2>4, <2>5 DEF Loop
<1>2. CASE RunModule
    BY <1>2, ModuleShape, BaseIdled, BaseAborted, BaseLeft
<1>3. CASE Cancel
    BY <1>3, BaseLeaves DEF Cancel
<1>4. ASSUME NEW t \in Tasks, Resume(t) PROVE Base'
    BY <1>4, BaseResume
<1>5. CASE UNCHANGED vars
    BY <1>5 DEF vars, passVars, workVars, Base, Typed, InHand, FirstTurn, OnStack, Touched, Between
<1> QED
    BY <1>1, <1>2, <1>3, <1>4, <1>5 DEF Next

-----------------------------------------------------------------------------
\* Delayed analysis.

LEMMA DelayedInit == Init => DelayedResumed
BY DEF Init, DelayedResumed

LEMMA DelayedStep == ASSUME Base, DelayedResumed, [Next]_vars PROVE DelayedResumed'
<1>1. analysis \in [Tasks -> Content]
    BY DEF Base, Typed
<1>2. CASE Loop \/ Cancel
    <2>1. UNCHANGED <<analysis, pending>> /\ pc = "pass"
        BY <1>2 DEF Loop, EnterFinal, EndPass, TakeRequest, TakeDependency, PopItem, LeavePass,
                    Turn, Cancel, Trying
    <2> QED
        BY <2>1 DEF DelayedResumed
<1>3. CASE RunModule
    <2>1. CASE Idled \/ Aborted
        BY <2>1 DEF Idled, Aborted, DelayedResumed
    <2>2. ASSUME NEW a \in Content, Left(a) PROVE DelayedResumed'
        <3>1. \A t \in Tasks : analysis'[t] = IF t = Task THEN a ELSE analysis[t]
            BY <1>1, <2>2 DEF Left
        <3> QED
            BY <2>2, <3>1 DEF Left, DelayedResumed
    <2> QED
        BY <1>3, <2>1, <2>2, ModuleShape
<1>4. ASSUME NEW t \in Tasks, Resume(t) PROVE DelayedResumed'
    <2>1. /\ analysis' = [analysis EXCEPT ![t] = IF @ = "delayed" THEN "partial" ELSE @]
          /\ pending' = pending \ {t} /\ pc = "idle"
        BY <1>4 DEF Resume, Others
    <2> QED
        BY <1>1, <2>1 DEF DelayedResumed
<1>5. CASE UNCHANGED vars
    BY <1>5 DEF vars, passVars, DelayedResumed
<1> QED
    BY <1>2, <1>3, <1>4, <1>5 DEF Next

\* DelayedResumed: an analysis that delay_analysis marked keeps its request through any
\* sequence of passes, until the load for that request clears the mark.
THEOREM DelayedResumedHolds == Spec => []DelayedResumed
<1> DEFINE Inv == Base /\ DelayedResumed
<1>1. Init => Inv
    BY BaseInit, DelayedInit
<1>2. Inv /\ [Next]_vars => Inv'
    BY BaseStep, DelayedStep
<1> QED
    BY <1>1, <1>2, PTL DEF Spec

-----------------------------------------------------------------------------
\* The end of the analysis of a root.

\* Declared dependencies are left aside: final analysis seeds them too.
Undeclared == \A m \in Modules : Declared[m] = {}

Quiet == seen \subseteq {"nothing", "partial", "delay"}

\* An item on the stack or the one in hand will bring the task up.
Covered(t) ==
    \/ \E n \in DOMAIN work : work[n].obs = t[1] /\ work[n].mod \in {Nil, t[2]}
    \/ t[2] \in todo /\ item.obs = t[1]

\* In final analysis mode nothing is delayed, no dependency interferes, and whatever is
\* not settled will be brought up.
Finishing ==
    Quiet /\ pc = "pass" /\ final =>
        /\ ~AnyDelayed
        /\ \A i \in DOMAIN deps : deps[i].status = "resolved" \/ Failed(i)
        /\ todo # {} => item.dep = Nil
        /\ \A t \in Wanted : Settled(t) \/ Covered(t)

\* Once post-analysis has run, the root is never taken up again.
Finished == Quiet /\ posted => pc = "idle" /\ ~AnyDelayed /\ \A t \in Wanted : Settled(t)

LEMMA SeenGrows == ASSUME [Next]_vars PROVE seen \subseteq seen'
<1>1. CASE Loop
    BY <1>1 DEF Loop, EnterFinal, EndPass, TakeRequest, TakeDependency, PopItem
<1>2. CASE RunModule
    BY <1>2 DEF RunModule, Refuse, LeaveDelayed, Defer, NotRequired, Complete, FindNothing,
                LeaveOpen, Delay, Raise, Wait, Finalise, Replay, Saw
<1>3. CASE Cancel
    BY <1>3 DEF Cancel, Saw
<1>4. ASSUME NEW t \in Tasks, Resume(t) PROVE seen \subseteq seen'
    BY <1>4 DEF Resume
<1>5. CASE UNCHANGED vars
    BY <1>5 DEF vars
<1> QED
    BY <1>1, <1>2, <1>3, <1>4, <1>5 DEF Next

LEMMA FailedSame == ASSUME UNCHANGED <<deps, loaded>>, NEW i PROVE Failed(i)' <=> Failed(i)
<1>1. ASSUME NEW j PROVE NextOf(j)' = NextOf(j)
    BY DEF NextOf
<1>2. Chain(i)' = Chain(i)
    BY <1>1 DEF Chain
<1> QED
    BY <1>2 DEF Failed

LEMMA FinishingInit == Init => Finishing /\ Finished
BY DEF Init, Finishing, Finished

\* With nothing delayed and no active dependency, every dependency is resolved or failed.
LEMMA NoneActive ==
    ASSUME Base, ~AnyDelayed
    PROVE  Active = {} <=> \A i \in DOMAIN deps : deps[i].status = "resolved" \/ Failed(i)
<1>1. ASSUME NEW i \in DOMAIN deps PROVE ~DelayedDep(i)
    <2>1. deps \in Seq(Dependency)
        BY DEF Base, Typed
    <2>2. \A j \in DOMAIN deps : deps[j].src \in Tasks /\ deps[j].tgt \in Tasks
        <3> TAKE j \in DOMAIN deps
        <3>1. deps[j] \in Dependency
            BY <2>1
        <3> QED
            BY <3>1 DEF Dependency
    <2>3. Chain(i) \subseteq DOMAIN deps
        BY ChainHas
    <2> QED
        BY <2>2, <2>3 DEF DelayedDep, AnyDelayed
<1> QED
    BY <1>1 DEF Active

LEMMA EnterFinishes == ASSUME Base, EnterFinal PROVE Finishing'
<1> DEFINE s == Pushed(<<>>, tracker, Everything)
<1>1. /\ todo = {} /\ work = <<>> /\ Active = {} /\ ~AnyDelayed
      /\ work' = s.work /\ tracker' = s.tracker
      /\ UNCHANGED <<known, analysis, todo, deps, loaded>>
    BY DEF EnterFinal, Turn, FinalAllowed
<1>2. known \in Seq(Observables) /\ tracker = {}
    BY <1>1 DEF Base, Typed, OnStack
<1>3. Fits(s, <<>>, {}, known, Len(known))
    <2>1. <<>> \in Seq(StackItem) /\ {} \in SUBSET Observables
        OBVIOUS
    <2> QED
        BY <1>2, <2>1, PushedFits DEF Everything
<1> HIDE DEF s
<1>4. ~AnyDelayed'
    BY <1>1 DEF AnyDelayed
<1>5. \A i \in DOMAIN deps' : deps'[i].status = "resolved" \/ Failed(i)'
    BY <1>1, NoneActive, FailedSame
<1>6. ASSUME NEW t \in Wanted' PROVE Covered(t)'
    <2>1. PICK k \in DOMAIN known : known[k] = t[1]
        BY <1>1 DEF Wanted, ToSet
    <2>2. k \in 1 .. Len(known)
        BY <1>2
    <2>3. PICK n \in DOMAIN work' : work'[n] = Plain(t[1])
        BY <1>1, <1>3, <2>1, <2>2 DEF Fits
    <2> QED
        BY <2>3 DEF Covered, Plain
<1> QED
    BY <1>1, <1>4, <1>5, <1>6 DEF Finishing

\* In final analysis mode an item is never dropped.
LEMMA PopFinishes == ASSUME Base, Finishing, Quiet, final, PopItem PROVE Finishing'
<1> DEFINE i == Head(work)
<1>1. /\ pc = "pass" /\ todo = {} /\ work # <<>> /\ Active = {}
      /\ work' = Tail(work)
      /\ UNCHANGED <<known, analysis, deps, loaded>>
    BY DEF PopItem, Turn
<1>2. /\ ~AnyDelayed
      /\ \A j \in DOMAIN deps : deps[j].status = "resolved" \/ Failed(j)
      /\ \A t \in Wanted : Settled(t) \/ Covered(t)
    BY <1>1 DEF Finishing
<1>3. ~Outstanding(i.obs)
    BY <1>2 DEF Outstanding
<1>4. item' = i /\ todo' = IF i.mod = Nil THEN Modules ELSE {i.mod}
    BY <1>3 DEF PopItem
<1>5. i \in StackItem
    BY <1>1, Popped
<1>6. ASSUME NEW t \in Wanted, Covered(t) PROVE Covered(t)'
    <2>1. PICK n \in DOMAIN work : work[n].obs = t[1] /\ work[n].mod \in {Nil, t[2]}
        BY <1>1, <1>6 DEF Covered
    <2>2. t[2] \in Modules
        BY ExecutorAssumption DEF Wanted, Tasks
    <2>3. CASE work[n] = i
        BY <1>4, <2>1, <2>2, <2>3 DEF Covered
    <2>4. CASE work[n] # i
        <3>1. PICK k \in DOMAIN Tail(work) : Tail(work)[k] = work[n]
            BY <1>1, <2>4, Popped
        <3> QED
            BY <1>1, <2>1, <3>1 DEF Covered
    <2> QED
        BY <2>3, <2>4
<1>7. ~AnyDelayed' /\ Wanted' = Wanted /\ \A t : Settled(t)' <=> Settled(t)
    BY <1>1, <1>2 DEF AnyDelayed, Wanted, Settled
<1>8. \A j \in DOMAIN deps' : deps'[j].status = "resolved" \/ Failed(j)'
    BY <1>1, <1>2, FailedSame
<1>9. item'.dep = Nil
    BY <1>4, <1>5 DEF StackItem
<1>10. \A t \in Wanted' : Settled(t)' \/ Covered(t)'
    BY <1>2, <1>6, <1>7
<1> QED
    BY <1>7, <1>8, <1>9, <1>10 DEF Finishing

\* What a module does in final analysis mode: it refuses the task or finalises it.
LEMMA FinalModule ==
    ASSUME Base, Undeclared, Finishing, Quiet, Quiet', final, RunModule
    PROVE  todo # {} /\ pc = "pass" /\ (Refuse \/ Finalise)
<1>1. todo # {} /\ pc = "pass"
    BY DEF RunModule, Refuse, LeaveDelayed, Defer, NotRequired, Complete, FindNothing, LeaveOpen,
           Delay, Raise, Wait, Finalise, Replay, Runs, Ready, Trying
<1>2. Task \in Tasks
    BY <1>1, InTurn
<1>3. ~LeaveDelayed
    BY <1>1, <1>2 DEF LeaveDelayed, Finishing, AnyDelayed
<1>4. DeclaredUnmet(Task) = {}
    BY <1>2 DEF Undeclared, DeclaredUnmet, Tasks
<1>5. ~Defer
    BY <1>4 DEF Defer
<1>6. ASSUME NEW b \in {"unmet", "error", "hit"} PROVE ~Saw(b)
    <2>1. b \notin seen'
        BY <1>6 DEF Quiet
    <2> QED
        BY <2>1 DEF Saw
<1>7. ~NotRequired /\ ~Raise /\ ~Replay
    BY <1>6 DEF NotRequired, Raise, Replay
<1>8. ~Complete /\ ~FindNothing /\ ~LeaveOpen /\ ~Delay /\ ~Wait
    BY DEF Complete, FindNothing, LeaveOpen, Delay, Wait, Runs
<1> QED
    BY <1>1, <1>3, <1>5, <1>7, <1>8 DEF RunModule

\* Whatever else is covered stays so when the module in hand has had its turn.
LEMMA StillCovered ==
    ASSUME Base, todo # {}, todo' = todo \ {Module}, item' = item, Kept(work', tracker'),
           NEW t \in Tasks, Covered(t), t # Task
    PROVE  Covered(t)'
<1>1. CASE \E n \in DOMAIN work : work[n].obs = t[1] /\ work[n].mod \in {Nil, t[2]}
    <2>1. PICK n \in DOMAIN work : work[n].obs = t[1] /\ work[n].mod \in {Nil, t[2]}
        BY <1>1
    <2>2. PICK k \in DOMAIN work' : work'[k] = work[n]
        BY <2>1 DEF Kept
    <2> QED
        BY <2>1, <2>2 DEF Covered
<1>2. CASE t[2] \in todo /\ item.obs = t[1]
    <2>1. Task = <<item.obs, Module>> /\ t = <<t[1], t[2]>>
        BY InTurn DEF Tasks
    <2>2. t[2] # Module
        BY <1>2, <2>1
    <2> QED
        BY <1>2, <2>2 DEF Covered
<1> QED
    BY <1>1, <1>2 DEF Covered

LEMMA FinalAfter ==
    ASSUME item.dep = Nil, NEW a
    PROVE  AfterModule(a).ds = deps
<1>1. ~ForReady /\ Consumed = deps
    BY DEF ForReady, Consumed
<1>2. AfterModule(a) = [ds |-> deps, w |-> work]
    BY <1>1 DEF AfterModule
<1> QED
    BY <1>2

LEMMA ModuleFinishes ==
    ASSUME Base, Undeclared, Finishing, Quiet, Quiet', final, final', RunModule
    PROVE  Finishing'
<1>1. todo # {} /\ pc = "pass" /\ (Refuse \/ Finalise)
    BY FinalModule
<1>2. /\ ~AnyDelayed /\ item.dep = Nil
      /\ \A j \in DOMAIN deps : deps[j].status = "resolved" \/ Failed(j)
      /\ \A t \in Wanted : Settled(t) \/ Covered(t)
    BY <1>1 DEF Finishing
<1>3. Task \in Tasks /\ analysis \in [Tasks -> Content] /\ Wanted \subseteq Tasks
    BY <1>1, InTurn, ExecutorAssumption DEF Base, Typed, Wanted
<1>4. CASE Refuse
    <2>1. /\ todo' = todo \ {Module} /\ deps' = Spoiled /\ work' = work /\ ~Accepted(Task)
          /\ UNCHANGED <<known, analysis, item, tracker, loaded>>
        BY <1>4 DEF Refuse, Skip
    <2>2. deps' = deps
        BY <1>2, <2>1 DEF Spoiled
    <2>3. Kept(work', tracker')
        BY <2>1, WorkKept
    <2>4. \A j \in DOMAIN deps' : deps'[j].status = "resolved" \/ Failed(j)'
        BY <1>2, <2>1, <2>2, FailedSame
    <2>5. ASSUME NEW t \in Wanted' PROVE Settled(t)' \/ Covered(t)'
        <3>1. t \in Wanted
            BY <2>1 DEF Wanted
        <3>2. CASE t = Task
            BY <2>1, <3>1, <3>2 DEF Accepted, Wanted, Settled
        <3>3. CASE t # Task
            BY <1>1, <1>2, <1>3, <2>1, <2>3, <3>1, <3>3, StillCovered DEF Settled
        <3> QED
            BY <3>2, <3>3
    <2> QED
        BY <1>2, <2>1, <2>4, <2>5 DEF Finishing, AnyDelayed
<1>5. CASE Finalise
    <2> DEFINE a == IF analysis[Task] = "none" THEN "absent" ELSE "completed"
    <2>1. Ready(Task) /\ Leave(Task, a, {})
        BY <1>5 DEF Finalise
    <2>2. /\ todo' = todo \ {Module} /\ item' = item /\ loaded' = loaded
          /\ analysis' = [analysis EXCEPT ![Task] = a]
          /\ known' = Discovered({}) /\ deps' = AfterModule(a).ds
        BY <2>1 DEF Leave
    <2>3. Kept(work', tracker')
        <3>1. Kept(AfterModule(a).w, tracker)
            BY <1>1, AfterMoves
        <3>2. buffer \o Events(Task, a, {}) \in Seq(Observables)
            BY <1>3, FS_EmptySet, EventsTyped DEF Base, Typed
        <3> QED
            BY <2>1, <3>1, <3>2, FlushKept DEF Leave
    <2>4. deps' = deps
        BY <1>2, <2>2, FinalAfter
    <2>5. \A j \in DOMAIN deps' : deps'[j].status = "resolved" \/ Failed(j)'
        BY <1>2, <2>2, <2>4, FailedSame
    <2>6. ToSet(known') = ToSet(known)
        <3>1. SetToSeq({} \ ToSet(known)) = <<>>
            <4>1. {} \ ToSet(known) = {}
                OBVIOUS
            <4>2. SetToSeq({}) \in Seq({})
                BY FS_EmptySet, Listed
            <4>3. SetToSeq({}) = <<>>
                BY <4>2
            <4> QED
                BY <4>1, <4>3
        <3>2. known' = known \o <<>>
            BY <2>2, <3>1 DEF Discovered
        <3> QED
            BY <3>2 DEF Base, Typed
    <2>7. \A t \in Tasks : analysis'[t] = IF t = Task THEN a ELSE analysis[t]
        BY <1>3, <2>2
    <2>8. ~AnyDelayed'
        BY <1>2, <2>7 DEF AnyDelayed
    <2>9. ASSUME NEW t \in Wanted' PROVE Settled(t)' \/ Covered(t)'
        <3>1. t \in Wanted /\ t \in Tasks
            BY <1>3, <2>6 DEF Wanted
        <3>2. CASE t = Task
            BY <2>7, <3>1, <3>2 DEF Settled
        <3>3. CASE t # Task
            BY <1>1, <1>2, <2>2, <2>3, <2>7, <3>1, <3>3, StillCovered DEF Settled
        <3> QED
            BY <3>2, <3>3
    <2> QED
        BY <1>2, <2>2, <2>5, <2>8, <2>9 DEF Finishing
<1> QED
    BY <1>1, <1>4, <1>5

\* Final analysis mode is entered by the main loop only.
LEMMA FinalStays == ASSUME RunModule PROVE /\ ~final => ~final'
                                          /\ pc = "pass" /\ posted' = posted
<1>1. CASE Refuse \/ LeaveDelayed \/ NotRequired
    BY <1>1 DEF Refuse, LeaveDelayed, NotRequired, Skip, Ready, Trying
<1>2. CASE Defer
    BY <1>2 DEF Defer, Skip, Abort, Ready, Trying
<1>3. CASE Complete \/ FindNothing \/ LeaveOpen \/ Delay
    BY <1>3 DEF Complete, FindNothing, LeaveOpen, Delay, Leave, Flush, Runs, Ready, Trying
<1>4. CASE Raise
    BY <1>4 DEF Raise, Flush, Ready, Trying
<1>5. CASE Wait
    BY <1>5 DEF Wait, Abort, Flush, Ready, Trying
<1>6. CASE Finalise
    BY <1>6 DEF Finalise, Leave, Flush, Ready, Trying
<1>7. CASE Replay
    BY <1>7 DEF Replay, Ready, Trying
<1> QED
    BY <1>1, <1>2, <1>3, <1>4, <1>5, <1>6, <1>7 DEF RunModule

LEMMA LoopFinishes ==
    ASSUME Base, Finishing, Finished, Loop
    PROVE  Finishing' /\ Finished'
<1>1. pc = "pass" /\ todo = {} /\ seen' = seen
    BY DEF Loop, EnterFinal, EndPass, TakeRequest, TakeDependency, PopItem, Turn
<1>2. Quiet => ~posted
    BY <1>1 DEF Finished
<1>3. CASE posted' = posted
    <2>1. Finished'
        BY <1>1, <1>2, <1>3 DEF Finished, Quiet
    <2>2. ASSUME Quiet', final' PROVE Finishing'
        <3>1. Quiet
            BY <1>1, <2>2 DEF Quiet
        <3>2. CASE EnterFinal
            BY <3>2, EnterFinishes
        <3>3. CASE EndPass
            BY <3>3 DEF EndPass, LeavePass, Finishing
        <3>4. CASE TakeRequest
            BY <2>2, <3>4 DEF TakeRequest, Turn, Base, FirstTurn
        <3>5. CASE TakeDependency
            <4>1. Active # {} /\ final
                BY <2>2, <3>5 DEF TakeDependency
            <4> QED
                BY <1>1, <3>1, <4>1, NoneActive DEF Finishing
        <3>6. CASE PopItem
            <4>1. final
                BY <2>2, <3>6 DEF PopItem
            <4> QED
                BY <3>1, <3>6, <4>1, PopFinishes
        <3> QED
            BY <3>2, <3>3, <3>4, <3>5, <3>6 DEF Loop
    <2> QED
        BY <2>1, <2>2 DEF Finishing
<1>4. CASE posted' # posted
    <2>1. EndPass
        BY <1>4 DEF Loop, EnterFinal, TakeRequest, TakeDependency, PopItem
    <2>2. /\ work = <<>> /\ (final \/ ~FinalAllowed) /\ pc' = "idle"
          /\ posted' = (posted \/ ~AnyDelayed) /\ UNCHANGED <<known, analysis>>
        BY <2>1 DEF EndPass, LeavePass
    <2>3. ~AnyDelayed /\ final
        BY <1>4, <2>2 DEF FinalAllowed, Base, Typed
    <2>4. ASSUME Quiet PROVE \A t \in Wanted : Settled(t)
        BY <1>1, <2>2, <2>3, <2>4 DEF Finishing, Covered
    <2>5. ~AnyDelayed' /\ Wanted' = Wanted /\ \A t : Settled(t)' <=> Settled(t)
        BY <2>2, <2>3 DEF AnyDelayed, Wanted, Settled
    <2> QED
        BY <1>1, <2>2, <2>4, <2>5 DEF Finishing, Finished, Quiet
<1> QED
    BY <1>3, <1>4

LEMMA FinishingStep ==
    ASSUME Base, Undeclared, Finishing, Finished, [Next]_vars
    PROVE  Finishing' /\ Finished'
<1>1. Quiet' => Quiet
    BY SeenGrows DEF Quiet
<1>2. CASE Loop
    BY <1>2, LoopFinishes
<1>3. CASE RunModule
    <2>1. pc = "pass" /\ posted' = posted /\ (~final => ~final')
        BY <1>3, FinalStays
    <2>2. Finished'
        BY <1>1, <2>1 DEF Finished
    <2>3. ASSUME Quiet', final' PROVE Finishing'
        <3>1. Quiet /\ final
            BY <1>1, <2>1, <2>3
        <3> QED
            BY <1>3, <2>3, <3>1, ModuleFinishes
    <2> QED
        BY <2>2, <2>3 DEF Finishing
<1>4. CASE Cancel
    BY <1>4 DEF Cancel, Saw, LeavePass, Finishing, Finished, Quiet
<1>5. ASSUME NEW t \in Tasks, Resume(t) PROVE Finishing' /\ Finished'
    <2>1. pc = "idle" /\ t \in pending /\ UNCHANGED <<final, posted>>
        BY <1>5 DEF Resume
    <2>2. AnyDelayed
        BY <2>1 DEF AnyDelayed, Base, Touched
    <2>3. ~(Quiet /\ posted) /\ ~final
        BY <2>1, <2>2 DEF Finished, Base, Between
    <2> QED
        BY <1>1, <2>1, <2>3 DEF Finishing, Finished
<1>6. CASE UNCHANGED vars
    <2>1. /\ Quiet' = Quiet /\ AnyDelayed' = AnyDelayed /\ Wanted' = Wanted
          /\ \A t : (Settled(t)' <=> Settled(t)) /\ (Covered(t)' <=> Covered(t))
        BY <1>6 DEF vars, passVars, workVars, Quiet, AnyDelayed, Wanted, Settled, Covered
    <2>2. \A i : Failed(i)' <=> Failed(i)
        BY <1>6, FailedSame DEF vars
    <2> QED
        BY <1>6, <2>1, <2>2 DEF vars, passVars, workVars, Finishing, Finished
<1> QED
    BY <1>2, <1>3, <1>4, <1>5, <1>6 DEF Next

\* AllSettled, where no module declares dependencies: whatever modules waited for, left
\* open or had delayed over any number of passes, once post-analysis has run there is a
\* verdict of every module on every observable it accepts.
THEOREM AllSettledHolds == ASSUME Undeclared PROVE Spec => []AllSettled
<1> DEFINE Inv == Base /\ Finishing /\ Finished
<1>1. Init => Inv
    BY BaseInit, FinishingInit
<1>2. Inv /\ [Next]_vars => Inv'
    BY BaseStep, FinishingStep
<1>3. Inv => AllSettled
    BY DEF AllSettled, Over, Finished, Quiet
<1> QED
    BY <1>1, <1>2, <1>3, PTL DEF Spec

-----------------------------------------------------------------------------
\* What modules waited for.

Clean == seen \cap {"partial", "error", "unmet", "stop"} = {}

\* A dependency that was completed, resolved or not, has left a verdict.
Done == Clean => \A i \in DOMAIN deps :
            deps[i].status \in {"completed", "resolved"} => Settled(deps[i].tgt)

\* Analysis is open only while the request that resumes it is taken and worked on.
Resumed == Clean => \A t \in Tasks : analysis[t] = "partial" =>
               /\ pc = "pass" /\ request = t
               /\ first \/ (todo = {t[2]} /\ item.obs = t[1] /\ item.mod = t[2])

Undelayed == "delay" \notin Behaviours =>
                 pending = {} /\ (Clean => \A t \in Tasks : analysis[t] # "partial")

Honest == Done /\ Resumed /\ Undelayed

\* A resumed module either finds nothing to defer to, or there are no delays to resume.
Deferless == Undeclared \/ "delay" \notin Behaviours

LEMMA CleanShrinks == ASSUME [Next]_vars, Clean' PROVE Clean
BY SeenGrows DEF Clean

LEMMA NotEmpty == ASSUME NEW t \in Tasks PROVE t # <<>>
<1>1. PICK o \in Observables, m \in Modules : t = <<o, m>>
    BY DEF Tasks
<1>2. Len(t) = 2 /\ Len(<<>>) = 0
    BY <1>1
<1> QED
    BY <1>2

LEMMA HonestInit == Init => Honest
BY DEF Init, Honest, Done, Resumed, Undelayed

\* Between two items nothing is open.
LEMMA NothingOpen ==
    ASSUME Base, Resumed, Clean, todo = {}, ~(request # <<>> /\ first) \/ pc # "pass",
           NEW t \in Tasks
    PROVE  analysis[t] # "partial"
BY NotEmpty DEF Resumed

\* Only the task in hand may be open, and it is the one resumed.
LEMMA OpenInHand ==
    ASSUME Base, Resumed, Clean, todo # {}, NEW t \in Tasks, analysis[t] = "partial"
    PROVE  t = Task /\ Resuming
<1>1. pc = "pass" /\ request = t /\ request # <<>>
    BY NotEmpty DEF Resumed
<1>2. ~first
    BY <1>1 DEF Base, FirstTurn
<1>3. todo = {t[2]} /\ item.obs = t[1] /\ item.mod = t[2]
    BY <1>2 DEF Resumed
<1>4. Task = <<item.obs, Module>> /\ Module \in todo /\ t = <<t[1], t[2]>>
    BY InTurn DEF Tasks
<1> QED
    BY <1>1, <1>3, <1>4 DEF Resuming

\* And the module does not leave it open again.
LEMMA OpenCloses ==
    ASSUME Base, Resumed, Undelayed, Deferless, Clean, Clean', RunModule,
           NEW t \in Tasks, analysis[t] = "partial"
    PROVE  analysis'[t] # "partial"
<1>1. todo # {}
    BY DEF RunModule, Refuse, LeaveDelayed, Defer, NotRequired, Complete, FindNothing, LeaveOpen,
           Delay, Raise, Wait, Finalise, Replay, Runs, Ready, Trying
<1>2. t = Task /\ Resuming
    BY <1>1, OpenInHand
<1>3. ~Refuse /\ ~LeaveDelayed
    BY <1>2 DEF Base, Touched, Refuse, LeaveDelayed, Accepted
<1>4. ~Defer
    <2>1. Undeclared
        BY DEF Deferless, Undelayed
    <2>2. DeclaredUnmet(Task) = {}
        BY <1>2, <2>1 DEF Undeclared, DeclaredUnmet, Tasks
    <2> QED
        BY <2>2 DEF Defer
<1>5. ASSUME NEW b \in {"partial", "error", "unmet"} PROVE ~Saw(b)
    <2>1. b \notin seen'
        BY <1>5 DEF Clean
    <2> QED
        BY <2>1 DEF Saw
<1>6. ~NotRequired /\ ~Raise /\ ~LeaveOpen
    BY <1>5 DEF NotRequired, Raise, LeaveOpen
<1>7. ~Wait /\ ~Replay
    BY <1>2 DEF Wait, Replay
<1>8. Complete \/ FindNothing \/ Delay \/ Finalise
    BY <1>3, <1>4, <1>6, <1>7 DEF RunModule
<1>9. \E a \in {"completed", "absent", "delayed"} : analysis' = [analysis EXCEPT ![Task] = a]
    BY <1>2, <1>8 DEF Complete, FindNothing, Delay, Finalise, Leave
<1> QED
    BY <1>2, <1>9 DEF Base, Typed

LEMMA ModuleHonest ==
    ASSUME Base, Honest, Deferless, RunModule, [Next]_vars
    PROVE  Honest'
<1>1. Idled \/ Aborted \/ \E a \in Content \ {"none"} : Left(a)
    BY ModuleShape
<1>2. analysis \in [Tasks -> Content] /\ deps \in Seq(Dependency)
    BY DEF Base, Typed
<1>3. ASSUME NEW a, Left(a), NEW t \in Tasks
      PROVE  analysis'[t] = IF t = Task THEN a ELSE analysis[t]
    BY <1>2, <1>3 DEF Left
<1>4. ASSUME Clean', NEW t \in Tasks PROVE analysis'[t] # "partial"
    <2>1. Clean
        BY <1>4, CleanShrinks
    <2>2. CASE analysis[t] = "partial"
        BY <1>4, <2>1, <2>2, OpenCloses DEF Honest
    <2>3. CASE analysis[t] # "partial"
        <3>1. CASE Idled \/ Aborted
            BY <2>3, <3>1 DEF Idled, Aborted
        <3>2. ASSUME NEW a, Left(a) PROVE analysis'[t] # "partial"
            <4>1. a # "partial"
                BY <1>4, <3>2 DEF Left, Clean
            <4> QED
                BY <1>3, <2>3, <3>2, <4>1
        <3> QED
            BY <1>1, <3>1, <3>2
    <2> QED
        BY <2>2, <2>3
<1>5. Undelayed'
    <2>1. "delay" \notin Behaviours => pending' = {}
        <3>1. CASE Idled \/ Aborted
            BY <3>1 DEF Idled, Aborted, Honest, Undelayed
        <3>2. ASSUME NEW a, Left(a) PROVE "delay" \notin Behaviours => pending' = {}
            BY <3>2 DEF Left, Honest, Undelayed
        <3> QED
            BY <1>1, <3>1, <3>2
    <2> QED
        BY <1>4, <2>1 DEF Undelayed
<1>6. Resumed'
    BY <1>4 DEF Resumed
<1>7. ASSUME Clean' PROVE \A i \in DOMAIN deps' :
            deps'[i].status \in {"completed", "resolved"}
                => analysis'[deps'[i].tgt] \in {"absent", "completed"}
    <2>1. Clean
        BY <1>7, CleanShrinks
    <2>2. \A i \in DOMAIN deps :
             deps[i].status \in {"completed", "resolved"} => Settled(deps[i].tgt)
        BY <2>1 DEF Honest, Done
    <2>3. ASSUME NEW i \in DOMAIN deps PROVE deps[i].tgt \in Tasks
        <3>1. deps[i] \in Dependency
            BY <1>2
        <3> QED
            BY <3>1 DEF Dependency
    <2>4. CASE Aborted
        BY <2>2, <2>4 DEF Aborted, Settled
    <2>5. CASE Idled
        <3>1. ASSUME NEW i \in DOMAIN deps', deps'[i].status \in {"completed", "resolved"}
              PROVE  i \in DOMAIN deps /\ deps'[i].tgt = deps[i].tgt
                     /\ deps[i].status \in {"completed", "resolved"}
            BY <1>2, <2>5, <3>1 DEF Idled, Moved
        <3> QED
            BY <2>2, <2>5, <3>1 DEF Idled, Settled
    <2>6. ASSUME NEW a \in Content \ {"none"}, Left(a),
                 NEW i \in DOMAIN deps', deps'[i].status \in {"completed", "resolved"}
          PROVE  analysis'[deps'[i].tgt] \in {"absent", "completed"}
        <3>1. /\ i \in DOMAIN deps /\ deps'[i].tgt = deps[i].tgt
              /\ \/ deps[i].status \in {"completed", "resolved"}
                 \/ a \notin {"none", "absent", "delayed"} /\ i = item.dep /\ deps[i].status = "ready"
            BY <1>2, <2>6 DEF Left, Moved
        <3>2. CASE deps[i].status \in {"completed", "resolved"}
            <4>1. Settled(deps[i].tgt) /\ deps[i].tgt \in Tasks
                BY <2>2, <2>3, <3>1, <3>2
            <4>2. deps[i].tgt # Task
                BY <2>6, <4>1 DEF Left, Settled
            <4> QED
                BY <1>3, <2>6, <3>1, <4>1, <4>2 DEF Settled
        <3>3. CASE a \notin {"none", "absent", "delayed"} /\ i = item.dep /\ deps[i].status = "ready"
            <4>1. a = "completed"
                BY <1>7, <2>6, <3>3 DEF Left, Clean, Content
            <4>2. todo # {} /\ item.dep # Nil
                BY <1>2, <2>6, <3>1, <3>3 DEF Left, Nil
            <4>3. deps[i].tgt = <<item.obs, item.mod>> /\ item.mod # Nil
                BY <3>3, <4>2 DEF Base, InHand
            <4>4. deps[i].tgt = Task /\ Task \in Tasks
                BY <4>2, <4>3, InTurn
            <4> QED
                BY <1>3, <2>6, <3>1, <4>1, <4>4 DEF Settled
        <3> QED
            BY <3>1, <3>2, <3>3
    <2> QED
        BY <1>1, <2>4, <2>5, <2>6
<1>8. Done'
    BY <1>7 DEF Done, Settled
<1> QED
    BY <1>5, <1>6, <1>8 DEF Honest

\* A dependency found completed when it is taken has its verdict.
LEMMA TakesHonest == ASSUME Base, Honest, TakeDependency PROVE Honest'
<1> DEFINE d == FirstActive
           owed == deps[d].status = "ready" /\ analysis[deps[d].tgt] = "none"
<1>1. /\ d \in DOMAIN deps /\ deps[d] \in Dependency /\ analysis[deps[d].tgt] # "delayed"
      /\ pc = "pass" /\ todo = {} /\ ~(request # <<>> /\ first)
      /\ deps' = IF ~owed /\ deps[d].status = "ready"
                 THEN SetStatus(deps, d, "completed") ELSE deps
      /\ UNCHANGED <<analysis, pending>>
    BY Taken
<1>2. seen' = seen /\ Clean' = Clean
    BY DEF TakeDependency, Clean
<1>3. ASSUME Clean, NEW t \in Tasks PROVE analysis[t] # "partial"
    BY <1>1, <1>3, NothingOpen DEF Honest
<1>4. Resumed' /\ Undelayed'
    BY <1>1, <1>2, <1>3 DEF Honest, Resumed, Undelayed
<1> HIDE DEF d
<1>5. deps \in Seq(Dependency) /\ analysis \in [Tasks -> Content] /\ deps[d].tgt \in Tasks
    BY <1>1 DEF Base, Typed, Dependency
<1>6. CASE ~owed /\ deps[d].status = "ready"
    <2>1. /\ SetStatus(deps, d, "completed") \in Seq(Dependency)
          /\ Len(SetStatus(deps, d, "completed")) = Len(deps)
          /\ SetStatus(deps, d, "completed")[d].tgt = deps[d].tgt
          /\ \A k \in 1 .. Len(deps) : k # d => SetStatus(deps, d, "completed")[k] = deps[k]
        BY <1>1, <1>5, StatusSet
    <2>2. Clean => Settled(deps[d].tgt)
        BY <1>1, <1>3, <1>5, <1>6 DEF Settled, Content
    <2>3. deps' = SetStatus(deps, d, "completed")
        BY <1>1, <1>6
    <2>4. ASSUME Clean, NEW i \in DOMAIN deps', deps'[i].status \in {"completed", "resolved"}
          PROVE  Settled(deps'[i].tgt)
        <3>1. i \in DOMAIN deps /\ i \in 1 .. Len(deps)
            BY <1>5, <2>1, <2>3, <2>4
        <3>2. CASE i = d
            BY <2>1, <2>2, <2>3, <2>4, <3>2
        <3>3. CASE i # d
            BY <2>1, <2>3, <2>4, <3>1, <3>3 DEF Honest, Done
        <3> QED
            BY <3>2, <3>3
    <2>5. Done'
        BY <1>1, <1>2, <2>4 DEF Done, Settled
    <2> QED
        BY <1>4, <2>5 DEF Honest
<1>7. CASE ~(~owed /\ deps[d].status = "ready")
    <2>1. deps' = deps
        BY <1>1, <1>7
    <2>2. Done'
        BY <1>1, <1>2, <2>1 DEF Honest, Done, Settled
    <2> QED
        BY <1>4, <2>2 DEF Honest
<1> QED
    BY <1>6, <1>7

LEMMA LoopHonest == ASSUME Base, Honest, Loop PROVE Honest'
<1>1. pc = "pass" /\ todo = {} /\ Clean' = Clean
    BY DEF Loop, EnterFinal, EndPass, TakeRequest, TakeDependency, PopItem, Turn, Clean
<1>2. CASE TakeDependency
    BY <1>2, TakesHonest
<1>3. CASE ~TakeDependency
    <2>1. UNCHANGED <<analysis, deps, pending, request>>
        BY <1>3 DEF Loop, EnterFinal, EndPass, TakeRequest, PopItem, LeavePass
    <2>2. Done' /\ Undelayed'
        BY <1>1, <2>1 DEF Honest, Done, Undelayed, Settled
    <2>3. CASE EnterFinal
        <3>1. UNCHANGED <<pc, first, todo, item>>
            BY <2>3 DEF EnterFinal
        <3> QED
            BY <1>1, <2>1, <2>2, <3>1 DEF Honest, Resumed
    <2>4. CASE EndPass \/ PopItem
        <3>1. ~(request # <<>> /\ first)
            BY <1>1, <2>4 DEF EndPass, PopItem, Base, FirstTurn
        <3>2. ASSUME Clean, NEW t \in Tasks PROVE analysis[t] # "partial"
            BY <1>1, <3>1, <3>2, NothingOpen DEF Honest
        <3> QED
            BY <1>1, <2>1, <2>2, <3>2 DEF Honest, Resumed
    <2>5. CASE TakeRequest
        <3>1. work = <<Only(request)>> /\ item' = Head(work) /\ todo' = {Head(work).mod} /\ pc' = pc
            BY <2>5 DEF TakeRequest, Turn, Base, FirstTurn
        <3>2. /\ Head(work) = Only(request) /\ Only(request).obs = request[1]
              /\ Only(request).mod = request[2]
            BY <3>1 DEF Only
        <3>3. /\ item'.obs = request[1] /\ item'.mod = request[2]
              /\ todo' = {request[2]} /\ pc' = "pass"
            BY <1>1, <3>1, <3>2
        <3> QED
            BY <1>1, <2>1, <2>2, <3>3 DEF Honest, Resumed
    <2> QED
        BY <1>3, <2>3, <2>4, <2>5 DEF Loop
<1> QED
    BY <1>2, <1>3

LEMMA ResumeHonest == ASSUME Base, Honest, NEW t \in Tasks, Resume(t) PROVE Honest'
<1>1. /\ pc = "idle" /\ t \in pending /\ pc' = "pass" /\ request' = t /\ first'
      /\ analysis' = [analysis EXCEPT ![t] = IF @ = "delayed" THEN "partial" ELSE @]
      /\ UNCHANGED <<deps, seen, todo>> /\ analysis \in [Tasks -> Content]
    BY DEF Resume, Base, Typed
<1>2. Clean' = Clean /\ todo = {}
    BY <1>1 DEF Clean, Base, Typed
<1>3. ASSUME Clean, NEW u \in Tasks, analysis'[u] = "partial" PROVE u = t
    <2>1. analysis[u] # "partial"
        BY <1>1, <1>2, <1>3, NothingOpen DEF Honest
    <2> QED
        BY <1>1, <1>3, <2>1
<1>4. ASSUME NEW u \in Tasks, Settled(u) PROVE Settled(u)'
    BY <1>1, <1>4 DEF Settled
<1>5. Resumed'
    BY <1>1, <1>2, <1>3 DEF Resumed
<1>6. Undelayed'
    BY <1>1 DEF Honest, Undelayed
<1>7. Done'
    <2>1. ASSUME NEW i \in DOMAIN deps PROVE deps[i].tgt \in Tasks
        <3>1. deps[i] \in Dependency
            BY DEF Base, Typed
        <3> QED
            BY <3>1 DEF Dependency
    <2> QED
        BY <1>1, <1>2, <1>4, <2>1 DEF Honest, Done
<1> QED
    BY <1>5, <1>6, <1>7 DEF Honest

LEMMA HonestStep ==
    ASSUME Base, Honest, Deferless, [Next]_vars
    PROVE  Honest'
<1>1. CASE Loop
    BY <1>1, LoopHonest
<1>2. CASE RunModule
    BY <1>2, ModuleHonest
<1>3. CASE Cancel
    <2>1. ~Clean' /\ pending' = pending
        BY <1>3 DEF Cancel, Saw, LeavePass, Clean
    <2> QED
        BY <2>1 DEF Honest, Done, Resumed, Undelayed
<1>4. ASSUME NEW t \in Tasks, Resume(t) PROVE Honest'
    BY <1>4, ResumeHonest
<1>5. CASE UNCHANGED vars
    BY <1>5 DEF vars, passVars, Honest, Done, Resumed, Undelayed, Clean, Settled
<1> QED
    BY <1>1, <1>2, <1>3, <1>4, <1>5 DEF Next

\* What a closed dependency stands for.
LEMMA ClosedMeans ==
    ASSUME Base, Done, Clean, NEW u \in Tasks, ~Unmet(u)
    PROVE  Settled(u) \/ \E i \in DOMAIN deps : deps[i].tgt = u /\ Failed(i)
<1>1. CASE Closed(u)
    <2> DEFINE on == {i \in DOMAIN deps : deps[i].tgt = u}
    <2>1. on # {} /\ (deps[Min(on)].status \in {"completed", "resolved"} \/ Failed(Min(on)))
        BY <1>1 DEF Closed
    <2>2. on \subseteq Nat
        BY DEF Base, Typed
    <2>3. Min(on) \in on
        <3> HIDE DEF on
        <3> QED
            BY <2>1, <2>2, MinIn
    <2> QED
        BY <2>1, <2>3 DEF Done
<1>2. CASE ~Closed(u)
    <2>1. analysis[u] \in Content /\ analysis[u] \notin {"none", "partial", "delayed"}
        BY <1>2 DEF Unmet, Base, Typed
    <2> QED
        BY <2>1 DEF Settled, Content
<1> QED
    BY <1>1, <1>2

\* WaitsHonoured, where no module declares dependencies or none delays: over any number
\* of passes a module runs to its end only over what it asked for.
THEOREM WaitsHonouredHolds == ASSUME Deferless PROVE Spec => WaitsHonoured
<1> DEFINE Inv == Base /\ Honest
           Act == Executes /\ ~(Resuming /\ analysis[Task] = "partial")
                  /\ seen \cap {"partial", "error", "unmet", "stop"} = {}
                  => \A u \in Awaited(Task) :
                        Settled(u) \/ \E i \in DOMAIN deps : deps[i].tgt = u /\ Failed(i)
<1>1. Init => Inv
    BY BaseInit, HonestInit
<1>2. Inv /\ [Next]_vars => Inv'
    BY BaseStep, HonestStep
<1>3. Inv => Act
    <2> SUFFICES ASSUME Base, Honest, Executes, ~(Resuming /\ analysis[Task] = "partial"), Clean,
                        NEW u \in Awaited(Task)
                 PROVE  Settled(u) \/ \E i \in DOMAIN deps : deps[i].tgt = u /\ Failed(i)
        BY DEF Clean
    <2>1. Runs(Task)
        BY DEF Executes, Complete, FindNothing, LeaveOpen, Delay
    <2>2. ~Unmet(u) /\ todo # {}
        BY <2>1 DEF Runs, Ready, Trying
    <2>3. u \in Tasks
        BY <2>2, InTurn, ExecutorAssumption DEF Awaited, Base, Typed
    <2> QED
        BY <2>2, <2>3, ClosedMeans DEF Honest
<1> QED
    BY <1>1, <1>2, <1>3, PTL DEF Spec, WaitsHonoured

-----------------------------------------------------------------------------
\* Every task has its turn.

\* Where Thorough promises something while the executor goes on.
Calm == Quiet /\ pc # "aborted" /\ Flat /\ ("delay" \in seen => Local)

Live(i) == deps[i].status \in {"ready", "completed"}

\* Dependencies come from wait_for_analysis.
OnWaits == \A i \in DOMAIN deps : deps[i].tgt \in waits[deps[i].src]

\* Everything is about observables of the root.
Placed ==
    /\ buffer = <<>>
    /\ \A n \in DOMAIN work : work[n].obs \in ToSet(known)
    /\ todo # {} => item.obs \in ToSet(known)
    /\ \A i \in DOMAIN deps : deps[i].src[1] \in ToSet(known) /\ deps[i].tgt[1] \in ToSet(known)
    /\ \A t \in Tasks : analysis[t] # "none" => t[1] \in ToSet(known)
    /\ pc = "idle" => work = <<>>
    /\ AnyDelayed => "delay" \in seen

\* A task waits once at a time, is not delayed meanwhile, and not run but for that.
Waiters ==
    /\ \A i \in DOMAIN deps : Live(i) => analysis[deps[i].src] # "delayed"
    /\ \A i, j \in DOMAIN deps : Live(i) /\ Live(j) /\ deps[i].src = deps[j].src => i = j
    /\ \A i \in DOMAIN deps :
          deps[i].src[2] \in todo /\ deps[i].src[1] = item.obs /\ Live(i) => i = item.dep
    /\ \A i \in DOMAIN deps :
          Live(i) /\ pc = "pass" /\ first /\ request # <<>> => deps[i].src # request

\* Dependencies on one task are served in the order they were added.
InOrder == \A j, k \in DOMAIN deps :
    /\ j < k /\ deps[j].tgt = deps[k].tgt
    /\ deps[k].status # "ready" \/ (todo # {} /\ item.dep = k)
    => ~Live(j)

\* The dependency in hand; its target is run for it only when nobody ran it before.
Handed ==
    todo # {} /\ item.dep # Nil =>
        /\ Live(item.dep)
        /\ deps[item.dep].status = "ready" => analysis[deps[item.dep].tgt] = "none" /\ ~Local
        /\ deps[item.dep].status = "completed" => deps[item.dep].src = <<item.obs, item.mod>>

Tried == \A t \in Wanted : Settled(t) => t \in ran

Exhausted == final \/ posted => Wanted \subseteq ran

\* The task ran, or something other than the stack will bring it up.
Due(t) ==
    \/ t \in ran
    \/ analysis[t] = "delayed"
    \/ pc = "pass" /\ first /\ request = t
    \/ \E i \in DOMAIN deps : Live(i) /\ deps[i].src = t
    \/ t[2] \in todo /\ item.obs = t[1]

Stacked(t) == \E n \in DOMAIN work : work[n].obs = t[1] /\ work[n].mod \in {Nil, t[2]}

\* Across observables nothing is delayed, so that nothing is dropped from the stack.
Awake == \A t \in Wanted : Due(t) \/ Stacked(t)

\* Within observables, the stack has what was not begun, and is not needed for the rest.
Untouched(o) ==
    /\ \A m \in Modules : analysis[<<o, m>>] = "none"
    /\ \A i \in DOMAIN deps : deps[i].src[1] # o
    /\ \A n \in DOMAIN work : work[n].obs = o => work[n] = Plain(o)
    /\ todo # {} => item.obs # o
    /\ o \in ToSet(known) => \E n \in DOMAIN work : work[n] = Plain(o)

Visited(o) == \A t \in Accepts : t[1] = o =>
    /\ Due(t)
    /\ Needs(t) = {} => analysis[t] # "none" \/ (t[2] \in todo /\ item.obs = o)

Each == \A o \in Observables : Untouched(o) \/ Visited(o)

Orderly ==
    Calm =>
        /\ OnWaits /\ Placed /\ Waiters /\ InOrder /\ Handed /\ Tried /\ Exhausted
        /\ ~Local => Awake
        /\ Local => Each

\* Without chains of waits a dependency stands for itself.
LEMMA FlatChain ==
    ASSUME Base, OnWaits, Flat, NEW i \in DOMAIN deps
    PROVE  /\ Chain(i) = {i} /\ Cardinality(Chain(i)) = 1
           /\ Failed(i) <=> deps[i].status = "failed"
           /\ DelayedDep(i) <=> analysis[deps[i].src] = "delayed" \/ analysis[deps[i].tgt] = "delayed"
<1>1. ASSUME NEW j \in DOMAIN deps PROVE deps[j].src \in Tasks /\ deps[j].tgt \in waits[deps[j].src]
    <2>1. deps[j] \in Dependency
        BY DEF Base, Typed
    <2> QED
        BY <2>1 DEF Dependency, OnWaits
<1>2. waits[deps[i].tgt] = {}
    <2>1. deps[i].src \in Tasks /\ deps[i].tgt \in Needs(deps[i].src)
        BY <1>1 DEF Needs
    <2>2. Needs(deps[i].tgt) = {}
        BY <2>1 DEF Flat
    <2> QED
        BY <2>2 DEF Needs
<1>3. NextOf(i) = {}
    <2>1. {j \in DOMAIN deps \ {i} : deps[j].src = deps[i].tgt
                                     /\ (j > i \/ (i <= loaded /\ j <= loaded))} = {}
        BY <1>1, <1>2
    <2> QED
        BY <2>1 DEF NextOf
<1>4. {i} \subseteq DOMAIN deps /\ \A j \in {i} : NextOf(j) \subseteq {i}
    BY <1>3
<1>5. Chain(i) = {i}
    <2>1. {i} \in {S \in SUBSET DOMAIN deps : i \in S /\ \A j \in S : NextOf(j) \subseteq S}
        BY <1>4
    <2>2. Chain(i) \subseteq {i}
        BY <2>1 DEF Chain
    <2> QED
        BY <2>2, ChainHas
<1>6. Cardinality({i}) = 1
    BY FS_Singleton
<1> QED
    BY <1>5, <1>6 DEF Failed, DelayedDep

\* The active dependencies are the live ones that nothing delays, and the first is the oldest.
LEMMA FlatActive ==
    ASSUME Base, OnWaits, Flat
    PROVE  /\ \A i \in DOMAIN deps :
                 i \in Active <=> /\ Live(i) /\ analysis[deps[i].src] # "delayed"
                                  /\ analysis[deps[i].tgt] # "delayed"
           /\ Active # {} => FirstActive \in Active /\ \A j \in Active : FirstActive <= j
<1>1. deps \in Seq(Dependency)
    BY DEF Base, Typed
<1>2. ASSUME NEW i \in DOMAIN deps
      PROVE  i \in Active <=> /\ Live(i) /\ analysis[deps[i].src] # "delayed"
                              /\ analysis[deps[i].tgt] # "delayed"
    <2>1. deps[i].status \in {"ready", "completed", "resolved", "failed"}
        <3>1. deps[i] \in Dependency
            BY <1>1
        <3> QED
            BY <3>1 DEF Dependency
    <2> QED
        BY <2>1, FlatChain DEF Active, Live
<1>3. ASSUME Active # {} PROVE FirstActive \in Active /\ \A j \in Active : FirstActive <= j
    <2>1. /\ FirstActive \in Active
          /\ \A j \in Active :
                \/ Cardinality(Chain(FirstActive)) < Cardinality(Chain(j))
                \/ Cardinality(Chain(FirstActive)) = Cardinality(Chain(j)) /\ FirstActive <= j
        BY <1>1, <1>3, FirstActiveIn
    <2>2. \A j \in Active : Cardinality(Chain(j)) = 1
        BY FlatChain DEF Active
    <2> QED
        BY <2>1, <2>2
<1> QED
    BY <1>2, <1>3

\* What a turn of a module makes of the dependencies there were: nothing that waits for the
\* task in hand is left, and another task is given up only if the stack has it.
Onward(ds) ==
    /\ ds \in Seq(Dependency) /\ Len(ds) = Len(deps)
    /\ \A i \in DOMAIN deps :
          /\ ds[i].src = deps[i].src /\ ds[i].tgt = deps[i].tgt
          /\ i # item.dep => ds[i].status = deps[i].status
          /\ ds[i].status \in {"ready", "completed"} => Live(i) /\ deps[i].src # Task
          /\ Live(i) /\ ds[i].status \notin {"ready", "completed"} /\ deps[i].src # Task =>
                /\ ~Local
                /\ \E n \in DOMAIN work' : work'[n] = Only(deps[i].src)

\* The dependency in hand is given the status s, and the others are left alone.
Marked(ds, s) ==
    /\ ds \in Seq(Dependency) /\ Len(ds) = Len(deps)
    /\ \A i \in DOMAIN deps :
          /\ ds[i].src = deps[i].src /\ ds[i].tgt = deps[i].tgt
          /\ ds[i].status = IF i = item.dep THEN s ELSE deps[i].status

LEMMA SetMarks ==
    ASSUME Base, todo # {}, item.dep # Nil, NEW s \in {"ready", "completed", "resolved", "failed"}
    PROVE  Marked(SetStatus(deps, item.dep, s), s)
<1> DEFINE ds == SetStatus(deps, item.dep, s)
<1>1. item.dep \in DOMAIN deps /\ deps \in Seq(Dependency)
    BY DEF Base, Typed, InHand
<1>2. /\ ds \in Seq(Dependency) /\ Len(ds) = Len(deps)
      /\ ds[item.dep].tgt = deps[item.dep].tgt /\ ds[item.dep].src = deps[item.dep].src
      /\ ds[item.dep].status = s
      /\ \A k \in 1 .. Len(deps) : k # item.dep => ds[k] = deps[k]
    BY <1>1, StatusSet
<1> HIDE DEF ds
<1>3. Marked(ds, s)
    BY <1>1, <1>2 DEF Marked
<1> QED
    BY <1>3 DEF ds

LEMMA StayMarks ==
    ASSUME Base, todo # {}, NEW s, item.dep # Nil => s = deps[item.dep].status
    PROVE  Marked(deps, s)
<1>1. deps \in Seq(Dependency) /\ Nil \notin DOMAIN deps
    BY DEF Base, Typed, Nil
<1> QED
    BY <1>1 DEF Marked

LEMMA SpoiledMarks == ASSUME Base, todo # {} PROVE Marked(Spoiled, "failed")
<1>1. CASE item.dep # Nil
    BY <1>1, SetMarks DEF Spoiled
<1>2. CASE item.dep = Nil
    BY <1>2, StayMarks DEF Spoiled
<1> QED
    BY <1>1, <1>2

LEMMA ConsumedMarks ==
    ASSUME Base, todo # {}
    PROVE  \E s : /\ Marked(Consumed, s)
                  /\ item.dep # Nil => s = IF deps[item.dep].status = "completed" THEN "resolved"
                                           ELSE deps[item.dep].status
<1>1. CASE item.dep # Nil /\ deps[item.dep].status = "completed"
    <2>1. Marked(Consumed, "resolved")
        BY <1>1, SetMarks DEF Consumed
    <2> QED
        BY <1>1, <2>1
<1>2. CASE ~(item.dep # Nil /\ deps[item.dep].status = "completed")
    <2>1. Consumed = deps
        BY <1>2 DEF Consumed
    <2>2. Marked(Consumed, deps[item.dep].status)
        BY <2>1, StayMarks
    <2> QED
        BY <1>2, <2>2
<1> QED
    BY <1>1, <1>2

LEMMA MarkedOnward ==
    ASSUME Base, todo # {}, OnWaits, Waiters, Handed, Flat, NEW ds, NEW s, Marked(ds, s),
           item.dep # Nil =>
              /\ deps[item.dep].status = "completed" => s \in {"resolved", "failed"}
              /\ deps[item.dep].status = "ready" /\ s = "failed" =>
                    \E n \in DOMAIN work' : work'[n] = Only(deps[item.dep].src),
           item.dep # Nil /\ deps[item.dep].status = "ready" => s \in {"ready", "failed", "completed"}
    PROVE  Onward(ds)
<1>1. Nil \notin DOMAIN deps /\ deps \in Seq(Dependency)
    BY DEF Base, Typed, Nil
<1>2. ASSUME NEW i \in DOMAIN deps
      PROVE  /\ deps[i].src \in Tasks /\ deps[i].tgt \in waits[deps[i].src]
             /\ deps[i].src # deps[i].tgt
    <2>1. deps[i] \in Dependency
        BY <1>1
    <2>2. deps[i].src \in Tasks /\ deps[i].tgt \in waits[deps[i].src]
        BY <2>1 DEF Dependency, OnWaits
    <2>3. deps[i].tgt \in Needs(deps[i].src)
        BY <2>2 DEF Needs
    <2>4. Needs(deps[i].tgt) = {}
        BY <2>2, <2>3 DEF Flat
    <2> QED
        BY <2>2, <2>3, <2>4
<1>3. Task = <<item.obs, Module>> /\ Module \in todo /\ (item.mod # Nil => Module = item.mod)
    BY InTurn
<1>4. ASSUME item.dep # Nil
      PROVE  /\ item.dep \in DOMAIN deps /\ Live(item.dep)
             /\ deps[item.dep].status = "ready" => deps[item.dep].tgt = Task /\ ~Local
             /\ deps[item.dep].status = "completed" => deps[item.dep].src = Task
    <2>1. item.mod # Nil
        BY <1>4 DEF Base, InHand
    <2> QED
        BY <1>3, <1>4, <2>1 DEF Base, InHand, Handed
<1>5. ASSUME NEW i \in DOMAIN deps, Live(i), deps[i].src = Task PROVE i = item.dep
    <2>1. deps[i].src[2] \in todo /\ deps[i].src[1] = item.obs
        BY <1>3, <1>5
    <2> QED
        BY <1>5, <2>1 DEF Waiters
<1>6. ASSUME NEW i \in DOMAIN deps
      PROVE  /\ i # item.dep => ds[i].status = deps[i].status
             /\ i = item.dep => ds[i].status = s /\ item.dep # Nil
    BY <1>1, <1>6 DEF Marked
<1>7. ASSUME NEW i \in DOMAIN deps, ds[i].status \in {"ready", "completed"}
      PROVE  Live(i) /\ deps[i].src # Task
    <2>1. CASE i # item.dep
        BY <1>5, <1>6, <1>7, <2>1 DEF Live
    <2>2. CASE i = item.dep
        BY <1>2, <1>4, <1>6, <1>7, <2>2 DEF Live
    <2> QED
        BY <2>1, <2>2
<1>8. ASSUME NEW i \in DOMAIN deps, Live(i), ds[i].status \notin {"ready", "completed"},
             deps[i].src # Task
      PROVE  ~Local /\ \E n \in DOMAIN work' : work'[n] = Only(deps[i].src)
    <2>1. i = item.dep
        BY <1>6, <1>8 DEF Live
    <2> QED
        BY <1>4, <1>6, <1>8, <2>1 DEF Live
<1> QED
    BY <1>6, <1>7, <1>8 DEF Onward, Marked

DepsTurned ==
    /\ Len(deps) <= Len(deps')
    /\ \A i \in DOMAIN deps :
          /\ deps'[i].src = deps[i].src /\ deps'[i].tgt = deps[i].tgt
          /\ i # item.dep => deps'[i].status = deps[i].status
          /\ Live(i)' => Live(i) /\ deps[i].src # Task
          /\ Live(i) /\ ~Live(i)' /\ deps[i].src # Task =>
                ~Local /\ \E n \in DOMAIN work' : work'[n] = Only(deps[i].src)
    /\ \A i \in DOMAIN deps' \ DOMAIN deps :
          /\ i = Len(deps) + 1
          /\ deps'[i].status = "ready" /\ deps'[i].src = Task /\ deps'[i].tgt \in waits[Task]
          /\ deps'[i].tgt[1] \in ToSet(known) /\ analysis'[Task] # "delayed"

\* The stack keeps what is on it, and gets what was found and who waited for the task.
StackTurned ==
    /\ buffer' = <<>> /\ ToSet(known) \subseteq ToSet(known')
    /\ \A n \in DOMAIN work : \E k \in DOMAIN work' : work'[k] = work[n]
    /\ \A k \in DOMAIN work' :
          \/ \E n \in DOMAIN work : work[n] = work'[k]
          \/ \E o \in ToSet(known') : work'[k] = Plain(o)
          \/ item.dep # Nil /\ work'[k] = Only(deps[item.dep].src)
    /\ \A o \in ToSet(known') \ ToSet(known) : \E k \in DOMAIN work' : work'[k] = Plain(o)

\* The task ran, is delayed or waits, and is left alone by other tasks.
TaskTurned ==
    /\ \A t \in Tasks \ {Task} : analysis'[t] = analysis[t]
    /\ ran \subseteq ran'
    /\ AnyDelayed' => "delay" \in seen'
    /\ \A t \in Accepts : t = Task =>
          /\ Due(t)'
          /\ Needs(t) = {} => analysis'[t] # "none"
          /\ analysis'[t] \in {"absent", "completed"} => t \in ran'
    /\ final' => final /\ ToSet(known') = ToSet(known)

\* A turn of the module in hand, as long as modules only complete, find observables or
\* nothing, leave analysis open or delay it.
Turned ==
    /\ todo # {} /\ todo' = todo \ {Module} /\ pc = "pass"
    /\ UNCHANGED <<waits, pc, request, first, item, posted>>
    /\ DepsTurned /\ StackTurned /\ TaskTurned

LEMMA OnwardTurned == ASSUME Base, Onward(deps') PROVE DepsTurned
<1>1. Len(deps') = Len(deps) /\ DOMAIN deps' = DOMAIN deps /\ Len(deps) \in Nat
    BY DEF Onward, Base, Typed
<1>2. \A i \in DOMAIN deps :
          /\ deps'[i].src = deps[i].src /\ deps'[i].tgt = deps[i].tgt
          /\ i # item.dep => deps'[i].status = deps[i].status
          /\ Live(i)' => Live(i) /\ deps[i].src # Task
          /\ Live(i) /\ ~Live(i)' /\ deps[i].src # Task =>
                ~Local /\ \E n \in DOMAIN work' : work'[n] = Only(deps[i].src)
    BY DEF Onward, Live
<1> QED
    BY <1>1, <1>2 DEF DepsTurned

LEMMA AppendTurned ==
    ASSUME Base, NEW ds, Onward(ds), NEW u \in waits[Task], u \in Tasks, Task \in Tasks,
           u[1] \in ToSet(known), analysis'[Task] # "delayed",
           deps' = Append(ds, [src |-> Task, tgt |-> u, status |-> "ready"])
    PROVE  DepsTurned
<1> DEFINE d == [src |-> Task, tgt |-> u, status |-> "ready"]
<1>1. d \in Dependency /\ d.src = Task /\ d.tgt = u /\ d.status = "ready"
    BY DEF Dependency
<1>2. deps' = Append(ds, d)
    OBVIOUS
<1> HIDE DEF d
<1>3. /\ ds \in Seq(Dependency) /\ deps \in Seq(Dependency)
      /\ Len(ds) = Len(deps) /\ Len(deps) \in Nat
    BY DEF Onward, Base, Typed
<1>4. /\ Len(deps') = Len(deps) + 1 /\ deps'[Len(deps) + 1] = d /\ deps' \in Seq(Dependency)
      /\ \A i \in DOMAIN deps : deps'[i] = ds[i]
    BY <1>1, <1>2, <1>3
<1>5. \A i \in DOMAIN deps' \ DOMAIN deps : i = Len(deps) + 1
    BY <1>3, <1>4
<1>6. \A i \in DOMAIN deps :
          /\ deps'[i].src = deps[i].src /\ deps'[i].tgt = deps[i].tgt
          /\ i # item.dep => deps'[i].status = deps[i].status
          /\ Live(i)' => Live(i) /\ deps[i].src # Task
          /\ Live(i) /\ ~Live(i)' /\ deps[i].src # Task =>
                ~Local /\ \E n \in DOMAIN work' : work'[n] = Only(deps[i].src)
    BY <1>4 DEF Onward, Live
<1>7. \A i \in DOMAIN deps' \ DOMAIN deps :
          /\ i = Len(deps) + 1
          /\ deps'[i].status = "ready" /\ deps'[i].src = Task /\ deps'[i].tgt = u
    BY <1>1, <1>4, <1>5
<1> QED
    BY <1>3, <1>4, <1>6, <1>7 DEF DepsTurned

\* What emptying the buffer adds to the stack.
LEMMA FlushAdds ==
    ASSUME Base, NEW w, Kept(w, tracker), NEW os \in Seq(Observables), NEW stirred, Flush(w, os, stirred)
    PROVE  /\ buffer' = <<>>
           /\ \A n \in DOMAIN work : \E k \in DOMAIN work' : work'[k] = work[n]
           /\ \A n \in DOMAIN w : \E k \in DOMAIN work' : work'[k] = w[n]
           /\ \A k \in DOMAIN work' : \/ k \in DOMAIN w /\ work'[k] = w[k]
                                      \/ \E m \in DOMAIN os : work'[k] = Plain(os[m])
           /\ \A m \in DOMAIN os : \E k \in DOMAIN work' : work'[k] = Plain(os[m])
<1> DEFINE s == Pushed(w, tracker, os)
<1>1. work' = s.work /\ tracker' = s.tracker
    BY DEF Flush
<1>2. w \in Seq(StackItem) /\ tracker \in SUBSET Observables
    BY DEF Kept
<1>3. Fits(s, w, tracker, os, Len(os))
    BY <1>2, PushedFits
<1>4. Kept(work', tracker') /\ buffer' = <<>>
    BY FlushKept
<1> HIDE DEF s
<1>5. work' \in Seq(StackItem) /\ Len(w) \in Nat /\ Len(w) <= Len(work') /\ Len(os) \in Nat
    BY <1>1, <1>2, <1>3 DEF Fits
<1>6. \A k \in DOMAIN work' : \/ k \in DOMAIN w /\ work'[k] = w[k]
                              \/ \E m \in DOMAIN os : work'[k] = Plain(os[m])
    <2> TAKE k \in DOMAIN work'
    <2>1. CASE k \in DOMAIN w
        BY <1>1, <1>2, <1>3, <2>1 DEF Fits
    <2>2. CASE k \notin DOMAIN w
        <3>1. k \in 1 .. Len(s.work) /\ k > Len(w)
            BY <1>1, <1>2, <1>5, <2>2
        <3> QED
            BY <1>1, <1>3, <3>1 DEF Fits
    <2> QED
        BY <2>1, <2>2
<1>7. \A m \in DOMAIN os : \E k \in DOMAIN work' : work'[k] = Plain(os[m])
    <2> TAKE m \in DOMAIN os
    <2>1. os[m] \in tracker'
        BY <1>1, <1>3 DEF Fits
    <2> QED
        BY <1>4, <2>1 DEF Kept
<1>8. \A n \in DOMAIN w : \E k \in DOMAIN work' : work'[k] = w[n]
    <2> TAKE n \in DOMAIN w
    <2>1. n \in 1 .. Len(w) /\ n \in DOMAIN work'
        BY <1>2, <1>5
    <2> QED
        BY <1>1, <1>3, <2>1 DEF Fits
<1> QED
    BY <1>4, <1>6, <1>7, <1>8 DEF Kept

LEMMA RefuseTurned ==
    ASSUME Base, Calm, Orderly, Refuse
    PROVE  Turned
<1>1. /\ pc = "pass" /\ todo # {} /\ ~Accepted(Task)
      /\ todo' = todo \ {Module} /\ deps' = Spoiled /\ work' = work
      /\ UNCHANGED <<waits, known, analysis, pc, final, request, first, item, tracker, buffer,
                     loaded, pending, posted, ran, delays, seen>>
    BY DEF Refuse, Trying, Skip
<1>2. OnWaits /\ Placed /\ Waiters /\ Handed /\ Tried /\ Flat
    BY DEF Orderly, Calm
<1>3. Task = <<item.obs, Module>> /\ Task \in Tasks /\ (item.mod # Nil => Module = item.mod)
    BY <1>1, InTurn
<1>4. ASSUME item.dep # Nil PROVE deps[item.dep].status # "ready"
    <2> SUFFICES ASSUME deps[item.dep].status = "ready" PROVE FALSE
        OBVIOUS
    <2>1. item.dep \in DOMAIN deps /\ deps[item.dep].tgt = Task
        BY <1>1, <1>3, <1>4 DEF Base, InHand
    <2>2. analysis[Task] = "none"
        BY <1>1, <1>2, <1>4, <2>1 DEF Handed
    <2>3. deps[item.dep] \in Dependency /\ waits \in [Tasks -> SUBSET Accepts]
        BY <2>1 DEF Base, Typed
    <2>4. Task \in Accepts
        BY <1>2, <2>1, <2>3 DEF OnWaits, Dependency
    <2> QED
        BY <1>1, <2>2, <2>4 DEF Accepted
<1>5. Marked(deps', "failed")
    BY <1>1, SpoiledMarks
<1>6. Onward(deps')
    BY <1>1, <1>2, <1>4, <1>5, MarkedOnward
<1>7. DepsTurned
    BY <1>6, OnwardTurned
<1>8. StackTurned
    BY <1>1, <1>2 DEF StackTurned, Placed
<1>9. ASSUME NEW t \in Accepts, t = Task
      PROVE  Due(t)' /\ analysis'[t] # "none" /\ t \in ran'
    <2>1. Settled(t)
        BY <1>1, <1>9 DEF Accepted, Settled
    <2>2. t \in Wanted
        BY <1>1, <1>2, <1>3, <1>9 DEF Wanted, Placed
    <2>3. t \in ran'
        BY <1>1, <1>2, <2>1, <2>2 DEF Tried
    <2> QED
        BY <1>1, <2>1, <2>3 DEF Due, Settled
<1>10. AnyDelayed' => "delay" \in seen'
    BY <1>1, <1>2 DEF AnyDelayed, Placed
<1>11. TaskTurned
    BY <1>1, <1>9, <1>10 DEF TaskTurned
<1> QED
    BY <1>1, <1>7, <1>8, <1>11 DEF Turned

LEMMA DelayedTurned ==
    ASSUME Base, Calm, Orderly, LeaveDelayed
    PROVE  Turned
<1>1. /\ pc = "pass" /\ todo # {} /\ analysis[Task] = "delayed"
      /\ todo' = todo \ {Module} /\ deps' = deps /\ work' = work
      /\ UNCHANGED <<waits, known, analysis, pc, final, request, first, item, tracker, buffer,
                     loaded, pending, posted, ran, delays, seen>>
    BY DEF LeaveDelayed, Trying, Skip
<1>2. OnWaits /\ Placed /\ Waiters /\ Handed /\ Flat
    BY DEF Orderly, Calm
<1>3. Task = <<item.obs, Module>> /\ Task \in Tasks /\ (item.mod # Nil => Module = item.mod)
    BY <1>1, InTurn
<1>4. ASSUME item.dep # Nil PROVE deps[item.dep].status # "completed"
    <2> SUFFICES ASSUME deps[item.dep].status = "completed" PROVE FALSE
        OBVIOUS
    <2>1. item.dep \in DOMAIN deps /\ deps[item.dep].src = Task /\ Live(item.dep)
        BY <1>1, <1>2, <1>3, <1>4 DEF Base, InHand, Handed
    <2> QED
        BY <1>1, <1>2, <2>1 DEF Waiters
<1>5. Marked(deps', deps[item.dep].status)
    BY <1>1, StayMarks
<1>6. ASSUME item.dep # Nil, deps[item.dep].status = "ready" PROVE FALSE
    <2>1. item.dep \in DOMAIN deps /\ deps[item.dep].tgt = Task
        BY <1>1, <1>3, <1>6 DEF Base, InHand
    <2> QED
        BY <1>1, <1>2, <1>6, <2>1 DEF Handed
<1>7. Onward(deps')
    BY <1>1, <1>2, <1>4, <1>5, <1>6, MarkedOnward
<1>8. DepsTurned
    BY <1>7, OnwardTurned
<1>9. StackTurned
    BY <1>1, <1>2 DEF StackTurned, Placed
<1>10. AnyDelayed' => "delay" \in seen'
    BY <1>1, <1>2 DEF AnyDelayed, Placed
<1>11. TaskTurned
    BY <1>1, <1>10 DEF TaskTurned, Due
<1> QED
    BY <1>1, <1>8, <1>9, <1>11 DEF Turned

\* A task that waits for something unmet has no dependency on it yet.
LEMMA WaitsAnew ==
    ASSUME Base, Calm, Orderly, todo # {}, NEW u \in Tasks, Unmet(u)
    PROVE  Onward(Consumed) /\ ~Depends(Consumed, Task, u)
<1>1. OnWaits /\ Placed /\ Waiters /\ InOrder /\ Handed /\ Flat
    BY DEF Orderly, Calm
<1>2. PICK s : /\ Marked(Consumed, s)
               /\ item.dep # Nil => s = IF deps[item.dep].status = "completed" THEN "resolved"
                                        ELSE deps[item.dep].status
    BY ConsumedMarks
<1>3. Onward(Consumed)
    BY <1>1, <1>2, MarkedOnward
<1>4. ASSUME NEW k \in DOMAIN Consumed, Consumed[k].src = Task, Consumed[k].tgt = u PROVE FALSE
    <2>1. /\ k \in DOMAIN deps /\ DOMAIN deps \subseteq Nat
          /\ deps \in Seq(Dependency) /\ Consumed \in Seq(Dependency)
        BY <1>2, <1>4 DEF Marked, Base, Typed
    <2>2. deps[k].src = Task /\ deps[k].tgt = u /\ Consumed[k].status \notin {"ready", "completed"}
        BY <1>3, <1>4, <2>1 DEF Onward
    <2>3. deps[k].status # "ready"
        BY <1>2, <2>1, <2>2 DEF Marked, Nil
    <2> DEFINE on == {i \in DOMAIN deps : deps[i].tgt = u}
    <2>4. Min(on) \in on /\ Min(on) <= k
        <3>1. k \in on /\ on \subseteq Nat
            BY <2>1, <2>2
        <3> HIDE DEF on
        <3> QED
            BY <3>1, MinIn
    <2>5. deps[Min(on)].status \notin {"completed", "resolved"} /\ ~Failed(Min(on))
        BY <2>4 DEF Unmet, Closed
    <2> DEFINE j == Min(on)
    <2>6. j \in DOMAIN deps /\ deps[j].tgt = u /\ j <= k
        BY <2>4
    <2> HIDE DEF j
    <2>7. deps[j].status \notin {"completed", "resolved"} /\ ~Failed(j)
        BY <2>5 DEF j
    <2>8. deps[j].status # "failed"
        BY <1>1, <2>6, <2>7, FlatChain
    <2>9. deps[j].status = "ready"
        <3>1. deps[j] \in Dependency
            BY <2>1, <2>6
        <3> QED
            BY <2>7, <2>8, <3>1 DEF Dependency
    <2>10. j < k
        BY <2>1, <2>3, <2>6, <2>9
    <2> QED
        BY <1>1, <2>1, <2>2, <2>3, <2>6, <2>9, <2>10 DEF InOrder, Live
<1> QED
    BY <1>3, <1>4 DEF Depends

LEMMA WaitTurned ==
    ASSUME Base, Calm, Calm', Orderly, Wait
    PROVE  Turned
<1>1. /\ pc = "pass" /\ todo # {} /\ Accepted(Task) /\ analysis[Task] # "delayed" /\ ~final
      /\ seen' = seen
    BY DEF Wait, Ready, Trying
<1>2. PICK u \in Awaited(Task) :
         /\ Unmet(u)
         /\ deps' = Added(Consumed, Task, u) /\ todo' = todo \ {Module}
         /\ Flush(work, buffer, buffer # <<>>)
         /\ UNCHANGED <<waits, known, analysis, pc, request, first, item, loaded, pending,
                        posted, ran, delays>>
    <2>1. ~Abort
        BY DEF Calm, Abort
    <2> QED
        BY <2>1 DEF Wait
<1>3. Placed
    BY DEF Orderly, Calm
<1>4. Task \in Tasks /\ u \in waits[Task] /\ u \in Tasks /\ u[1] \in ToSet(known)
    <2>1. Task \in Tasks /\ waits \in [Tasks -> SUBSET Accepts]
        BY <1>1, InTurn DEF Base, Typed
    <2> QED
        BY <1>2, <2>1, ExecutorAssumption DEF Awaited
<1>5. Onward(Consumed) /\ ~Depends(Consumed, Task, u)
    BY <1>1, <1>2, <1>4, WaitsAnew
<1>6. DepsTurned
    <2>1. deps' = Append(Consumed, [src |-> Task, tgt |-> u, status |-> "ready"])
        BY <1>2, <1>5 DEF Added
    <2>2. analysis'[Task] # "delayed"
        BY <1>1, <1>2
    <2> QED
        BY <1>4, <1>5, <2>1, <2>2, AppendTurned
<1>7. StackTurned
    <2>1. buffer = <<>> /\ Kept(work, tracker) /\ <<>> \in Seq(Observables)
        BY <1>3, WorkKept DEF Placed
    <2>2. Flush(work, <<>>, buffer # <<>>)
        BY <1>2, <2>1
    <2>3. /\ buffer' = <<>>
          /\ \A n \in DOMAIN work : \E k \in DOMAIN work' : work'[k] = work[n]
          /\ \A k \in DOMAIN work' : \/ k \in DOMAIN work /\ work'[k] = work[k]
                                     \/ \E m \in DOMAIN <<>> : work'[k] = Plain(<<>>[m])
        BY <2>1, <2>2, FlushAdds
    <2>4. DOMAIN <<>> = {}
        OBVIOUS
    <2>5. \A k \in DOMAIN work' : \E n \in DOMAIN work : work[n] = work'[k]
        BY <2>3, <2>4
    <2> QED
        BY <1>2, <2>3, <2>5 DEF StackTurned
<1>8. TaskTurned
    <2>1. AnyDelayed' => "delay" \in seen'
        BY <1>1, <1>2, <1>3 DEF AnyDelayed, Placed
    <2>2. Needs(Task) # {}
        BY <1>4 DEF Needs
    <2>3. ~final'
        BY <1>1, <1>2 DEF Flush
    <2>4. \E i \in DOMAIN deps' : Live(i)' /\ deps'[i].src = Task
        <3> DEFINE d == [src |-> Task, tgt |-> u, status |-> "ready"]
        <3>1. deps' = Append(Consumed, d)
            BY <1>2, <1>5 DEF Added
        <3>2. d \in Dependency /\ d.src = Task /\ d.status = "ready" /\ Consumed \in Seq(Dependency)
            BY <1>4, <1>5 DEF Dependency, Onward
        <3> HIDE DEF d
        <3>3. Len(Consumed) + 1 \in DOMAIN deps' /\ deps'[Len(Consumed) + 1] = d
            BY <3>1, <3>2
        <3> QED
            BY <3>2, <3>3 DEF Live
    <2>5. \A t \in Accepts : t = Task => Due(t)'
        BY <2>4 DEF Due
    <2>6. analysis'[Task] \notin {"absent", "completed"}
        BY <1>1, <1>2 DEF Accepted
    <2> QED
        BY <1>2, <2>1, <2>2, <2>3, <2>5, <2>6 DEF TaskTurned
<1> QED
    BY <1>1, <1>2, <1>6, <1>7, <1>8 DEF Turned

LEMMA JoinedSet ==
    ASSUME NEW S, NEW s \in Seq(S), NEW t \in Seq(S)
    PROVE  ToSet(s \o t) = ToSet(s) \cup ToSet(t)
<1>1. /\ Len(s \o t) = Len(s) + Len(t) /\ Len(s) \in Nat /\ Len(t) \in Nat
      /\ \A k \in 1 .. Len(s) : (s \o t)[k] = s[k]
      /\ \A k \in 1 .. Len(t) : (s \o t)[Len(s) + k] = t[k]
    OBVIOUS
<1>2. DOMAIN s = 1 .. Len(s) /\ DOMAIN t = 1 .. Len(t) /\ DOMAIN (s \o t) = 1 .. Len(s) + Len(t)
    OBVIOUS
<1>3. \A k \in 1 .. Len(s) + Len(t) : k \in 1 .. Len(s) \/ \E m \in 1 .. Len(t) : k = Len(s) + m
    <2> TAKE k \in 1 .. Len(s) + Len(t)
    <2>1. CASE k > Len(s)
        <3>1. k - Len(s) \in 1 .. Len(t) /\ k = Len(s) + (k - Len(s))
            BY <1>1, <2>1
        <3> QED
            BY <3>1
    <2> QED
        BY <1>1, <2>1
<1>4. \A x : (\E k \in 1 .. Len(s) + Len(t) : (s \o t)[k] = x)
             <=> (\E k \in 1 .. Len(s) : s[k] = x) \/ (\E k \in 1 .. Len(t) : t[k] = x)
    <2> TAKE x
    <2>1. ASSUME NEW k \in 1 .. Len(t), t[k] = x
          PROVE  \E n \in 1 .. Len(s) + Len(t) : (s \o t)[n] = x
        <3>1. Len(s) + k \in 1 .. Len(s) + Len(t)
            BY <1>1
        <3> QED
            BY <1>1, <2>1, <3>1
    <2>2. ASSUME NEW k \in 1 .. Len(s), s[k] = x
          PROVE  \E n \in 1 .. Len(s) + Len(t) : (s \o t)[n] = x
        <3>1. k \in 1 .. Len(s) + Len(t)
            BY <1>1
        <3> QED
            BY <1>1, <2>2, <3>1
    <2>3. ASSUME NEW k \in 1 .. Len(s) + Len(t), (s \o t)[k] = x
          PROVE  (\E n \in 1 .. Len(s) : s[n] = x) \/ (\E n \in 1 .. Len(t) : t[n] = x)
        BY <1>1, <1>3, <2>3
    <2> QED
        BY <2>1, <2>2, <2>3
<1> QED
    BY <1>2, <1>4 DEF ToSet

LEMMA DiscoveredSet ==
    ASSUME Base, NEW found \in SUBSET Observables, IsFiniteSet(found)
    PROVE  ToSet(Discovered(found)) = ToSet(known) \cup found
<1> DEFINE s == SetToSeq(found \ ToSet(known))
<1>1. IsFiniteSet(found \ ToSet(known))
    BY FS_Difference
<1>2. s \in Seq(found \ ToSet(known)) /\ ToSet(s) = found \ ToSet(known)
    BY <1>1, Listed
<1> HIDE DEF s
<1>3. s \in Seq(Observables) /\ known \in Seq(Observables)
    BY <1>2 DEF Base, Typed
<1>4. ToSet(known \o s) = ToSet(known) \cup ToSet(s)
    BY <1>3, JoinedSet
<1> QED
    BY <1>2, <1>4 DEF Discovered, s

LEMMA EventSet ==
    ASSUME NEW t \in Tasks, NEW a, NEW found \in SUBSET Observables, IsFiniteSet(found)
    PROVE  /\ found \subseteq ToSet(Events(t, a, found))
           /\ ToSet(Events(t, a, found)) \subseteq {t[1]} \cup found
<1> DEFINE h == IF analysis[t] = "none" /\ a \notin {"none", "absent"} THEN <<t[1]>> ELSE <<>>
           s == SetToSeq(found)
<1>1. s \in Seq(found) /\ ToSet(s) = found
    BY Listed
<1>2. t[1] \in Observables
    BY DEF Tasks
<1>3. h \in Seq(Observables) /\ ToSet(h) \subseteq {t[1]}
    BY <1>2 DEF ToSet
<1>4. Events(t, a, found) = h \o s
    BY DEF Events
<1> HIDE DEF s, h
<1>5. s \in Seq(Observables)
    BY <1>1
<1>6. ToSet(h \o s) = ToSet(h) \cup ToSet(s)
    BY <1>3, <1>5, JoinedSet
<1> QED
    BY <1>1, <1>3, <1>4, <1>6

\* What _process_generated_analysis makes of the dependency in hand and of the stack.
LEMMA AfterMarks ==
    ASSUME Base, todo # {}, Handed, NEW a \in {"absent", "partial", "delayed", "completed"}
    PROVE  /\ Kept(AfterModule(a).w, tracker)
           /\ \A n \in DOMAIN AfterModule(a).w :
                 \/ \E k \in DOMAIN work : work[k] = AfterModule(a).w[n]
                 \/ item.dep # Nil /\ AfterModule(a).w[n] = Only(deps[item.dep].src)
           /\ \E s : /\ Marked(AfterModule(a).ds, s)
                     /\ item.dep # Nil =>
                           /\ deps[item.dep].status = "completed" => s \in {"resolved", "failed"}
                           /\ deps[item.dep].status = "ready" =>
                                 /\ s \in {"ready", "failed", "completed"}
                                 /\ s = "failed" => \E n \in DOMAIN AfterModule(a).w :
                                       AfterModule(a).w[n] = Only(deps[item.dep].src)
<1>1. Kept(AfterModule(a).w, tracker)
    BY AfterMoves
<1>2. CASE ~ForReady
    <2>1. AfterModule(a) = [ds |-> Consumed, w |-> work]
        BY <1>2 DEF AfterModule
    <2>2. AfterModule(a).ds = Consumed /\ AfterModule(a).w = work
        BY <2>1
    <2>3. PICK s : /\ Marked(Consumed, s)
                   /\ item.dep # Nil => s = IF deps[item.dep].status = "completed" THEN "resolved"
                                            ELSE deps[item.dep].status
        BY ConsumedMarks
    <2>4. item.dep # Nil => deps[item.dep].status # "ready"
        BY <1>2 DEF ForReady
    <2> QED
        BY <1>1, <2>2, <2>3, <2>4
<1>3. CASE ForReady
    <2>1. item.dep # Nil /\ item.dep \in DOMAIN deps /\ deps[item.dep].status = "ready"
        BY <1>3 DEF ForReady, Base, InHand
    <2> DEFINE e == Only(deps[item.dep].src)
    <2>2. /\ 1 \in DOMAIN Requeued /\ Requeued[1] = e
          /\ \A n \in DOMAIN Requeued : Requeued[n] = e \/ \E k \in DOMAIN work : work[k] = Requeued[n]
        <3>1. work \in Seq(StackItem) /\ Requeued = <<e>> \o work
            BY DEF Requeued, Base, Typed
        <3>2. e \in StackItem
            <4>1. deps[item.dep] \in Dependency
                BY <2>1 DEF Base, Typed
            <4>2. deps[item.dep].src \in Tasks
                BY <4>1 DEF Dependency
            <4> QED
                BY <4>2 DEF Only, StackItem, Tasks
        <3> HIDE DEF e
        <3>3. /\ Len(<<e>> \o work) = Len(work) + 1 /\ (<<e>> \o work)[1] = e
              /\ <<e>> \o work \in Seq(StackItem)
              /\ \A k \in 1 .. Len(work) : (<<e>> \o work)[k + 1] = work[k]
            BY <3>1, <3>2
        <3>4. ASSUME NEW n \in DOMAIN Requeued, n # 1
              PROVE  \E k \in DOMAIN work : work[k] = Requeued[n]
            <4>1. n - 1 \in 1 .. Len(work) /\ (n - 1) + 1 = n /\ n - 1 \in DOMAIN work
                BY <3>1, <3>3, <3>4
            <4> QED
                BY <3>1, <3>3, <4>1
        <3> QED
            BY <3>1, <3>3, <3>4
    <2>3. CASE a = "absent"
        <3>1. AfterModule(a) = [ds |-> Spoiled, w |-> Requeued]
            BY <1>3, <2>3 DEF AfterModule
        <3>2. AfterModule(a).ds = Spoiled /\ AfterModule(a).w = Requeued
            BY <3>1
        <3>3. Marked(Spoiled, "failed")
            BY SpoiledMarks
        <3> QED
            BY <1>1, <2>1, <2>2, <3>2, <3>3
    <2>4. CASE a = "delayed"
        <3>1. AfterModule(a) = [ds |-> deps, w |-> work]
            BY <1>3, <2>4 DEF AfterModule
        <3>2. AfterModule(a).ds = deps /\ AfterModule(a).w = work
            BY <3>1
        <3>3. Marked(deps, "ready")
            BY <2>1, StayMarks
        <3> QED
            BY <1>1, <2>1, <3>2, <3>3
    <2>5. CASE a \in {"partial", "completed"}
        <3>1. AfterModule(a) = [ds |-> SetStatus(deps, item.dep, "completed"), w |-> Requeued]
            BY <1>3, <2>5 DEF AfterModule
        <3>2. /\ AfterModule(a).ds = SetStatus(deps, item.dep, "completed")
              /\ AfterModule(a).w = Requeued
            BY <3>1
        <3>3. Marked(SetStatus(deps, item.dep, "completed"), "completed")
            BY <2>1, SetMarks
        <3> QED
            BY <1>1, <2>1, <2>2, <3>2, <3>3
    <2> QED
        BY <2>3, <2>4, <2>5
<1> QED
    BY <1>2, <1>3

LEMMA LeaveTurned ==
    ASSUME Base, Calm, Orderly, Ready(Task), NEW a \in {"absent", "partial", "delayed", "completed"},
           NEW found \in SUBSET Observables, IsFiniteSet(found), Leave(Task, a, found),
           ran \subseteq ran', seen \subseteq seen', a = "delayed" => "delay" \in seen',
           IF final THEN found = {} /\ a # "delayed" ELSE a # "delayed" => Task \in ran'
    PROVE  Turned
<1>1. pc = "pass" /\ todo # {} /\ Task \in Accepts /\ Task \in Tasks /\ Task[1] = item.obs
    BY InTurn DEF Ready, Trying, Accepted
<1>2. OnWaits /\ Placed /\ Waiters /\ Handed /\ Tried /\ Exhausted /\ Flat
    BY DEF Orderly, Calm
<1> DEFINE w == AfterModule(a).w
           ds == AfterModule(a).ds
           os == buffer \o Events(Task, a, found)
           stirred == Stirred(Task, a, found)
<1>3. /\ todo' = todo \ {Module} /\ analysis' = [analysis EXCEPT ![Task] = a]
      /\ known' = Discovered(found) /\ deps' = ds
      /\ Flush(w, os, stirred)
      /\ UNCHANGED <<waits, pc, request, first, item, loaded, posted>>
    BY DEF Leave
<1>4. final' => final
    BY <1>3 DEF Flush
<1>5. Kept(w, tracker)
    BY <1>1, <1>2, AfterMarks
<1>6. \A n \in DOMAIN w : \/ \E k \in DOMAIN work : work[k] = w[n]
                          \/ item.dep # Nil /\ w[n] = Only(deps[item.dep].src)
    BY <1>1, <1>2, AfterMarks
<1>7. PICK s : /\ Marked(ds, s)
               /\ item.dep # Nil =>
                     /\ deps[item.dep].status = "completed" => s \in {"resolved", "failed"}
                     /\ deps[item.dep].status = "ready" =>
                           /\ s \in {"ready", "failed", "completed"}
                           /\ s = "failed" => \E n \in DOMAIN w : w[n] = Only(deps[item.dep].src)
    BY <1>1, <1>2, AfterMarks
<1>8. /\ os \in Seq(Observables)
      /\ found \subseteq ToSet(os) /\ ToSet(os) \subseteq {item.obs} \cup found
    <2>1. Events(Task, a, found) \in Seq(Observables) /\ buffer = <<>>
        BY <1>1, <1>2, EventsTyped DEF Placed
    <2>2. os = Events(Task, a, found)
        BY <2>1
    <2> QED
        BY <1>1, <2>1, <2>2, EventSet
<1>9. ToSet(known') = ToSet(known) \cup found
    BY <1>3, DiscoveredSet
<1>10. analysis'[Task] = a /\ \A t \in Tasks \ {Task} : analysis'[t] = analysis[t]
    BY <1>1, <1>3 DEF Base, Typed
<1> HIDE DEF w, ds, os, stirred
<1>11. /\ buffer' = <<>>
       /\ \A n \in DOMAIN work : \E k \in DOMAIN work' : work'[k] = work[n]
       /\ \A n \in DOMAIN w : \E k \in DOMAIN work' : work'[k] = w[n]
       /\ \A k \in DOMAIN work' : \/ k \in DOMAIN w /\ work'[k] = w[k]
                                  \/ \E m \in DOMAIN os : work'[k] = Plain(os[m])
       /\ \A m \in DOMAIN os : \E k \in DOMAIN work' : work'[k] = Plain(os[m])
    BY <1>3, <1>5, <1>8, FlushAdds
<1>12. DepsTurned
    <2>1. ASSUME item.dep # Nil, deps[item.dep].status = "ready", s = "failed"
          PROVE  \E n \in DOMAIN work' : work'[n] = Only(deps[item.dep].src)
        BY <1>7, <1>11, <2>1
    <2>2. Onward(deps')
        BY <1>1, <1>2, <1>3, <1>7, <2>1, MarkedOnward
    <2> QED
        BY <2>2, OnwardTurned
<1>13. StackTurned
    <2>1. ASSUME NEW m \in DOMAIN os PROVE os[m] \in ToSet(known')
        <3>1. os[m] \in ToSet(os)
            BY <2>1 DEF ToSet
        <3>2. item.obs \in ToSet(known)
            BY <1>1, <1>2 DEF Placed
        <3> QED
            BY <1>8, <1>9, <3>1, <3>2
    <2>2. ASSUME NEW o \in ToSet(known') \ ToSet(known)
          PROVE  \E k \in DOMAIN work' : work'[k] = Plain(o)
        <3>1. o \in ToSet(os)
            BY <1>8, <1>9
        <3>2. PICK m \in DOMAIN os : os[m] = o
            BY <3>1 DEF ToSet
        <3> QED
            BY <1>11, <3>2
    <2>3. ASSUME NEW k \in DOMAIN work'
          PROVE  \/ \E n \in DOMAIN work : work[n] = work'[k]
                 \/ \E o \in ToSet(known') : work'[k] = Plain(o)
                 \/ item.dep # Nil /\ work'[k] = Only(deps[item.dep].src)
        <3>1. CASE k \in DOMAIN w /\ work'[k] = w[k]
            BY <1>6, <3>1
        <3>2. CASE \E m \in DOMAIN os : work'[k] = Plain(os[m])
            BY <2>1, <3>2
        <3> QED
            BY <1>11, <3>1, <3>2
    <2> QED
        BY <1>9, <1>11, <2>2, <2>3 DEF StackTurned
<1>14. TaskTurned
    <2>1. AnyDelayed' => "delay" \in seen'
        <3> SUFFICES ASSUME NEW t \in Tasks, analysis'[t] = "delayed" PROVE "delay" \in seen'
            BY DEF AnyDelayed
        <3>1. CASE t = Task
            BY <1>10, <3>1
        <3>2. CASE t # Task
            BY <1>2, <1>10, <3>2 DEF AnyDelayed, Placed
        <3> QED
            BY <3>1, <3>2
    <2>2. a # "delayed" => Task \in ran'
        <3>1. CASE final
            <4>1. Task \in Wanted
                BY <1>1, <1>2 DEF Wanted, Placed
            <4> QED
                BY <1>2, <3>1, <4>1 DEF Exhausted
        <3> QED
            BY <3>1
    <2>3. ASSUME NEW t \in Accepts, t = Task
          PROVE  /\ Due(t)' /\ analysis'[t] # "none"
                 /\ analysis'[t] \in {"absent", "completed"} => t \in ran'
        BY <1>10, <2>2, <2>3 DEF Due
    <2>4. final' => final /\ ToSet(known') = ToSet(known)
        BY <1>4, <1>9
    <2> QED
        BY <1>10, <2>1, <2>3, <2>4 DEF TaskTurned
<1> QED
    BY <1>1, <1>3, <1>12, <1>13, <1>14 DEF Turned

LEMMA CalmTurn ==
    ASSUME Base, Undeclared, Calm, Calm', Orderly, RunModule
    PROVE  Turned
<1>1. todo # {} /\ pc = "pass" /\ Task \in Tasks
    <2>1. todo # {} /\ pc = "pass"
        BY DEF RunModule, Refuse, LeaveDelayed, Defer, NotRequired, Complete, FindNothing,
               LeaveOpen, Delay, Raise, Wait, Finalise, Replay, Runs, Ready, Trying
    <2> QED
        BY <2>1, InTurn
<1>2. DeclaredUnmet(Task) = {}
    BY <1>1 DEF Undeclared, DeclaredUnmet, Tasks
<1>3. ~Defer
    BY <1>2 DEF Defer
<1>4. ASSUME NEW b \in {"unmet", "error", "hit"} PROVE ~Saw(b)
    <2>1. b \notin seen'
        BY <1>4 DEF Calm, Quiet
    <2> QED
        BY <2>1 DEF Saw
<1>5. ~NotRequired /\ ~Raise /\ ~Replay
    BY <1>4 DEF NotRequired, Raise, Replay
<1>6. CASE Refuse
    BY <1>6, RefuseTurned
<1>7. CASE LeaveDelayed
    BY <1>7, DelayedTurned
<1>8. CASE Wait
    BY <1>8, WaitTurned
<1>9. CASE Complete
    <2>1. PICK found \in Found : Leave(Task, "completed", found)
        BY <1>9 DEF Complete
    <2>2. Ready(Task) /\ ~final /\ ran' = ran \cup {Task} /\ seen' = seen
        BY <1>9 DEF Complete, Runs
    <2> QED
        BY <2>1, <2>2, FoundTyped, LeaveTurned
<1>10. CASE FindNothing
    <2>1. /\ Leave(Task, "absent", {}) /\ Ready(Task) /\ ~final
          /\ ran' = ran \cup {Task} /\ seen \subseteq seen'
        BY <1>10 DEF FindNothing, Runs, Saw
    <2> QED
        BY <2>1, FS_EmptySet, LeaveTurned
<1>11. CASE LeaveOpen
    <2>1. /\ Leave(Task, "partial", {}) /\ Ready(Task) /\ ~final
          /\ ran' = ran \cup {Task} /\ seen \subseteq seen'
        BY <1>11 DEF LeaveOpen, Runs, Saw
    <2> QED
        BY <2>1, FS_EmptySet, LeaveTurned
<1>12. CASE Delay
    <2>1. PICK found \in Found : Leave(Task, "delayed", found)
        BY <1>12 DEF Delay
    <2>2. Ready(Task) /\ ~final /\ ran' = ran /\ seen \subseteq seen' /\ "delay" \in seen'
        BY <1>12 DEF Delay, Runs, Saw
    <2> QED
        BY <2>1, <2>2, FoundTyped, LeaveTurned
<1>13. CASE Finalise
    <2>1. Ready(Task) /\ final /\ ran' = ran /\ seen' = seen
        BY <1>13 DEF Finalise
    <2>2. CASE analysis[Task] = "none"
        <3>1. Leave(Task, "absent", {})
            BY <1>13, <2>2 DEF Finalise
        <3> QED
            BY <2>1, <3>1, FS_EmptySet, LeaveTurned
    <2>3. CASE analysis[Task] # "none"
        <3>1. Leave(Task, "completed", {})
            BY <1>13, <2>3 DEF Finalise
        <3> QED
            BY <2>1, <3>1, FS_EmptySet, LeaveTurned
    <2> QED
        BY <2>2, <2>3
<1> QED
    BY <1>3, <1>5, <1>6, <1>7, <1>8, <1>9, <1>10, <1>11, <1>12, <1>13 DEF RunModule

LEMMA TurnPlaced ==
    ASSUME Base, Base', Calm, Orderly, Turned
    PROVE  OnWaits' /\ Placed'
<1>1. OnWaits /\ Placed
    BY DEF Orderly
<1>2. /\ pc = "pass" /\ todo # {} /\ UNCHANGED <<waits, pc, item>>
      /\ DepsTurned /\ StackTurned /\ TaskTurned
    BY DEF Turned
<1>3. Task \in Tasks /\ Task[1] = item.obs /\ ToSet(known) \subseteq ToSet(known')
    BY <1>2, InTurn DEF StackTurned
<1>4. \A i \in DOMAIN deps' : deps'[i].tgt \in waits[deps'[i].src]
    BY <1>1, <1>2 DEF OnWaits, DepsTurned
<1>5. \A i \in DOMAIN deps' :
         deps'[i].src[1] \in ToSet(known') /\ deps'[i].tgt[1] \in ToSet(known')
    <2> TAKE i \in DOMAIN deps'
    <2>1. CASE i \in DOMAIN deps
        BY <1>1, <1>2, <1>3, <2>1 DEF Placed, DepsTurned
    <2>2. CASE i \notin DOMAIN deps
        BY <1>1, <1>2, <1>3, <2>2 DEF Placed, DepsTurned
    <2> QED
        BY <2>1, <2>2
<1>6. \A n \in DOMAIN work' : work'[n].obs \in ToSet(known')
    <2> TAKE k \in DOMAIN work'
    <2>1. CASE \E n \in DOMAIN work : work[n] = work'[k]
        BY <1>1, <1>3, <2>1 DEF Placed
    <2>2. CASE \E o \in ToSet(known') : work'[k] = Plain(o)
        BY <2>2 DEF Plain
    <2>3. CASE item.dep # Nil /\ work'[k] = Only(deps[item.dep].src)
        BY <1>1, <1>2, <1>3, <2>3 DEF Placed, Only, Base, InHand
    <2> QED
        BY <1>2, <2>1, <2>2, <2>3 DEF StackTurned
<1>7. \A t \in Tasks : analysis'[t] # "none" => t[1] \in ToSet(known')
    <2> TAKE t \in Tasks
    <2>1. CASE t = Task
        BY <1>1, <1>2, <1>3, <2>1 DEF Placed
    <2>2. CASE t # Task
        BY <1>1, <1>2, <1>3, <2>2 DEF Placed, TaskTurned
    <2> QED
        BY <2>1, <2>2
<1>8. item'.obs \in ToSet(known') /\ pc' # "idle"
    BY <1>1, <1>2, <1>3 DEF Placed
<1>9. buffer' = <<>> /\ (AnyDelayed' => "delay" \in seen')
    BY <1>2 DEF StackTurned, TaskTurned
<1> QED
    BY <1>2, <1>4, <1>5, <1>6, <1>7, <1>8, <1>9 DEF OnWaits, Placed

LEMMA TurnWaiters ==
    ASSUME Base, Base', Calm, Orderly, Turned
    PROVE  Waiters' /\ InOrder' /\ Handed'
<1>1. OnWaits /\ Placed /\ Waiters /\ InOrder /\ Handed
    BY DEF Orderly
<1>2. /\ pc = "pass" /\ todo # {} /\ todo' = todo \ {Module}
      /\ UNCHANGED <<waits, pc, request, first, item>>
      /\ DepsTurned /\ TaskTurned
    BY DEF Turned
<1>3. /\ Task \in Tasks /\ Task = <<item.obs, Module>>
      /\ item.dep # Nil => todo' = {}
    BY <1>2, InTurn
<1>4. /\ deps \in Seq(Dependency) /\ deps' \in Seq(Dependency)
      /\ \A i \in DOMAIN deps : deps[i].src \in Tasks
      /\ Len(deps) <= Len(deps')
    <2>1. deps \in Seq(Dependency) /\ deps' \in Seq(Dependency)
        BY DEF Base, Typed
    <2>2. \A i \in DOMAIN deps : deps[i] \in Dependency
        BY <2>1
    <2> QED
        BY <1>2, <2>1, <2>2 DEF Dependency, DepsTurned
<1>5. ASSUME NEW i \in DOMAIN deps', Live(i)'
      PROVE  \/ i \in DOMAIN deps /\ Live(i) /\ deps'[i].src = deps[i].src /\ deps[i].src # Task
             \/ i = Len(deps) + 1 /\ deps'[i].src = Task /\ analysis'[Task] # "delayed"
    <2>1. CASE i \in DOMAIN deps
        BY <1>2, <1>5, <2>1 DEF DepsTurned
    <2>2. CASE i \notin DOMAIN deps
        BY <1>2, <2>2 DEF DepsTurned
    <2> QED
        BY <2>1, <2>2
<1>6. \A i \in DOMAIN deps' : Live(i)' => analysis'[deps'[i].src] # "delayed"
    <2> SUFFICES ASSUME NEW i \in DOMAIN deps', Live(i)' PROVE analysis'[deps'[i].src] # "delayed"
        OBVIOUS
    <2>1. CASE i \in DOMAIN deps /\ Live(i) /\ deps'[i].src = deps[i].src /\ deps[i].src # Task
        <3>1. analysis[deps[i].src] # "delayed" /\ deps[i].src \in Tasks \ {Task}
            BY <1>1, <1>4, <2>1 DEF Waiters
        <3> QED
            BY <1>2, <2>1, <3>1 DEF TaskTurned
    <2> QED
        BY <1>5, <2>1
<1>7. \A i, j \in DOMAIN deps' : Live(i)' /\ Live(j)' /\ deps'[i].src = deps'[j].src => i = j
    BY <1>1, <1>5 DEF Waiters
<1>8. \A i \in DOMAIN deps' :
         deps'[i].src[2] \in todo' /\ deps'[i].src[1] = item'.obs /\ Live(i)' => i = item'.dep
    <2> SUFFICES ASSUME NEW i \in DOMAIN deps', deps'[i].src[2] \in todo',
                        deps'[i].src[1] = item'.obs, Live(i)'
                 PROVE  i = item'.dep
        OBVIOUS
    <2>1. deps'[i].src # Task
        BY <1>2, <1>3
    <2>2. i \in DOMAIN deps /\ Live(i) /\ deps'[i].src = deps[i].src
        BY <1>5, <2>1
    <2> QED
        BY <1>1, <1>2, <2>2 DEF Waiters
<1>9. ~(pc' = "pass" /\ first' /\ request' # <<>>)
    BY <1>2 DEF Base, FirstTurn
<1>10. Waiters'
    BY <1>6, <1>7, <1>8, <1>9 DEF Waiters
<1>11. InOrder'
    <2> SUFFICES ASSUME NEW j \in DOMAIN deps', NEW k \in DOMAIN deps', j < k,
                        deps'[j].tgt = deps'[k].tgt,
                        deps'[k].status # "ready" \/ (todo' # {} /\ item'.dep = k)
                 PROVE  ~Live(j)'
        BY DEF InOrder
    <2>1. deps'[k].status # "ready"
        BY <1>2, <1>3, <1>4 DEF Nil
    <2>2. k \in DOMAIN deps
        BY <1>2, <2>1 DEF DepsTurned
    <2>3. j \in DOMAIN deps
        BY <1>4, <2>2
    <2>4. deps[j].tgt = deps[k].tgt /\ (Live(j)' => Live(j))
          /\ (k # item.dep => deps'[k].status = deps[k].status)
        BY <1>2, <2>2, <2>3 DEF DepsTurned
    <2>5. deps[k].status # "ready" \/ (todo # {} /\ item.dep = k)
        BY <1>2, <2>1, <2>4
    <2> QED
        BY <1>1, <2>2, <2>3, <2>4, <2>5 DEF InOrder
<1>12. Handed'
    BY <1>2, <1>3 DEF Handed
<1> QED
    BY <1>10, <1>11, <1>12

LEMMA TurnTried ==
    ASSUME Base, Base', Finished, Calm, Orderly, Turned
    PROVE  Tried' /\ Exhausted'
<1>1. Placed /\ Tried /\ Exhausted
    BY DEF Orderly
<1>2. pc = "pass" /\ UNCHANGED <<waits, posted>> /\ TaskTurned
    BY DEF Turned
<1>3. Accepts \subseteq Tasks
    BY ExecutorAssumption
<1>4. Tried'
    <2> SUFFICES ASSUME NEW t \in Wanted', Settled(t)' PROVE t \in ran'
        BY DEF Tried
    <2>1. t \in Accepts /\ t \in Tasks /\ analysis'[t] \in {"absent", "completed"}
        BY <1>3 DEF Wanted, Settled
    <2>2. CASE t = Task
        BY <1>2, <2>1, <2>2 DEF TaskTurned
    <2>3. CASE t # Task
        <3>1. analysis[t] \in {"absent", "completed"} /\ ran \subseteq ran'
            BY <1>2, <2>1, <2>3 DEF TaskTurned
        <3>2. t[1] \in ToSet(known)
            BY <1>1, <2>1, <3>1 DEF Placed
        <3> QED
            BY <1>1, <2>1, <3>1, <3>2 DEF Tried, Wanted, Settled
    <2> QED
        BY <2>2, <2>3
<1>5. Exhausted'
    <2>1. ~posted'
        BY <1>2 DEF Finished, Calm
    <2>2. final' => final /\ ToSet(known') = ToSet(known) /\ ran \subseteq ran'
        BY <1>2 DEF TaskTurned
    <2> QED
        BY <1>1, <2>1, <2>2 DEF Exhausted, Wanted
<1> QED
    BY <1>4, <1>5

\* Another task that was due is due, or back on the stack.
LEMMA StillDue ==
    ASSUME Base, Base', Turned, NEW t \in Tasks, t # Task, Due(t)
    PROVE  Due(t)' \/ (~Local /\ Stacked(t)')
<1>1. /\ todo # {} /\ todo' = todo \ {Module} /\ pc = "pass"
      /\ UNCHANGED <<waits, pc, request, first, item, posted>>
      /\ DepsTurned /\ StackTurned /\ TaskTurned
    BY DEF Turned
<1>2. Task = <<item.obs, Module>> /\ t = <<t[1], t[2]>>
    BY <1>1, InTurn DEF Tasks
<1>3. CASE t \in ran
    BY <1>1, <1>3 DEF Due, TaskTurned
<1>4. CASE analysis[t] = "delayed"
    BY <1>1, <1>4 DEF Due, TaskTurned
<1>5. CASE pc = "pass" /\ first /\ request = t
    BY <1>1, <1>5 DEF Due
<1>6. CASE \E i \in DOMAIN deps : Live(i) /\ deps[i].src = t
    <2>1. PICK i \in DOMAIN deps : Live(i) /\ deps[i].src = t
        BY <1>6
    <2>2. deps'[i].src = t /\ i \in DOMAIN deps'
        <3>1. deps \in Seq(Dependency) /\ deps' \in Seq(Dependency) /\ Len(deps) <= Len(deps')
            BY <1>1 DEF DepsTurned, Base, Typed
        <3>2. i \in DOMAIN deps'
            BY <2>1, <3>1
        <3> QED
            BY <1>1, <2>1, <3>2 DEF DepsTurned
    <2>3. CASE Live(i)'
        BY <2>2, <2>3 DEF Due
    <2>4. CASE ~Live(i)'
        <3>1. ~Local /\ \E n \in DOMAIN work' : work'[n] = Only(t)
            BY <1>1, <2>1, <2>4 DEF DepsTurned
        <3> QED
            BY <3>1 DEF Stacked, Only
    <2> QED
        BY <2>3, <2>4
<1>7. CASE t[2] \in todo /\ item.obs = t[1]
    <2>1. t[2] # Module
        BY <1>2, <1>7
    <2> QED
        BY <1>1, <1>7, <2>1 DEF Due
<1> QED
    BY <1>3, <1>4, <1>5, <1>6, <1>7 DEF Due

LEMMA TurnAwake ==
    ASSUME Base, Base', Calm, Orderly, Turned, ~Local
    PROVE  Awake'
<1>1. Awake
    BY DEF Orderly
<1>2. /\ todo # {} /\ DepsTurned /\ StackTurned /\ TaskTurned
    BY DEF Turned
<1>3. SUFFICES ASSUME NEW t \in Wanted' PROVE Due(t)' \/ Stacked(t)'
    BY DEF Awake
<1>4. t \in Accepts /\ t \in Tasks /\ t[1] \in ToSet(known')
    BY ExecutorAssumption DEF Wanted
<1>5. CASE t = Task
    BY <1>2, <1>4, <1>5 DEF TaskTurned
<1>6. CASE t # Task /\ t[1] \notin ToSet(known)
    <2>1. \E k \in DOMAIN work' : work'[k] = Plain(t[1])
        BY <1>2, <1>4, <1>6 DEF StackTurned
    <2> QED
        BY <2>1 DEF Stacked, Plain
<1>7. CASE t # Task /\ t[1] \in ToSet(known)
    <2>1. Due(t) \/ Stacked(t)
        BY <1>1, <1>4, <1>7 DEF Awake, Wanted
    <2>2. CASE Due(t)
        BY <1>4, <1>7, <2>2, StillDue
    <2>3. CASE Stacked(t)
        <3>1. PICK n \in DOMAIN work : work[n].obs = t[1] /\ work[n].mod \in {Nil, t[2]}
            BY <2>3 DEF Stacked
        <3>2. PICK k \in DOMAIN work' : work'[k] = work[n]
            BY <1>2, <3>1 DEF StackTurned
        <3> QED
            BY <3>1, <3>2 DEF Stacked
    <2> QED
        BY <2>1, <2>2, <2>3
<1> QED
    BY <1>5, <1>6, <1>7

LEMMA TurnEach ==
    ASSUME Base, Base', Calm, Orderly, Turned, Local
    PROVE  Each'
<1>1. Each
    BY DEF Orderly
<1>2. /\ todo # {} /\ todo' = todo \ {Module} /\ UNCHANGED <<waits, item>>
      /\ DepsTurned /\ StackTurned /\ TaskTurned
    BY DEF Turned
<1>3. Task = <<item.obs, Module>> /\ Task \in Tasks /\ Task[1] = item.obs /\ Task[2] = Module
    BY <1>2, InTurn
<1>4. SUFFICES ASSUME NEW o \in Observables PROVE Untouched(o)' \/ Visited(o)'
    BY DEF Each
<1>5. CASE Untouched(o)
    <2>1. item.obs # o
        BY <1>2, <1>5 DEF Untouched
    <2>2. \A m \in Modules : analysis'[<<o, m>>] = "none"
        <3> TAKE m \in Modules
        <3>1. <<o, m>> \in Tasks \ {Task}
            BY <1>3, <2>1 DEF Tasks
        <3> QED
            BY <1>2, <1>5, <3>1 DEF Untouched, TaskTurned
    <2>3. \A i \in DOMAIN deps' : deps'[i].src[1] # o
        <3> TAKE i \in DOMAIN deps'
        <3>1. CASE i \in DOMAIN deps
            BY <1>2, <1>5, <3>1 DEF Untouched, DepsTurned
        <3>2. CASE i \notin DOMAIN deps
            BY <1>2, <1>3, <2>1, <3>2 DEF DepsTurned
        <3> QED
            BY <3>1, <3>2
    <2>4. ASSUME NEW k \in DOMAIN work', work'[k].obs = o PROVE work'[k] = Plain(o)
        <3>1. CASE \E n \in DOMAIN work : work[n] = work'[k]
            BY <1>5, <2>4, <3>1 DEF Untouched
        <3>2. CASE \E p \in ToSet(known') : work'[k] = Plain(p)
            BY <2>4, <3>2 DEF Plain
        <3>3. CASE item.dep # Nil /\ work'[k] = Only(deps[item.dep].src)
            <4>1. item.dep \in DOMAIN deps
                BY <1>2, <3>3 DEF Base, InHand
            <4> QED
                BY <1>5, <2>4, <3>3, <4>1 DEF Untouched, Only
        <3> QED
            BY <1>2, <3>1, <3>2, <3>3 DEF StackTurned
    <2>5. ASSUME o \in ToSet(known') PROVE \E k \in DOMAIN work' : work'[k] = Plain(o)
        <3>1. CASE o \in ToSet(known)
            <4>1. PICK n \in DOMAIN work : work[n] = Plain(o)
                BY <1>5, <3>1 DEF Untouched
            <4> QED
                BY <1>2, <4>1 DEF StackTurned
        <3>2. CASE o \notin ToSet(known)
            BY <1>2, <2>5, <3>2 DEF StackTurned
        <3> QED
            BY <3>1, <3>2
    <2> QED
        BY <1>2, <2>1, <2>2, <2>3, <2>4, <2>5 DEF Untouched
<1>6. CASE Visited(o)
    <2>1. SUFFICES ASSUME NEW t \in Accepts, t[1] = o
                   PROVE  /\ Due(t)'
                          /\ Needs(t)' = {} =>
                                analysis'[t] # "none" \/ (t[2] \in todo' /\ item'.obs = o)
        BY DEF Visited
    <2>2. Needs(t)' = Needs(t) /\ t \in Tasks /\ t = <<t[1], t[2]>>
        BY <1>2, ExecutorAssumption DEF Needs, Tasks
    <2>3. CASE t = Task
        BY <1>2, <2>2, <2>3 DEF TaskTurned
    <2>4. CASE t # Task
        <3>1. /\ Due(t)
              /\ Needs(t) = {} => analysis[t] # "none" \/ (t[2] \in todo /\ item.obs = o)
            BY <1>6, <2>1 DEF Visited
        <3>2. Due(t)'
            BY <2>2, <2>4, <3>1, StillDue
        <3>3. analysis'[t] = analysis[t]
            BY <1>2, <2>2, <2>4 DEF TaskTurned
        <3>4. t[2] \in todo /\ item.obs = o => t[2] \in todo'
            BY <1>2, <1>3, <2>1, <2>2, <2>4
        <3> QED
            BY <1>2, <2>2, <3>1, <3>2, <3>3, <3>4
    <2> QED
        BY <2>3, <2>4
<1> QED
    BY <1>1, <1>4, <1>5, <1>6 DEF Each

LEMMA TurnKeeps ==
    ASSUME Base, Base', Finished, Calm, Orderly, Turned
    PROVE  Orderly'
<1>1. Local' = Local
    BY DEF Turned, Local
<1> QED
    BY <1>1, TurnPlaced, TurnWaiters, TurnTried, TurnAwake, TurnEach DEF Orderly

\* While no dependency is active, whoever waits waits for something that is delayed.
LEMMA WaitsForDelayed ==
    ASSUME Base, Calm, Orderly, Active = {}, NEW i \in DOMAIN deps, Live(i)
    PROVE  /\ analysis[deps[i].tgt] = "delayed" /\ AnyDelayed /\ Local
           /\ Outstanding(deps[i].tgt[1]) /\ deps[i].src[1] = deps[i].tgt[1]
<1>1. OnWaits /\ Placed /\ Waiters /\ Flat
    BY DEF Orderly, Calm
<1>2. deps[i].src \in Tasks /\ deps[i].tgt \in Tasks /\ deps[i].tgt \in waits[deps[i].src]
    <2>1. deps[i] \in Dependency
        BY DEF Base, Typed
    <2> QED
        BY <1>1, <2>1 DEF Dependency, OnWaits
<1>3. analysis[deps[i].tgt] = "delayed"
    BY <1>1, FlatActive DEF Waiters
<1>4. AnyDelayed /\ Local
    BY <1>1, <1>2, <1>3 DEF AnyDelayed, Placed, Calm
<1>5. ~Failed(i) /\ deps[i].status # "resolved"
    BY <1>1, FlatChain DEF Live
<1> QED
    BY <1>2, <1>3, <1>4, <1>5 DEF Local, Outstanding

\* A task that is due while there is nothing to do has run.
LEMMA NothingLeft ==
    ASSUME Base, Calm, Orderly, pc = "pass", todo = {}, work = <<>>, Active = {}, NEW t \in Wanted
    PROVE  t \in ran \/ analysis[t] = "delayed" \/ \E i \in DOMAIN deps : Live(i) /\ deps[i].src = t
<1>1. t \in Accepts /\ t \in Tasks /\ t[1] \in ToSet(known) /\ t[1] \in Observables
    BY ExecutorAssumption DEF Wanted, Tasks
<1>2. t # <<>> /\ ~(first /\ request # <<>>)
    BY <1>1, NotEmpty DEF Base, FirstTurn
<1>3. Due(t)
    <2>1. CASE Local
        <3>1. Untouched(t[1]) \/ Visited(t[1])
            BY <1>1, <2>1 DEF Orderly, Each
        <3>2. ~Untouched(t[1])
            BY <1>1 DEF Untouched
        <3> QED
            BY <1>1, <3>1, <3>2 DEF Visited
    <2>2. CASE ~Local
        BY <2>2 DEF Orderly, Awake, Stacked
    <2> QED
        BY <2>1, <2>2
<1> QED
    BY <1>2, <1>3 DEF Due

LEMMA EnterOrderly == ASSUME Base, Calm, Orderly, EnterFinal PROVE Orderly'
<1> DEFINE s == Pushed(<<>>, tracker, Everything)
<1>1. /\ pc = "pass" /\ todo = {} /\ work = <<>> /\ Active = {} /\ ~AnyDelayed
      /\ work' = s.work
      /\ UNCHANGED <<waits, known, analysis, pc, request, first, item, todo, buffer, deps,
                     loaded, pending, posted, ran, seen, delays>>
    BY DEF EnterFinal, Turn, FinalAllowed
<1>2. OnWaits /\ Placed /\ Waiters /\ InOrder /\ Handed /\ Tried /\ Exhausted
    BY DEF Orderly
<1>3. Fits(s, <<>>, tracker, known, Len(known)) /\ known \in Seq(Observables)
    <2>1. <<>> \in Seq(StackItem) /\ tracker \in SUBSET Observables /\ known \in Seq(Observables)
        BY DEF Base, Typed
    <2> QED
        BY <2>1, PushedFits DEF Everything
<1>4. tracker = {}
    BY <1>1 DEF Base, OnStack
<1> HIDE DEF s
<1>5. \A k \in DOMAIN work' : \E o \in ToSet(known) : work'[k] = Plain(o)
    <2> TAKE k \in DOMAIN work'
    <2>1. k \in 1 .. Len(s.work) /\ k > Len(<<>>)
        BY <1>1, <1>3 DEF Fits
    <2>2. PICK m \in 1 .. Len(known) : work'[k] = Plain(known[m])
        BY <1>1, <1>3, <2>1 DEF Fits
    <2>3. known[m] \in ToSet(known)
        BY <1>3, <2>2 DEF ToSet
    <2> QED
        BY <2>2, <2>3
<1>6. \A o \in ToSet(known) : \E k \in DOMAIN work' : work'[k] = Plain(o)
    <2> TAKE o \in ToSet(known)
    <2>1. PICK m \in DOMAIN known : known[m] = o
        BY DEF ToSet
    <2>2. m \in 1 .. Len(known)
        BY <1>3, <2>1
    <2> QED
        BY <1>1, <1>3, <1>4, <2>1, <2>2 DEF Fits
<1>7. Wanted \subseteq ran
    <2> SUFFICES ASSUME NEW t \in Wanted PROVE t \in ran
        OBVIOUS
    <2>1. analysis[t] # "delayed"
        BY <1>1, ExecutorAssumption DEF AnyDelayed, Wanted
    <2> QED
        BY <1>1, <2>1, NothingLeft, WaitsForDelayed
<1>8. OnWaits' /\ Waiters' /\ InOrder' /\ Handed' /\ Tried'
    BY <1>1, <1>2 DEF OnWaits, Waiters, InOrder, Handed, Tried, Live, Wanted, Settled
<1>9. Placed'
    <2>1. \A n \in DOMAIN work' : work'[n].obs \in ToSet(known)
        BY <1>5 DEF Plain
    <2> QED
        BY <1>1, <1>2, <2>1 DEF Placed, AnyDelayed
<1>10. Exhausted'
    BY <1>1, <1>7 DEF Exhausted, Wanted
<1>11. Awake'
    BY <1>1, <1>7 DEF Awake, Wanted, Due
<1>12. ASSUME NEW o \in Observables, Untouched(o) PROVE Untouched(o)'
    <2>1. \A k \in DOMAIN work' : work'[k].obs = o => work'[k] = Plain(o)
        BY <1>5 DEF Plain
    <2> QED
        BY <1>1, <1>6, <1>12, <2>1 DEF Untouched
<1>13. ASSUME NEW o \in Observables, Visited(o) PROVE Visited(o)'
    BY <1>1, <1>13 DEF Visited, Due, Needs, Live
<1>14. Local' = Local
    BY <1>1 DEF Local
<1>15. Local => Each'
    BY <1>12, <1>13 DEF Orderly, Each
<1> QED
    BY <1>8, <1>9, <1>10, <1>11, <1>14, <1>15 DEF Orderly

LEMMA EndOrderly == ASSUME Base, Calm, Orderly, EndPass PROVE Orderly'
<1>1. /\ pc = "pass" /\ todo = {} /\ work = <<>> /\ Active = {} /\ (final \/ AnyDelayed)
      /\ pc' = "idle" /\ ~final' /\ todo' = {} /\ work' = <<>> /\ buffer' = <<>>
      /\ posted' = (posted \/ ~AnyDelayed)
      /\ UNCHANGED <<waits, known, analysis, request, first, deps, loaded, pending, ran, seen>>
    BY DEF EndPass, Turn, LeavePass, FinalAllowed
<1>2. OnWaits /\ Placed /\ Waiters /\ InOrder /\ Handed /\ Tried /\ Exhausted
    BY DEF Orderly
<1>3. OnWaits' /\ Waiters' /\ InOrder' /\ Handed' /\ Tried'
    BY <1>1, <1>2 DEF OnWaits, Waiters, InOrder, Handed, Tried, Live, Wanted, Settled
<1>4. Placed'
    BY <1>1, <1>2 DEF Placed, AnyDelayed
<1>5. Exhausted'
    BY <1>1, <1>2 DEF Exhausted, Wanted
<1>6. ASSUME NEW t \in Tasks, Due(t) PROVE Due(t)'
    <2>1. ~(first /\ request = t)
        BY <1>1, NotEmpty DEF Base, FirstTurn
    <2> QED
        BY <1>1, <1>6, <2>1 DEF Due, Live
<1>7. Accepts \subseteq Tasks
    BY ExecutorAssumption
<1>8. ~Local => Awake'
    BY <1>1, <1>6, <1>7 DEF Orderly, Awake, Wanted, Stacked
<1>9. ASSUME NEW o \in Observables, Untouched(o) PROVE Untouched(o)'
    BY <1>1, <1>9 DEF Untouched
<1>10. ASSUME NEW o \in Observables, Visited(o) PROVE Visited(o)'
    BY <1>1, <1>6, <1>7, <1>10 DEF Visited, Needs
<1>11. Local' = Local
    BY <1>1 DEF Local
<1>12. Local => Each'
    BY <1>9, <1>10 DEF Orderly, Each
<1> QED
    BY <1>3, <1>4, <1>5, <1>8, <1>11, <1>12 DEF Orderly

LEMMA RequestOrderly == ASSUME Base, Calm, Orderly, TakeRequest PROVE Orderly'
<1>1. /\ pc = "pass" /\ todo = {} /\ request # <<>> /\ first /\ ~first'
      /\ item' = Head(work) /\ todo' = {Head(work).mod} /\ work' = Tail(work)
      /\ UNCHANGED <<waits, known, analysis, pc, final, request, buffer, deps, loaded, pending,
                     posted, ran, seen, delays>>
    BY DEF TakeRequest, Turn
<1>2. OnWaits /\ Placed /\ Waiters /\ InOrder /\ Handed /\ Tried /\ Exhausted
    BY DEF Orderly
<1>3. work = <<Only(request)>> /\ request \in Tasks
    BY <1>1 DEF Base, Typed, FirstTurn
<1>4. Head(work) = Only(request) /\ work' = <<>> /\ DOMAIN work' = {}
      /\ 1 \in DOMAIN work /\ \A n \in DOMAIN work : work[n] = Only(request)
    BY <1>1, <1>3
<1>5. /\ item'.obs = request[1] /\ item'.dep = Nil /\ todo' = {request[2]}
      /\ request[2] \in Modules /\ request[2] # Nil /\ request = <<request[1], request[2]>>
    BY <1>1, <1>3, <1>4 DEF Only, Tasks, Modules, Nil
<1>6. Only(request).obs = request[1] /\ Only(request).mod = request[2]
    BY DEF Only
<1>7. Nil \notin DOMAIN deps /\ \A i \in DOMAIN deps : deps[i].src \in Tasks
    <2>1. \A i \in DOMAIN deps : deps[i] \in Dependency
        BY DEF Base, Typed
    <2> QED
        BY <2>1 DEF Base, Typed, Nil, Dependency
<1>8. OnWaits' /\ Handed' /\ Tried' /\ Exhausted'
    BY <1>1, <1>2, <1>5 DEF OnWaits, Handed, Tried, Exhausted, Wanted, Settled
<1>9. InOrder'
    BY <1>1, <1>2, <1>5, <1>7 DEF InOrder, Live
<1>10. Placed'
    BY <1>1, <1>2, <1>4, <1>5, <1>6 DEF Placed, AnyDelayed
<1>11. Waiters'
    <2>1. ASSUME NEW i \in DOMAIN deps, deps[i].src[2] \in todo', deps[i].src[1] = item'.obs, Live(i)
          PROVE  FALSE
        <3>1. deps[i].src = request
            BY <1>5, <1>7, <2>1 DEF Tasks
        <3> QED
            BY <1>1, <1>2, <2>1, <3>1 DEF Waiters
    <2> QED
        BY <1>1, <1>2, <2>1 DEF Waiters, Live
<1>12. ASSUME NEW t \in Tasks, Due(t) PROVE Due(t)'
    BY <1>1, <1>5, <1>12 DEF Due, Live
<1>13. Accepts \subseteq Tasks
    BY ExecutorAssumption
<1>14. ASSUME NEW t \in Tasks, Stacked(t) PROVE Due(t)'
    <2>1. request = t
        BY <1>4, <1>5, <1>6, <1>14 DEF Stacked, Tasks
    <2> QED
        BY <1>5, <2>1 DEF Due
<1>15. ~Local => Awake'
    BY <1>1, <1>12, <1>13, <1>14 DEF Orderly, Awake, Wanted
<1>16. ASSUME NEW o \in Observables, Untouched(o) PROVE Untouched(o)'
    <2>1. Only(request) # Plain(o)
        BY <1>5, <1>6 DEF Plain
    <2>2. request[1] # o /\ o \notin ToSet(known)
        BY <1>4, <1>6, <1>16, <2>1 DEF Untouched
    <2> QED
        BY <1>1, <1>4, <1>5, <1>16, <2>2 DEF Untouched
<1>17. ASSUME NEW o \in Observables, Visited(o) PROVE Visited(o)'
    BY <1>1, <1>12, <1>13, <1>17 DEF Visited, Needs
<1>18. Local' = Local
    BY <1>1 DEF Local
<1>19. Local => Each'
    BY <1>16, <1>17 DEF Orderly, Each
<1> QED
    BY <1>8, <1>9, <1>10, <1>11, <1>15, <1>18, <1>19 DEF Orderly

LEMMA TakeOrderly == ASSUME Base, Calm, Orderly, TakeDependency PROVE Orderly'
<1> DEFINE d == FirstActive
           owed == deps[d].status = "ready" /\ analysis[deps[d].tgt] = "none"
           t == IF owed THEN deps[d].tgt ELSE deps[d].src
<1>1. /\ d \in Active /\ d \in DOMAIN deps /\ deps[d] \in Dependency
      /\ pc = "pass" /\ todo = {} /\ ~(request # <<>> /\ first)
      /\ item' = [obs |-> t[1], mod |-> t[2], dep |-> d] /\ todo' = {t[2]}
      /\ deps' = IF ~owed /\ deps[d].status = "ready"
                 THEN SetStatus(deps, d, "completed") ELSE deps
      /\ UNCHANGED <<waits, known, analysis, pc, final, request, first, work, tracker,
                     buffer, loaded, pending, posted>>
    BY Taken
<1>2. UNCHANGED <<ran, seen>>
    BY DEF TakeDependency
<1>3. OnWaits /\ Placed /\ Waiters /\ InOrder /\ Handed /\ Tried /\ Exhausted /\ Flat
    BY DEF Orderly, Calm
<1>4. /\ Live(d) /\ analysis[deps[d].tgt] # "delayed"
      /\ \A j \in DOMAIN deps : Live(j) /\ analysis[deps[j].tgt] # "delayed" => d <= j
    BY <1>1, <1>3, FlatActive DEF Waiters
<1> HIDE DEF d
<1>5. /\ deps \in Seq(Dependency) /\ d \in Nat \ {Nil}
      /\ \A i \in DOMAIN deps : deps[i].src \in Tasks /\ deps[i].tgt \in Tasks
    <2>1. deps \in Seq(Dependency)
        BY DEF Base, Typed
    <2>2. \A i \in DOMAIN deps : deps[i] \in Dependency
        BY <2>1
    <2> QED
        BY <1>1, <2>1, <2>2 DEF Dependency, Nil
<1>6. /\ DOMAIN deps' = DOMAIN deps
      /\ \A i \in DOMAIN deps :
            /\ deps'[i].src = deps[i].src /\ deps'[i].tgt = deps[i].tgt
            /\ i # d => deps'[i].status = deps[i].status
            /\ Live(i)' <=> Live(i)
      /\ deps'[d].status = "ready" => owed
      /\ deps'[d].status = "completed" => ~owed
    <2>1. CASE ~owed /\ deps[d].status = "ready"
        <3>1. /\ deps' \in Seq(Dependency) /\ Len(deps') = Len(deps)
              /\ deps'[d].tgt = deps[d].tgt /\ deps'[d].src = deps[d].src
              /\ deps'[d].status = "completed"
              /\ \A k \in 1 .. Len(deps) : k # d => deps'[k] = deps[k]
            BY <1>1, <1>5, <2>1, StatusSet
        <3>2. DOMAIN deps = 1 .. Len(deps) /\ DOMAIN deps' = 1 .. Len(deps)
            BY <1>5, <3>1
        <3> QED
            BY <1>4, <2>1, <3>1, <3>2 DEF Live
    <2>2. CASE ~(~owed /\ deps[d].status = "ready")
        <3>1. deps' = deps
            BY <1>1, <2>2
        <3> QED
            BY <2>2, <3>1 DEF Live
    <2> QED
        BY <2>1, <2>2
<1>7. deps[d].tgt \in waits[deps[d].src] /\ waits[deps[d].tgt] = {}
    <2>1. deps[d].tgt \in Needs(deps[d].src) /\ deps[d].tgt \in waits[deps[d].src]
        BY <1>1, <1>3 DEF OnWaits, Needs
    <2>2. Needs(deps[d].tgt) = {}
        BY <1>1, <1>3, <1>5, <2>1 DEF Flat
    <2> QED
        BY <2>1, <2>2 DEF Needs
<1>8. t \in Tasks /\ t = <<t[1], t[2]>> /\ t \in {deps[d].src, deps[d].tgt}
    BY <1>1, <1>5 DEF Tasks
<1>9. item'.obs = t[1] /\ item'.mod = t[2] /\ item'.dep = d
    BY <1>1
<1>10. owed => ~Local
    <2> SUFFICES ASSUME owed, Local PROVE FALSE
        OBVIOUS
    <2> DEFINE u == deps[d].tgt
    <2>1. u[1] = deps[d].src[1] /\ u[1] \in Observables /\ u \in Accepts
        <3>1. u \in waits[deps[d].src] /\ deps[d].src \in Tasks /\ waits \in [Tasks -> SUBSET Accepts]
            BY <1>1, <1>5, <1>7 DEF Base, Typed
        <3> QED
            BY <1>1, <1>5, <3>1 DEF Local, Tasks
    <2>2. Visited(u[1])
        BY <1>1, <2>1 DEF Orderly, Each, Untouched
    <2>3. Needs(u) = {}
        BY <1>1, <1>3, <1>5, <1>7 DEF Flat, Needs
    <2> QED
        BY <1>1, <2>1, <2>2, <2>3 DEF Visited
<1>11. owed => t = deps[d].tgt
    OBVIOUS
<1>12. ~owed => t = deps[d].src
    OBVIOUS
<1> HIDE DEF t, owed
<1>13. OnWaits' /\ Tried' /\ Exhausted'
    BY <1>1, <1>2, <1>3, <1>6 DEF OnWaits, Tried, Exhausted, Wanted, Settled
<1>14. Placed'
    BY <1>1, <1>2, <1>3, <1>6, <1>8, <1>9 DEF Placed, AnyDelayed
<1>15. Waiters'
    <2>1. ASSUME NEW i \in DOMAIN deps, deps[i].src[2] \in todo', deps[i].src[1] = item'.obs, Live(i)
          PROVE  i = d
        <3>1. deps[i].src = t
            BY <1>1, <1>5, <1>8, <1>9, <2>1 DEF Tasks
        <3>2. deps[i].src # deps[d].tgt
            BY <1>3, <1>7 DEF OnWaits
        <3> QED
            BY <1>1, <1>3, <1>4, <1>8, <2>1, <3>1, <3>2 DEF Waiters
    <2>2. \A i \in DOMAIN deps' : Live(i)' => analysis'[deps'[i].src] # "delayed"
        BY <1>1, <1>3, <1>6 DEF Waiters
    <2>3. \A i, j \in DOMAIN deps' : Live(i)' /\ Live(j)' /\ deps'[i].src = deps'[j].src => i = j
        BY <1>3, <1>6 DEF Waiters
    <2>4. \A i \in DOMAIN deps' :
             deps'[i].src[2] \in todo' /\ deps'[i].src[1] = item'.obs /\ Live(i)' => i = item'.dep
        BY <1>6, <1>9, <2>1
    <2> QED
        BY <1>1, <2>2, <2>3, <2>4 DEF Waiters
<1>16. InOrder'
    <2> SUFFICES ASSUME NEW j \in DOMAIN deps, NEW k \in DOMAIN deps, j < k,
                        deps[j].tgt = deps[k].tgt,
                        deps'[k].status # "ready" \/ k = d, Live(j)
                 PROVE  FALSE
        BY <1>6, <1>9 DEF InOrder
    <2>1. CASE k = d
        BY <1>4, <1>5, <2>1
    <2>2. CASE k # d
        BY <1>3, <1>6, <2>2 DEF InOrder
    <2> QED
        BY <2>1, <2>2
<1>17. Handed'
    <2>1. analysis'[deps'[d].tgt] = analysis[deps[d].tgt] /\ deps'[d].src = deps[d].src
        BY <1>1, <1>6
    <2>2. Local' = Local
        BY <1>1 DEF Local
    <2>3. deps'[d].status = "ready" => analysis'[deps'[d].tgt] = "none" /\ ~Local'
        BY <1>6, <1>10, <2>1, <2>2 DEF owed
    <2>4. deps'[d].status = "completed" => deps'[d].src = <<item'.obs, item'.mod>>
        BY <1>6, <1>8, <1>9, <1>12, <2>1
    <2>5. deps'[d].status \in {"ready", "completed"}
        BY <1>1, <1>4, <1>6 DEF Live
    <2> QED
        BY <1>9, <2>3, <2>4, <2>5 DEF Handed, Live
<1>18. ASSUME NEW u \in Tasks, Due(u) PROVE Due(u)'
    BY <1>1, <1>2, <1>6, <1>18 DEF Due
<1>19. Accepts \subseteq Tasks
    BY ExecutorAssumption
<1>20. ~Local => Awake'
    BY <1>1, <1>2, <1>18, <1>19 DEF Orderly, Awake, Wanted, Stacked
<1>21. ASSUME Local, NEW o \in Observables, Untouched(o) PROVE Untouched(o)'
    <2>1. deps[d].src[1] # o /\ t = deps[d].src
        BY <1>1, <1>10, <1>12, <1>21 DEF Untouched
    <2> QED
        BY <1>1, <1>6, <1>9, <1>21, <2>1 DEF Untouched
<1>22. ASSUME NEW o \in Observables, Visited(o) PROVE Visited(o)'
    BY <1>1, <1>18, <1>19, <1>22 DEF Visited, Needs
<1>23. Local' = Local
    BY <1>1 DEF Local
<1>24. Local => Each'
    BY <1>21, <1>22 DEF Orderly, Each
<1> QED
    BY <1>13, <1>14, <1>15, <1>16, <1>17, <1>20, <1>23, <1>24 DEF Orderly

LEMMA PopOrderly == ASSUME Base, Calm, Orderly, PopItem PROVE Orderly'
<1> DEFINE i == Head(work)
<1>1. /\ pc = "pass" /\ todo = {} /\ ~(request # <<>> /\ first) /\ work # <<>> /\ Active = {}
      /\ work' = Tail(work)
      /\ UNCHANGED <<waits, known, analysis, pc, final, request, first, buffer, deps, loaded,
                     pending, posted, ran, seen, delays>>
      /\ IF Outstanding(i.obs) THEN UNCHANGED <<item, todo>>
         ELSE item' = i /\ todo' = IF i.mod = Nil THEN Modules ELSE {i.mod}
    BY DEF PopItem, Turn
<1>2. OnWaits /\ Placed /\ Waiters /\ InOrder /\ Handed /\ Tried /\ Exhausted
    BY DEF Orderly
<1>3. /\ i \in StackItem
      /\ \A n \in DOMAIN work : work[n] = i \/ \E k \in DOMAIN work' : work'[k] = work[n]
      /\ \A k \in DOMAIN work' : \E n \in DOMAIN work : work[n] = work'[k]
    BY <1>1, Popped
<1>4. i.obs \in ToSet(known) /\ i.dep = Nil /\ i.obs \in Observables
    <2>1. work \in Seq(StackItem)
        BY DEF Base, Typed
    <2>2. 1 \in DOMAIN work /\ i = work[1]
        BY <1>1, <2>1
    <2> QED
        BY <1>2, <1>3, <2>2 DEF Placed, StackItem
<1> HIDE DEF i
<1>5. Nil \notin DOMAIN deps /\ \A j \in DOMAIN deps : deps[j].src \in Tasks
    <2>1. \A j \in DOMAIN deps : deps[j] \in Dependency
        BY DEF Base, Typed
    <2> QED
        BY <2>1 DEF Base, Typed, Nil, Dependency
<1>6. todo' # {} => item' = i /\ ~Outstanding(i.obs)
    BY <1>1
<1>7. OnWaits' /\ Tried' /\ Exhausted'
    BY <1>1, <1>2 DEF OnWaits, Tried, Exhausted, Wanted, Settled
<1>8. Placed'
    BY <1>1, <1>2, <1>3, <1>4, <1>6 DEF Placed, AnyDelayed
<1>9. Waiters'
    <2>1. ASSUME NEW j \in DOMAIN deps, todo' # {}, deps[j].src[1] = item'.obs, Live(j)
          PROVE  FALSE
        <3>1. Outstanding(deps[j].tgt[1]) /\ deps[j].src[1] = deps[j].tgt[1]
            BY <1>1, <2>1, WaitsForDelayed
        <3> QED
            BY <1>6, <2>1, <3>1
    <2> QED
        BY <1>1, <1>2, <2>1 DEF Waiters, Live
<1>10. InOrder' /\ Handed'
    BY <1>1, <1>2, <1>4, <1>5, <1>6 DEF InOrder, Handed, Live
<1>11. ASSUME NEW t \in Tasks, Due(t) PROVE Due(t)'
    BY <1>1, <1>11 DEF Due, Live
<1>12. Accepts \subseteq Tasks
    BY ExecutorAssumption
<1>13. ASSUME ~Local, NEW t \in Tasks, Stacked(t) PROVE Due(t)' \/ Stacked(t)'
    <2>1. PICK n \in DOMAIN work : work[n].obs = t[1] /\ work[n].mod \in {Nil, t[2]}
        BY <1>13 DEF Stacked
    <2>2. CASE work[n] = i
        <3>1. ~Outstanding(i.obs)
            <4>1. \A j \in DOMAIN deps : ~Live(j)
                BY <1>1, <1>13, WaitsForDelayed
            <4>2. OnWaits /\ Flat
                BY DEF Orderly, Calm
            <4>3. \A j \in DOMAIN deps : Failed(j) \/ deps[j].status = "resolved"
                <5> TAKE j \in DOMAIN deps
                <5>1. deps[j] \in Dependency
                    BY DEF Base, Typed
                <5>2. deps[j].status \in {"resolved", "failed"}
                    BY <4>1, <5>1 DEF Live, Dependency
                <5> QED
                    BY <4>2, <5>2, FlatChain
            <4> QED
                BY <4>3 DEF Outstanding
        <3>2. t[2] \in Modules
            BY DEF Tasks
        <3>3. t[2] \in todo' /\ item'.obs = t[1]
            BY <1>1, <2>1, <2>2, <3>1, <3>2
        <3> QED
            BY <3>3 DEF Due
    <2>3. CASE work[n] # i
        <3>1. PICK k \in DOMAIN work' : work'[k] = work[n]
            BY <1>3, <2>3
        <3> QED
            BY <2>1, <3>1 DEF Stacked
    <2> QED
        BY <2>2, <2>3
<1>14. ~Local => Awake'
    BY <1>1, <1>11, <1>12, <1>13 DEF Orderly, Awake, Wanted
<1>15. ASSUME NEW o \in Observables, Visited(o) PROVE Visited(o)'
    BY <1>1, <1>11, <1>12, <1>15 DEF Visited, Needs
<1>16. ASSUME Local, NEW o \in Observables, Untouched(o) PROVE Untouched(o)' \/ Visited(o)'
    <2>1. CASE i.obs = o
        <3>1. ~Outstanding(o)
            <4>1. ASSUME NEW j \in DOMAIN deps, deps[j].tgt[1] = o PROVE FALSE
                <5>1. deps[j].src[1] = o
                    BY <1>2, <1>5, <1>16, <4>1 DEF OnWaits, Local
                <5> QED
                    BY <1>16, <5>1 DEF Untouched
            <4> QED
                BY <4>1 DEF Outstanding
        <3>2. i = Plain(o)
            <4>1. \E n \in DOMAIN work : work[n] = i
                <5>1. work \in Seq(StackItem)
                    BY DEF Base, Typed
                <5>2. 1 \in DOMAIN work /\ work[1] = i
                    BY <1>1, <5>1 DEF i
                <5> QED
                    BY <5>2
            <4> QED
                BY <1>16, <2>1, <4>1 DEF Untouched
        <3>3. item'.obs = o /\ todo' = Modules
            BY <1>1, <2>1, <3>1, <3>2 DEF Plain
        <3>4. ASSUME NEW t \in Accepts, t[1] = o PROVE t[2] \in todo'
            BY <1>12, <3>3, <3>4 DEF Tasks
        <3> QED
            BY <3>3, <3>4 DEF Visited, Due
    <2>2. CASE i.obs # o
        <3>1. o \in ToSet(known) => \E k \in DOMAIN work' : work'[k] = Plain(o)
            BY <1>3, <1>16, <2>2 DEF Untouched, Plain
        <3> QED
            BY <1>1, <1>3, <1>6, <1>16, <2>2, <3>1 DEF Untouched
    <2> QED
        BY <2>1, <2>2
<1>17. Local' = Local
    BY <1>1 DEF Local
<1>18. Local => Each'
    BY <1>15, <1>16 DEF Orderly, Each
<1> QED
    BY <1>7, <1>8, <1>9, <1>10, <1>14, <1>17, <1>18 DEF Orderly

LEMMA ResumeOrderly ==
    ASSUME Base, Finished, Calm, Orderly, NEW t \in Tasks, Resume(t)
    PROVE  Orderly'
<1>1. /\ pc = "idle" /\ t \in pending /\ pc' = "pass" /\ request' = t /\ first'
      /\ analysis' = [analysis EXCEPT ![t] = IF @ = "delayed" THEN "partial" ELSE @]
      /\ work' = <<Only(t)>> /\ todo' = todo
      /\ UNCHANGED <<waits, known, final, item, tracker, buffer, deps, posted, ran, seen>>
    BY DEF Resume
<1>2. OnWaits /\ Placed /\ Waiters /\ InOrder /\ Handed /\ Tried /\ Exhausted
    BY DEF Orderly
<1>3. analysis[t] = "delayed" /\ AnyDelayed /\ Local /\ todo = {} /\ ~final
    <2>1. analysis[t] = "delayed"
        BY <1>1 DEF Base, Touched
    <2>2. AnyDelayed
        BY <2>1 DEF AnyDelayed
    <2> QED
        BY <1>1, <1>2, <2>1, <2>2 DEF Placed, Calm, Base, Typed, Between
<1>4. /\ analysis'[t] = "partial"
      /\ \A u \in Tasks \ {t} : analysis'[u] = analysis[u]
    BY <1>1, <1>3 DEF Base, Typed
<1>5. \A i \in DOMAIN deps : deps[i].src \in Tasks
    <2>1. \A i \in DOMAIN deps : deps[i] \in Dependency
        BY DEF Base, Typed
    <2> QED
        BY <2>1 DEF Dependency
<1>6. /\ DOMAIN work' = {1} /\ work'[1] = Only(t) /\ Only(t).obs = t[1]
      /\ t = <<t[1], t[2]>> /\ t[2] \in Modules /\ t[1] \in ToSet(known)
    BY <1>1, <1>2, <1>3 DEF Only, Tasks, Placed
<1>7. OnWaits' /\ InOrder' /\ Handed'
    BY <1>1, <1>2, <1>3 DEF OnWaits, InOrder, Handed, Live
<1>8. Tried'
    BY <1>1, <1>2, <1>4, ExecutorAssumption DEF Tried, Wanted, Settled
<1>9. Exhausted'
    <2>1. ~posted
        BY <1>3 DEF Finished, Calm
    <2> QED
        BY <1>1, <1>3, <2>1 DEF Exhausted
<1>10. Placed'
    <2>1. AnyDelayed' => "delay" \in seen'
        BY <1>1, <1>2, <1>3 DEF Placed
    <2>2. \A u \in Tasks : analysis'[u] # "none" => u[1] \in ToSet(known)
        BY <1>2, <1>4, <1>6 DEF Placed
    <2>3. \A n \in DOMAIN work' : work'[n].obs \in ToSet(known)
        BY <1>6
    <2> QED
        BY <1>1, <1>2, <1>3, <2>1, <2>2, <2>3 DEF Placed
<1>11. Waiters'
    <2>1. ASSUME NEW i \in DOMAIN deps, Live(i)
          PROVE  analysis'[deps[i].src] # "delayed" /\ deps[i].src # t
        BY <1>2, <1>3, <1>4, <1>5, <2>1 DEF Waiters
    <2> QED
        BY <1>1, <1>2, <1>3, <2>1 DEF Waiters, Live
<1>12. ASSUME NEW o \in Observables, Untouched(o) PROVE Untouched(o)'
    <2>1. t[1] # o
        BY <1>3, <1>6, <1>12 DEF Untouched
    <2>2. work = <<>>
        BY <1>1, <1>2 DEF Placed
    <2>3. o \notin ToSet(known)
        BY <1>12, <2>2 DEF Untouched
    <2>4. \A m \in Modules : analysis'[<<o, m>>] = "none"
        <3> TAKE m \in Modules
        <3>1. <<o, m>> \in Tasks \ {t}
            BY <2>1 DEF Tasks
        <3> QED
            BY <1>4, <1>12, <3>1 DEF Untouched
    <2> QED
        BY <1>1, <1>3, <1>6, <1>12, <2>1, <2>3, <2>4 DEF Untouched
<1>13. ASSUME NEW u \in Tasks, Due(u) PROVE Due(u)'
    <2>1. CASE u = t
        BY <1>1, <2>1 DEF Due
    <2>2. CASE u # t
        BY <1>1, <1>3, <1>4, <1>13, <2>2 DEF Due, Live
    <2> QED
        BY <2>1, <2>2
<1>14. ASSUME NEW o \in Observables, Visited(o) PROVE Visited(o)'
    <2>1. \A u \in Tasks : analysis[u] # "none" => analysis'[u] # "none"
        BY <1>4
    <2> QED
        BY <1>1, <1>13, <1>14, <2>1, ExecutorAssumption DEF Visited, Needs
<1>15. Local' /\ Each'
    BY <1>1, <1>3, <1>12, <1>14 DEF Local, Orderly, Each
<1> QED
    BY <1>7, <1>8, <1>9, <1>10, <1>11, <1>15 DEF Orderly

LEMMA InitOrderly == Init => Orderly
<1> SUFFICES ASSUME Init PROVE Orderly
    OBVIOUS
<1> DEFINE s == Pushed(<<>>, {}, Given)
<1>1. /\ known = Given /\ analysis = [t \in Tasks |-> "none"] /\ pc = "pass" /\ ~final
      /\ request = <<>> /\ work = s.work /\ buffer = <<>> /\ todo = {}
      /\ deps = <<>> /\ ~posted /\ ran = {} /\ seen = {}
    BY DEF Init
<1>2. Fits(s, <<>>, {}, Given, Len(Given)) /\ Given \in Seq(Observables)
    <2>1. <<>> \in Seq(StackItem) /\ {} \in SUBSET Observables /\ Given \in Seq(Observables)
        BY ExecutorAssumption
    <2> QED
        BY <2>1, PushedFits
<1> HIDE DEF s
<1>3. \A k \in DOMAIN work : \E o \in ToSet(known) : work[k] = Plain(o)
    <2> TAKE k \in DOMAIN work
    <2>1. k \in 1 .. Len(s.work) /\ k > Len(<<>>)
        BY <1>1, <1>2 DEF Fits
    <2>2. PICK m \in 1 .. Len(Given) : work[k] = Plain(Given[m])
        BY <1>1, <1>2, <2>1 DEF Fits
    <2>3. Given[m] \in ToSet(known)
        BY <1>1, <1>2, <2>2 DEF ToSet
    <2> QED
        BY <2>2, <2>3
<1>4. \A o \in ToSet(known) : \E k \in DOMAIN work : work[k] = Plain(o)
    <2> TAKE o \in ToSet(known)
    <2>1. PICK m \in DOMAIN Given : Given[m] = o
        BY <1>1 DEF ToSet
    <2>2. m \in 1 .. Len(Given)
        BY <1>2, <2>1
    <2> QED
        BY <1>1, <1>2, <2>1, <2>2 DEF Fits
<1>5. DOMAIN deps = {} /\ \A t \in Tasks : analysis[t] = "none"
    BY <1>1
<1>6. OnWaits /\ Waiters /\ InOrder /\ Handed /\ Exhausted
    BY <1>1, <1>5 DEF OnWaits, Waiters, InOrder, Handed, Exhausted
<1>7. Tried
    BY <1>5, ExecutorAssumption DEF Tried, Wanted, Settled
<1>8. Placed
    <2>1. \A k \in DOMAIN work : work[k].obs \in ToSet(known)
        BY <1>3 DEF Plain
    <2>2. ~AnyDelayed
        <3>1. ASSUME NEW t \in Tasks PROVE analysis[t] # "delayed"
            BY <1>5
        <3> QED
            BY <3>1 DEF AnyDelayed
    <2>3. \A t \in Tasks : analysis[t] = "none"
        BY <1>5
    <2>4. DOMAIN deps = {} /\ buffer = <<>> /\ todo = {} /\ pc # "idle"
        BY <1>1, <1>5
    <2>5. \A t \in Tasks : analysis[t] # "none" => t[1] \in ToSet(known)
        BY <2>3
    <2> QED
        BY <2>1, <2>2, <2>4, <2>5 DEF Placed
<1>9. Awake
    BY <1>4 DEF Awake, Wanted, Stacked, Plain
<1>10. ASSUME NEW o \in Observables PROVE Untouched(o)
    <2>1. \A m \in Modules : <<o, m>> \in Tasks
        BY DEF Tasks
    <2>2. \A m \in Modules : analysis[<<o, m>>] = "none"
        BY <1>5, <2>1
    <2>3. \A k \in DOMAIN work : work[k].obs = o => work[k] = Plain(o)
        <3> TAKE k \in DOMAIN work
        <3>1. PICK p \in ToSet(known) : work[k] = Plain(p)
            BY <1>3
        <3>2. work[k].obs = p
            BY <3>1 DEF Plain
        <3> QED
            BY <3>1, <3>2
    <2>4. todo = {} /\ DOMAIN deps = {}
        BY <1>1, <1>5
    <2>5. o \in ToSet(known) => \E k \in DOMAIN work : work[k] = Plain(o)
        BY <1>4
    <2> QED
        BY <2>2, <2>3, <2>4, <2>5 DEF Untouched
<1> QED
    BY <1>6, <1>7, <1>8, <1>9, <1>10 DEF Orderly, Each

LEMMA WaitsStay == ASSUME Base, [Next]_vars PROVE waits' = waits
<1>1. CASE Loop
    BY <1>1 DEF Loop, EnterFinal, EndPass, LeavePass, TakeRequest, TakeDependency, PopItem
<1>2. CASE RunModule
    BY <1>2, ModuleShape DEF Idled, Aborted, Left
<1>3. CASE Cancel
    BY <1>3 DEF Cancel, LeavePass
<1>4. ASSUME NEW t \in Tasks, Resume(t) PROVE waits' = waits
    BY <1>4 DEF Resume
<1>5. CASE UNCHANGED vars
    BY <1>5 DEF vars
<1> QED
    BY <1>1, <1>2, <1>3, <1>4, <1>5 DEF Next

LEMMA OrderlyStep ==
    ASSUME Base, Base', Undeclared, Finished, Calm => Orderly, [Next]_vars
    PROVE  Calm' => Orderly'
<1> SUFFICES ASSUME Calm' PROVE Orderly'
    OBVIOUS
<1>1. waits' = waits
    BY WaitsStay
<1>2. Calm
    <2>1. seen \subseteq seen'
        BY SeenGrows
    <2>2. (Flat' <=> Flat) /\ (Local' <=> Local)
        BY <1>1 DEF Flat, Needs, Local
    <2>3. pc # "aborted"
        <3> SUFFICES ASSUME pc = "aborted" PROVE UNCHANGED vars
            BY DEF Calm, vars, passVars
        <3>1. ~Loop /\ ~Cancel /\ \A t \in Tasks : ~Resume(t)
            BY DEF Loop, EnterFinal, EndPass, TakeRequest, TakeDependency, PopItem, Turn, Cancel,
                   Trying, Resume
        <3>2. ~RunModule
            BY FinalStays
        <3> QED
            BY <3>1, <3>2 DEF Next
    <2> QED
        BY <2>1, <2>2, <2>3 DEF Calm, Quiet
<1>3. Orderly
    BY <1>2
<1>4. CASE Loop
    BY <1>2, <1>3, <1>4, EnterOrderly, EndOrderly, RequestOrderly, TakeOrderly, PopOrderly DEF Loop
<1>5. CASE RunModule
    BY <1>2, <1>3, <1>5, CalmTurn, TurnKeeps
<1>6. CASE Cancel
    BY <1>6 DEF Cancel, Saw, Calm, Quiet
<1>7. ASSUME NEW t \in Tasks, Resume(t) PROVE Orderly'
    BY <1>2, <1>3, <1>7, ResumeOrderly
<1>8. CASE UNCHANGED vars
    <2>1. /\ UNCHANGED <<known, analysis, pc, final, request, first, work, item, todo, buffer>>
          /\ UNCHANGED <<deps, posted, ran, seen>>
        BY <1>8 DEF vars, passVars, workVars
    <2>2. (Local' <=> Local) /\ Wanted' = Wanted
        BY <1>1, <2>1 DEF Local, Wanted
    <2>3. /\ OnWaits /\ Placed /\ Waiters /\ InOrder /\ Handed /\ Tried /\ Exhausted
          /\ (~Local => Awake) /\ (Local => Each)
        BY <1>2, <1>3 DEF Orderly
    <2>4. OnWaits' /\ Waiters' /\ InOrder' /\ Handed'
        BY <1>1, <2>3, <2>1, <2>2 DEF OnWaits, Waiters, InOrder, Handed, Live
    <2>5. Placed'
        BY <2>3, <2>1 DEF Placed, AnyDelayed
    <2>6. Tried' /\ Exhausted'
        BY <2>3, <2>1, <2>2 DEF Tried, Exhausted, Settled
    <2>7. ASSUME NEW t PROVE (Due(t)' <=> Due(t)) /\ (Stacked(t)' <=> Stacked(t))
        BY <2>1 DEF Due, Stacked, Live
    <2>8. ~Local => Awake'
        BY <2>3, <2>2, <2>7 DEF Awake
    <2>9. ASSUME NEW o, Untouched(o) PROVE Untouched(o)'
        BY <2>1, <2>9 DEF Untouched
    <2>10. ASSUME NEW o, Visited(o) PROVE Visited(o)'
        BY <1>1, <2>1, <2>7, <2>10 DEF Visited, Needs
    <2>11. Local => Each'
        BY <2>3, <2>9, <2>10 DEF Each
    <2> QED
        BY <2>2, <2>4, <2>5, <2>6, <2>8, <2>11 DEF Orderly
<1> QED
    BY <1>4, <1>5, <1>6, <1>7, <1>8 DEF Next

\* Thorough, where no module declares dependencies and nothing waited for waits itself:
\* whatever was popped, dropped, put back, deferred or resumed, once post-analysis has run
\* execute_analysis came to its end for every module on every observable it accepts.
THEOREM ThoroughHolds == ASSUME Undeclared PROVE Spec => [](Flat => Thorough)
<1> DEFINE Inv == Base /\ Finishing /\ Finished /\ (Calm => Orderly)
<1>1. Init => Inv
    BY BaseInit, FinishingInit, InitOrderly
<1>2. Inv /\ [Next]_vars => Inv'
    <2> SUFFICES ASSUME Inv, [Next]_vars PROVE Inv'
        OBVIOUS
    <2>1. Base'
        BY BaseStep
    <2>2. Finishing' /\ Finished'
        BY FinishingStep
    <2>3. Calm' => Orderly'
        BY <2>1, OrderlyStep
    <2> QED
        BY <2>1, <2>2, <2>3
<1>3. Inv => (Flat => Thorough)
    BY DEF Thorough, Over, Calm, Quiet, Orderly, Exhausted
<1> QED
    BY <1>1, <1>2, <1>3, PTL DEF Spec

-----------------------------------------------------------------------------
\* Types.

\* What TypeOK says beyond Base.
Bounded ==
    /\ waits \in WaitGraphs /\ IsInjective(known)
    /\ item \in Item \cup {NoItem} /\ loaded <= Len(deps)
    /\ ran \subseteq Tasks /\ seen \subseteq Behaviours /\ delays \in 0 .. MaxDelays

LEMMA InjectiveSize ==
    ASSUME NEW S, NEW s \in Seq(S), IsInjective(s) PROVE Cardinality(ToSet(s)) = Len(s)
<1>1. s \in [1 .. Len(s) -> ToSet(s)] /\ Len(s) \in Nat /\ DOMAIN s = 1 .. Len(s)
    BY DEF ToSet
<1>2. s \in Injection(1 .. Len(s), ToSet(s)) /\ s \in Surjection(1 .. Len(s), ToSet(s))
    BY <1>1 DEF Injection, Surjection, ToSet
<1>3. ExistsBijection(1 .. Len(s), ToSet(s))
    BY <1>2 DEF ExistsBijection, Bijection
<1> QED
    BY <1>1, <1>3, FS_CountingElements

LEMMA DiscoveredOnce ==
    ASSUME Base, IsInjective(known), NEW found \in Found
    PROVE  IsInjective(Discovered(found))
<1> DEFINE s == SetToSeq(found \ ToSet(known))
<1>1. IsFiniteSet(found \ ToSet(known))
    BY FoundTyped, FS_Difference
<1>2. s \in Seq(found \ ToSet(known)) /\ ToSet(s) = found \ ToSet(known) /\ IsInjective(s)
    BY <1>1, Listed
<1> HIDE DEF s
<1>3. known \in Seq(Observables) /\ s \in Seq(Observables)
    BY <1>2, FoundTyped DEF Base, Typed
<1>4. /\ Len(known \o s) = Len(known) + Len(s) /\ Len(known) \in Nat /\ Len(s) \in Nat
      /\ \A k \in 1 .. Len(known) + Len(s) :
            (known \o s)[k] = IF k <= Len(known) THEN known[k] ELSE s[k - Len(known)]
    BY <1>3
<1>5. ASSUME NEW a \in 1 .. Len(known) + Len(s), NEW b \in 1 .. Len(known) + Len(s),
             (known \o s)[a] = (known \o s)[b]
      PROVE  a = b
    <2>1. CASE a <= Len(known) /\ b <= Len(known)
        BY <1>3, <1>4, <1>5, <2>1 DEF IsInjective
    <2>2. CASE a > Len(known) /\ b > Len(known)
        <3>1. a - Len(known) \in 1 .. Len(s) /\ b - Len(known) \in 1 .. Len(s)
            BY <1>4, <2>2
        <3>2. s[a - Len(known)] = s[b - Len(known)]
            BY <1>4, <1>5, <2>2
        <3>3. a - Len(known) = b - Len(known)
            BY <1>2, <1>3, <3>1, <3>2 DEF IsInjective
        <3> QED
            BY <1>4, <3>3
    <2>3. \A i \in 1 .. Len(known), j \in 1 .. Len(s) : known[i] # s[j]
        <3> TAKE i \in 1 .. Len(known), j \in 1 .. Len(s)
        <3>1. known[i] \in ToSet(known) /\ s[j] \in ToSet(s)
            BY <1>3 DEF ToSet
        <3> QED
            BY <1>2, <3>1
    <2>4. CASE a <= Len(known) /\ b > Len(known)
        <3>1. a \in 1 .. Len(known) /\ b - Len(known) \in 1 .. Len(s)
            BY <1>4, <2>4
        <3> QED
            BY <1>4, <1>5, <2>3, <2>4, <3>1
    <2>5. CASE a > Len(known) /\ b <= Len(known)
        <3>1. b \in 1 .. Len(known) /\ a - Len(known) \in 1 .. Len(s)
            BY <1>4, <2>5
        <3> QED
            BY <1>4, <1>5, <2>3, <2>5, <3>1
    <2> QED
        BY <1>4, <2>1, <2>2, <2>4, <2>5
<1>6. DOMAIN (known \o s) = 1 .. Len(known) + Len(s)
    BY <1>3, <1>4
<1>7. IsInjective(known \o s)
    BY <1>5, <1>6 DEF IsInjective
<1> QED
    BY <1>7 DEF Discovered, s

LEMMA KnownOnce == ASSUME Base, IsInjective(known), [Next]_vars PROVE IsInjective(known')
<1>1. CASE Loop \/ Cancel
    BY <1>1 DEF Loop, EnterFinal, EndPass, LeavePass, TakeRequest, TakeDependency, PopItem, Cancel
<1>2. CASE RunModule
    <2>1. known' = known \/ \E found \in Found : known' = Discovered(found)
        <3>1. {} \in Found
            BY FS_EmptySet DEF Found
        <3> QED
            BY <1>2, <3>1 DEF RunModule, Refuse, LeaveDelayed, Defer, NotRequired, Complete,
                   FindNothing, LeaveOpen, Delay, Raise, Wait, Finalise, Replay, Leave, Skip, Abort
    <2> QED
        BY <2>1, DiscoveredOnce
<1>3. ASSUME NEW t \in Tasks, Resume(t) PROVE known' = known
    BY <1>3 DEF Resume
<1>4. CASE UNCHANGED vars
    BY <1>4 DEF vars
<1> QED
    BY <1>1, <1>2, <1>3, <1>4 DEF Next

LEMMA DepsGrow == ASSUME Base, loaded <= Len(deps), [Next]_vars PROVE loaded' <= Len(deps')
<1>1. CASE Loop
    <2>1. CASE TakeDependency
        <3>1. loaded' = loaded /\ Len(deps') = Len(deps)
            BY <2>1 DEF TakeDependency, SetStatus, Base, Typed
        <3> QED
            BY <3>1
    <2> QED
        BY <1>1, <2>1 DEF Loop, EnterFinal, EndPass, LeavePass, TakeRequest, PopItem
<1>2. CASE RunModule
    <2>1. loaded' = loaded /\ (deps' = deps \/ \E done \in BOOLEAN : Moved(deps', done))
        BY <1>2, ModuleShape DEF Idled, Aborted, Left
    <2>2. loaded \in Nat /\ Len(deps) \in Nat
        BY DEF Base, Typed
    <2> QED
        BY <2>1, <2>2 DEF Moved
<1>3. CASE Cancel
    BY <1>3 DEF Cancel, LeavePass
<1>4. ASSUME NEW t \in Tasks, Resume(t) PROVE loaded' <= Len(deps')
    BY <1>4 DEF Resume, Base, Typed
<1>5. CASE UNCHANGED vars
    BY <1>5 DEF vars
<1> QED
    BY <1>1, <1>2, <1>3, <1>4, <1>5 DEF Next

LEMMA ItemTyped ==
    ASSUME Base, Base', item \in Item \cup {NoItem}, [Next]_vars
    PROVE  item' \in Item \cup {NoItem}
<1>1. todo' # {} => item' \in Item
    BY DEF Base, Typed
<1>2. CASE PopItem
    <2>1. work \in Seq(StackItem) /\ work # <<>> /\ item' \in {item, Head(work)}
        BY <1>2 DEF PopItem, Base, Typed
    <2>2. Head(work) \in StackItem
        BY <2>1
    <2> QED
        BY <2>1, <2>2 DEF StackItem, Item, Nil
<1>3. CASE TakeRequest \/ TakeDependency
    BY <1>1, <1>3 DEF TakeRequest, TakeDependency
<1>4. CASE EnterFinal \/ EndPass \/ Cancel
    BY <1>4 DEF EnterFinal, EndPass, Cancel, LeavePass
<1>5. CASE RunModule
    BY <1>5, ModuleShape DEF Idled, Aborted, Left
<1>6. ASSUME NEW t \in Tasks, Resume(t) PROVE item' = item
    BY <1>6 DEF Resume
<1>7. CASE UNCHANGED vars
    BY <1>7 DEF vars, passVars
<1> QED
    BY <1>2, <1>3, <1>4, <1>5, <1>6, <1>7 DEF Next, Loop

LEMMA CountsTyped ==
    ASSUME Base, ran \subseteq Tasks, seen \subseteq Behaviours, delays \in 0 .. MaxDelays,
           [Next]_vars
    PROVE  ran' \subseteq Tasks /\ seen' \subseteq Behaviours /\ delays' \in 0 .. MaxDelays
<1>1. CASE Loop
    BY <1>1 DEF Loop, EnterFinal, EndPass, LeavePass, TakeRequest, TakeDependency, PopItem
<1>2. CASE RunModule
    <2>1. ran' = ran \/ (todo # {} /\ ran' = ran \cup {Task})
        BY <1>2 DEF RunModule, Refuse, LeaveDelayed, Defer, NotRequired, Complete, FindNothing,
               LeaveOpen, Delay, Raise, Wait, Finalise, Replay, Skip, Abort, Runs, Ready, Trying
    <2>2. seen' = seen \/ \E b \in Behaviours : seen' = seen \cup {b}
        BY <1>2 DEF RunModule, Refuse, LeaveDelayed, Defer, NotRequired, Complete, FindNothing,
               LeaveOpen, Delay, Raise, Wait, Finalise, Replay, Skip, Abort, Saw
    <2>3. delays' = delays \/ (delays < MaxDelays /\ delays' = delays + 1)
        BY <1>2 DEF RunModule, Refuse, LeaveDelayed, Defer, NotRequired, Complete, FindNothing,
               LeaveOpen, Delay, Raise, Wait, Finalise, Replay, Skip, Abort
    <2>4. ran' \subseteq Tasks
        BY <2>1, InTurn
    <2>5. delays' \in 0 .. MaxDelays
        BY <2>3, ExecutorAssumption
    <2> QED
        BY <2>2, <2>4, <2>5
<1>3. CASE Cancel
    BY <1>3 DEF Cancel, LeavePass, Saw
<1>4. ASSUME NEW t \in Tasks, Resume(t) PROVE UNCHANGED <<ran, seen, delays>>
    BY <1>4 DEF Resume
<1>5. CASE UNCHANGED vars
    BY <1>5 DEF vars
<1> QED
    BY <1>1, <1>2, <1>3, <1>4, <1>5 DEF Next

\* Every variable keeps its type, and a root holds every observable once: what a module
\* adds twice, or two modules add, stays one observable (record of ObservableRegistry).
THEOREM TypeCorrect == Spec => []TypeOK
<1> DEFINE Inv == Base /\ Bounded
<1>1. Init => Inv
    BY BaseInit, ExecutorAssumption DEF Init, Bounded, NoItem
<1>2. Inv /\ [Next]_vars => Inv'
    <2> SUFFICES ASSUME Inv, [Next]_vars PROVE Inv'
        OBVIOUS
    <2>1. Base'
        BY BaseStep
    <2>2. Bounded'
        BY <2>1, WaitsStay, KnownOnce, DepsGrow, ItemTyped, CountsTyped DEF Bounded
    <2> QED
        BY <2>1, <2>2
<1>3. Inv => TypeOK
    <2> SUFFICES ASSUME Inv PROVE TypeOK
        OBVIOUS
    <2>1. Cardinality(ToSet(known)) = Len(known)
        BY InjectiveSize DEF Base, Typed, Bounded
    <2>2. work \in Seq(Item)
        <3>1. StackItem \subseteq Item
            BY DEF StackItem, Item, Nil
        <3>2. work \in Seq(StackItem)
            BY DEF Base, Typed
        <3> QED
            BY <3>1, <3>2
    <2>3. loaded \in 0 .. Len(deps)
        BY DEF Base, Typed, Bounded
    <2> QED
        BY <2>1, <2>2, <2>3 DEF TypeOK, Base, Typed, Bounded, Dependency
<1> QED
    BY <1>1, <1>2, <1>3, PTL DEF Spec
=============================================================================
