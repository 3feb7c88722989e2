----------------------- MODULE NetworkSemaphoreProofs -----------------------
(***************************************************************************)
(* Proofs about the network semaphores, for any clients, processes,        *)
(* semaphores and limits: permits are neither lost nor made up, and a      *)
(* defined semaphore has no more connected holders than its limit.         *)
(***************************************************************************)
EXTENDS NetworkSemaphore, FiniteSetTheorems, TLAPS

\* The types, but for the counters: that these never go below zero needs Counted.
Shape ==
    /\ want \in [Clients -> Names]
    /\ up \in BOOLEAN
    /\ registry \in [Places -> [Names -> Objects \cup {Nil}]]
    /\ \A p \in Places, n \in Names :
          registry[p][n] # Nil =>
             n \notin Defined /\ registry[p][n][1] = p /\ registry[p][n][2] = n
    /\ client \in [Clients -> {"idle", "asking", "holding", "returning", "looking", "creating",
                               "trying", "granted", "local", "uncounted", "done"}]
    /\ mine \in [Clients -> Objects \cup {Nil}]
    /\ server \in [Clients -> {"none", "accepted", "waiting", "beating", "granted", "held",
                               "leaving", "uncounted", "closed"}]
    /\ theirs \in [Clients -> Objects \cup {Nil}]
    /\ conn \in [Clients -> {"none", "up", "down"}]
    /\ wire \in [Clients -> {"none", "acquire", "locked", "release", "ok"}]
    /\ faults \in 0 .. MaxFaults

\* A client has a semaphore of its process and of the name it wants while it uses one,
\* and so has its thread in the server.
Bound ==
    \A c \in Clients :
        /\ mine[c] # Nil => mine[c][1] = ProcessOf[c] /\ mine[c][2] = want[c]
        /\ client[c] = "creating" => want[c] \notin Defined
        /\ client[c] \in {"trying", "granted", "local", "uncounted"} => mine[c] # Nil
        /\ theirs[c] # Nil => theirs[c][1] = Server /\ theirs[c][2] = want[c]
        /\ server[c] \in {"waiting", "beating", "granted", "held", "leaving", "uncounted"} =>
              theirs[c] # Nil

\* Semaphores are told apart by place, name and number, and none is Nil.
LEMMA ObjectFacts ==
    ASSUME NEW o \in Objects
    PROVE  /\ o # Nil /\ o = <<o[1], o[2], o[3]>>
           /\ o[1] \in Places /\ o[2] \in Names
           /\ o[2] \in Defined => o[3] = 0
BY SemaphoreAssumption DEF Objects, Nil, Defined

LEMMA KnownType ==
    ASSUME Shape, NEW p \in Places, NEW n \in Names
    PROVE  /\ Known(p, n) \in Objects \cup {Nil}
           /\ Known(p, n) # Nil => Known(p, n)[1] = p /\ Known(p, n)[2] = n
BY SemaphoreAssumption DEF Shape, Known, Objects, Nil

\* A semaphore that is only looked up when the name is not defined.
LEMMA KnownDefined == ASSUME NEW p, NEW n \in Defined PROVE Known(p, n) # Nil
BY DEF Known, Nil

\* The number of a new semaphore is not in use.
LEMMA NewObject ==
    ASSUME NEW p \in Places, NEW n \in Names \ Defined, NEW o \in Unused(p, n)
    PROVE  /\ o \in Objects /\ o[1] = p /\ o[2] = n /\ o # Nil
           /\ \A c \in Clients : mine[c] # o /\ theirs[c] # o
<1>1. PICK k \in 1 .. MaxObjects : o = <<p, n, k>>
    BY DEF Unused
<1> QED
    BY <1>1 DEF Unused, Objects, Nil

Formed == Shape /\ Bound

LEMMA FormedInit == Init => Formed
<1> SUFFICES ASSUME Init PROVE Formed
    OBVIOUS
<1>1. Shape
    BY SemaphoreAssumption DEF Init, Shape, Nil
<1>2. Bound
    BY DEF Init, Bound, Nil
<1> QED
    BY <1>1, <1>2 DEF Formed

\* What the steps on semaphores leave in the registry.
LEMMA RegistryKept ==
    ASSUME Shape,
           \/ UNCHANGED registry
           \/ \E o \in Objects : o[2] \notin Defined /\ Created(o)
           \/ \E p \in Places, o \in Objects : Tidy(p, o)
           \/ \E p \in Places : Fresh(p)
    PROVE  /\ registry' \in [Places -> [Names -> Objects \cup {Nil}]]
           /\ \A p \in Places, n \in Names :
                 registry'[p][n] # Nil =>
                    n \notin Defined /\ registry'[p][n][1] = p /\ registry'[p][n][2] = n
<1>1. CASE UNCHANGED registry
    BY <1>1 DEF Shape
<1>2. ASSUME NEW o \in Objects, o[2] \notin Defined, Created(o)
      PROVE  /\ registry' \in [Places -> [Names -> Objects \cup {Nil}]]
             /\ \A p \in Places, n \in Names :
                   registry'[p][n] # Nil =>
                      n \notin Defined /\ registry'[p][n][1] = p /\ registry'[p][n][2] = n
    <2>1. o[1] \in Places /\ o[2] \in Names
        BY ObjectFacts
    <2> QED
        BY <1>2, <2>1 DEF Shape, Created
<1>3. ASSUME NEW p \in Places, NEW o \in Objects, Tidy(p, o)
      PROVE  /\ registry' \in [Places -> [Names -> Objects \cup {Nil}]]
             /\ \A q \in Places, n \in Names :
                   registry'[q][n] # Nil =>
                      n \notin Defined /\ registry'[q][n][1] = q /\ registry'[q][n][2] = n
    BY <1>3 DEF Shape, Tidy
<1>4. ASSUME NEW p \in Places, Fresh(p)
      PROVE  /\ registry' \in [Places -> [Names -> Objects \cup {Nil}]]
             /\ \A q \in Places, n \in Names :
                   registry'[q][n] # Nil =>
                      n \notin Defined /\ registry'[q][n][1] = q /\ registry'[q][n][2] = n
    BY <1>4 DEF Shape, Fresh
<1> QED
    BY <1>1, <1>2, <1>3, <1>4
\* The place of every client and of the server.
LEMMA PlaceFacts ==
    /\ Server \in Places
    /\ \A p \in Processes : p \in Places /\ p # Server
    /\ \A c \in Clients : ProcessOf[c] \in Places /\ ProcessOf[c] # Server
BY SemaphoreAssumption DEF Places

LEMMA FormedClient ==
    ASSUME Formed, NEW c \in Clients,
           Connect(c) \/ Locked(c) \/ FallBack(c) \/ GiveUp(c) \/ Release(c) \/ Released(c)
    PROVE  Formed'
<1>1. CASE Connect(c)
    <2>1. UNCHANGED <<want, up, registry, mine, theirs, faults>>
        BY <1>1 DEF Connect, semVars
    <2>2. /\ client' \in {[client EXCEPT ![c] = "asking"], [client EXCEPT ![c] = "looking"]}
          /\ conn' \in {conn, [conn EXCEPT ![c] = "up"]}
          /\ wire' \in {wire, [wire EXCEPT ![c] = "acquire"]}
          /\ server' \in {server, [server EXCEPT ![c] = "accepted"]}
        BY <1>1 DEF Connect, ClientGoes, Says, netVars
    <2>3. up' \in BOOLEAN
        BY <2>1 DEF Formed, Shape
    <2>4. Shape'
        BY <2>1, <2>2, <2>3 DEF Formed, Shape
    <2>5. Bound'
        BY <2>1, <2>2 DEF Formed, Shape, Bound
    <2> QED
        BY <2>4, <2>5 DEF Formed
<1> USE DEF Formed, Shape, Bound, clientVars, serverVars, netVars, semVars, ClientGoes, Says,
            Hangup, Mishap
<1>2. CASE Locked(c)
    BY <1>2 DEF Locked
<1>3. CASE FallBack(c)
    BY <1>3 DEF FallBack
<1>4. CASE GiveUp(c)
    BY <1>4, SemaphoreAssumption DEF GiveUp
<1>5. CASE Release(c)
    BY <1>5 DEF Release
<1>6. CASE Released(c)
    BY <1>6 DEF Released
<1> QED
    BY <1>1, <1>2, <1>3, <1>4, <1>5, <1>6

LEMMA FormedFallback == ASSUME Formed, NEW c \in Clients, Fallback(c) PROVE Formed'
<1> DEFINE p == ProcessOf[c]
           n == want[c]
<1>0. p \in Places /\ n \in Names /\ Shape
    BY PlaceFacts DEF Formed, Shape
<1>1. CASE Look(c)
    <2>1. /\ Known(p, n) \in Objects \cup {Nil}
          /\ Known(p, n) # Nil => Known(p, n)[1] = p /\ Known(p, n)[2] = n
        BY <1>0, KnownType
    <2>2. n \in Defined => Known(p, n) # Nil
        BY KnownDefined
    <2> QED
        BY <1>1, <2>1, <2>2 DEF Look, Formed, Shape, Bound, serverVars, netVars, semVars, ClientGoes
<1>2. CASE Create(c)
    <2>1. PICK o \in Unused(p, n) :
             Created(o) /\ mine' = [mine EXCEPT ![c] = o] /\ ClientGoes(c, "trying")
        BY <1>2 DEF Create
    <2>2. n \in Names \ Defined
        BY <1>0, <1>2 DEF Create, Formed, Bound
    <2>3. o \in Objects /\ o[1] = p /\ o[2] = n /\ o # Nil
        BY <1>0, <2>2, NewObject
    <2>4. /\ registry' \in [Places -> [Names -> Objects \cup {Nil}]]
          /\ \A q \in Places, m \in Names :
                registry'[q][m] # Nil =>
                   m \notin Defined /\ registry'[q][m][1] = q /\ registry'[q][m][2] = m
        BY <1>0, <2>1, <2>2, <2>3, RegistryKept
    <2>5. /\ UNCHANGED <<want, up, server, theirs, conn, wire, faults>>
          /\ client' = [client EXCEPT ![c] = "trying"] /\ mine' = [mine EXCEPT ![c] = o]
        BY <1>2, <2>1 DEF Create, serverVars, netVars, ClientGoes
    <2>6. Shape'
        BY <2>3, <2>4, <2>5 DEF Formed, Shape
    <2>7. Bound'
        BY <2>3, <2>5 DEF Formed, Shape, Bound
    <2> QED
        BY <2>6, <2>7 DEF Formed
<1>3. CASE TakeLocal(c) \/ CountLocal(c) \/ ReleaseLocal(c) \/ TryAgain(c)
    BY <1>3 DEF TakeLocal, CountLocal, ReleaseLocal, TryAgain, Formed, Shape, Bound, serverVars,
                netVars, semVars, ClientGoes, Take, CountUp, GiveBack
<1>4. CASE TidyLocal(c)
    <2>1. mine[c] \in Objects /\ Tidy(p, mine[c])
        BY <1>4 DEF TidyLocal, Formed, Shape, Bound
    <2>2. /\ registry' \in [Places -> [Names -> Objects \cup {Nil}]]
          /\ \A q \in Places, m \in Names :
                registry'[q][m] # Nil =>
                   m \notin Defined /\ registry'[q][m][1] = q /\ registry'[q][m][2] = m
        BY <1>0, <2>1, RegistryKept
    <2> QED
        BY <1>4, <2>2 DEF TidyLocal, Formed, Shape, Bound, serverVars, netVars, ClientGoes
<1> QED
    BY <1>1, <1>2, <1>3, <1>4 DEF Fallback

LEMMA FormedServe == ASSUME Formed, NEW c \in Clients, Serve(c) PROVE Formed'
<1> DEFINE n == want[c]
<1>0. Server \in Places /\ n \in Names /\ Shape
    BY PlaceFacts DEF Formed, Shape
<1>1. CASE Lookup(c)
    <2>0. /\ UNCHANGED <<want, up, client, mine, conn, faults>>
          /\ server' = [server EXCEPT ![c] = "waiting"] /\ wire' = [wire EXCEPT ![c] = "none"]
        BY <1>1 DEF Lookup, ServerGoes, clientVars
    <2>1. PICK o : /\ o \in Objects /\ o[1] = Server /\ o[2] = n /\ o # Nil
                   /\ theirs' = [theirs EXCEPT ![c] = o]
                   /\ UNCHANGED registry \/ (n \notin Defined /\ Created(o))
        <3>1. CASE Known(Server, n) # Nil
            BY <1>0, <1>1, <3>1, KnownType DEF Lookup, semVars
        <3>2. CASE Known(Server, n) = Nil
            <4>1. PICK o \in Unused(Server, n) : Created(o) /\ theirs' = [theirs EXCEPT ![c] = o]
                BY <1>1, <3>2 DEF Lookup
            <4>2. n \in Names \ Defined
                BY <1>0, <3>2, KnownDefined
            <4>3. o \in Objects /\ o[1] = Server /\ o[2] = n /\ o # Nil
                BY <1>0, <4>2, NewObject
            <4> QED
                BY <4>1, <4>2, <4>3
        <3> QED
            BY <3>1, <3>2
    <2>2. /\ registry' \in [Places -> [Names -> Objects \cup {Nil}]]
          /\ \A q \in Places, m \in Names :
                registry'[q][m] # Nil =>
                   m \notin Defined /\ registry'[q][m][1] = q /\ registry'[q][m][2] = m
        BY <1>0, <2>1, RegistryKept
    <2>3. Shape'
        BY <2>0, <2>1, <2>2 DEF Formed, Shape
    <2>4. Bound'
        BY <2>0, <2>1 DEF Formed, Shape, Bound
    <2> QED
        BY <2>3, <2>4 DEF Formed
<1>2. CASE Close(c)
    <2>1. theirs[c] \in Objects /\ Tidy(Server, theirs[c])
        BY <1>2 DEF Close, Formed, Shape, Bound
    <2>2. /\ registry' \in [Places -> [Names -> Objects \cup {Nil}]]
          /\ \A q \in Places, m \in Names :
                registry'[q][m] # Nil =>
                   m \notin Defined /\ registry'[q][m][1] = q /\ registry'[q][m][2] = m
        BY <1>0, <2>1, RegistryKept
    <2> QED
        BY <1>2, <2>2 DEF Close, Formed, Shape, Bound, clientVars, ServerGoes, Hangup
<1>3. CASE Drop(c) \/ Grant(c) \/ TimeOut(c) \/ Beat(c) \/ Tell(c) \/ HoldEnds(c) \/ Return(c)
    BY <1>3 DEF Drop, Grant, TimeOut, Beat, Leave, Tell, HoldEnds, Return, Formed, Shape, Bound,
                clientVars, serverVars, netVars, semVars, ServerGoes, Says, Take, CountUp, GiveBack
<1> QED
    BY <1>1, <1>2, <1>3 DEF Serve

LEMMA FormedFault ==
    ASSUME Formed,
           \/ \E c \in Clients : Break(c)
           \/ \E p \in Processes : Kill(p)
           \/ ServerStops \/ ServerStarts
    PROVE  Formed'
<1>1. CASE \E c \in Clients : Break(c)
    BY <1>1, SemaphoreAssumption DEF Break, Hangup, Mishap, Formed, Shape, Bound, semVars,
                                     clientVars, serverVars
<1>2. ASSUME NEW p \in Processes, Kill(p) PROVE Formed'
    <2>1. /\ registry' \in [Places -> [Names -> Objects \cup {Nil}]]
          /\ \A q \in Places, m \in Names :
                registry'[q][m] # Nil =>
                   m \notin Defined /\ registry'[q][m][1] = q /\ registry'[q][m][2] = m
        BY <1>2, PlaceFacts, RegistryKept DEF Kill, Formed
    <2> QED
        BY <1>2, <2>1, SemaphoreAssumption DEF Kill, Mishap, Formed, Shape, Bound, serverVars
<1>3. CASE ServerStops
    <2>1. /\ registry' \in [Places -> [Names -> Objects \cup {Nil}]]
          /\ \A q \in Places, m \in Names :
                registry'[q][m] # Nil =>
                   m \notin Defined /\ registry'[q][m][1] = q /\ registry'[q][m][2] = m
        BY <1>3, PlaceFacts, RegistryKept DEF ServerStops, Formed
    <2>2. /\ UNCHANGED <<want, client, mine, wire>> /\ up' \in BOOLEAN
          /\ faults' = faults + 1 /\ faults < MaxFaults
          /\ server' = [d \in Clients |-> IF server[d] = "none" THEN "none" ELSE "closed"]
          /\ theirs' = [d \in Clients |-> Nil]
          /\ conn' = [d \in Clients |-> IF conn[d] = "up" THEN "down" ELSE conn[d]]
        BY <1>3 DEF ServerStops, Mishap, clientVars
    <2>3. Shape'
        BY <2>1, <2>2, SemaphoreAssumption DEF Formed, Shape
    <2>4. Bound'
        BY <2>2 DEF Formed, Shape, Bound
    <2> QED
        BY <2>3, <2>4 DEF Formed
<1>4. CASE ServerStarts
    BY <1>4 DEF ServerStarts, Formed, Shape, Bound, semVars, clientVars, serverVars, netVars
<1> QED
    BY <1>1, <1>2, <1>3, <1>4

LEMMA FormedStep == Formed /\ [Next]_vars => Formed'
<1> SUFFICES ASSUME Formed, [Next]_vars PROVE Formed'
    OBVIOUS
<1>1. CASE UNCHANGED vars
    BY <1>1 DEF vars, semVars, clientVars, serverVars, netVars, Formed, Shape, Bound
<1>2. CASE Next
    BY <1>2, FormedClient, FormedFallback, FormedServe, FormedFault DEF Next, ClientStep
<1> QED
    BY <1>1, <1>2

-----------------------------------------------------------------------------
\* Permits and counters.

\* Who is counted as a holder of the semaphore: a step behind those who have it.
Counted(c, o) ==
    IF o[1] = Server THEN theirs[c] = o /\ server[c] \in {"held", "leaving", "uncounted"}
                     ELSE mine[c] = o /\ client[c] \in {"local", "uncounted"}
Counters(o) == {c \in Clients : Counted(c, o)}

\* The inductive form of Conserved, with LoggingSemaphore.count.
Balanced ==
    /\ free \in [Objects -> Nat] /\ count \in [Objects -> Nat]
    /\ Conserved
    /\ \A o \in Objects : count[o] = Cardinality(Counters(o))

\* What steps do to the holders of semaphores and their permits ...
HoldersSame == UNCHANGED free /\ \A o \in Objects : Holders(o)' = Holders(o)
HolderGained(c, o) ==
    /\ free[o] > 0 /\ free' = [free EXCEPT ![o] = @ - 1] /\ c \notin Holders(o)
    /\ \A x \in Objects : Holders(x)' = IF x = o THEN Holders(x) \cup {c} ELSE Holders(x)
HolderLost(c, o) ==
    /\ free' = [free EXCEPT ![o] = @ + 1] /\ c \in Holders(o)
    /\ \A x \in Objects : Holders(x)' = IF x = o THEN Holders(x) \ {c} ELSE Holders(x)

\* ... and to those counted and the counters.
CountersSame == UNCHANGED count /\ \A o \in Objects : Counters(o)' = Counters(o)
CounterGained(c, o) ==
    /\ count' = [count EXCEPT ![o] = @ + 1] /\ c \notin Counters(o)
    /\ \A x \in Objects : Counters(x)' = IF x = o THEN Counters(x) \cup {c} ELSE Counters(x)
CounterLost(c, o) ==
    /\ count' = [count EXCEPT ![o] = @ - 1] /\ c \in Counters(o)
    /\ \A x \in Objects : Counters(x)' = IF x = o THEN Counters(x) \ {c} ELSE Counters(x)

LEMMA Gaining ==
    ASSUME NEW S \in SUBSET Clients, NEW c \in Clients, c \notin S
    PROVE  Cardinality(S) \in Nat /\ Cardinality(S \cup {c}) = Cardinality(S) + 1
<1>1. IsFiniteSet(S)
    BY SemaphoreAssumption, FS_Subset
<1> QED
    BY <1>1, FS_CardinalityType, FS_AddElement

LEMMA Losing ==
    ASSUME NEW S \in SUBSET Clients, NEW c \in S
    PROVE  /\ Cardinality(S) \in Nat /\ Cardinality(S \ {c}) \in Nat
           /\ Cardinality(S \ {c}) = Cardinality(S) - 1
<1>1. IsFiniteSet(S) /\ IsFiniteSet(S \ {c})
    BY SemaphoreAssumption, FS_Subset
<1> QED
    BY <1>1, FS_CardinalityType, FS_RemoveElement

LEMMA HoldersBalance ==
    ASSUME Balanced,
           HoldersSame \/ \E c \in Clients, o \in Objects : HolderGained(c, o) \/ HolderLost(c, o)
    PROVE  free' \in [Objects -> Nat] /\ Conserved'
<1>1. CASE HoldersSame
    BY <1>1 DEF HoldersSame, Balanced, Conserved
<1>2. ASSUME NEW c \in Clients, NEW o \in Objects, HolderGained(c, o)
      PROVE  free' \in [Objects -> Nat] /\ Conserved'
    <2>1. Cardinality(Holders(o)) \in Nat /\ Cardinality(Holders(o)') = Cardinality(Holders(o)) + 1
        BY <1>2, Gaining DEF HolderGained, Holders
    <2>2. free' \in [Objects -> Nat]
        BY <1>2 DEF HolderGained, Balanced
    <2>3. ASSUME NEW x \in Objects
          PROVE  free'[x] + Cardinality(Holders(x)') = LimitOf(x[2])
        BY <1>2, <2>1 DEF HolderGained, Balanced, Conserved
    <2> QED
        BY <2>2, <2>3 DEF Conserved
<1>3. ASSUME NEW c \in Clients, NEW o \in Objects, HolderLost(c, o)
      PROVE  free' \in [Objects -> Nat] /\ Conserved'
    <2>1. /\ Cardinality(Holders(o)) \in Nat
          /\ Cardinality(Holders(o)') = Cardinality(Holders(o)) - 1
        BY <1>3, Losing DEF HolderLost, Holders
    <2>2. free' \in [Objects -> Nat]
        BY <1>3 DEF HolderLost, Balanced
    <2>3. ASSUME NEW x \in Objects
          PROVE  free'[x] + Cardinality(Holders(x)') = LimitOf(x[2])
        BY <1>3, <2>1 DEF HolderLost, Balanced, Conserved
    <2> QED
        BY <2>2, <2>3 DEF Conserved
<1> QED
    BY <1>1, <1>2, <1>3

LEMMA CountersBalance ==
    ASSUME Balanced,
           \/ CountersSame
           \/ \E c \in Clients, o \in Objects : CounterGained(c, o) \/ CounterLost(c, o)
    PROVE  /\ count' \in [Objects -> Nat]
           /\ \A o \in Objects : count'[o] = Cardinality(Counters(o)')
<1>1. CASE CountersSame
    BY <1>1 DEF CountersSame, Balanced
<1>2. ASSUME NEW c \in Clients, NEW o \in Objects, CounterGained(c, o)
      PROVE  /\ count' \in [Objects -> Nat]
             /\ \A x \in Objects : count'[x] = Cardinality(Counters(x)')
    <2>1. Cardinality(Counters(o)') = Cardinality(Counters(o)) + 1
        BY <1>2, Gaining DEF CounterGained, Counters
    <2> QED
        BY <1>2, <2>1 DEF CounterGained, Balanced
<1>3. ASSUME NEW c \in Clients, NEW o \in Objects, CounterLost(c, o)
      PROVE  /\ count' \in [Objects -> Nat]
             /\ \A x \in Objects : count'[x] = Cardinality(Counters(x)')
    <2>1. /\ Cardinality(Counters(o)') \in Nat
          /\ Cardinality(Counters(o)') = Cardinality(Counters(o)) - 1
        BY <1>3, Losing DEF CounterLost, Counters
    <2> QED
        BY <1>3, <2>1 DEF CounterLost, Balanced
<1> QED
    BY <1>1, <1>2, <1>3

-----------------------------------------------------------------------------
\* The protocol on a connection: what the client, its thread in the server and the
\* message under way are as long as the connection is up.
Linked ==
    \A c \in Clients :
        /\ client[c] = "idle" => conn[c] = "none" /\ server[c] = "none"
        /\ conn[c] = "up" =>
              \/ client[c] = "asking" /\ server[c] = "accepted" /\ wire[c] = "acquire"
              \/ /\ client[c] = "asking" /\ wire[c] = "none"
                 /\ server[c] \in {"waiting", "beating", "granted"}
              \/ client[c] = "asking" /\ server[c] = "held" /\ wire[c] = "locked"
              \/ client[c] = "holding" /\ server[c] = "held" /\ wire[c] = "none"
              \/ client[c] = "returning" /\ server[c] = "held" /\ wire[c] = "release"
              \/ client[c] = "returning" /\ server[c] \in {"leaving", "uncounted"} /\ wire[c] = "ok"

LEMMA LinkedStep == Formed /\ Linked /\ [Next]_vars => Linked'
<1> SUFFICES ASSUME Formed, Linked, [Next]_vars PROVE Linked'
    OBVIOUS
<1> USE DEF Formed, Shape, Linked
<1>1. ASSUME NEW c \in Clients, ClientStep(c) \/ GiveUp(c) PROVE Linked'
    <2> USE DEF ClientGoes, Says, Hangup, clientVars, serverVars, netVars
    <2>1. CASE Connect(c)
        BY <2>1 DEF Connect
    <2>2. CASE Locked(c)
        BY <2>2 DEF Locked
    <2>3. CASE FallBack(c)
        BY <2>3 DEF FallBack
    <2>4. CASE GiveUp(c)
        BY <2>4 DEF GiveUp
    <2>5. CASE Release(c)
        BY <2>5 DEF Release
    <2>6. CASE Released(c)
        BY <2>6 DEF Released
    <2>7. CASE Fallback(c)
        <3>1. /\ UNCHANGED <<server, conn, wire>>
              /\ \E s \in {"creating", "trying", "granted", "looking", "local", "uncounted", "done"} :
                    client' = [client EXCEPT ![c] = s]
              /\ client[c] \notin {"idle", "asking", "holding", "returning"}
            BY <2>7 DEF Fallback, Look, Create, TakeLocal, TryAgain, CountLocal, ReleaseLocal, TidyLocal
        <3> QED
            BY <3>1
    <2> QED
        BY <1>1, <2>1, <2>2, <2>3, <2>4, <2>5, <2>6, <2>7 DEF ClientStep
<1>2. ASSUME NEW c \in Clients, Serve(c) PROVE Linked'
    <2> USE DEF ServerGoes, Says, Hangup, clientVars, netVars
    <2>1. CASE Lookup(c)
        BY <2>1 DEF Lookup
    <2>2. CASE Drop(c) \/ Grant(c) \/ TimeOut(c) \/ Beat(c) \/ Return(c)
        BY <2>2 DEF Drop, Grant, TimeOut, Beat, Leave, Return
    <2>3. CASE Tell(c)
        BY <2>3 DEF Tell
    <2>4. CASE HoldEnds(c)
        BY <2>4 DEF HoldEnds
    <2>5. CASE Close(c)
        BY <2>5 DEF Close
    <2> QED
        BY <1>2, <2>1, <2>2, <2>3, <2>4, <2>5 DEF Serve
<1>3. ASSUME NEW c \in Clients, Break(c) PROVE Linked'
    BY <1>3 DEF Break, Hangup, clientVars, serverVars
<1>4. ASSUME NEW p \in Processes, Kill(p) PROVE Linked'
    BY <1>4 DEF Kill, serverVars
<1>5. CASE ServerStops \/ ServerStarts
    BY <1>5 DEF ServerStops, ServerStarts, clientVars, serverVars, netVars
<1>6. CASE UNCHANGED vars
    BY <1>6 DEF vars, clientVars, serverVars, netVars
<1> QED
    BY <1>1, <1>2, <1>3, <1>4, <1>5, <1>6 DEF Next

-----------------------------------------------------------------------------
\* What each step does to permits and counters.

Quiet(c) ==
    \/ Connect(c) \/ Locked(c) \/ FallBack(c) \/ GiveUp(c) \/ Release(c) \/ Released(c)
    \/ Look(c) \/ TryAgain(c)
    \/ Drop(c) \/ TimeOut(c) \/ Beat(c) \/ HoldEnds(c) \/ Break(c)

LEMMA QuietSteps ==
    ASSUME Formed, Linked, NEW c \in Clients, Quiet(c)
    PROVE  HoldersSame /\ CountersSame
<1>1. UNCHANGED <<free, count>>
    BY DEF Quiet, Connect, Locked, FallBack, GiveUp, Release, Released, Look, TryAgain, Drop,
           TimeOut, Beat, HoldEnds, Break, semVars
<1>2. ASSUME NEW d \in Clients, NEW o \in Objects
      PROVE  (Has(d, o)' <=> Has(d, o)) /\ (Counted(d, o)' <=> Counted(d, o))
    <2> USE DEF Formed, Shape, Has, Counted, ClientGoes, ServerGoes, clientVars, serverVars
    <2>1. CASE Connect(c)
        BY <2>1, ObjectFacts DEF Connect, Linked
    <2>2. CASE Locked(c) \/ FallBack(c) \/ GiveUp(c) \/ Release(c) \/ Released(c)
        BY <2>2 DEF Locked, FallBack, GiveUp, Release, Released
    <2>3. CASE Look(c) \/ TryAgain(c)
        BY <2>3 DEF Look, TryAgain
    <2>4. CASE Drop(c) \/ TimeOut(c)
        BY <2>4 DEF Drop, TimeOut
    <2>5. CASE Beat(c)
        BY <2>5, ObjectFacts DEF Beat, Leave
    <2>6. CASE HoldEnds(c)
        BY <2>6 DEF HoldEnds
    <2>7. CASE Break(c)
        BY <2>7 DEF Break
    <2> QED
        BY <2>1, <2>2, <2>3, <2>4, <2>5, <2>6, <2>7 DEF Quiet
<1> QED
    BY <1>1, <1>2 DEF HoldersSame, CountersSame, Holders, Counters

\* The client's own semaphore is never one of the server's, and the other way round.
LEMMA Apart ==
    ASSUME Formed, NEW c \in Clients
    PROVE  /\ mine[c] \in Objects => mine[c][1] # Server
           /\ theirs[c] \in Objects => theirs[c][1] = Server
BY PlaceFacts, ObjectFacts DEF Formed, Bound

LEMMA LocalSteps ==
    ASSUME Formed, NEW c \in Clients
    PROVE  /\ TakeLocal(c) => HolderGained(c, mine[c]) /\ CountersSame
           /\ CountLocal(c) => HoldersSame /\ CounterGained(c, mine[c])
           /\ ReleaseLocal(c) => HolderLost(c, mine[c]) /\ CountersSame
           /\ TidyLocal(c) => HoldersSame /\ CounterLost(c, mine[c])
<1> USE Apart, ObjectFacts
        DEF Formed, Shape, Bound, Has, Counted, Holders, Counters, HoldersSame, CountersSame,
            HolderGained, HolderLost, CounterGained, CounterLost, ClientGoes, serverVars
<1>1. ASSUME TakeLocal(c) PROVE HolderGained(c, mine[c]) /\ CountersSame
    BY <1>1 DEF TakeLocal, Take
<1>2. ASSUME CountLocal(c) PROVE HoldersSame /\ CounterGained(c, mine[c])
    BY <1>2 DEF CountLocal, CountUp
<1>3. ASSUME ReleaseLocal(c) PROVE HolderLost(c, mine[c]) /\ CountersSame
    BY <1>3 DEF ReleaseLocal, GiveBack
<1>4. ASSUME TidyLocal(c) PROVE HoldersSame /\ CounterLost(c, mine[c])
    BY <1>4 DEF TidyLocal, Tidy
<1> QED
    BY <1>1, <1>2, <1>3, <1>4

LEMMA ServerSteps ==
    ASSUME Formed, NEW c \in Clients
    PROVE  /\ Grant(c) => HolderGained(c, theirs[c]) /\ CountersSame
           /\ Tell(c) => HoldersSame /\ CounterGained(c, theirs[c])
           /\ Return(c) => HolderLost(c, theirs[c]) /\ CountersSame
           /\ Close(c) => HoldersSame /\ CounterLost(c, theirs[c])
<1> USE Apart, ObjectFacts
        DEF Formed, Shape, Bound, Has, Counted, Holders, Counters, HoldersSame, CountersSame,
            HolderGained, HolderLost, CounterGained, CounterLost, ServerGoes, clientVars
<1>1. ASSUME Grant(c) PROVE HolderGained(c, theirs[c]) /\ CountersSame
    BY <1>1 DEF Grant, Take
<1>2. ASSUME Tell(c) PROVE HoldersSame /\ CounterGained(c, theirs[c])
    BY <1>2 DEF Tell, CountUp
<1>3. ASSUME Return(c) PROVE HolderLost(c, theirs[c]) /\ CountersSame
    BY <1>3 DEF Return, GiveBack
<1>4. ASSUME Close(c) PROVE HoldersSame /\ CounterLost(c, theirs[c])
    BY <1>4 DEF Close, Tidy
<1> QED
    BY <1>1, <1>2, <1>3, <1>4

\* A new semaphore has nobody who holds it, or is counted, before and after.
LEMMA CreatedBalance ==
    ASSUME Balanced, NEW o \in Objects, o[2] \notin Defined, Created(o),
           \A x \in Objects : Holders(x)' = Holders(x) /\ Counters(x)' = Counters(x),
           Holders(o) = {}, Counters(o) = {}
    PROVE  Balanced'
<1>1. Cardinality({}) = 0 /\ LimitOf(o[2]) = 1
    BY FS_EmptySet DEF LimitOf
<1>2. free' \in [Objects -> Nat] /\ count' \in [Objects -> Nat]
    BY DEF Balanced, Created
<1>3. ASSUME NEW x \in Objects
      PROVE  /\ free'[x] + Cardinality(Holders(x)') = LimitOf(x[2])
             /\ count'[x] = Cardinality(Counters(x)')
    <2>1. CASE x = o
        <3>1. Holders(o)' = {} /\ Counters(o)' = {}
            OBVIOUS
        <3>2. Cardinality(Holders(o)') = 0 /\ Cardinality(Counters(o)') = 0
            BY <1>1, <3>1
        <3>3. free'[o] = 1 /\ count'[o] = 0
            BY DEF Balanced, Created
        <3> QED
            BY <1>1, <2>1, <3>2, <3>3
    <2>2. CASE x # o
        BY <2>2 DEF Balanced, Conserved, Created
    <2> QED
        BY <2>1, <2>2
<1> QED
    BY <1>2, <1>3 DEF Balanced, Conserved

\* So have the semaphores of a place that starts again.
LEMMA FreshBalance ==
    ASSUME Balanced, NEW p \in Places, Fresh(p),
           \A o \in Objects : o[1] = p => Holders(o)' = {} /\ Counters(o)' = {},
           \A o \in Objects :
               o[1] # p => Holders(o)' = Holders(o) /\ Counters(o)' = Counters(o)
    PROVE  Balanced'
<1>1. Cardinality({}) = 0
    BY FS_EmptySet
<1>2. \A o \in Objects : LimitOf(o[2]) \in Nat
    BY ObjectFacts, SemaphoreAssumption DEF LimitOf
<1>3. free' \in [Objects -> Nat] /\ count' \in [Objects -> Nat]
    BY <1>2 DEF Balanced, Fresh
<1>4. ASSUME NEW o \in Objects
      PROVE  /\ free'[o] + Cardinality(Holders(o)') = LimitOf(o[2])
             /\ count'[o] = Cardinality(Counters(o)')
    <2>1. CASE o[1] = p
        <3>1. Cardinality(Holders(o)') = 0 /\ Cardinality(Counters(o)') = 0
            BY <1>1, <2>1
        <3>2. free'[o] = LimitOf(o[2]) /\ count'[o] = 0
            BY <2>1 DEF Fresh
        <3> QED
            BY <1>2, <3>1, <3>2
    <2>2. CASE o[1] # p
        BY <2>2 DEF Fresh, Balanced, Conserved
    <2> QED
        BY <2>1, <2>2
<1> QED
    BY <1>3, <1>4 DEF Balanced, Conserved

LEMMA CreationBalance ==
    ASSUME Formed, Balanced, NEW c \in Clients, Create(c) \/ Lookup(c)
    PROVE  Balanced'
<1>1. CASE Create(c)
    <2> DEFINE p == ProcessOf[c]
               n == want[c]
    <2>1. PICK o \in Unused(p, n) : Created(o) /\ mine' = [mine EXCEPT ![c] = o]
        BY <1>1 DEF Create
    <2>2. p \in Places /\ p # Server /\ n \in Names \ Defined
        BY <1>1, PlaceFacts DEF Create, Formed, Shape, Bound
    <2>3. /\ o \in Objects /\ o[1] = p /\ o[2] = n
          /\ \A d \in Clients : mine[d] # o /\ theirs[d] # o
        BY <2>2, NewObject
    <2>4. /\ UNCHANGED <<theirs, server>> /\ client[c] = "creating"
          /\ client' = [client EXCEPT ![c] = "trying"]
        BY <1>1 DEF Create, ClientGoes, serverVars
    <2>5. \A x \in Objects : Holders(x)' = Holders(x) /\ Counters(x)' = Counters(x)
        BY <2>1, <2>4 DEF Formed, Shape, Holders, Counters, Has, Counted
    <2>6. Holders(o) = {} /\ Counters(o) = {}
        BY <2>3 DEF Holders, Counters, Has, Counted
    <2> QED
        BY <2>1, <2>2, <2>3, <2>5, <2>6, CreatedBalance
<1>2. CASE Lookup(c)
    <2> DEFINE n == want[c]
    <2>1. UNCHANGED <<mine, client>> /\ server[c] = "accepted"
          /\ server' = [server EXCEPT ![c] = "waiting"]
        BY <1>2 DEF Lookup, ServerGoes, clientVars
    <2>2. \E o : theirs' = [theirs EXCEPT ![c] = o]
        BY <1>2 DEF Lookup
    <2>3. \A x \in Objects : Holders(x)' = Holders(x) /\ Counters(x)' = Counters(x)
        BY <2>1, <2>2 DEF Formed, Shape, Holders, Counters, Has, Counted
    <2>4. CASE Known(Server, n) # Nil
        <3>1. UNCHANGED <<free, count>>
            BY <1>2, <2>4 DEF Lookup, semVars
        <3> QED
            BY <2>3, <3>1 DEF Balanced, Conserved
    <2>5. CASE Known(Server, n) = Nil
        <3>1. PICK o \in Unused(Server, n) : Created(o)
            BY <1>2, <2>5 DEF Lookup
        <3>2. n \in Names \ Defined
            BY <2>5, KnownDefined DEF Formed, Shape
        <3>3. /\ o \in Objects /\ o[1] = Server /\ o[2] = n
              /\ \A d \in Clients : mine[d] # o /\ theirs[d] # o
            BY <3>2, PlaceFacts, NewObject
        <3>4. Holders(o) = {} /\ Counters(o) = {}
            BY <3>3 DEF Holders, Counters, Has, Counted
        <3> QED
            BY <2>3, <3>1, <3>2, <3>3, <3>4, CreatedBalance
    <2> QED
        BY <2>4, <2>5
<1> QED
    BY <1>1, <1>2

LEMMA RestartBalance ==
    ASSUME Formed, Balanced, ServerStops \/ \E p \in Processes : Kill(p)
    PROVE  Balanced'
<1> USE DEF Formed, Shape, Bound, Holders, Counters, Has, Counted
<1>1. ASSUME NEW p \in Processes, Kill(p) PROVE Balanced'
    <2>1. /\ client' = [c \in Clients |-> IF ProcessOf[c] = p THEN "done" ELSE client[c]]
          /\ mine' = [c \in Clients |-> IF ProcessOf[c] = p THEN Nil ELSE mine[c]]
          /\ UNCHANGED <<server, theirs>> /\ Fresh(p)
        BY <1>1 DEF Kill, serverVars
    <2>2. p \in Places /\ p # Server
        BY PlaceFacts
    <2>3. \A o \in Objects : o[1] = p => Holders(o)' = {} /\ Counters(o)' = {}
        BY <2>1, <2>2
    <2>4. \A o \in Objects :
              o[1] # p => Holders(o)' = Holders(o) /\ Counters(o)' = Counters(o)
        BY <2>1, <2>2, ObjectFacts
    <2> QED
        BY <2>1, <2>2, <2>3, <2>4, FreshBalance
<1>2. CASE ServerStops
    <2>1. /\ theirs' = [c \in Clients |-> Nil]
          /\ UNCHANGED <<client, mine>> /\ Fresh(Server)
        BY <1>2 DEF ServerStops, clientVars
    <2>2. \A o \in Objects : o[1] = Server => Holders(o)' = {} /\ Counters(o)' = {}
        BY <2>1, ObjectFacts
    <2>3. \A o \in Objects :
              o[1] # Server => Holders(o)' = Holders(o) /\ Counters(o)' = Counters(o)
        BY <2>1
    <2> QED
        BY <2>1, <2>2, <2>3, PlaceFacts, FreshBalance
<1> QED
    BY <1>1, <1>2

-----------------------------------------------------------------------------
\* The inductive invariant and the theorems.
IInv == Formed /\ Linked /\ Balanced

LEMMA InvariantInit == Init => IInv
<1> SUFFICES ASSUME Init PROVE IInv
    OBVIOUS
<1>1. Linked
    BY DEF Init, Linked
<1>2. \A o \in Objects : Holders(o) = {} /\ Counters(o) = {}
    BY DEF Init, Holders, Counters, Has, Counted
<1>3. \A o \in Objects : LimitOf(o[2]) \in Nat
    BY ObjectFacts, SemaphoreAssumption DEF LimitOf
<1>4. Balanced
    <2>1. \A o \in Objects : Cardinality(Holders(o)) = 0 /\ Cardinality(Counters(o)) = 0
        BY <1>2, FS_EmptySet
    <2>2. free = [o \in Objects |-> LimitOf(o[2])] /\ count = [o \in Objects |-> 0]
        BY DEF Init
    <2> QED
        BY <1>3, <2>1, <2>2 DEF Balanced, Conserved
<1> QED
    BY <1>1, <1>4, FormedInit DEF IInv

LEMMA InvariantStep == IInv /\ [Next]_vars => IInv'
<1> SUFFICES ASSUME Formed, Linked, Balanced, [Next]_vars PROVE Balanced'
    BY FormedStep, LinkedStep DEF IInv
<1>1. CASE UNCHANGED <<free, count, client, mine, server, theirs>>
    BY <1>1 DEF Balanced, Conserved, Holders, Counters, Has, Counted
<1>2. ASSUME NEW c \in Clients, Create(c) \/ Lookup(c) PROVE Balanced'
    BY <1>2, CreationBalance
<1>3. CASE ServerStops \/ \E p \in Processes : Kill(p)
    BY <1>3, RestartBalance
<1>4. ASSUME NEW c \in Clients,
             \/ Quiet(c)
             \/ TakeLocal(c) \/ CountLocal(c) \/ ReleaseLocal(c) \/ TidyLocal(c)
             \/ Grant(c) \/ Tell(c) \/ Return(c) \/ Close(c)
      PROVE  Balanced'
    <2>1. mine[c] \in Objects \cup {Nil} /\ theirs[c] \in Objects \cup {Nil}
        BY DEF Formed, Shape
    <2>2. /\ TakeLocal(c) \/ CountLocal(c) \/ ReleaseLocal(c) \/ TidyLocal(c) => mine[c] # Nil
          /\ Grant(c) \/ Tell(c) \/ Return(c) \/ Close(c) => theirs[c] # Nil
        BY DEF Formed, Bound, TakeLocal, CountLocal, ReleaseLocal, TidyLocal, Grant, Tell, Return, Close
    <2>3. \/ HoldersSame
          \/ \E o \in Objects : HolderGained(c, o) \/ HolderLost(c, o)
        BY <1>4, <2>1, <2>2, QuietSteps, LocalSteps, ServerSteps
    <2>4. \/ CountersSame
          \/ \E o \in Objects : CounterGained(c, o) \/ CounterLost(c, o)
        BY <1>4, <2>1, <2>2, QuietSteps, LocalSteps, ServerSteps
    <2> QED
        BY <2>3, <2>4, HoldersBalance, CountersBalance DEF Balanced
<1>5. CASE ServerStarts \/ UNCHANGED vars
    BY <1>1, <1>5 DEF ServerStarts, vars, semVars, clientVars, serverVars
<1> QED
    BY <1>2, <1>3, <1>4, <1>5 DEF Next, ClientStep, Fallback, Serve, Quiet

LEMMA Invariant == Spec => []IInv
BY InvariantInit, InvariantStep, PTL DEF Spec

\* TypeOK: with Counted, the counters do not go below zero.
THEOREM TypeCorrect == Spec => []TypeOK
<1>1. IInv => TypeOK
    BY DEF IInv, Formed, Shape, Balanced, TypeOK
<1> QED
    BY <1>1, Invariant, PTL

\* Conserved: no break of a connection, kill of a process, stop of the server or request
\* given up loses a permit or makes one up.
THEOREM ConservedHolds == Spec => []Conserved
<1>1. IInv => Conserved
    BY DEF IInv, Balanced
<1> QED
    BY <1>1, Invariant, PTL

\* LimitKept: the connected clients that believe they hold a defined semaphore all have
\* a permit in the server, and there are no more permits than the limit.
THEOREM LimitKeptHolds == Spec => []LimitKept
<1>1. ASSUME IInv PROVE LimitKept
    <2> SUFFICES ASSUME NEW n \in Defined PROVE Cardinality(Believers(n)) <= Limits[n]
        BY DEF LimitKept
    <2> DEFINE o == <<Server, n, 0>>
    <2>1. o \in Objects /\ o[1] = Server /\ o[2] = n
        BY PlaceFacts DEF Objects
    <2>2. ASSUME NEW c \in Believers(n) PROVE c \in Holders(o)
        <3>1. c \in Clients /\ want[c] = n /\ server[c] = "held"
            BY <1>1 DEF Believers, IInv, Linked
        <3>2. theirs[c] \in Objects /\ theirs[c][1] = Server /\ theirs[c][2] = n
            BY <1>1, <3>1 DEF IInv, Formed, Shape, Bound
        <3>3. theirs[c] = o
            BY <3>2, ObjectFacts
        <3> QED
            BY <2>1, <3>1, <3>3 DEF Holders, Has
    <2>3. IsFiniteSet(Holders(o)) /\ IsFiniteSet(Believers(n))
        BY SemaphoreAssumption, FS_Subset DEF Holders, Believers
    <2>4. Cardinality(Believers(n)) <= Cardinality(Holders(o))
        BY <2>2, <2>3, FS_Subset
    <2>5. free[o] \in Nat /\ free[o] + Cardinality(Holders(o)) = Limits[n]
        BY <1>1, <2>1 DEF IInv, Balanced, Conserved, LimitOf
    <2>6. /\ Cardinality(Holders(o)) \in Nat /\ Cardinality(Believers(n)) \in Nat
          /\ Limits[n] \in Nat
        BY <2>3, FS_CardinalityType, SemaphoreAssumption
    <2> QED
        BY <2>4, <2>5, <2>6
<1> QED
    BY <1>1, Invariant, PTL
=============================================================================
