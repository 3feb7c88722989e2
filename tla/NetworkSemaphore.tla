-------------------------- MODULE NetworkSemaphore --------------------------
(***************************************************************************)
(* Network semaphores (saq/network_semaphore): the server with a thread    *)
(* per connection, the clients, and the semaphores of each process that    *)
(* clients fall back on when the server cannot be reached.                 *)
(*                                                                         *)
(* A client makes one request, as the context manager NetworkSemaphore     *)
(* does.  The protocol alternates (acquire, locked, release, ok), so a     *)
(* connection holds at most one message; the keep-alive "wait" messages    *)
(* only matter in that sending one tells that the connection is gone.      *)
(***************************************************************************)
EXTENDS Naturals, FiniteSets

CONSTANTS Clients,      \* one NetworkSemaphoreClient each
          Processes,    \* the processes they run in
          ProcessOf,    \* which one
          Server,       \* the place of the semaphores of the server
          Names,        \* semaphores
          Wants,        \* which each client may ask for, functions
          Limits,       \* semaphore_capacity_limits, for the defined ones
          MaxObjects,   \* undefined semaphores of a name that a place can hold at once
          MaxFaults     \* bound on requests given up, broken connections, kills, server stops

Places == Processes \cup {Server}
Defined == DOMAIN Limits
LimitOf(n) == IF n \in Defined THEN Limits[n] ELSE 1

\* A semaphore in memory; number 0 is that of a defined one.
Objects == (Places \X Defined \X {0}) \cup (Places \X (Names \ Defined) \X (1 .. MaxObjects))
Nil == <<>>

ASSUME SemaphoreAssumption ==
    /\ IsFiniteSet(Clients)
    /\ ProcessOf \in [Clients -> Processes]
    /\ Wants \subseteq [Clients -> Names]
    /\ Server \notin Processes
    /\ Defined \subseteq Names /\ \A n \in Defined : Limits[n] \in Nat
    /\ MaxObjects \in Nat /\ MaxFaults \in Nat

VARIABLES
    want,       \* the semaphore each client asks for
    up,         \* the server runs
    registry,   \* the undefined semaphores each place knows, by name
    free,       \* permits left in each semaphore
    count,      \* LoggingSemaphore.count
    client,     \* the state of each client
    mine,       \* the fallback semaphore a client found
    server,     \* the state of the server's thread for each connection
    theirs,     \* the semaphore that thread found
    conn,       \* the connection of each client
    wire,       \* the message on it nobody read yet
    faults

semVars == <<registry, free, count>>
clientVars == <<client, mine>>
serverVars == <<server, theirs>>
netVars == <<conn, wire>>
vars == <<want, up, semVars, clientVars, serverVars, netVars, faults>>

TypeOK ==
    /\ want \in [Clients -> Names]
    /\ up \in BOOLEAN
    /\ registry \in [Places -> [Names -> Objects \cup {Nil}]]
    /\ \A p \in Places, n \in Names :
          registry[p][n] # Nil =>
             n \notin Defined /\ registry[p][n][1] = p /\ registry[p][n][2] = n
    /\ free \in [Objects -> Nat] /\ count \in [Objects -> Nat]
    /\ client \in [Clients -> {"idle", "asking", "holding", "returning", "looking", "creating",
                               "trying", "granted", "local", "uncounted", "done"}]
    /\ mine \in [Clients -> Objects \cup {Nil}]
    /\ server \in [Clients -> {"none", "accepted", "waiting", "beating", "granted", "held",
                               "leaving", "uncounted", "closed"}]
    /\ theirs \in [Clients -> Objects \cup {Nil}]
    /\ conn \in [Clients -> {"none", "up", "down"}]
    /\ wire \in [Clients -> {"none", "acquire", "locked", "release", "ok"}]
    /\ faults \in 0 .. MaxFaults

Init ==
    /\ want \in Wants
    /\ up = TRUE
    /\ registry = [p \in Places |-> [n \in Names |-> Nil]]
    /\ free = [o \in Objects |-> LimitOf(o[2])]
    /\ count = [o \in Objects |-> 0]
    /\ client = [c \in Clients |-> "idle"] /\ mine = [c \in Clients |-> Nil]
    /\ server = [c \in Clients |-> "none"] /\ theirs = [c \in Clients |-> Nil]
    /\ conn = [c \in Clients |-> "none"] /\ wire = [c \in Clients |-> "none"]
    /\ faults = 0

-----------------------------------------------------------------------------
\* The semaphores of a place.

\* What looking a name up gives, Nil for a KeyError.
Known(p, n) == IF n \in Defined THEN <<p, n, 0>> ELSE registry[p][n]

\* Numbers no semaphore of the name in use at the place has.
Unused(p, n) ==
    {o \in {<<p, n, k>> : k \in 1 .. MaxObjects} :
        registry[p][n] # o /\ \A c \in Clients : mine[c] # o /\ theirs[c] # o}

\* A new undefined semaphore of limit 1 is registered under the name.
Created(o) ==
    /\ registry' = [registry EXCEPT ![o[1]][o[2]] = o]
    /\ free' = [free EXCEPT ![o] = 1]
    /\ count' = [count EXCEPT ![o] = 0]

\* Semaphore.acquire and release; LoggingSemaphore counts holders in a second step.
Take(o) == free[o] > 0 /\ free' = [free EXCEPT ![o] = @ - 1] /\ UNCHANGED <<registry, count>>
GiveBack(o) == free' = [free EXCEPT ![o] = @ + 1] /\ UNCHANGED <<registry, count>>
CountUp(o) == count' = [count EXCEPT ![o] = @ + 1] /\ UNCHANGED <<registry, free>>

\* The last step of a release of o: it is counted, and maintain_undefined_semaphores
\* forgets the semaphores of the place that nobody is counted as holding, though
\* somebody may wait for them.
Tidy(p, o) ==
    /\ count' = [count EXCEPT ![o] = @ - 1]
    /\ registry' = [registry EXCEPT ![p] =
                       [n \in Names |-> IF @[n] # Nil /\ count'[@[n]] = 0 THEN Nil ELSE @[n]]]
    /\ UNCHANGED free

-----------------------------------------------------------------------------
\* The client.

Mishap == faults < MaxFaults /\ faults' = faults + 1

ClientGoes(c, s) == client' = [client EXCEPT ![c] = s]
Hangup(c) == conn' = [conn EXCEPT ![c] = IF @ = "up" THEN "down" ELSE @]
Says(c, m) == wire' = [wire EXCEPT ![c] = m]

\* The server accepts the connection and is sent the request, or cannot be reached.
Connect(c) ==
    /\ client[c] = "idle"
    /\ IF up
       THEN /\ ClientGoes(c, "asking")
            /\ conn' = [conn EXCEPT ![c] = "up"] /\ Says(c, "acquire")
            /\ server' = [server EXCEPT ![c] = "accepted"]
       ELSE ClientGoes(c, "looking") /\ UNCHANGED <<netVars, server>>
    /\ UNCHANGED <<want, up, semVars, mine, theirs, faults>>

Locked(c) ==
    /\ client[c] = "asking" /\ wire[c] = "locked"
    /\ ClientGoes(c, "holding") /\ Says(c, "none")
    /\ UNCHANGED <<want, up, semVars, mine, serverVars, conn, faults>>

\* The connection is gone before an answer was read: the process's own semaphores serve.
FallBack(c) ==
    /\ client[c] = "asking" /\ conn[c] = "down"
    /\ ClientGoes(c, "looking")
    /\ UNCHANGED <<want, up, semVars, mine, serverVars, netVars, faults>>

\* The deadline passed, or the request was cancelled.
GiveUp(c) ==
    /\ Mishap
    /\ client[c] \in {"asking", "looking"}
    /\ ClientGoes(c, "done") /\ Hangup(c)
    /\ UNCHANGED <<want, up, semVars, mine, serverVars, wire>>

\* release in network mode; on a connection that is gone it is an error and no more.
Release(c) ==
    /\ client[c] = "holding"
    /\ IF conn[c] = "up" THEN ClientGoes(c, "returning") /\ Says(c, "release")
                         ELSE ClientGoes(c, "done") /\ UNCHANGED wire
    /\ UNCHANGED <<want, up, semVars, mine, serverVars, conn, faults>>

\* The ok arrives, or the connection is gone: the socket is closed.
Released(c) ==
    /\ client[c] = "returning"
    /\ wire[c] = "ok" \/ conn[c] = "down"
    /\ ClientGoes(c, "done") /\ Hangup(c)
    /\ UNCHANGED <<want, up, semVars, mine, serverVars, wire, faults>>

\* One turn of the fallback loop: the look-up, and without the lock the creation.
Look(c) ==
    /\ client[c] = "looking"
    /\ LET o == Known(ProcessOf[c], want[c]) IN
          /\ mine' = [mine EXCEPT ![c] = o]
          /\ ClientGoes(c, IF o = Nil THEN "creating" ELSE "trying")
    /\ UNCHANGED <<want, up, semVars, serverVars, netVars, faults>>

Create(c) ==
    /\ client[c] = "creating"
    /\ Unused(ProcessOf[c], want[c]) # {}
    /\ LET o == CHOOSE x \in Unused(ProcessOf[c], want[c]) : TRUE
       IN Created(o) /\ mine' = [mine EXCEPT ![c] = o]
    /\ ClientGoes(c, "trying")
    /\ UNCHANGED <<want, up, serverVars, netVars, faults>>

TakeLocal(c) ==
    /\ client[c] = "trying" /\ Take(mine[c])
    /\ ClientGoes(c, "granted")
    /\ UNCHANGED <<want, up, mine, serverVars, netVars, faults>>

TryAgain(c) ==
    /\ client[c] = "trying" /\ free[mine[c]] = 0
    /\ ClientGoes(c, "looking")
    /\ UNCHANGED <<want, up, semVars, mine, serverVars, netVars, faults>>

CountLocal(c) ==
    /\ client[c] = "granted" /\ CountUp(mine[c])
    /\ ClientGoes(c, "local")
    /\ UNCHANGED <<want, up, mine, serverVars, netVars, faults>>

ReleaseLocal(c) ==
    /\ client[c] = "local" /\ GiveBack(mine[c])
    /\ ClientGoes(c, "uncounted")
    /\ UNCHANGED <<want, up, mine, serverVars, netVars, faults>>

\* The count goes down and maintenance follows.
TidyLocal(c) ==
    /\ client[c] = "uncounted" /\ Tidy(ProcessOf[c], mine[c])
    /\ ClientGoes(c, "done") /\ mine' = [mine EXCEPT ![c] = Nil]
    /\ UNCHANGED <<want, up, serverVars, netVars, faults>>

Fallback(c) ==
    \/ Look(c) \/ Create(c) \/ TakeLocal(c) \/ TryAgain(c) \/ CountLocal(c)
    \/ ReleaseLocal(c) \/ TidyLocal(c)

-----------------------------------------------------------------------------
\* The server's thread for a connection (client_loop).

ServerGoes(c, s) == server' = [server EXCEPT ![c] = s]

\* The request is read and the semaphore found, or created under the same lock.
Lookup(c) ==
    /\ server[c] = "accepted"
    /\ ServerGoes(c, "waiting")
    /\ wire' = [wire EXCEPT ![c] = "none"]
    /\ IF Known(Server, want[c]) # Nil
       THEN theirs' = [theirs EXCEPT ![c] = Known(Server, want[c])] /\ UNCHANGED semVars
       ELSE /\ Unused(Server, want[c]) # {}
            /\ LET o == CHOOSE x \in Unused(Server, want[c]) : TRUE
               IN Created(o) /\ theirs' = [theirs EXCEPT ![c] = o]
    /\ UNCHANGED <<want, up, clientVars, conn, faults>>

Grant(c) ==
    /\ server[c] = "waiting" /\ Take(theirs[c])
    /\ ServerGoes(c, "granted")
    /\ UNCHANGED <<want, up, clientVars, theirs, netVars, faults>>

\* The connection is gone before the request could be read.
Drop(c) ==
    /\ server[c] = "accepted" /\ conn[c] = "down"
    /\ ServerGoes(c, "closed")
    /\ UNCHANGED <<want, up, semVars, clientVars, theirs, netVars, faults>>

\* Mutant of TimeOut: what the timed acquire returned is not looked at.
TimeOutIgnored(c) ==
    /\ server[c] = "waiting" /\ free[theirs[c]] = 0
    /\ ServerGoes(c, "granted")
    /\ UNCHANGED <<want, up, semVars, clientVars, theirs, netVars, faults>>

\* No permit for a second; the keep-alive that is due fails if the connection is gone.
TimeOut(c) ==
    /\ server[c] = "waiting" /\ free[theirs[c]] = 0
    /\ ServerGoes(c, "beating")
    /\ UNCHANGED <<want, up, semVars, clientVars, theirs, netVars, faults>>

\* Mutant of Leave: a thread that only waited releases as well.
LeaveReleasing(c) == ServerGoes(c, "leaving") /\ UNCHANGED theirs

\* The thread ends; it has nothing to release.
Leave(c) == ServerGoes(c, "closed") /\ theirs' = [theirs EXCEPT ![c] = Nil]

Beat(c) ==
    /\ server[c] = "beating"
    /\ IF conn[c] = "up" THEN ServerGoes(c, "waiting") /\ UNCHANGED theirs ELSE Leave(c)
    /\ UNCHANGED <<want, up, semVars, clientVars, netVars, faults>>

\* The holder is counted, and told unless the connection is gone.
Tell(c) ==
    /\ server[c] = "granted" /\ CountUp(theirs[c])
    /\ IF conn[c] = "up" THEN ServerGoes(c, "held") /\ Says(c, "locked")
                         ELSE ServerGoes(c, "leaving") /\ UNCHANGED wire
    /\ UNCHANGED <<want, up, clientVars, theirs, conn, faults>>

\* Mutant of HoldEnds: only a release ends it.
HoldEndsByRelease(c) ==
    /\ server[c] = "held" /\ wire[c] = "release"
    /\ Says(c, "ok") /\ ServerGoes(c, "leaving")
    /\ UNCHANGED <<want, up, semVars, clientVars, theirs, conn, faults>>

\* The release is read and confirmed, or the connection is gone.
HoldEnds(c) ==
    /\ server[c] = "held"
    /\ \/ wire[c] = "release" /\ Says(c, "ok")
       \/ conn[c] = "down" /\ UNCHANGED wire
    /\ ServerGoes(c, "leaving")
    /\ UNCHANGED <<want, up, semVars, clientVars, theirs, conn, faults>>

Return(c) ==
    /\ server[c] = "leaving" /\ GiveBack(theirs[c])
    /\ ServerGoes(c, "uncounted")
    /\ UNCHANGED <<want, up, clientVars, theirs, netVars, faults>>

Close(c) ==
    /\ server[c] = "uncounted" /\ Tidy(Server, theirs[c])
    /\ ServerGoes(c, "closed") /\ theirs' = [theirs EXCEPT ![c] = Nil] /\ Hangup(c)
    /\ UNCHANGED <<want, up, clientVars, wire, faults>>

Serve(c) ==
    \/ Lookup(c) \/ Drop(c) \/ Grant(c) \/ TimeOut(c) \/ Beat(c)
    \/ Tell(c) \/ HoldEnds(c) \/ Return(c) \/ Close(c)

-----------------------------------------------------------------------------
\* Faults.

\* The network resets a connection.  The client's failsafe thread notices too and
\* closes the socket, but the holder goes on.
Break(c) ==
    /\ Mishap /\ conn[c] = "up" /\ Hangup(c)
    /\ UNCHANGED <<want, up, semVars, clientVars, serverVars, wire>>

\* The semaphores of a place are as they are at its start.
Fresh(p) ==
    /\ registry' = [registry EXCEPT ![p] = [n \in Names |-> Nil]]
    /\ free' = [o \in Objects |-> IF o[1] = p THEN LimitOf(o[2]) ELSE free[o]]
    /\ count' = [o \in Objects |-> IF o[1] = p THEN 0 ELSE count[o]]

\* A process of clients is killed (a module ran too long, the engine stopped).
Kill(p) ==
    /\ Mishap /\ p \in Processes
    /\ \E c \in Clients : ProcessOf[c] = p /\ client[c] \notin {"idle", "done"}
    /\ Fresh(p)
    /\ client' = [c \in Clients |-> IF ProcessOf[c] = p THEN "done" ELSE client[c]]
    /\ mine' = [c \in Clients |-> IF ProcessOf[c] = p THEN Nil ELSE mine[c]]
    /\ conn' = [c \in Clients |-> IF ProcessOf[c] = p /\ conn[c] = "up" THEN "down" ELSE conn[c]]
    /\ UNCHANGED <<want, up, serverVars, wire>>

\* The server ends, its threads with it, and is started again.
ServerStops ==
    /\ Mishap /\ up /\ up' = FALSE
    /\ Fresh(Server)
    /\ server' = [c \in Clients |-> IF server[c] = "none" THEN "none" ELSE "closed"]
    /\ theirs' = [c \in Clients |-> Nil]
    /\ conn' = [c \in Clients |-> IF conn[c] = "up" THEN "down" ELSE conn[c]]
    /\ UNCHANGED <<want, clientVars, wire>>

ServerStarts ==
    /\ ~up /\ up' = TRUE
    /\ UNCHANGED <<want, semVars, clientVars, serverVars, netVars, faults>>

-----------------------------------------------------------------------------
\* What a client does of itself; it may give up, and need not.
ClientStep(c) ==
    Connect(c) \/ Locked(c) \/ FallBack(c) \/ Release(c) \/ Released(c) \/ Fallback(c)

Next ==
    \/ \E c \in Clients : ClientStep(c) \/ GiveUp(c) \/ Serve(c) \/ Break(c)
    \/ \E p \in Processes : Kill(p)
    \/ ServerStops \/ ServerStarts

Spec == Init /\ [][Next]_vars

\* Threads go on: a module that holds a semaphore comes to its end, and so does a
\* wait for a permit that is there.
FairSpec == Spec /\ \A c \in Clients : WF_vars(ClientStep(c)) /\ WF_vars(Serve(c))

-----------------------------------------------------------------------------
\* Who has a permit of the semaphore.
Has(c, o) ==
    IF o[1] = Server THEN theirs[c] = o /\ server[c] \in {"granted", "held", "leaving"}
                     ELSE mine[c] = o /\ client[c] \in {"granted", "local"}
Holders(o) == {c \in Clients : Has(c, o)}

\* No permit of a semaphore is lost or made up, in the server or in a process,
\* whatever connections break and whoever is killed: those that are left and those
\* that are held add up to the limit it was created with.
Conserved == \A o \in Objects : free[o] + Cardinality(Holders(o)) = LimitOf(o[2])

\* Clients that believe they hold the semaphore of the server, and are connected.
Believers(n) ==
    {c \in Clients : want[c] = n /\ client[c] = "holding" /\ conn[c] = "up"}

\* A defined semaphore is held by no more clients than its limit: what a client
\* believes is backed by a permit its thread in the server has.  (A client whose
\* connection is gone goes on believing, and its permit goes to another.)
LimitKept == \A n \in Defined : Cardinality(Believers(n)) <= Limits[n]

\* Every request comes to an end, whatever breaks: a client gets the semaphore and
\* releases it, gives up, or falls back.  And then all the permits are back, with no
\* undefined semaphore left, also when clients went away without a release or while
\* they waited.
PermitsReturn ==
    <>[](/\ \A c \in Clients : client[c] = "done"
         /\ \A o \in Objects : free[o] = LimitOf(o[2])
         /\ \A p \in Places, n \in Names : registry[p][n] = Nil)
=============================================================================
