------------------------- MODULE MCNetworkSemaphore -------------------------
(***************************************************************************)
(* Small instances of NetworkSemaphore: three clients in two processes.    *)
(***************************************************************************)
EXTENDS NetworkSemaphore

MCProcessOf == [c \in Clients |-> IF c = "c3" THEN "p2" ELSE "p1"]
\* All of them want the semaphore that is not defined, or two the defined one.
MCWants == {[c \in Clients |-> "undefined"],
            [c \in Clients |-> IF c = "c2" THEN "undefined" ELSE "defined"]}

OneDefined == [n \in {"defined"} |-> 1]
=============================================================================
