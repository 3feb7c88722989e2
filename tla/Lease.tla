------------------------------- MODULE Lease -------------------------------
(***************************************************************************)
(* What the locks table promises to its clients, with every call atomic.   *)
(*                                                                         *)
(* A lock on a root analysis is a lease: it belongs to at most one client, *)
(* its owner may refresh it or give it back, it ages when nobody refreshes *)
(* it, and only a recovery may take it from its owner, only once it has    *)
(* aged.  A client is told that it has the lock only while it owns it;     *)
(* after that it may lose the lease without knowing (told says what the    *)
(* client believes, owner what the table says).                            *)
(***************************************************************************)
CONSTANTS Roots,        \* root analyses that can be locked
          Clients,      \* callers of acquire_lock, each with its own lock_uuid
          Recoveries,   \* the clients that pass allow_expired_takeover=True
          NoOne,        \* the owner of a root without a row in locks
          NoRoot        \* the root of a client that believes it holds nothing

VARIABLES owner, aged, told

vars == <<owner, aged, told>>

Init ==
    /\ owner = [r \in Roots |-> NoOne]
    /\ aged  = {}
    /\ told  = [c \in Clients |-> NoRoot]

\* The row of r now carries client c's lock_uuid and a fresh lock_time.
Own(c, r) ==
    /\ owner' = [owner EXCEPT ![r] = c]
    /\ aged'  = aged \ {r}

\* c is told that it has r, or nothing is said yet, or the answer is lost in an error.
MaybeTell(c, r) == \E b \in {told[c], r, NoRoot} : told' = [told EXCEPT ![c] = b]

Take(c, r)     == owner[r] = NoOne /\ Own(c, r) /\ MaybeTell(c, r)
Refresh(c, r)  == owner[r] = c /\ Own(c, r) /\ UNCHANGED told
TakeOver(c, r) == c \in Recoveries /\ owner[r] # NoOne /\ r \in aged /\ Own(c, r) /\ UNCHANGED told
Tell(c, r)     == owner[r] = c /\ told' = [told EXCEPT ![c] = r] /\ UNCHANGED <<owner, aged>>

\* c gives the lease back if it still has it, and believes nothing afterwards.
GiveBack(c, r) ==
    /\ told[c] = r
    /\ told' = [told EXCEPT ![c] = NoRoot]
    /\ IF owner[r] = c
       THEN owner' = [owner EXCEPT ![r] = NoOne] /\ aged' = aged \ {r}
       ELSE UNCHANGED <<owner, aged>>

\* c crashes, or is refused the lock it asks for again.
Forget(c) == told' = [told EXCEPT ![c] = NoRoot] /\ UNCHANGED <<owner, aged>>

Age(r) == owner[r] # NoOne /\ aged' = aged \cup {r} /\ UNCHANGED <<owner, told>>

Next ==
    \/ \E c \in Clients, r \in Roots :
          Take(c, r) \/ Refresh(c, r) \/ TakeOver(c, r) \/ Tell(c, r) \/ GiveBack(c, r)
    \/ \E c \in Clients : Forget(c)
    \/ \E r \in Roots : Age(r)

Spec == Init /\ [][Next]_vars
=============================================================================
