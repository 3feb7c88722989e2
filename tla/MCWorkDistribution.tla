------------------------- MODULE MCWorkDistribution -------------------------
(***************************************************************************)
(* Small instances of WorkDistribution: the group "main" delivers          *)
(* everything with two threads, "qa" is sampled and gives up without       *)
(* nodes.                                                                  *)
(***************************************************************************)
EXTENDS WorkDistribution, TLC

CONSTANTS s1, s2, k

MCGroupOf == [t \in Threads |-> IF t = "qa1" THEN "qa" ELSE "main"]

Kind(anyKey, groups) == [key |-> anyKey, groups |-> groups]

\* s1 goes to every group; s2 asks for "qa" only and has the same key.
MCKinds == (s1 :> {Kind(k, {})}) @@ (s2 :> {Kind(k, {"qa"})})

MCKeyedKinds == [s \in Submissions |-> {Kind(k, {})}]
=============================================================================
