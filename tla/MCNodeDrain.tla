---------------------------- MODULE MCNodeDrain ----------------------------
(***************************************************************************)
(* Small instances of NodeDrain: two nodes, the first of which is drained. *)
(***************************************************************************)
EXTENDS NodeDrain

Anywhere == [r \in Roots |-> Nodes]
\* Delayed analysis that is due and that is not, or a submission to come.
OldOrNew == {{"far", "due"}, {"new"}}
OnlyDue == {{"due"}}
=============================================================================
