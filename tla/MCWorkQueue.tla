---------------------------- MODULE MCWorkQueue ----------------------------
(***************************************************************************)
(* Small instances of WorkQueue.  Processes, worker names and roots are    *)
(* model values and interchangeable.                                       *)
(***************************************************************************)
EXTENDS WorkQueue, TLC

Symmetry == Permutations(Procs) \cup Permutations(Slots) \cup Permutations(Roots)
=============================================================================
