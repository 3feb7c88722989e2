--------------------------- MODULE MCLockProtocol ---------------------------
(***************************************************************************)
(* Small instances of LockProtocol.  Workers and recoveries are model      *)
(* values and interchangeable.                                             *)
(***************************************************************************)
EXTENDS LockProtocol, TLC

Symmetry == Permutations(Workers) \cup Permutations(Recoveries) \cup Permutations(Roots)
=============================================================================
