-------------------------- MODULE MCAlertLifecycle --------------------------
(***************************************************************************)
(* Small instances of AlertLifecycle: its constants are only bounds.       *)
(***************************************************************************)
EXTENDS AlertLifecycle
=============================================================================
