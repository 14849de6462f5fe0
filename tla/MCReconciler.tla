---------------------------- MODULE MCReconciler ----------------------------
(***************************************************************************)
(* Small instances of Reconciler.                                          *)
(***************************************************************************)
EXTENDS Reconciler, MCPlatforms
=============================================================================
