-------------------------- MODULE MCOperatorManager --------------------------
(***************************************************************************)
(* Small instances of OperatorManager.                                     *)
(***************************************************************************)
EXTENDS OperatorManager, MCPlatforms
==============================================================================
