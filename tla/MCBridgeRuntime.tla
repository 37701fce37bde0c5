---------------------------- MODULE MCBridgeRuntime ----------------------------
(***************************************************************************)
(* BridgeRuntime on small instances.  A thread's n-th event is told apart  *)
(* by its thread and number; the second event type is one that can end the *)
(* broadcaster.  Drains rules symmetry out.                                *)
(***************************************************************************)
EXTENDS BridgeRuntime
=============================================================================
