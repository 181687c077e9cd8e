---------------------------- MODULE MCReconciler ----------------------------
(* Reconciler on small instances.                                          *)
EXTENDS Reconciler
=============================================================================
