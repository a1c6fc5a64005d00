---------------------------- MODULE MCReconcile ----------------------------
(* The families of Reconcile of which the theorems speak: TLC evaluates the *)
(* assumptions on them.                                                     *)
EXTENDS MCReconcileFamilies, ReconcileInvariants
=============================================================================
