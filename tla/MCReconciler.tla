---------------------------- MODULE MCReconciler ----------------------------
(* Model-checking instance of Reconciler: a few interchangeable instances. *)
EXTENDS Reconciler, TLC

KeySymmetry == Permutations(Keys)
=============================================================================
