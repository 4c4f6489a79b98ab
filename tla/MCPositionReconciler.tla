------------------------ MODULE MCPositionReconciler ------------------------
(* PositionReconciler on one symbol. *)
EXTENDS PositionReconciler
=============================================================================
