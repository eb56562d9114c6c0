---------------------------- MODULE MCHotReconcile ----------------------------
(* HotReconcile by itself: its state and its window are those of the module. *)
EXTENDS HotReconcile
=============================================================================
