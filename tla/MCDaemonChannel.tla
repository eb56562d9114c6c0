--------------------------- MODULE MCDaemonChannel ---------------------------
(* DaemonChannel with small constants for TLC.                              *)
EXTENDS DaemonChannel

TwoOrders == 2

\* One of them at a venue of the first jurisdiction only.
OneAbroad == {1}
=============================================================================
