--------------------------- MODULE MCCoordinator ---------------------------
(* A small instance of LifecycleCoordinator for TLC.                       *)
EXTENDS LifecycleCoordinator, TLC

CONSTANTS o1, o2, stop, keep

=============================================================================
