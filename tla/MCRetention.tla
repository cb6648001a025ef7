---------------------------- MODULE MCRetention ----------------------------
(* A small instance of LifecycleRetention for TLC.                         *)
EXTENDS LifecycleRetention, TLC

CONSTANTS c1, c2

\* Two calls overlap where a history leaves room for one Run at most; one call
\* meets a Lifecycle whose entry starts a Run of its own.
MCCalls == (0 :> 1) @@ (1 :> 2) @@ (2 :> 2)

CleanerSymmetry == Permutations(Cleaners)
=============================================================================
