------------------------------- MODULE MCMcp -------------------------------
(* A small instance of McpInstallation for TLC.                            *)
EXTENDS McpInstallation, TLC

CONSTANTS d1, d2, r1, r2

RequestSymmetry == Permutations(Requests)
=============================================================================
