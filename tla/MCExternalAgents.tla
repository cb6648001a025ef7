------------------------- MODULE MCExternalAgents -------------------------
(* A small instance of ExternalAgentRunner for TLC.                        *)
EXTENDS ExternalAgentRunner

CONSTANTS r1, r2
=============================================================================
