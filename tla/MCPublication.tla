---------------------------- MODULE MCPublication ----------------------------
(***************************************************************************)
(* Two MCP Tools in one repository, of which one uses the Component, and a *)
(* third Tool in another repository.                                       *)
(***************************************************************************)
EXTENDS McpToolPublication, TLC

CONSTANTS one, two, far, home, away

MCTools == {one, two, far}
MCRepositories == {home, away}
MCHome == [t \in MCTools |-> IF t = far THEN away ELSE home]
MCDependents == {one}
MCSymmetry == Permutations(Commands)

==============================================================================
