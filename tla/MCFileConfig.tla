---------------------------- MODULE MCFileConfig ----------------------------
(* A small instance of FileConfig for TLC: a component, a Subagent that may *)
(* use it, a Main Agent that delegates to it, a Workflow that calls the     *)
(* component, and a second, empty repository.                               *)
EXTENDS FileConfig, TLC

CONSTANTS comp, sub, agent, flow, home, away, w1, w2

MCEntities == {comp, sub, agent, flow}
MCKind ==
  (comp :> "component") @@ (sub :> "subagent") @@ (agent :> "main")
    @@ (flow :> "workflow")
MCMayRefer ==
  (comp :> {{}}) @@ (sub :> {{comp}}) @@ (agent :> {{sub}})
    @@ (flow :> {{comp}})
MCHome == [e \in MCEntities |-> home]
CommandSymmetry == Permutations({w1, w2})
=============================================================================
