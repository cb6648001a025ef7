------------------------------- MODULE MCAgent -------------------------------
(* A published Main Agent with a Subagent, a plain draft, and a Workflow;  *)
(* nested virtual folders, a Skill folder, packages and one connection.    *)
EXTENDS AgentRequests

Entity(kind, ids) == [e \in ids |-> kind]
BlockIds == {"r1", "o1", "f1", "f2", "k1", "t1", "d1", "x1", "c1", "e1", "f3", "q1"}
MCKindOf ==
  Entity("component", BlockIds) @@ Entity("main", {"m1", "m2"})
    @@ Entity("subagent", {"s1"}) @@ Entity("workflow", {"g1"})
MCIds == DOMAIN MCKindOf

MCNames == {"skills", "v", "w", "a", "x", "notes"}
MCReserved == {"skills"}
MCSources == {"A", "V", "W", "K", "B"}
MCLeaf == [s \in MCSources |-> "x"]
Plain == HostFolder({}, {}, FALSE)
MCDisk ==
  ("A" :> Plain) @@ ("V" :> HostFolder({}, {<<"x">>}, FALSE))
    @@ ("B" :> HostFolder({}, {<<"x">>}, FALSE)) @@ ("W" :> Plain) @@ ("K" :> HostFolder({<<"x">>}, {}, FALSE))
MCPackages == {"po", "px", "py", "pc", "pe"}
MCToolName == [p \in MCPackages |-> IF p = "py" THEN "read_file" ELSE p]
MCHost == [disk |-> MCDisk,
           packages |-> [p \in MCPackages |-> IF p = "py" THEN "missing" ELSE "ready"]]
MCHostStates ==
  ("A" :> {Missing}) @@ ("V" :> {HostFolder({<<"w">>}, {}, FALSE)}) @@ ("W" :> {}) @@ ("B" :> {})
    @@ ("K" :> {HostFolder({}, {}, TRUE)})
MCPackageStates == {"failed"}
MCProbes == {<<"v", "x">>, <<"v", "w", "x">>, <<"a", "x">>, <<"skills", "x">>, <<"notes">>}

Nested ==
  <<Binding(<<"v">>, "V", FALSE, "read-only"), Binding(<<"v", "w">>, "W", FALSE, "no-access")>>
Composite(skill) ==
  CompositeBlock(<<Binding(<<"a">>, "A", TRUE, "read-write")>>, Nested, <<>>, skill, FALSE)
MCBlocks ==
  ("r1" :> PlainBlock("model-requirement")) @@ ("o1" :> PackageBlock("agent-event-output", "po"))
    @@ ("f1" :> Composite("k1")) @@ ("f2" :> ShellBlock("A", FALSE))
    @@ ("f3" :> CompositeBlock(<<>>, <<Binding(<<"v">>, "B", FALSE, "read-only")>>, <<>>, None, FALSE))
    @@ ("q1" :> McpBlock("docs"))
    @@ ("k1" :> SkillBlock("K")) @@ ("t1" :> ToolsBlock({"read_file", "write_file"}))
    @@ ("d1" :> PlainBlock("subagent")) @@ ("x1" :> PackageBlock("custom-tool", "px"))
    @@ ("c1" :> CommandBlock("pc", <<"q1">>)) @@ ("e1" :> PackageBlock("workflow-event-output", "pe"))
Whole ==
  ("model-requirement" :> "r1") @@ ("agent-event-output" :> "o1") @@ ("filesystem" :> "f1")
    @@ ("filesystem-tools" :> "t1") @@ ("subagent" :> "d1")
Bare == ("model-requirement" :> "r1") @@ ("agent-event-output" :> "o1")
NoOverride == [t \in {} |-> None]
MainWhole == Main("main", Whole, <<"x1">>, <<>>, <<>>, <<"s1">>)
MainBare == Main("bare", Bare, <<>>, <<>>, <<>>, <<>>)
MCConfig ==
  [blocks |-> MCBlocks,
   mains |-> ("m1" :> [MainWhole EXCEPT !.enabled = TRUE]) @@ ("m2" :> MainBare),
   subs |-> ("s1" :> Subagent("sub", NoOverride, <<>>, <<>>, <<>>)),
   flows |-> ("g1" :> Flow(<<"c1">>, "e1"))]

MCPayloads ==
  [e \in MCIds |->
     CASE e = "m1" -> {MainWhole}
       [] e = "s1" -> {Subagent("sub", "filesystem-tools" :> Disabled, <<>>, <<>>, <<>>),
                       Subagent("sub", "filesystem" :> "f3", <<>>, <<>>, <<>>),
                       Subagent("sub", "filesystem" :> "f2", <<"x1">>, <<>>, <<>>)}
       [] e = "f1" -> {Composite(None)}
       [] e = "t1" -> {ToolsBlock({"read_file", "execute"})}
       [] e = "x1" -> {PackageBlock("custom-tool", "py")}
       [] OTHER -> {}]
MCDeletable == {"k1", "x1"}

MCConnections == {"n1"}
MCInitialConnections == [k \in MCConnections |-> [endpoint |-> "here", stored |-> FALSE]]
MCBindings == "r1" :> "n1"
=============================================================================
