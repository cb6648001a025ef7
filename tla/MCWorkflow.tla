----------------------------- MODULE MCWorkflow -----------------------------
(***************************************************************************)
(* Every drawing of at most six edges between one Start, two Commands and  *)
(* one End, and documents with one flaw each.  A State has two variables   *)
(* that the schema does not allow to be set together.                      *)
(***************************************************************************)
EXTENDS WorkflowGraph

Types == [start |-> "start", one |-> "command", two |-> "command", end |-> "end"]

MCNodes ==
    [i \in 1 .. 4 |->
        LET id == <<"start", "one", "two", "end">>[i] IN [id |-> id, type |-> Types[id]]]

Edge(pair) ==
    [id |-> pair, source |-> pair[1], target |-> pair[2],
     sourceHandle |-> "next", targetHandle |-> "in"]

\* Every edge the catalog's handles allow, and two they do not.
Pairs ==
    <<<<"start", "one">>, <<"start", "two">>, <<"start", "end">>,
      <<"one", "one">>, <<"one", "two">>, <<"one", "end">>,
      <<"two", "one">>, <<"two", "two">>, <<"two", "end">>,
      <<"one", "start">>, <<"end", "two">>>>

Document(pairs, schema, tool) ==
    [nodes |-> MCNodes,
     edges |-> LET drawn == SelectSeq(Pairs, LAMBDA p : p \in pairs)
               IN [i \in DOMAIN drawn |-> Edge(drawn[i])],
     layout |-> DOMAIN Types, commands |-> {"one", "two"},
     schema |-> schema, tool |-> tool]

\* At most MaxEdges edges.
MaxEdges == 6
Drawings == UNION {kSubset(k, ToSet(Pairs)) : k \in 0 .. MaxEdges}

Sound == Document({<<"start", "one">>, <<"one", "end">>, <<"start", "two">>}, TRUE, TRUE)

\* Documents that differ from a sound one in one place.
Flawed ==
    {[Sound EXCEPT !.nodes = Append(@, @[1])],
     [Sound EXCEPT !.nodes = Append(@, [id |-> "more", type |-> "start"])],
     [Sound EXCEPT !.nodes = Append(@, [id |-> "more", type |-> "end"])],
     [Sound EXCEPT !.nodes = Append(@, [id |-> "more", type |-> "agent"])],
     [Sound EXCEPT !.edges = Append(@, @[1])],
     [Sound EXCEPT !.edges = Append(@, [Edge(<<"one", "end">>) EXCEPT !.id = <<"more">>])],
     [Sound EXCEPT !.edges = Append(@, Edge(<<"one", "nowhere">>))],
     [Sound EXCEPT !.edges[1].sourceHandle = "in"],
     [Sound EXCEPT !.edges[1].targetHandle = "next"],
     [Sound EXCEPT !.layout = {"nowhere"}],
     [Sound EXCEPT !.commands = {"one"}]}

MCDocuments ==
    {Document(pairs, schema, tool) :
        pairs \in Drawings, schema \in BOOLEAN, tool \in BOOLEAN} \cup Flawed

MCStates == [{"x", "y"} -> 0 .. 1]
MCValidStates == {s \in MCStates : s["x"] + s["y"] < 2}
MCFinalStates == {s \in MCStates : s["x"] = 1}
MCUpdates == {<<>>, "x" :> 1, "y" :> 1, "x" :> 0}

=============================================================================
