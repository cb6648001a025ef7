---------------------------- MODULE WorkflowGraph ----------------------------
(***************************************************************************)
(* A drawn graph of Start, Command and End Nodes, from the document to the *)
(* end of one run of it: admission and topology validation                 *)
(* (workflow/validation.py, workflow/topology.py, workflow/catalog.py),    *)
(* compilation to a LangGraph StateGraph (workflow/compiler.py,            *)
(* mcp_tools/compiler.py), the Command handler around an extension's       *)
(* script (command.py) and the State channel that validates one super-step *)
(* (the two _Validated...StateChannel classes).                            *)
(*                                                                         *)
(* The super-step engine itself is LangGraph's: the tasks of a step read   *)
(* the State the step began with, their writes are applied together when   *)
(* every one of them has ended, and one failing task fails the run.        *)
(*                                                                         *)
(* One module stands for both kinds of graph.  They differ only with a     *)
(* schema: an MCP Tool has one channel per field beside the flat State,    *)
(* and a deferred Node that validates the output.                          *)
(***************************************************************************)
EXTENDS Naturals, FiniteSets, SequencesExt

CONSTANTS
    Documents,      \* the documents submitted
    States,         \* flat States: functions from variable names to values
    ValidStates,    \* the States the schema's State model accepts
    FinalStates,    \* the States whose projection the Output model accepts
    Updates,        \* the updates a script returns: functions on some variables
    END             \* LangGraph's own name for the end of a graph

ASSUME GraphStatesAssumption ==
    /\ ValidStates \subseteq States
    /\ FinalStates \subseteq States

VARIABLES
    doc,        \* the document
    phase,      \* "draft", "rejected", "running", "output", "completed" or "failed"
    state,      \* the value of the State channel
    tasks,      \* the Command Nodes of the current super-step
    results     \* what those that have ended return: Node |-> [update, goto]

runVars == <<doc, phase, state, tasks, results>>

(***************************************************************************)
(* The document.                                                           *)
(***************************************************************************)

Nodes(d) == ToSet(d.nodes)
Edges(d) == ToSet(d.edges)
Ids(d) == {n.id : n \in Nodes(d)}

\* The identifiers of the Nodes of one type.
OfType(d, type) == {n.id : n \in {m \in Nodes(d) : m.type = type}}

\* The handles the catalog gives each supported Node type.
Inputs(type) == IF type \in {"command", "end"} THEN {"in"} ELSE {}
Outputs(type) == IF type \in {"start", "command"} THEN {"next"} ELSE {}

Distinct(seq) == \A i, j \in DOMAIN seq : i # j => seq[i].id # seq[j].id

\* admit_workflow_document reports no issue.
Admitted(d) ==
    /\ Distinct(d.nodes)
    /\ \A n \in Nodes(d) : n.type \in {"start", "command", "end"}
    /\ Distinct(d.edges)
    /\ d.layout \subseteq Ids(d)

\* An edge whose two ends exist and have the handles it names.
Connects(d, e) ==
    /\ \E n \in Nodes(d) : n.id = e.source /\ e.sourceHandle \in Outputs(n.type)
    /\ \E n \in Nodes(d) : n.id = e.target /\ e.targetHandle \in Inputs(n.type)

\* What the worklist from the Start Nodes has found after at most k rounds.
FoundBy(d) ==
    LET found[k \in 0 .. Cardinality(Ids(d))] ==
            IF k = 0 THEN OfType(d, "start")
            ELSE LET before == found[k - 1]
                 IN before \cup {e.target : e \in
                        {f \in Edges(d) : f.source \in before /\ f.target \in Ids(d)}}
    IN found[Cardinality(Ids(d))]

\* validate_workflow_topology reports no issue.
Executable(d) ==
    /\ \A e \in Edges(d) : Connects(d, e)
    /\ \A i, j \in DOMAIN d.edges : i # j =>
            <<d.edges[i].source, d.edges[i].target>>
                # <<d.edges[j].source, d.edges[j].target>>
    /\ OfType(d, "command") \subseteq d.commands
    /\ Cardinality(OfType(d, "start")) = 1
    /\ Cardinality(OfType(d, "end")) = 1
    /\ \E e \in Edges(d) : e.source \in OfType(d, "start")
    /\ Ids(d) \ OfType(d, "end") \subseteq FoundBy(d)

(***************************************************************************)
(* The compiled graph.                                                     *)
(***************************************************************************)

\* An MCP Tool with a schema: it has a deferred Node that validates the output.
ChecksOutput(d) == d.tool /\ d.schema

\* The Nodes the edges from n lead to.
TargetsOf(d, n) == {e.target : e \in {f \in Edges(d) : f.source = n}}

\* The names a script of n may give in its goto.
Destinations(d, n) ==
    TargetsOf(d, n)
        \cup (IF TargetsOf(d, n) \cap OfType(d, "end") # {} THEN {END} ELSE {})

\* The Command Nodes a super-step whose tasks return these targets leads to.
Scheduled(d, targets) == targets \cap OfType(d, "command")

\* merge_workflow_state: the update overrides what was there.
MergeWorkflowState(current, update) == update @@ current

Satisfies(d, s) == d.schema => s \in ValidStates

\* _Validated...StateChannel.update: all updates of a step, one after another,
\* and one validation of what they add up to.
Accumulated(s, updates) ==
    FoldSeq(LAMBDA update, current : MergeWorkflowState(current, update), s, updates)

\* Mutant: each branch's update is validated, what they add up to is not.
AcceptsEachBranch(d, s, updates) ==
    \A i \in DOMAIN updates : Satisfies(d, MergeWorkflowState(s, updates[i]))

\* What the channel checks of a step's updates before it takes them.
AcceptsStep(d, s, updates) == Satisfies(d, Accumulated(s, updates))

\* Two tasks of one step write the same field of an MCP Tool's schema: its
\* per-field channels take one value a step.
Collides(d, returned) ==
    /\ ChecksOutput(d)
    /\ \E m, n \in DOMAIN returned :
            m # n /\ DOMAIN returned[m].update \cap DOMAIN returned[n].update # {}

\* Mutant: the output is validated only when a script has named the End.
AfterGotoOnly(d, targets) ==
    IF Scheduled(d, targets) # {} THEN "running"
    ELSE IF ChecksOutput(d) /\ targets # {} THEN "output"
    ELSE "completed"

\* Where a run is after a step that returned these targets.
AfterStep(d, targets) ==
    IF Scheduled(d, targets) # {} THEN "running"
    ELSE IF ChecksOutput(d) THEN "output"
    ELSE "completed"

(***************************************************************************)
(* The actions.                                                            *)
(***************************************************************************)

RunInit ==
    /\ doc \in Documents
    /\ phase = "draft"
    /\ state \in States
    /\ tasks = {}
    /\ results = <<>>

\* compile_workflow, compile_mcp_tool_graph: the first issue is raised.
Reject ==
    /\ phase = "draft"
    /\ ~ (Admitted(doc) /\ Executable(doc))
    /\ phase' = "rejected"
    /\ UNCHANGED <<doc, state, tasks, results>>

\* The compiled graph takes its input (START writes the channel, or the MCP
\* Tool's input Node does) and follows the edges that leave Start.
Start ==
    /\ phase = "draft"
    /\ Admitted(doc) /\ Executable(doc)
    /\ LET first == UNION {TargetsOf(doc, n) : n \in OfType(doc, "start")}
       IN IF Satisfies(doc, state)
          THEN phase' = AfterStep(doc, first) /\ tasks' = Scheduled(doc, first)
          ELSE phase' = "failed" /\ UNCHANGED tasks
    /\ UNCHANGED <<doc, state, results>>

\* call_command and run_command: the script of Node n returns an update that
\* leaves a valid State and targets there is an edge to.
CommandEnds(n) ==
    /\ phase = "running"
    /\ n \in tasks \ DOMAIN results
    /\ \E update \in Updates, goto \in SUBSET Destinations(doc, n) :
          /\ Satisfies(doc, MergeWorkflowState(state, update))
          /\ results' = (n :> [update |-> update, goto |-> goto]) @@ results
    /\ UNCHANGED <<doc, phase, state, tasks>>

\* The script raises, or what it returns is refused: no Command, a State the
\* schema does not accept, a target without an edge.
CommandFails(n) ==
    /\ phase = "running"
    /\ n \in tasks \ DOMAIN results
    /\ phase' = "failed"
    /\ UNCHANGED <<doc, state, tasks, results>>

\* LangGraph applies the writes of a step whose tasks have all ended, in the
\* order of the Nodes' names, and schedules the next.
StepEnds ==
    /\ phase = "running"
    /\ DOMAIN results = tasks
    /\ \E order \in SetToAllKPermutations(tasks) :
         LET updates == [i \in 1 .. Len(order) |-> results[order[i]].update]
             targets == UNION {results[n].goto : n \in tasks}
         IN /\ Len(order) = Cardinality(tasks)
            /\ IF Collides(doc, results) \/ ~ AcceptsStep(doc, state, updates)
               THEN /\ phase' = "failed"
                    /\ UNCHANGED <<state, tasks, results>>
               ELSE /\ state' = Accumulated(state, updates)
                    /\ tasks' = Scheduled(doc, targets)
                    /\ phase' = AfterStep(doc, targets)
                    /\ results' = <<>>
    /\ UNCHANGED doc

\* GraphRecursionError: the run has reached recursion_limit.
StepsExhausted ==
    /\ phase = "running"
    /\ results = <<>>
    /\ phase' = "failed"
    /\ UNCHANGED <<doc, state, tasks, results>>

\* validate_output: the deferred Node runs when no other task is left.
OutputValidated ==
    /\ phase = "output"
    /\ phase' = IF state \in FinalStates THEN "completed" ELSE "failed"
    /\ UNCHANGED <<doc, state, tasks, results>>

RunNext ==
    \/ Reject
    \/ Start
    \/ \E n \in tasks : CommandEnds(n) \/ CommandFails(n)
    \/ StepEnds
    \/ StepsExhausted
    \/ OutputValidated

RunSpec == RunInit /\ [][RunNext]_runVars

(***************************************************************************)
(* Properties.                                                             *)
(***************************************************************************)

\* The State channel always holds a State and only Command Nodes are tasks.
RunTypeOK ==
    /\ phase \in {"draft", "rejected", "running", "output", "completed", "failed"}
    /\ state \in States
    /\ tasks \subseteq OfType(doc, "command")
    /\ DOMAIN results \subseteq tasks

\* A run that goes on has a State its schema accepts, whatever the branches of
\* a super-step wrote together: two updates that are each valid may add up to
\* a State that is not (_ValidatedWorkflowStateChannel.update).
StateAlwaysValid ==
    phase \in {"running", "output", "completed"} => Satisfies(doc, state)

\* An MCP Tool call that succeeds answers with a State its Output model
\* accepts, as every branch left it, whether or not a script ever named the End
\* (the deferred output Node of compile_mcp_tool_graph).
AnswerIsValid ==
    phase = "completed" =>
        /\ tasks = {} /\ results = <<>>
        /\ ChecksOutput(doc) => state \in FinalStates

==============================================================================
