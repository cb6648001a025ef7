---------------------------- MODULE AgentRequests ----------------------------
(***************************************************************************)
(* The configuration that users edit, the snapshot a request takes of it,  *)
(* and the Runs that are built from the snapshot while the configuration,  *)
(* the connections and the host go on changing (api/agent_configs.py,      *)
(* configuration/component_mutations.py, storage/model_connections.py,     *)
(* runtime/request_snapshot.py, agent_builder.py, agent_runtime.py).       *)
(***************************************************************************)
EXTENDS AgentAssembly

CONSTANTS
  Ids, KindOf,               \* the records' ids and what each of them is
  Payloads,                  \* what users may save under each of them
  Deletable,                 \* the records users may delete
  Packages, ToolName,        \* package folders, and the name of what each makes
  PackageStates, HostStates, \* what may become of packages and of host paths
  Connections, Endpoints,    \* model connections, and where they may lead
  KeyRequired,               \* endpoints that take no request without a key
  InitialConfig, InitialHost, InitialConnections, InitialBindings,
  Probes,                    \* virtual paths at which permissions are asked
  MaxChanges, MaxRuns        \* bounds

(* What the construction of a Run is refused for.                          *)
Reasons ==
  {"invalid", "folders", "mcp", "unselected", "unbound", "credential", "model", "package",
   "code", "no filesystem", "contract", "misfit", "sources", "files", "names", "no output"}

ASSUME RequestsAssumption ==
  /\ MaxChanges \in Nat /\ MaxRuns \in Nat
  /\ KeyRequired \subseteq Endpoints
  /\ None \notin Connections /\ None \notin Endpoints /\ None \notin Reasons
  /\ InitialConnections \in [Connections -> {None}
                                \cup [endpoint : Endpoints, stored : {FALSE}]]

(* The records are filed by what they are; those that own a package name   *)
(* its folder; a Filesystem has one of two backends; a Main Agent lists    *)
(* its Subagents.                                                          *)
ASSUME RecordsAssumption ==
  LET OfKind(kind) == {e \in Ids : KindOf[e] = kind}
      Block(block) ==
        /\ block.type \in OwnsPackage => block.package \in Packages
        /\ block.type = "filesystem" => block.mode \in {"composite", "local-shell"}
      MainAgent(main) ==
        {"enabled", "subagents"} \subseteq DOMAIN main /\ main.subagents \in Seq(Ids)
  IN  /\ DOMAIN InitialConfig = {"blocks", "mains", "subs", "flows"}
      /\ DOMAIN InitialConfig.blocks = OfKind("component")
      /\ DOMAIN InitialConfig.mains = OfKind("main")
      /\ DOMAIN InitialConfig.subs = OfKind("subagent")
      /\ DOMAIN InitialConfig.flows = OfKind("workflow")
      /\ \A b \in OfKind("component") :
           \A r \in ({InitialConfig.blocks[b]} \ {None}) \cup Payloads[b] : Block(r)
      /\ \A m \in OfKind("main") :
           \A r \in ({InitialConfig.mains[m]} \ {None}) \cup Payloads[m] : MainAgent(r)
      /\ InitialHost = [disk |-> InitialHost.disk, packages |-> InitialHost.packages]
      /\ InitialHost.packages \in [Packages -> PackageStatus]
      /\ PackageStates \subseteq PackageStatus
      /\ None \notin Selectable \cup OwnsPackage

VARIABLES
  config,        \* the records of the repository
  host,          \* folders, files and Python packages
  connections,   \* model connections: where they lead, whether a key is stored
  secrets,       \* the stored key of each, by the endpoint it was entered for
  bindings,      \* the connection bound to each model requirement
  job,           \* a command that was validated and is not saved yet, or None
  lifecycle,     \* the frozen configuration of a request, once captured
  run,           \* a Run of that request
  changes, runs  \* how many changes and Runs there were

vars == <<config, host, connections, secrets, bindings, job, lifecycle, run, changes, runs>>

Graph == INSTANCE ConfigGraph WITH
  Entities <- Ids, Kind <- KindOf, MayRefer <- [e \in Ids |-> {}], Absent <- None

NoLifecycle ==
  [captured |-> FALSE, config |-> None, connections |-> None, bindings |-> None, recorded |-> {}]
NoRun ==
  [stage |-> "idle", subject |-> None, secrets |-> None, stale |-> {}, calm |-> FALSE,
   files |-> <<>>, models |-> {}, thread |-> FALSE, open |-> {}, loads |-> <<>>,
   cancels |-> 0, abandoned |-> FALSE, refusal |-> None]

-----------------------------------------------------------------------------
(* Commands.                                                               *)

(* A change the bound still allows.                                        *)
Change == changes < MaxChanges /\ changes' = changes + 1
(* The job was validated on a configuration that is no longer current.     *)
Staled == IF job = None THEN None ELSE [job EXCEPT !.fresh = FALSE]
Disturbed(r) == [r EXCEPT !.calm = FALSE]

(* update_main_agent, publish_main_agent: validated, then saved, each under *)
(* a lock of its own.  An ordinary save makes a draft of what it saves.    *)
ValidateMain(id, main, publish) ==
  /\ job = None /\ Change
  /\ config.mains[id] # None
  /\ MainValid(main)
  /\ publish => MainIssues(config, host, id, main) = {}
  /\ job' = [kind |-> "mains", id |-> id, fresh |-> TRUE,
             record |-> [main EXCEPT !.enabled = publish]]
  /\ UNCHANGED <<config, host, connections, secrets, bindings, lifecycle, run, runs>>

(* update_subagent                                                         *)
ValidateSubagent(id, sub) ==
  /\ job = None /\ Change
  /\ config.subs[id] # None
  /\ SubagentValid(sub)
  /\ SubagentIssues(config, host, id, sub) = {}
  /\ job' = [kind |-> "subs", id |-> id, fresh |-> TRUE, record |-> sub]
  /\ UNCHANGED <<config, host, connections, secrets, bindings, lifecycle, run, runs>>

(* AgentConfigStore.save_item: a record deleted meanwhile is created again. *)
Save ==
  /\ job # None
  /\ config' = IF job.kind = "mains"
               THEN [config EXCEPT !.mains[job.id] = job.record]
               ELSE [config EXCEPT !.subs[job.id] = job.record]
  /\ job' = None
  /\ UNCHANGED <<host, connections, secrets, bindings, lifecycle, run, changes, runs>>

(* ComponentMutationService.update: under the mutation lock throughout.    *)
(* A component that is given a new name takes its package folder along.    *)
Renamed(old, block) ==
  IF block.type \in OwnsPackage /\ block.package # old.package
  THEN [host EXCEPT !.packages[block.package] = host.packages[old.package],
                    !.packages[old.package] = "missing"]
  ELSE host
UpdateBlock(id, block) ==
  /\ Change
  /\ config.blocks[id] # None /\ config.blocks[id] # block
  /\ config.blocks[id].type = block.type
  /\ block.type \in OwnsPackage =>
       block.package = config.blocks[id].package \/ host.packages[block.package] = "missing"
  /\ LET after == Renamed(config.blocks[id], block)
     IN  /\ BlockIssues(config, host, after, id, block) = {}
         /\ host' = after
         /\ run' = IF after = host THEN run ELSE Disturbed(run)
  /\ config' = [config EXCEPT !.blocks[id] = block]
  /\ job' = Staled
  /\ UNCHANGED <<connections, secrets, bindings, lifecycle, runs>>

(* iter_configuration_references                                           *)
RecordOf(c, id) ==
  CASE id \in DOMAIN c.blocks -> c.blocks[id]
    [] id \in DOMAIN c.mains -> c.mains[id]
    [] id \in DOMAIN c.subs -> c.subs[id]
    [] id \in DOMAIN c.flows -> c.flows[id]
Lists(agent) == ToSet(agent.tools) \cup ToSet(agent.middleware) \cup ToSet(agent.mcp)
ReferencesOf(c, id) ==
  LET r == RecordOf(c, id)
  IN  CASE id \in DOMAIN c.mains -> Range(r.refs) \cup Lists(r) \cup ToSet(r.subagents)
        [] id \in DOMAIN c.subs -> (Range(r.overrides) \ {Disabled}) \cup Lists(r)
        [] id \in DOMAIN c.flows -> ToSet(r.commands) \cup ({r.output} \ {None})
        [] OTHER -> IF r.type = "filesystem" THEN {r.skill} \ {None}
                    ELSE IF r.type = "command" THEN ToSet(r.mcp) ELSE {}
AsGraph(c) ==
  [e \in Ids |->
     IF RecordOf(c, e) = None THEN None
     ELSE Graph!Record(ReferencesOf(c, e),
                       e \in DOMAIN c.mains \cup DOMAIN c.flows /\ RecordOf(c, e).enabled)]

(* AgentConfigStore.delete_items, ComponentMutationService.delete: what is *)
(* published and depends on the record becomes a draft; its package goes.  *)
Delete(id) ==
  /\ Change
  /\ RecordOf(config, id) # None
  /\ LET left == Graph!Deleted(AsGraph(config), {id})
         Drafted(records) ==
           [e \in DOMAIN records |->
              IF left[e] = None THEN None
              ELSE [records[e] EXCEPT !.enabled = left[e].enabled]]
         owned == IF id \in DOMAIN config.blocks /\ config.blocks[id].type \in OwnsPackage
                  THEN {config.blocks[id].package} ELSE {}
     IN  /\ config' =
              [blocks |-> [b \in DOMAIN config.blocks |->
                             IF b = id THEN None ELSE config.blocks[b]],
               subs |-> [s \in DOMAIN config.subs |->
                           IF s = id THEN None ELSE config.subs[s]],
               mains |-> Drafted(config.mains), flows |-> Drafted(config.flows)]
         /\ host' = [host EXCEPT !.packages =
                       [p \in Packages |-> IF p \in owned THEN "missing" ELSE @[p]]]
         /\ run' = IF owned = {} THEN run ELSE Disturbed(run)
  /\ job' = Staled
  /\ UNCHANGED <<connections, secrets, bindings, lifecycle, runs>>

-----------------------------------------------------------------------------
(* Model connections.                                                      *)

(* A saved connection keeps the key it has only if it still leads to the   *)
(* same place; a key no connection uses is removed.                        *)
ReusesByProvider(old, endpoint) == old # None
Reuses(old, endpoint) == old # None /\ old.endpoint = endpoint
SaveConnection(conn, endpoint, keyed) ==
  LET old == connections[conn]
      stored == keyed \/ (old # None /\ Reuses(old, endpoint) /\ old.stored)
  IN  /\ Change
      /\ connections' = [connections EXCEPT ![conn] = [endpoint |-> endpoint, stored |-> stored]]
      /\ secrets' = [secrets EXCEPT ![conn] =
                       IF keyed THEN endpoint ELSE IF stored THEN @ ELSE None]
      /\ UNCHANGED <<config, host, bindings, job, lifecycle, run, runs>>

DeleteConnection(conn) ==
  /\ Change
  /\ connections[conn] # None
  /\ connections' = [connections EXCEPT ![conn] = None]
  /\ secrets' = [secrets EXCEPT ![conn] = None]
  /\ bindings' = [r \in DOMAIN bindings |-> IF bindings[r] = conn THEN None ELSE bindings[r]]
  /\ UNCHANGED <<config, host, job, lifecycle, run, runs>>

(* set_binding                                                             *)
Bind(requirement, conn) ==
  /\ Change
  /\ conn # None => connections[conn] # None
  /\ bindings[requirement] # conn
  /\ bindings' = [bindings EXCEPT ![requirement] = conn]
  /\ UNCHANGED <<config, host, connections, secrets, job, lifecycle, run, runs>>

-----------------------------------------------------------------------------
(* The host.                                                               *)

HostChanges(after) ==
  /\ Change
  /\ host' = after /\ host' # host
  /\ run' = Disturbed(run)
  /\ job' = Staled
  /\ UNCHANGED <<config, connections, secrets, bindings, lifecycle, runs>>
DiskChanges(source, state) == HostChanges([host EXCEPT !.disk[source] = state])
PackageChanges(package, state) ==
  /\ host.packages[package] # "missing"
  /\ HostChanges([host EXCEPT !.packages[package] = state])

-----------------------------------------------------------------------------
(* The snapshot.                                                           *)

(* _published_repository_config, frozen_projection                         *)
Published(c) ==
  LET Only(records) ==
        [e \in {e \in DOMAIN records : records[e] # None /\ records[e].enabled} |-> records[e]]
  IN  [c EXCEPT !.mains = Only(@), !.flows = Only(@)]
FrozenConnections ==
  [k \in Connections |-> IF k \in Range(bindings) THEN connections[k] ELSE None]

(* _capture: one consistent view, under the mutation lock.                 *)
Capture ==
  /\ ~lifecycle.captured
  /\ lifecycle' = [captured |-> TRUE, config |-> Published(config), connections |-> FrozenConnections,
                   bindings |-> bindings, recorded |-> {}]
  /\ UNCHANGED <<config, host, connections, secrets, bindings, job, run, changes, runs>>

(* _hydrate_lifecycle_snapshot, for each Run: the frozen declarations with *)
(* the keys of this moment.  "stale" notes the connections edited since.   *)
Hydrate(subject) ==
  /\ lifecycle.captured /\ runs < MaxRuns
  /\ run.stage \in {"idle", "over"} /\ ~run.thread
  /\ run' = [NoRun EXCEPT !.stage = "hydrated", !.subject = subject, !.secrets = secrets,
                          !.stale = {k \in Connections :
                                       lifecycle.connections[k] # connections[k]}]
  /\ runs' = runs + 1
  /\ UNCHANGED <<config, host, connections, secrets, bindings, job, lifecycle, changes>>

-----------------------------------------------------------------------------
(* The construction of a Run.  Every step reads the frozen configuration   *)
(* and the host as it is at that moment.                                   *)

IsAgent(subject) == KindOf[subject] = "main"
Plan == Assembly(lifecycle.config, run.subject)
FlowOf == lifecycle.config.flows[run.subject]
Refused(why) == [run EXCEPT !.stage = "over", !.refusal = why]
Ready(package) == host.packages[package] = "ready"
OnlyRun == UNCHANGED <<config, host, connections, secrets, bindings, job, changes, runs>>

(* AgentBuilder.resolve: validated once more, for this host.               *)
ResolveAgent ==
  LET valid == /\ run.subject \in DOMAIN lifecycle.config.mains
               /\ MainIssues(lifecycle.config, host, run.subject,
                             lifecycle.config.mains[run.subject]) = {}
  IN  /\ run.stage = "hydrated" /\ IsAgent(run.subject)
      /\ run' = IF valid THEN [run EXCEPT !.stage = "resolved", !.calm = TRUE]
                ELSE Refused("invalid")
      /\ OnlyRun /\ UNCHANGED lifecycle

(* _resolved_mapped_directory_paths_by_filesystem: folders that are found  *)
(* are recorded for the Lifecycle, up to the first that are not.           *)
MapFolders ==
  LET with == SelectSeq(Plan, LAMBDA n : "filesystem" \in DOMAIN n.refs)
      Usable(n) ==
        /\ FilesystemValid(n.blocks["filesystem"], host.disk)
        /\ FoldersResolved(n.blocks["filesystem"], host.disk,
                           n.refs["filesystem"] \in lifecycle.recorded)
      lost == {i \in DOMAIN with : ~Usable(with[i])}
      found == {i \in DOMAIN with : \A k \in lost : i < k}
  IN  /\ run.stage = "resolved"
      /\ lifecycle' = [lifecycle EXCEPT !.recorded =
                         @ \cup {with[i].refs["filesystem"] : i \in found}]
      /\ run' = IF lost = {} THEN [run EXCEPT !.stage = "mapped"] ELSE Refused("folders")
      /\ OnlyRun

(* start_workflow: Commands and what they need of MCP are looked up.       *)
ResolveWorkflow ==
  LET c == lifecycle.config
      known == /\ run.subject \in DOMAIN c.flows
               /\ \A k \in ToSet(FlowOf.commands) :
                    /\ Found(c, k, "command")
                    /\ \A q \in ToSet(c.blocks[k].mcp) : Found(c, q, "mcp-requirement")
  IN  /\ run.stage = "hydrated" /\ ~IsAgent(run.subject)
      /\ run' = IF known THEN [run EXCEPT !.stage = "mapped"] ELSE Refused("invalid")
      /\ OnlyRun /\ UNCHANGED lifecycle

(* The runtimes of Python packages a subject needs, in the order opened.   *)
Phases(subject) ==
  IF IsAgent(subject) THEN <<"output">>
  ELSE (IF FlowOf.commands = <<>> THEN <<>> ELSE <<"commands">>)
         \o (IF FlowOf.output = None THEN <<>> ELSE <<"output">>)

(* An execution that nobody waits for any more is not closed by anybody.   *)
Delivered(r) == [r EXCEPT !.stage = IF r.abandoned THEN "over" ELSE "delivered"]
(* Open the runtime of the next phase, or come to an end.                  *)
Onward(r, phases) ==
  IF phases # <<>>
  THEN [r EXCEPT !.stage = "loading", !.loads = phases, !.open = @ \cup {Head(phases)}]
  ELSE IF IsAgent(r.subject) THEN Delivered([r EXCEPT !.loads = <<>>])
  ELSE [r EXCEPT !.stage = "compiling", !.loads = <<>>]

(* McpRunRuntime.discover: two requirements may not have one namespace;    *)
(* otherwise the servers of the MCP connections decide.                    *)
McpNeeded ==
  IF IsAgent(run.subject) THEN UNION {ToSet(n.mcp) : n \in ToSet(Plan)}
  ELSE UNION {ToSet(lifecycle.config.blocks[k].mcp) : k \in ToSet(FlowOf.commands)}
DiscoverMcp(answered) ==
  LET space(q) == lifecycle.config.blocks[q].namespace
      apart == \A q, r \in McpNeeded : q # r => space(q) # space(r)
  IN  /\ run.stage = "mapped"
      /\ answered \/ McpNeeded # {}
      /\ run' = IF ~(apart /\ answered) THEN Refused("mcp")
                ELSE IF IsAgent(run.subject)
                THEN [run EXCEPT !.stage = "building", !.thread = TRUE,
                                 !.open = {"tools", "middleware"}]
                ELSE Onward(run, Phases(run.subject))
      /\ OnlyRun /\ UNCHANGED lifecycle

(* _materialize_agent_resources: what a node is refused for, in the order  *)
(* of the checks.  What package code answers is up to the package.         *)
Connection(node) ==
  IF "model-requirement" \in DOMAIN node.refs
  THEN lifecycle.bindings[node.refs["model-requirement"]] ELSE None
KeyOf(conn) == IF lifecycle.connections[conn].stored THEN run.secrets[conn] ELSE None
ModelRefusal(node) ==
  LET conn == Connection(node)
      bound == conn \in Connections /\ lifecycle.connections[conn] # None
  IN  IF "model-requirement" \notin DOMAIN node.refs THEN "unselected"
      ELSE IF ~bound THEN "unbound"
      ELSE IF lifecycle.connections[conn].stored /\ run.secrets[conn] = None
      THEN "credential"
      ELSE IF lifecycle.connections[conn].endpoint \in KeyRequired /\ KeyOf(conn) = None
      THEN "model" ELSE None
PackageRefusal(blocks, works) ==
  IF \E b \in ToSet(blocks) : ~Ready(b.package) THEN "package"
  ELSE IF blocks # <<>> /\ ~works THEN "code" ELSE None
FilesystemRefusal(node) ==
  LET fs == node.blocks["filesystem"]
      skills == IF node.skill = None THEN Missing ELSE host.disk[node.skill.source]
      tools == "filesystem-tools" \in DOMAIN node.refs
  IN  IF "filesystem" \notin DOMAIN node.refs
      THEN (IF tools THEN "no filesystem" ELSE None)
      ELSE IF ~FilesystemValid(fs, host.disk) THEN "contract"
      ELSE IF ~CapabilitiesFit(fs, node.mode, tools) THEN "misfit"
      ELSE IF ~CapabilitiesFound(fs, skills, host.disk) THEN "sources" ELSE None
FirstOf(one, other) == IF one # None THEN one ELSE other
NodeRefusal(node, works) ==
  FirstOf(ModelRefusal(node),
          FirstOf(PackageRefusal(node.tools, works),
                  FirstOf(FilesystemRefusal(node), PackageRefusal(node.middleware, works))))

(* validate_model_visible_tool_names, validate_middleware_names            *)
NamesApart(node, delegates) ==
  LET made(blocks) == [i \in DOMAIN blocks |-> ToolName[blocks[i].package]]
      builtin ==
        (IF "filesystem-tools" \in DOMAIN node.refs
         THEN ShownTools(node.blocks["filesystem-tools"].visible, node.mode) ELSE {})
          \cup (IF "todo-list" \in DOMAIN node.refs THEN {"write_todos"} ELSE {})
          \cup (IF delegates THEN {"task"} ELSE {})
  IN  /\ IsInjective(made(node.tools)) /\ ToSet(made(node.tools)) \cap builtin = {}
      /\ IsInjective(made(node.middleware))

(* _build_resolved_with_resources, in a thread: whatever it is refused for *)
(* it closes both runtimes.                                                *)
ThreadClosesTools(why) ==
  [run EXCEPT !.thread = FALSE, !.open = @ \ {"tools"}, !.refusal = why]
ThreadFails(why) == [run EXCEPT !.thread = FALSE, !.open = {}, !.refusal = why]

FilesOf(node) ==
  IF "filesystem" \in DOMAIN node.refs THEN InitialFiles(node.blocks["filesystem"], host.disk)
  ELSE {}
(* One Agent of the assembly: the Main Agent, then each Subagent.          *)
MaterialiseNext(works) ==
  LET k == Len(run.files) + 1
      node == Plan[k]
      refusal == NodeRefusal(node, works)
      files == Append(run.files, FilesOf(node))
      conn == Connection(node)
      used == [run EXCEPT !.models = @ \cup
                 {[connection |-> conn, endpoint |-> lifecycle.connections[conn].endpoint,
                   key |-> KeyOf(conn)]}]
  IN  /\ run.thread /\ k <= Len(Plan)
      /\ run' = IF refusal # None THEN ThreadFails(refusal)
                ELSE IF k > 1 /\ ~FilesAgree(UNION ToSet(Tail(files))) THEN ThreadFails("files")
                ELSE IF k > 1 /\ ~NamesApart(node, FALSE) THEN ThreadFails("names")
                ELSE [used EXCEPT !.files = files]
      /\ OnlyRun /\ UNCHANGED lifecycle
FinishBuild ==
  /\ run.thread /\ Len(run.files) = Len(Plan)
  /\ run' = IF ~FilesAgree(UNION ToSet(run.files)) THEN ThreadFails("files")
            ELSE IF ~NamesApart(Plan[1], Len(Plan) > 1) THEN ThreadFails("names")
            ELSE [run EXCEPT !.thread = FALSE]
  /\ OnlyRun /\ UNCHANGED lifecycle

(* build_resolved goes on once the thread is done.  A cancelled request    *)
(* releases what was built for it.                                         *)
ResumeBuild ==
  /\ run.stage = "building" /\ ~run.thread
  /\ run' = IF run.refusal # None THEN [run EXCEPT !.stage = "over"]
            ELSE IF run.cancels > 0 THEN [run EXCEPT !.stage = "over", !.open = {}]
            ELSE Onward(run, Phases(run.subject))
  /\ OnlyRun /\ UNCHANGED lifecycle

(* The packages of a phase, loaded by complete_before_cancel: the request  *)
(* that was cancelled meanwhile closes all it opened, once they are loaded. *)
PhaseBlocks(phase) ==
  LET c == lifecycle.config
  IN  IF IsAgent(run.subject) THEN <<Plan[1].blocks["agent-event-output"]>>
      ELSE IF phase = "commands"
      THEN [i \in DOMAIN FlowOf.commands |-> c.blocks[FlowOf.commands[i]]]
      ELSE <<c.blocks[FlowOf.output]>>
OutputFound(phase) ==
  phase = "output" /\ ~IsAgent(run.subject) =>
    Found(lifecycle.config, FlowOf.output, "workflow-event-output")
LoadNext(works) ==
  LET phase == Head(run.loads)
      refusal == IF OutputFound(phase) THEN PackageRefusal(PhaseBlocks(phase), works)
                 ELSE "no output"
      closed == [run EXCEPT !.stage = "over", !.open = {}]
  IN  /\ run.stage = "loading"
      /\ run' = IF run.cancels > 0 THEN closed
                ELSE IF refusal # None THEN [closed EXCEPT !.refusal = refusal]
                ELSE Onward(run, Tail(run.loads))
      /\ OnlyRun /\ UNCHANGED lifecycle

(* compile_workflow                                                        *)
Compile ==
  /\ run.stage = "compiling"
  /\ run' = Delivered(run)
  /\ OnlyRun /\ UNCHANGED lifecycle

-----------------------------------------------------------------------------
(* The request that waits for the Run, and its cancellation.               *)

Take ==
  /\ run.stage = "delivered"
  /\ run' = [run EXCEPT !.stage = "running"]
  /\ OnlyRun /\ UNCHANGED lifecycle
(* RunExecution.close_resources                                            *)
Close ==
  /\ run.stage = "running"
  /\ run' = [run EXCEPT !.stage = "over", !.open = {}]
  /\ OnlyRun /\ UNCHANGED lifecycle

Waiting == run.stage \notin {"idle", "delivered", "running", "over"}
(* The request is gone; what was delivered and not taken yet is lost.      *)
Abandon ==
  /\ Waiting \/ run.stage = "delivered"
  /\ ~run.abandoned
  /\ run' = [run EXCEPT !.abandoned = TRUE,
                        !.stage = IF @ = "delivered" THEN "over" ELSE @]
  /\ OnlyRun /\ UNCHANGED lifecycle
(* The construction is cancelled.  While a thread builds, it is waited     *)
(* for; a second cancellation ends the waiting, not the thread.            *)
Cancel ==
  /\ Waiting
  /\ run' = CASE run.stage = "building" /\ run.cancels = 0 -> [run EXCEPT !.cancels = 1]
              [] run.stage = "building" /\ run.cancels = 1 ->
                   [run EXCEPT !.cancels = 2, !.stage = "over"]
              [] run.stage = "loading" -> [run EXCEPT !.cancels = 1]
              [] OTHER -> [run EXCEPT !.stage = "over", !.open = {}]
  /\ OnlyRun /\ UNCHANGED lifecycle

-----------------------------------------------------------------------------
Init ==
  /\ config = InitialConfig /\ host = InitialHost
  /\ connections = InitialConnections
  /\ secrets = [k \in Connections |-> None]
  /\ bindings = InitialBindings
  /\ job = None /\ lifecycle = NoLifecycle /\ run = NoRun
  /\ changes = 0 /\ runs = 0

OfKind(kind) == {e \in Ids : KindOf[e] = kind}
Edit ==
  \/ \E id \in OfKind("main"), publish \in BOOLEAN :
       \E main \in Payloads[id] : ValidateMain(id, main, publish)
  \/ \E id \in OfKind("subagent") : \E sub \in Payloads[id] : ValidateSubagent(id, sub)
  \/ Save
  \/ \E id \in OfKind("component") : \E block \in Payloads[id] : UpdateBlock(id, block)
  \/ \E id \in Deletable : Delete(id)
Reconnect ==
  \/ \E conn \in Connections, endpoint \in Endpoints, keyed \in BOOLEAN :
       SaveConnection(conn, endpoint, keyed)
  \/ \E conn \in Connections : DeleteConnection(conn)
  \/ \E r \in DOMAIN bindings, conn \in Connections \cup {None} : Bind(r, conn)
HostStep ==
  \/ \E source \in Sources : \E state \in HostStates[source] : DiskChanges(source, state)
  \/ \E package \in Packages, state \in PackageStates : PackageChanges(package, state)
Construct ==
  \/ ResolveAgent \/ MapFolders \/ ResolveWorkflow
  \/ \E answered \in BOOLEAN : DiscoverMcp(answered)
  \/ \E works \in BOOLEAN : MaterialiseNext(works)
  \/ FinishBuild \/ ResumeBuild
  \/ \E works \in BOOLEAN : LoadNext(works)
  \/ Compile
Next ==
  \/ Edit \/ Reconnect \/ HostStep
  \/ Capture
  \/ \E subject \in OfKind("main") \cup OfKind("workflow") : Hydrate(subject)
  \/ Construct
  \/ Take \/ Close \/ Abandon \/ Cancel

Spec == Init /\ [][Next]_vars

-----------------------------------------------------------------------------
(* A published Main Agent that could be assembled is not broken by an edit *)
(* that the configuration service lets through: it still assembles, or it  *)
(* is a draft again, or gone.  Only the save of what was validated before  *)
(* another change may break it (update_main_agent and update_subagent      *)
(* validate and save under separate locks).                                *)
Offered(m) == config.mains[m] # None /\ config.mains[m].enabled
Assembles(m) == MainIssues(config, host, m, config.mains[m]) = {}
KeepsAssembling ==
  [][config' # config /\ (job # None => job.fresh \/ job' # None)
       => \A m \in DOMAIN config.mains :
            Offered(m) /\ Assembles(m) /\ Offered(m)' => Assembles(m)']_vars

(* What the configuration service accepted for a request, the builder      *)
(* builds: unless the host changed in between, it is refused for nothing   *)
(* that was validated, and the permissions of every Agent it builds are    *)
(* those the documentation promises (docs/wizard-pages: the more specific  *)
(* virtual path takes precedence).                                         *)
Validated == {"unselected", "no filesystem", "contract", "misfit", "package"}
NothingValidatedRefused == run.refusal \in Validated => ~run.calm
PermissionsOf(node) ==
  LET skills == node.skill # None /\ host.disk[node.skill.source].kind = "folder"
  IN  {"filesystem", "filesystem-tools"} \subseteq DOMAIN node.refs
        /\ node.mode = "composite"
        => DeepestDecides(node.blocks["filesystem"], skills, Probes)
PermissionsAsDocumented ==
  run.stage = "delivered" /\ IsAgent(run.subject) => \A n \in ToSet(Plan) : PermissionsOf(n)
BuiltAsValidated == NothingValidatedRefused /\ PermissionsAsDocumented

(* The package runtimes opened for a Run are released when it is over, on  *)
(* every path of refusal and cancellation, and none is missing while it    *)
(* runs.  Two paths lose them: the request went away before it took what   *)
(* was delivered, and a second cancellation during the construction.       *)
Needed(subject) ==
  (IF IsAgent(subject) THEN {"tools", "middleware"} ELSE {}) \cup ToSet(Phases(subject))
RuntimesReleased ==
  /\ run.stage = "over" /\ ~run.thread /\ run.open # {} => run.abandoned \/ run.cancels = 2
  /\ run.stage \in {"delivered", "running"} => run.open = Needed(run.subject)

(* A key is sent only to the endpoint it was entered for, unless the       *)
(* connection was edited after the request was captured: a Run uses the    *)
(* frozen endpoint with the key of the moment (_hydrate_lifecycle_snapshot). *)
CredentialFitsEndpoint ==
  \A m \in run.models : m.key # None => m.key = m.endpoint \/ m.connection \in run.stale
=============================================================================
