---------------------------- MODULE AgentAssembly ----------------------------
(***************************************************************************)
(* What the configuration service accepts, and the Agent it assembles from *)
(* the records of a repository (validation/service.py).  A configuration c *)
(* has c.blocks, c.mains, c.subs and c.flows, each from ids to records or  *)
(* None; the host h has h.disk and h.packages.                             *)
(***************************************************************************)
EXTENDS AgentFilesystem

(* The capability types a Subagent inherits, and may override; those an    *)
(* Agent selects by one reference each; those it must select.              *)
Inherited ==
  {"model-requirement", "system-prompt", "filesystem", "filesystem-tools", "todo-list",
   "exception-retry", "model-call-limit", "tool-call-limit", "summarization", "pii"}
Selectable == Inherited \cup {"agent-event-output", "subagent"}
RequiredOfMain == {"model-requirement", "agent-event-output"}
RequiredOfSubagent == RequiredOfMain \cap Inherited
(* The types whose records own a Python package.                           *)
Packaged == {"custom-tool", "custom-middleware", "agent-event-output"}
OwnsPackage == Packaged \cup {"command", "workflow-event-output"}
(* What becomes of a package: of its folder, then of its dependencies.     *)
PackageStatus == {"missing", "invalid", "failed", "restart", "ready"}
Disabled == "disabled"

(* The records besides the Filesystem block.                               *)
PlainBlock(type) == [type |-> type]
ToolsBlock(visible) == [type |-> "filesystem-tools", visible |-> visible]
SkillBlock(source) == [type |-> "skill", source |-> source]
PackageBlock(type, package) == [type |-> type, package |-> package]
McpBlock(namespace) == [type |-> "mcp-requirement", namespace |-> namespace]
CommandBlock(package, mcp) == [type |-> "command", package |-> package, mcp |-> mcp]
Main(name, refs, tools, middleware, mcp, subagents) ==
  [name |-> name, enabled |-> FALSE, refs |-> refs, tools |-> tools,
   middleware |-> middleware, mcp |-> mcp, subagents |-> subagents]
Subagent(name, overrides, tools, middleware, mcp) ==
  [name |-> name, overrides |-> overrides, tools |-> tools,
   middleware |-> middleware, mcp |-> mcp]
Flow(commands, output) == [enabled |-> TRUE, commands |-> commands, output |-> output]

-----------------------------------------------------------------------------
(* References.                                                             *)

(* configuration_entity_type, get_block_internal                           *)
EntityType(c, id) ==
  IF id \in DOMAIN c.blocks THEN IF c.blocks[id] = None THEN None ELSE c.blocks[id].type
  ELSE IF id \in DOMAIN c.subs THEN IF c.subs[id] = None THEN None ELSE "subagent"
  ELSE None
Found(c, id, type) == id \in DOMAIN c.blocks /\ EntityType(c, id) = type
ProfileFound(c, id) == id \in DOMAIN c.subs /\ c.subs[id] # None

(* An issue of a report, by what _issue_key compares.                      *)
Issue(code, who, at) == [code |-> code, owner |-> who.id, name |-> who.name, at |-> at]
When(condition, issue) == IF condition THEN {issue} ELSE {}

ReferenceIssue(c, id, type, who, at) ==
  Issue(IF EntityType(c, id) \in {None, type} THEN "reference_not_found"
        ELSE "reference_type_mismatch", who, at)

(* _block_contract_issue: of the contracts of stored blocks only that of a *)
(* Filesystem depends on anything besides the record.                      *)
ContractValid(block, h) == block.type = "filesystem" => FilesystemValid(block, h.disk)

(* PythonPackageValidationService._reference_issues                        *)
PackageIssues(package, h, dependencies, who, at) ==
  CASE h.packages[package] \in {"invalid", "missing"} ->
         {Issue(h.packages[package], who, at)}
    [] h.packages[package] \in {"failed", "restart"} ->
         When(dependencies, Issue(h.packages[package], who, at))
    [] OTHER -> {}

(* _load_references, _load_tool_references, _load_middleware_references,   *)
(* _load_mcp_references: the issues of one reference.                      *)
LoadIssues(c, h, id, type, who, at) ==
  IF ~Found(c, id, type) THEN {ReferenceIssue(c, id, type, who, at)}
  ELSE IF ~ContractValid(c.blocks[id], h) THEN {Issue("referenced_block_invalid", who, at)}
  ELSE IF type \in Packaged THEN PackageIssues(c.blocks[id].package, h, TRUE, who, at)
  ELSE {}

ListIssues(c, h, ids, type, who, at) ==
  UNION {LoadIssues(c, h, ids[i], type, who, <<at, i>>) : i \in DOMAIN ids}
ListsIssues(c, h, agent, who) ==
  ListIssues(c, h, agent.tools, "custom-tool", who, "tool_refs")
    \cup ListIssues(c, h, agent.middleware, "custom-middleware", who, "middleware_refs")
    \cup ListIssues(c, h, agent.mcp, "mcp-requirement", who, "mcp_refs")

-----------------------------------------------------------------------------
(* The assembly.                                                           *)

Selected(c, refs, type) == type \in DOMAIN refs /\ Found(c, refs[type], type)
SelectedBlock(c, refs, type) == IF Selected(c, refs, type) THEN c.blocks[refs[type]] ELSE None
ModeOf(filesystem) == IF filesystem = None THEN "composite" ELSE filesystem.mode

(* capability_assembly_issues; its warning about summaries refuses nothing *)
CapabilityIssues(refs, required, who) ==
  {Issue("required_capability_missing", who, <<"refs", t>>) : t \in required \ DOMAIN refs}
    \cup When("filesystem-tools" \in DOMAIN refs /\ "filesystem" \notin DOMAIN refs,
              Issue("filesystem_backend_required", who, <<"refs", "filesystem">>))

(* _resolve_capability_subject: what a Filesystem asks of its neighbours.  *)
SkillIssues(c, filesystem, who) ==
  When(filesystem.skill # None /\ ~Found(c, filesystem.skill, "skill"),
       ReferenceIssue(c, filesystem.skill, "skill", who, <<"refs", "skill">>))
FilesystemIssues(c, filesystem, tools, who) ==
  SkillIssues(c, filesystem, who)
    \cup When(tools = None /\ filesystem.skill # None,
              Issue("skill_filesystem_tools_required", who, <<"refs", "filesystem-tools">>))
    \cup When(tools = None /\ filesystem.prompt,
              Issue("filesystem_prompt_tools_required", who, <<"refs", "filesystem">>))
    \cup When(tools # None /\ "execute" \in tools.visible /\ filesystem.mode # "local-shell",
              Issue("execute_local_shell_required", who, <<"refs", "filesystem-tools">>))
SubjectIssues(c, h, refs, required, who) ==
  LET filesystem == SelectedBlock(c, refs, "filesystem")
  IN  CapabilityIssues(refs, required, who)
        \cup (UNION {LoadIssues(c, h, refs[t], t, who, <<"refs", t>>) : t \in DOMAIN refs})
        \cup (IF filesystem = None THEN {}
              ELSE FilesystemIssues(c, filesystem,
                                    SelectedBlock(c, refs, "filesystem-tools"), who))

(* What a Subagent is built from: the references of the Main Agent it may  *)
(* inherit, changed by its own overrides.                                  *)
ChildReferences(refs, overrides) ==
  LET kept == DOMAIN refs \cap Inherited
      disabled == {t \in DOMAIN overrides : overrides[t] = Disabled}
  IN  [t \in (kept \cup DOMAIN overrides) \ disabled |->
         IF t \in DOMAIN overrides THEN overrides[t] ELSE refs[t]]

ChildIssues(c, h, main, id) ==
  LET sub == c.subs[id]
      who == [id |-> id, name |-> sub.name]
  IN  ListsIssues(c, h, sub, who)
        \cup SubjectIssues(c, h, ChildReferences(main.refs, sub.overrides),
                           RequiredOfSubagent, who)

(* subagent_reference_issues                                               *)
SubagentReferenceIssues(c, subagents, who) ==
  LET Again(i) == \E j \in DOMAIN subagents : j < i /\ subagents[j] = subagents[i]
      Renamed(i) ==
        /\ ProfileFound(c, subagents[i])
        /\ \E j \in DOMAIN subagents :
             /\ j < i /\ ProfileFound(c, subagents[j])
             /\ c.subs[subagents[j]].name = c.subs[subagents[i]].name
  IN  {Issue("subagent_reference_duplicate", who, <<"subagents", i>>) :
         i \in {i \in DOMAIN subagents : Again(i)}}
        \cup {Issue("subagent_name_duplicate", who, <<"subagents", i>>) :
                i \in {i \in DOMAIN subagents : ~Again(i) /\ Renamed(i)}}

DelegationIssues(c, h, main, who) ==
  LET delegates == Selected(c, main.refs, "subagent")
      missing == {i \in DOMAIN main.subagents : ~ProfileFound(c, main.subagents[i])}
  IN  When(delegates /\ main.subagents = <<>>,
           Issue("subagent_reference_required", who, <<"subagents", 0>>))
        \cup When(~delegates /\ main.subagents # <<>>,
                  Issue("subagent_capability_required", who, <<"subagents", 0>>))
        \cup {ReferenceIssue(c, main.subagents[i], "subagent", who, <<"subagents", i>>) :
                i \in missing}
        \cup (IF ~delegates THEN {}
              ELSE UNION {ChildIssues(c, h, main, main.subagents[i]) :
                            i \in DOMAIN main.subagents \ missing})
        \cup SubagentReferenceIssues(c, main.subagents, who)

(* _assemble_main_agent: all that is wrong with a Main Agent.              *)
MainIssues(c, h, id, main) ==
  LET who == [id |-> id, name |-> main.name]
  IN  SubjectIssues(c, h, main.refs, RequiredOfMain, who)
        \cup ListsIssues(c, h, main, who)
        \cup DelegationIssues(c, h, main, who)

(* StaticAssembly and ResolvedSubagent: the blocks of one Agent of it.     *)
Node(c, id, agent, refs) ==
  LET filesystem == SelectedBlock(c, refs, "filesystem")
  IN  [id |-> id, name |-> agent.name, refs |-> refs,
       blocks |-> [t \in DOMAIN refs |-> c.blocks[refs[t]]],
       skill |-> IF filesystem = None \/ filesystem.skill = None THEN None
                 ELSE c.blocks[filesystem.skill],
       mode |-> ModeOf(filesystem),
       tools |-> [i \in DOMAIN agent.tools |-> c.blocks[agent.tools[i]]],
       middleware |-> [i \in DOMAIN agent.middleware |-> c.blocks[agent.middleware[i]]],
       mcp |-> agent.mcp]
ChildNode(c, main, id) ==
  Node(c, id, c.subs[id], ChildReferences(main.refs, c.subs[id].overrides))
(* The Main Agent first, then its Subagents in the order it names them.    *)
Assembly(c, id) ==
  LET main == c.mains[id]
  IN  <<Node(c, id, main, main.refs)>>
        \o (IF Selected(c, main.refs, "subagent")
            THEN [i \in DOMAIN main.subagents |-> ChildNode(c, main, main.subagents[i])]
            ELSE <<>>)

-----------------------------------------------------------------------------
(* Saving: the report a command must pass.                                 *)

(* MainAgentProfile, SubagentSettings, CapabilityOverride                  *)
ListsValid(agent) ==
  /\ IsInjective(agent.tools) /\ IsInjective(agent.middleware) /\ IsInjective(agent.mcp)
MainValid(main) == DOMAIN main.refs \subseteq Selectable /\ ListsValid(main)
SubagentValid(sub) ==
  /\ DOMAIN sub.overrides \subseteq Inherited
  /\ \A t \in DOMAIN sub.overrides : sub.overrides[t] = Disabled => t \notin RequiredOfMain
  /\ ListsValid(sub)

(* Does an Agent name this block itself?                                   *)
NamesBlock(selection, agent, type, id) ==
  CASE type = "custom-tool" -> id \in ToSet(agent.tools)
    [] type = "custom-middleware" -> id \in ToSet(agent.middleware)
    [] OTHER -> type \in DOMAIN selection /\ selection[type] = id

MainIds(c) == {m \in DOMAIN c.mains : c.mains[m] # None}
Children(c, m) == {s \in ToSet(c.mains[m].subagents) : ProfileFound(c, s)}
Reaches(c, m, type, id) ==
  \/ NamesBlock(c.mains[m].refs, c.mains[m], type, id)
  \/ \E s \in Children(c, m) : NamesBlock(c.subs[s].overrides, c.subs[s], type, id)
(* _impact_issues_for_block: the Main Agents an edited block matters to.   *)
AffectedByBlock(c, type, id) ==
  LET filesystems == {f \in DOMAIN c.blocks :
                        type = "skill" /\ Found(c, f, "filesystem")
                          /\ c.blocks[f].skill = id}
  IN  {m \in MainIds(c) :
         Reaches(c, m, type, id) \/ \E f \in filesystems : Reaches(c, m, "filesystem", f)}
(* _impact_issues_for_subagent                                             *)
NothingAffected(c, id) == {}
AffectedBySubagent(c, id) == {m \in MainIds(c) : id \in ToSet(c.mains[m].subagents)}

(* _new_impact_issues: what an edit adds to the reports of the Main Agents. *)
NewIssues(c, h, d, k, affected) ==
  UNION {MainIssues(d, k, m, d.mains[m]) \ MainIssues(c, h, m, c.mains[m]) : m \in affected}

(* validate_block, _block_resource_issues, for a block that is stored.  The *)
(* package folder may have been renamed, which makes h into k.             *)
BlockIssues(c, h, k, id, block) ==
  LET who == [id |-> id, name |-> block.type]
      d == [c EXCEPT !.blocks[id] = block]
  IN  IF ~ContractValid(block, k) THEN {Issue("contract", who, <<"block", 0>>)}
      ELSE (IF block.type \in OwnsPackage
            THEN PackageIssues(block.package, k, FALSE, who, <<"block", 0>>) ELSE {})
             \cup (IF block.type = "filesystem" THEN SkillIssues(c, block, who) ELSE {})
             \cup NewIssues(c, k, d, k, AffectedByBlock(c, block.type, id))

(* validate_subagent                                                       *)
SubagentIssues(c, h, id, sub) ==
  LET who == [id |-> id, name |-> sub.name]
      replaced == {t \in DOMAIN sub.overrides : sub.overrides[t] # Disabled}
      own == (UNION {LoadIssues(c, h, sub.overrides[t], t, who, <<"overrides", t>>) :
                       t \in replaced})
               \cup ListIssues(c, h, sub.middleware, "custom-middleware", who, "middleware_refs")
               \cup ListIssues(c, h, sub.tools, "custom-tool", who, "tool_refs")
  IN  IF own # {} THEN own
      ELSE NewIssues(c, h, [c EXCEPT !.subs[id] = sub], h, AffectedBySubagent(c, id))
=============================================================================
