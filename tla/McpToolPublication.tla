------------------------- MODULE McpToolPublication -------------------------
(***************************************************************************)
(* The MCP Tools of a Configuration Repository and the LangGraph           *)
(* Assistants by which /mcp publishes them (api/mcp_tools.py,              *)
(* mcp_tools/publication.py, storage/mcp_tools.py, the activation route of *)
(* api/configuration_repositories.py, the Component deletions of           *)
(* api/routes.py and the start of app.py).                                 *)
(*                                                                         *)
(* The records and the Assistants are two stores no transaction spans.     *)
(* Every command that touches both holds the asyncio lock                  *)
(* publication_commands from its first read to its answer, undoes what it  *)
(* did to the first store when the second fails, and then aligns the       *)
(* Assistants with the records that are left (reconcile).  A call that     *)
(* fails may have taken effect; a commit that fails has not.               *)
(***************************************************************************)
EXTENDS Naturals, FiniteSets

CONSTANTS
    Tools,          \* identifiers of MCP Tools, unique across repositories
    Repositories,
    Home,           \* the repository a Tool belongs to
    Dependents,     \* the Tools whose Graph uses the Component
    Names,          \* what an Assistant shows of its Tool's record
    Commands,       \* the callers of the management API, and the server's start
    None,           \* no record, no Assistant, nothing to do
    MaxFaults       \* bound: failing calls and restarts

ASSUME PublicationAssumption ==
    /\ Home \in [Tools -> Repositories]
    /\ Dependents \subseteq Tools
    /\ MaxFaults \in Nat

Records == {None} \cup [enabled : BOOLEAN, name : Names]
Assistants == {None} \cup [visible : BOOLEAN, name : Names]

\* What a command wants: the Tools it is about and, where it gives one, the
\* new name or the repository to activate.
AllRequests ==
    [kind : {"metadata"}, tools : SUBSET Tools, name : Names]
        \cup [kind : {"graph", "draft", "delete", "component", "startup"},
              tools : SUBSET Tools]
        \cup [kind : {"activate"}, tools : SUBSET Tools, to : Repositories]

Steps == {"sync", "commit", "validate", "reconcile", "orphans", "restore"}

\* What a command at work is doing: the syncs its step has left, the answer it
\* will give, and the records and the active repository it began with.
Jobs ==
    [request : AllRequests, step : Steps, todo : SUBSET (Tools \X BOOLEAN),
     aim : {"ok", "failed"}, before : UNION {[S -> Records] : S \in SUBSET Tools},
     from : Repositories]

ASSUME NoneAssumption ==
    /\ None \notin [enabled : BOOLEAN, name : Names]
    /\ None \notin [visible : BOOLEAN, name : Names]
    /\ None \notin Jobs

VARIABLES
    active,         \* the active repository
    record,         \* Tool |-> its record
    assistant,      \* Tool |-> its Assistant
    job,            \* command |-> what it is doing under publication_commands
    answer,         \* command |-> the last answer it gave
    suspect,        \* an alignment failed and none has succeeded since
    faults

vars == <<active, record, assistant, job, answer, suspect, faults>>

(***************************************************************************)
(* Requests.                                                               *)
(***************************************************************************)

\* store.list_items: the Tools of the active repository.
Listed == {t \in Tools : Home[t] = active /\ record[t] # None}

Requests ==
    [kind : {"metadata"}, tools : {{t} : t \in Listed}, name : Names]
        \cup [kind : {"graph", "draft"}, tools : {{t} : t \in Listed}]
        \cup [kind : {"delete"}, tools : (SUBSET Listed) \ {{}}]
        \cup [kind : {"component"}, tools : {Dependents \cap Listed}]
        \cup [kind : {"activate"}, tools : {{}}, to : Repositories]

\* A command that withdraws Assistants does so before it commits; one that
\* publishes commits first.
Withdraws(kind) == kind \in {"draft", "delete"}

\* A sync the command has to do: the Tool and whether it is to be visible.
Syncs(tools, visible) == {<<t, visible>> : t \in tools}

\* What reconcile syncs: every record of a repository, as its flag says.
AllOf(repository, records) ==
    {<<t, records[t].enabled>> :
        t \in {u \in Tools : Home[u] = repository /\ records[u] # None}}

(***************************************************************************)
(* The end of a command.                                                   *)
(***************************************************************************)

Answer(c, text) ==
    /\ answer' = [answer EXCEPT ![c] = text]
    /\ job' = [job EXCEPT ![c] = None]

Continue(c, next) ==
    /\ job' = [job EXCEPT ![c] = next]
    /\ UNCHANGED answer

\* Mutant: the error is answered without aligning what was half done.
Unrepaired(j, repository, records) ==
    [j EXCEPT !.step = "orphans", !.todo = {}, !.aim = "failed"]

\* _repair_publication: reconcile with what is stored, then answer the error.
Repair(j, repository, records) ==
    [j EXCEPT !.step = "reconcile", !.todo = AllOf(repository, records), !.aim = "failed"]

(***************************************************************************)
(* The commands.                                                           *)
(***************************************************************************)

Init ==
    /\ active \in Repositories
    /\ record \in [Tools -> {r \in Records : r # None => ~ r.enabled}]
    /\ assistant = [t \in Tools |-> None]
    /\ job = [c \in Commands |-> None]
    /\ answer = [c \in Commands |-> "none"]
    /\ suspect = FALSE
    /\ faults = 0

\* publication_commands: a command holds it as long as it has something to do.
LockFree == \A c \in Commands : job[c] = None

\* A command gets the lock and reads the records it starts from.
Enter(c) ==
    /\ LockFree
    /\ job[c] = None
    /\ \E request \in Requests :
         LET withdraw == Withdraws(request.kind)
         IN job' = [job EXCEPT ![c] =
                       [request |-> request,
                        step |-> IF withdraw THEN "sync" ELSE "commit",
                        todo |-> IF withdraw THEN Syncs(request.tools, FALSE) ELSE {},
                        aim |-> "ok",
                        before |-> [t \in request.tools |-> record[t]],
                        from |-> active]]
    /\ answer' = [answer EXCEPT ![c] = "none"]
    /\ UNCHANGED <<active, record, assistant, suspect, faults>>

\* POST and copy take no lock: a new Tool is a draft under a new identifier.
Create(t, name) ==
    /\ Home[t] = active
    /\ record[t] = None /\ assistant[t] = None
    /\ record' = [record EXCEPT ![t] = [enabled |-> FALSE, name |-> name]]
    /\ UNCHANGED <<active, assistant, job, answer, suspect, faults>>

\* The records after the request has been committed.
Committed(request) ==
    [t \in Tools |->
        IF t \notin request.tools \/ record[t] = None THEN record[t]
        ELSE CASE request.kind = "metadata" -> [record[t] EXCEPT !.name = request.name]
               [] request.kind = "graph" -> [record[t] EXCEPT !.enabled = TRUE]
               [] request.kind = "delete" -> None
               [] OTHER -> [record[t] EXCEPT !.enabled = FALSE]]

\* What is left to sync after a commit: the Tool published, or every draft
\* after a Component is gone (unpublish_disabled).
ToSync(request, records) ==
    IF request.kind = "component"
    THEN Syncs({t \in Listed : ~ records[t].enabled}, FALSE)
    ELSE Syncs({t \in request.tools : records[t] # None /\ records[t].enabled}, TRUE)

\* save_item, save_graph_and_enabled, delete_items, the Component deletion with
\* its demotions, or switch_repository; and what the route does next.
Commit(c) ==
    /\ job[c] # None /\ job[c].step = "commit"
    /\ LET request == job[c].request
           records == Committed(request)
       IN /\ record' = records
          /\ active' = IF request.kind = "activate" THEN request.to ELSE active
          /\ IF Withdraws(request.kind) THEN Answer(c, "ok")
             ELSE IF request.kind = "activate"
             THEN Continue(c, [job[c] EXCEPT !.step = "validate"])
             ELSE Continue(c, [job[c] EXCEPT !.step = "sync",
                                             !.todo = ToSync(request, records)])
    /\ UNCHANGED <<assistant, suspect, faults>>

\* validate_repository has run over the repository now active.
Validate(c) ==
    /\ job[c] # None /\ job[c].step = "validate"
    /\ Continue(c, [job[c] EXCEPT !.step = "reconcile", !.todo = AllOf(active, record)])
    /\ UNCHANGED <<active, record, assistant, suspect, faults>>

\* _sync: the Assistant is created if need be and then updated from the record;
\* of a Tool without a record there is nothing to do.
Synced(t, visible) ==
    IF t \in Listed
    THEN [assistant EXCEPT ![t] = [visible |-> visible, name |-> record[t].name]]
    ELSE assistant

\* The Assistants reconcile hides: visible ones of no record of the repository.
Orphans == {t \in Tools \ Listed : assistant[t] # None /\ assistant[t].visible}

\* One call to the Agent Server, and what is left to do after it.
Effect(c, next) ==
    assistant' = IF job[c].step = "orphans"
                 THEN [assistant EXCEPT ![next[1]].visible = FALSE]
                 ELSE Synced(next[1], next[2])

SyncOne(c) ==
    /\ job[c] # None
    /\ \E next \in job[c].todo :
          /\ Effect(c, next)
          /\ Continue(c, [job[c] EXCEPT !.todo = @ \ {next}])
    /\ UNCHANGED <<active, record, suspect, faults>>

\* Every sync of the step is done.
Synchronized(c) ==
    /\ job[c] # None /\ job[c].step = "sync" /\ job[c].todo = {}
    /\ IF Withdraws(job[c].request.kind)
       THEN Continue(c, [job[c] EXCEPT !.step = "commit"])
       ELSE Answer(c, "ok")
    /\ UNCHANGED <<active, record, assistant, suspect, faults>>

\* reconcile has synced the records and looks for Assistants without one.
FindOrphans(c) ==
    /\ job[c] # None /\ job[c].step = "reconcile" /\ job[c].todo = {}
    /\ Continue(c, [job[c] EXCEPT !.step = "orphans", !.todo = Syncs(Orphans, FALSE)])
    /\ UNCHANGED <<active, record, assistant, suspect, faults>>

\* reconcile has ended, and with it the command that called it.
Reconciled(c) ==
    /\ job[c] # None /\ job[c].step = "orphans" /\ job[c].todo = {}
    /\ suspect' = FALSE
    /\ Answer(c, job[c].aim)
    /\ UNCHANGED <<active, record, assistant, faults>>

\* Mutant: only the flag is put back.
FlagRestored(j) ==
    [t \in Tools |->
        IF t \in DOMAIN j.before /\ record[t] # None
        THEN [record[t] EXCEPT !.enabled = j.before[t].enabled] ELSE record[t]]

\* The records with those of the request's Tools as the command found them.
Restored(j) == [t \in Tools |-> IF t \in DOMAIN j.before THEN j.before[t] ELSE record[t]]

\* The route puts back the records, or the repository, it began with.
Restore(c) ==
    /\ job[c] # None /\ job[c].step = "restore"
    /\ record' = Restored(job[c])
    /\ active' = job[c].from
    /\ Continue(c, Repair(job[c], job[c].from, Restored(job[c])))
    /\ UNCHANGED <<assistant, suspect, faults>>

(***************************************************************************)
(* Failures.                                                               *)
(***************************************************************************)

Reconciling(j) == j.step \in {"reconcile", "orphans"}

\* The error leads to putting back what was committed.
Undoes(j) ==
    \/ j.step = "validate"
    \/ j.step = "sync" /\ j.request.kind \in {"metadata", "graph"}
    \/ Reconciling(j) /\ j.aim = "ok" /\ j.request.kind = "activate"

\* Nothing was committed: _withdraw_items, or the commit after it, failed.
Repairs(j) == Withdraws(j.request.kind) /\ j.step \in {"sync", "commit"}

\* The error ends the command; 502 after what could be undone, else 500.
Ends(j) == ~ Undoes(j) /\ ~ Repairs(j)

\* What an error in its current step makes of a command.
AfterError(c) ==
    \/ /\ Undoes(job[c])
       /\ Continue(c, [job[c] EXCEPT !.step = "restore", !.todo = {}])
       /\ UNCHANGED suspect
    \/ /\ Repairs(job[c])
       /\ Continue(c, Repair(job[c], active, record))
       /\ UNCHANGED suspect
    \/ /\ Ends(job[c])
       /\ Answer(c, CASE job[c].step = "restore" -> "broken"
                      [] job[c].step = "sync" -> "not synchronized"
                      [] OTHER -> "failed")
       /\ suspect' = (suspect \/ job[c].step # "commit")

\* A call of the step fails; one to the Agent Server may have taken effect.
Fail(c) ==
    /\ job[c] # None
    /\ faults < MaxFaults
    /\ faults' = faults + 1
    /\ job[c].step = "sync" => job[c].todo # {}
    /\ \/ UNCHANGED assistant
       \/ \E next \in job[c].todo : Effect(c, next)
    /\ AfterError(c)
    /\ UNCHANGED <<active, record>>

\* The server stops; its next start reconciles before it serves commands.
Restart(c) ==
    /\ faults < MaxFaults
    /\ faults' = faults + 1
    /\ suspect' = TRUE
    /\ answer' = [d \in Commands |-> "none"]
    /\ job' = [d \in Commands |->
                  IF d # c THEN None
                  ELSE [request |-> [kind |-> "startup", tools |-> {}],
                        step |-> "reconcile", todo |-> AllOf(active, record),
                        aim |-> "ok", before |-> [t \in {} |-> None], from |-> active]]
    /\ UNCHANGED <<active, record, assistant>>

Next ==
    \/ \E t \in Tools, name \in Names : Create(t, name)
    \/ \E c \in Commands :
         \/ Enter(c) \/ Commit(c) \/ Validate(c)
         \/ SyncOne(c) \/ Synchronized(c) \/ FindOrphans(c) \/ Reconciled(c)
         \/ Restore(c) \/ Fail(c) \/ Restart(c)

Spec == Init /\ [][Next]_vars

(***************************************************************************)
(* Properties.                                                             *)
(***************************************************************************)

\* The two stores, and at most one command at work.
TypeOK ==
    /\ active \in Repositories
    /\ record \in [Tools -> Records]
    /\ assistant \in [Tools -> Assistants]
    /\ job \in [Commands -> Jobs \cup {None}]
    /\ DOMAIN answer = Commands
    /\ \A c, d \in Commands : job[c] # None /\ job[d] # None => c = d
    /\ suspect \in BOOLEAN
    /\ faults \in 0 .. MaxFaults

\* Between commands /mcp lists exactly the published Tools of the active
\* repository, each under the name its record has, unless the last attempt to
\* align the Assistants itself failed (McpToolPublicationService: "Keep
\* published MCP Tool records aligned with official Assistants").
ListedAsPublished ==
    LockFree /\ ~ suspect =>
        \A t \in Tools :
            /\ (assistant[t] # None /\ assistant[t].visible)
                  <=> (t \in Listed /\ record[t].enabled)
            /\ t \in Listed /\ record[t].enabled => assistant[t].name = record[t].name

\* A command that answers with an error after undoing its work has changed
\* neither the records of its Tools nor the active repository, whatever failed
\* and whatever it had already done.
FailureRestores ==
    [][\A c \in Commands :
          /\ job[c] # None /\ job'[c] = None
          /\ answer'[c] = "failed" /\ job[c].request.kind # "startup"
          => /\ active' = job[c].from
             /\ \A t \in DOMAIN job[c].before : record'[t] = job[c].before[t]]_vars

==============================================================================
