# A verification development for Agent Shell

Agent Shell (`src/`) is a FastAPI service that runs LangGraph Workflows and
Agents behind an OpenAI-compatible API, and a management surface for the YAML
configuration that defines them. This directory holds TLA+ modules that model the
parts of the service in which order, concurrency and failure decide correctness,
the TLC configurations that check them, and TLAPS proofs for all values of the
constants. Source paths below are relative to `src/server/src/agent_shell/`.

## 1. The system and its parts

### 1.1 The response path (modelled)

A public completion starts a *Lifecycle*: one request-entry Run and every Run
that Runs of the Lifecycle start. All of them write into one public text.

| Component | State | Operations | Talks to |
|---|---|---|---|
| `RunEventStream` (`runtime/event_stream.py`) | the blocks of the messages still open | `consume`: official events become frames (atomic, start, delta, finish) | its `RunExecution` |
| `LifecycleResponseScheduler` (`runtime/response_scheduler.py`) | frames pending per Run, ready queue, owner, idle deadline, batch deadline, published frames, wakeup, finished | `register_run`, `publish`, `finish_run`, `advance_published`, `take_published`, `clear_wakeup`, `wait_for_wakeup`, `finish` | called by every `RunExecution` of the Lifecycle; taken by the entry's |
| `RunExecution` (`runtime/agent_runtime.py`) | a suspended generator | `stream_text` (entry: consumes, drains, seals), `run` (collects) | scheduler, event stream, LangGraph |
| completion API (`api/api_server.py`) | `asyncio.Queue(maxsize=1)`, `detached` | `_completion_stream`, `_completion_result` | a detached task consumes the entry's generator |
| Lifecycle coordinator (`runtime/request_snapshot.py`) | bindings, sessions, relations, tasks, `_response_terminated`, `_disconnected` | start a Run, stop, cancel, apply the disconnect policy, release | LangGraph server, Lifecycle store |
| operator's cancel (`api/workflow_lifecycles.py`) | none | `cancel` | coordinator |

What is hard: many Runs publish concurrently while one of them owns the public stream;
an owner that idles out is parked in the middle of a block; batches are rate limited;
the consumer may be suspended in `queue.put` while Runs end, the client leaves (the
response is then drained and discarded) or the operator cancels; a wakeup is an event
that is set and cleared in different tasks; a start is a sequence of awaits on the Agent
Server, any of which can fail, and the graph of its Run is built by somebody else in
between. What makes it correct: the public text is well bracketed, complete, in order
and append-only; everybody who waits with text gets a turn; the response ends, and only
when nobody can say more; the consuming task always terminates; an operation is started
once; a disconnect reaches every Run; a start that fails leaves no Run; the Lifecycle is
registered exactly as long as somebody needs it.

### 1.2 Configuration Bundles: contents and import (modelled)

`configuration/bundles/transactions.py` and `journal.py` copy a previewed Bundle
into the active configuration: a prepared journal, a staging directory, folders
renamed into place with a claim marker, record files flushed, a committed journal,
housekeeping; failures roll back; a restart replays the journals. State: the
repository object (`FileConfigRepository`, `storage/file_config.py`), record
files, asset folders, markers, staging directories and journals. What is hard:
each step can fail, the process can die between any two, the rollback itself can
fail, journals outlive their transaction. What makes it correct: an import is
all or nothing, the caller is told the truth, recovery finds what was left behind,
nothing that belongs to somebody else is touched.

Before that, a Bundle is written and previewed. `exporting.py` and `archive.py` collect
a record with everything it refers to and validate the collection; `records.py`,
`filesystem.py` and `assets.py` read it back and check that it is closed, canonical and
has a folder for each package; `planning.py` and `service.py` make a plan of it (new
UUIDs, names, host paths, rewritten references) and hand out a token that binds the
later commit to it. The service keeps nothing but the secret of its tokens. What is
hard: the commit comes any time after its preview, with choices of the caller that the
preview did not see, against a library that has changed. What makes it correct: what
an instance exports another can read, and a committed import is a faithful copy of
what was previewed, under names nobody else has.

### 1.3 What becomes of a Lifecycle's data (modelled)

A Lifecycle owns Threads and Runs of the Agent Server, items in several namespaces
of its Store, and files beside it. `runtime/langgraph_lifecycle.py` deletes them one
call at a time: when the operator asks (one Lifecycle, or all that match), and in a
retention sweep after every released Lifecycle. Nothing is locked: starts, ends,
deletions and sweeps overlap at every await, and each call can fail. What makes it
correct: a deletion cut short can be repeated, a Run that is seen to be active is
not deleted, and retention keeps the newest.

### 1.4 External Agents (modelled)

`external_agents/runtime.py` runs one CLI process per call, in a HOME that calls
share. State: the registry of claims, the coroutine, the process and its two pipes,
the evidence files. What is hard: the process, its pipes, the watchdog and the
cancellation of the caller end in any order; the conversation a call writes to is
known only when the CLI says so. What makes it correct: one writer per conversation,
no process that outlives its claim, evidence that tells one story, no call that waits
for the CLI to go on, and "success" said of whole turns only.

### 1.5 MCP Connections and their installations (modelled)

`storage/mcp_connections.py` keeps documents, bindings and secrets under one lock,
`mcp/installation.py` the installed runtimes under one lock per Connection; requests
run in a thread pool. What is hard: the two locks and the wait for a running install
nest; an install replaces a directory, a lock file and a status file one by one;
deletion drops its lock before the files go. What makes it correct: what shows as
ready is whole, what was deleted stays deleted, a failed reinstall keeps what was
there, nobody waits in a circle.

### 1.6 The configuration and what is published from it (modelled)

`storage/file_config.py` holds the configuration in memory and in one file per
record. Requests validate, take the mutation lock, move package folders, write the
files and then replace the copy in memory; deleting records demotes the published
graphs that need them (`configuration/publication.py`). MCP Tools are published as
Assistants of the Agent Server, a second store (`api/mcp_tools.py`,
`mcp_tools/publication.py`). What is hard: no transaction spans two files or the two
stores; repositories are switched while commands are under way. What makes it
correct: a change is seen whole or not at all and only in the repository it was
meant for; a restart breaks no graph that was whole; /mcp lists what is published.

### 1.7 Drawn graphs (modelled)

`workflow/` and `mcp_tools/compiler.py` admit, validate and compile a drawn graph of
Start, Command and End Nodes to a LangGraph graph with a validated State channel.
What is hard: Commands run in parallel in super-steps, branches have different
lengths, and updates that are each valid may not be valid together. What makes it
correct: the State is valid after every step, and the answer is the State every
branch has left.

### 1.8 Agents: what is saved, captured and built (modelled)

A Main Agent refers to blocks (model, file system, tools, packages, MCP
requirements) and to Subagents, which inherit some of the references and override
others. `validation/service.py` assembles it on every save; a request captures the
published configuration with its model connections and bindings
(`runtime/request_snapshot.py`), and each of its Runs hydrates this snapshot with the
keys of the moment and builds its graph (`runtime/agent_builder.py`,
`agent_runtime.py`) from it and from what the host holds just then. What is hard:
validation, save, capture, hydration and construction are five moments, and records,
connections, folders and packages change between any two; the construction runs in a
thread that cannot be stopped while its request is cancelled; it opens runtimes of
packages that must be closed on every path; the permissions of nested folders depend
on the order of the rules. What makes it correct: an edit that is let through breaks
no published Agent; what was validated is built, with the permissions the
documentation promises; runtimes are released; a key goes to no endpoint it was not
entered for.

### 1.9 Everything else

| Part | Main files | Why it is left out |
|---|---|---|
| Event feed | `event_feed.py` | merges three logs on request; no state of its own |
| Bytes of a Bundle | `configuration/bundles/archive.py` | the ZIP, its limits and digests are one flag (`intact`) of BundleService |
| Contents of Python and Skill packages | `python_packages/`, `skills/` | file trees, an external installer; their folders are staged in FileConfig, their runtimes are part of AgentRequests |
| HTTP logs, diagnostics, archives | `provider_http_logging.py`, `runtime/diagnostics.py` | write-only logs |
| Security, settings, file manager, frontend, packaging | `security.py`, `settings.py`, `file_manager.py` | management surface without an order of its own |

`PROJECT.json` lists each part with its sources, and under `hazards` the places
in the code that a test would hardly reach, with the properties that watch them.

## 2. Modules and their correspondence to the code

```
ResponseSchedulerOps         the scheduler's methods as operators
   |             \
ResponseScheduler  ResponseDelivery          two compositions
   |        \             \
   |         MCScheduler   MCDelivery        instances for TLC
ResponseProofs                                          (TLAPS)

LifecycleCoordinator -- LifecycleCoordinatorProofs      (TLAPS)
BundleImport
   |
BundleService -- BundleProofs, of both                  (TLAPS)
LifecycleRetention -- LifecycleRetentionProofs          (TLAPS)
McpInstallation -- McpInstallationProofs                (TLAPS)
McpToolPublication -- McpToolPublicationProofs          (TLAPS)

ConfigGraph                  records, references, demotion
   |         \
ConfigStore <- FileConfig    WorkflowGraph
 abstract       |  |                 |
                |  ConfigurationProofs, of both         (TLAPS)
                detailed: FileConfig implements ConfigStore

AgentFilesystem              a block's virtual files and their permissions
   |
AgentAssembly                the issues of a save, the Agent assembled
   |
AgentRequests (and ConfigGraph)   ExternalAgentRunner
            \                       /
              AgentProofs, of both                      (TLAPS)
```

Each component has an `MC...` module and a `.cfg` that instantiate it.

**ResponseSchedulerOps.** No method of `LifecycleResponseScheduler` awaits, so
each is a function from the scheduler's state to its next state (`PublishIn`,
`FinishRunIn`, ...), built from operators named after the private methods
(`DrainOwner`, `ExpireOwner`, `AssignOwner`, `TakeDueBatch`, ...). The two loops,
over the owner's queue and over the Runs in line, are functions of the number of
turns; one turn is `PresentNext` and `AdmitNext`. A text is its
length in bytes; a deadline is the number of ticks left, so that "now >= deadline"
is "0 left". `continuation` and close reasons only colour the wording and are left
out; so is the phase `abort`, which no caller produces.

**ResponseScheduler.** The scheduler with one `RunEventStream` per Run. `known[r]`
is `_blocks`: which deltas and finishes a Run can still project. `history` and
`sent` record what was published and what was taken. Every action is one call of
the scheduler: a projection (`ProjectAtomic`, `ContentBlockStart`, `...Delta`,
`...Finish`, `MessageError`), `RegisterRun`, `FinishRun`, the consumer's
`AdvancePublished`, `TakePublished`, `Finish`, and `Tick`.

**ResponseDelivery.** The same operators driven by the real consumer. `entry.pc` is the
position in `_stream_text_inner`; `busy` is TRUE from the moment the entry's task
resumes until it really suspends, and every other actor waits for `~busy`: asyncio
interleaves tasks only at suspensions, and `queue.put` suspends only on a full queue.
`child` is the state of each spawned Run, `queue`, `http` and `body` the response,
`terminated` the operator's cancel. Frames are atomic here; blocks are
ResponseScheduler's subject. `EntryFails` is an exception in the start, the wait,
`stream.output()` or the end of the event stream (opening the events counts as their
first wait); `EntryCancelled` is the CancelledError branch, which only the closing of
the service reaches, since an ordinary task is detached first. When the operator cancels
while an item is in the queue, the model also lets the response take that item first;
the code resolves the tie in favour of the cancel.

**LifecycleCoordinator.** One record per start: `pc` is the await it stands at in
`start_workflow_run` / `start_agent_run` (or, for call 0, the entry's
`start_workflow` / `start_agent`, which takes the same path without the lookup and
the handle), and the other fields are its binding (`thread`, `named` for a known
run id, `ready` for `execution_ready`, `handle` for `handle_ready`) and its result.
`Raise` is the except branch up to its first await; `cancelling`, `closing`,
`releasing` are the rest of it. The Agent Server is `run` (the status of the
official Runs; `building` while the graph factory runs), `store` and the actions
`CallFactory`, `BuildGraph`, `EndRun`: a Run whose factory has not been called when
it is cancelled never calls it, as the code says itself at
`request_snapshot.py:1389`. `CancelElsewhere` stands for the three callers that
cancel without the coordinator. A `cancel_official_run` that succeeds (get, cancel,
resolve the future) is one step; one that fails may fail before it took effect
(`cancel`) or after it, when the Run is cancelled and the start that waits for its
graph is not told (`unheard`). `Interrupt` is the CancelledError that a caller's code
meets at an await when its Run is cancelled; `CleanupCutShort` is the same error in the
except branch, where `suppress(Exception)` lets it pass (`cut`). `faults` records
what went wrong, so that properties can name the exceptions they make; an answer
that is lost after `run.start` or the save took effect is one of them, and so are two
calls that find one Thread idle (`raced`). The records
the entry writes first are part of `opening`. Left out: reading calls (check, list,
join), the response text, and the retention that a release triggers.

**BundleImport.** `pc` is the position in `commit_prepared_import`,
`cleanup_import_journal` or the startup; `cur` the transaction. The flush of the records
is one step per file (`SyncStep`: all writes before the first unlink), the cleanup one
step per record or folder. A step that raises is an action (`FailBeforePublish`,
`FlushFails`, `CommitFails`, `UnpublishFails`, `CleanupFails`, `RemovalTears`), and
`Crash` is possible everywhere. `retired` stands for the preview tokens: their secret
lives in the process, so the UUIDs of a preview cannot be committed after a restart.
`retrying` remembers the attempts that began while the journal of an earlier attempt
still named their UUIDs. Two abstractions: loops take their items in any order, and a
foreign folder is not empty (`os.rename` would replace an empty one).

**BundleService.** EXTENDS BundleImport: the same commit, of Bundles that have contents.
An entity is a record as its references see it (kind, name, typed references, origin of
its host path, package folder, flags). `ExportOf` is the closure an exporting instance
writes if it is `Exportable`; `Loadable` is what the reader checks; `Altered` supplies
Bundles no export wrote. `Target` are the UUIDs a preview picks. `NamesSettled`,
`PathsSettled`, `Transformed` and `Validates` are the parts of a plan, `Taken` the names
of the library at that moment: other records (`CreateLocal`, `DeleteLocal`) and those of
earlier imports in memory. `Preview` issues a token; `Import` is `Begin` of BundleImport
for a request whose token matches (`TokenMatches`; `live` are the tokens of this
process) and whose plan, made again from what the caller sends now, is accepted.
`TryAgain` is a caller who sends the token of a failed commit once more, perhaps with
other names: an attempt of its own (`Retries`) with the UUIDs of the first. A refused
request changes nothing and has no action. Left out: other choices of UUIDs and folders
than the instance's (`Fits`, `FoldersFit`: a caller who wants others is another
attempt), more than one path per record, and a switch of the repository between preview
and commit.

**LifecycleRetention.** Everything a Lifecycle owns is one set, `data`, of
triples: Lifecycle, kind, Run. `run[r]` is one start (`BeginLifecycle`, `CallStart`,
`StartRun`, `RecordRelation`, `FailStart`, `EndRun`: the coordinator's writes, in its
order), `cleaner[c]` one call of `delete`, `cancel_active`, `delete_matching` or
`enforce_retention`: `judging` is the listing, then `reading`, `threads`, `relations`,
`runs` read what the check looks at, `deleting`, `archive`, `listing`, `store` are the
calls that delete. `late` records what was written while a deletion of its Lifecycle
was past its first read, which is what no deletion without a lock can promise to
take along or to spare. A listing in pages of a hundred is one step; reading for the
monitoring views is left out.

**ExternalAgentRunner.** `call[c].pc` is the await at which `AntigravityRunner.run`
and its helpers stand; `Handler(pc)` says where an exception goes from there, which
is one place for cancellations, failing files and failing starts. `process[c]` is the
CLI as `asyncio.subprocess` shows it: what it said, how it ended (`held`: it ended and
left its pipes to a descendant). Shielded work (`complete_before_cancel`) is joined
before a cancellation goes on. Only the registry of one HOME is modelled, since
claims of different HOMEs never meet. A caller may use the id that a `session_resolved`
event showed it while the run that makes the conversation goes on; `overheard` records
the conversations asked for in this way.

**McpInstallation.** One Connection. A request is a thread: `pc` is the next lock it
takes or file it changes. `dirs` are the directories of the installation by their
names (a declaration's digest, or `.previous-*`), each whole or torn; `lock` and
`status` the two files beside them. `MayBeReady` is what the unlocked readers can
see. npm and PyPI are one step (`Stage`) that yields some resolution or fails.

**ConfigGraph, ConfigStore, FileConfig.** ConfigGraph has the records, the forward walk
of validation (`Needed`) and the backward walk of demotion (`Affected`), each as the
least set closed under the references, which is where the worklists of the code end.
ConfigStore is the abstract promise: a change begins, settles and commits or is
abandoned; a reload finds, record by record, an old or a new value, in a mixture that
leaves no graph dangling that was whole before and after. `doubtful` says what is
`Excused` from that: nothing; while a change that failed is being undone, the graphs
that name what is written after them (`Early`); once an undoing has failed too, all
graphs. FileConfig is the code: commands ask (validation, outside the lock, where the
code does it there), enter, stage folders, flush file by file in the order of
`_flush_config`, commit or write back; the repository is switched; the process restarts.
`StoreImplemented` is the refinement: memory is what users see (`Shown`), the change of
a flush is what is being made (`Applying`), and a record may be found after a restart as
memory, the disk or the flush under way has it (`Possible`).

**WorkflowGraph.** A document is admitted and validated (`Admitted`, `Executable`,
the worklists as recursive functions), compiled (`TargetsOf`, `Destinations`) and
run: `tasks` are the Commands of a super-step, `results` what those that have ended
return, `AfterStep` what follows when all have. `Accumulated` and `AcceptsStep` are
the State channel's `update`. Scripts are arbitrary: any update of `Updates` and any
goto among the drawn targets.

**McpToolPublication.** `record` and `assistant` are the two stores; a command holds
`publication_commands` from its first read to its answer, so at most one `job` is at
work, and what interleaves with it are failures and restarts. `suspect` says that the
last attempt to align the stores failed.

**AgentFilesystem.** A path is a sequence of names; the host's folders are given by
what is below them. The contract of a block (`FilesystemValid`) and the construction
(`CapabilitiesFit`, `CapabilitiesFound`, `Seeded`) share the laying out of virtual
directories and files, once with the absolute sources only and once with all of them.
`Permissions` is the list of rules the code makes; `About` and `Allowed` say how the
library reads it.

**AgentAssembly.** The issues of each part of `_assemble_main_agent`, by what
`_issue_key` compares; `MainIssues` puts them together, `BlockIssues` and
`SubagentIssues` add what an edit changes in the reports of the Agents it reaches.
`Assembly` is the Agent that comes out: the Main Agent and its Subagents with the
blocks of each. `_static_tool_issue` is left out: on the names it is given it never
finds anything.

**AgentRequests.** `job` is what a save has validated and not yet stored: the two
happen under separate locks. `lifecycle` is the captured configuration; `run` one Run
of it, whose `stage` is the call in which it is: `hydrated`, `resolved`, `mapped`
(AgentBuilder.resolve, the mapped folders, MCP discovery), `building` (`thread` is
TRUE while the worker thread works; `files` are the Agents done), `loading` (runtimes
of the packages of Commands and event outputs), `compiling`, `delivered` (the
execution is in `execution_ready`), `running`, `over`. `open` are the package runtimes
not yet closed, `models` the models made with their endpoint and key, `stale` the
connections edited since the capture, `calm` says that the host has not changed since
the assembly was validated. A refusal ends a Run; which one is recorded, since the
properties tell them apart. Left to chance are what is not this program's: whether
package code and MCP servers answer. Left out: mapped folders chosen by a caller,
clashing names of MCP tools (they carry their namespace), two host files with the same
content, Runs of a Lifecycle that are built at the same time (they share nothing but
`recorded`), and the two writes of `save_connection` between which a crash would leave
the new key with the old endpoint.

## 3. Runs

| Run | Instance | Holds |
|---|---|---|
| `scheduler_safety` | two Runs, two blocks, three frames against one, texts below and above the batch limit; 790 thousand states | SegmentsNeverInterleave, TextConserved |
| `scheduler_live` | two Runs, one block, two frames against one, fairness | EverythingIsSaid (a Run that waits gets its turn, the response drains and seals), SealedResponseComplete |
| `delivery` | streamed completions of two Runs, with two texts each or with one, a cancel and a failing start; collected ones of three Runs (nested starts) and of two with a cancel and a failing start; 330 thousand states | NothingLost, SealIsFinal, NoSleepOnDueOutput, CompletionEnds |
| `coordinator_starts` | entry and two spawned starts (siblings with one operation_id, or nested), one fault; 1.3 million states | OperationIdempotent, DisconnectReachesEveryRun, FailedStartLeavesNoRun, RegisteredWhileNeeded, NoStartForgotten |
| `bundle_faults` | any two of four imports (an MCP Tool with two Commands, a Command, a Filesystem with an absolute path, a Command with an MCP Requirement), or one that failed and its retry with the same token, seven records, two folders (one wanted by three), altered Bundles, two local records, torn removals; 555 thousand states | CommittedImportIntact, AnswerIsTrue, RollbackCleansWhatItNames, MemoryMatchesDisk, ForeignFoldersUntouched, ImportsAreCopies |
| `retention` | two Lifecycles of one Run each, both old or one new, and two overlapping calls of any kind; or a new Lifecycle whose Run starts another, and one call; one fault; 700 thousand states | RecordOutlivesData, NewestKept, OnlyLateRunsLost |
| `external_agents` | two calls, JSON and streamed output, every selection and report, ids overheard, three endings, one cancellation or failure; 1.25 million states | OneWriter, EvidenceSettled, NeverStuck, SuccessIsComplete |
| `mcp_installation` | one Connection, two declarations, two resolutions, two concurrent requests of four, two faults; 1.6 million states | ShownIsTrue (ready is whole, removed stays removed), InstallKeepsPromise, NoCircularWait |
| `file_config` | four records of one repository and a second one, two commands, two failing writes, one restart; 630 thousand states | FoldersFollowRecords, StoreImplemented (a refinement) |
| `workflow_graph` | all documents of at most two Commands and six edges, with and without a schema, as Workflow and MCP Tool; 1.2 million states | StateAlwaysValid, AnswerIsValid |
| `mcp_tool_publication` | three tools of two repositories, two callers, two faults; 2.7 million states | ListedAsPublished, FailureRestores |
| `agent_requests` | a published Main Agent with a Subagent, a draft, a Workflow, twelve blocks, five packages, a connection; two changes, two Runs of a request; 180 thousand states | KeepsAssembling, BuiltAsValidated, RuntimesReleased, CredentialFitsEndpoint |

Every property has a mutant in `PROJECT.json`: a plausible bug in one definition of
the model that TLC then finds with this property and this instance.

### Bounds, and why they are enough

Two Runs are enough for every relation between an owner and a Run that waits; the ready
queue gets longer with three but is only ever treated head by head. Three frames of one
Run over two blocks reach: a block interrupted by another block, by an atomic text and
by another Run, resumed, and finished while closed. The idle timeout and the send
interval are one tick, so that each deadline can be reached or not before the next call;
the batch limit of two bytes is exceeded by a single frame of three, met exactly and
undershot by frames of one. Blocks that render to nothing are in `scheduler_live`.
`delivery` has a request with three Runs for nested starts. `coordinator_starts` has two
spawned starts (`MaxCalls`): enough for a duplicate, a retry after a failure, a refused
target, a nested start, a start on the Thread of an earlier Run and a release with two
streams; one operation id suffices, since keys also differ by caller. One fault
(`MaxFaults`) is a lost answer, a failed call, a failed cancel, a failed close or a
cancel from elsewhere, at any moment; that a failed call is followed by a failed cancel
takes two, which the run's bound leaves out for its size. Two calls that find one Thread
idle, and observation 26, take a third spawned start, beyond the bound; the properties
except them by name (`Inherits`), and the theorems hold for any number of calls. Two
imports (`MaxPreviews`) suffice for a journal that survives its transaction and meets
another import, a retry of the same preview among them (it counts as one of the two); a
folder both want makes them collide. The four Bundles to choose from are one with
references between records, one whose name and folder collide with its Commands', one
that needs a path, and one with a reference the plan cannot rewrite (observation 7).
Names are folded nowhere in this instance; the theorems hold for every `Fold`.

`retention` needs two calls that overlap on one Lifecycle and a Run that starts between
a check and a deletion; `Histories` supplies Lifecycles of earlier sessions so that a
sweep has something beyond its limit of one. Its one fault is a failed call at any
await. Without a history there is one Lifecycle, whose entry starts a second Run while
it is judged or deleted: one call is enough for that (`MaxCalls` is a bound by history).
`external_agents` has two calls because a claim is contested by two; `Ends` leaves out
the plain error exit, which the code treats as a report of an error, and the denied
action, which changes the verdict only; the theorems hold with all of them. In
`mcp_installation` two concurrent requests meet at each lock, four in a row are a
history that can bring back what was deleted, and two faults are an install that fails
and whose undoing fails too, or a crash after a failure. `file_config` has one record of
each kind that matters to the order of a flush (a component, a Subagent, a Main Agent, a
Workflow) and a second repository, so that a chain of references and a switch can both
happen; two failures are a write and its undo. `workflow_graph` has two Commands:
branches of one and of two super-steps, a loop, a fan-out and a join; the State has two
variables, so that two valid updates can make an invalid State. `mcp_tool_publication`
has two tools that share a repository and one of another, and two faults: the step that
fails and the undoing that fails. `agent_requests` allows two changes: one between the
validation of an edit and its save, or one before the capture and one after it. Most
refusals the code knows are reached by some pair of them, but for those that no saved
configuration leads to; two Runs of one request find folders recorded by the other. The
folders are nested once and mapped once, so that a rule is covered by another, and
`Probes` has a path under each.

`CHECK_DEADLOCK FALSE` is used where everything may be over: a completion ends, the
bounded calls, requests and changes are used up, a graph has run. The Bundle service,
the configuration and the publication never stop, and their runs check deadlock.

### Fairness

In ResponseScheduler only the consumer (`AdvancePublished`, `TakePublished`,
`Finish`) and the clock are fair, because the event loop runs a task that is
ready; nothing is assumed of the Runs. ResponseDelivery assumes weak fairness of
the consuming task where it is runnable, of the HTTP task, of the clock, and that
official Runs and their starts end: an endless Run legitimately keeps its
completion open. LifecycleCoordinator assumes that calls of the Agent Server return,
that it takes up pending Runs and builds their graphs, and that ready tasks run; not
that a Run ends. What it promises is stated as invariants (`NoStartForgotten`,
`RegisteredWhileNeeded`: nobody waits for a thing that nobody will do); no
run needs more of it. The conditions "runnable" are spelled out (`EntryReady`,
`ConsumerAwake`) instead of `ENABLED`, so that TLC need not evaluate the actions
again. Fairness of a step that is not enabled in the code is never assumed: where
the code sleeps on a wakeup that never comes, the model sleeps too. The modules of
1.3 to 1.8 have no liveness property: that a call gets on is stated as an invariant
(`NeverStuck`: it has a step of its own at every await; `NoCircularWait`: somebody can
move), and since their steps only lead forward, fairness of the caller's own steps
makes them end.

### What the properties do not promise

Where the code and its documents part, the model does what the code does, and the
property that meets it names the case: what it excepts is one of the following, and
nothing else is.

The response path and imports:

1. `runtime/agent_runtime.py:648`. The drain loop yields, then clears the wakeup. A
   Run that ends while the yield is suspended in `queue.put` is forgotten, and the
   response never ends. `CompletionEnds` allows this wait (`Overslept`) and no other;
   `docs/user-guide/api-server.md:45`.
2. `runtime/agent_runtime.py:621`. A Run that ends after the operator's cancel leaves
   without `finish_run`; an entry already in its drain loop waits for it for ever
   (`Unfinished`, with `terminated`). Its client has been answered by then.
3. `runtime/request_snapshot.py:981`. A start that fails after the graph factory
   registered the Run leaves a producer nobody finishes (`Unfinished`, with `Orphaned`).
4. `runtime/request_snapshot.py:638`. The operator's cancel of a Lifecycle whose entry
   Run is still queued: its graph factory never runs, nobody resolves
   `execution_ready`, and the client waits for ever (`elsewhere` in `NoStartForgotten`;
   `docs/user-guide/runtime-observability.md:34`).
5. `configuration/bundles/journal.py:123`. Recovery names the file of an MCP tool as
   one under `workflows/`, so that it stays (`RollbackCleansWhatItNames` speaks of what
   the journal can name; `docs/security-and-deployment.md:76`).
6. `configuration/bundles/journal.py:179`. A kept prepared journal later deletes the
   records that a retry of the same preview committed: the plan token stays valid after a
   failed commit (`service.py:94`). These retries are `retrying`, which
   `CommittedImportIntact` excepts for their records; their folders stay. `shutil.rmtree` may also unlink the claim marker
   before it fails (`journal.py:163`), and the next cleanup skips the rest of the
   folder; `RollbackCleansWhatItNames` excepts this and the MCP tools.

7. `configuration/bundles/records.py:279`. `transform_bundle_records` rewrites the
   references of a record and then puts the payload of a component over them, which was
   collected before and has the source's UUIDs. A Bundle with a Filesystem that names a
   Skill, or a Command with MCP Requirements, can be exported and previewed but never
   imported: its plan is invalid and the commit refused
   (`ComponentReferencesRefused`; `docs/user-guide/configuration-library.md:40` says that
   declared references are rewritten mechanically).

Lifecycle data:

8. The check of `delete` is not atomic: a child Run that starts between the reading of
   the relations and the deletion of its Thread is deleted while active; this is the
   `late` of `OnlyLateRunsLost`.
9. A Lifecycle whose entry start is still pending has no Run to be seen as active and
   passes the check; a Lifecycle whose Threads are partly deleted is listed as pending
   or unavailable, and retention does not try it again
   (`docs/security-and-deployment.md:103`). A Lifecycle or Thread that is gone when
   its turn comes ends a sweep or bulk delete.

External Agents:

10. A caller that uses the id a `session_resolved` event shows while its run still goes
    on gets a second process on the same conversation (`external_agents/commands.py:52`): the
    registry holds the claim `new:...`. The conversation is `overheard`, and `OneWriter`
    excepts it; `docs/agent-pages/external-agents.md:94` says that such calls are
    refused.
11. A run with JSON output that exits with 0 and without its result envelope counts as
    a success; an interrupted run records no conversation, so that the guard on the
    prompt's revision does not see it; `latest` is not guarded at all.

MCP Connections:

12. A PUT that overlaps a DELETE saves the Connection again, and the deletion goes on
    to remove its files (`revived`); an install of an older declaration removes the
    ready installation of the present one; a crash between the two halves of a
    deletion leaves the files.

The configuration:

13. The publish, metadata and draft routes validate outside any lock
    (`api/workflows.py:73`, `api/agent_configs.py:287`): a deletion in between leaves a
    published graph with a missing reference, against
    `docs/agent-pages/main-agents.md:43` (`PublishedIsWhole`, two commands, no fault).
    A metadata PUT sets `enabled` as it read it before a demotion, and `save_item`
    brings back a record deleted meanwhile.
14. The flush that undoes a failed one writes Main Agents before the Subagents they
    need (`Early`). One that fails as well leaves its mixture on the disk until the
    next flush, and from then on a restart promises nothing: delete `t` and `u` with a
    graph that needs them, fail after `t` is unlinked and again in undoing it; then save
    `e` with a reference to `t`, and stop the process when `e` is written and `t` is not
    yet written back (`Excused`). Folders set aside when the process stops stay aside
    (`torn`).
15. A deletion of a Component whose withdrawal of MCP Tools fails answers 502 without
    the repair the other routes do, so that /mcp lists a demoted tool until the next
    alignment; the graph factory refuses to run it. `suspect` covers it.

Graphs:

16. In an MCP Tool with a schema, two branches that write the same field in one step
    fail, where a Workflow merges them.

Agents:

17. A Run takes the endpoint of a connection from the snapshot and its key from the
    environment of the moment (`runtime/request_snapshot.py:2255`): a connection edited
    after the capture sends the new key to the old endpoint, or fails as missing; this
    is the `stale` of `CredentialFitsEndpoint`. `docs/wizard-pages/model-config.md:48`
    says that edits affect later requests only.
18. `build_resolved` waits for its thread with a plain `await task`: a second
    cancellation during that wait loses both runtimes (`cancels = 2`), where
    `complete_before_cancel` goes on waiting. An execution delivered to a request that
    went away (`abandoned`) is closed by nobody; the same holds when `start_main_agent`
    raises behind its `try`, and when the event stream of the binding is missing.
19. `update_main_agent` and `update_subagent` validate and save under separate locks
    (`api/agent_configs.py:264`); a change in between is not seen (`job.fresh`), and a
    record deleted in between is created again. `reject_model_conflict` checks and
    saves without a lock as well.
20. The contract of a Filesystem reads the live folders, so that a published Agent may
    become invalid with no change of its configuration; sources relative to the data
    root are not looked at before the construction. Whether a file and a folder of one
    name conflict depends on the order in which they are laid out, and folders implied
    by a longer path are not considered (`LayDirectory`). A folder mapped once by an
    absolute and once by a relative path is accepted and refused at run time.
21. Two tools of one name (a package's and a built-in one) pass every validation and
    are refused when the Agent is built (`NamesApart`). A key that is missing raises
    an error the builder does not translate.
22. A component renamed after the capture takes its package folder along: later Runs
    of the same request no longer find it. A Skill folder that is missing is not an
    error; the Agent is built without Skills.

The coordinator:

23. A cancel whose answer is lost (`runtime/request_snapshot.py:1377`) has cancelled the
    Run, and skips the lines that resolve `execution_ready`: a start whose Run had not
    reached its graph factory waits for ever (`unheard` in `NoStartForgotten`).
24. A start whose caller is cancelled runs its cleanup under `suppress(Exception)`, which
    does not hold a second CancelledError (`:996-1005`, `:1131-1142`): at the cancel the
    session stays, and perhaps the Run; at the close nobody releases the Lifecycle, which
    then stays in the registry until the process ends (`cut`). A close that raises
    when an execution's stream ends (`:219`) leaves it there as well (`close`).
25. Two calls that ask for one idle Thread both pass the check at `:1540`, which two
    awaits separate from the session; the second session replaces the first (`raced`).
    The first stream then ends while its Run goes on. The Lifecycle is still
    released in the end, and who asked for another Thread loses nothing.
26. A start that failed still closes the session of its Thread: its cleanup and its
    consumer both pop `_sessions` by the Thread (`:219`, `:1404`), which by then may
    hold the session of another Run: a retry of the
    operation got the relation of the failed Run, and its handle names the Thread. That
    Run's stream then ends while the Run goes on, and the Lifecycle may be released
    under it. `Inherits` names this case and the one before.

## 4. Proofs

`BundleProofs` proves, of BundleImport, for any sets of imports, records and folders:

| Theorem | Statement | Assumption |
|---|---|---|
| `TypeCorrect` | `[]TypeOK` | none |
| `CommittedIsFinal` | `[]CommittedImportIntact` | none |
| `AnswerTruthful` | `[]AnswerIsTrue` | none |
| `LeftoversFound` | `[]LeftoversAreJournaled` | none |
| `ForeignSafe` | `ForeignFoldersUntouched` | none |
| `RollbackThorough` | `[]RollbackCleansWhatItNames` | none |
| `MemoryAgrees` | `[]MemoryMatchesDisk` | none |

`PlanAssumption` (types of the constants) is assumed throughout. Attempts may share the
UUIDs of one preview.

None of the properties is inductive. `CommitInv` adds, in the order of use: a
commit works under a prepared journal (so that a cleanup knows which way to go);
only the current transaction awaits an answer; the journal never contradicts the
history; an attempt that has not begun owns nothing; folders belong to imports
that name them; the folders of a commit under way are whole and, from the flush
on, complete; the repository object holds every durable import but those that retried an
attempt whose journal was kept (`durable \ retrying`; without this, an
unrelated flush could unlink its files); and a journal that undoes an attempt names no
record of another import that is durable or under way, again but for these retries
(`JournalsApart`): a commit that meets such a journal is a retry, and one whose records
memory already holds is refused. `ClaimInv` adds how far a cleanup has
come. `RollbackInv` adds to `CommitInv` that folders of undurable imports keep
their claim or are torn, that memory holds their records only under a prepared
journal, that a rollback past its record loop has no nameable file left, and that
disk and memory differ only in journaled records. Each was checked by TLC as an
invariant before it was proved; each step lemma has one step per action.

And of BundleService, for any Bundles, libraries, names and choices:

| Theorem | Statement | Assumption |
|---|---|---|
| `ExportLoads` | what an instance exports, another can read | none |
| `ServiceImplementsCommit` | `ServiceSpec => Spec`: every behaviour of the service is one of BundleImport, whose theorems therefore hold of it | none |
| `CopiesFaithful` | `[]ImportsAreCopies` | none |
| `ComponentReferencesRefused` | a plan with a component that refers to anything is invalid | none |

`ServiceAssumption` (types of the constants, different new UUIDs for different records,
none of them a source's) and `NoBundleAssumption` are assumed throughout. `ServiceInv`
says that every attempt which is durable, or still may become so, holds the plan that
was accepted for its previewed Bundle, and that the names of all these attempts and of
the local records differ. `Keeping` leaves out of the names a retry that met the journal
of its first attempt: the replay of that journal may take its records away, and their
names are free again. A new name is only compared with the library in memory, so that
the second needs `CommitInv`: the records of a durable import are in memory, even
between a restart and the end of the recovery.

`LifecycleCoordinatorProofs` proves, for any numbers of calls and faults, any
operations, targets and policies:

| Theorem | Statement | Assumption |
|---|---|---|
| `TypeCorrect` | `[]TypeOK` | none |
| `DisconnectReaches` | `[]DisconnectReachesEveryRun` | none |
| `FailedStartsCleaned` | `[]FailedStartLeavesNoRun` | none |
| `OperationsIdempotent` | `[]OperationIdempotent` | none |
| `LifecycleIsReleased` | `[]LifecycleReleased`, the second half of `RegisteredWhileNeeded` | none |
| `RegisteredHolds` | `[]RegisteredWhileNeeded` | none |
| `NoStartForgottenHolds` | `[]NoStartForgotten` | none |

`CoordinatorAssumption` (types of the constants) is assumed throughout. Calls may share
Threads as they like; what that costs is `Inherits`. Each invariant rests on the ones
before it:

- `IInv`: `Path`, how far a call has come, and the two properties about Runs left
  behind.
- `OpInv`: whoever is on the path of a start owns the binding of its key (`Owns`);
  what it looked up in the store stays true until it adds its own relation, because
  nobody else can own that key meanwhile (`Stored`); results are Runs of the store for
  what was asked (`Answers`).
- `HistoryInv`: where answers come from. A consumer belongs to a call whose graph was
  built, a result is a Run whose start is answered, a call is made by code that a graph
  factory built, and nothing is called before the entry has its Run (`EntryFirst`).
- `StreamInv`: a session belongs to a call of that Thread which will still close it
  (`Attached`); while a Run whose graph was built has one, the Lifecycle is active
  (`Registered`); an active Lifecycle awaits somebody who will release it (`Awaited`).
  `Abandoned` says that a close failed or a cleanup was cut short: then a session may have
  nobody left, and the Lifecycle with it.
- `ThreadInv`: a call that asks for a Thread finds its first Run done with it
  (`Wants`); at a Thread that was not inherited only one call is at work (`Alone`), and
  whoever has the use of it has its session (`Hold`); a Run that goes on is consumed
  (`Attended`).
- `WaitInv`: the Lifecycle is active while its entry starts (`EntryActive`), and the
  Run of a start that waits is pending, or building with this binding, as long as the
  Lifecycle is active (`Remembered`). A cancel from elsewhere, or one whose answer was
  lost, is the only way out, and is excepted.

`StepKinds` says once how the actions look from the streams: all but eight of
them either walk a call along its path (`Walks`) or leave every call but its future
alone (`Rests`); the last three invariants are proved from that.

For `IInv` only `Path` has to be added to make the invariant inductive: a call that has
not reached its start has no Run, no run id and no relation; one past it knows its run
id, and with it a Thread. This is what makes the except branch go through its cancel (it
is skipped without a Thread or an id), and what keeps a Run that is only being started
out of the disconnect's sight until `_record_relation` looks at `disconnected` itself.
The lemmas follow the code: what `FailReady`, `CancelOfficialRun`, `Raise` and `Goto` do
is stated once (`SameButReady`, `CancelEffect`, `RaiseEffect`, `GotoEffect`);
`BystandersKeep` covers every call a step does not concern, so each action's lemma deals
with its own call only.

`ResponseProofs` proves, of ResponseScheduler, for any Runs, blocks, texts, time limits
and sizes of a batch, and any number of frames:

| Theorem | Statement | Assumption |
|---|---|---|
| `ResponseIsSound` | `[]ResponseInv`, the inductive invariant | none |
| `ResponseTypes` | `[]TypeOK` | none |
| `ResponseBracketed` | `[]SegmentsNeverInterleave` | none |
| `ResponseConservesText` | `[]TextConserved` | none |
| `SealedIsComplete` | `[]SealedResponseComplete` | none |

`PolicyAssumption` and `AlphabetAssumption` (types of the constants) are assumed. None of
the three properties is inductive: what a queued frame becomes is decided when it is
presented, by whether the Run's table then knows its block. `ResponseInv` therefore says:

- `Owning`: only the owner holds a segment open, and the block it holds is one its table
  knows.
- `Bracketing`: the stream is well bracketed, and the segment it leaves open is the one
  the owner holds open.
- `Telling`: what a Run published is, in order, what the stream shows of it followed by
  the frames that still wait.
- `Following`, `Playable` and `Learns`: playing a Run's waiting frames against its table
  knows every block at the moment it is needed, and knows in the end every block that
  the projection side (`_blocks`) has not finished. This is why a delta or a finish that was parked
  never comes out as a text without a bracket, whoever owned the response meanwhile.
- `Placed` and `SealedEmpty`: Runs that own the response, stand in line or have waiting
  frames are registered; once sealed, nothing waits and every Run has ended.

The two loops are proved by `DrainRule` and `AssignRule`: what holds before the loop and
is kept by each turn holds after it. The library's induction rules cannot be instantiated
here, so these two take the least natural number that is not reached (`LeastNatural`,
from the library's well-foundedness of `<`). With them each call of the scheduler has one
lemma.

`McpToolPublicationProofs` proves, for any tools, repositories, callers and numbers
of faults and requests:

| Theorem | Statement | Assumption |
|---|---|---|
| `ListedAsPublished_Spec` | `[]ListedAsPublished` | `NoneAssumption` |
| `FailureRestores_Spec` | `[]FailureRestores` | `NoneAssumption` |

`NoneAssumption` says that the mark for "no command" is not itself a command. The
two stores agree only while nobody works on them, so the invariant says, for each
step of a command, which tools may differ and that these are on the command's
to-do list: before the record is saved the stores are as the command found them;
between the record and the Assistant they differ in the tools still to be synced;
while a command undoes, in those it has still to put back. `Quiet` is what is left
when the to-do list is empty. A restart abandons the command and aligns the stores,
or leaves them `suspect`.

`ConfigurationProofs` proves, of FileConfig, for any records, repositories, commands
and bounds, and of WorkflowGraph's runs, for any Commands, fields, updates and schemas:

| Theorem | Statement | Assumption |
|---|---|---|
| `FoldersFollow` | `[]FoldersFollowRecords` | none |
| `StoreRefined` | `Spec => StoreImplemented`: FileConfig implements ConfigStore | none |
| `ValidStates_Spec` | `RunSpec => []StateAlwaysValid` | none |
| `ValidAnswer_Spec` | `RunSpec => []AnswerIsValid` | none |

`GraphAssumption` and `FileConfigAssumption` (types of the constants; what kind of
record may refer to what kind, as the schemas of the code have it) are assumed of the
files. The invariant of the files says: every record and every change that a command
holds is well formed and belongs to its repository (`RecordsLegal`, `JobsFit`); who
holds the lock is at work, and what it deletes is what was validated (`HolderWorks`); a
file not yet written is as it was, one written is as the change has it, and where a
deletion is half done the disk is the memory without some of what is deleted
(`FilesKnown`); `doubtful` tells the truth about the disk (`DoubtMeans`); folders fit
the records of the moment (`FoldersFit`).

The refinement maps every step of FileConfig to one of ConfigStore's steps or a stutter
(`StoreBegins`, `StoreSettles`, ... `StoreReloads`). Two facts about graphs carry it. A
deletion that demotes what it affects leaves no published graph dangling that did not
dangle before (`DeletionSafe`: a graph one of whose needs goes is itself among the
affected). And neither does any part of its flush (`MixtureSafe`: nothing is unlinked
until all the demoted are written), nor of the undoing, but for graphs that are written
before what they name. Both rest on `NeededLeast`, `NeededClosed` and `AffectedClosed`,
what it means to be the least closed set; that is why the walks are defined as such.
Trying to prove the refinement showed that the abstract store had promised too much
after an undoing that fails (observation 14).

`AgentProofs` proves, of AgentRequests, for any records, payloads, hosts, connections
and bounds:

| Theorem | Statement | Assumption |
|---|---|---|
| `KeysStayAtTheirEndpoint` | `[]CredentialFitsEndpoint` | `RequestsAssumption` |
| `OpenedIsReleased` | `[]RuntimesReleased` | `RequestsAssumption` |
| `ValidatedIsBuilt` | `[]NothingValidatedRefused`, the first part of `BuiltAsValidated` | `RequestsAssumption`, `RecordsAssumption` |

`RequestsAssumption` gives the types of the bounds, keeps `None` apart from connections,
endpoints and reasons, and lets no connection have a key at the start. The first needs
`KeysFit` (a stored key is the one entered for the connection's present endpoint) and
`FrozenFit` (so is the key a Run was hydrated with, for a connection that is still the
captured one): the key of a model is chosen long after both were fixed. The second
says where in its construction a Run has what open: nothing before the thread
(`BeforeThread`), both runtimes or none while its request waits for it
(`DuringThread`), and afterwards what is open together with what is still to be opened
is what the subject needs (`WhileLoading`). `RunSteps` says once what no step of a Run
touches. The third says that the issues of an edit and the refusals of the builder, two
readings of the same blocks by different code, agree: while the host is as it was when
the Main Agent was validated (`CalmMeans`), no node of its plan is refused for anything
in `Validated` (`CalmPlan`), nor is the package that presents its events (`CalmOutput`).
`RecordsAssumption` gives the shape of saved records, which the schemas of the code
enforce. That the permissions which come out are the documented ones stays with TLC.

`AgentProofs` proves, of ExternalAgentRunner (its specification is `RunnerSpec`), for
any numbers of calls, conversations and faults:

| Theorem | Statement | Assumption |
|---|---|---|
| `RunnerTypes` | `[]TypeOK` | none |
| `OneWriterHolds` | `[]OneWriter` | none |
| `EvidenceSettledHolds` | `[]EvidenceSettled` | none |
| `SuccessIsCompleteHolds` | `SuccessIsComplete` | none |

`RunnerAssumption` (types of the constants) is assumed. The claims of two calls that
hold one differ and are registered (`Claims`); since a claim moves from `new:...` to a
conversation that only the call's own process knows until the call returns, or somebody
overhears it, two processes meet at a conversation only if it was overheard
(`Conversing`). What a call may have read, and what its files hold, follows from the
await it stands at (`Reading`, `Recorded`). The induction reaches what the run's one
fault does not: a call that is cancelled and then fails to write its evidence.

`McpInstallationProofs` proves, for any declarations, resolutions, requests, calls and
faults:

| Theorem | Statement | Assumption |
|---|---|---|
| `McpTypes` | `[]TypeOK` | none |
| `ShownIsTrueHolds` | `[]ShownIsTrue` | none |
| `InstallKeepsPromiseHolds` | `[]InstallKeepsPromise` | none |
| `SomebodyGoesOn` | `[]SomebodyMoves`: whenever a request stands in line for a taken lock, another is under way that does not | none |

`InstallationAssumption` (types of the constants) is assumed. `Locks` says who holds
which of the two locks at which await; `Kept` what a request of the store would put
back; `Files` what an installer has done with the directories, the one that was moved
away included. The lock file names torn files only where a remover is at work or a
deletion was cut off, and then the Connection is `GivenUp`, which no step undoes: this
is why what is shown of a declared Connection is whole. Proving it showed that the
model had moved an old installation to a name that could be taken already, where
`_install` uses a fresh one (`.previous-<uuid4>`); the model was corrected.

`LifecycleRetentionProofs` proves, for any numbers of Lifecycles, Runs, overlapping
calls and faults, and any `retained_lifecycles`:

| Theorem | Statement | Assumption |
|---|---|---|
| `RetentionTypes` | `[]TypeOK` | none |
| `RecordOutlivesDataHolds` | `[]RecordOutlivesData` | none |
| `OnlyLateRunsLostHolds` | `OnlyLateRunsLost` | none |
| `NewestKeptHolds` | `[]NewestKept` | none |

`RetentionAssumption` (types of the constants) is assumed. The first invariant is about
what is `Due`, all that was not written late. `Progress` says what a deletion has done
with it at each await: from its search on it knows every due Thread; past the Threads,
the home and the archive none of them is due; in the Store, none of the namespaces it
has dropped or did not find. That nothing becomes due behind its back is `LateInv`
(something is late only while a deletion of its Lifecycle is on its way or has taken the
record) with the definition of `Write`; that a due Run has a due Thread, with which it
goes, is `Paired`; that a Thread carries the number of a Run of its Lifecycle, which the
search therefore shows, is `Owned`. `RecordGoesLast` puts them together: when the
record's namespace is dropped nothing else is due. A failing or stopped call cannot break
it, because a namespace is dropped in part only when something of it stays, and the
record's holds nothing else.

`Checked` follows the Runs of a deletion's Threads: one that is active is still to be
read, was seen to be active (and then the deletion gives up), or was started late.
`SweepsRight` keeps for every Lifecycle a sweep may still take that enough newer ones
have begun. They may be swept too, by another sweep, so `NewestKept` is needed again
for the step itself: either no newer one has been swept, or one that was left enough
behind that are newer still (`NextKept`). The steps of the service are grouped by what
they do to the data: `Looks`, `Trims`, `Leaves`.

Only model-checked: of the scheduler, that every text is said in the end, which is
liveness; of its composition with the consumer (ResponseDelivery), `NothingLost`,
`SealIsFinal`, `NoSleepOnDueOutput` and `CompletionEnds`; the first three need, beside
the lemmas of `ResponseProofs`, an invariant of the consumer's awaits; the permissions
of `BuiltAsValidated` and `KeepsAssembling`; `NeverStuck` and `NoCircularWait` as they
are stated, with ENABLED (`SomebodyGoesOn` is the second without it); and all liveness
(fairness and ENABLED are out of the prover's reach).

## 5. Plan

What is left, most important first:

1. Proofs: the consumer's safety (`NothingLost`, `SealIsFinal`, `NoSleepOnDueOutput`);
   `KeepsAssembling` of the Agents.
2. *LifecycleCoordinator*: three spawned starts, so that a run reaches two calls for one
   idle Thread; the empty foreign folder of *BundleImport*.
3. Abstract specifications: an ordered stream that the scheduler implements, an
   atomic import that BundleImport implements.
4. The reading calls of the coordinator (check, list, join) and of the retention
   (pages, monitoring views).
5. The bounded logs (provider HTTP, security events, diagnostics): their retention.
