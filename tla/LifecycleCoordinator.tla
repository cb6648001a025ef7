------------------------ MODULE LifecycleCoordinator ------------------------
(***************************************************************************)
(* LifecycleRunCoordinator (runtime/request_snapshot.py): how the Runs of  *)
(* one Lifecycle are started, found again by operation_id, cancelled on    *)
(* disconnect, and released, while the Agent Server executes them.         *)
(*                                                                         *)
(* Call 0 is the request-entry start (start_workflow, start_agent); every  *)
(* other call is one start_workflow_run or start_agent_run made by the     *)
(* code of a Run of this Lifecycle.  A call, the Run it starts and the     *)
(* Thread it creates share a number.  pc is the await a call stands at:    *)
(* between two awaits the event loop runs nothing else.                    *)
(***************************************************************************)
EXTENDS Naturals, FiniteSets

CONSTANTS
  MaxCalls,  \* bound: starts made after the entry's
  MaxFaults, \* bound: faults in one behaviour
  Ops,       \* operation ids, each of one graph kind
  Targets,   \* Workflows and Main Agents of the snapshot
  Continue,  \* the targets with on_disconnect = "continue"
  EntryTarget,    \* the target that serves the requested model
  None

ASSUME CoordinatorAssumption ==
  /\ {MaxCalls, MaxFaults} \subseteq Nat
  /\ Continue \subseteq Targets /\ EntryTarget \in Targets
  /\ None \notin Ops \cup Targets \cup Nat

Entry == 0
Calls == 0..MaxCalls

\* relation_key(caller_run_id, operation_id); the entry's are both "".
EntryKey == <<None, None>>
Keys == (Calls \X Ops) \cup {EntryKey}

VARIABLES
  call,          \* call[c]: the call, its binding and what it returned
  bindings,      \* _bindings and _agent_bindings: key -> call
  sessions,      \* _sessions: Thread -> the call that attached the stream
  relations,     \* _relations: Runs registered in memory
  active,        \* the coordinator is in RequestSnapshotRuntime's registry
  disconnected,  \* _disconnected
  todo,          \* relations disconnect() has still to visit
  run,           \* status of each official Run
  factory,       \* the call whose binding a Run's graph factory found
  store,         \* Runs whose relation is in the Lifecycle store
  faults         \* what went wrong: <<kind, call or Thread>>

coordinator == <<bindings, sessions, relations, active, disconnected, todo>>
server == <<run, factory, store>>
vars == <<call, bindings, sessions, relations, active, disconnected, todo,
          run, factory, store, faults>>

NewCall ==
  [pc |-> "idle", key |-> None, by |-> None, target |-> None, want |-> None,
   owner |-> None, thread |-> None, named |-> FALSE, ready |-> "unset",
   handle |-> "unset", result |-> None, consumer |-> "none"]

Settled == {"idle", "done", "failed"}
ActiveRun(r) == run[r] \in {"pending", "building", "running"}
TerminalRun(r) == run[r] \in {"ended", "cancelled"}

\* The code of the Run that made the call was cancelled or has ended, so the
\* call meets a CancelledError at its next await.
Interrupted(c) == call[c].by # None /\ run[call[c].by] # "running"

\* Something goes wrong: a call of the server ("remote"), its answer ("lost"), a
\* graph ("build"), a cancel before or after its effect ("cancel", "unheard"), a
\* close; a cleanup is "cut" short; a Run is cancelled without the coordinator
\* ("elsewhere"); or two calls found one Thread free ("raced").
Fault(kind, c) ==
  /\ Cardinality(faults) < MaxFaults
  /\ faults' = faults \cup {<<kind, c>>}

Goto(c, pc) == call' = [call EXCEPT ![c].pc = pc]

-----------------------------------------------------------------------------
(* Beginning a call.                                                       *)

StartEntry ==
  /\ call[Entry].pc = "idle"
  /\ call' = [call EXCEPT ![Entry].pc = "opening", ![Entry].key = EntryKey,
                          ![Entry].target = EntryTarget]
  /\ bindings' = [bindings EXCEPT ![EntryKey] = Entry]
  /\ active' = TRUE
  /\ UNCHANGED <<sessions, relations, disconnected, todo, server, faults>>

\* Threads a call can name: those of the handles the Lifecycle returned.
KnownThreads ==
  {call[call[c].result].thread : c \in {d \in Calls : call[d].result # None}}

Asked(c, r, key, target, want, pc) ==
  [call EXCEPT ![c].pc = pc, ![c].by = r, ![c].key = key,
               ![c].target = target, ![c].want = want,
               ![c].owner = bindings[key]]

\* Mutant: a call opens its own Run whoever is bound to the operation.
StartRunUnbound(c) ==
  /\ c # Entry /\ call[c].pc = "idle" /\ call[c - 1].pc # "idle"
  /\ \E r \in Calls, op \in Ops, target \in Targets, want \in KnownThreads \cup {None} :
       /\ run[r] = "running" /\ factory[r] # None
       /\ call' = Asked(c, r, <<factory[r], op>>, target, want, "lookup")
       /\ bindings' = [bindings EXCEPT ![<<factory[r], op>>] = c]
  /\ UNCHANGED <<sessions, relations, active, disconnected, todo, server,
                 faults>>

\* The code of Run r calls start_workflow_run or start_agent_run.  Its caller
\* identity is the one of the binding its graph was built for.  The first call
\* of an operation reserves the binding; another one waits for its handle, or
\* is refused when it names another target.  Calls are numbered as they come.
StartRun(c) ==
  /\ c # Entry /\ call[c].pc = "idle" /\ call[c - 1].pc # "idle"
  /\ \E r \in Calls, op \in Ops, target \in Targets, want \in KnownThreads \cup {None} :
       LET key == <<factory[r], op>> IN
       /\ run[r] = "running" /\ factory[r] # None
       /\ \/ /\ bindings[key] = None
             /\ call' = Asked(c, r, key, target, want, "lookup")
             /\ bindings' = [bindings EXCEPT ![key] = c]
          \/ /\ bindings[key] # None
             /\ call' = Asked(c, r, key, target, want,
                              IF call[bindings[key]].target = target
                              THEN "waiting" ELSE "failed")
             /\ UNCHANGED bindings
  /\ UNCHANGED <<sessions, relations, active, disconnected, todo, server,
                 faults>>

\* await asyncio.shield(pending.handle_ready).
TakeHandle(c) ==
  LET owner == call[call[c].owner] IN
  /\ call[c].pc = "waiting"
  /\ \/ /\ owner.handle = "set"
        /\ call[c].want \in {None, call[owner.result].thread}
        /\ call' = [call EXCEPT ![c].pc = "done", ![c].result = owner.result]
     \/ /\ \/ owner.handle = "failed"
           \/ /\ owner.handle = "set"
              /\ call[c].want \notin {None, call[owner.result].thread}
        /\ Goto(c, "failed")
  /\ UNCHANGED <<coordinator, server, faults>>

-----------------------------------------------------------------------------
(* The path of a start, one action per await.                              *)

\* Mutant: a start that failed leaves without cancelling its Run.
RaiseForgettingRun(c) ==
  /\ call' = [call EXCEPT ![c].pc = "closing",
                          ![c].handle = IF @ = "unset" THEN "failed" ELSE @,
                          ![c].ready = IF @ = "unset" THEN "error" ELSE @]
  /\ bindings' = IF c = Entry THEN bindings
                 ELSE [bindings EXCEPT ![call[c].key] = None]
  /\ UNCHANGED <<sessions, relations, active, disconnected, todo>>

\* The except branch up to its first await: the handle fails, a spawned
\* call's binding is dropped, and the futures of the binding are cancelled.
Raise(c) ==
  /\ call' = [call EXCEPT
       ![c].pc = IF call[c].thread # None /\ call[c].named THEN "cancelling" ELSE "closing",
       ![c].handle = IF @ = "unset" THEN "failed" ELSE @,
       ![c].ready = IF @ = "unset" THEN "error" ELSE @]
  /\ bindings' = IF c = Entry THEN bindings
                 ELSE [bindings EXCEPT ![call[c].key] = None]
  /\ UNCHANGED <<sessions, relations, active, disconnected, todo>>

\* Mutant: the store is not asked whether the operation already has a Run.
LookupNothing(c) ==
  /\ call[c].pc = "lookup"
  /\ Goto(c, "opening")
  /\ UNCHANGED <<coordinator, server, faults>>

\* _relation_for_operation, and the checks on the relation it finds.
Lookup(c) ==
  /\ call[c].pc = "lookup"
  /\ \/ /\ \A r \in store : call[r].key # call[c].key
        /\ Goto(c, "opening")
        /\ UNCHANGED coordinator
     \/ \E r \in store :
          /\ call[r].key = call[c].key
          /\ IF call[r].target = call[c].target /\ call[c].want \in {None, call[r].thread}
             THEN /\ call' = [call EXCEPT ![c].pc = "existing", ![c].owner = r]
                  /\ UNCHANGED coordinator
             ELSE Raise(c)
  /\ UNCHANGED <<server, faults>>

\* runs.get of the Run that the operation already has.
FetchExisting(c) ==
  /\ call[c].pc = "existing"
  /\ call' = [call EXCEPT ![c].pc = "done", ![c].result = call[c].owner,
                          ![c].handle = "set"]
  /\ bindings' = [bindings EXCEPT ![call[c].key] = None]
  /\ UNCHANGED <<sessions, relations, active, disconnected, todo, server,
                 faults>>

\* Another call has found the Thread free and has still to attach its stream.
Overlapped(c) ==
  \E d \in Calls \ {c} : /\ call[d].want # None /\ call[d].want = call[c].want
                        /\ call[d].pc \in {"threading", "attaching"}

\* The entry's records and the assistant exist; a requested Thread is refused
\* when a stream is attached to it.
Open(c) ==
  /\ call[c].pc = "opening"
  /\ IF call[c].want # None /\ sessions[call[c].want] # None
     THEN Raise(c) /\ UNCHANGED faults
     ELSE /\ Goto(c, "threading") /\ UNCHANGED coordinator
          /\ IF Overlapped(c) THEN Fault("raced", call[c].want) ELSE UNCHANGED faults
  /\ UNCHANGED server

\* threads.get of the requested Thread, or threads.create.
BindThread(c) ==
  /\ call[c].pc = "threading"
  /\ call' = [call EXCEPT ![c].pc = "attaching",
                          ![c].thread = IF call[c].want = None THEN c ELSE call[c].want]
  /\ UNCHANGED <<coordinator, server, faults>>

\* The stream of the Thread is entered and becomes its session.
Attach(c) ==
  /\ call[c].pc = "attaching"
  /\ sessions' = [sessions EXCEPT ![call[c].thread] = c]
  /\ Goto(c, "starting")
  /\ UNCHANGED <<bindings, relations, active, disconnected, todo, server,
                 faults>>

\* stream.run.start and _bind_official_run_id.  When the answer is lost, the
\* server has the Run and the binding never learns its id.
StartOfficialRun(c) ==
  /\ call[c].pc = "starting"
  /\ run' = [run EXCEPT ![c] = "pending"]
  /\ \/ /\ call' = [call EXCEPT ![c].pc = "recording", ![c].named = TRUE]
        /\ UNCHANGED <<coordinator, faults>>
     \/ Raise(c) /\ Fault("lost", c)
  /\ UNCHANGED <<factory, store>>

\* Mutant: the disconnect that came during the save is overlooked.
RecordOverlookingDisconnect(c) ==
  /\ call[c].pc = "recording"
  /\ store' = store \cup {c}
  /\ relations' = relations \cup {c}
  /\ Goto(c, "readying")
  /\ UNCHANGED <<bindings, sessions, active, disconnected, todo, run, factory,
                 faults>>

\* _record_relation: the relation is stored and registered, and a Run that is
\* registered after the disconnect follows its own policy.  The save may fail
\* after the store has accepted it.
RecordRelation(c) ==
  /\ call[c].pc = "recording"
  /\ store' = store \cup {c}
  /\ \/ /\ relations' = relations \cup {c}
        /\ Goto(c, IF disconnected /\ call[c].target \notin Continue
                   THEN "applying" ELSE "readying")
        /\ UNCHANGED <<bindings, sessions, active, disconnected, todo, faults>>
     \/ Raise(c) /\ Fault("lost", c)
  /\ UNCHANGED <<run, factory>>

\* await binding.execution_ready.  A spawned Run's execution gets a task of
\* its own; the entry's is returned to the completion.
TakeExecution(c) ==
  /\ call[c].pc = "readying" /\ call[c].ready # "unset"
  /\ IF call[c].ready = "error" THEN Raise(c)
     ELSE /\ call' = [call EXCEPT
               ![c].consumer = "on",
               ![c].pc = IF c = Entry THEN "done" ELSE "fetching",
               ![c].result = IF c = Entry THEN c ELSE @]
          /\ UNCHANGED coordinator
  /\ UNCHANGED <<server, faults>>

\* runs.get and _bind_handle_ready.
ReturnHandle(c) ==
  /\ call[c].pc = "fetching"
  /\ call' = [call EXCEPT ![c].pc = "done", ![c].handle = "set", ![c].result = c]
  /\ UNCHANGED <<coordinator, server, faults>>

\* A call of the Agent Server fails, before it took effect.
RemoteFails(c) ==
  /\ call[c].pc \in {"lookup", "existing", "opening", "threading", "attaching",
                     "starting", "recording", "fetching"}
  /\ Raise(c)
  /\ Fault("remote", c)
  /\ UNCHANGED server

\* The caller is gone: the await raises CancelledError.  What it does to a start
\* that cleans up already is CleanupCutShort.
Interrupt(c) ==
  /\ Interrupted(c)
  /\ call[c].pc \notin Settled \cup {"cancelling", "closing", "releasing"}
  /\ IF call[c].pc = "waiting"
     THEN Goto(c, "failed") /\ UNCHANGED coordinator
     ELSE Raise(c)
  /\ UNCHANGED <<server, faults>>

-----------------------------------------------------------------------------
(* Cancelling, closing, releasing.                                         *)

FailReady(cs, c) == [cs EXCEPT ![c].ready = IF @ = "unset" THEN "error" ELSE @]

\* A cancelled Run takes its graph factory with it, which passes the
\* CancelledError on to the binding it was building for.
AbortFactory(cs, r) ==
  IF run[r] = "building" /\ factory[r] # None THEN FailReady(cs, factory[r]) ELSE cs

\* Mutant: the start that waits for the graph of a cancelled Run is not told.
TellNobody(cs, r) == cs

\* cancel_official_run fails the future of the binding whose Run it cancelled.
TellStarter(cs, r) ==
  IF bindings[cs[r].key] = r /\ cs[r].named THEN FailReady(cs, r) ELSE cs

\* cancel_official_run(r) by a caller who then stands as in cs; what it raises
\* is swallowed by every caller.  When the answer of runs.cancel is lost, the
\* Run is cancelled and its start is not told.
CancelOfficialRun(r, cs) ==
  \/ /\ IF ActiveRun(r)
        THEN /\ run' = [run EXCEPT ![r] = "cancelled"]
             /\ call' = TellStarter(AbortFactory(cs, r), r)
        ELSE run' = run /\ call' = cs
     /\ UNCHANGED faults
  \/ /\ ActiveRun(r)
     /\ run' = [run EXCEPT ![r] = "cancelled"]
     /\ call' = AbortFactory(cs, r)
     /\ Fault("unheard", r)
  \/ /\ call' = cs
     /\ Fault("cancel", r)
     /\ UNCHANGED run

ApplyOwnPolicy(c) ==
  /\ call[c].pc = "applying"
  /\ CancelOfficialRun(c, [call EXCEPT ![c].pc = "readying"])
  /\ UNCHANGED <<coordinator, factory, store>>

CancelFailedStart(c) ==
  /\ call[c].pc = "cancelling"
  /\ CancelOfficialRun(c, [call EXCEPT ![c].pc = "closing"])
  /\ UNCHANGED <<coordinator, factory, store>>

Disconnect ==
  /\ ~disconnected
  /\ disconnected' = TRUE
  /\ todo' = {r \in relations : call[r].target \notin Continue}
  /\ UNCHANGED <<call, bindings, sessions, relations, active, server,
                 faults>>

ApplyDisconnectPolicy(r) ==
  /\ r \in todo
  /\ todo' = todo \ {r}
  /\ CancelOfficialRun(r, call)
  /\ UNCHANGED <<bindings, sessions, relations, active, disconnected, factory,
                 store>>

\* The operator's cancel_active, cancel_workflow_runs and cancel_agent_run go
\* to the Agent Server directly, for any Run whose relation is in the store.
CancelElsewhere(r) ==
  /\ r \in store /\ ActiveRun(r)
  /\ run' = [run EXCEPT ![r] = "cancelled"]
  /\ call' = AbortFactory(call, r)
  /\ Fault("elsewhere", r)
  /\ UNCHANGED <<coordinator, factory, store>>

\* Mutant: the coordinator is released whatever streams are still attached.
ReleaseAnyway == active' = FALSE

\* _release_if_finished.
ReleaseIfFinished ==
  active' = (active /\ \E t \in Calls : sessions[t] # None)

\* close_official_session pops the session; without one it returns at once.
CloseFailedStart(c) ==
  /\ call[c].pc = "closing"
  /\ IF call[c].thread # None /\ sessions[call[c].thread] # None
     THEN /\ Goto(c, "releasing")
          /\ sessions' = [sessions EXCEPT ![call[c].thread] = None]
          /\ UNCHANGED active
     ELSE /\ Goto(c, "failed")
          /\ UNCHANGED sessions
          /\ IF c = Entry THEN ReleaseIfFinished ELSE UNCHANGED active
  /\ UNCHANGED <<bindings, relations, disconnected, todo, server, faults>>

\* The rest of it; the entry's except branch ends with a release of its own.
ReleaseFailedStart(c) ==
  /\ call[c].pc = "releasing"
  /\ Goto(c, "failed")
  /\ \/ ReleaseIfFinished /\ UNCHANGED faults
     \/ /\ Fault("close", c)
        /\ IF c = Entry THEN ReleaseIfFinished ELSE UNCHANGED active
  /\ UNCHANGED <<bindings, sessions, relations, disconnected, todo, server>>

\* suppress(Exception) lets a CancelledError pass, which ends the cleanup of a
\* start at its await: of cancel_official_run, whose session stays, or of the
\* close of the stream, so that nobody is asked to release the Lifecycle.
CleanupCutShort(c) ==
  /\ Interrupted(c) /\ call[c].pc \in {"cancelling", "releasing"}
  /\ LET cs == [call EXCEPT ![c].pc = "failed"] IN
     \/ call' = cs /\ UNCHANGED run
     \/ /\ call[c].pc = "cancelling" /\ ActiveRun(c)
        /\ run' = [run EXCEPT ![c] = "cancelled"]
        /\ call' = AbortFactory(cs, c)
  /\ Fault("cut", c)
  /\ UNCHANGED <<coordinator, factory, store>>

\* The execution's event stream ends with its Run, or because somebody closed
\* it, and leaving it closes the session of the Thread.
ConsumerCloses(c) ==
  /\ call[c].consumer = "on"
  /\ TerminalRun(c) \/ sessions[call[c].thread] # c
  /\ IF sessions[call[c].thread] # None
     THEN /\ call' = [call EXCEPT ![c].consumer = "closing"]
          /\ sessions' = [sessions EXCEPT ![call[c].thread] = None]
     ELSE /\ call' = [call EXCEPT ![c].consumer = "closed"]
          /\ UNCHANGED sessions
  /\ UNCHANGED <<bindings, relations, active, disconnected, todo, server,
                 faults>>

ConsumerReleases(c) ==
  /\ call[c].consumer = "closing"
  /\ call' = [call EXCEPT ![c].consumer = "closed"]
  /\ \/ ReleaseIfFinished /\ UNCHANGED faults
     \/ Fault("close", c) /\ UNCHANGED active
  /\ UNCHANGED <<bindings, sessions, relations, disconnected, todo, server>>

-----------------------------------------------------------------------------
(* The Agent Server.                                                       *)

\* A worker takes the Run and calls the graph factory, which asks the registry
\* for the coordinator and the coordinator for the binding.
CallFactory(r) ==
  LET owner == bindings[call[r].key] IN
  /\ run[r] = "pending"
  /\ run' = [run EXCEPT ![r] = IF ~active THEN "running"
                               ELSE IF owner = None THEN "ended" ELSE "building"]
  /\ factory' = [factory EXCEPT ![r] = IF active THEN owner ELSE None]
  /\ UNCHANGED <<call, coordinator, store, faults>>

\* build_server_graph, build_server_agent_graph: it awaits run_id_ready, builds
\* the execution and resolves execution_ready either way.
BuildGraph(r) ==
  LET f == factory[r] IN
  /\ run[r] = "building"
  /\ \/ /\ call[f].named
        /\ run' = [run EXCEPT ![r] = "running"]
        /\ call' = [call EXCEPT ![f].ready = IF @ = "unset" THEN "ok" ELSE @]
        /\ UNCHANGED faults
     \/ /\ run' = [run EXCEPT ![r] = "ended"]
        /\ call' = FailReady(call, f)
        /\ IF call[f].ready = "error" THEN UNCHANGED faults
           ELSE call[f].named /\ Fault("build", r)
  /\ UNCHANGED <<coordinator, factory, store>>

\* A Run ends when its code does, which awaits the starts it made.
EndRun(r) ==
  /\ run[r] = "running"
  /\ \A c \in Calls : call[c].by = r => call[c].pc \in Settled
  /\ run' = [run EXCEPT ![r] = "ended"]
  /\ UNCHANGED <<call, coordinator, factory, store, faults>>

-----------------------------------------------------------------------------
Init ==
  /\ call = [c \in Calls |-> NewCall]
  /\ bindings = [k \in Keys |-> None]
  /\ sessions = [t \in Calls |-> None]
  /\ relations = {} /\ store = {} /\ todo = {}
  /\ active = FALSE /\ disconnected = FALSE
  /\ run = [c \in Calls |-> "none"]
  /\ factory = [c \in Calls |-> None]
  /\ faults = {}

\* What the tasks of the service do once a call has begun.
Proceed(c) ==
  \/ TakeHandle(c) \/ Lookup(c) \/ FetchExisting(c) \/ Open(c) \/ BindThread(c)
  \/ Attach(c) \/ StartOfficialRun(c) \/ RecordRelation(c) \/ ApplyOwnPolicy(c)
  \/ TakeExecution(c) \/ ReturnHandle(c) \/ Interrupt(c)
  \/ CancelFailedStart(c) \/ CloseFailedStart(c) \/ ReleaseFailedStart(c)

Consume(c) == ConsumerCloses(c) \/ ConsumerReleases(c)

Serve(r) == CallFactory(r) \/ BuildGraph(r)

Next ==
  \/ StartEntry \/ Disconnect
  \/ \E c \in Calls :
       \/ StartRun(c) \/ Proceed(c) \/ RemoteFails(c) \/ CleanupCutShort(c)
       \/ Consume(c) \/ Serve(c) \/ EndRun(c) \/ CancelElsewhere(c)
       \/ ApplyDisconnectPolicy(c)

\* The event loop runs what is ready, calls of the Agent Server return, and
\* the server takes up pending Runs and builds their graphs.  That a Run ever
\* ends is not assumed.
Fairness ==
  \A c \in Calls : /\ WF_vars(Proceed(c)) /\ WF_vars(Consume(c))
                   /\ WF_vars(Serve(c)) /\ WF_vars(ApplyDisconnectPolicy(c))

Spec == Init /\ [][Next]_vars /\ Fairness

-----------------------------------------------------------------------------
(* Properties.                                                             *)

Pcs == Settled \cup {"waiting", "lookup", "existing", "opening", "threading",
  "attaching", "starting", "recording", "applying", "readying", "fetching",
  "cancelling", "closing", "releasing"}

RunStatuses == {"none", "pending", "building", "running", "ended", "cancelled"}

CallRecords ==
  [pc : Pcs, key : Keys \cup {None}, by : Calls \cup {None},
   target : Targets \cup {None}, want : Calls \cup {None},
   owner : Calls \cup {None}, thread : Calls \cup {None}, named : BOOLEAN,
   ready : {"unset", "ok", "error"}, handle : {"unset", "set", "failed"},
   result : Calls \cup {None}, consumer : {"none", "on", "closing", "closed"}]

\* The coordinator's dictionaries, the futures of a binding and the statuses
\* of the official Runs keep their types, and only a Run whose start got as
\* far as its relation is registered.
TypeOK ==
  /\ call \in [Calls -> CallRecords]
  /\ bindings \in [Keys -> Calls \cup {None}]
  /\ sessions \in [Calls -> Calls \cup {None}]
  /\ relations \subseteq store /\ store \subseteq Calls /\ todo \subseteq relations
  /\ active \in BOOLEAN /\ disconnected \in BOOLEAN
  /\ run \in [Calls -> RunStatuses]
  /\ factory \in [Calls -> Calls \cup {None}]

\* An operation_id is idempotent within its caller: whatever fails in between
\* and however calls overlap, the store never binds it to two Runs, and all
\* calls that get a handle get that Run's, of the target they asked for.
OperationIdempotent ==
  /\ \A r, s \in store : call[r].key = call[s].key => r = s
  /\ \A c \in Calls : call[c].result # None =>
       /\ call[call[c].result].target = call[c].target
       /\ \A d \in Calls : call[d].key = call[c].key =>
            call[d].result \in {None, call[c].result}

\* disconnect() and _record_relation together miss no Run: once the client is
\* gone, a registered Run of a "cancel" target is over or about to be
\* cancelled, unless the cancel itself failed or was cut short.
DisconnectReachesEveryRun ==
  \A r \in relations :
    disconnected /\ call[r].target \notin Continue /\ ActiveRun(r) =>
      \/ r \in todo
      \/ call[r].pc \in {"applying", "cancelling"}
      \/ {<<"cancel", r>>, <<"cut", r>>} \cap faults # {}

\* A start that raised has cancelled the Run it knew of, unless the cancel
\* failed or was cut short.
FailedStartLeavesNoRun ==
  \A c \in Calls :
    call[c].pc \in {"closing", "releasing", "failed"} /\ call[c].named =>
      ~ActiveRun(c) \/ {<<"cancel", c>>, <<"cut", c>>} \cap faults # {}

\* A Run is consumed: its start has not failed, and its execution is read.
Consumed(c) == call[c].consumer = "on" /\ call[c].pc \in {"fetching", "done"}

Failing == {"cancelling", "closing", "releasing", "failed"}

\* c asked for a Thread that two calls found free, or on which another start
\* failed.  Whoever closes for those pops the session of the Thread, which may
\* be that of c by then.
Inherits(c) ==
  /\ call[c].want # None
  /\ \/ <<"raced", call[c].want>> \in faults
     \/ \E d \in Calls \ {c} : call[d].thread = call[c].want /\ call[d].pc \in Failing

\* A Run that goes on although its start failed, for its cancel failed as well or
\* its id never reached the coordinator; or one that may have lost its session.
Orphaned(r) ==
  r # None /\ ActiveRun(r) /\ (call[r].pc \in {"releasing", "failed"} \/ Inherits(r))

\* The graph of an earlier Run of the operation, whose start was lost, was built
\* with this call's binding.
BuiltInPlace(c) == \E r \in Calls \ {c} : factory[r] = c

\* release_active_lifecycle waits for everybody: while a Run of the Lifecycle
\* is being consumed, or a start waits for its graph, the graph factory, the
\* operator's cancel and the retention find the coordinator in the registry.
ActiveWhileConsumed ==
  \A c \in Calls :
    (\/ Consumed(c) /\ ~Inherits(c) /\ ~BuiltInPlace(c)
     \/ call[c].pc = "readying" /\ ~Interrupted(c) /\ ~Orphaned(call[c].by))
    => active

\* Whoever awaits execution_ready is remembered by somebody: its Run is on its
\* way to a graph factory that will find the coordinator and this binding, or
\* is there.  Excepted are a Run cancelled behind the coordinator's back, or
\* with no answer to its cancel, and the call of an orphan.
NoStartForgotten ==
  \A c \in Calls :
    /\ call[c].pc = "readying" /\ call[c].ready = "unset"
    /\ {<<"elsewhere", c>>, <<"unheard", c>>} \cap faults = {}
    /\ ~Interrupted(c) /\ ~Orphaned(call[c].by)
    => /\ active /\ bindings[call[c].key] = c
       /\ run[c] = "pending" \/ (run[c] = "building" /\ factory[c] = c)

\* When every start has settled and no stream is consumed any more, the
\* Lifecycle has left the registry, unless a session could not be closed or a
\* cleanup was cut short.
LifecycleReleased ==
  /\ \A c \in Calls : /\ call[c].pc \in Settled
                      /\ call[c].consumer \in {"none", "closed"}
  /\ active
  => \E c \in Calls : {<<"close", c>>, <<"cut", c>>} \cap faults # {}

\* The registry holds the Lifecycle exactly as long as somebody needs it.
RegisteredWhileNeeded == ActiveWhileConsumed /\ LifecycleReleased
=============================================================================
