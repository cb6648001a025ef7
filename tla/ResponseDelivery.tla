-------------------------- MODULE ResponseDelivery --------------------------
(***************************************************************************)
(* One public completion from the Runs of a Lifecycle to the HTTP client:  *)
(* the consumer generator of the request-entry Run                         *)
(* (RunExecution._stream_text_inner), the spawned Runs that share its      *)
(* scheduler, the one-place queue to the HTTP response                     *)
(* (_completion_stream, _completion_result), client disconnection and the  *)
(* operator's cancel.                                                      *)
(*                                                                         *)
(* All of them are tasks of one asyncio loop, so a task is only            *)
(* interrupted where it really suspends: busy is TRUE from the moment the  *)
(* entry's task resumes until it suspends again, and every other actor     *)
(* waits for ~busy.  queue.put suspends only when the queue is full.       *)
(***************************************************************************)
EXTENDS ResponseSchedulerOps

CONSTANTS
  Entry,      \* the request-entry Run, the response consumer
  Requests    \* the completions considered, see CompletionRequest

\* A completion asks for streaming (SSE) or not (one JSON body); the rest
\* bounds what may happen to it: which Runs it can start, how many texts a Run
\* projects before its end event, whether the operator may cancel it, whether
\* starting a Run may fail once it is registered, and whether the service may
\* be stopped before its entry has ended.
CompletionRequest ==
  [streaming : BOOLEAN, runs : SUBSET Runs, texts : Nat,
   cancels : BOOLEAN, failures : BOOLEAN, stops : BOOLEAN]

ASSUME DeliveryAssumption == Entry \in Runs /\ Requests \subseteq CompletionRequest

VARIABLES
  request,     \* the completion that is served
  sch,         \* the LifecycleResponseScheduler
  busy,        \* the entry's task runs and has not suspended yet
  entry,       \* [pc, item, next, timed] of the entry's generator
  child,       \* state of each spawned Run
  parent,      \* the Run that called start_workflow_run / start_agent_run
  projected,   \* number of texts each Run has published
  queue,       \* the asyncio.Queue(maxsize=1) of the response
  collected,   \* frames gathered by RunExecution.run (stream=false)
  http,        \* how the HTTP response stands
  gone,        \* the client has disconnected
  body,        \* frames the HTTP client has received
  terminated   \* LifecycleRunCoordinator._response_terminated

vars == <<request, sch, busy, entry, child, parent, projected, queue, collected, http,
          gone, body, terminated>>

Children == Runs \ {Entry}

\* What the entry's task never touches.
others == <<request, child, parent, http, gone, body, terminated>>

\* _completion_stream's finally sets "detached" when the response is over.
Detached == http # "open"

\* Places where the entry's generator awaits something else than queue.put.
Suspensions == {"wait", "output", "exit", "failing", "drainWait", "closed"}

Text(frames) == [kind |-> "text", frames |-> frames]

HasText(item) ==
  item.kind # "text" \/ \E i \in DOMAIN item.frames : item.frames[i].text > 0

-----------------------------------------------------------------------------
(* Projecting text.                                                        *)

AtomicFrame(r) ==
  [phase |-> "atomic", block |-> None, text |-> 1, end |-> 0,
   src |-> projected[r] + 1]

\* project_run_event and project_input publish only while the Run is accepted.
ProjectText(s, r) ==
  IF Accepting(s, r) THEN PublishIn(s, r, AtomicFrame(r)) ELSE s

Counted(r) ==
  IF Accepting(sch, r) THEN [projected EXCEPT ![r] = @ + 1] ELSE projected

\* An event output projector may render nothing for a run event.
MayProject(r) == {<<sch, projected>>, <<ProjectText(sch, r), Counted(r)>>}

-----------------------------------------------------------------------------
(* The entry's generator.                                                  *)

\* take_response_output, then the yield of what it returned.
YieldFrom(s, next) ==
  /\ sch' = TakePublishedIn(s)
  /\ entry' = [entry EXCEPT !.pc = "yield", !.item = Text(s.published),
                            !.next = next]
  /\ busy' = TRUE

GoTo(pc) ==
  /\ entry' = [entry EXCEPT !.pc = pc, !.item = Text(<<>>)]
  /\ busy' = (pc \notin Suspensions)

\* project_run_event("start") when the generator is first advanced.
EntryStart ==
  /\ entry.pc = "start" /\ ~busy
  /\ \E p \in MayProject(Entry) :
       projected' = p[2] /\ YieldFrom(p[1], "loop")
  /\ UNCHANGED <<queue, collected, others>>

\* Text goes through the queue only when it is streamed.
ThroughQueue ==
  /\ entry.pc = "yield" /\ HasText(entry.item)
  /\ request.streaming \/ entry.item.kind # "text"

\* Nothing to hand over: frame_text returned no text, or nobody listens.
YieldNothing ==
  /\ entry.pc = "yield" /\ busy
  /\ ~HasText(entry.item) \/ (ThroughQueue /\ Detached)
  /\ GoTo(entry.next)
  /\ UNCHANGED <<sch, projected, queue, collected, others>>

\* stream=false: RunExecution.run appends the part to its list.
YieldCollected ==
  /\ entry.pc = "yield" /\ busy
  /\ ~request.streaming /\ entry.item.kind = "text" /\ HasText(entry.item)
  /\ collected' = collected \o entry.item.frames
  /\ GoTo(entry.next)
  /\ UNCHANGED <<sch, projected, queue, others>>

\* Mutant: a full queue is overwritten by the next item.
YieldOverwrites ==
  /\ ThroughQueue
  /\ busy => ~Detached
  /\ queue' = <<entry.item>>
  /\ GoTo(entry.next)
  /\ UNCHANGED <<sch, projected, collected, others>>

\* deliver: queue.put completes at once when there is room, else it suspends
\* and completes after the HTTP side has taken an item or drained the queue.
YieldQueued ==
  /\ ThroughQueue
  /\ busy => ~Detached
  /\ queue = <<>>
  /\ queue' = <<entry.item>>
  /\ GoTo(entry.next)
  /\ UNCHANGED <<sch, projected, collected, others>>

YieldSuspends ==
  /\ ThroughQueue /\ busy /\ ~Detached /\ queue # <<>>
  /\ busy' = FALSE
  /\ UNCHANGED <<sch, entry, projected, queue, collected, others>>

\* Top of the consumer loop: the wakeup is cleared before output is taken.
LoopTop ==
  /\ entry.pc = "loop"
  /\ YieldFrom(ClearWakeupIn(sch), "wait")
  /\ UNCHANGED <<projected, queue, collected, others>>

EntryAwake == sch.wakeup \/ DeadlineReached(sch)

\* A deadline or a wakeup completed: project_deadline.
AdvanceAndYield(next) == YieldFrom(AdvancePublishedIn(sch), next)

EntryWakes ==
  /\ \/ entry.pc = "wait" /\ ~busy /\ EntryAwake
     \/ entry.pc = "advance"
  /\ AdvanceAndYield("loop")
  /\ UNCHANGED <<projected, queue, collected, others>>

\* An official event of the entry Run that renders to text.
EntryEvent ==
  /\ entry.pc = "wait" /\ ~busy
  /\ projected[Entry] < request.texts
  /\ projected' = Counted(Entry)
  /\ YieldFrom(ProjectText(sch, Entry), IF EntryAwake THEN "advance" ELSE "loop")
  /\ UNCHANGED <<queue, collected, others>>

StartingChildOf(r) == \E c \in Children : child[c] = "starting" /\ parent[c] = r

\* The official stream of the entry Run ends; a Run that still awaits the
\* start of another Run has not ended.
EntryStreamEnds ==
  /\ entry.pc = "wait" /\ ~busy /\ ~StartingChildOf(Entry)
  /\ \/ EntryAwake /\ AdvanceAndYield("output")
     \/ ~EntryAwake /\ GoTo("output") /\ UNCHANGED sch
  /\ UNCHANGED <<projected, queue, collected, others>>

EntryOutput ==
  /\ entry.pc = "output" /\ ~busy
  /\ YieldFrom(sch, "exit")
  /\ UNCHANGED <<projected, queue, collected, others>>

Finishing(kind) ==
  [kind |-> kind, frames |-> IF request.streaming THEN <<>> ELSE collected]

\* After the stream: an operator's cancel returns at once, without
\* finish_run; otherwise the "end" event is projected.
EntryReturnsTerminated ==
  /\ entry.pc = "exit" /\ ~busy /\ terminated
  /\ entry' = [entry EXCEPT !.pc = "yield", !.item = Finishing("done"),
                            !.next = "closed"]
  /\ busy' = TRUE
  /\ UNCHANGED <<sch, projected, queue, collected, others>>

EntryEnds ==
  /\ entry.pc = "exit" /\ ~busy /\ ~terminated
  /\ \E p \in MayProject(Entry) :
       projected' = p[2] /\ YieldFrom(p[1], "finishRun")
  /\ UNCHANGED <<queue, collected, others>>

EntryFinishRun ==
  /\ entry.pc = "finishRun"
  /\ sch' = FinishRunIn(sch, Entry)
  /\ GoTo("drainTake")
  /\ UNCHANGED <<projected, queue, collected, others>>

\* The drain loop takes and yields output, and only then clears the wakeup.
DrainTake ==
  /\ entry.pc = "drainTake"
  /\ YieldFrom(sch, "drainCheck")
  /\ UNCHANGED <<projected, queue, collected, others>>

\* Mutant: the seal does not wait for Runs that have nothing pending.
DrainSealsOverActiveRuns ==
  /\ entry.pc = "drainCheck"
  /\ sch.owner = None /\ sch.pendingFrames = <<>> /\ sch.published = <<>>
  /\ sch' = FinishIn(ClearWakeupIn(sch))
  /\ entry' = [entry EXCEPT !.pc = "yield", !.item = Text(<<>>),
                            !.next = "done"]
  /\ busy' = TRUE
  /\ UNCHANGED <<projected, queue, collected, others>>

DrainSeals ==
  /\ entry.pc = "drainCheck" /\ ResponseComplete(sch) /\ CanFinish(sch)
  /\ sch' = FinishIn(ClearWakeupIn(sch))
  /\ entry' = [entry EXCEPT !.pc = "yield", !.item = Text(FinishOutput(sch)),
                            !.next = "done"]
  /\ busy' = TRUE
  /\ UNCHANGED <<projected, queue, collected, others>>

\* Mutant: next_deadline() is not consulted before the wait.
DrainSuspendsUntimed ==
  /\ entry.pc = "drainCheck" /\ ~ResponseComplete(sch)
  /\ sch' = ClearWakeupIn(sch)
  /\ entry' = [entry EXCEPT !.pc = "drainWait", !.timed = FALSE]
  /\ busy' = FALSE
  /\ UNCHANGED <<projected, queue, collected, others>>

DrainSuspends ==
  /\ entry.pc = "drainCheck" /\ ~ResponseComplete(sch)
  /\ sch' = ClearWakeupIn(sch)
  /\ entry' = [entry EXCEPT !.pc = "drainWait", !.timed = HasDeadline(sch)]
  /\ busy' = FALSE
  /\ UNCHANGED <<projected, queue, collected, others>>

\* wait_for_wakeup, with a timeout only when next_deadline() gave one.
DrainAwake == sch.wakeup \/ (entry.timed /\ DeadlineReached(sch))

DrainWakes ==
  /\ entry.pc = "drainWait" /\ ~busy /\ DrainAwake
  /\ sch' = AdvancePublishedIn(sch)
  /\ GoTo("drainTake")
  /\ UNCHANGED <<projected, queue, collected, others>>

\* An error is raised: by the "start" or the "end" projection, by the stream of
\* the official Run or by its output().  failure_output, then it is raised again.
EntryFails ==
  /\ entry.pc \in {"start", "wait", "output", "exit"} /\ ~busy
  /\ ~StartingChildOf(Entry) /\ ~(entry.pc = "exit" /\ terminated)
  /\ \E p \in MayProject(Entry) :
       projected' = p[2] /\ YieldFrom(FinishRunIn(p[1], Entry), "failing")
  /\ UNCHANGED <<queue, collected, others>>

\* The generator is exhausted: consume_execution delivers how it ended.
\* stream=true delivers the error and then, from its finally, "done".
EntryCloses ==
  /\ \/ entry.pc = "failing" /\ ~busy
     \/ entry.pc \in {"done", "afterError"}
  /\ LET failed == entry.pc = "failing"
     IN  entry' = [entry EXCEPT
                     !.pc = "yield",
                     !.item = Finishing(IF failed THEN "error" ELSE "done"),
                     !.next = IF failed /\ request.streaming THEN "afterError"
                              ELSE "closed"]
  /\ busy' = TRUE
  /\ UNCHANGED <<sch, projected, queue, collected, others>>

\* DetachedTaskManager.close() cancels the task when the service stops, by when
\* no HTTP connection is left: the CancelledError branch ends the Run in the
\* scheduler, and nothing more is delivered.
EntryCancelled ==
  /\ request.stops /\ (Detached \/ gone)
  /\ entry.pc # "closed" /\ ~busy
  /\ sch' = IF entry.pc = "start" THEN sch ELSE FinishRunIn(sch, Entry)
  /\ GoTo("closed")
  /\ http' = IF http = "open" THEN "cancelled" ELSE http
  /\ queue' = <<>>
  /\ UNCHANGED <<request, child, parent, projected, collected, gone, body, terminated>>

EntryStep ==
  \/ EntryStart \/ YieldNothing \/ YieldCollected \/ YieldQueued
  \/ YieldSuspends \/ LoopTop \/ EntryWakes \/ EntryStreamEnds
  \/ EntryOutput \/ EntryReturnsTerminated \/ EntryEnds \/ EntryFinishRun
  \/ DrainTake \/ DrainSeals \/ DrainSuspends \/ DrainWakes \/ EntryFails
  \/ EntryCloses

-----------------------------------------------------------------------------
(* The spawned Runs.  Each one is consumed by a detached task that only    *)
(* publishes; its official Run may start further Runs.                     *)

unaffected ==
  <<request, busy, entry, queue, collected, http, gone, body, terminated>>

\* The entry's official stream has not ended.
EntryStreaming ==
  entry.pc \in {"loop", "wait", "advance"}
    \/ (entry.pc = "yield" /\ entry.next \in {"loop", "wait", "advance"})

Active(r) == IF r = Entry THEN EntryStreaming ELSE child[r] = "running"

\* The graph factory builds the RunExecution, which registers the Run.
SpawnRegisters(p, c) ==
  /\ c \in request.runs /\ child[c] = "none"
  /\ ~busy /\ Active(p) /\ ~sch.finished
  /\ sch' = RegisterRunIn(sch, c)
  /\ child' = [child EXCEPT ![c] = "starting"]
  /\ parent' = [parent EXCEPT ![c] = p]
  /\ UNCHANGED <<projected, unaffected>>

\* start_workflow_run / start_agent_run: the relation is saved and the task
\* that consumes the execution is created.
SpawnSucceeds(c) ==
  /\ ~busy /\ child[c] = "starting"
  /\ child' = [child EXCEPT ![c] = "running"]
  /\ UNCHANGED <<sch, parent, projected, unaffected>>

\* The same method raises after the registration, for instance because the
\* relation could not be saved: nobody consumes the registered execution.
SpawnFails(c) ==
  /\ request.failures
  /\ ~busy /\ child[c] = "starting"
  /\ child' = [child EXCEPT ![c] = "orphaned"]
  /\ UNCHANGED <<sch, parent, projected, unaffected>>

ChildEvent(c) ==
  /\ ~busy /\ child[c] = "running" /\ projected[c] < request.texts
  /\ sch' = ProjectText(sch, c)
  /\ projected' = Counted(c)
  /\ UNCHANGED <<child, parent, unaffected>>

ChildMayEnd(c) == ~busy /\ child[c] = "running" /\ ~StartingChildOf(c)

\* The stream of a spawned Run ends: an operator's cancel returns without
\* finish_run, otherwise the "end" event is projected and the Run finishes.
ChildEnds(c) ==
  /\ ChildMayEnd(c)
  /\ \/ /\ terminated
        /\ UNCHANGED <<sch, projected>>
     \/ /\ ~terminated
        /\ \E p \in MayProject(c) :
             sch' = FinishRunIn(p[1], c) /\ projected' = p[2]
  /\ child' = [child EXCEPT ![c] = "ended"]
  /\ UNCHANGED <<parent, unaffected>>

\* The official Run failed: failure_output does not look at the cancel.
ChildFails(c) ==
  /\ ChildMayEnd(c)
  /\ \E p \in MayProject(c) :
       sch' = FinishRunIn(p[1], c) /\ projected' = p[2]
  /\ child' = [child EXCEPT ![c] = "ended"]
  /\ UNCHANGED <<parent, unaffected>>

-----------------------------------------------------------------------------
(* The HTTP response, its client and the operator.                         *)

upstream ==
  <<request, sch, busy, entry, child, parent, projected, collected, terminated>>

\* The response takes the next item; "done" and "error" end it.  It goes on
\* without a client, whose share CompletionRequest.send_response discards.
HttpTakes ==
  /\ ~busy /\ http = "open" /\ queue # <<>>
  /\ queue' = <<>>
  /\ body' = IF gone \/ queue[1].kind = "error" THEN body
             ELSE body \o queue[1].frames
  /\ http' = IF queue[1].kind = "text" THEN "open" ELSE queue[1].kind
  /\ UNCHANGED <<gone, upstream>>

\* Mutant: a cancelled response leaves its last item in the queue.
HttpCancelledUndrained ==
  /\ ~busy /\ http = "open" /\ terminated
  /\ http' = "cancelled" /\ UNCHANGED queue
  /\ UNCHANGED <<gone, body, upstream>>

\* _next_or_terminated returned None: completion_cancelled, and the finally
\* block drains the queue.
HttpCancelled ==
  /\ ~busy /\ http = "open" /\ terminated
  /\ http' = "cancelled" /\ queue' = <<>>
  /\ UNCHANGED <<gone, body, upstream>>

\* CompletionRequest records a disconnect once and before the response is over.
ClientDisconnects ==
  /\ ~busy /\ http = "open" /\ ~gone
  /\ gone' = TRUE
  /\ UNCHANGED <<queue, http, body, upstream>>

\* terminate_active_response finds the Lifecycle while a Run has a session.
OperatorCancelsLifecycle ==
  /\ request.cancels
  /\ ~busy /\ ~terminated /\ \E r \in Runs : Active(r)
  /\ terminated' = TRUE
  /\ UNCHANGED <<request, sch, busy, entry, child, parent, projected, queue,
                 collected, http, gone, body>>

Tick ==
  /\ ~busy /\ sch' = TickIn(sch) /\ sch' # sch
  /\ UNCHANGED <<busy, entry, queue, collected, projected, others>>

Init ==
  /\ request \in Requests
  /\ sch = RegisterRunIn(NewScheduler, Entry)
  /\ busy = FALSE
  /\ entry = [pc |-> "start", item |-> Text(<<>>), next |-> "loop",
              timed |-> FALSE]
  /\ child = [c \in Children |-> "none"]
  /\ parent = [c \in Children |-> Entry]
  /\ projected = [r \in Runs |-> 0]
  /\ queue = <<>> /\ collected = <<>>
  /\ http = "open" /\ gone = FALSE /\ body = <<>>
  /\ terminated = FALSE

\* The process of one completion is over when its entry is closed and no
\* spawned Run is left.
Next ==
  \/ EntryStep \/ EntryEvent \/ EntryCancelled
  \/ \E c \in Children :
       \/ \E p \in Runs \ {c} : SpawnRegisters(p, c)
       \/ SpawnSucceeds(c) \/ SpawnFails(c) \/ ChildEvent(c)
       \/ ChildEnds(c) \/ ChildFails(c)
  \/ HttpTakes \/ HttpCancelled \/ ClientDisconnects
  \/ OperatorCancelsLifecycle \/ Tick
-----------------------------------------------------------------------------
(* Fairness.  Runnable tasks of the event loop run, official Runs end, the *)
(* client reads what it is sent, and time passes.  TLC would have to       *)
(* evaluate every action to know whether it is enabled, so weak fairness   *)
(* is spelled with the condition under which the action is enabled.        *)

EntryReady ==
  \/ busy
  \/ entry.pc \in {"start", "output", "exit", "failing"}
  \/ entry.pc = "wait" /\ (~StartingChildOf(Entry) \/ EntryAwake)
  \/ entry.pc = "yield" /\ queue = <<>>
  \/ entry.pc = "drainWait" /\ DrainAwake

ChildOver(c) == ChildEnds(c) \/ ChildFails(c)
Spawned(c) == SpawnSucceeds(c) \/ SpawnFails(c)
HttpStep == HttpTakes \/ HttpCancelled

Fairness ==
  /\ []<>~EntryReady \/ []<><<EntryStep>>_vars
  /\ \A c \in Children : /\ []<>~ChildMayEnd(c) \/ []<><<ChildOver(c)>>_vars
                         /\ WF_vars(Spawned(c))
  /\ WF_vars(HttpStep)
  /\ WF_vars(Tick)

Spec == Init /\ [][Next]_vars /\ Fairness

-----------------------------------------------------------------------------
(* Properties.                                                             *)

\* Program counters, Run states and response states stay in their ranges,
\* and the response queue never holds more than its one place.
TypeOK ==
  /\ entry.pc \in {"start", "yield", "loop", "advance", "finishRun",
                   "drainTake", "drainCheck", "done", "afterError"}
                  \cup Suspensions
  /\ child \in [Children -> {"none", "starting", "running", "ended",
                             "orphaned"}]
  /\ http \in {"open", "done", "error", "cancelled"}
  /\ Len(queue) <= 1
  /\ projected \in [Runs -> 0..(request.texts + 2)]

\* Numbers of the texts of Run r among frames.
TextsOf(r, frames) ==
  LET own == SelectSeq(frames, LAMBDA f : f.run = r)
  IN  [i \in DOMAIN own |-> own[i].src]

\* What has left the scheduler and is on its way to the client.
InTransit ==
  collected
    \o (IF queue = <<>> \/ ~request.streaming THEN <<>> ELSE queue[1].frames)
    \o (IF entry.pc = "yield" /\ entry.item.kind = "text"
        THEN entry.item.frames ELSE <<>>)
    \o sch.published \o sch.pendingFrames

\* A consumer suspended in queue.put while other Runs publish or end loses,
\* repeats and reorders nothing.  While the response is open and listened to,
\* every text a Run has published is, once and in its Run's order, with the
\* client, in the queue, in the generator or in the scheduler; and a response
\* that ends normally carries the whole text of every Run that took part:
\* [DONE] is not sent while another Run still has something to say.
NothingLost ==
  /\ http = "open" /\ ~gone =>
       \A r \in Runs :
         TextsOf(r, body \o InTransit)
           \o [i \in DOMAIN sch.out[r].pending |-> sch.out[r].pending[i].src]
         = [i \in 1..projected[r] |-> i]
  /\ http = "done" /\ ~gone /\ ~terminated =>
       \A r \in Runs : TextsOf(r, body) = [i \in 1..projected[r] |-> i]

\* LifecycleResponseScheduler.register_run and finish raise RuntimeError on a
\* sealed scheduler or on one that is not drained; neither can happen, since
\* no Run can still be started or publish once the response is sealed.
SealIsFinal ==
  /\ sch.finished => \A r \in Runs : ~Active(r) /\ ~StartingChildOf(r)
  /\ entry.pc = "drainCheck" /\ ResponseComplete(sch) => CanFinish(sch)

\* The drain loop never sleeps without a timeout on output that is already
\* published, nor once every Run is terminal.  A streamed response is excepted:
\* its consumer may suspend between the yield and the clearing of the wakeup.
NoSleepOnDueOutput ==
  ~request.streaming /\ entry.pc = "drainWait" /\ ~entry.timed /\ ~sch.wakeup =>
    sch.published = <<>> /\ ~AllRunsTerminal(sch)

\* A Run whose start failed stays registered with the scheduler.
Orphaned == \E c \in Children : child[c] = "orphaned"

\* A Run that took part is over or has nobody to consume it, and the scheduler
\* was not told.
Unfinished == \E c \in Children : child[c] \in {"ended", "orphaned"} /\ ~sch.out[c].terminal

\* The drain loop waits without a timeout for a wakeup that need never come: a
\* Run was left unfinished, by a start that failed or after the operator's
\* cancel; or the consumer was suspended in queue.put when the last wakeup came.
Overslept ==
  /\ entry.pc = "drainWait" /\ ~entry.timed /\ ~sch.wakeup
  /\ \/ Unfinished /\ (Orphaned \/ terminated)
     \/ request.streaming /\ (AllRunsTerminal(sch) \/ HasDeadline(sch) \/ sch.published # <<>>)

\* A completion comes to an end for its client, and the task that consumes its
\* entry Run ends and releases its resources, whoever goes and whatever is
\* cancelled or fails while a full queue holds the consumer up.  Nothing stops
\* them for ever but the wait in which the code is known to oversleep, and
\* that one never keeps the client of a cancelled completion.
CompletionEnds ==
  /\ <>(http # "open") \/ <>[](Overslept /\ ~terminated)
  /\ <>(entry.pc = "closed") \/ <>[]Overslept
=============================================================================
