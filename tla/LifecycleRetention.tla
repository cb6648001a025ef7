------------------------- MODULE LifecycleRetention -------------------------
(***************************************************************************)
(* How a Lifecycle's data comes and goes (runtime/langgraph_lifecycle.py,  *)
(* with the starts of runtime/request_snapshot.py that write it): the      *)
(* operator's delete, cancel and bulk delete, and the retention sweep that *)
(* follows every released Lifecycle.                                       *)
(*                                                                         *)
(* Everything a Lifecycle owns is one set of things: Threads and Runs of   *)
(* the Agent Server, items of its Store, and the files beside it.  None of *)
(* it is under a lock: each action below is one await of the code.         *)
(***************************************************************************)
EXTENDS Naturals, FiniteSets

CONSTANTS
  MaxLifecycles, \* bound: Lifecycles, numbered by created_at
  Histories,     \* numbers of Lifecycles, of one ended Run each, that
                 \* earlier sessions may have left
  MaxNew,        \* bound: Lifecycles begun in this one
  MaxRuns,       \* bound: Runs of all Lifecycles; a Run and its Thread share a number
  Cleaners,      \* concurrent calls of the service
  Retained,      \* retained_lifecycles
  Outcomes,      \* official statuses with which a Run can end by itself
  MaxCalls,      \* bound: calls of the service in one behaviour, by history
  MaxFaults,     \* bound: faults in one behaviour
  None

Lifecycles == 1..MaxLifecycles
Runs == 1..MaxRuns

ASSUME RetentionAssumption ==
  /\ {MaxLifecycles, MaxNew, MaxRuns, Retained, MaxFaults} \subseteq Nat
  /\ MaxCalls \in [Histories -> Nat]
  /\ Histories \subseteq Lifecycles \cup {0}
  /\ Histories \subseteq Runs \cup {0}
  /\ Outcomes \subseteq {"success", "error"}
  /\ None \notin Nat

\* Kinds of things: one of each for a Lifecycle, or one for each of its Runs.
\* "home" is the External Agents' HOME and evidence.
OwnKinds == {"record", "configuration", "input", "error", "home", "archive"}
RunKinds == {"thread", "run", "relation"}
Things == (Lifecycles \X OwnKinds \X {0}) \cup (Lifecycles \X RunKinds \X Runs)

\* The Store namespaces of a Lifecycle, by the kinds their items have.
Namespaces == {{"configuration"}, {"input", "error"}, {"relation"}, {"record"}}

VARIABLES
  earlier, \* Lifecycles 1..earlier are of earlier sessions
  data,    \* the things that exist
  late,    \* history: things written while a deletion of their Lifecycle ran
  run,     \* run[r]: Lifecycle, caller, how far its start is, official status
  cleaner, \* cleaner[c]: one call of delete, cancel_active, delete_matching
           \* or enforce_retention
  swept,   \* history: Lifecycles whose record a retention sweep deleted
  calls,   \* number of calls so far
  faults   \* number of faults so far

vars == <<earlier, data, late, run, cleaner, swept, calls, faults>>

Record(l) == <<l, "record", 0>>
Thread(r) == <<run[r].of, "thread", r>>
Relation(r) == <<run[r].of, "relation", r>>
RunsOf(l) == {r \in Runs : run[r].of = l}
Begun == {run[r].of : r \in Runs} \ {None}

NoRun == [of |-> None, by |-> None, start |-> "unused", status |-> "none"]
Idle == [pc |-> "idle", job |-> None, target |-> None, queue |-> {},
         listed |-> {}, threads |-> {}, related |-> {}, unread |-> {},
         active |-> {}, left |-> {}]

Deletes(c, l) == /\ cleaner[c].target = l /\ cleaner[c].job # "cancel"
                 /\ cleaner[c].pc \notin {"idle", "judging", "reading"}

Fault == faults < MaxFaults /\ faults' = faults + 1

-----------------------------------------------------------------------------
(* The requests: starts and Runs write the data.                           *)

\* Things of Lifecycle l are written; late when a deletion is on its way or
\* has passed.
Write(l, xs) ==
  /\ data' = data \cup xs
  /\ late' = IF Record(l) \notin data' \/ \E c \in Cleaners : Deletes(c, l)
             THEN late \cup xs ELSE late

Advance(r, start) == run' = [run EXCEPT ![r].start = start]
EndAs(r, start, status) ==
  run' = [run EXCEPT ![r].start = start, ![r].status = status]

NextRun(r) == run[r].of = None /\ \A q \in 1..(r - 1) : run[q].of # None

\* start_workflow, start_agent: the record and the frozen configuration are
\* persisted,
BeginLifecycle(l, r) ==
  /\ l \notin Begun /\ l <= earlier + MaxNew /\ \A k \in 1..(l - 1) : k \in Begun
  /\ NextRun(r)
  /\ run' = [run EXCEPT ![r] = [NoRun EXCEPT !.of = l, !.start = "recorded"]]
  /\ Write(l, {Record(l), <<l, "configuration", 0>>})
  /\ UNCHANGED <<earlier, cleaner, swept, calls, faults>>

\* then the entry's Thread is opened and the request is stored.
OpenThread(r) ==
  /\ run[r].start = "recorded"
  /\ Write(run[r].of, {Thread(r), <<run[r].of, "input", 0>>})
  /\ Advance(r, "ready")
  /\ UNCHANGED <<earlier, cleaner, swept, calls, faults>>

\* start_workflow_run, start_agent_run: the code of an active Run p opens a
\* Thread for a Run of its own.
CallStart(p, r) ==
  /\ run[p].status = "active" /\ NextRun(r)
  /\ run' = [run EXCEPT ![r] = [NoRun EXCEPT !.of = run[p].of, !.by = p,
                                             !.start = "ready"]]
  /\ Write(run[p].of, {<<run[p].of, "thread", r>>})
  /\ UNCHANGED <<earlier, cleaner, swept, calls, faults>>

\* The caller's code has been cancelled or is over.
Orphaned(r) == run[r].by # None /\ run[run[r].by].status # "active"

StartRun(r) ==
  /\ run[r].start = "ready" /\ ~Orphaned(r) /\ Thread(r) \in data
  /\ Write(run[r].of, {<<run[r].of, "run", r>>})
  /\ EndAs(r, "started", "active")
  /\ UNCHANGED <<earlier, cleaner, swept, calls, faults>>

RecordRelation(r) ==
  /\ run[r].start = "started" /\ ~Orphaned(r)
  /\ Write(run[r].of, {Relation(r)})
  /\ Advance(r, "settled")
  /\ UNCHANGED <<earlier, cleaner, swept, calls, faults>>

\* The start raises: the official Run it has is cancelled, and the entry's
\* leaves a start error beside a record that still exists.
FailStart(r) ==
  /\ run[r].start \in {"recorded", "ready", "started"}
  /\ \/ Fault
     \/ /\ Orphaned(r) \/ (run[r].start = "ready" /\ Thread(r) \notin data)
        /\ UNCHANGED faults
  /\ EndAs(r, "settled",
           IF run[r].status = "active" THEN "interrupted" ELSE run[r].status)
  /\ IF run[r].by = None /\ Record(run[r].of) \in data
     THEN Write(run[r].of, {<<run[r].of, "error", 0>>})
     ELSE UNCHANGED <<data, late>>
  /\ UNCHANGED <<earlier, cleaner, swept, calls>>

\* Models are called and External Agents run.
WriteFiles(r) ==
  /\ run[r].status = "active"
  /\ Write(run[r].of, {<<run[r].of, "home", 0>>, <<run[r].of, "archive", 0>>})
  /\ UNCHANGED <<earlier, run, cleaner, swept, calls, faults>>

EndRun(r, status) ==
  /\ run[r].status = "active"
  /\ run' = [run EXCEPT ![r].status = status]
  /\ UNCHANGED <<earlier, data, late, cleaner, swept, calls, faults>>

Requests ==
  \/ \E r \in Runs :
       \/ \E l \in Lifecycles : BeginLifecycle(l, r)
       \/ \E p \in Runs : CallStart(p, r)
       \/ OpenThread(r) \/ StartRun(r) \/ RecordRelation(r) \/ FailStart(r)
       \/ WriteFiles(r)
       \/ \E status \in Outcomes : EndRun(r, status)

-----------------------------------------------------------------------------
(* Taking a call of the service to its next step.                          *)

Step(c, new) == cleaner' = [cleaner EXCEPT ![c] = new]
Goto(c, pc) == cleaner' = [cleaner EXCEPT ![c].pc = pc]

\* The call leaves its target, for the next Lifecycle of its list or for good.
\* What was written meanwhile is an ordinary thing again when the record is
\* still there to delete it by.
Leave(c, new, things) ==
  LET l == cleaner[c].target IN
  /\ Step(c, new)
  /\ data' = things
  /\ late' = {x \in late \cap things :
                \/ x[1] # l \/ Record(l) \notin things
                \/ \E d \in Cleaners \ {c} : Deletes(d, l)}

\* Lists are sorted by created_at, newest first.
Newest(S) == {l \in S : \A k \in S : k <= l}

Taking(c, todo) ==
  IF todo = {} THEN {Idle}
  ELSE {[Idle EXCEPT !.pc = "reading", !.job = cleaner[c].job,
                     !.target = l, !.queue = todo \ {l}] : l \in Newest(todo)}

NextTarget(c, things) ==
  \E new \in Taking(c, cleaner[c].queue) : Leave(c, new, things)
Abort(c) == Leave(c, Idle, data)

\* Somebody calls the service.
Call == calls < MaxCalls[earlier] /\ calls' = calls + 1

\* DELETE /workflow-lifecycles/{id}, POST /workflow-lifecycles/{id}/cancel.
CallOne(c, job, l) ==
  /\ cleaner[c].pc = "idle" /\ l \in Begun
  /\ Step(c, [Idle EXCEPT !.pc = "reading", !.job = job, !.target = l])
  /\ Call
  /\ UNCHANGED <<earlier, data, late, run, swept, faults>>

\* POST /workflow-lifecycles/delete, and the sweep that a settings update or
\* a released Lifecycle starts.
CallAll(c, job) ==
  /\ cleaner[c].pc = "idle" /\ Begun # {}
  /\ Step(c, [Idle EXCEPT !.pc = "judging", !.job = job,
                !.queue = {l \in Begun : Record(l) \in data}])
  /\ Call
  /\ UNCHANGED <<earlier, data, late, run, swept, faults>>

\* _lifecycle_status of what the server and the Store show.
LifecycleStatus(l) ==
  LET shown == {run[r].status : r \in {q \in RunsOf(l) : <<l, "run", q>> \in data}}
      gone == \E r \in RunsOf(l) : Relation(r) \in data /\ <<l, "run", r>> \notin data
  IN CASE <<l, "error", 0>> \in data -> "error"
       [] OTHER ->
            CASE shown = {} -> IF gone THEN "unavailable" ELSE "pending"
              [] "active" \in shown -> "running"
              [] "active" \notin shown /\ "error" \in shown -> "error"
              [] shown \cap {"active", "error"} = {} /\ "interrupted" \in shown -> "interrupted"
              [] shown = {"success"} -> IF gone THEN "unavailable" ELSE "success"

Statuses ==
  {"pending", "running", "error", "interrupted", "unavailable", "success"}
Terminal(status) == status \in {"success", "error", "interrupted"}

\* _list_all observes one Lifecycle after the other.  The listing decides who
\* is tried; delete() looks again.
Judge(c, l, status) ==
  /\ cleaner[c].pc = "judging" /\ l \in Newest(cleaner[c].queue)
  /\ \/ status = LifecycleStatus(l) /\ UNCHANGED faults
     \/ status = "unavailable" /\ Fault
  /\ Step(c, [cleaner[c] EXCEPT
                !.queue = @ \ {l},
                !.listed = IF cleaner[c].job = "bulk" \/ Terminal(status)
                           THEN @ \cup {l} ELSE @])
  /\ UNCHANGED <<earlier, data, late, run, swept, calls>>

\* Mutant: one too few are kept.
SurplusOffByOne(listed) ==
  {l \in listed : Cardinality({k \in listed : k > l}) + 1 >= Retained}

\* enforce_retention keeps the newest; Lifecycles that are not terminal do
\* not count.
Surplus(listed) ==
  {l \in listed : Cardinality({k \in listed : k > l}) >= Retained}

Listed(c) ==
  /\ cleaner[c].pc = "judging" /\ cleaner[c].queue = {}
  /\ \E new \in Taking(c, IF cleaner[c].job = "sweep"
                           THEN Surplus(cleaner[c].listed)
                           ELSE cleaner[c].listed) : Step(c, new)
  /\ UNCHANGED <<earlier, data, late, run, swept, calls, faults>>

-----------------------------------------------------------------------------
(* Observing one Lifecycle: _lifecycle_record, _threads and                *)
(* _observe_lifecycle.                                                     *)

\* LangGraphLifecycleNotFound also ends a bulk delete or a sweep.
ReadRecord(c) ==
  /\ cleaner[c].pc = "reading"
  /\ IF Record(cleaner[c].target) \in data THEN Goto(c, "threads")
                                           ELSE Step(c, Idle)
  /\ UNCHANGED <<earlier, data, late, run, swept, calls, faults>>

SearchThreads(c) ==
  LET l == cleaner[c].target IN
  /\ cleaner[c].pc = "threads"
  /\ Step(c, [cleaner[c] EXCEPT
                !.pc = "relations",
                !.threads = {r \in RunsOf(l) : Thread(r) \in data}])
  /\ UNCHANGED <<earlier, data, late, run, swept, calls, faults>>

\* Threads known by a relation alone are fetched; one that is gone is a 404.
SearchRelations(c) ==
  LET l == cleaner[c].target
      related == {r \in RunsOf(l) : Relation(r) \in data}
      threads == cleaner[c].threads \cup {r \in related : Thread(r) \in data}
  IN
  /\ cleaner[c].pc = "relations"
  /\ Step(c, [cleaner[c] EXCEPT !.pc = "runs", !.threads = threads,
                                !.related = IF cleaner[c].job = "cancel"
                                            THEN related ELSE {},
                                !.unread = threads \cup related])
  /\ UNCHANGED <<earlier, data, late, run, swept, calls, faults>>

\* runs.list of a Thread, or runs.get of a relation it did not show.
ReadRun(c, r) ==
  /\ cleaner[c].pc = "runs" /\ r \in cleaner[c].unread
  /\ Step(c, [cleaner[c] EXCEPT
                !.unread = @ \ {r},
                !.active = IF run[r].status = "active" THEN @ \cup {r} ELSE @])
  /\ UNCHANGED <<earlier, data, late, run, swept, calls, faults>>

\* Some read fails, not with a 404: LangGraphLifecycleUnavailable.  A bulk
\* delete and a sweep go on with the next Lifecycle.
ReadFails(c) ==
  /\ cleaner[c].pc = "runs" /\ cleaner[c].unread # {}
  /\ Fault
  /\ NextTarget(c, data)
  /\ UNCHANGED <<earlier, run, swept, calls>>

CancelRun(c, r) ==
  /\ cleaner[c].job = "cancel" /\ cleaner[c].pc = "runs" /\ cleaner[c].unread = {}
  /\ r \in cleaner[c].active \cap cleaner[c].related
  /\ Step(c, [cleaner[c] EXCEPT !.active = @ \ {r}])
  /\ run' = IF run[r].status = "active"
            THEN [run EXCEPT ![r].status = "interrupted"] ELSE run
  /\ UNCHANGED <<earlier, data, late, swept, calls, faults>>

CancelReturns(c) ==
  /\ cleaner[c].job = "cancel" /\ cleaner[c].pc = "runs" /\ cleaner[c].unread = {}
  /\ cleaner[c].active \cap cleaner[c].related = {}
  /\ Step(c, Idle)
  /\ UNCHANGED <<earlier, data, late, run, swept, calls, faults>>

\* Mutant: the check of official status is gone.
DecideBlindly(c) ==
  /\ cleaner[c].job # "cancel" /\ cleaner[c].pc = "runs" /\ cleaner[c].unread = {}
  /\ Goto(c, "deleting") /\ UNCHANGED <<data, late>>
  /\ UNCHANGED <<earlier, run, swept, calls, faults>>

\* LangGraphLifecycleActive, or on to the deletion.
Decide(c) ==
  /\ cleaner[c].job # "cancel" /\ cleaner[c].pc = "runs" /\ cleaner[c].unread = {}
  /\ IF cleaner[c].active # {}
     THEN NextTarget(c, data)
     ELSE Goto(c, "deleting") /\ UNCHANGED <<data, late>>
  /\ UNCHANGED <<earlier, run, swept, calls, faults>>

-----------------------------------------------------------------------------
(* Deleting it, one call after the other; the record goes last.            *)

\* The Thread takes its Run with it; a Thread somebody else has deleted is an
\* error that ends the call.
DeleteThread(c, r) ==
  LET l == cleaner[c].target IN
  /\ cleaner[c].pc = "deleting" /\ r \in cleaner[c].threads
  /\ IF <<l, "thread", r>> \in data
     THEN /\ Step(c, [cleaner[c] EXCEPT !.threads = @ \ {r}])
          /\ data' = data \ {<<l, "thread", r>>, <<l, "run", r>>}
          /\ late' = late \cap data'
          /\ run' = IF run[r].status = "active"
                    THEN [run EXCEPT ![r].status = "lost"] ELSE run
     ELSE Abort(c) /\ UNCHANGED run
  /\ UNCHANGED <<earlier, swept, calls, faults>>

Remove(c, xs, pc) ==
  /\ data' = data \ xs
  /\ late' = late \ xs
  /\ Goto(c, pc)

\* remove_antigravity_lifecycle_state.
RemoveHome(c) ==
  /\ cleaner[c].pc = "deleting" /\ cleaner[c].threads = {}
  /\ Remove(c, {<<cleaner[c].target, "home", 0>>}, "archive")
  /\ UNCHANGED <<earlier, run, swept, calls, faults>>

DiscardArchive(c) ==
  /\ cleaner[c].pc = "archive"
  /\ Remove(c, {<<cleaner[c].target, "archive", 0>>}, "listing")
  /\ UNCHANGED <<earlier, run, swept, calls, faults>>

Content(l, namespace) == {x \in data : x[1] = l /\ x[2] \in namespace}

ListNamespaces(c) ==
  /\ cleaner[c].pc = "listing"
  /\ Step(c, [cleaner[c] EXCEPT
                !.pc = "store",
                !.left = {n \in Namespaces : Content(cleaner[c].target, n) # {}}])
  /\ UNCHANGED <<earlier, data, late, run, swept, calls, faults>>

\* Mutant: the namespaces are taken as they come.
NextNamespaceUnsorted(c, namespace) == namespace \in cleaner[c].left

\* The record's namespace sorts behind the others.
NextNamespace(c, namespace) ==
  /\ namespace \in cleaner[c].left
  /\ "record" \in namespace => cleaner[c].left = {namespace}

DropNamespace(c, namespace) ==
  LET l == cleaner[c].target IN
  /\ cleaner[c].pc = "store" /\ NextNamespace(c, namespace)
  /\ Step(c, [cleaner[c] EXCEPT !.left = @ \ {namespace}])
  /\ data' = data \ Content(l, namespace)
  /\ late' = late \cap data'
  /\ swept' = IF cleaner[c].job = "sweep" /\ Record(l) \in data \ data'
              THEN swept \cup {l} ELSE swept
  /\ UNCHANGED <<earlier, run, calls, faults>>

Deleted(c) ==
  /\ cleaner[c].pc = "store" /\ cleaner[c].left = {}
  /\ NextTarget(c, data)
  /\ UNCHANGED <<earlier, run, swept, calls, faults>>

\* A call of the server or of the file system fails, between two items of a
\* namespace too, or the service is stopped: the whole call ends there.  (One
\* that ends before it deletes anything has changed nothing.)
CutShort(c) ==
  /\ cleaner[c].pc \in {"deleting", "archive", "listing", "store"}
  /\ Fault
  /\ \/ Abort(c)
     \/ \E namespace \in cleaner[c].left :
          /\ NextNamespace(c, namespace)
          /\ \E part \in SUBSET Content(cleaner[c].target, namespace) :
               part # Content(cleaner[c].target, namespace) /\ Leave(c, Idle, data \ part)
  /\ UNCHANGED <<earlier, run, swept, calls>>

Service(c) ==
  \/ \E job \in {"delete", "cancel"}, l \in Lifecycles : CallOne(c, job, l)
  \/ \E job \in {"bulk", "sweep"} : CallAll(c, job)
  \/ \E l \in Lifecycles, status \in Statuses : Judge(c, l, status)
  \/ Listed(c) \/ ReadRecord(c) \/ SearchThreads(c) \/ SearchRelations(c)
  \/ \E r \in Runs : ReadRun(c, r) \/ CancelRun(c, r) \/ DeleteThread(c, r)
  \/ ReadFails(c) \/ CancelReturns(c) \/ Decide(c)
  \/ RemoveHome(c) \/ DiscardArchive(c) \/ ListNamespaces(c)
  \/ \E namespace \in Namespaces : DropNamespace(c, namespace)
  \/ Deleted(c) \/ CutShort(c)

\* The server keeps what ended before it was last restarted.
Init ==
  /\ earlier \in Histories
  /\ run = [r \in Runs |->
              IF r <= earlier
              THEN [of |-> r, by |-> None, start |-> "settled", status |-> "success"]
              ELSE NoRun]
  /\ data = {x \in Things : x[1] <= earlier /\ x[2] # "error" /\ x[3] \in {0, x[1]}}
  /\ late = {} /\ swept = {}
  /\ calls = 0 /\ faults = 0
  /\ cleaner = [c \in Cleaners |-> Idle]

Next == Requests \/ \E c \in Cleaners : Service(c)

Spec == Init /\ [][Next]_vars

-----------------------------------------------------------------------------
(* Properties.                                                             *)

RunRecords ==
  [of : Lifecycles \cup {None}, by : Runs \cup {None},
   start : {"unused", "recorded", "ready", "started", "settled"},
   status : {"none", "active", "success", "error", "interrupted", "lost"}]

CleanerRecords ==
  [pc : {"idle", "judging", "reading", "threads", "relations", "runs", "deleting",
         "archive", "listing", "store"},
   job : {"delete", "cancel", "bulk", "sweep", None},
   target : Lifecycles \cup {None},
   queue : SUBSET Lifecycles, listed : SUBSET Lifecycles,
   threads : SUBSET Runs, related : SUBSET Runs, unread : SUBSET Runs,
   active : SUBSET Runs, left : SUBSET Namespaces]

\* The state is well formed: every thing has an owner, every call a target.
TypeOK ==
  /\ earlier \in Histories
  /\ data \subseteq Things /\ late \subseteq data
  /\ run \in [Runs -> RunRecords]
  /\ cleaner \in [Cleaners -> CleanerRecords]
  /\ swept \subseteq Lifecycles
  /\ calls \in 0..MaxCalls[earlier] /\ faults \in 0..MaxFaults

\* However deletions fail, are cut short, are retried or race each other, a
\* Lifecycle without its record has nothing left but what was written while
\* it was being deleted: as long as anything else is left, the record by
\* which the deletion can be repeated is there.
RecordOutlivesData ==
  \A x \in data \ late : Record(x[1]) \in data

\* A deletion takes an active Run with it only when that Run was started
\* after the deletion had begun to look: every Run that was there before was
\* seen to be over.
OnlyLateRunsLost ==
  [][\A r \in Runs : run[r].status = "active" /\ run'[r].status = "lost" =>
       <<run[r].of, "run", r>> \in late]_vars

\* Whatever sweeps overlap, those that delete a Lifecycle leave at least
\* retained_lifecycles newer ones behind, which only the operator may delete.
NewestKept ==
  \A l \in swept :
    Cardinality({k \in Begun \ swept : k > l}) >= Retained
=============================================================================
