------------------------ MODULE ExternalAgentRunner ------------------------
(***************************************************************************)
(* Calls of External Agents (external_agents/runtime.py): every call runs  *)
(* one Antigravity CLI process in the HOME of its preset and Lifecycle,    *)
(* guards it by a claim on the conversation, a watchdog and a reaper, and  *)
(* records its evidence (evidence.py).                                     *)
(*                                                                         *)
(* The model has one HOME: the registry of claims and the files of         *)
(* different HOMEs have nothing in common.  One action is what a call does *)
(* between two awaits; a call may be cancelled at every one of them.       *)
(***************************************************************************)
EXTENDS Naturals

CONSTANTS
  MaxCalls,         \* bound: calls of one behaviour, numbered as they begin
  Formats,          \* output formats the preset may have
  Revisions,        \* revisions of the preset's prompt,
  Current,          \* and the one it has now
  OldConversations, \* conversations that earlier calls have left in the HOME
  MaxConversations, \* bound: conversations of the HOME
  Reports,          \* statuses the CLI may report
  Ends,             \* ways in which it may end, see CliExits
  MaxFaults,        \* bound: cancelled calls, failing files and process starts
  Unset

Calls == 1..MaxCalls
Conversations == 1..MaxConversations

ASSUME RunnerAssumption ==
  /\ Formats \subseteq {"text", "json", "stream-json"}
  /\ {MaxCalls, MaxConversations, OldConversations, MaxFaults} \subseteq Nat
  /\ OldConversations <= MaxConversations
  /\ Reports \subseteq {"SUCCESS", "ERROR"}
  /\ Ends \subseteq {"clean", "denied", "failed", "truncated", "held"}
  /\ Current \in Revisions
  /\ Unset \notin {"success", "timeout", "denied", "failed"}

VARIABLES
  format,   \* the preset's output_format
  active,   \* ConversationRegistry._active of this HOME
  call,     \* call[c]: the coroutine of AntigravityRunner.run
  process,  \* process[c]: the CLI
  made,     \* number of conversations the CLI keeps in the HOME
  known,    \* conversation ids that callers have
  overheard, \* conversations asked for while the run that made them went on (history)
  recorded, \* conversation and prompt revision of every finished session's meta.json
  evidence, \* evidence[c]: the files of the call's session, until it is over
  faults    \* number of faults so far

runnerVars ==
  <<format, active, call, process, made, known, overheard, recorded, evidence, faults>>

NoCall == [pc |-> "idle", kind |-> Unset, id |-> 0, cancelled |-> FALSE,
           timedout |-> FALSE, read |-> 0, conv |-> 0,
           status |-> Unset, verdict |-> Unset, raised |-> FALSE]
NoProcess == [state |-> "none", conv |-> 0, said |-> 0, status |-> Unset, end |-> Unset]
NoEvidence == [meta |-> Unset, result |-> Unset, log |-> "none", open |-> FALSE,
               broken |-> FALSE]

Alive(c) == process[c].state = "alive"
Fault == faults < MaxFaults /\ faults' = faults + 1

-----------------------------------------------------------------------------
(* Cancellation.  Work under complete_before_cancel is joined first; any    *)
(* other await is left at once.  Where the exception goes depends on what   *)
(* the call holds.                                                         *)

Unshielded == {"binary", "spawn", "read", "exit", "terminate", "reap", "stderr"}

\* Mutant: a run that is interrupted leaves its evidence as it is.
HandlerRecordingNothing(pc) ==
  CASE pc = "binary" -> "over"
    [] pc \in {"materialize", "guard", "close"} -> "release"
    [] pc \in {"open", "meta", "result", "events"} -> "close"
    [] pc \in {"metadata", "started", "spawn", "tail"} -> "close"
    [] pc \in {"read", "exit", "terminate", "reap", "stderr"} -> "stop"
    [] pc = "release" -> "over"

\* The handler that catches an exception raised at pc.
Handler(pc) ==
  CASE pc = "binary" -> "over"
    [] pc \in {"materialize", "guard", "close"} -> "release"
    [] pc \in {"open", "meta", "result", "events"} -> "close"
    [] pc \in {"metadata", "started", "spawn", "tail"} -> "meta"
    [] pc \in {"read", "exit", "terminate", "reap", "stderr"} -> "stop"
    [] pc = "release" -> "over"

\* The call is left by an exception; an interrupted run is recorded as failed.
Raised(c, pc) ==
  [call[c] EXCEPT !.pc = Handler(pc), !.raised = TRUE,
     !.cancelled = FALSE, !.timedout = FALSE, !.read = 0, !.status = Unset,
     !.verdict = IF Handler(pc) \in {"stop", "meta"} THEN "failed" ELSE @]

\* The call goes on as `new`, or is left when it was cancelled meanwhile.
Continue(c, new) ==
  call' = [call EXCEPT ![c] =
             IF new.cancelled THEN Raised(c, call[c].pc) ELSE new]

GoOn(c, pc) == Continue(c, [call[c] EXCEPT !.pc = pc])
Raise(c) == call' = [call EXCEPT ![c] = Raised(c, call[c].pc)]

CancelCall(c) ==
  /\ call[c].pc \notin {"idle", "over"} /\ ~call[c].cancelled /\ ~call[c].raised
  /\ Fault
  /\ call' = [call EXCEPT ![c].cancelled = TRUE]
  /\ UNCHANGED <<format, active, process, made, known, overheard, recorded, evidence>>

Interrupt(c) ==
  /\ call[c].cancelled /\ call[c].pc \in Unshielded
  /\ Raise(c)
  /\ UNCHANGED <<format, active, process, made, known, overheard, recorded,
                 evidence, faults>>

-----------------------------------------------------------------------------
(* Before the process: claim, files, guard.                                *)

\* A run that was not asked for the conversation is in it: it has made it.
BeingMade(conv) ==
  \E d \in Calls : /\ call[d].kind # "latest" /\ call[d].id # conv
                   /\ process[d].conv = conv \/ call[d].conv = conv

\* run() with a preset and ConversationSelection.parse.
Begin(c, kind, id) ==
  /\ call[c].pc = "idle" /\ \A d \in 1..(c - 1) : call[d].pc # "idle"
  /\ IF kind = "explicit" THEN id \in known ELSE id = 0
  /\ call' = [call EXCEPT ![c] = [NoCall EXCEPT !.pc = "binary", !.kind = kind,
                                    !.id = id]]
  /\ overheard' = IF kind = "explicit" /\ BeingMade(id) THEN overheard \cup {id}
                  ELSE overheard
  /\ UNCHANGED <<format, active, process, made, known, recorded,
                 evidence, faults>>

Latest == <<"latest", 0>>
Claim(c) == CASE call[c].kind = "new" -> <<"new", c>>
              [] call[c].kind = "latest" -> Latest
              [] call[c].kind = "explicit" -> <<"conversation", call[c].id>>

Conflict(claim) ==
  IF claim = Latest THEN active # {} ELSE claim \in active \/ Latest \in active

\* The pinned executable may be missing or not the pinned one.  From there to
\* the claim nothing is awaited: the registry's lock is never contended.
Acquire(c) ==
  /\ call[c].pc = "binary" /\ ~call[c].cancelled
  /\ \/ /\ ~Conflict(Claim(c))
        /\ GoOn(c, "materialize") /\ active' = active \cup {Claim(c)}
        /\ UNCHANGED faults
     \/ Conflict(Claim(c)) /\ Raise(c) /\ UNCHANGED <<active, faults>>
     \/ Raise(c) /\ Fault /\ UNCHANGED active
  /\ UNCHANGED <<format, process, made, known, overheard, recorded, evidence>>

Materialize(c) ==
  /\ call[c].pc = "materialize"
  /\ \/ GoOn(c, "guard") /\ UNCHANGED faults
     \/ Raise(c) /\ Fault
  /\ UNCHANGED <<format, active, process, made, known, overheard, recorded, evidence>>

\* _guard_recorded_prompt takes the first session that names the conversation;
\* sessions are in the order of their random ids.
GuardRecordedPrompt(c) ==
  LET revisions == {rev \in Revisions : <<call[c].id, rev>> \in recorded} IN
  /\ call[c].pc = "guard"
  /\ \/ /\ call[c].kind # "explicit" \/ Current \in revisions \/ revisions = {}
        /\ GoOn(c, "open")
     \/ /\ call[c].kind = "explicit" /\ revisions \ {Current} # {}
        /\ Raise(c)
  /\ UNCHANGED <<format, active, process, made, known, overheard, recorded,
                 evidence, faults>>

\* __aenter__ of SessionEvidence, save_metadata, and the first event.
OpenEvidence(c) ==
  /\ call[c].pc = "open"
  /\ \/ /\ GoOn(c, "metadata")
        /\ evidence' = [evidence EXCEPT ![c].open = TRUE]
        /\ UNCHANGED faults
     \/ Raise(c) /\ Fault /\ UNCHANGED evidence
  /\ UNCHANGED <<format, active, process, made, known, overheard, recorded>>

SaveMetadata(c) ==
  /\ call[c].pc = "metadata"
  /\ \/ /\ GoOn(c, "started")
        /\ evidence' = [evidence EXCEPT ![c].meta = "running"]
        /\ UNCHANGED faults
     \/ Raise(c) /\ Fault /\ UNCHANGED evidence
  /\ UNCHANGED <<format, active, process, made, known, overheard, recorded>>

EmitStarted(c) ==
  /\ call[c].pc = "started"
  /\ \/ /\ GoOn(c, "spawn")
        /\ evidence' = [evidence EXCEPT ![c].log = "started"]
        /\ UNCHANGED faults
     \/ Raise(c) /\ Fault /\ UNCHANGED evidence
  /\ UNCHANGED <<format, active, process, made, known, overheard, recorded>>

-----------------------------------------------------------------------------
(* The stream of the process.                                              *)

\* A process start that is cancelled is killed and reaped by asyncio.
Spawn(c) ==
  /\ call[c].pc = "spawn" /\ ~call[c].cancelled
  /\ \/ /\ GoOn(c, "read")
        /\ process' = [process EXCEPT ![c].state = "alive"]
        /\ UNCHANGED faults
     \/ Raise(c) /\ Fault /\ UNCHANGED process
  /\ UNCHANGED <<format, active, made, known, overheard, recorded, evidence>>

\* The envelopes are init, with the conversation's id, which session_resolved
\* shows the caller, and result.  A "text" stream has none, a "json" document is
\* only read in the end.
ReadEnvelope(c) ==
  LET p == process[c] IN
  /\ call[c].pc = "read" /\ format = "stream-json" /\ call[c].read < p.said
  /\ \/ /\ Continue(c, [call[c] EXCEPT
                          !.read = @ + 1, !.conv = p.conv,
                          !.status = IF call[c].read = 1 THEN p.status ELSE @])
        /\ known' = known \cup {p.conv}
        /\ UNCHANGED faults
     \/ Raise(c) /\ Fault /\ UNCHANGED known
  /\ UNCHANGED <<format, active, process, made, overheard, recorded, evidence>>

\* The end of stdout, unless a descendant still holds the pipe.
ReadEof(c) ==
  /\ call[c].pc = "read" /\ process[c].state = "exited" /\ process[c].end # "held"
  /\ format = "stream-json" => call[c].read = process[c].said
  /\ GoOn(c, "exit")
  /\ UNCHANGED <<format, active, process, made, known, overheard, recorded,
                 evidence, faults>>

\* stdout may be closed long before the process ends.
ReadEarlyEof(c) ==
  /\ call[c].pc = "read" /\ Alive(c) /\ process[c].said = 2
  /\ format = "stream-json" => call[c].read = 2
  /\ GoOn(c, "exit")
  /\ UNCHANGED <<format, active, process, made, known, overheard, recorded,
                 evidence, faults>>

AwaitExit(c) ==
  /\ call[c].pc = "exit" /\ process[c].state = "exited"
  /\ GoOn(c, "stderr")
  /\ UNCHANGED <<format, active, process, made, known, overheard, recorded,
                 evidence, faults>>

\* Mutant: the watchdog covers the output only.
WatchdogOnOutput(c) ==
  /\ call[c].pc = "read"
  /\ Continue(c, [call[c] EXCEPT !.pc = "terminate", !.timedout = TRUE])
  /\ UNCHANGED <<format, active, process, made, known, overheard, recorded,
                 evidence, faults>>

\* asyncio.timeout(watchdog_seconds(...)).
Watchdog(c) ==
  /\ call[c].pc \in {"read", "exit"}
  /\ Continue(c, [call[c] EXCEPT !.pc = "terminate", !.timedout = TRUE])
  /\ UNCHANGED <<format, active, process, made, known, overheard, recorded,
                 evidence, faults>>

\* _terminate_process signals, waits, kills and waits again.
Terminate(c) ==
  /\ call[c].pc \in {"terminate", "stop"}
  /\ GoOn(c, IF call[c].pc = "stop" THEN "stopped"
              ELSE IF Alive(c) THEN "reap" ELSE "stderr")
  /\ UNCHANGED <<format, active, process, made, known, overheard, recorded,
                 evidence, faults>>

\* Mutant: whoever is interrupted does not wait for the process.
ReapLater(c) ==
  /\ call[c].pc \in {"reap", "stopped"}
  /\ process' = IF call[c].pc = "stopped" THEN process
                ELSE [process EXCEPT ![c].state = "exited"]
  /\ GoOn(c, IF call[c].pc = "stopped" THEN "meta" ELSE "stderr")
  /\ UNCHANGED <<format, active, made, known, overheard, recorded, evidence, faults>>

Reap(c) ==
  /\ call[c].pc \in {"reap", "stopped"}
  /\ process' = IF call[c].pc = "stopped" THEN [process EXCEPT ![c] = NoProcess]
                ELSE [process EXCEPT ![c].state = "exited"]
  /\ GoOn(c, IF call[c].pc = "stopped" THEN "meta" ELSE "stderr")
  /\ UNCHANGED <<format, active, made, known, overheard, recorded, evidence, faults>>

\* collect_stderr ends with what has been delivered once the process is gone.
CollectStderr(c) ==
  /\ call[c].pc = "stderr"
  /\ \/ GoOn(c, "tail") /\ UNCHANGED faults
     \/ Raise(c) /\ Fault
  /\ UNCHANGED <<format, active, process, made, known, overheard, recorded, evidence>>

\* Mutant: the watchdog is looked at last.
ClassifyByExit(c, status) ==
  LET end == process[c].end IN
  CASE end \in {"clean", "held"} /\ status # "ERROR" -> "success"
    [] end = "denied" /\ status # "ERROR" -> "denied"
    [] OTHER -> IF call[c].timedout \/ end = "truncated" THEN "timeout" ELSE "failed"

\* classify_run; stderr names cut off turns and denied actions in every format.
Classify(c, status) ==
  LET end == process[c].end IN
  CASE call[c].timedout \/ end = "truncated" -> "timeout"
    [] OTHER -> CASE end \in {"failed", Unset} \/ status = "ERROR" -> "failed"
                  [] end = "denied" /\ status # "ERROR" -> "denied"
                  [] end \in {"clean", "held"} /\ status # "ERROR" -> "success"

\* What is left of the buffer, unless the watchdog stopped the run; the result.
\* Whatever _stream and its process were is gone when it returns or raises.
ReadTail(c) ==
  LET document == format = "json" /\ ~call[c].timedout /\ process[c].said = 2
      status == IF document THEN process[c].status ELSE call[c].status
  IN
  /\ call[c].pc = "tail"
  /\ \/ /\ Continue(c, [call[c] EXCEPT
                          !.pc = "meta",
                          !.timedout = FALSE, !.read = 0, !.status = Unset,
                          !.conv = IF document THEN process[c].conv ELSE @,
                          !.verdict = Classify(c, status)])
        /\ UNCHANGED faults
     \/ Raise(c) /\ Fault
  /\ process' = [process EXCEPT ![c] = NoProcess]
  /\ UNCHANGED <<format, active, made, known, overheard, recorded, evidence>>

-----------------------------------------------------------------------------
(* _finalize, or _record_failure for a run that raised: both go to their    *)
(* end before a cancellation is felt.                                      *)

\* A failing write of the last evidence replaces the run's own ending.
EvidenceBreaks(c) ==
  /\ evidence' = [evidence EXCEPT ![c].broken = TRUE]
  /\ call' = [call EXCEPT ![c].pc = "close", ![c].raised = TRUE]
  /\ Fault

\* Only _finalize puts the conversation's id into meta.json.
SaveMeta(c) ==
  /\ call[c].pc = "meta"
  /\ \/ /\ call' = [call EXCEPT ![c].pc = "result"]
        /\ evidence' = [evidence EXCEPT ![c].meta = call[c].verdict]
        /\ recorded' = IF call[c].raised \/ call[c].conv = 0 THEN recorded
                       ELSE recorded \cup {<<call[c].conv, Current>>}
        /\ UNCHANGED faults
     \/ EvidenceBreaks(c) /\ UNCHANGED recorded
  /\ UNCHANGED <<format, active, process, made, known, overheard>>

SaveResult(c) ==
  /\ call[c].pc = "result"
  /\ \/ /\ call' = [call EXCEPT ![c].pc = "events"]
        /\ evidence' = [evidence EXCEPT ![c].result = call[c].verdict]
        /\ UNCHANGED faults
     \/ EvidenceBreaks(c)
  /\ UNCHANGED <<format, active, process, made, known, overheard, recorded>>

\* run_failed, where there is an error, and run_finished.
EmitFinished(c) ==
  /\ call[c].pc = "events"
  /\ \/ /\ GoOn(c, "close")
        /\ evidence' = [evidence EXCEPT ![c].log = "finished"]
        /\ UNCHANGED faults
     \/ EvidenceBreaks(c)
  /\ UNCHANGED <<format, active, process, made, known, overheard, recorded>>

CloseEvidence(c) ==
  /\ call[c].pc = "close"
  /\ GoOn(c, "release")
  /\ evidence' = [evidence EXCEPT ![c].open = FALSE]
  /\ UNCHANGED <<format, active, process, made, known, overheard, recorded, faults>>

\* The claim goes; the caller has its result, with the conversation's id.
Release(c) ==
  /\ call[c].pc = "release"
  /\ active' = active \ {Claim(c)}
  /\ call' = [call EXCEPT ![c] = [NoCall EXCEPT !.pc = "over"]]
  /\ known' = IF call[c].raised \/ call[c].cancelled \/ call[c].conv = 0 THEN known
              ELSE known \cup {call[c].conv}
  /\ evidence' = [evidence EXCEPT ![c] = NoEvidence]
  /\ UNCHANGED <<format, process, made, overheard, recorded, faults>>

Runner(c) ==
  \/ Interrupt(c) \/ Acquire(c) \/ Materialize(c)
  \/ GuardRecordedPrompt(c) \/ OpenEvidence(c) \/ SaveMetadata(c) \/ EmitStarted(c)
  \/ Spawn(c) \/ ReadEnvelope(c) \/ ReadEof(c) \/ ReadEarlyEof(c) \/ AwaitExit(c)
  \/ Watchdog(c) \/ Terminate(c) \/ Reap(c) \/ CollectStderr(c) \/ ReadTail(c)
  \/ SaveMeta(c) \/ SaveResult(c) \/ EmitFinished(c) \/ CloseEvidence(c) \/ Release(c)

-----------------------------------------------------------------------------
(* The CLI, as the runner's flags ask for it.                              *)

\* It opens the conversation it was asked for; -c takes the latest, whichever
\* that is, and an id it does not know becomes a new conversation.
CliOpens(c, conv) ==
  /\ Alive(c) /\ process[c].conv = 0
  /\ CASE call[c].kind = "new" -> conv = made + 1
       [] call[c].kind = "latest" -> conv \in 1..made \/ (made = 0 /\ conv = 1)
       [] call[c].kind = "explicit" -> conv \in {call[c].id, made + 1}
  /\ process' = [process EXCEPT ![c].conv = conv, ![c].said = 1]
  /\ made' = IF conv > made THEN conv ELSE made
  /\ UNCHANGED <<format, active, call, known, overheard, recorded, evidence, faults>>

CliReports(c, status) ==
  /\ Alive(c) /\ process[c].said = 1
  /\ process' = [process EXCEPT ![c].said = 2, ![c].status = status]
  /\ UNCHANGED <<format, active, call, made, known, overheard, recorded,
                 evidence, faults>>

\* How it can end: cleanly, with a denied tool or with an exit code; at its own
\* print timeout, when it still exits with 0 and reports SUCCESS; or cleanly,
\* with a descendant that holds its pipes.
CliExits(c, end) ==
  /\ Alive(c)
  /\ end = "truncated" => process[c].status = "SUCCESS"
  /\ process' = [process EXCEPT ![c].state = "exited", ![c].end = end]
  /\ UNCHANGED <<format, active, call, made, known, overheard, recorded,
                 evidence, faults>>

Cli(c) ==
  \/ \E conv \in Conversations : CliOpens(c, conv)
  \/ \E status \in Reports : CliReports(c, status)
  \/ \E end \in Ends : CliExits(c, end)

-----------------------------------------------------------------------------
RunnerInit ==
  /\ format \in Formats
  /\ active = {}
  /\ call = [c \in Calls |-> NoCall]
  /\ process = [c \in Calls |-> NoProcess]
  /\ made = OldConversations
  /\ known = 1..OldConversations
  /\ overheard = {}
  /\ \E old \in Revisions : recorded = (1..OldConversations) \X {old}
  /\ evidence = [c \in Calls |-> NoEvidence]
  /\ faults = 0

RunnerNext ==
  \E c \in Calls :
    \/ \E kind \in {"new", "latest", "explicit"}, id \in Conversations \cup {0} :
         Begin(c, kind, id)
    \/ CancelCall(c) \/ Runner(c) \/ Cli(c)

RunnerSpec == RunnerInit /\ [][RunnerNext]_runnerVars

-----------------------------------------------------------------------------
(* Properties.                                                             *)

Pcs == {"idle", "binary", "materialize", "guard", "open", "metadata",
        "started", "spawn", "read", "exit", "terminate", "reap", "stderr", "tail",
        "stop", "stopped", "meta", "result", "events", "close", "release", "over"}
Verdicts == {"success", "timeout", "denied", "failed"}
CallRecords ==
  [pc : Pcs, kind : {"new", "latest", "explicit", Unset},
   id : Conversations \cup {0}, cancelled : BOOLEAN, timedout : BOOLEAN,
   read : 0..2, conv : Conversations \cup {0}, status : {"SUCCESS", "ERROR", Unset},
   verdict : Verdicts \cup {Unset}, raised : BOOLEAN]
ProcessRecords ==
  [state : {"none", "alive", "exited"}, conv : Conversations \cup {0}, said : 0..2,
   status : {"SUCCESS", "ERROR", Unset}, end : Ends \cup {Unset}]
EvidenceRecords ==
  [meta : Verdicts \cup {"running", Unset}, result : Verdicts \cup {Unset},
   log : {"none", "started", "finished"}, open : BOOLEAN, broken : BOOLEAN]

\* The state is well formed: ids are those of conversations, verdicts one of four.
TypeOK ==
  /\ format \in Formats
  /\ active \subseteq ({"new"} \X Calls) \cup ({"conversation"} \X Conversations)
                      \cup {Latest}
  /\ call \in [Calls -> CallRecords]
  /\ process \in [Calls -> ProcessRecords]
  /\ made \in 0..MaxConversations
  /\ known \subseteq Conversations
  /\ overheard \subseteq Conversations
  /\ recorded \subseteq Conversations \X Revisions
  /\ evidence \in [Calls -> EvidenceRecords]
  /\ faults \in 0..MaxFaults

\* Whatever is cancelled, times out or fails, and whenever the next call
\* comes: no process outlives its claim, and no two processes write to one
\* conversation, unless a caller has asked for it by the id that an event of the
\* run which made it had shown, before that run was over.
OneWriter ==
  \A c \in Calls : Alive(c) =>
    /\ call[c].pc # "over" /\ Claim(c) \in active
    /\ \A d \in Calls \ {c} :
         Alive(d) => Claim(d) # Claim(c) /\ (process[c].conv = process[d].conv =>
                                               process[c].conv \in overheard \cup {0})

\* When a call gives its claim back, however it is left, its log is closed, and
\* metadata, result and log tell one and the same ending, unless writing just
\* these failed.
EvidenceSettled ==
  \A c \in Calls :
    LET e == evidence[c] IN
    call[c].pc = "release" =>
      /\ ~e.open
      /\ e.meta # Unset /\ ~e.broken =>
           /\ e.meta = call[c].verdict /\ e.result = call[c].verdict
           /\ e.log = "finished"

\* A run is called a success only for a whole turn: the process has ended by
\* itself and cleanly, nothing was cut off or denied, and whatever it
\* reported of itself has been read and is SUCCESS.
SuccessIsComplete ==
  [][\A c \in Calls :
       LET p == process[c] IN
       call[c].verdict # "success" /\ call'[c].verdict = "success" =>
         /\ p.state = "exited" /\ p.end \in {"clean", "held"}
         /\ p.said = 2 /\ format # "text" =>
              /\ p.status = "SUCCESS" /\ call'[c].conv = p.conv
              /\ format = "stream-json" => call[c].read = 2]_runnerVars

\* A call never depends on the CLI to go on: when the process hangs, or leaves
\* its pipes to a descendant, the call still has a step of its own.  (These
\* steps only lead forward, so every call ends and gives its claim back.)
NeverStuck ==
  \A c \in Calls : call[c].pc \notin {"idle", "over"} => ENABLED Runner(c)
=============================================================================
