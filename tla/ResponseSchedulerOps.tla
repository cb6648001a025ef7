------------------------ MODULE ResponseSchedulerOps ------------------------
(***************************************************************************)
(* LifecycleResponseScheduler (runtime/response_scheduler.py) as operators *)
(* on its state.  No method of the class awaits, so each one is a function *)
(* from the scheduler's state to its next state; the modules that extend   *)
(* this one make every call an atomic action.                              *)
(*                                                                         *)
(* Text is abstracted to its length in bytes, 0 being the empty string.    *)
(* Clock readings are abstracted to the time left before a deadline:       *)
(* "now >= deadline" is "time left = 0", and TickIn lets time pass.  The   *)
(* continuation flag and the close reason of a frame are left out: nothing *)
(* reads them.  So is the phase "abort", which no caller produces.         *)
(***************************************************************************)
EXTENDS Integers, Sequences, FiniteSets, SequencesExt

CONSTANTS
  Runs,           \* keys (thread_id, run_id) of the Runs of this Lifecycle
  None,           \* Python's None
  IdleTimeout,    \* policy.idle_timeout_seconds, in ticks
  SendInterval,   \* policy.send_interval_seconds, in ticks
  MaxBatchBytes   \* policy.max_batch_kb * 1024

ASSUME PolicyAssumption ==
  /\ IdleTimeout \in Nat \ {0}
  /\ SendInterval \in Nat
  /\ MaxBatchBytes \in Nat \ {0}
  /\ None \notin Runs \cup Nat

NoBlocks == [b \in {} |-> <<0, 0>>]

NewRunOutput ==
  [pending |-> <<>>, blocks |-> NoBlocks, openBlock |-> None,
   terminal |-> FALSE, parked |-> FALSE]

NewScheduler ==
  [runs |-> {}, out |-> [r \in Runs |-> NewRunOutput],
   ready |-> <<>>, readySet |-> {}, owner |-> None, ownerLeft |-> None,
   pendingFrames |-> <<>>, published |-> <<>>, batchLeft |-> 0,
   wakeup |-> FALSE, finished |-> FALSE]

-----------------------------------------------------------------------------
(* Emission.  A public frame remembers the Run that produced it and, when  *)
(* its text is that of a projected frame, the frame's number (src).        *)

Emit(s, r, phase, b, text, src) ==
  [s EXCEPT !.pendingFrames =
     Append(@, [run |-> r, phase |-> phase, block |-> b,
                text |-> text, src |-> src])]

EmitText(s, r, phase, b, f) ==
  IF f.text = 0 THEN s ELSE Emit(s, r, phase, b, f.text, f.src)

OpenSegment(s, r, b) ==
  [Emit(s, r, "start", b, s.out[r].blocks[b][1], 0)
     EXCEPT !.out[r].openBlock = b]

ClosePublicSegment(s, r) ==
  LET b == s.out[r].openBlock
      closed == IF b \in DOMAIN s.out[r].blocks
                THEN Emit(s, r, "finish", b, s.out[r].blocks[b][2], 0)
                ELSE s
  IN  IF b = None THEN s ELSE [closed EXCEPT !.out[r].openBlock = None]

Resume(s, r, b) ==
  IF s.out[r].openBlock = b THEN s
  ELSE OpenSegment(ClosePublicSegment(s, r), r, b)

Put(table, b, v) == [x \in DOMAIN table \cup {b} |-> IF x = b THEN v ELSE table[x]]

PresentStart(s, r, f) ==
  OpenSegment([ClosePublicSegment(s, r) EXCEPT
                 !.out[r].blocks = Put(@, f.block, <<f.text, f.end>>)],
              r, f.block)

ForgetBlock(s, r, b) ==
  [s EXCEPT !.out[r].blocks = [x \in DOMAIN @ \ {b} |-> @[x]]]

CloseFinished(s, r, b, text, src) ==
  IF s.out[r].openBlock # b THEN s
  ELSE [Emit(s, r, "finish", b, text, src) EXCEPT !.out[r].openBlock = None]

\* A closing text of its own reopens the block; without one a block that is
\* not open finishes in silence.
PresentFinish(s, r, f) ==
  ForgetBlock(IF f.text > 0
              THEN CloseFinished(Resume(s, r, f.block), r, f.block, f.text, f.src)
              ELSE CloseFinished(s, r, f.block, s.out[r].blocks[f.block][2], 0),
              r, f.block)

BlockKnown(s, r, f) == f.block \in DOMAIN s.out[r].blocks

Present(s, r, f) ==
  CASE f.phase = "atomic" ->
         EmitText(ClosePublicSegment(s, r), r, "atomic", None, f)
    [] f.phase = "start" -> PresentStart(s, r, f)
    [] f.phase \in {"delta", "finish"} /\ ~BlockKnown(s, r, f) ->
         EmitText(s, r, "atomic", None, f)
    [] f.phase = "delta" /\ BlockKnown(s, r, f) ->
         EmitText(Resume(s, r, f.block), r, "delta", f.block, f)
    [] f.phase = "finish" /\ BlockKnown(s, r, f) -> PresentFinish(s, r, f)

-----------------------------------------------------------------------------
(* Ownership of the public stream.                                         *)

FrameCanEmit(f) == f.text > 0 \/ f.end > 0

PendingCanEmit(s, r) ==
  \E i \in DOMAIN s.out[r].pending : FrameCanEmit(s.out[r].pending[i])

EnqueueReady(s, r) ==
  IF r = s.owner \/ r \in s.readySet THEN s
  ELSE [s EXCEPT !.ready = Append(@, r), !.readySet = @ \cup {r}]

\* A Run is queued at most once.
RemoveReady(s, r) ==
  [s EXCEPT !.ready = RemoveFirst(@, r), !.readySet = @ \ {r}]

ReleaseOwner(s) == [s EXCEPT !.owner = None, !.ownerLeft = None]

\* The idle deadline restarts only when presenting a frame emitted text.
RestartIdle(s, emitted) ==
  IF \E i \in Len(s.pendingFrames) + 1 .. Len(emitted.pendingFrames) :
       emitted.pendingFrames[i].text > 0
  THEN [emitted EXCEPT !.ownerLeft = IdleTimeout] ELSE emitted

PresentNext(s, r) ==
  RestartIdle(s, Present([s EXCEPT !.out[r].pending = Tail(@)], r,
                         Head(s.out[r].pending)))

\* drained[n] is the scheduler when n frames have left the owner's queue.
DrainOwner(s) ==
  LET frames == Len(s.out[s.owner].pending)
      drained[n \in 0 .. frames] ==
        IF n = 0 THEN s ELSE PresentNext(drained[n - 1], s.owner)
  IN  IF s.owner = None THEN s ELSE drained[frames]

FinishOwner(s) ==
  IF s.owner = None THEN s
  ELSE ReleaseOwner([ClosePublicSegment(s, s.owner) EXCEPT
                       !.out[s.owner].blocks = NoBlocks])

\* Mutant: an expired owner keeps its public segment open.
ExpireOwnerLeavingOpen(s) ==
  IF s.owner = None \/ s.ownerLeft # 0 THEN s
  ELSE ReleaseOwner([s EXCEPT !.out[s.owner].parked = ~@])

ExpireOwner(s) ==
  IF s.owner = None \/ s.ownerLeft # 0 THEN s
  ELSE ReleaseOwner([ClosePublicSegment(s, s.owner) EXCEPT
                       !.out[s.owner].parked = ~s.out[s.owner].terminal])

PopReady(s, r) == [s EXCEPT !.ready = Tail(@), !.readySet = @ \ {r}]

TakeStream(s, r) ==
  DrainOwner([s EXCEPT !.owner = r, !.ownerLeft = IdleTimeout])

FinishIfTerminal(s, r) == IF s.out[r].terminal THEN FinishOwner(s) ELSE s

\* One turn of the loop: the head of the ready queue becomes the owner.
AdmitReady(s, r) ==
  IF s.out[r].terminal /\ s.out[r].pending = <<>>
  THEN [PopReady(s, r) EXCEPT !.out[r].blocks = NoBlocks]
  ELSE FinishIfTerminal(TakeStream(PopReady(s, r), r), r)

AdmitNext(s) ==
  IF s.owner = None /\ s.ready # <<>> THEN AdmitReady(s, Head(s.ready)) ELSE s

\* assigned[n] is the scheduler after n turns.
AssignOwner(s) ==
  LET assigned[n \in 0 .. Len(s.ready)] ==
        IF n = 0 THEN s ELSE AdmitNext(assigned[n - 1])
  IN  assigned[Len(s.ready)]

-----------------------------------------------------------------------------
(* Batches.                                                                *)

TextBytes(q) == FoldLeft(LAMBDA n, f : n + f.text, 0, q)

\* Frames in the next batch: at least one, then as many as the limit allows.
BatchLength(q) ==
  Max({1} \cup {k \in 1..Len(q) : TextBytes(SubSeq(q, 1, k)) <= MaxBatchBytes})

PublishBatch(s, n) ==
  [s EXCEPT !.published = @ \o SubSeq(s.pendingFrames, 1, n),
            !.pendingFrames = SubSeq(@, n + 1, Len(@))]

\* Only a batch with text starts a new send interval.
TakeBatch(s, n) ==
  [PublishBatch(s, n) EXCEPT
     !.batchLeft = IF TextBytes(SubSeq(s.pendingFrames, 1, n)) = 0 THEN @
                   ELSE SendInterval]

TakeDueBatch(s, force) ==
  IF s.pendingFrames = <<>> \/ (~force /\ s.batchLeft > 0) THEN s
  ELSE TakeBatch(s, BatchLength(s.pendingFrames))

Wake(s) == [s EXCEPT !.wakeup = TRUE]

-----------------------------------------------------------------------------
(* The public methods.                                                     *)

AllRunsTerminal(s) == s.runs # {} /\ \A r \in s.runs : s.out[r].terminal

NothingQueued(s) ==
  /\ s.owner = None /\ s.ready = <<>>
  /\ \A r \in s.runs : s.out[r].pending = <<>>

\* Mutant: frames that wait for their batch do not hold the seal back.
ResponseCompleteWithBatchLeft(s) ==
  AllRunsTerminal(s) /\ NothingQueued(s) /\ s.published = <<>>

ResponseComplete(s) ==
  /\ AllRunsTerminal(s) /\ NothingQueued(s)
  /\ s.pendingFrames = <<>> /\ s.published = <<>>

Accepting(s, r) == ~s.finished /\ r \in s.runs /\ ~s.out[r].terminal

\* The deadline next_deadline() reports has been reached.
DeadlineReached(s) ==
  \/ s.owner # None /\ s.ownerLeft = 0
  \/ s.pendingFrames # <<>> /\ s.batchLeft = 0

HasDeadline(s) == s.owner # None \/ s.pendingFrames # <<>>

RegisterRunIn(s, r) == Wake([s EXCEPT !.runs = @ \cup {r}])

QueueFrame(s, r, f) ==
  LET appended == [s EXCEPT !.out[r].pending = Append(@, f)]
  IN  IF ~FrameCanEmit(f) THEN appended
      ELSE EnqueueReady([appended EXCEPT !.out[r].parked = FALSE], r)

DrainIfOwner(s, r) == IF s.owner = r THEN DrainOwner(s) ELSE s

\* _expire_owner, _assign_owner and _take_due_batch, in this order.
Advance(s, force) == TakeDueBatch(AssignOwner(ExpireOwner(s)), force)

PublishIn(s, r, f) ==
  Wake(Advance(DrainIfOwner(AssignOwner(QueueFrame(s, r, f)), r), FALSE))

\* Mutant: a Run that ends off the stream loses the text it had queued.
SettleDroppingPending(s, r) ==
  [RemoveReady(s, r) EXCEPT !.out[r].pending = <<>>, !.out[r].blocks = NoBlocks]

\* Mutant: blank frames of a Run that ends off the stream are never dropped.
SettleKeepingBlanks(s, r) ==
  IF PendingCanEmit(s, r) THEN EnqueueReady(s, r) ELSE RemoveReady(s, r)

\* A Run that ends while it does not own the stream: its text waits its turn.
SettleOffStream(s, r) ==
  IF PendingCanEmit(s, r) THEN EnqueueReady(s, r)
  ELSE [RemoveReady(s, r) EXCEPT
          !.out[r].pending = <<>>, !.out[r].blocks = NoBlocks]

EndRun(s, r) == [s EXCEPT !.out[r].terminal = TRUE, !.out[r].parked = FALSE]

SettleRun(s, r) ==
  IF s.owner = r THEN TakeDueBatch(FinishOwner(DrainOwner(s)), TRUE)
  ELSE SettleOffStream(s, r)

\* "aborted" only words the close reason, so both endings are this one.
FinishRunIn(s, r) ==
  Wake(TakeDueBatch(AssignOwner(SettleRun(EndRun(s, r), r)), FALSE))

AdvancePublishedIn(s) == IF s.finished THEN s ELSE Advance(s, FALSE)

TakePublishedIn(s) == [s EXCEPT !.published = <<>>]

ClearWakeupIn(s) == [s EXCEPT !.wakeup = FALSE]

\* finish() seals a drained scheduler; its two RuntimeErrors are the cases
\* this guard excludes.
CanFinish(s) == AllRunsTerminal(s) /\ NothingQueued(AssignOwner(ExpireOwner(s)))

FinishIn(s) ==
  Wake([Advance(s, TRUE) EXCEPT !.published = <<>>, !.finished = TRUE])

FinishOutput(s) == Advance(s, TRUE).published

\* The passing of one tick of the event loop's clock.
TickIn(s) ==
  [s EXCEPT !.ownerLeft = IF @ = None \/ @ = 0 THEN @ ELSE @ - 1,
            !.batchLeft = IF @ = 0 THEN @ ELSE @ - 1]

=============================================================================
