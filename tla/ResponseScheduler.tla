------------------------- MODULE ResponseScheduler -------------------------
(***************************************************************************)
(* The response scheduler of one Lifecycle fed by one RunEventStream per   *)
(* graph Run (runtime/event_stream.py).  Many Runs project frames into one *)
(* public text stream; the scheduler lets one Run at a time own the        *)
(* stream, parks an owner that stays idle, and releases frames to the      *)
(* consumer in rate-limited batches.                                       *)
(***************************************************************************)
EXTENDS ResponseSchedulerOps

CONSTANTS
  Blocks,         \* block ids "<message run>:<index>"
  AtomicTexts,    \* lengths of the texts rendered for whole events
  StartShapes,    \* <<text, segment_end_text>> lengths rendered for a block
  FinishTexts,    \* lengths rendered for content-block-finish
  MaxFrames       \* bound: frames each Run may project

ASSUME AlphabetAssumption ==
  /\ MaxFrames \in [Runs -> Nat]
  /\ AtomicTexts \subseteq Nat \ {0}
  /\ StartShapes \subseteq Nat \X Nat
  /\ FinishTexts \subseteq Nat
  /\ None \notin Blocks

VARIABLES
  sch,     \* the LifecycleResponseScheduler
  known,   \* known[r]: RunEventStream._blocks, block id -> segment_end_text
  sent,    \* frames the response consumer has taken, in order
  history  \* history[r]: the frames Run r has published, in order

vars == <<sch, known, sent, history>>

-----------------------------------------------------------------------------
(* RunEventStream.consume: which frames a Run can project next.            *)

Frame(r, phase, b, text, end) ==
  [phase |-> phase, block |-> b, text |-> text, end |-> end,
   src |-> Len(history[r]) + 1]

Publish(r, f) ==
  /\ Accepting(sch, r)
  /\ Len(history[r]) < MaxFrames[r]
  /\ sch' = PublishIn(sch, r, f)
  /\ history' = [history EXCEPT ![r] = Append(@, f)]
  /\ UNCHANGED sent

\* A whole event: lifecycle events, whole messages, media notifications.
ProjectAtomic(r) ==
  \E text \in AtomicTexts :
    /\ Publish(r, Frame(r, "atomic", None, text, 0))
    /\ UNCHANGED known

\* content-block-start, which may reuse the id of a block still known.
ContentBlockStart(r) ==
  \E b \in Blocks, shape \in StartShapes :
    /\ Publish(r, Frame(r, "start", b, shape[1], shape[2]))
    /\ known' = [known EXCEPT ![r] = Put(@, b, shape[2])]

\* content-block-delta: blank deltas project no frame.
ContentBlockDelta(r) ==
  \E b \in DOMAIN known[r] :
    /\ Publish(r, Frame(r, "delta", b, 1, 0))
    /\ UNCHANGED known

\* content-block-finish, and message-finish for each block still known.
ContentBlockFinish(r) ==
  \E b \in DOMAIN known[r], text \in FinishTexts :
    /\ Publish(r, Frame(r, "finish", b,
                        IF text > 0 THEN text ELSE known[r][b], 0))
    /\ known' = [known EXCEPT ![r] = [x \in DOMAIN @ \ {b} |-> @[x]]]

\* A message "error" event forgets the blocks of its message without projecting
\* a finish; the event itself may render to a text or to none.
MessageError(r) ==
  \E gone \in SUBSET DOMAIN known[r] :
    /\ gone # {}
    /\ known' = [known EXCEPT ![r] = [x \in DOMAIN @ \ gone |-> @[x]]]
    /\ \/ UNCHANGED <<sch, sent, history>>
       \/ \E text \in AtomicTexts :
            Publish(r, Frame(r, "atomic", None, text, 0))

-----------------------------------------------------------------------------
(* The remaining callers of the scheduler.                                 *)

RegisterRun(r) ==
  /\ ~sch.finished /\ r \notin sch.runs
  /\ sch' = RegisterRunIn(sch, r)
  /\ UNCHANGED <<known, sent, history>>

\* RunExecution closes the event stream, then ends the Run's output.
FinishRun(r) ==
  /\ r \in sch.runs /\ ~sch.out[r].terminal
  /\ sch' = FinishRunIn(sch, r)
  /\ known' = [known EXCEPT ![r] = <<>>]
  /\ UNCHANGED <<sent, history>>

ConsumerAwake == ~sch.finished /\ (sch.wakeup \/ DeadlineReached(sch))

\* The consumer reacts to a deadline or to a wakeup.
AdvancePublished ==
  /\ ConsumerAwake
  /\ sch' = AdvancePublishedIn(ClearWakeupIn(sch))
  /\ UNCHANGED <<known, sent, history>>

TakePublished ==
  /\ sch.published # <<>>
  /\ sent' = sent \o sch.published
  /\ sch' = TakePublishedIn(sch)
  /\ UNCHANGED <<known, history>>

\* The consumer seals the response as soon as it finds it complete.
Finish ==
  /\ ~sch.finished /\ ResponseComplete(sch) /\ CanFinish(sch)
  /\ sent' = sent \o FinishOutput(sch)
  /\ sch' = FinishIn(sch)
  /\ UNCHANGED <<known, history>>

Tick ==
  /\ sch' = TickIn(sch) /\ sch' # sch
  /\ UNCHANGED <<known, sent, history>>

Init ==
  /\ sch = NewScheduler
  /\ known = [r \in Runs |-> <<>>]
  /\ sent = <<>>
  /\ history = [r \in Runs |-> <<>>]

Next ==
  \/ \E r \in Runs :
       \/ RegisterRun(r) \/ FinishRun(r)
       \/ ProjectAtomic(r) \/ ContentBlockStart(r) \/ ContentBlockDelta(r)
       \/ ContentBlockFinish(r) \/ MessageError(r)
  \/ AdvancePublished \/ TakePublished \/ Finish \/ Tick

\* The consumer's task is scheduled again whenever it is ready, and time
\* passes; nothing is assumed of the Runs that produce frames.  The first
\* conjunct is WF_vars(AdvancePublished): the action is enabled, and changes
\* the state, exactly when ConsumerAwake holds.
Fairness ==
  /\ []<>~ConsumerAwake \/ []<><<AdvancePublished>>_vars
  /\ WF_vars(TakePublished)
  /\ WF_vars(Finish) /\ WF_vars(Tick)

Spec == Init /\ [][Next]_vars /\ Fairness
-----------------------------------------------------------------------------
(* Properties.                                                             *)

PublicFrame ==
  [run : Runs, phase : {"start", "delta", "finish", "atomic"},
   block : Blocks \cup {None}, text : Nat, src : Nat]

\* Every field of the scheduler keeps the type its dataclass declares, no
\* time left goes negative, and no Run is queued that never registered.
TypeOK ==
  /\ sch.runs \subseteq Runs
  /\ sch.owner \in sch.runs \cup {None}
  /\ sch.ownerLeft \in (0..IdleTimeout) \cup {None}
  /\ (sch.owner = None) = (sch.ownerLeft = None)
  /\ sch.batchLeft \in 0..SendInterval
  /\ sch.ready \in Seq(sch.runs)
  /\ sch.pendingFrames \in Seq(PublicFrame)
  /\ sch.published \in Seq(PublicFrame)
  /\ \A r \in Runs : /\ sch.out[r].openBlock \in Blocks \cup {None}
                     /\ DOMAIN sch.out[r].blocks \subseteq Blocks

\* Everything emitted so far, whether or not it has left the scheduler.
Stream == sent \o sch.published \o sch.pendingFrames

\* The segment that is open before and after a frame, or <<>>.
OpenBefore(f) == IF f.phase \in {"delta", "finish"} THEN <<f.run, f.block>> ELSE <<>>
OpenAfter(f) == IF f.phase \in {"start", "delta"} THEN <<f.run, f.block>> ELSE <<>>

OpenAtEnd(frames) == IF frames = <<>> THEN <<>> ELSE OpenAfter(frames[Len(frames)])
Bracketed(frames) ==
  \A i \in DOMAIN frames :
    OpenBefore(frames[i]) = IF i = 1 THEN <<>> ELSE OpenAfter(frames[i - 1])

\* The segment of the stream's owner that is open.
HeldOpen(s) ==
  IF s.owner = None \/ s.out[s.owner].openBlock = None THEN <<>>
  ELSE <<s.owner, s.out[s.owner].openBlock>>

\* What response_scheduler.py serialises is a well-bracketed text: at most one
\* segment of one Run is open at a time, whatever the Runs interleave and
\* whenever an owner idles out, and the segment that is still open at the end
\* of the stream is the one the current owner holds open.
SegmentsNeverInterleave == Bracketed(Stream) /\ OpenAtEnd(Stream) = HeldOpen(sch)

\* Frames that carry text of their own, and their numbers among those of a Run.
Carrying(f) == f.text > 0 /\ f.phase # "start"
Carried(frames) == {frames[i].src : i \in {i \in DOMAIN frames : Carrying(frames[i])}}

Emitted(frames, r) == {i \in DOMAIN frames : frames[i].run = r /\ frames[i].src > 0}
EmittedBy(r) == {Stream[i].src : i \in Emitted(Stream, r)}

\* A Run's texts are shown in their order, each once, and what is still to be
\* shown comes after them.
ShownInOrder(r) ==
  /\ \A i, j \in Emitted(Stream, r) : i < j => Stream[i].src < Stream[j].src
  /\ \A n \in EmittedBy(r), m \in Carried(sch.out[r].pending) : n < m

\* Parking, resuming, ending and batching never lose, repeat or reorder a
\* Run's text: what a Run published is what the stream shows of it, in the
\* Run's order and once, followed by what it still has pending.
TextConserved ==
  \A r \in Runs :
    /\ Carried(history[r]) = EmittedBy(r) \cup Carried(sch.out[r].pending)
    /\ ShownInOrder(r)

\* _expire_owner hands the stream over: a Run that waits with text gets its
\* turn once the owner has been idle for the timeout, or ends.
WaitingRunGetsTurn ==
  \A r \in Runs : (r \in sch.readySet) ~> (r \notin sch.readySet)

\* Once every registered Run is terminal, the response drains and is sealed.
TerminalRunsSeal ==
  AllRunsTerminal(sch) ~> (sch.finished \/ ~AllRunsTerminal(sch))

\* Nothing that a Run wants to say waits for ever: the Run gets the stream, and
\* when all have ended, whatever they left behind, the response drains and seals.
EverythingIsSaid == WaitingRunGetsTurn /\ TerminalRunsSeal

\* The sealed response shows every piece of text that was published.
SealedResponseComplete ==
  sch.finished => \A r \in Runs : /\ EmittedBy(r) = Carried(history[r])
                                  /\ sch.pendingFrames = <<>>
                                  /\ sch.published = <<>>

=============================================================================
