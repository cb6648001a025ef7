--------------------- MODULE LifecycleCoordinatorProofs ---------------------
(***************************************************************************)
(* Theorems of LifecycleCoordinator for any number of calls and faults, any *)
(* operations, targets and policies.  Six inductive invariants build on   *)
(* each other: IInv, what each call may have done by the await it stands   *)
(* at, so that neither a disconnect nor a failed start leaves a Run        *)
(* behind; OpInv, one Run per operation; HistoryInv, where a call's answers *)
(* come from; StreamInv and ThreadInv, who has a session and who waits to  *)
(* release it; WaitInv, who still awaits a graph.                          *)
(***************************************************************************)
EXTENDS LifecycleCoordinator, TLAPS

\* Where a call stands before it has asked the Agent Server for a Run.
Early == {"idle", "waiting", "lookup", "existing", "opening", "threading",
          "attaching", "starting"}

\* How far a call has come fixes what its binding knows: a key once it has
\* begun, no Run before the start, a Thread for every named Run.
Path(c) ==
  /\ call[c].pc # "idle" => call[c].key \in Keys
  /\ call[c].pc \in Early =>
       run[c] = "none" /\ ~call[c].named /\ c \notin relations
  /\ call[c].pc = "waiting" => call[c].owner \in Calls
  /\ call[c].pc \in {"attaching", "starting"} => call[c].thread \in Calls
  /\ call[c].named => call[c].thread \in Calls
  /\ call[c].pc \in {"recording", "applying", "readying", "fetching", "cancelling"} =>
       call[c].named

\* DisconnectReachesEveryRun and FailedStartLeavesNoRun, of one call.
Reached(c) ==
  c \in relations /\ disconnected /\ call[c].target \notin Continue /\ ActiveRun(c) =>
    \/ c \in todo
    \/ call[c].pc \in {"applying", "cancelling"}
    \/ {<<"cancel", c>>, <<"cut", c>>} \cap faults # {}

CleanedUp(c) ==
  call[c].pc \in {"closing", "releasing", "failed"} /\ call[c].named =>
    ~ActiveRun(c) \/ {<<"cancel", c>>, <<"cut", c>>} \cap faults # {}

CallInv(c) == Path(c) /\ Reached(c) /\ CleanedUp(c)

IInv == TypeOK /\ \A c \in Calls : CallInv(c)

-----------------------------------------------------------------------------
\* What a call was asked for stays; so does all but ready and consumer.
Asks(k, l) == k.key = l.key /\ k.by = l.by /\ k.target = l.target /\ k.want = l.want

Agree(k, l) ==
  /\ Asks(k, l) /\ k.pc = l.pc /\ k.owner = l.owner /\ k.thread = l.thread
  /\ k.named = l.named /\ k.handle = l.handle /\ k.result = l.result

\* Resolving futures changes no other field of a call.
SameButReady(cs, ds) ==
  /\ ds \in [Calls -> CallRecords]
  /\ \A c \in Calls : Agree(cs[c], ds[c])

LEMMA NoneIsNoCall == None \notin Calls
BY CoordinatorAssumption DEF Calls

\* Resolving the ready future of a call, or of no call, only touches ready.
LEMMA ResolvingOnlyReady ==
  ASSUME NEW cs \in [Calls -> CallRecords], NEW c, NEW v \in {"ok", "error"}
  PROVE  SameButReady(cs, [cs EXCEPT ![c].ready = IF @ = "unset" THEN v ELSE @])
<1> DEFINE value == IF cs[c].ready = "unset" THEN v ELSE cs[c].ready
           new == [cs[c] EXCEPT !.ready = value]
           ds == [cs EXCEPT ![c].ready = IF @ = "unset" THEN v ELSE @]
<1>1. CASE c \notin Calls
  <2>1. ds = cs
    BY <1>1
  <2> QED BY <2>1 DEF SameButReady, Agree, Asks
<1>2. CASE c \in Calls
  <2>1. cs[c] \in CallRecords
    BY <1>2
  <2>2. value \in {"unset", "ok", "error"}
    BY <2>1 DEF CallRecords
  <2>3. new \in CallRecords
    BY <2>1, <2>2 DEF CallRecords
  <2>4. Agree(cs[c], new)
    BY <2>1 DEF CallRecords, Agree, Asks
  <2>5. ds = [cs EXCEPT ![c] = new]
    OBVIOUS
  <2> HIDE DEF new
  <2> QED BY <2>3, <2>4, <2>5 DEF SameButReady, Agree, Asks
<1> QED BY <1>1, <1>2

LEMMA FailReadyOnlyReady ==
  ASSUME NEW cs \in [Calls -> CallRecords], NEW c
  PROVE  SameButReady(cs, FailReady(cs, c))
BY ResolvingOnlyReady DEF FailReady

LEMMA CancelTellsOnlyReady ==
  ASSUME NEW cs \in [Calls -> CallRecords], NEW r
  PROVE  /\ SameButReady(cs, AbortFactory(cs, r))
         /\ SameButReady(cs, TellStarter(AbortFactory(cs, r), r))
<1> DEFINE mid == AbortFactory(cs, r)
<1>1. SameButReady(cs, cs)
  BY DEF SameButReady, Agree, Asks
<1>2. SameButReady(cs, mid)
  BY <1>1, FailReadyOnlyReady DEF AbortFactory
<1>3. mid \in [Calls -> CallRecords]
  BY <1>2 DEF SameButReady
<1>4. SameButReady(mid, FailReady(mid, r))
  BY <1>3, FailReadyOnlyReady
<1> HIDE DEF mid
<1>5. SameButReady(mid, mid)
  BY <1>3 DEF SameButReady, Agree, Asks
<1>6. SameButReady(mid, TellStarter(mid, r))
  BY <1>4, <1>5 DEF TellStarter
<1>7. SameButReady(cs, TellStarter(mid, r))
  BY <1>2, <1>6 DEF SameButReady, Agree, Asks
<1> QED BY <1>2, <1>7 DEF mid

\* What cancel_official_run guarantees: the Run is over, or its failure is on
\* record; nothing else is started, and calls only change their ready future.
CancelEffect(r, cs) ==
  /\ SameButReady(cs, call')
  /\ run' \in [Calls -> RunStatuses]
  /\ \A c \in Calls : run'[c] = run[c] \/ (c = r /\ ActiveRun(r) /\ run'[c] = "cancelled")
  /\ run'[r] \in {"none", "ended", "cancelled"} \/ <<"cancel", r>> \in faults'
  /\ faults \subseteq faults'

LEMMA CancelReaches ==
  ASSUME TypeOK, NEW r \in Calls, NEW cs \in [Calls -> CallRecords],
         CancelOfficialRun(r, cs)
  PROVE  CancelEffect(r, cs)
<1>1. SameButReady(cs, cs)
  BY DEF SameButReady, Agree, Asks
<1>2. CASE ActiveRun(r) /\ UNCHANGED faults
           /\ run' = [run EXCEPT ![r] = "cancelled"]
           /\ call' = TellStarter(AbortFactory(cs, r), r)
  BY <1>2, CancelTellsOnlyReady DEF CancelEffect, TypeOK, RunStatuses
<1>3. CASE ~ActiveRun(r) /\ UNCHANGED faults /\ run' = run /\ call' = cs
  BY <1>1, <1>3 DEF CancelEffect, TypeOK, RunStatuses, ActiveRun
<1>4. CASE call' = cs /\ Fault("cancel", r) /\ UNCHANGED run
  BY <1>1, <1>4 DEF CancelEffect, TypeOK, Fault
<1>5. CASE ActiveRun(r) /\ Fault("unheard", r)
           /\ run' = [run EXCEPT ![r] = "cancelled"] /\ call' = AbortFactory(cs, r)
  BY <1>5, CancelTellsOnlyReady DEF CancelEffect, TypeOK, RunStatuses, Fault
<1> QED BY <1>2, <1>3, <1>4, <1>5 DEF CancelOfficialRun

-----------------------------------------------------------------------------
\* What a step may do to a call that is not its own: resolve its ready future,
\* move its Run on or end it, and drop it from todo when that is settled.
Bystander(d) ==
  /\ Agree(call[d], call'[d])
  /\ run[d] = "none" => run'[d] = "none"
  /\ ActiveRun(d)' => ActiveRun(d)
  /\ d \in relations' <=> d \in relations
  /\ d \in todo =>
       d \in todo' \/ ~ActiveRun(d)' \/ {<<"cancel", d>>, <<"cut", d>>} \cap faults' # {}

LEMMA BystandersKeep ==
  ASSUME NEW d \in Calls, CallInv(d), Bystander(d),
         disconnected' = disconnected, faults \subseteq faults'
  PROVE  CallInv(d)'
BY DEF Bystander, Agree, Asks, CallInv, Path, Reached, CleanedUp, ActiveRun

\* A step of call c keeps the invariant when it keeps the types and c's part.
LEMMA StepKeeps ==
  ASSUME IInv, NEW c, TypeOK', \A d \in Calls \ {c} : Bystander(d),
         disconnected' = disconnected, faults \subseteq faults',
         c \in Calls => CallInv(c)'
  PROVE  IInv'
BY BystandersKeep DEF IInv

\* The same when the step changes the record of no other call.
LEMMA MoveKeeps ==
  ASSUME IInv, NEW c \in Calls, NEW new \in CallRecords,
         call' = [call EXCEPT ![c] = new],
         TypeOK => TypeOK', CallInv(c)',
         \A d \in Calls \ {c} : run'[d] = run[d] /\ (d \in relations' <=> d \in relations),
         todo' = todo, disconnected' = disconnected, faults \subseteq faults'
  PROVE  IInv'
<1>1. \A d \in Calls \ {c} : Bystander(d)
  BY DEF IInv, TypeOK, Bystander, Agree, Asks, ActiveRun
<1> QED BY <1>1, StepKeeps DEF IInv

\* What Raise does.
RaiseEffect(c) ==
  /\ call' \in [Calls -> CallRecords]
  /\ call'[c].pc = IF call[c].named THEN "cancelling" ELSE "closing"
  /\ Asks(call[c], call'[c])
  /\ call'[c].handle = IF call[c].handle = "unset" THEN "failed" ELSE call[c].handle
  /\ call'[c].ready = IF call[c].ready = "unset" THEN "error" ELSE call[c].ready
  /\ call'[c].owner = call[c].owner /\ call'[c].thread = call[c].thread
  /\ call'[c].named = call[c].named /\ call'[c].result = call[c].result
  /\ call'[c].consumer = call[c].consumer
  /\ \A d \in Calls \ {c} : call'[d] = call[d]
  /\ bindings' \in [Keys -> Calls \cup {None}]

\* The record of a call that raises.
LEMMA Failed ==
  ASSUME NEW k \in CallRecords, NEW p \in Pcs, NEW h \in {"unset", "set", "failed"},
         NEW r \in {"unset", "ok", "error"}
  PROVE  [k EXCEPT !.pc = p, !.handle = h, !.ready = r] \in CallRecords
BY ZenonT(60) DEF CallRecords

LEMMA RaiseDoes ==
  ASSUME IInv, NEW c \in Calls, call[c].pc # "idle", Raise(c)
  PROVE  RaiseEffect(c)
<1> DEFINE pc == IF call[c].thread # None /\ call[c].named THEN "cancelling" ELSE "closing"
           handle == IF call[c].handle = "unset" THEN "failed" ELSE call[c].handle
           ready == IF call[c].ready = "unset" THEN "error" ELSE call[c].ready
           new == [call[c] EXCEPT !.pc = pc, !.handle = handle, !.ready = ready]
<1>1. call[c] \in CallRecords
  BY DEF IInv, TypeOK
<1>2. /\ pc \in Pcs /\ handle \in {"unset", "set", "failed"}
      /\ ready \in {"unset", "ok", "error"}
  BY <1>1 DEF CallRecords, Pcs
<1>3. pc = IF call[c].named THEN "cancelling" ELSE "closing"
  BY NoneIsNoCall DEF IInv, CallInv, Path
<1>4. call' = [call EXCEPT ![c] = new]
  BY DEF Raise
<1>5. bindings' \in [Keys -> Calls \cup {None}]
  BY DEF Raise, IInv, TypeOK
<1>8. /\ handle = IF call[c].handle = "unset" THEN "failed" ELSE call[c].handle
      /\ ready = IF call[c].ready = "unset" THEN "error" ELSE call[c].ready
  OBVIOUS
<1> HIDE DEF pc, handle, ready
<1>6. new \in CallRecords
  BY <1>1, <1>2, Failed
<1>7. /\ new.pc = pc /\ new.handle = handle /\ new.ready = ready /\ Asks(call[c], new)
      /\ new.owner = call[c].owner /\ new.thread = call[c].thread /\ new.named = call[c].named
      /\ new.result = call[c].result /\ new.consumer = call[c].consumer
  BY <1>1 DEF CallRecords, Asks
<1> HIDE DEF new
<1> QED BY <1>3, <1>4, <1>5, <1>6, <1>7, <1>8 DEF RaiseEffect, Asks, IInv, TypeOK

\* A step that raises keeps the invariant, wherever the start stands.
LEMMA RaiseKeeps ==
  ASSUME IInv, NEW c \in Calls, call[c].pc # "idle", Raise(c),
         run' \in [Calls -> RunStatuses], factory' = factory,
         \A d \in Calls : run'[d] = run[d] \/ (d = c /\ call[c].pc = "starting"),
         store \subseteq store', store' \subseteq Calls, faults \subseteq faults'
  PROVE  IInv'
<1>1. RaiseEffect(c)
  BY RaiseDoes
<1>2. TypeOK'
  BY <1>1 DEF RaiseEffect, Asks, Raise, IInv, TypeOK
<1>3. \A d \in Calls \ {c} : Bystander(d)
  BY <1>1 DEF RaiseEffect, Asks, Raise, Bystander, Agree, ActiveRun
<1>4. CallInv(c)'
  BY <1>1 DEF RaiseEffect, Asks, Raise, IInv, CallInv, Path, Reached, CleanedUp, ActiveRun, Early
<1> QED BY <1>2, <1>3, <1>4, StepKeeps DEF Raise

-----------------------------------------------------------------------------
(* One lemma per action.                                                   *)

\* What Goto does.
GotoEffect(c, p) ==
  /\ call' \in [Calls -> CallRecords]
  /\ call'[c].pc = p /\ Asks(call[c], call'[c])
  /\ call'[c].owner = call[c].owner /\ call'[c].thread = call[c].thread
  /\ call'[c].named = call[c].named /\ call'[c].ready = call[c].ready
  /\ call'[c].handle = call[c].handle /\ call'[c].result = call[c].result
  /\ call'[c].consumer = call[c].consumer
  /\ \A d \in Calls \ {c} : call'[d] = call[d]

LEMMA GotoDoes ==
  ASSUME TypeOK, NEW c \in Calls, NEW p \in Pcs, Goto(c, p)
  PROVE  GotoEffect(c, p)
<1> DEFINE new == [call[c] EXCEPT !.pc = p]
<1>1. call[c] \in CallRecords
  BY DEF TypeOK
<1>2. new \in CallRecords
  BY <1>1 DEF CallRecords
<1>3. /\ new.pc = p /\ Asks(call[c], new)
      /\ new.owner = call[c].owner /\ new.thread = call[c].thread
      /\ new.named = call[c].named /\ new.ready = call[c].ready
      /\ new.handle = call[c].handle /\ new.result = call[c].result
      /\ new.consumer = call[c].consumer
  BY <1>1 DEF CallRecords, Asks
<1>4. call' = [call EXCEPT ![c] = new]
  BY DEF Goto
<1> HIDE DEF new
<1> QED BY <1>2, <1>3, <1>4 DEF GotoEffect, Asks, TypeOK

\* An early call that goes on to another early await, or fails.
LEMMA GotoKeeps ==
  ASSUME IInv, NEW c \in Calls,
         NEW p \in {"opening", "threading", "starting", "failed"},
         Goto(c, p), call[c].pc \in Early \ {"idle"},
         p = "starting" => call[c].pc = "attaching",
         sessions' \in [Calls -> Calls \cup {None}], faults \subseteq faults',
         UNCHANGED <<bindings, relations, active, disconnected, todo, server>>
  PROVE  IInv'
<1>1. p \in Pcs
  BY DEF Pcs, Settled
<1>2. GotoEffect(c, p)
  BY <1>1, GotoDoes DEF IInv
<1>3. TypeOK'
  BY <1>2 DEF GotoEffect, Asks, IInv, TypeOK, server
<1>4. \A d \in Calls \ {c} : Bystander(d)
  BY <1>2 DEF GotoEffect, Asks, server, Bystander, Agree, ActiveRun
<1>5. CallInv(c)'
  BY <1>2 DEF GotoEffect, Asks, server, IInv, CallInv, Path, Reached, CleanedUp, ActiveRun, Early
<1> QED BY <1>3, <1>4, <1>5, StepKeeps

LEMMA BindThreadKeeps ==
  ASSUME IInv, NEW c \in Calls, BindThread(c) PROVE IInv'
<1> DEFINE t == IF call[c].want = None THEN c ELSE call[c].want
           new == [call[c] EXCEPT !.pc = "attaching", !.thread = t]
<1>1. call[c] \in CallRecords
  BY DEF IInv, TypeOK
<1>2. t \in Calls /\ "attaching" \in Pcs
  BY <1>1 DEF CallRecords, Pcs
<1>3. call' = [call EXCEPT ![c] = new] /\ UNCHANGED <<coordinator, server, faults>>
  BY DEF BindThread
<1> HIDE DEF t
<1>4. new \in CallRecords
  BY <1>1, <1>2 DEF CallRecords
<1>5. CallInv(c)'
  BY <1>1, <1>2, <1>3 DEF IInv, TypeOK, BindThread, CallRecords, coordinator, server,
     CallInv, Path, Reached, CleanedUp, ActiveRun, Early
<1> HIDE DEF new
<1> QED BY <1>3, <1>4, <1>5, MoveKeeps DEF coordinator, server, TypeOK

LEMMA OpenKeeps ==
  ASSUME IInv, NEW c \in Calls, Open(c) PROVE IInv'
<1>1. CASE Raise(c) /\ UNCHANGED <<server, faults>>
  BY <1>1, RaiseKeeps DEF Open, server, IInv, TypeOK
<1>2. CASE Goto(c, "threading") /\ UNCHANGED <<coordinator, server>> /\ faults \subseteq faults'
  BY <1>2, GotoKeeps DEF Open, Early, coordinator, server, IInv, TypeOK
<1> QED BY <1>1, <1>2 DEF Open, Fault

LEMMA AttachKeeps ==
  ASSUME IInv, NEW c \in Calls, Attach(c) PROVE IInv'
<1>1. sessions' \in [Calls -> Calls \cup {None}]
  BY DEF Attach, IInv, TypeOK, CallInv, Path
<1> QED BY <1>1, GotoKeeps DEF Attach, Early, server

LEMMA LookupKeeps ==
  ASSUME IInv, NEW c \in Calls, Lookup(c) PROVE IInv'
<1>1. CASE Raise(c) /\ UNCHANGED <<server, faults>>
  BY <1>1, RaiseKeeps DEF Lookup, server, IInv, TypeOK
<1>2. CASE Goto(c, "opening") /\ UNCHANGED <<coordinator, server, faults>>
  BY <1>2, GotoKeeps DEF Lookup, Early, coordinator, server, IInv, TypeOK
<1>3. ASSUME NEW r \in store, UNCHANGED <<coordinator, server, faults>>,
             call' = [call EXCEPT ![c].pc = "existing", ![c].owner = r]
      PROVE  IInv'
  <2> DEFINE new == [call[c] EXCEPT !.pc = "existing", !.owner = r]
  <2>1. call[c] \in CallRecords /\ r \in Calls /\ "existing" \in Pcs
    BY DEF IInv, TypeOK, Pcs
  <2>2. new \in CallRecords
    BY <2>1 DEF CallRecords
  <2>3. /\ new.pc = "existing" /\ new.key = call[c].key /\ new.named = call[c].named
        /\ new.target = call[c].target /\ new.thread = call[c].thread
    BY <2>1 DEF CallRecords
  <2>4. call' = [call EXCEPT ![c] = new] /\ UNCHANGED <<coordinator, server, faults>>
    BY <1>3
  <2> HIDE DEF new
  <2>5. CallInv(c)'
    BY <2>3, <2>4 DEF Lookup, IInv, TypeOK, coordinator, server,
       CallInv, Path, Reached, CleanedUp, ActiveRun, Early
  <2> QED BY <2>2, <2>4, <2>5, MoveKeeps DEF coordinator, server, TypeOK
<1> QED BY <1>1, <1>2, <1>3 DEF Lookup

LEMMA FetchExistingKeeps ==
  ASSUME IInv, NEW c \in Calls, FetchExisting(c) PROVE IInv'
<1> DEFINE new == [call[c] EXCEPT !.pc = "done", !.result = call[c].owner, !.handle = "set"]
<1>1. call[c] \in CallRecords /\ call[c].owner \in Calls \cup {None} /\ "done" \in Pcs
  BY DEF IInv, TypeOK, CallRecords, Pcs, Settled
<1>2. /\ call' = [call EXCEPT ![c] = new] /\ bindings' = [bindings EXCEPT ![call[c].key] = None]
      /\ UNCHANGED <<sessions, relations, active, disconnected, todo, server, faults>>
  BY DEF FetchExisting
<1>3. new \in CallRecords
  BY <1>1 DEF CallRecords
<1>4. CallInv(c)'
  BY <1>1, <1>2 DEF IInv, TypeOK, FetchExisting, CallRecords, server,
     CallInv, Path, Reached, CleanedUp, ActiveRun, Early
<1> HIDE DEF new
<1> QED BY <1>2, <1>3, <1>4, MoveKeeps DEF server, TypeOK

LEMMA EntryIsACall == Entry \in Calls /\ EntryKey \in Keys
BY CoordinatorAssumption DEF Entry, Calls, Keys

LEMMA StartEntryKeeps ==
  ASSUME IInv, StartEntry PROVE IInv'
<1> DEFINE new == [call[Entry] EXCEPT !.pc = "opening", !.key = EntryKey, !.target = EntryTarget]
<1>1. call[Entry] \in CallRecords /\ EntryTarget \in Targets /\ "opening" \in Pcs
  BY EntryIsACall, CoordinatorAssumption DEF IInv, TypeOK, Pcs
<1>2. /\ call' = [call EXCEPT ![Entry] = new] /\ active' = TRUE
      /\ bindings' = [bindings EXCEPT ![EntryKey] = Entry]
      /\ UNCHANGED <<sessions, relations, disconnected, todo, server, faults>>
  BY DEF StartEntry
<1>3. new \in CallRecords
  BY <1>1, EntryIsACall DEF CallRecords
<1>4. /\ new.pc = "opening" /\ new.key = EntryKey
      /\ new.named = call[Entry].named /\ new.thread = call[Entry].thread
  BY <1>1 DEF CallRecords
<1> HIDE DEF new
<1>5. call[Entry].pc = "idle"
  BY DEF StartEntry
<1>6. CallInv(Entry)'
  BY <1>2, <1>4, <1>5, EntryIsACall DEF IInv, TypeOK, server,
     CallInv, Path, Reached, CleanedUp, ActiveRun, Early
<1> QED BY <1>2, <1>3, <1>6, MoveKeeps, EntryIsACall DEF server, TypeOK

LEMMA KnownThreadsAreCalls ==
  ASSUME TypeOK, NEW want \in KnownThreads PROVE want \in Calls \cup {None}
<1>1. \A c \in Calls : call[c].result # None => call[c].result \in Calls
  BY DEF TypeOK, CallRecords
<1>2. \A c \in Calls : call[c].thread \in Calls \cup {None}
  BY DEF TypeOK, CallRecords
<1> QED BY <1>1, <1>2 DEF KnownThreads

LEMMA StartRunKeeps ==
  ASSUME IInv, NEW c \in Calls, StartRun(c) PROVE IInv'
<1>1. PICK r \in Calls, op \in Ops, target \in Targets, want \in KnownThreads \cup {None} :
        LET key == <<factory[r], op>> IN
        /\ run[r] = "running" /\ factory[r] # None
        /\ \/ /\ bindings[key] = None
              /\ call' = Asked(c, r, key, target, want, "lookup")
              /\ bindings' = [bindings EXCEPT ![key] = c]
           \/ /\ bindings[key] # None
              /\ call' = Asked(c, r, key, target, want,
                               IF call[bindings[key]].target = target
                               THEN "waiting" ELSE "failed")
              /\ UNCHANGED bindings
  BY DEF StartRun
<1> DEFINE key == <<factory[r], op>>
           pc == IF bindings[key] = None THEN "lookup"
                 ELSE IF call[bindings[key]].target = target THEN "waiting" ELSE "failed"
           owner == bindings[key]
           new == [call[c] EXCEPT !.pc = pc, !.by = r, !.key = key, !.target = target,
                                  !.want = want, !.owner = owner]
<1>2. key \in Keys
  BY <1>1 DEF Keys, IInv, TypeOK
<1>3. call' = [call EXCEPT ![c] = new]
  BY <1>1 DEF Asked
<1>4. bindings' \in [Keys -> Calls \cup {None}]
  BY <1>1 DEF IInv, TypeOK
<1>5. UNCHANGED <<sessions, relations, active, disconnected, todo, server, faults>>
        /\ call[c].pc = "idle"
  BY DEF StartRun
<1>6. owner \in Calls \cup {None} /\ call[c] \in CallRecords /\ want \in Calls \cup {None}
  BY <1>2, KnownThreadsAreCalls DEF IInv, TypeOK
<1>7. pc \in {"lookup", "waiting", "failed"} /\ (pc = "waiting" => owner \in Calls)
  BY <1>6
<1>8. pc \in Pcs
  BY <1>7 DEF Pcs, Settled
<1> HIDE DEF pc, key, owner
<1>9. /\ new \in CallRecords
      /\ new.pc = pc /\ new.key = key /\ new.owner = owner
      /\ new.thread = call[c].thread /\ new.named = call[c].named
  BY <1>2, <1>6, <1>8 DEF CallRecords
<1> HIDE DEF new
<1>10. CallInv(c)'
  BY <1>2, <1>3, <1>5, <1>7, <1>9 DEF IInv, TypeOK, server,
     CallInv, Path, Reached, CleanedUp, ActiveRun, Early
<1> QED BY <1>3, <1>4, <1>5, <1>9, <1>10, MoveKeeps DEF server, TypeOK

LEMMA TakeHandleKeeps ==
  ASSUME IInv, NEW c \in Calls, TakeHandle(c) PROVE IInv'
<1>1. CASE Goto(c, "failed")
  BY <1>1, GotoKeeps DEF TakeHandle, Early, coordinator, server, IInv, TypeOK
<1>2. CASE call' = [call EXCEPT ![c].pc = "done", ![c].result = call[call[c].owner].result]
  <2> DEFINE h == call[call[c].owner].result
             new == [call[c] EXCEPT !.pc = "done", !.result = h]
  <2>1. /\ call[c].pc = "waiting" /\ UNCHANGED <<coordinator, server, faults>>
        /\ call' = [call EXCEPT ![c] = new]
    BY <1>2 DEF TakeHandle
  <2>2. call[c].owner \in Calls
    BY <2>1 DEF IInv, CallInv, Path
  <2>3. call[c] \in CallRecords /\ h \in Calls \cup {None} /\ "done" \in Pcs
    BY <2>2 DEF IInv, TypeOK, CallRecords, Pcs, Settled
  <2> HIDE DEF h
  <2>4. new \in CallRecords
    BY <2>3 DEF CallRecords
  <2>5. new.pc = "done" /\ new.key = call[c].key /\ new.thread = call[c].thread
          /\ new.named = call[c].named
    BY <2>3 DEF CallRecords
  <2> HIDE DEF new
  <2>6. CallInv(c)'
    BY <2>1, <2>5 DEF IInv, TypeOK, coordinator, server,
       CallInv, Path, Reached, CleanedUp, ActiveRun, Early
  <2> QED BY <2>1, <2>4, <2>6, MoveKeeps DEF coordinator, server, TypeOK
<1> QED BY <1>1, <1>2 DEF TakeHandle

LEMMA StartOfficialRunKeeps ==
  ASSUME IInv, NEW c \in Calls, StartOfficialRun(c) PROVE IInv'
<1>1. /\ call[c].pc = "starting" /\ UNCHANGED <<factory, store>>
      /\ run' = [run EXCEPT ![c] = "pending"]
  BY DEF StartOfficialRun
<1>2. run' \in [Calls -> RunStatuses]
  BY <1>1 DEF IInv, TypeOK, RunStatuses
<1>3. CASE Raise(c) /\ Fault("lost", c)
  <2>1. faults \subseteq faults'
    BY <1>3 DEF Fault
  <2>2. \A d \in Calls : run'[d] = run[d] \/ (d = c /\ call[c].pc = "starting")
    BY <1>1 DEF IInv, TypeOK
  <2> QED BY <1>1, <1>2, <1>3, <2>1, <2>2, RaiseKeeps DEF IInv, TypeOK
<1>4. CASE /\ call' = [call EXCEPT ![c].pc = "recording", ![c].named = TRUE]
           /\ UNCHANGED <<coordinator, faults>>
  <2> DEFINE new == [call[c] EXCEPT !.pc = "recording", !.named = TRUE]
  <2>1. call' = [call EXCEPT ![c] = new] /\ UNCHANGED <<coordinator, faults>>
    BY <1>4
  <2>2. call[c] \in CallRecords /\ "recording" \in Pcs
    BY DEF IInv, TypeOK, Pcs
  <2>3. new \in CallRecords
    BY <2>2 DEF CallRecords
  <2>4. new.pc = "recording" /\ new.key = call[c].key /\ new.thread = call[c].thread
          /\ new.named = TRUE
    BY <2>2 DEF CallRecords
  <2> HIDE DEF new
  <2>5. CallInv(c)'
    BY <1>1, <2>1, <2>4 DEF IInv, TypeOK, coordinator,
       CallInv, Path, Reached, CleanedUp, ActiveRun, Early
  <2>6. \A d \in Calls \ {c} : run'[d] = run[d]
    BY <1>1 DEF IInv, TypeOK
  <2> QED BY <1>1, <1>2, <2>1, <2>3, <2>5, <2>6, MoveKeeps DEF coordinator, TypeOK
<1> QED BY <1>3, <1>4 DEF StartOfficialRun

LEMMA RecordRelationKeeps ==
  ASSUME IInv, NEW c \in Calls, RecordRelation(c) PROVE IInv'
<1>1. /\ call[c].pc = "recording" /\ UNCHANGED <<run, factory>>
      /\ store' = store \cup {c}
  BY DEF RecordRelation
<1>2. CASE Raise(c) /\ Fault("lost", c)
  <2>1. faults \subseteq faults'
    BY <1>2 DEF Fault
  <2> QED BY <1>1, <1>2, <2>1, RaiseKeeps DEF IInv, TypeOK
<1>3. CASE /\ relations' = relations \cup {c}
           /\ Goto(c, IF disconnected /\ call[c].target \notin Continue
                      THEN "applying" ELSE "readying")
           /\ UNCHANGED <<bindings, sessions, active, disconnected, todo, faults>>
  <2> DEFINE p == IF disconnected /\ call[c].target \notin Continue
                  THEN "applying" ELSE "readying"
  <2>1. p \in Pcs
    BY DEF Pcs
  <2>2. GotoEffect(c, p)
    BY <1>3, <2>1, GotoDoes DEF IInv
  <2>3. TypeOK'
    BY <1>1, <1>3, <2>2 DEF GotoEffect, Asks, IInv, TypeOK
  <2>4. \A d \in Calls \ {c} : Bystander(d)
    BY <1>1, <1>3, <2>2 DEF GotoEffect, Asks, Bystander, Agree, ActiveRun
  <2>5. CallInv(c)'
    BY <1>1, <1>3, <2>2 DEF GotoEffect, Asks, IInv, CallInv, Path, Reached, CleanedUp, ActiveRun, Early
  <2> QED BY <1>3, <2>3, <2>4, <2>5, StepKeeps
<1> QED BY <1>2, <1>3 DEF RecordRelation

LEMMA TakeExecutionKeeps ==
  ASSUME IInv, NEW c \in Calls, TakeExecution(c) PROVE IInv'
<1>1. call[c].pc = "readying" /\ UNCHANGED <<server, faults>>
  BY DEF TakeExecution
<1>2. CASE Raise(c)
  BY <1>1, <1>2, RaiseKeeps DEF server, IInv, TypeOK
<1>3. CASE ~Raise(c)
  <2> DEFINE p == IF c = Entry THEN "done" ELSE "fetching"
             h == IF c = Entry THEN c ELSE call[c].result
             new == [call[c] EXCEPT !.consumer = "on", !.pc = p, !.result = h]
  <2>1. call' = [call EXCEPT ![c] = new] /\ UNCHANGED <<coordinator, server, faults>>
    BY <1>3 DEF TakeExecution
  <2>2. call[c] \in CallRecords
    BY DEF IInv, TypeOK
  <2>3. p \in Pcs /\ p \in {"done", "fetching"} /\ h \in Calls \cup {None}
    BY <2>2 DEF Pcs, Settled, CallRecords
  <2> HIDE DEF p, h
  <2>4. new \in CallRecords
    BY ZenonT(60), <2>2, <2>3 DEF CallRecords
  <2>5. /\ new.pc = p /\ new.key = call[c].key /\ new.target = call[c].target
        /\ new.thread = call[c].thread /\ new.named = call[c].named
    BY <2>2 DEF CallRecords
  <2> HIDE DEF new
  <2>6. CallInv(c)'
    BY <1>1, <2>1, <2>3, <2>5 DEF IInv, TypeOK, coordinator, server,
       CallInv, Path, Reached, CleanedUp, ActiveRun, Early
  <2> QED BY <2>1, <2>4, <2>6, MoveKeeps DEF coordinator, server, TypeOK
<1> QED BY <1>2, <1>3

LEMMA ReturnHandleKeeps ==
  ASSUME IInv, NEW c \in Calls, ReturnHandle(c) PROVE IInv'
<1> DEFINE new == [call[c] EXCEPT !.pc = "done", !.handle = "set", !.result = c]
<1>1. /\ call[c].pc = "fetching" /\ call' = [call EXCEPT ![c] = new]
      /\ UNCHANGED <<coordinator, server, faults>>
  BY DEF ReturnHandle
<1>2. call[c] \in CallRecords /\ "done" \in Pcs
  BY DEF IInv, TypeOK, Pcs, Settled
<1>3. new \in CallRecords
  BY <1>2 DEF CallRecords
<1>4. /\ new.pc = "done" /\ new.key = call[c].key /\ new.target = call[c].target
      /\ new.thread = call[c].thread /\ new.named = call[c].named
  BY <1>2 DEF CallRecords
<1> HIDE DEF new
<1>5. CallInv(c)'
  BY <1>1, <1>4 DEF IInv, TypeOK, coordinator, server,
     CallInv, Path, Reached, CleanedUp, ActiveRun, Early
<1> QED BY <1>1, <1>3, <1>5, MoveKeeps DEF coordinator, server, TypeOK

LEMMA RemoteFailsKeeps ==
  ASSUME IInv, NEW c \in Calls, RemoteFails(c) PROVE IInv'
<1>1. faults \subseteq faults'
  BY DEF RemoteFails, Fault
<1>2. call[c].pc # "idle" /\ Raise(c) /\ UNCHANGED server
  BY DEF RemoteFails
<1> QED BY <1>1, <1>2, RaiseKeeps DEF server, IInv, TypeOK

LEMMA InterruptKeeps ==
  ASSUME IInv, NEW c \in Calls, Interrupt(c) PROVE IInv'
<1>1. CASE call[c].pc = "waiting"
  BY <1>1, GotoKeeps DEF Interrupt, Early, coordinator, server, IInv, TypeOK
<1>2. CASE call[c].pc # "waiting"
  <2>1. call[c].pc # "idle" /\ Raise(c) /\ UNCHANGED <<server, faults>>
    BY <1>2 DEF Interrupt, Settled
  <2> QED BY <2>1, RaiseKeeps DEF server, IInv, TypeOK
<1> QED BY <1>1, <1>2

\* A call that cancels its own Run, on its way to readying or to closing.
LEMMA OwnCancelKeeps ==
  ASSUME IInv, NEW c \in Calls, NEW p \in {"readying", "closing"},
         call[c].pc \in {"applying", "cancelling"},
         CancelOfficialRun(c, [call EXCEPT ![c].pc = p]),
         UNCHANGED <<coordinator, factory, store>>
  PROVE  IInv'
<1> DEFINE new == [call[c] EXCEPT !.pc = p]
           cs == [call EXCEPT ![c] = new]
<1>1. call[c] \in CallRecords /\ p \in Pcs
  BY DEF IInv, TypeOK, Pcs
<1>2. new \in CallRecords
  BY <1>1 DEF CallRecords
<1>3. /\ new.pc = p /\ new.key = call[c].key /\ new.target = call[c].target
      /\ new.thread = call[c].thread /\ new.named = call[c].named
  BY <1>1 DEF CallRecords
<1>4. CancelOfficialRun(c, cs)
  OBVIOUS
<1> HIDE DEF new
<1>5. /\ cs \in [Calls -> CallRecords]
      /\ cs[c] = new /\ \A d \in Calls \ {c} : cs[d] = call[d]
  BY <1>2 DEF IInv, TypeOK
<1> HIDE DEF cs
<1>6. CancelEffect(c, cs)
  BY <1>4, <1>5, CancelReaches DEF IInv
<1>7. TypeOK'
  BY <1>6 DEF CancelEffect, SameButReady, coordinator, IInv, TypeOK
<1>8. \A d \in Calls \ {c} : Bystander(d)
  BY <1>5, <1>6 DEF CancelEffect, SameButReady, Bystander, Agree, Asks, coordinator, ActiveRun
<1>9. CallInv(c)'
  BY <1>3, <1>5, <1>6 DEF CancelEffect, SameButReady, Agree, Asks, coordinator, IInv,
     CallInv, Path, Reached, CleanedUp, ActiveRun, Early
<1> QED BY <1>6, <1>7, <1>8, <1>9, StepKeeps DEF coordinator, CancelEffect

LEMMA DisconnectKeeps ==
  ASSUME IInv, Disconnect PROVE IInv'
<1>1. TypeOK'
  BY DEF IInv, TypeOK, Disconnect, server
<1>2. ASSUME NEW d \in Calls PROVE CallInv(d)'
  BY <1>2 DEF IInv, Disconnect, server, CallInv, Path, Reached, CleanedUp, ActiveRun
<1> QED BY <1>1, <1>2 DEF IInv

LEMMA ApplyDisconnectPolicyKeeps ==
  ASSUME IInv, NEW r \in Calls, ApplyDisconnectPolicy(r) PROVE IInv'
<1>1. CancelEffect(r, call)
  BY CancelReaches DEF ApplyDisconnectPolicy, IInv, TypeOK
<1>2. TypeOK'
  BY <1>1 DEF CancelEffect, SameButReady, ApplyDisconnectPolicy, IInv, TypeOK
<1>3. \A d \in Calls : Bystander(d)
  BY <1>1 DEF CancelEffect, SameButReady, Bystander, Agree, Asks, ApplyDisconnectPolicy, ActiveRun
<1>4. CallInv(r)'
  BY <1>1, <1>3, BystandersKeep DEF CancelEffect, ApplyDisconnectPolicy, IInv
<1> QED BY <1>1, <1>2, <1>3, <1>4, StepKeeps DEF CancelEffect, ApplyDisconnectPolicy

LEMMA CancelElsewhereKeeps ==
  ASSUME IInv, NEW r \in Calls, CancelElsewhere(r) PROVE IInv'
<1>1. SameButReady(call, call')
  BY FailReadyOnlyReady DEF CancelElsewhere, AbortFactory, SameButReady, Agree, Asks, IInv, TypeOK
<1>2. TypeOK'
  BY <1>1 DEF CancelElsewhere, SameButReady, coordinator, Fault, IInv, TypeOK, RunStatuses
<1>3. faults \subseteq faults' /\ \A d \in Calls : Bystander(d)
  BY <1>1 DEF CancelElsewhere, SameButReady, Bystander, coordinator, Fault, IInv, TypeOK, ActiveRun
<1> QED BY <1>2, <1>3, BystandersKeep, StepKeeps DEF CancelElsewhere, coordinator, IInv

\* A failed start that closes and releases.
LEMMA LeavingKeeps ==
  ASSUME IInv, NEW c \in Calls, NEW p \in {"releasing", "failed"}, Goto(c, p),
         call[c].pc \in {"closing", "releasing"},
         sessions' \in [Calls -> Calls \cup {None}], active' \in BOOLEAN,
         faults \subseteq faults',
         UNCHANGED <<bindings, relations, disconnected, todo, server>>
  PROVE  IInv'
<1>1. p \in Pcs
  BY DEF Pcs, Settled
<1>2. GotoEffect(c, p)
  BY <1>1, GotoDoes DEF IInv
<1>3. TypeOK'
  BY <1>2 DEF GotoEffect, Asks, IInv, TypeOK, server
<1>4. \A d \in Calls \ {c} : Bystander(d)
  BY <1>2 DEF GotoEffect, Asks, server, Bystander, Agree, ActiveRun
<1>5. CallInv(c)'
  BY <1>2 DEF GotoEffect, Asks, server, IInv, CallInv, Path, Reached, CleanedUp, ActiveRun, Early
<1> QED BY <1>3, <1>4, <1>5, StepKeeps

LEMMA CloseFailedStartKeeps ==
  ASSUME IInv, NEW c \in Calls, CloseFailedStart(c) PROVE IInv'
<1>1. PICK p \in {"releasing", "failed"} : Goto(c, p)
  BY DEF CloseFailedStart
<1>2. active' \in BOOLEAN /\ sessions' \in [Calls -> Calls \cup {None}]
  BY DEF CloseFailedStart, ReleaseIfFinished, IInv, TypeOK
<1> QED BY <1>1, <1>2, LeavingKeeps DEF CloseFailedStart

LEMMA ReleaseFailedStartKeeps ==
  ASSUME IInv, NEW c \in Calls, ReleaseFailedStart(c) PROVE IInv'
<1>1. active' \in BOOLEAN /\ faults \subseteq faults'
  BY DEF ReleaseFailedStart, ReleaseIfFinished, Fault, IInv, TypeOK
<1> QED BY <1>1, LeavingKeeps DEF ReleaseFailedStart, IInv, TypeOK

\* What a cleanup cut short does: the call has failed, its cancel may have
\* reached the Run, and nobody closes or releases.
CutsShort(c) ==
  /\ call[c].pc \in {"cancelling", "releasing"}
  /\ call' \in [Calls -> CallRecords] /\ \A d \in Calls \ {c} : Agree(call[d], call'[d])
  /\ call'[c].pc = "failed" /\ Asks(call[c], call'[c])
  /\ call'[c].owner = call[c].owner /\ call'[c].thread = call[c].thread
  /\ call'[c].named = call[c].named /\ call'[c].handle = call[c].handle
  /\ call'[c].result = call[c].result
  /\ run' \in [Calls -> RunStatuses]
  /\ \A d \in Calls : run'[d] = run[d] \/ (d = c /\ ActiveRun(c) /\ run'[c] = "cancelled")
  /\ faults \subseteq faults' /\ <<"cut", c>> \in faults'
  /\ UNCHANGED <<coordinator, factory, store>>

LEMMA CutDoes ==
  ASSUME TypeOK, NEW c \in Calls, CleanupCutShort(c)
  PROVE  CutsShort(c)
<1> DEFINE new == [call[c] EXCEPT !.pc = "failed"]
           cs == [call EXCEPT ![c].pc = "failed"]
<1>1. call[c] \in CallRecords /\ "failed" \in Pcs
  BY DEF TypeOK, Pcs, Settled
<1>2. /\ new \in CallRecords /\ new.pc = "failed" /\ Asks(call[c], new)
      /\ new.owner = call[c].owner /\ new.thread = call[c].thread
      /\ new.named = call[c].named /\ new.handle = call[c].handle
      /\ new.result = call[c].result
  BY <1>1 DEF CallRecords, Asks
<1>3. cs = [call EXCEPT ![c] = new]
  OBVIOUS
<1> HIDE DEF new
<1>4. /\ cs \in [Calls -> CallRecords]
      /\ cs[c] = new /\ \A d \in Calls \ {c} : cs[d] = call[d]
  BY <1>2, <1>3 DEF TypeOK
<1>5. /\ \/ call' = cs /\ UNCHANGED run
         \/ /\ ActiveRun(c) /\ run' = [run EXCEPT ![c] = "cancelled"]
            /\ call' = AbortFactory(cs, c)
      /\ UNCHANGED <<coordinator, factory, store>>
      /\ faults \subseteq faults' /\ <<"cut", c>> \in faults'
  BY DEF CleanupCutShort, Fault
<1> HIDE DEF cs
<1>6. SameButReady(cs, cs) /\ SameButReady(cs, AbortFactory(cs, c))
  BY <1>4, CancelTellsOnlyReady DEF SameButReady, Agree, Asks
<1>7. SameButReady(cs, call')
  BY <1>5, <1>6
<1>8. /\ run' \in [Calls -> RunStatuses]
      /\ \A d \in Calls : run'[d] = run[d] \/ (d = c /\ ActiveRun(c) /\ run'[c] = "cancelled")
  BY <1>5 DEF TypeOK, RunStatuses
<1> QED
  BY <1>2, <1>4, <1>5, <1>7, <1>8 DEF CutsShort, CleanupCutShort, SameButReady, Agree, Asks

LEMMA CutKeeps ==
  ASSUME IInv, NEW c \in Calls, CleanupCutShort(c) PROVE IInv'
<1>1. CutsShort(c)
  BY CutDoes DEF IInv
<1>2. TypeOK'
  BY <1>1 DEF CutsShort, coordinator, IInv, TypeOK
<1>3. \A d \in Calls \ {c} : Bystander(d)
  BY <1>1 DEF CutsShort, Bystander, coordinator, ActiveRun
<1>4. CallInv(c)'
  BY <1>1 DEF CutsShort, Asks, coordinator, IInv, CallInv, Path, Reached, CleanedUp,
     ActiveRun, Early
<1> QED BY <1>1, <1>2, <1>3, <1>4, StepKeeps DEF CutsShort, coordinator

\* A step that changes no call but in its ready future and consumer, starts no
\* Run and revives none.
LEMMA RunsOnlyEnd ==
  ASSUME IInv, TypeOK',
         \A d \in Calls : /\ Agree(call[d], call'[d])
                          /\ run[d] = "none" => run'[d] = "none"
                          /\ ActiveRun(d)' => ActiveRun(d),
         UNCHANGED <<relations, todo, disconnected>>, faults \subseteq faults'
  PROVE  IInv'
<1>1. \A d \in Calls : Bystander(d)
  BY DEF Bystander
<1> QED BY <1>1, BystandersKeep DEF IInv

\* The record of a consumer that closes.
LEMMA ConsumerOnly ==
  ASSUME TypeOK, NEW c \in Calls, NEW v \in {"closing", "closed"}
  PROVE  LET ds == [call EXCEPT ![c].consumer = v]
         IN  ds \in [Calls -> CallRecords] /\ \A d \in Calls : Agree(call[d], ds[d])
<1> DEFINE new == [call[c] EXCEPT !.consumer = v]
           ds == [call EXCEPT ![c].consumer = v]
<1>1. call[c] \in CallRecords
  BY DEF TypeOK
<1>2. new \in CallRecords
  BY <1>1 DEF CallRecords
<1>3. Agree(call[c], new)
  BY <1>1 DEF CallRecords, Agree, Asks
<1>4. ds = [call EXCEPT ![c] = new]
  OBVIOUS
<1> HIDE DEF new
<1> QED BY <1>2, <1>3, <1>4 DEF TypeOK, Agree, Asks

LEMMA ConsumeKeeps ==
  ASSUME IInv, NEW c \in Calls, Consume(c) PROVE IInv'
<1>1. PICK v \in {"closing", "closed"} : call' = [call EXCEPT ![c].consumer = v]
  BY DEF Consume, ConsumerCloses, ConsumerReleases
<1>2. call' \in [Calls -> CallRecords] /\ \A d \in Calls : Agree(call[d], call'[d])
  BY <1>1, ConsumerOnly DEF IInv
<1>3. active' \in BOOLEAN /\ sessions' \in [Calls -> Calls \cup {None}]
  BY DEF Consume, ConsumerCloses, ConsumerReleases, ReleaseIfFinished, IInv, TypeOK
<1>4. UNCHANGED <<bindings, relations, disconnected, todo, server>> /\ faults \subseteq faults'
  BY DEF Consume, ConsumerCloses, ConsumerReleases, Fault
<1>5. TypeOK'
  BY <1>2, <1>3, <1>4 DEF IInv, TypeOK, server
<1> QED BY <1>2, <1>4, <1>5, RunsOnlyEnd DEF server, ActiveRun

LEMMA CallFactoryKeeps ==
  ASSUME IInv, NEW r \in Calls, CallFactory(r) PROVE IInv'
<1>1. run[r] = "pending" /\ UNCHANGED <<call, coordinator, store, faults>>
  BY DEF CallFactory
<1>2. call[r].key \in Keys
  BY <1>1 DEF IInv, CallInv, Path, Early
<1>3. TypeOK'
  BY <1>1, <1>2 DEF CallFactory, coordinator, IInv, TypeOK, RunStatuses
<1>4. \A d \in Calls : Agree(call[d], call'[d])
  BY <1>1 DEF Agree, Asks
<1>5. \A d \in Calls : /\ run[d] = "none" => run'[d] = "none"
                       /\ ActiveRun(d)' => ActiveRun(d)
  BY <1>1 DEF CallFactory, ActiveRun, IInv, TypeOK
<1> QED BY <1>1, <1>3, <1>4, <1>5, RunsOnlyEnd DEF coordinator

LEMMA BuildGraphKeeps ==
  ASSUME IInv, NEW r \in Calls, BuildGraph(r) PROVE IInv'
<1>1. /\ run[r] = "building" /\ UNCHANGED <<coordinator, factory, store>>
      /\ \/ run' = [run EXCEPT ![r] = "running"]
         \/ run' = [run EXCEPT ![r] = "ended"]
      /\ \/ call' = [call EXCEPT ![factory[r]].ready = IF @ = "unset" THEN "ok" ELSE @]
         \/ call' = FailReady(call, factory[r])
      /\ faults \subseteq faults'
  BY DEF BuildGraph, Fault
<1>2. SameButReady(call, call')
  <2>1. call \in [Calls -> CallRecords]
    BY DEF IInv, TypeOK
  <2>2. SameButReady(call, [call EXCEPT ![factory[r]].ready = IF @ = "unset" THEN "ok" ELSE @])
    BY <2>1, ResolvingOnlyReady
  <2>3. SameButReady(call, FailReady(call, factory[r]))
    BY <2>1, FailReadyOnlyReady
  <2> QED BY <1>1, <2>2, <2>3
<1>3. TypeOK'
  BY <1>1, <1>2 DEF SameButReady, coordinator, IInv, TypeOK, RunStatuses
<1>4. \A d \in Calls : /\ run[d] = "none" => run'[d] = "none"
                       /\ ActiveRun(d)' => ActiveRun(d)
  BY <1>1 DEF ActiveRun, IInv, TypeOK
<1> QED BY <1>1, <1>2, <1>3, <1>4, RunsOnlyEnd DEF SameButReady, coordinator

LEMMA EndRunKeeps ==
  ASSUME IInv, NEW r \in Calls, EndRun(r) PROVE IInv'
<1>1. /\ run[r] = "running" /\ run' = [run EXCEPT ![r] = "ended"]
      /\ UNCHANGED <<call, coordinator, factory, store, faults>>
  BY DEF EndRun
<1>2. TypeOK' /\ \A d \in Calls : Agree(call[d], call'[d])
  BY <1>1 DEF Agree, Asks, coordinator, IInv, TypeOK, RunStatuses
<1>3. \A d \in Calls : /\ run[d] = "none" => run'[d] = "none"
                       /\ ActiveRun(d)' => ActiveRun(d)
  BY <1>1 DEF ActiveRun, IInv, TypeOK
<1> QED BY <1>1, <1>2, <1>3, RunsOnlyEnd DEF coordinator

-----------------------------------------------------------------------------
(* The theorems.                                                           *)

LEMMA InitEstablishes ==
  ASSUME Init PROVE IInv
<1>1. NewCall \in CallRecords
  BY DEF NewCall, CallRecords, Pcs, Settled
<1>2. TypeOK
  BY <1>1 DEF Init, TypeOK, RunStatuses
<1>3. \A c \in Calls : call[c].pc = "idle" /\ ~call[c].named /\ run[c] = "none"
  BY DEF Init, NewCall
<1>4. \A c \in Calls : CallInv(c)
  BY <1>3 DEF Init, CallInv, Path, Reached, CleanedUp, ActiveRun, Early
<1> QED BY <1>2, <1>4 DEF IInv

LEMMA ProceedKeeps ==
  ASSUME IInv, NEW c \in Calls, Proceed(c) PROVE IInv'
<1>1. CASE ApplyOwnPolicy(c)
  BY <1>1, OwnCancelKeeps DEF ApplyOwnPolicy
<1>2. CASE CancelFailedStart(c)
  BY <1>2, OwnCancelKeeps DEF CancelFailedStart
<1> QED BY <1>1, <1>2, TakeHandleKeeps, LookupKeeps, FetchExistingKeeps, OpenKeeps,
     BindThreadKeeps, AttachKeeps, StartOfficialRunKeeps, RecordRelationKeeps,
     TakeExecutionKeeps, ReturnHandleKeeps, InterruptKeeps, CloseFailedStartKeeps,
     ReleaseFailedStartKeeps DEF Proceed

LEMMA NextKeeps ==
  ASSUME IInv, [Next]_vars PROVE IInv'
<1>1. CASE UNCHANGED vars
  <2>1. TypeOK'
    BY <1>1 DEF vars, IInv, TypeOK
  <2>2. \A c \in Calls : CallInv(c)'
    BY <1>1 DEF vars, IInv, CallInv, Path, Reached, CleanedUp, ActiveRun
  <2> QED BY <2>1, <2>2 DEF IInv
<1>2. CASE StartEntry \/ Disconnect
  BY <1>2, StartEntryKeeps, DisconnectKeeps
<1>3. ASSUME NEW c \in Calls,
             \/ StartRun(c) \/ Proceed(c) \/ RemoteFails(c) \/ CleanupCutShort(c)
             \/ Consume(c) \/ Serve(c) \/ EndRun(c) \/ CancelElsewhere(c)
             \/ ApplyDisconnectPolicy(c)
      PROVE  IInv'
  BY <1>3, StartRunKeeps, ProceedKeeps, RemoteFailsKeeps, CutKeeps, ConsumeKeeps, CallFactoryKeeps,
     BuildGraphKeeps, EndRunKeeps, CancelElsewhereKeeps, ApplyDisconnectPolicyKeeps DEF Serve
<1> QED BY <1>1, <1>2, <1>3 DEF Next

\* The invariant holds along every behaviour: init and every step of the
\* coordinator and of the server keep it.
THEOREM Invariance == Spec => []IInv
<1>1. Init => IInv
  BY InitEstablishes
<1>2. IInv /\ [Next]_vars => IInv'
  BY NextKeeps
<1> QED BY <1>1, <1>2, PTL DEF Spec

\* Futures, bindings, sessions and statuses keep their types, and relations
\* holds only Runs the store has, whatever fails and however many calls come.
THEOREM TypeCorrect == Spec => []TypeOK
<1>1. IInv => TypeOK
  BY DEF IInv
<1> QED BY <1>1, Invariance, PTL

\* disconnect() and _record_relation leave no registered Run of a "cancel"
\* target running after the client is gone, unless its cancel failed or was cut
\* short.
THEOREM DisconnectReaches == Spec => []DisconnectReachesEveryRun
<1>1. IInv => DisconnectReachesEveryRun
  BY DEF IInv, TypeOK, CallInv, Reached, DisconnectReachesEveryRun
<1> QED BY <1>1, Invariance, PTL

\* The except branch of a start leaves no Run it knows of running, unless the
\* cancel it made failed or was cut short.
THEOREM FailedStartsCleaned == Spec => []FailedStartLeavesNoRun
<1>1. IInv => FailedStartLeavesNoRun
  BY DEF IInv, CallInv, CleanedUp, FailedStartLeavesNoRun
<1> QED BY <1>1, Invariance, PTL

-----------------------------------------------------------------------------
(* One operation, one Run.  Whoever is on the path of a start owns the     *)
(* binding of its key; what it looked up in the store stays true until it  *)
(* adds its own relation; and every result is a Run of the store.          *)

Owners == {"lookup", "existing", "opening", "threading", "attaching", "starting",
           "recording", "applying", "readying", "fetching"}

Bound ==
  \A k \in Keys : bindings[k] # None =>
    call[bindings[k]].pc # "idle" /\ call[bindings[k]].key = k

Begun(c) ==
  /\ call[c].pc = "idle" => /\ call[c].result = None /\ call[c].handle = "unset"
                            /\ call[c].want = None /\ call[c].thread = None
  /\ call[c].pc # "idle" => (call[c].key = EntryKey <=> c = Entry)

Owns(c) == call[c].pc \in Owners => bindings[call[c].key] = c

Stored(c) ==
  /\ c \in store => call[c].pc \notin Early \cup {"recording"} /\ call[c].named
  /\ call[c].pc \in {"applying", "readying", "fetching"} => c \in store
  /\ call[c].pc \in {"opening", "threading", "attaching", "starting", "recording"} =>
       \A r \in store : call[r].key # call[c].key
  /\ c \in store => \A r \in store : call[r].key = call[c].key => r = c

\* r is a Run, or at least a call, for what c asked for.
Serves(r, c) == call[r].key = call[c].key /\ call[r].target = call[c].target

Answers(c) ==
  /\ call[c].pc = "waiting" => call[call[c].owner].pc # "idle" /\ Serves(call[c].owner, c)
  /\ call[c].pc = "existing" => call[c].owner \in store /\ Serves(call[c].owner, c)
  /\ call[c].handle = "set" => call[c].result # None
  /\ call[c].result # None => call[c].result \in store /\ Serves(call[c].result, c)

OpInv == Bound /\ \A c \in Calls : Begun(c) /\ Owns(c) /\ Stored(c) /\ Answers(c)

\* A step that concerns no call but in its ready future and consumer.
LEMMA OpRests ==
  ASSUME IInv, OpInv, \A d \in Calls : Agree(call[d], call'[d]), UNCHANGED <<bindings, store>>
  PROVE  OpInv'
<1>1. TypeOK
  BY DEF IInv
<1>2. Bound'
  BY <1>1 DEF OpInv, Bound, Agree, Asks, TypeOK
<1>3. ASSUME NEW c \in Calls
      PROVE  (Begun(c) /\ Owns(c))' /\ Stored(c)'
  BY <1>1 DEF OpInv, Begun, Owns, Stored, Agree, Asks, TypeOK
<1>4. ASSUME NEW c \in Calls
      PROVE  Answers(c)'
  <2>1. call[c].pc = "waiting" => call[c].owner \in Calls
    BY DEF IInv, CallInv, Path
  <2> QED
    BY <1>1, <2>1 DEF OpInv, Answers, Serves, Agree, Asks, TypeOK
<1> QED
  BY <1>2, <1>3, <1>4 DEF OpInv

\* A step of a call that has begun: it may drop its binding as it leaves the
\* path, and may add its relation to the store.
LEMMA OpMoves ==
  ASSUME IInv, OpInv, NEW c \in Calls, call[c].pc # "idle", call'[c].pc # "idle",
         Asks(call[c], call'[c]), \A d \in Calls \ {c} : Agree(call[d], call'[d]),
         \/ bindings' = bindings
         \/ /\ call[c].pc \in Owners /\ call'[c].pc \notin Owners
            /\ bindings' = [bindings EXCEPT ![call[c].key] = None],
         call'[c].pc \in Owners => call[c].pc \in Owners,
         store' = store \/ (call[c].pc = "recording" /\ store' = store \cup {c}),
         Stored(c)', Answers(c)'
  PROVE  OpInv'
<1>1. TypeOK /\ c \in Calls /\ call[c].key \in Keys /\ Owns(c) /\ Stored(c)
  BY DEF IInv, CallInv, Path, OpInv
<1>2. \A d \in Calls : Asks(call[d], call'[d]) /\ (call[d].pc # "idle" => call'[d].pc # "idle")
  BY DEF Agree
<1>3. Bound'
  BY <1>1, <1>2 DEF OpInv, Bound, Asks, TypeOK
<1>4. \A d \in Calls : Begun(d)'
  <2>1. Begun(c)'
    BY <1>1 DEF OpInv, Begun, Asks
  <2>2. \A d \in Calls \ {c} : Begun(d)'
    BY DEF OpInv, Begun, Agree, Asks
  <2> QED
    BY <2>1, <2>2
<1>5. \A d \in Calls : Owns(d)'
  <2>1. Owns(c)'
    BY <1>1, <1>2 DEF Owns, Asks
  <2>2. ASSUME NEW d \in Calls \ {c}
        PROVE  Owns(d)'
    <3>1. Owns(d) /\ Agree(call[d], call'[d])
      BY DEF OpInv
    <3>2. call[d].pc # "idle" => call[d].key \in Keys
      BY DEF IInv, CallInv, Path
    <3>3. call[d].pc \in Owners /\ call[c].pc \in Owners => call[d].key # call[c].key
      BY <1>1, <3>1 DEF Owns
    <3> QED
      BY <1>1, <3>1, <3>2, <3>3 DEF Owns, Agree, Asks, Owners, TypeOK
  <2> QED
    BY <2>1, <2>2
<1>6. \A d \in Calls : Stored(d)'
  <2>1. ASSUME NEW d \in Calls \ {c}
        PROVE  Stored(d)'
    <3>1. Owns(d) /\ Stored(d) /\ Agree(call[d], call'[d])
      BY DEF OpInv
    <3>2. store \subseteq Calls /\ \A r \in Calls : call'[r].key = call[r].key
      BY <1>1, <1>2 DEF TypeOK, Asks
    <3>3. CASE store' = store
      BY <3>1, <3>2, <3>3 DEF Stored, Agree, Asks
    <3>4. CASE call[c].pc = "recording" /\ store' = store \cup {c}
      <4>1. call[d].pc \in Owners => call[d].key # call[c].key
        BY <1>1, <3>1, <3>4 DEF Owns, Owners
      <4>2. \A r \in store : call[r].key # call[c].key
        BY <1>1, <3>4 DEF Stored
      <4> QED
        BY <3>1, <3>2, <3>4, <4>1, <4>2 DEF Stored, Agree, Asks, Owners
    <3> QED
      BY <3>3, <3>4
  <2> QED
    BY <2>1
<1>7. \A d \in Calls : Answers(d)'
  <2>1. ASSUME NEW d \in Calls \ {c}
        PROVE  Answers(d)'
    <3>1. Answers(d) /\ Agree(call[d], call'[d])
      BY DEF OpInv
    <3>2. \A r \in Calls : Serves(r, d) => Serves(r, d)'
      BY <1>2 DEF Serves, Asks
    <3>3. call[d].pc = "waiting" => call[d].owner \in Calls
      BY DEF IInv, CallInv, Path
    <3>4. store \subseteq store' /\ store \subseteq Calls
      BY <1>1 DEF TypeOK
    <3>5. /\ call'[d].pc = call[d].pc /\ call'[d].owner = call[d].owner
          /\ call'[d].handle = call[d].handle /\ call'[d].result = call[d].result
      BY <3>1 DEF Agree
    <3> QED
      BY <1>2, <3>1, <3>2, <3>3, <3>4, <3>5 DEF Answers
  <2> QED
    BY <2>1
<1> QED
  BY <1>3, <1>4, <1>5, <1>6, <1>7 DEF OpInv

\* What a call has been answered stays an answer.
LEMMA AnswersStay ==
  ASSUME IInv, OpInv, NEW c \in Calls, \A d \in Calls : Asks(call[d], call'[d]),
         call'[c].result = call[c].result, call'[c].pc \notin {"waiting", "existing"},
         call'[c].handle = "set" => call[c].handle = "set", store \subseteq store'
  PROVE  Answers(c)'
<1>1. Answers(c) /\ store \subseteq Calls
  BY DEF OpInv, IInv, TypeOK
<1>2. \A r \in Calls : Serves(r, c) => Serves(r, c)'
  BY DEF Serves, Asks
<1> QED
  BY <1>1, <1>2 DEF Answers

LEMMA OpGoto ==
  ASSUME IInv, OpInv, NEW c \in Calls, NEW p \in Pcs \ {"idle", "waiting", "existing"},
         call[c].pc # "idle", Goto(c, p), p \in Owners => call[c].pc \in Owners,
         UNCHANGED bindings,
         store' = store \/ (call[c].pc = "recording" /\ store' = store \cup {c}),
         p \in {"applying", "readying", "fetching"} => c \in store',
         p \in {"opening", "threading", "attaching", "starting", "recording"} =>
           \A r \in store' : call[r].key # call[c].key,
         p \in Early \cup {"recording"} => c \notin store'
  PROVE  OpInv'
<1>1. TypeOK /\ OpInv /\ Stored(c) /\ Path(c)
  BY DEF IInv, CallInv, OpInv
<1>2. GotoEffect(c, p)
  BY <1>1, GotoDoes
<1>3. \A d \in Calls \ {c} : Agree(call[d], call'[d])
  BY <1>2 DEF GotoEffect, Agree, Asks
<1>4. \A d \in Calls : Asks(call[d], call'[d])
  BY <1>2, <1>3 DEF GotoEffect, Agree
<1>5. Stored(c)'
  BY <1>1, <1>2, <1>4 DEF GotoEffect, Asks, Stored, Path, TypeOK
<1>6. Answers(c)'
  BY <1>1, <1>2, <1>4, AnswersStay DEF GotoEffect
<1> QED
  BY <1>1, <1>2, <1>3, <1>4, <1>5, <1>6, OpMoves DEF GotoEffect

LEMMA OpRaise ==
  ASSUME IInv, OpInv, NEW c \in Calls, call[c].pc \in Owners, Raise(c),
         store' = store \/ (call[c].pc = "recording" /\ store' = store \cup {c})
  PROVE  OpInv'
<1>1. TypeOK /\ Stored(c) /\ Path(c) /\ call[c].pc # "idle"
  BY DEF IInv, CallInv, OpInv, Owners
<1>2. RaiseEffect(c)
  BY <1>1, RaiseDoes
<1>3. /\ \A d \in Calls \ {c} : Agree(call[d], call'[d])
      /\ \A d \in Calls : Asks(call[d], call'[d])
      /\ call'[c].pc \in {"cancelling", "closing"}
  BY <1>2 DEF RaiseEffect, Agree, Asks
<1>4. Stored(c)'
  BY <1>1, <1>2, <1>3 DEF RaiseEffect, Asks, Stored, Path, Early, TypeOK
<1>5. Answers(c)'
  BY <1>2, <1>3, AnswersStay DEF RaiseEffect
<1>6. \/ bindings' = bindings
      \/ bindings' = [bindings EXCEPT ![call[c].key] = None]
  BY DEF Raise
<1>7. call'[c].pc # "idle" /\ call'[c].pc \notin Owners
  BY <1>3 DEF Owners
<1> QED
  BY <1>1, <1>3, <1>4, <1>5, <1>6, <1>7, OpMoves

LEMMA OpStartEntry ==
  ASSUME IInv, OpInv, StartEntry
  PROVE  OpInv'
<1>1. /\ call[Entry].pc = "idle" /\ TypeOK /\ Entry \in Calls /\ EntryKey \in Keys
      /\ bindings' = [bindings EXCEPT ![EntryKey] = Entry] /\ store' = store
      /\ call[Entry] \in CallRecords
  BY EntryIsACall DEF StartEntry, IInv, server, TypeOK
<1>2. /\ call'[Entry].pc = "opening" /\ call'[Entry].key = EntryKey
      /\ call'[Entry].handle = "unset" /\ call'[Entry].result = None
      /\ \A d \in Calls \ {Entry} : call'[d] = call[d]
  <2>1. call[Entry].handle = "unset" /\ call[Entry].result = None
    BY <1>1 DEF OpInv, Begun
  <2> QED
    BY <1>1, <2>1 DEF StartEntry, TypeOK, CallRecords
<1>3. \A d \in Calls \ {Entry} : call[d].pc # "idle" => call[d].key # EntryKey /\ call[d].key \in Keys
  BY DEF OpInv, Begun, IInv, CallInv, Path
<1>4. Entry \notin store /\ \A r \in store : r \in Calls \ {Entry} /\ call[r].pc # "idle"
  BY <1>1 DEF OpInv, Stored, Early, TypeOK
<1>5. Bound'
  BY <1>1, <1>2 DEF OpInv, Bound, TypeOK
<1>6. ASSUME NEW c \in Calls
      PROVE  Begun(c)' /\ Owns(c)'
  BY <1>1, <1>2, <1>3 DEF OpInv, Begun, Owns, Owners, TypeOK
<1>7. ASSUME NEW c \in Calls
      PROVE  Stored(c)'
  BY <1>1, <1>2, <1>3, <1>4 DEF OpInv, Stored
<1>8. ASSUME NEW c \in Calls
      PROVE  Answers(c)'
  <2>1. CASE c = Entry
    BY <1>2, <2>1 DEF Answers
  <2>2. CASE c # Entry
    <3>1. Answers(c) /\ call'[c] = call[c]
      BY <1>2, <2>2 DEF OpInv
    <3>2. \A r \in Calls : call[r].pc # "idle" /\ Serves(r, c) => Serves(r, c)'
      BY <1>1, <1>2, <2>2 DEF Serves
    <3>3. call[c].pc = "waiting" => call[c].owner \in Calls /\ call'[call[c].owner].pc # "idle"
      BY <1>1, <1>2, <3>1 DEF IInv, CallInv, Path, Answers
    <3> QED
      BY <1>1, <1>4, <3>1, <3>2, <3>3 DEF Answers
  <2> QED
    BY <2>1, <2>2
<1> QED
  BY <1>5, <1>6, <1>7, <1>8 DEF OpInv

\* What a call of start_workflow_run or start_agent_run begins with.
StartEffect(c, r, op, target, want) ==
  LET key == <<factory[r], op>>
      new == call'[c]
  IN
  /\ call' \in [Calls -> CallRecords] /\ \A d \in Calls \ {c} : call'[d] = call[d]
  /\ key \in Keys /\ key # EntryKey /\ c # Entry /\ call[c].pc = "idle"
  /\ run[r] = "running" /\ factory[r] # None
  /\ new.key = key /\ new.by = r /\ new.target = target /\ new.want = want
  /\ new.owner = bindings[key] /\ new.thread = call[c].thread /\ new.named = call[c].named
  /\ new.ready = call[c].ready /\ new.handle = call[c].handle
  /\ new.result = call[c].result /\ new.consumer = call[c].consumer
  /\ \/ /\ bindings[key] = None /\ new.pc = "lookup"
        /\ bindings' = [bindings EXCEPT ![key] = c]
     \/ /\ bindings[key] \in Calls /\ bindings' = bindings
        /\ new.pc = IF call[bindings[key]].target = target THEN "waiting" ELSE "failed"

LEMMA StartRunDoes ==
  ASSUME IInv, NEW c \in Calls, StartRun(c)
  PROVE  \E r \in Calls, op \in Ops, target \in Targets, want \in KnownThreads \cup {None} :
           StartEffect(c, r, op, target, want)
<1>1. PICK r \in Calls, op \in Ops, target \in Targets, want \in KnownThreads \cup {None} :
        LET key == <<factory[r], op>> IN
        /\ run[r] = "running" /\ factory[r] # None
        /\ \/ /\ bindings[key] = None
              /\ call' = Asked(c, r, key, target, want, "lookup")
              /\ bindings' = [bindings EXCEPT ![key] = c]
           \/ /\ bindings[key] # None
              /\ call' = Asked(c, r, key, target, want,
                               IF call[bindings[key]].target = target
                               THEN "waiting" ELSE "failed")
              /\ UNCHANGED bindings
  BY DEF StartRun
<1> DEFINE key == <<factory[r], op>>
           pc == IF bindings[key] = None THEN "lookup"
                 ELSE IF call[bindings[key]].target = target THEN "waiting" ELSE "failed"
           owner == bindings[key]
           new == [call[c] EXCEPT !.pc = pc, !.by = r, !.key = key, !.target = target,
                                  !.want = want, !.owner = owner]
<1>2. /\ TypeOK /\ key \in Keys /\ call[c].pc = "idle" /\ c # Entry /\ key # EntryKey
      /\ run[r] = "running" /\ factory[r] # None
  <2>1. TypeOK /\ factory[r] \in Calls /\ factory[r] # None
    BY <1>1 DEF IInv, TypeOK
  <2> QED
    BY <1>1, <2>1 DEF StartRun, Keys, EntryKey
<1>3. call' = [call EXCEPT ![c] = new]
  BY <1>1 DEF Asked
<1>4. call[c] \in CallRecords /\ owner \in Calls \cup {None} /\ want \in Calls \cup {None}
  BY <1>2, KnownThreadsAreCalls DEF TypeOK
<1>5. \/ /\ owner = None /\ pc = "lookup" /\ bindings' = [bindings EXCEPT ![key] = c]
      \/ /\ owner \in Calls /\ bindings' = bindings
         /\ pc = IF call[owner].target = target THEN "waiting" ELSE "failed"
  BY <1>1, <1>4
<1>6. pc \in Pcs
  BY DEF Pcs, Settled
<1> HIDE DEF pc, key
<1>7. /\ new \in CallRecords
      /\ new.pc = pc /\ new.key = key /\ new.by = r /\ new.target = target /\ new.want = want
      /\ new.owner = owner /\ new.thread = call[c].thread /\ new.named = call[c].named
      /\ new.ready = call[c].ready /\ new.handle = call[c].handle
      /\ new.result = call[c].result /\ new.consumer = call[c].consumer
  BY <1>2, <1>4, <1>6 DEF CallRecords
<1> HIDE DEF new
<1>8. /\ call' \in [Calls -> CallRecords] /\ call'[c] = new
      /\ \A d \in Calls \ {c} : call'[d] = call[d]
  BY <1>2, <1>3, <1>7 DEF TypeOK
<1> USE DEF key
<1> QED
  BY <1>2, <1>5, <1>7, <1>8 DEF StartEffect

LEMMA OpStartRun ==
  ASSUME IInv, OpInv, NEW c \in Calls, StartRun(c)
  PROVE  OpInv'
<1>1. PICK r \in Calls, op \in Ops, target \in Targets, want \in KnownThreads \cup {None} :
        StartEffect(c, r, op, target, want)
  BY StartRunDoes
<1> DEFINE key == <<factory[r], op>>
<1>2. /\ TypeOK /\ store' = store /\ call[c].pc = "idle" /\ c # Entry /\ key \in Keys
      /\ key # EntryKey /\ call'[c].key = key /\ call'[c].target = target
      /\ call'[c].handle = "unset" /\ call'[c].result = None
      /\ call'[c].owner = bindings[key]
      /\ \A d \in Calls \ {c} : call'[d] = call[d]
  BY <1>1 DEF StartEffect, StartRun, server, IInv, OpInv, Begun
<1>3. \/ /\ bindings[key] = None /\ call'[c].pc = "lookup"
         /\ bindings' = [bindings EXCEPT ![key] = c]
      \/ /\ bindings[key] \in Calls /\ bindings' = bindings
         /\ call'[c].pc = IF call[bindings[key]].target = target THEN "waiting" ELSE "failed"
  BY <1>1 DEF StartEffect
<1>4. \A d \in Calls : call[d].pc # "idle" => call[d].key \in Keys
  BY DEF IInv, CallInv, Path
<1> HIDE DEF key
<1>5. c \notin store /\ store \subseteq Calls /\ \A d \in store : d # c /\ call[d].pc # "idle"
  BY <1>2 DEF OpInv, Stored, Early, TypeOK
<1>6. Bound'
  BY <1>2, <1>3 DEF OpInv, Bound, TypeOK
<1>7. ASSUME NEW d \in Calls
      PROVE  Begun(d)' /\ Owns(d)'
  BY <1>2, <1>3, <1>4, NoneIsNoCall DEF OpInv, Begun, Owns, Owners, TypeOK
<1>8. ASSUME NEW d \in Calls
      PROVE  Stored(d)'
  BY <1>2, <1>3, <1>5 DEF OpInv, Stored
<1>9. ASSUME NEW d \in Calls
      PROVE  Answers(d)'
  <2>1. CASE d = c
    <3>1. bindings[key] # None => /\ call[bindings[key]].pc # "idle"
                                  /\ call[bindings[key]].key = key
      BY <1>2 DEF OpInv, Bound
    <3> QED
      BY <1>2, <1>3, <2>1, <3>1, NoneIsNoCall DEF Answers, Serves
  <2>2. CASE d # c
    <3>1. Answers(d) /\ call'[d] = call[d]
      BY <1>2, <2>2 DEF OpInv
    <3>2. \A q \in Calls : call[q].pc # "idle" /\ Serves(q, d) => Serves(q, d)'
      BY <1>2, <2>2 DEF Serves
    <3>3. call[d].pc = "waiting" => call[d].owner \in Calls /\ call'[call[d].owner].pc # "idle"
      BY <1>2, <3>1 DEF IInv, CallInv, Path, Answers
    <3> QED
      BY <1>2, <1>5, <3>1, <3>2, <3>3 DEF Answers
  <2> QED
    BY <2>1, <2>2
<1> QED
  BY <1>6, <1>7, <1>8, <1>9 DEF OpInv

\* What the steps do that end or turn the path of a start.
TakesHandle(c) ==
  /\ call[c].pc = "waiting" /\ call[call[c].owner].handle = "set"
  /\ call' \in [Calls -> CallRecords] /\ \A d \in Calls \ {c} : call'[d] = call[d]
  /\ call'[c].pc = "done" /\ call'[c].result = call[call[c].owner].result
  /\ Asks(call[c], call'[c]) /\ call'[c].owner = call[c].owner
  /\ call'[c].thread = call[c].thread /\ call'[c].named = call[c].named
  /\ call'[c].ready = call[c].ready /\ call'[c].handle = call[c].handle
  /\ call'[c].consumer = call[c].consumer
  /\ UNCHANGED <<coordinator, server, faults>>

LEMMA TakeHandleDoes ==
  ASSUME IInv, NEW c \in Calls, TakeHandle(c)
  PROVE  (Goto(c, "failed") /\ UNCHANGED <<coordinator, server, faults>>) \/ TakesHandle(c)
<1>1. CASE Goto(c, "failed")
  BY <1>1 DEF TakeHandle
<1>2. CASE /\ call' = [call EXCEPT ![c].pc = "done", ![c].result = call[call[c].owner].result]
           /\ call[call[c].owner].handle = "set"
  <2> DEFINE h == call[call[c].owner].result
             new == [call[c] EXCEPT !.pc = "done", !.result = h]
  <2>1. /\ call[c].pc = "waiting" /\ UNCHANGED <<coordinator, server, faults>>
        /\ call' = [call EXCEPT ![c] = new] /\ TypeOK
    BY <1>2 DEF TakeHandle, IInv
  <2>2. call[c].owner \in Calls
    BY <2>1 DEF IInv, CallInv, Path
  <2>3. call[c] \in CallRecords /\ h \in Calls \cup {None} /\ "done" \in Pcs
    BY <2>1, <2>2 DEF TypeOK, CallRecords, Pcs, Settled
  <2>4. h = call[call[c].owner].result
    OBVIOUS
  <2> HIDE DEF h
  <2>5. /\ new \in CallRecords /\ new.pc = "done" /\ new.result = h /\ Asks(call[c], new)
        /\ new.owner = call[c].owner /\ new.thread = call[c].thread /\ new.named = call[c].named
        /\ new.ready = call[c].ready /\ new.handle = call[c].handle
        /\ new.consumer = call[c].consumer
    BY ZenonT(60), <2>3 DEF CallRecords, Asks
  <2> HIDE DEF new
  <2>6. /\ call' \in [Calls -> CallRecords] /\ call'[c] = new
        /\ \A d \in Calls \ {c} : call'[d] = call[d]
    BY <2>1, <2>5 DEF TypeOK
  <2> QED
    BY <1>2, <2>1, <2>4, <2>5, <2>6 DEF TakesHandle
<1> QED
  BY <1>1, <1>2 DEF TakeHandle

LEMMA OpTakeHandle ==
  ASSUME IInv, OpInv, NEW c \in Calls, TakeHandle(c)
  PROVE  OpInv'
<1>1. TypeOK /\ call[c].pc = "waiting" /\ UNCHANGED <<bindings, store>>
  BY DEF IInv, TakeHandle, coordinator, server
<1>2. c \notin store
  BY <1>1 DEF OpInv, Stored, Early
<1>3. CASE Goto(c, "failed")
  <2>1. "failed" \in Pcs \ {"idle", "waiting", "existing"} /\ "failed" \notin Owners \cup Early
    BY DEF Pcs, Settled, Owners, Early
  <2> QED
    BY <1>1, <1>3, <2>1, OpGoto
<1>4. CASE TakesHandle(c)
  <2>1. /\ call'[c].pc = "done" /\ Asks(call[c], call'[c])
        /\ \A d \in Calls \ {c} : Agree(call[d], call'[d])
        /\ \A d \in Calls : Asks(call[d], call'[d])
    BY <1>4 DEF TakesHandle, Agree, Asks
  <2> DEFINE o == call[c].owner
  <2>2. /\ o \in Calls /\ call[o].handle = "set" /\ Serves(o, c) /\ Answers(o)
        /\ call[o].result \in store /\ store \subseteq Calls
    BY <1>1, <1>4 DEF TakesHandle, OpInv, Answers, IInv, CallInv, Path, TypeOK
  <2>3. Serves(call[o].result, c)
    BY <2>2, NoneIsNoCall DEF Answers, Serves, TypeOK
  <2>4. call'[c].result = call[o].result
    BY <1>4 DEF TakesHandle
  <2>5. Answers(c)'
    BY <1>1, <2>1, <2>2, <2>3, <2>4, NoneIsNoCall DEF Answers, Serves, Asks
  <2>6. Stored(c)'
    BY <1>1, <1>2, <2>1 DEF Stored
  <2>7. call'[c].pc \notin Owners
    BY <2>1 DEF Owners
  <2> QED
    BY <1>1, <2>1, <2>5, <2>6, <2>7, OpMoves
<1> QED
  BY <1>3, <1>4, TakeHandleDoes

FindsExisting(c, r) ==
  /\ r \in store /\ Serves(r, c) /\ call[c].want \in {None, call[r].thread}
  /\ call' \in [Calls -> CallRecords] /\ \A d \in Calls \ {c} : call'[d] = call[d]
  /\ call'[c].pc = "existing" /\ call'[c].owner = r
  /\ Asks(call[c], call'[c]) /\ call'[c].result = call[c].result
  /\ call'[c].thread = call[c].thread /\ call'[c].named = call[c].named
  /\ call'[c].ready = call[c].ready /\ call'[c].handle = call[c].handle
  /\ call'[c].consumer = call[c].consumer
  /\ UNCHANGED <<coordinator, server, faults>>

LEMMA LookupDoes ==
  ASSUME IInv, NEW c \in Calls, Lookup(c)
  PROVE  \/ Raise(c) /\ UNCHANGED <<server, faults>>
         \/ /\ \A r \in store : call[r].key # call[c].key
            /\ Goto(c, "opening") /\ UNCHANGED <<coordinator, server, faults>>
         \/ \E r \in Calls : FindsExisting(c, r)
<1>1. ASSUME NEW r \in store, UNCHANGED <<coordinator, server, faults>>,
             call[r].key = call[c].key, call[r].target = call[c].target,
             call[c].want \in {None, call[r].thread},
             call' = [call EXCEPT ![c].pc = "existing", ![c].owner = r]
      PROVE  r \in Calls /\ FindsExisting(c, r)
  <2> DEFINE new == [call[c] EXCEPT !.pc = "existing", !.owner = r]
  <2>1. TypeOK /\ call[c] \in CallRecords /\ r \in Calls /\ "existing" \in Pcs
    BY DEF IInv, TypeOK, Pcs
  <2>2. /\ new \in CallRecords /\ new.pc = "existing" /\ new.owner = r /\ Asks(call[c], new)
        /\ new.result = call[c].result /\ new.thread = call[c].thread
        /\ new.named = call[c].named /\ new.ready = call[c].ready
        /\ new.handle = call[c].handle /\ new.consumer = call[c].consumer
    BY <2>1 DEF CallRecords, Asks
  <2>3. call' = [call EXCEPT ![c] = new]
    BY <1>1
  <2> HIDE DEF new
  <2>4. /\ call' \in [Calls -> CallRecords] /\ call'[c] = new
        /\ \A d \in Calls \ {c} : call'[d] = call[d]
    BY <2>1, <2>2, <2>3 DEF TypeOK
  <2> QED
    BY <1>1, <2>1, <2>2, <2>4 DEF FindsExisting, Serves
<1> QED
  BY <1>1 DEF Lookup

LEMMA OpLookup ==
  ASSUME IInv, OpInv, NEW c \in Calls, Lookup(c)
  PROVE  OpInv'
<1>1. TypeOK /\ call[c].pc = "lookup" /\ c \notin store /\ "lookup" \in Owners
  BY DEF IInv, Lookup, OpInv, Stored, Early, Owners
<1>2. CASE Raise(c) /\ UNCHANGED <<server, faults>>
  BY <1>1, <1>2, OpRaise DEF server
<1>3. CASE /\ \A r \in store : call[r].key # call[c].key
           /\ Goto(c, "opening") /\ UNCHANGED <<coordinator, server, faults>>
  <2>1. "opening" \in Pcs \ {"idle", "waiting", "existing"}
    BY DEF Pcs
  <2> QED
    BY <1>1, <1>3, <2>1, OpGoto DEF coordinator, server
<1>4. ASSUME NEW r \in Calls, FindsExisting(c, r)
      PROVE  OpInv'
  <2>1. /\ call'[c].pc = "existing" /\ call'[c].owner = r /\ Asks(call[c], call'[c])
        /\ \A d \in Calls \ {c} : call'[d] = call[d]
        /\ UNCHANGED <<bindings, store>> /\ r \in store /\ Serves(r, c)
        /\ call'[c].handle = call[c].handle /\ call'[c].result = call[c].result
    BY <1>4 DEF FindsExisting, coordinator, server
  <2>2. Stored(c)'
    BY <1>1, <2>1 DEF Stored, Early
  <2>3. Answers(c)'
    <3>1. \A q \in Calls : Serves(q, c) => Serves(q, c)'
      BY <2>1 DEF Serves, Asks
    <3> QED
      BY <1>1, <2>1, <3>1 DEF OpInv, Answers, TypeOK
  <2>4. \A d \in Calls \ {c} : Agree(call[d], call'[d])
    BY <2>1 DEF Agree, Asks
  <2> QED
    BY <1>1, <2>1, <2>2, <2>3, <2>4, OpMoves
<1> QED
  BY <1>2, <1>3, <1>4, LookupDoes

LEMMA OpOpen ==
  ASSUME IInv, OpInv, NEW c \in Calls, Open(c)
  PROVE  OpInv'
<1>1. /\ call[c].pc = "opening" /\ UNCHANGED server /\ c \notin store
      /\ \A r \in store : call[r].key # call[c].key
  BY DEF Open, OpInv, Stored, Early
<1>2. call[c].pc \in Owners /\ "threading" \in Pcs \ {"idle", "waiting", "existing"}
  BY <1>1 DEF Owners, Pcs
<1>3. CASE Raise(c)
  BY <1>1, <1>2, <1>3, OpRaise DEF server
<1>4. CASE Goto(c, "threading") /\ UNCHANGED coordinator
  BY <1>1, <1>2, <1>4, OpGoto DEF server, coordinator
<1> QED
  BY <1>3, <1>4 DEF Open

LEMMA OpAttach ==
  ASSUME IInv, OpInv, NEW c \in Calls, Attach(c)
  PROVE  OpInv'
<1>1. /\ call[c].pc = "attaching" /\ UNCHANGED <<bindings, server>> /\ c \notin store
      /\ \A r \in store : call[r].key # call[c].key
      /\ Goto(c, "starting")
  BY DEF Attach, OpInv, Stored, Early
<1>2. call[c].pc \in Owners /\ "starting" \in Pcs \ {"idle", "waiting", "existing"}
  BY <1>1 DEF Owners, Pcs
<1> QED
  BY <1>1, <1>2, OpGoto DEF server

\* The steps of a start that change some fields of its own call.
BindsThread(c) ==
  /\ call[c].pc = "threading"
  /\ call' \in [Calls -> CallRecords] /\ \A d \in Calls \ {c} : call'[d] = call[d]
  /\ call'[c].pc = "attaching"
  /\ call'[c].thread = IF call[c].want = None THEN c ELSE call[c].want
  /\ Asks(call[c], call'[c]) /\ call'[c].owner = call[c].owner
  /\ call'[c].named = call[c].named /\ call'[c].ready = call[c].ready
  /\ call'[c].handle = call[c].handle /\ call'[c].result = call[c].result
  /\ call'[c].consumer = call[c].consumer
  /\ UNCHANGED <<coordinator, server, faults>>

LEMMA BindThreadDoes ==
  ASSUME TypeOK, NEW c \in Calls, BindThread(c)
  PROVE  BindsThread(c)
<1> DEFINE t == IF call[c].want = None THEN c ELSE call[c].want
           new == [call[c] EXCEPT !.pc = "attaching", !.thread = t]
<1>1. call[c] \in CallRecords
  BY DEF TypeOK
<1>2. t \in Calls /\ "attaching" \in Pcs /\ t = IF call[c].want = None THEN c ELSE call[c].want
  BY <1>1 DEF CallRecords, Pcs
<1>3. /\ call[c].pc = "threading" /\ call' = [call EXCEPT ![c] = new]
      /\ UNCHANGED <<coordinator, server, faults>>
  BY DEF BindThread
<1> HIDE DEF t
<1>4. /\ new \in CallRecords /\ new.pc = "attaching" /\ new.thread = t /\ Asks(call[c], new)
      /\ new.owner = call[c].owner /\ new.named = call[c].named /\ new.ready = call[c].ready
      /\ new.handle = call[c].handle /\ new.result = call[c].result
      /\ new.consumer = call[c].consumer
  BY ZenonT(60), <1>1, <1>2 DEF CallRecords, Asks
<1> HIDE DEF new
<1>5. /\ call' \in [Calls -> CallRecords] /\ call'[c] = new
      /\ \A d \in Calls \ {c} : call'[d] = call[d]
  BY <1>3, <1>4 DEF TypeOK
<1> QED
  BY <1>2, <1>3, <1>4, <1>5 DEF BindsThread

LEMMA OpBindThread ==
  ASSUME IInv, OpInv, NEW c \in Calls, BindThread(c)
  PROVE  OpInv'
<1>1. TypeOK /\ BindsThread(c)
  BY BindThreadDoes DEF IInv
<1>2. /\ call[c].pc = "threading" /\ call'[c].pc = "attaching" /\ Asks(call[c], call'[c])
      /\ \A d \in Calls \ {c} : Agree(call[d], call'[d])
      /\ \A d \in Calls : Asks(call[d], call'[d])
      /\ call'[c].handle = call[c].handle /\ call'[c].result = call[c].result
      /\ UNCHANGED <<bindings, store>>
  BY <1>1 DEF BindsThread, Agree, Asks, coordinator, server
<1>3. Stored(c)'
  BY <1>1, <1>2 DEF OpInv, Stored, Asks, Early, TypeOK
<1>4. Answers(c)'
  BY <1>2, AnswersStay
<1>5. call[c].pc \in Owners
  BY <1>2 DEF Owners
<1> QED
  BY <1>1, <1>2, <1>3, <1>4, <1>5, OpMoves

StartsRun(c) ==
  /\ call' \in [Calls -> CallRecords] /\ \A d \in Calls \ {c} : call'[d] = call[d]
  /\ call'[c].pc = "recording" /\ call'[c].named = TRUE
  /\ Asks(call[c], call'[c]) /\ call'[c].owner = call[c].owner
  /\ call'[c].thread = call[c].thread /\ call'[c].ready = call[c].ready
  /\ call'[c].handle = call[c].handle /\ call'[c].result = call[c].result
  /\ call'[c].consumer = call[c].consumer
  /\ UNCHANGED <<coordinator, faults>>

LEMMA StartOfficialRunDoes ==
  ASSUME TypeOK, NEW c \in Calls, StartOfficialRun(c)
  PROVE  /\ call[c].pc = "starting" /\ UNCHANGED <<factory, store>>
         /\ run' = [run EXCEPT ![c] = "pending"]
         /\ (Raise(c) /\ Fault("lost", c)) \/ StartsRun(c)
<1>1. CASE /\ call' = [call EXCEPT ![c].pc = "recording", ![c].named = TRUE]
           /\ UNCHANGED <<coordinator, faults>>
  <2> DEFINE new == [call[c] EXCEPT !.pc = "recording", !.named = TRUE]
  <2>1. call[c] \in CallRecords /\ "recording" \in Pcs
    BY DEF TypeOK, Pcs
  <2>2. call' = [call EXCEPT ![c] = new]
    BY <1>1
  <2>3. /\ new \in CallRecords /\ new.pc = "recording" /\ new.named = TRUE /\ Asks(call[c], new)
        /\ new.owner = call[c].owner /\ new.thread = call[c].thread /\ new.ready = call[c].ready
        /\ new.handle = call[c].handle /\ new.result = call[c].result
        /\ new.consumer = call[c].consumer
    BY <2>1 DEF CallRecords, Asks
  <2> HIDE DEF new
  <2>4. /\ call' \in [Calls -> CallRecords] /\ call'[c] = new
        /\ \A d \in Calls \ {c} : call'[d] = call[d]
    BY <2>2, <2>3 DEF TypeOK
  <2>5. StartsRun(c)
    BY <1>1, <2>3, <2>4 DEF StartsRun
  <2> QED
    BY <2>5 DEF StartOfficialRun
<1> QED
  BY <1>1 DEF StartOfficialRun

LEMMA OpStartOfficialRun ==
  ASSUME IInv, OpInv, NEW c \in Calls, StartOfficialRun(c)
  PROVE  OpInv'
<1>1. TypeOK /\ call[c].pc = "starting" /\ store' = store /\ c \notin store
      /\ \A r \in store : call[r].key # call[c].key
  BY DEF IInv, StartOfficialRun, OpInv, Stored, Early
<1>2. call[c].pc \in Owners
  BY <1>1 DEF Owners
<1>3. CASE Raise(c)
  BY <1>1, <1>2, <1>3, OpRaise
<1>4. CASE StartsRun(c)
  <2>1. /\ call'[c].pc = "recording" /\ Asks(call[c], call'[c])
        /\ \A d \in Calls \ {c} : Agree(call[d], call'[d])
        /\ \A d \in Calls : Asks(call[d], call'[d])
        /\ call'[c].handle = call[c].handle /\ call'[c].result = call[c].result
        /\ UNCHANGED bindings
    BY <1>4 DEF StartsRun, Agree, Asks, coordinator
  <2>2. Stored(c)'
    BY <1>1, <2>1 DEF Stored, Asks, TypeOK
  <2>3. Answers(c)'
    BY <1>1, <2>1, AnswersStay
  <2> QED
    BY <1>1, <1>2, <2>1, <2>2, <2>3, OpMoves
<1> QED
  BY <1>1, <1>3, <1>4, StartOfficialRunDoes

LEMMA OpRecordRelation ==
  ASSUME IInv, OpInv, NEW c \in Calls, RecordRelation(c)
  PROVE  OpInv'
<1>1. TypeOK /\ call[c].pc = "recording" /\ store' = store \cup {c}
  BY DEF IInv, RecordRelation
<1>2. call[c].pc \in Owners
  BY <1>1 DEF Owners
<1>3. CASE Raise(c)
  BY <1>1, <1>2, <1>3, OpRaise
<1>4. CASE /\ Goto(c, IF disconnected /\ call[c].target \notin Continue
                      THEN "applying" ELSE "readying")
           /\ UNCHANGED bindings
  <2> DEFINE p == IF disconnected /\ call[c].target \notin Continue
                  THEN "applying" ELSE "readying"
  <2>1. /\ p \in Pcs \ {"idle", "waiting", "existing"} /\ p \notin Early \cup {"recording"}
        /\ p \notin {"opening", "threading", "attaching", "starting", "recording"}
    BY DEF Pcs, Early
  <2>2. Goto(c, p) /\ UNCHANGED bindings /\ call[c].pc # "idle" /\ c \in store'
    BY <1>1, <1>4
  <2> HIDE DEF p
  <2> QED
    BY <1>1, <1>2, <2>1, <2>2, OpGoto
<1> QED
  BY <1>3, <1>4 DEF RecordRelation

\* The call returns the handle of Run h.
Returns(c, h) ==
  /\ call' \in [Calls -> CallRecords] /\ \A d \in Calls \ {c} : call'[d] = call[d]
  /\ call'[c].pc = "done" /\ call'[c].result = h /\ call'[c].handle = "set"
  /\ Asks(call[c], call'[c]) /\ call'[c].owner = call[c].owner
  /\ call'[c].thread = call[c].thread /\ call'[c].named = call[c].named
  /\ call'[c].ready = call[c].ready /\ call'[c].consumer = call[c].consumer

LEMMA Returning ==
  ASSUME TypeOK, NEW c \in Calls, NEW h \in Calls \cup {None},
         call' = [call EXCEPT ![c].pc = "done", ![c].handle = "set", ![c].result = h]
  PROVE  Returns(c, h)
<1> DEFINE new == [call[c] EXCEPT !.pc = "done", !.handle = "set", !.result = h]
<1>1. call[c] \in CallRecords /\ "done" \in Pcs
  BY DEF TypeOK, Pcs, Settled
<1>2. call' = [call EXCEPT ![c] = new]
  OBVIOUS
<1>5. new \in CallRecords
  BY ZenonT(60), <1>1 DEF CallRecords
<1>3. /\ new.pc = "done" /\ new.result = h /\ new.handle = "set"
      /\ Asks(call[c], new) /\ new.owner = call[c].owner /\ new.thread = call[c].thread
      /\ new.named = call[c].named /\ new.ready = call[c].ready
      /\ new.consumer = call[c].consumer
  BY <1>1 DEF CallRecords, Asks
<1> HIDE DEF new
<1>4. /\ call' \in [Calls -> CallRecords] /\ call'[c] = new
      /\ \A d \in Calls \ {c} : call'[d] = call[d]
  <2>1. call' = [call EXCEPT ![c] = new] /\ call \in [Calls -> CallRecords]
    BY <1>2 DEF TypeOK
  <2> QED
    BY <1>5, <2>1
<1> QED
  BY <1>3, <1>4 DEF Returns

LEMMA FetchExistingDoes ==
  ASSUME TypeOK, NEW c \in Calls, FetchExisting(c)
  PROVE  /\ call[c].pc = "existing" /\ Returns(c, call[c].owner)
         /\ bindings' = [bindings EXCEPT ![call[c].key] = None]
         /\ UNCHANGED <<sessions, relations, active, disconnected, todo, server, faults>>
<1>1. call[c].owner \in Calls \cup {None}
  BY DEF TypeOK, CallRecords
<1> DEFINE h == call[c].owner
<1>2. call' = [call EXCEPT ![c].pc = "done", ![c].handle = "set", ![c].result = h]
  <2> DEFINE new == [call[c] EXCEPT !.pc = "done", !.handle = "set", !.result = h]
             old == [call[c] EXCEPT !.pc = "done", !.result = h, !.handle = "set"]
  <2>1. call[c] \in CallRecords
    BY DEF TypeOK
  <2>2. new = old
    BY <2>1 DEF CallRecords
  <2>3. call' = [call EXCEPT ![c] = old]
    BY DEF FetchExisting
  <2> QED
    BY <2>2, <2>3
<1> HIDE DEF h
<1>3. Returns(c, h)
  <2>1. h \in Calls \cup {None}
    BY <1>1 DEF h
  <2> QED
    BY <1>2, <2>1, Returning
<1> QED
  BY <1>3 DEF FetchExisting, h

LEMMA ReturnHandleDoes ==
  ASSUME TypeOK, NEW c \in Calls, ReturnHandle(c)
  PROVE  /\ call[c].pc = "fetching" /\ Returns(c, c)
         /\ UNCHANGED <<coordinator, server, faults>>
BY Returning DEF ReturnHandle

\* A call may return a Run of the store that serves it.
LEMMA OpReturns ==
  ASSUME IInv, OpInv, NEW c \in Calls, NEW h \in store, Returns(c, h), Serves(h, c),
         call[c].pc \in {"existing", "fetching"}, UNCHANGED store,
         \/ UNCHANGED bindings
         \/ bindings' = [bindings EXCEPT ![call[c].key] = None]
  PROVE  OpInv'
<1>1. TypeOK /\ h \in Calls /\ Stored(c)
  BY DEF IInv, TypeOK, OpInv
<1>2. /\ call'[c].pc = "done" /\ call'[c].result = h /\ Asks(call[c], call'[c])
      /\ call'[c].named = call[c].named
      /\ \A d \in Calls \ {c} : Agree(call[d], call'[d])
      /\ \A d \in Calls : Asks(call[d], call'[d])
  BY DEF Returns, Agree, Asks
<1>3. "done" \notin Owners \cup Early /\ call[c].pc \in Owners
  BY DEF Owners, Early
<1>4. Stored(c)'
  BY <1>1, <1>2, <1>3 DEF Stored, Asks, TypeOK
<1>5. Answers(c)'
  BY <1>1, <1>2, NoneIsNoCall DEF Answers, Serves, Asks
<1> QED
  BY <1>2, <1>3, <1>4, <1>5, OpMoves

LEMMA OpFetchExisting ==
  ASSUME IInv, OpInv, NEW c \in Calls, FetchExisting(c)
  PROVE  OpInv'
<1>1. /\ call[c].pc = "existing" /\ Returns(c, call[c].owner) /\ UNCHANGED store
      /\ bindings' = [bindings EXCEPT ![call[c].key] = None]
  BY FetchExistingDoes DEF IInv, server
<1>2. call[c].owner \in store /\ Serves(call[c].owner, c)
  BY <1>1 DEF OpInv, Answers
<1> QED
  BY <1>1, <1>2, OpReturns

LEMMA OpReturnHandle ==
  ASSUME IInv, OpInv, NEW c \in Calls, ReturnHandle(c)
  PROVE  OpInv'
<1>1. call[c].pc = "fetching" /\ Returns(c, c) /\ UNCHANGED <<bindings, store>>
  BY ReturnHandleDoes DEF IInv, coordinator, server
<1>2. c \in store /\ Serves(c, c)
  BY <1>1 DEF OpInv, Stored, Serves
<1> QED
  BY <1>1, <1>2, OpReturns

\* The execution of a start is taken: of the entry's by the completion, of
\* another by a task of its own.
TakesExecution(c) ==
  /\ call' \in [Calls -> CallRecords] /\ \A d \in Calls \ {c} : call'[d] = call[d]
  /\ call'[c].pc = IF c = Entry THEN "done" ELSE "fetching"
  /\ call'[c].result = IF c = Entry THEN c ELSE call[c].result
  /\ Asks(call[c], call'[c]) /\ call'[c].owner = call[c].owner
  /\ call'[c].thread = call[c].thread /\ call'[c].named = call[c].named
  /\ call'[c].ready = call[c].ready /\ call'[c].handle = call[c].handle
  /\ call'[c].consumer = "on"
  /\ UNCHANGED coordinator

LEMMA TakeExecutionDoes ==
  ASSUME TypeOK, NEW c \in Calls, TakeExecution(c)
  PROVE  /\ call[c].pc = "readying" /\ UNCHANGED <<server, faults>>
         /\ \/ call[c].ready = "error" /\ Raise(c)
            \/ call[c].ready = "ok" /\ TakesExecution(c)
<1>1. call[c] \in CallRecords
  BY DEF TypeOK
<1>2. CASE call[c].ready = "error"
  BY <1>2 DEF TakeExecution
<1>3. CASE call[c].ready # "error"
  <2> DEFINE p == IF c = Entry THEN "done" ELSE "fetching"
             h == IF c = Entry THEN c ELSE call[c].result
             new == [call[c] EXCEPT !.consumer = "on", !.pc = p, !.result = h]
  <2>1. call' = [call EXCEPT ![c] = new] /\ UNCHANGED coordinator /\ call[c].ready = "ok"
    BY <1>1, <1>3 DEF TakeExecution, CallRecords
  <2>2. /\ p \in Pcs /\ p = IF c = Entry THEN "done" ELSE "fetching"
        /\ h \in Calls \cup {None} /\ h = IF c = Entry THEN c ELSE call[c].result
    BY <1>1 DEF Pcs, Settled, CallRecords
  <2>5. p \in Pcs /\ h \in Calls \cup {None}
    BY <2>2
  <2> HIDE DEF p, h
  <2>7. new \in CallRecords
    BY ZenonT(60), <1>1, <2>5 DEF CallRecords
  <2>3. /\ new.pc = p /\ new.result = h /\ Asks(call[c], new)
        /\ new.owner = call[c].owner /\ new.thread = call[c].thread
        /\ new.named = call[c].named /\ new.ready = call[c].ready
        /\ new.handle = call[c].handle /\ new.consumer = "on"
    BY <1>1 DEF CallRecords, Asks
  <2> HIDE DEF new
  <2>4. /\ call' \in [Calls -> CallRecords] /\ call'[c] = new
        /\ \A d \in Calls \ {c} : call'[d] = call[d]
    BY <2>1, <2>7 DEF TypeOK
  <2>6. TakesExecution(c)
    BY <2>1, <2>2, <2>3, <2>4 DEF TakesExecution
  <2> QED
    BY <2>1, <2>6 DEF TakeExecution
<1> QED
  BY <1>2, <1>3

LEMMA OpTakeExecution ==
  ASSUME IInv, OpInv, NEW c \in Calls, TakeExecution(c)
  PROVE  OpInv'
<1>1. /\ TypeOK /\ call[c].pc = "readying" /\ UNCHANGED store
      /\ Raise(c) \/ TakesExecution(c)
  BY TakeExecutionDoes DEF IInv, server
<1>2. call[c].pc \in Owners /\ c \in store /\ c \in Calls
  BY <1>1 DEF OpInv, Stored, Owners
<1>3. CASE Raise(c)
  BY <1>1, <1>2, <1>3, OpRaise
<1>4. CASE TakesExecution(c)
  <2>1. /\ call'[c].pc \in {"done", "fetching"} /\ Asks(call[c], call'[c])
        /\ call'[c].result = call[c].result \/ call'[c].result = c
        /\ call'[c].handle = call[c].handle /\ call'[c].named = call[c].named
        /\ \A d \in Calls \ {c} : Agree(call[d], call'[d])
        /\ \A d \in Calls : Asks(call[d], call'[d])
        /\ UNCHANGED bindings
    BY <1>4 DEF TakesExecution, Agree, Asks, coordinator
  <2>2. Stored(c)'
    BY <1>1, <1>2, <2>1 DEF OpInv, Stored, Asks, Early, TypeOK
  <2>3. Answers(c)'
    <3>1. CASE call'[c].result = call[c].result
      BY <1>1, <2>1, <3>1, AnswersStay
    <3>2. CASE call'[c].result = c
      BY <1>1, <1>2, <2>1, <3>2, NoneIsNoCall DEF Answers, Serves, Asks
    <3> QED
      BY <2>1, <3>1, <3>2
  <2>4. call'[c].pc # "idle"
    BY <2>1
  <2> QED
    BY <1>1, <1>2, <2>1, <2>2, <2>3, <2>4, OpMoves
<1> QED
  BY <1>1, <1>3, <1>4

LEMMA OpRemoteFails ==
  ASSUME IInv, OpInv, NEW c \in Calls, RemoteFails(c)
  PROVE  OpInv'
BY OpRaise DEF RemoteFails, Owners, server

LEMMA OpInterrupt ==
  ASSUME IInv, OpInv, NEW c \in Calls, Interrupt(c)
  PROVE  OpInv'
<1>1. UNCHANGED store /\ call[c].pc \in Pcs
  BY DEF Interrupt, server, IInv, TypeOK, CallRecords
<1>2. CASE call[c].pc = "waiting"
  <2>1. Goto(c, "failed") /\ UNCHANGED bindings
    BY <1>2 DEF Interrupt, coordinator
  <2>2. "failed" \in Pcs \ {"idle", "waiting", "existing"} /\ "failed" \notin Owners \cup Early
    BY DEF Pcs, Settled, Owners, Early
  <2> QED
    BY <1>1, <1>2, <2>1, <2>2, OpGoto
<1>3. CASE call[c].pc # "waiting"
  <2>1. Raise(c) /\ call[c].pc \in Owners
    BY <1>1, <1>3 DEF Interrupt, Pcs, Settled, Owners
  <2> QED
    BY <1>1, <2>1, OpRaise
<1> QED
  BY <1>2, <1>3

\* A failed start that closes and releases.
LEMMA OpLeaving ==
  ASSUME IInv, OpInv, NEW c \in Calls,
         CloseFailedStart(c) \/ ReleaseFailedStart(c)
  PROVE  OpInv'
<1>1. PICK p \in {"releasing", "failed"} : Goto(c, p)
  BY DEF CloseFailedStart, ReleaseFailedStart
<1>2. call[c].pc \in {"closing", "releasing"} /\ UNCHANGED <<bindings, store>>
  BY DEF CloseFailedStart, ReleaseFailedStart, server
<1>3. /\ p \in Pcs \ {"idle", "waiting", "existing"} /\ p \notin Owners
      /\ p \notin Early \cup {"recording"}
      /\ p \notin {"opening", "threading", "attaching", "starting", "recording"}
  BY DEF Pcs, Settled, Owners, Early
<1>4. call[c].pc # "idle" /\ p \notin {"applying", "readying", "fetching"}
  BY <1>2
<1> QED
  BY <1>1, <1>2, <1>3, <1>4, OpGoto

\* A call that cancels its own Run only moves on; other calls are only told.
CancelsOwn(c, p) ==
  /\ call' \in [Calls -> CallRecords] /\ \A d \in Calls \ {c} : Agree(call[d], call'[d])
  /\ call'[c].pc = p /\ Asks(call[c], call'[c])
  /\ call'[c].owner = call[c].owner /\ call'[c].thread = call[c].thread
  /\ call'[c].named = call[c].named /\ call'[c].handle = call[c].handle
  /\ call'[c].result = call[c].result
  /\ UNCHANGED <<coordinator, factory, store>>

LEMMA OwnCancelDoes ==
  ASSUME TypeOK, NEW c \in Calls, NEW p \in {"readying", "closing"},
         CancelOfficialRun(c, [call EXCEPT ![c].pc = p]),
         UNCHANGED <<coordinator, factory, store>>
  PROVE  CancelsOwn(c, p) /\ CancelEffect(c, [call EXCEPT ![c].pc = p])
<1> DEFINE new == [call[c] EXCEPT !.pc = p]
           cs == [call EXCEPT ![c].pc = p]
<1>1. call[c] \in CallRecords /\ p \in Pcs
  BY DEF TypeOK, Pcs
<1>2. /\ new \in CallRecords /\ new.pc = p /\ Asks(call[c], new)
      /\ new.owner = call[c].owner /\ new.thread = call[c].thread
      /\ new.named = call[c].named /\ new.handle = call[c].handle
      /\ new.result = call[c].result
  BY <1>1 DEF CallRecords, Asks
<1>3. cs = [call EXCEPT ![c] = new]
  OBVIOUS
<1>4. CancelOfficialRun(c, cs)
  OBVIOUS
<1> HIDE DEF new
<1>5. /\ cs \in [Calls -> CallRecords]
      /\ cs[c] = new /\ \A d \in Calls \ {c} : cs[d] = call[d]
  BY <1>2, <1>3 DEF TypeOK
<1> HIDE DEF cs
<1>6. CancelEffect(c, cs)
  BY <1>4, <1>5, CancelReaches
<1>7. call' \in [Calls -> CallRecords] /\ \A d \in Calls : Agree(cs[d], call'[d])
  BY <1>6 DEF CancelEffect, SameButReady
<1>8. CancelsOwn(c, p)
  BY <1>2, <1>5, <1>7 DEF CancelsOwn, Agree, Asks
<1> QED
  BY <1>6, <1>8 DEF cs

LEMMA OpOwnCancel ==
  ASSUME IInv, OpInv, NEW c \in Calls, ApplyOwnPolicy(c) \/ CancelFailedStart(c)
  PROVE  OpInv'
<1>1. TypeOK
  BY DEF IInv
<1>2. PICK p \in {"readying", "closing"} :
        /\ CancelOfficialRun(c, [call EXCEPT ![c].pc = p])
        /\ p = "readying" => call[c].pc = "applying"
  BY DEF ApplyOwnPolicy, CancelFailedStart
<1>3. /\ call[c].pc \in {"applying", "cancelling"}
      /\ UNCHANGED <<coordinator, factory, store>>
  BY DEF ApplyOwnPolicy, CancelFailedStart
<1>4. CancelsOwn(c, p)
  BY <1>1, <1>2, <1>3, OwnCancelDoes
<1>5. /\ call'[c].pc = p /\ Asks(call[c], call'[c])
      /\ call'[c].named = call[c].named /\ call'[c].handle = call[c].handle
      /\ call'[c].result = call[c].result
      /\ \A d \in Calls \ {c} : Agree(call[d], call'[d])
      /\ \A d \in Calls : Asks(call[d], call'[d])
      /\ UNCHANGED <<bindings, store>>
  BY <1>4 DEF CancelsOwn, Agree, coordinator
<1>6. Stored(c)'
  BY <1>1, <1>2, <1>3, <1>5 DEF OpInv, Stored, Asks, Early, TypeOK
<1>7. Answers(c)'
  BY <1>5, AnswersStay
<1>8. call[c].pc # "idle" /\ call'[c].pc # "idle"
      /\ (call'[c].pc \in Owners => call[c].pc \in Owners)
  BY <1>2, <1>3, <1>5 DEF Owners
<1> QED
  BY <1>5, <1>6, <1>7, <1>8, OpMoves

LEMMA OpCut ==
  ASSUME IInv, OpInv, NEW c \in Calls, CleanupCutShort(c)
  PROVE  OpInv'
<1>1. TypeOK /\ CutsShort(c)
  BY CutDoes DEF IInv
<1>2. /\ call[c].pc \in {"cancelling", "releasing"}
      /\ call'[c].pc = "failed" /\ Asks(call[c], call'[c])
      /\ call'[c].named = call[c].named /\ call'[c].handle = call[c].handle
      /\ call'[c].result = call[c].result
      /\ \A d \in Calls \ {c} : Agree(call[d], call'[d])
      /\ \A d \in Calls : Asks(call[d], call'[d])
      /\ UNCHANGED <<bindings, store>>
  BY <1>1 DEF CutsShort, Agree, coordinator
<1>3. Stored(c)'
  BY <1>1, <1>2 DEF OpInv, Stored, Asks, Early, TypeOK
<1>4. Answers(c)'
  BY <1>2, AnswersStay
<1>5. call[c].pc # "idle" /\ call'[c].pc # "idle" /\ call'[c].pc \notin Owners
  BY <1>2 DEF Owners
<1> QED
  BY <1>2, <1>3, <1>4, <1>5, OpMoves

\* Steps of others, of consumers and of the server.
LEMMA OpOthers ==
  ASSUME IInv, OpInv, NEW c \in Calls,
         \/ ApplyDisconnectPolicy(c) \/ CancelElsewhere(c) \/ Consume(c)
         \/ CallFactory(c) \/ BuildGraph(c) \/ EndRun(c)
  PROVE  OpInv'
<1>1. TypeOK /\ call \in [Calls -> CallRecords] /\ SameButReady(call, call)
  BY DEF IInv, TypeOK, SameButReady, Agree, Asks
<1>2. CASE ApplyDisconnectPolicy(c)
  <2>1. CancelEffect(c, call)
    BY <1>1, <1>2, CancelReaches DEF ApplyDisconnectPolicy
  <2> QED
    BY <1>2, <2>1, OpRests DEF ApplyDisconnectPolicy, CancelEffect, SameButReady
<1>3. CASE CancelElsewhere(c)
  <2>1. SameButReady(call, call')
    BY <1>1, <1>3, FailReadyOnlyReady DEF CancelElsewhere, AbortFactory
  <2> QED
    BY <1>3, <2>1, OpRests DEF CancelElsewhere, coordinator, SameButReady
<1>4. CASE Consume(c)
  <2>1. PICK v \in {"closing", "closed"} : call' = [call EXCEPT ![c].consumer = v]
    BY <1>4 DEF Consume, ConsumerCloses, ConsumerReleases
  <2>2. \A d \in Calls : Agree(call[d], call'[d])
    BY <1>1, <2>1, ConsumerOnly
  <2> QED
    BY <1>4, <2>2, OpRests DEF Consume, ConsumerCloses, ConsumerReleases, server
<1>5. CASE BuildGraph(c)
  <2>1. SameButReady(call, [call EXCEPT ![factory[c]].ready = IF @ = "unset" THEN "ok" ELSE @])
    BY <1>1, ResolvingOnlyReady
  <2>2. SameButReady(call, FailReady(call, factory[c]))
    BY <1>1, FailReadyOnlyReady
  <2>3. /\ \/ call' = [call EXCEPT ![factory[c]].ready = IF @ = "unset" THEN "ok" ELSE @]
           \/ call' = FailReady(call, factory[c])
        /\ UNCHANGED <<bindings, store>>
    BY <1>5 DEF BuildGraph, coordinator
  <2>4. SameButReady(call, call')
    BY <2>1, <2>2, <2>3
  <2> QED
    BY <2>3, <2>4, OpRests DEF SameButReady
<1>6. CASE CallFactory(c) \/ EndRun(c)
  BY <1>6, OpRests DEF CallFactory, EndRun, coordinator, Agree, Asks
<1> QED
  BY <1>2, <1>3, <1>4, <1>5, <1>6

LEMMA OpInit ==
  ASSUME Init
  PROVE  OpInv
<1>1. \A k \in Keys : bindings[k] = None
  BY DEF Init
<1>2. \A c \in Calls : call[c] = NewCall /\ c \notin store
  BY DEF Init
<1>3. ASSUME NEW c \in Calls
      PROVE  Begun(c) /\ Owns(c) /\ Stored(c) /\ Answers(c)
  BY <1>2, <1>3 DEF NewCall, Begun, Owns, Stored, Answers, Owners
<1> QED
  BY <1>1, <1>3 DEF OpInv, Bound

LEMMA OpNext ==
  ASSUME IInv, OpInv, [Next]_vars
  PROVE  OpInv'
<1>1. CASE UNCHANGED vars
  BY <1>1, OpRests DEF vars, Agree, Asks
<1>2. CASE StartEntry
  BY <1>2, OpStartEntry
<1>3. CASE Disconnect
  BY <1>3, OpRests DEF Disconnect, server, Agree, Asks
<1>4. ASSUME NEW c \in Calls, Proceed(c)
      PROVE  OpInv'
  BY <1>4, OpTakeHandle, OpLookup, OpFetchExisting, OpOpen, OpBindThread, OpAttach,
     OpStartOfficialRun, OpRecordRelation, OpOwnCancel, OpTakeExecution, OpReturnHandle,
     OpInterrupt, OpLeaving DEF Proceed
<1>5. ASSUME NEW c \in Calls,
             \/ StartRun(c) \/ RemoteFails(c) \/ CleanupCutShort(c) \/ Consume(c)
             \/ Serve(c) \/ EndRun(c) \/ CancelElsewhere(c)
             \/ ApplyDisconnectPolicy(c)
      PROVE  OpInv'
  BY <1>5, OpStartRun, OpRemoteFails, OpCut, OpOthers DEF Serve
<1> QED
  BY <1>1, <1>2, <1>3, <1>4, <1>5 DEF Next

\* Whoever is on the path of a start owns its operation, along every behaviour.
THEOREM OperationInvariant == Spec => [](IInv /\ OpInv)
<1>1. Init => IInv /\ OpInv
  BY InitEstablishes, OpInit
<1>2. IInv /\ OpInv /\ [Next]_vars => (IInv /\ OpInv)'
  BY NextKeeps, OpNext
<1> QED
  BY <1>1, <1>2, PTL DEF Spec

\* An operation_id is idempotent within its caller: the Lifecycle store never
\* binds it to two Runs, and every call that gets a handle gets that Run's, of
\* the target it asked for.
THEOREM OperationsIdempotent == Spec => []OperationIdempotent
<1>1. IInv /\ OpInv => OperationIdempotent
  <2> SUFFICES ASSUME IInv, OpInv
               PROVE  OperationIdempotent
    OBVIOUS
  <2>2. /\ store \subseteq Calls
        /\ \A c \in Calls : call[c].result # None => call[c].result \in store /\ Serves(call[c].result, c)
        /\ \A c \in store : \A r \in store : call[r].key = call[c].key => r = c
    <3>1. store \subseteq Calls
      BY DEF IInv, TypeOK
    <3>2. \A c \in Calls : Answers(c) /\ Stored(c)
      BY DEF OpInv
    <3>3. \A c \in store : \A r \in store : call[r].key = call[c].key => r = c
      BY <3>1, <3>2 DEF Stored
    <3> QED
      BY <3>1, <3>2, <3>3 DEF Answers
  <2>3. ASSUME NEW c \in Calls, call[c].result # None, NEW d \in Calls, call[d].key = call[c].key
        PROVE  call[d].result \in {None, call[c].result}
    BY <2>2, <2>3 DEF Serves
  <2> QED
    BY <2>2, <2>3 DEF OperationIdempotent, Serves
<1> QED
  BY <1>1, OperationInvariant, PTL

-----------------------------------------------------------------------------
(* Where a call's answers come from.  A consumer belongs to a Run whose    *)
(* graph was built; a Thread is the call's own or the one it asked for; a  *)
(* result is a Run whose start is answered; a call is made by code that a  *)
(* graph factory of this Lifecycle built.                                  *)

Answered == Failing \cup {"done"}

History(c) ==
  /\ call[c].consumer # "none" =>
       call[c].pc \in {"fetching"} \cup Answered /\ call[c].named /\ call[c].ready = "ok"
  /\ call[c].thread # None =>
       call[c].thread = IF call[c].want = None THEN c ELSE call[c].want
  /\ call[c].result # None => call[call[c].result].pc \in Answered
  /\ call[c].ready = "ok" => \E r \in Calls : factory[r] = c
  /\ c = Entry => call[c].by = None /\ call[c].want = None
  /\ c # Entry /\ call[c].pc # "idle" =>
       call[c].by \in Calls /\ factory[call[c].by] # None

Built(r) ==
  /\ run[r] \in {"none", "pending"} => factory[r] = None
  /\ run[r] = "building" => factory[r] # None

EntryFirst ==
  call[Entry].pc \in Early => \A c \in Calls \ {Entry} : call[c].pc = "idle"

HistoryInv == EntryFirst /\ \A c \in Calls : History(c) /\ Built(c)

\* Futures only fail: what cancel_official_run does to the calls.
OnlyFails(cs, ds) ==
  \A c \in Calls :
    /\ ds[c].consumer = cs[c].consumer
    /\ ds[c].ready = cs[c].ready \/ (cs[c].ready = "unset" /\ ds[c].ready = "error")

LEMMA FailReadyFails ==
  ASSUME NEW cs \in [Calls -> CallRecords], NEW c
  PROVE  /\ OnlyFails(cs, FailReady(cs, c))
         /\ c \in Calls => FailReady(cs, c)[c].ready # "unset"
<1> DEFINE value == IF cs[c].ready = "unset" THEN "error" ELSE cs[c].ready
           new == [cs[c] EXCEPT !.ready = value]
           ds == FailReady(cs, c)
<1>1. CASE c \notin Calls
  <2>1. ds = cs
    BY <1>1 DEF FailReady
  <2> QED
    BY <1>1, <2>1 DEF OnlyFails
<1>2. CASE c \in Calls
  <2>1. cs[c] \in CallRecords
    BY <1>2
  <2>2. /\ new.ready = value /\ new.consumer = cs[c].consumer
        /\ value # "unset" /\ (value = cs[c].ready \/ (cs[c].ready = "unset" /\ value = "error"))
    BY <2>1 DEF CallRecords
  <2>3. ds = [cs EXCEPT ![c] = new]
    BY DEF FailReady
  <2> HIDE DEF new, value, ds
  <2>4. ds[c] = new /\ \A d \in Calls \ {c} : ds[d] = cs[d]
    BY <1>2, <2>3
  <2> QED
    BY <2>2, <2>4 DEF OnlyFails, ds
<1> QED
  BY <1>1, <1>2

LEMMA AbortFactoryFails ==
  ASSUME NEW cs \in [Calls -> CallRecords], NEW r
  PROVE  SameButReady(cs, AbortFactory(cs, r)) /\ OnlyFails(cs, AbortFactory(cs, r))
<1>1. SameButReady(cs, cs) /\ OnlyFails(cs, cs)
  BY DEF SameButReady, OnlyFails, Agree, Asks
<1>2. /\ SameButReady(cs, FailReady(cs, factory[r]))
      /\ OnlyFails(cs, FailReady(cs, factory[r]))
  BY FailReadyOnlyReady, FailReadyFails
<1> QED
  BY <1>1, <1>2 DEF AbortFactory

\* cancel_official_run on calls cs: a Run that is over by it, and whose start
\* holds the binding and knows the id, has told its start, unless the answer of
\* the cancel was lost.
CancelTells(r, cs) ==
  /\ OnlyFails(cs, call')
  /\ run' = run \/ (ActiveRun(r) /\ run' = [run EXCEPT ![r] = "cancelled"])
  /\ run' # run /\ bindings[cs[r].key] = r /\ cs[r].named =>
       call'[r].ready # "unset" \/ <<"unheard", r>> \in faults'

LEMMA CancelIsTold ==
  ASSUME TypeOK, NEW r \in Calls, NEW cs \in [Calls -> CallRecords],
         CancelOfficialRun(r, cs)
  PROVE  CancelTells(r, cs)
<1> DEFINE mid == AbortFactory(cs, r)
<1>1. OnlyFails(cs, cs)
  BY DEF OnlyFails
<1>2. CASE /\ ActiveRun(r) /\ run' = [run EXCEPT ![r] = "cancelled"]
           /\ call' = TellStarter(mid, r)
  <2>1. SameButReady(cs, mid) /\ OnlyFails(cs, mid) /\ mid \in [Calls -> CallRecords]
    BY AbortFactoryFails DEF SameButReady
  <2>2. OnlyFails(mid, FailReady(mid, r)) /\ FailReady(mid, r)[r].ready # "unset"
        /\ OnlyFails(mid, mid)
    BY <2>1, FailReadyFails DEF OnlyFails
  <2> HIDE DEF mid
  <2>3. OnlyFails(mid, call')
    BY <1>2, <2>2 DEF TellStarter
  <2>4. OnlyFails(cs, call')
    BY <2>1, <2>3 DEF OnlyFails
  <2>5. mid[r].key = cs[r].key /\ mid[r].named = cs[r].named
    BY <2>1 DEF SameButReady, Agree, Asks
  <2> QED
    BY <1>2, <2>2, <2>4, <2>5 DEF TellStarter, CancelTells
<1>3. CASE run' = run /\ call' = cs
  BY <1>1, <1>3 DEF CancelTells
<1>4. CASE /\ ActiveRun(r) /\ run' = [run EXCEPT ![r] = "cancelled"]
           /\ call' = mid /\ Fault("unheard", r)
  BY <1>4, AbortFactoryFails DEF CancelTells, Fault
<1> QED
  BY <1>2, <1>3, <1>4 DEF CancelOfficialRun

\* What a step does to a call that does not take it.
Onlooks(d) ==
  /\ Agree(call[d], call'[d]) /\ call'[d].consumer = call[d].consumer
  /\ \/ call'[d].ready = call[d].ready
     \/ /\ call[d].ready = "unset"
        /\ call'[d].ready = "ok" => \E r \in Calls : factory[r] = d

\* A cleanup cut short fails futures and touches no consumer; and the entry's is
\* never cut short, for no Run made that call.
Cuts(c) ==
  /\ CutsShort(c) /\ c # Entry /\ \A d \in Calls \ {c} : Onlooks(d)
  /\ call'[c].consumer = call[c].consumer
  /\ call'[c].ready = call[c].ready \/ (call[c].ready = "unset" /\ call'[c].ready = "error")

LEMMA CutOnlooks ==
  ASSUME IInv, HistoryInv, NEW c \in Calls, CleanupCutShort(c)
  PROVE  Cuts(c)
<1> DEFINE new == [call[c] EXCEPT !.pc = "failed"]
           cs == [call EXCEPT ![c].pc = "failed"]
<1>1. TypeOK /\ call[c] \in CallRecords /\ "failed" \in Pcs /\ CutsShort(c)
  BY CutDoes DEF IInv, TypeOK, Pcs, Settled
<1>2. new \in CallRecords /\ new.consumer = call[c].consumer /\ new.ready = call[c].ready
  BY <1>1 DEF CallRecords
<1>3. cs = [call EXCEPT ![c] = new]
  OBVIOUS
<1> HIDE DEF new
<1>4. /\ cs \in [Calls -> CallRecords]
      /\ cs[c] = new /\ \A d \in Calls \ {c} : cs[d] = call[d]
  BY <1>1, <1>2, <1>3 DEF TypeOK
<1>5. call' = cs \/ call' = AbortFactory(cs, c)
  BY DEF CleanupCutShort
<1> HIDE DEF cs
<1>6. OnlyFails(cs, call')
  BY <1>4, <1>5, AbortFactoryFails DEF OnlyFails
<1>7. c # Entry
  BY DEF CleanupCutShort, Interrupted, HistoryInv, History
<1> QED
  BY <1>1, <1>2, <1>4, <1>6, <1>7 DEF Cuts, CutsShort, OnlyFails, Onlooks

\* A step of call c, which has begun, or of none: the rest follows from its own
\* history and from what becomes of Runs and of graphs.
LEMMA HistoryMoves ==
  ASSUME IInv, HistoryInv, NEW c \in Calls,
         \A d \in Calls \ {c} : Onlooks(d), Asks(call[c], call'[c]),
         call[c].pc \in Answered => call'[c].pc \in Answered,
         call[c].pc # "idle" \/ Onlooks(c),
         call'[c].pc \in Early => call[c].pc \in Early,
         \A d \in Calls : factory[d] = None \/ factory'[d] = factory[d],
         \A d \in Calls : Built(d)', History(c)'
  PROVE  HistoryInv'
<1>1. TypeOK /\ c \in Calls /\ Entry \in Calls
  BY EntryIsACall DEF IInv
<1>2. EntryFirst'
  BY <1>1 DEF HistoryInv, EntryFirst, Onlooks, Agree, Early
<1>3. ASSUME NEW d \in Calls \ {c}
      PROVE  History(d)'
  <2>1. History(d) /\ Onlooks(d) /\ Agree(call[d], call'[d]) /\ Asks(call[d], call'[d])
    BY DEF HistoryInv, Onlooks, Agree
  <2>2. \A r \in Calls : call[r].pc \in Answered => call'[r].pc \in Answered
    BY DEF Onlooks, Agree
  <2>3. call[d].result \in Calls \cup {None}
    BY <1>1 DEF TypeOK, CallRecords
  <2>4. /\ call'[d].ready = "ok" => \E r \in Calls : factory[r] = d
        /\ d # None
    BY <2>1, NoneIsNoCall DEF History, Onlooks
  <2>5. call'[d].ready = "ok" => \E r \in Calls : factory'[r] = d
    BY <2>4
  <2> QED
    BY <2>1, <2>2, <2>3, <2>5 DEF History, Onlooks, Agree, Asks
<1> QED
  BY <1>2, <1>3 DEF HistoryInv

\* The same when neither Runs nor graphs change.
LEMMA HistoryWalks ==
  ASSUME IInv, HistoryInv, NEW c \in Calls,
         \A d \in Calls \ {c} : call'[d] = call[d], Asks(call[c], call'[c]),
         call[c].pc \in Answered => call'[c].pc \in Answered,
         call[c].pc # "idle", call'[c].pc \in Early => call[c].pc \in Early,
         UNCHANGED <<run, factory>>, History(c)'
  PROVE  HistoryInv'
<1>1. \A d \in Calls \ {c} : Onlooks(d)
  BY DEF Onlooks, Agree, Asks
<1>2. \A d \in Calls : Built(d)'
  BY DEF HistoryInv, Built
<1> QED
  BY <1>1, <1>2, HistoryMoves

LEMMA HistoryRaises ==
  ASSUME IInv, HistoryInv, NEW c \in Calls, Raise(c), call[c].pc \in Owners,
         \A d \in Calls : Built(d)', UNCHANGED factory
  PROVE  HistoryInv'
<1>1. TypeOK /\ call[c].pc # "idle"
  BY DEF IInv, Owners
<1>2. RaiseEffect(c)
  BY <1>1, RaiseDoes
<1>3. \A d \in Calls \ {c} : Onlooks(d)
  BY <1>2 DEF RaiseEffect, Onlooks, Agree, Asks
<1>4. call'[c].pc \in {"cancelling", "closing"} /\ Asks(call[c], call'[c])
  BY <1>2 DEF RaiseEffect
<1>5. \A r \in Calls : call[r].pc \in Answered => call'[r].pc \in Answered
  BY <1>3, <1>4 DEF Onlooks, Agree, Answered, Failing
<1>6. call[c].result \in Calls \cup {None}
  BY <1>1 DEF TypeOK, CallRecords
<1>7. call[c].ready # "unset" => call'[c].ready = call[c].ready
  BY <1>2 DEF RaiseEffect
<1>8. call'[c].ready = "ok" => call[c].ready = "ok"
  BY <1>2 DEF RaiseEffect
<1>9. History(c)'
  <2>1. /\ call'[c].thread = call[c].thread /\ call'[c].named = call[c].named
        /\ call'[c].result = call[c].result /\ call'[c].consumer = call[c].consumer
    BY <1>2 DEF RaiseEffect
  <2>2. call'[c].pc \in Answered
    BY <1>4 DEF Answered, Failing
  <2> QED
    BY <1>1, <1>4, <1>5, <1>6, <1>7, <1>8, <2>1, <2>2 DEF HistoryInv, History, Asks
<1> QED
  BY <1>1, <1>3, <1>4, <1>5, <1>9, HistoryMoves DEF Early

LEMMA HistoryGoto ==
  ASSUME IInv, HistoryInv, NEW c \in Calls, NEW p \in Pcs \ {"idle"}, Goto(c, p),
         call[c].pc # "idle", call[c].pc \in {"fetching"} \cup Answered => p \in Answered,
         p \in Early => call[c].pc \in Early, UNCHANGED <<run, factory>>
  PROVE  HistoryInv'
<1>1. TypeOK /\ p \in Pcs
  BY DEF IInv
<1>2. GotoEffect(c, p)
  BY <1>1, GotoDoes
<1>3. \A r \in Calls : call[r].pc \in Answered => call'[r].pc \in Answered
  BY <1>2 DEF GotoEffect, Answered
<1>4. call[c].result \in Calls \cup {None}
  BY <1>1 DEF TypeOK, CallRecords
<1>5. History(c)'
  BY <1>2, <1>3, <1>4 DEF HistoryInv, History, GotoEffect, Asks, Answered
<1> QED
  BY <1>2, <1>3, <1>5, HistoryWalks DEF GotoEffect

\* What the entry begins with.
EntryEffect ==
  /\ call' \in [Calls -> CallRecords] /\ \A d \in Calls \ {Entry} : call'[d] = call[d]
  /\ call[Entry].pc = "idle" /\ call'[Entry].pc = "opening"
  /\ call'[Entry].key = EntryKey /\ call'[Entry].target = EntryTarget
  /\ call'[Entry].by = call[Entry].by /\ call'[Entry].want = call[Entry].want
  /\ call'[Entry].owner = call[Entry].owner /\ call'[Entry].thread = call[Entry].thread
  /\ call'[Entry].named = call[Entry].named /\ call'[Entry].ready = call[Entry].ready
  /\ call'[Entry].handle = call[Entry].handle /\ call'[Entry].result = call[Entry].result
  /\ call'[Entry].consumer = call[Entry].consumer
  /\ bindings' = [bindings EXCEPT ![EntryKey] = Entry] /\ active' = TRUE
  /\ UNCHANGED <<sessions, relations, disconnected, todo, server, faults>>

LEMMA StartEntryDoes ==
  ASSUME TypeOK, StartEntry
  PROVE  EntryEffect
<1> DEFINE new == [call[Entry] EXCEPT !.pc = "opening", !.key = EntryKey, !.target = EntryTarget]
<1>1. Entry \in Calls /\ EntryKey \in Keys /\ call[Entry] \in CallRecords /\ "opening" \in Pcs
      /\ EntryTarget \in Targets
  BY EntryIsACall, CoordinatorAssumption DEF TypeOK, Pcs
<1>2. /\ call' = [call EXCEPT ![Entry] = new] /\ call[Entry].pc = "idle"
      /\ bindings' = [bindings EXCEPT ![EntryKey] = Entry] /\ active' = TRUE
      /\ UNCHANGED <<sessions, relations, disconnected, todo, server, faults>>
  BY DEF StartEntry
<1>3. new \in CallRecords
  BY <1>1 DEF CallRecords
<1>4. /\ new.pc = "opening" /\ new.key = EntryKey /\ new.target = EntryTarget
      /\ new.by = call[Entry].by /\ new.want = call[Entry].want
      /\ new.owner = call[Entry].owner /\ new.thread = call[Entry].thread
      /\ new.named = call[Entry].named /\ new.ready = call[Entry].ready
      /\ new.handle = call[Entry].handle /\ new.result = call[Entry].result
      /\ new.consumer = call[Entry].consumer
  BY <1>1 DEF CallRecords
<1> HIDE DEF new
<1>5. /\ call' \in [Calls -> CallRecords] /\ call'[Entry] = new
      /\ \A d \in Calls \ {Entry} : call'[d] = call[d]
  BY <1>1, <1>2, <1>3 DEF TypeOK
<1> QED
  BY <1>2, <1>4, <1>5 DEF EntryEffect

\* A call that begins was idle, so nobody's answer refers to it.
LEMMA HistoryBegins ==
  ASSUME IInv, HistoryInv, NEW c \in Calls, call[c].pc = "idle",
         \A d \in Calls \ {c} : call'[d] = call[d], UNCHANGED <<run, factory>>,
         History(c)', EntryFirst'
  PROVE  HistoryInv'
<1>1. TypeOK /\ call[c].pc \notin Answered
  BY DEF IInv, Answered, Failing
<1>2. ASSUME NEW d \in Calls \ {c}
      PROVE  History(d)'
  <2>1. History(d) /\ call'[d] = call[d]
    BY DEF HistoryInv
  <2>2. call[d].result # None => call'[call[d].result].pc \in Answered
    <3>1. call[d].result \in Calls \cup {None}
      BY <1>1 DEF TypeOK, CallRecords
    <3> QED
      BY <1>1, <2>1, <3>1 DEF History
  <2> QED
    BY <2>1, <2>2 DEF History
<1>3. \A d \in Calls : Built(d)'
  BY DEF HistoryInv, Built
<1> QED
  BY <1>2, <1>3 DEF HistoryInv

LEMMA HistoryStartEntry ==
  ASSUME IInv, OpInv, HistoryInv, StartEntry
  PROVE  HistoryInv'
<1>1. TypeOK /\ EntryEffect /\ Entry \in Calls /\ UNCHANGED <<run, factory>>
  BY StartEntryDoes, EntryIsACall DEF IInv, StartEntry, server
<1>2. call[Entry].result = None /\ call[Entry].thread = None
  BY <1>1 DEF OpInv, Begun, EntryEffect
<1>3. History(Entry)'
  BY <1>1, <1>2 DEF HistoryInv, History, EntryEffect, Answered, Failing
<1>4. EntryFirst'
  BY <1>1 DEF HistoryInv, EntryFirst, EntryEffect, Early
<1> QED
  BY <1>1, <1>3, <1>4, HistoryBegins DEF EntryEffect

LEMMA HistoryStartRun ==
  ASSUME IInv, OpInv, HistoryInv, NEW c \in Calls, StartRun(c)
  PROVE  HistoryInv'
<1>1. PICK r \in Calls, op \in Ops, target \in Targets, want \in KnownThreads \cup {None} :
        StartEffect(c, r, op, target, want)
  BY StartRunDoes
<1>2. /\ call[c].pc = "idle" /\ c # Entry /\ run[r] = "running" /\ factory[r] # None
      /\ \A d \in Calls \ {c} : call'[d] = call[d]
      /\ call'[c].by = r /\ call'[c].result = call[c].result /\ call'[c].thread = call[c].thread
      /\ call'[c].consumer = call[c].consumer /\ call'[c].ready = call[c].ready
  BY <1>1 DEF StartEffect
<1>3. TypeOK /\ UNCHANGED <<run, factory>> /\ Entry \in Calls
  BY EntryIsACall DEF IInv, StartRun, server
<1>4. call[c].result = None /\ call[c].thread = None /\ call[c].consumer = "none"
  <2>1. call[c].consumer = "none"
    BY <1>2 DEF HistoryInv, History, Answered, Failing
  <2> QED
    BY <1>2, <2>1 DEF OpInv, Begun
<1>5. History(c)'
  BY <1>2, <1>3, <1>4 DEF HistoryInv, History
<1>6. EntryFirst'
  <2>1. call[r].pc \notin Early
    BY <1>2 DEF IInv, CallInv, Path
  <2>2. call[Entry].pc \notin Early
    BY <2>1 DEF HistoryInv, EntryFirst, Early
  <2> QED
    BY <1>2, <1>3, <2>2 DEF EntryFirst
<1> QED
  BY <1>2, <1>3, <1>5, <1>6, HistoryBegins

LEMMA HistoryTakeHandle ==
  ASSUME IInv, OpInv, HistoryInv, NEW c \in Calls, TakeHandle(c)
  PROVE  HistoryInv'
<1>1. TypeOK /\ call[c].pc = "waiting" /\ UNCHANGED <<run, factory>>
  BY DEF IInv, TakeHandle, server
<1>2. CASE Goto(c, "failed")
  <2>1. "failed" \in Pcs \ {"idle"} /\ "failed" \in Answered /\ call[c].pc \in Early
    BY <1>1 DEF Pcs, Settled, Answered, Failing, Early
  <2> QED
    BY <1>1, <1>2, <2>1, HistoryGoto
<1>3. CASE TakesHandle(c)
  <2> DEFINE o == call[c].owner
  <2>1. o \in Calls /\ History(o) /\ History(c) /\ Answers(o) /\ call[o].handle = "set"
    BY <1>1, <1>3 DEF TakesHandle, HistoryInv, OpInv, IInv, CallInv, Path
  <2>2. call[call[o].result].pc \in Answered /\ call[o].result \in Calls
    BY <1>1, <2>1 DEF Answers, History, TypeOK
  <2>3. /\ call'[c].pc = "done" /\ call'[c].result = call[o].result
        /\ Asks(call[c], call'[c]) /\ \A d \in Calls \ {c} : call'[d] = call[d]
        /\ call'[c].thread = call[c].thread /\ call'[c].consumer = call[c].consumer
        /\ call'[c].ready = call[c].ready
    BY <1>3 DEF TakesHandle
  <2>4. call[c].consumer = "none"
    BY <1>1, <2>1 DEF History, Answered, Failing
  <2>5. call'[call'[c].result].pc \in Answered
    BY <2>2, <2>3 DEF Answered
  <2>6. History(c)'
    BY <1>1, <2>1, <2>3, <2>4, <2>5 DEF History, Asks
  <2> QED
    BY <1>1, <2>3, <2>6, HistoryWalks DEF Answered, Failing, Early
<1> QED
  BY <1>2, <1>3, TakeHandleDoes

LEMMA HistoryLookup ==
  ASSUME IInv, OpInv, HistoryInv, NEW c \in Calls, Lookup(c)
  PROVE  HistoryInv'
<1>1. TypeOK /\ call[c].pc = "lookup" /\ UNCHANGED <<run, factory>>
  BY DEF IInv, Lookup, server
<1>2. call[c].pc \in Owners /\ call[c].pc \in Early /\ \A d \in Calls : Built(d)'
  BY <1>1 DEF Owners, Early, HistoryInv, Built
<1>3. CASE Raise(c)
  BY <1>1, <1>2, <1>3, HistoryRaises
<1>4. CASE Goto(c, "opening")
  <2>1. "opening" \in Pcs \ {"idle"}
    BY DEF Pcs
  <2> QED
    BY <1>1, <1>2, <1>4, <2>1, HistoryGoto DEF Answered, Failing
<1>5. ASSUME NEW r \in Calls, FindsExisting(c, r)
      PROVE  HistoryInv'
  <2>1. /\ call'[c].pc = "existing" /\ call'[c].result = call[c].result
        /\ Asks(call[c], call'[c]) /\ \A d \in Calls \ {c} : call'[d] = call[d]
        /\ call'[c].thread = call[c].thread /\ call'[c].consumer = call[c].consumer
        /\ call'[c].ready = call[c].ready
    BY <1>5 DEF FindsExisting
  <2>2. History(c) /\ call[c].consumer = "none" /\ call[c].result \in Calls \cup {None}
    BY <1>1 DEF HistoryInv, History, Answered, Failing, TypeOK, CallRecords
  <2>3. call'[c].result # None => call'[call'[c].result].pc \in Answered
    BY <1>1, <2>1, <2>2 DEF History, Answered, Failing
  <2>4. History(c)'
    BY <1>1, <2>1, <2>2, <2>3 DEF History, Asks
  <2> QED
    BY <1>1, <1>2, <2>1, <2>4, HistoryWalks DEF Answered, Failing
<1> QED
  BY <1>3, <1>4, <1>5, LookupDoes

\* A call that returns a Run returns one whose start is answered.
LEMMA HistoryReturns ==
  ASSUME IInv, HistoryInv, NEW c \in Calls, NEW h \in Calls, Returns(c, h),
         call[c].pc \in {"existing", "fetching"}, h = c \/ call[h].pc \in Answered,
         UNCHANGED <<run, factory>>
  PROVE  HistoryInv'
<1>1. /\ call'[c].pc = "done" /\ call'[c].result = h
      /\ Asks(call[c], call'[c]) /\ \A d \in Calls \ {c} : call'[d] = call[d]
      /\ call'[c].thread = call[c].thread /\ call'[c].consumer = call[c].consumer
      /\ call'[c].ready = call[c].ready /\ call'[c].named = call[c].named
  BY DEF Returns
<1>2. call'[c].pc \in Answered
  BY <1>1 DEF Answered
<1>3. call'[h].pc \in Answered
  BY <1>1, <1>2
<1>4. History(c)'
  BY <1>1, <1>2, <1>3 DEF HistoryInv, History, Asks
<1> QED
  BY <1>1, <1>2, <1>4, HistoryWalks DEF Early

\* The Run that an operation already has was started by a call that is answered.
LEMMA StoredIsAnswered ==
  ASSUME IInv, OpInv, NEW c \in Calls, NEW r \in store,
         call[c].pc \in {"lookup", "existing"}, call[r].key = call[c].key
  PROVE  call[r].pc \in Answered
<1>1. r \in Calls /\ Owns(c) /\ Owns(r) /\ Stored(r) /\ Stored(c) /\ call[r] \in CallRecords
  BY DEF OpInv, IInv, TypeOK
<1>2. call[r].pc \notin Early \cup {"recording"} /\ r # c
  BY <1>1 DEF Stored, Early
<1>3. call[r].pc \notin Owners
  BY <1>1, <1>2 DEF Owns, Owners
<1> QED
  BY <1>1, <1>2, <1>3 DEF CallRecords, Pcs, Settled, Early, Owners, Answered, Failing

LEMMA HistoryFetchExisting ==
  ASSUME IInv, OpInv, HistoryInv, NEW c \in Calls, FetchExisting(c)
  PROVE  HistoryInv'
<1>1. call[c].pc = "existing" /\ Returns(c, call[c].owner) /\ UNCHANGED <<run, factory>>
  BY FetchExistingDoes DEF IInv, server
<1>2. /\ call[c].owner \in store /\ call[call[c].owner].key = call[c].key
      /\ call[c].owner \in Calls
  BY <1>1 DEF OpInv, Answers, Serves, IInv, TypeOK
<1>3. call[call[c].owner].pc \in Answered
  BY <1>1, <1>2, StoredIsAnswered
<1> QED
  BY <1>1, <1>2, <1>3, HistoryReturns

LEMMA HistoryReturnHandle ==
  ASSUME IInv, OpInv, HistoryInv, NEW c \in Calls, ReturnHandle(c)
  PROVE  HistoryInv'
<1>1. call[c].pc = "fetching" /\ Returns(c, c) /\ UNCHANGED <<run, factory>>
  BY ReturnHandleDoes DEF IInv, server
<1> QED
  BY <1>1, HistoryReturns

LEMMA HistoryOpen ==
  ASSUME IInv, HistoryInv, NEW c \in Calls, Open(c)
  PROVE  HistoryInv'
<1>1. call[c].pc = "opening" /\ UNCHANGED <<run, factory>>
  BY DEF Open, server
<1>2. /\ call[c].pc \in Owners /\ call[c].pc \in Early /\ \A d \in Calls : Built(d)'
      /\ call[c].pc \notin {"fetching"} \cup Answered /\ "threading" \in Pcs \ {"idle"}
  BY <1>1 DEF Owners, Early, HistoryInv, Built, Answered, Failing, Pcs
<1> QED
  BY <1>1, <1>2, HistoryRaises, HistoryGoto DEF Open

LEMMA HistoryAttach ==
  ASSUME IInv, HistoryInv, NEW c \in Calls, Attach(c)
  PROVE  HistoryInv'
<1>1. call[c].pc = "attaching" /\ UNCHANGED <<run, factory>> /\ Goto(c, "starting")
  BY DEF Attach, server
<1>2. /\ call[c].pc \in Early /\ call[c].pc \notin {"fetching"} \cup Answered
      /\ "starting" \in Pcs \ {"idle"}
  BY <1>1 DEF Early, Answered, Failing, Pcs
<1> QED
  BY <1>1, <1>2, HistoryGoto

LEMMA HistoryBindThread ==
  ASSUME IInv, HistoryInv, NEW c \in Calls, BindThread(c)
  PROVE  HistoryInv'
<1>1. TypeOK /\ BindsThread(c)
  BY BindThreadDoes DEF IInv
<1>2. /\ call[c].pc = "threading" /\ call'[c].pc = "attaching" /\ Asks(call[c], call'[c])
      /\ \A d \in Calls \ {c} : call'[d] = call[d]
      /\ call'[c].thread = IF call[c].want = None THEN c ELSE call[c].want
      /\ call'[c].result = call[c].result /\ call'[c].consumer = call[c].consumer
      /\ call'[c].ready = call[c].ready /\ UNCHANGED <<run, factory>>
  BY <1>1 DEF BindsThread, server
<1>3. History(c) /\ call[c].consumer = "none" /\ call[c].result \in Calls \cup {None}
  BY <1>1, <1>2 DEF HistoryInv, History, Answered, Failing, TypeOK, CallRecords
<1>4. call'[c].result # None => call'[call'[c].result].pc \in Answered
  BY <1>2, <1>3 DEF History, Answered, Failing
<1>5. History(c)'
  BY <1>2, <1>3, <1>4 DEF History, Asks
<1> QED
  BY <1>2, <1>5, HistoryWalks DEF Answered, Failing, Early

LEMMA HistoryStartOfficialRun ==
  ASSUME IInv, HistoryInv, NEW c \in Calls, StartOfficialRun(c)
  PROVE  HistoryInv'
<1>1. /\ TypeOK /\ call[c].pc = "starting" /\ UNCHANGED <<factory, store>>
      /\ run' = [run EXCEPT ![c] = "pending"]
      /\ Raise(c) \/ StartsRun(c)
  BY StartOfficialRunDoes DEF IInv
<1>2. run[c] = "none"
  BY <1>1 DEF IInv, CallInv, Path, Early
<1>3. ASSUME NEW d \in Calls
      PROVE  Built(d)'
  <2>1. run'[d] = IF d = c THEN "pending" ELSE run[d]
    BY <1>1 DEF TypeOK
  <2> QED
    BY <1>1, <1>2, <2>1 DEF HistoryInv, Built
<1>4. CASE Raise(c)
  BY <1>1, <1>3, <1>4, HistoryRaises DEF Owners
<1>5. CASE StartsRun(c)
  <2>1. /\ call'[c].pc = "recording" /\ Asks(call[c], call'[c])
        /\ \A d \in Calls \ {c} : call'[d] = call[d]
        /\ call'[c].thread = call[c].thread
        /\ call'[c].result = call[c].result /\ call'[c].consumer = call[c].consumer
        /\ call'[c].ready = call[c].ready
    BY <1>5 DEF StartsRun
  <2>2. History(c) /\ call[c].consumer = "none" /\ call[c].result \in Calls \cup {None}
    BY <1>1 DEF HistoryInv, History, Answered, Failing, TypeOK, CallRecords
  <2>3. call'[c].result # None => call'[call'[c].result].pc \in Answered
    BY <1>1, <2>1, <2>2 DEF History, Answered, Failing
  <2>4. History(c)'
    BY <1>1, <2>1, <2>2, <2>3 DEF History, Asks
  <2>5. \A d \in Calls \ {c} : Onlooks(d)
    BY <2>1 DEF Onlooks, Agree, Asks
  <2>6. /\ call[c].pc \notin Answered /\ call[c].pc # "idle" /\ call'[c].pc \notin Early
        /\ \A d \in Calls : factory[d] = None \/ factory'[d] = factory[d]
    BY <1>1, <2>1 DEF Answered, Failing, Early
  <2> QED
    BY <1>3, <2>1, <2>4, <2>5, <2>6, HistoryMoves
<1> QED
  BY <1>1, <1>4, <1>5

LEMMA HistoryRecordRelation ==
  ASSUME IInv, HistoryInv, NEW c \in Calls, RecordRelation(c)
  PROVE  HistoryInv'
<1>1. call[c].pc = "recording" /\ UNCHANGED <<run, factory>>
  BY DEF RecordRelation
<1>2. /\ call[c].pc \in Owners /\ \A d \in Calls : Built(d)'
      /\ call[c].pc \notin {"fetching"} \cup Answered
  BY <1>1 DEF Owners, HistoryInv, Built, Answered, Failing
<1>3. CASE Raise(c)
  BY <1>1, <1>2, <1>3, HistoryRaises
<1>4. CASE Goto(c, IF disconnected /\ call[c].target \notin Continue
                   THEN "applying" ELSE "readying")
  <2> DEFINE p == IF disconnected /\ call[c].target \notin Continue
                  THEN "applying" ELSE "readying"
  <2>1. p \in Pcs \ {"idle"} /\ p \notin Early
    BY DEF Pcs, Early
  <2>2. Goto(c, p)
    BY <1>4
  <2> HIDE DEF p
  <2> QED
    BY <1>1, <1>2, <2>1, <2>2, HistoryGoto
<1> QED
  BY <1>3, <1>4 DEF RecordRelation

LEMMA HistoryTakeExecution ==
  ASSUME IInv, HistoryInv, NEW c \in Calls, TakeExecution(c)
  PROVE  HistoryInv'
<1>1. /\ TypeOK /\ call[c].pc = "readying" /\ UNCHANGED <<run, factory>>
      /\ Raise(c) \/ (call[c].ready = "ok" /\ TakesExecution(c))
  BY TakeExecutionDoes DEF IInv, server
<1>2. /\ call[c].pc \in Owners /\ call[c].named /\ \A d \in Calls : Built(d)'
      /\ call[c].pc \notin {"fetching"} \cup Answered
  BY <1>1 DEF Owners, HistoryInv, Built, Answered, Failing, IInv, CallInv, Path
<1>3. CASE Raise(c)
  BY <1>1, <1>2, <1>3, HistoryRaises
<1>4. CASE call[c].ready = "ok" /\ TakesExecution(c)
  <2>1. /\ call'[c].pc = IF c = Entry THEN "done" ELSE "fetching"
        /\ call'[c].result = IF c = Entry THEN c ELSE call[c].result
        /\ Asks(call[c], call'[c])
        /\ \A d \in Calls \ {c} : call'[d] = call[d]
        /\ call'[c].thread = call[c].thread /\ call'[c].named = call[c].named
        /\ call'[c].ready = "ok"
    BY <1>4 DEF TakesExecution
  <2>2. History(c) /\ call[c].result \in Calls \cup {None}
    BY <1>1 DEF HistoryInv, TypeOK, CallRecords
  <2>3. call'[c].result # None => call'[call'[c].result].pc \in Answered
    BY <1>1, <1>2, <2>1, <2>2 DEF History, Answered
  <2>4. call'[c].pc \in {"fetching"} \cup Answered /\ call'[c].pc \notin Early
    BY <2>1 DEF Answered, Early
  <2>5. History(c)'
    BY <1>1, <1>2, <1>4, <2>1, <2>2, <2>3, <2>4 DEF History, Asks
  <2> QED
    BY <1>1, <1>2, <2>1, <2>4, <2>5, HistoryWalks
<1> QED
  BY <1>1, <1>3, <1>4

LEMMA HistoryFails ==
  ASSUME IInv, HistoryInv, NEW c \in Calls, RemoteFails(c) \/ Interrupt(c)
  PROVE  HistoryInv'
<1>1. UNCHANGED <<run, factory>> /\ call[c].pc \in Pcs
  BY DEF RemoteFails, Interrupt, server, IInv, TypeOK, CallRecords
<1>2. CASE call[c].pc = "waiting"
  <2>1. Goto(c, "failed")
    BY <1>2 DEF RemoteFails, Interrupt
  <2>2. "failed" \in Pcs \ {"idle"} /\ "failed" \in Answered /\ call[c].pc \in Early
    BY <1>2 DEF Pcs, Settled, Answered, Failing, Early
  <2> QED
    BY <1>1, <1>2, <2>1, <2>2, HistoryGoto
<1>3. CASE call[c].pc # "waiting"
  <2>1. Raise(c) /\ call[c].pc \in Owners
    BY <1>1, <1>3 DEF RemoteFails, Interrupt, Pcs, Settled, Owners
  <2>2. \A d \in Calls : Built(d)'
    BY <1>1 DEF HistoryInv, Built
  <2> QED
    BY <1>1, <2>1, <2>2, HistoryRaises
<1> QED
  BY <1>2, <1>3

LEMMA HistoryLeaving ==
  ASSUME IInv, HistoryInv, NEW c \in Calls, CloseFailedStart(c) \/ ReleaseFailedStart(c)
  PROVE  HistoryInv'
<1>1. PICK p \in {"releasing", "failed"} : Goto(c, p)
  BY DEF CloseFailedStart, ReleaseFailedStart
<1>2. call[c].pc \in {"closing", "releasing"} /\ UNCHANGED <<run, factory>>
  BY DEF CloseFailedStart, ReleaseFailedStart, server
<1>3. p \in Pcs \ {"idle"} /\ p \in Answered /\ p \notin Early
  BY DEF Pcs, Settled, Answered, Failing, Early
<1> QED
  BY <1>1, <1>2, <1>3, HistoryGoto

\* A Run that is cancelled leaves its graph factory as it was.
LEMMA CancelledStaysBuilt ==
  ASSUME TypeOK, HistoryInv, NEW r \in Calls,
         run' = run \/ run' = [run EXCEPT ![r] = "cancelled"], UNCHANGED factory
  PROVE  \A d \in Calls : Built(d)'
<1>1. ASSUME NEW d \in Calls
      PROVE  run'[d] = run[d] \/ run'[d] = "cancelled"
  BY DEF TypeOK
<1> QED
  BY <1>1 DEF HistoryInv, Built

\* The ready future and the consumer of c as its own cancel leaves them.
LEMMA OwnCancelTells ==
  ASSUME TypeOK, NEW c \in Calls, NEW p \in {"readying", "closing"},
         CancelOfficialRun(c, [call EXCEPT ![c].pc = p])
  PROVE  /\ \A d \in Calls : call'[d].consumer = call[d].consumer
         /\ \A d \in Calls : \/ call'[d].ready = call[d].ready
                             \/ call[d].ready = "unset" /\ call'[d].ready = "error"
         /\ run' = run \/ (ActiveRun(c) /\ run' = [run EXCEPT ![c] = "cancelled"])
         /\ run' # run /\ bindings[call[c].key] = c /\ call[c].named =>
              call'[c].ready # "unset" \/ <<"unheard", c>> \in faults'
<1> DEFINE new == [call[c] EXCEPT !.pc = p]
           cs == [call EXCEPT ![c].pc = p]
<1>1. call[c] \in CallRecords /\ p \in Pcs
  BY DEF TypeOK, Pcs
<1>2. /\ new \in CallRecords /\ new.consumer = call[c].consumer /\ new.ready = call[c].ready
      /\ new.key = call[c].key /\ new.named = call[c].named
  BY <1>1 DEF CallRecords
<1>3. cs = [call EXCEPT ![c] = new]
  OBVIOUS
<1>4. CancelOfficialRun(c, cs)
  OBVIOUS
<1> HIDE DEF new
<1>5. /\ cs \in [Calls -> CallRecords]
      /\ cs[c] = new /\ \A d \in Calls \ {c} : cs[d] = call[d]
  BY <1>2, <1>3 DEF TypeOK
<1> HIDE DEF cs
<1>6. CancelTells(c, cs)
  BY <1>4, <1>5, CancelIsTold
<1> QED
  BY <1>2, <1>5, <1>6 DEF CancelTells, OnlyFails

LEMMA HistoryOwnCancel ==
  ASSUME IInv, HistoryInv, NEW c \in Calls, ApplyOwnPolicy(c) \/ CancelFailedStart(c)
  PROVE  HistoryInv'
<1>1. TypeOK
  BY DEF IInv
<1>2. PICK p \in {"readying", "closing"} :
        /\ CancelOfficialRun(c, [call EXCEPT ![c].pc = p])
        /\ call[c].pc = IF p = "readying" THEN "applying" ELSE "cancelling"
  BY DEF ApplyOwnPolicy, CancelFailedStart
<1>3. /\ call[c].pc \in {"applying", "cancelling"}
      /\ UNCHANGED <<coordinator, factory, store>>
  BY DEF ApplyOwnPolicy, CancelFailedStart
<1>4. CancelsOwn(c, p)
  BY <1>1, <1>2, <1>3, OwnCancelDoes
<1>5. /\ call'[c].pc = p /\ Asks(call[c], call'[c])
      /\ call'[c].named = call[c].named /\ call'[c].thread = call[c].thread
      /\ call'[c].result = call[c].result
      /\ \A d \in Calls \ {c} : Agree(call[d], call'[d])
  BY <1>4 DEF CancelsOwn
<1>6. /\ \A d \in Calls : call'[d].consumer = call[d].consumer
      /\ \A d \in Calls : \/ call'[d].ready = call[d].ready
                          \/ call[d].ready = "unset" /\ call'[d].ready = "error"
      /\ run' = run \/ run' = [run EXCEPT ![c] = "cancelled"]
  BY <1>1, <1>2, OwnCancelTells
<1>7. \A d \in Calls \ {c} : Onlooks(d)
  BY <1>5, <1>6 DEF Onlooks
<1>8. \A d \in Calls : Built(d)'
  BY <1>1, <1>3, <1>6, CancelledStaysBuilt
<1>9. \A r \in Calls : call[r].pc \in Answered => call'[r].pc \in Answered
  BY <1>2, <1>5 DEF Agree, Answered, Failing
<1>10. History(c)'
  <2>1. History(c) /\ call[c].result \in Calls \cup {None} /\ UNCHANGED factory
    BY <1>1, <1>3 DEF HistoryInv, TypeOK, CallRecords
  <2>2. call'[c].result # None => call'[call'[c].result].pc \in Answered
    BY <1>5, <1>9, <2>1 DEF History
  <2>3. call'[c].consumer = call[c].consumer /\ (call[c].consumer # "none" => p = "closing")
    BY <1>2, <1>6, <2>1 DEF History, Answered, Failing
  <2>4. call'[c].ready = "ok" <=> call[c].ready = "ok"
    BY <1>6
  <2>5. p = "closing" => call'[c].pc \in Answered
    BY <1>5 DEF Answered, Failing
  <2> QED
    BY <1>3, <1>5, <2>1, <2>2, <2>3, <2>4, <2>5 DEF History, Asks
<1>11. /\ call[c].pc # "idle" /\ call'[c].pc \notin Early
       /\ \A d \in Calls : factory[d] = None \/ factory'[d] = factory[d]
  BY <1>3, <1>5 DEF Early
<1> QED
  BY <1>5, <1>7, <1>8, <1>9, <1>10, <1>11, HistoryMoves

LEMMA HistoryCut ==
  ASSUME IInv, HistoryInv, NEW c \in Calls, Cuts(c)
  PROVE  HistoryInv'
<1>1. /\ TypeOK /\ History(c) /\ call[c].result \in Calls \cup {None}
      /\ call[c].pc \in {"cancelling", "releasing"} /\ call'[c].pc = "failed"
      /\ Asks(call[c], call'[c]) /\ call'[c].thread = call[c].thread
      /\ call'[c].named = call[c].named /\ call'[c].result = call[c].result
      /\ call'[c].consumer = call[c].consumer /\ UNCHANGED factory
      /\ call'[c].ready = call[c].ready
         \/ (call[c].ready = "unset" /\ call'[c].ready = "error")
      /\ \A d \in Calls \ {c} : Onlooks(d)
  BY DEF Cuts, CutsShort, IInv, TypeOK, CallRecords, HistoryInv
<1>2. \A d \in Calls : Built(d)'
  BY DEF Cuts, CutsShort, HistoryInv, Built
<1>3. \A r \in Calls : call[r].pc \in Answered => call'[r].pc \in Answered
  BY <1>1 DEF Onlooks, Agree, Answered, Failing
<1>4. call'[c].result # None => call'[call'[c].result].pc \in Answered
  BY <1>1, <1>3 DEF History
<1>5. call'[c].ready = "ok" <=> call[c].ready = "ok"
  BY <1>1
<1>6. call[c].pc \in Answered /\ call'[c].pc \in Answered
  BY <1>1 DEF Answered, Failing
<1>7. History(c)'
  BY <1>1, <1>4, <1>5, <1>6 DEF History, Asks
<1>8. call[c].pc # "idle" /\ call'[c].pc \notin Early
  BY <1>1 DEF Early
<1> QED
  BY <1>1, <1>2, <1>6, <1>7, <1>8, HistoryMoves

\* A step that takes no call, but may resolve futures.
LEMMA HistoryRests ==
  ASSUME IInv, HistoryInv, \A d \in Calls : Onlooks(d),
         \A d \in Calls : factory[d] = None \/ factory'[d] = factory[d],
         \A d \in Calls : Built(d)'
  PROVE  HistoryInv'
<1>1. Entry \in Calls /\ TypeOK
  BY EntryIsACall DEF IInv
<1>2. \A d \in Calls : call'[d].pc = call[d].pc
  BY DEF Onlooks, Agree
<1>3. History(Entry)'
  <2>1. History(Entry) /\ Onlooks(Entry)
    BY <1>1 DEF HistoryInv
  <2>2. call[Entry].result \in Calls \cup {None}
    BY <1>1 DEF TypeOK, CallRecords
  <2>3. call'[Entry].ready = "ok" => \E r \in Calls : factory[r] = Entry
    BY <2>1 DEF History, Onlooks
  <2>4. call'[Entry].ready = "ok" => \E r \in Calls : factory'[r] = Entry
    BY <1>1, <2>3, NoneIsNoCall
  <2> QED
    BY <1>2, <2>1, <2>2, <2>4 DEF History, Onlooks, Agree, Asks
<1> QED
  BY <1>1, <1>2, <1>3, HistoryMoves DEF Onlooks, Agree

LEMMA HistoryConsume ==
  ASSUME IInv, HistoryInv, NEW c \in Calls, Consume(c)
  PROVE  HistoryInv'
<1>1. PICK v \in {"closing", "closed"} : call' = [call EXCEPT ![c].consumer = v]
  BY DEF Consume, ConsumerCloses, ConsumerReleases
<1>2. /\ TypeOK /\ UNCHANGED <<run, factory>> /\ call[c].consumer \in {"on", "closing"}
  BY DEF IInv, Consume, ConsumerCloses, ConsumerReleases, server
<1> DEFINE new == [call[c] EXCEPT !.consumer = v]
<1>3. /\ new.pc = call[c].pc /\ new.named = call[c].named /\ new.ready = call[c].ready
      /\ new.thread = call[c].thread /\ new.result = call[c].result /\ Asks(call[c], new)
  BY <1>2 DEF TypeOK, CallRecords, Asks
<1>4. call' = [call EXCEPT ![c] = new]
  BY <1>1
<1> HIDE DEF new
<1>5. call'[c] = new /\ \A d \in Calls \ {c} : call'[d] = call[d]
  BY <1>2, <1>4 DEF TypeOK
<1>6. History(c) /\ call[c].result \in Calls \cup {None}
  BY <1>2 DEF HistoryInv, TypeOK, CallRecords
<1>7. History(c)'
  BY <1>2, <1>3, <1>5, <1>6 DEF History, Asks
<1>8. call[c].pc # "idle"
  BY <1>2, <1>6 DEF History, Answered, Failing
<1> QED
  BY <1>2, <1>3, <1>5, <1>7, <1>8, HistoryWalks

LEMMA HistoryOthers ==
  ASSUME IInv, OpInv, HistoryInv, NEW c \in Calls,
         \/ ApplyDisconnectPolicy(c) \/ CancelElsewhere(c) \/ Consume(c)
         \/ CallFactory(c) \/ BuildGraph(c) \/ EndRun(c)
  PROVE  HistoryInv'
<1>1. TypeOK /\ call \in [Calls -> CallRecords]
  BY DEF IInv, TypeOK
<1>2. CASE ApplyDisconnectPolicy(c)
  <2>1. CancelEffect(c, call) /\ CancelTells(c, call) /\ UNCHANGED factory
    BY <1>1, <1>2, CancelReaches, CancelIsTold DEF ApplyDisconnectPolicy
  <2>2. \A d \in Calls : Onlooks(d)
    BY <2>1 DEF CancelEffect, CancelTells, SameButReady, OnlyFails, Onlooks
  <2>3. \A d \in Calls : Built(d)'
    BY <1>1, <2>1, CancelledStaysBuilt DEF CancelTells
  <2> QED
    BY <2>1, <2>2, <2>3, HistoryRests
<1>3. CASE CancelElsewhere(c)
  <2>1. SameButReady(call, call') /\ OnlyFails(call, call') /\ UNCHANGED factory
    BY <1>1, <1>3, AbortFactoryFails DEF CancelElsewhere
  <2>2. \A d \in Calls : Onlooks(d)
    BY <2>1 DEF SameButReady, OnlyFails, Onlooks
  <2>3. \A d \in Calls : Built(d)'
    BY <1>1, <1>3, <2>1, CancelledStaysBuilt DEF CancelElsewhere
  <2> QED
    BY <2>1, <2>2, <2>3, HistoryRests
<1>4. CASE Consume(c)
  BY <1>4, HistoryConsume
<1>5. CASE CallFactory(c)
  <2>1. UNCHANGED call /\ run[c] = "pending" /\ call[c].key \in Keys
    BY <1>5 DEF CallFactory, IInv, CallInv, Path, Early
  <2>2. /\ run' = [run EXCEPT ![c] = IF ~active THEN "running"
                      ELSE IF bindings[call[c].key] = None THEN "ended" ELSE "building"]
        /\ factory' = [factory EXCEPT ![c] = IF active THEN bindings[call[c].key] ELSE None]
    BY <1>5 DEF CallFactory
  <2>3. factory[c] = None /\ \A d \in Calls : Built(d)
    BY <2>1 DEF HistoryInv, Built
  <2>4. \A d \in Calls : Built(d)'
    BY <1>1, <2>2, <2>3 DEF Built, TypeOK
  <2>5. \A d \in Calls : factory[d] = None \/ factory'[d] = factory[d]
    BY <1>1, <2>2, <2>3 DEF TypeOK
  <2>6. \A d \in Calls : Onlooks(d)
    BY <2>1 DEF Onlooks, Agree, Asks
  <2> QED
    BY <2>4, <2>5, <2>6, HistoryRests
<1>6. CASE BuildGraph(c)
  <2>1. /\ run[c] = "building" /\ UNCHANGED factory
        /\ run' = [run EXCEPT ![c] = "running"] \/ run' = [run EXCEPT ![c] = "ended"]
    BY <1>6 DEF BuildGraph
  <2>2. \A d \in Calls : Built(d)'
    BY <1>1, <2>1 DEF HistoryInv, Built, TypeOK
  <2>3. CASE call' = FailReady(call, factory[c])
    <3>1. SameButReady(call, call') /\ OnlyFails(call, call')
      BY <1>1, <2>3, FailReadyOnlyReady, FailReadyFails
    <3>2. \A d \in Calls : Onlooks(d)
      BY <3>1 DEF SameButReady, OnlyFails, Onlooks
    <3> QED
      BY <2>1, <2>2, <3>2, HistoryRests
  <2>4. CASE call' = [call EXCEPT ![factory[c]].ready = IF @ = "unset" THEN "ok" ELSE @]
    <3>1. SameButReady(call, call')
      BY <1>1, <2>4, ResolvingOnlyReady
    <3> DEFINE f == factory[c]
               new == [call[f] EXCEPT !.ready = IF call[f].ready = "unset" THEN "ok" ELSE call[f].ready]
    <3>2. f \in Calls
      BY <1>1, <2>1 DEF HistoryInv, Built, TypeOK
    <3>3. /\ new.consumer = call[f].consumer
          /\ new.ready = call[f].ready \/ call[f].ready = "unset"
      BY <1>1, <3>2 DEF CallRecords
    <3>4. call' = [call EXCEPT ![f] = new]
      BY <2>4
    <3>5. factory[c] = f
      OBVIOUS
    <3> HIDE DEF new, f
    <3>6. call'[f] = new /\ \A d \in Calls \ {f} : call'[d] = call[d]
      BY <1>1, <3>2, <3>4
    <3>7. \A d \in Calls : Onlooks(d)
      BY <3>1, <3>2, <3>3, <3>5, <3>6 DEF SameButReady, Onlooks
    <3> QED
      BY <2>1, <2>2, <3>7, HistoryRests
  <2> QED
    BY <1>6, <2>3, <2>4 DEF BuildGraph
<1>7. CASE EndRun(c)
  <2>1. /\ run[c] = "running" /\ UNCHANGED <<call, factory>>
        /\ run' = [run EXCEPT ![c] = "ended"]
    BY <1>7 DEF EndRun
  <2>2. \A d \in Calls : Built(d)'
    BY <1>1, <2>1 DEF HistoryInv, Built, TypeOK
  <2>3. \A d \in Calls : Onlooks(d)
    BY <2>1 DEF Onlooks, Agree, Asks
  <2> QED
    BY <2>1, <2>2, <2>3, HistoryRests
<1> QED
  BY <1>2, <1>3, <1>4, <1>5, <1>6, <1>7

LEMMA HistoryInit ==
  ASSUME Init
  PROVE  HistoryInv
<1>1. \A c \in Calls : call[c] = NewCall /\ run[c] = "none" /\ factory[c] = None
  BY DEF Init
<1>2. ASSUME NEW c \in Calls
      PROVE  History(c) /\ Built(c)
  BY <1>1, <1>2 DEF NewCall, History, Built
<1>3. EntryFirst
  BY <1>1 DEF NewCall, EntryFirst
<1> QED
  BY <1>2, <1>3 DEF HistoryInv

LEMMA HistoryNext ==
  ASSUME IInv, OpInv, HistoryInv, [Next]_vars
  PROVE  HistoryInv'
<1>1. CASE UNCHANGED vars \/ Disconnect
  <2>1. UNCHANGED <<call, run, factory>>
    BY <1>1 DEF vars, Disconnect, server
  <2>2. \A d \in Calls : Onlooks(d)
    BY <2>1 DEF Onlooks, Agree, Asks
  <2>3. \A d \in Calls : Built(d)'
    BY <2>1 DEF HistoryInv, Built
  <2> QED
    BY <2>1, <2>2, <2>3, HistoryRests
<1>2. CASE StartEntry
  BY <1>2, HistoryStartEntry
<1>3. ASSUME NEW c \in Calls, Proceed(c)
      PROVE  HistoryInv'
  BY <1>3, HistoryTakeHandle, HistoryLookup, HistoryFetchExisting, HistoryOpen,
     HistoryBindThread, HistoryAttach, HistoryStartOfficialRun, HistoryRecordRelation,
     HistoryOwnCancel, HistoryTakeExecution, HistoryReturnHandle, HistoryFails,
     HistoryLeaving DEF Proceed
<1>4. ASSUME NEW c \in Calls,
             \/ StartRun(c) \/ RemoteFails(c) \/ CleanupCutShort(c) \/ Consume(c)
             \/ Serve(c) \/ EndRun(c) \/ CancelElsewhere(c)
             \/ ApplyDisconnectPolicy(c)
      PROVE  HistoryInv'
  BY <1>4, HistoryStartRun, HistoryFails, CutOnlooks, HistoryCut, HistoryOthers DEF Serve
<1> QED
  BY <1>1, <1>2, <1>3, <1>4 DEF Next

-----------------------------------------------------------------------------
(* The steps by what they do to streams.  On its path a start attaches one *)
(* session and nobody else's; what is left are steps that take no call,    *)
(* and those that close a session or release the Lifecycle.                *)

\* The path of a start from await to await, but for entering its stream.
Route(p, q) ==
  \/ p = "waiting" /\ q \in {"done", "failed"}
  \/ p = "lookup" /\ q \in {"opening", "existing", "closing"}
  \/ p = "existing" /\ q \in {"done", "closing"}
  \/ p = "opening" /\ q \in {"threading", "closing"}
  \/ p = "threading" /\ q \in {"attaching", "closing"}
  \/ p = "attaching" /\ q = "closing"
  \/ p = "starting" /\ q \in {"recording", "closing"}
  \/ p = "recording" /\ q \in {"applying", "readying", "cancelling"}
  \/ p = "applying" /\ q \in {"readying", "cancelling"}
  \/ p = "readying" /\ q \in {"done", "fetching", "cancelling"}
  \/ p = "fetching" /\ q \in {"done", "cancelling"}
  \/ p = "cancelling" /\ q = "closing"

Taken(c) == call[c].pc = "readying" /\ call'[c].pc \in {"done", "fetching"}

\* What becomes of the call's own Run: its start is told of a cancel.
Advances(c) ==
  \/ run'[c] = run[c] /\ call'[c].pc # "recording"
  \/ call[c].pc = "starting" /\ run'[c] = "pending"
  \/ /\ ActiveRun(c) /\ run'[c] = "cancelled"
     /\ call'[c].ready # "unset" \/ call'[c].pc = "closing" \/ <<"unheard", c>> \in faults'

\* A requested Thread has no session, and a race for it is on record.
FindsFree(c) ==
  call[c].want # None =>
    /\ sessions[call[c].want] = None
    /\ Overlapped(c) => <<"raced", call[c].want>> \in faults'

Walks(c) ==
  /\ \A d \in Calls \ {c} : Onlooks(d) /\ run'[d] = run[d]
  /\ Asks(call[c], call'[c]) /\ Route(call[c].pc, call'[c].pc)
  /\ call'[c].consumer = IF Taken(c) THEN "on" ELSE call[c].consumer
  /\ call'[c].thread = IF call'[c].pc # "attaching" THEN call[c].thread
                       ELSE IF call[c].want = None THEN c ELSE call[c].want
  /\ call'[c].ready = call[c].ready \/ (call[c].ready = "unset" /\ call'[c].ready = "error")
  /\ call'[c].pc = "threading" => FindsFree(c)
  /\ Advances(c) /\ UNCHANGED <<sessions, active, factory>> /\ faults \subseteq faults'

LEMMA RaiseWalks ==
  ASSUME IInv, NEW c \in Calls, Raise(c), call[c].pc \in Owners,
         \A d \in Calls \ {c} : run'[d] = run[d],
         run'[c] = run[c] \/ (call[c].pc = "starting" /\ run'[c] = "pending"),
         UNCHANGED factory, faults \subseteq faults'
  PROVE  Walks(c)
<1>1. RaiseEffect(c)
  BY RaiseDoes DEF Owners
<1>2. \A d \in Calls \ {c} : Onlooks(d) /\ run'[d] = run[d]
  BY <1>1 DEF RaiseEffect, Onlooks, Agree, Asks
<1>3. Path(c)
  BY DEF IInv, CallInv
<1>4. Route(call[c].pc, call'[c].pc)
  BY <1>1, <1>3 DEF RaiseEffect, Path, Early, Owners, Route
<1>5. call'[c].pc \in {"cancelling", "closing"}
  BY <1>1 DEF RaiseEffect
<1> QED
  BY <1>1, <1>2, <1>4, <1>5 DEF RaiseEffect, Walks, Advances, Taken, Raise

LEMMA GotoWalks ==
  ASSUME TypeOK, NEW c \in Calls, NEW p \in Pcs, Goto(c, p), Route(call[c].pc, p),
         p \notin {"attaching", "recording"}, call[c].pc \notin {"readying", "starting"},
         p = "threading" => FindsFree(c),
         UNCHANGED <<sessions, active, run, factory>>, faults \subseteq faults'
  PROVE  Walks(c)
<1>1. GotoEffect(c, p)
  BY GotoDoes
<1>2. \A d \in Calls \ {c} : Onlooks(d) /\ run'[d] = run[d]
  BY <1>1 DEF GotoEffect, Onlooks, Agree, Asks
<1> QED
  BY <1>1, <1>2 DEF GotoEffect, Walks, Advances, Taken

LEMMA TakeHandleWalks ==
  ASSUME IInv, NEW c \in Calls, TakeHandle(c)
  PROVE  Walks(c)
<1>1. TypeOK /\ call[c].pc = "waiting" /\ UNCHANGED <<sessions, active, run, factory, faults>>
  BY DEF IInv, TakeHandle, server, coordinator
<1>2. CASE Goto(c, "failed")
  <2>1. "failed" \in Pcs /\ Route(call[c].pc, "failed")
    BY <1>1 DEF Pcs, Settled, Route
  <2> QED
    BY <1>1, <1>2, <2>1, GotoWalks
<1>3. CASE TakesHandle(c)
  <2>1. \A d \in Calls \ {c} : Onlooks(d) /\ run'[d] = run[d]
    BY <1>1, <1>3 DEF TakesHandle, Onlooks, Agree, Asks
  <2> QED
    BY <1>1, <1>3, <2>1 DEF TakesHandle, Walks, Advances, Taken, Route
<1> QED
  BY <1>2, <1>3, TakeHandleDoes

LEMMA LookupWalks ==
  ASSUME IInv, NEW c \in Calls, Lookup(c)
  PROVE  Walks(c)
<1>1. TypeOK /\ call[c].pc = "lookup" /\ UNCHANGED <<run, factory, faults>>
  BY DEF IInv, Lookup, server
<1>2. CASE Raise(c)
  BY <1>1, <1>2, RaiseWalks DEF Owners
<1>3. CASE Goto(c, "opening") /\ UNCHANGED coordinator
  <2>1. "opening" \in Pcs /\ Route(call[c].pc, "opening")
    BY <1>1 DEF Pcs, Route
  <2> QED
    BY <1>1, <1>3, <2>1, GotoWalks DEF coordinator
<1>4. ASSUME NEW r \in Calls, FindsExisting(c, r)
      PROVE  Walks(c)
  <2>1. \A d \in Calls \ {c} : Onlooks(d) /\ run'[d] = run[d]
    BY <1>1, <1>4 DEF FindsExisting, Onlooks, Agree, Asks
  <2> QED
    BY <1>1, <1>4, <2>1 DEF FindsExisting, Walks, Advances, Taken, Route, coordinator
<1> QED
  BY <1>2, <1>3, <1>4, LookupDoes

LEMMA ReturnsWalks ==
  ASSUME NEW c \in Calls, NEW h, Returns(c, h), call[c].pc \in {"existing", "fetching"},
         UNCHANGED <<sessions, active, run, factory, faults>>
  PROVE  Walks(c)
<1>1. \A d \in Calls \ {c} : Onlooks(d) /\ run'[d] = run[d]
  BY DEF Returns, Onlooks, Agree, Asks
<1> QED
  BY <1>1 DEF Returns, Walks, Advances, Taken, Route

LEMMA OpenWalks ==
  ASSUME IInv, NEW c \in Calls, Open(c)
  PROVE  Walks(c)
<1>1. /\ TypeOK /\ call[c].pc = "opening" /\ UNCHANGED <<run, factory>>
      /\ faults \subseteq faults'
  BY DEF IInv, Open, server, Fault
<1>2. CASE Raise(c)
  BY <1>1, <1>2, RaiseWalks DEF Owners
<1>3. CASE Goto(c, "threading") /\ UNCHANGED coordinator /\ FindsFree(c)
  <2>1. "threading" \in Pcs /\ Route(call[c].pc, "threading")
    BY <1>1 DEF Pcs, Route
  <2> QED
    BY <1>1, <1>3, <2>1, GotoWalks DEF coordinator
<1> QED
  BY <1>2, <1>3 DEF Open, FindsFree, Fault

LEMMA BindThreadWalks ==
  ASSUME IInv, NEW c \in Calls, BindThread(c)
  PROVE  Walks(c)
<1>1. BindsThread(c) /\ UNCHANGED <<sessions, active, run, factory, faults>>
  BY BindThreadDoes DEF IInv, BindsThread, coordinator, server
<1>2. \A d \in Calls \ {c} : Onlooks(d) /\ run'[d] = run[d]
  BY <1>1 DEF BindsThread, Onlooks, Agree, Asks
<1> QED
  BY <1>1, <1>2 DEF BindsThread, Walks, Advances, Taken, Route

LEMMA StartOfficialRunWalks ==
  ASSUME IInv, NEW c \in Calls, StartOfficialRun(c)
  PROVE  Walks(c)
<1>1. /\ TypeOK /\ call[c].pc = "starting" /\ UNCHANGED <<factory, store>>
      /\ run' = [run EXCEPT ![c] = "pending"]
      /\ (Raise(c) /\ Fault("lost", c)) \/ StartsRun(c)
  BY StartOfficialRunDoes DEF IInv
<1>2. \A d \in Calls : run'[d] = IF d = c THEN "pending" ELSE run[d]
  BY <1>1 DEF TypeOK
<1>3. CASE Raise(c) /\ Fault("lost", c)
  BY <1>1, <1>2, <1>3, RaiseWalks DEF Owners, Fault
<1>4. CASE StartsRun(c)
  <2>1. \A d \in Calls \ {c} : Onlooks(d) /\ run'[d] = run[d]
    BY <1>2, <1>4 DEF StartsRun, Onlooks, Agree, Asks
  <2> QED
    BY <1>1, <1>2, <1>4, <2>1 DEF StartsRun, Walks, Advances, Taken, Route, coordinator
<1> QED
  BY <1>1, <1>3, <1>4

LEMMA RecordRelationWalks ==
  ASSUME IInv, NEW c \in Calls, RecordRelation(c)
  PROVE  Walks(c)
<1>1. TypeOK /\ call[c].pc = "recording" /\ UNCHANGED <<run, factory>>
  BY DEF IInv, RecordRelation
<1>2. CASE Raise(c) /\ Fault("lost", c)
  BY <1>1, <1>2, RaiseWalks DEF Owners, Fault
<1>3. CASE /\ Goto(c, IF disconnected /\ call[c].target \notin Continue
                      THEN "applying" ELSE "readying")
           /\ UNCHANGED <<bindings, sessions, active, disconnected, todo, faults>>
  <2> DEFINE p == IF disconnected /\ call[c].target \notin Continue
                  THEN "applying" ELSE "readying"
  <2>1. p \in Pcs /\ p \in {"applying", "readying"} /\ Goto(c, p)
    BY <1>3 DEF Pcs
  <2> HIDE DEF p
  <2>2. Route(call[c].pc, p)
    BY <1>1, <2>1 DEF Route
  <2> QED
    BY <1>1, <1>3, <2>1, <2>2, GotoWalks
<1> QED
  BY <1>2, <1>3 DEF RecordRelation

LEMMA TakeExecutionWalks ==
  ASSUME IInv, NEW c \in Calls, TakeExecution(c)
  PROVE  Walks(c)
<1>1. /\ call[c].pc = "readying" /\ UNCHANGED <<run, factory, faults>>
      /\ Raise(c) \/ TakesExecution(c)
  BY TakeExecutionDoes DEF IInv, server
<1>2. CASE Raise(c)
  BY <1>1, <1>2, RaiseWalks DEF Owners
<1>3. CASE TakesExecution(c)
  <2>1. \A d \in Calls \ {c} : Onlooks(d) /\ run'[d] = run[d]
    BY <1>1, <1>3 DEF TakesExecution, Onlooks, Agree, Asks
  <2>2. call'[c].pc \in {"done", "fetching"}
    BY <1>3 DEF TakesExecution
  <2> QED
    BY <1>1, <1>3, <2>1, <2>2 DEF TakesExecution, Walks, Advances, Taken, Route, coordinator
<1> QED
  BY <1>1, <1>2, <1>3

LEMMA FailsWalks ==
  ASSUME IInv, NEW c \in Calls, RemoteFails(c) \/ Interrupt(c)
  PROVE  Walks(c)
<1>1. TypeOK /\ UNCHANGED <<run, factory>> /\ call[c].pc \in Pcs /\ faults \subseteq faults'
  BY DEF RemoteFails, Interrupt, server, IInv, TypeOK, CallRecords, Fault
<1>2. CASE call[c].pc = "waiting"
  <2>1. Goto(c, "failed") /\ UNCHANGED coordinator
    BY <1>2 DEF RemoteFails, Interrupt
  <2>2. "failed" \in Pcs /\ Route(call[c].pc, "failed")
    BY <1>2 DEF Pcs, Settled, Route
  <2> QED
    BY <1>1, <1>2, <2>1, <2>2, GotoWalks DEF coordinator
<1>3. CASE call[c].pc # "waiting"
  <2>1. Raise(c) /\ call[c].pc \in Owners
    BY <1>1, <1>3 DEF RemoteFails, Interrupt, Pcs, Settled, Owners
  <2> QED
    BY <1>1, <1>3, <2>1, RaiseWalks
<1> QED
  BY <1>2, <1>3

LEMMA OwnCancelWalks ==
  ASSUME IInv, OpInv, NEW c \in Calls, ApplyOwnPolicy(c) \/ CancelFailedStart(c)
  PROVE  Walks(c)
<1>1. TypeOK
  BY DEF IInv
<1>2. PICK p \in {"readying", "closing"} :
        /\ CancelOfficialRun(c, [call EXCEPT ![c].pc = p])
        /\ call[c].pc = IF p = "readying" THEN "applying" ELSE "cancelling"
  BY DEF ApplyOwnPolicy, CancelFailedStart
<1>3. /\ call[c].pc \in {"applying", "cancelling"}
      /\ UNCHANGED <<coordinator, factory, store>>
  BY DEF ApplyOwnPolicy, CancelFailedStart
<1>4. CancelsOwn(c, p) /\ faults \subseteq faults'
  BY <1>1, <1>2, <1>3, OwnCancelDoes DEF CancelEffect
<1>5. /\ call'[c].pc = p /\ Asks(call[c], call'[c]) /\ call'[c].thread = call[c].thread
      /\ \A d \in Calls \ {c} : Agree(call[d], call'[d])
  BY <1>4 DEF CancelsOwn
<1>6. /\ \A d \in Calls : call'[d].consumer = call[d].consumer
      /\ \A d \in Calls : \/ call'[d].ready = call[d].ready
                          \/ call[d].ready = "unset" /\ call'[d].ready = "error"
      /\ run' = run \/ (ActiveRun(c) /\ run' = [run EXCEPT ![c] = "cancelled"])
      /\ run' # run /\ bindings[call[c].key] = c /\ call[c].named =>
           call'[c].ready # "unset" \/ <<"unheard", c>> \in faults'
  BY <1>1, <1>2, OwnCancelTells
<1>7. \A d \in Calls \ {c} : Onlooks(d) /\ run'[d] = run[d]
  BY <1>1, <1>5, <1>6 DEF Onlooks, TypeOK
<1>8. p = "readying" => bindings[call[c].key] = c /\ call[c].named
  BY <1>2 DEF OpInv, Owns, Owners, IInv, CallInv, Path
<1>9. Advances(c)
  <2>1. run'[c] = run[c] \/ (run' # run /\ ActiveRun(c) /\ run'[c] = "cancelled")
    BY <1>1, <1>6 DEF TypeOK
  <2> QED
    BY <1>2, <1>5, <1>6, <1>8, <2>1 DEF Advances
<1>10. Route(call[c].pc, call'[c].pc) /\ ~Taken(c) /\ call'[c].pc \notin {"attaching", "threading"}
  BY <1>2, <1>5 DEF Route, Taken
<1>11. UNCHANGED <<sessions, active, factory>>
  BY <1>3 DEF coordinator
<1> QED
  BY <1>4, <1>5, <1>6, <1>7, <1>9, <1>10, <1>11 DEF Walks

\* The Run of a start is on its way to a graph factory, or is there with the
\* start's own binding.
Underway(c) == run[c] = "pending" \/ (run[c] = "building" /\ factory[c] = c) \/ ~active

Waiting(c) == call[c].pc \in {"recording", "applying", "readying"} /\ call[c].ready = "unset"

\* The Run of d was cancelled, and d is not told.
Unnoticed(d) == {<<"elsewhere", d>>, <<"unheard", d>>} \cap faults # {}

Rests ==
  /\ \A d \in Calls : Onlooks(d) /\ (ActiveRun(d)' => ActiveRun(d))
  /\ \A d \in Calls : factory'[d] = factory[d] \/ active
  /\ \A d \in Calls : Waiting(d)' /\ Underway(d) => Underway(d)' \/ Unnoticed(d)'
  /\ UNCHANGED <<sessions, active>> /\ faults \subseteq faults'

LEMMA StutterRests ==
  ASSUME UNCHANGED vars \/ Disconnect
  PROVE  Rests
<1>1. UNCHANGED <<call, run, factory, sessions, active, faults>>
  BY DEF vars, Disconnect, server
<1> QED
  BY <1>1 DEF Rests, Onlooks, Agree, Asks, ActiveRun, Underway

LEMMA PolicyRests ==
  ASSUME IInv, OpInv, NEW c \in Calls, ApplyDisconnectPolicy(c)
  PROVE  Rests
<1>1. TypeOK /\ call \in [Calls -> CallRecords]
  BY DEF IInv, TypeOK
<1>2. CancelEffect(c, call) /\ CancelTells(c, call) /\ UNCHANGED <<sessions, active, factory>>
  BY <1>1, CancelReaches, CancelIsTold DEF ApplyDisconnectPolicy
<1>3. \A d \in Calls : Onlooks(d)
  BY <1>2 DEF CancelEffect, CancelTells, SameButReady, OnlyFails, Onlooks
<1>4. ASSUME NEW d \in Calls
      PROVE  /\ run'[d] = run[d] \/ (run' # run /\ d = c /\ run'[d] = "cancelled")
             /\ ActiveRun(d)' => ActiveRun(d)
  BY <1>1, <1>2 DEF CancelTells, TypeOK, ActiveRun
<1>5. ASSUME NEW d \in Calls, Waiting(d)', Underway(d)
      PROVE  Underway(d)' \/ Unnoticed(d)'
  <2>1. Waiting(d)
    BY <1>3, <1>5 DEF Waiting, Onlooks, Agree
  <2>2. bindings[call[d].key] = d /\ call[d].named
    BY <2>1 DEF Waiting, OpInv, Owns, Owners, IInv, CallInv, Path
  <2>3. ~(d = c /\ run' # run) \/ Unnoticed(d)'
    BY <1>2, <1>5, <2>2 DEF CancelTells, Waiting, Unnoticed
  <2> QED
    BY <1>2, <1>4, <1>5, <2>3 DEF Underway
<1> QED
  BY <1>2, <1>3, <1>4, <1>5 DEF Rests, CancelEffect

LEMMA ElsewhereRests ==
  ASSUME IInv, NEW c \in Calls, CancelElsewhere(c)
  PROVE  Rests
<1>1. TypeOK /\ call \in [Calls -> CallRecords]
  BY DEF IInv, TypeOK
<1>2. /\ SameButReady(call, call') /\ OnlyFails(call, call')
      /\ UNCHANGED <<sessions, active, factory>> /\ faults' = faults \cup {<<"elsewhere", c>>}
      /\ run' = [run EXCEPT ![c] = "cancelled"]
  BY <1>1, AbortFactoryFails DEF CancelElsewhere, coordinator, Fault
<1>3. \A d \in Calls : Onlooks(d)
  BY <1>2 DEF SameButReady, OnlyFails, Onlooks
<1>4. \A d \in Calls : /\ run'[d] = run[d] \/ d = c
                       /\ ActiveRun(d)' => ActiveRun(d)
  BY <1>1, <1>2 DEF TypeOK, ActiveRun
<1> QED
  BY <1>2, <1>3, <1>4 DEF Rests, Underway, Unnoticed

LEMMA CallFactoryRests ==
  ASSUME IInv, OpInv, HistoryInv, NEW c \in Calls, CallFactory(c)
  PROVE  Rests
<1>1. TypeOK /\ UNCHANGED <<call, sessions, active, faults>> /\ run[c] = "pending"
  BY DEF IInv, CallFactory, coordinator
<1>2. /\ run' = [run EXCEPT ![c] = IF ~active THEN "running"
                    ELSE IF bindings[call[c].key] = None THEN "ended" ELSE "building"]
      /\ factory' = [factory EXCEPT ![c] = IF active THEN bindings[call[c].key] ELSE None]
  BY DEF CallFactory
<1>3. factory[c] = None
  BY <1>1 DEF HistoryInv, Built
<1>4. \A d \in Calls : Onlooks(d)
  BY <1>1 DEF Onlooks, Agree, Asks
<1>5. \A d \in Calls : ActiveRun(d)' => ActiveRun(d)
  BY <1>1, <1>2 DEF TypeOK, ActiveRun
<1>6. \A d \in Calls : factory'[d] = factory[d] \/ active
  BY <1>1, <1>2, <1>3 DEF TypeOK
<1>7. ASSUME NEW d \in Calls, Waiting(d)', Underway(d)
      PROVE  Underway(d)'
  <2>1. bindings[call[d].key] = d /\ d # None
    BY <1>1, <1>7, NoneIsNoCall DEF Waiting, OpInv, Owns, Owners
  <2>2. CASE d = c
    <3>1. active => run'[c] = "building" /\ factory'[c] = c
      BY <1>1, <1>2, <2>1, <2>2 DEF TypeOK
    <3> QED
      BY <1>1, <2>2, <3>1 DEF Underway
  <2>3. CASE d # c
    <3>1. run'[d] = run[d] /\ factory'[d] = factory[d]
      BY <1>1, <1>2, <2>3 DEF TypeOK
    <3> QED
      BY <1>1, <1>7, <3>1 DEF Underway
  <2> QED
    BY <2>2, <2>3
<1> QED
  BY <1>1, <1>4, <1>5, <1>6, <1>7 DEF Rests

LEMMA BuildGraphRests ==
  ASSUME IInv, HistoryInv, NEW c \in Calls, BuildGraph(c)
  PROVE  Rests
<1>1. /\ TypeOK /\ call \in [Calls -> CallRecords] /\ run[c] = "building"
      /\ UNCHANGED <<sessions, active, factory>> /\ faults \subseteq faults'
      /\ run' = [run EXCEPT ![c] = "running"] \/ run' = [run EXCEPT ![c] = "ended"]
  BY DEF IInv, TypeOK, BuildGraph, coordinator, Fault
<1> DEFINE f == factory[c]
<1>2. f \in Calls
  BY <1>1 DEF HistoryInv, Built, TypeOK
<1>3. (\A d \in Calls : Onlooks(d)) /\ call'[f].ready # "unset"
  <2>1. CASE call' = FailReady(call, f)
    <3>1. SameButReady(call, call') /\ OnlyFails(call, call') /\ call'[f].ready # "unset"
      BY <1>1, <1>2, <2>1, FailReadyOnlyReady, FailReadyFails
    <3> QED
      BY <3>1 DEF SameButReady, OnlyFails, Onlooks
  <2>2. CASE call' = [call EXCEPT ![f].ready = IF @ = "unset" THEN "ok" ELSE @]
    <3>1. SameButReady(call, call')
      BY <1>1, <2>2, ResolvingOnlyReady
    <3> DEFINE new == [call[f] EXCEPT !.ready = IF call[f].ready = "unset" THEN "ok" ELSE call[f].ready]
    <3>2. /\ new.consumer = call[f].consumer /\ new.ready # "unset"
          /\ new.ready = call[f].ready \/ call[f].ready = "unset"
      BY <1>1, <1>2 DEF CallRecords
    <3>3. call' = [call EXCEPT ![f] = new]
      BY <2>2
    <3>4. factory[c] = f
      OBVIOUS
    <3> HIDE DEF new, f
    <3>5. call'[f] = new /\ \A d \in Calls \ {f} : call'[d] = call[d]
      BY <1>1, <1>2, <3>3
    <3> QED
      BY <1>2, <3>1, <3>2, <3>4, <3>5 DEF SameButReady, Onlooks
  <2> QED
    BY <2>1, <2>2 DEF BuildGraph
<1>4. \A d \in Calls : run'[d] = run[d] \/ d = c
  BY <1>1 DEF TypeOK
<1>5. \A d \in Calls : ActiveRun(d)' => ActiveRun(d)
  BY <1>1, <1>4 DEF ActiveRun
<1>6. ASSUME NEW d \in Calls, Waiting(d)', Underway(d)
      PROVE  Underway(d)'
  BY <1>1, <1>3, <1>4, <1>6 DEF Waiting, Underway
<1> QED
  BY <1>1, <1>3, <1>5, <1>6 DEF Rests

LEMMA EndRunRests ==
  ASSUME IInv, NEW c \in Calls, EndRun(c)
  PROVE  Rests
<1>1. /\ TypeOK /\ run[c] = "running" /\ run' = [run EXCEPT ![c] = "ended"]
      /\ UNCHANGED <<call, sessions, active, factory, faults>>
  BY DEF IInv, EndRun, coordinator
<1>2. \A d \in Calls : Onlooks(d)
  BY <1>1 DEF Onlooks, Agree, Asks
<1>3. \A d \in Calls : (run'[d] = run[d] \/ d = c) /\ (ActiveRun(d)' => ActiveRun(d))
  BY <1>1 DEF TypeOK, ActiveRun
<1> QED
  BY <1>1, <1>2, <1>3 DEF Rests, Underway

\* Every step is one of these.
LEMMA StepKinds ==
  ASSUME IInv, OpInv, HistoryInv, [Next]_vars
  PROVE  \/ StartEntry \/ Rests
         \/ \E c \in Calls : \/ StartRun(c) \/ Walks(c) \/ Attach(c)
                             \/ CloseFailedStart(c) \/ ReleaseFailedStart(c)
                             \/ Cuts(c) \/ ConsumerCloses(c) \/ ConsumerReleases(c)
<1>1. ASSUME NEW c \in Calls, Proceed(c) \/ RemoteFails(c)
      PROVE  \/ Walks(c) \/ Attach(c) \/ CloseFailedStart(c) \/ ReleaseFailedStart(c)
  <2>1. CASE FetchExisting(c)
    BY <2>1, FetchExistingDoes, ReturnsWalks DEF IInv, server
  <2>2. CASE ReturnHandle(c)
    BY <2>2, ReturnHandleDoes, ReturnsWalks DEF IInv, server, coordinator
  <2> QED
    BY <1>1, <2>1, <2>2, TakeHandleWalks, LookupWalks, OpenWalks, BindThreadWalks,
       StartOfficialRunWalks, RecordRelationWalks, OwnCancelWalks, TakeExecutionWalks,
       FailsWalks DEF Proceed
<1>2. ASSUME NEW c \in Calls,
             Serve(c) \/ EndRun(c) \/ CancelElsewhere(c) \/ ApplyDisconnectPolicy(c)
      PROVE  Rests
  BY <1>2, CallFactoryRests, BuildGraphRests, EndRunRests, ElsewhereRests, PolicyRests DEF Serve
<1> QED
  BY <1>1, <1>2, CutOnlooks, StutterRests DEF Next, Consume

-----------------------------------------------------------------------------
(* Sessions and the registry.  A session belongs to a call that will close *)
(* it; while a Run whose graph was built has one the Lifecycle is active;  *)
(* and an active Lifecycle awaits somebody who will release it.            *)

Serving(c) ==
  \/ call[c].pc \in {"starting", "recording", "applying", "readying", "cancelling", "closing"}
  \/ call[c].consumer = "on"

Attached ==
  \A t \in Calls : sessions[t] # None =>
    /\ call[sessions[t]].thread = t
    /\ Serving(sessions[t]) \/ <<"cut", sessions[t]>> \in faults

Registered ==
  \A t \in Calls : sessions[t] # None /\ factory[sessions[t]] # None => active

EntryStarting == call[Entry].pc \in {"opening", "threading", "attaching", "cancelling", "closing"}

Awaited ==
  \/ \E t \in Calls : sessions[t] # None
  \/ \E c \in Calls : call[c].pc = "releasing" \/ call[c].consumer = "closing"
  \/ EntryStarting

\* A session could not be closed, or a cleanup was cut short.
Abandoned == \E c \in Calls : {<<"close", c>>, <<"cut", c>>} \cap faults # {}

StreamInv ==
  /\ Attached /\ Registered
  /\ active => Awaited \/ Abandoned

\* What a step of a consumer does to its call.
LEMMA ConsumerDoes ==
  ASSUME TypeOK, NEW c \in Calls, NEW v, call' = [call EXCEPT ![c].consumer = v]
  PROVE  /\ Agree(call[c], call'[c]) /\ call'[c].consumer = v
         /\ call'[c].ready = call[c].ready
         /\ \A d \in Calls \ {c} : call'[d] = call[d]
<1> DEFINE new == [call[c] EXCEPT !.consumer = v]
<1>1. /\ new.consumer = v /\ new.ready = call[c].ready /\ Agree(call[c], new)
  BY DEF TypeOK, CallRecords, Agree, Asks
<1>2. call' = [call EXCEPT ![c] = new]
  OBVIOUS
<1> HIDE DEF new
<1>3. call'[c] = new /\ \A d \in Calls \ {c} : call'[d] = call[d]
  BY <1>2 DEF TypeOK
<1> QED
  BY <1>1, <1>3

\* A step that leaves the sessions and the registry alone.
LEMMA StreamsRest ==
  ASSUME TypeOK, StreamInv, UNCHANGED <<sessions, active>>, faults \subseteq faults',
         \A d \in Calls : /\ Serving(d) => Serving(d)'
                          /\ call[d].thread # None => call'[d].thread = call[d].thread
                          /\ call[d].pc = "releasing" => call'[d].pc = "releasing"
                          /\ call[d].consumer = "closing" => call'[d].consumer = "closing"
                          /\ factory'[d] = factory[d] \/ active,
         EntryStarting => EntryStarting'
  PROVE  StreamInv'
<1>1. \A t \in Calls : sessions[t] \in Calls \cup {None} /\ t # None
  BY NoneIsNoCall DEF TypeOK
<1>2. Attached'
  BY <1>1 DEF StreamInv, Attached
<1>3. Registered'
  BY <1>1 DEF StreamInv, Registered
<1>4. Awaited => Awaited'
  BY DEF Awaited
<1> QED
  BY <1>2, <1>3, <1>4 DEF StreamInv, Abandoned

LEMMA StreamsWalk ==
  ASSUME IInv, HistoryInv, StreamInv, NEW c \in Calls, Walks(c)
  PROVE  StreamInv'
<1>1. TypeOK /\ History(c) /\ EntryFirst
  BY DEF IInv, HistoryInv
<1>2. ASSUME NEW d \in Calls
      PROVE  /\ Serving(d) => Serving(d)'
             /\ call[d].thread # None => call'[d].thread = call[d].thread
             /\ call[d].pc = "releasing" => call'[d].pc = "releasing"
             /\ call[d].consumer = "closing" => call'[d].consumer = "closing"
             /\ call[d].pc \in {"opening", "threading", "attaching", "cancelling", "closing"} =>
                call'[d].pc \in {"opening", "threading", "attaching", "cancelling", "closing"}
  <2>1. CASE d # c
    <3>1. Onlooks(d)
      BY <2>1 DEF Walks
    <3> QED
      BY <3>1 DEF Onlooks, Agree, Serving
  <2>2. CASE d = c
    <3>1. /\ Route(call[c].pc, call'[c].pc)
          /\ call'[c].consumer = IF Taken(c) THEN "on" ELSE call[c].consumer
      BY DEF Walks
    <3>2. call[c].consumer = "closing" => ~Taken(c)
      BY <1>1 DEF History, Taken, Answered, Failing
    <3>3. Serving(c) => Serving(c)'
      BY <3>1 DEF Serving, Route, Taken
    <3>4. call[c].thread # None => call'[c].thread = call[c].thread
      BY <1>1 DEF Walks, History
    <3>5. /\ call[d].pc = "releasing" => call'[d].pc = "releasing"
          /\ call[d].pc \in {"opening", "threading", "attaching", "cancelling", "closing"} =>
             call'[d].pc \in {"opening", "threading", "attaching", "cancelling", "closing"}
      BY <2>2, <3>1 DEF Route
    <3> QED
      BY <2>2, <3>1, <3>2, <3>3, <3>4, <3>5
  <2> QED
    BY <2>1, <2>2
<1>3. EntryStarting => EntryStarting'
  BY <1>2, EntryIsACall DEF EntryStarting
<1> QED
  BY <1>1, <1>2, <1>3, StreamsRest DEF Walks

LEMMA StreamsOthers ==
  ASSUME IInv, StreamInv, Rests
  PROVE  StreamInv'
<1>1. TypeOK /\ Entry \in Calls
  BY EntryIsACall DEF IInv
<1>2. \A d \in Calls : /\ call'[d].pc = call[d].pc /\ call'[d].thread = call[d].thread
                       /\ call'[d].consumer = call[d].consumer
  BY DEF Rests, Onlooks, Agree
<1> QED
  BY <1>1, <1>2, StreamsRest DEF Rests, Serving, EntryStarting

LEMMA StreamsBegin ==
  ASSUME IInv, StreamInv, StartEntry \/ \E c \in Calls : StartRun(c)
  PROVE  StreamInv'
<1>1. TypeOK /\ Entry \in Calls
  BY EntryIsACall DEF IInv
<1>2. CASE StartEntry
  <2>1. EntryEffect /\ UNCHANGED <<sessions, factory, faults>>
    BY <1>1, <1>2, StartEntryDoes DEF EntryEffect, StartEntry, server
  <2>2. \A d \in Calls : /\ Serving(d) => Serving(d)'
                         /\ call'[d].thread = call[d].thread
    BY <2>1 DEF EntryEffect, Serving
  <2>3. Attached'
    BY <1>1, <2>1, <2>2 DEF StreamInv, Attached, TypeOK
  <2>4. Registered' /\ Awaited'
    BY <2>1 DEF EntryEffect, Registered, Awaited, EntryStarting
  <2> QED
    BY <2>3, <2>4 DEF StreamInv
<1>3. ASSUME NEW c \in Calls, StartRun(c)
      PROVE  StreamInv'
  <2>1. PICK r \in Calls, op \in Ops, target \in Targets, want \in KnownThreads \cup {None} :
          StartEffect(c, r, op, target, want)
    BY <1>3, StartRunDoes
  <2>2. /\ call[c].pc = "idle" /\ c # Entry /\ call'[c].thread = call[c].thread
        /\ call'[c].consumer = call[c].consumer
        /\ \A d \in Calls \ {c} : call'[d] = call[d]
        /\ UNCHANGED <<sessions, active, factory, faults>>
    BY <1>3, <2>1 DEF StartEffect, StartRun, server
  <2>3. \A d \in Calls : Serving(d) => Serving(d)'
    BY <2>2 DEF Serving
  <2>4. EntryStarting => EntryStarting'
    BY <1>1, <2>2 DEF EntryStarting
  <2> QED
    BY <1>1, <2>2, <2>3, <2>4, StreamsRest
<1> QED
  BY <1>2, <1>3

LEMMA StreamsAttach ==
  ASSUME IInv, HistoryInv, StreamInv, NEW c \in Calls, Attach(c)
  PROVE  StreamInv'
<1> DEFINE u == call[c].thread
<1>1. /\ TypeOK /\ call[c].pc = "attaching" /\ u \in Calls /\ run[c] = "none"
      /\ c # None
  BY NoneIsNoCall DEF IInv, Attach, CallInv, Path, Early
<1>2. /\ sessions' = [sessions EXCEPT ![u] = c] /\ Goto(c, "starting")
      /\ UNCHANGED <<active, factory, faults>>
  BY DEF Attach, server
<1>3. GotoEffect(c, "starting")
  BY <1>1, <1>2, GotoDoes DEF Pcs
<1>4. factory[c] = None
  BY <1>1 DEF HistoryInv, Built
<1>5. /\ Serving(c)' /\ call'[c].thread = u /\ call[c].thread = u
      /\ \A d \in Calls \ {c} : (Serving(d) => Serving(d)') /\ call'[d].thread = call[d].thread
  BY <1>3 DEF GotoEffect, Serving
<1> HIDE DEF u
<1>6. \A t \in Calls : sessions'[t] = IF t = u THEN c ELSE sessions[t]
  BY <1>1, <1>2 DEF TypeOK
<1>7. \A t \in Calls : sessions[t] \in Calls \cup {None}
  BY <1>1 DEF TypeOK
<1>8. Attached'
  BY <1>2, <1>5, <1>6, <1>7 DEF StreamInv, Attached
<1>9. Registered'
  BY <1>2, <1>4, <1>6, <1>7 DEF StreamInv, Registered
<1>10. Awaited'
  BY <1>1, <1>6 DEF Awaited
<1> QED
  BY <1>8, <1>9, <1>10 DEF StreamInv

\* Somebody closes the session of Thread u, if it has one, or releases; only
\* call c moves, and it is not at work when u has no session.
LEMMA StreamsClose ==
  ASSUME TypeOK, StreamInv, NEW c \in Calls, NEW u \in Calls \cup {None},
         \A d \in Calls \ {c} : call'[d] = call[d], call'[c].thread = call[c].thread,
         sessions' = IF u # None THEN [sessions EXCEPT ![u] = None] ELSE sessions,
         \/ call[c].thread = u \/ (Serving(c) => Serving(c)')
         \/ \A t \in Calls : sessions[t] # c,
         UNCHANGED factory, faults \subseteq faults', active' = active \/ ReleaseIfFinished,
         active' => Awaited' \/ Abandoned'
  PROVE  StreamInv'
<1>1. \A t \in Calls : sessions[t] \in Calls \cup {None} /\ t # None
  BY NoneIsNoCall DEF TypeOK
<1>2. \A t \in Calls : sessions'[t] = IF t = u THEN None ELSE sessions[t]
  BY <1>1 DEF TypeOK
<1>3. Attached'
  BY <1>1, <1>2 DEF StreamInv, Attached, Serving
<1>4. Registered'
  <2>1. ASSUME NEW t \in Calls, sessions'[t] # None, factory'[sessions'[t]] # None
        PROVE  active'
    <3>1. sessions[t] # None /\ active
      BY <1>2, <2>1 DEF StreamInv, Registered
    <3> QED
      BY <3>1 DEF ReleaseIfFinished
  <2> QED
    BY <2>1 DEF Registered
<1> QED
  BY <1>3, <1>4 DEF StreamInv

LEMMA StreamsCloseFailed ==
  ASSUME IInv, StreamInv, NEW c \in Calls, CloseFailedStart(c)
  PROVE  StreamInv'
<1> DEFINE u == IF call[c].thread # None /\ sessions[call[c].thread] # None
                THEN call[c].thread ELSE None
<1>1. /\ TypeOK /\ call[c].pc = "closing" /\ call[c].thread \in Calls \cup {None}
      /\ UNCHANGED <<factory, faults>>
  BY DEF IInv, CloseFailedStart, TypeOK, CallRecords, server
<1>2. PICK p \in {"releasing", "failed"} : Goto(c, p) /\ (u # None <=> p = "releasing")
  BY NoneIsNoCall DEF CloseFailedStart
<1>3. p \in Pcs
  BY DEF Pcs, Settled
<1>4. GotoEffect(c, p)
  BY <1>1, <1>2, <1>3, GotoDoes
<1>5. /\ call'[c].pc = p /\ call'[c].thread = call[c].thread
      /\ call'[c].consumer = call[c].consumer
      /\ \A d \in Calls \ {c} : call'[d] = call[d]
  BY <1>4 DEF GotoEffect
<1>6. sessions' = IF u # None THEN [sessions EXCEPT ![u] = None] ELSE sessions
  BY DEF CloseFailedStart
<1>7. active' = active \/ ReleaseIfFinished
  BY DEF CloseFailedStart
<1>8. u \in Calls \cup {None} /\ (u # None => u = call[c].thread)
  BY <1>1
<1>9. active' => Awaited' \/ Abandoned'
  <2>1. CASE u # None
    BY <1>2, <1>5, <2>1 DEF Awaited
  <2>2. CASE u = None /\ c = Entry
    <3>1. ReleaseIfFinished /\ sessions' = sessions
      BY <1>6, <2>2 DEF CloseFailedStart
    <3> QED
      BY <3>1 DEF ReleaseIfFinished, Awaited
  <2>3. CASE u = None /\ c # Entry
    <3>1. active' = active /\ sessions' = sessions
      BY <1>6, <2>3 DEF CloseFailedStart
    <3>2. EntryStarting => EntryStarting'
      BY <1>5, <2>3, EntryIsACall DEF EntryStarting
    <3>3. \A d \in Calls : call[d].pc = "releasing" \/ call[d].consumer = "closing"
                           => call'[d].pc = "releasing" \/ call'[d].consumer = "closing"
      BY <1>1, <1>5
    <3>4. Awaited => Awaited'
      BY <3>1, <3>2, <3>3 DEF Awaited
    <3> QED
      BY <1>1, <3>1, <3>4 DEF StreamInv, Abandoned
  <2> QED
    BY <2>1, <2>2, <2>3
<1>10. call[c].thread = u \/ (Serving(c) => Serving(c)')
       \/ (\A t \in Calls : sessions[t] # c)
  <2>1. ASSUME call[c].thread # u, NEW t \in Calls, sessions[t] = c
        PROVE  FALSE
    BY <1>1, <2>1, NoneIsNoCall DEF StreamInv, Attached
  <2> QED
    BY <2>1
<1> HIDE DEF u
<1> QED
  BY <1>1, <1>5, <1>6, <1>7, <1>8, <1>9, <1>10, StreamsClose

LEMMA StreamsReleaseFailed ==
  ASSUME IInv, StreamInv, NEW c \in Calls, ReleaseFailedStart(c)
  PROVE  StreamInv'
<1>1. /\ TypeOK /\ call[c].pc = "releasing" /\ "failed" \in Pcs /\ Goto(c, "failed")
      /\ UNCHANGED <<factory, sessions>> /\ None \in Calls \cup {None}
  BY DEF IInv, ReleaseFailedStart, server, Pcs, Settled
<1>2. GotoEffect(c, "failed")
  BY <1>1, GotoDoes
<1>3. /\ call'[c].thread = call[c].thread /\ (Serving(c) => Serving(c)')
      /\ \A d \in Calls \ {c} : call'[d] = call[d]
  BY <1>1, <1>2 DEF GotoEffect, Serving
<1>4. active' = active \/ ReleaseIfFinished
  BY DEF ReleaseFailedStart
<1>5. active' => Awaited' \/ Abandoned'
  <2>1. CASE ReleaseIfFinished
    BY <1>1, <2>1 DEF ReleaseIfFinished, Awaited
  <2>2. CASE Fault("close", c)
    BY <2>2 DEF Fault, Abandoned
  <2> QED
    BY <2>1, <2>2 DEF ReleaseFailedStart
<1>6. faults \subseteq faults'
  BY DEF ReleaseFailedStart, Fault
<1> QED
  BY <1>1, <1>3, <1>4, <1>5, <1>6, StreamsClose

LEMMA StreamsConsumerCloses ==
  ASSUME IInv, HistoryInv, StreamInv, NEW c \in Calls, ConsumerCloses(c)
  PROVE  StreamInv'
<1> DEFINE u == IF sessions[call[c].thread] # None THEN call[c].thread ELSE None
<1>1. /\ TypeOK /\ call[c].consumer = "on" /\ call[c].thread \in Calls /\ c # None
      /\ UNCHANGED <<factory, faults, active>>
  BY NoneIsNoCall DEF IInv, HistoryInv, History, CallInv, Path, ConsumerCloses, server
<1>2. PICK v \in {"closing", "closed"} :
        call' = [call EXCEPT ![c].consumer = v] /\ (u # None <=> v = "closing")
  BY <1>1, NoneIsNoCall DEF ConsumerCloses
<1>3. /\ Agree(call[c], call'[c]) /\ call'[c].consumer = v
      /\ \A d \in Calls \ {c} : call'[d] = call[d]
  BY <1>1, <1>2, ConsumerDoes
<1>4. call'[c].thread = call[c].thread
  BY <1>3 DEF Agree
<1>5. sessions' = IF u # None THEN [sessions EXCEPT ![u] = None] ELSE sessions
  BY <1>1, NoneIsNoCall DEF ConsumerCloses
<1>6. u \in Calls \cup {None}
  BY <1>1
<1>7. call[c].thread = u \/ \A t \in Calls : sessions[t] # c
  <2>1. ASSUME call[c].thread # u, NEW t \in Calls, sessions[t] = c
        PROVE  FALSE
    BY <1>1, <2>1 DEF StreamInv, Attached
  <2> QED
    BY <2>1
<1>8. active' => Awaited' \/ Abandoned'
  <2>1. CASE u # None
    BY <1>2, <1>3, <2>1 DEF Awaited
  <2>2. CASE u = None
    <3>1. sessions' = sessions
      BY <1>5, <2>2
    <3>2. \A d \in Calls : /\ call'[d].pc = call[d].pc
                           /\ call[d].consumer = "closing" => call'[d].consumer = "closing"
      BY <1>1, <1>3 DEF Agree
    <3>3. Awaited => Awaited'
      BY <3>1, <3>2, EntryIsACall DEF Awaited, EntryStarting
    <3> QED
      BY <1>1, <3>3 DEF StreamInv, Abandoned
  <2> QED
    BY <2>1, <2>2
<1> HIDE DEF u
<1> QED
  BY <1>1, <1>3, <1>4, <1>5, <1>6, <1>7, <1>8, StreamsClose

LEMMA StreamsConsumerReleases ==
  ASSUME IInv, StreamInv, NEW c \in Calls, ConsumerReleases(c)
  PROVE  StreamInv'
<1>1. /\ TypeOK /\ call[c].consumer = "closing"
      /\ call' = [call EXCEPT ![c].consumer = "closed"]
      /\ UNCHANGED <<factory, sessions>> /\ None \in Calls \cup {None}
  BY DEF IInv, ConsumerReleases, server
<1>2. /\ Agree(call[c], call'[c])
      /\ \A d \in Calls \ {c} : call'[d] = call[d]
  BY <1>1, ConsumerDoes
<1>3. call'[c].thread = call[c].thread /\ (Serving(c) => Serving(c)')
  BY <1>1, <1>2 DEF Agree, Serving
<1>4. active' = active \/ ReleaseIfFinished
  BY DEF ConsumerReleases
<1>5. active' => Awaited' \/ Abandoned'
  <2>1. CASE ReleaseIfFinished
    BY <1>1, <2>1 DEF ReleaseIfFinished, Awaited
  <2>2. CASE Fault("close", c)
    BY <2>2 DEF Fault, Abandoned
  <2> QED
    BY <2>1, <2>2 DEF ConsumerReleases
<1>6. faults \subseteq faults'
  BY DEF ConsumerReleases, Fault
<1> QED
  BY <1>1, <1>2, <1>3, <1>4, <1>5, <1>6, StreamsClose

\* A cleanup cut short leaves the session to nobody, which is on record.
LEMMA StreamsCut ==
  ASSUME IInv, StreamInv, NEW c \in Calls, Cuts(c)
  PROVE  StreamInv'
<1>1. /\ TypeOK /\ UNCHANGED <<sessions, active, factory>> /\ faults \subseteq faults'
      /\ <<"cut", c>> \in faults' /\ call'[c].thread = call[c].thread
      /\ \A d \in Calls \ {c} : Onlooks(d)
  BY DEF IInv, Cuts, CutsShort, coordinator
<1>2. \A t \in Calls : sessions[t] \in Calls \cup {None}
  BY <1>1 DEF TypeOK
<1>3. \A d \in Calls \ {c} : call'[d].thread = call[d].thread /\ (Serving(d) => Serving(d)')
  BY <1>1 DEF Onlooks, Agree, Serving
<1>4. Attached'
  BY <1>1, <1>2, <1>3 DEF StreamInv, Attached
<1>5. Registered'
  BY <1>1 DEF StreamInv, Registered
<1> QED
  BY <1>1, <1>4, <1>5 DEF StreamInv, Abandoned

LEMMA StreamsInit ==
  ASSUME Init
  PROVE  StreamInv
BY DEF Init, StreamInv, Attached, Registered

LEMMA StreamsNext ==
  ASSUME IInv, OpInv, HistoryInv, StreamInv, [Next]_vars
  PROVE  StreamInv'
<1>1. ASSUME NEW c \in Calls, \/ StartRun(c) \/ Walks(c) \/ Attach(c)
                              \/ CloseFailedStart(c) \/ ReleaseFailedStart(c)
                              \/ Cuts(c) \/ ConsumerCloses(c) \/ ConsumerReleases(c)
      PROVE  StreamInv'
  BY <1>1, StreamsBegin, StreamsWalk, StreamsAttach, StreamsCloseFailed, StreamsReleaseFailed,
     StreamsCut, StreamsConsumerCloses, StreamsConsumerReleases
<1> QED
  BY <1>1, StreamsBegin, StreamsOthers, StepKinds

\* Sessions belong to calls that will close them, along every behaviour.
THEOREM StreamInvariant == Spec => [](IInv /\ OpInv /\ HistoryInv /\ StreamInv)
<1>1. Init => IInv /\ OpInv /\ HistoryInv /\ StreamInv
  BY InitEstablishes, OpInit, HistoryInit, StreamsInit
<1>2. IInv /\ OpInv /\ HistoryInv /\ StreamInv /\ [Next]_vars
        => (IInv /\ OpInv /\ HistoryInv /\ StreamInv)'
  BY NextKeeps, OpNext, HistoryNext, StreamsNext
<1> QED
  BY <1>1, <1>2, PTL DEF Spec

\* release_active_lifecycle is reached: when every start has settled and no
\* stream is consumed, the Lifecycle has left the registry, unless a session
\* could not be closed or a cleanup was cut short.  Calls may share Threads.
THEOREM LifecycleIsReleased == Spec => []LifecycleReleased
<1>1. IInv /\ StreamInv => LifecycleReleased
  <2> SUFFICES ASSUME TypeOK, StreamInv, active,
                      \A c \in Calls : /\ call[c].pc \in Settled
                                       /\ call[c].consumer \in {"none", "closed"}
               PROVE  Abandoned
    BY DEF IInv, LifecycleReleased, Abandoned
  <2>1. \A c \in Calls : ~Serving(c) /\ call[c].pc # "releasing" /\ call[c].consumer # "closing"
    BY DEF Serving, Settled
  <2>2. (\A t \in Calls : sessions[t] = None) \/ Abandoned
    BY <2>1 DEF StreamInv, Attached, TypeOK, Abandoned
  <2>3. ~EntryStarting
    BY EntryIsACall DEF EntryStarting, Settled
  <2> QED
    BY <2>1, <2>2, <2>3 DEF StreamInv, Awaited
<1> QED
  BY <1>1, StreamInvariant, PTL

-----------------------------------------------------------------------------
(* Threads.  A call that asks for a Thread finds the Run that created it   *)
(* answered and done with it, and is alone on it.  Whoever holds a stream  *)
(* has the session of its Thread.  Both unless it inherited the Thread from *)
(* a race, or from a start that failed.                                    *)

\* c has the use of its Thread: its stream is entered, and is consumed or has
\* still to be given up for a Run that goes on.
Holding(c) ==
  \/ call[c].pc \in {"starting", "recording", "applying", "readying"}
  \/ Consumed(c)
  \/ call[c].pc \in {"cancelling", "closing"} /\ ActiveRun(c)

\* c has found the Thread it asked for free, and has not done with it.
InUse(c) ==
  call[c].want # None /\ (call[c].pc \in {"threading", "attaching"} \/ Holding(c))

Wants(c) ==
  LET t == call[c].want IN
  t # None =>
    /\ call[t].want = None /\ call[t].thread = t /\ call[t].pc \in Answered
    /\ call[c].pc = "threading" \/ call[c].thread # None => ~Holding(t)

Alone(c) ==
  ~Inherits(c) /\ InUse(c) =>
    \A d \in Calls \ {c} : call[d].want = call[c].want => ~InUse(d)

Hold(c) ==
  Holding(c) /\ ~Inherits(c) => call[c].thread \in Calls /\ sessions[call[c].thread] = c

Attended(c) ==
  call[c].pc \in {"fetching", "done"} /\ ActiveRun(c) /\ ~Inherits(c) =>
    call[c].consumer = "on"

ThreadInv == \A c \in Calls : Wants(c) /\ Alone(c) /\ Hold(c) /\ Attended(c)

\* Two calls on one Thread: one asked for the Thread of the other, whose start
\* is answered and which does not hold it any more; or both asked for it.
LEMMA SameThread ==
  ASSUME TypeOK, HistoryInv, ThreadInv, NEW c \in Calls, NEW d \in Calls, c # d,
         call[c].thread = call[d].thread, call[c].thread \in Calls
  PROVE  \/ call[d].want = c /\ call[c].pc \in Answered /\ ~Holding(c)
         \/ call[c].want = d /\ call[d].pc \in Answered /\ ~Holding(d)
         \/ /\ call[c].want # None /\ call[d].want = call[c].want
            /\ call[c].thread = call[c].want
<1>1. /\ call[c].thread = IF call[c].want = None THEN c ELSE call[c].want
      /\ call[d].thread = IF call[d].want = None THEN d ELSE call[d].want
      /\ call[d].thread # None /\ call[c].thread # None
  BY NoneIsNoCall DEF HistoryInv, History
<1>2. Wants(c) /\ Wants(d)
  BY DEF ThreadInv
<1> QED
  BY <1>1, <1>2, NoneIsNoCall DEF Wants

\* A call that holds its Thread, and inherited nothing, shares it with nobody
\* who is using it, or has failed on it.
LEMMA HoldsAlone ==
  ASSUME TypeOK, HistoryInv, ThreadInv, NEW c \in Calls, NEW d \in Calls, c # d,
         call[c].pc = "attaching" \/ Holding(c) \/ call[c].pc \in Failing,
         Holding(d), ~Inherits(d), call[c].thread \in Calls
  PROVE  call[d].thread \in Calls /\ call[d].thread # call[c].thread
<1>1. call[d].thread \in Calls /\ Alone(d)
  BY DEF ThreadInv, Hold
<1>2. SUFFICES ASSUME call[c].thread = call[d].thread
               PROVE  FALSE
  BY <1>1
<1>3. CASE call[d].want = c /\ call[c].pc \in Answered /\ ~Holding(c)
  BY <1>2, <1>3, NoneIsNoCall, SameThread DEF Inherits, Answered, Failing, HistoryInv, History
<1>4. CASE call[c].want = d /\ call[d].pc \in Answered /\ ~Holding(d)
  BY <1>4
<1>5. CASE call[c].want # None /\ call[d].want = call[c].want /\ call[c].thread = call[c].want
  <2>1. call[c].pc \notin Failing
    BY <1>5 DEF Inherits
  <2>2. InUse(c) /\ InUse(d)
    BY <1>5, <2>1 DEF InUse
  <2> QED
    BY <1>1, <1>5, <2>2 DEF Alone
<1> QED
  BY <1>2, <1>3, <1>4, <1>5, SameThread

\* What every step leaves true of a call that has begun.
Steady(d) ==
  /\ Asks(call[d], call'[d])
  /\ call[d].pc \in Answered => call'[d].pc \in Answered
  /\ call[d].pc \in Failing => call'[d].pc \in Failing
  /\ call[d].pc \in Answered /\ ~Holding(d) => ~Holding(d)'
  /\ call[d].thread # None => call'[d].thread = call[d].thread

LEMMA InheritsStays ==
  ASSUME TypeOK, \A d \in Calls : Steady(d), faults \subseteq faults', NEW c \in Calls
  PROVE  Inherits(c) => Inherits(c)'
BY DEF Inherits, Steady, Asks

LEMMA WantsSteady ==
  ASSUME TypeOK, ThreadInv, \A d \in Calls : Steady(d), NEW c \in Calls,
         \/ call[c].want = None \/ call[c].pc = "threading" \/ call[c].thread # None
         \/ ~Holding(call[c].want)
         \/ call'[c].pc # "threading" /\ call'[c].thread = None
  PROVE  Wants(c)'
<1>1. Wants(c) /\ call[c].want \in Calls \cup {None} /\ call'[c].want = call[c].want
  BY DEF ThreadInv, TypeOK, CallRecords, Steady, Asks
<1> DEFINE t == call[c].want
<1>2. CASE t = None
  BY <1>1, <1>2 DEF Wants
<1>3. CASE t # None
  <2>1. t \in Calls /\ Steady(t) /\ t # None
    BY <1>1, <1>3
  <2>2. call'[t].want = None /\ call'[t].thread = t /\ call'[t].pc \in Answered
    BY <1>1, <1>3, <2>1 DEF Wants, Steady, Asks
  <2>3. call'[c].pc = "threading" \/ call'[c].thread # None => ~Holding(t)'
    BY <1>1, <1>3, <2>1 DEF Wants, Steady
  <2> QED
    BY <1>1, <1>3, <2>2, <2>3 DEF Wants
<1> QED
  BY <1>2, <1>3

\* Calls that were not using their Threads still are not, but for one that
\* fails on a Thread it inherited.
LEMMA AloneSteady ==
  ASSUME TypeOK, ThreadInv, \A d \in Calls : Steady(d), faults \subseteq faults',
         \A d \in Calls : InUse(d)' =>
           \/ InUse(d)
           \/ Inherits(d)' /\ call'[d].pc \in Failing /\ call'[d].thread = call'[d].want,
         NEW c \in Calls
  PROVE  Alone(c)'
<1> SUFFICES ASSUME ~Inherits(c)', InUse(c)', NEW d \in Calls \ {c},
                    call'[d].want = call'[c].want, InUse(d)'
             PROVE  FALSE
  BY DEF Alone
<1>1. /\ ~Inherits(c) /\ InUse(c) /\ call[d].want = call[c].want
      /\ call[c].want # None /\ call'[c].want = call[c].want
  BY InheritsStays DEF Steady, Asks, InUse
<1>2. ~InUse(d)
  BY <1>1 DEF ThreadInv, Alone
<1>3. call'[d].pc \in Failing /\ call'[d].thread = call'[c].want
  BY <1>2
<1> QED
  BY <1>1, <1>3 DEF Inherits

\* A call that does not take the step is steady and holds no more than before.
Bystands(d) == Onlooks(d) /\ (ActiveRun(d)' => ActiveRun(d))

LEMMA BystandsSteady ==
  ASSUME NEW d, Bystands(d)
  PROVE  /\ Steady(d) /\ (Holding(d)' => Holding(d)) /\ (InUse(d)' => InUse(d))
BY DEF Bystands, Onlooks, Agree, Asks, Steady, Holding, Consumed, InUse

LEMMA ThreadsSteady ==
  ASSUME TypeOK, ThreadInv, NEW c \in Calls, Steady(c), faults \subseteq faults',
         \A d \in Calls \ {c} : Bystands(d),
         \A d \in Calls \ {c} : Holding(d) /\ ~Inherits(d) =>
           sessions'[call[d].thread] = sessions[call[d].thread],
         \A d \in Calls : Alone(d)', Wants(c)', Hold(c)', Attended(c)'
  PROVE  ThreadInv'
<1>1. \A d \in Calls : Steady(d)
  BY BystandsSteady
<1>2. ASSUME NEW d \in Calls \ {c}
      PROVE  Wants(d)' /\ Hold(d)' /\ Attended(d)'
  <2>1. /\ Bystands(d) /\ Agree(call[d], call'[d]) /\ call'[d].consumer = call[d].consumer
        /\ (Holding(d)' => Holding(d)) /\ Wants(d) /\ Hold(d) /\ Attended(d)
    BY BystandsSteady DEF Bystands, Onlooks, ThreadInv
  <2>2. Wants(d)' /\ (Inherits(d) => Inherits(d)')
    <3>1. call'[d].pc = call[d].pc /\ call'[d].thread = call[d].thread
      BY <2>1 DEF Agree
    <3> QED
      BY <1>1, <3>1, WantsSteady, InheritsStays
  <2>3. Hold(d)'
    BY <2>1, <2>2 DEF Hold, Agree
  <2>4. Attended(d)'
    BY <2>1, <2>2 DEF Attended, Bystands, Agree
  <2> QED
    BY <2>2, <2>3, <2>4
<1> QED
  BY <1>2 DEF ThreadInv

LEMMA ThreadsOthers ==
  ASSUME IInv, ThreadInv, Rests
  PROVE  ThreadInv'
<1>1. /\ TypeOK /\ Entry \in Calls /\ (\A d \in Calls : Bystands(d))
      /\ faults \subseteq faults' /\ UNCHANGED sessions
  BY EntryIsACall DEF IInv, Rests, Bystands
<1>2. \A d \in Calls : Steady(d) /\ (Holding(d)' => Holding(d)) /\ (InUse(d)' => InUse(d))
  BY <1>1, BystandsSteady
<1>3. Inherits(Entry) => Inherits(Entry)'
  BY <1>1, <1>2, InheritsStays
<1>4. /\ Agree(call[Entry], call'[Entry]) /\ call'[Entry].consumer = call[Entry].consumer
      /\ Hold(Entry) /\ Attended(Entry)
  BY <1>1 DEF Bystands, Onlooks, ThreadInv
<1>5. Wants(Entry)'
  <2>1. call'[Entry].pc = call[Entry].pc /\ call'[Entry].thread = call[Entry].thread
    BY <1>4 DEF Agree
  <2> QED
    BY <1>1, <1>2, <2>1, WantsSteady
<1>6. Hold(Entry)' /\ Attended(Entry)'
  BY <1>1, <1>2, <1>3, <1>4 DEF Hold, Attended, Agree, Bystands
<1>7. \A d \in Calls : Alone(d)'
  BY <1>1, <1>2, AloneSteady
<1> QED
  BY <1>1, <1>2, <1>5, <1>6, <1>7, ThreadsSteady

LEMMA ThreadsWalk ==
  ASSUME IInv, HistoryInv, ThreadInv, NEW c \in Calls, Walks(c)
  PROVE  ThreadInv'
<1>1. /\ TypeOK /\ Path(c) /\ History(c) /\ Wants(c) /\ Hold(c) /\ Attended(c)
      /\ Asks(call[c], call'[c]) /\ Route(call[c].pc, call'[c].pc) /\ Advances(c)
      /\ UNCHANGED sessions /\ faults \subseteq faults'
      /\ call'[c].consumer = IF Taken(c) THEN "on" ELSE call[c].consumer
  BY DEF IInv, CallInv, HistoryInv, ThreadInv, Walks
<1>2. \A d \in Calls \ {c} : Bystands(d)
  BY DEF Walks, Bystands, ActiveRun
<1>3. call[c].thread # None => call'[c].thread = call[c].thread
  BY <1>1 DEF Walks, History
<1>4. ActiveRun(c)' => ActiveRun(c) \/ call[c].pc = "starting"
  BY <1>1 DEF Advances, ActiveRun
<1>5. Steady(c)
  <2>1. call[c].pc \in Answered => call[c].pc = "cancelling" /\ call'[c].pc = "closing"
    BY <1>1 DEF Route, Answered, Failing
  <2>2. call[c].pc \in Answered /\ ~Holding(c) => ~Holding(c)'
    BY <1>4, <2>1 DEF Holding, Consumed
  <2> QED
    BY <1>1, <1>3, <2>1, <2>2 DEF Steady, Answered, Failing
<1>6. \/ call[c].want = None \/ call[c].pc = "threading" \/ call[c].thread # None
      \/ ~Holding(call[c].want)
      \/ call'[c].pc # "threading" /\ call'[c].thread = None
  <2>1. ASSUME call[c].want # None, Holding(call[c].want)
        PROVE  call'[c].pc # "threading"
    <3> DEFINE t == call[c].want
    <3>1. t \in Calls /\ t # None /\ call[t].want = None /\ call[t].thread = t
      BY <1>1, <2>1 DEF Wants, TypeOK, CallRecords
    <3>2. sessions[t] = t
      BY <2>1, <3>1 DEF ThreadInv, Hold, Inherits
    <3> QED
      BY <2>1, <3>1, <3>2, NoneIsNoCall DEF Walks, FindsFree
  <2>2. ASSUME call[c].pc # "threading", call[c].thread = None
        PROVE  call'[c].thread = None
    <3>1. call'[c].pc # "attaching"
      BY <1>1, <2>2 DEF Route
    <3> QED
      BY <2>2, <3>1 DEF Walks
  <2> QED
    BY <2>1, <2>2
<1>7. Wants(c)' /\ \A d \in Calls : Steady(d) /\ (Inherits(d) => Inherits(d)')
  <2>1. \A d \in Calls : Steady(d)
    BY <1>2, <1>5, BystandsSteady
  <2> QED
    BY <1>1, <1>6, <2>1, WantsSteady, InheritsStays
<1>8. Holding(c)' =>
        /\ call'[c].pc # "attaching"
        /\ \/ Holding(c)
           \/ Inherits(c) /\ call'[c].pc \in Failing /\ call'[c].thread # None
  <2> SUFFICES ASSUME Holding(c)'
               PROVE  /\ call'[c].pc # "attaching"
                      /\ \/ Holding(c)
                         \/ Inherits(c) /\ call'[c].pc \in Failing /\ call'[c].thread # None
    OBVIOUS
  <2>1. CASE call'[c].pc \in {"starting", "recording", "applying", "readying"}
    BY <1>1, <2>1 DEF Holding, Route
  <2>2. CASE Consumed(c)'
    <3>1. call[c].pc \in {"waiting", "existing"} => call[c].consumer = "none"
      BY <1>1 DEF History, Answered, Failing
    <3> QED
      BY <1>1, <2>2, <3>1 DEF Holding, Route, Consumed, Taken
  <2>3. CASE call'[c].pc \in {"cancelling", "closing"} /\ ActiveRun(c)'
    <3>1. ActiveRun(c) => call[c].pc \notin Early
      BY <1>1 DEF Path, ActiveRun
    <3>2. call[c].pc \in {"recording", "applying", "readying", "starting", "fetching", "cancelling"}
      BY <1>1, <1>4, <2>3, <3>1 DEF Route, Early
    <3>3. Holding(c) \/ (Inherits(c) /\ call[c].pc = "fetching")
      BY <1>1, <1>4, <2>3, <3>2 DEF Holding, Attended, Consumed
    <3>4. call[c].pc = "fetching" => call'[c].thread # None
      BY <1>1, <1>3, NoneIsNoCall DEF Path
    <3> QED
      BY <2>3, <3>3, <3>4 DEF Failing
  <2> QED
    BY <2>1, <2>2, <2>3 DEF Holding
<1>9. Hold(c)'
  <2> SUFFICES ASSUME Holding(c)', ~Inherits(c)'
               PROVE  call'[c].thread \in Calls /\ sessions'[call'[c].thread] = c
    BY DEF Hold
  <2>1. Holding(c) /\ ~Inherits(c) /\ call'[c].pc # "attaching"
    BY <1>7, <1>8
  <2> QED
    BY <1>1, <2>1 DEF Hold, Walks
<1>10. Attended(c)'
  <2> SUFFICES ASSUME call'[c].pc \in {"fetching", "done"}, ActiveRun(c)', ~Inherits(c)'
               PROVE  call'[c].consumer = "on"
    BY DEF Attended
  <2>1. ActiveRun(c) /\ call[c].pc \notin Early
    BY <1>1, <1>4 DEF Path, ActiveRun, Route
  <2>2. Taken(c) \/ call[c].pc = "fetching"
    BY <1>1, <2>1 DEF Route, Early, Taken
  <2> QED
    BY <1>1, <1>7, <2>1, <2>2 DEF Attended
<1>11. ASSUME NEW d \in Calls
       PROVE  Alone(d)'
  <2>1. \A e \in Calls \ {c} : InUse(e)' => InUse(e)
    BY <1>2, BystandsSteady
  <2>2. CASE InUse(c)' => \/ InUse(c)
                           \/ /\ Inherits(c)' /\ call'[c].pc \in Failing
                              /\ call'[c].thread = call'[c].want
    BY <1>1, <1>7, <2>1, <2>2, AloneSteady
  <2>3. CASE /\ InUse(c)' /\ ~InUse(c)
             /\ ~(/\ Inherits(c)' /\ call'[c].pc \in Failing
                  /\ call'[c].thread = call'[c].want)
    <3> DEFINE t == call[c].want
    <3>1. call'[c].want = t /\ t # None /\ t \in Calls
      BY <1>1, <2>3 DEF Asks, InUse, TypeOK, CallRecords
    <3>2. ~Holding(c)'
      <4>1. call'[c].thread # None => call'[c].thread = t
        BY <1>1, <1>3, <3>1 DEF Walks, History
      <4> QED
        BY <1>7, <1>8, <2>3, <3>1, <4>1 DEF InUse
    <3>3. call[c].pc = "opening" /\ call'[c].pc = "threading"
      BY <1>1, <2>3, <3>1, <3>2 DEF InUse, Route
    <3>4. sessions[t] = None /\ (Overlapped(c) => <<"raced", t>> \in faults')
      BY <3>1, <3>3 DEF Walks, FindsFree
    <3>5. ASSUME NEW e \in Calls \ {c}, call[e].want = t, InUse(e), ~Inherits(e)'
          PROVE  FALSE
      <4>1. CASE call[e].pc \in {"threading", "attaching"}
        <5>1. Overlapped(c)
          BY <3>1, <3>5, <4>1 DEF Overlapped
        <5>2. call'[e].want = t
          BY <1>7, <3>5 DEF Steady, Asks
        <5> QED
          BY <3>1, <3>4, <3>5, <5>1, <5>2 DEF Inherits
      <4>2. CASE Holding(e)
        <5>1. sessions[call[e].thread] = e /\ call[e].thread \in Calls
          BY <1>7, <3>5, <4>2 DEF ThreadInv, Hold
        <5>2. call[e].thread = t
          BY <3>1, <3>5, <5>1, NoneIsNoCall DEF HistoryInv, History
        <5> QED
          BY <3>4, <5>1, <5>2, NoneIsNoCall
      <4> QED
        BY <3>5, <4>1, <4>2 DEF InUse
    <3>6. SUFFICES ASSUME ~Inherits(d)', InUse(d)', NEW e \in Calls \ {d},
                          call'[e].want = call'[d].want, InUse(e)'
                   PROVE  FALSE
      BY DEF Alone
    <3>7. call[e].want = call[d].want
      BY <1>7, <3>6 DEF Steady, Asks
    <3>8. CASE d # c /\ e = c
      BY <2>1, <3>5, <3>6, <3>7, <3>8
    <3>9. CASE d = c
      <4>1. InUse(e) /\ call[e].want = t
        BY <2>1, <3>6, <3>7, <3>9
      <4>2. Inherits(e)'
        BY <3>5, <3>6, <3>9, <4>1
      <4>3. call'[e].want = t
        BY <3>1, <3>6, <3>9
      <4>4. PICK x \in Calls \ {e} : call'[x].thread = t /\ call'[x].pc \in Failing
        BY <3>1, <3>6, <3>9, <4>2, <4>3 DEF Inherits
      <4>5. x # c
        BY <3>3, <4>4 DEF Failing
      <4> QED
        BY <3>1, <3>6, <3>9, <4>4, <4>5 DEF Inherits
    <3>10. CASE d # c /\ e # c
      <4>1. InUse(d) /\ InUse(e) /\ ~Inherits(d)
        BY <1>7, <2>1, <3>6, <3>10
      <4> QED
        BY <3>6, <3>7, <4>1 DEF ThreadInv, Alone
    <3> QED
      BY <3>8, <3>9, <3>10
  <2> QED
    BY <2>2, <2>3
<1> QED
  BY <1>1, <1>2, <1>5, <1>7, <1>9, <1>10, <1>11, ThreadsSteady

LEMMA ThreadsAttach ==
  ASSUME IInv, HistoryInv, ThreadInv, NEW c \in Calls, Attach(c)
  PROVE  ThreadInv'
<1> DEFINE u == call[c].thread
<1>1. /\ TypeOK /\ call[c].pc = "attaching" /\ u \in Calls /\ u # None
  BY NoneIsNoCall DEF IInv, Attach, CallInv, Path
<1>2. /\ sessions' = [sessions EXCEPT ![u] = c] /\ Goto(c, "starting")
      /\ UNCHANGED run /\ faults \subseteq faults'
  BY DEF Attach, server
<1>3. GotoEffect(c, "starting")
  BY <1>1, <1>2, GotoDoes DEF Pcs
<1>4. /\ call'[c].pc = "starting" /\ call'[c].thread = u /\ call[c].thread = u
      /\ Asks(call[c], call'[c]) /\ \A d \in Calls \ {c} : call'[d] = call[d]
  BY <1>3 DEF GotoEffect, Asks
<1> HIDE DEF u
<1>5. Steady(c)
  BY <1>1, <1>4 DEF Steady, Answered, Failing
<1>6. \A d \in Calls \ {c} : Bystands(d)
  BY <1>2, <1>4 DEF Bystands, Onlooks, Agree, Asks, ActiveRun
<1>7. ASSUME NEW d \in Calls \ {c}, Holding(d), ~Inherits(d)
      PROVE  sessions'[call[d].thread] = sessions[call[d].thread]
  <2>1. call[d].thread # u /\ call[d].thread \in Calls
    BY <1>1, <1>4, <1>7, HoldsAlone
  <2> QED
    BY <1>1, <1>2, <2>1 DEF TypeOK
<1>8. Wants(c)' /\ \A d \in Calls : Steady(d)
  BY <1>1, <1>4, <1>5, <1>6, BystandsSteady, WantsSteady
<1>9. Hold(c)' /\ Attended(c)'
  BY <1>1, <1>2, <1>4 DEF TypeOK, Hold, Attended
<1>10. \A d \in Calls : InUse(d)' => InUse(d)
  BY <1>1, <1>4, <1>6, BystandsSteady DEF InUse, Asks
<1>11. \A d \in Calls : Alone(d)'
  BY <1>1, <1>2, <1>8, <1>10, AloneSteady
<1> QED
  BY <1>1, <1>2, <1>5, <1>6, <1>7, <1>8, <1>9, <1>11, ThreadsSteady

\* A start that failed leaves: it closes the session of its Thread, releases
\* the Lifecycle, or is cut short.
LEMMA ThreadsLeave ==
  ASSUME IInv, HistoryInv, ThreadInv, NEW c \in Calls, call[c].pc \in Failing,
         call'[c].pc \in {"releasing", "failed"}, Asks(call[c], call'[c]),
         call'[c].thread = call[c].thread, \A d \in Calls \ {c} : Bystands(d),
         faults \subseteq faults',
         \A t \in Calls \ {call[c].thread} : sessions'[t] = sessions[t]
  PROVE  ThreadInv'
<1>1. TypeOK
  BY DEF IInv
<1>2. Steady(c) /\ ~Holding(c)' /\ ~InUse(c)'
  BY DEF Steady, Answered, Failing, Holding, Consumed, InUse
<1>3. ASSUME NEW d \in Calls \ {c}, Holding(d), ~Inherits(d)
      PROVE  sessions'[call[d].thread] = sessions[call[d].thread]
  <2>1. call[d].thread \in Calls
    BY <1>3 DEF ThreadInv, Hold
  <2>2. call[d].thread # call[c].thread
    BY <1>1, <1>3, <2>1, HoldsAlone
  <2> QED
    BY <2>1, <2>2
<1>4. /\ \A d \in Calls : Steady(d)
      /\ \A d \in Calls : InUse(d)' => InUse(d)
  BY <1>2, BystandsSteady
<1>5. Wants(c)'
  BY <1>1, <1>4, WantsSteady
<1>6. Hold(c)' /\ Attended(c)'
  BY <1>2 DEF Hold, Attended
<1>7. \A d \in Calls : Alone(d)'
  BY <1>1, <1>4, AloneSteady
<1> QED
  BY <1>1, <1>2, <1>3, <1>5, <1>6, <1>7, ThreadsSteady

LEMMA ThreadsFailed ==
  ASSUME IInv, HistoryInv, ThreadInv, NEW c \in Calls,
         CloseFailedStart(c) \/ ReleaseFailedStart(c) \/ Cuts(c)
  PROVE  ThreadInv'
<1>1. ASSUME NEW p \in {"releasing", "failed"}, Goto(c, p), UNCHANGED run
      PROVE  /\ call'[c].pc \in {"releasing", "failed"} /\ Asks(call[c], call'[c])
             /\ call'[c].thread = call[c].thread /\ \A d \in Calls \ {c} : Bystands(d)
  <2>1. GotoEffect(c, p)
    BY <1>1, GotoDoes DEF IInv, Pcs, Settled
  <2> QED
    BY <1>1, <2>1 DEF GotoEffect, Asks, Bystands, Onlooks, Agree, ActiveRun
<1>2. CASE CloseFailedStart(c)
  <2>1. /\ call[c].pc \in Failing /\ UNCHANGED run /\ faults \subseteq faults'
        /\ \E p \in {"releasing", "failed"} : Goto(c, p)
    BY <1>2 DEF CloseFailedStart, server, Failing
  <2>2. ASSUME NEW t \in Calls \ {call[c].thread}
        PROVE  sessions'[t] = sessions[t]
    <3>1. \/ sessions' = sessions
          \/ sessions' = [sessions EXCEPT ![call[c].thread] = None]
      BY <1>2 DEF CloseFailedStart
    <3>2. sessions \in [Calls -> Calls \cup {None}]
      BY DEF IInv, TypeOK
    <3> QED
      BY <2>2, <3>1, <3>2
  <2> QED
    BY <1>1, <2>1, <2>2, ThreadsLeave
<1>3. CASE ReleaseFailedStart(c)
  <2>1. /\ call[c].pc \in Failing /\ Goto(c, "failed") /\ UNCHANGED <<run, sessions>>
        /\ faults \subseteq faults'
    BY <1>3 DEF ReleaseFailedStart, server, Failing, Fault
  <2> QED
    BY <1>1, <2>1, ThreadsLeave
<1>4. CASE Cuts(c)
  <2>1. UNCHANGED sessions /\ faults \subseteq faults' /\ call[c].pc \in Failing
    BY <1>4 DEF Cuts, CutsShort, coordinator, Failing
  <2>2. \A d \in Calls \ {c} : Bystands(d)
    BY <1>4 DEF Cuts, CutsShort, Bystands, ActiveRun
  <2> QED
    BY <1>4, <2>1, <2>2, ThreadsLeave DEF Cuts, CutsShort
<1> QED
  BY <1>2, <1>3, <1>4

\* The consumer of a Run leaves the stream: it closes the session of its
\* Thread, or releases the Lifecycle.
LEMMA ThreadsDetach ==
  ASSUME IInv, HistoryInv, ThreadInv, NEW c \in Calls, NEW v \in {"closing", "closed"},
         call[c].consumer \in {"on", "closing"}, call' = [call EXCEPT ![c].consumer = v],
         \/ call[c].consumer = "closing"
         \/ TerminalRun(c) \/ sessions[call[c].thread] # c,
         UNCHANGED run, faults \subseteq faults',
         \/ sessions' = sessions
         \/ /\ call[c].consumer = "on"
            /\ sessions' = [sessions EXCEPT ![call[c].thread] = None]
  PROVE  ThreadInv'
<1>1. /\ TypeOK /\ History(c) /\ Wants(c) /\ Hold(c) /\ Attended(c)
      /\ call[c].thread \in Calls /\ call[c].thread # None
      /\ call[c].pc \in {"fetching"} \cup Answered
  BY NoneIsNoCall DEF IInv, HistoryInv, History, CallInv, Path, ThreadInv
<1>2. /\ Agree(call[c], call'[c]) /\ call'[c].consumer = v
      /\ \A d \in Calls \ {c} : call'[d] = call[d]
  BY <1>1, ConsumerDoes
<1>3. Steady(c) /\ (Holding(c)' => Holding(c)) /\ call'[c].pc = call[c].pc
  BY <1>2 DEF Agree, Asks, Steady, Holding, Consumed, ActiveRun
<1>4. \A d \in Calls \ {c} : Bystands(d)
  BY <1>2 DEF Bystands, Onlooks, Agree, Asks, ActiveRun
<1>5. ASSUME NEW d \in Calls \ {c}, Holding(d), ~Inherits(d)
      PROVE  sessions'[call[d].thread] = sessions[call[d].thread]
  <2>1. CASE call[c].consumer = "on"
    <3>1. call[c].pc \in Failing \/ Holding(c)
      BY <1>1, <2>1 DEF Answered, Holding, Consumed
    <3>2. call[d].thread # call[c].thread /\ call[d].thread \in Calls
      BY <1>1, <1>5, <3>1, HoldsAlone
    <3> QED
      BY <1>1, <3>2 DEF TypeOK
  <2>2. CASE call[c].consumer # "on"
    BY <2>2
  <2> QED
    BY <2>1, <2>2
<1>6. /\ Wants(c)' /\ (Inherits(c) => Inherits(c)')
      /\ \A d \in Calls : Steady(d) /\ (InUse(d)' => InUse(d))
  <2>1. InUse(c)' => InUse(c)
    BY <1>3 DEF InUse, Steady, Asks
  <2>2. \A d \in Calls : Steady(d) /\ (InUse(d)' => InUse(d))
    BY <1>3, <1>4, <2>1, BystandsSteady
  <2> QED
    BY <1>1, <2>2, WantsSteady, InheritsStays
<1>7. Hold(c)'
  <2>1. Holding(c)' => call[c].pc \in {"cancelling", "closing"} /\ ActiveRun(c)
    BY <1>1, <1>2, <1>3 DEF Holding, Consumed, Answered, Failing, ActiveRun
  <2>2. ActiveRun(c) => ~TerminalRun(c)
    BY DEF ActiveRun, TerminalRun
  <2>3. call'[c].thread = call[c].thread
    BY <1>2 DEF Agree
  <2>4. Holding(c)' /\ ~Inherits(c) => sessions[call[c].thread] = c
    BY <1>1, <1>3 DEF Hold
  <2>5. CASE call[c].consumer = "on"
    BY <1>6, <2>1, <2>2, <2>4, <2>5 DEF Hold
  <2>6. CASE call[c].consumer # "on"
    BY <1>1, <1>6, <2>3, <2>4, <2>6 DEF Hold
  <2> QED
    BY <2>5, <2>6
<1>8. Attended(c)'
  <2> SUFFICES ASSUME call[c].pc \in {"fetching", "done"}, ActiveRun(c), ~Inherits(c)
               PROVE  FALSE
    BY <1>3, <1>6 DEF Attended, ActiveRun
  <2>1. call[c].consumer = "on"
    BY <1>1 DEF Attended
  <2>2. sessions[call[c].thread] = c
    BY <1>1, <2>1 DEF Hold, Holding, Consumed
  <2> QED
    BY <2>1, <2>2 DEF ActiveRun, TerminalRun
<1>9. \A d \in Calls : Alone(d)'
  BY <1>1, <1>6, AloneSteady
<1> QED
  BY <1>1, <1>3, <1>4, <1>5, <1>6, <1>7, <1>8, <1>9, ThreadsSteady

LEMMA ThreadsConsume ==
  ASSUME IInv, HistoryInv, ThreadInv, NEW c \in Calls, ConsumerCloses(c) \/ ConsumerReleases(c)
  PROVE  ThreadInv'
<1>1. faults \subseteq faults' /\ UNCHANGED run
  BY DEF ConsumerCloses, ConsumerReleases, Fault, server
<1> QED
  BY <1>1, ThreadsDetach DEF ConsumerCloses, ConsumerReleases

\* A call begins: nobody knows its Thread yet, and the one it asks for was
\* created by a Run whose start is answered.
LEMMA ThreadsBegin ==
  ASSUME TypeOK, ThreadInv, NEW c \in Calls, call[c].pc = "idle", call[c].want = None,
         call[c].thread = None,
         \A d \in Calls \ {c} : call'[d] = call[d], UNCHANGED <<run, sessions, faults>>,
         call'[c].pc \in {"opening", "lookup", "waiting", "failed"}, call'[c].thread = None,
         NEW x \in Calls \cup {None}, call'[c].want = x,
         x # None => call[x].want = None /\ call[x].thread = x /\ call[x].pc \in Answered
  PROVE  ThreadInv'
<1>1. call[c].pc \notin Answered
  BY DEF Answered, Failing
<1>2. ASSUME NEW d \in Calls \ {c}
      PROVE  /\ call[d].want # None => call[d].want \in Calls \ {c}
             /\ Inherits(d)' <=> Inherits(d)
             /\ Holding(d)' <=> Holding(d)
  <2>1. Wants(d) /\ call'[d] = call[d]
    BY <1>2 DEF ThreadInv
  <2>2. call[d].want # None => call[d].want \in Calls \ {c}
    BY <1>1, <2>1 DEF Wants, TypeOK, CallRecords
  <2>3. Inherits(d)' <=> Inherits(d)
    BY <2>1 DEF Inherits
  <2> QED
    BY <2>1, <2>2, <2>3 DEF Holding, Consumed, ActiveRun
<1>3. ASSUME NEW d \in Calls \ {c}
      PROVE  Wants(d)' /\ Hold(d)' /\ Attended(d)'
  <2>1. Wants(d) /\ Hold(d) /\ Attended(d) /\ call'[d] = call[d]
    BY <1>3 DEF ThreadInv
  <2>2. Hold(d)' /\ Attended(d)'
    BY <1>2, <2>1 DEF Hold, Attended, ActiveRun
  <2>3. Wants(d)'
    <3> DEFINE t == call[d].want
    <3>1. CASE t = None
      BY <2>1, <3>1 DEF Wants
    <3>2. CASE t # None
      <4>1. t \in Calls \ {c} /\ call'[t] = call[t] /\ (Holding(t)' <=> Holding(t))
        BY <1>2, <1>3, <3>2
      <4> QED
        BY <2>1, <3>2, <4>1 DEF Wants
    <3> QED
      BY <3>1, <3>2
  <2> QED
    BY <2>2, <2>3
<1>4. ~Holding(c)' /\ ~InUse(c)' /\ call'[c].pc \notin {"fetching", "done", "threading"}
  BY DEF Holding, Consumed, InUse
<1>5. Wants(c)'
  <2> SUFFICES ASSUME x # None
               PROVE  call'[x].want = None /\ call'[x].thread = x /\ call'[x].pc \in Answered
    BY <1>4 DEF Wants
  <2>1. x \in Calls \ {c}
    BY <1>1
  <2> QED
    BY <2>1
<1>6. Hold(c)' /\ Attended(c)' /\ Alone(c)'
  BY <1>4 DEF Hold, Attended, Alone
<1>7. ASSUME NEW d \in Calls \ {c}
      PROVE  Alone(d)'
  <2>1. Alone(d) /\ call'[d] = call[d]
    BY <1>7 DEF ThreadInv
  <2>2. \A e \in Calls \ {c} : InUse(e)' <=> InUse(e)
    BY <1>2 DEF InUse
  <2> QED
    BY <1>2, <1>4, <2>1, <2>2 DEF Alone
<1> QED
  BY <1>3, <1>5, <1>6, <1>7 DEF ThreadInv

\* A Thread that a call can name is that of the Run which created it, whose
\* start is answered.
LEMMA KnownThreadsAnswered ==
  ASSUME IInv, OpInv, HistoryInv, ThreadInv, NEW x \in KnownThreads
  PROVE  /\ x \in Calls /\ call[x].want = None /\ call[x].thread = x
         /\ call[x].pc \in Answered
<1>1. PICK q \in Calls : call[q].result # None /\ x = call[call[q].result].thread
  BY DEF KnownThreads
<1> DEFINE r == call[q].result
<1>2. r \in Calls /\ r \in store /\ call[r].pc \in Answered /\ Wants(r)
  BY <1>1 DEF IInv, TypeOK, CallRecords, OpInv, Answers, HistoryInv, History, ThreadInv
<1>3. x \in Calls /\ x # None
  BY <1>1, <1>2, NoneIsNoCall DEF OpInv, Stored, IInv, CallInv, Path
<1>4. x = IF call[r].want = None THEN r ELSE call[r].want
  BY <1>1, <1>2, <1>3 DEF HistoryInv, History
<1>5. CASE call[r].want = None
  <2>1. x = r /\ call[r].thread = r
    BY <1>1, <1>4, <1>5
  <2> QED
    BY <1>2, <1>5, <2>1
<1>6. CASE call[r].want # None
  <2>1. x = call[r].want
    BY <1>4, <1>6
  <2> QED
    BY <1>2, <1>3, <1>6, <2>1 DEF Wants
<1> QED
  BY <1>5, <1>6

LEMMA ThreadsStart ==
  ASSUME IInv, OpInv, HistoryInv, ThreadInv,
         StartEntry \/ \E c \in Calls : StartRun(c)
  PROVE  ThreadInv'
<1>1. TypeOK
  BY DEF IInv
<1>2. CASE StartEntry
  <2>1. /\ EntryEffect /\ UNCHANGED <<run, sessions, faults>> /\ Entry \in Calls
        /\ call[Entry].pc = "idle"
    BY <1>1, <1>2, StartEntryDoes, EntryIsACall DEF EntryEffect, StartEntry, server
  <2>2. call[Entry].want = None /\ call[Entry].thread = None
    BY <2>1 DEF OpInv, Begun
  <2>3. /\ call'[Entry].pc = "opening" /\ call'[Entry].thread = None /\ call'[Entry].want = None
        /\ \A d \in Calls \ {Entry} : call'[d] = call[d]
    BY <2>1, <2>2 DEF EntryEffect
  <2> QED
    BY <1>1, <2>1, <2>2, <2>3, ThreadsBegin
<1>3. ASSUME NEW c \in Calls, StartRun(c)
      PROVE  ThreadInv'
  <2>1. PICK r \in Calls, op \in Ops, target \in Targets, want \in KnownThreads \cup {None} :
          StartEffect(c, r, op, target, want)
    BY <1>1, <1>3, StartRunDoes
  <2>2. /\ call[c].pc = "idle" /\ call[c].want = None /\ call[c].thread = None
        /\ UNCHANGED <<run, sessions, faults>>
    BY <1>3 DEF StartRun, server, OpInv, Begun
  <2>3. /\ call'[c].pc \in {"opening", "lookup", "waiting", "failed"}
        /\ call'[c].thread = None /\ call'[c].want = want
        /\ \A d \in Calls \ {c} : call'[d] = call[d]
    BY <2>1, <2>2 DEF StartEffect
  <2>4. /\ want \in Calls \cup {None}
        /\ want # None => /\ call[want].want = None /\ call[want].thread = want
                          /\ call[want].pc \in Answered
    BY KnownThreadsAnswered
  <2> HIDE DEF Answered
  <2> QED
    BY <1>1, <2>2, <2>3, <2>4, ThreadsBegin
<1> QED
  BY <1>2, <1>3

LEMMA ThreadsInit ==
  ASSUME Init
  PROVE  ThreadInv
<1>1. \A c \in Calls : call[c].pc = "idle" /\ call[c].want = None
  BY DEF Init, NewCall
<1> QED
  BY <1>1 DEF ThreadInv, Wants, Alone, InUse, Hold, Holding, Consumed, Attended

LEMMA ThreadsNext ==
  ASSUME IInv, OpInv, HistoryInv, ThreadInv, [Next]_vars
  PROVE  ThreadInv'
<1>1. ASSUME NEW c \in Calls, \/ StartRun(c) \/ Walks(c) \/ Attach(c)
                              \/ CloseFailedStart(c) \/ ReleaseFailedStart(c)
                              \/ Cuts(c) \/ ConsumerCloses(c) \/ ConsumerReleases(c)
      PROVE  ThreadInv'
  BY <1>1, ThreadsStart, ThreadsWalk, ThreadsAttach, ThreadsFailed, ThreadsConsume
<1> QED
  BY <1>1, ThreadsStart, ThreadsOthers, StepKinds

\* Whoever has the use of a Thread has its session, along every behaviour.
THEOREM ThreadInvariant ==
  Spec => [](IInv /\ OpInv /\ HistoryInv /\ StreamInv /\ ThreadInv)
<1>1. Init => ThreadInv
  BY ThreadsInit
<1>2. IInv /\ OpInv /\ HistoryInv /\ ThreadInv /\ [Next]_vars => ThreadInv'
  BY ThreadsNext
<1> QED
  BY <1>1, <1>2, StreamInvariant, PTL DEF Spec

-----------------------------------------------------------------------------
(* Who waits is remembered.  The Lifecycle is active while its entry       *)
(* starts; and the Run of a start that waits for its graph is on its way to *)
(* a graph factory, as long as the Lifecycle is active.                    *)

EntryActive ==
  call[Entry].pc \in {"lookup", "opening", "threading", "attaching", "starting",
                      "recording", "applying", "readying"} => active

Remembered ==
  \A c \in Calls :
    Waiting(c) /\ ~Unnoticed(c) => Underway(c)

WaitInv == EntryActive /\ Remembered

\* A step that releases the Lifecycle, or nothing: no Run and no start moves on.
LEMMA WaitsLeave ==
  ASSUME WaitInv, UNCHANGED <<run, factory>>, active' => active, faults \subseteq faults',
         \A d \in Calls : Waiting(d)' => Waiting(d), EntryActive'
  PROVE  WaitInv'
<1>1. Remembered'
  BY DEF WaitInv, Remembered, Underway, Unnoticed
<1> QED
  BY <1>1 DEF WaitInv

LEMMA WaitsWalk ==
  ASSUME WaitInv, NEW c \in Calls, Walks(c)
  PROVE  WaitInv'
<1>1. /\ Route(call[c].pc, call'[c].pc) /\ Advances(c) /\ UNCHANGED <<active, factory>>
      /\ call'[c].ready = call[c].ready \/ (call[c].ready = "unset" /\ call'[c].ready = "error")
      /\ faults \subseteq faults'
  BY DEF Walks
<1>2. \A d \in Calls \ {c} : Onlooks(d) /\ run'[d] = run[d]
  BY DEF Walks
<1>3. EntryActive'
  BY <1>1, <1>2, EntryIsACall DEF WaitInv, EntryActive, Onlooks, Agree, Route
<1>4. ASSUME NEW d \in Calls, Waiting(d)', ~Unnoticed(d)'
      PROVE  Underway(d)'
  <2>1. CASE d # c
    <3>1. Waiting(d)
      BY <1>2, <1>4, <2>1 DEF Waiting, Onlooks, Agree
    <3> QED
      BY <1>1, <1>2, <1>4, <2>1, <3>1 DEF WaitInv, Remembered, Underway, Unnoticed
  <2>2. CASE d = c /\ call'[c].pc = "recording"
    BY <1>1, <1>4, <2>2 DEF Advances, Waiting, Underway, Unnoticed
  <2>3. CASE d = c /\ call'[c].pc # "recording"
    <3>1. Waiting(c) /\ run'[c] = run[c]
      BY <1>1, <1>4, <2>3 DEF Waiting, Route, Advances, Unnoticed
    <3> QED
      BY <1>1, <1>4, <2>3, <3>1 DEF WaitInv, Remembered, Underway, Unnoticed
  <2> QED
    BY <2>1, <2>2, <2>3
<1> QED
  BY <1>3, <1>4 DEF WaitInv, Remembered

LEMMA WaitsOthers ==
  ASSUME WaitInv, Rests
  PROVE  WaitInv'
<1>1. \A d \in Calls : Onlooks(d)
  BY DEF Rests
<1>2. EntryActive'
  BY <1>1, EntryIsACall DEF WaitInv, EntryActive, Onlooks, Agree, Rests
<1>3. ASSUME NEW d \in Calls, Waiting(d)', ~Unnoticed(d)'
      PROVE  Underway(d)'
  <2>1. Waiting(d)
    BY <1>1, <1>3 DEF Waiting, Onlooks, Agree
  <2> QED
    BY <1>3, <2>1 DEF WaitInv, Remembered, Rests, Unnoticed
<1> QED
  BY <1>2, <1>3 DEF WaitInv, Remembered

LEMMA WaitsBegin ==
  ASSUME IInv, HistoryInv, WaitInv, StartEntry \/ \E c \in Calls : StartRun(c) \/ Attach(c)
  PROVE  WaitInv'
<1>1. TypeOK /\ Entry \in Calls
  BY EntryIsACall DEF IInv
<1>2. CASE StartEntry
  <2>1. EntryEffect /\ call[Entry].pc = "idle"
    BY <1>1, <1>2, StartEntryDoes DEF StartEntry
  <2>2. \A d \in Calls \ {Entry} : call[d].pc = "idle"
    BY <2>1 DEF HistoryInv, EntryFirst, Early
  <2>3. \A d \in Calls : ~Waiting(d)'
    BY <2>1, <2>2 DEF EntryEffect, Waiting
  <2> QED
    BY <1>2, <2>3 DEF StartEntry, WaitInv, EntryActive, Remembered
<1>3. ASSUME NEW c \in Calls, StartRun(c)
      PROVE  WaitInv'
  <2>1. PICK r \in Calls, op \in Ops, target \in Targets, want \in KnownThreads \cup {None} :
          StartEffect(c, r, op, target, want)
    BY <1>3, StartRunDoes
  <2>2. /\ c # Entry /\ call'[c].pc \in {"lookup", "waiting", "failed"}
        /\ \A d \in Calls \ {c} : call'[d] = call[d]
        /\ UNCHANGED <<active, run, factory, faults>>
    BY <1>3, <2>1 DEF StartEffect, StartRun, server
  <2>3. \A d \in Calls : Waiting(d)' => Waiting(d)
    BY <2>2 DEF Waiting
  <2>4. EntryActive'
    BY <1>1, <2>2 DEF WaitInv, EntryActive
  <2> QED
    BY <2>2, <2>3, <2>4, WaitsLeave
<1>4. ASSUME NEW c \in Calls, Attach(c)
      PROVE  WaitInv'
  <2>1. /\ call[c].pc = "attaching" /\ Goto(c, "starting")
        /\ UNCHANGED <<active, run, factory, faults>>
    BY <1>4 DEF Attach, server
  <2>2. GotoEffect(c, "starting")
    BY <1>1, <2>1, GotoDoes DEF Pcs
  <2>3. \A d \in Calls : Waiting(d)' => Waiting(d)
    BY <2>2 DEF Waiting, GotoEffect
  <2>4. EntryActive'
    BY <1>1, <2>1, <2>2 DEF WaitInv, EntryActive, GotoEffect
  <2> QED
    BY <2>1, <2>3, <2>4, WaitsLeave
<1> QED
  BY <1>2, <1>3, <1>4

\* While the entry starts and somebody else has come so far as to release the
\* Lifecycle, the entry has its session.
LEMMA EntryKeepsSession ==
  ASSUME IInv, HistoryInv, ThreadInv, NEW c \in Calls \ {Entry}, call[c].pc # "idle",
         call[Entry].pc \in {"lookup", "opening", "threading", "attaching", "starting",
                             "recording", "applying", "readying"}
  PROVE  \E t \in Calls : sessions[t] # None
<1>1. Entry \in Calls /\ Entry # None /\ call[Entry].pc \notin Early
  BY EntryIsACall, NoneIsNoCall DEF HistoryInv, EntryFirst
<1>2. Holding(Entry)
  BY <1>1 DEF Holding, Early
<1>3. ~Inherits(Entry)
  BY <1>1 DEF HistoryInv, History, Inherits
<1> QED
  BY <1>1, <1>2, <1>3 DEF ThreadInv, Hold

LEMMA WaitsFailed ==
  ASSUME IInv, HistoryInv, ThreadInv, WaitInv, NEW c \in Calls,
         CloseFailedStart(c) \/ ReleaseFailedStart(c)
  PROVE  WaitInv'
<1>1. /\ TypeOK /\ Entry \in Calls /\ call[c].pc \in {"closing", "releasing"}
      /\ UNCHANGED <<run, factory>> /\ faults \subseteq faults'
  BY EntryIsACall DEF IInv, CloseFailedStart, ReleaseFailedStart, server, Fault
<1>2. PICK p \in {"releasing", "failed"} : Goto(c, p)
  BY DEF CloseFailedStart, ReleaseFailedStart
<1>3. GotoEffect(c, p)
  BY <1>1, <1>2, GotoDoes DEF Pcs, Settled
<1>4. \A d \in Calls : Waiting(d)' => Waiting(d)
  BY <1>3 DEF Waiting, GotoEffect
<1>5. active' => active
  BY DEF CloseFailedStart, ReleaseFailedStart, ReleaseIfFinished
<1>6. EntryActive'
  <2>1. CASE c = Entry
    BY <1>3, <2>1 DEF GotoEffect, EntryActive
  <2>2. CASE c # Entry
    <3>1. call'[Entry] = call[Entry]
      BY <1>1, <1>3, <2>2 DEF GotoEffect
    <3>2. active' = active \/ (active' = (active /\ \E t \in Calls : sessions[t] # None))
      BY <2>2 DEF CloseFailedStart, ReleaseFailedStart, ReleaseIfFinished
    <3>3. ASSUME call[Entry].pc \in {"lookup", "opening", "threading", "attaching", "starting",
                                      "recording", "applying", "readying"}
          PROVE  active'
      <4>1. c \in Calls \ {Entry} /\ call[c].pc # "idle"
        BY <1>1, <2>2
      <4>2. \E t \in Calls : sessions[t] # None
        BY <3>3, <4>1, EntryKeepsSession
      <4>3. active
        BY <3>3 DEF WaitInv, EntryActive
      <4> QED
        BY <3>2, <4>2, <4>3
    <3> QED
      BY <3>1, <3>3 DEF EntryActive
  <2> QED
    BY <2>1, <2>2
<1> QED
  BY <1>1, <1>4, <1>5, <1>6, WaitsLeave

LEMMA WaitsCut ==
  ASSUME IInv, WaitInv, NEW c \in Calls, Cuts(c)
  PROVE  WaitInv'
<1>1. /\ UNCHANGED <<active, factory>> /\ faults \subseteq faults' /\ c # Entry
      /\ call'[c].pc = "failed"
      /\ \A d \in Calls \ {c} : Onlooks(d) /\ run'[d] = run[d]
  BY DEF Cuts, CutsShort, coordinator
<1>2. EntryActive'
  BY <1>1, EntryIsACall DEF WaitInv, EntryActive, Onlooks, Agree
<1>3. ASSUME NEW d \in Calls, Waiting(d)', ~Unnoticed(d)'
      PROVE  Underway(d)'
  <2>1. d # c
    BY <1>1, <1>3 DEF Waiting
  <2>2. Waiting(d) /\ ~Unnoticed(d)
    BY <1>1, <1>3, <2>1 DEF Waiting, Onlooks, Agree, Unnoticed
  <2> QED
    BY <1>1, <2>1, <2>2 DEF WaitInv, Remembered, Underway
<1> QED
  BY <1>2, <1>3 DEF WaitInv, Remembered

LEMMA WaitsConsume ==
  ASSUME IInv, HistoryInv, ThreadInv, WaitInv, NEW c \in Calls,
         ConsumerCloses(c) \/ ConsumerReleases(c)
  PROVE  WaitInv'
<1>1. /\ TypeOK /\ Entry \in Calls /\ History(c) /\ call[c].consumer # "none"
      /\ UNCHANGED <<run, factory>> /\ faults \subseteq faults'
  BY EntryIsACall DEF IInv, HistoryInv, ConsumerCloses, ConsumerReleases, server, Fault
<1>2. \E v \in {"closing", "closed"} : call' = [call EXCEPT ![c].consumer = v]
  BY DEF ConsumerCloses, ConsumerReleases
<1>3. \A d \in Calls : call'[d].pc = call[d].pc /\ call'[d].ready = call[d].ready
  BY <1>1, <1>2, ConsumerDoes DEF Agree
<1>4. \A d \in Calls : Waiting(d)' => Waiting(d)
  BY <1>3 DEF Waiting
<1>5. active' => active
  BY DEF ConsumerCloses, ConsumerReleases, ReleaseIfFinished
<1>6. EntryActive'
  <2>1. call[c].pc \in {"fetching"} \cup Answered
    BY <1>1 DEF History
  <2>2. CASE c = Entry
    BY <1>1, <1>3, <2>1, <2>2 DEF EntryActive, Answered, Failing
  <2>3. CASE c # Entry
    <3>1. active' = active \/ (active' = (active /\ \E t \in Calls : sessions[t] # None))
      BY DEF ConsumerCloses, ConsumerReleases, ReleaseIfFinished
    <3> QED
      BY <1>1, <1>3, <2>1, <2>3, <3>1, EntryKeepsSession
         DEF WaitInv, EntryActive, Answered, Failing
  <2> QED
    BY <2>2, <2>3
<1> QED
  BY <1>1, <1>4, <1>5, <1>6, WaitsLeave

LEMMA WaitsInit ==
  ASSUME Init
  PROVE  WaitInv
<1>1. \A c \in Calls : call[c].pc = "idle"
  BY DEF Init, NewCall
<1> QED
  BY <1>1, EntryIsACall DEF WaitInv, EntryActive, Remembered, Waiting

LEMMA WaitsNext ==
  ASSUME IInv, OpInv, HistoryInv, ThreadInv, WaitInv, [Next]_vars
  PROVE  WaitInv'
<1>1. ASSUME NEW c \in Calls, \/ StartRun(c) \/ Walks(c) \/ Attach(c)
                              \/ CloseFailedStart(c) \/ ReleaseFailedStart(c)
                              \/ Cuts(c) \/ ConsumerCloses(c) \/ ConsumerReleases(c)
      PROVE  WaitInv'
  BY <1>1, WaitsBegin, WaitsWalk, WaitsFailed, WaitsCut, WaitsConsume
<1> QED
  BY <1>1, WaitsBegin, WaitsOthers, StepKinds

\* A start that waits is not forgotten while the Lifecycle is active, along
\* every behaviour.
THEOREM WaitInvariant ==
  Spec => [](IInv /\ OpInv /\ HistoryInv /\ StreamInv /\ ThreadInv /\ WaitInv)
<1>1. Init => WaitInv
  BY WaitsInit
<1>2. IInv /\ OpInv /\ HistoryInv /\ ThreadInv /\ WaitInv /\ [Next]_vars => WaitInv'
  BY WaitsNext
<1> QED
  BY <1>1, <1>2, ThreadInvariant, PTL DEF Spec

\* While a Run of the Lifecycle is consumed, or a start waits for its graph,
\* the coordinator is found in the registry.
LEMMA ActiveHolds ==
  ASSUME IInv, HistoryInv, StreamInv, ThreadInv, WaitInv
  PROVE  ActiveWhileConsumed
<1>1. ASSUME NEW c \in Calls, Holding(c), ~Inherits(c), factory[c] # None
      PROVE  active
  <2>1. call[c].thread \in Calls /\ sessions[call[c].thread] = c /\ c # None
    BY <1>1, NoneIsNoCall DEF ThreadInv, Hold
  <2> QED
    BY <1>1, <2>1 DEF StreamInv, Registered
<1>2. ASSUME NEW c \in Calls, Consumed(c), ~Inherits(c), ~BuiltInPlace(c)
      PROVE  active
  <2>1. \E r \in Calls : factory[r] = c
    BY <1>2 DEF HistoryInv, History, Consumed
  <2>2. factory[c] # None /\ Holding(c)
    BY <1>2, <2>1, NoneIsNoCall DEF BuiltInPlace, Holding
  <2> QED
    BY <1>1, <1>2, <2>2
<1>3. ASSUME NEW c \in Calls, call[c].pc = "readying", ~Interrupted(c), ~Orphaned(call[c].by)
      PROVE  active
  <2>1. CASE c = Entry
    BY <1>3, <2>1 DEF WaitInv, EntryActive
  <2>2. CASE c # Entry
    <3> DEFINE r == call[c].by
    <3>1. r \in Calls /\ r # None /\ factory[r] # None
      BY <1>3, <2>2, NoneIsNoCall DEF HistoryInv, History
    <3>2. ActiveRun(r) /\ call[r].pc \notin {"releasing", "failed"} /\ ~Inherits(r)
      BY <1>3, <3>1 DEF Interrupted, Orphaned, ActiveRun
    <3>3. call[r].pc \notin Early
      BY <3>1, <3>2 DEF IInv, CallInv, Path, ActiveRun
    <3>4. call[r].pc \in {"recording", "applying", "readying", "fetching", "done",
                          "cancelling", "closing"}
      BY <3>1, <3>2, <3>3 DEF IInv, TypeOK, CallRecords, Pcs, Settled, Early
    <3>5. call[r].pc \in {"fetching", "done"} => call[r].consumer = "on"
      BY <3>1, <3>2 DEF ThreadInv, Attended
    <3>6. Holding(r)
      BY <3>2, <3>4, <3>5 DEF Holding, Consumed
    <3> QED
      BY <1>1, <3>1, <3>2, <3>6
  <2> QED
    BY <2>1, <2>2
<1> QED
  BY <1>2, <1>3 DEF ActiveWhileConsumed

\* release_active_lifecycle waits for everybody and is reached: the registry
\* holds the Lifecycle exactly as long as a Run is consumed or a start waits.
THEOREM RegisteredHolds == Spec => []RegisteredWhileNeeded
<1>1. IInv /\ HistoryInv /\ StreamInv /\ ThreadInv /\ WaitInv => ActiveWhileConsumed
  BY ActiveHolds
<1> QED
  BY <1>1, WaitInvariant, LifecycleIsReleased, PTL DEF RegisteredWhileNeeded

\* Whoever awaits execution_ready is remembered: its Run is on its way to a
\* graph factory that finds the coordinator and this binding, or is there.
THEOREM NoStartForgottenHolds == Spec => []NoStartForgotten
<1>1. IInv /\ OpInv /\ HistoryInv /\ StreamInv /\ ThreadInv /\ WaitInv => NoStartForgotten
  <2> SUFFICES ASSUME IInv, OpInv, HistoryInv, StreamInv, ThreadInv, WaitInv,
                      NEW c \in Calls, call[c].pc = "readying", call[c].ready = "unset",
                      {<<"elsewhere", c>>, <<"unheard", c>>} \cap faults = {},
                      ~Interrupted(c), ~Orphaned(call[c].by)
               PROVE  /\ active /\ bindings[call[c].key] = c
                      /\ run[c] = "pending" \/ (run[c] = "building" /\ factory[c] = c)
    BY DEF NoStartForgotten
  <2>1. active
    BY ActiveHolds DEF ActiveWhileConsumed
  <2>2. bindings[call[c].key] = c
    BY DEF OpInv, Owns, Owners
  <2>3. Underway(c)
    BY DEF WaitInv, Remembered, Waiting, Unnoticed
  <2> QED
    BY <2>1, <2>2, <2>3 DEF Underway
<1> QED
  BY <1>1, WaitInvariant, PTL
=============================================================================
