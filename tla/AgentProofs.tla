----------------------------- MODULE AgentProofs -----------------------------
(***************************************************************************)
(* What holds of every request and of every call of an External Agent.     *)
(*                                                                         *)
(* Requests (AgentRequests), for every configuration, host and history of  *)
(* edits: a stored key goes to no endpoint but its own, what is opened for *)
(* a Run is released, and what was validated is built.                     *)
(***************************************************************************)
EXTENDS AgentRequests, ExternalAgentRunner, TLAPS

Fields == DOMAIN NoRun
Stages == {"idle", "hydrated", "resolved", "mapped", "building", "loading", "compiling",
           "delivered", "running", "over"}

\* A Run is a record, and there is none before the configuration is captured.
Shape ==
  /\ DOMAIN run = Fields
  /\ run.stage \in Stages
  /\ run.stage = "idle" => ~run.thread
  /\ ~lifecycle.captured => run.stage = "idle"
  /\ DOMAIN lifecycle = DOMAIN NoLifecycle

\* What no step of a Run touches.
Kept ==
  /\ run'.secrets = run.secrets /\ run'.stale = run.stale /\ run'.subject = run.subject
  /\ run.stage # "idle"
  /\ lifecycle'.captured = lifecycle.captured
  /\ lifecycle'.connections = lifecycle.connections
  /\ UNCHANGED <<connections, secrets>>

-----------------------------------------------------------------------------
(* Keys.                                                                   *)

\* A stored key is the one that was entered for the present endpoint.
KeysFit ==
  /\ DOMAIN connections = Connections /\ DOMAIN secrets = Connections
  /\ \A k \in Connections :
       connections[k] # None /\ connections[k].stored => secrets[k] = connections[k].endpoint

\* So is the key a Run was hydrated with, if the connection is still the one
\* that was captured.
FrozenFit ==
  run.stage # "idle" =>
    \A k \in Connections \ run.stale :
      lifecycle.connections[k] # None /\ lifecycle.connections[k].stored
        => run.secrets[k] = lifecycle.connections[k].endpoint

KInv == Shape /\ KeysFit /\ FrozenFit /\ CredentialFitsEndpoint

\* An Agent that is not refused has a connection.
LEMMA NotRefused ==
  ASSUME NEW node, NEW works, NodeRefusal(node, works) = None
  PROVE  /\ Connection(node) \in Connections
         /\ lifecycle.connections[Connection(node)] # None
<1>1. ModelRefusal(node) = None
  BY DEF NodeRefusal, FirstOf
<1>2. None # "unselected" /\ None # "unbound"
  BY RequestsAssumption DEF Reasons
<1>3. QED BY <1>1, <1>2 DEF ModelRefusal

RunStep ==
  \/ ResolveAgent \/ MapFolders \/ ResolveWorkflow
  \/ \E answered \in BOOLEAN : DiscoverMcp(answered)
  \/ FinishBuild \/ ResumeBuild
  \/ \E works \in BOOLEAN : LoadNext(works)
  \/ Compile \/ Take \/ Close \/ Abandon \/ Cancel

\* Every step of a Run except the construction of an Agent.
LEMMA RunSteps ==
  ASSUME Shape, RunStep
  PROVE  Shape' /\ Kept /\ run'.models = run.models
<1> USE DEF Shape, Kept, Fields, NoRun, NoLifecycle, Stages, Refused, OnlyRun
<1>1. CASE ResolveAgent
  BY <1>1 DEF ResolveAgent
<1>2. CASE MapFolders
  <2>1. PICK found : lifecycle' = [lifecycle EXCEPT !.recorded = found]
    BY <1>2 DEF MapFolders
  <2>2. run' = [run EXCEPT !.stage = "mapped"] \/ run' = Refused("folders")
    BY <1>2 DEF MapFolders
  <2>3. run.stage = "resolved" /\ UNCHANGED <<connections, secrets>>
    BY <1>2 DEF MapFolders
  <2>4. /\ DOMAIN lifecycle' = DOMAIN lifecycle
        /\ lifecycle'.captured = lifecycle.captured
        /\ lifecycle'.connections = lifecycle.connections
    BY <2>1
  <2>5. CASE run' = [run EXCEPT !.stage = "mapped"]
    BY <2>3, <2>4, <2>5
  <2>6. CASE run' = Refused("folders")
    BY <2>3, <2>4, <2>6
  <2>7. QED BY <2>2, <2>5, <2>6
<1>3. CASE ResolveWorkflow
  BY <1>3 DEF ResolveWorkflow
<1>4. ASSUME NEW answered \in BOOLEAN, DiscoverMcp(answered) PROVE Shape' /\ Kept /\ run'.models = run.models
  BY <1>4 DEF DiscoverMcp, Onward, Delivered
<1>5. CASE FinishBuild
  BY <1>5 DEF FinishBuild, ThreadFails
<1>6. CASE ResumeBuild
  BY <1>6 DEF ResumeBuild, Onward, Delivered
<1>7. ASSUME NEW works \in BOOLEAN, LoadNext(works) PROVE Shape' /\ Kept /\ run'.models = run.models
  BY <1>7 DEF LoadNext, Onward, Delivered
<1>8. CASE Compile
  BY <1>8 DEF Compile, Delivered
<1>9. CASE Take
  BY <1>9 DEF Take
<1>c. CASE Close
  BY <1>c DEF Close
<1>10. CASE Abandon
  BY <1>10 DEF Abandon, Waiting
<1>11. CASE Cancel
  BY <1>11 DEF Cancel, Waiting
<1>12. QED BY <1>1, <1>2, <1>3, <1>4, <1>5, <1>6, <1>7, <1>8, <1>9, <1>c, <1>10, <1>11 DEF RunStep

LEMMA InitKInv == Init => KInv
<1> SUFFICES ASSUME Init PROVE KInv
  OBVIOUS
<1>1. \A k \in Connections : connections[k] # None => ~connections[k].stored
  BY RequestsAssumption DEF Init
<1>2. DOMAIN connections = Connections
  BY RequestsAssumption DEF Init
<1>3. QED
  BY <1>1, <1>2 DEF Init, KInv, Shape, Fields, Stages, NoRun, NoLifecycle, KeysFit, FrozenFit,
     CredentialFitsEndpoint

\* Steps that touch neither the Run's keys nor the connections.
LEMMA OthersKeepKInv ==
  ASSUME KInv, UNCHANGED <<connections, secrets, lifecycle>>,
         run' = run \/ run' = [run EXCEPT !.calm = FALSE]
  PROVE  KInv'
<1>1. CASE run' = run
  BY <1>1 DEF KInv, Shape, KeysFit, FrozenFit, CredentialFitsEndpoint
<1>2. CASE run' = [run EXCEPT !.calm = FALSE]
  <2>1. /\ DOMAIN run' = Fields /\ run'.stage = run.stage /\ run'.thread = run.thread
        /\ run'.stale = run.stale /\ run'.secrets = run.secrets /\ run'.models = run.models
    BY <1>2 DEF KInv, Shape, Fields, NoRun
  <2>2. QED BY <2>1 DEF KInv, Shape, KeysFit, FrozenFit, CredentialFitsEndpoint
<1>3. QED BY <1>1, <1>2

LEMMA RunStepsKeepKInv == ASSUME KInv, RunStep PROVE KInv'
<1>1. Shape' /\ Kept /\ run'.models = run.models
  BY RunSteps DEF KInv
<1>2. KeysFit'
  BY <1>1 DEF KInv, KeysFit, Kept
<1>3. FrozenFit'
  BY <1>1 DEF KInv, FrozenFit, Kept
<1>4. CredentialFitsEndpoint'
  BY <1>1 DEF KInv, CredentialFitsEndpoint, Kept
<1>5. QED BY <1>1, <1>2, <1>3, <1>4 DEF KInv

\* The model of an Agent gets the key of the connection it is bound to.
LEMMA MaterialiseKeepsKInv ==
  ASSUME KInv, NEW works \in BOOLEAN, MaterialiseNext(works)
  PROVE  KInv'
<1> DEFINE node == Plan[Len(run.files) + 1]
           conn == Connection(node)
           built == [connection |-> conn, endpoint |-> lifecycle.connections[conn].endpoint,
                     key |-> KeyOf(conn)]
<1>0. run.stage # "idle" /\ UNCHANGED <<connections, secrets, lifecycle>>
  BY DEF MaterialiseNext, KInv, Shape, OnlyRun
<1>1. /\ \/ \E why : run' = ThreadFails(why)
         \/ /\ NodeRefusal(node, works) = None
            /\ \E files : run' = [[run EXCEPT !.models = @ \cup {built}] EXCEPT !.files = files]
  BY DEF MaterialiseNext
<1>2. built.key # None => built.key = built.endpoint \/ built.connection \in run.stale
        \/ NodeRefusal(node, works) # None
  <2> SUFFICES ASSUME KeyOf(conn) # None, conn \notin run.stale,
                      NodeRefusal(node, works) = None
               PROVE  KeyOf(conn) = lifecycle.connections[conn].endpoint
    OBVIOUS
  <2>1. conn \in Connections /\ lifecycle.connections[conn] # None
    BY NotRefused
  <2>2. QED BY <1>0, <2>1 DEF KeyOf, KInv, FrozenFit
<1>3. /\ Shape'
      /\ run'.secrets = run.secrets /\ run'.stale = run.stale
      /\ run'.models = run.models \/ (run'.models = run.models \cup {built}
                                       /\ NodeRefusal(node, works) = None)
  <2> HIDE DEF built, node, conn
  <2>1. CASE \E why : run' = ThreadFails(why)
    BY <1>0, <2>1 DEF ThreadFails, KInv, Shape, Fields, NoRun
  <2>2. CASE /\ NodeRefusal(node, works) = None
             /\ \E files : run' = [[run EXCEPT !.models = @ \cup {built}] EXCEPT !.files = files]
    BY <1>0, <2>2 DEF KInv, Shape, Fields, NoRun
  <2>3. QED BY <1>1, <2>1, <2>2
<1>4. KeysFit' /\ FrozenFit'
  BY <1>0, <1>3 DEF KInv, KeysFit, FrozenFit
<1>5. CredentialFitsEndpoint'
  <2> HIDE DEF built, node, conn
  <2>1. QED BY <1>2, <1>3 DEF KInv, CredentialFitsEndpoint
<1>6. QED BY <1>3, <1>4, <1>5 DEF KInv

\* A saved connection keeps its key only for the endpoint it had.
LEMMA SaveConnectionKeepsKInv ==
  ASSUME KInv, NEW conn \in Connections, NEW endpoint \in Endpoints, NEW keyed \in BOOLEAN,
         SaveConnection(conn, endpoint, keyed)
  PROVE  KInv'
<1> DEFINE old == connections[conn]
           stored == keyed \/ (old # None /\ Reuses(old, endpoint) /\ old.stored)
<1>1. /\ connections' = [connections EXCEPT ![conn] = [endpoint |-> endpoint, stored |-> stored]]
      /\ secrets' = [secrets EXCEPT ![conn] =
                       IF keyed THEN endpoint ELSE IF stored THEN secrets[conn] ELSE None]
      /\ run' = run /\ lifecycle' = lifecycle
  BY DEF SaveConnection
<1>2. KeysFit'
  <2>1. DOMAIN connections' = Connections /\ DOMAIN secrets' = Connections
    BY <1>1 DEF KInv, KeysFit
  <2>2. ASSUME NEW k \in Connections, connections'[k] # None, connections'[k].stored
        PROVE  secrets'[k] = connections'[k].endpoint
    <3>1. CASE k = conn
      BY <1>1, <2>2, <3>1 DEF KInv, KeysFit, Reuses
    <3>2. CASE k # conn
      BY <1>1, <2>2, <3>2 DEF KInv, KeysFit
    <3>3. QED BY <3>1, <3>2
  <2>3. QED BY <2>1, <2>2 DEF KeysFit
<1>3. QED BY <1>1, <1>2 DEF KInv, Shape, FrozenFit, CredentialFitsEndpoint

\* No step gives a Run a key for another endpoint.
LEMMA NextKInv == KInv /\ [Next]_vars => KInv'
<1> SUFFICES ASSUME KInv, [Next]_vars PROVE KInv'
  OBVIOUS
<1>1. CASE Edit
  <2>1. UNCHANGED <<connections, secrets, lifecycle>>
        /\ (run' = run \/ run' = [run EXCEPT !.calm = FALSE])
    BY <1>1 DEF Edit, ValidateMain, ValidateSubagent, Save, UpdateBlock, Delete, Disturbed
  <2>2. QED BY <2>1, OthersKeepKInv
<1>2. ASSUME NEW conn \in Connections, NEW endpoint \in Endpoints, NEW keyed \in BOOLEAN,
             SaveConnection(conn, endpoint, keyed)
      PROVE  KInv'
  BY <1>2, SaveConnectionKeepsKInv
<1>3. ASSUME NEW conn \in Connections, DeleteConnection(conn) PROVE KInv'
  BY <1>3 DEF DeleteConnection, KInv, Shape, KeysFit, FrozenFit, CredentialFitsEndpoint
<1>4. ASSUME NEW r \in DOMAIN bindings, NEW conn \in Connections \cup {None}, Bind(r, conn)
      PROVE  KInv'
  BY <1>4, OthersKeepKInv DEF Bind
<1>5. CASE HostStep
  <2>1. UNCHANGED <<connections, secrets, lifecycle>>
        /\ (run' = run \/ run' = [run EXCEPT !.calm = FALSE])
    BY <1>5 DEF HostStep, DiskChanges, PackageChanges, HostChanges, Disturbed
  <2>2. QED BY <2>1, OthersKeepKInv
<1>6. CASE Capture
  <2>1. /\ DOMAIN lifecycle' = DOMAIN NoLifecycle /\ lifecycle'.captured
        /\ run.stage = "idle" /\ UNCHANGED <<connections, secrets, run>>
    BY <1>6 DEF Capture, KInv, Shape, NoLifecycle
  <2>2. QED BY <2>1 DEF KInv, Shape, KeysFit, FrozenFit, CredentialFitsEndpoint
<1>7. ASSUME NEW subject, Hydrate(subject) PROVE KInv'
  <2>1. /\ DOMAIN run' = Fields /\ run'.stage = "hydrated" /\ ~run'.thread
        /\ run'.models = {} /\ run'.secrets = secrets
        /\ run'.stale = {k \in Connections : lifecycle.connections[k] # connections[k]}
    BY <1>7 DEF Hydrate, NoRun, Fields
  <2>2. lifecycle.captured /\ UNCHANGED <<connections, secrets, lifecycle>>
    BY <1>7 DEF Hydrate
  <2>3. Shape' /\ KeysFit' /\ CredentialFitsEndpoint'
    BY <2>1, <2>2 DEF KInv, Shape, Stages, KeysFit, CredentialFitsEndpoint
  <2>4. FrozenFit'
    BY <2>1, <2>2 DEF KInv, KeysFit, FrozenFit
  <2>5. QED BY <2>3, <2>4 DEF KInv
<1>8. ASSUME NEW works \in BOOLEAN, MaterialiseNext(works) PROVE KInv'
  BY <1>8, MaterialiseKeepsKInv
<1>9. CASE RunStep
  BY <1>9, RunStepsKeepKInv
<1>10. CASE UNCHANGED vars
  BY <1>10, OthersKeepKInv DEF vars
<1>11. QED
  BY <1>1, <1>2, <1>3, <1>4, <1>5, <1>6, <1>7, <1>8, <1>9, <1>10
     DEF Next, Reconnect, Construct, RunStep

\* For every configuration and every order of edits and requests: a Run sends a
\* stored key only where it was entered for, unless its connection was edited
\* after the configuration of the request was captured.
THEOREM KeysStayAtTheirEndpoint == Spec => []CredentialFitsEndpoint
<1>1. KInv => CredentialFitsEndpoint
  BY DEF KInv
<1>2. QED BY InitKInv, NextKInv, <1>1, PTL DEF Spec

-----------------------------------------------------------------------------
(* Runtimes.                                                               *)

PhaseNames == {"commands", "output"}
Built == {"tools", "middleware"}

\* Nothing is open before the construction; a thread builds for the request
\* that waits for it, or was left alone by a second cancellation.
BeforeThread ==
  run.stage \in {"idle", "hydrated", "resolved", "mapped"} =>
    run.open = {} /\ ~run.thread /\ run.cancels = 0 /\ run.refusal = None
DuringThread ==
  /\ run.thread => run.refusal = None /\ run.cancels \in 0 .. 2
  /\ run.thread => run.stage = "building" \/ (run.stage = "over" /\ run.cancels = 2)
  /\ run.stage = "building" =>
       /\ IsAgent(run.subject) /\ run.cancels \in {0, 1}
       /\ run.open = IF run.refusal = None THEN Built ELSE {}

\* What is open and what is still to be opened make what the subject needs.
WhileLoading ==
  /\ run.loads \in Seq(PhaseNames)
  /\ run.stage = "loading" =>
       /\ run.loads # <<>> /\ Head(run.loads) \in run.open
       /\ run.open \cup ToSet(run.loads) = Needed(run.subject)
  /\ run.stage = "compiling" => run.open = Needed(run.subject)

RInv == Shape /\ BeforeThread /\ DuringThread /\ WhileLoading /\ RuntimesReleased

LEMMA HeadAndTail ==
  ASSUME NEW S, NEW s \in Seq(S), s # <<>>
  PROVE  Tail(s) \in Seq(S) /\ ToSet(s) = {Head(s)} \cup ToSet(Tail(s))
<1>1. Tail(s) \in Seq(S) /\ Len(s) \in Nat \ {0} /\ Len(Tail(s)) = Len(s) - 1
  OBVIOUS
<1>2. \A i \in 1 .. Len(s) : i = 1 \/ i - 1 \in 1 .. Len(Tail(s))
  BY <1>1
<1>3. \A i \in 1 .. Len(Tail(s)) : Tail(s)[i] = s[i + 1] /\ i + 1 \in 1 .. Len(s)
  BY <1>1
<1>4. DOMAIN s = 1 .. Len(s) /\ DOMAIN Tail(s) = 1 .. Len(Tail(s))
  BY <1>1
<1>5. \A x \in ToSet(s) : x = Head(s) \/ x \in ToSet(Tail(s))
  <2> SUFFICES ASSUME NEW i \in 1 .. Len(s) PROVE s[i] = Head(s) \/ s[i] \in ToSet(Tail(s))
    BY <1>4 DEF ToSet
  <2>1. CASE i = 1
    BY <2>1, <1>1
  <2>2. CASE i # 1
    <3>1. i - 1 \in 1 .. Len(Tail(s)) /\ (i - 1) + 1 = i
      BY <2>2, <1>2
    <3>2. s[i] = Tail(s)[i - 1]
      BY <3>1, <1>3
    <3>3. QED BY <3>1, <3>2, <1>4 DEF ToSet
  <2>3. QED BY <2>1, <2>2
<1>6. Head(s) \in ToSet(s) /\ \A x \in ToSet(Tail(s)) : x \in ToSet(s)
  <2>1. Head(s) = s[1] /\ 1 \in 1 .. Len(s)
    BY <1>1
  <2>2. QED BY <2>1, <1>3, <1>4 DEF ToSet
<1>7. QED BY <1>1, <1>5, <1>6

LEMMA PhasesTyped ==
  ASSUME NEW subject
  PROVE  Phases(subject) \in Seq(PhaseNames)
<1>1. /\ <<>> \in Seq(PhaseNames)
      /\ <<"commands">> \in Seq(PhaseNames) /\ <<"output">> \in Seq(PhaseNames)
  BY DEF PhaseNames
<1>2. \A s, t \in Seq(PhaseNames) : s \o t \in Seq(PhaseNames)
  OBVIOUS
<1>3. QED BY <1>1, <1>2 DEF Phases

\* What a subject needs is fixed when its configuration is captured.
LEMMA NeedsStay ==
  ASSUME lifecycle'.config = lifecycle.config, run'.subject = run.subject
  PROVE  Needed(run.subject)' = Needed(run.subject)
BY DEF Needed, Phases, FlowOf, IsAgent

\* Going on to the next phase opens its runtime, and ends with all that is needed.
LEMMA OnwardOpens ==
  ASSUME NEW r, NEW phases \in Seq(PhaseNames), DOMAIN r = Fields,
         r.open \cup ToSet(phases) = Needed(r.subject)
  PROVE  LET out == Onward(r, phases)
         IN  /\ DOMAIN out = Fields /\ out.loads \in Seq(PhaseNames)
             /\ out.subject = r.subject /\ out.thread = r.thread
             /\ out.stage \in {"loading", "compiling", "delivered", "over"}
             /\ out.stage = "loading" =>
                  /\ out.loads # <<>> /\ Head(out.loads) \in out.open
                  /\ out.open \cup ToSet(out.loads) = Needed(out.subject)
             /\ out.stage \in {"compiling", "delivered"} => out.open = Needed(out.subject)
             /\ out.stage = "over" => out.abandoned
<1> DEFINE out == Onward(r, phases)
<1>1. CASE phases # <<>>
  <2>1. out = [r EXCEPT !.stage = "loading", !.loads = phases, !.open = @ \cup {Head(phases)}]
    BY <1>1 DEF Onward
  <2>2. Head(phases) \in ToSet(phases)
    BY <1>1, HeadAndTail
  <2>3. /\ DOMAIN out = Fields /\ out.stage = "loading" /\ out.loads = phases
        /\ out.open = r.open \cup {Head(phases)}
        /\ out.subject = r.subject /\ out.thread = r.thread
    BY <2>1 DEF Fields, NoRun
  <2> HIDE DEF out
  <2>4. QED BY <1>1, <2>2, <2>3 DEF out
<1>2. CASE phases = <<>>
  <2>1. r.open = Needed(r.subject)
    <3>1. DOMAIN phases = {}
      BY <1>2
    <3>2. ToSet(phases) = {}
      BY <3>1 DEF ToSet
    <3>3. r.open \cup {} = r.open
      OBVIOUS
    <3>4. QED BY <3>2, <3>3
  <2>2. \/ out = [r EXCEPT !.stage = "compiling", !.loads = <<>>]
        \/ /\ r.abandoned
           /\ out = [[r EXCEPT !.loads = <<>>] EXCEPT !.stage = "over"]
        \/ out = [[r EXCEPT !.loads = <<>>] EXCEPT !.stage = "delivered"]
    BY <1>2 DEF Onward, Delivered, Fields, NoRun
  <2>3. /\ DOMAIN out = Fields /\ out.loads = <<>> /\ out.open = r.open
        /\ out.subject = r.subject /\ out.thread = r.thread /\ out.abandoned = r.abandoned
        /\ out.stage \in {"compiling", "delivered"} \/ (r.abandoned /\ out.stage = "over")
    <3> HIDE DEF out
    <3>1. QED BY <2>2 DEF Fields, NoRun
  <2> HIDE DEF out
  <2>4. QED BY <2>1, <2>3 DEF out
<1>3. QED BY <1>1, <1>2

LEMMA InitRInv == Init => RInv
<1> SUFFICES ASSUME Init PROVE RInv
  OBVIOUS
<1>1. run = NoRun /\ lifecycle = NoLifecycle
  BY DEF Init
<1>2. <<>> \in Seq(PhaseNames)
  OBVIOUS
<1>3. QED
  BY <1>1, <1>2 DEF RInv, Shape, Fields, Stages, NoRun, NoLifecycle, BeforeThread,
     DuringThread, WhileLoading, RuntimesReleased

\* Steps that leave the Run and its configuration alone.
LEMMA OthersKeepRInv ==
  ASSUME RInv, UNCHANGED lifecycle, run' = run \/ run' = [run EXCEPT !.calm = FALSE]
  PROVE  RInv'
<1>1. /\ DOMAIN run' = Fields /\ run'.stage = run.stage /\ run'.thread = run.thread
      /\ run'.open = run.open /\ run'.cancels = run.cancels /\ run'.refusal = run.refusal
      /\ run'.subject = run.subject /\ run'.loads = run.loads
      /\ run'.abandoned = run.abandoned
  BY DEF RInv, Shape, Fields, NoRun
<1>2. Needed(run.subject)' = Needed(run.subject)
  BY <1>1, NeedsStay
<1>3. QED
  BY <1>1, <1>2 DEF RInv, Shape, BeforeThread, DuringThread, WhileLoading, RuntimesReleased,
     IsAgent

\* A new Run has nothing open.
LEMMA HydrateKeepsRInv == ASSUME RInv, NEW subject, Hydrate(subject) PROVE RInv'
<1>1. /\ DOMAIN run' = Fields /\ run'.stage = "hydrated" /\ ~run'.thread
      /\ run'.open = {} /\ run'.cancels = 0 /\ run'.refusal = None /\ run'.loads = <<>>
  BY DEF Hydrate, NoRun, Fields
<1>2. lifecycle.captured /\ UNCHANGED lifecycle
  BY DEF Hydrate
<1>3. <<>> \in Seq(PhaseNames)
  OBVIOUS
<1>4. QED
  BY <1>1, <1>2, <1>3 DEF RInv, Shape, Stages, BeforeThread, DuringThread, WhileLoading,
     RuntimesReleased

\* What comes before the construction opens nothing.
LEMMA PreparationKeepsRInv ==
  ASSUME RInv, ResolveAgent \/ MapFolders \/ ResolveWorkflow
  PROVE  RInv'
<1>1. Shape'
  BY RunSteps DEF RInv, RunStep
<1>2. /\ run.stage \in {"hydrated", "resolved"}
      /\ \/ \E calm : run' = [run EXCEPT !.stage = "resolved", !.calm = TRUE]
         \/ run' = [run EXCEPT !.stage = "mapped"]
         \/ \E why : run' = Refused(why)
  BY DEF ResolveAgent, MapFolders, ResolveWorkflow
<1>3. /\ run'.stage \in {"resolved", "mapped", "over"} /\ run'.open = run.open
      /\ run'.thread = run.thread /\ run'.cancels = run.cancels /\ run'.loads = run.loads
      /\ run'.stage # "over" => run'.refusal = run.refusal
  BY <1>2 DEF Refused, RInv, Shape, Fields, NoRun
<1>4. QED
  BY <1>1, <1>2, <1>3 DEF RInv, BeforeThread, DuringThread, WhileLoading, RuntimesReleased

\* The construction opens what an Agent is built with, or the first phase.
LEMMA DiscoverKeepsRInv ==
  ASSUME RInv, NEW answered \in BOOLEAN, DiscoverMcp(answered)
  PROVE  RInv'
<1>1. Shape' /\ Kept
  BY RunSteps DEF RInv, RunStep
<1>2. /\ run.stage = "mapped" /\ UNCHANGED lifecycle
      /\ \/ run' = Refused("mcp")
         \/ /\ IsAgent(run.subject)
            /\ run' = [run EXCEPT !.stage = "building", !.thread = TRUE, !.open = Built]
         \/ ~IsAgent(run.subject) /\ run' = Onward(run, Phases(run.subject))
  BY DEF DiscoverMcp, Built
<1>3. run.open = {} /\ ~run.thread /\ run.cancels = 0 /\ run.refusal = None
      /\ run.loads \in Seq(PhaseNames)
  BY <1>2 DEF RInv, BeforeThread, WhileLoading
<1>4. CASE run' = Refused("mcp")
  <2>1. /\ run'.stage = "over" /\ run'.open = {} /\ ~run'.thread /\ run'.loads = run.loads
    BY <1>3, <1>4 DEF Refused, RInv, Shape, Fields, NoRun
  <2>2. QED BY <1>1, <1>3, <2>1 DEF RInv, BeforeThread, DuringThread, WhileLoading,
               RuntimesReleased
<1>5. CASE /\ IsAgent(run.subject)
           /\ run' = [run EXCEPT !.stage = "building", !.thread = TRUE, !.open = Built]
  <2>1. /\ run'.stage = "building" /\ run'.open = Built /\ run'.thread
        /\ run'.loads = run.loads /\ run'.cancels = 0 /\ run'.refusal = None
        /\ run'.subject = run.subject
    BY <1>3, <1>5 DEF RInv, Shape, Fields, NoRun
  <2>2. QED BY <1>1, <1>3, <1>5, <2>1 DEF RInv, BeforeThread, DuringThread, WhileLoading,
               RuntimesReleased, IsAgent
<1>6. CASE ~IsAgent(run.subject) /\ run' = Onward(run, Phases(run.subject))
  <2>1. run.open \cup ToSet(Phases(run.subject)) = Needed(run.subject)
    BY <1>3, <1>6 DEF Needed
  <2>2. Phases(run.subject) \in Seq(PhaseNames) /\ DOMAIN run = Fields
    BY PhasesTyped DEF RInv, Shape
  <2>3. /\ run'.loads \in Seq(PhaseNames) /\ ~run'.thread
        /\ run'.stage \in {"loading", "compiling", "delivered", "over"}
        /\ run'.stage = "loading" =>
             /\ run'.loads # <<>> /\ Head(run'.loads) \in run'.open
             /\ run'.open \cup ToSet(run'.loads) = Needed(run.subject)
        /\ run'.stage \in {"compiling", "delivered"} => run'.open = Needed(run.subject)
        /\ run'.stage = "over" => run'.abandoned
        /\ run'.subject = run.subject
    BY <1>3, <1>6, <2>1, <2>2, OnwardOpens
  <2>4. Needed(run.subject)' = Needed(run.subject)
    BY <1>2, <2>3, NeedsStay
  <2>5. QED BY <1>1, <2>3, <2>4 DEF RInv, BeforeThread, DuringThread, WhileLoading,
               RuntimesReleased
<1>7. QED BY <1>2, <1>4, <1>5, <1>6

\* The thread closes what it opened when an Agent is refused, and only then.
LEMMA ThreadKeepsRInv ==
  ASSUME RInv, (\E works \in BOOLEAN : MaterialiseNext(works)) \/ FinishBuild
  PROVE  RInv'
<1>1. /\ run.thread /\ UNCHANGED lifecycle
      /\ \/ \E why : why # None /\ run' = ThreadFails(why)
         \/ \E models, files : run' = [[run EXCEPT !.models = models] EXCEPT !.files = files]
         \/ run' = [run EXCEPT !.thread = FALSE]
  <2>1. None # "files" /\ None # "names"
    BY RequestsAssumption DEF Reasons
  <2>2. QED BY <2>1 DEF MaterialiseNext, FinishBuild
<1>2. /\ DOMAIN run' = Fields /\ run'.stage = run.stage /\ run'.subject = run.subject
      /\ run'.cancels = run.cancels /\ run'.loads = run.loads
      /\ run'.abandoned = run.abandoned
      /\ \/ ~run'.thread /\ run'.open = {} /\ run'.refusal # None
         \/ run'.thread \in {run.thread, FALSE} /\ run'.open = run.open
              /\ run'.refusal = run.refusal
  BY <1>1 DEF ThreadFails, RInv, Shape, Fields, NoRun
<1>3. run.refusal = None /\ (run.stage = "building" \/ (run.stage = "over" /\ run.cancels = 2))
  BY <1>1 DEF RInv, DuringThread
<1>4. QED
  BY <1>1, <1>2, <1>3 DEF RInv, Shape, BeforeThread, DuringThread, WhileLoading,
     RuntimesReleased, IsAgent

\* A request that was cancelled once releases what was built for it.
LEMMA ResumeKeepsRInv == ASSUME RInv, ResumeBuild PROVE RInv'
<1>1. Shape' /\ Kept
  BY RunSteps DEF RInv, RunStep
<1>2. /\ run.stage = "building" /\ ~run.thread /\ UNCHANGED lifecycle
      /\ \/ run.refusal # None /\ run' = [run EXCEPT !.stage = "over"]
         \/ run' = [run EXCEPT !.stage = "over", !.open = {}]
         \/ run.refusal = None /\ run' = Onward(run, Phases(run.subject))
  BY DEF ResumeBuild
<1>3. /\ IsAgent(run.subject) /\ run.loads \in Seq(PhaseNames)
      /\ run.open = IF run.refusal = None THEN Built ELSE {}
  BY <1>2 DEF RInv, DuringThread, WhileLoading
<1>4. CASE \/ run.refusal # None /\ run' = [run EXCEPT !.stage = "over"]
           \/ run' = [run EXCEPT !.stage = "over", !.open = {}]
  <2>1. run'.stage = "over" /\ run'.open = {} /\ ~run'.thread /\ run'.loads = run.loads
    BY <1>2, <1>3, <1>4 DEF RInv, Shape, Fields, NoRun
  <2>2. QED BY <1>1, <1>3, <2>1 DEF RInv, BeforeThread, DuringThread, WhileLoading,
               RuntimesReleased
<1>5. CASE run.refusal = None /\ run' = Onward(run, Phases(run.subject))
  <2>1. run.open \cup ToSet(Phases(run.subject)) = Needed(run.subject)
    BY <1>3, <1>5 DEF Needed, Built
  <2>2. Phases(run.subject) \in Seq(PhaseNames) /\ DOMAIN run = Fields
    BY PhasesTyped DEF RInv, Shape
  <2>3. /\ run'.loads \in Seq(PhaseNames) /\ ~run'.thread
        /\ run'.stage \in {"loading", "compiling", "delivered", "over"}
        /\ run'.stage = "loading" =>
             /\ run'.loads # <<>> /\ Head(run'.loads) \in run'.open
             /\ run'.open \cup ToSet(run'.loads) = Needed(run.subject)
        /\ run'.stage \in {"compiling", "delivered"} => run'.open = Needed(run.subject)
        /\ run'.stage = "over" => run'.abandoned
        /\ run'.subject = run.subject
    BY <1>2, <1>5, <2>1, <2>2, OnwardOpens
  <2>4. Needed(run.subject)' = Needed(run.subject)
    BY <1>2, <2>3, NeedsStay
  <2>5. QED BY <1>1, <2>3, <2>4 DEF RInv, BeforeThread, DuringThread, WhileLoading,
               RuntimesReleased
<1>6. QED BY <1>2, <1>4, <1>5

\* Loading goes on to the next phase, or closes everything.
LEMMA LoadKeepsRInv ==
  ASSUME RInv, NEW works \in BOOLEAN, LoadNext(works)
  PROVE  RInv'
<1>1. Shape' /\ Kept
  BY RunSteps DEF RInv, RunStep
<1>2. /\ run.stage = "loading" /\ UNCHANGED lifecycle
      /\ \/ run' = [run EXCEPT !.stage = "over", !.open = {}]
         \/ \E why : run' = [[run EXCEPT !.stage = "over", !.open = {}] EXCEPT !.refusal = why]
         \/ run' = Onward(run, Tail(run.loads))
  BY DEF LoadNext
<1>3. /\ run.loads \in Seq(PhaseNames) /\ run.loads # <<>>
      /\ Head(run.loads) \in run.open /\ ~run.thread
      /\ run.open \cup ToSet(run.loads) = Needed(run.subject)
  BY <1>2 DEF RInv, DuringThread, WhileLoading
<1>4. CASE \/ run' = [run EXCEPT !.stage = "over", !.open = {}]
           \/ \E why : run' = [[run EXCEPT !.stage = "over", !.open = {}] EXCEPT !.refusal = why]
  <2>1. run'.stage = "over" /\ run'.open = {} /\ ~run'.thread /\ run'.loads = run.loads
    BY <1>3, <1>4 DEF RInv, Shape, Fields, NoRun
  <2>2. QED BY <1>1, <1>3, <2>1 DEF RInv, BeforeThread, DuringThread, WhileLoading,
               RuntimesReleased
<1>5. CASE run' = Onward(run, Tail(run.loads))
  <2> DEFINE rest == Tail(run.loads)
  <2>1. rest \in Seq(PhaseNames) /\ ToSet(run.loads) = {Head(run.loads)} \cup ToSet(rest)
    BY <1>3, HeadAndTail
  <2>2. run.open \cup ToSet(rest) = Needed(run.subject) /\ DOMAIN run = Fields
    BY <1>3, <2>1 DEF RInv, Shape
  <2>3. run' = Onward(run, rest)
    BY <1>5
  <2> HIDE DEF rest
  <2>4. /\ run'.loads \in Seq(PhaseNames) /\ ~run'.thread
        /\ run'.stage \in {"loading", "compiling", "delivered", "over"}
        /\ run'.stage = "loading" =>
             /\ run'.loads # <<>> /\ Head(run'.loads) \in run'.open
             /\ run'.open \cup ToSet(run'.loads) = Needed(run.subject)
        /\ run'.stage \in {"compiling", "delivered"} => run'.open = Needed(run.subject)
        /\ run'.stage = "over" => run'.abandoned
        /\ run'.subject = run.subject
    <3>1. rest \in Seq(PhaseNames) /\ ~run.thread
      BY <1>3, <2>1
    <3>2. QED BY <2>2, <2>3, <3>1, OnwardOpens
  <2>5. Needed(run.subject)' = Needed(run.subject)
    BY <1>2, <2>4, NeedsStay
  <2>6. QED BY <1>1, <2>4, <2>5 DEF RInv, BeforeThread, DuringThread, WhileLoading,
               RuntimesReleased
<1>6. QED BY <1>2, <1>4, <1>5

\* The request takes the Run and closes it, or goes away.
LEMMA RequestKeepsRInv ==
  ASSUME RInv, Compile \/ Take \/ Close \/ Abandon
  PROVE  RInv'
<1>1. Shape' /\ Kept
  BY RunSteps DEF RInv, RunStep
<1>2. /\ UNCHANGED lifecycle /\ DOMAIN run = Fields
  BY DEF Compile, Take, Close, Abandon, OnlyRun, RInv, Shape
<1>3. /\ run'.thread = run.thread /\ run'.cancels = run.cancels /\ run'.refusal = run.refusal
      /\ run'.loads = run.loads /\ run'.subject = run.subject
      /\ run'.abandoned \/ run'.abandoned = run.abandoned
      /\ \/ run.stage = "compiling" /\ run'.open = run.open
              /\ (run'.stage = "delivered" \/ (run'.stage = "over" /\ run'.abandoned))
         \/ run.stage = "delivered" /\ run'.stage = "running" /\ run'.open = run.open
         \/ run.stage = "running" /\ run'.stage = "over" /\ run'.open = {}
         \/ run'.abandoned /\ run'.open = run.open
              /\ (run'.stage = run.stage \/ (run'.stage = "over" /\ run.stage = "delivered"))
  <2>1. CASE Compile
    <3>1. /\ run.stage = "compiling"
          /\ \/ run.abandoned /\ run' = [run EXCEPT !.stage = "over"]
             \/ run' = [run EXCEPT !.stage = "delivered"]
      BY <1>2, <2>1 DEF Compile, Delivered, Fields, NoRun
    <3>2. /\ run'.thread = run.thread /\ run'.cancels = run.cancels
          /\ run'.refusal = run.refusal /\ run'.loads = run.loads
          /\ run'.subject = run.subject /\ run'.open = run.open
          /\ run'.abandoned = run.abandoned
          /\ run'.stage = "delivered" \/ (run.abandoned /\ run'.stage = "over")
      BY <1>2, <3>1 DEF Fields, NoRun
    <3>3. QED BY <3>1, <3>2
  <2>2. CASE Take
    BY <1>2, <2>2 DEF Take, Fields, NoRun
  <2>3. CASE Close
    BY <1>2, <2>3 DEF Close, Fields, NoRun
  <2>4. CASE Abandon
    <3>1. \/ run.stage = "delivered"
             /\ run' = [run EXCEPT !.abandoned = TRUE, !.stage = "over"]
          \/ run' = [run EXCEPT !.abandoned = TRUE, !.stage = run.stage]
      BY <1>2, <2>4 DEF Abandon, Fields, NoRun
    <3>2. QED BY <1>2, <3>1 DEF Fields, NoRun
  <2>5. QED BY <2>1, <2>2, <2>3, <2>4
<1>4. Needed(run.subject)' = Needed(run.subject)
  BY <1>2, <1>3, NeedsStay
<1>5. QED
  BY <1>1, <1>2, <1>3, <1>4 DEF RInv, BeforeThread, DuringThread, WhileLoading,
     RuntimesReleased, IsAgent

\* A cancellation closes what is open, leaves that to whoever has opened it, or
\* is the second one of a construction.
LEMMA CancelKeepsRInv == ASSUME RInv, Cancel PROVE RInv'
<1>1. Shape' /\ Kept
  BY RunSteps DEF RInv, RunStep
<1>2. UNCHANGED lifecycle /\ DOMAIN run = Fields
  BY DEF Cancel, OnlyRun, RInv, Shape
<1>3. /\ run'.thread = run.thread /\ run'.refusal = run.refusal
      /\ run'.loads = run.loads /\ run'.subject = run.subject
      /\ \/ /\ run.stage = "building" /\ run.cancels = 0 /\ run'.stage = "building"
            /\ run'.cancels = 1 /\ run'.open = run.open
         \/ /\ run.stage = "building" /\ run'.cancels = 2 /\ run'.stage = "over"
            /\ run'.open = run.open
         \/ run.stage = "loading" /\ run'.stage = "loading" /\ run'.open = run.open
         \/ /\ run.stage # "building" /\ run'.stage = "over" /\ run'.open = {}
            /\ run'.cancels = run.cancels
            /\ run.stage \notin {"idle", "over"}
  <2>1. run.stage = "building" => run.cancels \in {0, 1}
    BY DEF RInv, DuringThread
  <2>2. CASE run.stage = "building" /\ run.cancels = 0
    BY <1>2, <2>2 DEF Cancel, Fields, NoRun
  <2>3. CASE run.stage = "building" /\ run.cancels = 1
    <3>1. run' = [run EXCEPT !.cancels = 2, !.stage = "over"]
      BY <2>3 DEF Cancel
    <3>2. QED BY <1>2, <2>3, <3>1 DEF Fields, NoRun
  <2>4. CASE run.stage = "loading"
    <3>1. run' = [run EXCEPT !.cancels = 1]
      BY <2>4 DEF Cancel
    <3>2. QED BY <1>2, <2>4, <3>1 DEF Fields, NoRun
  <2>5. CASE run.stage \notin {"building", "loading"}
    <3>1. run' = [run EXCEPT !.stage = "over", !.open = {}] /\ Waiting
      BY <2>5 DEF Cancel
    <3>2. QED BY <1>2, <2>5, <3>1 DEF Waiting, Fields, NoRun
  <2>6. QED BY <2>1, <2>2, <2>3, <2>4, <2>5
<1>4. Needed(run.subject)' = Needed(run.subject)
  BY <1>2, <1>3, NeedsStay
<1>5. QED
  BY <1>1, <1>2, <1>3, <1>4 DEF RInv, BeforeThread, DuringThread, WhileLoading,
     RuntimesReleased, IsAgent

\* Every step leaves what is open with whoever has to close it.
LEMMA NextRInv == RInv /\ [Next]_vars => RInv'
<1> SUFFICES ASSUME RInv, [Next]_vars PROVE RInv'
  OBVIOUS
<1>1. CASE Edit \/ HostStep
  <2>1. UNCHANGED lifecycle /\ (run' = run \/ run' = [run EXCEPT !.calm = FALSE])
    BY <1>1 DEF Edit, ValidateMain, ValidateSubagent, Save, UpdateBlock, Delete, Disturbed,
       HostStep, DiskChanges, PackageChanges, HostChanges
  <2>2. QED BY <2>1, OthersKeepRInv
<1>2. CASE Reconnect \/ UNCHANGED vars
  <2>1. UNCHANGED <<lifecycle, run>>
    BY <1>2 DEF Reconnect, SaveConnection, DeleteConnection, Bind, vars
  <2>2. QED BY <2>1, OthersKeepRInv
<1>3. CASE Capture
  <2>1. /\ DOMAIN lifecycle' = DOMAIN NoLifecycle /\ lifecycle'.captured
        /\ run.stage = "idle" /\ ~run.thread /\ UNCHANGED run
    BY <1>3 DEF Capture, RInv, Shape, BeforeThread, NoLifecycle
  <2>2. QED
    BY <2>1 DEF RInv, Shape, BeforeThread, DuringThread, WhileLoading, RuntimesReleased
<1>4. ASSUME NEW subject, Hydrate(subject) PROVE RInv'
  BY <1>4, HydrateKeepsRInv
<1>5. CASE Construct
  <2>1. CASE ResolveAgent \/ MapFolders \/ ResolveWorkflow
    BY <2>1, PreparationKeepsRInv
  <2>2. ASSUME NEW answered \in BOOLEAN, DiscoverMcp(answered) PROVE RInv'
    BY <2>2, DiscoverKeepsRInv
  <2>3. CASE (\E works \in BOOLEAN : MaterialiseNext(works)) \/ FinishBuild
    BY <2>3, ThreadKeepsRInv
  <2>4. CASE ResumeBuild
    BY <2>4, ResumeKeepsRInv
  <2>5. ASSUME NEW works \in BOOLEAN, LoadNext(works) PROVE RInv'
    BY <2>5, LoadKeepsRInv
  <2>6. CASE Compile
    BY <2>6, RequestKeepsRInv
  <2>7. QED BY <1>5, <2>1, <2>2, <2>3, <2>4, <2>5, <2>6 DEF Construct
<1>6. CASE Take \/ Close \/ Abandon
  BY <1>6, RequestKeepsRInv
<1>7. CASE Cancel
  BY <1>7, CancelKeepsRInv
<1>8. QED BY <1>1, <1>2, <1>3, <1>4, <1>5, <1>6, <1>7 DEF Next

\* For every configuration and every order of refusals and cancellations: the
\* package runtimes opened for a Run are closed when it is over, unless its
\* request went away or its construction was cancelled twice, and a Run that is
\* delivered has all it needs open.
THEOREM OpenedIsReleased == Spec => []RuntimesReleased
<1>1. RInv => RuntimesReleased
  BY DEF RInv
<1>2. QED BY InitRInv, NextRInv, <1>1, PTL DEF Spec
-----------------------------------------------------------------------------
(* What was validated.                                                     *)

Modes == {"composite", "local-shell"}
WellKept(block) ==
  /\ block.type \in OwnsPackage => block.package \in Packages
  /\ block.type = "filesystem" => block.mode \in Modes
Filed(blocks) == \A b \in DOMAIN blocks : blocks[b] # None => WellKept(blocks[b])
HostShape ==
  /\ host = [disk |-> host.disk, packages |-> host.packages]
  /\ host.packages \in [Packages -> PackageStatus]

\* A reference without an issue leads to a record of its kind, whose contract
\* holds and whose package is ready.
LEMMA NoLoadIssue ==
  ASSUME HostShape, NEW c, Filed(c.blocks), NEW x, NEW type \in Selectable \cup OwnsPackage,
         NEW who, NEW at, LoadIssues(c, host, x, type, who, at) = {}
  PROVE  /\ Found(c, x, type) /\ c.blocks[x] # None /\ c.blocks[x].type = type
         /\ WellKept(c.blocks[x])
         /\ ContractValid(c.blocks[x], host)
         /\ type \in Packaged => Ready(c.blocks[x].package)
<1>1. Found(c, x, type) /\ ContractValid(c.blocks[x], host)
  BY DEF LoadIssues
<1>2. c.blocks[x] # None /\ c.blocks[x].type = type /\ WellKept(c.blocks[x])
  BY <1>1, RecordsAssumption DEF Found, EntityType, Filed
<1>3. ASSUME type \in Packaged PROVE Ready(c.blocks[x].package)
  <2>1. PackageIssues(c.blocks[x].package, host, TRUE, who, at) = {}
    BY <1>1, <1>3 DEF LoadIssues
  <2>2. c.blocks[x].package \in Packages
    BY <1>2, <1>3 DEF WellKept, OwnsPackage
  <2>3. host.packages[c.blocks[x].package] \in PackageStatus
    BY <2>2 DEF HostShape
  <2>4. host.packages[c.blocks[x].package] \notin {"invalid", "missing", "failed", "restart"}
    BY <2>1 DEF PackageIssues, When
  <2>5. QED BY <2>3, <2>4 DEF Ready, PackageStatus
<1>4. QED BY <1>1, <1>2, <1>3

\* The packages of a list without an issue are ready.
LEMMA NoListIssue ==
  ASSUME HostShape, NEW c, Filed(c.blocks), NEW ids, NEW type \in Packaged, NEW who, NEW at,
         ListIssues(c, host, ids, type, who, at) = {}, NEW works
  PROVE  PackageRefusal([i \in DOMAIN ids |-> c.blocks[ids[i]]], works) # "package"
<1> DEFINE blocks == [i \in DOMAIN ids |-> c.blocks[ids[i]]]
<1>1. ASSUME NEW i \in DOMAIN ids PROVE Ready(blocks[i].package)
  <2>1. LoadIssues(c, host, ids[i], type, who, <<at, i>>) = {}
    BY DEF ListIssues
  <2>2. type \in Selectable \cup OwnsPackage
    BY DEF OwnsPackage
  <2> DEFINE x == ids[i]
             tag == <<at, i>>
  <2>3. LoadIssues(c, host, x, type, who, tag) = {}
    BY <2>1
  <2> HIDE DEF x, tag, blocks
  <2>4. type \in Packaged => Ready(c.blocks[x].package)
    BY <2>2, <2>3, NoLoadIssue
  <2>5. QED BY <2>4 DEF x, blocks
<1>2. \A b \in ToSet(blocks) : Ready(b.package)
  BY <1>1 DEF ToSet
<1>3. None # "package"
  BY RequestsAssumption DEF Reasons
<1> HIDE DEF blocks
<1>4. PackageRefusal(blocks, works) # "package"
  BY <1>2, <1>3 DEF PackageRefusal
<1>5. QED BY <1>4 DEF blocks

\* What is wrong with the Filesystem of a subject is wrong with the subject.
LEMMA FilesystemPart ==
  ASSUME NEW c, NEW h, NEW refs, NEW required, NEW who,
         SelectedBlock(c, refs, "filesystem") # None,
         NEW x \in FilesystemIssues(c, SelectedBlock(c, refs, "filesystem"),
                                    SelectedBlock(c, refs, "filesystem-tools"), who)
  PROVE  x \in SubjectIssues(c, h, refs, required, who)
BY DEF SubjectIssues

\* The Filesystem of a subject without an issue fits what it is used with.
LEMMA FilesystemAccepted ==
  ASSUME HostShape, NEW c, Filed(c.blocks), NEW id, NEW agent, NEW refs, NEW required, NEW who,
         SubjectIssues(c, host, refs, required, who) = {}
  PROVE  FilesystemRefusal(Node(c, id, agent, refs)) \notin Validated
<1> DEFINE node == Node(c, id, agent, refs)
           fs == c.blocks[refs["filesystem"]]
           tools == "filesystem-tools" \in DOMAIN refs
<1>1. /\ node.refs = refs
      /\ \A t \in DOMAIN refs : node.blocks[t] = c.blocks[refs[t]]
      /\ node.mode = ModeOf(SelectedBlock(c, refs, "filesystem"))
  BY DEF Node
<1>2. None \notin Validated
  BY RequestsAssumption DEF Reasons, Validated
<1> HIDE DEF node
<1>3. CASE "filesystem" \notin DOMAIN refs
  <2>1. ~tools
    BY <1>3 DEF SubjectIssues, CapabilityIssues, When
  <2>2. FilesystemRefusal(node) = None
    BY <1>1, <1>3, <2>1 DEF FilesystemRefusal
  <2>3. QED BY <1>2, <2>2 DEF node
<1>4. CASE "filesystem" \in DOMAIN refs
  <2>1. LoadIssues(c, host, refs["filesystem"], "filesystem", who, <<"refs", "filesystem">>) = {}
    BY <1>4 DEF SubjectIssues
  <2>2. "filesystem" \in Selectable \cup OwnsPackage
    BY DEF Selectable, Inherited
  <2>3. /\ Found(c, refs["filesystem"], "filesystem") /\ fs # None /\ fs.type = "filesystem"
        /\ WellKept(fs) /\ ContractValid(fs, host)
    BY <2>1, <2>2, NoLoadIssue
  <2>4. FilesystemValid(fs, host.disk) /\ fs.mode \in Modes
    BY <2>3 DEF ContractValid, WellKept
  <2>5. SelectedBlock(c, refs, "filesystem") = fs
    BY <1>4, <2>3 DEF SelectedBlock, Selected
  <2>6. node.mode = fs.mode /\ node.blocks["filesystem"] = fs
    BY <1>1, <1>4, <2>3, <2>5 DEF ModeOf
  <2>7. ASSUME fs.skill # None PROVE tools /\ fs.mode = "composite"
    <3>1. fs.mode # "local-shell"
      BY <2>4, <2>7 DEF FilesystemValid, BackendFits
    <3>2. SelectedBlock(c, refs, "filesystem") # None
            => FilesystemIssues(c, SelectedBlock(c, refs, "filesystem"),
                                SelectedBlock(c, refs, "filesystem-tools"), who) = {}
      BY FilesystemPart, Zenon
    <3>3. SelectedBlock(c, refs, "filesystem-tools") # None
      BY <2>3, <2>5, <2>7, <3>2 DEF FilesystemIssues, When
    <3>4. tools
      BY <3>3 DEF SelectedBlock, Selected
    <3>5. QED BY <2>4, <3>1, <3>4 DEF Modes
  <2>8. CapabilitiesFit(fs, node.mode, tools)
    BY <2>6, <2>7 DEF CapabilitiesFit
  <2>9. FilesystemRefusal(node) \in {"sources", None}
    BY <1>1, <1>4, <2>4, <2>6, <2>8 DEF FilesystemRefusal
  <2>10. "sources" \notin Validated
    BY DEF Validated
  <2>11. QED BY <1>2, <2>9, <2>10 DEF node
<1>5. QED BY <1>3, <1>4

\* What was validated about one Agent is not what it is refused for.
LEMMA NodeAccepted ==
  ASSUME HostShape, NEW c, Filed(c.blocks), NEW id, NEW agent, NEW refs, NEW required, NEW who,
         "model-requirement" \in required,
         SubjectIssues(c, host, refs, required, who) = {},
         ListsIssues(c, host, agent, who) = {}, NEW works
  PROVE  NodeRefusal(Node(c, id, agent, refs), works) \notin Validated
<1> DEFINE node == Node(c, id, agent, refs)
<1>0. None \notin Validated /\ {"unbound", "credential", "model", "code"} \cap Validated = {}
  BY RequestsAssumption DEF Reasons, Validated
<1>1. ModelRefusal(node) \notin Validated
  <2>1. "model-requirement" \in DOMAIN refs
    <3>1. CapabilityIssues(refs, required, who) = {}
      BY DEF SubjectIssues
    <3>2. {Issue("required_capability_missing", who, <<"refs", t>>) :
             t \in required \ DOMAIN refs} = {}
      BY <3>1 DEF CapabilityIssues
    <3>3. QED BY <3>2
  <2>2. node.refs = refs
    BY DEF Node
  <2> HIDE DEF node
  <2>3. ModelRefusal(node) \in {"unbound", "credential", "model", None}
    BY <2>1, <2>2 DEF ModelRefusal
  <2>4. QED BY <1>0, <2>3
<1>2. PackageRefusal(node.tools, works) \notin Validated
  <2>1. node.tools = [i \in DOMAIN agent.tools |-> c.blocks[agent.tools[i]]]
    BY DEF Node
  <2>2. ListIssues(c, host, agent.tools, "custom-tool", who, "tool_refs") = {}
    BY DEF ListsIssues
  <2>3. PackageRefusal(node.tools, works) # "package"
    BY <2>1, <2>2, NoListIssue DEF Packaged
  <2>4. QED BY <1>0, <2>3 DEF PackageRefusal
<1>3. PackageRefusal(node.middleware, works) \notin Validated
  <2>1. node.middleware = [i \in DOMAIN agent.middleware |-> c.blocks[agent.middleware[i]]]
    BY DEF Node
  <2>2. ListIssues(c, host, agent.middleware, "custom-middleware", who, "middleware_refs") = {}
    BY DEF ListsIssues
  <2>3. PackageRefusal(node.middleware, works) # "package"
    BY <2>1, <2>2, NoListIssue DEF Packaged
  <2>4. QED BY <1>0, <2>3 DEF PackageRefusal
<1>4. FilesystemRefusal(node) \notin Validated
  BY FilesystemAccepted
<1> HIDE DEF node
<1>5. NodeRefusal(node, works) \notin Validated
  BY <1>1, <1>2, <1>3, <1>4 DEF NodeRefusal, FirstOf
<1>6. QED BY <1>5 DEF node

Delegating(main) == {"enabled", "subagents"} \subseteq DOMAIN main /\ main.subagents \in Seq(Ids)

\* The Main Agent comes first, then its Subagents.
LEMMA PrependedAt ==
  ASSUME NEW S, NEW one \in S, NEW rest \in Seq(S)
  PROVE  /\ Len(<<one>> \o rest) \in Nat /\ (<<one>> \o rest)[1] = one
         /\ \A k \in 1 .. Len(<<one>> \o rest) :
              k = 1 \/ (k - 1 \in DOMAIN rest /\ (<<one>> \o rest)[k] = rest[k - 1])
OBVIOUS

\* The Subagents of a Main Agent without an issue are without an issue.
LEMMA ChildAccepted ==
  ASSUME HostShape, NEW c, Filed(c.blocks), NEW main, NEW who,
         DelegationIssues(c, host, main, who) = {}, Selected(c, main.refs, "subagent"),
         NEW i \in DOMAIN main.subagents, NEW works
  PROVE  NodeRefusal(ChildNode(c, main, main.subagents[i]), works) \notin Validated
<1> DEFINE id == main.subagents[i]
           sub == c.subs[id]
           refs == ChildReferences(main.refs, sub.overrides)
           whom == [id |-> id, name |-> sub.name]
           missing == {k \in DOMAIN main.subagents : ~ProfileFound(c, main.subagents[k])}
           children == UNION {ChildIssues(c, host, main, main.subagents[k]) :
                                k \in DOMAIN main.subagents \ missing}
<1>1. /\ {ReferenceIssue(c, main.subagents[k], "subagent", who, <<"subagents", k>>) :
             k \in missing} = {}
      /\ children = {}
  BY DEF DelegationIssues
<1>2. missing = {}
  <2> HIDE DEF missing, children
  <2> QED BY <1>1
<1>3. ChildIssues(c, host, main, id) = {}
  BY <1>1, <1>2
<1>4. /\ SubjectIssues(c, host, refs, RequiredOfSubagent, whom) = {}
      /\ ListsIssues(c, host, sub, whom) = {}
  BY <1>3 DEF ChildIssues
<1>5. "model-requirement" \in RequiredOfSubagent
  BY DEF RequiredOfSubagent, RequiredOfMain, Inherited
<1> HIDE DEF sub, refs, whom
<1>6. NodeRefusal(Node(c, id, sub, refs), works) \notin Validated
  BY <1>4, <1>5, NodeAccepted
<1>7. QED BY <1>6 DEF ChildNode, sub, refs

\* What was validated about a Main Agent is not what any Agent of its assembly
\* is refused for.
LEMMA AssemblyAccepted ==
  ASSUME HostShape, NEW c, Filed(c.blocks), NEW id, Delegating(c.mains[id]),
         MainIssues(c, host, id, c.mains[id]) = {}
  PROVE  /\ Len(Assembly(c, id)) \in Nat
         /\ Assembly(c, id)[1] = Node(c, id, c.mains[id], c.mains[id].refs)
         /\ \A k \in 1 .. Len(Assembly(c, id)), works \in BOOLEAN :
              NodeRefusal(Assembly(c, id)[k], works) \notin Validated
<1> DEFINE main == c.mains[id]
           who == [id |-> id, name |-> main.name]
           top == Node(c, id, main, main.refs)
           below == [i \in DOMAIN main.subagents |-> ChildNode(c, main, main.subagents[i])]
           rest == IF Selected(c, main.refs, "subagent") THEN below ELSE <<>>
           S == {top} \cup {ChildNode(c, main, s) : s \in Ids}
<1>1. /\ SubjectIssues(c, host, main.refs, RequiredOfMain, who) = {}
      /\ ListsIssues(c, host, main, who) = {}
      /\ DelegationIssues(c, host, main, who) = {}
  BY DEF MainIssues
<1>2. Assembly(c, id) = <<top>> \o rest
  BY DEF Assembly
<1>3. below \in Seq(S)
  <2> HIDE DEF top
  <2> QED BY DEF Delegating
<1>4. top \in S /\ rest \in Seq(S)
  BY <1>3
<1>5. /\ Len(<<top>> \o rest) \in Nat /\ (<<top>> \o rest)[1] = top
      /\ \A k \in 1 .. Len(<<top>> \o rest) :
           k = 1 \/ (k - 1 \in DOMAIN rest /\ (<<top>> \o rest)[k] = rest[k - 1])
  <2> HIDE DEF top, rest, S
  <2> QED BY <1>4, PrependedAt
<1>6. ASSUME NEW works \in BOOLEAN PROVE NodeRefusal(top, works) \notin Validated
  <2>1. "model-requirement" \in RequiredOfMain
    BY DEF RequiredOfMain
  <2> HIDE DEF main, who
  <2>2. QED BY <1>1, <2>1, NodeAccepted
<1>7. ASSUME NEW i \in DOMAIN rest, NEW works \in BOOLEAN
      PROVE  NodeRefusal(rest[i], works) \notin Validated
  <2>1. Selected(c, main.refs, "subagent") /\ i \in DOMAIN main.subagents
    OBVIOUS
  <2>2. rest[i] = ChildNode(c, main, main.subagents[i])
    BY <2>1
  <2> HIDE DEF main, who, rest
  <2>3. NodeRefusal(ChildNode(c, main, main.subagents[i]), works) \notin Validated
    BY <1>1, <2>1, ChildAccepted
  <2>4. QED BY <2>2, <2>3
<1> HIDE DEF top, rest
<1>8. \A k \in 1 .. Len(Assembly(c, id)), works \in BOOLEAN :
        NodeRefusal(Assembly(c, id)[k], works) \notin Validated
  BY <1>2, <1>5, <1>6, <1>7
<1>9. QED BY <1>2, <1>5, <1>8 DEF top

\* The records are what the assumption says of those that are saved.
ConfigShape ==
  /\ DOMAIN config = {"blocks", "mains", "subs", "flows"}
  /\ DOMAIN config.blocks = OfKind("component") /\ Filed(config.blocks)
  /\ DOMAIN config.mains = OfKind("main")
  /\ DOMAIN config.subs = OfKind("subagent") /\ DOMAIN config.flows = OfKind("workflow")
  /\ \A m \in OfKind("main") : config.mains[m] # None => Delegating(config.mains[m])
JobShape ==
  job # None =>
    /\ DOMAIN job = {"kind", "id", "fresh", "record"}
    /\ job.kind = "mains" => Delegating(job.record)
FrozenShape ==
  lifecycle.captured =>
    /\ Filed(lifecycle.config.blocks)
    /\ \A m \in DOMAIN lifecycle.config.mains : Delegating(lifecycle.config.mains[m])
EInv == Shape /\ HostShape /\ ConfigShape /\ JobShape /\ FrozenShape

LEMMA SavedRecords ==
  /\ \A b \in OfKind("component") : \A r \in Payloads[b] : WellKept(r)
  /\ \A m \in OfKind("main") : \A r \in Payloads[m] : Delegating(r)
BY RecordsAssumption DEF OfKind, WellKept, Modes, Delegating

LEMMA InitEInv == Init => EInv
<1> SUFFICES ASSUME Init PROVE EInv
  OBVIOUS
<1>1. Shape
  BY InitKInv DEF KInv
<1>2. HostShape
  BY RecordsAssumption DEF Init, HostShape
<1>3. DOMAIN config = {"blocks", "mains", "subs", "flows"}
      /\ DOMAIN config.blocks = OfKind("component") /\ DOMAIN config.mains = OfKind("main")
      /\ DOMAIN config.subs = OfKind("subagent") /\ DOMAIN config.flows = OfKind("workflow")
  BY RecordsAssumption DEF Init, OfKind
<1>4. Filed(config.blocks)
  BY <1>3, RecordsAssumption DEF Init, Filed, OfKind, WellKept, Modes
<1>5. \A m \in OfKind("main") : config.mains[m] # None => Delegating(config.mains[m])
  BY RecordsAssumption DEF Init, OfKind, Delegating
<1>6. JobShape /\ FrozenShape
  BY DEF Init, JobShape, FrozenShape, NoLifecycle
<1>7. QED BY <1>1, <1>2, <1>3, <1>4, <1>5, <1>6 DEF EInv, ConfigShape

\* What was validated stays what it was when it is staled.
LEMMA StaledKeeps == ASSUME JobShape, job' = Staled PROVE JobShape'
BY DEF JobShape, Staled

\* A package folder that is renamed keeps what became of it.
LEMMA RenamedKeeps ==
  ASSUME HostShape, NEW old, NEW block, WellKept(old), WellKept(block), block.type = old.type,
         host' = Renamed(old, block)
  PROVE  HostShape'
<1>1. CASE host' = host
  BY <1>1 DEF HostShape
<1>2. CASE /\ block.type \in OwnsPackage
           /\ host' = [host EXCEPT !.packages[block.package] = host.packages[old.package],
                                   !.packages[old.package] = "missing"]
  <2> DEFINE moved == [[host.packages EXCEPT ![block.package] = host.packages[old.package]]
                         EXCEPT ![old.package] = "missing"]
  <2>1. old.package \in Packages /\ "missing" \in PackageStatus
    BY <1>2 DEF WellKept, PackageStatus
  <2>2. moved \in [Packages -> PackageStatus]
    BY <2>1 DEF HostShape
  <2>3. host' = [disk |-> host.disk, packages |-> moved]
    BY <1>2 DEF HostShape
  <2> HIDE DEF moved
  <2>4. QED BY <2>2, <2>3 DEF HostShape
<1>3. QED BY <1>1, <1>2 DEF Renamed

\* A record that is gone stays gone when another is deleted.
LEMMA DeletedKeepsAbsent ==
  ASSUME NEW c, NEW gone, NEW e \in Ids, c[e] = None
  PROVE  Graph!Deleted(c, gone)[e] = None
BY DEF Graph!Deleted, Graph!Published, Graph!Present

\* What happens beside the Runs: whatever changes the host disturbs the Run.
Beside ==
  /\ lifecycle' = lifecycle
  /\ (run' = run /\ host' = host) \/ run' = [run EXCEPT !.calm = FALSE]

LEMMA BesideKeepsShape ==
  ASSUME Shape, FrozenShape, Beside PROVE Shape' /\ FrozenShape'
<1>1. DOMAIN run' = Fields /\ run'.stage = run.stage /\ run'.thread = run.thread
  BY DEF Beside, Shape, Fields, NoRun
<1>2. lifecycle' = lifecycle
  BY DEF Beside
<1>3. Shape'
  BY <1>1, <1>2 DEF Shape
<1>4. FrozenShape'
  BY <1>2 DEF FrozenShape
<1>5. QED BY <1>3, <1>4

LEMMA UpdateBlockKeepsEInv ==
  ASSUME EInv, NEW id \in OfKind("component"), NEW block \in Payloads[id], UpdateBlock(id, block)
  PROVE  EInv' /\ Beside
<1> DEFINE old == config.blocks[id]
<1>1. /\ old # None /\ old.type = block.type
      /\ config' = [config EXCEPT !.blocks[id] = block]
      /\ job' = Staled /\ lifecycle' = lifecycle
      /\ host' = Renamed(old, block)
      /\ run' = IF host' = host THEN run ELSE Disturbed(run)
  BY DEF UpdateBlock
<1>2. WellKept(old) /\ WellKept(block)
  BY <1>1, SavedRecords DEF EInv, ConfigShape, Filed
<1>3. HostShape'
  BY <1>1, <1>2, RenamedKeeps DEF EInv
<1>4. ConfigShape'
  <2>1. /\ DOMAIN config' = DOMAIN config /\ config'.mains = config.mains
        /\ config'.subs = config.subs /\ config'.flows = config.flows
        /\ config'.blocks = [config.blocks EXCEPT ![id] = block]
    BY <1>1 DEF EInv, ConfigShape
  <2>2. Filed(config'.blocks)
    BY <1>2, <2>1 DEF EInv, ConfigShape, Filed
  <2>3. QED BY <2>1, <2>2 DEF EInv, ConfigShape
<1>5. Beside
  BY <1>1 DEF Beside, Disturbed
<1>6. JobShape'
  BY <1>1, StaledKeeps DEF EInv
<1>7. QED BY <1>3, <1>4, <1>5, <1>6, BesideKeepsShape DEF EInv

LEMMA DeleteKeepsEInv ==
  ASSUME EInv, NEW id, Delete(id) PROVE EInv' /\ Beside
<1> DEFINE left == Graph!Deleted(AsGraph(config), {id})
           Drafted(records) ==
             [e \in DOMAIN records |->
                IF left[e] = None THEN None
                ELSE [records[e] EXCEPT !.enabled = left[e].enabled]]
           owned == IF id \in DOMAIN config.blocks /\ config.blocks[id].type \in OwnsPackage
                    THEN {config.blocks[id].package} ELSE {}
           packages == [p \in Packages |-> IF p \in owned THEN "missing" ELSE host.packages[p]]
<1>1. /\ DOMAIN config' = {"blocks", "mains", "subs", "flows"}
      /\ config'.blocks = [b \in DOMAIN config.blocks |->
                             IF b = id THEN None ELSE config.blocks[b]]
      /\ config'.subs = [s \in DOMAIN config.subs |-> IF s = id THEN None ELSE config.subs[s]]
      /\ config'.mains = Drafted(config.mains) /\ config'.flows = Drafted(config.flows)
      /\ host' = [host EXCEPT !.packages = packages]
      /\ run' = IF owned = {} THEN run ELSE Disturbed(run)
      /\ job' = Staled /\ lifecycle' = lifecycle
  BY DEF Delete
<1>2. HostShape'
  <2>1. packages \in [Packages -> PackageStatus]
    BY DEF EInv, HostShape, PackageStatus
  <2>2. host' = [disk |-> host.disk, packages |-> packages]
    BY <1>1 DEF EInv, HostShape
  <2> HIDE DEF packages
  <2>3. QED BY <2>1, <2>2 DEF HostShape
<1>3. ASSUME NEW m \in OfKind("main"), config'.mains[m] # None
      PROVE  Delegating(config'.mains[m])
  <2>1. /\ m \in DOMAIN config.mains /\ m \in Ids
        /\ m \notin DOMAIN config.blocks /\ m \notin DOMAIN config.subs
        /\ m \notin DOMAIN config.flows
    BY DEF EInv, ConfigShape, OfKind
  <2>2. left[m] # None
    BY <1>1, <1>3, <2>1
  <2>3. AsGraph(config)[m] # None
    BY <2>1, <2>2, DeletedKeepsAbsent
  <2>4. RecordOf(config, m) = config.mains[m]
    BY <2>1 DEF RecordOf
  <2>5. config.mains[m] # None
    BY <2>1, <2>3, <2>4 DEF AsGraph
  <2>6. Delegating(config.mains[m])
    BY <2>5 DEF EInv, ConfigShape
  <2>7. config'.mains[m] = [config.mains[m] EXCEPT !.enabled = left[m].enabled]
    BY <1>1, <2>1, <2>2
  <2> HIDE DEF left
  <2>8. QED BY <2>6, <2>7 DEF Delegating
<1>4. ConfigShape'
  <2>1. /\ DOMAIN config'.mains = OfKind("main")
        /\ DOMAIN config'.subs = OfKind("subagent") /\ DOMAIN config'.flows = OfKind("workflow")
    BY <1>1 DEF EInv, ConfigShape
  <2>2. DOMAIN config'.blocks = OfKind("component") /\ Filed(config'.blocks)
    BY <1>1 DEF EInv, ConfigShape, Filed
  <2>3. QED BY <1>1, <1>3, <2>1, <2>2 DEF ConfigShape
<1>5. Beside
  <2>1. CASE owned = {}
    <3>1. packages = host.packages
      BY <2>1 DEF EInv, HostShape
    <3> HIDE DEF packages, owned
    <3>2. host' = host
      BY <1>1, <3>1 DEF EInv, HostShape
    <3>3. QED BY <1>1, <2>1, <3>2 DEF Beside
  <2>2. CASE owned # {}
    BY <1>1, <2>2 DEF Beside, Disturbed
  <2>3. QED BY <2>1, <2>2
<1>6. JobShape'
  BY <1>1, StaledKeeps DEF EInv
<1>7. QED BY <1>2, <1>4, <1>5, <1>6, BesideKeepsShape DEF EInv

LEMMA SaveKeepsEInv == ASSUME EInv, Save PROVE EInv' /\ Beside
<1>1. Beside /\ host' = host /\ job' = None
  BY DEF Save, Beside
<1>2. ConfigShape'
  <2>1. CASE job.kind = "mains"
    <3>1. /\ DOMAIN config' = DOMAIN config /\ config'.blocks = config.blocks
          /\ config'.subs = config.subs /\ config'.flows = config.flows
          /\ config'.mains = [config.mains EXCEPT ![job.id] = job.record]
      BY <2>1 DEF Save, EInv, ConfigShape
    <3>2. Delegating(job.record)
      BY <2>1 DEF Save, EInv, JobShape
    <3>3. QED BY <3>1, <3>2 DEF EInv, ConfigShape
  <2>2. CASE job.kind # "mains"
    <3>1. /\ DOMAIN config' = DOMAIN config /\ config'.blocks = config.blocks
          /\ config'.mains = config.mains /\ config'.flows = config.flows
          /\ config'.subs = [config.subs EXCEPT ![job.id] = job.record]
      BY <2>2 DEF Save, EInv, ConfigShape
    <3>2. QED BY <3>1 DEF EInv, ConfigShape
  <2>3. QED BY <2>1, <2>2
<1>3. HostShape' /\ JobShape'
  BY <1>1 DEF EInv, HostShape, JobShape
<1>4. QED BY <1>1, <1>2, <1>3, BesideKeepsShape DEF EInv

LEMMA EditKeepsEInv == ASSUME EInv, Edit PROVE EInv' /\ Beside
<1>1. ASSUME NEW id \in OfKind("main"), NEW publish \in BOOLEAN, NEW main \in Payloads[id],
             ValidateMain(id, main, publish)
      PROVE  EInv' /\ Beside
  <2>1. /\ Beside /\ host' = host /\ config' = config
        /\ job' = [kind |-> "mains", id |-> id, fresh |-> TRUE,
                   record |-> [main EXCEPT !.enabled = publish]]
    BY <1>1 DEF ValidateMain, Beside
  <2>2. Delegating([main EXCEPT !.enabled = publish])
    BY SavedRecords DEF Delegating
  <2>3. JobShape'
    BY <2>1, <2>2 DEF JobShape
  <2>4. HostShape' /\ ConfigShape'
    BY <2>1 DEF EInv, HostShape, ConfigShape
  <2>5. QED BY <2>1, <2>3, <2>4, BesideKeepsShape DEF EInv
<1>2. ASSUME NEW id \in OfKind("subagent"), NEW sub \in Payloads[id], ValidateSubagent(id, sub)
      PROVE  EInv' /\ Beside
  <2>1. /\ Beside /\ host' = host /\ config' = config
        /\ job' = [kind |-> "subs", id |-> id, fresh |-> TRUE, record |-> sub]
    BY <1>2 DEF ValidateSubagent, Beside
  <2>2. JobShape'
    BY <2>1 DEF JobShape
  <2>3. HostShape' /\ ConfigShape'
    BY <2>1 DEF EInv, HostShape, ConfigShape
  <2>4. QED BY <2>1, <2>2, <2>3, BesideKeepsShape DEF EInv
<1>3. QED BY <1>1, <1>2, SaveKeepsEInv, UpdateBlockKeepsEInv, DeleteKeepsEInv DEF Edit

LEMMA HostKeepsEInv == ASSUME EInv, HostStep PROVE EInv' /\ Beside
<1>1. /\ Beside /\ config' = config /\ job' = Staled
  BY DEF HostStep, DiskChanges, PackageChanges, HostChanges, Beside, Disturbed
<1>2. HostShape'
  <2>1. ASSUME NEW source, NEW state, host' = [host EXCEPT !.disk[source] = state]
        PROVE  HostShape'
    BY <2>1 DEF EInv, HostShape
  <2>2. ASSUME NEW package, NEW state \in PackageStatus,
               host' = [host EXCEPT !.packages[package] = state]
        PROVE  HostShape'
    <3>1. host' = [disk |-> host.disk, packages |-> [host.packages EXCEPT ![package] = state]]
      BY <2>2 DEF EInv, HostShape
    <3>2. [host.packages EXCEPT ![package] = state] \in [Packages -> PackageStatus]
      BY DEF EInv, HostShape
    <3>3. QED BY <3>1, <3>2 DEF HostShape
  <2>3. QED BY <2>1, <2>2, RecordsAssumption DEF HostStep, DiskChanges, PackageChanges, HostChanges
<1>3. ConfigShape' /\ JobShape'
  BY <1>1, StaledKeeps DEF EInv, ConfigShape
<1>4. QED BY <1>1, <1>2, <1>3, BesideKeepsShape DEF EInv

FilesShape == \E S : run.files \in Seq(S)

\* A calm Run is of a Main Agent that was validated on this very host.
CalmMeans ==
  run.calm =>
    /\ lifecycle.captured /\ IsAgent(run.subject)
    /\ run.subject \in DOMAIN lifecycle.config.mains
    /\ MainIssues(lifecycle.config, host, run.subject,
                  lifecycle.config.mains[run.subject]) = {}

VInv == RInv /\ EInv /\ FilesShape /\ CalmMeans /\ NothingValidatedRefused

\* What the steps of a Run leave alone.
Outside ==
  /\ UNCHANGED <<config, host, job>>
  /\ lifecycle'.config = lifecycle.config /\ lifecycle'.captured = lifecycle.captured
  /\ run'.subject = run.subject

LEMMA OutsideKeepsEInv == ASSUME EInv, Shape', Outside PROVE EInv'
BY DEF EInv, Outside, HostShape, ConfigShape, JobShape, FrozenShape

LEMMA OutsideKeepsCalm == ASSUME CalmMeans, Outside, run'.calm => run.calm PROVE CalmMeans'
BY DEF CalmMeans, Outside, IsAgent

\* Steps that refuse nothing that was validated.
Blameless ==
  /\ Outside /\ run'.calm = run.calm /\ run'.files = run.files
  /\ run'.refusal = run.refusal \/ run'.refusal \notin Validated

LEMMA BlamelessSteps ==
  ASSUME Shape,
         \/ MapFolders \/ ResolveWorkflow
         \/ \E answered \in BOOLEAN : DiscoverMcp(answered)
         \/ FinishBuild \/ ResumeBuild \/ Compile \/ Take \/ Close \/ Abandon \/ Cancel
  PROVE  Blameless
<1> USE DEF Shape, Fields, NoRun, NoLifecycle, Stages, Refused, OnlyRun, Blameless, Outside
<1>0. {"invalid", "folders", "mcp", "files", "names"} \cap Validated = {}
  BY DEF Validated
<1>1. CASE MapFolders
  <2>1. PICK found : lifecycle' = [lifecycle EXCEPT !.recorded = found]
    BY <1>1 DEF MapFolders
  <2>2. run' = [run EXCEPT !.stage = "mapped"] \/ run' = Refused("folders")
    BY <1>1 DEF MapFolders
  <2>3. UNCHANGED <<config, host, job>>
    BY <1>1 DEF MapFolders
  <2>4. lifecycle'.config = lifecycle.config /\ lifecycle'.captured = lifecycle.captured
    BY <2>1
  <2>5. QED BY <1>0, <2>2, <2>3, <2>4
<1>2. CASE ResolveWorkflow
  BY <1>0, <1>2 DEF ResolveWorkflow
<1>3. ASSUME NEW answered \in BOOLEAN, DiscoverMcp(answered) PROVE Blameless
  BY <1>0, <1>3 DEF DiscoverMcp, Onward, Delivered
<1>4. CASE FinishBuild
  BY <1>0, <1>4 DEF FinishBuild, ThreadFails
<1>5. CASE ResumeBuild
  BY <1>5 DEF ResumeBuild, Onward, Delivered
<1>6. CASE Compile
  BY <1>6 DEF Compile, Delivered
<1>7. CASE Take
  BY <1>7 DEF Take
<1>8. CASE Close
  BY <1>8 DEF Close
<1>9. CASE Abandon
  BY <1>9 DEF Abandon
<1>10. CASE Cancel
  BY <1>10 DEF Cancel
<1>11. QED BY <1>1, <1>2, <1>3, <1>4, <1>5, <1>6, <1>7, <1>8, <1>9, <1>10

LEMMA InitVInv == Init => VInv
<1> SUFFICES ASSUME Init PROVE VInv
  OBVIOUS
<1>1. run = NoRun
  BY DEF Init
<1>2. None \notin Validated
  BY RequestsAssumption DEF Reasons, Validated
<1>3. FilesShape /\ CalmMeans /\ NothingValidatedRefused
  BY <1>1, <1>2 DEF FilesShape, CalmMeans, NothingValidatedRefused, NoRun
<1>4. QED BY <1>3, InitRInv, InitEInv DEF VInv

\* A disturbed Run may be refused for anything.
LEMMA BesideKeepsVInv == ASSUME VInv, RInv', EInv', Beside PROVE VInv'
<1>1. CASE run' = run /\ host' = host
  BY <1>1 DEF VInv, Beside, FilesShape, CalmMeans, NothingValidatedRefused
<1>2. CASE run' = [run EXCEPT !.calm = FALSE]
  <2>1. ~run'.calm /\ run'.files = run.files
    BY <1>2 DEF VInv, RInv, Shape, Fields, NoRun
  <2>2. QED BY <2>1 DEF VInv, FilesShape, CalmMeans, NothingValidatedRefused
<1>3. QED BY <1>1, <1>2 DEF Beside

LEMMA BlamelessKeepsVInv == ASSUME VInv, RInv', Blameless PROVE VInv'
<1>1. EInv'
  BY OutsideKeepsEInv DEF VInv, RInv, Blameless
<1>2. CalmMeans'
  BY OutsideKeepsCalm DEF VInv, Blameless
<1>3. FilesShape' /\ NothingValidatedRefused'
  BY DEF VInv, Blameless, FilesShape, NothingValidatedRefused
<1>4. QED BY <1>1, <1>2, <1>3 DEF VInv

\* The Main Agent is validated on the host of the moment.
LEMMA ResolveKeepsVInv == ASSUME VInv, RInv', ResolveAgent PROVE VInv'
<1>1. /\ Outside /\ run'.files = run.files /\ lifecycle' = lifecycle
      /\ run'.refusal = run.refusal \/ run'.refusal = "invalid"
  BY DEF ResolveAgent, Refused, OnlyRun, Outside, VInv, RInv, Shape, Fields, NoRun
<1>2. run.refusal = None /\ lifecycle.captured
  BY DEF ResolveAgent, VInv, RInv, BeforeThread, Shape
<1>3. CalmMeans'
  <2>1. CASE run'.calm => run.calm
    BY <1>1, <2>1, OutsideKeepsCalm DEF VInv
  <2>2. CASE run' = [run EXCEPT !.stage = "resolved", !.calm = TRUE]
    <3>1. /\ IsAgent(run.subject) /\ run.subject \in DOMAIN lifecycle.config.mains
          /\ MainIssues(lifecycle.config, host, run.subject,
                        lifecycle.config.mains[run.subject]) = {}
      BY <2>2 DEF ResolveAgent, Refused, VInv, RInv, Shape, Fields, NoRun
    <3>2. QED BY <1>1, <1>2, <3>1 DEF CalmMeans, Outside, IsAgent
  <2>3. CASE run' = Refused("invalid")
    <3>1. run'.calm = run.calm
      BY <2>3 DEF Refused, VInv, RInv, Shape, Fields, NoRun
    <3>2. QED BY <2>1, <3>1
  <2>4. QED BY <2>2, <2>3 DEF ResolveAgent
<1>4. NothingValidatedRefused'
  BY <1>1, <1>2, RequestsAssumption DEF NothingValidatedRefused, Validated, Reasons
<1>5. EInv'
  BY <1>1, OutsideKeepsEInv DEF VInv, RInv
<1>6. QED BY <1>1, <1>3, <1>4, <1>5 DEF VInv, FilesShape

\* Every Agent of a calm Run's assembly is built as it was validated.
LEMMA CalmPlan ==
  ASSUME VInv, run.calm
  PROVE  /\ \A k \in 1 .. Len(Plan), works \in BOOLEAN : NodeRefusal(Plan[k], works) \notin Validated
         /\ Len(Plan) \in Nat
         /\ Plan[1] = Node(lifecycle.config, run.subject, lifecycle.config.mains[run.subject],
                          lifecycle.config.mains[run.subject].refs)
<1>1. /\ lifecycle.captured /\ run.subject \in DOMAIN lifecycle.config.mains
      /\ MainIssues(lifecycle.config, host, run.subject,
                    lifecycle.config.mains[run.subject]) = {}
  BY DEF VInv, CalmMeans
<1>2. /\ HostShape /\ Filed(lifecycle.config.blocks)
      /\ Delegating(lifecycle.config.mains[run.subject])
  BY <1>1 DEF VInv, EInv, FrozenShape
<1>3. QED BY <1>1, <1>2, AssemblyAccepted DEF Plan

LEMMA AppendedIsSequence ==
  ASSUME NEW s, NEW e, \E S : s \in Seq(S) PROVE \E S : Append(s, e) \in Seq(S)
<1>1. PICK S : s \in Seq(S)
  OBVIOUS
<1>2. s \in Seq(S \cup {e}) /\ e \in S \cup {e}
  BY <1>1
<1>3. Append(s, e) \in Seq(S \cup {e})
  BY <1>2
<1>4. QED BY <1>3

LEMMA MaterialiseKeepsVInv ==
  ASSUME VInv, RInv', NEW works \in BOOLEAN, MaterialiseNext(works) PROVE VInv'
<1> DEFINE k == Len(run.files) + 1
           node == Plan[k]
           files == Append(run.files, FilesOf(node))
           conn == Connection(node)
           models == run.models \cup
                       {[connection |-> conn, endpoint |-> lifecycle.connections[conn].endpoint,
                         key |-> KeyOf(conn)]}
           why == NodeRefusal(node, works)
<1>1. /\ k <= Len(Plan) /\ lifecycle' = lifecycle /\ UNCHANGED <<config, host, job>>
      /\ \/ why # None /\ run' = ThreadFails(why)
         \/ run' \in {ThreadFails("files"), ThreadFails("names")}
         \/ run' = [[run EXCEPT !.models = models] EXCEPT !.files = files]
  BY DEF MaterialiseNext, OnlyRun
<1>2. run.calm => why \notin Validated
  <2> SUFFICES ASSUME run.calm PROVE why \notin Validated
    OBVIOUS
  <2>1. \A i \in 1 .. Len(Plan) : NodeRefusal(Plan[i], works) \notin Validated
    BY CalmPlan
  <2>2. Len(run.files) \in Nat /\ Len(Plan) \in Nat
    BY CalmPlan DEF VInv, FilesShape
  <2>3. k \in 1 .. Len(Plan)
    BY <1>1, <2>2
  <2> HIDE DEF k
  <2>4. QED BY <2>1, <2>3
<1>3. \E S : files \in Seq(S)
  <2> HIDE DEF node
  <2>1. QED BY AppendedIsSequence DEF VInv, FilesShape
<1>4. {"files", "names"} \cap Validated = {}
  BY DEF Validated
<1> HIDE DEF k, node, files, models, why
<1>5. /\ Outside /\ run'.calm = run.calm
      /\ run'.files = run.files \/ run'.files = files
      /\ run'.refusal \in {run.refusal, why, "files", "names"}
  <2> USE DEF VInv, RInv, Shape, Fields, NoRun, Outside, ThreadFails
  <2>1. CASE run' = ThreadFails(why)
    BY <1>1, <2>1
  <2>2. CASE run' \in {ThreadFails("files"), ThreadFails("names")}
    BY <1>1, <2>2
  <2>3. CASE run' = [[run EXCEPT !.models = models] EXCEPT !.files = files]
    BY <1>1, <2>3
  <2>4. QED BY <1>1, <2>1, <2>2, <2>3
<1>6. NothingValidatedRefused'
  BY <1>2, <1>4, <1>5 DEF VInv, NothingValidatedRefused
<1>7. EInv' /\ CalmMeans'
  BY <1>5, OutsideKeepsEInv, OutsideKeepsCalm DEF VInv, RInv
<1>8. FilesShape'
  BY <1>3, <1>5 DEF VInv, FilesShape
<1>9. QED BY <1>6, <1>7, <1>8 DEF VInv

\* The package that presents the events of a calm Run was validated too.
LEMMA CalmOutput ==
  ASSUME VInv, run.calm, NEW phase, NEW works \in BOOLEAN
  PROVE  OutputFound(phase) /\ PackageRefusal(PhaseBlocks(phase), works) # "package"
<1> DEFINE c == lifecycle.config
           main == c.mains[run.subject]
           who == [id |-> run.subject, name |-> main.name]
           type == "agent-event-output"
<1>1. /\ lifecycle.captured /\ IsAgent(run.subject)
      /\ MainIssues(c, host, run.subject, main) = {}
  BY DEF VInv, CalmMeans
<1>2. HostShape /\ Filed(c.blocks)
  BY <1>1 DEF VInv, EInv, FrozenShape
<1>3. SubjectIssues(c, host, main.refs, RequiredOfMain, who) = {}
  BY <1>1 DEF MainIssues
<1>4. type \in DOMAIN main.refs
  <2> HIDE DEF c, main, who
  <2>1. CapabilityIssues(main.refs, RequiredOfMain, who) = {}
    BY <1>3 DEF SubjectIssues
  <2>2. {Issue("required_capability_missing", who, <<"refs", t>>) :
           t \in RequiredOfMain \ DOMAIN main.refs} = {}
    BY <2>1 DEF CapabilityIssues
  <2>3. QED BY <2>2 DEF RequiredOfMain
<1>5. Ready(c.blocks[main.refs[type]].package)
  <2>1. type \in Selectable \cup OwnsPackage /\ type \in Packaged
    BY DEF Packaged, OwnsPackage
  <2> HIDE DEF c, main, who, type
  <2> DEFINE x == main.refs[type]
             at == <<"refs", type>>
  <2>2. LoadIssues(c, host, x, type, who, at) = {}
    BY <1>3, <1>4 DEF SubjectIssues
  <2> HIDE DEF x, at
  <2>3. type \in Packaged => Ready(c.blocks[x].package)
    BY <1>2, <2>1, <2>2, NoLoadIssue
  <2>4. QED BY <2>1, <2>3 DEF x
<1>6. Plan[1] = Node(c, run.subject, main, main.refs)
  BY CalmPlan
<1>7. Plan[1].blocks[type] = c.blocks[main.refs[type]]
  <2> HIDE DEF c, main, who, type
  <2>1. QED BY <1>4, <1>6 DEF Node
<1>8. PhaseBlocks(phase) = <<Plan[1].blocks[type]>>
  BY <1>1 DEF PhaseBlocks
<1>9. OutputFound(phase)
  BY <1>1 DEF OutputFound
<1> HIDE DEF c, main, who, type
<1>10. \A b \in ToSet(PhaseBlocks(phase)) : Ready(b.package)
  BY <1>5, <1>7, <1>8 DEF ToSet
<1>11. None # "package"
  BY RequestsAssumption DEF Reasons
<1>12. PackageRefusal(PhaseBlocks(phase), works) # "package"
  BY <1>10, <1>11 DEF PackageRefusal
<1>13. QED BY <1>9, <1>12

LEMMA LoadKeepsVInv ==
  ASSUME VInv, RInv', NEW works \in BOOLEAN, LoadNext(works) PROVE VInv'
<1> DEFINE phase == Head(run.loads)
           why == IF OutputFound(phase) THEN PackageRefusal(PhaseBlocks(phase), works)
                  ELSE "no output"
           closed == [run EXCEPT !.stage = "over", !.open = {}]
<1>1. /\ lifecycle' = lifecycle /\ UNCHANGED <<config, host, job>>
      /\ \/ run' = closed \/ run' = [closed EXCEPT !.refusal = why]
         \/ run' = Onward(run, Tail(run.loads))
  BY DEF LoadNext, OnlyRun
<1>2. run.calm => why \notin Validated
  <2>1. {None, "code"} \cap Validated = {}
    BY RequestsAssumption DEF Reasons, Validated
  <2>2. QED BY <2>1, CalmOutput DEF PackageRefusal
<1> HIDE DEF why, phase
<1>3. /\ Outside /\ run'.calm = run.calm /\ run'.files = run.files
      /\ run'.refusal \in {run.refusal, why}
  BY <1>1 DEF VInv, RInv, Shape, Fields, NoRun, Outside, Onward, Delivered
<1>4. NothingValidatedRefused'
  BY <1>2, <1>3 DEF VInv, NothingValidatedRefused
<1>5. EInv' /\ CalmMeans'
  BY <1>3, OutsideKeepsEInv, OutsideKeepsCalm DEF VInv, RInv
<1>6. QED BY <1>3, <1>4, <1>5 DEF VInv, FilesShape

LEMMA CaptureKeepsVInv == ASSUME VInv, RInv', Capture PROVE VInv'
<1>1. /\ ~lifecycle.captured /\ UNCHANGED <<config, host, job, run>>
      /\ lifecycle'.config = Published(config)
  BY DEF Capture
<1>2. /\ Published(config).blocks = config.blocks
      /\ Published(config).mains =
           [e \in {e \in DOMAIN config.mains :
                    config.mains[e] # None /\ config.mains[e].enabled} |-> config.mains[e]]
  BY DEF Published, VInv, EInv, ConfigShape
<1>3. FrozenShape'
  BY <1>1, <1>2 DEF FrozenShape, VInv, EInv, ConfigShape
<1>4. EInv'
  BY <1>1, <1>3 DEF VInv, RInv, EInv, HostShape, ConfigShape, JobShape
<1>5. QED BY <1>1, <1>4 DEF VInv, FilesShape, CalmMeans, NothingValidatedRefused

LEMMA HydrateKeepsVInv == ASSUME VInv, RInv', NEW subject, Hydrate(subject) PROVE VInv'
<1>1. /\ run'.calm = FALSE /\ run'.files = <<>> /\ run'.refusal = None
      /\ UNCHANGED <<config, host, job, lifecycle>>
  BY DEF Hydrate, NoRun
<1>2. EInv'
  BY <1>1 DEF VInv, RInv, EInv, HostShape, ConfigShape, JobShape, FrozenShape
<1>3. FilesShape'
  <2>1. <<>> \in Seq({})
    OBVIOUS
  <2>2. QED BY <1>1, <2>1 DEF FilesShape
<1>4. CalmMeans' /\ NothingValidatedRefused'
  BY <1>1 DEF CalmMeans, NothingValidatedRefused
<1>5. QED BY <1>2, <1>3, <1>4 DEF VInv

LEMMA NextVInv == VInv /\ [Next]_vars => VInv'
<1> SUFFICES ASSUME VInv, [Next]_vars PROVE VInv'
  OBVIOUS
<1>0. RInv'
  BY NextRInv DEF VInv
<1>1. CASE Edit
  BY <1>0, <1>1, EditKeepsEInv, BesideKeepsVInv DEF VInv
<1>2. ASSUME Reconnect \/ UNCHANGED vars PROVE VInv'
  <2>1. UNCHANGED <<config, host, job, lifecycle, run>>
    BY <1>2 DEF Reconnect, SaveConnection, DeleteConnection, Bind, vars
  <2>2. EInv' /\ Beside
    BY <1>0, <2>1 DEF VInv, RInv, EInv, HostShape, ConfigShape, JobShape, FrozenShape, Beside
  <2>3. QED BY <1>0, <2>2, BesideKeepsVInv
<1>3. CASE HostStep
  BY <1>0, <1>3, HostKeepsEInv, BesideKeepsVInv DEF VInv
<1>4. CASE Capture
  BY <1>0, <1>4, CaptureKeepsVInv
<1>5. ASSUME NEW subject, Hydrate(subject) PROVE VInv'
  BY <1>0, <1>5, HydrateKeepsVInv
<1>6. CASE ResolveAgent
  BY <1>0, <1>6, ResolveKeepsVInv
<1>7. ASSUME NEW works \in BOOLEAN, MaterialiseNext(works) PROVE VInv'
  BY <1>0, <1>7, MaterialiseKeepsVInv
<1>8. ASSUME NEW works \in BOOLEAN, LoadNext(works) PROVE VInv'
  BY <1>0, <1>8, LoadKeepsVInv
<1>9. CASE \/ MapFolders \/ ResolveWorkflow
           \/ \E answered \in BOOLEAN : DiscoverMcp(answered)
           \/ FinishBuild \/ ResumeBuild \/ Compile \/ Take \/ Close \/ Abandon \/ Cancel
  BY <1>0, <1>9, BlamelessSteps, BlamelessKeepsVInv DEF VInv, RInv
<1>10. QED
  BY <1>1, <1>2, <1>3, <1>4, <1>5, <1>6, <1>7, <1>8, <1>9 DEF Next, Construct

\* For every configuration and every host: what the configuration service
\* accepted is what the builder builds.  A Main Agent that was validated, on a
\* host that has not changed since, is refused for nothing that was validated,
\* nor are its Subagents, nor the package that presents its events.
THEOREM ValidatedIsBuilt == Spec => []NothingValidatedRefused
<1>1. VInv => NothingValidatedRefused
  BY DEF VInv
<1>2. QED BY InitVInv, NextVInv, <1>1, PTL DEF Spec

-----------------------------------------------------------------------------
(* External Agents (ExternalAgentRunner), for any number of calls,         *)
(* conversations and faults: one writer per conversation, settled          *)
(* evidence, and what a run must have shown to be called a success.        *)
(* RunnerInv is the inductive invariant.                                   *)


\* A call that has its claim and has not yet given it back.
Held(c) == call[c].pc \notin {"idle", "binary", "over"}

\* A call whose stream has been started and not yet left.
Streaming == {"read", "exit", "terminate", "reap", "stderr", "tail", "stop", "stopped"}

-----------------------------------------------------------------------------
(* What a call may be at each of its awaits.                               *)

\* Only a call that has its claim may work on a conversation, only "explicit"
\* names one; who stops its process is not cancelled again.
Request(c) ==
  /\ call[c].pc \notin {"idle", "over"} =>
       /\ call[c].kind \in {"new", "latest", "explicit"}
       /\ call[c].kind = "explicit" <=> call[c].id # 0
  /\ ~Held(c) => call[c].conv = 0
  /\ call[c].pc \in {"stop", "stopped"} => call[c].raised /\ ~call[c].cancelled

\* The process lives only inside the stream, and what it says comes in order.
Stream(c) ==
  /\ call[c].pc \notin Streaming => process[c] = NoProcess
  /\ call[c].pc \in Streaming => process[c].state # "none"
  /\ call[c].pc \in {"stderr", "tail"} => process[c].state = "exited"
  /\ process[c].said = 0 <=> process[c].conv = 0
  /\ process[c].said = 2 => process[c].status \in {"SUCCESS", "ERROR"}

\* How far a streamed output has been read, and that a stream the watchdog has
\* not cut off is read to its end.
Reading(c) ==
  /\ call[c].pc \notin Streaming \ {"stop", "stopped"} => call[c].read = 0
  /\ call[c].pc \in {"terminate", "reap"} => call[c].timedout
  /\ call[c].pc \in Streaming \ {"stop", "stopped"} /\ format = "stream-json" =>
    /\ call[c].read <= process[c].said
    /\ call[c].read > 0 => call[c].conv = process[c].conv
    /\ call[c].read = 2 => call[c].status = process[c].status
    /\ call[c].pc \in {"exit", "stderr", "tail"} /\ ~call[c].timedout =>
         call[c].read = process[c].said
    /\ call[c].pc = "exit" /\ Alive(c) => call[c].timedout \/ process[c].said = 2

\* What the session's files hold.
Complete(c) ==
  /\ evidence[c].meta = call[c].verdict /\ evidence[c].result = call[c].verdict
  /\ evidence[c].log = "finished"

Recorded(c) ==
  /\ call[c].pc \in {"idle", "binary", "materialize", "guard", "open"} =>
       evidence[c] = NoEvidence
  /\ call[c].pc \in {"result", "events"} => evidence[c].meta = call[c].verdict
  /\ call[c].pc = "events" => evidence[c].result = call[c].verdict
  /\ call[c].pc \in {"close", "release"} =>
       evidence[c].meta = Unset \/ evidence[c].broken \/ Complete(c)
  /\ call[c].pc = "release" => ~evidence[c].open

CallInv(c) == Request(c) /\ Stream(c) /\ Reading(c) /\ Recorded(c)

-----------------------------------------------------------------------------
(* Between calls.                                                          *)

\* Held claims are registered, differ, and "latest" is held alone.
Claims ==
  /\ \A c \in Calls : Held(c) => Claim(c) \in active
  /\ \A c, d \in Calls : c # d /\ Held(c) /\ Held(d) =>
       Claim(c) # Claim(d) /\ call[c].kind # "latest"

\* The conversation a call works on, as its process or its record has it.
Touches(c, v) == process[c].conv = v \/ call[c].conv = v

\* A call touches no conversation that another touches; one that it was not
\* asked for is its own, and nobody else asks for it; but one that was asked for
\* by an id overheard may be touched by many.
Conversing ==
  /\ known \subseteq 1..made
  /\ \A c \in Calls : call[c].id <= made /\ call[c].conv <= made /\ process[c].conv <= made
  /\ \A c \in Calls, v \in Conversations \ overheard : Touches(c, v) =>
       /\ \A d \in Calls \ {c} : ~Touches(d, v)
       /\ call[c].kind # "latest" /\ v # call[c].id =>
            \A d \in Calls \ {c} : call[d].id # v

RunnerInv == TypeOK /\ (\A c \in Calls : CallInv(c)) /\ Claims
WriterInv == RunnerInv /\ Conversing

-----------------------------------------------------------------------------
(* What a step does to the calls it is not one of, and to its own.         *)

\* Nobody but c is touched.
Alone(c) ==
  /\ \A d \in Calls \ {c} : /\ call'[d] = call[d] /\ process'[d] = process[d]
                            /\ evidence'[d] = evidence[d]
  /\ format' = format

LEMMA OthersKeep ==
  ASSUME NEW c \in Calls, Alone(c), NEW d \in Calls \ {c}, CallInv(d)
  PROVE  CallInv(d)'
BY DEF Alone, CallInv, Request, Stream, Reading, Recorded, Complete, Held, Alive

\* A step that claims nothing, and works on no conversation that its call did
\* not already work on.
Quiet(c) ==
  /\ Alone(c)
  /\ UNCHANGED <<active, made, overheard>>
  /\ known' \subseteq known \cup ({process[c].conv} \ {0})
  /\ call'[c].kind = call[c].kind /\ call'[c].id = call[c].id
  /\ Held(c)' => Held(c)
  /\ call'[c].conv \in {0, call[c].conv, process[c].conv}
  /\ process'[c].conv \in {0, process[c].conv}

LEMMA QuietClaims ==
  ASSUME NEW c \in Calls, Quiet(c), Claims
  PROVE  Claims'
<1>1. ASSUME NEW d \in Calls
      PROVE  /\ Claim(d)' = Claim(d) /\ call'[d].kind = call[d].kind
             /\ Held(d)' => Held(d)
  BY DEF Quiet, Alone, Claim, Held
<1> QED
  BY <1>1 DEF Quiet, Claims

LEMMA QuietConversing ==
  ASSUME NEW c \in Calls, Quiet(c), TypeOK, Conversing
  PROVE  Conversing'
<1>1. ASSUME NEW d \in Calls, NEW v \in Conversations, Touches(d, v)'
      PROVE  Touches(d, v)
  BY <1>1 DEF Quiet, Alone, Touches, Conversations
<1>2. ASSUME NEW d \in Calls
      PROVE  /\ call'[d].id = call[d].id /\ call'[d].kind = call[d].kind
             /\ call'[d].conv <= made /\ process'[d].conv <= made
  BY DEF Quiet, Alone, Conversing, TypeOK
<1>3. known' \subseteq 1..made
  <2>1. process[c].conv \in Nat /\ process[c].conv <= made /\ made \in Nat
    BY RunnerAssumption DEF Conversing, TypeOK, ProcessRecords, Conversations
  <2> QED
    BY <2>1 DEF Quiet, Conversing
<1>4. made' = made /\ overheard' = overheard
  BY DEF Quiet
<1>5. ASSUME NEW d \in Calls, NEW v \in Conversations \ overheard', Touches(d, v)'
      PROVE  /\ \A e \in Calls \ {d} : ~Touches(e, v)'
             /\ call'[d].kind # "latest" /\ v # call'[d].id =>
                  \A e \in Calls \ {d} : call'[e].id # v
  BY <1>1, <1>2, <1>4, <1>5 DEF Conversing
<1>6. \A d \in Calls : /\ call'[d].id <= made' /\ call'[d].conv <= made'
                       /\ process'[d].conv <= made'
  BY <1>2, <1>4 DEF Conversing
<1> QED
  BY <1>3, <1>4, <1>5, <1>6 DEF Conversing

LEMMA QuietKeeps ==
  ASSUME WriterInv, NEW c \in Calls, Quiet(c), TypeOK', CallInv(c)'
  PROVE  WriterInv'
BY OthersKeep, QuietClaims, QuietConversing DEF WriterInv, RunnerInv, Quiet

-----------------------------------------------------------------------------
(* Exceptions.                                                             *)

\* The awaits at which an exception may be raised.
Handled == Pcs \ {"idle", "over", "stop", "stopped"}

RaisedAs(c, k, pc) ==
  /\ k \in CallRecords
  /\ k.pc = Handler(pc) /\ k.kind = call[c].kind /\ k.id = call[c].id
  /\ k.conv = call[c].conv /\ k.raised /\ ~k.cancelled /\ k.read = 0
  /\ k.verdict = IF Handler(pc) \in {"stop", "meta"} THEN "failed" ELSE call[c].verdict

LEMMA RaisedIs ==
  ASSUME TypeOK, NEW c \in Calls, NEW pc \in Handled
  PROVE  RaisedAs(c, Raised(c, pc), pc)
<1>1. call[c] \in CallRecords
  BY DEF TypeOK
<1>2. Handler(pc) \in {"over", "release", "close", "meta", "stop"}
  BY DEF Handled, Pcs, Handler
<1> DEFINE to == Handler(pc)
           verdict == IF to \in {"stop", "meta"} THEN "failed" ELSE call[c].verdict
           k == [call[c] EXCEPT !.pc = to, !.raised = TRUE, !.cancelled = FALSE,
                   !.timedout = FALSE, !.read = 0, !.status = Unset, !.verdict = verdict]
<1>3. to \in Pcs /\ verdict \in Verdicts \cup {Unset} /\ 0 \in 0..2
  BY <1>1, <1>2 DEF Pcs, CallRecords, Verdicts
<1>4. Raised(c, pc) = k
  BY DEF Raised
<1> HIDE DEF to, verdict
<1>5. k \in CallRecords
  BY <1>1, <1>3 DEF CallRecords
<1>6. /\ k.pc = to /\ k.kind = call[c].kind /\ k.id = call[c].id
      /\ k.conv = call[c].conv /\ k.raised /\ ~k.cancelled /\ k.read = 0
      /\ k.verdict = verdict
  BY <1>1 DEF CallRecords
<1> QED
  BY <1>4, <1>5, <1>6 DEF RaisedAs, to, verdict

\* A step that leaves call c by an exception and does nothing else.
LEMMA RaiseKeeps ==
  ASSUME WriterInv, NEW c \in Calls, call[c].pc \in Handled, Raise(c),
         call[c].pc \notin {"meta", "result", "events", "close", "release"},
         process' = IF call[c].pc = "tail" THEN [process EXCEPT ![c] = NoProcess] ELSE process,
         UNCHANGED <<format, active, made, known, overheard, recorded, evidence>>,
         faults' \in 0..MaxFaults
  PROVE  WriterInv'
<1> DEFINE k == Raised(c, call[c].pc)
<1>1. TypeOK /\ CallInv(c)
  BY DEF WriterInv, RunnerInv
<1>2. RaisedAs(c, k, call[c].pc)
  BY <1>1, RaisedIs
<1>3. call' = [call EXCEPT ![c] = k]
  BY DEF Raise
<1> HIDE DEF k
<1>4. NoProcess \in ProcessRecords
  BY DEF NoProcess, ProcessRecords
<1>5. TypeOK'
  BY <1>1, <1>2, <1>3, <1>4 DEF TypeOK, RaisedAs
<1>6. call'[c] = k /\ process'[c] = IF call[c].pc = "tail" THEN NoProcess ELSE process[c]
  BY <1>1, <1>3 DEF TypeOK
<1>7. Quiet(c)
  <2>1. Held(c)' => Held(c)
    BY <1>2, <1>6 DEF Held, RaisedAs, Handled, Handler, Pcs
  <2> QED
    BY <1>1, <1>2, <1>3, <1>6, <2>1 DEF TypeOK, RaisedAs, Quiet, Alone, NoProcess
<1>8. CallInv(c)'
  <2> USE <1>1, <1>2, <1>6 DEF RaisedAs, CallInv
  <2>1. /\ call'[c].pc \in {"over", "release", "close", "meta", "stop"}
        /\ call'[c].pc = "stop" <=> call[c].pc \in Streaming \ {"tail"}
        /\ call'[c].pc = "over" <=> call[c].pc = "binary"
        /\ call'[c].pc \in {"close", "release"} => evidence[c] = NoEvidence
    BY DEF Handled, Handler, Pcs, Streaming, Recorded
  <2>2. Request(c)'
    BY <2>1 DEF Request, Held, Handled
  <2>3. Stream(c)'
    BY <2>1 DEF Stream, Streaming, NoProcess
  <2>4. Reading(c)' /\ Recorded(c)'
    BY <2>1 DEF Reading, Recorded, Streaming, NoEvidence
  <2> QED
    BY <2>2, <2>3, <2>4
<1> QED
  BY <1>5, <1>7, <1>8, QuietKeeps
-----------------------------------------------------------------------------
(* Going on.                                                               *)

LEMMA ContinueCases ==
  ASSUME NEW c, NEW new, Continue(c, new)
  PROVE  \/ new.cancelled /\ Raise(c)
         \/ ~new.cancelled /\ call' = [call EXCEPT ![c] = new]
BY DEF Continue, Raise

\* A record that stands at p and is otherwise that of call c.
At(c, k, p) ==
  /\ k \in CallRecords
  /\ k.pc = p /\ k.kind = call[c].kind /\ k.id = call[c].id
  /\ k.cancelled = call[c].cancelled /\ k.timedout = call[c].timedout
  /\ k.read = call[c].read /\ k.conv = call[c].conv /\ k.status = call[c].status
  /\ k.verdict = call[c].verdict /\ k.raised = call[c].raised

\* Call c goes on to p, and no other call changes its record.
MovesTo(c, p) ==
  /\ call' \in [Calls -> CallRecords]
  /\ \A d \in Calls \ {c} : call'[d] = call[d]
  /\ At(c, call'[c], p)

LEMMA MoveIs ==
  ASSUME TypeOK, NEW c \in Calls, NEW p \in Pcs, call' = [call EXCEPT ![c].pc = p]
  PROVE  MovesTo(c, p)
<1> DEFINE k == [call[c] EXCEPT !.pc = p]
<1>1. call[c] \in CallRecords
  BY DEF TypeOK
<1>2. k \in CallRecords
  BY <1>1 DEF CallRecords
<1>3. At(c, k, p)
  BY <1>1, <1>2 DEF CallRecords, At
<1>4. call' = [call EXCEPT ![c] = k]
  OBVIOUS
<1> HIDE DEF k
<1> QED
  BY <1>2, <1>3, <1>4 DEF TypeOK, MovesTo

LEMMA GoOnCases ==
  ASSUME TypeOK, NEW c \in Calls, NEW p \in Pcs, GoOn(c, p)
  PROVE  \/ call[c].cancelled /\ Raise(c)
         \/ ~call[c].cancelled /\ MovesTo(c, p)
<1> DEFINE new == [call[c] EXCEPT !.pc = p]
<1>1. new.cancelled = call[c].cancelled
  BY DEF TypeOK, CallRecords
<1>2. Continue(c, new)
  BY DEF GoOn
<1>3. CASE new.cancelled /\ Raise(c)
  BY <1>1, <1>3
<1>4. CASE ~new.cancelled /\ call' = [call EXCEPT ![c] = new]
  BY <1>1, <1>4, MoveIs
<1> HIDE DEF new
<1> QED
  BY <1>2, <1>3, <1>4, ContinueCases

\* A step of a call that has its claim and keeps it, and that moves nothing but
\* its place.
LEMMA MoveKeeps ==
  ASSUME WriterInv, NEW c \in Calls, NEW p, MovesTo(c, p), Held(c),
         UNCHANGED <<format, active, process, made, known, overheard,
                     recorded, evidence, faults>>,
         CallInv(c)'
  PROVE  WriterInv'
<1>1. TypeOK
  BY DEF WriterInv, RunnerInv
<1>2. TypeOK'
  BY <1>1 DEF MovesTo, TypeOK
<1>3. Quiet(c)
  BY <1>1 DEF MovesTo, At, Quiet, Alone, TypeOK
<1> QED
  BY <1>2, <1>3, QuietKeeps

\* The awaits a call only passes, with those that may follow.
Passes(c, p) ==
  \/ call[c].pc = "materialize" /\ p = "guard"
  \/ call[c].pc = "guard" /\ p = "open"
  \/ /\ call[c].pc = "read" /\ p = "exit"
     /\ format = "stream-json" => call[c].read = process[c].said
     /\ Alive(c) => process[c].said = 2
  \/ call[c].pc = "exit" /\ process[c].state = "exited" /\ p = "stderr"
  \/ call[c].pc = "terminate" /\ Alive(c) /\ p = "reap"
  \/ call[c].pc = "terminate" /\ ~Alive(c) /\ p = "stderr"
  \/ call[c].pc = "stop" /\ p = "stopped"
  \/ call[c].pc = "stderr" /\ p = "tail"

LEMMA PassKeeps ==
  ASSUME WriterInv, NEW c \in Calls, NEW p \in Pcs, GoOn(c, p), Passes(c, p),
         UNCHANGED <<format, active, process, made, known, overheard,
                     recorded, evidence, faults>>
  PROVE  WriterInv'
<1>1. TypeOK /\ CallInv(c)
  BY DEF WriterInv, RunnerInv
<1>2. CASE call[c].cancelled /\ Raise(c)
  <2>1. call[c].pc \in Handled
    BY <1>1, <1>2 DEF Passes, Handled, Pcs, CallInv, Request
  <2>2. faults' \in 0..MaxFaults
    BY <1>1 DEF TypeOK
  <2>3. call[c].pc \notin {"meta", "result", "events", "close", "release", "tail"}
    BY DEF Passes
  <2> QED
    BY <1>2, <2>1, <2>2, <2>3, RaiseKeeps
<1>3. CASE ~call[c].cancelled /\ MovesTo(c, p)
  <2>1. Held(c) /\ At(c, call'[c], p) /\ process'[c] = process[c] /\ evidence'[c] = evidence[c]
    BY <1>3 DEF Passes, Held, MovesTo
  <2>2. process[c] \in ProcessRecords
    BY <1>1 DEF TypeOK
  <2>3. CallInv(c)'
    BY <1>1, <2>1, <2>2 DEF At, Passes, CallInv, Request, Stream, Reading, Recorded, Complete,
       Held, Alive, Streaming, ProcessRecords
  <2> QED
    BY <1>3, <2>1, <2>3, MoveKeeps
<1> QED
  BY <1>1, <1>2, <1>3, GoOnCases

LEMMA FaultCounts ==
  ASSUME TypeOK, Fault
  PROVE  faults' \in 0..MaxFaults
BY RunnerAssumption DEF Fault, TypeOK

LEMMA PassingKeeps ==
  ASSUME WriterInv, NEW c \in Calls,
         \/ GuardRecordedPrompt(c) \/ ReadEof(c) \/ ReadEarlyEof(c)
         \/ AwaitExit(c) \/ Terminate(c) \/ Materialize(c) \/ CollectStderr(c)
  PROVE  WriterInv'
<1> DEFINE Same == UNCHANGED <<format, active, process, made, known, overheard,
                               recorded, evidence, faults>>
<1>1. TypeOK /\ CallInv(c)
  BY DEF WriterInv, RunnerInv
<1>2. {"guard", "open", "exit", "stderr", "reap", "stopped", "tail"} \subseteq Pcs
  BY DEF Pcs
<1>3. ASSUME Raise(c), call[c].pc \in {"materialize", "guard", "stderr"},
             UNCHANGED <<format, active, process, made, known, overheard,
                         recorded, evidence>>,
             UNCHANGED faults \/ Fault
      PROVE  WriterInv'
  <2>1. call[c].pc \in Handled /\ call[c].pc # "tail"
    BY <1>3 DEF Handled, Pcs
  <2>2. faults' \in 0..MaxFaults
    BY <1>1, <1>3, FaultCounts DEF TypeOK
  <2> QED
    BY <1>3, <2>1, <2>2, RaiseKeeps
<1>4. CASE GuardRecordedPrompt(c)
  <2>1. (GoOn(c, "open") \/ Raise(c)) /\ call[c].pc = "guard" /\ Same
    BY <1>4 DEF GuardRecordedPrompt
  <2> QED
    BY <1>2, <1>3, <2>1, PassKeeps DEF Passes
<1>5. CASE Materialize(c)
  <2>1. \/ GoOn(c, "guard") /\ Same
        \/ /\ Raise(c) /\ Fault
           /\ UNCHANGED <<format, active, process, made, known, overheard,
                          recorded, evidence>>
    BY <1>5 DEF Materialize
  <2> QED
    BY <1>2, <1>3, <1>5, <2>1, PassKeeps DEF Passes, Materialize
<1>6. CASE CollectStderr(c)
  <2>1. \/ GoOn(c, "tail") /\ Same
        \/ /\ Raise(c) /\ Fault
           /\ UNCHANGED <<format, active, process, made, known, overheard,
                          recorded, evidence>>
    BY <1>6 DEF CollectStderr
  <2> QED
    BY <1>2, <1>3, <1>6, <2>1, PassKeeps DEF Passes, CollectStderr
<1>7. CASE ReadEof(c) \/ ReadEarlyEof(c)
  <2>1. GoOn(c, "exit") /\ Passes(c, "exit") /\ Same
    BY <1>7 DEF ReadEof, ReadEarlyEof, Passes, Alive
  <2> QED
    BY <1>2, <2>1, PassKeeps
<1>8. CASE AwaitExit(c)
  <2>1. GoOn(c, "stderr") /\ Passes(c, "stderr") /\ Same
    BY <1>8 DEF AwaitExit, Passes
  <2> QED
    BY <1>2, <2>1, PassKeeps
<1>9. CASE Terminate(c)
  <2> DEFINE p == IF call[c].pc = "stop" THEN "stopped" ELSE IF Alive(c) THEN "reap" ELSE "stderr"
  <2>1. GoOn(c, p) /\ Passes(c, p) /\ p \in Pcs /\ Same
    BY <1>2, <1>9 DEF Terminate, Passes
  <2> HIDE DEF p
  <2> QED
    BY <2>1, PassKeeps
<1> QED
  BY <1>4, <1>5, <1>6, <1>7, <1>8, <1>9

\* A cancellation is only noted; an unshielded await is left at once.
LEMMA CancelKeeps ==
  ASSUME WriterInv, NEW c \in Calls, CancelCall(c)
  PROVE  WriterInv'
<1> DEFINE k == [call[c] EXCEPT !.cancelled = TRUE]
<1>1. TypeOK /\ CallInv(c)
  BY DEF WriterInv, RunnerInv
<1>2. call[c] \in CallRecords
  BY <1>1 DEF TypeOK
<1>3. /\ k \in CallRecords /\ k.pc = call[c].pc /\ k.kind = call[c].kind /\ k.id = call[c].id
      /\ k.timedout = call[c].timedout /\ k.read = call[c].read /\ k.conv = call[c].conv
      /\ k.status = call[c].status /\ k.verdict = call[c].verdict /\ k.raised = call[c].raised
  BY <1>2 DEF CallRecords
<1>4. call' = [call EXCEPT ![c] = k] /\ ~call[c].raised /\ faults' \in 0..MaxFaults
  BY <1>1, FaultCounts DEF CancelCall
<1> HIDE DEF k
<1>5. UNCHANGED <<format, active, process, made, known, overheard, recorded, evidence>>
  BY DEF CancelCall
<1>6. TypeOK' /\ call'[c] = k
  BY <1>1, <1>3, <1>4, <1>5 DEF TypeOK
<1>7. Quiet(c)
  BY <1>3, <1>4, <1>5, <1>6 DEF Quiet, Alone, Held, TypeOK
<1>8. CallInv(c)'
  BY <1>1, <1>3, <1>4, <1>5, <1>6 DEF CallInv, Request, Stream, Reading, Recorded, Complete,
     Held, Alive
<1> QED
  BY <1>6, <1>7, <1>8, QuietKeeps

LEMMA InterruptKeeps ==
  ASSUME WriterInv, NEW c \in Calls, Interrupt(c)
  PROVE  WriterInv'
<1>1. TypeOK
  BY DEF WriterInv, RunnerInv
<1>2. /\ call[c].pc \in Handled
      /\ call[c].pc \notin {"meta", "result", "events", "close", "release", "tail"}
  BY DEF Interrupt, Unshielded, Handled, Pcs
<1>3. faults' \in 0..MaxFaults
  BY <1>1 DEF Interrupt, TypeOK
<1> QED
  BY <1>2, <1>3, RaiseKeeps DEF Interrupt
-----------------------------------------------------------------------------
(* Evidence.                                                               *)

\* A step of a call that has its claim and writes its session's files.
Writes(c, e) ==
  /\ e \in EvidenceRecords /\ evidence' = [evidence EXCEPT ![c] = e]
  /\ call' \in [Calls -> CallRecords]
  /\ \A d \in Calls \ {c} : call'[d] = call[d]
  /\ call'[c].kind = call[c].kind /\ call'[c].id = call[c].id
  /\ call'[c].conv = call[c].conv
  /\ UNCHANGED <<format, active, process, made, known, overheard>>
  /\ recorded' \subseteq Conversations \X Revisions
  /\ faults' \in 0..MaxFaults

LEMMA WriteKeeps ==
  ASSUME WriterInv, NEW c \in Calls, NEW e, Writes(c, e), Held(c), CallInv(c)'
  PROVE  WriterInv'
<1>1. TypeOK
  BY DEF WriterInv, RunnerInv
<1>2. TypeOK'
  BY <1>1 DEF Writes, TypeOK
<1>3. Quiet(c)
  BY <1>1 DEF Writes, Quiet, Alone, TypeOK
<1> QED
  BY <1>2, <1>3, QuietKeeps

\* The record that GoOn leaves: the call goes on, or is raised.
LEMMA GoOnRecord ==
  ASSUME TypeOK, NEW c \in Calls, NEW p \in Pcs, GoOn(c, p), call[c].pc \in Handled
  PROVE  /\ call' \in [Calls -> CallRecords]
         /\ \A d \in Calls \ {c} : call'[d] = call[d]
         /\ \/ ~call[c].cancelled /\ At(c, call'[c], p)
            \/ call[c].cancelled /\ RaisedAs(c, call'[c], call[c].pc)
<1> DEFINE k == Raised(c, call[c].pc)
<1>1. RaisedAs(c, k, call[c].pc)
  BY RaisedIs
<1>2. CASE call[c].cancelled /\ Raise(c)
  <2>1. call' = [call EXCEPT ![c] = k]
    BY <1>2 DEF Raise
  <2> HIDE DEF k
  <2> QED
    BY <1>1, <1>2, <2>1 DEF RaisedAs, TypeOK
<1>3. CASE ~call[c].cancelled /\ MovesTo(c, p)
  BY <1>3 DEF MovesTo
<1> QED
  BY <1>2, <1>3, GoOnCases

LEMMA OpenEvidenceKeeps ==
  ASSUME WriterInv, NEW c \in Calls, OpenEvidence(c)
  PROVE  WriterInv'
<1>1. TypeOK /\ CallInv(c) /\ Held(c) /\ call[c].pc \in Handled
  BY DEF WriterInv, RunnerInv, OpenEvidence, Held, Handled, Pcs
<1>2. CASE Raise(c) /\ Fault /\ UNCHANGED evidence
  BY <1>1, <1>2, FaultCounts, RaiseKeeps DEF OpenEvidence
<1>3. CASE GoOn(c, "metadata") /\ evidence' = [evidence EXCEPT ![c].open = TRUE]
           /\ UNCHANGED faults
  <2> DEFINE e == [evidence[c] EXCEPT !.open = TRUE]
  <2>1. e \in EvidenceRecords /\ e.meta = evidence[c].meta
    BY <1>1 DEF TypeOK, EvidenceRecords, Verdicts
  <2>2. evidence' = [evidence EXCEPT ![c] = e]
    BY <1>3
  <2>3. /\ call' \in [Calls -> CallRecords]
        /\ \A d \in Calls \ {c} : call'[d] = call[d]
        /\ \/ ~call[c].cancelled /\ At(c, call'[c], "metadata")
           \/ call[c].cancelled /\ RaisedAs(c, call'[c], "open")
    BY <1>1, <1>3, GoOnRecord DEF OpenEvidence, Pcs
  <2> HIDE DEF e
  <2>4. Writes(c, e)
    BY <1>1, <1>3, <2>1, <2>2, <2>3 DEF OpenEvidence, Writes, At, RaisedAs, TypeOK
  <2>5. process'[c] = process[c] /\ evidence'[c] = e /\ call[c].pc = "open"
    BY <1>1, <2>2 DEF OpenEvidence, TypeOK
  <2>6. CallInv(c)'
    BY <1>1, <2>1, <2>3, <2>5 DEF At, RaisedAs, Handler, CallInv, Request, Stream, Reading,
       Recorded, Complete, Held, Alive, Streaming, NoEvidence
  <2> QED
    BY <1>1, <2>4, <2>6, WriteKeeps
<1> QED
  BY <1>2, <1>3 DEF OpenEvidence

LEMMA SaveMetadataKeeps ==
  ASSUME WriterInv, NEW c \in Calls, SaveMetadata(c)
  PROVE  WriterInv'
<1>1. TypeOK /\ CallInv(c) /\ Held(c) /\ call[c].pc \in Handled
  BY DEF WriterInv, RunnerInv, SaveMetadata, Held, Handled, Pcs
<1>2. CASE Raise(c) /\ Fault /\ UNCHANGED evidence
  BY <1>1, <1>2, FaultCounts, RaiseKeeps DEF SaveMetadata
<1>3. CASE GoOn(c, "started") /\ evidence' = [evidence EXCEPT ![c].meta = "running"]
           /\ UNCHANGED faults
  <2> DEFINE e == [evidence[c] EXCEPT !.meta = "running"]
  <2>1. e \in EvidenceRecords
    BY <1>1 DEF TypeOK, EvidenceRecords, Verdicts
  <2>2. evidence' = [evidence EXCEPT ![c] = e]
    BY <1>3
  <2>3. /\ call' \in [Calls -> CallRecords]
        /\ \A d \in Calls \ {c} : call'[d] = call[d]
        /\ \/ ~call[c].cancelled /\ At(c, call'[c], "started")
           \/ call[c].cancelled /\ RaisedAs(c, call'[c], "metadata")
    BY <1>1, <1>3, GoOnRecord DEF SaveMetadata, Pcs
  <2> HIDE DEF e
  <2>4. Writes(c, e)
    BY <1>1, <1>3, <2>1, <2>2, <2>3 DEF SaveMetadata, Writes, At, RaisedAs, TypeOK
  <2>5. process'[c] = process[c] /\ evidence'[c] = e /\ call[c].pc = "metadata"
    BY <1>1, <2>2 DEF SaveMetadata, TypeOK
  <2>6. CallInv(c)'
    BY <1>1, <2>1, <2>3, <2>5 DEF At, RaisedAs, Handler, CallInv, Request, Stream, Reading,
       Recorded, Complete, Held, Alive, Streaming
  <2> QED
    BY <1>1, <2>4, <2>6, WriteKeeps
<1> QED
  BY <1>2, <1>3 DEF SaveMetadata

LEMMA EmitStartedKeeps ==
  ASSUME WriterInv, NEW c \in Calls, EmitStarted(c)
  PROVE  WriterInv'
<1>1. TypeOK /\ CallInv(c) /\ Held(c) /\ call[c].pc \in Handled
  BY DEF WriterInv, RunnerInv, EmitStarted, Held, Handled, Pcs
<1>2. CASE Raise(c) /\ Fault /\ UNCHANGED evidence
  BY <1>1, <1>2, FaultCounts, RaiseKeeps DEF EmitStarted
<1>3. CASE GoOn(c, "spawn") /\ evidence' = [evidence EXCEPT ![c].log = "started"]
           /\ UNCHANGED faults
  <2> DEFINE e == [evidence[c] EXCEPT !.log = "started"]
  <2>1. e \in EvidenceRecords
    BY <1>1 DEF TypeOK, EvidenceRecords, Verdicts
  <2>2. evidence' = [evidence EXCEPT ![c] = e]
    BY <1>3
  <2>3. /\ call' \in [Calls -> CallRecords]
        /\ \A d \in Calls \ {c} : call'[d] = call[d]
        /\ \/ ~call[c].cancelled /\ At(c, call'[c], "spawn")
           \/ call[c].cancelled /\ RaisedAs(c, call'[c], "started")
    BY <1>1, <1>3, GoOnRecord DEF EmitStarted, Pcs
  <2> HIDE DEF e
  <2>4. Writes(c, e)
    BY <1>1, <1>3, <2>1, <2>2, <2>3 DEF EmitStarted, Writes, At, RaisedAs, TypeOK
  <2>5. process'[c] = process[c] /\ evidence'[c] = e /\ call[c].pc = "started"
    BY <1>1, <2>2 DEF EmitStarted, TypeOK
  <2>6. CallInv(c)'
    BY <1>1, <2>1, <2>3, <2>5 DEF At, RaisedAs, Handler, CallInv, Request, Stream, Reading,
       Recorded, Complete, Held, Alive, Streaming
  <2> QED
    BY <1>1, <2>4, <2>6, WriteKeeps
<1> QED
  BY <1>2, <1>3 DEF EmitStarted

\* The files as they are when their last writing fails.
LEMMA BreakingKeeps ==
  ASSUME WriterInv, NEW c \in Calls, call[c].pc \in {"meta", "result", "events"},
         EvidenceBreaks(c),
         UNCHANGED <<format, active, process, made, known, overheard, recorded>>
  PROVE  WriterInv'
<1> DEFINE e == [evidence[c] EXCEPT !.broken = TRUE]
           k == [call[c] EXCEPT !.pc = "close", !.raised = TRUE]
<1>1. TypeOK /\ CallInv(c) /\ Held(c)
  BY DEF WriterInv, RunnerInv, Held
<1>2. e \in EvidenceRecords /\ e.broken /\ evidence' = [evidence EXCEPT ![c] = e]
  BY <1>1 DEF TypeOK, EvidenceRecords, EvidenceBreaks
<1>3. /\ k \in CallRecords /\ k.pc = "close" /\ k.kind = call[c].kind /\ k.id = call[c].id
      /\ k.conv = call[c].conv /\ k.cancelled = call[c].cancelled /\ k.read = call[c].read
  BY ZenonT(60), <1>1 DEF TypeOK, CallRecords, Pcs
<1>4. call' = [call EXCEPT ![c] = k] /\ faults' \in 0..MaxFaults
  BY <1>1, FaultCounts DEF EvidenceBreaks
<1> HIDE DEF e, k
<1>5. Writes(c, e)
  BY <1>1, <1>2, <1>3, <1>4 DEF Writes, TypeOK
<1>6. process'[c] = process[c] /\ evidence'[c] = e /\ call'[c] = k
  BY <1>1, <1>2, <1>4 DEF TypeOK
<1>7. CallInv(c)'
  BY <1>1, <1>2, <1>3, <1>6 DEF CallInv, Request, Stream, Reading, Recorded, Complete,
     Held, Alive, Streaming
<1> QED
  BY <1>1, <1>5, <1>7, WriteKeeps

\* A call that has written one of its last files goes on, whether or not it
\* was cancelled meanwhile.
LEMMA SaveMetaKeeps ==
  ASSUME WriterInv, NEW c \in Calls, SaveMeta(c)
  PROVE  WriterInv'
<1>1. TypeOK /\ CallInv(c) /\ Held(c) /\ call[c].pc = "meta"
  BY DEF WriterInv, RunnerInv, SaveMeta, Held
<1>2. CASE EvidenceBreaks(c) /\ UNCHANGED recorded
  BY <1>1, <1>2, BreakingKeeps DEF SaveMeta
<1>3. CASE ~(EvidenceBreaks(c) /\ UNCHANGED recorded)
  <2> DEFINE e == [evidence[c] EXCEPT !.meta = call[c].verdict]
  <2>1. /\ call' = [call EXCEPT ![c].pc = "result"] /\ UNCHANGED faults
        /\ evidence' = [evidence EXCEPT ![c] = e]
    BY <1>3 DEF SaveMeta
  <2>2. MovesTo(c, "result")
    BY <1>1, <2>1, MoveIs DEF Pcs
  <2>3. call[c].verdict \in Verdicts \cup {Unset}
    BY <1>1 DEF TypeOK, CallRecords
  <2>4. e \in EvidenceRecords /\ e.meta = call[c].verdict
    BY <1>1, <2>3 DEF TypeOK, EvidenceRecords
  <2>5. recorded' \subseteq Conversations \X Revisions
    BY <1>1, RunnerAssumption DEF SaveMeta, TypeOK, CallRecords
  <2> HIDE DEF e
  <2>6. Writes(c, e)
    BY <1>1, <2>1, <2>2, <2>4, <2>5 DEF SaveMeta, MovesTo, At, Writes, TypeOK
  <2>7. process'[c] = process[c] /\ evidence'[c] = e /\ At(c, call'[c], "result")
    BY <1>1, <2>1, <2>2 DEF SaveMeta, MovesTo, TypeOK
  <2>8. CallInv(c)'
    BY <1>1, <2>4, <2>7 DEF At, CallInv, Request, Stream, Reading, Recorded, Complete,
       Held, Alive, Streaming
  <2> QED
    BY <1>1, <2>6, <2>8, WriteKeeps
<1> QED
  BY <1>2, <1>3

LEMMA SaveResultKeeps ==
  ASSUME WriterInv, NEW c \in Calls, SaveResult(c)
  PROVE  WriterInv'
<1>1. TypeOK /\ CallInv(c) /\ Held(c) /\ call[c].pc = "result"
  BY DEF WriterInv, RunnerInv, SaveResult, Held
<1>2. CASE EvidenceBreaks(c)
  BY <1>1, <1>2, BreakingKeeps DEF SaveResult
<1>3. CASE ~EvidenceBreaks(c)
  <2> DEFINE e == [evidence[c] EXCEPT !.result = call[c].verdict]
  <2>1. /\ call' = [call EXCEPT ![c].pc = "events"] /\ UNCHANGED faults
        /\ evidence' = [evidence EXCEPT ![c] = e]
    BY <1>3 DEF SaveResult
  <2>2. MovesTo(c, "events")
    BY <1>1, <2>1, MoveIs DEF Pcs
  <2>3. call[c].verdict \in Verdicts \cup {Unset}
    BY <1>1 DEF TypeOK, CallRecords
  <2>4. e \in EvidenceRecords /\ e.meta = evidence[c].meta /\ e.result = call[c].verdict
    BY <1>1, <2>3 DEF TypeOK, EvidenceRecords
  <2> HIDE DEF e
  <2>5. Writes(c, e)
    BY <1>1, <2>1, <2>2, <2>4 DEF SaveResult, MovesTo, At, Writes, TypeOK
  <2>6. process'[c] = process[c] /\ evidence'[c] = e /\ At(c, call'[c], "events")
    BY <1>1, <2>1, <2>2 DEF SaveResult, MovesTo, TypeOK
  <2>7. CallInv(c)'
    BY <1>1, <2>4, <2>6 DEF At, CallInv, Request, Stream, Reading, Recorded, Complete,
       Held, Alive, Streaming
  <2> QED
    BY <1>1, <2>5, <2>7, WriteKeeps
<1> QED
  BY <1>2, <1>3

LEMMA EmitFinishedKeeps ==
  ASSUME WriterInv, NEW c \in Calls, EmitFinished(c)
  PROVE  WriterInv'
<1>1. /\ TypeOK /\ CallInv(c) /\ Held(c)
      /\ call[c].pc = "events" /\ call[c].pc \in Handled
  BY DEF WriterInv, RunnerInv, EmitFinished, Held, Handled, Pcs
<1>2. CASE EvidenceBreaks(c)
  BY <1>1, <1>2, BreakingKeeps DEF EmitFinished
<1>3. CASE ~EvidenceBreaks(c)
  <2> DEFINE e == [evidence[c] EXCEPT !.log = "finished"]
  <2>1. GoOn(c, "close") /\ UNCHANGED faults /\ evidence' = [evidence EXCEPT ![c] = e]
    BY <1>3 DEF EmitFinished
  <2>2. /\ e \in EvidenceRecords /\ e.log = "finished"
        /\ e.meta = evidence[c].meta /\ e.result = evidence[c].result
    BY <1>1 DEF TypeOK, EvidenceRecords, Verdicts
  <2>3. /\ call' \in [Calls -> CallRecords]
        /\ \A d \in Calls \ {c} : call'[d] = call[d]
        /\ At(c, call'[c], "close") \/ RaisedAs(c, call'[c], "events")
    BY <1>1, <2>1, GoOnRecord DEF Pcs
  <2> HIDE DEF e
  <2>4. Writes(c, e)
    BY <1>1, <2>1, <2>2, <2>3 DEF EmitFinished, Writes, At, RaisedAs, TypeOK
  <2>5. process'[c] = process[c] /\ evidence'[c] = e
    BY <1>1, <2>1 DEF EmitFinished, TypeOK
  <2>6. CallInv(c)'
    BY <1>1, <2>2, <2>3, <2>5 DEF At, RaisedAs, Handler, CallInv, Request, Stream, Reading,
       Recorded, Complete, Held, Alive, Streaming
  <2> QED
    BY <1>1, <2>4, <2>6, WriteKeeps
<1> QED
  BY <1>2, <1>3

LEMMA CloseEvidenceKeeps ==
  ASSUME WriterInv, NEW c \in Calls, CloseEvidence(c)
  PROVE  WriterInv'
<1> DEFINE e == [evidence[c] EXCEPT !.open = FALSE]
<1>1. /\ TypeOK /\ CallInv(c) /\ Held(c)
      /\ call[c].pc = "close" /\ call[c].pc \in Handled
  BY DEF WriterInv, RunnerInv, CloseEvidence, Held, Handled, Pcs
<1>2. /\ e \in EvidenceRecords /\ ~e.open /\ e.meta = evidence[c].meta
      /\ e.result = evidence[c].result /\ e.log = evidence[c].log
      /\ e.broken = evidence[c].broken
  BY <1>1 DEF TypeOK, EvidenceRecords
<1>3. evidence' = [evidence EXCEPT ![c] = e]
  BY DEF CloseEvidence
<1>4. /\ call' \in [Calls -> CallRecords]
      /\ \A d \in Calls \ {c} : call'[d] = call[d]
      /\ At(c, call'[c], "release") \/ RaisedAs(c, call'[c], "close")
  BY <1>1, GoOnRecord DEF CloseEvidence, Pcs
<1> HIDE DEF e
<1>5. Writes(c, e)
  BY <1>1, <1>2, <1>3, <1>4 DEF CloseEvidence, Writes, At, RaisedAs, TypeOK
<1>6. process'[c] = process[c] /\ evidence'[c] = e
  BY <1>1, <1>3 DEF CloseEvidence, TypeOK
<1>7. CallInv(c)'
  BY <1>1, <1>2, <1>4, <1>6 DEF At, RaisedAs, Handler, CallInv, Request, Stream, Reading,
     Recorded, Complete, Held, Alive, Streaming
<1> QED
  BY <1>1, <1>5, <1>7, WriteKeeps

-----------------------------------------------------------------------------
(* The stream.                                                             *)

\* A step of a call in its stream, or about to enter it, with its process.
Streams(c, p) ==
  /\ p \in ProcessRecords /\ process' = [process EXCEPT ![c] = p]
  /\ call' \in [Calls -> CallRecords]
  /\ \A d \in Calls \ {c} : call'[d] = call[d]
  /\ call'[c].kind = call[c].kind /\ call'[c].id = call[c].id
  /\ call'[c].conv \in {0, call[c].conv, process[c].conv}
  /\ p.conv \in {0, process[c].conv}
  /\ UNCHANGED <<format, active, made, known, overheard, recorded, evidence>>
  /\ faults' \in 0..MaxFaults

LEMMA StreamKeeps ==
  ASSUME WriterInv, NEW c \in Calls, NEW p, Streams(c, p), Held(c), CallInv(c)'
  PROVE  WriterInv'
<1>1. TypeOK
  BY DEF WriterInv, RunnerInv
<1>2. TypeOK'
  BY <1>1 DEF Streams, TypeOK
<1>3. Quiet(c)
  BY <1>1 DEF Streams, Quiet, Alone, TypeOK
<1> QED
  BY <1>2, <1>3, QuietKeeps

LEMMA SpawnKeeps ==
  ASSUME WriterInv, NEW c \in Calls, Spawn(c)
  PROVE  WriterInv'
<1>1. /\ TypeOK /\ CallInv(c) /\ Held(c)
      /\ call[c].pc = "spawn" /\ call[c].pc \in Handled /\ ~call[c].cancelled
  BY DEF WriterInv, RunnerInv, Spawn, Held, Handled, Pcs
<1>2. CASE Raise(c) /\ Fault /\ UNCHANGED process
  BY <1>1, <1>2, FaultCounts, RaiseKeeps DEF Spawn
<1>3. CASE GoOn(c, "read") /\ process' = [process EXCEPT ![c].state = "alive"]
           /\ UNCHANGED faults
  <2> DEFINE p == [process[c] EXCEPT !.state = "alive"]
  <2>1. process' = [process EXCEPT ![c] = p]
    BY <1>3
  <2>2. /\ p \in ProcessRecords /\ p.state = "alive"
        /\ p.conv = 0 /\ p.said = 0
    BY <1>1 DEF CallInv, Stream, Streaming, NoProcess, TypeOK, ProcessRecords
  <2>3. MovesTo(c, "read")
    <3>1. \/ call[c].cancelled /\ Raise(c)
          \/ ~call[c].cancelled /\ MovesTo(c, "read")
      BY <1>1, <1>3, GoOnCases DEF Pcs
    <3> QED
      BY <1>1, <3>1
  <2> HIDE DEF p
  <2>4. Streams(c, p)
    BY <1>1, <1>3, <2>1, <2>2, <2>3 DEF Spawn, MovesTo, At, Streams, TypeOK
  <2>5. process'[c] = p /\ evidence'[c] = evidence[c] /\ At(c, call'[c], "read")
    BY <1>1, <2>1, <2>3 DEF Spawn, MovesTo, TypeOK
  <2>6. CallInv(c)'
    BY <1>1, <2>2, <2>5 DEF At, CallInv, Request, Stream, Reading, Recorded, Complete,
       Held, Alive, Streaming
  <2> QED
    BY <1>1, <2>4, <2>6, StreamKeeps
<1> QED
  BY <1>2, <1>3 DEF Spawn

LEMMA WatchdogKeeps ==
  ASSUME WriterInv, NEW c \in Calls, Watchdog(c)
  PROVE  WriterInv'
<1> DEFINE k == [call[c] EXCEPT !.pc = "terminate", !.timedout = TRUE]
<1>1. /\ TypeOK /\ CallInv(c) /\ Held(c)
      /\ call[c].pc \in {"read", "exit"} /\ call[c].pc \in Handled
  BY DEF WriterInv, RunnerInv, Watchdog, Held, Handled, Pcs
<1>2. /\ k \in CallRecords /\ k.pc = "terminate" /\ k.timedout
      /\ k.kind = call[c].kind /\ k.id = call[c].id /\ k.conv = call[c].conv
      /\ k.cancelled = call[c].cancelled /\ k.read = call[c].read
      /\ k.status = call[c].status
  BY ZenonT(60), <1>1 DEF TypeOK, CallRecords, Pcs
<1>3. Continue(c, k)
  BY DEF Watchdog
<1> HIDE DEF k
<1>4. UNCHANGED <<format, active, process, made, known, overheard,
                  recorded, evidence, faults>>
  BY DEF Watchdog
<1>5. CASE k.cancelled /\ Raise(c)
  <2>1. faults' \in 0..MaxFaults
    BY <1>1, <1>4 DEF TypeOK
  <2> QED
    BY <1>1, <1>4, <1>5, <2>1, RaiseKeeps
<1>6. CASE ~k.cancelled /\ call' = [call EXCEPT ![c] = k]
  <2>1. Streams(c, process[c])
    BY <1>1, <1>2, <1>4, <1>6 DEF Streams, TypeOK
  <2>2. process'[c] = process[c] /\ evidence'[c] = evidence[c] /\ call'[c] = k
    BY <1>1, <1>4, <1>6 DEF TypeOK
  <2>3. CallInv(c)'
    BY <1>1, <1>2, <1>4, <2>2 DEF CallInv, Request, Stream, Reading, Recorded, Complete,
       Held, Alive, Streaming
  <2> QED
    BY <1>1, <2>1, <2>3, StreamKeeps
<1> QED
  BY <1>3, <1>5, <1>6, ContinueCases

LEMMA ReapKeeps ==
  ASSUME WriterInv, NEW c \in Calls, Reap(c)
  PROVE  WriterInv'
<1> DEFINE stopped == call[c].pc = "stopped"
           p == IF stopped THEN NoProcess ELSE [process[c] EXCEPT !.state = "exited"]
           to == IF stopped THEN "meta" ELSE "stderr"
<1>1. /\ TypeOK /\ CallInv(c) /\ Held(c)
      /\ call[c].pc \in {"reap", "stopped"} /\ to \in Pcs
      /\ call[c] \in CallRecords /\ process[c] \in ProcessRecords
  BY DEF WriterInv, RunnerInv, Reap, Held, Pcs, TypeOK
<1>2. process' = [process EXCEPT ![c] = p] /\ GoOn(c, to)
  BY DEF Reap
<1>3. /\ p \in ProcessRecords /\ (stopped => p = NoProcess)
      /\ ~stopped => /\ p.state = "exited" /\ p.conv = process[c].conv
                     /\ p.said = process[c].said /\ p.status = process[c].status
  BY <1>1 DEF ProcessRecords, NoProcess
<1>4. /\ call' \in [Calls -> CallRecords]
      /\ \A d \in Calls \ {c} : call'[d] = call[d]
      /\ \/ ~call[c].cancelled /\ At(c, call'[c], to)
         \/ call[c].cancelled /\ ~stopped /\ RaisedAs(c, call'[c], "reap")
  <2>1. CASE stopped
    <3>1. ~call[c].cancelled
      BY <1>1, <2>1 DEF CallInv, Request
    <3>2. MovesTo(c, to)
      BY <1>1, <1>2, <3>1, GoOnCases
    <3> QED
      BY <3>1, <3>2 DEF MovesTo
  <2>2. CASE ~stopped
    <3>1. call[c].pc = "reap" /\ call[c].pc \in Handled
      BY <1>1, <2>2 DEF Handled, Pcs
    <3> QED
      BY <1>1, <1>2, <2>2, <3>1, GoOnRecord
  <2> QED
    BY <2>1, <2>2
<1>5. UNCHANGED <<format, active, made, known, overheard, recorded, evidence, faults>>
  BY DEF Reap
<1>6. p.conv \in {0, process[c].conv}
  BY <1>3 DEF NoProcess
<1> HIDE DEF p
<1>7. Streams(c, p)
  BY <1>1, <1>2, <1>3, <1>4, <1>5, <1>6 DEF Streams, At, RaisedAs, TypeOK
<1>8. process'[c] = p /\ evidence'[c] = evidence[c]
  BY <1>1, <1>2, <1>5 DEF TypeOK
<1>9. CallInv(c)'
  <2>1. CASE stopped
    BY <1>1, <1>3, <1>4, <1>5, <1>8, <2>1 DEF At, CallInv, Request, Stream, Reading, Recorded,
       Complete, Held, Alive, Streaming, NoProcess
  <2>2. CASE ~stopped
    BY <1>1, <1>3, <1>4, <1>5, <1>8, <2>2 DEF At, RaisedAs, Handler, CallInv, Request, Stream,
       Reading, Recorded, Complete, Held, Alive, Streaming
  <2> QED
    BY <2>1, <2>2
<1> QED
  BY <1>1, <1>7, <1>9, StreamKeeps

\* A call whose reader passes on the conversation's id, or whose reading fails.
LEMMA ReadKeeps ==
  ASSUME WriterInv, NEW c \in Calls, ReadEnvelope(c)
  PROVE  WriterInv'
<1> DEFINE said == IF call[c].read = 1 THEN process[c].status ELSE call[c].status
           k == [call[c] EXCEPT !.read = @ + 1, !.conv = process[c].conv, !.status = said]
<1>1. /\ TypeOK /\ CallInv(c) /\ Held(c) /\ call[c] \in CallRecords
      /\ call[c].pc = "read" /\ call[c].pc \in Handled
      /\ process[c] \in ProcessRecords /\ call[c].read < process[c].said
      /\ format = "stream-json"
  BY DEF WriterInv, RunnerInv, ReadEnvelope, Held, Handled, Pcs, TypeOK
<1>2. /\ UNCHANGED <<format, active, process, made, overheard, recorded, evidence>>
      /\ faults' \in 0..MaxFaults
      /\ known' \subseteq Conversations
  <2>1. process[c].conv \in Conversations
    BY <1>1 DEF CallInv, Stream, ProcessRecords, CallRecords
  <2>2. known' \in {known, known \cup {process[c].conv}}
    BY DEF ReadEnvelope
  <2>3. faults' \in 0..MaxFaults
    BY <1>1, FaultCounts DEF ReadEnvelope, TypeOK
  <2>4. UNCHANGED <<format, active, process, made, overheard, recorded, evidence>>
    BY DEF ReadEnvelope
  <2>5. known \subseteq Conversations
    BY <1>1 DEF TypeOK
  <2> QED
    BY <2>1, <2>2, <2>3, <2>4, <2>5
<1>3. /\ k \in CallRecords /\ k.pc = "read" /\ k.kind = call[c].kind /\ k.id = call[c].id
      /\ k.conv = process[c].conv /\ k.read = call[c].read + 1 /\ k.status = said
      /\ k.cancelled = call[c].cancelled /\ k.timedout = call[c].timedout
  <2>1. call[c].read + 1 \in 0..2
    BY <1>1 DEF CallRecords, ProcessRecords
  <2>2. said \in {"SUCCESS", "ERROR", Unset}
    BY <1>1 DEF CallRecords, ProcessRecords
  <2>3. process[c].conv \in Conversations \cup {0}
    BY <1>1 DEF ProcessRecords
  <2> HIDE DEF said
  <2> QED
    BY <1>1, <2>1, <2>2, <2>3 DEF CallRecords
<1>4. known' \subseteq known \cup ({process[c].conv} \ {0})
  <2>1. process[c].conv # 0
    BY <1>1 DEF CallInv, Stream, ProcessRecords, CallRecords
  <2> QED
    BY <2>1 DEF ReadEnvelope
<1>5. CASE Raise(c)
  <2> DEFINE r == Raised(c, "read")
  <2>1. RaisedAs(c, r, "read")
    BY <1>1, RaisedIs
  <2>2. call' = [call EXCEPT ![c] = r]
    BY <1>1, <1>5 DEF Raise
  <2> HIDE DEF r
  <2>3. TypeOK'
    BY <1>1, <1>2, <2>1, <2>2 DEF TypeOK, RaisedAs
  <2>4. Quiet(c)
    <3>1. Alone(c)
      BY <1>1, <1>2, <2>2 DEF Alone, TypeOK
    <3>2. call'[c] = r /\ process'[c] = process[c]
      BY <1>1, <1>2, <2>2 DEF TypeOK
    <3> QED
      BY <1>1, <1>2, <1>4, <2>1, <3>1, <3>2 DEF Quiet, RaisedAs, Held
  <2>5. call'[c] = r /\ process'[c] = process[c] /\ evidence'[c] = evidence[c]
    BY <1>1, <1>2, <2>2 DEF TypeOK
  <2>6. CallInv(c)'
    BY <1>1, <1>2, <2>1, <2>5 DEF RaisedAs, Handler, CallInv, Request, Stream, Reading,
       Recorded, Complete, Held, Alive, Streaming
  <2> QED
    BY <2>3, <2>4, <2>6, QuietKeeps
<1>6. CASE call' = [call EXCEPT ![c] = k] /\ ~k.cancelled
  <2> HIDE DEF k
  <2>1. TypeOK'
    BY <1>1, <1>2, <1>3, <1>6 DEF TypeOK
  <2>2. Quiet(c)
    <3>1. Alone(c)
      BY <1>1, <1>2, <1>6 DEF Alone, TypeOK
    <3>2. call'[c] = k /\ process'[c] = process[c]
      BY <1>1, <1>2, <1>6 DEF TypeOK
    <3> QED
      BY <1>1, <1>2, <1>3, <1>4, <3>1, <3>2 DEF Quiet, Held
  <2>3. call'[c] = k /\ process'[c] = process[c] /\ evidence'[c] = evidence[c]
    BY <1>1, <1>2, <1>6 DEF TypeOK
  <2>4. CallInv(c)'
    BY <1>1, <1>2, <1>3, <2>3 DEF CallInv, Request, Stream, Reading, Recorded, Complete, Held,
       Alive, Streaming, ProcessRecords, CallRecords
  <2> QED
    BY <2>1, <2>2, <2>4, QuietKeeps
<1>7. Raise(c) \/ Continue(c, k)
  BY DEF ReadEnvelope
<1> HIDE DEF k
<1> QED
  BY <1>5, <1>6, <1>7, ContinueCases

\* The verdict is in the record before the process and its output are gone.
LEMMA ReadTailKeeps ==
  ASSUME WriterInv, NEW c \in Calls, ReadTail(c)
  PROVE  WriterInv'
<1> DEFINE document == format = "json" /\ ~call[c].timedout /\ process[c].said = 2
           status == IF document THEN process[c].status ELSE call[c].status
           conv == IF document THEN process[c].conv ELSE call[c].conv
           verdict == Classify(c, status)
           k == [call[c] EXCEPT !.pc = "meta", !.timedout = FALSE, !.read = 0,
                   !.status = Unset, !.conv = conv, !.verdict = verdict]
<1>1. /\ TypeOK /\ CallInv(c) /\ Held(c) /\ call[c] \in CallRecords
      /\ call[c].pc = "tail" /\ call[c].pc \in Handled
      /\ process[c] \in ProcessRecords
  BY DEF WriterInv, RunnerInv, ReadTail, Held, Handled, Pcs, TypeOK
<1>2. /\ UNCHANGED <<format, active, made, known, overheard, recorded, evidence>>
      /\ faults' \in 0..MaxFaults
      /\ process' = [process EXCEPT ![c] = NoProcess]
  BY <1>1, FaultCounts DEF ReadTail, TypeOK
<1>3. CASE Raise(c)
  BY <1>1, <1>2, <1>3, RaiseKeeps
<1>4. conv \in {call[c].conv, process[c].conv} /\ conv \in Conversations \cup {0}
  BY <1>1 DEF CallRecords, ProcessRecords
<1>5. verdict \in Verdicts
  <2>1. /\ status \in {"SUCCESS", "ERROR", Unset} /\ process[c].end \in Ends \cup {Unset}
        /\ Ends \subseteq {"clean", "denied", "failed", "truncated", "held"}
    BY <1>1, RunnerAssumption DEF CallRecords, ProcessRecords
  <2> HIDE DEF status
  <2> QED
    BY <2>1 DEF Classify, Verdicts
<1> HIDE DEF conv, verdict
<1>6. /\ k \in CallRecords /\ k.pc = "meta" /\ k.kind = call[c].kind /\ k.id = call[c].id
      /\ k.conv = conv /\ k.read = 0 /\ k.cancelled = call[c].cancelled
  <2>1. /\ "meta" \in Pcs /\ 0 \in 0..2 /\ verdict \in Verdicts \cup {Unset}
        /\ Unset \in {"SUCCESS", "ERROR", Unset}
    BY <1>5 DEF Pcs
  <2> QED
    BY <1>1, <1>4, <2>1 DEF CallRecords
<1>7. CASE call' = [call EXCEPT ![c] = k]
  <2> HIDE DEF k
  <2>1. NoProcess \in ProcessRecords /\ NoProcess.conv = 0
    BY DEF NoProcess, ProcessRecords
  <2>2. Streams(c, NoProcess)
    BY <1>1, <1>2, <1>4, <1>6, <1>7, <2>1 DEF Streams, TypeOK
  <2>3. call'[c] = k /\ process'[c] = NoProcess /\ evidence'[c] = evidence[c]
    BY <1>1, <1>2, <1>7 DEF TypeOK
  <2>4. CallInv(c)'
    BY <1>1, <1>2, <1>6, <2>3 DEF CallInv, Request, Stream, Reading, Recorded, Complete, Held,
       Alive, Streaming, NoProcess
  <2> QED
    BY <1>1, <2>2, <2>4, StreamKeeps
<1>8. Raise(c) \/ Continue(c, k)
  BY DEF ReadTail, conv, verdict
<1> HIDE DEF k
<1> QED
  BY <1>3, <1>7, <1>8, ContinueCases

-----------------------------------------------------------------------------
(* The CLI.                                                                *)

\* A process that goes on by itself, on the conversation it has.
Runs(c, p) ==
  /\ p \in ProcessRecords /\ process' = [process EXCEPT ![c] = p]
  /\ p.state # "none" /\ p.conv = process[c].conv
  /\ UNCHANGED <<format, active, call, made, known, overheard,
                 recorded, evidence, faults>>

LEMMA RunKeeps ==
  ASSUME WriterInv, NEW c \in Calls, NEW p, Runs(c, p), CallInv(c)'
  PROVE  WriterInv'
<1>1. TypeOK
  BY DEF WriterInv, RunnerInv
<1>2. TypeOK'
  BY <1>1 DEF Runs, TypeOK
<1>3. Quiet(c)
  BY <1>1 DEF Runs, Quiet, Alone, Held, TypeOK
<1> QED
  BY <1>2, <1>3, QuietKeeps

LEMMA CliReportsKeeps ==
  ASSUME WriterInv, NEW c \in Calls, NEW status \in Reports, CliReports(c, status)
  PROVE  WriterInv'
<1> DEFINE p == [process[c] EXCEPT !.said = 2, !.status = status]
<1>1. /\ TypeOK /\ CallInv(c) /\ process[c] \in ProcessRecords
      /\ Alive(c) /\ process[c].said = 1 /\ status \in {"SUCCESS", "ERROR"}
  BY RunnerAssumption DEF WriterInv, RunnerInv, TypeOK, CliReports
<1>2. /\ p \in ProcessRecords /\ p.state = "alive" /\ p.conv = process[c].conv
      /\ p.said = 2 /\ p.status = status
  <2>1. 2 \in 0..2 /\ status \in {"SUCCESS", "ERROR", Unset}
    BY <1>1
  <2> QED
    BY <1>1, <2>1 DEF ProcessRecords, Alive
<1>3. process' = [process EXCEPT ![c] = p]
  BY DEF CliReports
<1> HIDE DEF p
<1>4. Runs(c, p)
  BY <1>2, <1>3 DEF Runs, CliReports
<1>5. process'[c] = p /\ call' = call /\ evidence' = evidence /\ format' = format
  BY <1>1, <1>3 DEF TypeOK, CliReports
<1>6. call[c].read \in 0..2
  BY <1>1 DEF TypeOK, CallRecords
<1>7. CallInv(c)'
  BY <1>1, <1>2, <1>5, <1>6 DEF CallInv, Request, Stream, Reading, Recorded, Complete, Held,
     Alive, Streaming, NoProcess
<1> QED
  BY <1>4, <1>7, RunKeeps

LEMMA CliExitsKeeps ==
  ASSUME WriterInv, NEW c \in Calls, NEW end \in Ends, CliExits(c, end)
  PROVE  WriterInv'
<1> DEFINE p == [process[c] EXCEPT !.state = "exited", !.end = end]
<1>1. TypeOK /\ CallInv(c) /\ process[c] \in ProcessRecords /\ Alive(c)
  BY DEF WriterInv, RunnerInv, TypeOK, CliExits
<1>2. /\ p \in ProcessRecords /\ p.state = "exited" /\ p.conv = process[c].conv
      /\ p.said = process[c].said /\ p.status = process[c].status
  BY <1>1 DEF ProcessRecords
<1>3. process' = [process EXCEPT ![c] = p]
  BY DEF CliExits
<1> HIDE DEF p
<1>4. Runs(c, p)
  BY <1>2, <1>3 DEF Runs, CliExits
<1>5. process'[c] = p /\ call' = call /\ evidence' = evidence /\ format' = format
  BY <1>1, <1>3 DEF TypeOK, CliExits
<1>6. CallInv(c)'
  BY <1>1, <1>2, <1>5 DEF CallInv, Request, Stream, Reading, Recorded, Complete, Held,
     Alive, Streaming, NoProcess
<1> QED
  BY <1>4, <1>6, RunKeeps

\* What a call may open: its own conversation, a new one, or any if it is alone.
LEMMA OpenedAlone ==
  ASSUME WriterInv, NEW c \in Calls, NEW conv \in Conversations \ overheard,
         CliOpens(c, conv)
  PROVE  /\ \A d \in Calls \ {c} : ~Touches(d, conv)
         /\ call[c].kind # "latest" /\ conv # call[c].id =>
              \A d \in Calls \ {c} : call[d].id # conv
<1>1. /\ TypeOK /\ Claims /\ Conversing /\ Held(c) /\ made \in Nat /\ conv >= 1
      /\ \A d \in Calls : CallInv(d)
      /\ call[c].kind \in {"new", "latest", "explicit"}
  BY RunnerAssumption DEF WriterInv, RunnerInv, CliOpens, Alive, CallInv, Request, Stream,
     Streaming, NoProcess, Held, TypeOK, Conversations
<1>2. ASSUME NEW d \in Calls, NEW v \in Conversations, Touches(d, v)
      PROVE  Held(d)
  BY <1>1, <1>2 DEF Touches, CallInv, Request, Stream, Streaming, NoProcess, Held,
     Conversations
<1>3. CASE conv = made + 1
  BY <1>1, <1>3 DEF Conversing, Touches, TypeOK, CallRecords, ProcessRecords, Conversations
<1>4. CASE call[c].kind = "latest"
  BY <1>1, <1>2, <1>4 DEF Claims
<1>5. CASE call[c].kind = "explicit" /\ conv = call[c].id
  <2>1. ASSUME NEW d \in Calls \ {c}, Touches(d, conv)
        PROVE  FALSE
    <3>1. Held(d) /\ Claim(d) # Claim(c) /\ call[d].kind # "latest"
      BY <1>1, <1>2, <2>1 DEF Claims
    <3>2. call[d].id = conv
      BY <1>1, <1>5, <2>1, <3>1 DEF Conversing
    <3>3. call[d].kind = "explicit"
      BY <1>1, <3>1, <3>2 DEF CallInv, Request, Held
    <3> QED
      BY <1>5, <3>1, <3>2, <3>3 DEF Claim
  <2> QED
    BY <1>5, <2>1
<1> QED
  BY <1>1, <1>3, <1>4, <1>5 DEF CliOpens

LEMMA CliOpensKeeps ==
  ASSUME WriterInv, NEW c \in Calls, NEW conv \in Conversations, CliOpens(c, conv)
  PROVE  WriterInv'
<1> DEFINE p == [process[c] EXCEPT !.conv = conv, !.said = 1]
<1>1. /\ TypeOK /\ CallInv(c) /\ process[c] \in ProcessRecords
      /\ Alive(c) /\ process[c].conv = 0
  BY DEF WriterInv, RunnerInv, TypeOK, CliOpens
<1>2. /\ p \in ProcessRecords /\ p.state = "alive" /\ p.conv = conv /\ p.said = 1
      /\ p.status = process[c].status
  <2>1. 1 \in 0..2 /\ conv \in Conversations \cup {0}
    OBVIOUS
  <2> QED
    BY <1>1, <2>1 DEF ProcessRecords, Alive
<1>3. process' = [process EXCEPT ![c] = p]
  BY DEF CliOpens
<1> HIDE DEF p
<1>4. UNCHANGED <<format, active, call, known, overheard, recorded, evidence, faults>>
  BY DEF CliOpens
<1>5. made' \in 0..MaxConversations /\ made' >= made /\ made' >= conv
  BY <1>1, RunnerAssumption DEF CliOpens, TypeOK, Conversations
<1>6. TypeOK'
  BY <1>1, <1>2, <1>3, <1>4, <1>5 DEF TypeOK
<1>7. process'[c] = p /\ \A d \in Calls \ {c} : process'[d] = process[d]
  BY <1>1, <1>3 DEF TypeOK
<1>8. CallInv(c)'
  <2>1. conv # 0 /\ call[c].read \in 0..2
    BY <1>1 DEF Conversations, TypeOK, CallRecords
  <2> QED
    BY <1>1, <1>2, <1>4, <1>7, <2>1 DEF CallInv, Request, Stream, Reading, Recorded, Complete,
       Held, Alive, Streaming, NoProcess
<1>9. \A d \in Calls : CallInv(d)'
  <2>1. Alone(c)
    BY <1>4, <1>7 DEF Alone
  <2> QED
    BY <1>8, <2>1, OthersKeep DEF WriterInv, RunnerInv
<1>10. Claims'
  <2>1. ASSUME NEW d \in Calls
        PROVE  /\ Claim(d)' = Claim(d) /\ call'[d].kind = call[d].kind
               /\ Held(d)' <=> Held(d)
    BY <1>4 DEF Claim, Held
  <2>2. Claims /\ active' = active
    BY <1>4 DEF WriterInv, RunnerInv
  <2> QED
    BY <2>1, <2>2 DEF Claims
<1>11. Conversing'
  <2>1. Conversing
    BY DEF WriterInv
  <2>2. ASSUME NEW d \in Calls, NEW v \in Conversations
        PROVE  Touches(d, v)' <=> Touches(d, v) \/ (d = c /\ v = conv)
    BY <1>1, <1>2, <1>4, <1>7 DEF Touches, Conversations
  <2>3. known' \subseteq 1..made'
    BY <1>1, <1>4, <1>5, <2>1 DEF Conversing, TypeOK
  <2>4. \A d \in Calls :
          call'[d].id <= made' /\ call'[d].conv <= made' /\ process'[d].conv <= made'
    BY <1>1, <1>2, <1>4, <1>5, <1>7, <2>1 DEF Conversing, TypeOK, CallRecords, ProcessRecords,
       Conversations
  <2>5. ASSUME NEW d \in Calls, NEW v \in Conversations \ overheard', Touches(d, v)'
        PROVE  /\ \A e \in Calls \ {d} : ~Touches(e, v)'
               /\ call'[d].kind # "latest" /\ v # call'[d].id =>
                    \A e \in Calls \ {d} : call'[e].id # v
    <3>1. CASE d = c /\ v = conv
      BY <1>4, <2>1, <2>2, <3>1, OpenedAlone
    <3>2. CASE Touches(d, v)
      BY <1>4, <2>1, <2>2, <3>2, OpenedAlone DEF Conversing
    <3> QED
      BY <2>2, <2>5, <3>1, <3>2
  <2> QED
    BY <2>3, <2>4, <2>5 DEF Conversing
<1> QED
  BY <1>4, <1>6, <1>9, <1>10, <1>11 DEF WriterInv, RunnerInv

-----------------------------------------------------------------------------
(* The first and the last step of a call, and its claim.                   *)

LEMMA BeginKeeps ==
  ASSUME WriterInv, NEW c \in Calls, NEW kind \in {"new", "latest", "explicit"},
         NEW id \in Conversations \cup {0}, Begin(c, kind, id)
  PROVE  WriterInv'
<1> DEFINE k == [NoCall EXCEPT !.pc = "binary", !.kind = kind, !.id = id]
<1>1. /\ TypeOK /\ CallInv(c) /\ call[c].pc = "idle" /\ ~Held(c)
      /\ id \in known \cup {0} /\ (kind = "explicit" <=> id # 0)
  BY DEF WriterInv, RunnerInv, Begin, Held, TypeOK, Conversations
<1>2. /\ k \in CallRecords /\ k.pc = "binary" /\ k.kind = kind /\ k.id = id
      /\ k.conv = 0 /\ k.read = 0
  <2>1. "binary" \in Pcs /\ 0 \in 0..2
    BY DEF Pcs
  <2> QED
    BY <2>1 DEF NoCall, CallRecords
<1>3. call' = [call EXCEPT ![c] = k]
  BY DEF Begin
<1> HIDE DEF k
<1>4. /\ UNCHANGED <<format, active, process, made, known, recorded, evidence, faults>>
      /\ overheard' = IF kind = "explicit" /\ BeingMade(id) THEN overheard \cup {id}
                      ELSE overheard
  BY DEF Begin
<1>5. TypeOK'
  BY <1>1, <1>2, <1>3, <1>4 DEF TypeOK
<1>6. call'[c] = k /\ Alone(c)
  BY <1>1, <1>3, <1>4 DEF Alone, TypeOK
<1>7. CallInv(c)'
  BY <1>1, <1>2, <1>4, <1>6 DEF CallInv, Request, Stream, Reading, Recorded, Held, Streaming
<1>8. Claims'
  <2>1. ASSUME NEW d \in Calls, Held(d)'
        PROVE  Held(d) /\ Claim(d)' = Claim(d) /\ call'[d] = call[d]
    BY <1>2, <1>6, <2>1 DEF Held, Alone, Claim
  <2> QED
    BY <1>4, <2>1 DEF WriterInv, RunnerInv, Claims
<1>9. Conversing'
  <2>1. Conversing
    BY DEF WriterInv
  <2>2. ASSUME NEW d \in Calls, NEW v \in Conversations, Touches(d, v)'
        PROVE  Touches(d, v) /\ d # c
    BY <1>1, <1>2, <1>4, <1>6, <2>2 DEF Touches, CallInv, Stream, Streaming, NoProcess, Alone,
       Conversations
  <2>3. ASSUME NEW d \in Calls
        PROVE  call'[d] = call[d] \/ (d = c /\ call'[d] = k)
    BY <1>6 DEF Alone
  <2>4. id <= made /\ 0 <= made
    <3>1. made \in 0..MaxConversations /\ MaxConversations \in Nat
      BY <1>1, RunnerAssumption DEF TypeOK
    <3>2. id \in (1..made) \cup {0}
      BY <1>1, <2>1 DEF Conversing
    <3> QED
      BY <3>1, <3>2
  <2>5. \A d \in Calls : call'[d].id <= made /\ call'[d].conv <= made
    BY <1>2, <2>1, <2>3, <2>4 DEF Conversing
  <2>6. ASSUME NEW d \in Calls, NEW v \in Conversations \ overheard', Touches(d, v)'
        PROVE  /\ \A e \in Calls \ {d} : ~Touches(e, v)'
               /\ call'[d].kind # "latest" /\ v # call'[d].id =>
                    \A e \in Calls \ {d} : call'[e].id # v
    <3>1. /\ Touches(d, v) /\ d # c /\ call'[d] = call[d] /\ v # 0
          /\ v \notin overheard
      BY <1>4, <2>2, <2>6, <1>6 DEF Conversations, Alone
    <3>2. ASSUME call[d].kind # "latest", v # call[d].id
          PROVE  id # v
      <4>1. BeingMade(v)
        BY <3>1, <3>2 DEF BeingMade, Touches
      <4>2. id = v => v \in overheard'
        BY <1>1, <1>4, <3>1, <4>1
      <4> QED
        BY <2>6, <4>2
    <3>3. ASSUME NEW e \in Calls \ {d}
          PROVE  ~Touches(e, v)'
      BY <2>1, <2>2, <3>1, <3>3 DEF Conversing
    <3>4. ASSUME call[d].kind # "latest", v # call[d].id, NEW e \in Calls \ {d}
          PROVE  call'[e].id # v
      BY <1>2, <2>1, <2>3, <3>1, <3>2, <3>4 DEF Conversing
    <3> QED
      BY <3>1, <3>3, <3>4
  <2> QED
    BY <1>4, <2>1, <2>5, <2>6 DEF Conversing
<1> QED
  BY <1>4, <1>5, <1>6, <1>7, <1>8, <1>9, OthersKeep DEF WriterInv, RunnerInv

LEMMA AcquireKeeps ==
  ASSUME WriterInv, NEW c \in Calls, Acquire(c)
  PROVE  WriterInv'
<1>1. /\ TypeOK /\ CallInv(c) /\ call[c].pc = "binary" /\ call[c].pc \in Handled
      /\ ~call[c].cancelled /\ call[c].kind \in {"new", "latest", "explicit"}
  BY DEF WriterInv, RunnerInv, Acquire, Handled, Pcs, CallInv, Request
<1>2. UNCHANGED <<format, process, made, known, overheard,
                  recorded, evidence>> /\ faults' \in 0..MaxFaults
  BY <1>1, FaultCounts DEF Acquire, TypeOK
<1>3. CASE Raise(c) /\ UNCHANGED active
  BY <1>1, <1>2, <1>3, RaiseKeeps
<1>4. CASE /\ ~Conflict(Claim(c)) /\ GoOn(c, "materialize")
           /\ active' = active \cup {Claim(c)}
  <2>1. MovesTo(c, "materialize")
    BY <1>1, <1>4, GoOnCases DEF Pcs
  <2>2. At(c, call'[c], "materialize") /\ Alone(c)
    BY <1>2, <2>1 DEF MovesTo, Alone
  <2>3. call[c].kind = "explicit" => call[c].id \in Conversations
    BY <1>1 DEF CallInv, Request, TypeOK, CallRecords
  <2>4. Claim(c) \in ({"new"} \X Calls) \cup ({"conversation"} \X Conversations) \cup {Latest}
    BY <1>1, <2>3 DEF Claim
  <2>5. TypeOK'
    BY <1>1, <1>2, <1>4, <2>1, <2>4 DEF TypeOK, MovesTo
  <2>6. CallInv(c)'
    BY <1>1, <1>2, <2>2 DEF At, Alone, CallInv, Request, Stream, Reading, Recorded, Held,
       Streaming
  <2>7. ASSUME NEW d \in Calls
        PROVE  /\ Claim(d)' = Claim(d) /\ call'[d].kind = call[d].kind
               /\ call'[d].id = call[d].id /\ call'[d].conv = call[d].conv
               /\ Held(d)' <=> Held(d) \/ d = c
    BY <1>1, <2>2 DEF At, Alone, Claim, Held
  <2>8. Claims'
    <3>1. Claims
      BY DEF WriterInv, RunnerInv
    <3>2. ASSUME NEW d \in Calls \ {c}, Held(d)
          PROVE  /\ Claim(d) # Claim(c) /\ call[d].kind # "latest"
                 /\ call[c].kind # "latest"
      <4>1. Claim(d) \in active
        BY <3>1, <3>2 DEF Claims
      <4>2. Claim(c) # Latest /\ Claim(c) \notin active /\ Latest \notin active
        BY <1>4, <4>1 DEF Conflict
      <4> QED
        BY <4>1, <4>2 DEF Claim
    <3> QED
      BY <1>4, <2>7, <3>1, <3>2 DEF Claims
  <2>9. Conversing'
    BY <1>2, <2>7 DEF WriterInv, Conversing, Touches
  <2> QED
    BY <1>2, <2>2, <2>5, <2>6, <2>8, <2>9, OthersKeep DEF WriterInv, RunnerInv
<1> QED
  BY <1>3, <1>4 DEF Acquire

LEMMA ReleaseKeeps ==
  ASSUME WriterInv, NEW c \in Calls, Release(c)
  PROVE  WriterInv'
<1> DEFINE k == [NoCall EXCEPT !.pc = "over"]
<1>1. /\ TypeOK /\ CallInv(c) /\ Claims /\ Conversing
      /\ Held(c) /\ call[c].pc = "release"
  BY DEF WriterInv, RunnerInv, Release, Held
<1>2. /\ k \in CallRecords /\ k.pc = "over" /\ k.conv = 0 /\ k.id = 0 /\ k.read = 0
      /\ k.kind = Unset
  <2>1. "over" \in Pcs /\ 0 \in 0..2
    BY DEF Pcs
  <2> QED
    BY <2>1 DEF NoCall, CallRecords
<1>3. call' = [call EXCEPT ![c] = k] /\ evidence' = [evidence EXCEPT ![c] = NoEvidence]
  BY DEF Release
<1> HIDE DEF k
<1>4. /\ UNCHANGED <<format, process, made, overheard, recorded, faults>>
      /\ active' = active \ {Claim(c)}
      /\ known' \subseteq known \cup ({call[c].conv} \ {0})
  BY DEF Release
<1>5. TypeOK'
  <2>1. NoEvidence \in EvidenceRecords
    BY DEF NoEvidence, EvidenceRecords
  <2>2. call[c].conv \in Conversations \cup {0}
    BY <1>1 DEF TypeOK, CallRecords
  <2> QED
    BY <1>1, <1>2, <1>3, <1>4, <2>1, <2>2 DEF TypeOK
<1>6. call'[c] = k /\ process'[c] = process[c] /\ evidence'[c] = NoEvidence /\ Alone(c)
  BY <1>1, <1>3, <1>4 DEF Alone, TypeOK
<1>7. CallInv(c)'
  BY <1>1, <1>2, <1>4, <1>6 DEF CallInv, Request, Stream, Reading, Recorded, Held, Streaming
<1>8. Claims'
  <2>1. ASSUME NEW d \in Calls, Held(d)'
        PROVE  Held(d) /\ Claim(d)' = Claim(d) /\ call'[d] = call[d] /\ d # c
    BY <1>2, <1>6, <2>1 DEF Held, Alone, Claim
  <2> QED
    BY <1>1, <1>4, <2>1 DEF Claims
<1>9. Conversing'
  <2>1. made \in 0..MaxConversations /\ MaxConversations \in Nat
    BY <1>1, RunnerAssumption DEF TypeOK
  <2>2. known' \subseteq 1..made
    <3>1. call[c].conv \in Nat /\ call[c].conv <= made
      BY <1>1 DEF TypeOK, CallRecords, Conversing, Conversations
    <3> QED
      BY <1>1, <1>4, <2>1, <3>1 DEF Conversing
  <2>3. ASSUME NEW d \in Calls, NEW v \in Conversations, Touches(d, v)'
        PROVE  Touches(d, v) /\ call'[d] = call[d] /\ d # c /\ v # 0
    BY <1>1, <1>2, <1>6, <2>3 DEF Touches, CallInv, Stream, Streaming, NoProcess, Alone,
       Conversations
  <2>4. ASSUME NEW d \in Calls
        PROVE  /\ call'[d].id \in {0, call[d].id} /\ call'[d].conv \in {0, call[d].conv}
               /\ process'[d].conv = process[d].conv
    BY <1>2, <1>6 DEF Alone
  <2>5. \A d \in Calls :
          call'[d].id <= made /\ call'[d].conv <= made /\ process'[d].conv <= made
    BY <1>1, <2>1, <2>4 DEF Conversing
  <2>6. ASSUME NEW d \in Calls, NEW v \in Conversations \ overheard', Touches(d, v)'
        PROVE  /\ \A e \in Calls \ {d} : ~Touches(e, v)'
               /\ call'[d].kind # "latest" /\ v # call'[d].id =>
                    \A e \in Calls \ {d} : call'[e].id # v
    <3>1. /\ Touches(d, v) /\ call'[d] = call[d] /\ d # c /\ v # 0
          /\ v \notin overheard
      BY <1>4, <2>3, <2>6
    <3>2. /\ \A e \in Calls \ {d} : ~Touches(e, v)
          /\ call[d].kind # "latest" /\ v # call[d].id =>
               \A e \in Calls \ {d} : call[e].id # v
      BY <1>1, <3>1 DEF Conversing
    <3> QED
      BY <2>3, <2>4, <3>1, <3>2
  <2> QED
    BY <1>4, <2>2, <2>5, <2>6 DEF Conversing
<1> QED
  BY <1>4, <1>5, <1>7, <1>8, <1>9, <1>6, OthersKeep DEF WriterInv, RunnerInv

-----------------------------------------------------------------------------
(* The invariant.                                                          *)

LEMMA InitKeeps ==
  ASSUME RunnerInit
  PROVE  WriterInv
<1>1. MaxConversations \in Nat /\ OldConversations \in Nat /\ MaxFaults \in Nat
      /\ OldConversations <= MaxConversations
  BY RunnerAssumption
<1>2. /\ NoCall \in CallRecords /\ NoProcess \in ProcessRecords
      /\ NoEvidence \in EvidenceRecords
  <2>1. "idle" \in Pcs /\ 0 \in 0..2
    BY DEF Pcs
  <2> QED
    BY <2>1 DEF NoCall, NoProcess, NoEvidence, CallRecords, ProcessRecords, EvidenceRecords
<1>3. TypeOK
  BY <1>1, <1>2, RunnerAssumption DEF RunnerInit, TypeOK, Conversations
<1>4. ASSUME NEW c \in Calls
      PROVE  CallInv(c) /\ ~Held(c)
  BY RunnerAssumption DEF RunnerInit, CallInv, Request, Stream, Reading, Recorded, Held, Streaming,
     NoCall, NoProcess
<1>5. Conversing
  <2>1. \A c \in Calls : call[c] = NoCall /\ process[c] = NoProcess
    BY DEF RunnerInit
  <2>2. \A c \in Calls, v \in Conversations : ~Touches(c, v)
    BY <2>1 DEF Touches, NoCall, NoProcess, Conversations
  <2> QED
    BY <1>1, <2>1, <2>2 DEF RunnerInit, Conversing, NoCall, NoProcess
<1> QED
  BY <1>3, <1>4, <1>5 DEF WriterInv, RunnerInv, Claims

LEMMA NextKeeps ==
  ASSUME WriterInv, [RunnerNext]_runnerVars
  PROVE  WriterInv'
<1>1. CASE UNCHANGED runnerVars
  BY <1>1 DEF runnerVars, WriterInv, RunnerInv, TypeOK, CallInv, Request, Stream, Reading, Recorded,
     Complete, Held, Alive, Claims, Claim, Conversing, Touches
<1>2. ASSUME NEW c \in Calls, NEW kind \in {"new", "latest", "explicit"},
             NEW id \in Conversations \cup {0}, Begin(c, kind, id)
      PROVE  WriterInv'
  BY <1>2, BeginKeeps
<1>3. ASSUME NEW c \in Calls, Runner(c)
      PROVE  WriterInv'
  BY <1>3, InterruptKeeps, AcquireKeeps, PassingKeeps, OpenEvidenceKeeps, SaveMetadataKeeps,
     EmitStartedKeeps, SpawnKeeps, ReadKeeps, WatchdogKeeps, ReapKeeps, ReadTailKeeps,
     SaveMetaKeeps, SaveResultKeeps, EmitFinishedKeeps, CloseEvidenceKeeps, ReleaseKeeps
     DEF Runner
<1>4. ASSUME NEW c \in Calls, Cli(c)
      PROVE  WriterInv'
  BY <1>4, CliOpensKeeps, CliReportsKeeps, CliExitsKeeps DEF Cli
<1> QED
  BY <1>1, <1>2, <1>3, <1>4, CancelKeeps DEF RunnerNext

\* The invariant holds in every state of every behaviour of the runner, with any
\* number of calls: what a call of AntigravityRunner.run may hold at each await,
\* and what calls of one HOME may have in common.
THEOREM RunnerInvariant == RunnerSpec => []WriterInv
BY InitKeeps, NextKeeps, PTL DEF RunnerSpec

\* Every call, process and session of the runner is of its type.
THEOREM RunnerTypes == RunnerSpec => []TypeOK
<1>1. WriterInv => TypeOK
  BY DEF WriterInv, RunnerInv
<1> QED
  BY <1>1, RunnerInvariant, PTL

-----------------------------------------------------------------------------
(* What follows from it.                                                   *)

\* ConversationRegistry keeps two processes off one conversation, and run() does
\* not return before its process is gone, however callers come by the ids they
\* name; the one exception is a conversation asked for by the id that an event
\* has shown while the run that made it goes on.
THEOREM OneWriterHolds == RunnerSpec => []OneWriter
<1>1. ASSUME WriterInv
      PROVE  OneWriter
  <2>1. ASSUME NEW c \in Calls, Alive(c)
        PROVE  Held(c) /\ process[c].conv \in Conversations \cup {0}
    <3>1. CallInv(c) /\ TypeOK
      BY <1>1 DEF WriterInv, RunnerInv
    <3> QED
      BY <2>1, <3>1 DEF CallInv, Stream, Streaming, NoProcess, Alive, Held, TypeOK,
         ProcessRecords
  <2>2. Claims /\ Conversing
    BY <1>1 DEF WriterInv, RunnerInv
  <2> QED
    BY <2>1, <2>2 DEF OneWriter, Claims, Conversing, Touches, Held
<1> QED
  BY <1>1, RunnerInvariant, PTL

\* When a call gives its claim back, SessionEvidence is closed and its files
\* agree on how the run ended, whatever was cancelled, cut off or failed.
THEOREM EvidenceSettledHolds == RunnerSpec => []EvidenceSettled
<1>1. ASSUME WriterInv
      PROVE  EvidenceSettled
  <2>1. \A c \in Calls : Recorded(c)
    BY <1>1 DEF WriterInv, RunnerInv, CallInv
  <2> QED
    BY <2>1 DEF EvidenceSettled, Recorded, Complete
<1> QED
  BY <1>1, RunnerInvariant, PTL

-----------------------------------------------------------------------------
(* Verdicts.                                                               *)

\* Call c keeps its verdict, loses it, or has failed.
Calmly(c) == call'[c].verdict \in {call[c].verdict, "failed", Unset}

LEMMA OneRecord ==
  ASSUME TypeOK, NEW d \in Calls, NEW k, call' = [call EXCEPT ![d] = k],
         k.verdict \in {call[d].verdict, "failed", Unset}, NEW c \in Calls
  PROVE  Calmly(c)
BY DEF TypeOK, Calmly

LEMMA CalmRaise ==
  ASSUME TypeOK, NEW d \in Calls, Raise(d), NEW c \in Calls
  PROVE  Calmly(c)
<1> DEFINE k == Raised(d, call[d].pc)
<1>1. call[d] \in CallRecords
  BY DEF TypeOK
<1>2. k.verdict \in {call[d].verdict, "failed"}
  BY <1>1 DEF Raised, CallRecords
<1>3. call' = [call EXCEPT ![d] = k]
  BY DEF Raise
<1> HIDE DEF k
<1> QED
  BY <1>2, <1>3, OneRecord

LEMMA CalmContinue ==
  ASSUME TypeOK, NEW d \in Calls, NEW k, Continue(d, k), k.verdict = call[d].verdict,
         NEW c \in Calls
  PROVE  Calmly(c)
<1>1. CASE Raise(d)
  BY <1>1, CalmRaise
<1>2. CASE call' = [call EXCEPT ![d] = k]
  BY <1>2, OneRecord
<1> QED
  BY <1>1, <1>2, ContinueCases

LEMMA CalmGoOn ==
  ASSUME TypeOK, NEW d \in Calls, NEW p, GoOn(d, p), NEW c \in Calls
  PROVE  Calmly(c)
<1> DEFINE k == [call[d] EXCEPT !.pc = p]
<1>1. k.verdict = call[d].verdict
  BY DEF TypeOK, CallRecords
<1>2. Continue(d, k)
  BY DEF GoOn
<1> HIDE DEF k
<1> QED
  BY <1>1, <1>2, CalmContinue

\* Nothing but the end of its own stream makes a call a success.
LEMMA CalmSteps ==
  ASSUME TypeOK, RunnerNext, NEW c \in Calls, ~ReadTail(c)
  PROVE  Calmly(c)
<1> USE RunnerAssumption
<1>1. ASSUME NEW d \in Calls, NEW kind \in {"new", "latest", "explicit"},
             NEW id \in Conversations \cup {0}, Begin(d, kind, id)
      PROVE  Calmly(c)
  <2> DEFINE k == [NoCall EXCEPT !.pc = "binary", !.kind = kind, !.id = id]
  <2>1. k.verdict = Unset
    BY DEF NoCall
  <2>2. call' = [call EXCEPT ![d] = k]
    BY <1>1 DEF Begin
  <2> HIDE DEF k
  <2> QED
    BY <2>1, <2>2, OneRecord
<1>2. ASSUME NEW d \in Calls, CancelCall(d)
      PROVE  Calmly(c)
  BY <1>2 DEF CancelCall, Calmly, TypeOK, CallRecords
<1>3. ASSUME NEW d \in Calls, Release(d)
      PROVE  Calmly(c)
  <2> DEFINE k == [NoCall EXCEPT !.pc = "over"]
  <2>1. k.verdict = Unset /\ call' = [call EXCEPT ![d] = k]
    BY <1>3 DEF Release, NoCall
  <2> HIDE DEF k
  <2> QED
    BY <2>1, OneRecord
<1>4. ASSUME NEW d \in Calls, ReadTail(d)
      PROVE  Calmly(c)
  BY <1>4 DEF ReadTail, Continue, Raise, Calmly, TypeOK
<1>5. ASSUME NEW d \in Calls, EvidenceBreaks(d) \/ SaveMeta(d) \/ SaveResult(d)
      PROVE  Calmly(c)
  BY <1>5 DEF EvidenceBreaks, SaveMeta, SaveResult, Calmly, TypeOK, CallRecords
<1>6. ASSUME NEW d \in Calls, EmitFinished(d)
      PROVE  Calmly(c)
  BY <1>5, <1>6, CalmGoOn DEF EmitFinished
<1>7. ASSUME NEW d \in Calls, Watchdog(d)
      PROVE  Calmly(c)
  <2> DEFINE k == [call[d] EXCEPT !.pc = "terminate", !.timedout = TRUE]
  <2>1. k.verdict = call[d].verdict
    BY DEF TypeOK, CallRecords
  <2>2. Continue(d, k)
    BY <1>7 DEF Watchdog
  <2> HIDE DEF k
  <2> QED
    BY <2>1, <2>2, CalmContinue
<1>8. ASSUME NEW d \in Calls, ReadEnvelope(d)
      PROVE  Calmly(c)
  <2> DEFINE status == IF call[d].read = 1 THEN process[d].status ELSE call[d].status
             k == [call[d] EXCEPT !.read = @ + 1, !.conv = process[d].conv, !.status = status]
  <2>1. k.verdict = call[d].verdict
    BY DEF TypeOK, CallRecords
  <2>2. Raise(d) \/ Continue(d, k)
    BY <1>8 DEF ReadEnvelope
  <2> HIDE DEF k
  <2> QED
    BY <2>1, <2>2, CalmContinue, CalmRaise
<1>9. ASSUME NEW d \in Calls,
             \/ Interrupt(d) \/ Acquire(d) \/ Materialize(d) \/ GuardRecordedPrompt(d)
             \/ OpenEvidence(d) \/ SaveMetadata(d) \/ EmitStarted(d) \/ Spawn(d)
             \/ ReadEof(d) \/ ReadEarlyEof(d) \/ AwaitExit(d) \/ Terminate(d) \/ Reap(d)
             \/ CollectStderr(d) \/ CloseEvidence(d)
      PROVE  Calmly(c)
  <2>1. Raise(d) \/ \E p : GoOn(d, p)
    BY <1>9 DEF Interrupt, Acquire, Materialize, GuardRecordedPrompt, OpenEvidence,
       SaveMetadata, EmitStarted, Spawn, ReadEof, ReadEarlyEof, AwaitExit, Terminate, Reap,
       CollectStderr, CloseEvidence
  <2> QED
    BY <2>1, CalmRaise, CalmGoOn
<1>10. ASSUME NEW d \in Calls, Cli(d)
       PROVE  Calmly(c)
  BY <1>10 DEF Cli, CliOpens, CliReports, CliExits, Calmly
<1> QED
  BY <1>1, <1>2, <1>3, <1>4, <1>5, <1>6, <1>7, <1>8, <1>9, <1>10 DEF RunnerNext, Runner

\* What classify_run has seen of a run that it calls a success.
LEMMA TailSuccess ==
  ASSUME WriterInv, NEW c \in Calls, ReadTail(c), call'[c].verdict = "success"
  PROVE  /\ process[c].state = "exited" /\ process[c].end \in {"clean", "held"}
         /\ process[c].said = 2 /\ format # "text" =>
              /\ process[c].status = "SUCCESS" /\ call'[c].conv = process[c].conv
              /\ format = "stream-json" => call[c].read = 2
<1> DEFINE document == format = "json" /\ ~call[c].timedout /\ process[c].said = 2
           status == IF document THEN process[c].status ELSE call[c].status
           conv == IF document THEN process[c].conv ELSE call[c].conv
           verdict == Classify(c, status)
           k == [call[c] EXCEPT !.pc = "meta", !.timedout = FALSE, !.read = 0,
                   !.status = Unset, !.conv = conv, !.verdict = verdict]
<1>1. /\ TypeOK /\ CallInv(c) /\ call[c] \in CallRecords /\ process[c] \in ProcessRecords
      /\ call[c].pc = "tail" /\ format \in {"text", "json", "stream-json"}
  BY RunnerAssumption DEF WriterInv, RunnerInv, ReadTail, TypeOK
<1>2. k.verdict = verdict /\ k.conv = conv
  BY <1>1 DEF CallRecords
<1>3. call'[c] = k
  <2>1. ~Raise(c)
    <3> DEFINE r == Raised(c, "tail")
    <3>1. r.verdict = "failed"
      BY <1>1 DEF Raised, Handler, CallRecords
    <3>2. Raise(c) => call' = [call EXCEPT ![c] = r]
      BY <1>1 DEF Raise
    <3> HIDE DEF r
    <3> QED
      BY <1>1, <3>1, <3>2 DEF TypeOK
  <2>2. Continue(c, k) \/ Raise(c)
    BY DEF ReadTail
  <2> HIDE DEF k
  <2> QED
    BY <1>1, <2>1, <2>2, ContinueCases DEF TypeOK
<1>4. verdict = "success" /\ call'[c].conv = conv
  BY <1>2, <1>3
<1>5. process[c].end \in {"clean", "denied", "failed", "truncated", "held", Unset}
  BY <1>1, RunnerAssumption DEF ProcessRecords
<1>6. ~call[c].timedout /\ status # "ERROR" /\ process[c].end \in {"clean", "held"}
  <2> HIDE DEF status
  <2> QED
    BY <1>4, <1>5 DEF Classify
<1>7. process[c].state = "exited"
  BY <1>1 DEF CallInv, Stream
<1>8. ASSUME process[c].said = 2, format # "text"
      PROVE  /\ process[c].status = "SUCCESS" /\ call'[c].conv = process[c].conv
             /\ format = "stream-json" => call[c].read = 2
  BY <1>1, <1>4, <1>6, <1>8 DEF CallInv, Stream, Reading, Streaming
<1> QED
  BY <1>6, <1>7, <1>8

\* A run becomes a success only when its process has ended by itself and cleanly
\* and what it reported was read to the end: _stream and classify_run.
THEOREM SuccessIsCompleteHolds == RunnerSpec => SuccessIsComplete
<1> DEFINE Whole == \A c \in Calls :
       LET p == process[c] IN
       call[c].verdict # "success" /\ call'[c].verdict = "success" =>
         /\ p.state = "exited" /\ p.end \in {"clean", "held"}
         /\ p.said = 2 /\ format # "text" =>
              /\ p.status = "SUCCESS" /\ call'[c].conv = p.conv
              /\ format = "stream-json" => call[c].read = 2
<1>1. ASSUME WriterInv, [RunnerNext]_runnerVars
      PROVE  [Whole]_runnerVars
  <2>1. CASE UNCHANGED runnerVars
    BY <2>1
  <2>2. CASE RunnerNext
    <3>1. TypeOK
      BY <1>1 DEF WriterInv, RunnerInv
    <3>2. ASSUME NEW c \in Calls, call[c].verdict # "success", call'[c].verdict = "success"
          PROVE  ReadTail(c)
      <4>1. ~Calmly(c)
        BY <3>2, RunnerAssumption DEF Calmly
      <4> QED
        BY <2>2, <3>1, <4>1, CalmSteps
    <3> QED
      BY <1>1, <3>2, TailSuccess
  <2> QED
    BY <1>1, <2>1, <2>2
<1> HIDE DEF Whole
<1>2. RunnerSpec => [][Whole]_runnerVars
  BY <1>1, RunnerInvariant, PTL DEF RunnerSpec
<1> QED
  BY <1>2 DEF SuccessIsComplete, Whole
=============================================================================
