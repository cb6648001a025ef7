----------------------- MODULE McpToolPublicationProofs -----------------------
(***************************************************************************)
(* That /mcp lists what is published and that a command that fails undoes  *)
(* its work, for any number of Tools, repositories, callers and failures.  *)
(*                                                                         *)
(* The invariant says, for every step a command can be in, what the two    *)
(* stores have in common and which of their differences are still on the   *)
(* command's list of things to do.                                         *)
(***************************************************************************)
EXTENDS McpToolPublication, TLAPS

(***************************************************************************)
(* The parts of the invariant.                                             *)
(***************************************************************************)

Visible(t) == assistant[t] # None /\ assistant[t].visible

\* /mcp shows Tool t exactly as its record says.
Matches(t) ==
    /\ Visible(t) <=> (t \in Listed /\ record[t].enabled)
    /\ t \in Listed /\ record[t].enabled => assistant[t].name = record[t].name

Types ==
    /\ active \in Repositories
    /\ record \in [Tools -> Records]
    /\ assistant \in [Tools -> Assistants]
    /\ job \in [Commands -> Jobs \cup {None}]
    /\ answer \in [Commands -> {"none", "ok", "failed", "broken", "not synchronized"}]
    /\ suspect \in BOOLEAN
    /\ faults \in Nat

\* publication_commands admits one command at a time.
OneAtWork == \A c, d \in Commands : job[c] # None /\ job[d] # None => c = d

\* The active repository and the records of the request's Tools are the ones
\* the command began with.
Undone(j) == active = j.from /\ \A t \in DOMAIN j.before : record[t] = j.before[t]

\* Which commands are in which step, and what they remember.
Shape(j) ==
    /\ DOMAIN j.before = j.request.tools
    /\ \A t \in j.request.tools : j.before[t] # None /\ Home[t] = j.from
    /\ j.step \in {"commit", "validate", "restore"} => j.todo = {}
    /\ j.step \in {"commit", "sync", "validate"} =>
          j.aim = "ok" /\ j.request.kind # "startup"
    /\ j.step = "sync" => j.request.kind # "activate"
    /\ j.step \in {"validate", "restore"} => ~ Withdraws(j.request.kind)
    /\ j.step = "validate" => j.request.kind = "activate"
    /\ j.step = "restore" => j.request.kind # "startup"
    /\ j.step \in {"reconcile", "orphans"} /\ j.aim = "ok" =>
          j.request.kind \in {"activate", "startup"}
    /\ j.request.kind = "startup" => j.aim = "ok"

\* A command that will answer "failed", or has committed nothing yet, leaves
\* records and repository as they were.
Reversible(j) ==
    j.request.kind # "startup"
        /\ (\/ j.step \in {"reconcile", "orphans"} /\ j.aim = "failed"
            \/ j.step = "commit"
            \/ j.step = "sync" /\ Withdraws(j.request.kind))
    => Undone(j)

\* The Tools of a command are hidden before it unpublishes or deletes them.
Withdrawn(j) ==
    Withdraws(j.request.kind) /\ j.step \in {"commit", "sync"} =>
        /\ \A t \in j.request.tools : <<t, FALSE>> \in j.todo \/ ~ Visible(t)
        /\ \A next \in j.todo : next[1] \in j.request.tools /\ next[2] = FALSE
        /\ ~ suspect => \A t \in Tools \ j.request.tools : Matches(t)

\* A command that publishes has everything it changed still to sync.
Published(j) ==
    ~ Withdraws(j.request.kind) /\ j.step \in {"commit", "sync"} =>
        /\ \A next \in j.todo :
              next[1] \in Listed /\ next[2] = record[next[1]].enabled
        /\ ~ suspect => \A t \in Tools :
              Matches(t) \/ (t \in Listed /\ <<t, record[t].enabled>> \in j.todo)

\* reconcile: first every record, then every Assistant without one.
Aligned(j) ==
    /\ j.step = "reconcile" =>
          /\ \A next \in j.todo :
                next[1] \in Listed /\ next[2] = record[next[1]].enabled
          /\ \A t \in Listed : Matches(t) \/ <<t, record[t].enabled>> \in j.todo
    /\ j.step = "orphans" =>
          /\ \A next \in j.todo :
                /\ next[1] \in Tools \ Listed
                /\ assistant[next[1]] # None
                /\ next[2] = FALSE
          /\ \A t \in Listed : Matches(t)
          /\ \A t \in Tools \ Listed : ~ Visible(t) \/ <<t, FALSE>> \in j.todo

JobInv(c) ==
    job[c] # None =>
        /\ Shape(job[c]) /\ Reversible(job[c])
        /\ Withdrawn(job[c]) /\ Published(job[c]) /\ Aligned(job[c])

Rested == LockFree /\ ~ suspect => \A t \in Tools : Matches(t)

IInv == Types /\ OneAtWork /\ Rested /\ \A c \in Commands : JobInv(c)
(***************************************************************************)
(* Types.                                                                  *)
(***************************************************************************)

\* A job that goes on to another step is still a job.
LEMMA JobGoesOn ==
    ASSUME NEW j \in Jobs, NEW step \in Steps,
           NEW todo \in SUBSET (Tools \X BOOLEAN), NEW aim \in {"ok", "failed"}
    PROVE  /\ [j EXCEPT !.step = step, !.todo = todo, !.aim = aim] \in Jobs
           /\ [j EXCEPT !.step = step, !.todo = todo] \in Jobs
           /\ [j EXCEPT !.todo = todo] \in Jobs
           /\ [j EXCEPT !.step = step] \in Jobs
<1> DEFINE Befores == UNION {[S -> Records] : S \in SUBSET Tools}
<1>1. Jobs = [request : AllRequests, step : Steps, todo : SUBSET (Tools \X BOOLEAN),
              aim : {"ok", "failed"}, before : Befores, from : Repositories]
  BY DEF Jobs
<1> HIDE DEF Befores
<1>2. QED BY <1>1

\* The parts of a job.
LEMMA JobParts ==
    ASSUME NEW j \in Jobs
    PROVE  /\ j.request \in AllRequests /\ j.step \in Steps
           /\ j.todo \in SUBSET (Tools \X BOOLEAN) /\ j.aim \in {"ok", "failed"}
           /\ j.from \in Repositories
           /\ \E S \in SUBSET Tools : j.before \in [S -> Records]
           /\ j # None
BY NoneAssumption DEF Jobs

\* The parts of a request.
LEMMA RequestParts ==
    ASSUME NEW r \in AllRequests
    PROVE  /\ r.tools \in SUBSET Tools
           /\ r.kind \in {"metadata", "graph", "draft", "delete", "component",
                           "startup", "activate"}
           /\ r.kind = "metadata" => r.name \in Names
           /\ r.kind = "activate" => r.to \in Repositories
BY DEF AllRequests

\* A record of a Tool has a flag and a name, an Assistant too.
LEMMA RecordParts ==
    /\ \A r \in Records : r # None => r \in [enabled : BOOLEAN, name : Names]
    /\ \A a \in Assistants : a # None => a \in [visible : BOOLEAN, name : Names]
    /\ \A e \in BOOLEAN, n \in Names :
          /\ [enabled |-> e, name |-> n] \in Records
          /\ [enabled |-> e, name |-> n] # None
          /\ [visible |-> e, name |-> n] \in Assistants
          /\ [visible |-> e, name |-> n] # None
BY NoneAssumption DEF Records, Assistants

\* The syncs of some Tools.
LEMMA SyncsParts ==
    ASSUME NEW tools \in SUBSET Tools, NEW visible \in BOOLEAN
    PROVE  /\ Syncs(tools, visible) \in SUBSET (Tools \X BOOLEAN)
           /\ \A next \in Syncs(tools, visible) : next[1] \in tools /\ next[2] = visible
           /\ \A t \in tools : <<t, visible>> \in Syncs(tools, visible)
BY DEF Syncs

\* What reconcile has to sync.
LEMMA AllOfParts ==
    ASSUME NEW repository, NEW records \in [Tools -> Records]
    PROVE  /\ AllOf(repository, records) \in SUBSET (Tools \X BOOLEAN)
           /\ \A next \in AllOf(repository, records) :
                 /\ Home[next[1]] = repository /\ records[next[1]] # None
                 /\ next[2] = records[next[1]].enabled
           /\ \A t \in Tools : Home[t] = repository /\ records[t] # None =>
                 <<t, records[t].enabled>> \in AllOf(repository, records)
<1>1. \A t \in Tools : records[t] # None => records[t].enabled \in BOOLEAN
  BY RecordParts
<1>2. QED BY <1>1 DEF AllOf

\* Only the command at work changes: every other one has nothing to do.
LEMMA OthersIdle ==
    ASSUME IInv, NEW c \in Commands, job[c] # None, NEW x \in Jobs \cup {None},
           job' = [job EXCEPT ![c] = x]
    PROVE  /\ job' \in [Commands -> Jobs \cup {None}]
           /\ job'[c] = x
           /\ \A d \in Commands \ {c} : job'[d] = None
           /\ OneAtWork'
           /\ LockFree' <=> x = None
BY DEF IInv, Types, OneAtWork, LockFree
\* What is left to show of a step of the command at work.
LEMMA StepOfOne ==
    ASSUME IInv, NEW c \in Commands, job[c] # None, NEW x \in Jobs \cup {None},
           job' = [job EXCEPT ![c] = x],
           active' \in Repositories, record' \in [Tools -> Records],
           assistant' \in [Tools -> Assistants], suspect' \in BOOLEAN, faults' \in Nat,
           answer' \in [Commands -> {"none", "ok", "failed", "broken", "not synchronized"}],
           Rested', JobInv(c)'
    PROVE  IInv'
<1>1. /\ job' \in [Commands -> Jobs \cup {None}] /\ OneAtWork'
      /\ \A d \in Commands \ {c} : job'[d] = None
  BY OthersIdle
<1>2. Types'
  BY <1>1 DEF Types
<1>3. \A d \in Commands \ {c} : JobInv(d)'
  BY <1>1 DEF JobInv
<1>4. QED BY <1>1, <1>2, <1>3 DEF IInv

(***************************************************************************)
(* One call to the Agent Server.                                           *)
(***************************************************************************)

\* Whatever the step, only the Assistant of the Tool at hand changes, and it
\* is then hidden, or shown as the sync asks.
LEMMA EffectOfSync ==
    ASSUME Types, NEW c \in Commands, job[c] # None, NEW next \in job[c].todo,
           Effect(c, next), Aligned(job[c])
    PROVE  /\ next[1] \in Tools /\ next[2] \in BOOLEAN /\ next = <<next[1], next[2]>>
           /\ assistant' \in [Tools -> Assistants]
           /\ \A t \in Tools \ {next[1]} : assistant'[t] = assistant[t]
           /\ job[c].step = "orphans" => ~ assistant'[next[1]].visible
           /\ job[c].step # "orphans" /\ next[1] \in Listed =>
                 /\ assistant'[next[1]] # None
                 /\ assistant'[next[1]].visible = next[2]
                 /\ assistant'[next[1]].name = record[next[1]].name
<1>1. /\ job[c].todo \in SUBSET (Tools \X BOOLEAN)
      /\ assistant \in [Tools -> Assistants] /\ record \in [Tools -> Records]
  BY JobParts DEF Types
<1>2. next[1] \in Tools /\ next[2] \in BOOLEAN /\ next = <<next[1], next[2]>>
  BY <1>1
<1>3. CASE job[c].step = "orphans"
  <2>1. assistant[next[1]] # None
    BY <1>3 DEF Aligned
  <2>2. assistant[next[1]] \in [visible : BOOLEAN, name : Names]
    BY <1>1, <1>2, <2>1, RecordParts
  <2> DEFINE hidden == [assistant[next[1]] EXCEPT !.visible = FALSE]
  <2>3. hidden \in [visible : BOOLEAN, name : Names] /\ ~ hidden.visible
    BY <2>2
  <2>4. assistant' = [assistant EXCEPT ![next[1]] = hidden]
    BY <1>3 DEF Effect
  <2>5. hidden \in Assistants
    BY <2>3 DEF Assistants
  <2> HIDE DEF hidden
  <2>6. QED BY <1>1, <1>2, <1>3, <2>3, <2>4, <2>5
<1>4. CASE job[c].step # "orphans" /\ next[1] \in Listed
  <2> DEFINE shown == [visible |-> next[2], name |-> record[next[1]].name]
  <2>1. record[next[1]] # None
    BY <1>4 DEF Listed
  <2>1a. record[next[1]].name \in Names
    BY <1>1, <1>2, <2>1, RecordParts
  <2>2. shown \in Assistants /\ shown # None
    BY <1>2, <2>1a, RecordParts
  <2>3. assistant' = [assistant EXCEPT ![next[1]] = shown]
    BY <1>4 DEF Effect, Synced
  <2>4. shown.visible = next[2] /\ shown.name = record[next[1]].name
    OBVIOUS
  <2> HIDE DEF shown
  <2>5. QED BY <1>1, <1>2, <1>4, <2>2, <2>3, <2>4
<1>5. CASE job[c].step # "orphans" /\ next[1] \notin Listed
  BY <1>1, <1>2, <1>5 DEF Effect, Synced
<1>6. QED BY <1>3, <1>4, <1>5

(***************************************************************************)
(* The steps.                                                              *)
(***************************************************************************)

\* A server that has not served a command yet has published nothing.
LEMMA InitIInv == Init => IInv
<1> SUFFICES ASSUME Init PROVE IInv
  OBVIOUS
<1>1. Types
  BY DEF Init, Types, Assistants
<1>2. OneAtWork /\ \A c \in Commands : JobInv(c)
  BY DEF Init, OneAtWork, JobInv
<1>3. Rested
  BY DEF Init, Rested, Matches, Visible, Listed
<1>4. QED BY <1>1, <1>2, <1>3 DEF IInv
\* A command starts from records and Assistants that agree.
LEMMA EnterInv == ASSUME IInv, NEW c \in Commands, Enter(c) PROVE IInv'
<1>1. /\ LockFree /\ job[c] = None
      /\ UNCHANGED <<active, record, assistant, suspect, faults>>
      /\ answer' = [answer EXCEPT ![c] = "none"]
  BY DEF Enter
<1>2. Types /\ (~ suspect => \A t \in Tools : Matches(t))
  BY <1>1 DEF IInv, Rested
<1>3. PICK request \in Requests :
        job' = [job EXCEPT ![c] =
                  [request |-> request,
                   step |-> IF Withdraws(request.kind) THEN "sync" ELSE "commit",
                   todo |-> IF Withdraws(request.kind) THEN Syncs(request.tools, FALSE)
                            ELSE {},
                   aim |-> "ok",
                   before |-> [t \in request.tools |-> record[t]],
                   from |-> active]]
  BY DEF Enter
<1>4. /\ request \in AllRequests /\ request.kind # "startup"
      /\ request.tools \subseteq Listed
  BY DEF Requests, AllRequests, Listed
<1>5. request.tools \in SUBSET Tools
  BY <1>4, RequestParts
<1> DEFINE step == IF Withdraws(request.kind) THEN "sync" ELSE "commit"
           todo == IF Withdraws(request.kind) THEN Syncs(request.tools, FALSE) ELSE {}
           before == [t \in request.tools |-> record[t]]
           x == [request |-> request, step |-> step, todo |-> todo, aim |-> "ok",
                 before |-> before, from |-> active]
<1>6. /\ step \in Steps /\ todo \in SUBSET (Tools \X BOOLEAN)
      /\ before \in UNION {[S -> Records] : S \in SUBSET Tools}
      /\ active \in Repositories
  <2>1. step \in Steps /\ active \in Repositories
    BY <1>2 DEF Types, Steps
  <2>2. todo \in SUBSET (Tools \X BOOLEAN)
    BY <1>5, SyncsParts
  <2>3. before \in [request.tools -> Records]
    BY <1>2, <1>5 DEF Types
  <2>4. QED BY <1>5, <2>1, <2>2, <2>3
<1>7. /\ DOMAIN before = request.tools
      /\ \A t \in request.tools : before[t] = record[t] /\ record[t] # None /\ Home[t] = active
  BY <1>4 DEF Listed
<1>8. /\ Withdraws(request.kind) => step = "sync" /\ todo = Syncs(request.tools, FALSE)
      /\ ~ Withdraws(request.kind) => step = "commit" /\ todo = {}
  OBVIOUS
<1> HIDE DEF step, todo, before
<1>9. /\ x.request = request /\ x.step = step /\ x.todo = todo /\ x.aim = "ok"
      /\ x.before = before /\ x.from = active
  OBVIOUS
<1>10. x \in Jobs
  <2> DEFINE Befores == UNION {[S -> Records] : S \in SUBSET Tools}
  <2>1. before \in Befores
    BY <1>6
  <2>2. Jobs = [request : AllRequests, step : Steps, todo : SUBSET (Tools \X BOOLEAN),
                aim : {"ok", "failed"}, before : Befores, from : Repositories]
    BY DEF Jobs
  <2> HIDE DEF Befores
  <2>3. QED BY <1>4, <1>6, <2>1, <2>2
<1>11. job' = [job EXCEPT ![c] = x]
  BY <1>3 DEF step, todo, before
<1> HIDE DEF x
<1>12. /\ job' \in [Commands -> Jobs \cup {None}]
       /\ job'[c] = x /\ x # None
       /\ \A d \in Commands \ {c} : job'[d] = None
  BY <1>1, <1>2, <1>10, <1>11, JobParts DEF Types, LockFree
<1>13. Types'
  BY <1>1, <1>2, <1>12 DEF Types
<1>14. OneAtWork' /\ Rested'
  BY <1>12 DEF OneAtWork, Rested, LockFree
<1>15. JobInv(c)'
  <2>1. Shape(x)
    BY <1>4, <1>7, <1>8, <1>9 DEF Shape, Withdraws
  <2>2. Reversible(x)
    BY <1>7, <1>9 DEF Reversible, Undone
  <2>3. Withdrawn(x)
    <3>1. CASE Withdraws(request.kind)
      <4>1. /\ \A t \in request.tools : <<t, FALSE>> \in todo
            /\ \A next \in todo : next[1] \in request.tools /\ next[2] = FALSE
        BY <1>5, <1>8, <3>1, SyncsParts
      <4>2. QED BY <1>2, <1>9, <4>1 DEF Withdrawn
    <3>2. QED BY <1>9, <3>1 DEF Withdrawn
  <2>4. Published(x)
    BY <1>2, <1>8, <1>9 DEF Published
  <2>5. Aligned(x)
    BY <1>8, <1>9 DEF Aligned
  <2>6. QED BY ZenonT(60), <1>1, <1>12, <2>1, <2>2, <2>3, <2>4, <2>5
        DEF JobInv, Shape, Reversible, Undone, Withdrawn, Published, Aligned,
            Matches, Visible, Listed
<1>16. \A d \in Commands \ {c} : JobInv(d)'
  BY <1>12 DEF JobInv
<1>17. QED BY <1>13, <1>14, <1>15, <1>16 DEF IInv

\* A new draft is a Tool /mcp does not show, and no command has it in hand.
LEMMA CreateInv ==
    ASSUME IInv, NEW t \in Tools, NEW name \in Names, Create(t, name) PROVE IInv'
<1> DEFINE draft == [enabled |-> FALSE, name |-> name]
<1>1. /\ Home[t] = active /\ record[t] = None /\ assistant[t] = None
      /\ record' = [record EXCEPT ![t] = draft]
      /\ UNCHANGED <<active, assistant, job, answer, suspect, faults>>
  BY DEF Create
<1>2. draft \in Records /\ draft # None /\ ~ draft.enabled
  BY RecordParts
<1> HIDE DEF draft
<1>3. /\ Types /\ record' \in [Tools -> Records] /\ record'[t] = draft
      /\ \A u \in Tools \ {t} : record'[u] = record[u]
  BY <1>1, <1>2 DEF IInv, Types
<1>4. Types'
  BY <1>1, <1>3 DEF Types
<1>5. OneAtWork' /\ (LockFree' <=> LockFree)
  BY <1>1 DEF IInv, OneAtWork, LockFree
<1>6. /\ \A u \in Tools : Matches(u) => Matches(u)'
      /\ Matches(t)'
      /\ Listed \subseteq Tools /\ Listed' = Listed \cup {t} /\ t \notin Listed
      /\ ~ Visible(t)
      /\ \A u \in Tools : Visible(u)' <=> Visible(u)
  BY <1>1, <1>2, <1>3 DEF Matches, Visible, Listed
<1>7. Rested'
  BY <1>1, <1>5, <1>6 DEF IInv, Rested
<1>8. ASSUME NEW c \in Commands PROVE JobInv(c)'
  <2>1. CASE job[c] = None
    BY <1>1, <2>1 DEF JobInv
  <2>2. CASE job[c] # None
    <3>0. PICK j \in Jobs : job[c] = j
      BY <1>3, <2>2 DEF Types
    <3>1. /\ job'[c] = j /\ j \in Jobs
          /\ Shape(j) /\ Reversible(j) /\ Withdrawn(j) /\ Published(j) /\ Aligned(j)
      BY <1>1, <2>2, <3>0 DEF IInv, JobInv
    <3>2. DOMAIN j.before \subseteq Tools
      BY <3>1, JobParts
    <3>3. Shape(j)'
      BY <3>1 DEF Shape
    <3>4. Reversible(j)'
      BY <1>1, <1>3, <3>1, <3>2 DEF Reversible, Undone, Shape
    <3>5. Withdrawn(j)'
      BY <1>1, <1>6, <3>1, <3>2 DEF Withdrawn, Shape
    <3>6. Published(j)'
      BY <1>1, <1>3, <1>6, <3>1 DEF Published
    <3>7. Aligned(j)'
      BY ZenonT(60), <1>1, <1>3, <1>6, <3>1 DEF Aligned
    <3>8. QED BY <3>1, <3>3, <3>4, <3>5, <3>6, <3>7 DEF JobInv
  <2>3. QED BY <2>1, <2>2
<1>9. QED BY <1>4, <1>5, <1>7, <1>8 DEF IInv
\* The command at work, and what the invariant says of it.
LEMMA AtWork ==
    ASSUME IInv, NEW c \in Commands, job[c] # None
    PROVE  \E j \in Jobs :
              /\ job[c] = j
              /\ Shape(j) /\ Reversible(j) /\ Withdrawn(j) /\ Published(j) /\ Aligned(j)
BY DEF IInv, Types, JobInv

\* Where reconcile begins, the whole difference is on its list.
LEMMA ReconcileBegins ==
    ASSUME record' \in [Tools -> Records], NEW j,
           j.step = "reconcile", j.todo = AllOf(active', record')
    PROVE  Withdrawn(j)' /\ Published(j)' /\ Aligned(j)'
<1>1. /\ \A next \in j.todo :
            Home[next[1]] = active' /\ record'[next[1]] # None
              /\ next[2] = record'[next[1]].enabled
      /\ \A t \in Tools : Home[t] = active' /\ record'[t] # None =>
            <<t, record'[t].enabled>> \in j.todo
      /\ j.todo \in SUBSET (Tools \X BOOLEAN)
  BY AllOfParts
<1>2. \A next \in j.todo : next[1] \in Tools
  BY <1>1
<1>3. QED BY <1>1, <1>2 DEF Withdrawn, Published, Aligned, Listed

\* Where only the job changes, the stores agree as before.
LEMMA SameStores ==
    ASSUME UNCHANGED <<active, record, assistant>>
    PROVE  /\ Listed' = Listed
           /\ \A t : (Matches(t)' <=> Matches(t)) /\ (Visible(t)' <=> Visible(t))
           /\ \A j : Undone(j)' <=> Undone(j)
BY DEF Listed, Matches, Visible, Undone

\* An activated repository is validated, and then reconciled.
LEMMA ValidateInv == ASSUME IInv, NEW c \in Commands, Validate(c) PROVE IInv'
<1>1. /\ job[c] # None
      /\ UNCHANGED <<active, record, assistant, suspect, faults, answer>>
  BY DEF Validate, Continue
<1>2. PICK j \in Jobs : /\ job[c] = j
                        /\ Shape(j) /\ Reversible(j) /\ Withdrawn(j)
                        /\ Published(j) /\ Aligned(j)
  BY <1>1, AtWork
<1>3. j.step = "validate" /\ Types
  BY <1>2 DEF Validate, IInv
<1>4. record \in [Tools -> Records] /\ AllOf(active, record) \in SUBSET (Tools \X BOOLEAN)
  BY <1>3, AllOfParts DEF Types
<1>5. PICK x \in Jobs :
        /\ job' = [job EXCEPT ![c] = x]
        /\ x.request = j.request /\ x.step = "reconcile" /\ x.aim = j.aim
        /\ x.before = j.before /\ x.from = j.from /\ x.todo = AllOf(active, record)
  <2> DEFINE x == [j EXCEPT !.step = "reconcile", !.todo = AllOf(active, record)]
  <2>1. job' = [job EXCEPT ![c] = x]
    BY <1>2 DEF Validate, Continue
  <2>2. x \in Jobs
    BY <1>4, JobGoesOn DEF Steps
  <2>3. /\ x.request = j.request /\ x.step = "reconcile" /\ x.aim = j.aim
        /\ x.before = j.before /\ x.from = j.from /\ x.todo = AllOf(active, record)
    BY DEF Jobs
  <2> HIDE DEF x
  <2>4. QED BY <2>1, <2>2, <2>3
<1>6. Shape(x)'
  BY <1>2, <1>3, <1>5 DEF Shape, Withdraws
<1>7. Reversible(x)'
  BY <1>2, <1>3, <1>5 DEF Reversible, Shape
<1>8. Withdrawn(x)' /\ Published(x)' /\ Aligned(x)'
  BY <1>1, <1>4, <1>5, ReconcileBegins
<1>9. job'[c] = x /\ ~ LockFree'
  BY <1>1, <1>5, OthersIdle, JobParts
<1>10. JobInv(c)' /\ Rested'
  BY <1>6, <1>7, <1>8, <1>9 DEF JobInv, Rested
<1>11. QED BY <1>1, <1>3, <1>5, <1>10, StepOfOne DEF Types
\* reconcile looks for Assistants without a record once no record is left.
LEMMA FindOrphansInv == ASSUME IInv, NEW c \in Commands, FindOrphans(c) PROVE IInv'
<1>1. /\ job[c] # None
      /\ UNCHANGED <<active, record, assistant, suspect, faults, answer>>
  BY DEF FindOrphans, Continue
<1>2. PICK j \in Jobs : /\ job[c] = j
                        /\ Shape(j) /\ Reversible(j) /\ Withdrawn(j)
                        /\ Published(j) /\ Aligned(j)
  BY <1>1, AtWork
<1>3. j.step = "reconcile" /\ j.todo = {} /\ Types
  BY <1>2 DEF FindOrphans, IInv
<1>4. Orphans \in SUBSET Tools
  BY DEF Orphans
<1>5. PICK x \in Jobs :
        /\ job' = [job EXCEPT ![c] = x]
        /\ x.request = j.request /\ x.step = "orphans" /\ x.aim = j.aim
        /\ x.before = j.before /\ x.from = j.from /\ x.todo = Syncs(Orphans, FALSE)
  <2> DEFINE x == [j EXCEPT !.step = "orphans", !.todo = Syncs(Orphans, FALSE)]
  <2>1. job' = [job EXCEPT ![c] = x]
    BY <1>2 DEF FindOrphans, Continue
  <2>2. x \in Jobs
    BY <1>4, SyncsParts, JobGoesOn DEF Steps
  <2>3. /\ x.request = j.request /\ x.step = "orphans" /\ x.aim = j.aim
        /\ x.before = j.before /\ x.from = j.from /\ x.todo = Syncs(Orphans, FALSE)
    BY DEF Jobs
  <2> HIDE DEF x
  <2>4. QED BY <2>1, <2>2, <2>3
<1>6. Shape(x)'
  BY <1>2, <1>3, <1>5 DEF Shape, Withdraws
<1>7. Reversible(x)' /\ Withdrawn(x)' /\ Published(x)'
  BY <1>1, <1>2, <1>3, <1>5 DEF Reversible, Undone, Withdrawn, Published
<1>8. Aligned(x)'
  <2>1. /\ \A next \in x.todo : next[1] \in Orphans /\ next[2] = FALSE
        /\ \A t \in Orphans : <<t, FALSE>> \in x.todo
    <3>1. /\ \A next \in Syncs(Orphans, FALSE) : next[1] \in Orphans /\ next[2] = FALSE
          /\ \A t \in Orphans : <<t, FALSE>> \in Syncs(Orphans, FALSE)
      BY <1>4, SyncsParts
    <3>2. QED BY <1>5, <3>1
  <2>2. \A t \in Listed : Matches(t)
    BY <1>2, <1>3 DEF Aligned
  <2>3. QED BY <1>1, <1>5, <2>1, <2>2, SameStores DEF Aligned, Orphans, Visible
<1>9. job'[c] = x /\ ~ LockFree'
  BY <1>1, <1>5, OthersIdle, JobParts
<1>10. JobInv(c)' /\ Rested'
  BY <1>6, <1>7, <1>8, <1>9 DEF JobInv, Rested
<1>11. QED BY <1>1, <1>3, <1>5, <1>10, StepOfOne DEF Types

\* After reconcile every Tool is shown as its record says.
LEMMA ReconciledInv == ASSUME IInv, NEW c \in Commands, Reconciled(c) PROVE IInv'
<1>1. /\ job[c] # None
      /\ UNCHANGED <<active, record, assistant, faults>> /\ suspect' = FALSE
      /\ job' = [job EXCEPT ![c] = None] /\ answer' = [answer EXCEPT ![c] = job[c].aim]
  BY DEF Reconciled, Answer
<1>2. PICK j \in Jobs : /\ job[c] = j
                        /\ Shape(j) /\ Reversible(j) /\ Withdrawn(j)
                        /\ Published(j) /\ Aligned(j)
  BY <1>1, AtWork
<1>3. j.step = "orphans" /\ j.todo = {} /\ Types
  BY <1>2 DEF Reconciled, IInv
<1>4. \A t \in Tools : Matches(t)
  BY <1>2, <1>3 DEF Aligned, Matches, Visible
<1>5. j.aim \in {"ok", "failed"}
  BY JobParts
<1>6. answer' \in [Commands -> {"none", "ok", "failed", "broken", "not synchronized"}]
  BY <1>1, <1>2, <1>3, <1>5 DEF Types
<1>7. job'[c] = None
  BY <1>1, OthersIdle
<1>8. JobInv(c)' /\ Rested'
  BY <1>1, <1>4, <1>7, SameStores DEF JobInv, Rested
<1>9. QED BY <1>1, <1>3, <1>6, <1>8, StepOfOne DEF Types

\* When every sync of a step is done, a command that publishes has ended, and
\* one that withdraws commits with its Tools hidden.
LEMMA SynchronizedInv == ASSUME IInv, NEW c \in Commands, Synchronized(c) PROVE IInv'
<1>1. /\ job[c] # None
      /\ UNCHANGED <<active, record, assistant, suspect, faults>>
  BY DEF Synchronized
<1>2. PICK j \in Jobs : /\ job[c] = j
                        /\ Shape(j) /\ Reversible(j) /\ Withdrawn(j)
                        /\ Published(j) /\ Aligned(j)
  BY <1>1, AtWork
<1>3. j.step = "sync" /\ j.todo = {} /\ Types
  BY <1>2 DEF Synchronized, IInv
<1>4. CASE Withdraws(j.request.kind)
  <2>1. PICK x \in Jobs :
          /\ job' = [job EXCEPT ![c] = x] /\ UNCHANGED answer
          /\ x.request = j.request /\ x.step = "commit" /\ x.aim = j.aim
          /\ x.before = j.before /\ x.from = j.from /\ x.todo = j.todo
    <3> DEFINE x == [j EXCEPT !.step = "commit"]
    <3>1. job' = [job EXCEPT ![c] = x] /\ UNCHANGED answer
      BY <1>2, <1>4 DEF Synchronized, Continue
    <3>2. x \in Jobs
      BY JobGoesOn DEF Steps
    <3>3. /\ x.request = j.request /\ x.step = "commit" /\ x.aim = j.aim
          /\ x.before = j.before /\ x.from = j.from /\ x.todo = j.todo
      BY DEF Jobs
    <3> HIDE DEF x
    <3>4. QED BY <3>1, <3>2, <3>3
  <2>2. Shape(x)'
    BY <1>2, <1>3, <1>4, <2>1 DEF Shape
  <2>3. Reversible(x)'
    BY <1>1, <1>2, <1>3, <1>4, <2>1 DEF Reversible, Undone
  <2>4. Withdrawn(x)'
    BY <1>1, <1>2, <1>3, <1>4, <2>1, SameStores DEF Withdrawn
  <2>5. Published(x)' /\ Aligned(x)'
    BY <1>4, <2>1 DEF Published, Aligned
  <2>6. job'[c] = x /\ ~ LockFree'
    BY <1>1, <2>1, OthersIdle, JobParts
  <2>7. JobInv(c)' /\ Rested'
    BY <2>2, <2>3, <2>4, <2>5, <2>6 DEF JobInv, Rested
  <2>8. QED BY <1>1, <1>3, <2>1, <2>7, StepOfOne DEF Types
<1>5. CASE ~ Withdraws(j.request.kind)
  <2>1. job' = [job EXCEPT ![c] = None] /\ answer' = [answer EXCEPT ![c] = "ok"]
    BY <1>2, <1>5 DEF Synchronized, Answer
  <2>2. ~ suspect => \A t \in Tools : Matches(t)
    BY <1>2, <1>3, <1>5 DEF Published
  <2>3. job'[c] = None
    BY <1>1, <2>1, OthersIdle
  <2>4. JobInv(c)' /\ Rested'
    BY <1>1, <2>2, <2>3, SameStores DEF JobInv, Rested
  <2>5. answer' \in [Commands -> {"none", "ok", "failed", "broken", "not synchronized"}]
    BY <1>3, <2>1 DEF Types
  <2>6. QED BY <1>1, <1>3, <2>1, <2>4, <2>5, StepOfOne DEF Types
<1>6. QED BY <1>4, <1>5

\* One call to the Agent Server takes one difference off the list.
LEMMA SyncOneInv == ASSUME IInv, NEW c \in Commands, SyncOne(c) PROVE IInv'
<1>1. /\ job[c] # None
      /\ UNCHANGED <<active, record, suspect, faults, answer>>
  BY DEF SyncOne, Continue
<1>2. PICK j \in Jobs : /\ job[c] = j
                        /\ Shape(j) /\ Reversible(j) /\ Withdrawn(j)
                        /\ Published(j) /\ Aligned(j)
  BY <1>1, AtWork
<1>3. Types
  BY DEF IInv
<1>4. PICK next \in j.todo :
        /\ Effect(c, next)
        /\ job' = [job EXCEPT ![c] = [j EXCEPT !.todo = @ \ {next}]]
  BY <1>2 DEF SyncOne, Continue
<1>5. PICK x \in Jobs :
        /\ job' = [job EXCEPT ![c] = x]
        /\ x.request = j.request /\ x.step = j.step /\ x.aim = j.aim
        /\ x.before = j.before /\ x.from = j.from /\ x.todo = j.todo \ {next}
  <2> DEFINE todo == j.todo \ {next}
             x == [j EXCEPT !.todo = todo]
  <2>1. job' = [job EXCEPT ![c] = x]
    BY <1>4 DEF Jobs
  <2>2. todo \in SUBSET (Tools \X BOOLEAN)
    BY JobParts
  <2> HIDE DEF todo
  <2>3. x \in Jobs
    <3>1. j.step \in Steps /\ j.aim \in {"ok", "failed"}
      BY JobParts
    <3>2. QED BY <2>2, <3>1, JobGoesOn
  <2>4. /\ x.request = j.request /\ x.step = j.step /\ x.aim = j.aim
        /\ x.before = j.before /\ x.from = j.from /\ x.todo = todo
    BY DEF Jobs
  <2> HIDE DEF x
  <2>5. QED BY <2>1, <2>3, <2>4 DEF todo
<1>6. /\ next[1] \in Tools /\ next[2] \in BOOLEAN /\ next = <<next[1], next[2]>>
      /\ assistant' \in [Tools -> Assistants]
      /\ \A t \in Tools \ {next[1]} : assistant'[t] = assistant[t]
      /\ j.step = "orphans" => ~ assistant'[next[1]].visible
      /\ j.step # "orphans" /\ next[1] \in Listed =>
            /\ assistant'[next[1]] # None
            /\ assistant'[next[1]].visible = next[2]
            /\ assistant'[next[1]].name = record[next[1]].name
  BY <1>1, <1>2, <1>3, <1>4, EffectOfSync
<1>7. /\ Listed' = Listed /\ Listed \subseteq Tools
      /\ \A t \in Tools \ {next[1]} : (Matches(t)' <=> Matches(t)) /\ (Visible(t)' <=> Visible(t))
  BY <1>1, <1>6 DEF Listed, Matches, Visible
<1>8. /\ j.step = "orphans" => ~ Visible(next[1])'
      /\ j.step # "orphans" /\ next[1] \in Listed =>
            /\ Visible(next[1])' <=> next[2]
            /\ next[2] = record[next[1]].enabled => Matches(next[1])'
  BY <1>1, <1>6, <1>7 DEF Matches, Visible
<1>9. Shape(x)'
  BY <1>2, <1>5 DEF Shape
<1>10. Reversible(x)'
  BY <1>1, <1>2, <1>5 DEF Reversible, Undone
<1>11. Withdrawn(x)'
  <2>1. SUFFICES ASSUME Withdraws(j.request.kind), j.step \in {"commit", "sync"}
                 PROVE  Withdrawn(x)'
    BY <1>5 DEF Withdrawn
  <2>2. next[1] \in j.request.tools /\ next[2] = FALSE
    BY <1>2, <2>1 DEF Withdrawn
  <2>3. next[1] \in Listed
    <3>1. Undone(j)
      BY <1>2, <1>4, <2>1 DEF Reversible, Shape
    <3>2. QED BY <1>2, <1>6, <2>2, <3>1 DEF Undone, Shape, Listed
  <2>4. ~ Visible(next[1])'
    BY <1>8, <2>1, <2>2, <2>3
  <2>5. j.request.tools \in SUBSET Tools
    BY JobParts, RequestParts
  <2>6. ASSUME NEW t \in j.request.tools
        PROVE  <<t, FALSE>> \in x.todo \/ ~ Visible(t)'
    <3>1. <<t, FALSE>> \in j.todo \/ ~ Visible(t)
      BY <1>2, <2>1 DEF Withdrawn
    <3>2. t # next[1] => <<t, FALSE>> # next
      <4>1. <<t, FALSE>>[1] = t
        OBVIOUS
      <4>2. QED BY <4>1
    <3>3. t # next[1] => (Visible(t)' <=> Visible(t))
      BY <1>7, <2>5
    <3>4. QED BY <1>5, <2>4, <3>1, <3>2, <3>3
  <2>7. ASSUME ~ suspect, NEW t \in Tools \ j.request.tools PROVE Matches(t)'
    BY <1>2, <1>7, <2>1, <2>2, <2>7 DEF Withdrawn
  <2>8. \A other \in x.todo : other[1] \in j.request.tools /\ other[2] = FALSE
    BY <1>2, <1>5, <2>1 DEF Withdrawn
  <2>9. QED BY <1>1, <1>5, <2>6, <2>7, <2>8 DEF Withdrawn
<1>12. Published(x)'
  BY <1>1, <1>2, <1>5, <1>6, <1>7, <1>8 DEF Published
<1>13. Aligned(x)'
  <2>1. CASE j.step = "reconcile"
    BY <1>1, <1>2, <1>5, <1>6, <1>7, <1>8, <2>1 DEF Aligned
  <2>2. CASE j.step = "orphans"
    <3>1. next[1] \in Tools \ Listed /\ next[2] = FALSE
      BY <1>2, <2>2 DEF Aligned
    <3>2. \A other \in x.todo : /\ other[1] \in Tools \ Listed
                                /\ assistant'[other[1]] # None
                                /\ other[2] = FALSE
      <4>1. ASSUME NEW other \in x.todo
            PROVE  /\ other[1] \in Tools \ Listed /\ other[2] = FALSE
                   /\ other[1] # next[1] /\ assistant[other[1]] # None
        <5>1. /\ other[1] \in Tools \ Listed /\ other[2] = FALSE
              /\ assistant[other[1]] # None /\ other # next
          BY <1>2, <1>5, <2>2 DEF Aligned
        <5>2. other = <<other[1], other[2]>>
          BY <1>5, JobParts
        <5>3. QED BY <1>6, <3>1, <5>1, <5>2
      <4>2. QED BY <1>6, <4>1
    <3>3. ASSUME NEW t \in Tools \ Listed
          PROVE  ~ Visible(t)' \/ <<t, FALSE>> \in x.todo
      <4>1. ~ Visible(t) \/ <<t, FALSE>> \in j.todo
        BY <1>2, <2>2 DEF Aligned
      <4>2. t # next[1] => <<t, FALSE>> # next
        <5>1. <<t, FALSE>>[1] = t
          OBVIOUS
        <5>2. QED BY <5>1
      <4>3. QED BY <1>5, <1>7, <1>8, <2>2, <4>1, <4>2
    <3>4. \A t \in Listed : Matches(t)'
      BY <1>2, <1>7, <2>2, <3>1 DEF Aligned
    <3>5. QED BY <1>5, <1>7, <2>2, <3>2, <3>3, <3>4 DEF Aligned
  <2>3. QED BY <1>5, <2>1, <2>2 DEF Aligned
<1>14. job'[c] = x /\ ~ LockFree'
  BY <1>1, <1>5, OthersIdle, JobParts
<1>15. JobInv(c)' /\ Rested'
  BY <1>9, <1>10, <1>11, <1>12, <1>13, <1>14 DEF JobInv, Rested
<1>16. QED BY <1>1, <1>3, <1>5, <1>6, <1>15, StepOfOne DEF Types
\* A commit changes the records of the request's Tools, and no others.
LEMMA CommittedParts ==
    ASSUME record \in [Tools -> Records], NEW r \in AllRequests,
           \A t \in r.tools : record[t] # None
    PROVE  /\ Committed(r) \in [Tools -> Records]
           /\ \A t \in Tools \ r.tools : Committed(r)[t] = record[t]
           /\ \A t \in r.tools :
                 /\ r.kind = "delete" => Committed(r)[t] = None
                 /\ r.kind # "delete" => Committed(r)[t] # None
                 /\ r.kind \in {"draft", "component", "startup", "activate"} =>
                       ~ Committed(r)[t].enabled
                 /\ r.kind = "metadata" => Committed(r)[t].enabled = record[t].enabled
                 /\ r.kind = "graph" => Committed(r)[t].enabled
<1>1. r.tools \in SUBSET Tools /\ (r.kind = "metadata" => r.name \in Names)
  BY RequestParts
<1>2. \A t \in Tools \ r.tools : Committed(r)[t] = record[t]
  BY DEF Committed
<1>3. ASSUME NEW t \in r.tools
      PROVE  /\ Committed(r)[t] \in Records
             /\ r.kind = "delete" => Committed(r)[t] = None
             /\ r.kind # "delete" => Committed(r)[t] # None
             /\ r.kind \in {"draft", "component", "startup", "activate"} =>
                   ~ Committed(r)[t].enabled
             /\ r.kind = "metadata" => Committed(r)[t].enabled = record[t].enabled
             /\ r.kind = "graph" => Committed(r)[t].enabled
  <2> DEFINE named == [record[t] EXCEPT !.name = r.name]
             published == [record[t] EXCEPT !.enabled = TRUE]
             drafted == [record[t] EXCEPT !.enabled = FALSE]
  <2>1. record[t] \in [enabled : BOOLEAN, name : Names] /\ t \in Tools
    BY <1>1, RecordParts
  <2>2. /\ r.kind = "metadata" =>
              named \in [enabled : BOOLEAN, name : Names] /\ named.enabled = record[t].enabled
        /\ published \in [enabled : BOOLEAN, name : Names] /\ published.enabled
        /\ drafted \in [enabled : BOOLEAN, name : Names] /\ ~ drafted.enabled
    BY <1>1, <2>1
  <2>3. Committed(r)[t] = CASE r.kind = "metadata" -> named
                            [] r.kind = "graph" -> published
                            [] r.kind = "delete" -> None
                            [] OTHER -> drafted
    BY <1>3, <2>1 DEF Committed
  <2> HIDE DEF named, published, drafted
  <2>4. None \in Records /\ [enabled : BOOLEAN, name : Names] \subseteq Records
    BY DEF Records
  <2>5. QED BY <2>2, <2>3, <2>4, NoneAssumption
<1>4. Committed(r) = [t \in Tools |-> Committed(r)[t]]
  BY DEF Committed
<1>5. QED BY <1>1, <1>2, <1>3, <1>4
\* A commit leaves what it changed hidden, or on the list.
LEMMA CommitInv == ASSUME IInv, NEW c \in Commands, Commit(c) PROVE IInv'
<1>1. job[c] # None /\ UNCHANGED <<assistant, suspect, faults>>
  BY DEF Commit
<1>2. PICK j \in Jobs : /\ job[c] = j
                        /\ Shape(j) /\ Reversible(j) /\ Withdrawn(j)
                        /\ Published(j) /\ Aligned(j)
  BY <1>1, AtWork
<1>3. PICK r \in AllRequests : j.request = r
  BY JobParts
<1>4. /\ j.step = "commit" /\ j.todo = {} /\ j.aim = "ok" /\ r.kind # "startup"
      /\ Types /\ record \in [Tools -> Records]
  BY <1>2, <1>3 DEF Commit, IInv, Shape, Types
<1>5. /\ r.tools \in SUBSET Tools
      /\ active = j.from
      /\ \A t \in r.tools : record[t] # None /\ Home[t] = active
  BY <1>2, <1>3, <1>4, RequestParts DEF Shape, Reversible, Undone
<1>6. PICK records \in [Tools -> Records] :
        /\ records = Committed(r)
        /\ \A t \in Tools \ r.tools : records[t] = record[t]
        /\ \A t \in r.tools :
              /\ r.kind = "delete" => records[t] = None
              /\ r.kind # "delete" => records[t] # None
              /\ r.kind \in {"draft", "component", "startup", "activate"} =>
                    ~ records[t].enabled
              /\ r.kind = "metadata" => records[t].enabled = record[t].enabled
              /\ r.kind = "graph" => records[t].enabled
  BY <1>4, <1>5, CommittedParts
<1>7. record' = records /\ active' = IF r.kind = "activate" THEN r.to ELSE active
  BY <1>2, <1>3, <1>6 DEF Commit
<1>8. active' \in Repositories
  BY <1>4, <1>7, RequestParts DEF Types
<1>9. ASSUME r.kind # "activate", NEW t \in Tools \ r.tools, Matches(t) PROVE Matches(t)'
  BY <1>1, <1>6, <1>7, <1>9 DEF Matches, Visible, Listed
<1>10. CASE Withdraws(r.kind)
  <2>1. job' = [job EXCEPT ![c] = None] /\ answer' = [answer EXCEPT ![c] = "ok"]
    BY <1>2, <1>3, <1>10 DEF Commit, Answer
  <2>2. ASSUME NEW t \in r.tools PROVE Matches(t)'
    <3>1. ~ Visible(t)
      BY <1>2, <1>3, <1>4, <1>10 DEF Withdrawn
    <3>2. records[t] = None \/ ~ records[t].enabled
      BY <1>6, <1>10 DEF Withdraws
    <3>3. QED BY <1>1, <1>7, <3>1, <3>2 DEF Matches, Visible, Listed
  <2>3. ~ suspect => \A t \in Tools : Matches(t)'
    BY <1>2, <1>3, <1>4, <1>9, <1>10, <2>2 DEF Withdrawn, Withdraws
  <2>4. job'[c] = None
    BY <1>1, <2>1, OthersIdle
  <2>5. JobInv(c)' /\ Rested'
    BY <1>1, <2>3, <2>4 DEF JobInv, Rested
  <2>6. answer' \in [Commands -> {"none", "ok", "failed", "broken", "not synchronized"}]
    BY <1>4, <2>1 DEF Types
  <2>7. QED BY <1>1, <1>4, <1>7, <1>8, <2>1, <2>5, <2>6, StepOfOne DEF Types
<1>11. CASE r.kind = "activate"
  <2>1. PICK x \in Jobs :
          /\ job' = [job EXCEPT ![c] = x] /\ UNCHANGED answer
          /\ x.request = j.request /\ x.step = "validate" /\ x.aim = j.aim
          /\ x.before = j.before /\ x.from = j.from /\ x.todo = j.todo
    <3> DEFINE x == [j EXCEPT !.step = "validate"]
    <3>1. job' = [job EXCEPT ![c] = x] /\ UNCHANGED answer
      BY <1>2, <1>3, <1>11 DEF Commit, Continue, Withdraws
    <3>2. x \in Jobs
      BY JobGoesOn DEF Steps
    <3>3. /\ x.request = j.request /\ x.step = "validate" /\ x.aim = j.aim
          /\ x.before = j.before /\ x.from = j.from /\ x.todo = j.todo
      BY DEF Jobs
    <3> HIDE DEF x
    <3>4. QED BY <3>1, <3>2, <3>3
  <2>2. Shape(x)'
    BY <1>2, <1>3, <1>4, <1>11, <2>1 DEF Shape, Withdraws
  <2>3. Reversible(x)' /\ Withdrawn(x)' /\ Published(x)' /\ Aligned(x)'
    BY <2>1 DEF Reversible, Withdrawn, Published, Aligned
  <2>4. job'[c] = x /\ ~ LockFree'
    BY <1>1, <2>1, OthersIdle, JobParts
  <2>5. JobInv(c)' /\ Rested'
    BY <2>2, <2>3, <2>4 DEF JobInv, Rested
  <2>6. QED BY <1>1, <1>4, <1>7, <1>8, <2>1, <2>5, StepOfOne DEF Types
<1>12. CASE ~ Withdraws(r.kind) /\ r.kind # "activate"
  <2>1. r.kind \in {"metadata", "graph", "component"}
    BY <1>3, <1>4, <1>12, RequestParts DEF Withdraws
  <2> DEFINE drafts == {t \in Listed : ~ records[t].enabled}
             published == {t \in r.tools : records[t] # None /\ records[t].enabled}
             todo == ToSync(r, records)
  <2>2. /\ r.kind = "component" => todo = Syncs(drafts, FALSE)
        /\ r.kind # "component" => todo = Syncs(published, TRUE)
    BY DEF ToSync
  <2>3. drafts \in SUBSET Tools /\ published \in SUBSET Tools
    BY <1>5 DEF Listed
  <2>4. /\ todo \in SUBSET (Tools \X BOOLEAN)
        /\ r.kind = "component" =>
              /\ \A next \in todo : next[1] \in drafts /\ next[2] = FALSE
              /\ \A t \in drafts : <<t, FALSE>> \in todo
        /\ r.kind # "component" =>
              /\ \A next \in todo : next[1] \in published /\ next[2] = TRUE
              /\ \A t \in published : <<t, TRUE>> \in todo
    <3>1. CASE r.kind = "component"
      <4>1. /\ Syncs(drafts, FALSE) \in SUBSET (Tools \X BOOLEAN)
            /\ \A next \in Syncs(drafts, FALSE) : next[1] \in drafts /\ next[2] = FALSE
            /\ \A t \in drafts : <<t, FALSE>> \in Syncs(drafts, FALSE)
        BY <2>3, SyncsParts
      <4>2. QED BY <2>2, <3>1, <4>1
    <3>2. CASE r.kind # "component"
      <4>1. /\ Syncs(published, TRUE) \in SUBSET (Tools \X BOOLEAN)
            /\ \A next \in Syncs(published, TRUE) : next[1] \in published /\ next[2] = TRUE
            /\ \A t \in published : <<t, TRUE>> \in Syncs(published, TRUE)
        BY <2>3, SyncsParts
      <4>2. QED BY <2>2, <3>2, <4>1
    <3>3. QED BY <3>1, <3>2
  <2>5. \A t \in Tools : records[t] # None => records[t].enabled \in BOOLEAN
    BY RecordParts
  <2>6. Listed' = Listed /\ r.tools \subseteq Listed /\ Listed \subseteq Tools
    BY <1>5, <1>6, <1>7, <2>1 DEF Listed
  <2>7. \A next \in todo : next[1] \in Listed' /\ next[2] = record'[next[1]].enabled
    BY <1>6, <1>7, <2>1, <2>4, <2>5, <2>6 DEF Listed
  <2>8. ASSUME ~ suspect, NEW t \in Tools
        PROVE  Matches(t)' \/ (t \in Listed' /\ <<t, record'[t].enabled>> \in todo)
    <3>1. Matches(t)
      BY <1>2, <1>3, <1>4, <1>12, <2>8 DEF Published
    <3>2. CASE t \notin r.tools
      BY <1>9, <1>12, <3>1, <3>2
    <3>3. CASE t \in r.tools /\ r.kind = "component"
      <4>1. records[t] # None /\ records[t].enabled = FALSE /\ t \in drafts
        BY <1>6, <2>5, <2>6, <3>3
      <4>2. QED BY <1>7, <2>4, <2>6, <3>3, <4>1
    <3>4. CASE t \in r.tools /\ r.kind # "component" /\ records[t].enabled
      <4>1. records[t] # None /\ records[t].enabled = TRUE /\ t \in published
        BY <1>6, <2>1, <2>5, <2>6, <3>4
      <4>2. QED BY <1>7, <2>4, <2>6, <3>4, <4>1
    <3>5. CASE t \in r.tools /\ r.kind # "component" /\ ~ records[t].enabled
      <4>1. CASE r.kind = "metadata"
        BY <1>1, <1>6, <1>7, <2>6, <3>1, <3>5, <4>1 DEF Matches, Visible
      <4>2. CASE r.kind = "graph"
        <5>1. records[t].enabled
          BY <1>6, <3>5, <4>2
        <5>2. QED BY <3>5, <5>1
      <4>3. QED BY <2>1, <3>5, <4>1, <4>2
    <3>6. QED BY <3>2, <3>3, <3>4, <3>5
  <2> HIDE DEF todo
  <2>9. PICK x \in Jobs :
          /\ job' = [job EXCEPT ![c] = x] /\ UNCHANGED answer
          /\ x.request = j.request /\ x.step = "sync" /\ x.aim = j.aim
          /\ x.before = j.before /\ x.from = j.from /\ x.todo = todo
    <3> DEFINE x == [j EXCEPT !.step = "sync", !.todo = todo]
    <3>1. job' = [job EXCEPT ![c] = x] /\ UNCHANGED answer
      BY <1>2, <1>3, <1>6, <1>12 DEF Commit, Continue, todo
    <3>2. x \in Jobs
      BY <2>4, JobGoesOn DEF Steps
    <3>3. /\ x.request = j.request /\ x.step = "sync" /\ x.aim = j.aim
          /\ x.before = j.before /\ x.from = j.from /\ x.todo = todo
      BY DEF Jobs
    <3> HIDE DEF x
    <3>4. QED BY <3>1, <3>2, <3>3
  <2>10. Shape(x)'
    BY <1>2, <1>3, <1>4, <1>12, <2>9 DEF Shape
  <2>11. Reversible(x)' /\ Withdrawn(x)' /\ Aligned(x)'
    BY <1>3, <1>12, <2>9 DEF Reversible, Withdrawn, Aligned
  <2>12. Published(x)'
    BY <1>1, <2>7, <2>8, <2>9 DEF Published
  <2>13. job'[c] = x /\ ~ LockFree'
    BY <1>1, <2>9, OthersIdle, JobParts
  <2>14. JobInv(c)' /\ Rested'
    BY <2>10, <2>11, <2>12, <2>13 DEF JobInv, Rested
  <2>15. QED BY <1>1, <1>4, <1>7, <1>8, <2>9, <2>14, StepOfOne DEF Types
<1>13. QED BY <1>10, <1>11, <1>12
\* What is put back is what the command found.
LEMMA RestoreInv == ASSUME IInv, NEW c \in Commands, Restore(c) PROVE IInv'
<1>1. job[c] # None /\ UNCHANGED <<assistant, suspect, faults, answer>>
  BY DEF Restore, Continue
<1>2. PICK j \in Jobs : /\ job[c] = j
                        /\ Shape(j) /\ Reversible(j) /\ Withdrawn(j)
                        /\ Published(j) /\ Aligned(j)
  BY <1>1, AtWork
<1>3. j.step = "restore" /\ Types /\ record \in [Tools -> Records]
  BY <1>2 DEF Restore, IInv, Types
<1>4. PICK S \in SUBSET Tools : j.before \in [S -> Records]
  BY JobParts
<1>5. PICK records \in [Tools -> Records] :
        records = Restored(j) /\ \A t \in DOMAIN j.before : records[t] = j.before[t]
  <2>1. Restored(j) \in [Tools -> Records]
    BY <1>3, <1>4 DEF Restored
  <2>2. \A t \in DOMAIN j.before : Restored(j)[t] = j.before[t]
    BY <1>4 DEF Restored
  <2>3. QED BY <2>1, <2>2
<1>6. record' = records /\ active' = j.from /\ j.from \in Repositories
  BY <1>2, <1>5, JobParts DEF Restore
<1>7. AllOf(j.from, records) \in SUBSET (Tools \X BOOLEAN)
  BY AllOfParts
<1>8. PICK x \in Jobs :
        /\ job' = [job EXCEPT ![c] = x]
        /\ x.request = j.request /\ x.step = "reconcile" /\ x.aim = "failed"
        /\ x.before = j.before /\ x.from = j.from /\ x.todo = AllOf(j.from, records)
  <2> DEFINE x == [j EXCEPT !.step = "reconcile", !.todo = AllOf(j.from, records),
                            !.aim = "failed"]
  <2>1. job' = [job EXCEPT ![c] = x]
    BY <1>2, <1>5 DEF Restore, Continue, Repair
  <2>2. x \in Jobs
    BY <1>7, JobGoesOn DEF Steps
  <2>3. /\ x.request = j.request /\ x.step = "reconcile" /\ x.aim = "failed"
        /\ x.before = j.before /\ x.from = j.from /\ x.todo = AllOf(j.from, records)
    BY DEF Jobs
  <2> HIDE DEF x
  <2>4. QED BY <2>1, <2>2, <2>3
<1>9. Shape(x)'
  BY <1>2, <1>3, <1>8 DEF Shape, Withdraws
<1>10. Reversible(x)'
  BY <1>5, <1>6, <1>8 DEF Reversible, Undone
<1>11. Withdrawn(x)' /\ Published(x)' /\ Aligned(x)'
  BY <1>6, <1>8, ReconcileBegins
<1>12. job'[c] = x /\ ~ LockFree'
  BY <1>1, <1>8, OthersIdle, JobParts
<1>13. JobInv(c)' /\ Rested'
  BY <1>9, <1>10, <1>11, <1>12 DEF JobInv, Rested
<1>14. QED BY <1>1, <1>3, <1>6, <1>8, <1>13, StepOfOne DEF Types

\* An error is undone, repaired or answered; only an error while aligning
\* leaves Assistants nobody vouches for.
LEMMA FailInv == ASSUME IInv, NEW c \in Commands, Fail(c) PROVE IInv'
<1>1. job[c] # None /\ UNCHANGED <<active, record>> /\ faults' = faults + 1
  BY DEF Fail
<1>2. PICK j \in Jobs : /\ job[c] = j
                        /\ Shape(j) /\ Reversible(j) /\ Withdrawn(j)
                        /\ Published(j) /\ Aligned(j)
  BY <1>1, AtWork
<1>3. Types /\ record \in [Tools -> Records]
  BY DEF IInv, Types
<1>4. /\ assistant' \in [Tools -> Assistants]
      /\ j.todo = {} => UNCHANGED assistant
  <2>1. UNCHANGED assistant \/ \E next \in j.todo : Effect(c, next)
    BY <1>2 DEF Fail
  <2>2. ASSUME NEW next \in j.todo, Effect(c, next) PROVE assistant' \in [Tools -> Assistants]
    BY <1>1, <1>2, <1>3, <2>2, EffectOfSync
  <2>3. QED BY <1>3, <2>1, <2>2 DEF Types
<1>5. faults' \in Nat /\ active' \in Repositories /\ record' \in [Tools -> Records]
  <2>1. faults \in Nat /\ active \in Repositories
    BY <1>3 DEF Types
  <2>2. faults' \in Nat
    BY <1>1, <2>1
  <2>3. QED BY <1>1, <1>3, <2>1, <2>2
<1>6. CASE Undoes(j) /\ Continue(c, [j EXCEPT !.step = "restore", !.todo = {}])
             /\ UNCHANGED suspect
  <2>1. PICK x \in Jobs :
          /\ job' = [job EXCEPT ![c] = x] /\ UNCHANGED answer
          /\ x.request = j.request /\ x.step = "restore" /\ x.aim = j.aim
          /\ x.before = j.before /\ x.from = j.from /\ x.todo = {}
    <3> DEFINE x == [j EXCEPT !.step = "restore", !.todo = {}]
    <3>1. job' = [job EXCEPT ![c] = x] /\ UNCHANGED answer
      BY <1>6 DEF Continue
    <3>2. x \in Jobs
      BY JobGoesOn DEF Steps
    <3>3. /\ x.request = j.request /\ x.step = "restore" /\ x.aim = j.aim
          /\ x.before = j.before /\ x.from = j.from /\ x.todo = {}
      BY DEF Jobs
    <3> HIDE DEF x
    <3>4. QED BY <3>1, <3>2, <3>3
  <2>2. Shape(x)'
    BY <1>2, <1>6, <2>1 DEF Shape, Undoes, Withdraws
  <2>3. Reversible(x)' /\ Withdrawn(x)' /\ Published(x)' /\ Aligned(x)'
    BY <2>1 DEF Reversible, Withdrawn, Published, Aligned
  <2>4. job'[c] = x /\ ~ LockFree'
    BY <1>1, <2>1, OthersIdle, JobParts
  <2>5. JobInv(c)' /\ Rested'
    BY <2>2, <2>3, <2>4 DEF JobInv, Rested
  <2>6. QED BY <1>1, <1>3, <1>4, <1>5, <1>6, <2>1, <2>5, StepOfOne DEF Types
<1>7. CASE Repairs(j) /\ Continue(c, Repair(j, active, record)) /\ UNCHANGED suspect
  <2>1. AllOf(active, record) \in SUBSET (Tools \X BOOLEAN)
    BY <1>3, AllOfParts
  <2>2. PICK x \in Jobs :
          /\ job' = [job EXCEPT ![c] = x] /\ UNCHANGED answer
          /\ x.request = j.request /\ x.step = "reconcile" /\ x.aim = "failed"
          /\ x.before = j.before /\ x.from = j.from /\ x.todo = AllOf(active, record)
    <3> DEFINE x == [j EXCEPT !.step = "reconcile", !.todo = AllOf(active, record),
                              !.aim = "failed"]
    <3>1. job' = [job EXCEPT ![c] = x] /\ UNCHANGED answer
      BY <1>7 DEF Continue, Repair
    <3>2. x \in Jobs
      BY <2>1, JobGoesOn DEF Steps
    <3>3. /\ x.request = j.request /\ x.step = "reconcile" /\ x.aim = "failed"
          /\ x.before = j.before /\ x.from = j.from /\ x.todo = AllOf(active, record)
      BY DEF Jobs
    <3> HIDE DEF x
    <3>4. QED BY <3>1, <3>2, <3>3
  <2>3. Shape(x)'
    BY <1>2, <1>7, <2>2 DEF Shape, Repairs, Withdraws
  <2>4. Reversible(x)'
    BY <1>1, <1>2, <1>7, <2>2 DEF Reversible, Undone, Repairs, Shape
  <2>5. Withdrawn(x)' /\ Published(x)' /\ Aligned(x)'
    BY <1>1, <1>5, <2>2, ReconcileBegins
  <2>6. job'[c] = x /\ ~ LockFree'
    BY <1>1, <2>2, OthersIdle, JobParts
  <2>7. JobInv(c)' /\ Rested'
    BY <2>3, <2>4, <2>5, <2>6 DEF JobInv, Rested
  <2>8. QED BY <1>1, <1>3, <1>4, <1>5, <1>7, <2>2, <2>7, StepOfOne DEF Types
<1>8. ASSUME Ends(j), NEW text \in {"broken", "not synchronized", "failed"},
             Answer(c, text), suspect' = (suspect \/ j.step # "commit")
      PROVE  IInv'
  <2>1. /\ job' = [job EXCEPT ![c] = None] /\ answer' = [answer EXCEPT ![c] = text]
        /\ suspect' \in BOOLEAN
    BY <1>3, <1>8 DEF Answer, Types
  <2>2. ~ suspect' => \A t \in Tools : Matches(t)'
    <3>1. SUFFICES ASSUME ~ suspect, j.step = "commit" PROVE \A t \in Tools : Matches(t)'
      BY <1>3, <1>8 DEF Types
    <3>2. j.todo = {} /\ ~ Withdraws(j.request.kind)
      BY <1>2, <1>8, <3>1 DEF Shape, Ends, Repairs
    <3>3. \A t \in Tools : Matches(t)
      BY <1>2, <3>1, <3>2 DEF Published
    <3>4. QED BY <1>1, <1>4, <3>2, <3>3, SameStores
  <2>3. job'[c] = None
    BY <1>1, <2>1, OthersIdle
  <2>4. JobInv(c)' /\ Rested'
    BY <2>2, <2>3 DEF JobInv, Rested
  <2>5. answer' \in [Commands -> {"none", "ok", "failed", "broken", "not synchronized"}]
    BY <1>3, <2>1 DEF Types
  <2>6. QED BY <1>1, <1>4, <1>5, <2>1, <2>4, <2>5, StepOfOne
<1>9. \/ Undoes(j) /\ Continue(c, [j EXCEPT !.step = "restore", !.todo = {}])
        /\ UNCHANGED suspect
      \/ Repairs(j) /\ Continue(c, Repair(j, active, record)) /\ UNCHANGED suspect
      \/ /\ Ends(j) /\ suspect' = (suspect \/ j.step # "commit")
         /\ \E text \in {"broken", "not synchronized", "failed"} : Answer(c, text)
  BY <1>2 DEF Fail, AfterError
<1>10. QED BY <1>6, <1>7, <1>8, <1>9

\* The next start of the server has everything still to align.
LEMMA RestartInv == ASSUME IInv, NEW c \in Commands, Restart(c) PROVE IInv'
<1> DEFINE x == [request |-> [kind |-> "startup", tools |-> {}],
                 step |-> "reconcile", todo |-> AllOf(active, record),
                 aim |-> "ok", before |-> [t \in {} |-> None], from |-> active]
<1>1. /\ job' = [d \in Commands |-> IF d # c THEN None ELSE x]
      /\ answer' = [d \in Commands |-> "none"]
      /\ faults' = faults + 1 /\ suspect' = TRUE
      /\ UNCHANGED <<active, record, assistant>>
  BY DEF Restart
<1>2. Types /\ record \in [Tools -> Records] /\ active \in Repositories
  BY DEF IInv, Types
<1>3. AllOf(active, record) \in SUBSET (Tools \X BOOLEAN)
  BY <1>2, AllOfParts
<1>4. x \in Jobs
  <2> DEFINE Befores == UNION {[S -> Records] : S \in SUBSET Tools}
  <2>1. [t \in {} |-> None] \in Befores
    <3>1. [t \in {} |-> None] \in [{} -> Records]
      OBVIOUS
    <3>2. QED BY <3>1
  <2>2. [kind |-> "startup", tools |-> {}] \in AllRequests
    BY DEF AllRequests
  <2>3. Jobs = [request : AllRequests, step : Steps, todo : SUBSET (Tools \X BOOLEAN),
                aim : {"ok", "failed"}, before : Befores, from : Repositories]
    BY DEF Jobs
  <2> HIDE DEF Befores
  <2>4. QED BY <1>2, <1>3, <2>1, <2>2, <2>3 DEF Steps
<1>5. PICK y \in Jobs :
        /\ y = x /\ y.request.kind = "startup" /\ y.request.tools = {}
        /\ y.step = "reconcile" /\ y.aim = "ok" /\ y.todo = AllOf(active, record)
        /\ DOMAIN y.before = {} /\ y.from = active
  BY <1>4
<1>6. /\ job' = [d \in Commands |-> IF d # c THEN None ELSE y] /\ y # None
  BY <1>1, <1>5, JobParts
<1> HIDE DEF x
<1>7. Types'
  <2>1. faults \in Nat /\ assistant \in [Tools -> Assistants]
    BY <1>2 DEF Types
  <2>2. faults' \in Nat
    BY <1>1, <2>1
  <2>3. job' \in [Commands -> Jobs \cup {None}]
    BY <1>6
  <2>4. answer' \in [Commands -> {"none", "ok", "failed", "broken", "not synchronized"}]
    BY <1>1
  <2>5. QED BY <1>1, <1>2, <2>1, <2>2, <2>3, <2>4 DEF Types
<1>8. OneAtWork' /\ Rested'
  BY <1>1, <1>6 DEF OneAtWork, Rested
<1>9. Shape(y)' /\ Reversible(y)'
  BY <1>5 DEF Shape, Reversible, Withdraws
<1>10. Withdrawn(y)' /\ Published(y)' /\ Aligned(y)'
  BY <1>1, <1>2, <1>5, ReconcileBegins
<1>11. \A d \in Commands : JobInv(d)'
  BY <1>6, <1>9, <1>10 DEF JobInv
<1>12. QED BY <1>7, <1>8, <1>11 DEF IInv

\* No step breaks the invariant.
LEMMA NextIInv == IInv /\ [Next]_vars => IInv'
<1> SUFFICES ASSUME IInv, [Next]_vars PROVE IInv'
  OBVIOUS
<1>1. ASSUME NEW t \in Tools, NEW name \in Names, Create(t, name) PROVE IInv'
  BY <1>1, CreateInv
<1>2. ASSUME NEW c \in Commands,
             \/ Enter(c) \/ Commit(c) \/ Validate(c)
             \/ SyncOne(c) \/ Synchronized(c) \/ FindOrphans(c) \/ Reconciled(c)
             \/ Restore(c) \/ Fail(c) \/ Restart(c)
      PROVE  IInv'
  BY <1>2, EnterInv, CommitInv, ValidateInv, SyncOneInv, SynchronizedInv,
     FindOrphansInv, ReconciledInv, RestoreInv, FailInv, RestartInv
<1>3. CASE UNCHANGED vars
  <2>1. UNCHANGED <<active, record, assistant, job, answer, suspect, faults>>
    BY <1>3 DEF vars
  <2>2. Types' /\ OneAtWork' /\ Rested'
    BY <2>1 DEF IInv, Types, OneAtWork, Rested, LockFree, Matches, Visible, Listed
  <2>3. ASSUME NEW c \in Commands, job'[c] # None
        PROVE  /\ Shape(job[c])' /\ Reversible(job[c])'
               /\ Withdrawn(job[c])' /\ Published(job[c])' /\ Aligned(job[c])'
    <3>1. PICK j \in Jobs : /\ job[c] = j
                            /\ Shape(j) /\ Reversible(j) /\ Withdrawn(j)
                            /\ Published(j) /\ Aligned(j)
      BY <2>1, <2>3, AtWork
    <3>2. Shape(j)' /\ Reversible(j)'
      BY <2>1, <3>1 DEF Shape, Reversible, Undone
    <3>3. Withdrawn(j)' /\ Published(j)' /\ Aligned(j)'
      BY <2>1, <3>1, SameStores DEF Withdrawn, Published, Aligned
    <3>4. job'[c] = j
      BY <2>1, <3>1
    <3>5. QED BY <3>2, <3>3, <3>4
  <2>4. QED BY <2>2, <2>3 DEF IInv, JobInv
<1>4. QED BY <1>1, <1>2, <1>3 DEF Next

(***************************************************************************)
(* The results.                                                            *)
(***************************************************************************)

\* Between commands /mcp lists exactly the published Tools of the active
\* repository, unless the last attempt to align the Assistants failed itself
\* (McpToolPublicationService.reconcile, _repair_publication).
THEOREM ListedAsPublished_Spec == Spec => []ListedAsPublished
<1>1. IInv => ListedAsPublished
  BY DEF IInv, Rested, ListedAsPublished, Matches, Visible
<1>2. QED BY InitIInv, NextIInv, <1>1, PTL DEF Spec
\* What a step that ends a command with "failed" leaves.
Restores ==
    \A c \in Commands :
        /\ job[c] # None /\ job'[c] = None
        /\ answer'[c] = "failed" /\ job[c].request.kind # "startup"
        => /\ active' = job[c].from
           /\ \A t \in DOMAIN job[c].before : record'[t] = job[c].before[t]

\* A command at work has not answered yet.
Quiet == \A c \in Commands : job[c] # None => answer[c] = "none"

\* Only the end of a command, or a new one, changes its answer.
LEMMA QuietInv == IInv /\ Quiet /\ [Next]_vars => Quiet'
<1> SUFFICES ASSUME IInv, Quiet, [Next]_vars PROVE Quiet'
  OBVIOUS
<1>1. /\ job \in [Commands -> Jobs \cup {None}]
      /\ answer \in [Commands -> {"none", "ok", "failed", "broken", "not synchronized"}]
  BY DEF IInv, Types
<1>2. ASSUME NEW c \in Commands, NEW next, job[c] # None, Continue(c, next) PROVE Quiet'
  BY <1>1, <1>2 DEF Continue, Quiet
<1>3. ASSUME NEW c \in Commands, NEW text, Answer(c, text) PROVE Quiet'
  BY <1>1, <1>3 DEF Answer, Quiet
<1>4. ASSUME NEW t \in Tools, NEW name \in Names, Create(t, name) PROVE Quiet'
  BY <1>4 DEF Create, Quiet
<1>5. ASSUME NEW c \in Commands, Enter(c) PROVE Quiet'
  BY <1>1, <1>5 DEF Enter, Quiet
<1>6. ASSUME NEW c \in Commands, Commit(c) PROVE Quiet'
  BY <1>2, <1>3, <1>6 DEF Commit
<1>7. ASSUME NEW c \in Commands,
             Validate(c) \/ SyncOne(c) \/ FindOrphans(c) \/ Restore(c) PROVE Quiet'
  BY <1>2, <1>7 DEF Validate, SyncOne, FindOrphans, Restore
<1>8. ASSUME NEW c \in Commands, Synchronized(c) \/ Reconciled(c) PROVE Quiet'
  BY <1>2, <1>3, <1>8 DEF Synchronized, Reconciled
<1>9. ASSUME NEW c \in Commands, Fail(c) PROVE Quiet'
  BY <1>2, <1>3, <1>9 DEF Fail, AfterError
<1>10. ASSUME NEW c \in Commands, Restart(c) PROVE Quiet'
  BY <1>10 DEF Restart, Quiet
<1>11. CASE UNCHANGED vars
  BY <1>11 DEF vars, Quiet
<1>12. QED BY <1>4, <1>5, <1>6, <1>7, <1>8, <1>9, <1>10, <1>11 DEF Next

\* Which steps answer "failed" to a command at work.
LEMMA WhoFails ==
    ASSUME IInv, Quiet, Next, NEW d \in Commands, job[d] # None, answer'[d] = "failed"
    PROVE  \/ Reconciled(d) /\ job[d].aim = "failed"
           \/ Fail(d) /\ Ends(job[d]) /\ job[d].step \notin {"restore", "sync"}
<1>1. /\ answer[d] = "none"
      /\ answer \in [Commands -> {"none", "ok", "failed", "broken", "not synchronized"}]
  BY DEF Quiet, IInv, Types
<1>2. ~ UNCHANGED answer
  BY <1>1
<1>3. ASSUME NEW c \in Commands, NEW next, Continue(c, next) PROVE FALSE
  BY <1>2, <1>3 DEF Continue
<1>4. ASSUME NEW c \in Commands, NEW text, Answer(c, text) PROVE c = d /\ text = "failed"
  BY <1>1, <1>4 DEF Answer
<1>5. ASSUME NEW t \in Tools, NEW name \in Names, Create(t, name) PROVE FALSE
  BY <1>2, <1>5 DEF Create
<1>6. ASSUME NEW c \in Commands, Enter(c) \/ Restart(c) PROVE FALSE
  BY <1>1, <1>6 DEF Enter, Restart
<1>7. ASSUME NEW c \in Commands, Commit(c) PROVE FALSE
  BY <1>3, <1>4, <1>7 DEF Commit
<1>8. ASSUME NEW c \in Commands,
             Validate(c) \/ SyncOne(c) \/ FindOrphans(c) \/ Restore(c) PROVE FALSE
  BY <1>3, <1>8 DEF Validate, SyncOne, FindOrphans, Restore
<1>9. ASSUME NEW c \in Commands, Synchronized(c) PROVE FALSE
  BY <1>3, <1>4, <1>9 DEF Synchronized
<1>10. ASSUME NEW c \in Commands, Reconciled(c) PROVE c = d /\ job[d].aim = "failed"
  BY <1>4, <1>10 DEF Reconciled
<1>11. ASSUME NEW c \in Commands, Fail(c)
       PROVE  c = d /\ Ends(job[d]) /\ job[d].step \notin {"restore", "sync"}
  <2> DEFINE text == CASE job[c].step = "restore" -> "broken"
                       [] job[c].step = "sync" -> "not synchronized"
                       [] OTHER -> "failed"
  <2>1. Ends(job[c]) /\ Answer(c, text)
    BY <1>3, <1>11 DEF Fail, AfterError
  <2>2. job[c].step \in {"restore", "sync"} => text # "failed"
    OBVIOUS
  <2> HIDE DEF text
  <2>3. c = d /\ text = "failed"
    BY <1>4, <2>1
  <2>4. QED BY <2>1, <2>2, <2>3
<1>12. QED BY <1>5, <1>6, <1>7, <1>8, <1>9, <1>10, <1>11 DEF Next

\* A command ends with "failed" only in two places: its own work undone and
\* aligned, or nothing of it committed.
LEMMA StepRestores == IInv /\ Quiet /\ Next => Restores
<1> SUFFICES ASSUME IInv, Quiet, Next, NEW d \in Commands, job[d] # None,
                    answer'[d] = "failed", job[d].request.kind # "startup"
             PROVE  /\ active' = job[d].from
                    /\ \A t \in DOMAIN job[d].before : record'[t] = job[d].before[t]
  BY DEF Restores
<1>1. PICK j \in Jobs : job[d] = j /\ Shape(j) /\ Reversible(j)
  BY AtWork
<1>2. j.step \in Steps /\ j.aim \in {"ok", "failed"}
  BY JobParts
<1>3. CASE Reconciled(d) /\ j.aim = "failed"
  <2>1. j.step = "orphans" /\ UNCHANGED <<active, record>>
    BY <1>1, <1>3 DEF Reconciled
  <2>2. QED BY <1>1, <1>3, <2>1 DEF Reversible, Undone
<1>4. CASE Fail(d) /\ Ends(j) /\ j.step \notin {"restore", "sync"}
  <2>1. UNCHANGED <<active, record>>
    BY <1>4 DEF Fail
  <2>2. j.step = "commit" \/ (j.step \in {"reconcile", "orphans"} /\ j.aim = "failed")
    BY <1>1, <1>2, <1>4 DEF Ends, Undoes, Repairs, Shape, Steps, Reconciling
  <2>3. QED BY <1>1, <2>1, <2>2 DEF Reversible, Undone
<1>5. QED BY <1>1, <1>3, <1>4, WhoFails

\* A command that answers with an error after undoing its work has changed
\* neither its Tools' records nor the active repository, whatever failed and
\* whatever it had done (the except branches of api/mcp_tools.py and of the
\* activation route).
THEOREM FailureRestores_Spec == Spec => FailureRestores
<1>1. Init => Quiet
  BY DEF Init, Quiet
<1>2. IInv /\ Quiet /\ [Next]_vars => [Restores]_vars
  BY StepRestores
<1>3. FailureRestores <=> [][Restores]_vars
  BY PTL DEF FailureRestores, Restores
<1>4. QED BY InitIInv, NextIInv, QuietInv, <1>1, <1>2, <1>3, PTL DEF Spec

==============================================================================
