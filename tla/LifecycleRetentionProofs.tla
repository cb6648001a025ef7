---------------------- MODULE LifecycleRetentionProofs ----------------------
(***************************************************************************)
(* Theorems of LifecycleRetention for any numbers of Lifecycles, Runs,     *)
(* calls and faults: what a deletion leaves behind, which Runs it takes    *)
(* with it, and what overlapping sweeps keep.                              *)
(***************************************************************************)
EXTENDS LifecycleRetention, FiniteSetTheorems, TLAPS

-----------------------------------------------------------------------------
(* Types.  A Run that has begun belongs to a Lifecycle.                    *)

Used == \A r \in Runs : run[r].of = None => run[r].start = "unused" /\ run[r].status = "none"

TypeInv == TypeOK /\ Used

LEMMA NumbersAreNotNone == None \notin Lifecycles /\ None \notin Runs /\ 0 \notin Lifecycles
BY RetentionAssumption DEF Lifecycles, Runs

LEMMA ThingsOf ==
  ASSUME NEW l \in Lifecycles
  PROVE  /\ \A k \in OwnKinds : <<l, k, 0>> \in Things
         /\ \A k \in RunKinds, r \in Runs : <<l, k, r>> \in Things
BY DEF Things

LEMMA IdleIsTyped == Idle \in CleanerRecords
BY DEF Idle, CleanerRecords

\* What a request writes is added, and late if somebody deletes or has deleted.
LEMMA WriteAdds ==
  ASSUME TypeOK, NEW l \in Lifecycles, NEW xs \in SUBSET Things, Write(l, xs)
  PROVE  /\ data' = data \cup xs /\ data' \subseteq Things /\ late' \subseteq data'
         /\ late \subseteq late' /\ late' \subseteq late \cup xs
BY DEF TypeOK, Write

LEMMA RequestTypes ==
  ASSUME TypeInv, Requests
  PROVE  TypeInv'
<1>1. TypeOK /\ Used
  BY DEF TypeInv
<1>2. ASSUME NEW l \in Lifecycles, NEW r \in Runs, BeginLifecycle(l, r)
      PROVE  TypeInv'
  <2>1. [NoRun EXCEPT !.of = l, !.start = "recorded"] \in RunRecords
    BY DEF NoRun, RunRecords
  <2>2. run' \in [Runs -> RunRecords] /\ Used'
    BY <1>1, <1>2, <2>1, NumbersAreNotNone DEF BeginLifecycle, TypeOK, Used, NoRun
  <2>3. data' \subseteq Things /\ late' \subseteq data'
    BY <1>1, <1>2, WriteAdds, ThingsOf DEF BeginLifecycle, Record, OwnKinds
  <2> QED
    BY <1>1, <1>2, <2>2, <2>3 DEF TypeInv, TypeOK, BeginLifecycle
<1>3. ASSUME NEW p \in Runs, NEW r \in Runs, CallStart(p, r)
      PROVE  TypeInv'
  <2>1. run[p].of \in Lifecycles
    BY <1>1, <1>3 DEF CallStart, TypeOK, Used, RunRecords
  <2>2. [NoRun EXCEPT !.of = run[p].of, !.by = p, !.start = "ready"] \in RunRecords
    BY <2>1 DEF NoRun, RunRecords
  <2>3. run' \in [Runs -> RunRecords] /\ Used'
    BY <1>1, <1>3, <2>1, <2>2, NumbersAreNotNone DEF CallStart, TypeOK, Used, NoRun
  <2>4. data' \subseteq Things /\ late' \subseteq data'
    BY <1>1, <1>3, <2>1, WriteAdds, ThingsOf DEF CallStart, RunKinds
  <2> QED
    BY <1>1, <1>3, <2>3, <2>4 DEF TypeInv, TypeOK, CallStart
<1>4. ASSUME NEW r \in Runs, OpenThread(r) \/ StartRun(r) \/ RecordRelation(r)
                             \/ FailStart(r) \/ WriteFiles(r)
      PROVE  TypeInv'
  <2> DEFINE l == run[r].of
  <2>1. l \in Lifecycles
    BY <1>1, <1>4 DEF OpenThread, StartRun, RecordRelation, FailStart, WriteFiles, TypeOK, Used,
                      RunRecords
  <2>2. run' \in [Runs -> RunRecords] /\ Used'
    BY <1>1, <1>4, <2>1, NumbersAreNotNone
       DEF OpenThread, StartRun, RecordRelation, FailStart, WriteFiles, TypeOK, Used, RunRecords,
           Advance, EndAs
  <2>3. \/ UNCHANGED <<data, late>>
        \/ \E xs \in SUBSET Things : Write(l, xs)
    <3>1. /\ {Thread(r), <<l, "input", 0>>} \subseteq Things
          /\ {<<l, "run", r>>} \subseteq Things /\ {Relation(r)} \subseteq Things
          /\ {<<l, "error", 0>>} \subseteq Things
          /\ {<<l, "home", 0>>, <<l, "archive", 0>>} \subseteq Things
      BY <2>1, ThingsOf DEF OwnKinds, RunKinds, Thread, Relation
    <3> QED
      BY <1>4, <3>1 DEF OpenThread, StartRun, RecordRelation, FailStart, WriteFiles
  <2>4. data' \subseteq Things /\ late' \subseteq data'
    BY <1>1, <2>1, <2>3, WriteAdds DEF TypeOK
  <2>5. /\ UNCHANGED <<earlier, cleaner, swept, calls>>
        /\ UNCHANGED faults \/ Fault
    BY <1>4 DEF OpenThread, StartRun, RecordRelation, FailStart, WriteFiles
  <2>6. faults' \in 0..MaxFaults
    BY <1>1, <2>5, RetentionAssumption DEF TypeOK, Fault
  <2> QED
    BY <1>1, <2>2, <2>4, <2>5, <2>6 DEF TypeInv, TypeOK
<1>5. ASSUME NEW r \in Runs, NEW status \in Outcomes, EndRun(r, status)
      PROVE  TypeInv'
  <2>1. status \in {"success", "error"}
    BY RetentionAssumption
  <2>2. run' \in [Runs -> RunRecords] /\ Used'
    BY <1>1, <1>5, <2>1 DEF EndRun, TypeOK, Used, RunRecords
  <2> QED
    BY <1>1, <1>5, <2>2 DEF TypeInv, TypeOK, EndRun
<1> QED
  BY <1>2, <1>3, <1>4, <1>5 DEF Requests

-----------------------------------------------------------------------------
(* What a step of the service does to its call and to the things.          *)

\* The call takes its next step, and the others none.
Steps(c, new) ==
  /\ new \in CleanerRecords
  /\ cleaner' = [cleaner EXCEPT ![c] = new]

LEMMA StepsOnly ==
  ASSUME TypeOK, NEW c \in Cleaners, NEW new, Steps(c, new)
  PROVE  /\ cleaner' \in [Cleaners -> CleanerRecords] /\ cleaner'[c] = new
         /\ \A d \in Cleaners \ {c} : cleaner'[d] = cleaner[d]
BY DEF TypeOK, Steps

LEMMA GotoSteps ==
  ASSUME TypeOK, NEW c \in Cleaners, NEW pc, Goto(c, pc),
         pc \in {"threads", "deleting", "archive", "listing"}
  PROVE  \E new : /\ Steps(c, new) /\ new.pc = pc /\ new.job = cleaner[c].job
                  /\ new.target = cleaner[c].target /\ new.queue = cleaner[c].queue
                  /\ new.threads = cleaner[c].threads /\ new.left = cleaner[c].left
<1> DEFINE new == [cleaner[c] EXCEPT !.pc = pc]
<1>1. new \in CleanerRecords
  BY DEF TypeOK, CleanerRecords
<1>2. cleaner' = [cleaner EXCEPT ![c] = new]
  BY DEF Goto
<1>3. /\ new.pc = pc /\ new.job = cleaner[c].job /\ new.target = cleaner[c].target
      /\ new.queue = cleaner[c].queue /\ new.threads = cleaner[c].threads
      /\ new.left = cleaner[c].left
  BY DEF TypeOK, CleanerRecords
<1> QED
  BY <1>1, <1>2, <1>3 DEF Steps

\* The next Lifecycle of the list, or the end of the call.
Starts(c, new, todo) ==
  \/ new = Idle
  \/ /\ new.pc = "reading" /\ new.job = cleaner[c].job
     /\ new.target \in todo /\ new.queue = todo \ {new.target}

LEMMA TakingStarts ==
  ASSUME TypeOK, NEW c \in Cleaners, NEW todo \in SUBSET Lifecycles, NEW new \in Taking(c, todo)
  PROVE  new \in CleanerRecords /\ Starts(c, new, todo)
<1>1. CASE todo = {}
  BY <1>1, IdleIsTyped DEF Taking, Starts
<1>2. CASE todo # {}
  <2>1. PICK l \in Newest(todo) :
          new = [Idle EXCEPT !.pc = "reading", !.job = cleaner[c].job,
                             !.target = l, !.queue = todo \ {l}]
    BY <1>2 DEF Taking
  <2>2. l \in todo /\ l \in Lifecycles /\ todo \ {l} \in SUBSET Lifecycles
        /\ cleaner[c].job \in {"delete", "cancel", "bulk", "sweep", None}
    BY DEF Newest, TypeOK, CleanerRecords
  <2>3. new \in CleanerRecords
    BY <2>1, <2>2 DEF Idle, CleanerRecords
  <2>4. /\ new.pc = "reading" /\ new.job = cleaner[c].job /\ new.target = l
        /\ new.queue = todo \ {l}
    BY <2>1 DEF Idle
  <2> QED
    BY <2>2, <2>3, <2>4 DEF Starts
<1> QED
  BY <1>1, <1>2

\* The call stays with its Lifecycle and its list.
Stays(c, new) ==
  /\ new.job = cleaner[c].job /\ new.target = cleaner[c].target
  /\ new.queue = cleaner[c].queue

LEMMA SearchThreadsDoes ==
  ASSUME TypeOK, NEW c \in Cleaners, SearchThreads(c)
  PROVE  \E new : /\ Steps(c, new) /\ Stays(c, new) /\ new.pc = "relations"
                  /\ new.threads = {r \in RunsOf(cleaner[c].target) : Thread(r) \in data}
<1> DEFINE threads == {r \in RunsOf(cleaner[c].target) : Thread(r) \in data}
           new == [cleaner[c] EXCEPT !.pc = "relations", !.threads = threads]
<1>1. threads \in SUBSET Runs
  BY DEF RunsOf
<1>2. cleaner' = [cleaner EXCEPT ![c] = new]
  BY DEF SearchThreads, Step
<1> HIDE DEF threads
<1>3. new \in CleanerRecords /\ Stays(c, new) /\ new.pc = "relations" /\ new.threads = threads
  BY ZenonT(60), <1>1 DEF TypeOK, CleanerRecords, Stays
<1> QED
  BY <1>2, <1>3 DEF Steps, threads

LEMMA SearchRelationsDoes ==
  ASSUME TypeOK, NEW c \in Cleaners, SearchRelations(c)
  PROVE  \E new : /\ Steps(c, new) /\ Stays(c, new) /\ new.pc = "runs"
                  /\ cleaner[c].threads \subseteq new.threads
                  /\ \A r \in new.threads \ cleaner[c].threads :
                       r \in RunsOf(cleaner[c].target) /\ Thread(r) \in data
                  /\ new.threads \subseteq new.unread
<1> DEFINE l == cleaner[c].target
           related == {r \in RunsOf(l) : Relation(r) \in data}
           threads == cleaner[c].threads \cup {r \in related : Thread(r) \in data}
           kept == IF cleaner[c].job = "cancel" THEN related ELSE {}
           unread == threads \cup related
           new == [cleaner[c] EXCEPT !.pc = "runs", !.threads = threads, !.related = kept,
                                     !.unread = unread]
<1>1. /\ related \in SUBSET RunsOf(l) /\ RunsOf(l) \subseteq Runs /\ threads \in SUBSET Runs
      /\ kept \in SUBSET Runs /\ unread \in SUBSET Runs
      /\ cleaner[c].threads \subseteq threads /\ threads \subseteq unread
      /\ \A r \in threads \ cleaner[c].threads : r \in RunsOf(l) /\ Thread(r) \in data
  BY DEF RunsOf, TypeOK, CleanerRecords
<1>2. cleaner' = [cleaner EXCEPT ![c] = new]
  BY DEF SearchRelations, Step
<1> HIDE DEF threads, kept, unread
<1>3. /\ new \in CleanerRecords /\ Stays(c, new) /\ new.pc = "runs" /\ new.threads = threads
      /\ new.unread = unread
  BY ZenonT(60), <1>1 DEF TypeOK, CleanerRecords, Stays
<1> QED
  BY <1>1, <1>2, <1>3 DEF Steps

LEMMA ReadRunDoes ==
  ASSUME TypeOK, NEW c \in Cleaners, NEW r \in Runs, ReadRun(c, r)
  PROVE  \E new : /\ Steps(c, new) /\ Stays(c, new) /\ new.pc = "runs"
                  /\ new.threads = cleaner[c].threads
                  /\ new.unread = cleaner[c].unread \ {r}
                  /\ new.active = IF run[r].status = "active" THEN cleaner[c].active \cup {r}
                                  ELSE cleaner[c].active
<1> DEFINE active == IF run[r].status = "active" THEN cleaner[c].active \cup {r}
                     ELSE cleaner[c].active
           new == [cleaner[c] EXCEPT !.unread = cleaner[c].unread \ {r}, !.active = active]
<1>1. active \in SUBSET Runs /\ cleaner[c].unread \ {r} \in SUBSET Runs
  BY DEF TypeOK, CleanerRecords
<1>2. cleaner' = [cleaner EXCEPT ![c] = new] /\ cleaner[c].pc = "runs"
  BY DEF ReadRun, Step
<1> HIDE DEF active
<1>3. /\ new \in CleanerRecords /\ Stays(c, new) /\ new.pc = "runs"
      /\ new.threads = cleaner[c].threads /\ new.unread = cleaner[c].unread \ {r}
      /\ new.active = active
  BY ZenonT(60), <1>1, <1>2 DEF TypeOK, CleanerRecords, Stays
<1> QED
  BY <1>2, <1>3 DEF Steps, active

LEMMA CancelRunDoes ==
  ASSUME TypeOK, NEW c \in Cleaners, NEW r \in Runs, CancelRun(c, r)
  PROVE  \E new : Steps(c, new) /\ Stays(c, new) /\ new.pc = "runs"
<1> DEFINE new == [cleaner[c] EXCEPT !.active = cleaner[c].active \ {r}]
<1>1. cleaner' = [cleaner EXCEPT ![c] = new] /\ cleaner[c].pc = "runs"
  BY DEF CancelRun, Step
<1>2. new \in CleanerRecords /\ Stays(c, new) /\ new.pc = "runs"
  BY <1>1 DEF TypeOK, CleanerRecords, Stays
<1> QED
  BY <1>1, <1>2 DEF Steps

LEMMA DeleteThreadDoes ==
  ASSUME TypeOK, NEW c \in Cleaners, NEW r \in Runs, DeleteThread(c, r),
         <<cleaner[c].target, "thread", r>> \in data
  PROVE  \E new : /\ Steps(c, new) /\ Stays(c, new) /\ new.pc = "deleting"
                  /\ new.threads = cleaner[c].threads \ {r}
<1> DEFINE new == [cleaner[c] EXCEPT !.threads = cleaner[c].threads \ {r}]
<1>1. cleaner' = [cleaner EXCEPT ![c] = new] /\ cleaner[c].pc = "deleting"
  BY DEF DeleteThread, Step
<1>2. /\ new \in CleanerRecords /\ Stays(c, new) /\ new.pc = "deleting"
      /\ new.threads = cleaner[c].threads \ {r}
  BY <1>1 DEF TypeOK, CleanerRecords, Stays
<1> QED
  BY <1>1, <1>2 DEF Steps

LEMMA ListNamespacesDoes ==
  ASSUME TypeOK, NEW c \in Cleaners, ListNamespaces(c)
  PROVE  \E new : /\ Steps(c, new) /\ Stays(c, new) /\ new.pc = "store"
                  /\ new.threads = cleaner[c].threads
                  /\ new.left = {n \in Namespaces : Content(cleaner[c].target, n) # {}}
<1> DEFINE left == {n \in Namespaces : Content(cleaner[c].target, n) # {}}
           new == [cleaner[c] EXCEPT !.pc = "store", !.left = left]
<1>1. left \in SUBSET Namespaces
  OBVIOUS
<1>2. cleaner' = [cleaner EXCEPT ![c] = new]
  BY DEF ListNamespaces, Step
<1> HIDE DEF left
<1>3. /\ new \in CleanerRecords /\ Stays(c, new) /\ new.pc = "store"
      /\ new.threads = cleaner[c].threads /\ new.left = left
  BY ZenonT(60), <1>1 DEF TypeOK, CleanerRecords, Stays
<1> QED
  BY <1>2, <1>3 DEF Steps, left

LEMMA DropNamespaceDoes ==
  ASSUME TypeOK, NEW c \in Cleaners, NEW n \in Namespaces, DropNamespace(c, n)
  PROVE  \E new : /\ Steps(c, new) /\ Stays(c, new) /\ new.pc = "store"
                  /\ new.threads = cleaner[c].threads
                  /\ new.left = cleaner[c].left \ {n}
<1> DEFINE new == [cleaner[c] EXCEPT !.left = cleaner[c].left \ {n}]
<1>1. cleaner' = [cleaner EXCEPT ![c] = new] /\ cleaner[c].pc = "store"
  BY DEF DropNamespace, Step
<1>2. /\ new \in CleanerRecords /\ Stays(c, new) /\ new.pc = "store"
      /\ new.threads = cleaner[c].threads /\ new.left = cleaner[c].left \ {n}
  BY <1>1 DEF TypeOK, CleanerRecords, Stays
<1> QED
  BY <1>1, <1>2 DEF Steps

LEMMA JudgeDoes ==
  ASSUME TypeOK, NEW c \in Cleaners, NEW l \in Lifecycles, NEW status, Judge(c, l, status)
  PROVE  \E new : /\ Steps(c, new) /\ new.pc = "judging" /\ new.job = cleaner[c].job
                  /\ new.queue = cleaner[c].queue \ {l} /\ l \in cleaner[c].queue
                  /\ new.listed \subseteq cleaner[c].listed \cup {l}
<1> DEFINE listed == IF cleaner[c].job = "bulk" \/ Terminal(status)
                     THEN cleaner[c].listed \cup {l} ELSE cleaner[c].listed
           new == [cleaner[c] EXCEPT !.queue = cleaner[c].queue \ {l}, !.listed = listed]
<1>1. /\ listed \in SUBSET Lifecycles /\ listed \subseteq cleaner[c].listed \cup {l}
      /\ cleaner[c].queue \ {l} \in SUBSET Lifecycles
  BY DEF TypeOK, CleanerRecords
<1>2. /\ cleaner' = [cleaner EXCEPT ![c] = new] /\ cleaner[c].pc = "judging"
      /\ l \in cleaner[c].queue
  BY DEF Judge, Step, Newest
<1> HIDE DEF listed
<1>3. /\ new \in CleanerRecords /\ new.pc = "judging" /\ new.job = cleaner[c].job
      /\ new.queue = cleaner[c].queue \ {l} /\ new.listed = listed
  BY ZenonT(60), <1>1, <1>2 DEF TypeOK, CleanerRecords
<1> QED
  BY <1>1, <1>2, <1>3 DEF Steps

LEMMA CallsDo ==
  ASSUME TypeOK, NEW c \in Cleaners,
         \/ \E job \in {"delete", "cancel"}, l \in Lifecycles : CallOne(c, job, l)
         \/ \E job \in {"bulk", "sweep"} : CallAll(c, job)
  PROVE  \E new : /\ Steps(c, new)
                  /\ \/ new.pc = "reading" /\ new.job \in {"delete", "cancel"}
                     \/ /\ new.pc = "judging" /\ new.queue \subseteq Begun
                        /\ new.listed = {}
<1>1. ASSUME NEW job \in {"delete", "cancel"}, NEW l \in Lifecycles, CallOne(c, job, l)
      PROVE  \E new : Steps(c, new) /\ new.pc = "reading" /\ new.job \in {"delete", "cancel"}
  <2> DEFINE new == [Idle EXCEPT !.pc = "reading", !.job = job, !.target = l]
  <2>1. new \in CleanerRecords /\ new.pc = "reading" /\ new.job = job
    BY DEF Idle, CleanerRecords
  <2> QED
    BY <1>1, <2>1 DEF CallOne, Step, Steps
<1>2. ASSUME NEW job \in {"bulk", "sweep"}, CallAll(c, job)
      PROVE  \E new : /\ Steps(c, new) /\ new.pc = "judging" /\ new.queue \subseteq Begun
                      /\ new.listed = {}
  <2> DEFINE queue == {l \in Begun : Record(l) \in data}
             new == [Idle EXCEPT !.pc = "judging", !.job = job, !.queue = queue]
  <2>1. queue \in SUBSET Lifecycles /\ queue \subseteq Begun
    BY DEF Begun, TypeOK, RunRecords
  <2>2. cleaner' = [cleaner EXCEPT ![c] = new]
    BY <1>2 DEF CallAll, Step
  <2> HIDE DEF queue
  <2>3. new \in CleanerRecords /\ new.pc = "judging" /\ new.queue = queue /\ new.listed = {}
    BY <2>1 DEF Idle, CleanerRecords
  <2> QED
    BY <2>1, <2>2, <2>3 DEF Steps
<1> QED
  BY <1>1, <1>2

-----------------------------------------------------------------------------
(* The steps of the service by what they do to the things: they look, they *)
(* remove some of one Lifecycle, or they leave it.                         *)

Deleting == {"deleting", "archive", "listing", "store"}

Looks(c) ==
  /\ \E new : Steps(c, new)
  /\ \A l \in Lifecycles : Deletes(c, l) => Deletes(c, l)'
  /\ UNCHANGED <<earlier, data, late, run, swept>>

Trims(c) ==
  /\ \E new : Steps(c, new) /\ Stays(c, new) /\ new.pc \in Deleting
  /\ cleaner[c].pc \in Deleting
  /\ data' \subseteq data /\ late' = late \cap data'
  /\ \A x \in data \ data' : x[1] = cleaner[c].target
  /\ \A r \in Runs : <<cleaner[c].target, "thread", r>> \in data \ data' =>
                     <<cleaner[c].target, "run", r>> \notin data'
  /\ UNCHANGED earlier

Leaves(c) ==
  /\ \E new \in CleanerRecords, things \in SUBSET data :
       /\ Leave(c, new, things) /\ Starts(c, new, cleaner[c].queue)
       /\ Record(cleaner[c].target) \in data => Record(cleaner[c].target) \in things
       /\ \A x \in data \ things : x[1] = cleaner[c].target /\ x[2] \notin {"thread", "run"}
  /\ UNCHANGED <<earlier, run, swept>>

LEMMA ServiceLooks ==
  ASSUME TypeOK, NEW c \in Cleaners,
         \/ \E job \in {"delete", "cancel"}, l \in Lifecycles : CallOne(c, job, l)
         \/ \E job \in {"bulk", "sweep"} : CallAll(c, job)
         \/ \E l \in Lifecycles, status \in Statuses : Judge(c, l, status)
         \/ Listed(c) \/ ReadRecord(c) \/ SearchThreads(c) \/ SearchRelations(c)
         \/ \E r \in Runs : ReadRun(c, r)
         \/ CancelReturns(c) \/ (Decide(c) /\ cleaner[c].active = {}) \/ ListNamespaces(c)
  PROVE  Looks(c)
<1>1. UNCHANGED <<earlier, data, late, run, swept>>
  BY DEF CallOne, CallAll, Judge, Listed, ReadRecord, SearchThreads, SearchRelations, ReadRun,
         CancelReturns, Decide, ListNamespaces
<1>2. CASE \/ \E job \in {"delete", "cancel"}, l \in Lifecycles : CallOne(c, job, l)
           \/ \E job \in {"bulk", "sweep"} : CallAll(c, job)
  <2>1. \A l \in Lifecycles : ~Deletes(c, l)
    BY <1>2 DEF CallOne, CallAll, Deletes
  <2> QED
    BY <1>1, <1>2, <2>1, CallsDo DEF Looks
<1>3. CASE \E l \in Lifecycles, status \in Statuses : Judge(c, l, status)
  <2>1. \A l \in Lifecycles : ~Deletes(c, l)
    BY <1>3 DEF Judge, Deletes
  <2> QED
    BY <1>1, <1>3, <2>1, JudgeDoes DEF Looks
<1>4. CASE Listed(c)
  <2>1. \A l \in Lifecycles : ~Deletes(c, l)
    BY <1>4 DEF Listed, Deletes
  <2>2. PICK todo \in SUBSET Lifecycles : \E new \in Taking(c, todo) : Step(c, new)
    BY <1>4 DEF Listed, Surplus, TypeOK, CleanerRecords
  <2>3. \E new : Steps(c, new)
    BY <2>2, TakingStarts DEF Step, Steps
  <2> QED
    BY <1>1, <2>1, <2>3 DEF Looks
<1>5. CASE ReadRecord(c)
  <2>1. \A l \in Lifecycles : ~Deletes(c, l)
    BY <1>5 DEF ReadRecord, Deletes
  <2>2. Goto(c, "threads") \/ Step(c, Idle)
    BY <1>5 DEF ReadRecord
  <2>3. \E new : Steps(c, new)
    BY <2>2, GotoSteps, IdleIsTyped DEF Step, Steps
  <2> QED
    BY <1>1, <2>1, <2>3 DEF Looks
<1>6. CASE CancelReturns(c)
  <2>1. \A l \in Lifecycles : ~Deletes(c, l)
    BY <1>6 DEF CancelReturns, Deletes
  <2>2. Steps(c, Idle)
    BY <1>6, IdleIsTyped DEF CancelReturns, Step, Steps
  <2> QED
    BY <1>1, <2>1, <2>2 DEF Looks
<1>7. CASE \/ SearchThreads(c) \/ SearchRelations(c) \/ \E r \in Runs : ReadRun(c, r)
           \/ (Decide(c) /\ cleaner[c].active = {}) \/ ListNamespaces(c)
  <2>1. \E new : Steps(c, new) /\ Stays(c, new) /\ new.pc \notin {"idle", "judging", "reading"}
    <3>1. CASE Decide(c) /\ cleaner[c].active = {}
      <4>1. Goto(c, "deleting")
        BY <3>1 DEF Decide
      <4> QED
        BY <4>1, GotoSteps DEF Stays
    <3> QED
      BY <1>7, <3>1, SearchThreadsDoes, SearchRelationsDoes, ReadRunDoes, ListNamespacesDoes
  <2>2. \A l \in Lifecycles : Deletes(c, l) => Deletes(c, l)'
    BY <2>1, StepsOnly DEF Stays, Deletes
  <2> QED
    BY <1>1, <2>1, <2>2 DEF Looks
<1> QED
  BY <1>2, <1>3, <1>4, <1>5, <1>6, <1>7

LEMMA ServiceLeaves ==
  ASSUME TypeOK, NEW c \in Cleaners,
         \/ ReadFails(c) \/ Deleted(c) \/ CutShort(c)
         \/ (Decide(c) /\ cleaner[c].active # {})
         \/ \E r \in Runs : DeleteThread(c, r) /\ <<cleaner[c].target, "thread", r>> \notin data
  PROVE  Leaves(c)
<1>1. UNCHANGED <<earlier, run, swept>>
  BY DEF ReadFails, Deleted, CutShort, Decide, DeleteThread, Abort
<1>2. Idle \in CleanerRecords /\ Starts(c, Idle, cleaner[c].queue) /\ data \in SUBSET data
  BY IdleIsTyped DEF Starts
<1>3. CASE ReadFails(c) \/ Deleted(c) \/ (Decide(c) /\ cleaner[c].active # {})
  <2>1. cleaner[c].queue \in SUBSET Lifecycles
    BY DEF TypeOK, CleanerRecords
  <2>2. PICK new \in Taking(c, cleaner[c].queue) : Leave(c, new, data)
    BY <1>3 DEF ReadFails, Deleted, Decide, NextTarget
  <2>3. new \in CleanerRecords /\ Starts(c, new, cleaner[c].queue)
    BY <2>1, TakingStarts
  <2> QED
    BY <1>1, <1>2, <2>2, <2>3 DEF Leaves
<1>4. CASE Abort(c)
  <2>1. Leave(c, Idle, data)
    BY <1>4 DEF Abort
  <2> QED
    BY <1>1, <1>2, <2>1 DEF Leaves
<1>5. CASE CutShort(c) /\ ~Abort(c)
  <2> DEFINE l == cleaner[c].target
  <2>1. PICK n \in cleaner[c].left : \E part \in SUBSET Content(l, n) :
          NextNamespace(c, n) /\ part # Content(l, n) /\ Leave(c, Idle, data \ part)
    BY <1>5 DEF CutShort
  <2>2. PICK part \in SUBSET Content(l, n) :
          part # Content(l, n) /\ Leave(c, Idle, data \ part)
    BY <2>1
  <2>3. n \in Namespaces
    BY DEF TypeOK, CleanerRecords
  <2>4. \A x \in part : x[1] = l /\ x[2] \notin {"thread", "run"} /\ x[2] \in n
    BY <2>3 DEF Content, Namespaces
  <2>5. Record(l) \notin part
    <3> SUFFICES ASSUME Record(l) \in part
                 PROVE  FALSE
      OBVIOUS
    <3>1. "record" \in n
      BY <2>4 DEF Record
    <3>2. n = {"record"}
      BY <2>3, <3>1 DEF Namespaces
    <3>3. ASSUME NEW x \in Content(l, n)
          PROVE  x = Record(l)
      <4>1. x \in Things /\ x[1] = l /\ x[2] = "record"
        BY <3>2, <3>3 DEF Content, TypeOK
      <4>2. x \in Lifecycles \X OwnKinds \X {0}
        BY <4>1 DEF Things, RunKinds
      <4> QED
        BY <4>1, <4>2 DEF Record
    <3> QED
      BY <2>2, <3>3
  <2>6. data \ part \in SUBSET data
    OBVIOUS
  <2>7. \A x \in data \ (data \ part) : x[1] = l /\ x[2] \notin {"thread", "run"}
    BY <2>4
  <2>8. Record(l) \in data => Record(l) \in data \ part
    BY <2>5
  <2> QED
    BY <1>1, <1>2, <2>2, <2>6, <2>7, <2>8 DEF Leaves
<1> QED
  BY <1>3, <1>4, <1>5 DEF DeleteThread

LEMMA ServiceTrims ==
  ASSUME TypeOK, NEW c \in Cleaners,
         \/ \E r \in Runs : DeleteThread(c, r) /\ <<cleaner[c].target, "thread", r>> \in data
         \/ RemoveHome(c) \/ DiscardArchive(c)
         \/ \E n \in Namespaces : DropNamespace(c, n)
  PROVE  Trims(c)
<1>1. UNCHANGED earlier /\ cleaner[c].pc \in Deleting
  BY DEF DeleteThread, RemoveHome, DiscardArchive, DropNamespace, Deleting
<1>2. \E new : Steps(c, new) /\ Stays(c, new) /\ new.pc \in Deleting
  <2>1. CASE RemoveHome(c) \/ DiscardArchive(c)
    <3>1. Goto(c, "archive") \/ Goto(c, "listing")
      BY <2>1 DEF RemoveHome, DiscardArchive, Remove
    <3> QED
      BY <3>1, GotoSteps DEF Stays, Deleting
  <2> QED
    BY <2>1, DeleteThreadDoes, DropNamespaceDoes DEF Deleting
<1>3. \E xs : /\ data' = data \ xs /\ late' = late \cap data'
              /\ \A x \in xs \cap data : x[1] = cleaner[c].target
              /\ \A r \in Runs : <<cleaner[c].target, "thread", r>> \in xs =>
                                 <<cleaner[c].target, "run", r>> \in xs
  <2> DEFINE l == cleaner[c].target
  <2>1. CASE \E r \in Runs : DeleteThread(c, r) /\ <<cleaner[c].target, "thread", r>> \in data
    <3>1. PICK r \in Runs : DeleteThread(c, r) /\ <<l, "thread", r>> \in data
      BY <2>1
    <3> DEFINE xs == {<<l, "thread", r>>, <<l, "run", r>>}
    <3>2. data' = data \ xs /\ late' = late \cap data'
      BY <3>1 DEF DeleteThread
    <3>3. /\ \A x \in xs : x[1] = l
          /\ \A q \in Runs : <<l, "thread", q>> \in xs => <<l, "run", q>> \in xs
      OBVIOUS
    <3> HIDE DEF xs
    <3> QED
      BY <3>2, <3>3
  <2>2. ASSUME NEW kind \in {"home", "archive"}, NEW pc, Remove(c, {<<l, kind, 0>>}, pc)
        PROVE  \E xs : /\ data' = data \ xs /\ late' = late \cap data'
                       /\ \A x \in xs \cap data : x[1] = l
                       /\ \A r \in Runs : <<l, "thread", r>> \in xs => <<l, "run", r>> \in xs
    <3> DEFINE xs == {<<l, kind, 0>>}
    <3>1. data' = data \ xs /\ late' = late \ xs
      BY <2>2 DEF Remove
    <3>2. (\A x \in xs : x[1] = l) /\ \A r \in Runs : <<l, "thread", r>> \notin xs
      OBVIOUS
    <3> HIDE DEF xs
    <3>3. late' = late \cap data'
      BY <3>1 DEF TypeOK
    <3> QED
      BY <3>1, <3>2, <3>3
  <2>3. CASE \E n \in Namespaces : DropNamespace(c, n)
    BY <2>3 DEF DropNamespace, Content, Namespaces
  <2> QED
    BY <2>1, <2>2, <2>3 DEF RemoveHome, DiscardArchive
<1> QED
  BY <1>1, <1>2, <1>3 DEF Trims

LEMMA ServiceKinds ==
  ASSUME TypeOK, NEW c \in Cleaners, Service(c)
  PROVE  \/ Looks(c) \/ Leaves(c) \/ Trims(c) \/ \E r \in Runs : CancelRun(c, r)
BY ServiceLooks, ServiceLeaves, ServiceTrims DEF Service

LEMMA ServiceTypes ==
  ASSUME TypeInv, NEW c \in Cleaners, Service(c)
  PROVE  TypeInv'
<1>1. TypeOK /\ Used
  BY DEF TypeInv
<1>2. cleaner' \in [Cleaners -> CleanerRecords]
  BY <1>1, ServiceKinds, StepsOnly, CancelRunDoes DEF Looks, Leaves, Trims, Leave, Step, Steps
<1>3. data' \subseteq Things /\ late' \subseteq data' /\ UNCHANGED earlier
  <2>1. CASE Leaves(c)
    BY <1>1, <2>1 DEF Leaves, Leave, TypeOK
  <2> QED
    BY <1>1, <2>1, ServiceKinds DEF Looks, Trims, CancelRun, TypeOK
<1>4. run' \in [Runs -> RunRecords] /\ Used'
  <2>1. \/ run' = run
        \/ \E r \in Runs, status \in {"lost", "interrupted"} :
             run[r].status = "active" /\ run' = [run EXCEPT ![r].status = status]
    BY DEF Service, CallOne, CallAll, Judge, Listed, ReadRecord, SearchThreads, SearchRelations,
           ReadRun, CancelRun, DeleteThread, ReadFails, CancelReturns, Decide, RemoveHome,
           DiscardArchive, ListNamespaces, DropNamespace, Deleted, CutShort
  <2> QED
    BY <1>1, <2>1 DEF TypeOK, RunRecords, Used
<1>5. swept' \subseteq Lifecycles
  <2>1. \/ swept' = swept
        \/ /\ swept' = swept \cup {cleaner[c].target}
           /\ Record(cleaner[c].target) \in data
    BY DEF Service, CallOne, CallAll, Judge, Listed, ReadRecord, SearchThreads, SearchRelations,
           ReadRun, CancelRun, DeleteThread, ReadFails, CancelReturns, Decide, RemoveHome,
           DiscardArchive, ListNamespaces, DropNamespace, Deleted, CutShort
  <2>2. Record(cleaner[c].target) \in data => cleaner[c].target \in Lifecycles
    BY <1>1 DEF TypeOK, Things, Record
  <2> QED
    BY <1>1, <2>1, <2>2 DEF TypeOK
<1>6. calls' \in 0..MaxCalls[earlier] /\ faults' \in 0..MaxFaults
  <2>1. (UNCHANGED calls \/ Call) /\ (UNCHANGED faults \/ Fault)
    BY DEF Service, CallOne, CallAll, Judge, Listed, ReadRecord, SearchThreads, SearchRelations,
           ReadRun, CancelRun, DeleteThread, ReadFails, CancelReturns, Decide, RemoveHome,
           DiscardArchive, ListNamespaces, DropNamespace, Deleted, CutShort
  <2> QED
    BY <1>1, <2>1, RetentionAssumption DEF TypeOK, Call, Fault
<1> QED
  BY <1>1, <1>2, <1>3, <1>4, <1>5, <1>6 DEF TypeInv, TypeOK

LEMMA InitTypes ==
  ASSUME Init
  PROVE  TypeInv
<1>1. earlier \in 0..MaxLifecycles
  BY RetentionAssumption DEF Init, Lifecycles
<1>2. run \in [Runs -> RunRecords] /\ Used
  <2>1. NoRun \in RunRecords
    BY DEF NoRun, RunRecords
  <2>2. ASSUME NEW r \in Runs, r <= earlier
        PROVE  [of |-> r, by |-> None, start |-> "settled", status |-> "success"] \in RunRecords
    BY <1>1, <2>2, RetentionAssumption DEF RunRecords, Runs, Lifecycles
  <2> QED
    BY <2>1, <2>2, NumbersAreNotNone DEF Init, Used, NoRun
<1>3. cleaner \in [Cleaners -> CleanerRecords]
  BY IdleIsTyped DEF Init
<1> QED
  BY <1>2, <1>3, RetentionAssumption DEF Init, TypeInv, TypeOK

LEMMA NextTypes ==
  ASSUME TypeInv, [Next]_vars
  PROVE  TypeInv'
<1>1. CASE UNCHANGED vars
  BY <1>1 DEF vars, TypeInv, TypeOK, Used
<1> QED
  BY <1>1, RequestTypes, ServiceTypes DEF Next

\* Every thing has an owner, every call a target, every Run that has begun a
\* Lifecycle.
THEOREM RetentionTypes == Spec => []TypeOK
<1>1. TypeInv => TypeOK
  BY DEF TypeInv
<1> QED
  BY <1>1, InitTypes, NextTypes, PTL DEF Spec

-----------------------------------------------------------------------------
(* A Lifecycle without its record has nothing left but what was written    *)
(* while it was being deleted.                                             *)

\* What exists belongs to a Lifecycle that has begun and to the Run it says,
\* which shows a Run only when its start is through.
Owned ==
  /\ \A x \in data : x[1] \in Begun
  /\ \A r \in Runs, l \in Lifecycles, k \in RunKinds :
       <<l, k, r>> \in data => run[r].of = l
  /\ \A r \in Runs, l \in Lifecycles :
       <<l, "run", r>> \in data => run[r].start \in {"started", "settled"}

\* What was written late has a deletion on its way or behind it.
LateInv == \A x \in late : Record(x[1]) \notin data \/ \E c \in Cleaners : Deletes(c, x[1])

\* The things a deletion has to find.
Due == data \ late

\* A Run has its Thread, and is late when the Thread is.
Paired ==
  \A l \in Lifecycles, r \in Runs :
    <<l, "run", r>> \in data =>
      <<l, "thread", r>> \in data /\ (<<l, "thread", r>> \in late => <<l, "run", r>> \in late)

\* What a deletion has seen, and what it has already removed.
Progress(c) ==
  LET l == cleaner[c].target IN
  /\ cleaner[c].pc \in Deleting => cleaner[c].job # "cancel"
  /\ cleaner[c].job # "cancel" =>
       /\ cleaner[c].pc \in {"relations", "runs"} \cup Deleting =>
            \A r \in Runs : <<l, "thread", r>> \in Due => r \in cleaner[c].threads
       /\ cleaner[c].pc \in {"archive", "listing", "store"} =>
            cleaner[c].threads = {} /\ <<l, "home", 0>> \notin Due
       /\ cleaner[c].pc \in {"listing", "store"} => <<l, "archive", 0>> \notin Due
       /\ cleaner[c].pc = "store" =>
            \A n \in Namespaces \ cleaner[c].left : \A x \in Due : x[1] = l => x[2] \notin n

DeletionInv ==
  /\ TypeInv /\ Owned /\ LateInv /\ Paired /\ \A c \in Cleaners : Progress(c)
  /\ RecordOutlivesData

\* A request writes things of one Lifecycle; it adds the record only of a new
\* one, a Run only to a Thread, and makes no other Run active.
Requested(l, xs) ==
  /\ Write(l, xs) /\ UNCHANGED <<cleaner, swept>>
  /\ \A x \in xs : x \in Things /\ x[1] = l
  /\ Record(l) \in xs => l \notin Begun
  /\ l \in Begun'
  /\ \A r \in Runs :
       /\ run[r].of # None => run'[r].of = run[r].of
       /\ run[r].start \in {"started", "settled"} => run'[r].start \in {"started", "settled"}
       /\ run'[r].status = "active" =>
            run[r].of = run'[r].of /\ (run[r].status = "active" \/ <<l, "run", r>> \in xs)
       /\ \A k \in RunKinds : <<l, k, r>> \in xs => run'[r].of = l
       /\ <<l, "thread", r>> \in xs => run[r].start \notin {"started", "settled"}
       /\ <<l, "run", r>> \in xs =>
            run'[r].start \in {"started", "settled"} /\ <<l, "thread", r>> \in data

LEMMA WriteNothing ==
  ASSUME NEW l
  PROVE  Write(l, {}) <=> UNCHANGED <<data, late>>
BY DEF Write

LEMMA BegunBy ==
  ASSUME NEW r \in Runs, run[r].of # None
  PROVE  run[r].of \in Begun
BY DEF Begun

LEMMA OwnThing ==
  ASSUME NEW l \in Lifecycles, NEW k \in OwnKinds
  PROVE  /\ <<l, k, 0>> \in Things /\ <<l, k, 0>>[1] = l
         /\ Record(l) = <<l, k, 0>> => k = "record"
         /\ \A j \in RunKinds, q \in Runs : <<l, j, q>> # <<l, k, 0>>
BY ThingsOf DEF Record, OwnKinds, RunKinds

LEMMA RunThing ==
  ASSUME NEW l \in Lifecycles, NEW k \in RunKinds, NEW r \in Runs
  PROVE  /\ <<l, k, r>> \in Things /\ <<l, k, r>>[1] = l
         /\ Record(l) # <<l, k, r>>
         /\ \A j \in RunKinds, q \in Runs : <<l, j, q>> = <<l, k, r>> => j = k /\ q = r
BY ThingsOf DEF Record, RunKinds

LEMMA RequestsWrite ==
  ASSUME TypeInv, Requests
  PROVE  \E l \in Lifecycles : \E xs \in SUBSET Things : Requested(l, xs)
<1>1. TypeOK /\ Used
  BY DEF TypeInv
<1>2. TypeOK' /\ Used'
  BY RequestTypes DEF TypeInv
<1>3. ASSUME NEW l \in Lifecycles, NEW r \in Runs, BeginLifecycle(l, r)
      PROVE  Requested(l, {Record(l), <<l, "configuration", 0>>})
  <2>1. run'[r].of = l /\ run'[r].status = "none" /\ \A q \in Runs \ {r} : run'[q] = run[q]
    BY <1>1, <1>3 DEF BeginLifecycle, TypeOK, NoRun
  <2>2. run[r].of = None /\ run[r].start = "unused"
    BY <1>1, <1>3 DEF BeginLifecycle, NextRun, Used
  <2>3. l \in Begun'
    <3>1. l # None
      BY NumbersAreNotNone
    <3> QED
      BY <2>1, <3>1 DEF Begun
  <2>4. \A x \in {Record(l), <<l, "configuration", 0>>} :
          x \in Things /\ x[1] = l /\ \A k \in RunKinds, q \in Runs : x # <<l, k, q>>
    BY OwnThing DEF Record, OwnKinds
  <2> QED
    BY <1>3, <2>1, <2>2, <2>3, <2>4 DEF Requested, BeginLifecycle, RunKinds
<1>4. ASSUME NEW p \in Runs, NEW r \in Runs, CallStart(p, r)
      PROVE  run[p].of \in Lifecycles /\ Requested(run[p].of, {<<run[p].of, "thread", r>>})
  <2> DEFINE l == run[p].of
  <2>1. l \in Lifecycles /\ l # None /\ run[r].of = None /\ run[r].start = "unused"
    BY <1>1, <1>4, NumbersAreNotNone DEF CallStart, NextRun, TypeOK, Used, RunRecords
  <2>2. run'[r].of = l /\ run'[r].status = "none" /\ \A q \in Runs \ {r} : run'[q] = run[q]
    BY <1>1, <1>4 DEF CallStart, TypeOK, NoRun
  <2>3. l \in Begun'
    BY <2>1, <2>2 DEF Begun
  <2>4. /\ <<l, "thread", r>> \in Things /\ Record(l) # <<l, "thread", r>>
        /\ \A k \in RunKinds, q \in Runs :
             <<l, k, q>> = <<l, "thread", r>> => k = "thread" /\ q = r
    BY <2>1, ThingsOf DEF Record, RunKinds
  <2> QED
    BY <1>4, <2>1, <2>2, <2>3, <2>4 DEF Requested, CallStart, RunKinds
<1>5. ASSUME NEW r \in Runs, OpenThread(r) \/ StartRun(r) \/ RecordRelation(r)
                             \/ FailStart(r) \/ WriteFiles(r)
      PROVE  run[r].of \in Lifecycles /\ \E xs \in SUBSET Things : Requested(run[r].of, xs)
  <2> DEFINE l == run[r].of
  <2>1. l \in Lifecycles /\ l # None
    BY <1>1, <1>5, NumbersAreNotNone
       DEF OpenThread, StartRun, RecordRelation, FailStart, WriteFiles, TypeOK, Used, RunRecords
  <2>2. /\ UNCHANGED <<cleaner, swept>>
        /\ \A q \in Runs \ {r} : run'[q] = run[q]
        /\ run'[r].of = l
        /\ run[r].start \in {"started", "settled"} => run'[r].start \in {"started", "settled"}
        /\ run'[r].status = "active" => run[r].status = "active" \/ StartRun(r)
    BY <1>1, <1>5 DEF OpenThread, StartRun, RecordRelation, FailStart, WriteFiles, TypeOK,
                      RunRecords, Advance, EndAs
  <2>3. l \in Begun'
    BY <2>1, <2>2 DEF Begun
  <2>4. \E xs \in SUBSET Things :
          /\ Write(l, xs) /\ Record(l) \notin xs /\ \A x \in xs : x[1] = l
          /\ \A k \in RunKinds, q \in Runs : <<l, k, q>> \in xs => q = r
          /\ StartRun(r) => <<l, "run", r>> \in xs
          /\ <<l, "run", r>> \in xs => StartRun(r)
          /\ <<l, "thread", r>> \in xs => run[r].start = "recorded"
    <3>1. CASE StartRun(r)
      <4>1. /\ {<<l, "run", r>>} \in SUBSET Things /\ Record(l) \notin {<<l, "run", r>>}
            /\ \A x \in {<<l, "run", r>>} : x[1] = l
            /\ \A k \in RunKinds, q \in Runs : <<l, k, q>> \in {<<l, "run", r>>} => q = r
            /\ <<l, "thread", r>> \notin {<<l, "run", r>>}
        BY <2>1, ThingsOf DEF Record, RunKinds
      <4>2. Write(l, {<<l, "run", r>>})
        BY <3>1 DEF StartRun
      <4> QED
        BY <3>1, <4>1, <4>2
    <3>2. CASE RecordRelation(r)
      <4>1. /\ {<<l, "relation", r>>} \in SUBSET Things /\ Record(l) \notin {<<l, "relation", r>>}
            /\ \A x \in {<<l, "relation", r>>} : x[1] = l
            /\ \A k \in RunKinds, q \in Runs : <<l, k, q>> \in {<<l, "relation", r>>} => q = r
            /\ <<l, "run", r>> \notin {<<l, "relation", r>>}
            /\ <<l, "thread", r>> \notin {<<l, "relation", r>>}
        BY <2>1, ThingsOf DEF Record, RunKinds
      <4>2. Write(l, {<<l, "relation", r>>}) /\ ~StartRun(r)
        BY <3>2 DEF RecordRelation, StartRun, Relation
      <4> QED
        BY <4>1, <4>2
    <3>3. CASE OpenThread(r)
      <4> DEFINE xs == {<<l, "thread", r>>, <<l, "input", 0>>}
      <4>1. /\ "thread" \in RunKinds /\ "run" \in RunKinds
            /\ "input" \in OwnKinds /\ "input" # "record" /\ "run" # "thread"
        BY DEF RunKinds, OwnKinds
      <4>2. /\ xs \in SUBSET Things /\ Record(l) \notin xs /\ \A x \in xs : x[1] = l
            /\ \A k \in RunKinds, q \in Runs : <<l, k, q>> \in xs => q = r
            /\ <<l, "run", r>> \notin xs
        BY <2>1, <4>1, OwnThing, RunThing
      <4>3. Write(l, xs) /\ ~StartRun(r) /\ run[r].start = "recorded"
        BY <3>3 DEF OpenThread, StartRun, Thread
      <4> QED
        BY <4>1, <4>2, <4>3
    <3>4. CASE FailStart(r) \/ WriteFiles(r)
      <4>1. \/ Write(l, {}) \/ Write(l, {<<l, "error", 0>>})
            \/ Write(l, {<<l, "home", 0>>, <<l, "archive", 0>>})
        BY <3>4, WriteNothing DEF FailStart, WriteFiles
      <4>5. /\ {"error", "home", "archive"} \subseteq OwnKinds
            /\ "record" \notin {"error", "home", "archive"}
        BY DEF OwnKinds
      <4>2. ASSUME NEW xs \in {{}, {<<l, "error", 0>>}, {<<l, "home", 0>>, <<l, "archive", 0>>}}
            PROVE  /\ xs \in SUBSET Things /\ Record(l) \notin xs /\ \A x \in xs : x[1] = l
                   /\ \A k \in RunKinds, q \in Runs : <<l, k, q>> \notin xs
        BY <2>1, <4>5, OwnThing
      <4>3. ~StartRun(r)
        <5>1. CASE FailStart(r)
          <6>1. run'[r].start = "settled"
            BY <1>1, <5>1 DEF FailStart, EndAs, TypeOK
          <6>2. StartRun(r) => run'[r].start = "started"
            BY <1>1 DEF StartRun, EndAs, TypeOK
          <6> QED
            BY <6>1, <6>2
        <5>2. CASE WriteFiles(r)
          <6>1. run' = run
            BY <5>2 DEF WriteFiles
          <6>2. StartRun(r) => run[r].start = "ready" /\ run'[r].start = "started"
            BY <1>1 DEF StartRun, EndAs, TypeOK
          <6> QED
            BY <6>1, <6>2
        <5> QED
          BY <3>4, <5>1, <5>2
      <4>4. "run" \in RunKinds /\ "thread" \in RunKinds
        BY DEF RunKinds
      <4> QED
        BY <4>1, <4>2, <4>3, <4>4
    <3> QED
      BY <1>5, <3>1, <3>2, <3>3, <3>4
  <2>5. StartRun(r) => run'[r].start = "started" /\ <<l, "thread", r>> \in data
    BY <1>1 DEF StartRun, EndAs, TypeOK, Thread
  <2>6. "run" \in RunKinds /\ "thread" \in RunKinds
    BY DEF RunKinds
  <2> QED
    BY <2>1, <2>2, <2>3, <2>4, <2>5, <2>6 DEF Requested
<1>6. ASSUME NEW r \in Runs, NEW status \in Outcomes, EndRun(r, status)
      PROVE  run[r].of \in Lifecycles /\ Requested(run[r].of, {})
  <2>1. status # "active"
    BY RetentionAssumption
  <2>2. run[r].of \in Lifecycles /\ run[r].of # None
    BY <1>1, <1>6, NumbersAreNotNone DEF EndRun, TypeOK, Used, RunRecords
  <2>3. /\ \A q \in Runs \ {r} : run'[q] = run[q]
        /\ run'[r].of = run[r].of /\ run'[r].start = run[r].start /\ run'[r].status # "active"
    BY <1>1, <1>6, <2>1 DEF EndRun, TypeOK, RunRecords
  <2>4. run[r].of \in Begun'
    BY <2>2, <2>3 DEF Begun
  <2>5. Write(run[r].of, {}) /\ UNCHANGED <<cleaner, swept>>
    BY <1>6, WriteNothing DEF EndRun
  <2> QED
    BY <2>2, <2>3, <2>4, <2>5 DEF Requested
<1>7. \A l \in Lifecycles, r \in Runs :
        /\ {Record(l), <<l, "configuration", 0>>} \in SUBSET Things
        /\ {<<l, "thread", r>>} \in SUBSET Things
  BY ThingsOf DEF Record, OwnKinds, RunKinds
<1>8. CASE \E r \in Runs : \E l \in Lifecycles : BeginLifecycle(l, r)
  BY <1>3, <1>7, <1>8
<1>9. CASE \E r \in Runs : \E p \in Runs : CallStart(p, r)
  BY <1>4, <1>7, <1>9
<1>10. CASE \E r \in Runs : \E status \in Outcomes : EndRun(r, status)
  <2>1. {} \in SUBSET Things
    OBVIOUS
  <2> QED
    BY <1>6, <1>10, <2>1
<1> QED
  BY <1>5, <1>8, <1>9, <1>10 DEF Requests

\* What a request adds is due only when nobody deletes its Lifecycle.
LEMMA RequestedDue ==
  ASSUME TypeOK, NEW l, NEW xs, Requested(l, xs)
  PROVE  /\ data' = data \cup xs /\ data \subseteq data'
         /\ \A x \in Due' : \/ x \in Due
                            \/ /\ x \in xs /\ x[1] = l /\ Record(l) \in data'
                               /\ \A c \in Cleaners : ~Deletes(c, l)
         /\ \A x \in late' : \/ x \in late
                             \/ /\ x \in xs /\ x[1] = l
                                /\ Record(l) \notin data' \/ \E c \in Cleaners : Deletes(c, l)
<1>1. \A x \in late' : \/ x \in late
                       \/ /\ x \in xs
                          /\ Record(l) \notin data' \/ \E c \in Cleaners : Deletes(c, l)
  BY DEF Requested, Write
<1>2. \A x \in xs : x[1] = l
  BY DEF Requested
<1>3. data' = data \cup xs /\ late \subseteq late'
  BY DEF Requested, Write
<1>4. \A x \in data' \ late' : \/ x \in data \ late
                               \/ /\ x \in xs /\ Record(l) \in data'
                                  /\ \A c \in Cleaners : ~Deletes(c, l)
  BY <1>3 DEF Requested, Write
<1> QED
  BY <1>1, <1>2, <1>3, <1>4 DEF Due

LEMMA SameCalls ==
  ASSUME UNCHANGED cleaner, NEW c, NEW l
  PROVE  Record(l)' = Record(l) /\ (Deletes(c, l)' <=> Deletes(c, l))
BY DEF Record, Deletes

\* A call that does not step has seen and removed what it had, when nothing of
\* its Lifecycle has become due.
LEMMA ProgressKept ==
  ASSUME NEW c \in Cleaners, Progress(c), cleaner'[c] = cleaner[c],
         \A l : Deletes(c, l) => \A x \in Due' : x[1] = l => x \in Due
  PROVE  Progress(c)'
<1> DEFINE l == cleaner[c].target
<1>1. CASE Deletes(c, l)
  <2>1. \A k, j : <<l, k, j>> \in Due' => <<l, k, j>> \in Due
    BY <1>1
  <2>2. \A x \in Due' : x[1] = l => x \in Due
    BY <1>1
  <2> QED
    BY <2>1, <2>2 DEF Progress
<1>2. CASE ~Deletes(c, l)
  BY <1>2 DEF Progress, Deletes, Deleting
<1> QED
  BY <1>1, <1>2

LEMMA RequestsOwned ==
  ASSUME TypeOK, Owned, NEW l \in Lifecycles, NEW xs \in SUBSET Things, Requested(l, xs)
  PROVE  Owned'
<1>1. /\ data' = data \cup xs /\ l \in Begun' /\ \A x \in xs : x[1] = l
      /\ \A r \in Runs : run[r].of # None => run'[r].of = run[r].of
  BY DEF Requested, Write
<1>2. Begun \subseteq Begun'
  BY <1>1 DEF Begun
<1>3. \A x \in data' : x[1] \in Begun'
  BY <1>1, <1>2 DEF Owned
<1>4. ASSUME NEW r \in Runs, NEW k \in Lifecycles, NEW kind \in RunKinds, <<k, kind, r>> \in data'
      PROVE  run'[r].of = k
  <2>1. CASE <<k, kind, r>> \in data
    BY <1>1, <2>1, NumbersAreNotNone DEF Owned
  <2>2. CASE <<k, kind, r>> \in xs
    <3>1. <<k, kind, r>>[1] = k
      OBVIOUS
    <3>2. k = l
      BY <1>1, <2>2, <3>1
    <3> QED
      BY <2>2, <3>2 DEF Requested
  <2> QED
    BY <1>1, <1>4, <2>1, <2>2
<1>5. ASSUME NEW r \in Runs, NEW k \in Lifecycles, <<k, "run", r>> \in data'
      PROVE  run'[r].start \in {"started", "settled"}
  <2>1. CASE <<k, "run", r>> \in data
    BY <2>1 DEF Owned, Requested
  <2>2. CASE <<k, "run", r>> \in xs
    <3>1. <<k, "run", r>>[1] = k
      OBVIOUS
    <3>2. k = l
      BY <1>1, <2>2, <3>1
    <3> QED
      BY <2>2, <3>2 DEF Requested
  <2> QED
    BY <1>1, <1>5, <2>1, <2>2
<1> QED
  BY <1>3, <1>4, <1>5 DEF Owned

LEMMA RequestsPaired ==
  ASSUME TypeOK, Owned, LateInv, Paired, NEW l \in Lifecycles, NEW xs \in SUBSET Things,
         Requested(l, xs)
  PROVE  Paired'
<1> SUFFICES ASSUME NEW k \in Lifecycles, NEW r \in Runs, <<k, "run", r>> \in data'
             PROVE  /\ <<k, "thread", r>> \in data'
                    /\ <<k, "thread", r>> \in late' => <<k, "run", r>> \in late'
  BY DEF Paired
<1>1. <<k, "thread", r>>[1] = k /\ <<k, "run", r>>[1] = k
  OBVIOUS
<1>2. CASE <<k, "run", r>> \in data
  <2>1. <<k, "thread", r>> \in data /\ (<<k, "thread", r>> \in late => <<k, "run", r>> \in late)
    BY <1>2 DEF Paired
  <2>2. run[r].start \in {"started", "settled"}
    BY <1>2 DEF Owned
  <2>3. <<k, "thread", r>> \in late' => <<k, "thread", r>> \in late
    <3>1. ~(k = l /\ <<k, "thread", r>> \in xs)
      BY <2>2 DEF Requested
    <3> QED
      BY <1>1, <3>1, RequestedDue
  <2>4. late \subseteq late'
    BY DEF Requested, Write
  <2> QED
    BY <2>1, <2>3, <2>4, RequestedDue
<1>3. CASE <<k, "run", r>> \notin data
  <2>1. <<k, "run", r>> \in xs /\ k = l
    BY <1>1, <1>3, RequestedDue DEF Requested
  <2>2. <<k, "thread", r>> \in data /\ <<k, "thread", r>> \in data'
    BY <2>1, RequestedDue DEF Requested
  <2>3. CASE Record(l) \in data' /\ \A c \in Cleaners : ~Deletes(c, l)
    <3>1. Record(l) \in data
      <4>1. l \in Begun
        BY <1>1, <2>1, <2>2 DEF Owned
      <4> QED
        BY <2>3, <4>1, RequestedDue DEF Requested
    <3>2. <<k, "thread", r>> \notin late
      BY <1>1, <2>1, <2>3, <3>1 DEF LateInv
    <3> QED
      BY <1>1, <2>1, <2>2, <2>3, <3>2, RequestedDue
  <2>4. CASE Record(l) \notin data' \/ \E c \in Cleaners : Deletes(c, l)
    <3>1. <<k, "run", r>> \in late'
      BY <2>1, <2>4 DEF Requested, Write
    <3> QED
      BY <2>2, <3>1
  <2> QED
    BY <2>3, <2>4
<1> QED
  BY <1>2, <1>3

LEMMA RequestsDeletion ==
  ASSUME DeletionInv, Requests
  PROVE  DeletionInv'
<1>1. TypeInv /\ TypeOK /\ Owned /\ LateInv /\ Paired
  BY DEF DeletionInv, TypeInv
<1>2. PICK l \in Lifecycles : \E xs \in SUBSET Things : Requested(l, xs)
  BY <1>1, RequestsWrite
<1>3. PICK xs \in SUBSET Things : Requested(l, xs)
  BY <1>2
<1>4. TypeInv' /\ Owned' /\ Paired'
  BY <1>1, <1>3, RequestTypes, RequestsOwned, RequestsPaired
<1>5. UNCHANGED cleaner /\ data' = data \cup xs
  BY <1>3 DEF Requested, Write
<1>6. LateInv'
  <2> SUFFICES ASSUME NEW x \in late'
               PROVE  Record(x[1]) \notin data' \/ \E c \in Cleaners : Deletes(c, x[1])
    BY <1>5, SameCalls DEF LateInv
  <2>1. CASE x \in late
    <3>1. x \in data /\ x[1] \in Begun
      BY <1>1, <2>1 DEF TypeOK, Owned
    <3>2. Record(x[1]) \in xs => x[1] = l
      <4>1. Record(x[1])[1] = x[1]
        BY DEF Record
      <4> QED
        BY <1>3, <4>1 DEF Requested
    <3>3. Record(x[1]) \in data' => Record(x[1]) \in data
      BY <1>3, <1>5, <3>1, <3>2 DEF Requested
    <3> QED
      BY <1>1, <2>1, <3>3 DEF LateInv
  <2>2. CASE x \notin late
    BY <1>1, <1>3, <2>2, RequestedDue
  <2> QED
    BY <2>1, <2>2
<1>7. \A c \in Cleaners : Progress(c)'
  BY <1>1, <1>3, <1>5, RequestedDue, ProgressKept DEF DeletionInv
<1>8. RecordOutlivesData'
  <2> SUFFICES ASSUME NEW x \in Due'
               PROVE  Record(x[1]) \in data'
    BY DEF RecordOutlivesData, Record, Due
  <2> QED
    BY <1>1, <1>3, <1>5, RequestedDue DEF DeletionInv, RecordOutlivesData, Due
<1> QED
  BY <1>4, <1>6, <1>7, <1>8 DEF DeletionInv

LEMMA ServiceKeepsRuns ==
  ASSUME TypeOK, NEW c \in Cleaners, Service(c)
  PROVE  \A r \in Runs : /\ run'[r].of = run[r].of /\ run'[r].start = run[r].start
                         /\ run'[r].status = "active" => run[r].status = "active"
<1>1. \/ run' = run
      \/ \E r \in Runs, status \in {"lost", "interrupted"} :
           run' = [run EXCEPT ![r].status = status]
  BY DEF Service, CallOne, CallAll, Judge, Listed, ReadRecord, SearchThreads, SearchRelations,
         ReadRun, CancelRun, DeleteThread, ReadFails, CancelReturns, Decide, RemoveHome,
         DiscardArchive, ListNamespaces, DropNamespace, Deleted, CutShort
<1> QED
  BY <1>1 DEF TypeOK, RunRecords

LEMMA ServiceOwned ==
  ASSUME TypeOK, Owned, NEW c \in Cleaners, Service(c)
  PROVE  Owned'
<1>1. data' \subseteq data
  <2>1. CASE Leaves(c)
    BY <2>1 DEF Leaves, Leave
  <2> QED
    BY <2>1, ServiceKinds DEF Looks, Trims, CancelRun
<1>2. \A r \in Runs : run'[r].of = run[r].of /\ run'[r].start = run[r].start
  BY ServiceKeepsRuns
<1>3. Begun' = Begun
  BY <1>2 DEF Begun
<1> QED
  BY <1>1, <1>2, <1>3 DEF Owned

\* What is still late after a call has left a Lifecycle, and what is due.
LEMMA LeavesDue ==
  ASSUME TypeOK, NEW c \in Cleaners, Leaves(c)
  PROVE  /\ data' \subseteq data
         /\ \A x \in data \ data' : x[1] = cleaner[c].target /\ x[2] \notin {"thread", "run"}
         /\ Record(cleaner[c].target) \in data => Record(cleaner[c].target) \in data'
         /\ late' = {x \in late \cap data' :
                       \/ x[1] # cleaner[c].target \/ Record(cleaner[c].target) \notin data'
                       \/ \E d \in Cleaners \ {c} : Deletes(d, cleaner[c].target)}
         /\ \A d \in Cleaners \ {c} : cleaner'[d] = cleaner[d]
         /\ cleaner'[c].pc \in {"idle", "reading"}
<1>1. PICK new \in CleanerRecords : \E things \in SUBSET data :
        /\ Leave(c, new, things) /\ Starts(c, new, cleaner[c].queue)
        /\ Record(cleaner[c].target) \in data => Record(cleaner[c].target) \in things
        /\ \A x \in data \ things : x[1] = cleaner[c].target /\ x[2] \notin {"thread", "run"}
  BY DEF Leaves
<1>2. PICK things \in SUBSET data :
        /\ Leave(c, new, things) /\ Starts(c, new, cleaner[c].queue)
        /\ Record(cleaner[c].target) \in data => Record(cleaner[c].target) \in things
        /\ \A x \in data \ things : x[1] = cleaner[c].target /\ x[2] \notin {"thread", "run"}
  BY <1>1
<1>3. data' = things
  BY <1>2 DEF Leave
<1>4. cleaner'[c] = new /\ \A d \in Cleaners \ {c} : cleaner'[d] = cleaner[d]
  BY <1>2, StepsOnly DEF Leave, Step, Steps
<1>5. new.pc \in {"idle", "reading"}
  BY <1>2 DEF Starts, Idle
<1>6. late' = {x \in late \cap data' :
                 \/ x[1] # cleaner[c].target \/ Record(cleaner[c].target) \notin data'
                 \/ \E d \in Cleaners \ {c} : Deletes(d, cleaner[c].target)}
  BY <1>2, <1>3 DEF Leave
<1> QED
  BY <1>2, <1>3, <1>4, <1>5, <1>6

LEMMA LeavesDeletion ==
  ASSUME DeletionInv, NEW c \in Cleaners, Service(c), Leaves(c)
  PROVE  /\ LateInv' /\ Paired' /\ RecordOutlivesData'
         /\ \A d \in Cleaners : Progress(d)'
<1> DEFINE l == cleaner[c].target
<1>1. TypeOK /\ Owned /\ LateInv /\ Paired /\ RecordOutlivesData
  BY DEF DeletionInv, TypeInv
<1>2. /\ data' \subseteq data
      /\ \A x \in data \ data' : x[1] = l /\ x[2] \notin {"thread", "run"}
      /\ Record(l) \in data => Record(l) \in data'
      /\ late' = {x \in late \cap data' : \/ x[1] # l \/ Record(l) \notin data'
                                          \/ \E d \in Cleaners \ {c} : Deletes(d, l)}
      /\ \A d \in Cleaners \ {c} : cleaner'[d] = cleaner[d]
      /\ cleaner'[c].pc \in {"idle", "reading"}
  BY <1>1, LeavesDue
<1>3. \A k : Record(k)' = Record(k) /\ \A d \in Cleaners \ {c} : Deletes(d, k)' <=> Deletes(d, k)
  BY <1>2 DEF Record, Deletes
<1>4. \A k : Record(k)[1] = k /\ (Record(k) \in data => Record(k) \in data')
  <2>1. \A k : Record(k)[1] = k
    BY DEF Record
  <2> QED
    BY <1>2, <2>1
<1>5. LateInv'
  <2> SUFFICES ASSUME NEW x \in late'
               PROVE  Record(x[1]) \notin data' \/ \E d \in Cleaners : Deletes(d, x[1])'
    BY <1>3 DEF LateInv
  <2>1. CASE x[1] = l
    BY <1>2, <1>3, <2>1
  <2>2. CASE x[1] # l
    <3>1. ~Deletes(c, x[1])
      BY <2>2 DEF Deletes
    <3> QED
      BY <1>1, <1>2, <1>3, <3>1 DEF LateInv
  <2> QED
    BY <2>1, <2>2
<1>6. Paired'
  <2> SUFFICES ASSUME NEW k \in Lifecycles, NEW r \in Runs, <<k, "run", r>> \in data'
               PROVE  /\ <<k, "thread", r>> \in data'
                      /\ <<k, "thread", r>> \in late' => <<k, "run", r>> \in late'
    BY DEF Paired
  <2>1. /\ <<k, "thread", r>>[1] = k /\ <<k, "run", r>>[1] = k
        /\ <<k, "thread", r>>[2] = "thread"
    OBVIOUS
  <2>2. <<k, "thread", r>> \in data /\ (<<k, "thread", r>> \in late => <<k, "run", r>> \in late)
    BY <1>1, <1>2 DEF Paired
  <2>3. <<k, "thread", r>> \in data'
    BY <1>2, <2>1, <2>2
  <2> QED
    BY <1>2, <2>1, <2>2, <2>3
<1>7. RecordOutlivesData'
  <2> SUFFICES ASSUME NEW x \in data' \ late'
               PROVE  Record(x[1]) \in data'
    BY DEF RecordOutlivesData, Record
  <2>1. CASE x \in late
    BY <1>2, <2>1
  <2>2. CASE x \notin late
    BY <1>1, <1>2, <1>4, <2>2 DEF RecordOutlivesData
  <2> QED
    BY <2>1, <2>2
<1>8. ASSUME NEW d \in Cleaners
      PROVE  Progress(d)'
  <2>1. CASE d = c
    BY <1>2, <2>1 DEF Progress, Deleting
  <2>2. CASE d # c
    <3>1. ASSUME NEW k, Deletes(d, k), NEW x \in Due', x[1] = k
          PROVE  x \in Due
      BY <1>2, <2>2, <3>1 DEF Due
    <3>2. Progress(d) /\ cleaner'[d] = cleaner[d]
      BY <1>2, <2>2 DEF DeletionInv
    <3> QED
      BY <3>1, <3>2, ProgressKept
  <2> QED
    BY <2>1, <2>2
<1> QED
  BY <1>5, <1>6, <1>7, <1>8

LEMMA LooksDeletion ==
  ASSUME DeletionInv, NEW c \in Cleaners, Looks(c) \/ \E r \in Runs : CancelRun(c, r)
  PROVE  /\ LateInv' /\ Paired' /\ RecordOutlivesData'
         /\ \A d \in Cleaners \ {c} : Progress(d)'
<1>1. TypeOK /\ UNCHANGED <<data, late>>
  BY DEF DeletionInv, TypeInv, Looks, CancelRun
<1>2. \A d \in Cleaners \ {c} : cleaner'[d] = cleaner[d]
  BY <1>1, StepsOnly, CancelRunDoes DEF Looks
<1>3. \A k : Record(k)' = Record(k)
  BY DEF Record
<1>4. \A l \in Lifecycles : Deletes(c, l) => Deletes(c, l)'
  BY DEF Looks, CancelRun, Deletes
<1>5. LateInv'
  <2> SUFFICES ASSUME NEW x \in late
               PROVE  Record(x[1]) \notin data \/ \E d \in Cleaners : Deletes(d, x[1])'
    BY <1>1, <1>3 DEF LateInv
  <2>1. x[1] \in Lifecycles
    BY <1>1 DEF TypeOK, Things
  <2> QED
    BY <1>2, <1>4, <2>1 DEF DeletionInv, LateInv, Deletes
<1>6. Paired' /\ RecordOutlivesData'
  BY <1>1 DEF DeletionInv, Paired, RecordOutlivesData, Record
<1>7. ASSUME NEW d \in Cleaners \ {c}
      PROVE  Progress(d)'
  BY <1>1, <1>2, <1>7, ProgressKept DEF DeletionInv, Due
<1> QED
  BY <1>5, <1>6, <1>7

\* A call looks for the Threads before it goes on, and lists the namespaces
\* before it drops any.
LEMMA LooksProgress ==
  ASSUME DeletionInv, NEW c \in Cleaners, UNCHANGED <<data, late>>,
         \/ \E job \in {"delete", "cancel"}, l \in Lifecycles : CallOne(c, job, l)
         \/ \E job \in {"bulk", "sweep"} : CallAll(c, job)
         \/ \E l \in Lifecycles, status \in Statuses : Judge(c, l, status)
         \/ Listed(c) \/ ReadRecord(c) \/ SearchThreads(c) \/ SearchRelations(c)
         \/ \E r \in Runs : ReadRun(c, r) \/ CancelRun(c, r)
         \/ CancelReturns(c) \/ (Decide(c) /\ cleaner[c].active = {}) \/ ListNamespaces(c)
  PROVE  Progress(c)'
<1> DEFINE l == cleaner[c].target
<1>1. TypeOK /\ Due' = Due
  BY DEF DeletionInv, TypeInv, Due
<1> SUFFICES \/ cleaner'[c].pc \notin {"relations", "runs"} \cup Deleting
             \/ cleaner'[c].job = "cancel" /\ cleaner'[c].pc = "runs"
             \/ Progress(c)'
  BY DEF Progress, Deleting
<1>2. /\ Progress(c)
      /\ \A new : Steps(c, new) => cleaner'[c] = new
  BY <1>1, StepsOnly DEF DeletionInv
<1>3. CASE \/ \E job \in {"delete", "cancel"}, k \in Lifecycles : CallOne(c, job, k)
           \/ \E job \in {"bulk", "sweep"} : CallAll(c, job)
  BY <1>1, <1>2, <1>3, CallsDo DEF Deleting
<1>4. CASE \E k \in Lifecycles, status \in Statuses : Judge(c, k, status)
  BY <1>1, <1>2, <1>4, JudgeDoes DEF Deleting
<1>5. CASE Listed(c)
  <2>1. PICK todo \in SUBSET Lifecycles : \E new \in Taking(c, todo) : Step(c, new)
    BY <1>1, <1>5 DEF Listed, Surplus, TypeOK, CleanerRecords
  <2>2. PICK new : Steps(c, new) /\ Starts(c, new, todo)
    BY <1>1, <2>1, TakingStarts DEF Step, Steps
  <2> QED
    BY <1>2, <2>2 DEF Starts, Idle, Deleting
<1>6. CASE ReadRecord(c)
  <2>1. Goto(c, "threads") \/ Step(c, Idle)
    BY <1>6 DEF ReadRecord
  <2>2. CASE Goto(c, "threads")
    BY <1>1, <1>2, <2>2, GotoSteps DEF Deleting
  <2>3. CASE Step(c, Idle)
    <3>1. cleaner'[c] = Idle
      BY <1>2, <2>3, IdleIsTyped DEF Step, Steps
    <3> QED
      BY <3>1 DEF Idle, Deleting
  <2> QED
    BY <2>1, <2>2, <2>3
<1>7. CASE SearchThreads(c)
  <2>1. PICK new : /\ Steps(c, new) /\ Stays(c, new) /\ new.pc = "relations"
                   /\ new.threads = {r \in RunsOf(l) : Thread(r) \in data}
    BY <1>1, <1>7, SearchThreadsDoes
  <2>2. ASSUME NEW r \in Runs, <<l, "thread", r>> \in Due
        PROVE  r \in new.threads
    <3>1. l \in Lifecycles /\ <<l, "thread", r>> \in data
      BY <1>1, <2>2 DEF Due, TypeOK, Things
    <3>2. run[r].of = l
      BY <3>1 DEF DeletionInv, Owned, RunKinds
    <3> QED
      BY <2>1, <3>1, <3>2 DEF RunsOf, Thread
  <2> QED
    BY <1>1, <1>2, <2>1, <2>2 DEF Progress, Stays, Deleting
<1>8. CASE SearchRelations(c)
  <2>1. PICK new : /\ Steps(c, new) /\ Stays(c, new) /\ new.pc = "runs"
                   /\ cleaner[c].threads \subseteq new.threads
    BY <1>1, <1>8, SearchRelationsDoes
  <2>2. cleaner[c].pc = "relations"
    BY <1>8 DEF SearchRelations
  <2> QED
    BY <1>1, <1>2, <2>1, <2>2 DEF Progress, Stays, Deleting
<1>9. CASE \E r \in Runs : ReadRun(c, r)
  <2>1. PICK new : /\ Steps(c, new) /\ Stays(c, new) /\ new.pc = "runs"
                   /\ new.threads = cleaner[c].threads
    BY <1>1, <1>9, ReadRunDoes
  <2>2. cleaner[c].pc = "runs"
    BY <1>9 DEF ReadRun
  <2> QED
    BY <1>1, <1>2, <2>1, <2>2 DEF Progress, Stays, Deleting
<1>10. CASE \E r \in Runs : CancelRun(c, r)
  <2>1. cleaner'[c].job = "cancel" /\ cleaner'[c].pc = "runs"
    BY <1>1, <1>2, <1>10, CancelRunDoes DEF Stays, CancelRun
  <2> QED
    BY <2>1
<1>11. CASE CancelReturns(c)
  <2>1. cleaner'[c] = Idle
    BY <1>2, <1>11, IdleIsTyped DEF CancelReturns, Step, Steps
  <2> QED
    BY <2>1 DEF Idle, Deleting
<1>12. CASE Decide(c) /\ cleaner[c].active = {}
  <2>1. Goto(c, "deleting") /\ cleaner[c].pc = "runs" /\ cleaner[c].job # "cancel"
    BY <1>12 DEF Decide
  <2>2. PICK new : /\ Steps(c, new) /\ new.pc = "deleting" /\ new.job = cleaner[c].job
                   /\ new.target = l /\ new.threads = cleaner[c].threads
    BY <1>1, <2>1, GotoSteps
  <2> QED
    BY <1>1, <1>2, <2>1, <2>2 DEF Progress, Deleting
<1>13. CASE ListNamespaces(c)
  <2>1. PICK new : /\ Steps(c, new) /\ Stays(c, new) /\ new.pc = "store"
                   /\ new.threads = cleaner[c].threads
                   /\ new.left = {n \in Namespaces : Content(l, n) # {}}
    BY <1>1, <1>13, ListNamespacesDoes
  <2>2. cleaner[c].pc = "listing"
    BY <1>13 DEF ListNamespaces
  <2>3. \A n \in Namespaces \ new.left : \A x \in Due : x[1] = l => x[2] \notin n
    BY <2>1 DEF Content, Due
  <2> QED
    BY <1>1, <1>2, <2>1, <2>2, <2>3 DEF Progress, Stays, Deleting
<1> QED
  BY <1>3, <1>4, <1>5, <1>6, <1>7, <1>8, <1>9, <1>10, <1>11, <1>12, <1>13

LEMMA TrimsProgress ==
  ASSUME DeletionInv, NEW c \in Cleaners, Trims(c),
         \/ \E r \in Runs : DeleteThread(c, r) /\ <<cleaner[c].target, "thread", r>> \in data
         \/ RemoveHome(c) \/ DiscardArchive(c)
         \/ \E n \in Namespaces : DropNamespace(c, n)
  PROVE  Progress(c)'
<1> DEFINE l == cleaner[c].target
<1>1. TypeOK /\ Progress(c) /\ \A new : Steps(c, new) => cleaner'[c] = new
  BY StepsOnly DEF DeletionInv, TypeInv
<1>2. Due' = Due \cap data' /\ cleaner[c].job # "cancel"
  BY <1>1 DEF Trims, Due, Progress
<1>3. CASE \E r \in Runs : DeleteThread(c, r) /\ <<cleaner[c].target, "thread", r>> \in data
  <2>1. PICK r \in Runs : DeleteThread(c, r) /\ <<l, "thread", r>> \in data
    BY <1>3
  <2>2. PICK new : /\ Steps(c, new) /\ Stays(c, new) /\ new.pc = "deleting"
                   /\ new.threads = cleaner[c].threads \ {r}
    BY <1>1, <2>1, DeleteThreadDoes
  <2>3. <<l, "thread", r>> \notin data' /\ cleaner[c].pc = "deleting"
    BY <2>1 DEF DeleteThread
  <2> QED
    BY <1>1, <1>2, <2>2, <2>3 DEF Progress, Stays, Deleting
<1>4. CASE RemoveHome(c)
  <2>1. /\ Goto(c, "archive") /\ <<l, "home", 0>> \notin data'
        /\ cleaner[c].pc = "deleting" /\ cleaner[c].threads = {}
    BY <1>4 DEF RemoveHome, Remove
  <2>2. PICK new : /\ Steps(c, new) /\ new.pc = "archive" /\ new.job = cleaner[c].job
                   /\ new.target = l /\ new.threads = cleaner[c].threads
    BY <1>1, <2>1, GotoSteps
  <2> QED
    BY <1>1, <1>2, <2>1, <2>2 DEF Progress, Deleting
<1>5. CASE DiscardArchive(c)
  <2>1. /\ Goto(c, "listing") /\ <<l, "archive", 0>> \notin data' /\ cleaner[c].pc = "archive"
    BY <1>5 DEF DiscardArchive, Remove
  <2>2. PICK new : /\ Steps(c, new) /\ new.pc = "listing" /\ new.job = cleaner[c].job
                   /\ new.target = l /\ new.threads = cleaner[c].threads
    BY <1>1, <2>1, GotoSteps
  <2> QED
    BY <1>1, <1>2, <2>1, <2>2 DEF Progress, Deleting
<1>6. CASE \E n \in Namespaces : DropNamespace(c, n)
  <2>1. PICK n \in Namespaces : DropNamespace(c, n)
    BY <1>6
  <2>2. PICK new : /\ Steps(c, new) /\ Stays(c, new) /\ new.pc = "store"
                   /\ new.threads = cleaner[c].threads /\ new.left = cleaner[c].left \ {n}
    BY <1>1, <2>1, DropNamespaceDoes
  <2>3. cleaner[c].pc = "store" /\ \A x \in Due' : x[1] = l => x[2] \notin n
    BY <1>2, <2>1 DEF DropNamespace, Content, Due
  <2> QED
    BY <1>1, <1>2, <2>2, <2>3 DEF Progress, Stays, Deleting
<1> QED
  BY <1>3, <1>4, <1>5, <1>6

\* When the record is dropped, everything else is gone.
LEMMA RecordGoesLast ==
  ASSUME DeletionInv, NEW c \in Cleaners, NEW n \in Namespaces, DropNamespace(c, n),
         Record(cleaner[c].target) \in data \ data'
  PROVE  \A x \in Due' : x[1] # cleaner[c].target
<1> DEFINE l == cleaner[c].target
<1> SUFFICES ASSUME NEW x \in Due', x[1] = l
             PROVE  FALSE
  OBVIOUS
<1>1. TypeOK /\ Progress(c) /\ Paired
  BY DEF DeletionInv, TypeInv
<1>2. cleaner[c].pc = "store" /\ NextNamespace(c, n) /\ data' = data \ Content(l, n)
  BY DEF DropNamespace
<1>3. "record" \in n
  BY <1>2 DEF Content, Record
<1>4. n = {"record"} /\ cleaner[c].left = {n}
  BY <1>2, <1>3 DEF Namespaces, NextNamespace
<1>5. x \in Due /\ x[2] \notin n /\ x \in Things
  BY <1>1, <1>2 DEF DropNamespace, Due, Content, TypeOK
<1>6. /\ cleaner[c].job # "cancel" /\ cleaner[c].threads = {}
      /\ <<l, "home", 0>> \notin Due /\ <<l, "archive", 0>> \notin Due
      /\ \A r \in Runs : <<l, "thread", r>> \notin Due
      /\ \A m \in Namespaces \ {n} : x[2] \notin m
  BY <1>1, <1>2, <1>4, <1>5 DEF Progress, Deleting
<1>7. x[2] \notin {"configuration", "input", "error", "relation", "record"}
  <2>1. \A m \in Namespaces : x[2] \notin m
    BY <1>5, <1>6
  <2>2. /\ {"configuration"} \in Namespaces /\ {"input", "error"} \in Namespaces
        /\ {"relation"} \in Namespaces /\ {"record"} \in Namespaces
    BY DEF Namespaces
  <2>3. /\ x[2] \notin {"configuration"} /\ x[2] \notin {"input", "error"}
        /\ x[2] \notin {"relation"} /\ x[2] \notin {"record"}
    BY <2>1, <2>2
  <2> QED
    BY <2>3
<1>8. CASE x \in Lifecycles \X OwnKinds \X {0}
  <2>1. x = <<l, "home", 0>> \/ x = <<l, "archive", 0>>
    BY <1>7, <1>8 DEF OwnKinds
  <2> QED
    BY <1>5, <1>6, <2>1
<1>9. CASE x \in Lifecycles \X RunKinds \X Runs
  <2>1. PICK r \in Runs : x = <<l, "thread", r>> \/ x = <<l, "run", r>>
    BY <1>7, <1>9 DEF RunKinds
  <2>2. x = <<l, "run", r>> => <<l, "thread", r>> \in Due
    BY <1>1, <1>5, <1>9 DEF Paired, Due
  <2> QED
    BY <1>5, <1>6, <2>1, <2>2
<1> QED
  BY <1>5, <1>8, <1>9 DEF Things

LEMMA TrimsDeletion ==
  ASSUME DeletionInv, NEW c \in Cleaners, Trims(c),
         Record(cleaner[c].target) \in data \ data' =>
           \A x \in Due' : x[1] # cleaner[c].target
  PROVE  /\ LateInv' /\ Paired' /\ RecordOutlivesData'
         /\ \A d \in Cleaners \ {c} : Progress(d)'
<1> DEFINE l == cleaner[c].target
<1>1. TypeOK /\ LateInv /\ Paired /\ RecordOutlivesData
  BY DEF DeletionInv, TypeInv
<1>2. PICK new : Steps(c, new) /\ Stays(c, new) /\ new.pc \in Deleting
  BY DEF Trims
<1>3. cleaner'[c] = new /\ \A d \in Cleaners \ {c} : cleaner'[d] = cleaner[d]
  BY <1>1, <1>2, StepsOnly
<1>4. \A d \in Cleaners, k \in Lifecycles : Deletes(d, k) => Deletes(d, k)'
  BY <1>2, <1>3 DEF Deletes, Stays, Deleting
<1>5. /\ data' \subseteq data /\ late' = late \cap data' /\ \A x \in data \ data' : x[1] = l
      /\ \A r \in Runs : <<l, "thread", r>> \in data \ data' => <<l, "run", r>> \notin data'
  BY DEF Trims
<1>6. \A k : Record(k)' = Record(k) /\ Record(k)[1] = k
  BY DEF Record
<1>7. LateInv'
  <2> SUFFICES ASSUME NEW x \in late'
               PROVE  Record(x[1]) \notin data' \/ \E d \in Cleaners : Deletes(d, x[1])'
    BY <1>6 DEF LateInv
  <2>1. x \in late /\ x[1] \in Lifecycles
    BY <1>1, <1>5 DEF TypeOK, Things
  <2> QED
    BY <1>1, <1>4, <1>5, <2>1 DEF LateInv
<1>8. Paired'
  <2> SUFFICES ASSUME NEW k \in Lifecycles, NEW r \in Runs, <<k, "run", r>> \in data'
               PROVE  /\ <<k, "thread", r>> \in data'
                      /\ <<k, "thread", r>> \in late' => <<k, "run", r>> \in late'
    BY DEF Paired
  <2>1. <<k, "thread", r>>[1] = k
    OBVIOUS
  <2> QED
    BY <1>1, <1>5, <2>1 DEF Paired
<1>9. RecordOutlivesData'
  <2> SUFFICES ASSUME NEW x \in data' \ late'
               PROVE  Record(x[1]) \in data'
    BY <1>6 DEF RecordOutlivesData
  <2>1. Record(x[1]) \in data
    BY <1>1, <1>5 DEF RecordOutlivesData
  <2>2. CASE x[1] = l
    BY <2>1, <2>2 DEF Due
  <2>3. CASE x[1] # l
    BY <1>5, <1>6, <2>1, <2>3
  <2> QED
    BY <2>2, <2>3
<1>10. ASSUME NEW d \in Cleaners \ {c}
       PROVE  Progress(d)'
  <2>1. Progress(d) /\ cleaner'[d] = cleaner[d] /\ Due' \subseteq Due
    BY <1>3, <1>5 DEF DeletionInv, Due
  <2> QED
    BY <2>1, ProgressKept
<1> QED
  BY <1>7, <1>8, <1>9, <1>10

LEMMA ServiceDeletion ==
  ASSUME DeletionInv, NEW c \in Cleaners, Service(c)
  PROVE  DeletionInv'
<1>1. TypeInv /\ TypeOK /\ Owned
  BY DEF DeletionInv, TypeInv
<1>2. TypeInv' /\ Owned'
  BY <1>1, ServiceTypes, ServiceOwned
<1>3. CASE \/ \E job \in {"delete", "cancel"}, l \in Lifecycles : CallOne(c, job, l)
           \/ \E job \in {"bulk", "sweep"} : CallAll(c, job)
           \/ \E l \in Lifecycles, status \in Statuses : Judge(c, l, status)
           \/ Listed(c) \/ ReadRecord(c) \/ SearchThreads(c) \/ SearchRelations(c)
           \/ \E r \in Runs : ReadRun(c, r) \/ CancelRun(c, r)
           \/ CancelReturns(c) \/ (Decide(c) /\ cleaner[c].active = {}) \/ ListNamespaces(c)
  <2>1. Looks(c) \/ \E r \in Runs : CancelRun(c, r)
    BY <1>1, <1>3, ServiceLooks
  <2>2. UNCHANGED <<data, late>>
    BY <2>1 DEF Looks, CancelRun
  <2>3. Progress(c)'
    BY <1>3, <2>2, LooksProgress
  <2> QED
    BY <1>2, <2>1, <2>3, LooksDeletion DEF DeletionInv
<1>4. CASE \/ ReadFails(c) \/ Deleted(c) \/ CutShort(c)
           \/ (Decide(c) /\ cleaner[c].active # {})
           \/ \E r \in Runs : DeleteThread(c, r) /\ <<cleaner[c].target, "thread", r>> \notin data
  <2>1. Leaves(c)
    BY <1>1, <1>4, ServiceLeaves
  <2> QED
    BY <1>2, <2>1, LeavesDeletion DEF DeletionInv
<1>5. CASE \/ \E r \in Runs : DeleteThread(c, r) /\ <<cleaner[c].target, "thread", r>> \in data
           \/ RemoveHome(c) \/ DiscardArchive(c)
           \/ \E n \in Namespaces : DropNamespace(c, n)
  <2>1. Trims(c)
    BY <1>1, <1>5, ServiceTrims
  <2>2. Record(cleaner[c].target) \in data \ data' =>
          \A x \in Due' : x[1] # cleaner[c].target
    <3>1. CASE \E n \in Namespaces : DropNamespace(c, n)
      BY <3>1, RecordGoesLast
    <3>2. CASE \/ \E r \in Runs : DeleteThread(c, r) /\ <<cleaner[c].target, "thread", r>> \in data
               \/ RemoveHome(c) \/ DiscardArchive(c)
      BY <3>2 DEF DeleteThread, RemoveHome, DiscardArchive, Remove, Record
    <3> QED
      BY <1>5, <3>1, <3>2
  <2>3. Progress(c)'
    BY <1>5, <2>1, TrimsProgress
  <2> QED
    BY <1>2, <2>1, <2>2, <2>3, TrimsDeletion DEF DeletionInv
<1> QED
  BY <1>3, <1>4, <1>5 DEF Service

LEMMA InitDeletion ==
  ASSUME Init
  PROVE  DeletionInv
<1>1. TypeInv
  BY InitTypes
<1>2. earlier \in Nat /\ (earlier = 0 \/ (earlier \in Lifecycles /\ earlier \in Runs))
  BY RetentionAssumption DEF Init, Lifecycles
<1>3. /\ late = {}
      /\ \A x \in data : x \in Things /\ x[1] <= earlier /\ x[2] # "error" /\ x[3] \in {0, x[1]}
      /\ \A x \in Things :
           x[1] <= earlier /\ x[2] # "error" /\ x[3] \in {0, x[1]} => x \in data
  BY DEF Init
<1>4. \A l \in Lifecycles : l <= earlier => l \in Runs /\ run[l].of = l /\ run[l].start = "settled"
  BY <1>2, RetentionAssumption DEF Init, Lifecycles, Runs
<1>5. \A x \in data : x[1] \in Lifecycles /\ x[1] <= earlier
  BY <1>3 DEF Things
<1>6. ASSUME NEW l \in Lifecycles, NEW r \in Runs, NEW k \in RunKinds, <<l, k, r>> \in data
      PROVE  r = l /\ l <= earlier
  <2>1. r \in {0, l} /\ l <= earlier
    BY <1>3, <1>6
  <2>2. r # 0
    BY RetentionAssumption DEF Runs
  <2> QED
    BY <2>1, <2>2
<1>7. Owned
  <2>1. \A x \in data : x[1] \in Begun
    BY <1>4, <1>5, NumbersAreNotNone DEF Begun
  <2>2. \A r \in Runs, l \in Lifecycles, k \in RunKinds :
          <<l, k, r>> \in data => run[r].of = l /\ run[r].start = "settled"
    BY <1>4, <1>6
  <2>3. "run" \in RunKinds
    BY DEF RunKinds
  <2> QED
    BY <2>1, <2>2, <2>3 DEF Owned
<1>8. LateInv /\ \A c \in Cleaners : Progress(c)
  BY <1>3 DEF LateInv, Progress, Init, Idle, Deleting
<1>9. Paired
  <2> SUFFICES ASSUME NEW l \in Lifecycles, NEW r \in Runs, <<l, "run", r>> \in data
               PROVE  <<l, "thread", r>> \in data
    BY <1>3 DEF Paired
  <2>1. r = l /\ l <= earlier
    BY <1>6 DEF RunKinds
  <2>2. <<l, "thread", r>> \in Things
    BY ThingsOf DEF RunKinds
  <2> QED
    BY <1>3, <2>1, <2>2
<1>10. RecordOutlivesData
  <2> SUFFICES ASSUME NEW x \in data
               PROVE  Record(x[1]) \in data
    BY DEF RecordOutlivesData
  <2>1. Record(x[1]) \in Things
    BY <1>5, ThingsOf DEF Record, OwnKinds
  <2> QED
    BY <1>3, <1>5, <2>1 DEF Record
<1> QED
  BY <1>1, <1>7, <1>8, <1>9, <1>10 DEF DeletionInv

LEMMA NextDeletion ==
  ASSUME DeletionInv, [Next]_vars
  PROVE  DeletionInv'
<1>1. CASE UNCHANGED vars
  <2>1. TypeInv'
    BY <1>1, NextTypes DEF DeletionInv
  <2> QED
    BY <1>1, <2>1 DEF vars, DeletionInv, Owned, LateInv, Paired, Progress, Due, Begun, Deletes,
                      Record, RecordOutlivesData, Content
<1> QED
  BY <1>1, RequestsDeletion, ServiceDeletion DEF Next

LEMMA DeletionInvHolds == Spec => []DeletionInv
BY InitDeletion, NextDeletion, PTL DEF Spec

\* However deletions fail, are cut short, are retried or race each other, a
\* Lifecycle without its record has nothing left but what was written while
\* it was being deleted.
THEOREM RecordOutlivesDataHolds == Spec => []RecordOutlivesData
<1>1. DeletionInv => RecordOutlivesData
  BY DEF DeletionInv
<1> QED
  BY <1>1, DeletionInvHolds, PTL

-----------------------------------------------------------------------------
(* What a deletion takes with it.                                          *)

\* Each Run of a Thread to delete that is active is still to be looked at, has
\* been seen to be, or was started late.
Checked(c) ==
  cleaner[c].job # "cancel" =>
    /\ cleaner[c].pc \in {"relations", "runs", "deleting"} =>
         \A r \in cleaner[c].threads : run[r].of = cleaner[c].target /\ run[r].of # None
    /\ cleaner[c].pc \in {"runs", "deleting"} =>
         \A r \in cleaner[c].threads :
           run[r].status = "active" =>
             \/ cleaner[c].pc = "runs" /\ r \in cleaner[c].unread \cup cleaner[c].active
             \/ <<run[r].of, "run", r>> \in late

CheckedInv == DeletionInv /\ \A c \in Cleaners : Checked(c)

\* A deletion's view of its Runs stays right while others step.
LEMMA CheckedKept ==
  ASSUME TypeOK, NEW c \in Cleaners, Checked(c), cleaner'[c] = cleaner[c],
         \A r \in Runs : run[r].of # None => run'[r].of = run[r].of,
         \A r \in Runs :
           Deletes(c, run[r].of) /\ run[r].of # None /\ run'[r].status = "active" =>
             \/ run[r].status = "active" /\ <<run[r].of, "run", r>> \notin late
             \/ <<run[r].of, "run", r>> \in late'
  PROVE  Checked(c)'
<1> SUFFICES ASSUME cleaner[c].job # "cancel"
             PROVE  Checked(c)'
  BY DEF Checked
<1>1. cleaner[c].threads \subseteq Runs
  BY DEF TypeOK, CleanerRecords
<1>2. ASSUME cleaner[c].pc \in {"relations", "runs", "deleting"}, NEW r \in cleaner[c].threads
      PROVE  run'[r].of = cleaner[c].target /\ run'[r].of # None
  BY <1>1, <1>2 DEF Checked
<1>3. ASSUME cleaner[c].pc \in {"runs", "deleting"}, NEW r \in cleaner[c].threads,
             run'[r].status = "active"
      PROVE  \/ cleaner[c].pc = "runs" /\ r \in cleaner[c].unread \cup cleaner[c].active
             \/ <<run'[r].of, "run", r>> \in late'
  <2>1. /\ r \in Runs /\ run[r].of = cleaner[c].target /\ run[r].of # None
        /\ run'[r].of = run[r].of
    BY <1>1, <1>3 DEF Checked
  <2>2. Deletes(c, run[r].of)
    BY <1>3, <2>1 DEF Deletes
  <2> QED
    BY <1>3, <2>1, <2>2 DEF Checked
<1> QED
  BY <1>2, <1>3 DEF Checked

LEMMA RequestsChecked ==
  ASSUME CheckedInv, Requests
  PROVE  \A c \in Cleaners : Checked(c)'
<1>1. TypeInv /\ TypeOK
  BY DEF CheckedInv, DeletionInv, TypeInv
<1>2. PICK l \in Lifecycles : \E xs \in SUBSET Things : Requested(l, xs)
  BY <1>1, RequestsWrite
<1>3. PICK xs \in SUBSET Things : Requested(l, xs)
  BY <1>2
<1> SUFFICES ASSUME NEW c \in Cleaners
             PROVE  Checked(c)'
  OBVIOUS
<1>4. /\ Checked(c) /\ cleaner'[c] = cleaner[c] /\ late \subseteq late'
      /\ \A r \in Runs : run[r].of # None => run'[r].of = run[r].of
  BY <1>3 DEF CheckedInv, Requested, Write
<1>5. ASSUME NEW r \in Runs, Deletes(c, run[r].of), run[r].of # None, run'[r].status = "active"
      PROVE  \/ run[r].status = "active" /\ <<run[r].of, "run", r>> \notin late
             \/ <<run[r].of, "run", r>> \in late'
  <2>1. CASE <<l, "run", r>> \in xs
    <3>1. run[r].of = l
      BY <1>3, <1>4, <1>5, <2>1 DEF Requested, RunKinds
    <3> QED
      BY <1>3, <1>5, <2>1, <3>1 DEF Requested, Write
  <2>2. CASE <<l, "run", r>> \notin xs
    BY <1>3, <1>4, <1>5, <2>2 DEF Requested
  <2> QED
    BY <2>1, <2>2
<1> QED
  BY <1>1, <1>4, <1>5, CheckedKept

\* A call takes a late Run away only with the Thread, and then it is lost.
LEMMA LateRunStays ==
  ASSUME TypeOK, NEW d \in Cleaners, Service(d), NEW c \in Cleaners \ {d}, NEW r \in Runs,
         Deletes(c, run[r].of), <<run[r].of, "run", r>> \in late, run'[r].status = "active"
  PROVE  <<run[r].of, "run", r>> \in late'
<1> DEFINE l == run[r].of
           x == <<l, "run", r>>
<1>1. x[1] = l /\ x[2] = "run" /\ x \in data
  BY DEF TypeOK
<1> HIDE DEF x
<1>2. CASE Looks(d) \/ \E q \in Runs : CancelRun(d, q)
  BY <1>2 DEF Looks, CancelRun, x
<1>3. CASE Leaves(d)
  BY <1>1, <1>3, LeavesDue DEF x
<1>4. CASE \E q \in Runs : DeleteThread(d, q) /\ <<cleaner[d].target, "thread", q>> \in data
  <2>1. PICK q \in Runs : DeleteThread(d, q) /\ <<cleaner[d].target, "thread", q>> \in data
    BY <1>4
  <2>2. q # r
    <3>1. run' = IF run[q].status = "active" THEN [run EXCEPT ![q].status = "lost"] ELSE run
      BY <2>1 DEF DeleteThread
    <3>2. run \in [Runs -> RunRecords]
      BY DEF TypeOK
    <3> QED
      BY <3>1, <3>2 DEF RunRecords
  <2> QED
    BY <1>1, <2>1, <2>2 DEF DeleteThread, x
<1>5. CASE RemoveHome(d) \/ DiscardArchive(d)
  BY <1>5 DEF RemoveHome, DiscardArchive, Remove
<1>6. CASE \E n \in Namespaces : DropNamespace(d, n)
  <2>1. PICK n \in Namespaces : DropNamespace(d, n)
    BY <1>6
  <2>2. x \notin Content(cleaner[d].target, n)
    BY <1>1 DEF Content, Namespaces
  <2> QED
    BY <1>1, <2>1, <2>2 DEF DropNamespace, x
<1> QED
  BY <1>2, <1>3, <1>4, <1>5, <1>6, ServiceLooks, ServiceLeaves DEF Service

\* A call looks at every Run of a Thread before it decides.
LEMMA LooksChecked ==
  ASSUME CheckedInv, NEW c \in Cleaners, UNCHANGED <<late, run>>,
         \/ \E job \in {"delete", "cancel"}, l \in Lifecycles : CallOne(c, job, l)
         \/ \E job \in {"bulk", "sweep"} : CallAll(c, job)
         \/ \E l \in Lifecycles, status \in Statuses : Judge(c, l, status)
         \/ Listed(c) \/ ReadRecord(c) \/ SearchThreads(c) \/ SearchRelations(c)
         \/ \E r \in Runs : ReadRun(c, r)
         \/ CancelReturns(c) \/ (Decide(c) /\ cleaner[c].active = {}) \/ ListNamespaces(c)
  PROVE  Checked(c)'
<1> DEFINE l == cleaner[c].target
<1>1. TypeOK /\ Checked(c) /\ \A new : Steps(c, new) => cleaner'[c] = new
  BY StepsOnly DEF CheckedInv, DeletionInv, TypeInv
<1>2. \A r \in Runs : Thread(r) \in data => run[r].of # None
  BY <1>1, NumbersAreNotNone DEF TypeOK, Thread, Things
<1>3. CASE \/ \E job \in {"delete", "cancel"}, k \in Lifecycles : CallOne(c, job, k)
           \/ \E job \in {"bulk", "sweep"} : CallAll(c, job)
  BY <1>1, <1>3, CallsDo DEF Checked
<1>4. CASE \E k \in Lifecycles, status \in Statuses : Judge(c, k, status)
  BY <1>1, <1>4, JudgeDoes DEF Checked
<1>5. CASE Listed(c)
  <2>1. PICK todo \in SUBSET Lifecycles : \E new \in Taking(c, todo) : Step(c, new)
    BY <1>1, <1>5 DEF Listed, Surplus, TypeOK, CleanerRecords
  <2>2. PICK new : Steps(c, new) /\ Starts(c, new, todo)
    BY <1>1, <2>1, TakingStarts DEF Step, Steps
  <2> QED
    BY <1>1, <2>2 DEF Starts, Idle, Checked
<1>6. CASE ReadRecord(c)
  <2>1. Goto(c, "threads") \/ Step(c, Idle)
    BY <1>6 DEF ReadRecord
  <2>2. CASE Goto(c, "threads")
    BY <1>1, <2>2, GotoSteps DEF Checked
  <2>3. CASE Step(c, Idle)
    <3>1. cleaner'[c] = Idle
      BY <1>1, <2>3, IdleIsTyped DEF Step, Steps
    <3> QED
      BY <3>1 DEF Idle, Checked
  <2> QED
    BY <2>1, <2>2, <2>3
<1>7. CASE SearchThreads(c)
  <2>1. PICK new : /\ Steps(c, new) /\ Stays(c, new) /\ new.pc = "relations"
                   /\ new.threads = {r \in RunsOf(l) : Thread(r) \in data}
    BY <1>1, <1>7, SearchThreadsDoes
  <2>2. \A r \in new.threads : run[r].of = l /\ run[r].of # None
    BY <1>2, <2>1 DEF RunsOf
  <2> QED
    BY <1>1, <2>1, <2>2 DEF Checked, Stays
<1>8. CASE SearchRelations(c)
  <2>1. PICK new : /\ Steps(c, new) /\ Stays(c, new) /\ new.pc = "runs"
                   /\ cleaner[c].threads \subseteq new.threads
                   /\ \A r \in new.threads \ cleaner[c].threads :
                        r \in RunsOf(l) /\ Thread(r) \in data
                   /\ new.threads \subseteq new.unread
    BY <1>1, <1>8, SearchRelationsDoes
  <2>2. cleaner[c].pc = "relations"
    BY <1>8 DEF SearchRelations
  <2>3. ASSUME cleaner[c].job # "cancel", NEW r \in new.threads
        PROVE  run[r].of = l /\ run[r].of # None
    BY <1>1, <1>2, <2>1, <2>2, <2>3 DEF Checked, RunsOf
  <2> QED
    BY <1>1, <2>1, <2>3 DEF Checked, Stays
<1>9. CASE \E r \in Runs : ReadRun(c, r)
  <2>1. PICK r \in Runs : ReadRun(c, r)
    BY <1>9
  <2>2. PICK new : /\ Steps(c, new) /\ Stays(c, new) /\ new.pc = "runs"
                   /\ new.threads = cleaner[c].threads
                   /\ new.unread = cleaner[c].unread \ {r}
                   /\ new.active = IF run[r].status = "active" THEN cleaner[c].active \cup {r}
                                   ELSE cleaner[c].active
    BY <1>1, <2>1, ReadRunDoes
  <2>3. cleaner[c].pc = "runs"
    BY <2>1 DEF ReadRun
  <2> QED
    BY <1>1, <2>2, <2>3 DEF Checked, Stays
<1>10. CASE CancelReturns(c)
  <2>1. cleaner'[c] = Idle
    BY <1>1, <1>10, IdleIsTyped DEF CancelReturns, Step, Steps
  <2> QED
    BY <2>1 DEF Idle, Checked
<1>11. CASE Decide(c) /\ cleaner[c].active = {}
  <2>1. Goto(c, "deleting") /\ cleaner[c].pc = "runs" /\ cleaner[c].unread = {}
    BY <1>11 DEF Decide
  <2>2. PICK new : /\ Steps(c, new) /\ new.pc = "deleting" /\ new.job = cleaner[c].job
                   /\ new.target = l /\ new.threads = cleaner[c].threads
    BY <1>1, <2>1, GotoSteps
  <2> QED
    BY <1>1, <1>11, <2>1, <2>2 DEF Checked
<1>12. CASE ListNamespaces(c)
  BY <1>1, <1>12, ListNamespacesDoes DEF Checked
<1> QED
  BY <1>3, <1>4, <1>5, <1>6, <1>7, <1>8, <1>9, <1>10, <1>11, <1>12

LEMMA DeletesChecked ==
  ASSUME CheckedInv, NEW c \in Cleaners, NEW r \in Runs, DeleteThread(c, r),
         <<cleaner[c].target, "thread", r>> \in data
  PROVE  Checked(c)'
<1> DEFINE l == cleaner[c].target
<1>1. TypeOK /\ Checked(c) /\ Progress(c) /\ \A new : Steps(c, new) => cleaner'[c] = new
  BY StepsOnly DEF CheckedInv, DeletionInv, TypeInv
<1>2. PICK new : /\ Steps(c, new) /\ Stays(c, new) /\ new.pc = "deleting"
                 /\ new.threads = cleaner[c].threads \ {r}
  BY <1>1, DeleteThreadDoes
<1>3. /\ cleaner[c].pc = "deleting" /\ late' = late \cap data'
      /\ data' = data \ {<<l, "thread", r>>, <<l, "run", r>>}
  BY DEF DeleteThread
<1>4. \A q \in Runs \ {r} : run'[q] = run[q]
  BY <1>1 DEF DeleteThread, TypeOK
<1>5. new.threads \subseteq Runs \ {r}
  BY <1>1, <1>2 DEF TypeOK, CleanerRecords
<1>6. \A q \in Runs \ {r} : <<run[q].of, "run", q>> \in late => <<run[q].of, "run", q>> \in late'
  BY <1>1, <1>3 DEF TypeOK
<1> QED
  BY <1>1, <1>2, <1>3, <1>4, <1>5, <1>6 DEF Checked, Stays

LEMMA ServiceChecked ==
  ASSUME CheckedInv, NEW d \in Cleaners, Service(d)
  PROVE  \A c \in Cleaners : Checked(c)'
<1>1. TypeOK
  BY DEF CheckedInv, DeletionInv, TypeInv
<1>2. Checked(d)'
  <2>1. CASE \E r \in Runs : CancelRun(d, r)
    <3>1. cleaner'[d].job = "cancel"
      BY <1>1, <2>1, CancelRunDoes, StepsOnly DEF CancelRun, Stays
    <3> QED
      BY <3>1 DEF Checked
  <2>2. CASE \/ ReadFails(d) \/ Deleted(d) \/ CutShort(d)
             \/ (Decide(d) /\ cleaner[d].active # {})
             \/ \E r \in Runs : DeleteThread(d, r) /\ <<cleaner[d].target, "thread", r>> \notin data
    BY <1>1, <2>2, ServiceLeaves, LeavesDue DEF Checked
  <2>3. CASE \E r \in Runs : DeleteThread(d, r) /\ <<cleaner[d].target, "thread", r>> \in data
    BY <2>3, DeletesChecked
  <2>4. CASE RemoveHome(d) \/ DiscardArchive(d)
    <3>1. Goto(d, "archive") \/ Goto(d, "listing")
      BY <2>4 DEF RemoveHome, DiscardArchive, Remove
    <3> QED
      BY <1>1, <3>1, GotoSteps, StepsOnly DEF Checked
  <2>5. CASE \E n \in Namespaces : DropNamespace(d, n)
    BY <1>1, <2>5, DropNamespaceDoes, StepsOnly DEF Checked
  <2>6. CASE \/ \E job \in {"delete", "cancel"}, l \in Lifecycles : CallOne(d, job, l)
             \/ \E job \in {"bulk", "sweep"} : CallAll(d, job)
             \/ \E l \in Lifecycles, status \in Statuses : Judge(d, l, status)
             \/ Listed(d) \/ ReadRecord(d) \/ SearchThreads(d) \/ SearchRelations(d)
             \/ \E r \in Runs : ReadRun(d, r)
             \/ CancelReturns(d) \/ (Decide(d) /\ cleaner[d].active = {}) \/ ListNamespaces(d)
    <3>1. UNCHANGED <<late, run>>
      BY <1>1, <2>6, ServiceLooks DEF Looks
    <3> QED
      BY <2>6, <3>1, LooksChecked
  <2> QED
    BY <2>1, <2>2, <2>3, <2>4, <2>5, <2>6 DEF Service
<1>3. ASSUME NEW c \in Cleaners \ {d}
      PROVE  Checked(c)'
  <2>1. /\ Checked(c) /\ \A r \in Runs : /\ run'[r].of = run[r].of
                                         /\ run'[r].status = "active" => run[r].status = "active"
    BY <1>1, ServiceKeepsRuns DEF CheckedInv
  <2>2. cleaner'[c] = cleaner[c]
    BY <1>1, <1>3, ServiceKinds, StepsOnly, CancelRunDoes, LeavesDue DEF Looks, Trims
  <2>3. ASSUME NEW r \in Runs, Deletes(c, run[r].of), run[r].of # None, run'[r].status = "active"
        PROVE  \/ run[r].status = "active" /\ <<run[r].of, "run", r>> \notin late
               \/ <<run[r].of, "run", r>> \in late'
    BY <1>1, <2>1, <2>3, LateRunStays
  <2> QED
    BY <1>1, <2>1, <2>2, <2>3, CheckedKept
<1> QED
  BY <1>2, <1>3

LEMMA CheckedInvHolds == Spec => []CheckedInv
<1>1. Init => CheckedInv
  BY InitDeletion DEF CheckedInv, Checked, Init, Idle
<1>2. CheckedInv /\ [Next]_vars => CheckedInv'
  <2>1. ASSUME CheckedInv, UNCHANGED vars
        PROVE  \A c \in Cleaners : Checked(c)'
    BY <2>1 DEF CheckedInv, Checked, vars
  <2> QED
    BY <2>1, NextDeletion, RequestsChecked, ServiceChecked DEF CheckedInv, Next
<1> QED
  BY <1>1, <1>2, PTL DEF Spec

LEMMA OnlyDeletionLoses ==
  ASSUME TypeOK, Next, NEW r \in Runs, run[r].status = "active", run'[r].status = "lost"
  PROVE  \E c \in Cleaners : DeleteThread(c, r)
<1>1. ~Requests
  <2>1. ASSUME NEW q \in Runs, NEW l \in Lifecycles, BeginLifecycle(l, q)
        PROVE  FALSE
    BY <2>1 DEF BeginLifecycle, TypeOK, NoRun
  <2>2. ASSUME NEW q \in Runs, NEW p \in Runs, CallStart(p, q)
        PROVE  FALSE
    BY <2>2 DEF CallStart, TypeOK, NoRun
  <2>3. ASSUME NEW q \in Runs, OpenThread(q) \/ StartRun(q) \/ RecordRelation(q) \/ FailStart(q)
        PROVE  FALSE
    BY <2>3 DEF OpenThread, StartRun, RecordRelation, FailStart, Advance, EndAs, TypeOK, RunRecords
  <2>4. ASSUME NEW q \in Runs, WriteFiles(q)
        PROVE  FALSE
    BY <2>4 DEF WriteFiles
  <2>5. ASSUME NEW q \in Runs, NEW status \in Outcomes, EndRun(q, status)
        PROVE  FALSE
    BY <2>5, RetentionAssumption DEF EndRun, TypeOK, RunRecords
  <2> QED
    BY <2>1, <2>2, <2>3, <2>4, <2>5 DEF Requests
<1>2. PICK c \in Cleaners : Service(c)
  BY <1>1 DEF Next
<1>3. run' # run
  OBVIOUS
<1>4. PICK q \in Runs : CancelRun(c, q) \/ DeleteThread(c, q)
  BY <1>2, <1>3 DEF Service, CallOne, CallAll, Judge, Listed, ReadRecord, SearchThreads,
     SearchRelations, ReadRun, ReadFails, CancelReturns, Decide, RemoveHome, DiscardArchive,
     ListNamespaces, DropNamespace, Deleted, CutShort
<1>5. ~CancelRun(c, q)
  BY DEF CancelRun, TypeOK, RunRecords
<1>6. DeleteThread(c, q) /\ q = r
  BY <1>3, <1>4, <1>5 DEF DeleteThread, TypeOK
<1> QED
  BY <1>6

\* A deletion takes an active Run with it only when that Run was started
\* after the deletion had begun to look.
THEOREM OnlyLateRunsLostHolds == Spec => OnlyLateRunsLost
<1>1. ASSUME CheckedInv, Next, NEW r \in Runs, run[r].status = "active", run'[r].status = "lost"
      PROVE  <<run[r].of, "run", r>> \in late
  <2>1. TypeOK
    BY <1>1 DEF CheckedInv, DeletionInv, TypeInv
  <2>2. PICK c \in Cleaners : DeleteThread(c, r)
    BY <1>1, <2>1, OnlyDeletionLoses
  <2>3. /\ cleaner[c].pc = "deleting" /\ r \in cleaner[c].threads
    BY <2>2 DEF DeleteThread
  <2>4. cleaner[c].job # "cancel"
    BY <1>1, <2>3 DEF CheckedInv, DeletionInv, Progress, Deleting
  <2> QED
    BY <1>1, <2>3, <2>4 DEF CheckedInv, Checked
<1>2. CheckedInv /\ [Next]_vars =>
        [\A r \in Runs : run[r].status = "active" /\ run'[r].status = "lost" =>
           <<run[r].of, "run", r>> \in late]_vars
  BY <1>1 DEF vars
<1> QED
  BY <1>2, CheckedInvHolds, PTL DEF Spec, OnlyLateRunsLost

-----------------------------------------------------------------------------
(* What sweeps leave.                                                      *)

Above(l) == {k \in Begun : k > l}

\* A sweep deletes what had enough newer ones when it was listed.
SweepsRight(c) ==
  /\ cleaner[c].pc = "judging" => cleaner[c].queue \cup cleaner[c].listed \subseteq Begun
  /\ cleaner[c].job = "sweep" /\ cleaner[c].pc \notin {"idle", "judging"} =>
       \A l \in {cleaner[c].target} \cup cleaner[c].queue :
         l \in Lifecycles /\ Cardinality(Above(l)) >= Retained

KeptInv == TypeInv /\ NewestKept /\ \A c \in Cleaners : SweepsRight(c)

LEMMA SetsOfLifecycles ==
  ASSUME NEW S \in SUBSET Lifecycles
  PROVE  /\ IsFiniteSet(S) /\ Cardinality(S) \in Nat
         /\ \A T \in SUBSET S : Cardinality(T) \in Nat /\ Cardinality(T) <= Cardinality(S)
<1>1. IsFiniteSet(Lifecycles)
  BY RetentionAssumption, FS_Interval DEF Lifecycles
<1>2. IsFiniteSet(S)
  BY <1>1, FS_Subset
<1>3. \A T \in SUBSET S : IsFiniteSet(T) /\ Cardinality(T) <= Cardinality(S)
  BY <1>2, FS_Subset
<1> QED
  BY <1>2, <1>3, FS_CardinalityType

LEMMA BegunAreLifecycles ==
  /\ TypeOK => Begun \in SUBSET Lifecycles
  /\ TypeOK' => Begun' \in SUBSET Lifecycles
BY DEF TypeOK, RunRecords, Begun

\* No Lifecycle that has begun is forgotten, so what is above one only grows.
LEMMA BegunGrows ==
  ASSUME TypeInv, Next
  PROVE  Begun \subseteq Begun'
<1>1. \A r \in Runs : run[r].of # None => run'[r].of = run[r].of
  <2>1. CASE Requests
    BY <2>1, RequestsWrite DEF Requested
  <2>2. CASE \E c \in Cleaners : Service(c)
    BY <2>2, ServiceKeepsRuns DEF TypeInv
  <2> QED
    BY <2>1, <2>2 DEF Next
<1> QED
  BY <1>1 DEF Begun

LEMMA MoreAbove ==
  ASSUME TypeInv, Next, NEW l \in Lifecycles, Cardinality(Above(l)) >= Retained
  PROVE  Cardinality(Above(l)') >= Retained
<1>1. Above(l)' \in SUBSET Lifecycles /\ Above(l) \subseteq Above(l)'
  BY NextTypes, BegunGrows, BegunAreLifecycles DEF TypeInv, Above
<1>2. /\ Cardinality(Above(l)') \in Nat /\ Cardinality(Above(l)) \in Nat
      /\ Cardinality(Above(l)) <= Cardinality(Above(l)')
  BY <1>1, SetsOfLifecycles
<1> QED
  BY <1>2, RetentionAssumption

\* A call that does not step, or stays with its list, keeps to what it may sweep.
LEMMA SweepsRightKept ==
  ASSUME TypeInv, Next, NEW c \in Cleaners, SweepsRight(c),
         \/ cleaner'[c] = cleaner[c]
         \/ \E new : Stays(c, new) /\ cleaner'[c] = new /\ cleaner[c].pc \notin {"idle", "judging"}
                     /\ new.pc # "judging"
  PROVE  SweepsRight(c)'
BY BegunGrows, MoreAbove DEF SweepsRight, Stays

LEMMA StartsRight ==
  ASSUME TypeInv, Next, NEW c \in Cleaners, NEW new, NEW todo \in SUBSET Lifecycles,
         Starts(c, new, todo), cleaner'[c] = new,
         cleaner[c].job = "sweep" => \A l \in todo : Cardinality(Above(l)) >= Retained
  PROVE  SweepsRight(c)'
<1>1. CASE new = Idle
  BY <1>1 DEF SweepsRight, Idle
<1>2. CASE new # Idle
  <2>1. /\ new.pc = "reading" /\ new.job = cleaner[c].job
        /\ {new.target} \cup new.queue \subseteq todo
    BY <1>2 DEF Starts
  <2>2. ASSUME cleaner[c].job = "sweep", NEW l \in todo
        PROVE  l \in Lifecycles /\ Cardinality(Above(l)') >= Retained
    BY <2>2, MoreAbove
  <2> QED
    BY <2>1, <2>2 DEF SweepsRight
<1> QED
  BY <1>1, <1>2

\* Surplus Lifecycles have enough newer ones that are listed.
LEMMA ListedRight ==
  ASSUME TypeInv, Next, NEW c \in Cleaners, SweepsRight(c), Listed(c)
  PROVE  SweepsRight(c)'
<1> DEFINE listed == cleaner[c].listed
           todo == IF cleaner[c].job = "sweep" THEN Surplus(listed) ELSE listed
<1>1. /\ TypeOK /\ listed \in SUBSET Lifecycles /\ todo \in SUBSET Lifecycles
      /\ Begun \in SUBSET Lifecycles
  BY BegunAreLifecycles DEF TypeInv, TypeOK, CleanerRecords, Surplus
<1>2. listed \subseteq Begun
  BY DEF Listed, SweepsRight
<1>3. PICK new \in Taking(c, todo) : Step(c, new)
  BY DEF Listed
<1>4. new \in CleanerRecords /\ Starts(c, new, todo)
  BY <1>1, <1>3, TakingStarts
<1>5. cleaner'[c] = new
  BY <1>1, <1>3 DEF Step, TypeOK
<1>6. ASSUME cleaner[c].job = "sweep", NEW l \in todo
      PROVE  Cardinality(Above(l)) >= Retained
  <2> DEFINE seen == {k \in listed : k > l}
  <2>1. Cardinality(seen) >= Retained
    BY <1>6 DEF Surplus
  <2>2. Above(l) \in SUBSET Lifecycles /\ seen \in SUBSET Above(l)
    BY <1>1, <1>2 DEF Above
  <2> HIDE DEF seen
  <2>3. /\ Cardinality(seen) \in Nat /\ Cardinality(Above(l)) \in Nat
        /\ Cardinality(seen) <= Cardinality(Above(l))
    BY <2>2, SetsOfLifecycles
  <2> QED
    BY <2>1, <2>3, RetentionAssumption
<1> HIDE DEF todo
<1> QED
  BY <1>1, <1>4, <1>5, <1>6, StartsRight

LEMMA ServiceSweeps ==
  ASSUME KeptInv, NEW c \in Cleaners, Service(c)
  PROVE  SweepsRight(c)'
<1>1. TypeInv /\ TypeOK /\ Next /\ SweepsRight(c) /\ \A new : Steps(c, new) => cleaner'[c] = new
  BY StepsOnly DEF KeptInv, TypeInv, Next
<1>2. ASSUME cleaner'[c].pc \in {"idle", "reading"}, cleaner'[c].job # "sweep"
      PROVE  SweepsRight(c)'
  BY <1>2 DEF SweepsRight
<1>3. CASE \/ \E job \in {"delete", "cancel"}, k \in Lifecycles : CallOne(c, job, k)
           \/ \E job \in {"bulk", "sweep"} : CallAll(c, job)
  BY <1>1, <1>3, CallsDo, BegunGrows DEF SweepsRight
<1>4. CASE \E k \in Lifecycles, status \in Statuses : Judge(c, k, status)
  <2>1. PICK k \in Lifecycles, status \in Statuses : Judge(c, k, status)
    BY <1>4
  <2>2. PICK new : /\ Steps(c, new) /\ new.pc = "judging" /\ new.job = cleaner[c].job
                   /\ new.queue = cleaner[c].queue \ {k} /\ k \in cleaner[c].queue
                   /\ new.listed \subseteq cleaner[c].listed \cup {k}
    BY <1>1, <2>1, JudgeDoes
  <2>3. cleaner[c].pc = "judging"
    BY <2>1 DEF Judge
  <2> QED
    BY <1>1, <2>2, <2>3, BegunGrows DEF SweepsRight
<1>5. CASE Listed(c)
  BY <1>1, <1>5, ListedRight
<1>6. CASE ReadRecord(c)
  <2>1. Goto(c, "threads") \/ Step(c, Idle)
    BY <1>6 DEF ReadRecord
  <2>2. CASE Goto(c, "threads")
    BY <1>1, <1>6, <2>2, GotoSteps, SweepsRightKept DEF Stays, ReadRecord
  <2>3. CASE Step(c, Idle)
    <3>1. cleaner'[c] = Idle
      BY <1>1, <2>3, IdleIsTyped DEF Step, Steps
    <3> QED
      BY <3>1 DEF Idle, SweepsRight
  <2> QED
    BY <2>1, <2>2, <2>3
<1>7. CASE CancelReturns(c)
  <2>1. cleaner'[c] = Idle
    BY <1>1, <1>7, IdleIsTyped DEF CancelReturns, Step, Steps
  <2> QED
    BY <2>1 DEF Idle, SweepsRight
<1>8. CASE \/ SearchThreads(c) \/ SearchRelations(c)
           \/ \E r \in Runs : ReadRun(c, r) \/ CancelRun(c, r)
           \/ (Decide(c) /\ cleaner[c].active = {}) \/ ListNamespaces(c)
  <2>1. \E new : Steps(c, new) /\ Stays(c, new) /\ new.pc # "judging"
    <3>1. CASE Decide(c) /\ cleaner[c].active = {}
      <4>1. Goto(c, "deleting")
        BY <3>1 DEF Decide
      <4> QED
        BY <1>1, <4>1, GotoSteps DEF Stays
    <3> QED
      BY <1>1, <1>8, <3>1, SearchThreadsDoes, SearchRelationsDoes, ReadRunDoes, CancelRunDoes,
         ListNamespacesDoes
  <2>2. cleaner[c].pc \notin {"idle", "judging"}
    BY <1>8 DEF SearchThreads, SearchRelations, ReadRun, CancelRun, Decide, ListNamespaces
  <2> QED
    BY <1>1, <2>1, <2>2, SweepsRightKept
<1>9. CASE \/ ReadFails(c) \/ Deleted(c) \/ CutShort(c)
           \/ (Decide(c) /\ cleaner[c].active # {})
           \/ \E r \in Runs : DeleteThread(c, r) /\ <<cleaner[c].target, "thread", r>> \notin data
  <2>1. PICK new \in CleanerRecords : \E things \in SUBSET data :
          Leave(c, new, things) /\ Starts(c, new, cleaner[c].queue)
    BY <1>1, <1>9, ServiceLeaves DEF Leaves
  <2>2. cleaner'[c] = new
    BY <1>1, <2>1 DEF Leave, Step, Steps
  <2>3. cleaner[c].pc \notin {"idle", "judging"}
    BY <1>9 DEF ReadFails, Deleted, CutShort, Decide, DeleteThread
  <2>4. cleaner[c].queue \in SUBSET Lifecycles
    BY <1>1 DEF TypeOK, CleanerRecords
  <2>5. cleaner[c].job = "sweep" => \A l \in cleaner[c].queue : Cardinality(Above(l)) >= Retained
    BY <1>1, <2>3 DEF SweepsRight
  <2> QED
    BY <1>1, <2>1, <2>2, <2>4, <2>5, StartsRight
<1>10. CASE \/ \E r \in Runs : DeleteThread(c, r) /\ <<cleaner[c].target, "thread", r>> \in data
            \/ RemoveHome(c) \/ DiscardArchive(c)
            \/ \E n \in Namespaces : DropNamespace(c, n)
  <2>1. Trims(c)
    BY <1>1, <1>10, ServiceTrims
  <2> QED
    BY <1>1, <2>1, SweepsRightKept DEF Trims, Deleting
<1> QED
  BY <1>3, <1>4, <1>5, <1>6, <1>7, <1>8, <1>9, <1>10 DEF Service

LEMMA NextSweeps ==
  ASSUME KeptInv, Next
  PROVE  \A c \in Cleaners : SweepsRight(c)'
<1> SUFFICES ASSUME NEW c \in Cleaners
             PROVE  SweepsRight(c)'
  OBVIOUS
<1>1. TypeInv /\ TypeOK /\ SweepsRight(c)
  BY DEF KeptInv, TypeInv
<1>2. CASE Requests
  <2>1. cleaner' = cleaner
    BY <1>1, <1>2, RequestsWrite DEF Requested
  <2> QED
    BY <1>1, <2>1, SweepsRightKept
<1>3. ASSUME NEW d \in Cleaners, Service(d), d # c
      PROVE  SweepsRight(c)'
  <2>1. cleaner'[c] = cleaner[c]
    BY <1>1, <1>3, ServiceKinds, StepsOnly, CancelRunDoes, LeavesDue DEF Looks, Trims
  <2> QED
    BY <1>1, <2>1, SweepsRightKept
<1> QED
  BY <1>2, <1>3, ServiceSweeps DEF Next

\* A sweep takes one Lifecycle at a time, of those it may take.
LEMMA SweepsOne ==
  ASSUME KeptInv, Next
  PROVE  \/ swept' = swept
         \/ \E l \in Lifecycles : swept' = swept \cup {l} /\ Cardinality(Above(l)) >= Retained
<1>1. TypeInv /\ TypeOK /\ \A c \in Cleaners : SweepsRight(c)
  BY DEF KeptInv, TypeInv
<1>2. CASE Requests
  BY <1>1, <1>2, RequestsWrite DEF Requested
<1>3. ASSUME NEW c \in Cleaners, Service(c), swept' # swept
      PROVE  \E l \in Lifecycles : swept' = swept \cup {l} /\ Cardinality(Above(l)) >= Retained
  <2>1. PICK n \in Namespaces : DropNamespace(c, n)
    BY <1>3 DEF Service, CallOne, CallAll, Judge, Listed, ReadRecord, SearchThreads,
       SearchRelations, ReadRun, CancelRun, DeleteThread, ReadFails, CancelReturns, Decide,
       RemoveHome, DiscardArchive, ListNamespaces, Deleted, CutShort
  <2>2. /\ cleaner[c].pc = "store" /\ cleaner[c].job = "sweep"
        /\ swept' = swept \cup {cleaner[c].target}
    BY <1>3, <2>1 DEF DropNamespace
  <2> QED
    BY <1>1, <2>2 DEF SweepsRight
<1> QED
  BY <1>2, <1>3 DEF Next

\* Either nothing newer than the one swept now was swept before, or what the
\* newer one left is newer than this one too.
LEMMA NextKept ==
  ASSUME KeptInv, Next
  PROVE  NewestKept'
<1> DEFINE Kept(l) == {k \in Begun \ swept : k > l}
           KeptNow(l) == {k \in Begun' \ swept' : k > l}
<1>1. TypeInv /\ TypeOK /\ NewestKept /\ TypeInv' /\ TypeOK'
  BY NextTypes DEF KeptInv, TypeInv
<1>2. /\ Begun \subseteq Begun' /\ Begun' \in SUBSET Lifecycles /\ Begun \in SUBSET Lifecycles
      /\ swept \in SUBSET Lifecycles /\ Lifecycles \subseteq Nat
  BY <1>1, BegunGrows, BegunAreLifecycles DEF TypeOK, Lifecycles
<1>3. ASSUME NEW l \in Lifecycles, NEW S, S \subseteq KeptNow(l), Cardinality(S) >= Retained
      PROVE  Cardinality(KeptNow(l)) >= Retained
  <2>1. KeptNow(l) \in SUBSET Lifecycles
    BY <1>2
  <2> HIDE DEF KeptNow
  <2>2. /\ Cardinality(S) \in Nat /\ Cardinality(KeptNow(l)) \in Nat
        /\ Cardinality(S) <= Cardinality(KeptNow(l))
    BY <1>3, <2>1, SetsOfLifecycles
  <2> QED
    BY <1>3, <2>2, RetentionAssumption
<1>4. \A l \in swept : Cardinality(Kept(l)) >= Retained
  BY <1>1 DEF NewestKept
<1> SUFFICES \A l \in swept' : Cardinality(KeptNow(l)) >= Retained
  BY DEF NewestKept
<1>5. CASE swept' = swept
  <2>1. \A l \in swept : Kept(l) \subseteq KeptNow(l)
    BY <1>2, <1>5
  <2> HIDE DEF Kept, KeptNow
  <2> QED
    BY <1>2, <1>3, <1>4, <1>5, <2>1
<1>6. ASSUME NEW new \in Lifecycles, swept' = swept \cup {new},
             Cardinality(Above(new)) >= Retained
      PROVE  \A l \in swept' : Cardinality(KeptNow(l)) >= Retained
  <2>1. Cardinality(KeptNow(new)) >= Retained
    <3>1. CASE \E k \in swept : k > new
      <4>1. PICK k \in swept : k > new
        BY <3>1
      <4>2. ASSUME NEW x \in Kept(k)
            PROVE  x \in KeptNow(new)
        <5>1. /\ x \in Nat /\ k \in Nat /\ new \in Nat
              /\ x > k /\ x \in Begun' /\ x \notin swept
          BY <1>2, <1>6, <4>1
        <5>2. x > new /\ x # new
          BY <4>1, <5>1
        <5> QED
          BY <1>6, <5>1, <5>2
      <4> HIDE DEF Kept, KeptNow
      <4> QED
        BY <1>3, <1>4, <4>1, <4>2
    <3>2. CASE \A k \in swept : ~(k > new)
      <4>1. ASSUME NEW x \in Above(new)
            PROVE  x \in KeptNow(new)
        <5>1. x \in Nat /\ new \in Nat /\ x > new /\ x \in Begun' /\ x \notin swept
          BY <1>2, <1>6, <3>2 DEF Above
        <5>2. x # new
          BY <5>1
        <5> QED
          BY <1>6, <5>1, <5>2
      <4> HIDE DEF KeptNow
      <4> QED
        BY <1>3, <1>6, <4>1
    <3> QED
      BY <3>1, <3>2
  <2>2. ASSUME NEW l \in swept
        PROVE  Cardinality(KeptNow(l)) >= Retained
    <3>1. l \in Lifecycles
      BY <1>2
    <3>2. CASE l < new
      <4>1. ASSUME NEW x \in KeptNow(new)
            PROVE  x \in KeptNow(l)
        <5>1. x \in Nat /\ new \in Nat /\ l \in Nat /\ x > new /\ x \in Begun' \ swept'
          BY <1>2, <1>6, <3>1
        <5>2. x > l
          BY <3>2, <5>1
        <5> QED
          BY <5>1, <5>2
      <4> HIDE DEF KeptNow
      <4> QED
        BY <1>3, <2>1, <3>1, <4>1
    <3>3. CASE ~(l < new)
      <4>1. Kept(l) \subseteq KeptNow(l)
        BY <1>2, <1>6, <3>1, <3>3
      <4> HIDE DEF Kept, KeptNow
      <4> QED
        BY <1>3, <1>4, <3>1, <4>1
    <3> QED
      BY <3>2, <3>3
  <2> HIDE DEF KeptNow
  <2> QED
    BY <1>6, <2>1, <2>2
<1> HIDE DEF KeptNow
<1>7. KeptInv
  OBVIOUS
<1> QED
  BY <1>5, <1>6, SweepsOne

\* Whatever sweeps overlap, those that delete a Lifecycle leave at least
\* retained_lifecycles newer ones behind.
THEOREM NewestKeptHolds == Spec => []NewestKept
<1>1. Init => KeptInv
  BY InitTypes DEF KeptInv, NewestKept, SweepsRight, Init, Idle
<1>2. KeptInv /\ [Next]_vars => KeptInv'
  <2>1. ASSUME KeptInv, UNCHANGED vars
        PROVE  KeptInv'
    <3>1. TypeInv'
      BY <2>1, NextTypes DEF KeptInv
    <3>2. UNCHANGED <<cleaner, swept, run>>
      BY <2>1 DEF vars
    <3>3. Begun' = Begun
      BY <3>2 DEF Begun
    <3>4. NewestKept' /\ \A c \in Cleaners : SweepsRight(c)'
      BY <2>1, <3>2, <3>3 DEF KeptInv, NewestKept, SweepsRight, Above
    <3> QED
      BY <3>1, <3>4 DEF KeptInv
  <2>2. ASSUME KeptInv, Next
        PROVE  KeptInv'
    BY <2>2, NextTypes, NextKept, NextSweeps DEF KeptInv
  <2> QED
    BY <2>1, <2>2
<1>3. KeptInv => NewestKept
  BY DEF KeptInv
<1> QED
  BY <1>1, <1>2, <1>3, PTL DEF Spec
=============================================================================
