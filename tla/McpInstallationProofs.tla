----------------------- MODULE McpInstallationProofs -----------------------
(***************************************************************************)
(* Theorems of McpInstallation for any number of requests, calls and       *)
(* faults, any declarations and resolutions: what is shown of a Connection *)
(* is there, and an install keeps its promise however it ends.  McpInv is  *)
(* the inductive invariant.                                                *)
(***************************************************************************)
EXTENDS McpInstallation, TLAPS

\* Where a request holds the store's lock and where the operation lock, and
\* where it is about to remove a runtime or to install one.
InStore == {"document", "stale", "unlink", "forget"}
Removing == {"remove", "tree", "unstatus", "unlock"}
Installing == {"stage", "away", "publish", "writelock", "withdraw", "restore", "previous",
               "clear", "siblings", "verify", "failing"}
InOperation == (Removing \ {"remove"}) \cup {"declare"} \cup Installing

Locks ==
  \A r \in Requests : /\ Pc(r) \in InStore <=> storeLock = r
                      /\ Pc(r) \in InOperation <=> opLock = r

\* What a request that holds the store's lock has changed, and would put back.
Kept(r) ==
  LET old == request[r].old IN
  Pc(r) \in InStore =>
    /\ old \in StoreContents
    /\ old.declared = None => ~old.bound
    /\ Pc(r) = "document" => declared = old.declared
    /\ Pc(r) \in {"document", "stale"} => bound = old.bound
    /\ Pc(r) \in {"unlink", "forget"} => ~bound /\ old.declared # None
    /\ Pc(r) = "forget" => declared = None

\* Where a remover or an installer stands fixes what the files are; what `was`
\* ready before is still there, or next to its place.
Files(r) ==
  LET d == request[r].decl
      n == request[r].res
      Locked == \E k \in Resolutions : lock = <<d, k>>
  IN
  /\ Pc(r) # "idle" => d \in Declarations
  /\ Pc(r) = "unlock" => status = None
  /\ Pc(r) \in Installing \ {"stage", "restore", "failing"} => n \in Resolutions
  /\ Pc(r) \in {"stage", "away", "failing"} /\ request[r].was => Installed(d)
  /\ Pc(r) \in {"away", "publish", "writelock"} /\ Locked => lock = <<d, n>>
  /\ Pc(r) \in {"publish", "restore"} /\ request[r].was =>
       dirs[d] = None /\ \E k \in Resolutions : lock = <<d, k>> /\ dirs[r] = Whole(k)
  /\ Pc(r) = "writelock" /\ request[r].was => lock = <<d, n>>
  /\ Pc(r) = "withdraw" => ~request[r].was /\ ~Locked
  /\ Pc(r) \in {"writelock", "previous", "clear", "siblings", "verify"} => dirs[d] = Whole(n)
  /\ Pc(r) \in {"previous", "clear", "siblings", "verify"} => lock = <<d, n>>

\* A deletion that has returned, or that a failing update would bring back to
\* mind, has left nothing, and nobody installs.
Quiet ==
  lock = None /\ status = None /\ \A r \in Requests : Pc(r) \notin Installing

Removal ==
  /\ declared = None => ~bound
  /\ removed => declared = None /\ Quiet
  /\ \A r \in Requests : Pc(r) \in InStore /\ request[r].old.removed =>
       request[r].old.declared = None /\ Quiet

\* Files that the lock file names are torn, in their place or set aside.
TornLocked ==
  \E d \in Declarations, n \in Resolutions :
    /\ lock = <<d, n>>
    /\ \/ dirs[d] = Torn(n)
       \/ \E r \in Requests : /\ Pc(r) \in {"publish", "restore"} /\ request[r].decl = d
                              /\ dirs[r] = Torn(n)

\* The Connection was deleted, if only for a while, and nothing undoes that.
GivenUp ==
  /\ declared = None \/ revived
  /\ \A r \in Requests : Pc(r) \in InStore =>
       request[r].old.declared = None \/ request[r].old.revived

Doubtful == TornLocked \/ \E r \in Requests : Pc(r) \in Removing

McpInv ==
  /\ TypeOK /\ Locks /\ Removal
  /\ \A r \in Requests : Kept(r) /\ Files(r)
  /\ Doubtful => GivenUp

-----------------------------------------------------------------------------
(* Steps of one request.                                                   *)

\* The step makes k of request r and changes no other.
Becomes(r, k) == k \in RequestRecords /\ request' = [request EXCEPT ![r] = k]

Same(j, k) == k.decl = j.decl /\ k.res = j.res /\ k.old = j.old /\ k.was = j.was

LEMMA BecomesOnly ==
  ASSUME TypeOK, NEW r \in Requests, NEW k, Becomes(r, k)
  PROVE  /\ request' \in [Requests -> RequestRecords] /\ request'[r] = k
         /\ \A s \in Requests \ {r} : request'[s] = request[s]
BY DEF TypeOK, Becomes

LEMMA GotoIs ==
  ASSUME TypeOK, NEW r \in Requests, NEW pc \in Pcs, Goto(r, pc)
  PROVE  \E k : Becomes(r, k) /\ k.pc = pc /\ Same(request[r], k)
<1> DEFINE k == [request[r] EXCEPT !.pc = pc]
<1>1. request[r] \in RequestRecords
  BY DEF TypeOK
<1>2. k \in RequestRecords /\ k.pc = pc /\ Same(request[r], k)
  BY <1>1 DEF RequestRecords, Same
<1>3. request' = [request EXCEPT ![r] = k]
  BY DEF Goto
<1> HIDE DEF k
<1> QED
  BY <1>2, <1>3 DEF Becomes

LEMMA IdleIs == Idle \in RequestRecords /\ Idle.pc = "idle"
BY DEF Idle, RequestRecords, Pcs

LEMMA ReturnIs ==
  ASSUME NEW r, Return(r)
  PROVE  Becomes(r, Idle)
BY IdleIs DEF Return, Becomes

\* A step outside of both locks that changes nothing but the request.
LEMMA OutsideKeeps ==
  ASSUME McpInv, NEW r \in Requests, NEW k, Becomes(r, k),
         Pc(r) \notin InStore \cup InOperation \cup Removing,
         k.pc \notin InStore \cup InOperation \cup Removing,
         k.pc # "idle" => k.decl \in Declarations,
         UNCHANGED <<store, runtime, storeLock, opLock>>,
         calls' \in 0..MaxCalls, faults' \in 0..MaxFaults
  PROVE  McpInv'
<1>1. /\ TypeOK /\ Locks /\ Removal /\ (Doubtful => GivenUp)
      /\ \A s \in Requests : Kept(s) /\ Files(s)
  BY DEF McpInv
<1>2. /\ request' \in [Requests -> RequestRecords] /\ request'[r] = k
      /\ \A s \in Requests \ {r} : request'[s] = request[s]
  BY <1>1, BecomesOnly
<1>3. TypeOK'
  BY <1>1, <1>2 DEF TypeOK, store, runtime
<1>4. Locks'
  BY <1>1, <1>2 DEF Locks, Pc
<1>5. \A s \in Requests : Kept(s)'
  BY <1>1, <1>2 DEF Kept, Pc, store, InStore
<1>6. \A s \in Requests : Files(s)'
  BY <1>1, <1>2 DEF Files, Pc, store, runtime, InOperation, Installing, Removing, Installed
<1>7. Removal'
  BY <1>1, <1>2 DEF Removal, Quiet, Pc, store, runtime, InOperation
<1>8. Doubtful' => Doubtful
  BY <1>1, <1>2 DEF Doubtful, TornLocked, Pc, store, runtime, InOperation, Installing
<1>9. GivenUp => GivenUp'
  BY <1>1, <1>2 DEF GivenUp, Pc, store
<1> QED
  BY <1>1, <1>3, <1>4, <1>5, <1>6, <1>7, <1>8, <1>9 DEF McpInv

\* A step of the store: its lock is free, or is the request's own.
LEMMA StoreKeeps ==
  ASSUME McpInv, NEW r \in Requests, NEW k, Becomes(r, k),
         Pc(r) \notin InOperation, k.pc \notin InOperation,
         k.pc # "idle" => k.decl \in Declarations,
         storeLock \in {None, r}, storeLock' \in {None, r},
         k.pc \in InStore <=> storeLock' = r,
         UNCHANGED <<runtime, opLock>>,
         TypeOK', Kept(r)',
         declared' = None => ~bound',
         removed' => declared' = None /\ Quiet,
         k.pc \in InStore /\ k.old.removed => k.old.declared = None /\ Quiet,
         GivenUp \/ k.pc \in Removing => GivenUp'
  PROVE  McpInv'
<1>1. /\ TypeOK /\ Locks /\ Removal /\ (Doubtful => GivenUp)
      /\ \A s \in Requests : Kept(s) /\ Files(s)
  BY DEF McpInv
<1>2. /\ request'[r] = k /\ \A s \in Requests \ {r} : request'[s] = request[s]
  BY <1>1, BecomesOnly
<1>3. \A s \in Requests \ {r} : Pc(s) \notin InStore
  BY <1>1, InstallationAssumption DEF Locks
<1>4. Locks'
  BY <1>1, <1>2, <1>3, InstallationAssumption DEF Locks, Pc
<1>5. \A s \in Requests : Kept(s)'
  BY <1>2, <1>3 DEF Kept, Pc
<1>6. \A s \in Requests : Files(s)'
  BY <1>1, <1>2 DEF Files, Pc, runtime, InOperation, Installing, Removing, Installed
<1>7. Quiet' <=> Quiet
  BY <1>2 DEF Quiet, Pc, runtime, InOperation
<1>8. Removal'
  BY <1>2, <1>3, <1>7 DEF Removal, Pc
<1>9. Doubtful' => Doubtful \/ k.pc \in Removing
  BY <1>1, <1>2 DEF Doubtful, TornLocked, Pc, runtime, InOperation, Installing
<1> QED
  BY <1>1, <1>4, <1>5, <1>6, <1>8, <1>9 DEF McpInv

\* Files that the lock file names get torn by nobody but a remover.
TearsNothing(r, k) ==
  \A d \in Declarations, n \in Resolutions :
    /\ lock' = <<d, n>>
    /\ \/ dirs'[d] = Torn(n)
       \/ k.pc \in {"publish", "restore"} /\ k.decl = d /\ dirs'[r] = Torn(n)
    => TornLocked \/ Pc(r) \in Removing

\* A step under the Connection's operation lock.
LEMMA OperationKeeps ==
  ASSUME McpInv, NEW r \in Requests, NEW k, Becomes(r, k),
         Pc(r) \notin InStore, k.pc \notin InStore,
         opLock \in {None, r}, opLock' \in {None, r},
         k.pc \in InOperation <=> opLock' = r,
         k.pc \in Removing => Pc(r) \in Removing,
         UNCHANGED <<declared, bound, secret, revived, storeLock, calls>>,
         lock' \in (Declarations \X Resolutions) \cup {None},
         dirs' \in [Names -> (Resolutions \X {"whole", "torn"}) \cup {None}],
         status' \in Declarations \cup {None},
         faults' \in 0..MaxFaults,
         removed' \in BOOLEAN, removed' => removed \/ (declared = None /\ Quiet'),
         (Quiet => Quiet') \/ (declared # None /\ storeLock = None),
         TearsNothing(r, k), Files(r)'
  PROVE  McpInv'
<1>1. /\ TypeOK /\ Locks /\ Removal /\ (Doubtful => GivenUp)
      /\ \A s \in Requests : Kept(s) /\ Files(s)
  BY DEF McpInv
<1>2. /\ request' \in [Requests -> RequestRecords] /\ request'[r] = k
      /\ \A s \in Requests \ {r} : request'[s] = request[s]
  BY <1>1, BecomesOnly
<1>3. \A s \in Requests \ {r} : Pc(s) \notin InOperation
  BY <1>1, InstallationAssumption DEF Locks
<1>4. TypeOK'
  BY <1>1, <1>2 DEF TypeOK
<1>5. Locks'
  BY <1>1, <1>2, <1>3, InstallationAssumption DEF Locks, Pc
<1>6. \A s \in Requests : Kept(s)'
  BY <1>1, <1>2 DEF Kept, Pc
<1>7. \A s \in Requests : Files(s)'
  BY <1>1, <1>2, <1>3 DEF Files, Pc, InOperation, Installing, Removing
<1>8. Removal'
  <2>1. \A s \in Requests : Pc(s)' \in InStore =>
          Pc(s) \in InStore /\ request'[s].old = request[s].old
    BY <1>2 DEF Pc
  <2>2. \A s \in Requests : Pc(s) \in InStore => storeLock # None
    BY <1>1, InstallationAssumption DEF Locks
  <2> QED
    BY <1>1, <2>1, <2>2 DEF Removal
<1>9. Doubtful' => Doubtful
  <2>1. TornLocked' => TornLocked \/ Pc(r) \in Removing
    BY <1>2, <1>3 DEF TornLocked, TearsNothing, Pc, InOperation, Installing
  <2>2. \A s \in Requests : Pc(s)' \in Removing => Pc(s) \in Removing
    BY <1>2 DEF Pc
  <2> QED
    BY <2>1, <2>2 DEF Doubtful
<1>10. GivenUp => GivenUp'
  BY <1>1, <1>2 DEF GivenUp, Pc
<1> QED
  BY <1>1, <1>4, <1>5, <1>6, <1>7, <1>8, <1>9, <1>10 DEF McpInv

-----------------------------------------------------------------------------
(* The store's actions.                                                    *)

LEMMA Parts ==
  ASSUME McpInv, NEW r \in Requests
  PROVE  /\ TypeOK /\ Locks /\ Removal /\ Kept(r) /\ Files(r)
         /\ request[r] \in RequestRecords /\ request[r].pc = Pc(r)
BY DEF McpInv, TypeOK, Pc

LEMMA CallKeeps ==
  ASSUME McpInv, NEW r \in Requests, NEW job \in {"update", "install", "delete", "bind"},
         NEW d \in Declarations, Call(r, job, d)
  PROVE  McpInv'
<1> DEFINE pc == CASE job = "update" -> "check" [] job = "install" -> "queue"
                   [] job = "delete" -> "delete" [] job = "bind" -> "bind"
           k == [Idle EXCEPT !.decl = d, !.pc = pc]
<1>1. pc \in {"check", "queue", "delete", "bind"}
  OBVIOUS
<1>2. request' = [request EXCEPT ![r] = k]
  BY DEF Call
<1> HIDE DEF pc
<1>3. k \in RequestRecords /\ k.pc = pc /\ k.decl = d
  BY <1>1 DEF Idle, RequestRecords, Pcs
<1> HIDE DEF k
<1>4. calls' \in 0..MaxCalls /\ faults' \in 0..MaxFaults
  BY Parts, InstallationAssumption DEF Call, TypeOK
<1> QED
  BY <1>1, <1>2, <1>3, <1>4, OutsideKeeps DEF Call, Becomes, InStore, InOperation, Removing,
     Installing

LEMMA SetBindingKeeps ==
  ASSUME McpInv, NEW r \in Requests, SetBinding(r)
  PROVE  McpInv'
<1>1. /\ TypeOK /\ Locks /\ Removal /\ Pc(r) \notin InOperation /\ Becomes(r, Idle)
      /\ storeLock = None /\ Idle.pc = "idle"
  BY Parts, ReturnIs, IdleIs DEF SetBinding, InOperation, Removing, Installing
<1>2. TypeOK'
  BY <1>1, BecomesOnly DEF SetBinding, TypeOK, runtime
<1>3. Kept(r)' /\ Idle.pc \notin InOperation \cup InStore \cup Removing
  BY <1>1, BecomesOnly DEF Kept, Pc, InStore, InOperation, Removing, Installing
<1>4. UNCHANGED <<declared, revived, removed, runtime, opLock, storeLock>>
  BY DEF SetBinding
<1>5. declared' = None => ~bound'
  BY <1>1 DEF SetBinding, Removal
<1>6. GivenUp => GivenUp'
  BY <1>1, <1>4, BecomesOnly DEF GivenUp, Pc, InStore
<1> QED
  BY <1>1, <1>2, <1>3, <1>4, <1>5, <1>6, StoreKeeps, InstallationAssumption DEF Removal

LEMMA CheckKeeps ==
  ASSUME McpInv, NEW r \in Requests, Check(r)
  PROVE  McpInv'
<1>1. /\ TypeOK /\ Files(r) /\ Pc(r) = "check"
      /\ UNCHANGED <<store, runtime, storeLock, opLock, calls, faults>>
  BY Parts DEF Check
<1>2. calls' \in 0..MaxCalls /\ faults' \in 0..MaxFaults
  BY <1>1 DEF TypeOK
<1>3. CASE Return(r)
  BY <1>1, <1>2, <1>3, ReturnIs, IdleIs, OutsideKeeps
     DEF InStore, InOperation, Removing, Installing
<1>4. CASE Goto(r, "save")
  <2>1. PICK k : Becomes(r, k) /\ k.pc = "save" /\ Same(request[r], k)
    BY <1>1, <1>4, GotoIs DEF Pcs
  <2>2. k.decl \in Declarations
    BY <1>1, <2>1 DEF Files, Same
  <2> QED
    BY <1>1, <1>2, <2>1, <2>2, OutsideKeeps DEF InStore, InOperation, Removing, Installing
<1> QED
  BY <1>3, <1>4 DEF Check

\* What a request remembers when it takes the store's lock.
LEMMA EnterIs ==
  ASSUME TypeOK, NEW r \in Requests, NEW pc \in Pcs, Enter(r, pc)
  PROVE  \E k : /\ Becomes(r, k) /\ k.pc = pc /\ k.decl = request[r].decl
                /\ k.old \in StoreContents
                /\ k.old.declared = declared /\ k.old.bound = bound
                /\ k.old.removed = removed /\ k.old.revived = revived
<1> DEFINE old == [declared |-> declared, bound |-> bound, secret |-> secret,
                   removed |-> removed, revived |-> revived]
           k == [request[r] EXCEPT !.pc = pc, !.old = old]
<1>1. request[r] \in RequestRecords
  BY DEF TypeOK
<1>2. /\ old \in StoreContents /\ old.declared = declared /\ old.bound = bound
      /\ old.removed = removed /\ old.revived = revived
  BY DEF TypeOK, StoreContents
<1>3. request' = [request EXCEPT ![r] = k]
  BY DEF Enter
<1> HIDE DEF old
<1>4. k \in RequestRecords /\ k.pc = pc /\ k.decl = request[r].decl /\ k.old = old
  BY <1>1, <1>2 DEF RequestRecords
<1> HIDE DEF k
<1> QED
  BY <1>2, <1>3, <1>4 DEF Becomes

LEMMA SaveSecretKeeps ==
  ASSUME McpInv, NEW r \in Requests, SaveSecret(r)
  PROVE  McpInv'
<1>1. /\ TypeOK /\ Locks /\ Removal /\ Files(r) /\ Pc(r) = "save"
      /\ UNCHANGED <<declared, bound, removed, revived, runtime, opLock, calls, faults>>
      /\ storeLock = None /\ storeLock' = r /\ secret' \in BOOLEAN
  BY Parts DEF SaveSecret, Enter, TypeOK
<1>2. PICK k : /\ Becomes(r, k) /\ k.pc = "document" /\ k.decl = request[r].decl
               /\ k.old \in StoreContents
               /\ k.old.declared = declared /\ k.old.bound = bound
               /\ k.old.removed = removed /\ k.old.revived = revived
  BY <1>1, EnterIs DEF SaveSecret, Pcs
<1>3. /\ Pc(r) \notin InOperation /\ k.pc \notin InOperation \cup Removing
      /\ k.pc \in InStore /\ k.decl \in Declarations
  BY <1>1, <1>2 DEF InStore, InOperation, Removing, Installing, Files
<1>4. TypeOK'
  BY <1>1, <1>2, BecomesOnly DEF TypeOK, runtime
<1>5. Kept(r)'
  BY <1>1, <1>2, BecomesOnly DEF Kept, Pc, Removal
<1>6. GivenUp => GivenUp'
  BY <1>1, <1>2, BecomesOnly DEF GivenUp, Pc
<1> QED
  BY <1>1, <1>2, <1>3, <1>4, <1>5, <1>6, StoreKeeps, InstallationAssumption DEF Removal

LEMMA SaveDocumentKeeps ==
  ASSUME McpInv, NEW r \in Requests, SaveDocument(r)
  PROVE  McpInv'
<1>1. /\ TypeOK /\ Locks /\ Removal /\ Kept(r) /\ Files(r) /\ Pc(r) = "document"
      /\ UNCHANGED <<bound, secret, runtime, storeLock, opLock, calls, faults>>
      /\ declared' = request[r].decl /\ removed' = FALSE
      /\ revived' = (revived \/ declared = None)
  BY Parts DEF SaveDocument
<1>2. PICK k : Becomes(r, k) /\ k.pc = "stale" /\ Same(request[r], k)
  BY <1>1, GotoIs DEF SaveDocument, Pcs
<1>3. /\ Pc(r) \notin InOperation /\ k.pc \notin InOperation \cup Removing
      /\ Pc(r) \in InStore /\ k.pc \in InStore
      /\ k.decl \in Declarations /\ k.decl = request[r].decl /\ k.old = request[r].old
  BY <1>1, <1>2 DEF InStore, InOperation, Removing, Installing, Files, Same
<1>4. declared' # None /\ storeLock = r
  BY <1>1, <1>3, InstallationAssumption DEF Locks
<1>5. TypeOK'
  BY <1>1, <1>2, <1>3, BecomesOnly DEF TypeOK, runtime
<1>6. Kept(r)'
  BY <1>1, <1>2, <1>3, BecomesOnly DEF Kept, Pc, InStore
<1>7. GivenUp => GivenUp'
  BY ZenonT(60), <1>1, <1>2, <1>3, BecomesOnly DEF GivenUp, Pc
<1> QED
  BY <1>1, <1>2, <1>3, <1>4, <1>5, <1>6, <1>7, StoreKeeps DEF Removal

LEMMA DropStaleSecretKeeps ==
  ASSUME McpInv, NEW r \in Requests, DropStaleSecret(r)
  PROVE  McpInv'
<1>1. /\ TypeOK /\ Locks /\ Removal /\ Pc(r) = "stale" /\ Becomes(r, Idle)
      /\ UNCHANGED <<declared, bound, removed, revived, runtime, opLock, calls, faults>>
      /\ storeLock' = None /\ secret' \in BOOLEAN /\ Idle.pc = "idle"
  BY Parts, ReturnIs, IdleIs DEF DropStaleSecret, TypeOK
<1>2. /\ Pc(r) \notin InOperation /\ Idle.pc \notin InOperation \cup InStore \cup Removing
      /\ storeLock = r
  BY <1>1 DEF InStore, InOperation, Removing, Installing, Locks
<1>3. TypeOK'
  BY <1>1, BecomesOnly DEF TypeOK, runtime
<1>4. Kept(r)' /\ (GivenUp => GivenUp')
  BY <1>1, BecomesOnly DEF Kept, GivenUp, Pc, InStore
<1> QED
  BY <1>1, <1>2, <1>3, <1>4, StoreKeeps, InstallationAssumption DEF Removal

LEMMA DeleteBindingsKeeps ==
  ASSUME McpInv, NEW r \in Requests, DeleteBindings(r)
  PROVE  McpInv'
<1>1. /\ TypeOK /\ Locks /\ Removal /\ Files(r) /\ Pc(r) = "delete"
      /\ UNCHANGED <<declared, secret, removed, revived, runtime, opLock, calls, faults>>
      /\ Pc(r) \notin InStore \cup InOperation \cup Removing
  BY Parts DEF DeleteBindings, InStore, InOperation, Removing, Installing
<1>2. CASE Return(r) /\ UNCHANGED <<bound, storeLock>>
  <2>1. Idle.pc \notin InStore \cup InOperation \cup Removing
    BY IdleIs DEF InStore, InOperation, Removing, Installing
  <2>2. calls' \in 0..MaxCalls /\ faults' \in 0..MaxFaults
    BY <1>1 DEF TypeOK
  <2> QED
    BY <1>1, <1>2, <2>1, <2>2, ReturnIs, IdleIs, OutsideKeeps DEF store
<1>3. CASE Enter(r, "unlink") /\ bound' = FALSE /\ declared # None
  <2>1. PICK k : /\ Becomes(r, k) /\ k.pc = "unlink" /\ k.decl = request[r].decl
                 /\ k.old \in StoreContents
                 /\ k.old.declared = declared /\ k.old.bound = bound
                 /\ k.old.removed = removed /\ k.old.revived = revived
    BY <1>1, <1>3, EnterIs DEF Pcs
  <2>2. /\ k.pc \notin InOperation \cup Removing /\ k.pc \in InStore
        /\ k.decl \in Declarations /\ storeLock = None /\ storeLock' = r
    BY <1>1, <1>3, <2>1 DEF InStore, InOperation, Removing, Installing, Files, Enter
  <2>3. TypeOK'
    BY <1>1, <1>3, <2>1, <2>2, BecomesOnly DEF TypeOK, runtime
  <2>4. Kept(r)'
    BY <1>1, <1>3, <2>1, BecomesOnly DEF Kept, Pc, Removal
  <2>5. GivenUp => GivenUp'
    BY <1>1, <2>1, BecomesOnly DEF GivenUp, Pc
  <2> QED
    BY <1>1, <1>3, <2>1, <2>2, <2>3, <2>4, <2>5, StoreKeeps, InstallationAssumption DEF Removal
<1> QED
  BY <1>2, <1>3 DEF DeleteBindings

LEMMA DeleteDocumentKeeps ==
  ASSUME McpInv, NEW r \in Requests, DeleteDocument(r)
  PROVE  McpInv'
<1>1. /\ TypeOK /\ Locks /\ Removal /\ Kept(r) /\ Files(r) /\ Pc(r) = "unlink"
      /\ UNCHANGED <<bound, secret, removed, revived, runtime, storeLock, opLock, calls, faults>>
      /\ declared' = None
  BY Parts DEF DeleteDocument
<1>2. PICK k : Becomes(r, k) /\ k.pc = "forget" /\ Same(request[r], k)
  BY <1>1, GotoIs DEF DeleteDocument, Pcs
<1>3. /\ Pc(r) \notin InOperation /\ k.pc \notin InOperation \cup Removing
      /\ Pc(r) \in InStore /\ k.pc \in InStore
      /\ k.decl \in Declarations /\ k.old = request[r].old
  BY <1>1, <1>2 DEF InStore, InOperation, Removing, Installing, Files, Same
<1>4. storeLock = r
  BY <1>1, <1>3 DEF Locks
<1>5. TypeOK'
  BY <1>1, <1>2, BecomesOnly DEF TypeOK, runtime
<1>6. Kept(r)'
  BY <1>1, <1>2, <1>3, BecomesOnly DEF Kept, Pc
<1>7. GivenUp => GivenUp'
  BY <1>1, <1>2, <1>3, BecomesOnly DEF GivenUp, Pc
<1>8. /\ declared' = None => ~bound'
      /\ removed' => declared' = None /\ Quiet
      /\ k.old.removed => k.old.declared = None /\ Quiet
  BY <1>1, <1>3 DEF Removal, Kept
<1> QED
  BY <1>1, <1>2, <1>3, <1>4, <1>5, <1>6, <1>7, <1>8, StoreKeeps

LEMMA DeleteSecretKeeps ==
  ASSUME McpInv, NEW r \in Requests, DeleteSecret(r)
  PROVE  McpInv'
<1>1. /\ TypeOK /\ Locks /\ Removal /\ Kept(r) /\ Files(r) /\ Pc(r) = "forget"
      /\ UNCHANGED <<declared, bound, removed, revived, runtime, opLock, calls, faults>>
      /\ secret' = FALSE /\ storeLock' = None
  BY Parts DEF DeleteSecret
<1>2. PICK k : Becomes(r, k) /\ k.pc = "remove" /\ Same(request[r], k)
  BY <1>1, GotoIs DEF DeleteSecret, Pcs
<1>3. /\ Pc(r) \notin InOperation /\ k.pc \notin InOperation \cup InStore
      /\ k.decl \in Declarations /\ storeLock = r
  BY <1>1, <1>2 DEF InStore, InOperation, Removing, Installing, Files, Same, Locks
<1>4. TypeOK'
  BY <1>1, <1>2, BecomesOnly DEF TypeOK, runtime
<1>5. Kept(r)'
  BY <1>1, <1>2, <1>3, BecomesOnly DEF Kept, Pc
<1>6. GivenUp'
  <2>1. \A s \in Requests : Pc(s)' \notin InStore
    BY <1>1, <1>2, <1>3, BecomesOnly DEF Locks, Pc
  <2>2. declared' = None
    BY <1>1 DEF Kept, InStore
  <2> QED
    BY <2>1, <2>2 DEF GivenUp
<1> QED
  BY <1>1, <1>2, <1>3, <1>4, <1>5, <1>6, StoreKeeps, InstallationAssumption DEF Removal

\* A write fails and what was there is put back, as far as that succeeds.
LEMMA StoreFailsKeeps ==
  ASSUME McpInv, NEW r \in Requests, StoreFails(r)
  PROVE  McpInv'
<1> DEFINE old == request[r].old
<1>1. /\ TypeOK /\ Locks /\ Removal /\ Kept(r) /\ Pc(r) \in InStore /\ Becomes(r, Idle)
      /\ storeLock' = None /\ UNCHANGED <<runtime, opLock, calls>>
  BY Parts, ReturnIs DEF StoreFails, InStore
<1>2. PICK n \in 0..3 :
        /\ faults' = faults + (IF n = 3 THEN 1 ELSE 2) /\ faults' <= MaxFaults
        /\ declared' = IF n >= 1 THEN old.declared ELSE declared
        /\ removed' = IF n >= 1 THEN old.removed ELSE removed
        /\ revived' = IF n >= 1 THEN old.revived ELSE revived
        /\ bound' = IF n >= 2 THEN old.bound ELSE bound
        /\ secret' = IF n >= 3 THEN old.secret ELSE secret
  BY DEF StoreFails
<1>3. old \in StoreContents
  BY <1>1 DEF Kept
<1>4. /\ Pc(r) \notin InOperation /\ Idle.pc = "idle" /\ storeLock = r
      /\ Idle.pc \notin InOperation \cup InStore \cup Removing
  BY <1>1, IdleIs DEF InStore, InOperation, Removing, Installing, Locks
<1>5. faults' \in 0..MaxFaults
  BY <1>1, <1>2, InstallationAssumption DEF TypeOK
<1>6. TypeOK'
  <2>1. /\ declared' \in Declarations \cup {None}
        /\ bound' \in BOOLEAN /\ secret' \in BOOLEAN
        /\ removed' \in BOOLEAN /\ revived' \in BOOLEAN
    BY <1>1, <1>2, <1>3 DEF StoreContents, TypeOK
  <2> QED
    BY <1>1, <1>5, <2>1, BecomesOnly DEF TypeOK, runtime
<1>7. Kept(r)'
  BY <1>1, <1>4, BecomesOnly DEF Kept, Pc
<1>8. declared' = None => ~bound'
  BY <1>1, <1>2, InstallationAssumption DEF Kept, Removal, InStore
<1>9. removed' => declared' = None /\ Quiet
  BY <1>1, <1>2 DEF Removal
<1>10. GivenUp => GivenUp'
  <2>1. \A s \in Requests : Pc(s)' \in InStore =>
          Pc(s) \in InStore /\ request'[s].old = request[s].old
    BY <1>1, <1>4, BecomesOnly DEF Pc
  <2>2. GivenUp => declared' = None \/ revived'
    BY <1>1, <1>2 DEF GivenUp
  <2> QED
    BY <2>1, <2>2 DEF GivenUp
<1> QED
  BY <1>1, <1>4, <1>6, <1>7, <1>8, <1>9, <1>10, StoreKeeps, InstallationAssumption

LEMMA StoreStepKeeps ==
  ASSUME McpInv, NEW r \in Requests, Store(r)
  PROVE  McpInv'
BY SetBindingKeeps, CheckKeeps, SaveSecretKeeps, SaveDocumentKeeps, DropStaleSecretKeeps,
   DeleteBindingsKeeps, DeleteDocumentKeeps, DeleteSecretKeeps, StoreFailsKeeps DEF Store

-----------------------------------------------------------------------------
(* Trees of files, and the remover.                                        *)

\* Only the four removals doom anything.
LEMMA DoomedWhere ==
  ASSUME NEW r, Doomed(r) # {}
  PROVE  /\ Pc(r) \in {"tree", "withdraw", "previous", "siblings"}
         /\ Pc(r) = "withdraw" => Doomed(r) = {request[r].decl}
         /\ Pc(r) = "previous" => Doomed(r) = {r}
         /\ Pc(r) = "siblings" => Doomed(r) = Names \ {request[r].decl}
         /\ After(Pc(r)) = CASE Pc(r) = "tree" -> "unstatus" [] Pc(r) = "withdraw" -> "restore"
                             [] Pc(r) = "previous" -> "clear" [] Pc(r) = "siblings" -> "verify"
BY DEF Doomed, After

LEMMA RemoveFilesKeeps ==
  ASSUME McpInv, NEW r \in Requests, RemoveFiles(r)
  PROVE  McpInv'
<1> DEFINE k == request[r]
<1>1. /\ TypeOK /\ Locks /\ Files(r) /\ k \in RequestRecords /\ k.pc = Pc(r)
      /\ UNCHANGED <<store, lock, status, storeLock, opLock, request, calls, faults>>
  BY Parts DEF RemoveFiles
<1>2. PICK x \in Doomed(r), n \in Resolutions :
        \/ dirs[x] = Whole(n) /\ dirs' = [dirs EXCEPT ![x] = Torn(n)]
        \/ dirs[x] = Torn(n) /\ dirs' = [dirs EXCEPT ![x] = None]
  BY DEF RemoveFiles
<1>3. /\ Pc(r) \in {"tree", "withdraw", "previous", "siblings"}
      /\ Pc(r) = "withdraw" => x = request[r].decl
      /\ Pc(r) = "previous" => x = r
      /\ Pc(r) = "siblings" => x # request[r].decl
  BY <1>2, DoomedWhere
<1>4. /\ Pc(r) \notin InStore /\ Pc(r) \in InOperation /\ opLock = r
  BY <1>1, <1>3 DEF InStore, InOperation, Removing, Installing, Locks
<1>5. Becomes(r, k)
  BY <1>1 DEF Becomes, TypeOK
<1>6. /\ dirs' \in [Names -> (Resolutions \X {"whole", "torn"}) \cup {None}]
      /\ \A y \in Names : y # x => dirs'[y] = dirs[y]
  BY <1>1, <1>2 DEF TypeOK, Torn
<1>7. Files(r)'
  BY <1>1, <1>3, <1>6, InstallationAssumption
     DEF Files, Pc, Installing, Installed, Names
<1>8. TearsNothing(r, k)
  BY <1>1, <1>3, <1>6, InstallationAssumption
     DEF TearsNothing, TornLocked, Files, Pc, Names, Removing, Installing
<1>9. Quiet' <=> Quiet
  BY <1>1 DEF Quiet, Pc
<1>10. /\ lock' \in (Declarations \X Resolutions) \cup {None}
       /\ status' \in Declarations \cup {None} /\ faults' \in 0..MaxFaults
       /\ removed' \in BOOLEAN /\ removed' = removed
  BY <1>1 DEF TypeOK, store
<1> QED
  BY <1>1, <1>4, <1>5, <1>6, <1>7, <1>8, <1>9, <1>10, OperationKeeps DEF store

LEMMA TreeRemovedKeeps ==
  ASSUME McpInv, NEW r \in Requests, TreeRemoved(r)
  PROVE  McpInv'
<1> DEFINE to == After(Pc(r))
<1>1. /\ TypeOK /\ Locks /\ Files(r) /\ Goto(r, to)
      /\ UNCHANGED <<store, runtime, storeLock, opLock, calls>>
      /\ faults' \in 0..MaxFaults
      /\ Pc(r) \in {"tree", "withdraw", "previous", "siblings"}
      /\ to = CASE Pc(r) = "tree" -> "unstatus" [] Pc(r) = "withdraw" -> "restore"
                [] Pc(r) = "previous" -> "clear" [] Pc(r) = "siblings" -> "verify"
  BY Parts, DoomedWhere, InstallationAssumption DEF TreeRemoved, Fault, TypeOK
<1> HIDE DEF to
<1>2. PICK k : Becomes(r, k) /\ k.pc = to /\ Same(request[r], k)
  <2>1. to \in Pcs
    BY <1>1 DEF Pcs
  <2> QED
    BY <1>1, <2>1, GotoIs
<1>3. /\ Pc(r) \notin InStore /\ Pc(r) \in InOperation /\ opLock = r
      /\ k.pc \notin InStore /\ k.pc \in InOperation
      /\ k.pc \in Removing => Pc(r) \in Removing
  BY <1>1, <1>2 DEF InStore, InOperation, Removing, Installing, Locks
<1>4. request'[r] = k /\ \A s \in Requests \ {r} : request'[s] = request[s]
  BY <1>1, <1>2, BecomesOnly
<1>5. Files(r)'
  BY <1>1, <1>2, <1>4 DEF Files, Same, Pc, Installing, Installed, runtime
<1>6. TearsNothing(r, k)
  BY <1>1, <1>2 DEF TearsNothing, TornLocked, Files, Same, Pc, runtime, Installing
<1>7. Quiet => Quiet'
  BY <1>1, <1>2, <1>4 DEF Quiet, Pc, Installing, runtime
<1>8. /\ lock' \in (Declarations \X Resolutions) \cup {None}
      /\ dirs' \in [Names -> (Resolutions \X {"whole", "torn"}) \cup {None}]
      /\ status' \in Declarations \cup {None}
      /\ removed' \in BOOLEAN /\ removed' = removed
  BY <1>1 DEF TypeOK, store, runtime
<1> QED
  BY <1>1, <1>2, <1>3, <1>5, <1>6, <1>7, <1>8, OperationKeeps DEF store

\* A step that touches neither lock file nor directories tears nothing, unless
\* it leads to where a directory has been set aside.
LEMMA SameTears ==
  ASSUME TypeOK, NEW r \in Requests, NEW k, k.pc \notin {"publish", "restore"},
         UNCHANGED <<lock, dirs>>
  PROVE  TearsNothing(r, k)
BY DEF TearsNothing, TornLocked

LEMMA RemoveKeeps ==
  ASSUME McpInv, NEW r \in Requests, Remove(r)
  PROVE  McpInv'
<1>1. /\ TypeOK /\ Files(r) /\ Pc(r) = "remove" /\ Goto(r, "tree")
      /\ opLock = None /\ opLock' = r
      /\ UNCHANGED <<store, runtime, storeLock, calls, faults>>
  BY Parts DEF Remove, AcquireOperation
<1>2. PICK k : Becomes(r, k) /\ k.pc = "tree" /\ Same(request[r], k)
  BY <1>1, GotoIs DEF Pcs
<1>3. /\ Pc(r) \notin InStore /\ k.pc \notin InStore /\ k.pc \in InOperation
      /\ Pc(r) \in Removing
  BY <1>1, <1>2 DEF InStore, InOperation, Removing, Installing
<1>4. request'[r] = k /\ \A s \in Requests \ {r} : request'[s] = request[s]
  BY <1>1, <1>2, BecomesOnly
<1>5. Files(r)'
  BY <1>1, <1>2, <1>4 DEF Files, Same, Pc, Installing
<1>6. TearsNothing(r, k)
  BY <1>1, <1>2, SameTears DEF runtime
<1>7. Quiet => Quiet'
  BY <1>1, <1>2, <1>4 DEF Quiet, Pc, Installing, runtime
<1>8. /\ lock' \in (Declarations \X Resolutions) \cup {None}
      /\ dirs' \in [Names -> (Resolutions \X {"whole", "torn"}) \cup {None}]
      /\ status' \in Declarations \cup {None} /\ faults' \in 0..MaxFaults
      /\ removed' \in BOOLEAN /\ removed' = removed
  BY <1>1 DEF TypeOK, store, runtime
<1> QED
  BY <1>1, <1>2, <1>3, <1>5, <1>6, <1>7, <1>8, OperationKeeps DEF store

\* The end of an operation: the lock is given back.
LEMMA EndKeeps ==
  ASSUME McpInv, NEW r \in Requests, Return(r), Pc(r) \in InOperation, opLock' = None,
         UNCHANGED <<declared, bound, secret, revived, storeLock, calls, dirs>>,
         lock' \in {lock, None}, status' \in Declarations \cup {None}, faults' \in 0..MaxFaults,
         Pc(r) \notin Installing => status' = status,
         removed' \in BOOLEAN, removed' => removed \/ (declared = None /\ lock' = None /\ status' = None)
  PROVE  McpInv'
<1>1. TypeOK /\ Locks /\ Becomes(r, Idle) /\ Idle.pc = "idle"
  BY Parts, ReturnIs, IdleIs
<1>2. request'[r] = Idle /\ \A s \in Requests \ {r} : request'[s] = request[s]
  BY <1>1, BecomesOnly
<1>3. /\ opLock = r /\ Pc(r) \notin InStore
      /\ Idle.pc \notin InStore \cup InOperation \cup Removing \cup Installing
  BY <1>1 DEF Locks, InStore, InOperation, Removing, Installing
<1>4. Files(r)'
  BY <1>1, <1>2, <1>3 DEF Files, Pc, Installing
<1>5. TearsNothing(r, Idle)
  BY <1>1, InstallationAssumption DEF TearsNothing, TornLocked
<1>6. \A s \in Requests \ {r} : Pc(s)' \notin Installing
  BY <1>1, <1>2, <1>3, InstallationAssumption DEF Locks, Pc, InOperation
<1>7. Quiet => Quiet'
  BY <1>1, <1>2, <1>3, <1>6 DEF Quiet, Pc
<1>8. removed' => removed \/ (declared = None /\ Quiet')
  BY <1>2, <1>3, <1>6 DEF Quiet, Pc
<1>9. /\ lock' \in (Declarations \X Resolutions) \cup {None}
      /\ dirs' \in [Names -> (Resolutions \X {"whole", "torn"}) \cup {None}]
  BY <1>1 DEF TypeOK
<1> QED
  BY <1>1, <1>3, <1>4, <1>5, <1>7, <1>8, <1>9, OperationKeeps, InstallationAssumption

LEMMA UnlinkStatusKeeps ==
  ASSUME McpInv, NEW r \in Requests, UnlinkStatus(r)
  PROVE  McpInv'
<1>1. /\ TypeOK /\ Locks /\ Files(r) /\ Pc(r) = "unstatus"
      /\ UNCHANGED <<store, lock, dirs, storeLock, calls>>
  BY Parts DEF UnlinkStatus
<1>2. /\ Pc(r) \in InOperation /\ opLock = r /\ Pc(r) \notin InStore \cup Installing
      /\ Pc(r) \in Removing
  BY <1>1 DEF InStore, InOperation, Removing, Installing, Locks
<1>3. CASE Fault /\ opLock' = None /\ Return(r) /\ UNCHANGED status
  <2>1. faults' \in 0..MaxFaults /\ status \in Declarations \cup {None} /\ removed \in BOOLEAN
    BY <1>1, <1>3, InstallationAssumption DEF Fault, TypeOK
  <2> QED
    BY <1>1, <1>2, <1>3, <2>1, EndKeeps DEF store
<1>4. CASE status' = None /\ Goto(r, "unlock") /\ UNCHANGED <<opLock, faults>>
  <2>1. PICK k : Becomes(r, k) /\ k.pc = "unlock" /\ Same(request[r], k)
    BY <1>1, <1>4, GotoIs DEF Pcs
  <2>2. k.pc \notin InStore /\ k.pc \in InOperation
    BY <2>1 DEF InStore, InOperation, Removing, Installing
  <2>3. request'[r] = k /\ \A s \in Requests \ {r} : request'[s] = request[s]
    BY <1>1, <2>1, BecomesOnly
  <2>4. Files(r)'
    BY <1>1, <1>4, <2>1, <2>3 DEF Files, Same, Pc, Installing
  <2>5. TearsNothing(r, k)
    BY <1>1, <2>1, SameTears
  <2>6. Quiet => Quiet'
    BY <1>1, <1>4, <2>1, <2>3 DEF Quiet, Pc, Installing
  <2>7. /\ lock' \in (Declarations \X Resolutions) \cup {None}
        /\ dirs' \in [Names -> (Resolutions \X {"whole", "torn"}) \cup {None}]
        /\ status' \in Declarations \cup {None} /\ faults' \in 0..MaxFaults
        /\ removed' \in BOOLEAN /\ removed' = removed
    BY <1>1, <1>4 DEF TypeOK, store
  <2> QED
    BY <1>1, <1>2, <1>4, <2>1, <2>2, <2>4, <2>5, <2>6, <2>7, OperationKeeps DEF store
<1> QED
  BY <1>3, <1>4 DEF UnlinkStatus

LEMMA UnlinkLockKeeps ==
  ASSUME McpInv, NEW r \in Requests, UnlinkLock(r)
  PROVE  McpInv'
<1>1. /\ TypeOK /\ Files(r) /\ Pc(r) = "unlock" /\ opLock' = None /\ Return(r)
      /\ UNCHANGED <<declared, bound, secret, revived, dirs, status, storeLock, calls>>
  BY Parts DEF UnlinkLock
<1>2. Pc(r) \in InOperation /\ Pc(r) \notin Installing /\ status = None
  BY <1>1 DEF InOperation, Removing, Installing, Files
<1>3. faults' \in 0..MaxFaults /\ lock' \in {lock, None} /\ removed' \in BOOLEAN
  <2>1. CASE lock' = None /\ removed' = (declared = None) /\ UNCHANGED faults
    BY <1>1, <2>1 DEF TypeOK
  <2>2. CASE Fault /\ UNCHANGED <<lock, removed>>
    BY <1>1, <2>2, InstallationAssumption DEF Fault, TypeOK
  <2> QED
    BY <2>1, <2>2 DEF UnlinkLock
<1>4. removed' => removed \/ (declared = None /\ lock' = None)
  BY DEF UnlinkLock
<1> QED
  BY <1>1, <1>2, <1>3, <1>4, EndKeeps

-----------------------------------------------------------------------------
(* The installer.                                                          *)

\* A step from one place of an installation to another.
LEMMA InstallKeeps ==
  ASSUME McpInv, NEW r \in Requests, NEW k, Becomes(r, k),
         Pc(r) \in Installing, k.pc \in Installing,
         UNCHANGED <<store, storeLock, opLock, calls>>,
         lock' \in (Declarations \X Resolutions) \cup {None},
         dirs' \in [Names -> (Resolutions \X {"whole", "torn"}) \cup {None}],
         status' \in Declarations \cup {None},
         faults' \in 0..MaxFaults,
         TearsNothing(r, k), Files(r)'
  PROVE  McpInv'
<1>1. TypeOK /\ Locks
  BY Parts
<1>2. /\ Pc(r) \notin InStore /\ k.pc \notin InStore \cup Removing
      /\ Pc(r) \in InOperation /\ k.pc \in InOperation
  BY DEF InStore, InOperation, Removing, Installing
<1>3. opLock = r /\ ~Quiet /\ removed' = removed /\ removed \in BOOLEAN
  BY <1>1, <1>2 DEF Locks, Quiet, TypeOK, store
<1> QED
  BY <1>2, <1>3, OperationKeeps DEF store

LEMMA QueueKeeps ==
  ASSUME McpInv, NEW r \in Requests, Queue(r)
  PROVE  McpInv'
<1>1. /\ TypeOK /\ Files(r) /\ Pc(r) = "queue" /\ Goto(r, "declare")
      /\ opLock = None /\ opLock' = r
      /\ UNCHANGED <<store, runtime, storeLock, calls, faults>>
  BY Parts DEF Queue, AcquireOperation
<1>2. PICK k : Becomes(r, k) /\ k.pc = "declare" /\ Same(request[r], k)
  BY <1>1, GotoIs DEF Pcs
<1>3. /\ Pc(r) \notin InStore /\ k.pc \notin InStore \cup Removing
      /\ k.pc \in InOperation
  BY <1>1, <1>2 DEF InStore, InOperation, Removing, Installing
<1>4. request'[r] = k /\ \A s \in Requests \ {r} : request'[s] = request[s]
  BY <1>1, <1>2, BecomesOnly
<1>5. Files(r)'
  BY <1>1, <1>2, <1>4 DEF Files, Same, Pc, Installing
<1>6. TearsNothing(r, k)
  BY <1>1, <1>2, SameTears DEF runtime
<1>7. Quiet => Quiet'
  BY <1>1, <1>2, <1>4 DEF Quiet, Pc, Installing, runtime
<1>8. /\ lock' \in (Declarations \X Resolutions) \cup {None}
      /\ dirs' \in [Names -> (Resolutions \X {"whole", "torn"}) \cup {None}]
      /\ status' \in Declarations \cup {None} /\ faults' \in 0..MaxFaults
      /\ removed' \in BOOLEAN /\ removed' = removed
  BY <1>1 DEF TypeOK, store, runtime
<1> QED
  BY <1>1, <1>2, <1>3, <1>5, <1>6, <1>7, <1>8, OperationKeeps DEF store

\* The one step that makes a Connection's runtime busy again: it holds the
\* operation lock and reads the declaration while nobody is in the store.
LEMMA DeclareKeeps ==
  ASSUME McpInv, NEW r \in Requests, Declare(r)
  PROVE  McpInv'
<1>1. /\ TypeOK /\ Locks /\ Files(r) /\ Pc(r) = "declare" /\ storeLock = None
      /\ request[r] \in RequestRecords
      /\ UNCHANGED <<store, runtime, storeLock, calls, faults>>
  BY Parts DEF Declare
<1>2. /\ lock' \in (Declarations \X Resolutions) \cup {None}
      /\ dirs' \in [Names -> (Resolutions \X {"whole", "torn"}) \cup {None}]
      /\ status' \in Declarations \cup {None} /\ faults' \in 0..MaxFaults
      /\ removed' \in BOOLEAN /\ removed' = removed
      /\ lock' = lock /\ dirs' = dirs /\ status' = status
  BY <1>1 DEF TypeOK, store, runtime
<1>3. /\ Pc(r) \in InOperation /\ opLock = r /\ Pc(r) \notin InStore \cup Installing
  BY <1>1 DEF InStore, InOperation, Removing, Installing, Locks
<1>4. CASE declared = None
  <2>1. opLock' = None /\ Return(r)
    BY <1>4 DEF Declare
  <2> QED
    BY <1>1, <1>2, <1>3, <2>1, EndKeeps DEF store
<1>5. CASE declared # None
  <2> DEFINE was == Installed(declared)
             k == [request[r] EXCEPT !.pc = "stage", !.decl = declared, !.was = was]
  <2>1. request' = [request EXCEPT ![r] = k] /\ opLock' = opLock
    BY <1>5 DEF Declare
  <2>2. was \in BOOLEAN /\ declared \in Declarations /\ "stage" \in Pcs
    BY <1>1, <1>5 DEF TypeOK, Installed, Pcs
  <2> HIDE DEF was
  <2>3. k \in RequestRecords /\ k.pc = "stage" /\ k.decl = declared /\ k.was = was
    BY <1>1, <2>2 DEF RequestRecords
  <2> HIDE DEF k
  <2>4. Becomes(r, k)
    BY <2>1, <2>3 DEF Becomes
  <2>5. k.pc \notin InStore \cup Removing /\ k.pc \in InOperation
    BY <2>3 DEF InStore, InOperation, Removing, Installing
  <2>6. request'[r] = k
    BY <1>1, <2>4, BecomesOnly
  <2>7. Files(r)'
    BY <1>2, <2>2, <2>3, <2>6 DEF Files, Pc, Installing, Installed, was
  <2>8. TearsNothing(r, k)
    BY <1>1, <1>2, <2>3, SameTears
  <2> QED
    BY <1>1, <1>2, <1>3, <1>5, <2>1, <2>4, <2>5, <2>7, <2>8, OperationKeeps DEF store
<1> QED
  BY <1>4, <1>5

LEMMA StageKeeps ==
  ASSUME McpInv, NEW r \in Requests, Stage(r)
  PROVE  McpInv'
<1> DEFINE reused == {n \in Resolutions : lock = <<request[r].decl, n>>}
<1>1. /\ TypeOK /\ Files(r) /\ Pc(r) = "stage" /\ request[r] \in RequestRecords
      /\ UNCHANGED <<store, runtime, storeLock, opLock, calls, faults>>
  BY Parts DEF Stage
<1>2. /\ lock' \in (Declarations \X Resolutions) \cup {None}
      /\ dirs' \in [Names -> (Resolutions \X {"whole", "torn"}) \cup {None}]
      /\ status' \in Declarations \cup {None} /\ faults' \in 0..MaxFaults
      /\ lock' = lock /\ dirs' = dirs /\ status' = status
  BY <1>1 DEF TypeOK, runtime
<1>3. Pc(r) \in Installing
  BY <1>1 DEF Installing
<1>4. CASE Goto(r, "failing")
  <2>1. PICK k : Becomes(r, k) /\ k.pc = "failing" /\ Same(request[r], k)
    BY <1>1, <1>4, GotoIs DEF Pcs
  <2>2. request'[r] = k /\ k.pc \in Installing
    BY <1>1, <2>1, BecomesOnly DEF Installing
  <2>3. Files(r)'
    BY <1>1, <1>2, <2>1, <2>2 DEF Files, Same, Pc, Installing, Installed
  <2>4. TearsNothing(r, k)
    BY <1>1, <1>2, <2>1, SameTears
  <2> QED
    BY <1>1, <1>2, <1>3, <2>1, <2>2, <2>3, <2>4, InstallKeeps
<1>5. CASE \E n \in (IF reused # {} THEN reused ELSE Resolutions) :
             request' = [request EXCEPT ![r].pc = "away", ![r].res = n]
  <2>1. PICK n \in (IF reused # {} THEN reused ELSE Resolutions) :
               request' = [request EXCEPT ![r].pc = "away", ![r].res = n]
    BY <1>5
  <2> DEFINE k == [request[r] EXCEPT !.pc = "away", !.res = n]
  <2>2. n \in Resolutions /\ (reused # {} => n \in reused)
    BY <2>1
  <2>3. request' = [request EXCEPT ![r] = k]
    BY <2>1
  <2>4. /\ k \in RequestRecords /\ k.pc = "away" /\ k.res = n
        /\ k.decl = request[r].decl /\ k.was = request[r].was
    BY <1>1, <2>2 DEF RequestRecords, Pcs
  <2> HIDE DEF k
  <2>5. Becomes(r, k)
    BY <2>3, <2>4 DEF Becomes
  <2>6. request'[r] = k /\ k.pc \in Installing
    BY <1>1, <2>4, <2>5, BecomesOnly DEF Installing
  <2>7. (\E j \in Resolutions : lock = <<request[r].decl, j>>) =>
          lock = <<request[r].decl, n>>
    BY <2>2
  <2>8. Files(r)'
    BY <1>1, <1>2, <2>2, <2>4, <2>6, <2>7 DEF Files, Pc, Installing, Installed
  <2>9. TearsNothing(r, k)
    BY <1>1, <1>2, <2>4, SameTears
  <2> QED
    BY <1>1, <1>2, <1>3, <2>5, <2>6, <2>8, <2>9, InstallKeeps
<1> QED
  BY <1>4, <1>5 DEF Stage

LEMMA FailingIs ==
  ASSUME McpInv, NEW r \in Requests, Goto(r, "failing"), Pc(r) \in Installing,
         UNCHANGED <<store, runtime, storeLock, opLock, calls>>, faults' \in 0..MaxFaults,
         request[r].was => Installed(request[r].decl)
  PROVE  McpInv'
<1>1. /\ TypeOK /\ Files(r) /\ request[r].pc = Pc(r) /\ Pc(r) # "idle"
  BY Parts DEF Installing
<1>2. PICK k : Becomes(r, k) /\ k.pc = "failing" /\ Same(request[r], k)
  BY <1>1, GotoIs DEF Pcs
<1>3. request'[r] = k /\ k.pc \in Installing
  BY <1>1, <1>2, BecomesOnly DEF Installing
<1>4. Files(r)'
  BY <1>1, <1>2, <1>3 DEF Files, Same, Pc, Installing, Installed, runtime
<1>5. TearsNothing(r, k)
  BY <1>1, <1>2, SameTears DEF runtime
<1>6. /\ lock' \in (Declarations \X Resolutions) \cup {None}
      /\ dirs' \in [Names -> (Resolutions \X {"whole", "torn"}) \cup {None}]
      /\ status' \in Declarations \cup {None}
  BY <1>1 DEF TypeOK, runtime
<1> QED
  BY <1>2, <1>3, <1>4, <1>5, <1>6, InstallKeeps

LEMMA MoveAwayKeeps ==
  ASSUME McpInv, NEW r \in Requests, MoveAway(r)
  PROVE  McpInv'
<1> DEFINE d == request[r].decl
<1>1. /\ TypeOK /\ Files(r) /\ Pc(r) = "away" /\ Pc(r) \in Installing
      /\ UNCHANGED <<store, lock, status, storeLock, opLock, calls>>
  BY Parts DEF MoveAway, Installing
<1>2. CASE Fault /\ Goto(r, "failing") /\ UNCHANGED dirs
  <2>1. faults' \in 0..MaxFaults /\ (request[r].was => Installed(d))
    BY <1>1, <1>2, InstallationAssumption DEF Fault, TypeOK, Files
  <2> QED
    BY <1>1, <1>2, <2>1, FailingIs DEF runtime
<1>3. CASE Rename(d, r) /\ Goto(r, "publish") /\ UNCHANGED faults
  <2>1. PICK k : Becomes(r, k) /\ k.pc = "publish" /\ Same(request[r], k)
    BY <1>1, <1>3, GotoIs DEF Pcs
  <2>2. request'[r] = k /\ k.pc \in Installing
    BY <1>1, <2>1, BecomesOnly DEF Installing
  <2>3. d \in Declarations /\ d \in Names /\ r \in Names /\ d # r
    BY <1>1, InstallationAssumption DEF Files, Names
  <2>4. /\ dirs' \in [Names -> (Resolutions \X {"whole", "torn"}) \cup {None}]
        /\ dirs'[r] = dirs[d] /\ dirs'[d] = None
        /\ \A x \in Names : x \notin {r, d} => dirs'[x] = dirs[x]
    BY <1>1, <1>3, <2>3 DEF TypeOK, Rename
  <2>5. Files(r)'
    BY <1>1, <2>1, <2>2, <2>3, <2>4 DEF Files, Same, Pc, Installing, Installed
  <2>6. TearsNothing(r, k)
    BY <1>1, <2>1, <2>3, <2>4, InstallationAssumption
       DEF TearsNothing, TornLocked, Same, Names, Torn
  <2>7. /\ lock' \in (Declarations \X Resolutions) \cup {None}
        /\ status' \in Declarations \cup {None} /\ faults' \in 0..MaxFaults
    BY <1>1, <1>3 DEF TypeOK
  <2> QED
    BY <1>1, <2>1, <2>2, <2>4, <2>5, <2>6, <2>7, InstallKeeps
<1> QED
  BY <1>2, <1>3 DEF MoveAway

LEMMA PublishKeeps ==
  ASSUME McpInv, NEW r \in Requests, Publish(r)
  PROVE  McpInv'
<1> DEFINE d == request[r].decl
           n == request[r].res
<1>1. /\ TypeOK /\ Files(r) /\ Pc(r) = "publish" /\ Pc(r) \in Installing
      /\ UNCHANGED <<store, lock, status, storeLock, opLock, calls>>
      /\ d \in Declarations /\ d \in Names /\ n \in Resolutions /\ r \in Names /\ d # r
  BY Parts, InstallationAssumption DEF Publish, Installing, Files, Names
<1>2. /\ lock' \in (Declarations \X Resolutions) \cup {None}
      /\ status' \in Declarations \cup {None}
  BY <1>1 DEF TypeOK
<1>3. CASE Fault /\ Goto(r, "restore") /\ UNCHANGED dirs
  <2>1. PICK k : Becomes(r, k) /\ k.pc = "restore" /\ Same(request[r], k)
    BY <1>1, <1>3, GotoIs DEF Pcs
  <2>2. request'[r] = k /\ k.pc \in Installing
    BY <1>1, <2>1, BecomesOnly DEF Installing
  <2>3. Files(r)'
    BY <1>1, <1>3, <2>1, <2>2 DEF Files, Same, Pc, Installing
  <2>4. TearsNothing(r, k)
    BY <1>1, <1>3, <2>1 DEF TearsNothing, TornLocked, Same, Pc
  <2>5. /\ dirs' \in [Names -> (Resolutions \X {"whole", "torn"}) \cup {None}]
        /\ faults' \in 0..MaxFaults
    BY <1>1, <1>3, InstallationAssumption DEF TypeOK, Fault
  <2> QED
    BY <1>1, <1>2, <2>1, <2>2, <2>3, <2>4, <2>5, InstallKeeps
<1>4. CASE /\ dirs' = [dirs EXCEPT ![d] = Whole(n)]
           /\ Goto(r, "writelock") /\ UNCHANGED faults
  <2>1. PICK k : Becomes(r, k) /\ k.pc = "writelock" /\ Same(request[r], k)
    BY <1>1, <1>4, GotoIs DEF Pcs
  <2>2. request'[r] = k /\ k.pc \in Installing
    BY <1>1, <2>1, BecomesOnly DEF Installing
  <2>3. /\ dirs' \in [Names -> (Resolutions \X {"whole", "torn"}) \cup {None}]
        /\ dirs'[d] = Whole(n)
        /\ \A x \in Names : x # d => dirs'[x] = dirs[x]
    BY <1>1, <1>4 DEF TypeOK, Whole
  <2>4. Files(r)'
    BY <1>1, <2>1, <2>2, <2>3 DEF Files, Same, Pc, Installing
  <2>5. TearsNothing(r, k)
    <3>1. \A m \in Resolutions : Whole(n) # Torn(m)
      BY DEF Whole, Torn
    <3> QED
      BY <1>1, <2>1, <2>3, <3>1 DEF TearsNothing, TornLocked, Names
  <2>6. faults' \in 0..MaxFaults
    BY <1>1, <1>4 DEF TypeOK
  <2> QED
    BY <1>1, <1>2, <2>1, <2>2, <2>3, <2>4, <2>5, <2>6, InstallKeeps
<1> QED
  BY <1>3, <1>4 DEF Publish

LEMMA WriteLockKeeps ==
  ASSUME McpInv, NEW r \in Requests, WriteLock(r)
  PROVE  McpInv'
<1> DEFINE d == request[r].decl
           n == request[r].res
<1>1. /\ TypeOK /\ Files(r) /\ Pc(r) = "writelock" /\ Pc(r) \in Installing
      /\ UNCHANGED <<store, dirs, status, storeLock, opLock, calls>>
      /\ d \in Declarations /\ n \in Resolutions /\ dirs[d] = Whole(n)
  BY Parts DEF WriteLock, Installing, Files
<1>2. /\ dirs' \in [Names -> (Resolutions \X {"whole", "torn"}) \cup {None}]
      /\ status' \in Declarations \cup {None}
  BY <1>1 DEF TypeOK
<1>3. CASE lock' = <<d, n>> /\ Goto(r, "previous") /\ UNCHANGED faults
  <2>1. PICK k : Becomes(r, k) /\ k.pc = "previous" /\ Same(request[r], k)
    BY <1>1, <1>3, GotoIs DEF Pcs
  <2>2. request'[r] = k /\ k.pc \in Installing
    BY <1>1, <2>1, BecomesOnly DEF Installing
  <2>3. Files(r)'
    BY <1>1, <1>3, <2>1, <2>2 DEF Files, Same, Pc, Installing
  <2>4. TearsNothing(r, k)
    BY <1>1, <1>3, <2>1 DEF TearsNothing, Whole, Torn
  <2>5. lock' \in (Declarations \X Resolutions) \cup {None} /\ faults' \in 0..MaxFaults
    BY <1>1, <1>3 DEF TypeOK
  <2> QED
    BY <1>1, <1>2, <2>1, <2>2, <2>3, <2>4, <2>5, InstallKeeps
<1>4. CASE lock # <<d, n>> /\ Fault /\ Goto(r, "withdraw") /\ UNCHANGED lock
  <2>1. PICK k : Becomes(r, k) /\ k.pc = "withdraw" /\ Same(request[r], k)
    BY <1>1, <1>4, GotoIs DEF Pcs
  <2>2. request'[r] = k /\ k.pc \in Installing
    BY <1>1, <2>1, BecomesOnly DEF Installing
  <2>3. Files(r)'
    BY <1>1, <1>4, <2>1, <2>2 DEF Files, Same, Pc, Installing
  <2>4. TearsNothing(r, k)
    BY <1>1, <1>4, <2>1, SameTears
  <2>5. lock' \in (Declarations \X Resolutions) \cup {None} /\ faults' \in 0..MaxFaults
    BY <1>1, <1>4, InstallationAssumption DEF TypeOK, Fault
  <2> QED
    BY <1>1, <1>2, <2>1, <2>2, <2>3, <2>4, <2>5, InstallKeeps
<1> QED
  BY <1>3, <1>4 DEF WriteLock

LEMMA RestoreKeeps ==
  ASSUME McpInv, NEW r \in Requests, Restore(r)
  PROVE  McpInv'
<1> DEFINE d == request[r].decl
<1>1. /\ TypeOK /\ Files(r) /\ Pc(r) = "restore" /\ Pc(r) \in Installing
      /\ request[r] \in RequestRecords
      /\ UNCHANGED <<store, lock, status, storeLock, opLock, calls>>
      /\ d \in Declarations /\ d \in Names /\ r \in Names /\ d # r
  BY Parts, InstallationAssumption DEF Restore, Installing, Files, Names
<1>2. /\ lock' \in (Declarations \X Resolutions) \cup {None}
      /\ status' \in Declarations \cup {None}
  BY <1>1 DEF TypeOK
<1>3. CASE /\ IF dirs[r] # None /\ dirs[d] = None THEN Rename(r, d) ELSE UNCHANGED dirs
           /\ Goto(r, "failing") /\ UNCHANGED faults
  <2>1. PICK k : Becomes(r, k) /\ k.pc = "failing" /\ Same(request[r], k)
    BY <1>1, <1>3, GotoIs DEF Pcs
  <2>2. request'[r] = k /\ k.pc \in Installing
    BY <1>1, <2>1, BecomesOnly DEF Installing
  <2>3. /\ dirs' \in [Names -> (Resolutions \X {"whole", "torn"}) \cup {None}]
        /\ dirs'[d] = IF dirs[d] = None THEN dirs[r] ELSE dirs[d]
        /\ \A x \in Declarations : x # d => dirs'[x] = dirs[x]
    <3>1. CASE dirs[r] # None /\ dirs[d] = None
      BY <1>1, <1>3, <3>1, InstallationAssumption DEF TypeOK, Rename, Names
    <3>2. CASE ~(dirs[r] # None /\ dirs[d] = None)
      BY <1>1, <1>3, <3>2 DEF TypeOK
    <3> QED
      BY <3>1, <3>2
  <2>4. Files(r)'
    <3>1. request[r].was => \E m \in Resolutions : lock' = <<d, m>> /\ dirs'[d] = Whole(m)
      BY <1>1, <2>3 DEF Files
    <3> QED
      BY <1>1, <2>1, <2>2, <3>1 DEF Files, Same, Pc, Installing, Installed
  <2>5. TearsNothing(r, k)
    BY <1>1, <2>1, <2>3 DEF TearsNothing, TornLocked
  <2>6. faults' \in 0..MaxFaults
    BY <1>1, <1>3 DEF TypeOK
  <2> QED
    BY <1>1, <1>2, <2>1, <2>2, <2>3, <2>4, <2>5, <2>6, InstallKeeps
<1>4. CASE /\ Fault /\ UNCHANGED dirs
           /\ request' = [request EXCEPT ![r].pc = "failing", ![r].was = FALSE]
  <2> DEFINE k == [request[r] EXCEPT !.pc = "failing", !.was = FALSE]
  <2>1. request' = [request EXCEPT ![r] = k]
    BY <1>4
  <2>2. k \in RequestRecords /\ k.pc = "failing" /\ k.decl = d /\ k.was = FALSE
    BY <1>1 DEF RequestRecords, Pcs
  <2> HIDE DEF k
  <2>3. Becomes(r, k)
    BY <2>1, <2>2 DEF Becomes
  <2>4. request'[r] = k /\ k.pc \in Installing
    BY <1>1, <2>2, <2>3, BecomesOnly DEF Installing
  <2>5. Files(r)'
    BY <1>1, <2>2, <2>4 DEF Files, Pc, Installing
  <2>6. TearsNothing(r, k)
    BY <1>1, <1>4, <2>2, SameTears
  <2>7. /\ dirs' \in [Names -> (Resolutions \X {"whole", "torn"}) \cup {None}]
        /\ faults' \in 0..MaxFaults
    BY <1>1, <1>4, InstallationAssumption DEF TypeOK, Fault
  <2> QED
    BY <1>1, <1>2, <2>3, <2>4, <2>5, <2>6, <2>7, InstallKeeps
<1> QED
  BY <1>3, <1>4 DEF Restore

LEMMA ClearStatusKeeps ==
  ASSUME McpInv, NEW r \in Requests, ClearStatus(r)
  PROVE  McpInv'
<1>1. /\ TypeOK /\ Files(r) /\ Pc(r) = "clear" /\ Pc(r) \in Installing
      /\ UNCHANGED <<store, lock, dirs, storeLock, opLock, calls>>
  BY Parts DEF ClearStatus, Installing
<1>2. PICK pc \in {"siblings", "failing"} : Goto(r, pc)
  BY DEF ClearStatus
<1>3. PICK k : Becomes(r, k) /\ k.pc = pc /\ Same(request[r], k)
  <2>1. pc \in Pcs
    BY <1>2 DEF Pcs
  <2> QED
    BY <1>1, <1>2, <2>1, GotoIs
<1>4. request'[r] = k /\ k.pc \in Installing
  BY <1>1, <1>2, <1>3, BecomesOnly DEF Installing
<1>5. /\ lock' \in (Declarations \X Resolutions) \cup {None}
      /\ dirs' \in [Names -> (Resolutions \X {"whole", "torn"}) \cup {None}]
      /\ status' \in Declarations \cup {None} /\ faults' \in 0..MaxFaults
  BY <1>1, InstallationAssumption DEF TypeOK, ClearStatus, Fault
<1>6. Files(r)'
  BY <1>1, <1>2, <1>3, <1>4 DEF Files, Same, Pc, Installing, Installed
<1>7. TearsNothing(r, k)
  BY <1>1, <1>2, <1>3, SameTears
<1> QED
  BY <1>1, <1>3, <1>4, <1>5, <1>6, <1>7, InstallKeeps

LEMMA VerifyKeeps ==
  ASSUME McpInv, NEW r \in Requests, Verify(r)
  PROVE  McpInv'
<1>1. /\ TypeOK /\ Pc(r) \in InOperation /\ opLock' = None /\ Return(r)
      /\ UNCHANGED <<store, runtime, storeLock, calls, faults>>
  BY Parts DEF Verify, InOperation, Installing
<1>2. /\ faults' \in 0..MaxFaults /\ status' \in Declarations \cup {None}
      /\ removed' \in BOOLEAN
  BY <1>1 DEF TypeOK, store, runtime
<1> QED
  BY <1>1, <1>2, EndKeeps DEF store, runtime

LEMMA FailKeeps ==
  ASSUME McpInv, NEW r \in Requests, Fail(r)
  PROVE  McpInv'
<1>1. /\ TypeOK /\ Files(r) /\ Pc(r) = "failing" /\ opLock' = None /\ Return(r)
      /\ UNCHANGED <<store, lock, dirs, storeLock, calls>>
  BY Parts DEF Fail
<1>2. Pc(r) \in InOperation /\ Pc(r) \in Installing
  BY <1>1 DEF InOperation, Installing
<1>3. /\ faults' \in 0..MaxFaults /\ status' \in Declarations \cup {None}
      /\ removed' \in BOOLEAN
  BY <1>1, InstallationAssumption DEF TypeOK, Fail, Fault, Files, store
<1> QED
  BY <1>1, <1>2, <1>3, EndKeeps DEF store

-----------------------------------------------------------------------------
(* The invariant.                                                          *)

LEMMA CrashKeeps ==
  ASSUME McpInv, Crash
  PROVE  McpInv'
<1>1. /\ TypeOK /\ Removal /\ (Doubtful => GivenUp)
      /\ request' = [r \in Requests |-> Idle] /\ storeLock' = None /\ opLock' = None
      /\ UNCHANGED <<store, runtime, calls>> /\ Fault
  BY DEF Crash, McpInv
<1>2. \A r \in Requests : Pc(r)' = "idle"
  BY <1>1, IdleIs DEF Pc
<1>3. TypeOK'
  BY <1>1, IdleIs, InstallationAssumption DEF TypeOK, Fault, store, runtime
<1>4. Locks'
  BY <1>1, <1>2, InstallationAssumption DEF Locks, InStore, InOperation, Removing, Installing
<1>5. \A r \in Requests : Kept(r)' /\ Files(r)'
  BY <1>2 DEF Kept, Files, InStore, Installing
<1>6. Removal'
  BY <1>1, <1>2 DEF Removal, Quiet, InStore, Installing, store, runtime
<1>7. Doubtful' => Doubtful
  BY <1>1, <1>2 DEF Doubtful, TornLocked, Removing, runtime
<1>8. GivenUp => GivenUp'
  BY <1>1, <1>2 DEF GivenUp, InStore, store
<1> QED
  BY <1>1, <1>3, <1>4, <1>5, <1>6, <1>7, <1>8 DEF McpInv

LEMMA InitKeeps ==
  ASSUME Init
  PROVE  McpInv
<1>1. /\ declared \in Declarations /\ declared # None /\ status = None
      /\ removed = FALSE /\ revived = FALSE /\ storeLock = None /\ opLock = None
      /\ request = [r \in Requests |-> Idle]
  BY InstallationAssumption DEF Init
<1>2. \A r \in Requests : Pc(r) = "idle"
  BY <1>1, IdleIs DEF Pc
<1>3. lock \in (Declarations \X Resolutions) \cup {None}
  BY DEF Init
<1>4. /\ dirs \in [Names -> (Resolutions \X {"whole", "torn"}) \cup {None}]
      /\ \A x \in Names, n \in Resolutions : dirs[x] # Torn(n)
  <2>1. CASE dirs = [x \in Names |-> None]
    BY <2>1, InstallationAssumption DEF Torn
  <2>2. ASSUME NEW m \in Resolutions,
               dirs = [x \in Names |-> IF x = declared THEN Whole(m) ELSE None]
        PROVE  <1>4
    BY <2>2, InstallationAssumption DEF Torn, Whole
  <2> QED
    BY <2>1, <2>2 DEF Init
<1>5. TypeOK
  <2>1. calls \in 0..MaxCalls /\ faults \in 0..MaxFaults
    BY InstallationAssumption DEF Init
  <2>2. bound \in BOOLEAN /\ secret \in BOOLEAN
    <3>1. bound \in BOOLEAN /\ secret = (declared \in Secretive)
      BY DEF Init
    <3>2. (declared \in Secretive) \in BOOLEAN
      OBVIOUS
    <3> QED
      BY <3>1, <3>2
  <2>3. request \in [Requests -> RequestRecords]
    BY <1>1, IdleIs
  <2> QED
    BY <1>1, <1>3, <1>4, <2>1, <2>2, <2>3 DEF TypeOK
<1>6. Locks
  BY <1>1, <1>2, InstallationAssumption DEF Locks, InStore, InOperation, Removing, Installing
<1>7. \A r \in Requests : Kept(r) /\ Files(r)
  BY <1>2 DEF Kept, Files, InStore, Installing
<1>8. Removal
  BY <1>1, <1>2 DEF Removal, InStore
<1>9. ~Doubtful
  BY <1>2, <1>4 DEF Doubtful, TornLocked, Removing, Names
<1> QED
  BY <1>5, <1>6, <1>7, <1>8, <1>9 DEF McpInv

LEMMA NextKeeps ==
  ASSUME McpInv, [Next]_vars
  PROVE  McpInv'
<1>1. ASSUME NEW r \in Requests, Remover(r)
      PROVE  McpInv'
  BY <1>1, RemoveKeeps, UnlinkStatusKeeps, UnlinkLockKeeps DEF Remover
<1>2. ASSUME NEW r \in Requests, Installer(r)
      PROVE  McpInv'
  BY <1>2, QueueKeeps, DeclareKeeps, StageKeeps, MoveAwayKeeps, PublishKeeps, WriteLockKeeps,
     RestoreKeeps, ClearStatusKeeps, VerifyKeeps, FailKeeps DEF Installer
<1>3. ASSUME NEW r \in Requests, Move(r)
      PROVE  McpInv'
  BY <1>1, <1>2, <1>3, StoreStepKeeps, RemoveFilesKeeps, TreeRemovedKeeps DEF Move
<1>4. CASE UNCHANGED vars
  <2>1. UNCHANGED <<declared, bound, secret, removed, revived, lock, dirs, status, storeLock,
                    opLock, request, calls, faults>>
    BY <1>4 DEF vars, store, runtime
  <2> QED
    BY <2>1 DEF McpInv, TypeOK, Locks, Removal, Quiet, Kept, Files, Doubtful, TornLocked,
       GivenUp, Installed, Pc
<1> QED
  BY <1>3, <1>4, CallKeeps, CrashKeeps DEF Next

\* The two locks, what a request of the store would put back, what the files are
\* wherever a remover or an installer stands, and that only a Connection that
\* was given up has torn files or a remover at work.
THEOREM McpInvariant == Spec => []McpInv
<1>1. Init => McpInv
  BY InitKeeps
<1>2. McpInv /\ [Next]_vars => McpInv'
  BY NextKeeps
<1> QED
  BY <1>1, <1>2, PTL DEF Spec

\* Every state of the store, of the runtime's files and of the requests is well
\* formed.
THEOREM McpTypes == Spec => []TypeOK
<1>1. McpInv => TypeOK
  BY DEF McpInv
<1> QED
  BY <1>1, McpInvariant, PTL

\* What status and resolve_connection show of a Connection is there: unless an
\* update has revived it, ready means a whole installation of the locked
\* dependencies; and once delete_connection has returned, no install brings the
\* runtime back, however saves, installs, deletions, failing files and crashes
\* of the server meet.
THEOREM ShownIsTrueHolds == Spec => []ShownIsTrue
<1>1. McpInv => ShownIsTrue
  <2> SUFFICES ASSUME McpInv PROVE ShownIsTrue
    OBVIOUS
  <2>1. TypeOK /\ Removal /\ (TornLocked => GivenUp)
    BY DEF McpInv, Doubtful
  <2>2. ASSUME declared # None, ~revived, MayBeReady(declared)
        PROVE  Installed(declared)
    <3>1. PICK n \in Resolutions : /\ lock = <<declared, n>>
                                   /\ dirs[declared] \in {Whole(n), Torn(n)}
      BY <2>2 DEF MayBeReady
    <3>2. declared \in Declarations /\ ~TornLocked
      BY <2>1, <2>2 DEF TypeOK, GivenUp
    <3>3. dirs[declared] # Torn(n)
      BY <3>1, <3>2 DEF TornLocked
    <3> QED
      BY <3>1, <3>3 DEF Installed
  <2>3. RemovedStaysRemoved
    BY <2>1 DEF RemovedStaysRemoved, Removal, Quiet
  <2> QED
    BY <2>2, <2>3 DEF ShownIsTrue, ReadyIsWhole
<1> QED
  BY <1>1, McpInvariant, PTL

\* However _install ends: what it verifies is what it resolved and published,
\* and where it fails, an installation that was ready before is ready again.
THEOREM InstallKeepsPromiseHolds == Spec => []InstallKeepsPromise
<1>1. McpInv => InstallKeepsPromise
  <2> SUFFICES ASSUME McpInv, NEW r \in Requests
               PROVE  /\ Pc(r) = "verify" => /\ lock = <<request[r].decl, request[r].res>>
                                             /\ dirs[request[r].decl] = Whole(request[r].res)
                      /\ Pc(r) = "failing" /\ request[r].was => Installed(request[r].decl)
    BY DEF InstallKeepsPromise
  <2>1. Files(r)
    BY Parts
  <2> QED
    BY <2>1 DEF Files
<1> QED
  BY <1>1, McpInvariant, PTL

\* The awaits at which a request stands in line for a lock that is taken; at
\* every other it goes on by itself.
Waits(r) ==
  \/ Pc(r) \in {"check", "save", "delete", "bind", "declare"} /\ storeLock # None
  \/ Pc(r) \in {"remove", "queue"} /\ opLock # None
SomebodyMoves ==
  \A r \in Requests : Waits(r) => \E s \in Requests : Pc(s) # "idle" /\ ~Waits(s)

\* The requests never all stand in line: who holds the store's lock waits for
\* nobody, who holds the operation lock for the store's at most (save_connection
\* and delete_connection let go of the store before the runtime is touched).
\* This is NoCircularWait without its ENABLED.
THEOREM SomebodyGoesOn == Spec => []SomebodyMoves
<1>1. ASSUME McpInv, NEW r \in Requests, Waits(r)
      PROVE  \E s \in Requests : Pc(s) # "idle" /\ ~Waits(s)
  <2>1. storeLock \in Requests \cup {None} /\ opLock \in Requests \cup {None} /\ Locks
    BY <1>1 DEF McpInv, TypeOK
  <2>2. CASE storeLock # None
    <3>1. storeLock \in Requests /\ Pc(storeLock) \in InStore
      BY <2>1, <2>2 DEF Locks
    <3>2. Pc(storeLock) # "idle" /\ ~Waits(storeLock)
      BY <3>1 DEF InStore, Waits
    <3> QED
      BY <3>1, <3>2
  <2>3. CASE storeLock = None
    <3>1. opLock \in Requests /\ Pc(opLock) \in InOperation
      BY <1>1, <2>1, <2>3 DEF Waits, Locks
    <3>2. Pc(opLock) # "idle" /\ ~Waits(opLock)
      BY <2>3, <3>1 DEF InOperation, Removing, Installing, Waits
    <3> QED
      BY <3>1, <3>2
  <2> QED
    BY <2>2, <2>3
<1>2. McpInv => SomebodyMoves
  BY <1>1 DEF SomebodyMoves
<1> QED
  BY <1>2, McpInvariant, PTL
=============================================================================
