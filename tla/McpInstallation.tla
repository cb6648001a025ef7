-------------------------- MODULE McpInstallation --------------------------
(***************************************************************************)
(* One Managed Local MCP Connection: its document, binding and secret in   *)
(* McpResourceStore (storage/mcp_connections.py) and the runtime that      *)
(* McpInstallationManager (mcp/installation.py) installs for it.           *)
(*                                                                         *)
(* Requests run in a thread pool.  The store's lock guards document,       *)
(* binding and secret; the Connection's operation lock guards the files of *)
(* its runtime; no operation but a declaration's read holds both.  One     *)
(* action is one change of the disk or one acquisition of a lock.          *)
(***************************************************************************)
EXTENDS Naturals

CONSTANTS
  Declarations, \* package declarations, each with the toolchain it is for
  Secretive,    \* those that refer to a secret (its reference is one and the same)
  Resolutions,  \* dependency sets that resolving a package may yield
  Requests,     \* concurrent requests
  MaxCalls,     \* bound: requests of one behaviour
  MaxFaults,    \* bound: failing files, crashes
  None

ASSUME InstallationAssumption ==
  /\ Secretive \subseteq Declarations
  /\ {MaxCalls, MaxFaults} \subseteq Nat
  /\ None \notin Declarations \cup Resolutions \cup Requests
                 \cup (Declarations \X Resolutions) \cup (Resolutions \X {"whole", "torn"})
  /\ Declarations \cap Requests = {}

VARIABLES
  declared,  \* the Connection's document: its declaration
  bound,     \* whether some Repository's requirement is bound to it
  secret,    \* whether its secret is in the environment file
  storeLock, \* who holds the store's and the mutations' lock
  opLock,    \* who holds the Connection's operation lock
  lock,      \* the installation lock file: declaration and resolution
  dirs,      \* directories under installations/<connection>: what is in them
  status,    \* the failed-status file: the declaration it is about
  request,   \* request[r]: one call of the store
  removed,   \* history: a deletion has returned and nobody saved since
  revived,   \* history: an update has brought back what a deletion deleted
  calls,     \* number of requests so far
  faults     \* number of faults so far

store == <<declared, bound, secret, removed, revived>>
runtime == <<lock, dirs, status>>
vars == <<store, runtime, storeLock, opLock, request, calls, faults>>

\* A directory is named by its declaration, or is the .previous-* of a request.
\* Those names are never used again, so what an earlier call has left under one
\* need not be kept apart once the next call has its own.
Names == Declarations \cup Requests
Whole(resolution) == <<resolution, "whole">>
Torn(resolution) == <<resolution, "torn">>

Idle == [pc |-> "idle", decl |-> None, res |-> None,
         old |-> None, was |-> FALSE]

Pc(r) == request[r].pc
Goto(r, pc) == request' = [request EXCEPT ![r].pc = pc]
Return(r) == request' = [request EXCEPT ![r] = Idle]

Fault == faults < MaxFaults /\ faults' = faults + 1

Installed(d) == \E n \in Resolutions : lock = <<d, n>> /\ dirs[d] = Whole(n)

\* What status and resolve_connection find in a directory.  They read without
\* a lock, and a directory that is being removed may still show all they look
\* at: manifest, command and entry.
MayBeReady(d) ==
  \E resolution \in Resolutions :
    lock = <<d, resolution>> /\ dirs[d] \in {Whole(resolution), Torn(resolution)}

-----------------------------------------------------------------------------
(* McpResourceStore.                                                       *)

\* The route of an install looks the Connection up before it calls the store.
Call(r, job, d) ==
  /\ Pc(r) = "idle" /\ calls < MaxCalls
  /\ job = "install" => storeLock = None /\ d = declared
  /\ calls' = calls + 1
  /\ request' = [request EXCEPT ![r] =
       [Idle EXCEPT !.decl = d,
          !.pc = CASE job = "update" -> "check" [] job = "install" -> "queue"
                   [] job = "delete" -> "delete" [] job = "bind" -> "bind"]]
  /\ UNCHANGED <<store, runtime, storeLock, opLock, faults>>

\* set_binding.
SetBinding(r) ==
  /\ Pc(r) = "bind" /\ storeLock = None
  /\ bound' = (bound \/ declared # None)
  /\ Return(r)
  /\ UNCHANGED <<declared, secret, removed, revived, runtime, storeLock, opLock,
                 calls, faults>>

\* PUT /mcp-connections/{id}: connection_or_404, and only then save_connection.
Check(r) ==
  /\ Pc(r) = "check" /\ storeLock = None
  /\ IF declared = None THEN Return(r) ELSE Goto(r, "save")
  /\ UNCHANGED <<store, runtime, storeLock, opLock, calls, faults>>

Enter(r, pc) ==
  /\ storeLock = None /\ storeLock' = r
  /\ request' = [request EXCEPT ![r].pc = pc, ![r].old =
       [declared |-> declared, bound |-> bound, secret |-> secret, removed |-> removed,
        revived |-> revived]]

SaveSecret(r) ==
  /\ Pc(r) = "save" /\ Enter(r, "document")
  /\ secret' = (secret \/ request[r].decl \in Secretive)
  /\ UNCHANGED <<declared, bound, removed, revived, runtime, opLock, calls, faults>>

SaveDocument(r) ==
  /\ Pc(r) = "document"
  /\ declared' = request[r].decl
  /\ revived' = (revived \/ declared = None)
  /\ removed' = FALSE
  /\ Goto(r, "stale")
  /\ UNCHANGED <<bound, secret, runtime, storeLock, opLock, calls, faults>>

DropStaleSecret(r) ==
  /\ Pc(r) = "stale"
  /\ secret' = (secret /\ request[r].decl \in Secretive)
  /\ storeLock' = None /\ Return(r)
  /\ UNCHANGED <<declared, bound, removed, revived, runtime, opLock, calls, faults>>

\* delete_connection.
DeleteBindings(r) ==
  /\ Pc(r) = "delete"
  /\ IF declared = None
     THEN storeLock = None /\ Return(r) /\ UNCHANGED <<bound, storeLock>>
     ELSE Enter(r, "unlink") /\ bound' = FALSE
  /\ UNCHANGED <<declared, secret, removed, revived, runtime, opLock, calls, faults>>

DeleteDocument(r) ==
  /\ Pc(r) = "unlink"
  /\ declared' = None
  /\ Goto(r, "forget")
  /\ UNCHANGED <<bound, secret, removed, revived, runtime, storeLock, opLock,
                 calls, faults>>

\* Mutant: the runtime is removed under the store's lock.
DeleteSecretHoldingLock(r) ==
  /\ Pc(r) = "forget"
  /\ secret' = FALSE
  /\ Goto(r, "remove")
  /\ UNCHANGED <<declared, bound, removed, revived, runtime, storeLock, opLock,
                 calls, faults>>

DeleteSecret(r) ==
  /\ Pc(r) = "forget"
  /\ secret' = FALSE
  /\ storeLock' = None /\ Goto(r, "remove")
  /\ UNCHANGED <<declared, bound, removed, revived, runtime, opLock, calls, faults>>

\* A write fails and what was there is put back, as far as that succeeds:
\* document, then bindings, then secrets.
StoreFails(r) ==
  LET old == request[r].old IN
  /\ Pc(r) \in {"document", "stale", "unlink", "forget"}
  /\ \E n \in 0..3 :
       /\ faults' = faults + (IF n = 3 THEN 1 ELSE 2) /\ faults' <= MaxFaults
       /\ declared' = IF n >= 1 THEN old.declared ELSE declared
       /\ removed' = IF n >= 1 THEN old.removed ELSE removed
       /\ revived' = IF n >= 1 THEN old.revived ELSE revived
       /\ bound' = IF n >= 2 THEN old.bound ELSE bound
       /\ secret' = IF n >= 3 THEN old.secret ELSE secret
  /\ storeLock' = None /\ Return(r)
  /\ UNCHANGED <<runtime, opLock, calls>>

Store(r) ==
  \/ SetBinding(r) \/ Check(r) \/ SaveSecret(r) \/ SaveDocument(r) \/ DropStaleSecret(r)
  \/ DeleteBindings(r) \/ DeleteDocument(r) \/ DeleteSecret(r) \/ StoreFails(r)

-----------------------------------------------------------------------------
(* Trees of files.                                                         *)

\* The directories that a request is removing.
Doomed(r) ==
  CASE Pc(r) = "tree" -> Names
    [] Pc(r) = "withdraw" -> {request[r].decl}
    [] Pc(r) = "previous" -> {r}
    [] Pc(r) = "siblings" -> Names \ {request[r].decl}
    [] OTHER -> {}

After(pc) ==
  CASE pc = "tree" -> "unstatus" [] pc = "withdraw" -> "restore"
    [] pc = "previous" -> "clear" [] pc = "siblings" -> "verify"

\* shutil.rmtree, file after file,
RemoveFiles(r) ==
  /\ \E x \in Doomed(r), resolution \in Resolutions :
       \/ dirs[x] = Whole(resolution) /\ dirs' = [dirs EXCEPT ![x] = Torn(resolution)]
       \/ dirs[x] = Torn(resolution) /\ dirs' = [dirs EXCEPT ![x] = None]
  /\ UNCHANGED <<store, lock, status, storeLock, opLock, request, calls, faults>>

\* with ignore_errors.
TreeRemoved(r) ==
  /\ Doomed(r) # {}
  /\ \/ (\A x \in Doomed(r) : dirs[x] = None) /\ UNCHANGED faults
     \/ (\E x \in Doomed(r) : dirs[x] # None) /\ Fault
  /\ Goto(r, After(Pc(r)))
  /\ UNCHANGED <<store, runtime, storeLock, opLock, calls>>

-----------------------------------------------------------------------------
(* McpInstallationManager.remove.                                          *)

AcquireOperation(r, pc) ==
  /\ opLock = None /\ opLock' = r
  /\ Goto(r, pc)

Remove(r) ==
  /\ Pc(r) = "remove" /\ AcquireOperation(r, "tree")
  /\ UNCHANGED <<store, runtime, storeLock, calls, faults>>

UnlinkStatus(r) ==
  /\ Pc(r) = "unstatus"
  /\ \/ status' = None /\ Goto(r, "unlock") /\ UNCHANGED <<opLock, faults>>
     \/ Fault /\ opLock' = None /\ Return(r) /\ UNCHANGED status
  /\ UNCHANGED <<store, lock, dirs, storeLock, calls>>

UnlinkLock(r) ==
  /\ Pc(r) = "unlock"
  /\ opLock' = None /\ Return(r)
  /\ \/ lock' = None /\ removed' = (declared = None) /\ UNCHANGED faults
     \/ Fault /\ UNCHANGED <<lock, removed>>
  /\ UNCHANGED <<declared, bound, secret, revived, dirs, status, storeLock, calls>>

Remover(r) == Remove(r) \/ UnlinkStatus(r) \/ UnlinkLock(r)

-----------------------------------------------------------------------------
(* McpInstallationManager.install.                                         *)

Queue(r) ==
  /\ Pc(r) = "queue" /\ AcquireOperation(r, "declare")
  /\ UNCHANGED <<store, runtime, storeLock, calls, faults>>

\* Mutant: the declaration is the one the request came with.
DeclareAsCalled(r) ==
  /\ Pc(r) = "declare"
  /\ request' = [request EXCEPT ![r].pc = "stage"]
  /\ UNCHANGED <<store, runtime, storeLock, opLock, calls, faults>>

\* declaration() takes the store's lock for a moment.  `was` remembers for the
\* properties what the declaration had before.
Declare(r) ==
  /\ Pc(r) = "declare" /\ storeLock = None
  /\ IF declared = None
     THEN opLock' = None /\ Return(r)
     ELSE /\ request' = [request EXCEPT ![r].pc = "stage", ![r].decl = declared,
                           ![r].was = Installed(declared)]
          /\ UNCHANGED opLock
  /\ UNCHANGED <<store, runtime, storeLock, calls, faults>>

\* install_npm_package, install_pypi_package: a lock file for the same
\* declaration is installed again, otherwise dependencies are resolved afresh.
\* Commands fail as they please.
Stage(r) ==
  LET reused == {n \in Resolutions : lock = <<request[r].decl, n>>} IN
  /\ Pc(r) = "stage"
  /\ \/ \E n \in (IF reused # {} THEN reused ELSE Resolutions) :
          request' = [request EXCEPT ![r].pc = "away", ![r].res = n]
     \/ Goto(r, "failing")
  /\ UNCHANGED <<store, runtime, storeLock, opLock, calls, faults>>

Rename(from, to) == dirs' = [dirs EXCEPT ![to] = dirs[from], ![from] = None]

MoveAway(r) ==
  /\ Pc(r) = "away"
  /\ \/ Rename(request[r].decl, r) /\ Goto(r, "publish") /\ UNCHANGED faults
     \/ Fault /\ Goto(r, "failing") /\ UNCHANGED dirs
  /\ UNCHANGED <<store, lock, status, storeLock, opLock, calls>>

Publish(r) ==
  /\ Pc(r) = "publish"
  /\ \/ /\ dirs' = [dirs EXCEPT ![request[r].decl] = Whole(request[r].res)]
        /\ Goto(r, "writelock") /\ UNCHANGED faults
     \/ Fault /\ Goto(r, "restore") /\ UNCHANGED dirs
  /\ UNCHANGED <<store, lock, status, storeLock, opLock, calls>>

\* A lock file with the same content is not written again.
WriteLock(r) ==
  LET new == <<request[r].decl, request[r].res>> IN
  /\ Pc(r) = "writelock"
  /\ \/ lock' = new /\ Goto(r, "previous") /\ UNCHANGED faults
     \/ lock # new /\ Fault /\ Goto(r, "withdraw") /\ UNCHANGED lock
  /\ UNCHANGED <<store, dirs, status, storeLock, opLock, calls>>

\* Mutant: what was moved away stays away.
RestoreNothing(r) ==
  /\ Pc(r) = "restore"
  /\ Goto(r, "failing")
  /\ UNCHANGED <<store, runtime, storeLock, opLock, calls, faults>>

\* The new directory is gone again, or never came: the previous one returns.
Restore(r) ==
  LET d == request[r].decl IN
  /\ Pc(r) = "restore"
  /\ \/ /\ IF dirs[r] # None /\ dirs[d] = None THEN Rename(r, d) ELSE UNCHANGED dirs
        /\ Goto(r, "failing") /\ UNCHANGED faults
     \/ /\ Fault /\ UNCHANGED dirs
        /\ request' = [request EXCEPT ![r].pc = "failing", ![r].was = FALSE]
  /\ UNCHANGED <<store, lock, status, storeLock, opLock, calls>>

ClearStatus(r) ==
  /\ Pc(r) = "clear"
  /\ \/ status' = None /\ Goto(r, "siblings") /\ UNCHANGED faults
     \/ Fault /\ Goto(r, "failing") /\ UNCHANGED status
  /\ UNCHANGED <<store, lock, dirs, storeLock, opLock, calls>>

\* assert result["status"] == "ready".
Verify(r) ==
  /\ Pc(r) = "verify"
  /\ opLock' = None /\ Return(r)
  /\ UNCHANGED <<store, runtime, storeLock, calls, faults>>

Fail(r) ==
  /\ Pc(r) = "failing"
  /\ opLock' = None /\ Return(r)
  /\ \/ status' = request[r].decl /\ UNCHANGED faults
     \/ UNCHANGED status /\ Fault
  /\ UNCHANGED <<store, lock, dirs, storeLock, calls>>

Installer(r) ==
  \/ Queue(r) \/ Declare(r) \/ Stage(r) \/ MoveAway(r) \/ Publish(r) \/ WriteLock(r)
  \/ Restore(r) \/ ClearStatus(r) \/ Verify(r) \/ Fail(r)

-----------------------------------------------------------------------------
\* The server dies and is started again; nothing is repaired then.
Crash ==
  /\ Fault
  /\ \E r \in Requests : Pc(r) # "idle"
  /\ request' = [r \in Requests |-> Idle]
  /\ storeLock' = None /\ opLock' = None
  /\ UNCHANGED <<store, runtime, calls>>

\* A Connection that was installed before, or whose data/ was copied from
\* another installation of the program, with or without the lock file.
Init ==
  /\ declared \in Declarations
  /\ bound \in BOOLEAN /\ secret = (declared \in Secretive)
  /\ lock \in {None} \cup ({declared} \X Resolutions)
  /\ dirs \in {[x \in Names |-> None]} \cup
              {[x \in Names |-> IF x = declared THEN Whole(n) ELSE None] :
                 n \in {k \in Resolutions : lock = <<declared, k>>}}
  /\ status = None
  /\ storeLock = None /\ opLock = None
  /\ request = [r \in Requests |-> Idle]
  /\ removed = FALSE /\ revived = FALSE
  /\ calls = 0 /\ faults = 0

Move(r) == Store(r) \/ Remover(r) \/ Installer(r) \/ RemoveFiles(r) \/ TreeRemoved(r)

Next ==
  \/ \E r \in Requests :
       \/ \E job \in {"update", "install", "delete", "bind"}, d \in Declarations :
            Call(r, job, d)
       \/ Move(r)
  \/ Crash

Spec == Init /\ [][Next]_vars

-----------------------------------------------------------------------------
(* Properties.                                                             *)

Pcs == {"idle", "check", "save", "document", "stale", "delete", "unlink", "forget", "bind",
        "remove", "tree", "unstatus", "unlock", "queue", "declare", "stage", "away",
        "publish", "writelock", "withdraw", "restore", "previous", "clear", "siblings",
        "verify", "failing"}
StoreContents ==
  [declared : Declarations \cup {None}, bound : BOOLEAN, secret : BOOLEAN,
   removed : BOOLEAN, revived : BOOLEAN]
RequestRecords ==
  [pc : Pcs, decl : Declarations \cup {None}, res : Resolutions \cup {None},
   old : StoreContents \cup {None}, was : BOOLEAN]

\* The state is well formed.
TypeOK ==
  /\ request \in [Requests -> RequestRecords]
  /\ declared \in Declarations \cup {None} /\ status \in Declarations \cup {None}
  /\ {bound, secret, removed, revived} \subseteq BOOLEAN
  /\ storeLock \in Requests \cup {None} /\ opLock \in Requests \cup {None}
  /\ lock \in (Declarations \X Resolutions) \cup {None}
  /\ dirs \in [Names -> (Resolutions \X {"whole", "torn"}) \cup {None}]
  /\ calls \in 0..MaxCalls /\ faults \in 0..MaxFaults

\* What the declaration shows as ready is a whole installation of the locked
\* dependencies, wherever installs, updates and deletions fail, crash or meet.
\* (Only an update that revives a Connection whose deletion goes on to remove
\* its files can show a torn one.)
ReadyIsWhole ==
  declared # None /\ ~revived /\ MayBeReady(declared) => Installed(declared)

\* Once a deletion has returned, no queued or running install makes the
\* Connection's runtime ready again: lock file and failed status stay gone.
RemovedStaysRemoved ==
  removed => lock = None /\ status = None /\ declared = None /\ ~bound

\* What users are shown of a Connection is there: ready is whole, gone is gone.
ShownIsTrue == ReadyIsWhole /\ RemovedStaysRemoved

\* What _install promises however it ends: published, the lock file and the
\* directory it published are what it resolved (so verification asserts nothing
\* false); failed, at whatever step, an installation that was ready before is
\* ready again, unless putting it back failed too.
InstallKeepsPromise ==
  \A r \in Requests :
    /\ Pc(r) = "verify" => /\ lock = <<request[r].decl, request[r].res>>
                           /\ dirs[request[r].decl] = Whole(request[r].res)
    /\ Pc(r) = "failing" /\ request[r].was => Installed(request[r].decl)

\* The requests never wait for each other in a circle.
NoCircularWait ==
  (\E r \in Requests : Pc(r) # "idle") => \E r \in Requests : ENABLED Move(r)
=============================================================================
