---------------------------- MODULE BundleImport ----------------------------
(***************************************************************************)
(* The commit of a configuration Bundle and its crash recovery:            *)
(* configuration/bundles/transactions.py, journal.py and the parts of      *)
(* storage/file_config.py they use.                                        *)
(*                                                                         *)
(* One attempt is one call of commit_prepared_import: it has a transaction *)
(* id of its own, target records (new UUIDs chosen by a preview) and       *)
(* target asset folders (Python packages and Skills).  Every attempt runs  *)
(* under the repository's exclusive mutation lock, so attempts never       *)
(* overlap; what can come between two steps is a failing system call, an   *)
(* end of the process, or somebody creating a folder.                      *)
(*                                                                         *)
(* The loops over records and over assets take their items in any order:   *)
(* the code's order is that of the plan's lists, which is arbitrary.       *)
(***************************************************************************)
EXTENDS Naturals, FiniteSets

CONSTANTS Attempts,     \* calls of commit_prepared_import
          Records,      \* target configuration records
          Assets,       \* target asset folders
          RecordsOf,    \* the records an attempt imports
          AssetsOf,     \* the folders an attempt imports
          McpTools,     \* the records of kind mcp_tool
          Nobody, Foreign

ASSUME PlanAssumption ==
    /\ RecordsOf \in [Attempts -> SUBSET Records]
    /\ AssetsOf \in [Attempts -> SUBSET Assets]
    /\ McpTools \subseteq Records
    /\ Nobody \notin Attempts
    /\ Foreign \notin Attempts
    /\ Nobody # Foreign

VARIABLES
    pc,        \* where the process is
    cur,       \* the attempt whose transaction is being worked on
    config,    \* records in the repository object (FileConfigRepository._config)
    answer,    \* what the caller of each attempt was told
    retired,   \* UUIDs whose preview token died with an earlier process
    journal,   \* the journal file of each attempt
    staging,   \* attempts whose staging directory exists
    files,     \* record files on disk
    owner,     \* who put the folder at each target path there
    claimed,   \* folders that hold their owner's claim marker
    torn,      \* folders that were only partly removed
    durable,   \* attempts whose committed journal was written (history)
    retrying   \* attempts whose UUIDs a journal kept by another named (history)

vars == <<pc, cur, config, answer, retired, journal, staging, files, owner,
          claimed, torn, durable, retrying>>
history == <<durable, retrying>>
disk == <<journal, staging, files, owner, claimed, torn, history>>
trees == <<owner, claimed, torn>>

Forward == {"staging", "materializing", "renaming", "flushing", "committing"}
Cleaning == {"cleanRecords", "cleanAssets", "cleanStaging", "cleanJournal"}
Busy == Forward \cup {"unpublishing"} \cup Cleaning

-----------------------------------------------------------------------------

Init ==
    /\ pc = "down"
    /\ cur = Nobody
    /\ config = {}
    /\ answer = [t \in Attempts |-> "none"]
    /\ retired = {}
    /\ journal = [t \in Attempts |-> "none"]
    /\ staging = {}
    /\ files = {}
    /\ owner \in [Assets -> {Nobody, Foreign}]
    /\ claimed = {}
    /\ torn = {}
    /\ durable = {}
    /\ retrying = {}

\* A flush that gives up at any point, or one best-effort flush after another,
\* leaves some of the differences between the disk and the wanted set repaired.
Between(from, to) == {s \in SUBSET (from \cup to) : from \cap to \subseteq s}

\* One file operation of _flush_config: every wanted record is written before
\* the first unwanted file is unlinked.
SyncStep(wanted) ==
    \/ \E r \in wanted \ files : files' = files \cup {r}
    \/ /\ wanted \subseteq files
       /\ \E r \in files \ wanted : files' = files \ {r}

-----------------------------------------------------------------------------
(* The service process. *)

Start ==
    /\ pc = "down"
    /\ pc' = "recovering"
    /\ UNCHANGED <<cur, config, answer, retired, disk>>

\* recover_configuration_imports: one journal found at startup.
RecoverJournal(t) ==
    /\ pc = "recovering"
    /\ journal[t] # "none"
    /\ pc' = "cleanRecords"
    /\ cur' = t
    /\ UNCHANGED <<config, answer, retired, disk>>

\* Recovery done, the repository loads its records from the files.
Boot ==
    /\ pc = "recovering"
    /\ \A t \in Attempts : journal[t] = "none"
    /\ pc' = "idle"
    /\ config' = files
    /\ UNCHANGED <<cur, answer, retired, disk>>

\* The process ends at any point; the secret behind its preview tokens is gone.
Crash ==
    /\ pc # "down"
    /\ pc' = "down"
    /\ cur' = Nobody
    /\ config' = {}
    /\ answer' = [t \in Attempts |->
                    IF answer[t] = "pending" THEN "lost" ELSE answer[t]]
    /\ retired' = retired \cup
                    UNION {RecordsOf[t] : t \in {u \in Attempts : answer[u] # "none"}}
    /\ UNCHANGED disk

\* Another configuration change of the running service: a flush of the
\* repository's records that may fail at any point.
UnrelatedMutation ==
    /\ pc = "idle"
    /\ files' \in Between(files, config)
    /\ UNCHANGED <<pc, cur, config, answer, retired, journal, staging, trees, history>>

\* A folder with something in it appears at a target path that is still free.
\* os.rename fails on it, so the check before the rename needs no step of its own.
ForeignFolder(a) ==
    /\ owner[a] = Nobody
    /\ owner' = [owner EXCEPT ![a] = Foreign]
    /\ UNCHANGED <<pc, cur, config, answer, retired, journal, staging, files,
                   claimed, torn, history>>

-----------------------------------------------------------------------------
(* commit_prepared_import. *)

\* A target UUID is already used, or belongs to a preview of an earlier process.
TargetsTaken(t) == RecordsOf[t] \cap (config \cup files \cup retired) # {}

\* Another attempt at the same UUIDs, a commit of the same preview, is still to
\* be rolled back by the journal it left behind.
JournalKept(t) ==
    \E u \in Attempts : journal[u] = "prepared" /\ RecordsOf[u] \cap RecordsOf[t] # {}

\* The plan is refused, or the prepared journal cannot be written.
Refuse(t) ==
    /\ pc = "idle"
    /\ answer[t] = "none"
    /\ answer' = [answer EXCEPT ![t] = "failed"]
    /\ UNCHANGED <<pc, cur, config, retired, disk>>

\* The prepared journal is not written first (a mutant).
BeginUnjournaled(t) ==
    /\ pc = "idle"
    /\ answer[t] = "none"
    /\ ~TargetsTaken(t)
    /\ pc' = "staging"
    /\ cur' = t
    /\ answer' = [answer EXCEPT ![t] = "pending"]
    /\ UNCHANGED <<config, retired, disk>>

Begin(t) ==
    /\ pc = "idle"
    /\ answer[t] = "none"
    /\ ~TargetsTaken(t)
    /\ pc' = "staging"
    /\ cur' = t
    /\ answer' = [answer EXCEPT ![t] = "pending"]
    /\ journal' = [journal EXCEPT ![t] = "prepared"]
    /\ retrying' = IF JournalKept(t) THEN retrying \cup {t} ELSE retrying
    /\ UNCHANGED <<config, retired, staging, files, trees, durable>>

MakeStaging ==
    /\ pc = "staging"
    /\ pc' = "materializing"
    /\ staging' = staging \cup {cur}
    /\ UNCHANGED <<cur, config, answer, retired, journal, files, trees, history>>

\* Every asset is written and claimed inside the staging directory.
Materialize ==
    /\ pc = "materializing"
    /\ pc' = "renaming"
    /\ UNCHANGED <<cur, config, answer, retired, disk>>

RenameAsset(a) ==
    /\ pc = "renaming"
    /\ a \in AssetsOf[cur]
    /\ owner[a] = Nobody
    /\ owner' = [owner EXCEPT ![a] = cur]
    /\ claimed' = claimed \cup {a}
    /\ UNCHANGED <<pc, cur, config, answer, retired, journal, staging, files,
                   torn, history>>

\* The committed journal is written before the records are (a mutant).
RenamedThenCommitted ==
    /\ pc = "renaming"
    /\ \A a \in AssetsOf[cur] : owner[a] = cur
    /\ pc' = "flushing"
    /\ journal' = [journal EXCEPT ![cur] = "committed"]
    /\ durable' = durable \cup {cur}
    /\ UNCHANGED <<cur, config, answer, retired, staging, files, trees, retrying>>

AssetsRenamed ==
    /\ pc = "renaming"
    /\ \A a \in AssetsOf[cur] : owner[a] = cur
    /\ pc' = "flushing"
    /\ UNCHANGED <<cur, config, answer, retired, disk>>

Published == config \cup RecordsOf[cur]

FlushRecord ==
    /\ pc = "flushing"
    /\ SyncStep(Published)
    /\ UNCHANGED <<pc, cur, config, answer, retired, journal, staging, trees, history>>

RecordsPublished ==
    /\ pc = "flushing"
    /\ files = Published
    /\ pc' = "committing"
    /\ config' = Published
    /\ UNCHANGED <<cur, answer, retired, disk>>

WriteCommitted ==
    /\ pc = "committing"
    /\ pc' = "cleanRecords"
    /\ journal' = [journal EXCEPT ![cur] = "committed"]
    /\ durable' = durable \cup {cur}
    /\ UNCHANGED <<cur, config, answer, retired, staging, files, trees, retrying>>

-----------------------------------------------------------------------------
(* Failures of commit_prepared_import and its except branch. *)

\* A step before the records are published fails: a full disk, a folder that
\* already exists, a record set that does not validate.
FailBeforePublish ==
    /\ pc \in {"staging", "materializing", "renaming"}
    /\ pc' = "cleanRecords"
    /\ UNCHANGED <<cur, config, answer, retired, disk>>

\* update_config fails; it flushes the unchanged configuration back, best effort.
FlushFails ==
    /\ pc = "flushing"
    /\ files' \in Between(files, config)
    /\ pc' = "cleanRecords"
    /\ UNCHANGED <<cur, config, answer, retired, journal, staging, trees, history>>

CommitFails ==
    /\ pc = "committing"
    /\ pc' = "unpublishing"
    /\ UNCHANGED <<cur, config, answer, retired, disk>>

UnpublishRecord ==
    /\ pc = "unpublishing"
    /\ SyncStep(config \ RecordsOf[cur])
    /\ UNCHANGED <<pc, cur, config, answer, retired, journal, staging, trees, history>>

\* The repository object keeps the records it unlinked (a mutant).
UnpublishedOnDiskOnly ==
    /\ pc = "unpublishing"
    /\ files = config \ RecordsOf[cur]
    /\ pc' = "cleanRecords"
    /\ UNCHANGED <<cur, config, answer, retired, disk>>

RecordsUnpublished ==
    /\ pc = "unpublishing"
    /\ files = config \ RecordsOf[cur]
    /\ config' = files
    /\ pc' = "cleanRecords"
    /\ UNCHANGED <<cur, answer, retired, disk>>

\* "configuration import rollback failed; restart is required"
UnpublishFails ==
    /\ pc = "unpublishing"
    /\ files' \in Between(files, config)
    /\ pc' = "idle"
    /\ cur' = Nobody
    /\ answer' = [answer EXCEPT ![cur] = "failed"]
    /\ UNCHANGED <<config, retired, journal, staging, trees, history>>

-----------------------------------------------------------------------------
(* cleanup_import_journal, called by the commit, its rollback and recovery. *)

RollingBack == journal[cur] = "prepared"

\* _configuration_path names the file of every record but those of mcp_tools.
Named(t) == RecordsOf[t] \ McpTools

\* The claim marker is not looked at (a mutant).
AnyFolder(a) == owner[a] # Nobody

OwnClaim(a) == owner[a] = cur /\ a \in claimed

UnlinkRecord ==
    /\ pc = "cleanRecords"
    /\ RollingBack
    /\ \E r \in Named(cur) \cap files : files' = files \ {r}
    /\ UNCHANGED <<pc, cur, config, answer, retired, journal, staging, trees, history>>

RecordsUnlinked ==
    /\ pc = "cleanRecords"
    /\ RollingBack => Named(cur) \cap files = {}
    /\ pc' = "cleanAssets"
    /\ UNCHANGED <<cur, config, answer, retired, disk>>

\* _cleanup_claimed_asset with remove_asset.
RemoveAsset(a) ==
    /\ pc = "cleanAssets"
    /\ RollingBack
    /\ a \in AssetsOf[cur]
    /\ OwnClaim(a)
    /\ owner' = [owner EXCEPT ![a] = Nobody]
    /\ claimed' = claimed \ {a}
    /\ torn' = torn \ {a}
    /\ UNCHANGED <<pc, cur, config, answer, retired, journal, staging, files, history>>

\* _cleanup_claimed_asset without remove_asset.
DropClaim(a) ==
    /\ pc = "cleanAssets"
    /\ ~RollingBack
    /\ a \in AssetsOf[cur]
    /\ OwnClaim(a)
    /\ claimed' = claimed \ {a}
    /\ UNCHANGED <<pc, cur, config, answer, retired, journal, staging, files,
                   owner, torn, history>>

AssetsCleaned ==
    /\ pc = "cleanAssets"
    /\ \A a \in AssetsOf[cur] : ~OwnClaim(a)
    /\ pc' = "cleanStaging"
    /\ UNCHANGED <<cur, config, answer, retired, disk>>

RemoveStaging ==
    /\ pc = "cleanStaging"
    /\ staging' = staging \ {cur}
    /\ pc' = "cleanJournal"
    /\ UNCHANGED <<cur, config, answer, retired, journal, files, trees, history>>

\* The error that caused the rollback is not raised again (a mutant).
CleanupReturnsOk(failed) ==
    /\ cur' = Nobody
    /\ IF answer[cur] = "pending"
         THEN pc' = "idle" /\ answer' = [answer EXCEPT ![cur] = "ok"]
         ELSE /\ pc' = IF failed THEN "down" ELSE "recovering"
              /\ UNCHANGED answer
    /\ UNCHANGED <<config, retired>>

\* Where cleanup returns to: recovery goes on, commit_prepared_import answers.
CleanupReturns(failed) ==
    /\ cur' = Nobody
    /\ IF answer[cur] = "pending"
         THEN /\ pc' = "idle"
              /\ answer' = [answer EXCEPT
                              ![cur] = IF RollingBack THEN "failed" ELSE "ok"]
         ELSE /\ pc' = IF failed THEN "down" ELSE "recovering"
              /\ UNCHANGED answer
    /\ UNCHANGED <<config, retired>>

UnlinkJournal ==
    /\ pc = "cleanJournal"
    /\ journal' = [journal EXCEPT ![cur] = "none"]
    /\ CleanupReturns(FALSE)
    /\ UNCHANGED <<staging, files, trees, history>>

\* A step of the cleanup raises; the journal file stays.
CleanupFails ==
    /\ pc \in Cleaning
    /\ CleanupReturns(TRUE)
    /\ UNCHANGED disk

\* rmtree raises half way, before or after it has unlinked the claim marker.
RemovalTears(a) ==
    /\ pc = "cleanAssets"
    /\ RollingBack
    /\ a \in AssetsOf[cur]
    /\ OwnClaim(a)
    /\ torn' = torn \cup {a}
    /\ claimed' \in {claimed, claimed \ {a}}
    /\ CleanupReturns(TRUE)
    /\ UNCHANGED <<journal, staging, files, owner, history>>

-----------------------------------------------------------------------------

Commit(t) == Refuse(t) \/ Begin(t)

Publish ==
    \/ MakeStaging \/ Materialize \/ AssetsRenamed
    \/ \E a \in Assets : RenameAsset(a)
    \/ FlushRecord \/ RecordsPublished \/ WriteCommitted

RollBack ==
    \/ FailBeforePublish \/ FlushFails \/ CommitFails
    \/ UnpublishRecord \/ RecordsUnpublished \/ UnpublishFails

Cleanup ==
    \/ UnlinkRecord \/ RecordsUnlinked
    \/ \E a \in Assets : RemoveAsset(a) \/ DropClaim(a) \/ RemovalTears(a)
    \/ AssetsCleaned \/ RemoveStaging \/ UnlinkJournal \/ CleanupFails

Next ==
    \/ Start \/ Boot \/ Crash \/ UnrelatedMutation
    \/ \E t \in Attempts : RecoverJournal(t) \/ Commit(t)
    \/ \E a \in Assets : ForeignFolder(a)
    \/ Publish \/ RollBack \/ Cleanup

Spec == Init /\ [][Next]_vars

-----------------------------------------------------------------------------
(* Properties. *)

\* Every variable keeps its type, and a transaction is open exactly while a
\* commit or a cleanup is running.
TypeOK ==
    /\ pc \in {"down", "recovering", "idle"} \cup Busy
    /\ cur \in Attempts \cup {Nobody}
    /\ cur \in Attempts <=> pc \in Busy
    /\ config \subseteq Records
    /\ answer \in [Attempts -> {"none", "pending", "ok", "failed", "lost"}]
    /\ retired \subseteq Records
    /\ journal \in [Attempts -> {"none", "prepared", "committed"}]
    /\ staging \subseteq Attempts
    /\ files \subseteq Records
    /\ owner \in [Assets -> Attempts \cup {Nobody, Foreign}]
    /\ claimed \subseteq Assets
    /\ torn \subseteq Assets
    /\ durable \subseteq Attempts
    /\ retrying \subseteq Attempts

\* Once the committed journal of an import was written, nothing the service
\* does takes a folder or a record file of it away again: not a crash before
\* the housekeeping, not the recovery of another import's journal, not a flush
\* of another change, and not the recovery of an earlier commit of the same
\* preview, unless its journal was already there when this commit began.
CommittedImportIntact ==
    \A t \in durable :
        /\ t \notin retrying => RecordsOf[t] \subseteq files
        /\ \A a \in AssetsOf[t] : owner[a] = t /\ a \notin torn

\* The caller is told the truth: "ok" only for a durable import and "failed"
\* only for one that will never become durable.
AnswerIsTrue ==
    \A t \in Attempts : /\ answer[t] = "ok" => t \in durable
                        /\ answer[t] = "failed" => t \notin durable

\* The records of imports that are durable or that a journal will undo.
Accounted ==
    UNION {RecordsOf[t] : t \in {u \in Attempts : u \in durable \/ journal[u] = "prepared"}}

\* Whatever fails, an import that did not commit leaves no record whose path
\* _configuration_path knows, but those that another commit of its preview
\* wrote, and no folder but one that a removal has begun to take apart.
RollbackCleansWhatItNames ==
    \A t \in Attempts \ durable :
        journal[t] = "none" =>
            /\ Named(t) \cap files \subseteq Accounted
            /\ \A a \in Assets : owner[a] = t => a \in torn

\* A claim marker or a staging directory never outlives the journal by which
\* recovery would find it.
LeftoversAreJournaled ==
    \A t \in Attempts :
        journal[t] = "none" =>
            /\ t \notin staging
            /\ \A a \in claimed : owner[a] # t

\* A running service that has no rollback left over serves exactly the records
\* that its next start would load, MCP tools aside.
MemoryMatchesDisk ==
    (pc = "idle" /\ \A t \in Attempts : journal[t] # "prepared")
        => config \ McpTools = files \ McpTools

\* The service never replaces or removes a folder that an import did not put
\* there.
ForeignFoldersUntouched ==
    [][\A a \in Assets : owner[a] = Foreign => owner'[a] = Foreign]_vars

=============================================================================
