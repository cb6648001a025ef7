---------------------------- MODULE BundleProofs ----------------------------
(***************************************************************************)
(* Proofs about BundleImport, for any number of imports, records and       *)
(* folders, and about the service that runs it, BundleService, for any     *)
(* libraries, Bundles and imports.                                         *)
(***************************************************************************)
EXTENDS BundleService, TLAPS

-----------------------------------------------------------------------------
(* The inductive invariant, in the order in which its parts are used. *)

\* The repository object holds the records (it is neither down nor starting).
Up == pc = "idle" \/ (pc \in Busy /\ answer[cur] = "pending")

\* A commit works under a prepared journal, a cleanup under some journal.
PhaseHasJournal ==
    /\ pc \in Forward \cup {"unpublishing"} =>
            journal[cur] = "prepared" /\ answer[cur] = "pending"
    /\ pc \in Cleaning => journal[cur] # "none"

\* Only the attempt being worked on waits for its answer.
PendingIsCurrent == \A t \in Attempts : answer[t] = "pending" => cur = t

\* The journal says committed only of durable imports, prepared of others.
JournalMatchesHistory ==
    \A t \in Attempts : /\ journal[t] = "committed" => t \in durable
                        /\ journal[t] = "prepared" => t \notin durable

\* An attempt that has not begun has left nothing anywhere.
UnbegunIsAbsent ==
    \A t \in Attempts : answer[t] = "none" =>
        journal[t] = "none" /\ t \notin durable /\ \A a \in Assets : owner[a] # t

\* Folders belong to imports that name them, and only those are ever torn.
FoldersAreNamed ==
    /\ \A a \in Assets, t \in Attempts : owner[a] = t => a \in AssetsOf[t]
    /\ \A a \in torn : owner[a] \in Attempts

\* The folders of a commit under way are whole, and complete once its records
\* are written; the records are complete when the committed journal is due.
ForwardIsWhole ==
    /\ pc \in Forward => \A a \in Assets : owner[a] = cur => a \notin torn
    /\ pc \in {"flushing", "committing"} => \A a \in AssetsOf[cur] : owner[a] = cur
    /\ pc = "committing" => RecordsOf[cur] \subseteq files \cap config

\* The repository object holds every durable import that was no retry.
DurableInMemory ==
    Up => \A t \in durable \ retrying : RecordsOf[t] \subseteq config

\* A journal that undoes an attempt names no record of an import that is durable
\* or under way, but of those whose retry it was.
JournalsApart ==
    \A t \in Attempts \ retrying, u \in Attempts :
        (t \in durable \/ (t = cur /\ pc \in Forward)) /\ journal[u] = "prepared" /\ u # t
            => RecordsOf[t] \cap RecordsOf[u] = {}

CommitInv ==
    /\ TypeOK
    /\ PhaseHasJournal
    /\ PendingIsCurrent
    /\ JournalMatchesHistory
    /\ UnbegunIsAbsent
    /\ FoldersAreNamed
    /\ ForwardIsWhole
    /\ DurableInMemory
    /\ JournalsApart
    /\ AnswerIsTrue
    /\ CommittedImportIntact

\* Cleanup has dealt with the claims, then with the staging directory.
CleanupProgress ==
    /\ pc \in {"cleanStaging", "cleanJournal"} =>
            \A a \in AssetsOf[cur] : ~OwnClaim(a)
    /\ pc = "cleanJournal" => cur \notin staging

ClaimInv ==
    /\ TypeOK
    /\ PhaseHasJournal
    /\ FoldersAreNamed
    /\ CleanupProgress
    /\ LeftoversAreJournaled

\* Every folder of an import that is not durable still carries its claim, unless
\* its removal stopped half way.
UndurableIsClaimed ==
    \A a \in Assets : owner[a] \in Attempts \ durable => a \in claimed \cup torn

\* The repository object holds no record of an import that is not durable but
\* MCP tools, unless its rollback failed or is under way, or a commit of the same
\* preview did not fail.
MemoryIsClean ==
    /\ Up => \A t \in Attempts : Named(t) \cap config \subseteq Accounted
    /\ (pc \in {"staging", "materializing", "renaming", "flushing"}
         \/ (pc \in Cleaning /\ answer[cur] = "pending" /\ RollingBack))
            => RecordsOf[cur] \cap config = {}

\* A rollback past its record loop has no record file left that it can name.
RollbackProgress ==
    pc \in Cleaning \ {"cleanRecords"} /\ RollingBack
        => Named(cur) \cap files = {}

\* Disk and memory differ only in MCP tools and in records whose journal says
\* prepared.
DriftIsJournaled ==
    /\ Up => \A r \in ((files \ config) \cup (config \ files)) \ McpTools :
                \E t \in Attempts : journal[t] = "prepared" /\ r \in RecordsOf[t]
    /\ pc = "committing" => files = config

RollbackInv ==
    /\ CommitInv
    /\ CleanupProgress
    /\ UndurableIsClaimed
    /\ MemoryIsClean
    /\ RollbackProgress
    /\ RollbackCleansWhatItNames
    /\ DriftIsJournaled

-----------------------------------------------------------------------------

(***************************************************************************)
(* Types.                                                                  *)
(***************************************************************************)

\* No step of the service takes a variable out of its type.
LEMMA TypeStep ==
    ASSUME TypeOK, [Next]_vars
    PROVE  TypeOK'
<1> USE PlanAssumption DEF TypeOK, Busy, Forward, Cleaning, trees, history, disk
<1>1. CASE Start
  BY <1>1 DEF Start
<1>2. CASE Boot
  BY <1>2 DEF Boot
<1>3. CASE Crash
  BY <1>3 DEF Crash
<1>4. CASE UnrelatedMutation
  BY <1>4 DEF UnrelatedMutation, Between
<1>5. CASE MakeStaging
  BY <1>5 DEF MakeStaging
<1>6. CASE Materialize
  BY <1>6 DEF Materialize
<1>7. CASE AssetsRenamed
  BY <1>7 DEF AssetsRenamed
<1>8. CASE FlushRecord
  BY <1>8 DEF FlushRecord, SyncStep, Published
<1>9. CASE RecordsPublished
  BY <1>9 DEF RecordsPublished, Published
<1>10. CASE WriteCommitted
  BY <1>10 DEF WriteCommitted
<1>11. CASE FailBeforePublish
  BY <1>11 DEF FailBeforePublish
<1>12. CASE FlushFails
  BY <1>12 DEF FlushFails, Between
<1>13. CASE CommitFails
  BY <1>13 DEF CommitFails
<1>14. CASE UnpublishRecord
  BY <1>14 DEF UnpublishRecord, SyncStep
<1>15. CASE RecordsUnpublished
  BY <1>15 DEF RecordsUnpublished
<1>16. CASE UnpublishFails
  BY <1>16 DEF UnpublishFails, Between
<1>17. CASE UnlinkRecord
  BY <1>17 DEF UnlinkRecord, Named, RollingBack
<1>18. CASE RecordsUnlinked
  BY <1>18 DEF RecordsUnlinked
<1>19. CASE AssetsCleaned
  BY <1>19 DEF AssetsCleaned, OwnClaim
<1>20. CASE RemoveStaging
  BY <1>20 DEF RemoveStaging
<1>21. CASE UnlinkJournal
  BY <1>21 DEF UnlinkJournal, CleanupReturns, RollingBack
<1>22. CASE CleanupFails
  BY <1>22 DEF CleanupFails, CleanupReturns, RollingBack
<1>23. ASSUME NEW t \in Attempts, RecoverJournal(t)
      PROVE  TypeOK'
  BY <1>23 DEF RecoverJournal
<1>24. ASSUME NEW t \in Attempts, Refuse(t)
      PROVE  TypeOK'
  BY <1>24 DEF Refuse
<1>25. ASSUME NEW t \in Attempts, Begin(t)
      PROVE  TypeOK'
  BY <1>25 DEF Begin, TargetsTaken
<1>26. ASSUME NEW a \in Assets, ForeignFolder(a)
      PROVE  TypeOK'
  BY <1>26 DEF ForeignFolder
<1>27. ASSUME NEW a \in Assets, RenameAsset(a)
      PROVE  TypeOK'
  BY <1>27 DEF RenameAsset
<1>28. ASSUME NEW a \in Assets, RemoveAsset(a)
      PROVE  TypeOK'
  BY <1>28 DEF RemoveAsset, RollingBack, OwnClaim
<1>29. ASSUME NEW a \in Assets, DropClaim(a)
      PROVE  TypeOK'
  BY <1>29 DEF DropClaim, RollingBack, OwnClaim
<1>30. ASSUME NEW a \in Assets, RemovalTears(a)
      PROVE  TypeOK'
  BY <1>30 DEF RemovalTears, CleanupReturns, RollingBack, OwnClaim
<1>31. CASE UNCHANGED vars
  BY <1>31 DEF vars
<1>32. QED
  BY <1>1, <1>2, <1>3, <1>4, <1>5, <1>6, <1>7, <1>8, <1>9, <1>10, <1>11, <1>12,
     <1>13, <1>14, <1>15, <1>16, <1>17, <1>18, <1>19, <1>20, <1>21, <1>22,
     <1>23, <1>24, <1>25, <1>26, <1>27, <1>28, <1>29, <1>30, <1>31
  DEF Next, Commit, Publish, RollBack, Cleanup

\* Every reachable state of the import machinery is well typed, and a
\* transaction is open exactly while a commit or a cleanup runs.
THEOREM TypeCorrect == Spec => []TypeOK
<1>1. Init => TypeOK
  BY PlanAssumption DEF Init, TypeOK, Busy, Forward, Cleaning
<1>2. TypeOK /\ [Next]_vars => TypeOK'
  BY TypeStep
<1>3. QED
  BY <1>1, <1>2, PTL DEF Spec

-----------------------------------------------------------------------------
(***************************************************************************)
(* A committed import stays whole.                                         *)
(***************************************************************************)

\* CommitInv is inductive, without any assumption on the plans.
LEMMA CommitStep ==
    ASSUME CommitInv, [Next]_vars
    PROVE  CommitInv'
<1> USE PlanAssumption
    DEF CommitInv, TypeOK, Busy, Forward, Cleaning, trees, history, disk, Up,
           PhaseHasJournal, PendingIsCurrent, JournalMatchesHistory, UnbegunIsAbsent,
           FoldersAreNamed, ForwardIsWhole, DurableInMemory, JournalsApart, AnswerIsTrue,
           CommittedImportIntact
<1>0. TypeOK'
  BY TypeStep
<1>1. CASE Start
  BY <1>0, <1>1 DEF Start
<1>2. CASE Boot
  <2>1. DurableInMemory'
    BY <1>2 DEF Boot
  <2>2. QED
    BY <1>0, <1>2, <2>1 DEF Boot
<1>3. CASE Crash
  BY <1>0, <1>3 DEF Crash
<1>4. CASE UnrelatedMutation
  <2>1. CommittedImportIntact'
    BY <1>4 DEF UnrelatedMutation, Between
  <2>2. QED
    BY <1>0, <1>4, <2>1 DEF UnrelatedMutation, Between
<1>5. CASE MakeStaging
  BY <1>0, <1>5 DEF MakeStaging
<1>6. CASE Materialize
  BY <1>0, <1>6 DEF Materialize
<1>7. CASE AssetsRenamed
  BY <1>0, <1>7 DEF AssetsRenamed
<1>8. CASE FlushRecord
  <2>1. CommittedImportIntact'
    BY <1>8 DEF FlushRecord, SyncStep, Published
  <2>2. QED
    BY <1>0, <1>8, <2>1 DEF FlushRecord, SyncStep, Published
<1>9. CASE RecordsPublished
  <2>1. ForwardIsWhole'
    BY <1>9 DEF RecordsPublished, Published
  <2>2. DurableInMemory'
    BY <1>9 DEF RecordsPublished, Published
  <2>3. QED
    BY <1>0, <1>9, <2>1, <2>2 DEF RecordsPublished, Published
<1>10. CASE WriteCommitted
  <2>1. JournalMatchesHistory'
    BY <1>10 DEF WriteCommitted
  <2>2. AnswerIsTrue'
    BY <1>10 DEF WriteCommitted
  <2>3. DurableInMemory'
    BY <1>10 DEF WriteCommitted
  <2>4. CommittedImportIntact'
    BY <1>10 DEF WriteCommitted
  <2>5. QED
    BY <1>0, <1>10, <2>1, <2>2, <2>3, <2>4 DEF WriteCommitted
<1>11. CASE FailBeforePublish
  BY <1>0, <1>11 DEF FailBeforePublish
<1>12. CASE FlushFails
  <2>1. CommittedImportIntact'
    BY <1>12 DEF FlushFails, Between
  <2>2. QED
    BY <1>0, <1>12, <2>1 DEF FlushFails, Between
<1>13. CASE CommitFails
  BY <1>0, <1>13 DEF CommitFails
<1>14. CASE UnpublishRecord
  <2>1. CommittedImportIntact'
    BY <1>14 DEF UnpublishRecord, SyncStep
  <2>2. QED
    BY <1>0, <1>14, <2>1 DEF UnpublishRecord, SyncStep
<1>15. CASE RecordsUnpublished
  <2>1. DurableInMemory'
    BY <1>15 DEF RecordsUnpublished
  <2>2. QED
    BY <1>0, <1>15, <2>1 DEF RecordsUnpublished
<1>16. CASE UnpublishFails
  <2>1. AnswerIsTrue'
    BY <1>16 DEF UnpublishFails, Between
  <2>2. CommittedImportIntact'
    BY <1>16 DEF UnpublishFails, Between
  <2>3. QED
    BY <1>0, <1>16, <2>1, <2>2 DEF UnpublishFails, Between
<1>17. CASE UnlinkRecord
  <2>1. CommittedImportIntact'
    BY <1>17 DEF UnlinkRecord, Named, RollingBack
  <2>2. QED
    BY <1>0, <1>17, <2>1 DEF UnlinkRecord, Named, RollingBack
<1>18. CASE RecordsUnlinked
  BY <1>0, <1>18 DEF RecordsUnlinked, Named, RollingBack
<1>19. CASE AssetsCleaned
  BY <1>0, <1>19 DEF AssetsCleaned, OwnClaim
<1>20. CASE RemoveStaging
  BY <1>0, <1>20 DEF RemoveStaging
<1>21. CASE UnlinkJournal
  <2>1. AnswerIsTrue'
    BY <1>21 DEF UnlinkJournal, CleanupReturns, RollingBack
  <2>2. QED
    BY <1>0, <1>21, <2>1 DEF UnlinkJournal, CleanupReturns, RollingBack
<1>22. CASE CleanupFails
  <2>1. AnswerIsTrue'
    BY <1>22 DEF CleanupFails, CleanupReturns, RollingBack
  <2>2. QED
    BY <1>0, <1>22, <2>1 DEF CleanupFails, CleanupReturns, RollingBack
<1>23. ASSUME NEW t \in Attempts, RecoverJournal(t)
      PROVE  CommitInv'
  BY <1>0, <1>23 DEF RecoverJournal
<1>24. ASSUME NEW t \in Attempts, Refuse(t)
      PROVE  CommitInv'
  BY <1>0, <1>24 DEF Refuse
<1>25. ASSUME NEW t \in Attempts, Begin(t)
      PROVE  CommitInv'
  <2>1. JournalMatchesHistory'
    BY <1>25 DEF Begin, TargetsTaken
  <2>2. UnbegunIsAbsent'
    BY <1>25 DEF Begin, TargetsTaken
  <2>3. ForwardIsWhole'
    BY <1>25 DEF Begin, TargetsTaken
  <2>4. JournalsApart'
    <3> SUFFICES ASSUME NEW x \in Attempts, x \notin retrying', NEW u \in Attempts,
                        x \in durable' \/ (x = cur' /\ pc' \in Forward),
                        journal'[u] = "prepared", u # x
                 PROVE  RecordsOf[x] \cap RecordsOf[u] = {}
      BY DEF JournalsApart
    <3>1. CASE x = t
      BY <1>25, <3>1 DEF Begin, JournalKept
    <3>2. CASE x # t /\ u = t
      BY <1>25, <3>2 DEF Begin, TargetsTaken
    <3>3. CASE x # t /\ u # t
      BY <1>25, <3>3 DEF Begin
    <3> QED
      BY <3>1, <3>2, <3>3
  <2>5. QED
    BY <1>0, <1>25, <2>1, <2>2, <2>3, <2>4 DEF Begin, TargetsTaken
<1>26. ASSUME NEW a \in Assets, ForeignFolder(a)
      PROVE  CommitInv'
  BY <1>0, <1>26 DEF ForeignFolder
<1>27. ASSUME NEW a \in Assets, RenameAsset(a)
      PROVE  CommitInv'
  <2>1. FoldersAreNamed'
    BY <1>27 DEF RenameAsset
  <2>2. ForwardIsWhole'
    BY <1>27 DEF RenameAsset
  <2>3. CommittedImportIntact'
    BY <1>27 DEF RenameAsset
  <2>4. QED
    BY <1>0, <1>27, <2>1, <2>2, <2>3 DEF RenameAsset
<1>28. ASSUME NEW a \in Assets, RemoveAsset(a)
      PROVE  CommitInv'
  <2>1. FoldersAreNamed'
    BY <1>28 DEF RemoveAsset, RollingBack, OwnClaim
  <2>2. CommittedImportIntact'
    BY <1>28 DEF RemoveAsset, RollingBack, OwnClaim
  <2>3. QED
    BY <1>0, <1>28, <2>1, <2>2 DEF RemoveAsset, RollingBack, OwnClaim
<1>29. ASSUME NEW a \in Assets, DropClaim(a)
      PROVE  CommitInv'
  BY <1>0, <1>29 DEF DropClaim, RollingBack, OwnClaim
<1>30. ASSUME NEW a \in Assets, RemovalTears(a)
      PROVE  CommitInv'
  <2>1. FoldersAreNamed'
    BY <1>30 DEF RemovalTears, CleanupReturns, RollingBack, OwnClaim
  <2>2. AnswerIsTrue'
    BY <1>30 DEF RemovalTears, CleanupReturns, RollingBack, OwnClaim
  <2>3. CommittedImportIntact'
    BY <1>30 DEF RemovalTears, CleanupReturns, RollingBack, OwnClaim
  <2>4. QED
    BY <1>0, <1>30, <2>1, <2>2, <2>3 DEF RemovalTears, CleanupReturns, RollingBack, OwnClaim
<1>31. CASE UNCHANGED vars
  BY <1>0, <1>31 DEF vars
<1>32. QED
  BY <1>1, <1>2, <1>3, <1>4, <1>5, <1>6, <1>7, <1>8, <1>9, <1>10, <1>11, <1>12,
     <1>13, <1>14, <1>15, <1>16, <1>17, <1>18, <1>19, <1>20, <1>21, <1>22,
     <1>23, <1>24, <1>25, <1>26, <1>27, <1>28, <1>29, <1>30, <1>31
  DEF Next, Commit, Publish, RollBack, Cleanup

\* CommitInv holds in every reachable state.
LEMMA CommitInvariant == Spec => []CommitInv
<1>1. Init => CommitInv
  BY PlanAssumption
  DEF Init, CommitInv, TypeOK, Busy, Forward, Cleaning, Up, PhaseHasJournal,
      PendingIsCurrent, JournalMatchesHistory, UnbegunIsAbsent, FoldersAreNamed,
      ForwardIsWhole, DurableInMemory, JournalsApart, AnswerIsTrue, CommittedImportIntact
<1>2. CommitInv /\ [Next]_vars => CommitInv'
  BY CommitStep
<1>3. QED
  BY <1>1, <1>2, PTL DEF Spec

\* commit_prepared_import and recovery never take a folder of an import away once
\* its committed journal was written, nor a record, whatever fails or crashes and
\* however often a preview is committed again, unless the journal of an earlier
\* commit of its preview was there when it began.
THEOREM CommittedIsFinal == Spec => []CommittedImportIntact
<1>1. CommitInv => CommittedImportIntact
  BY DEF CommitInv
<1>2. QED
  BY <1>1, CommitInvariant, PTL

\* The caller of commit_prepared_import is told "ok" only of a durable import
\* and "failed" only of one that never becomes durable.
THEOREM AnswerTruthful == Spec => []AnswerIsTrue
<1>1. CommitInv => AnswerIsTrue
  BY DEF CommitInv
<1>2. QED
  BY <1>1, CommitInvariant, PTL

-----------------------------------------------------------------------------
(***************************************************************************)
(* Leftovers are always found again, and nothing foreign is touched.       *)
(***************************************************************************)

\* ClaimInv is inductive, without any assumption on the plans.
LEMMA ClaimStep ==
    ASSUME ClaimInv, [Next]_vars
    PROVE  ClaimInv'
<1> USE PlanAssumption
    DEF ClaimInv, TypeOK, Busy, Forward, Cleaning, trees, history, disk, OwnClaim,
        PhaseHasJournal, FoldersAreNamed, CleanupProgress, LeftoversAreJournaled
<1>0. TypeOK'
  BY TypeStep
<1>1. CASE Start
  BY <1>0, <1>1 DEF Start
<1>2. CASE Boot
  BY <1>0, <1>2 DEF Boot
<1>3. CASE Crash
  BY <1>0, <1>3 DEF Crash
<1>4. CASE UnrelatedMutation
  BY <1>0, <1>4 DEF UnrelatedMutation, Between
<1>5. CASE MakeStaging
  <2>1. LeftoversAreJournaled'
    BY <1>5 DEF MakeStaging
  <2>2. QED
    BY <1>0, <1>5, <2>1 DEF MakeStaging
<1>6. CASE Materialize
  BY <1>0, <1>6 DEF Materialize
<1>7. CASE AssetsRenamed
  BY <1>0, <1>7 DEF AssetsRenamed
<1>8. CASE FlushRecord
  BY <1>0, <1>8 DEF FlushRecord, SyncStep, Published
<1>9. CASE RecordsPublished
  BY <1>0, <1>9 DEF RecordsPublished, Published
<1>10. CASE WriteCommitted
  BY <1>0, <1>10 DEF WriteCommitted
<1>11. CASE FailBeforePublish
  BY <1>0, <1>11 DEF FailBeforePublish
<1>12. CASE FlushFails
  BY <1>0, <1>12 DEF FlushFails, Between
<1>13. CASE CommitFails
  BY <1>0, <1>13 DEF CommitFails
<1>14. CASE UnpublishRecord
  BY <1>0, <1>14 DEF UnpublishRecord, SyncStep
<1>15. CASE RecordsUnpublished
  BY <1>0, <1>15 DEF RecordsUnpublished
<1>16. CASE UnpublishFails
  BY <1>0, <1>16 DEF UnpublishFails, Between
<1>17. CASE UnlinkRecord
  BY <1>0, <1>17 DEF UnlinkRecord, Named, RollingBack
<1>18. CASE RecordsUnlinked
  BY <1>0, <1>18 DEF RecordsUnlinked, Named, RollingBack
<1>19. CASE AssetsCleaned
  <2>1. CleanupProgress'
    BY <1>19 DEF AssetsCleaned
  <2>2. QED
    BY <1>0, <1>19, <2>1 DEF AssetsCleaned
<1>20. CASE RemoveStaging
  <2>1. CleanupProgress'
    BY <1>20 DEF RemoveStaging
  <2>2. QED
    BY <1>0, <1>20, <2>1 DEF RemoveStaging
<1>21. CASE UnlinkJournal
  <2>1. PhaseHasJournal'
    BY <1>21 DEF UnlinkJournal, CleanupReturns, RollingBack
  <2>2. LeftoversAreJournaled'
    BY <1>21 DEF UnlinkJournal, CleanupReturns, RollingBack
  <2>3. QED
    BY <1>0, <1>21, <2>1, <2>2 DEF UnlinkJournal, CleanupReturns, RollingBack
<1>22. CASE CleanupFails
  BY <1>0, <1>22 DEF CleanupFails, CleanupReturns, RollingBack
<1>23. ASSUME NEW t \in Attempts, RecoverJournal(t)
      PROVE  ClaimInv'
  BY <1>0, <1>23 DEF RecoverJournal
<1>24. ASSUME NEW t \in Attempts, Refuse(t)
      PROVE  ClaimInv'
  BY <1>0, <1>24 DEF Refuse
<1>25. ASSUME NEW t \in Attempts, Begin(t)
      PROVE  ClaimInv'
  BY <1>0, <1>25 DEF Begin, TargetsTaken
<1>26. ASSUME NEW a \in Assets, ForeignFolder(a)
      PROVE  ClaimInv'
  BY <1>0, <1>26 DEF ForeignFolder
<1>27. ASSUME NEW a \in Assets, RenameAsset(a)
      PROVE  ClaimInv'
  <2>1. FoldersAreNamed'
    BY <1>27 DEF RenameAsset
  <2>2. LeftoversAreJournaled'
    BY <1>27 DEF RenameAsset
  <2>3. QED
    BY <1>0, <1>27, <2>1, <2>2 DEF RenameAsset
<1>28. ASSUME NEW a \in Assets, RemoveAsset(a)
      PROVE  ClaimInv'
  BY <1>0, <1>28 DEF RemoveAsset, RollingBack
<1>29. ASSUME NEW a \in Assets, DropClaim(a)
      PROVE  ClaimInv'
  BY <1>0, <1>29 DEF DropClaim, RollingBack
<1>30. ASSUME NEW a \in Assets, RemovalTears(a)
      PROVE  ClaimInv'
  BY <1>0, <1>30 DEF RemovalTears, CleanupReturns, RollingBack
<1>31. CASE UNCHANGED vars
  BY <1>0, <1>31 DEF vars
<1>32. QED
  BY <1>1, <1>2, <1>3, <1>4, <1>5, <1>6, <1>7, <1>8, <1>9, <1>10, <1>11, <1>12,
     <1>13, <1>14, <1>15, <1>16, <1>17, <1>18, <1>19, <1>20, <1>21, <1>22,
     <1>23, <1>24, <1>25, <1>26, <1>27, <1>28, <1>29, <1>30, <1>31
  DEF Next, Commit, Publish, RollBack, Cleanup

\* A staging directory or a claim marker never outlives its journal, so that
\* recover_configuration_imports always finds what a crash left behind.
THEOREM LeftoversFound == Spec => []LeftoversAreJournaled
<1>1. Init => ClaimInv
  BY PlanAssumption
  DEF Init, ClaimInv, TypeOK, Busy, Forward, Cleaning, PhaseHasJournal,
      FoldersAreNamed, CleanupProgress, LeftoversAreJournaled
<1>2. ClaimInv /\ [Next]_vars => ClaimInv'
  BY ClaimStep
<1>3. ClaimInv => LeftoversAreJournaled
  BY DEF ClaimInv
<1>4. QED
  BY <1>1, <1>2, <1>3, PTL DEF Spec

\* No step replaces or removes a folder that an import did not create.
THEOREM ForeignSafe == Spec => ForeignFoldersUntouched
<1> DEFINE Kept == \A a \in Assets : owner[a] = Foreign => owner'[a] = Foreign
<1>1. TypeOK /\ [Next]_vars => [Kept]_vars
  <2> SUFFICES ASSUME TypeOK, Next PROVE Kept
    OBVIOUS
  <2> USE PlanAssumption DEF TypeOK, Busy, Forward, Cleaning, trees, history, disk
  <2>1. ASSUME NEW a \in Assets, ForeignFolder(a) PROVE Kept
    BY <2>1 DEF ForeignFolder
  <2>2. ASSUME NEW a \in Assets, RenameAsset(a) PROVE Kept
    BY <2>2 DEF RenameAsset
  <2>3. ASSUME NEW a \in Assets, RemoveAsset(a) PROVE Kept
    BY <2>3 DEF RemoveAsset, OwnClaim
  <2>4. ASSUME NEW a \in Assets, DropClaim(a) \/ RemovalTears(a) PROVE Kept
    BY <2>4 DEF DropClaim, RemovalTears
  <2>5. CASE UNCHANGED owner
    BY <2>5
  <2>6. QED
    BY <2>1, <2>2, <2>3, <2>4, <2>5
    DEF Next, Commit, Publish, RollBack, Cleanup, Start, Boot, Crash,
        UnrelatedMutation, RecoverJournal, Refuse, Begin, MakeStaging, Materialize,
        AssetsRenamed, FlushRecord, RecordsPublished, WriteCommitted,
        FailBeforePublish, FlushFails, CommitFails, UnpublishRecord,
        RecordsUnpublished, UnpublishFails, UnlinkRecord, RecordsUnlinked,
        AssetsCleaned, RemoveStaging, UnlinkJournal, CleanupFails
<1>2. QED
  BY <1>1, TypeCorrect, PTL DEF Spec, ForeignFoldersUntouched

-----------------------------------------------------------------------------
(***************************************************************************)
(* An import that does not commit leaves nothing.                          *)
(***************************************************************************)

\* RollbackInv is inductive, without any assumption on the plans.
LEMMA RollbackStep ==
    ASSUME RollbackInv, [Next]_vars
    PROVE  RollbackInv'
<1> USE PlanAssumption
    DEF RollbackInv, CommitInv, TypeOK, Busy, Forward, Cleaning,
           trees, history, disk, Up, RollingBack, OwnClaim,
           PhaseHasJournal, PendingIsCurrent, JournalMatchesHistory, UnbegunIsAbsent,
           FoldersAreNamed, ForwardIsWhole, DurableInMemory, JournalsApart, AnswerIsTrue,
           CommittedImportIntact,
           CleanupProgress, UndurableIsClaimed, MemoryIsClean, RollbackProgress,
           RollbackCleansWhatItNames, DriftIsJournaled, Named, Accounted
<1>0. CommitInv'
  BY CommitStep
<1>1. CASE Start
  BY <1>0, <1>1 DEF Start
<1>2. CASE Boot
  <2>1. MemoryIsClean'
    BY <1>2 DEF Boot
  <2>2. DriftIsJournaled'
    BY <1>2 DEF Boot
  <2>3. QED
    BY <1>0, <1>2, <2>1, <2>2 DEF Boot
<1>3. CASE Crash
  BY <1>0, <1>3 DEF Crash
<1>4. CASE UnrelatedMutation
  <2>1. RollbackCleansWhatItNames'
    BY <1>4 DEF UnrelatedMutation, Between
  <2>2. DriftIsJournaled'
    BY <1>4 DEF UnrelatedMutation, Between
  <2>3. QED
    BY <1>0, <1>4, <2>1, <2>2 DEF UnrelatedMutation, Between
<1>5. CASE MakeStaging
  BY <1>0, <1>5 DEF MakeStaging
<1>6. CASE Materialize
  BY <1>0, <1>6 DEF Materialize
<1>7. CASE AssetsRenamed
  BY <1>0, <1>7 DEF AssetsRenamed
<1>8. CASE FlushRecord
  <2>1. RollbackCleansWhatItNames'
    BY <1>8 DEF FlushRecord, SyncStep, Published
  <2>2. DriftIsJournaled'
    BY <1>8 DEF FlushRecord, SyncStep, Published
  <2>3. QED
    BY <1>0, <1>8, <2>1, <2>2 DEF FlushRecord, SyncStep, Published
<1>9. CASE RecordsPublished
  <2>1. MemoryIsClean'
    BY <1>9 DEF RecordsPublished, Published
  <2>2. DriftIsJournaled'
    BY <1>9 DEF RecordsPublished, Published
  <2>3. QED
    BY <1>0, <1>9, <2>1, <2>2 DEF RecordsPublished, Published
<1>10. CASE WriteCommitted
  <2>1. UndurableIsClaimed'
    BY <1>10 DEF WriteCommitted
  <2>2. MemoryIsClean'
    BY <1>10 DEF WriteCommitted
  <2>3. DriftIsJournaled'
    BY <1>10 DEF WriteCommitted
  <2>4. QED
    BY <1>0, <1>10, <2>1, <2>2, <2>3 DEF WriteCommitted
<1>11. CASE FailBeforePublish
  BY <1>0, <1>11 DEF FailBeforePublish
<1>12. CASE FlushFails
  <2>1. RollbackCleansWhatItNames'
    BY <1>12 DEF FlushFails, Between
  <2>2. DriftIsJournaled'
    BY <1>12 DEF FlushFails, Between
  <2>3. QED
    BY <1>0, <1>12, <2>1, <2>2 DEF FlushFails, Between
<1>13. CASE CommitFails
  BY <1>0, <1>13 DEF CommitFails
<1>14. CASE UnpublishRecord
  <2>1. RollbackCleansWhatItNames'
    BY <1>14 DEF UnpublishRecord, SyncStep
  <2>2. DriftIsJournaled'
    BY <1>14 DEF UnpublishRecord, SyncStep
  <2>3. QED
    BY <1>0, <1>14, <2>1, <2>2 DEF UnpublishRecord, SyncStep
<1>15. CASE RecordsUnpublished
  <2>1. MemoryIsClean'
    BY <1>15 DEF RecordsUnpublished
  <2>2. DriftIsJournaled'
    BY <1>15 DEF RecordsUnpublished
  <2>3. QED
    BY <1>0, <1>15, <2>1, <2>2 DEF RecordsUnpublished
<1>16. CASE UnpublishFails
  <2>1. RollbackCleansWhatItNames'
    BY <1>16 DEF UnpublishFails, Between
  <2>2. DriftIsJournaled'
    BY <1>16 DEF UnpublishFails, Between
  <2>3. QED
    BY <1>0, <1>16, <2>1, <2>2 DEF UnpublishFails, Between
<1>17. CASE UnlinkRecord
  <2>1. DriftIsJournaled'
    BY <1>17 DEF UnlinkRecord, Named
  <2>2. QED
    BY <1>0, <1>17, <2>1 DEF UnlinkRecord, Named
<1>18. CASE RecordsUnlinked
  <2>1. RollbackProgress'
    BY <1>18 DEF RecordsUnlinked, Named
  <2>2. QED
    BY <1>0, <1>18, <2>1 DEF RecordsUnlinked, Named
<1>19. CASE AssetsCleaned
  <2>1. CleanupProgress'
    BY <1>19 DEF AssetsCleaned
  <2>2. QED
    BY <1>0, <1>19, <2>1 DEF AssetsCleaned
<1>20. CASE RemoveStaging
  BY <1>0, <1>20 DEF RemoveStaging
<1>21. CASE UnlinkJournal
  <2>1. MemoryIsClean'
    BY <1>21 DEF UnlinkJournal, CleanupReturns
  <2>2. RollbackCleansWhatItNames'
    BY <1>21 DEF UnlinkJournal, CleanupReturns
  <2>3. DriftIsJournaled'
    BY <1>21 DEF UnlinkJournal, CleanupReturns
  <2>4. QED
    BY <1>0, <1>21, <2>1, <2>2, <2>3 DEF UnlinkJournal, CleanupReturns
<1>22. CASE CleanupFails
  BY <1>0, <1>22 DEF CleanupFails, CleanupReturns
<1>23. ASSUME NEW t \in Attempts, RecoverJournal(t)
      PROVE  RollbackInv'
  BY <1>0, <1>23 DEF RecoverJournal
<1>24. ASSUME NEW t \in Attempts, Refuse(t)
      PROVE  RollbackInv'
  BY <1>0, <1>24 DEF Refuse
<1>25. ASSUME NEW t \in Attempts, Begin(t)
      PROVE  RollbackInv'
  <2>1. MemoryIsClean'
    BY <1>25 DEF Begin, TargetsTaken
  <2>2. RollbackCleansWhatItNames'
    BY <1>25 DEF Begin, TargetsTaken
  <2>3. QED
    BY <1>0, <1>25, <2>1, <2>2 DEF Begin, TargetsTaken
<1>26. ASSUME NEW a \in Assets, ForeignFolder(a)
      PROVE  RollbackInv'
  BY <1>0, <1>26 DEF ForeignFolder
<1>27. ASSUME NEW a \in Assets, RenameAsset(a)
      PROVE  RollbackInv'
  <2>1. UndurableIsClaimed'
    BY <1>27 DEF RenameAsset
  <2>2. RollbackCleansWhatItNames'
    BY <1>27 DEF RenameAsset
  <2>3. QED
    BY <1>0, <1>27, <2>1, <2>2 DEF RenameAsset
<1>28. ASSUME NEW a \in Assets, RemoveAsset(a)
      PROVE  RollbackInv'
  <2>1. UndurableIsClaimed'
    BY <1>28 DEF RemoveAsset
  <2>2. QED
    BY <1>0, <1>28, <2>1 DEF RemoveAsset
<1>29. ASSUME NEW a \in Assets, DropClaim(a)
      PROVE  RollbackInv'
  BY <1>0, <1>29 DEF DropClaim
<1>30. ASSUME NEW a \in Assets, RemovalTears(a)
      PROVE  RollbackInv'
  BY <1>0, <1>30 DEF RemovalTears, CleanupReturns
<1>31. CASE UNCHANGED vars
  BY <1>0, <1>31 DEF vars
<1>32. QED
  BY <1>1, <1>2, <1>3, <1>4, <1>5, <1>6, <1>7, <1>8, <1>9, <1>10, <1>11, <1>12,
     <1>13, <1>14, <1>15, <1>16, <1>17, <1>18, <1>19, <1>20, <1>21, <1>22,
     <1>23, <1>24, <1>25, <1>26, <1>27, <1>28, <1>29, <1>30, <1>31
  DEF Next, Commit, Publish, RollBack, Cleanup

\* RollbackInv holds in every reachable state.
LEMMA RollbackInvariant == Spec => []RollbackInv
<1>1. Init => RollbackInv
  BY PlanAssumption
  DEF Init, RollbackInv, CommitInv, TypeOK, Busy, Forward, Cleaning, Up, RollingBack,
      OwnClaim, PhaseHasJournal, PendingIsCurrent, JournalMatchesHistory,
      UnbegunIsAbsent, FoldersAreNamed, ForwardIsWhole, DurableInMemory,
      JournalsApart, AnswerIsTrue, CommittedImportIntact, CleanupProgress, UndurableIsClaimed,
      MemoryIsClean, RollbackProgress, RollbackCleansWhatItNames, DriftIsJournaled,
      Named, Accounted
<1>2. RollbackInv /\ [Next]_vars => RollbackInv'
  BY RollbackStep
<1>3. QED
  BY <1>1, <1>2, PTL DEF Spec

\* cleanup_import_journal is thorough: once its journal is gone, an import that
\* did not commit leaves no record that _configuration_path names, but those of
\* another commit of its preview, and no folder but a torn one, whatever fails or
\* crashes.
THEOREM RollbackThorough == Spec => []RollbackCleansWhatItNames
<1>1. RollbackInv => RollbackCleansWhatItNames
  BY DEF RollbackInv
<1>2. QED
  BY <1>1, RollbackInvariant, PTL

\* update_config and the rollback keep the repository object and its files
\* together: an idle service without a rollback left over serves exactly the
\* records on disk, MCP tools aside.
THEOREM MemoryAgrees == Spec => []MemoryMatchesDisk
<1>1. RollbackInv => MemoryMatchesDisk
  BY DEF RollbackInv, DriftIsJournaled, MemoryMatchesDisk, Up
<1>2. QED
  BY <1>1, RollbackInvariant, PTL

-----------------------------------------------------------------------------
(* Export. *)

\* A closure contains its root and follows the references of its records.
LEMMA ReachedFollows ==
    ASSUME NEW records, IsRecords(records, Sources), NEW root \in Sources
    PROVE  /\ root \in Reached(records, root)
           /\ FollowsRefs(records, Reached(records, root))
<1>1. root \in Reached(records, root)
  BY DEF Reached
<1>2. ASSUME NEW o \in Reached(records, root) \cap DOMAIN records,
             NEW ref \in records[o].refs
      PROVE  ref.to \in Reached(records, root)
  <2>1. ref.to \in Sources
    BY <1>2 DEF IsRecords, Entity
  <2>2. ASSUME NEW S \in SUBSET Sources, root \in S, FollowsRefs(records, S)
        PROVE  ref.to \in S
    BY <1>2, <2>2 DEF Reached, FollowsRefs
  <2>3. QED
    BY <2>1, <2>2 DEF Reached
<1>3. QED
  BY <1>1, <1>2 DEF FollowsRefs

\* A closure is inside every set that has its root and follows references.
LEMMA ReachedLeast ==
    ASSUME NEW records, NEW root, NEW S \in SUBSET Sources,
           root \in S, FollowsRefs(records, S)
    PROVE  Reached(records, root) \subseteq S
  BY DEF Reached

\* The closure of an export lies in the library.
LEMMA ClosureInside ==
    ASSUME NEW library \in Libraries, NEW root \in Sources,
           Exportable(library, root)
    PROVE  Reached(library, root) \subseteq DOMAIN library
<1> DEFINE R == Reached(library, root)
           S == R \cap DOMAIN library
<1>1. IsRecords(library, Sources)
  BY ServiceAssumption
<1>2. root \in R /\ FollowsRefs(library, R) /\ R \subseteq Sources
  BY <1>1, ReachedFollows DEF Reached
<1>3. FollowsRefs(library, S)
  BY <1>2 DEF FollowsRefs, Exportable, RefersWithin
<1>4. root \in S
  BY <1>2 DEF Exportable
<1>5. QED
  BY <1>2, <1>3, <1>4, ReachedLeast

\* What ConfigurationBundleExporter writes is a Bundle that parse_bundle and
\* load_bundle_record_set accept: the closure is complete, nothing lies outside
\* it, and every package is there.
THEOREM ExportLoads ==
    \A library \in Libraries, root \in Sources :
        Exportable(library, root) => Loadable(ExportOf(library, root))
<1> SUFFICES ASSUME NEW library \in Libraries, NEW root \in Sources,
                    Exportable(library, root)
             PROVE  Loadable(ExportOf(library, root))
  OBVIOUS
<1> DEFINE R == Reached(library, root)
           records == [o \in R |-> library[o]]
<1>1. IsRecords(library, Sources)
  BY ServiceAssumption
<1>2. root \in R /\ FollowsRefs(library, R) /\ R \subseteq Sources
  BY <1>1, ReachedFollows DEF Reached
<1>3. R \subseteq DOMAIN library
  BY ClosureInside
<1>4. \A o \in R : RefersWithin(records, o)
  <2> SUFFICES ASSUME NEW o \in R, NEW ref \in records[o].refs
               PROVE  ref.to \in R /\ records[ref.to].kind = ref.as
    BY DEF RefersWithin
  <2>1. ref \in library[o].refs
    OBVIOUS
  <2>2. ref.to \in R
    BY <1>2, <1>3, <2>1 DEF FollowsRefs
  <2>3. QED
    BY <2>1, <2>2 DEF Exportable, RefersWithin
<1>5. Reached(records, root) = R
  <2>1. ASSUME NEW S \in SUBSET Sources, root \in S, FollowsRefs(records, S)
        PROVE  R \subseteq S
    <3>1. FollowsRefs(library, S \cap R)
      <4> SUFFICES ASSUME NEW o \in S \cap R, NEW ref \in library[o].refs
                   PROVE  ref.to \in S \cap R
        BY DEF FollowsRefs
      <4>1. ref \in records[o].refs /\ o \in DOMAIN records
        OBVIOUS
      <4>2. ref.to \in S
        BY <2>1, <4>1 DEF FollowsRefs
      <4>3. ref.to \in R
        BY <1>2, <1>3 DEF FollowsRefs
      <4>4. QED
        BY <4>2, <4>3
    <3>2. root \in S \cap R /\ S \cap R \in SUBSET Sources
      BY <1>2, <2>1
    <3>3. Reached(library, root) \subseteq S \cap R
      BY <3>1, <3>2, ReachedLeast
    <3>4. QED
      BY <3>3
  <2>2. FollowsRefs(records, R)
    BY <1>4 DEF FollowsRefs, RefersWithin
  <2>3. QED
    BY <1>2, <2>1, <2>2 DEF Reached
<1> HIDE DEF R
<1>6. DOMAIN records = R
  OBVIOUS
<1>7. \A o \in R : /\ NoConnection(records[o])
                   /\ FolderIsName(records[o])
  BY DEF Exportable, FieldsValid, R
<1>8. records[root].kind = library[root].kind
  BY <1>2
<1>9. ExportOf(library, root) =
        [root |-> root, kind |-> library[root].kind, records |-> records,
         assets |-> Owners(records), intact |-> TRUE]
  BY DEF ExportOf, R
<1> HIDE DEF records
<1>10. QED
  BY <1>2, <1>4, <1>5, <1>6, <1>7, <1>8, <1>9
  DEF Loadable, RootMatches, CompleteClosure

-----------------------------------------------------------------------------
(* The service runs the commit of BundleImport and nothing else. *)

LEMMA ServiceStep ==
    ASSUME [ServiceNext]_serviceVars
    PROVE  [Next]_vars
<1>1. ASSUME NEW t \in Attempts, NEW b \in Bundles, Preview(t, b)
      PROVE  UNCHANGED vars
  BY <1>1 DEF Preview
<1>2. ASSUME NEW t \in Attempts, NEW b \in Bundles, NEW ids, Import(t, b, ids)
      PROVE  Next
  BY <1>2 DEF Import, Next, Commit
<1>3. ASSUME NEW t \in Attempts, NEW u \in Attempts, TryAgain(t, u)
      PROVE  UNCHANGED vars
  BY <1>3 DEF TryAgain
<1>4. CASE Proceed
  BY <1>4 DEF Proceed, Next, Commit
<1>5. CASE ServiceCrash
  BY <1>5 DEF ServiceCrash, Next
<1>6. ASSUME NEW e \in Locals, CreateLocal(e)
      PROVE  [Next]_vars
  <2>1. CASE HasFolder(e.kind)
    <3>1. Folder(e) \in Assets
      BY <2>1, ServiceAssumption DEF Folder
    <3>2. ForeignFolder(Folder(e))
      BY <1>6, <2>1 DEF CreateLocal
    <3>3. QED
      BY <3>1, <3>2 DEF Next
  <2>2. QED
    BY <1>6, <2>1 DEF CreateLocal
<1>7. ASSUME NEW e \in Locals, DeleteLocal(e)
      PROVE  UNCHANGED vars
  BY <1>7 DEF DeleteLocal
<1>8. CASE UNCHANGED serviceVars
  BY <1>8 DEF serviceVars
<1>9. QED
  BY <1>1, <1>2, <1>3, <1>4, <1>5, <1>6, <1>7, <1>8 DEF ServiceNext, Plan

\* ConfigurationBundleService implements the commit protocol: whatever callers
\* send, and whatever else is created or deleted, no step of the service is
\* outside it, so its theorems hold of the service.
THEOREM ServiceImplementsCommit == ServiceSpec => Spec
<1>1. ServiceInit => Init
  BY DEF ServiceInit
<1>2. [ServiceNext]_serviceVars => [Next]_vars
  BY ServiceStep
<1>3. QED
  BY <1>1, <1>2, PTL DEF ServiceSpec, Spec

-----------------------------------------------------------------------------
(* What an accepted plan makes of a Bundle. *)

\* A plan is accepted only if no component of the Bundle refers to another
\* record: transform_bundle_records puts the payload collected before the
\* rewriting back into a component, so its references keep the source's UUIDs,
\* which the validation of the plan does not find.
THEOREM ComponentReferencesRefused ==
    ASSUME NEW t \in Attempts, NEW b, IsBundle(b), NEW names, NEW paths,
           Validates(Transformed(b, Target[t], names, paths), Target[t])
    PROVE  \A o \in DOMAIN b.records :
              b.records[o].kind \in Components => b.records[o].refs = {}
<1> SUFFICES ASSUME NEW o \in DOMAIN b.records,
                    b.records[o].kind \in Components,
                    NEW ref \in b.records[o].refs
             PROVE  FALSE
  OBVIOUS
<1> DEFINE new == Transformed(b, Target[t], names, paths)
<1>1. b.records[o] \in Entity(Sources) /\ DOMAIN b.records \subseteq Sources
  BY DEF IsBundle, IsRecords
<1>2. ref.to \in Sources
  BY <1>1 DEF Entity
<1>3. DOMAIN new = DOMAIN b.records
  BY DEF Transformed
<1>4. new[o].refs = b.records[o].refs
  BY <1>1 DEF Transformed, Rewritten, Entity
<1>5. PICK p \in DOMAIN b.records : Target[t][p] = ref.to
  BY <1>3, <1>4 DEF Validates
<1>6. ref.to \in Records
  BY <1>1, <1>5, ServiceAssumption
<1>7. QED
  BY <1>2, <1>6, ServiceAssumption

\* Every export is a Bundle.
LEMMA BundlesAreBundles == \A b \in Bundles : IsBundle(b)
<1>1. ASSUME NEW library \in Libraries, NEW root \in Sources,
             Exportable(library, root)
      PROVE  IsBundle(ExportOf(library, root))
  <2>1. IsRecords(library, Sources)
    BY ServiceAssumption
  <2>2. Reached(library, root) \subseteq DOMAIN library
    BY <1>1, ClosureInside
  <2> DEFINE records == [o \in Reached(library, root) |-> library[o]]
  <2>3. IsRecords(records, Sources)
    BY <2>1, <2>2 DEF IsRecords
  <2>4. library[root].kind \in Kinds
    <3>1. root \in DOMAIN library
      BY <1>1 DEF Exportable
    <3>2. library[root] \in Entity(Sources)
      BY <2>1, <3>1 DEF IsRecords
    <3>3. QED
      BY <3>2 DEF Entity
  <2>5. Owners(records) \subseteq Sources
    BY <2>3 DEF Owners, IsRecords
  <2> HIDE DEF records
  <2>6. ExportOf(library, root) =
          [root |-> root, kind |-> library[root].kind, records |-> records,
           assets |-> Owners(records), intact |-> TRUE]
    BY DEF ExportOf, records
  <2>7. QED
    BY <2>3, <2>4, <2>5, <2>6 DEF IsBundle
<1>2. QED
  BY <1>1, ServiceAssumption DEF Bundles

-----------------------------------------------------------------------------
(* Committed imports are faithful copies, and no two names meet. *)

\* The attempt may still become durable, or is.
Committing(t) == t \in durable \/ (pc \in Forward /\ cur = t)

\* What was accepted: a plan for the Bundle of the preview and its UUIDs.
Planned(t) ==
    /\ previewed[t] \in Readable
    /\ Fits(t, previewed[t])
    /\ FoldersFit(t, imported[t])
    /\ Validates(imported[t], Target[t])
    /\ \E names, paths :
          /\ imported[t] = Transformed(previewed[t], Target[t], names, paths)
          /\ PathsSettled(previewed[t], paths)

ServiceTypes ==
    /\ local \subseteq Locals
    /\ previewed \in [Attempts -> Bundles \cup {NoBundle}]
    /\ imported = [t \in Attempts |-> imported[t]]

PreviewsFit ==
    \A t \in Attempts : previewed[t] # NoBundle =>
        previewed[t] \in Readable /\ Fits(t, previewed[t])

PlansAccepted == \A t \in Attempts : Committing(t) => Planned(t)

\* Its records stay in the library once they are there.
Keeping(t) == Committing(t) /\ t \notin retrying

NamesApart ==
    /\ \A x, y \in local : ScopedOf(x) = ScopedOf(y) => x = y
    /\ \A t \in Attempts : Keeping(t) =>
          \A o \in DOMAIN imported[t] :
              /\ \A e \in local : ScopedOf(e) # ScopedOf(imported[t][o])
              /\ \A u \in Attempts : Keeping(u) =>
                    \A p \in DOMAIN imported[u] :
                        ScopedOf(imported[t][o]) = ScopedOf(imported[u][p])
                            => t = u /\ o = p

ServiceInv == ServiceTypes /\ PreviewsFit /\ PlansAccepted /\ NamesApart

\* Target UUIDs that agree on the records of a readable Bundle make the same
\* plan of it, since its references stay inside.
LEMMA SamePlan ==
    ASSUME NEW b \in Readable, NEW ids, NEW other, NEW names, NEW paths,
           \A o \in DOMAIN b.records : ids[o] = other[o]
    PROVE  Transformed(b, ids, names, paths) = Transformed(b, other, names, paths)
<1>1. \A o \in DOMAIN b.records : Rewritten(b.records[o], ids) = Rewritten(b.records[o], other)
  <2> SUFFICES ASSUME NEW o \in DOMAIN b.records
               PROVE  Rewritten(b.records[o], ids) = Rewritten(b.records[o], other)
    OBVIOUS
  <2>1. \A ref \in b.records[o].refs : ids[ref.to] = other[ref.to]
    BY DEF Readable, Loadable, CompleteClosure, RefersWithin
  <2>2. QED
    BY <2>1 DEF Rewritten
<1>2. QED
  BY <1>1 DEF Transformed

\* An import that may become durable, or is, owns the records of its Bundle.
LEMMA DurableHeld ==
    ASSUME NEW t \in Attempts, Planned(t), RecordsOf[t] \subseteq config
    PROVE  Held(t) = DOMAIN imported[t]
<1>1. DOMAIN imported[t] = DOMAIN previewed[t].records
  BY DEF Planned, Transformed
<1>2. \A o \in DOMAIN imported[t] : Target[t][o] \in config
  BY <1>1 DEF Planned, Fits
<1>3. QED
  BY <1>2 DEF Held

\* No step but Begin lets an attempt become one that may be durable.
LEMMA CommittingShrinks ==
    ASSUME TypeOK, Proceed \/ ServiceCrash \/ UNCHANGED vars,
           NEW t \in Attempts, Committing(t)'
    PROVE  Committing(t)
<1> USE DEF Committing, Forward, history, disk
<1>1. CASE Start \/ Boot \/ UnrelatedMutation
  BY <1>1 DEF Start, Boot, UnrelatedMutation
<1>2. ASSUME NEW u \in Attempts, RecoverJournal(u) \/ Refuse(u)
      PROVE  Committing(t)
  BY <1>2 DEF RecoverJournal, Refuse
<1>3. ASSUME NEW a \in Assets, ForeignFolder(a)
      PROVE  Committing(t)
  BY <1>3 DEF ForeignFolder
<1>4. CASE Publish
  BY <1>4 DEF Publish, MakeStaging, Materialize, AssetsRenamed, RenameAsset,
              FlushRecord, RecordsPublished, WriteCommitted
<1>5. CASE RollBack
  BY <1>5 DEF RollBack, FailBeforePublish, FlushFails, CommitFails,
              UnpublishRecord, RecordsUnpublished, UnpublishFails
<1>6. CASE Cleanup
  BY <1>6 DEF Cleanup, UnlinkRecord, RecordsUnlinked, RemoveAsset, DropClaim,
              RemovalTears, AssetsCleaned, RemoveStaging, UnlinkJournal,
              CleanupFails, CleanupReturns, Cleaning
<1>7. CASE Crash
  BY <1>7 DEF Crash
<1>8. CASE UNCHANGED vars
  BY <1>8 DEF vars
<1>9. QED
  BY <1>1, <1>2, <1>3, <1>4, <1>5, <1>6, <1>7, <1>8 DEF Proceed, ServiceCrash

\* Only Begin decides whether an attempt is the retry of a kept journal.
LEMMA RetryingKept ==
    ASSUME Proceed \/ ServiceCrash \/ UNCHANGED vars
    PROVE  retrying' = retrying
<1> USE DEF history, disk
<1>1. CASE Start \/ Boot \/ UnrelatedMutation
  BY <1>1 DEF Start, Boot, UnrelatedMutation
<1>2. ASSUME NEW u \in Attempts, RecoverJournal(u) \/ Refuse(u)
      PROVE  retrying' = retrying
  BY <1>2 DEF RecoverJournal, Refuse
<1>3. ASSUME NEW a \in Assets, ForeignFolder(a)
      PROVE  retrying' = retrying
  BY <1>3 DEF ForeignFolder
<1>4. CASE Publish
  BY <1>4 DEF Publish, MakeStaging, Materialize, AssetsRenamed, RenameAsset,
              FlushRecord, RecordsPublished, WriteCommitted
<1>5. CASE RollBack
  BY <1>5 DEF RollBack, FailBeforePublish, FlushFails, CommitFails,
              UnpublishRecord, RecordsUnpublished, UnpublishFails
<1>6. CASE Cleanup
  BY <1>6 DEF Cleanup, UnlinkRecord, RecordsUnlinked, RemoveAsset, DropClaim,
              RemovalTears, AssetsCleaned, RemoveStaging, UnlinkJournal,
              CleanupFails
<1>7. CASE Crash
  BY <1>7 DEF Crash
<1>8. CASE UNCHANGED vars
  BY <1>8 DEF vars
<1>9. QED
  BY <1>1, <1>2, <1>3, <1>4, <1>5, <1>6, <1>7, <1>8 DEF Proceed, ServiceCrash

\* A step that leaves the contents alone and commits nothing new keeps the
\* invariant; a record that goes away does too.
LEMMA ContentsKept ==
    ASSUME ServiceInv, local' \subseteq local,
           previewed' = previewed, imported' = imported, retrying' = retrying,
           \A t \in Attempts : Committing(t)' => Committing(t)
    PROVE  ServiceInv'
<1> USE DEF ServiceInv
<1>1. ServiceTypes'
  BY DEF ServiceTypes
<1>2. PreviewsFit'
  BY DEF PreviewsFit
<1>3. PlansAccepted'
  BY DEF PlansAccepted, Planned
<1>4. \A t \in Attempts : Keeping(t)' => Keeping(t)
  BY DEF Keeping
<1>5. NamesApart'
  BY <1>4 DEF NamesApart, ScopedOf
<1>6. QED
  BY <1>1, <1>2, <1>3, <1>5

\* Giving an attempt its preview touches no attempt that may be durable: those
\* have theirs.
LEMMA PreviewKeeps ==
    ASSUME ServiceInv, NEW t \in Attempts, NEW b \in Bundles \cup {NoBundle},
           previewed[t] = NoBundle, b # NoBundle => b \in Readable /\ Fits(t, b),
           previewed' = [previewed EXCEPT ![t] = b],
           UNCHANGED <<vars, local, imported>>
    PROVE  ServiceInv'
<1> USE DEF ServiceInv
<1>1. \A u \in Attempts : Committing(u)' = Committing(u)
  BY DEF Committing, vars
<1>2. \A u \in Attempts : u # t => previewed'[u] = previewed[u]
  BY DEF ServiceTypes
<1>3. previewed'[t] = b
  BY DEF ServiceTypes
<1>4. \A u \in Attempts : Committing(u) => u # t
  BY NoBundleAssumption DEF PlansAccepted, Planned, Readable
<1>5. UNCHANGED <<local, imported, config, retrying>>
  BY DEF vars
<1>6. ServiceTypes'
  BY <1>5 DEF ServiceTypes
<1>7. PreviewsFit'
  BY <1>2, <1>3 DEF PreviewsFit
<1>8. PlansAccepted'
  BY <1>1, <1>2, <1>4, <1>5 DEF PlansAccepted, Planned
<1>9. NamesApart'
  BY <1>1, <1>5 DEF NamesApart, Keeping, ScopedOf
<1>10. QED
  BY <1>6, <1>7, <1>8, <1>9

\* A caller who tries again sends the token of a preview with the same UUIDs.
LEMMA RetryKeeps ==
    ASSUME ServiceInv, NEW t \in Attempts, NEW u \in Attempts, TryAgain(t, u)
    PROVE  ServiceInv'
<1>1. /\ previewed[t] = NoBundle /\ previewed' = [previewed EXCEPT ![t] = previewed[u]]
      /\ UNCHANGED <<vars, local, imported>>
      /\ Target[t] = Target[u] /\ RecordsOf[t] = RecordsOf[u]
  BY DEF TryAgain, Unmade
<1>2. previewed[u] \in Bundles \cup {NoBundle}
  BY DEF ServiceInv, ServiceTypes
<1>3. previewed[u] # NoBundle => previewed[u] \in Readable /\ Fits(t, previewed[u])
  BY <1>1 DEF ServiceInv, PreviewsFit, Fits
<1>4. QED
  BY <1>1, <1>2, <1>3, PreviewKeeps

\* The names of an accepted plan are apart from each other, from the library's
\* and from those of every durable import, all of which the library holds.
LEMMA ImportKeeps ==
    ASSUME ServiceInv, CommitInv,
           NEW t \in Attempts, NEW b \in Bundles, NEW ids, Import(t, b, ids)
    PROVE  ServiceInv'
<1> USE DEF ServiceInv
<1>1. PICK paths, names :
         /\ imported' = Publishing(t, Transformed(b, ids, names, paths))
         /\ NamesSettled(b, names)
         /\ PathsSettled(b, paths)
         /\ Validates(Transformed(b, ids, names, paths), ids)
         /\ FoldersFit(t, Transformed(b, ids, names, paths))
  BY DEF Import
<1>2. /\ Begin(t)
      /\ b = previewed[t] /\ b \in Readable
      /\ \A o \in DOMAIN b.records : ids[o] = Target[t][o]
      /\ UNCHANGED <<local, previewed>>
  BY DEF Import, TokenMatches
<1> DEFINE new == Transformed(b, ids, names, paths)
<1>3. /\ imported'[t] = new
      /\ \A u \in durable \cap Attempts : u # t => imported'[u] = imported[u]
      /\ imported' = [u \in Attempts |-> imported'[u]]
  BY <1>1 DEF Publishing
<1>4. /\ t \notin durable
      /\ \A u \in Attempts : u # t => /\ Committing(u)' <=> u \in durable
                                      /\ Keeping(u)' <=> u \in durable \ retrying
      /\ \A u \in durable : Committing(u)
      /\ durable \subseteq Attempts
      /\ config' = config
  BY <1>2 DEF Begin, Committing, Keeping, CommitInv, UnbegunIsAbsent, TypeOK, Forward
<1>5. \A u \in durable \ retrying : Held(u) = DOMAIN imported[u]
  <2>1. \A u \in durable \ retrying : Planned(u) /\ RecordsOf[u] \subseteq config
    BY <1>2, <1>4 DEF PlansAccepted, CommitInv, DurableInMemory, Up, Begin
  <2>2. QED
    BY <1>4, <2>1, DurableHeld
<1>6. IsBundle(b) /\ DOMAIN new = DOMAIN b.records
  BY BundlesAreBundles DEF Transformed
<1>7. new = Transformed(b, Target[t], names, paths)
  BY <1>2, SamePlan
<1>8. Planned(t)'
  <2>1. b # NoBundle
    BY NoBundleAssumption
  <2>2. Fits(t, b)
    BY <1>2, <2>1 DEF PreviewsFit
  <2>3. Validates(new, Target[t])
    BY <1>1, <1>2, <1>6 DEF Validates
  <2>4. previewed'[t] = b /\ imported'[t] = new
    BY <1>2, <1>3
  <2>5. \E n, q : new = Transformed(b, Target[t], n, q) /\ PathsSettled(b, q)
    BY <1>1, <1>7
  <2> HIDE DEF new
  <2>6. FoldersFit(t, new)
    BY <1>1 DEF new
  <2>7. QED
    BY <1>2, <2>2, <2>3, <2>4, <2>5, <2>6 DEF Planned
<1>9. \A o \in DOMAIN new : ScopedOf(new[o]) =
          Scoped(b.records[o].kind, Selected(b, names)[o])
  <2> SUFFICES ASSUME NEW o \in DOMAIN b.records
               PROVE  ScopedOf(new[o]) =
                        Scoped(b.records[o].kind, Selected(b, names)[o])
    BY <1>6
  <2>1. /\ new[o].kind = b.records[o].kind
        /\ new[o].name = Selected(b, names)[o]
    <3>1. b.records[o] \in Entity(Sources)
      BY <1>6 DEF IsBundle, IsRecords
    <3>2. QED
      BY <3>1 DEF Transformed, Entity
  <2> HIDE DEF new
  <2>2. QED
    BY <2>1 DEF ScopedOf
<1> HIDE DEF new
<1>10. ASSUME NEW o \in DOMAIN new
       PROVE  /\ ScopedOf(new[o]) \notin Taken
              /\ \A p \in DOMAIN new : ScopedOf(new[o]) = ScopedOf(new[p]) => o = p
  BY <1>1, <1>6, <1>9 DEF NamesSettled
<1>11. \A o \in DOMAIN new :
          /\ \A e \in local : ScopedOf(e) # ScopedOf(new[o])
          /\ \A u \in durable \ retrying : \A p \in DOMAIN imported[u] :
                ScopedOf(new[o]) # ScopedOf(imported[u][p])
  BY <1>4, <1>5, <1>10 DEF Taken
<1>12. ServiceTypes'
  BY <1>2, <1>3 DEF ServiceTypes
<1>13. PreviewsFit'
  BY <1>2 DEF PreviewsFit
<1>14. PlansAccepted'
  <2> SUFFICES ASSUME NEW u \in Attempts, Committing(u)', u # t
               PROVE  Planned(u)'
    BY <1>8 DEF PlansAccepted
  <2>1. Planned(u)
    BY <1>4 DEF PlansAccepted
  <2>2. imported'[u] = imported[u] /\ previewed'[u] = previewed[u]
    BY <1>2, <1>3, <1>4
  <2>3. QED
    BY <2>1, <2>2 DEF Planned
<1>15. NamesApart'
  <2>1. \A x, y \in local' : ScopedOf(x) = ScopedOf(y) => x = y
    BY <1>2 DEF NamesApart
  <2>2. ASSUME NEW u \in Attempts, Keeping(u)', NEW o \in DOMAIN imported'[u],
               NEW e \in local'
        PROVE  ScopedOf(e) # ScopedOf(imported'[u][o])
    BY <1>2, <1>3, <1>4, <1>11, <2>2 DEF NamesApart, Keeping
  <2>3. ASSUME NEW u \in Attempts, Keeping(u)', NEW o \in DOMAIN imported'[u],
               NEW v \in Attempts, Keeping(v)', NEW p \in DOMAIN imported'[v],
               ScopedOf(imported'[u][o]) = ScopedOf(imported'[v][p])
        PROVE  u = v /\ o = p
    <3>1. CASE u = t /\ v = t
      BY <1>3, <1>10, <2>3, <3>1
    <3>2. CASE u = t /\ v # t
      BY <1>3, <1>4, <1>11, <2>3, <3>2
    <3>3. CASE u # t /\ v = t
      BY <1>3, <1>4, <1>11, <2>3, <3>3
    <3>4. CASE u # t /\ v # t
      <4>1. /\ imported'[u] = imported[u] /\ imported'[v] = imported[v]
            /\ Keeping(u) /\ Keeping(v)
        BY <1>3, <1>4, <2>3, <3>4 DEF Keeping
      <4>2. QED
        BY <2>3, <4>1 DEF NamesApart
    <3>5. QED
      BY <3>1, <3>2, <3>3, <3>4
  <2>4. QED
    BY <2>1, <2>2, <2>3 DEF NamesApart, ScopedOf
<1>16. QED
  BY <1>12, <1>13, <1>14, <1>15

\* A record created here takes a name that no durable import uses.
LEMMA CreateKeeps ==
    ASSUME ServiceInv, CommitInv, NEW e \in Locals, CreateLocal(e)
    PROVE  ServiceInv'
<1> USE DEF ServiceInv
<1>1. /\ pc = "idle" /\ pc' = pc /\ cur' = cur
      /\ UNCHANGED <<durable, retrying, config>>
  BY DEF CreateLocal, ForeignFolder, history, vars
<1>2. /\ previewed' = previewed /\ imported' = imported
      /\ local' = local \cup {e} /\ ScopedOf(e) \notin Taken
  BY DEF CreateLocal
<1>3. \A t \in Attempts : (Committing(t) <=> t \in durable)
                        /\ (Committing(t)' <=> t \in durable)
                        /\ (Keeping(t) <=> t \in durable \ retrying)
                        /\ (Keeping(t)' <=> t \in durable \ retrying)
  BY <1>1 DEF Committing, Keeping, Forward
<1>4. \A t \in Attempts : Keeping(t) =>
          \A o \in DOMAIN imported[t] : ScopedOf(e) # ScopedOf(imported[t][o])
  <2> SUFFICES ASSUME NEW t \in Attempts, Keeping(t),
                      NEW o \in DOMAIN imported[t]
               PROVE  ScopedOf(e) # ScopedOf(imported[t][o])
    OBVIOUS
  <2>1. Planned(t) /\ RecordsOf[t] \subseteq config
    BY <1>1, <1>3 DEF PlansAccepted, CommitInv, DurableInMemory, Up
  <2>2. o \in Held(t)
    BY <2>1, DurableHeld
  <2>3. QED
    BY <1>2, <2>2 DEF Taken
<1>5. \A x \in local : ScopedOf(x) # ScopedOf(e)
  BY <1>2 DEF Taken
<1>6. ServiceTypes'
  BY <1>2 DEF ServiceTypes
<1>7. PreviewsFit'
  BY <1>2 DEF PreviewsFit
<1>8. PlansAccepted'
  BY <1>2, <1>3 DEF PlansAccepted, Planned
<1>9. NamesApart'
  <2>1. \A x, y \in local' : ScopedOf(x) = ScopedOf(y) => x = y
    BY <1>2, <1>5 DEF NamesApart
  <2>2. ASSUME NEW t \in Attempts, Keeping(t)', NEW o \in DOMAIN imported[t]
        PROVE  /\ \A x \in local' : ScopedOf(x) # ScopedOf(imported[t][o])
               /\ \A u \in Attempts : Keeping(u)' =>
                     \A p \in DOMAIN imported[u] :
                         ScopedOf(imported[t][o]) = ScopedOf(imported[u][p])
                             => t = u /\ o = p
    BY <1>2, <1>3, <1>4, <2>2 DEF NamesApart
  <2>3. QED
    BY <1>2, <2>1, <2>2 DEF NamesApart, ScopedOf
<1>10. QED
  BY <1>6, <1>7, <1>8, <1>9

LEMMA ServiceInvStep ==
    ASSUME ServiceInv, CommitInv, [ServiceNext]_serviceVars
    PROVE  ServiceInv'
<1>0. TypeOK
  BY DEF CommitInv
<1>1. ASSUME NEW t \in Attempts, NEW b \in Bundles, Preview(t, b)
      PROVE  ServiceInv'
  BY <1>1, PreviewKeeps DEF Preview, Unmade
<1>2. ASSUME NEW t \in Attempts, NEW b \in Bundles, NEW ids, Import(t, b, ids)
      PROVE  ServiceInv'
  BY <1>2, ImportKeeps
<1>3. CASE Proceed \/ ServiceCrash \/ UNCHANGED serviceVars
  <2>1. Proceed \/ ServiceCrash \/ UNCHANGED vars
    BY <1>3 DEF serviceVars
  <2>2. \A t \in Attempts : Committing(t)' => Committing(t)
    BY <1>0, <2>1, CommittingShrinks
  <2>3. UNCHANGED <<local, previewed, imported>>
    BY <1>3 DEF Proceed, ServiceCrash, serviceVars, contents
  <2>4. retrying' = retrying
    BY <2>1, RetryingKept
  <2>5. QED
    BY <2>2, <2>3, <2>4, ContentsKept
<1>4. ASSUME NEW e \in Locals, CreateLocal(e)
      PROVE  ServiceInv'
  BY <1>4, CreateKeeps
<1>5. ASSUME NEW e \in Locals, DeleteLocal(e)
      PROVE  ServiceInv'
  <2>1. /\ local' \subseteq local /\ UNCHANGED <<vars, previewed, imported>>
        /\ retrying' = retrying
    BY <1>5 DEF DeleteLocal, vars
  <2>2. \A t \in Attempts : Committing(t)' => Committing(t)
    BY <2>1 DEF Committing, vars
  <2>3. QED
    BY <2>1, <2>2, ContentsKept
<1>6. ASSUME NEW t \in Attempts, NEW u \in Attempts, TryAgain(t, u)
      PROVE  ServiceInv'
  BY <1>6, RetryKeeps
<1>7. QED
  BY <1>1, <1>2, <1>3, <1>4, <1>5, <1>6 DEF ServiceNext, Plan

\* The records of a durable import are those of its Bundle, transformed.
LEMMA CopyOfPlan ==
    ASSUME ServiceInv, CommittedImportIntact, NEW t \in durable, t \in Attempts
    PROVE  FaithfulCopy(t)
<1> SUFFICES ASSUME NEW b, b = previewed[t], NEW new, new = imported[t]
             PROVE  FaithfulCopy(t)
  OBVIOUS
<1>1. Planned(t)
  BY DEF ServiceInv, PlansAccepted, Committing
<1>2. PICK names, paths :
          /\ new = Transformed(b, Target[t], names, paths)
          /\ PathsSettled(b, paths)
  BY <1>1 DEF Planned
<1>3. b \in Readable /\ Fits(t, b) /\ FoldersFit(t, new) /\ Validates(new, Target[t])
  BY <1>1 DEF Planned
<1>4. IsBundle(b) /\ b # NoBundle
  BY <1>3, BundlesAreBundles, NoBundleAssumption DEF Readable
<1>5. DOMAIN new = DOMAIN b.records
  BY <1>2 DEF Transformed
<1>6. ASSUME NEW o \in DOMAIN b.records
      PROVE  /\ new[o].kind = b.records[o].kind
             /\ new[o].refs = Rewritten(b.records[o], Target[t])
             /\ o \in paths => new[o].path = "chosen"
             /\ HasFolder(b.records[o].kind) => new[o].folder = new[o].name
             /\ b.records[o].kind \in Graphs => ~new[o].on
  <2> DEFINE e == b.records[o]
             n == Selected(b, names)[o]
  <2>1. e \in Entity(Sources)
    BY <1>4 DEF IsBundle, IsRecords
  <2>2. new[o] = [e EXCEPT !.name = n,
                           !.refs = Rewritten(e, Target[t]),
                           !.path = IF o \in paths THEN "chosen" ELSE e.path,
                           !.folder = IF HasFolder(e.kind) THEN n ELSE e.folder,
                           !.on = e.on /\ e.kind \notin Graphs]
    BY <1>2 DEF Transformed
  <2> HIDE DEF e, n
  <2>3. /\ new[o].kind = e.kind /\ new[o].name = n
        /\ new[o].refs = Rewritten(e, Target[t])
        /\ new[o].path = IF o \in paths THEN "chosen" ELSE e.path
        /\ new[o].folder = IF HasFolder(e.kind) THEN n ELSE e.folder
        /\ new[o].on = (e.on /\ e.kind \notin Graphs)
    BY <2>1, <2>2 DEF Entity
  <2>4. QED
    BY <2>3 DEF e
<1>7. \A o \in DOMAIN b.records :
          b.records[o].kind \in Components => b.records[o].refs = {}
  BY <1>2, <1>3, <1>4, ComponentReferencesRefused
<1>8. ASSUME NEW o \in DOMAIN b.records
      PROVE  new[o].refs = {[as |-> ref.as, to |-> Target[t][ref.to]] :
                                ref \in b.records[o].refs}
  BY <1>6, <1>7 DEF Rewritten
<1>9. ASSUME NEW o \in DOMAIN b.records, NEW ref \in b.records[o].refs
      PROVE  Target[t][ref.to] \in RecordsOf[t]
  BY <1>3, <1>9 DEF Readable, Loadable, CompleteClosure, RefersWithin, Fits
<1>10. ASSUME NEW o \in DOMAIN b.records, b.records[o].path = "absolute"
       PROVE  new[o].path = "chosen"
  <2>1. o \in Bindings(b)
    BY <1>10 DEF Bindings
  <2>2. o \in paths
    BY <1>2, <1>10, <2>1 DEF PathsSettled
  <2>3. QED
    BY <1>6, <2>2
<1>11. ASSUME NEW o \in DOMAIN b.records, HasFolder(new[o].kind)
       PROVE  owner[Folder(new[o])] = t
  <2>1. Folder(new[o]) \in AssetsOf[t]
    BY <1>3, <1>5, <1>11 DEF FoldersFit, Owners
  <2>2. QED
    BY <2>1 DEF CommittedImportIntact
<1>12. ASSUME NEW o \in DOMAIN new
       PROVE  /\ new[o].kind = b.records[o].kind
              /\ new[o].refs = {[as |-> ref.as, to |-> Target[t][ref.to]] :
                                    ref \in b.records[o].refs}
              /\ \A ref \in new[o].refs : ref.to \in RecordsOf[t]
              /\ new[o].kind \in Graphs => ~new[o].on
              /\ b.records[o].path = "absolute" => new[o].path = "chosen"
              /\ HasFolder(new[o].kind) =>
                    new[o].folder = new[o].name /\ owner[Folder(new[o])] = t
  <2>1. o \in DOMAIN b.records
    BY <1>5
  <2>2. \A ref \in new[o].refs : ref.to \in RecordsOf[t]
    BY <1>8, <1>9, <2>1
  <2>3. b.records[o].path = "absolute" => new[o].path = "chosen"
    BY <1>10, <2>1
  <2>4. HasFolder(new[o].kind) =>
            new[o].folder = new[o].name /\ owner[Folder(new[o])] = t
    BY <1>6, <1>11, <2>1
  <2>5. QED
    BY <1>6, <1>8, <2>1, <2>2, <2>3, <2>4
<1>13. QED
  BY <1>4, <1>5, <1>12 DEF FaithfulCopy

\* No two records that last share a name in their scope.
LEMMA LastingApart ==
    ASSUME ServiceInv, durable \subseteq Attempts,
           NEW x \in Lasting, NEW y \in Lasting, ScopedOf(x[2]) = ScopedOf(y[2])
    PROVE  x = y
<1> DEFINE Here(z) == \E e \in local : z = <<"local", e>>
           There(z) == \E t \in durable \ retrying : \E o \in DOMAIN imported[t] :
                          z = <<t, imported[t][o], o>>
<1>1. (Here(x) \/ There(x)) /\ (Here(y) \/ There(y))
  BY DEF Lasting
<1>2. \A t \in durable \ retrying : t \in Attempts /\ Keeping(t)
  BY DEF Committing, Keeping
<1>3. NamesApart
  BY DEF ServiceInv
<1>4. CASE Here(x) /\ Here(y)
  BY <1>3, <1>4 DEF NamesApart
<1>5. ASSUME NEW t \in durable \ retrying, NEW o \in DOMAIN imported[t], NEW e \in local
      PROVE  ScopedOf(e) # ScopedOf(imported[t][o])
  BY <1>2, <1>3, <1>5 DEF NamesApart
<1>6. ~(Here(x) /\ There(y)) /\ ~(There(x) /\ Here(y))
  BY <1>5
<1>7. CASE There(x) /\ There(y)
  <2>1. PICK t, o : /\ t \in durable \ retrying /\ o \in DOMAIN imported[t]
                    /\ x = <<t, imported[t][o], o>>
    BY <1>7
  <2>2. PICK u, p : /\ u \in durable \ retrying /\ p \in DOMAIN imported[u]
                    /\ y = <<u, imported[u][p], p>>
    BY <1>7
  <2>3. ScopedOf(imported[t][o]) = ScopedOf(imported[u][p])
    BY <2>1, <2>2
  <2>4. Keeping(t) /\ Keeping(u) /\ t \in Attempts /\ u \in Attempts
    BY <1>2, <2>1, <2>2
  <2>5. t = u /\ o = p
    BY <1>3, <2>1, <2>2, <2>3, <2>4 DEF NamesApart
  <2>6. QED
    BY <2>1, <2>2, <2>5
<1>8. QED
  BY <1>1, <1>4, <1>6, <1>7

\* Whatever is created, deleted, imported or restarted between a preview and
\* now, a committed import is the copy that was previewed, every reference on
\* its own copies, and its names are nobody else's.
THEOREM CopiesFaithful == ServiceSpec => []ImportsAreCopies
<1>1. ServiceInit => ServiceInv
  <2> SUFFICES ASSUME ServiceInit PROVE ServiceInv
    OBVIOUS
  <2>1. \A t \in Attempts : ~Committing(t)
    BY DEF ServiceInit, Init, Committing, Forward
  <2>2. ServiceTypes /\ PreviewsFit
    BY DEF ServiceInit, ServiceTypes, PreviewsFit
  <2>3. PlansAccepted /\ NamesApart
    BY <2>1 DEF ServiceInit, PlansAccepted, NamesApart
  <2>4. QED
    BY <2>2, <2>3 DEF ServiceInv
<1>2. ServiceInv /\ CommitInv /\ [ServiceNext]_serviceVars => ServiceInv'
  BY ServiceInvStep
<1>3. ServiceInv /\ CommitInv => ImportsAreCopies
  <2> SUFFICES ASSUME ServiceInv, CommitInv PROVE ImportsAreCopies
    OBVIOUS
  <2>1. durable \subseteq Attempts /\ CommittedImportIntact
    BY DEF CommitInv, TypeOK
  <2>2. \A t \in durable : FaithfulCopy(t)
    BY <2>1, CopyOfPlan
  <2>3. QED
    BY <2>1, <2>2, LastingApart DEF ImportsAreCopies
<1>4. Spec => []CommitInv
  BY CommitInvariant
<1>5. QED
  BY <1>1, <1>2, <1>3, <1>4, ServiceImplementsCommit, PTL DEF ServiceSpec
=============================================================================
