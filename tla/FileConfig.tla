------------------------------ MODULE FileConfig ------------------------------
(***************************************************************************)
(* The configuration of an instance as the code keeps it: one copy in      *)
(* memory, one file per record below the active repository, and the        *)
(* package folders of components.  Commands validate against memory, take  *)
(* the mutation lock, stage folders, write the files one by one, remove    *)
(* those of deleted records and only then replace the copy in memory; any  *)
(* write may fail, and the process may stop between two of them            *)
(* (storage/file_config.py, configuration/component_mutations.py,          *)
(* storage/blocks.py, agent_configs.py, workflows.py and their routes).    *)
(***************************************************************************)
EXTENDS ConfigGraph

CONSTANTS
  Repositories,
  Home,          \* the repository each record belongs to
  Commands,      \* the management requests that may be under way at once
  None,
  MaxFailures,   \* bound: writes and renames that fail
  MaxCrashes     \* bound: restarts

ASSUME FileConfigAssumption ==
  /\ Home \in [Entities -> Repositories]
  /\ None \notin Commands
  /\ \A e \in Entities : \A refs \in MayRefer[e] : \A t \in refs :
       Kind[t] \in ReferenceKinds(Kind[e])
  /\ MaxFailures \in Nat /\ MaxCrashes \in Nat

VARIABLES
  active,        \* the active repository: the pointer file and its copy
  memory,        \* FileConfigRepository._config
  disk,          \* the record files of each repository
  folder,        \* the package folder of each component
  job,           \* what each command is doing
  holder,        \* the command inside the mutation lock
  flush,         \* the change being written, and whether it is being undone
  doubtful,      \* a flush failed and is being undone, or has not been undone
  torn,          \* a restart, or an undo that failed, interrupted a command
  failures, crashes

vars == <<active, memory, disk, folder, job, holder, flush, doubtful, torn,
          failures, crashes>>

Folders == {"none", "here", "aside"}
NoJob == [op |-> "none"]
NoFlush == [on |-> FALSE]
Writing(change, undo) == [on |-> TRUE, change |-> change, undo |-> undo]
(* The configuration whose files are being written.                        *)
Target == IF flush.undo THEN memory ELSE flush.change

Jobs ==
  {NoJob}
  \cup [op : {"publish", "draft"}, e : Entities, refs : SUBSET Entities,
        repository : Repositories]
  \cup [op : {"create", "update"}, e : Components, refs : SUBSET Entities,
        repository : Repositories]
  \cup [op : {"metadata"}, e : Entities, enabled : BOOLEAN, repository : Repositories]
  \cup [op : {"delete"}, gone : SUBSET Entities, repository : Repositories]

TypeOK ==
  /\ active \in Repositories
  /\ memory \in Configs
  /\ disk \in [Repositories -> Configs]
  /\ folder \in [Components -> Folders]
  /\ job \in [Commands -> Jobs]
  /\ holder \in Commands \cup {None}
  /\ flush \in {NoFlush} \cup [on : {TRUE}, change : Configs, undo : BOOLEAN]
  /\ doubtful \in {"none", "undoing", "lost"} /\ torn \in BOOLEAN
  /\ failures \in 0 .. MaxFailures
  /\ crashes \in 0 .. MaxCrashes

(* A configuration the management console can have left in a repository:   *)
(* records that belong there, nothing published that dangles.              *)
ChosenReferences == {f \in [Entities -> UNION {MayRefer[e] : e \in Entities}] :
              \A e \in Entities : f[e] \in MayRefer[e]}
Drawn(r) ==
  {[e \in Entities |-> IF e \in d.present THEN Record(d.refs[e], e \in d.on) ELSE Absent] :
     d \in [present : SUBSET {e \in Entities : Home[e] = r},
            on : SUBSET {e \in Graphs : Home[e] = r}, refs : ChosenReferences]}
Saved(r) == {c \in Drawn(r) : Dangling(c) = {}}

Init ==
  /\ active \in Repositories
  /\ disk \in {d \in [Repositories -> UNION {Saved(r) : r \in Repositories}] :
                 \A r \in Repositories : Present(d[r]) \subseteq {e \in Entities : Home[e] = r}}
  /\ memory = disk[active]
  /\ folder = [e \in Components |-> IF disk[Home[e]][e] # Absent THEN "here" ELSE "none"]
  /\ job = [w \in Commands |-> NoJob]
  /\ holder = None
  /\ flush = NoFlush
  /\ doubtful = "none" /\ torn = FALSE
  /\ failures = 0 /\ crashes = 0

Table(e) == IF e \in Components THEN "component" ELSE Kind[e]
InHome(e) == Home[e] = active

-----------------------------------------------------------------------------
(* What a command does before it takes the mutation lock: it notes which   *)
(* repository is active, reads what it needs and validates.  The reads     *)
(* take the store's own lock, so they wait for a flush under way.          *)

Asks(w, j) ==
  /\ job[w] = NoJob /\ holder = None
  /\ job' = [job EXCEPT ![w] = j]
  /\ UNCHANGED <<active, memory, disk, folder, holder, flush, doubtful, torn,
                 failures, crashes>>

(* PUT .../publish of a Main Agent, PUT .../graph of a Workflow or MCP     *)
(* Tool: the record exists and the candidate passes the whole validation.  *)
AskPublish(w, e) ==
  /\ e \in Graphs /\ memory[e] # Absent
  /\ \E refs \in MayRefer[e] :
       /\ Asks(w, [op |-> "publish", e |-> e, refs |-> refs, repository |-> active])
       /\ Whole(memory, refs)

(* Saving an unpublished record: POST and PUT of a Main Agent, a Subagent  *)
(* (validated: what it names exists) or an External Agent, and PUT         *)
(* .../draft of the others.                                                *)
AskDraft(w, e) ==
  /\ e \notin Components /\ InHome(e)
  /\ Kind[e] \in {"workflow", "mcp"} => memory[e] # Absent
  /\ \E refs \in MayRefer[e] :
       /\ Asks(w, [op |-> "draft", e |-> e, refs |-> refs, repository |-> active])
       /\ Kind[e] = "subagent" => Whole(memory, refs)

(* PUT of a Workflow's or MCP Tool's metadata: it keeps the flag it read,  *)
(* and validates the stored graph again when that was set.                 *)
AskMetadata(w, e) ==
  /\ Kind[e] \in {"workflow", "mcp"} /\ InHome(e)
  /\ LET enabled == e \in Published(memory)
     IN  /\ Asks(w, [op |-> "metadata", e |-> e, enabled |-> enabled,
                     repository |-> active])
         /\ enabled => Whole(memory, memory[e].refs)

AskComponent(w, e) ==
  /\ e \in Components /\ InHome(e)
  /\ \E refs \in MayRefer[e] :
       Asks(w, [op |-> IF memory[e] = Absent THEN "create" ELSE "update",
                e |-> e, refs |-> refs, repository |-> active])

AskDelete(w, gone) ==
  /\ Asks(w, [op |-> "delete", gone |-> gone, repository |-> active])
  /\ gone # {} /\ gone \subseteq Present(memory)
  /\ \A a, b \in gone : Table(a) = Table(b)

-----------------------------------------------------------------------------
(* Inside the lock.                                                        *)

SaveRecord(c, e, record) == [c EXCEPT ![e] = record]

(* The mutator each command hands to update_config, applied to a copy of   *)
(* the configuration in memory at that moment.                             *)
Mutated(c, j) ==
  CASE j.op = "publish" ->
         IF Kind[j.e] # "main" /\ c[j.e] = Absent THEN c
         ELSE SaveRecord(c, j.e, Record(j.refs, TRUE))
    [] j.op = "draft" ->
         IF Kind[j.e] \in {"workflow", "mcp"} /\ c[j.e] = Absent THEN c
         ELSE SaveRecord(c, j.e, Record(j.refs, FALSE))
    [] j.op = "metadata" -> SaveRecord(c, j.e, Record(RefsIn(c, j.e), j.enabled))
    [] j.op \in {"create", "update"} -> SaveRecord(c, j.e, Record(j.refs, FALSE))
    [] j.op = "delete" -> Deleted(c, j.gone \cap Present(c))

(* The package folders a component command moves first.                    *)
ToStage(j) ==
  IF j.op = "create" THEN {e \in {j.e} : folder[e] = "none"}
  ELSE IF j.op = "delete" THEN {e \in j.gone \cap Components : folder[e] = "here"}
  ELSE {}

Leave(w) == job' = [job EXCEPT ![w] = NoJob] /\ holder' = None

(* What a component command finds once it holds the lock: its record is    *)
(* gone (or, for a new one, its id is taken), or it is not valid.          *)
NotFound(j) ==
  \/ j.op = "delete" /\ ~(j.gone \cap Components \subseteq Present(memory))
  \/ j.op = "update" /\ (memory[j.e] = Absent \/ ~Whole(memory, j.refs))
  \/ j.op = "create" /\ (memory[j.e] # Absent \/ ~Whole(memory, j.refs))

(* A command whose repository is no longer the active one is refused.      *)
Refused(j) == j.repository # active \/ NotFound(j)

Enter(w) ==
  /\ job[w] # NoJob /\ holder = None
  /\ IF Refused(job[w])
     THEN Leave(w) /\ UNCHANGED flush
     ELSE /\ holder' = w /\ UNCHANGED job
          /\ flush' = IF ToStage(job[w]) = {} THEN Writing(Mutated(memory, job[w]), FALSE)
                      ELSE NoFlush
  /\ UNCHANGED <<active, memory, disk, folder, doubtful, torn, failures, crashes>>

StageFolder(w) ==
  /\ holder = w /\ ~flush.on
  /\ \E e \in ToStage(job[w]) :
       folder' = [folder EXCEPT ![e] = IF job[w].op = "delete" THEN "aside" ELSE "here"]
  /\ UNCHANGED <<active, memory, disk, job, holder, flush, doubtful, torn,
                 failures, crashes>>

StartFlush(w) ==
  /\ holder = w /\ ~flush.on /\ ToStage(job[w]) = {}
  /\ flush' = Writing(Mutated(memory, job[w]), FALSE)
  /\ UNCHANGED <<active, memory, disk, folder, job, holder, doubtful, torn,
                 failures, crashes>>

Unwritten == {e \in Present(Target) : disk[active][e] # Target[e]}
Leftover == {e \in Entities : Target[e] = Absent /\ disk[active][e] # Absent}

NextFileUnlinkFirst(e) ==
  \/ e \in Leftover /\ \A o \in Leftover : UnlinkRank(e) <= UnlinkRank(o)
  \/ Leftover = {} /\ e \in Unwritten /\ \A o \in Unwritten : WriteRank(e) <= WriteRank(o)

(* The next file of a flush: records first, section by section, and the    *)
(* files of deleted records after all of them.                             *)
NextFile(e) ==
  \/ e \in Unwritten /\ \A o \in Unwritten : WriteRank(e) <= WriteRank(o)
  \/ Unwritten = {} /\ e \in Leftover /\ \A o \in Leftover : UnlinkRank(e) <= UnlinkRank(o)

WriteFile ==
  /\ flush.on
  /\ \E e \in Entities :
       /\ NextFile(e)
       /\ disk' = [disk EXCEPT ![active][e] = Target[e]]
  /\ UNCHANGED <<active, memory, folder, job, holder, flush, doubtful, torn,
                 failures, crashes>>

Flushed == flush.on /\ Unwritten = {} /\ Leftover = {}

(* update_config succeeds: the copy in memory is replaced, the folders set *)
(* aside are removed and the lock is given back.                           *)
Commit(w) ==
  /\ holder = w /\ Flushed /\ ~flush.undo
  /\ memory' = flush.change
  /\ folder' = [e \in Components |-> IF folder[e] = "aside" THEN "none" ELSE folder[e]]
  /\ flush' = NoFlush /\ doubtful' = "none"
  /\ Leave(w)
  /\ UNCHANGED <<active, disk, torn, failures, crashes>>

FolderLeftAside(w) == folder

(* _staged_changes rolls the folders back when the command raises.         *)
FolderUndone(w) ==
  [e \in Components |->
     IF folder[e] = "aside" THEN "here"
     ELSE IF job[w].op = "create" /\ job[w].e = e THEN "none"
     ELSE folder[e]]

Fails == failures < MaxFailures /\ failures' = failures + 1

StageFails(w) ==
  /\ holder = w /\ ~flush.on /\ ToStage(job[w]) # {} /\ Fails
  /\ folder' = FolderUndone(w)
  /\ Leave(w)
  /\ UNCHANGED <<active, memory, disk, flush, doubtful, torn, crashes>>

(* A write, of a changed record or of one that stays as it is, or a removal *)
(* fails: the configuration in memory is written back over what was written.*)
FlushFails ==
  /\ flush.on /\ ~flush.undo /\ Fails
  /\ flush' = Writing(flush.change, TRUE)
  /\ doubtful' = IF doubtful = "lost" THEN "lost" ELSE "undoing"
  /\ UNCHANGED <<active, memory, disk, folder, job, holder, torn, crashes>>

WrittenBack(w) ==
  /\ holder = w /\ Flushed /\ flush.undo
  /\ flush' = NoFlush /\ doubtful' = "none"
  /\ folder' = FolderUndone(w)
  /\ Leave(w)
  /\ UNCHANGED <<active, memory, disk, torn, failures, crashes>>

(* The second failure is ignored: memory keeps the old configuration and   *)
(* the files keep a mixture until the next flush.                          *)
UndoFails(w) ==
  /\ holder = w /\ flush.on /\ flush.undo /\ ~Flushed /\ Fails
  /\ flush' = NoFlush /\ doubtful' = "lost" /\ torn' = TRUE
  /\ folder' = FolderUndone(w)
  /\ Leave(w)
  /\ UNCHANGED <<active, memory, disk, crashes>>

(* switch_repository: the target is read and validated, the pointer file   *)
(* written, the copy in memory replaced.                                   *)
Switch(r) ==
  /\ holder = None /\ r # active
  /\ active' = r /\ memory' = disk[r]
  /\ doubtful' = "none"
  /\ UNCHANGED <<disk, folder, job, holder, flush, torn, failures, crashes>>

(* The process stops and starts again: what the files say is what is.      *)
Restart ==
  /\ crashes < MaxCrashes /\ crashes' = crashes + 1
  /\ memory' = disk[active]
  /\ job' = [w \in Commands |-> NoJob]
  /\ holder' = None /\ flush' = NoFlush
  /\ doubtful' = "none" /\ torn' = TRUE
  /\ UNCHANGED <<active, disk, folder, failures>>

Next ==
  \/ \E w \in Commands, e \in Entities :
       AskPublish(w, e) \/ AskDraft(w, e) \/ AskMetadata(w, e) \/ AskComponent(w, e)
  \/ \E w \in Commands, gone \in SUBSET Entities : AskDelete(w, gone)
  \/ \E w \in Commands :
       Enter(w) \/ StageFolder(w) \/ StartFlush(w) \/ Commit(w) \/ StageFails(w)
         \/ WrittenBack(w) \/ UndoFails(w)
  \/ WriteFile \/ FlushFails
  \/ \E r \in Repositories : Switch(r)
  \/ Restart

Spec == Init /\ [][Next]_vars

-----------------------------------------------------------------------------
(* The abstract store this implements.                                     *)
Shown == [r \in Repositories |-> IF r = active THEN memory ELSE disk[r]]
Applying == IF flush.on THEN flush.change ELSE memory
Possible ==
  [r \in Repositories |->
     [e \in Entities |->
        IF r = active
        THEN {memory[e], disk[r][e]} \cup (IF flush.on THEN {flush.change[e]} ELSE {})
        ELSE {disk[r][e]}]]
Store ==
  INSTANCE ConfigStore WITH records <- Shown, pending <- Applying, may <- Possible

(* However the files are written and whatever fails, readers see a change  *)
(* as a whole or not at all, in the repository it was validated for, and a *)
(* restart between two files breaks no published graph that was whole      *)
(* before and after the change (FileConfigRepository.update_config,        *)
(* _flush_config, demote_dependent_publications).                          *)
StoreImplemented == Store!Spec

(* A component has its package folder exactly when it has its record, once *)
(* the command is over: one that fails half-way puts every folder back     *)
(* (ComponentMutationService._staged_changes).                             *)
FoldersFollowRecords ==
  holder = None /\ ~torn =>
    \A e \in Components :
      (folder[e] = "here") <=>
        (IF Home[e] = active THEN memory[e] # Absent ELSE disk[Home[e]][e] # Absent)

(* "Deleting a Component or Subagent a published Main Agent references     *)
(* demotes it to a draft" (docs/agent-pages/main-agents.md): no graph is   *)
(* published without what it needs.                                        *)
PublishedIsWhole == Dangling(memory) = {}
=============================================================================
