--------------------------- MODULE AgentFilesystem ---------------------------
(***************************************************************************)
(* The virtual file system of an Agent: what a Filesystem block may say    *)
(* (contracts.py, FilesystemBlock) and what is made of it when a request   *)
(* builds the Agent (runtime/capabilities/deepagents.py).  A path is the   *)
(* sequence of its names.                                                  *)
(***************************************************************************)
EXTENDS Integers, FiniteSets, SequencesExt

CONSTANTS
  Names,         \* names of files and folders
  Reserved,      \* the names the virtual root keeps for itself
  SkillsName,    \* the reserved name below which Skills appear
  Sources,       \* the host paths a block may name
  Leaf,          \* the last name of each of them
  None

ASSUME FilesystemAssumption ==
  /\ SkillsName \in Reserved /\ Reserved \subseteq Names
  /\ Leaf \in [Sources -> Names]
  /\ None \notin Sources

Under(dir, path) == IsStrictPrefix(dir, path)
Overlap(a, b) == IsPrefix(a, b) \/ IsPrefix(b, a)

(* What the host holds at a path: nothing, a file, a link or a folder with *)
(* files and folders below it, perhaps also links.                         *)
Missing == [kind |-> "none"]
HostFile == [kind |-> "file"]
HostLink == [kind |-> "link"]
HostFolder(dirs, files, linked) ==
  [kind |-> "folder", dirs |-> dirs, files |-> files, linked |-> linked]
IsFolder(disk, source) == disk[source].kind = "folder"
PlainFolder(disk, source) == IsFolder(disk, source) /\ ~disk[source].linked

(* The three kinds of source of a block.  A host path is either absolute,  *)
(* and looked at when the block is saved, or relative to the data root.    *)
Access == {"read-write", "read-only", "no-access"}
Binding(at, source, absolute, access) ==
  [at |-> at, source |-> source, absolute |-> absolute, access |-> access]

(* FilesystemBlock.  "skill" is the Skill block it selects, or None.       *)
CompositeBlock(mapped, dirs, files, skill, prompt) ==
  [type |-> "filesystem", mode |-> "composite", mapped |-> mapped, dirs |-> dirs,
   files |-> files, workspace |-> None, skill |-> skill, prompt |-> prompt]
ShellBlock(workspace, prompt) ==
  [type |-> "filesystem", mode |-> "local-shell", mapped |-> <<>>, dirs |-> <<>>,
   files |-> <<>>, workspace |-> workspace, skill |-> None, prompt |-> prompt]

-----------------------------------------------------------------------------
(* The contract.                                                           *)

(* validate_backend_type, FilesystemWorkspace.validate_local_path          *)
BackendFits(block, disk) ==
  IF block.mode = "local-shell"
  THEN /\ block.workspace # None /\ IsFolder(disk, block.workspace)
       /\ block.mapped = <<>> /\ block.dirs = <<>> /\ block.files = <<>>
       /\ block.skill = None
  ELSE block.workspace = None

(* _reserved_virtual_namespace                                             *)
ReservedDirectory(at) == at = <<>> \/ Head(at) \in Reserved
ReservedFile(at) == Head(at) \in Reserved

Directories(block) == ToSet(block.mapped) \cup ToSet(block.dirs)
NothingReserved(block) ==
  /\ \A b \in Directories(block) : ~ReservedDirectory(b.at)
  /\ \A b \in ToSet(block.files) : ~ReservedFile(b.at)

RoutesApart(block) ==
  /\ \A i, j \in DOMAIN block.mapped :
       i < j => ~Overlap(block.mapped[i].at, block.mapped[j].at)
  /\ \A b \in ToSet(block.dirs), m \in ToSet(block.mapped) : ~Overlap(b.at, m.at)
  /\ \A b \in ToSet(block.files), m \in ToSet(block.mapped) : ~Under(m.at, b.at)

LocalFoldersFound(block, disk) ==
  /\ \A b \in ToSet(block.mapped) : b.absolute => IsFolder(disk, b.source)
  /\ \A i, j \in DOMAIN block.mapped :
       block.mapped[i].source = block.mapped[j].source
         /\ block.mapped[i].absolute = block.mapped[j].absolute => i = j

SourcesFound(block, disk) ==
  /\ \A b \in ToSet(block.dirs) : b.absolute => PlainFolder(disk, b.source)
  /\ \A b \in ToSet(block.files) : b.absolute => disk[b.source].kind = "file"
  /\ \A b \in ToSet(block.files) : Last(b.at) = Leaf[b.source]

(* What has been laid out so far: target_origins and directory_origins, or *)
(* the first conflict.                                                     *)
NothingLaid == [ok |-> TRUE, dirs |-> {}, files |-> {}]
Below(at, paths) == {at \o p : p \in paths}

(* A virtual directory, with everything found in its source.  It is itself *)
(* compared with the directories laid before it, not with the files.       *)
LayDirectory(laid, at, tree) ==
  LET dirs == Below(at, tree.dirs)
      files == Below(at, tree.files)
  IN  [ok |-> /\ laid.ok
              /\ at \notin laid.dirs
              /\ dirs \cap (laid.files \cup laid.dirs) = {}
              /\ files \cap (laid.files \cup laid.dirs) = {},
       dirs |-> laid.dirs \cup {at} \cup dirs,
       files |-> laid.files \cup files]

LayFile(laid, at) ==
  [laid EXCEPT !.ok = @ /\ at \notin laid.dirs /\ at \notin laid.files,
               !.files = @ \cup {at}]

Unread == HostFolder({}, {}, FALSE)
Tree(b, disk, all) == IF all \/ b.absolute THEN disk[b.source] ELSE Unread
LaidOut(block, disk, all) ==
  LET withDirs == FoldLeft(LAMBDA laid, b : LayDirectory(laid, b.at, Tree(b, disk, all)),
                           NothingLaid, block.dirs)
  IN  FoldLeft(LAMBDA laid, b : LayFile(laid, b.at), withDirs, block.files)

(* FilesystemBlock.model_validate; absolute sources are read.              *)
FilesystemValid(block, disk) ==
  /\ BackendFits(block, disk)
  /\ block.mode = "composite" =>
       /\ NothingReserved(block)
       /\ RoutesApart(block)
       /\ LocalFoldersFound(block, disk)
       /\ SourcesFound(block, disk)
       /\ LaidOut(block, disk, FALSE).ok

-----------------------------------------------------------------------------
(* The construction, for one request.                                      *)

(* resolve_mapped_directories: the folders are resolved for the first Run  *)
(* of a Lifecycle that uses the block, and found again for the others.     *)
FoldersResolved(block, disk, recorded) ==
  IF block.mode = "local-shell" THEN IsFolder(disk, block.workspace)
  ELSE /\ \A b \in ToSet(block.mapped) : IsFolder(disk, b.source)
       /\ \A i, j \in DOMAIN block.mapped :
            ~recorded /\ block.mapped[i].source = block.mapped[j].source => i = j

(* _seed_virtual_sources: every source is read, the relative ones too.     *)
Seeded(block, disk) == LaidOut(block, disk, TRUE)
SourcesReadable(block, disk) ==
  /\ \A b \in ToSet(block.dirs) : PlainFolder(disk, b.source)
  /\ \A b \in ToSet(block.files) : disk[b.source].kind = "file"
  /\ \A b \in ToSet(block.files) : Last(b.at) = Leaf[b.source]

(* A rule of the file system middleware: operations on the path itself, or *)
(* on what is below a directory, are allowed or denied.                    *)
Rule(operations, at, directory, mode) ==
  [operations |-> operations, at |-> at, directory |-> directory, mode |-> mode]

(* _append_permission                                                      *)
RulesOf(at, directory, access) ==
  CASE access = "read-write" -> <<Rule({"read", "write"}, at, directory, "allow")>>
    [] access = "read-only" -> <<Rule({"read"}, at, directory, "allow"),
                                 Rule({"write"}, at, directory, "deny")>>
    [] access = "no-access" -> <<Rule({"read", "write"}, at, directory, "deny")>>

Granted(bindings, directory) ==
  [i \in DOMAIN bindings |->
     [at |-> bindings[i].at, directory |-> directory, access |-> bindings[i].access]]
Grants(block, skills) ==
  Granted(block.mapped, TRUE) \o Granted(block.dirs, TRUE) \o Granted(block.files, FALSE)
    \o (IF skills THEN <<[at |-> <<SkillsName>>, directory |-> TRUE, access |-> "read-only"]>>
        ELSE <<>>)

AsDeclared(grants) == grants
(* The bindings by the number of names in their path, longest first.       *)
DeepestFirst(grants) ==
  LET longest == IF grants = <<>> THEN 0
                 ELSE CHOOSE n \in {Len(g.at) : g \in ToSet(grants)} :
                        \A g \in ToSet(grants) : Len(g.at) <= n
      OfDepth(n) == SelectSeq(grants, LAMBDA g : Len(g.at) = n)
  IN  FlattenSeq([k \in 1 .. longest |-> OfDepth(longest + 1 - k)])

Permissions(block, skills) ==
  LET sorted == DeepestFirst(Grants(block, skills))
  IN  FlattenSeq([i \in DOMAIN sorted |->
                    RulesOf(sorted[i].at, sorted[i].directory, sorted[i].access)])

(* The library takes the first rule about an operation and a path, and     *)
(* allows what no rule is about.                                           *)
About(rule, operation, path) ==
  /\ operation \in rule.operations
  /\ IF rule.directory THEN Under(rule.at, path) ELSE rule.at = path
Allowed(rules, operation, path) ==
  LET about == {i \in DOMAIN rules : About(rules[i], operation, path)}
  IN  about = {} \/ \E i \in about : (\A j \in about : i <= j) /\ rules[i].mode = "allow"

(* build_deepagents_capabilities refuses blocks that do not fit together,   *)
(* then what the host does not hold as the block says.  "skills" is what   *)
(* it holds for the Skill package of the selected Skill block.             *)
CapabilitiesFit(block, mode, hasTools) ==
  /\ block.mode = mode
  /\ block.skill # None => hasTools /\ mode = "composite"

CapabilitiesFound(block, skills, disk) ==
  /\ skills.kind # "none" => skills.kind = "folder" /\ ~skills.linked
  /\ IF block.mode = "local-shell" THEN IsFolder(disk, block.workspace)
     ELSE /\ \A b \in ToSet(block.mapped) : IsFolder(disk, b.source)
          /\ SourcesReadable(block, disk) /\ Seeded(block, disk).ok
          /\ skills.kind = "folder" =>
               /\ \A b \in ToSet(block.mapped) : ~Overlap(b.at, <<SkillsName>>)
               /\ \A p \in Seeded(block, disk).files : ~Under(<<SkillsName>>, p)

(* The files an Agent starts with, each with the host file it is read from; *)
(* those of a Main Agent and its Subagents are put together.               *)
InitialFiles(block, disk) ==
  (UNION {{[at |-> b.at \o p, from |-> <<b.source, p>>] : p \in disk[b.source].files} :
            b \in ToSet(block.dirs)})
    \cup {[at |-> b.at, from |-> <<b.source, <<>>>>] : b \in ToSet(block.files)}
FilesAgree(files) == \A f, g \in files : f.at = g.at => f.from = g.from

(* The tools the middleware shows the model.                               *)
ShownTools(visible, mode) ==
  IF mode = "local-shell" THEN visible ELSE visible \ {"execute"}

(* "When sources are nested, the permission of the more specific virtual   *)
(* path takes precedence" (docs/wizard-pages/filesystem-config.md).        *)
Covers(grant, path) == IF grant.directory THEN Under(grant.at, path) ELSE grant.at = path
Permits(access, operation) ==
  access = "read-write" \/ (access = "read-only" /\ operation = "read")
DeepestDecides(block, skills, paths) ==
  LET grants == ToSet(Grants(block, skills))
      rules == Permissions(block, skills)
  IN  \A path \in paths, operation \in {"read", "write"} :
        \A g \in {g \in grants : Covers(g, path)} :
          (\A o \in grants : Covers(o, path) => Len(o.at) <= Len(g.at))
            => (Allowed(rules, operation, path) <=> Permits(g.access, operation))
=============================================================================
