---------------------------- MODULE BundleService ----------------------------
(***************************************************************************)
(* What a configuration Bundle holds and what its import makes of it:      *)
(* configuration/bundles/exporting.py, archive.py, records.py,             *)
(* filesystem.py, assets.py, planning.py and service.py, on top of the     *)
(* commit of BundleImport.                                                 *)
(*                                                                         *)
(* An entity is a record: its kind (for a component its type), its name,   *)
(* the records it refers to with the kind each must have, the origin of    *)
(* its host path, the package folder it names, whether it is enabled,      *)
(* whether it carries connection fields, and whether the validation of its *)
(* own fields finds no error.  A preview keeps nothing in the service: the *)
(* token binds what the caller must send again to what was previewed, and  *)
(* dies with the process.                                                  *)
(***************************************************************************)
EXTENDS BundleImport

CONSTANTS
    Sources,      \* UUIDs in the libraries Bundles are exported from
    Names,
    Fold,         \* name_collision_key
    Libraries,    \* what an exporting instance may hold
    Altered,      \* Bundles that no export wrote
    Target,       \* the new UUID a preview picks for each source
    Retries,      \* attempts that send the token of an earlier one again
    Locals,       \* other records that this instance may hold
    MaxPreviews,  \* bound: previews and retries in a behaviour
    NoBundle

Graphs == {"main_agent", "mcp_tool", "workflow"}
Packaged == {"custom-tool", "agent-event-output", "workflow-event-output",
             "command", "custom-middleware"}
HasFolder(kind) == kind \in Packaged \cup {"skill"}
Components == Packaged \cup
    {"skill", "filesystem", "model-requirement", "mcp-requirement", "python-schema"}
Kinds == Graphs \cup Components \cup {"subagent", "external_agent"}
Origins == {"none", "absolute", "relative", "chosen"}

Entity(Ids) ==
    [kind : Kinds, name : Names, refs : SUBSET [as : Kinds, to : Ids],
     path : Origins, folder : Names, on : BOOLEAN, private : BOOLEAN,
     sound : BOOLEAN]
IsRecords(records, Ids) ==
    /\ DOMAIN records \subseteq Ids
    /\ \A o \in DOMAIN records : records[o] \in Entity(Ids)

\* The manifest, the owners of the folders in the archive, and whether paths,
\* digests and canonical forms agree.
IsBundle(b) ==
    /\ b = [root |-> b.root, kind |-> b.kind, records |-> b.records,
            assets |-> b.assets, intact |-> b.intact]
    /\ b.root \in Sources /\ b.kind \in Kinds
    /\ IsRecords(b.records, Sources)
    /\ b.assets \subseteq Sources /\ b.intact \in BOOLEAN

ASSUME ServiceAssumption ==
    /\ Fold \in [Names -> Names]
    /\ \A library \in Libraries : IsRecords(library, Sources)
    /\ \A b \in Altered : IsBundle(b)
    /\ Target \in [Attempts -> [Sources -> Records]]
    /\ \A t \in Attempts : \A o, p \in Sources :
            Target[t][o] = Target[t][p] => o = p
    /\ Sources \cap Records = {}
    /\ Retries \subseteq Attempts
    /\ MaxPreviews \in Nat
    /\ \A e \in Locals : HasFolder(e.kind) => <<e.kind, e.name>> \in Assets

VARIABLES
    local,      \* the other records of this instance's library
    previewed,  \* the Bundle each attempt has a preview of
    live,       \* attempts whose plan token was issued by this process
    imported    \* the records each attempt publishes, by their source

contents == <<local, previewed, live, imported>>
serviceVars == <<vars, contents>>

-----------------------------------------------------------------------------
(* The reference graph of a set of records. *)

\* Every reference of a record leads to a record of the set, of its kind.
RefersWithin(records, o) ==
    \A ref \in records[o].refs :
        ref.to \in DOMAIN records /\ records[ref.to].kind = ref.as

FollowsRefs(records, S) ==
    \A o \in S \cap DOMAIN records : \A ref \in records[o].refs : ref.to \in S

Reached(records, root) ==
    {o \in Sources : \A S \in SUBSET Sources :
                        root \in S /\ FollowsRefs(records, S) => o \in S}

FolderIsName(e) == HasFolder(e.kind) => e.folder = e.name

NoConnection(e) == e.kind = "model-requirement" => ~e.private

\* No error in the record's own fields; its model forbids those of a connection.
FieldsValid(e) == e.sound /\ NoConnection(e)

Owners(records) == {o \in DOMAIN records : HasFolder(records[o].kind)}

-----------------------------------------------------------------------------
(* Export. *)

\* The closure is complete and passes validate_bundle_snapshot.
Exportable(library, root) ==
    /\ root \in DOMAIN library
    /\ \A o \in Reached(library, root) :
          /\ RefersWithin(library, o)
          /\ FieldsValid(library[o])
          /\ FolderIsName(library[o])

ExportOf(library, root) ==
    LET records == [o \in Reached(library, root) |-> library[o]]
    IN  [root |-> root, kind |-> library[root].kind, records |-> records,
         assets |-> Owners(records), intact |-> TRUE]

Bundles ==
    Altered \cup
    {ExportOf(pair[1], pair[2]) :
        pair \in {x \in Libraries \X Sources : Exportable(x[1], x[2])}}

ASSUME NoBundleAssumption == NoBundle \notin Bundles

-----------------------------------------------------------------------------
(* Reading a Bundle: parse_bundle, load_bundle_record_set and              *)
(* validate_asset_ownership.                                               *)

RootMatches(b) ==
    b.root \in DOMAIN b.records /\ b.records[b.root].kind = b.kind

CompleteClosure(b) ==
    /\ \A o \in DOMAIN b.records : RefersWithin(b.records, o)
    /\ Reached(b.records, b.root) = DOMAIN b.records

Loadable(b) ==
    /\ b.intact
    /\ RootMatches(b)
    /\ CompleteClosure(b)
    /\ \A o \in DOMAIN b.records :
          /\ NoConnection(b.records[o])
          /\ FolderIsName(b.records[o])
    /\ b.assets = Owners(b.records)

Readable == {b \in Bundles : Loadable(b)}

-----------------------------------------------------------------------------
(* The plan of an import: plan_identities, apply_filesystem_bindings,      *)
(* transform_bundle_records and the validation of the result.              *)

\* Workflows and MCP Tools compare names as written, the others folded.
Scoped(kind, name) ==
    <<kind, IF kind \in {"workflow", "mcp_tool"} THEN name ELSE Fold[name]>>

ScopedOf(e) == Scoped(e.kind, e.name)

Held(t) == {o \in DOMAIN imported[t] : Target[t][o] \in config}

Taken ==
    {ScopedOf(e) : e \in local} \cup
    UNION {{ScopedOf(imported[t][o]) : o \in Held(t)} : t \in Attempts}

Selected(b, names) ==
    [o \in DOMAIN b.records |->
        IF o \in DOMAIN names THEN names[o] ELSE b.records[o].name]

\* No name is taken, and a name that had to change was given by the caller: a
\* suggestion of the plan's own is an error at the commit.
NamesSettled(b, names) ==
    LET key(o) == Scoped(b.records[o].kind, Selected(b, names)[o])
    IN  \A o \in DOMAIN b.records :
            /\ key(o) \notin Taken
            /\ \A p \in DOMAIN b.records : key(p) = key(o) => p = o

Bindings(b) == {o \in DOMAIN b.records : b.records[o].path # "none"}

\* A path is given for every absolute one; unknown bindings are refused.
PathsSettled(b, paths) ==
    \A o \in Bindings(b) : b.records[o].path = "absolute" => o \in paths

\* rewrite_configuration_references; the payload of a component is then
\* replaced by the one collected before, whose references are the source's.
Rewritten(e, ids) ==
    IF e.kind \in Components THEN e.refs
    ELSE {[as |-> ref.as, to |-> ids[ref.to]] : ref \in e.refs}

Transformed(b, ids, names, paths) ==
    [o \in DOMAIN b.records |->
        LET e == b.records[o]
            name == Selected(b, names)[o]
        IN  [e EXCEPT !.name = name,
                      !.refs = Rewritten(e, ids),
                      !.path = IF o \in paths THEN "chosen" ELSE e.path,
                      !.folder = IF HasFolder(e.kind) THEN name ELSE e.folder,
                      !.on = e.on /\ e.kind \notin Graphs]]

\* The references of the plan are not looked up (a mutant).
ValidatesEach(records, ids) == \A o \in DOMAIN records : FieldsValid(records[o])

\* validate_bundle_snapshot finds no error in the records of the plan alone.
Validates(records, ids) ==
    \A o \in DOMAIN records :
        /\ FieldsValid(records[o])
        /\ \A ref \in records[o].refs :
              \E p \in DOMAIN records :
                  ids[p] = ref.to /\ records[p].kind = ref.as

-----------------------------------------------------------------------------
(* The service. *)

Folder(e) == <<e.kind, e.name>>

\* The instance fixes the records and folders of every attempt: a Bundle with
\* others, or a caller who wants other folders, would be another attempt.
Fits(t, b) ==
    /\ RecordsOf[t] = {Target[t][o] : o \in DOMAIN b.records}
    /\ \A o \in DOMAIN b.records :
          b.records[o].kind = "mcp_tool" <=> Target[t][o] \in McpTools

FoldersFit(t, records) ==
    AssetsOf[t] = {Folder(records[o]) : o \in Owners(records)}

ServiceInit ==
    /\ Init
    /\ local = {}
    /\ previewed = [t \in Attempts |-> NoBundle]
    /\ live = {}
    /\ imported = [t \in Attempts |-> <<>>]

\* The two attempts are about the same new UUIDs.
SameTargets(t, u) == RecordsOf[t] \cap RecordsOf[u] # {}

\* The attempt is still to be made, and the bound allows one more.
Unmade(t) ==
    /\ answer[t] = "none" /\ previewed[t] = NoBundle
    /\ Cardinality({u \in Attempts : previewed[u] # NoBundle}) < MaxPreviews

\* ConfigurationBundleService.preview; it answers with a token even when the
\* plan it shows has errors.  The UUIDs it picks were never picked before.
Preview(t, b) ==
    /\ pc = "idle"
    /\ Unmade(t) /\ t \notin Retries
    /\ b \in Readable
    /\ Fits(t, b)
    /\ ~TargetsTaken(t)
    /\ \A u \in Attempts : previewed[u] # NoBundle => ~SameTargets(t, u)
    /\ previewed' = [previewed EXCEPT ![t] = b]
    /\ live' = live \cup {t}
    /\ UNCHANGED <<vars, local, imported>>

\* A caller whose commit failed sends its token again: another attempt at the
\* same preview, perhaps under other names.
TryAgain(t, u) ==
    /\ pc = "idle"
    /\ Unmade(t) /\ t \in Retries
    /\ u \in live /\ answer[u] = "failed"
    /\ Target[t] = Target[u] /\ RecordsOf[t] = RecordsOf[u]
    /\ previewed' = [previewed EXCEPT ![t] = previewed[u]]
    /\ live' = live \cup {t}
    /\ UNCHANGED <<vars, local, imported>>

\* _plan_token: of this process, for this Bundle and these target UUIDs.
TokenMatches(t, b, ids) ==
    /\ t \in live
    /\ b = previewed[t]
    /\ \A o \in DOMAIN b.records : ids[o] = Target[t][o]

\* What the caller may choose besides: names for some records, host paths.
NameChoices(b) == UNION {[S -> Names] : S \in SUBSET DOMAIN b.records}

\* The records of t are published under their UUIDs, instead of those of an
\* attempt that failed.
Publishing(t, records) ==
    [u \in Attempts |->
        IF u = t THEN records
        ELSE IF SameTargets(t, u) /\ u \notin durable THEN <<>> ELSE imported[u]]

\* ConfigurationBundleService.commit, as far as the prepared journal.  What the
\* caller sends may have nothing to do with the preview; a request that is
\* refused changes nothing and may be made again.
Import(t, b, ids) ==
    /\ TokenMatches(t, b, ids)
    /\ b \in Readable
    /\ Begin(t)
    /\ \E paths \in SUBSET Bindings(b), names \in NameChoices(b) :
          LET records == Transformed(b, ids, names, paths)
          IN  /\ NamesSettled(b, names)
              /\ PathsSettled(b, paths)
              /\ Validates(records, ids)
              /\ FoldersFit(t, records)
              /\ imported' = Publishing(t, records)
    /\ UNCHANGED <<local, previewed, live>>

\* Another record is created; a package-backed one comes with its folder.
CreateLocal(e) ==
    /\ pc = "idle"
    /\ e \in Locals \ local
    /\ ScopedOf(e) \notin Taken
    /\ local' = local \cup {e}
    /\ IF HasFolder(e.kind) THEN ForeignFolder(Folder(e)) ELSE UNCHANGED vars
    /\ UNCHANGED <<previewed, live, imported>>

DeleteLocal(e) ==
    /\ pc = "idle"
    /\ e \in local
    /\ ~HasFolder(e.kind)
    /\ local' = local \ {e}
    /\ UNCHANGED <<vars, previewed, live, imported>>

\* Every other step is one of the commit's or of the process.  A commit that
\* fails before its journal is written is one of an issued token.
Proceed ==
    /\ \/ Start \/ Boot \/ UnrelatedMutation
       \/ \E t \in Attempts : RecoverJournal(t) \/ (t \in live /\ Refuse(t))
       \/ \E a \in Assets : ForeignFolder(a)
       \/ Publish \/ RollBack \/ Cleanup
    /\ UNCHANGED contents

ServiceCrash ==
    /\ Crash
    /\ live' = {}
    /\ UNCHANGED <<local, previewed, imported>>

Plan ==
    \E t \in Attempts :
        \/ \E b \in Bundles : Preview(t, b)
        \/ \E u \in Attempts :
              TryAgain(t, u) \/ \E b \in Bundles : Import(t, b, Target[u])

ServiceNext ==
    \/ Plan \/ Proceed \/ ServiceCrash
    \/ \E e \in Locals : CreateLocal(e) \/ DeleteLocal(e)

ServiceSpec == ServiceInit /\ [][ServiceNext]_serviceVars

-----------------------------------------------------------------------------
(* Properties. *)

\* A committed import is a copy of what was previewed: the same records, every
\* reference led to the import's own copy of what it led to, nothing enabled,
\* no absolute path of the other instance left, and each package where its
\* record looks for it.
FaithfulCopy(t) ==
    LET b == previewed[t]
    IN  /\ b # NoBundle
        /\ DOMAIN imported[t] = DOMAIN b.records
        /\ \A o \in DOMAIN imported[t] :
              LET new == imported[t][o]
                  old == b.records[o]
              IN  /\ new.kind = old.kind
                  /\ new.refs = {[as |-> ref.as, to |-> Target[t][ref.to]] :
                                    ref \in old.refs}
                  /\ \A ref \in new.refs : ref.to \in RecordsOf[t]
                  /\ new.kind \in Graphs => ~new.on
                  /\ old.path = "absolute" => new.path = "chosen"
                  /\ HasFolder(new.kind) =>
                        new.folder = new.name /\ owner[Folder(new)] = t

\* The records of the library that no later step takes away, by their place.
Lasting ==
    {<<"local", e>> : e \in local} \cup
    UNION {{<<t, imported[t][o], o>> : o \in DOMAIN imported[t]} :
              t \in durable \ retrying}

\* Committed imports are faithful copies of what was previewed, whatever was
\* created, deleted, imported or restarted between the preview and now, and no
\* two records of the library share a name in their scope.
ImportsAreCopies ==
    /\ \A t \in durable : FaithfulCopy(t)
    /\ \A x, y \in Lasting : ScopedOf(x[2]) = ScopedOf(y[2]) => x = y

=============================================================================
