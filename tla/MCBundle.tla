------------------------------ MODULE MCBundle ------------------------------
(* Four imports of Bundles that one other instance exported: an MCP Tool    *)
(* with its two Commands, a Command alone, a Filesystem component with an   *)
(* absolute path, a Command with its MCP Requirement.  The Commands may     *)
(* want the same folder; the second may be imported again, as the other     *)
(* Command.                                                                 *)
EXTENDS BundleService, TLC

CONSTANTS t1, t2, t3, t4, t5, r1, r2, r3, r4, r5, r6, r7, p, c, d, m, f, A, B

FiveAttempts == {t1, t2, t3, t4, t5}
SevenRecords == {r1, r2, r3, r4, r5, r6, r7}
CommandA == <<"command", A>>
CommandB == <<"command", B>>
TwoAssets == {CommandA, CommandB}
FourPreviews == t1 :> {r1, r2, r3} @@ t2 :> {r4} @@ t3 :> {r5} @@ t4 :> {r6, r7}
    @@ t5 :> {r4}
ClashingFolders == t1 :> {CommandA, CommandB} @@ t2 :> {CommandB} @@ t3 :> {} @@ t4 :> {CommandB}
    @@ t5 :> {CommandA}

FiveSources == {p, c, d, m, f}
TwoNames == {A, B}
AsWritten == A :> A @@ B :> B

Plain(kind, name, refs) ==
    [kind |-> kind, name |-> name, refs |-> refs, path |-> "none",
     folder |-> name, on |-> kind \in Graphs, private |-> FALSE, sound |-> TRUE]
ToCommand(o) == [as |-> "command", to |-> o]

OneLibrary ==
    p :> Plain("mcp_tool", A, {ToCommand(c), ToCommand(d)})
    @@ c :> Plain("command", A, {})
    @@ d :> Plain("command", B, {})
    @@ f :> [Plain("filesystem", A, {}) EXCEPT !.path = "absolute"]

\* The same instance once its first Command uses an MCP Requirement, and once a
\* Command that is still referenced was deleted.
LaterLibrary ==
    OneLibrary @@ m :> Plain("mcp-requirement", A, {})
BoundLibrary ==
    [LaterLibrary EXCEPT ![d].refs = {[as |-> "mcp-requirement", to |-> m]}]
BrokenLibrary == [o \in {p, c} |-> OneLibrary[o]]
TheLibraries == {OneLibrary, BoundLibrary, BrokenLibrary}

\* A Bundle with a record outside its closure, one that lost a folder, one
\* whose digests do not match, one whose reference has the wrong type.
Good == ExportOf(OneLibrary, p)
AlteredBundles ==
    {[Good EXCEPT !.root = c, !.kind = "command"],
     [Good EXCEPT !.assets = {c}],
     [Good EXCEPT !.intact = FALSE],
     [Good EXCEPT !.records[p].refs = {[as |-> "skill", to |-> c], ToCommand(d)}]}

Fresh(onP, onC, onD, onM, onF) ==
    p :> onP @@ c :> onC @@ d :> onD @@ m :> onM @@ f :> onF
Targets ==
    t1 :> Fresh(r2, r1, r3, r6, r5) @@ t2 :> Fresh(r2, r1, r4, r6, r5)
    @@ t3 :> Fresh(r2, r1, r3, r4, r5) @@ t4 :> Fresh(r2, r1, r6, r7, r5)
    @@ t5 :> Fresh(r2, r1, r4, r6, r5)

LocalRecords == {[kind |-> "mcp_tool", name |-> A], [kind |-> "command", name |-> B]}
=============================================================================
