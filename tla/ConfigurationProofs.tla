------------------------- MODULE ConfigurationProofs -------------------------
(***************************************************************************)
(* What a saved configuration and a drawn graph never do, for every set of *)
(* records, commands, failures and restarts, and for every document,       *)
(* schema and script.  The files implement the abstract store; package     *)
(* folders follow their records; a run never goes on with a State its      *)
(* schema refuses.                                                         *)
(***************************************************************************)
EXTENDS FileConfig, WorkflowGraph, TLAPS

-----------------------------------------------------------------------------
(* The reference graph.                                                    *)

\* What a record needs lies in every set around its references that no
\* reference leads out of.
LEMMA NeededLeast ==
  ASSUME NEW c, NEW from, NEW s \in SUBSET Entities, from \subseteq s, Closed(c, s)
  PROVE  Needed(c, from) \subseteq s
BY DEF Needed

\* It is such a set itself.
LEMMA NeededClosed ==
  ASSUME NEW c \in Configs, NEW from \in SUBSET Entities
  PROVE  /\ from \subseteq Needed(c, from)
         /\ Needed(c, from) \subseteq Entities
         /\ Closed(c, Needed(c, from))
<1>1. from \subseteq Needed(c, from) /\ Needed(c, from) \subseteq Entities
  BY DEF Needed
<1>2. ASSUME NEW e \in Needed(c, from), NEW t \in RefsIn(c, e)
      PROVE  t \in Needed(c, from)
  <2>1. e \in Entities
    BY <1>1
  <2>2. t \in Entities
    BY <1>2, <2>1 DEF RefsIn, Configs, Records
  <2>3. ASSUME NEW s \in SUBSET Entities, from \subseteq s, Closed(c, s)
        PROVE  t \in s
    BY <1>2, <2>3 DEF Needed, Closed
  <2>4. QED BY <2>2, <2>3 DEF Needed
<1>3. QED BY <1>1, <1>2 DEF Closed

\* Whatever changes, a graph stays whole as long as what it needs is there
\* and refers to what it referred to.
LEMMA StaysWhole ==
  ASSUME NEW c \in Configs, NEW d \in Configs, NEW from \in SUBSET Entities,
         Whole(c, from),
         \A t \in Needed(c, from) : d[t] # Absent /\ d[t].refs = c[t].refs
  PROVE  Whole(d, from)
<1> DEFINE N == Needed(c, from)
<1>1. from \subseteq N /\ N \subseteq Entities /\ Closed(c, N)
  BY NeededClosed
<1>2. N \subseteq Present(c)
  BY DEF Whole
<1>3. \A t \in N : RefsIn(d, t) = RefsIn(c, t)
  BY <1>2 DEF RefsIn, Present
<1>4. Closed(d, N)
  BY <1>1, <1>3 DEF Closed
<1>5. Needed(d, from) \subseteq N
  BY <1>1, <1>4, NeededLeast
<1>6. N \subseteq Present(d)
  BY <1>1 DEF Present
<1>7. QED BY <1>5, <1>6 DEF Whole

\* The reverse walk reaches whoever names something it has reached.
LEMMA AffectedClosed ==
  ASSUME NEW c, NEW gone
  PROVE  /\ gone \subseteq Affected(c, gone)
         /\ \A o \in Present(c) : c[o].refs \cap Affected(c, gone) # {} => o \in Affected(c, gone)
<1> DEFINE references == UNION {{<<o, t>> : t \in c[o].refs} : o \in Present(c)}
           owners == {r[1] : r \in references}
           closed == {s \in SUBSET owners : \A r \in references : r[2] \in gone \cup s => r[1] \in s}
<1>1. Affected(c, gone) = gone \cup {o \in owners : \A s \in closed : o \in s}
  BY DEF Affected
<1>2. ASSUME NEW o \in Present(c), NEW t \in c[o].refs, t \in Affected(c, gone)
      PROVE  o \in Affected(c, gone)
  <2>1. <<o, t>> \in references
    OBVIOUS
  <2>2. <<o, t>>[1] = o /\ <<o, t>>[2] = t
    OBVIOUS
  <2> HIDE DEF references
  <2>3. o \in owners
    BY <2>1, <2>2
  <2>4. ASSUME NEW s \in closed PROVE o \in s
    <3>1. t \in gone \cup s
      BY <1>1, <1>2
    <3>2. QED BY <2>1, <2>2, <3>1
  <2>5. QED BY <1>1, <2>3, <2>4
<1>3. QED BY <1>1, <1>2

\* A graph that deletions do not affect needs nothing they remove.
LEMMA UnaffectedNeeds ==
  ASSUME NEW c \in Configs, NEW gone \in SUBSET Entities, NEW e \in Present(c),
         e \notin Affected(c, gone)
  PROVE  Needed(c, c[e].refs) \cap gone = {}
<1> DEFINE s == Entities \ Affected(c, gone)
<1>1. c[e].refs \subseteq s
  BY AffectedClosed DEF Present, Configs, Records
<1>2. ASSUME NEW o \in s, NEW t \in RefsIn(c, o) PROVE t \in s
  <2>1. o \in Present(c) /\ t \in c[o].refs
    BY <1>2 DEF RefsIn, Present
  <2>2. t \in Entities
    BY <2>1 DEF Present, Configs, Records
  <2>3. QED BY <2>1, <2>2, AffectedClosed
<1>3. Closed(c, s)
  BY <1>2 DEF Closed
<1>4. Needed(c, c[e].refs) \subseteq s
  BY <1>1, <1>3, NeededLeast
<1>5. QED BY <1>4, AffectedClosed

\* Records refer to nothing but what their kind may name; in particular to
\* no graph.
RefersWell(c) == \A e \in Present(c) : c[e].refs \in MayRefer[e] \cup {{}}

LEMMA NothingNamesGraphs ==
  ASSUME NEW c \in Configs, RefersWell(c), NEW from \in SUBSET Entities, from \cap Graphs = {}
  PROVE  Needed(c, from) \cap Graphs = {}
<1> DEFINE s == Entities \ Graphs
<1>1. ASSUME NEW e \in s, NEW t \in RefsIn(c, e) PROVE t \in s
  <2>1. e \in Present(c) /\ t \in c[e].refs
    BY <1>1 DEF RefsIn, Present
  <2>2. c[e].refs \in MayRefer[e] /\ t \in Entities
    BY <2>1 DEF RefersWell, Present, Configs, Records
  <2>3. Kind[t] \in ReferenceKinds(Kind[e]) /\ Kind[e] \in Kinds
    BY <2>1, <2>2, FileConfigAssumption, GraphAssumption DEF Present
  <2>4. t \notin Graphs
    BY <2>3 DEF ReferenceKinds, Kinds, Graphs
  <2>5. QED BY <2>2, <2>4
<1>2. Closed(c, s)
  BY <1>1 DEF Closed
<1>3. Needed(c, from) \subseteq s
  BY <1>2, NeededLeast
<1>4. QED BY <1>3

\* What a published graph names is no graph either.
LEMMA GraphNeedsNoGraph ==
  ASSUME NEW c \in Configs, RefersWell(c), NEW g \in Present(c)
  PROVE  /\ c[g].refs \in SUBSET Entities
         /\ c[g].refs \cap Graphs = {}
         /\ Needed(c, c[g].refs) \cap Graphs = {}
<1>1. c[g].refs \in SUBSET Entities /\ g \in Entities
  BY DEF Present, Configs, Records
<1>2. ASSUME NEW t \in c[g].refs PROVE t \notin Graphs
  <2>1. c[g].refs \in MayRefer[g]
    BY <1>2 DEF RefersWell
  <2>2. Kind[t] \in ReferenceKinds(Kind[g]) /\ Kind[g] \in Kinds
    BY <1>1, <1>2, <2>1, FileConfigAssumption, GraphAssumption
  <2>3. QED BY <2>2 DEF ReferenceKinds, Kinds, Graphs
<1>3. c[g].refs \cap Graphs = {}
  BY <1>2
<1>4. QED BY <1>1, <1>3, NothingNamesGraphs

\* A graph that names nothing written after it needs nothing of its own rank.
LEMMA NeedsLowerRanks ==
  ASSUME NEW c \in Configs, RefersWell(c), NEW g \in Present(c) \cap Graphs, g \notin Early
  PROVE  \A t \in Needed(c, c[g].refs) : WriteRank(t) < WriteRank(g)
<1> DEFINE s == {t \in Entities \ Graphs : WriteRank(t) < WriteRank(g)}
<1>1. g \in Entities /\ c[g].refs \in SUBSET Entities /\ c[g].refs \cap Graphs = {}
  BY GraphNeedsNoGraph DEF Present
<1>2. c[g].refs \subseteq s
  <2>1. SUFFICES ASSUME NEW t \in c[g].refs PROVE WriteRank(t) < WriteRank(g)
    BY <1>1
  <2>2. c[g].refs \in MayRefer[g]
    BY <2>1 DEF RefersWell
  <2>3. ~ (WriteRank(t) > WriteRank(g))
    BY <2>1, <2>2 DEF Early
  <2>4. t \in Entities /\ Kind[t] \in Kinds /\ Kind[g] \in Kinds /\ t \notin Graphs
    BY <1>1, <2>1, GraphAssumption
  <2>5. QED BY <2>3, <2>4 DEF WriteRank, Kinds, Graphs
<1>3. ASSUME NEW e \in s, NEW t \in RefsIn(c, e) PROVE t \in s
  <2>1. e \in Present(c) /\ t \in c[e].refs
    BY <1>3 DEF RefsIn, Present
  <2>2. c[e].refs \in MayRefer[e] /\ t \in Entities
    BY <2>1 DEF RefersWell, Present, Configs, Records
  <2>3. Kind[t] \in ReferenceKinds(Kind[e]) /\ Kind[e] \in Kinds /\ Kind[g] \in Kinds
    BY <1>1, <2>1, <2>2, FileConfigAssumption, GraphAssumption DEF Present
  <2>4. Kind[e] \notin {"main", "mcp", "workflow"}
    BY <2>1 DEF Graphs
  <2>5. CASE Kind[e] = "external"
    BY <2>3, <2>5 DEF ReferenceKinds
  <2>6. CASE Kind[e] \in {"component", "subagent"}
    <3>1. Kind[t] = "component"
      BY <2>3, <2>6 DEF ReferenceKinds
    <3>2. WriteRank(t) = 1 /\ WriteRank(g) > 1 /\ t \notin Graphs
      BY <1>1, <2>3, <3>1 DEF WriteRank, Kinds, Graphs
    <3>3. QED BY <2>2, <3>2
  <2>7. QED BY <2>3, <2>4, <2>5, <2>6 DEF Kinds
<1>4. Closed(c, s)
  BY <1>3 DEF Closed
<1>5. Needed(c, c[g].refs) \subseteq s
  BY <1>2, <1>4, NeededLeast
<1>6. QED BY <1>5

\* What a deletion leaves: what is not deleted keeps its references, ...
LEMMA DeletedConfig ==
  ASSUME NEW c \in Configs, NEW gone \in SUBSET Entities
  PROVE  /\ Deleted(c, gone) \in Configs
         /\ \A e \in gone : Deleted(c, gone)[e] = Absent
         /\ \A e \in Entities \ gone : Deleted(c, gone)[e] = Absent <=> c[e] = Absent
         /\ \A e \in Present(c) \ gone : Deleted(c, gone)[e].refs = c[e].refs
         /\ \A e \in Published(Deleted(c, gone)) :
              e \notin gone /\ e \notin Affected(c, gone) /\ Deleted(c, gone)[e] = c[e]
         /\ \A e \in Entities :
              \/ Deleted(c, gone)[e] \in {c[e], Absent}
              \/ e \in Published(c) /\ Deleted(c, gone)[e] = [c[e] EXCEPT !.enabled = FALSE]
<1> DEFINE A == Affected(c, gone)
           new == Deleted(c, gone)
<1>1. new = [o \in Entities |-> IF o \in gone THEN Absent
                                ELSE IF o \in Published(c) \cap A THEN [c[o] EXCEPT !.enabled = FALSE]
                                ELSE c[o]]
  BY DEF Deleted
<1>2. \A o \in Published(c) : c[o] \in Records
  BY DEF Published, Present, Configs
<1>3. \A o \in Published(c) :
        [c[o] EXCEPT !.enabled = FALSE] \in Records
          /\ [c[o] EXCEPT !.enabled = FALSE].enabled = FALSE
          /\ [c[o] EXCEPT !.enabled = FALSE].refs = c[o].refs
  BY <1>2 DEF Records
<1>4. Absent \notin Records
  BY GraphAssumption DEF Records
<1> HIDE DEF A, new
<1>5. new \in Configs
  BY <1>1, <1>3 DEF Configs
<1>6. \A e \in gone : new[e] = Absent
  BY <1>1
<1>7. \A e \in Entities \ gone : e \in Published(c) \cap A => new[e] = [c[e] EXCEPT !.enabled = FALSE]
  BY <1>1
<1>8. \A e \in Entities \ gone : e \notin Published(c) \cap A => new[e] = c[e]
  BY <1>1
<1>9. \A e \in Entities \ gone : new[e] = Absent <=> c[e] = Absent
  BY <1>2, <1>3, <1>4, <1>7, <1>8
<1>10. \A e \in Present(c) \ gone : new[e].refs = c[e].refs
  BY <1>3, <1>7, <1>8 DEF Present
<1>11. \A e \in Published(new) : e \notin gone /\ e \notin A /\ new[e] = c[e]
  <2>1. SUFFICES ASSUME NEW e \in Published(new) PROVE e \notin gone /\ e \notin A /\ new[e] = c[e]
    OBVIOUS
  <2>2. e \in Entities /\ new[e] # Absent /\ new[e].enabled /\ e \in Graphs
    BY <2>1 DEF Published, Present
  <2>3. e \notin gone
    BY <1>6, <2>2
  <2>4. e \notin Published(c) \cap A
    BY <1>3, <1>7, <2>2, <2>3
  <2>5. new[e] = c[e]
    BY <1>8, <2>2, <2>3, <2>4
  <2>6. e \in Published(c)
    BY <2>2, <2>5 DEF Published, Present
  <2>7. QED BY <2>3, <2>4, <2>5, <2>6
<1>12. \A e \in Entities :
         \/ new[e] \in {c[e], Absent}
         \/ e \in Published(c) /\ new[e] = [c[e] EXCEPT !.enabled = FALSE]
  BY <1>6, <1>7, <1>8
<1>13. QED BY <1>5, <1>6, <1>9, <1>10, <1>11, <1>12 DEF A, new

\* ... and what is still published is not affected and what it was.
LEMMA StillPublished ==
  ASSUME NEW c \in Configs, NEW gone \in SUBSET Entities, NEW e \in Published(Deleted(c, gone))
  PROVE  /\ e \notin gone /\ e \notin Affected(c, gone)
         /\ Deleted(c, gone)[e] = c[e] /\ e \in Published(c)
<1>1. e \notin gone /\ e \notin Affected(c, gone) /\ Deleted(c, gone)[e] = c[e]
  BY DeletedConfig
<1>2. QED BY <1>1 DEF Published, Present

\* The published graphs that dangle after a deletion dangled before it.
LEMMA DeletionSafe ==
  ASSUME NEW c \in Configs, NEW gone \in SUBSET Entities
  PROVE  Dangling(Deleted(c, gone)) \subseteq Dangling(c)
<1> DEFINE new == Deleted(c, gone)
<1>0. \A g \in Dangling(new) : g \in Published(new) /\ g \in Published(c)
  BY StillPublished DEF Dangling
<1> SUFFICES ASSUME NEW g \in Dangling(new), Whole(c, c[g].refs) PROVE FALSE
  BY <1>0 DEF Dangling
<1>1. g \in Published(new) /\ ~ Whole(new, new[g].refs)
  BY DEF Dangling
<1>2. g \notin Affected(c, gone) /\ new[g] = c[g] /\ g \in Present(c)
  BY <1>1, StillPublished DEF Published
<1>3. Needed(c, c[g].refs) \cap gone = {}
  BY <1>2, UnaffectedNeeds
<1>4. c[g].refs \in SUBSET Entities
  BY <1>2 DEF Present, Configs, Records
<1>5. Needed(c, c[g].refs) \subseteq Present(c) \ gone
  BY <1>3 DEF Whole
<1>6. \A t \in Present(c) \ gone : new[t] # Absent /\ new[t].refs = c[t].refs
  BY DeletedConfig DEF Present
<1>7. Whole(new, c[g].refs)
  BY <1>4, <1>5, <1>6, StaysWhole, DeletedConfig
<1>8. QED BY <1>1, <1>2, <1>7

-----------------------------------------------------------------------------
(* A mixture of a configuration and what a deletion makes of it.           *)

OneTable(gone) == \A a, b \in gone : Table(a) = Table(b)

\* A graph is again as it was, and so is everything written before it.
Restored(c, d, g) ==
  /\ d[g] = c[g]
  /\ \A o \in Present(c) : WriteRank(o) < WriteRank(g) => d[o] = c[o]

Mixture(c, new, d) == \A e \in Entities : d[e] \in {c[e], new[e]}
NoneRemoved(c, d, gone) == \A e \in gone : d[e] = c[e]
AllDemoted(new, d, gone) == \A e \in Entities \ gone : d[e] = new[e]
DemotedOrRestored(c, new, d, gone) ==
  \A e \in Entities \ gone : d[e] = new[e] \/ Restored(c, d, e)

\* Whatever has been written of a deletion, or of its undoing, the published
\* graphs that dangle did so before; only those written before what they name
\* may suffer while it is undone.
LEMMA MixtureSafe ==
  ASSUME NEW c \in Configs, RefersWell(c), NEW d \in Configs,
         NEW gone \in SUBSET Entities, OneTable(gone),
         Mixture(c, Deleted(c, gone), d),
         NEW g \in Dangling(d), g \notin Dangling(c),
         \/ NoneRemoved(c, d, gone)
         \/ DemotedOrRestored(c, Deleted(c, gone), d, gone)
  PROVE  /\ g \in Early
         /\ ~ NoneRemoved(c, d, gone)
         /\ ~ AllDemoted(Deleted(c, gone), d, gone)
<1> DEFINE new == Deleted(c, gone)
           N == Needed(c, c[g].refs)
<1>1. g \in Published(d) /\ ~ Whole(d, d[g].refs) /\ g \in Entities /\ g \in Graphs
  BY DEF Dangling, Published, Present
<1>2. g \in Published(new) => g \notin gone /\ g \notin Affected(c, gone) /\ new[g] = c[g]
  BY StillPublished
<1>3. \A t \in Entities :
        t \notin gone /\ c[t] # Absent => new[t] # Absent /\ new[t].refs = c[t].refs
  BY DeletedConfig DEF Present
<1>4. Mixture(c, new, d) /\ (NoneRemoved(c, d, gone) \/ DemotedOrRestored(c, new, d, gone))
  OBVIOUS
<1> HIDE DEF new
<1>5. d[g] = c[g]
  <2>1. CASE d[g] = c[g]
    BY <2>1
  <2>2. CASE d[g] = new[g]
    <3>1. g \in Published(new)
      BY <1>1, <2>2 DEF Published, Present
    <3>2. QED BY <1>2, <2>2, <3>1
  <2>3. QED BY <1>1, <1>4, <2>1, <2>2 DEF Mixture
<1>6. g \in Published(c) /\ Whole(c, c[g].refs)
  BY <1>1, <1>5 DEF Dangling, Published, Present
<1>7. N \subseteq Present(c) /\ g \in Present(c) /\ c[g].refs \in SUBSET Entities /\ N \cap Graphs = {}
  BY <1>6, GraphNeedsNoGraph DEF Whole, Published
<1> HIDE DEF N
\* Something it needs is not what it was, and that can only be missing.
<1>8. PICK t \in N : ~ (d[t] # Absent /\ d[t].refs = c[t].refs)
  <2>1. ~ Whole(d, c[g].refs)
    BY <1>1, <1>5
  <2>2. QED BY <1>6, <1>7, <2>1, StaysWhole DEF N
<1>9. t \in Entities /\ c[t] # Absent /\ t \notin Graphs
  BY <1>7, <1>8 DEF Present
<1>10. d[t] # c[t] /\ d[t] = new[t]
  BY <1>4, <1>8, <1>9 DEF Mixture
<1>11. t \in gone
  BY <1>3, <1>8, <1>9, <1>10
<1>12. ~ NoneRemoved(c, d, gone)
  BY <1>10, <1>11 DEF NoneRemoved
<1>13. g \notin gone
  <2>1. g \in gone => Table(g) = Table(t)
    BY <1>11 DEF OneTable
  <2>2. g \notin Components /\ Kind[g] # Kind[t]
    BY <1>1, <1>9 DEF Graphs, Components
  <2>3. t \in Components => Table(t) = "component"
    BY DEF Table
  <2>4. Kind[g] # "component" /\ Table(g) = Kind[g] /\ (t \notin Components => Table(t) = Kind[t])
    BY <1>1, <2>2 DEF Table, Components
  <2>5. QED BY <2>1, <2>2, <2>3, <2>4
<1>14. d[g] # new[g]
  <2>1. SUFFICES ASSUME d[g] = new[g] PROVE FALSE
    OBVIOUS
  <2>2. g \in Published(new)
    BY <1>1, <2>1 DEF Published, Present
  <2>3. N \cap gone = {}
    BY <1>2, <1>7, <2>2, UnaffectedNeeds DEF N
  <2>4. QED BY <1>8, <1>11, <2>3
<1>15. ~ AllDemoted(new, d, gone)
  BY <1>1, <1>13, <1>14 DEF AllDemoted
<1>16. g \in Early
  <2>1. SUFFICES ASSUME g \notin Early PROVE FALSE
    OBVIOUS
  <2>2. Restored(c, d, g)
    BY <1>1, <1>4, <1>12, <1>13, <1>14 DEF DemotedOrRestored
  <2>3. WriteRank(t) < WriteRank(g)
    BY <1>1, <1>7, <1>8, <2>1, NeedsLowerRanks DEF N
  <2>4. QED BY <1>9, <1>10, <2>2, <2>3 DEF Restored, Present
<1>17. QED BY <1>12, <1>15, <1>16 DEF new

-----------------------------------------------------------------------------
(* The invariant.                                                          *)

Legal(c, r) ==
  c \in Configs /\ RefersWell(c) /\ \A e \in Present(c) : Home[e] = r

JobFits(j) ==
  /\ j.op \in {"publish", "draft", "create", "update", "metadata", "delete"}
  /\ j.op # "delete" => j.e \in Entities /\ Home[j.e] = j.repository
  /\ j.op \in {"publish", "metadata"} => j.e \in Graphs
  /\ j.op = "draft" => j.e \notin Components
  /\ j.op \in {"create", "update"} => j.e \in Components
  /\ j.op \in {"publish", "draft", "create", "update"} => j.refs \in MayRefer[j.e]
  /\ j.op = "metadata" => j.enabled \in BOOLEAN
  /\ j.op = "delete" => j.gone \in SUBSET Entities /\ OneTable(j.gone)

\* Every configuration is one the console may have saved, every command one
\* a route may have started.
RecordsLegal ==
  /\ Legal(memory, active)
  /\ \A r \in Repositories : Legal(disk[r], r)
  /\ flush.on => Legal(flush.change, active)
JobsFit == \A w \in Commands : job[w] # NoJob => JobFits(job[w])

\* The command inside the lock: nothing it has looked at changes under it.
HolderWorks ==
  /\ holder = None => ~flush.on
  /\ holder # None =>
       job[holder] # NoJob /\ job[holder].repository = active /\ ~NotFound(job[holder])
  /\ flush.on =>
       flush.change = Mutated(memory, job[holder]) /\ ToStage(job[holder]) = {}

\* What the files of the active repository are, as long as every change that
\* was given up has been undone.
WhatIsGone == job[holder].gone \cap Present(memory)
DeletionMixed ==
  \/ NoneRemoved(memory, disk[active], WhatIsGone)
  \/ doubtful = "none" /\ AllDemoted(flush.change, disk[active], WhatIsGone)
  \/ doubtful = "undoing"
       /\ DemotedOrRestored(memory, flush.change, disk[active], WhatIsGone)
FilesKnown ==
  /\ ~flush.on /\ doubtful = "none" => disk[active] = memory
  /\ flush.on /\ doubtful # "lost" =>
       /\ Mixture(memory, flush.change, disk[active])
       /\ job[holder].op = "delete" => DeletionMixed
DoubtMeans ==
  /\ doubtful = "undoing" => flush.on /\ flush.undo
  /\ doubtful = "none" /\ flush.on => ~flush.undo
  /\ doubtful = "lost" => torn

\* The folder of a component, in the middle of a command and between two.
Creating(e) == holder # None /\ job[holder].op = "create" /\ job[holder].e = e
Removing(e) == holder # None /\ job[holder].op = "delete" /\ e \in job[holder].gone
Recorded(e) ==
  IF Home[e] = active THEN memory[e] # Absent ELSE disk[Home[e]][e] # Absent
FolderFits(e) ==
  /\ Creating(e) => folder[e] \in {"none", "here"}
  /\ Removing(e) => folder[e] \in {"here", "aside"}
  /\ ~Creating(e) /\ ~Removing(e) => folder[e] = IF Recorded(e) THEN "here" ELSE "none"
FoldersFit == ~torn => \A e \in Components : FolderFits(e)

IInv ==
  /\ TypeOK /\ RecordsLegal /\ JobsFit /\ HolderWorks
  /\ FilesKnown /\ DoubtMeans /\ FoldersFit

\* What the console may have left in a repository is legal.
LEMMA InitIInv == Init => IInv
<1> SUFFICES ASSUME Init PROVE IInv
  OBVIOUS
<1>1. /\ active \in Repositories /\ memory = disk[active]
      /\ folder = [e \in Components |-> IF disk[Home[e]][e] # Absent THEN "here" ELSE "none"]
      /\ job = [w \in Commands |-> NoJob] /\ holder = None /\ flush = NoFlush
      /\ doubtful = "none" /\ torn = FALSE /\ failures = 0 /\ crashes = 0
  BY DEF Init
<1>2. /\ disk \in [Repositories -> UNION {Saved(r) : r \in Repositories}]
      /\ \A r \in Repositories : Present(disk[r]) \subseteq {e \in Entities : Home[e] = r}
  BY DEF Init
<1>3. ASSUME NEW q \in Repositories, NEW c \in Saved(q)
      PROVE  c \in Configs /\ RefersWell(c)
  <2>0. c \in Drawn(q)
    BY <1>3 DEF Saved
  <2>1. PICK d \in [present : SUBSET {e \in Entities : Home[e] = q},
                    on : SUBSET {e \in Graphs : Home[e] = q}, refs : ChosenReferences] :
          c = [e \in Entities |->
                 IF e \in d.present THEN Record(d.refs[e], e \in d.on) ELSE Absent]
    BY <2>0 DEF Drawn
  <2> DEFINE refs == d.refs  on == d.on  present == d.present
  <2>2. \A e \in Entities : refs[e] \in MayRefer[e]
    BY DEF ChosenReferences
  <2>3. \A e \in Entities : refs[e] \in SUBSET Entities
    BY <2>2, GraphAssumption
  <2>4. \A e \in Entities : Record(refs[e], e \in on) \in Records /\ Record(refs[e], e \in on).refs = refs[e]
    BY <2>3 DEF Record, Records
  <2>5. c \in Configs
    BY <2>1, <2>4 DEF Configs
  <2>6. RefersWell(c)
    BY <2>1, <2>2, <2>4 DEF RefersWell, Present
  <2>7. QED BY <2>5, <2>6
<1>4. \A r \in Repositories : Legal(disk[r], r)
  <2>1. \A r \in Repositories : \E q \in Repositories : disk[r] \in Saved(q)
    BY <1>2
  <2>2. QED BY <1>2, <1>3, <2>1 DEF Legal, Present
<1>5. RecordsLegal
  BY <1>1, <1>4 DEF RecordsLegal, NoFlush
<1>6. disk \in [Repositories -> Configs]
  BY <1>2, <1>4 DEF Legal
<1>7. TypeOK
  <2>1. memory \in Configs
    BY <1>1, <1>6
  <2>2. folder \in [Components -> Folders]
    BY <1>1 DEF Folders
  <2>3. job \in [Commands -> Jobs]
    BY <1>1 DEF Jobs
  <2>4. flush \in {NoFlush} \cup [on : {TRUE}, change : Configs, undo : BOOLEAN]
    BY <1>1
  <2>5. 0 \in 0 .. MaxFailures /\ 0 \in 0 .. MaxCrashes
    BY FileConfigAssumption
  <2>6. QED BY <1>1, <1>6, <2>1, <2>2, <2>3, <2>4, <2>5 DEF TypeOK
<1>8. JobsFit /\ HolderWorks
  BY <1>1 DEF JobsFit, HolderWorks, NoFlush
<1>9. FilesKnown /\ DoubtMeans
  BY <1>1 DEF FilesKnown, DoubtMeans, NoFlush
<1>10. FoldersFit
  BY <1>1 DEF FoldersFit, FolderFits, Creating, Removing, Recorded
<1>11. QED BY <1>5, <1>7, <1>8, <1>9, <1>10 DEF IInv

\* A command that is only prepared changes nothing.
LEMMA AsksKeeps ==
  ASSUME IInv, NEW w \in Commands, NEW j \in Jobs, JobFits(j), Asks(w, j)
  PROVE  IInv'
<1>1. /\ job' = [job EXCEPT ![w] = j] /\ holder = None /\ holder' = holder
      /\ UNCHANGED <<active, memory, disk, folder, flush, doubtful, torn, failures, crashes>>
  BY DEF Asks
<1>2. job \in [Commands -> Jobs] /\ TypeOK
  BY DEF IInv, TypeOK
<1>3. TypeOK'
  BY <1>1, <1>2 DEF TypeOK
<1>4. RecordsLegal'
  BY <1>1 DEF IInv, RecordsLegal
<1>5. JobsFit'
  BY <1>1, <1>2 DEF IInv, JobsFit
<1>6. ~flush.on
  BY <1>1 DEF IInv, HolderWorks
<1>7. HolderWorks'
  BY <1>1, <1>6 DEF HolderWorks
<1>8. FilesKnown' /\ DoubtMeans'
  BY <1>1, <1>6 DEF IInv, FilesKnown, DoubtMeans
<1>9. FoldersFit'
  BY <1>1 DEF IInv, FoldersFit, FolderFits, Creating, Removing, Recorded
<1>10. QED BY <1>3, <1>4, <1>5, <1>7, <1>8, <1>9 DEF IInv

\* Every route prepares a command that fits.
LEMMA AskFits ==
  ASSUME IInv, NEW w \in Commands, NEW e \in Entities,
         AskPublish(w, e) \/ AskDraft(w, e) \/ AskMetadata(w, e) \/ AskComponent(w, e)
  PROVE  \E j \in Jobs : JobFits(j) /\ Asks(w, j)
<1>1. active \in Repositories /\ Legal(memory, active)
  BY DEF IInv, TypeOK, RecordsLegal
<1>2. \A refs \in MayRefer[e] : refs \in SUBSET Entities
  BY GraphAssumption
<1>3. CASE AskPublish(w, e)
  <2>1. PICK refs \in MayRefer[e] :
          Asks(w, [op |-> "publish", e |-> e, refs |-> refs, repository |-> active])
    BY <1>3 DEF AskPublish
  <2> DEFINE j == [op |-> "publish", e |-> e, refs |-> refs, repository |-> active]
  <2>2. e \in Graphs /\ Home[e] = active
    BY <1>1, <1>3 DEF AskPublish, Legal, Present
  <2>3. j \in Jobs /\ JobFits(j)
    BY <1>1, <1>2, <2>2 DEF Jobs, JobFits
  <2>4. QED BY <2>1, <2>3
<1>4. CASE AskDraft(w, e)
  <2>1. PICK refs \in MayRefer[e] :
          Asks(w, [op |-> "draft", e |-> e, refs |-> refs, repository |-> active])
    BY <1>4 DEF AskDraft
  <2> DEFINE j == [op |-> "draft", e |-> e, refs |-> refs, repository |-> active]
  <2>2. e \notin Components /\ Home[e] = active
    BY <1>4 DEF AskDraft, InHome
  <2>3. j \in Jobs /\ JobFits(j)
    BY <1>1, <1>2, <2>2 DEF Jobs, JobFits
  <2>4. QED BY <2>1, <2>3
<1>5. CASE AskMetadata(w, e)
  <2> DEFINE j == [op |-> "metadata", e |-> e, enabled |-> (e \in Published(memory)),
                   repository |-> active]
  <2>1. Asks(w, j) /\ e \in Graphs /\ Home[e] = active
    BY <1>5 DEF AskMetadata, InHome, Graphs
  <2>2. j \in Jobs /\ JobFits(j)
    BY <1>1, <2>1 DEF Jobs, JobFits
  <2>3. QED BY <2>1, <2>2
<1>6. CASE AskComponent(w, e)
  <2>1. PICK refs \in MayRefer[e], op \in {"create", "update"} :
          Asks(w, [op |-> op, e |-> e, refs |-> refs, repository |-> active])
    BY <1>6 DEF AskComponent
  <2> DEFINE j == [op |-> op, e |-> e, refs |-> refs, repository |-> active]
  <2>2. e \in Components /\ Home[e] = active
    BY <1>6 DEF AskComponent, InHome
  <2>3. j \in Jobs /\ JobFits(j)
    BY <1>1, <1>2, <2>2 DEF Jobs, JobFits
  <2>4. QED BY <2>1, <2>3
<1>7. QED BY <1>3, <1>4, <1>5, <1>6

LEMMA AskDeleteFits ==
  ASSUME IInv, NEW w \in Commands, NEW gone \in SUBSET Entities, AskDelete(w, gone)
  PROVE  \E j \in Jobs : JobFits(j) /\ Asks(w, j)
<1> DEFINE j == [op |-> "delete", gone |-> gone, repository |-> active]
<1>1. Asks(w, j) /\ OneTable(gone) /\ active \in Repositories
  BY DEF AskDelete, OneTable, IInv, TypeOK
<1>2. j \in Jobs /\ JobFits(j)
  BY <1>1 DEF Jobs, JobFits
<1>3. QED BY <1>1, <1>2

\* Saving a record that may be saved leaves a legal configuration.
LEMMA SaveLegal ==
  ASSUME NEW r, NEW c, Legal(c, r), NEW e \in Entities, Home[e] = r,
         NEW refs \in MayRefer[e] \cup {{}}, NEW enabled \in BOOLEAN
  PROVE  /\ Record(refs, enabled) \in Records
         /\ Legal(SaveRecord(c, e, Record(refs, enabled)), r)
<1> DEFINE new == SaveRecord(c, e, Record(refs, enabled))
<1>1. refs \in SUBSET Entities
  BY GraphAssumption
<1>2. Record(refs, enabled) \in Records /\ Record(refs, enabled).refs = refs
  BY <1>1 DEF Record, Records
<1>3. c \in Configs /\ new = [c EXCEPT ![e] = Record(refs, enabled)]
  BY DEF Legal, SaveRecord
<1>4. new \in Configs
  BY <1>2, <1>3 DEF Configs
<1>5. \A o \in Entities : new[o] = IF o = e THEN Record(refs, enabled) ELSE c[o]
  BY <1>3 DEF Configs
<1>6. RefersWell(new)
  BY <1>2, <1>5 DEF Legal, RefersWell, Present
<1>7. \A o \in Present(new) : Home[o] = r
  BY <1>5 DEF Legal, Present
<1>8. QED BY <1>2, <1>4, <1>6, <1>7 DEF Legal

\* So does a deletion.
LEMMA DeleteLegal ==
  ASSUME NEW r, NEW c, Legal(c, r), NEW gone \in SUBSET Entities
  PROVE  Legal(Deleted(c, gone), r)
<1>1. c \in Configs
  BY DEF Legal
<1>2. \A e \in Present(Deleted(c, gone)) :
        e \in Present(c) \ gone /\ Deleted(c, gone)[e].refs = c[e].refs
  BY <1>1, DeletedConfig DEF Present
<1>3. RefersWell(Deleted(c, gone)) /\ \A e \in Present(Deleted(c, gone)) : Home[e] = r
  BY <1>2 DEF Legal, RefersWell
<1>4. QED BY <1>1, <1>3, DeletedConfig DEF Legal

\* A command other than a deletion saves one record or nothing; what it saves
\* may be saved.
LEMMA MutatedSaves ==
  ASSUME NEW c, NEW j, JobFits(j), j.op # "delete", Legal(c, j.repository)
  PROVE  \E record \in Records :
           /\ Mutated(c, j) = c \/ Mutated(c, j) = SaveRecord(c, j.e, record)
           /\ Legal(Mutated(c, j), j.repository)
           /\ j.op \in {"create", "update"} => Mutated(c, j) = SaveRecord(c, j.e, record)
<1>1. j.e \in Entities /\ Home[j.e] = j.repository
  BY DEF JobFits
<1>2. CASE j.op = "publish"
  <2>1. j.refs \in MayRefer[j.e]
    BY <1>2 DEF JobFits
  <2> DEFINE record == Record(j.refs, TRUE)
  <2>2. record \in Records /\ Legal(SaveRecord(c, j.e, record), j.repository)
    BY <1>1, <2>1, SaveLegal
  <2>3. Mutated(c, j) = c \/ Mutated(c, j) = SaveRecord(c, j.e, record)
    BY <1>2 DEF Mutated
  <2> HIDE DEF record
  <2>4. QED BY <1>2, <2>2, <2>3
<1>3. CASE j.op \in {"draft", "create", "update"}
  <2>1. j.refs \in MayRefer[j.e]
    BY <1>3 DEF JobFits
  <2> DEFINE record == Record(j.refs, FALSE)
  <2>2. record \in Records /\ Legal(SaveRecord(c, j.e, record), j.repository)
    BY <1>1, <2>1, SaveLegal
  <2>3. /\ Mutated(c, j) = c \/ Mutated(c, j) = SaveRecord(c, j.e, record)
        /\ j.op \in {"create", "update"} => Mutated(c, j) = SaveRecord(c, j.e, record)
    BY <1>3 DEF Mutated
  <2> HIDE DEF record
  <2>4. QED BY <2>2, <2>3
<1>4. CASE j.op = "metadata"
  <2>1. RefsIn(c, j.e) \in MayRefer[j.e] \cup {{}} /\ j.enabled \in BOOLEAN
    BY <1>1, <1>4 DEF JobFits, RefsIn, Legal, RefersWell, Present
  <2> DEFINE record == Record(RefsIn(c, j.e), j.enabled)
  <2>2. record \in Records /\ Legal(SaveRecord(c, j.e, record), j.repository)
    BY <1>1, <2>1, SaveLegal
  <2>3. Mutated(c, j) = SaveRecord(c, j.e, record)
    BY <1>4 DEF Mutated
  <2> HIDE DEF record
  <2>4. QED BY <1>4, <2>2, <2>3
<1>5. QED BY <1>2, <1>3, <1>4 DEF JobFits

LEMMA MutatedDeletes ==
  ASSUME NEW c, NEW j, j.op = "delete"
  PROVE  Mutated(c, j) = Deleted(c, j.gone \cap Present(c))
BY DEF Mutated

LEMMA MutatedLegal ==
  ASSUME NEW c, NEW j, JobFits(j), Legal(c, j.repository)
  PROVE  Legal(Mutated(c, j), j.repository)
<1>1. CASE j.op = "delete"
  <2>1. j.gone \cap Present(c) \in SUBSET Entities
    BY DEF Present
  <2>2. QED BY <1>1, <2>1, MutatedDeletes, DeleteLegal
<1>2. CASE j.op # "delete"
  BY <1>2, MutatedSaves
<1>3. QED BY <1>1, <1>2

\* Which components have a record afterwards.
LEMMA MutatedComponents ==
  ASSUME NEW c, NEW j, JobFits(j), Legal(c, j.repository), NEW e \in Components,
         j.op = "update" => c[j.e] # Absent
  PROVE  /\ j.op = "create" /\ j.e = e => Mutated(c, j)[e] # Absent
         /\ j.op = "delete" /\ e \in j.gone => Mutated(c, j)[e] = Absent
         /\ ~ (j.op = "create" /\ j.e = e) /\ ~ (j.op = "delete" /\ e \in j.gone) =>
              (Mutated(c, j)[e] = Absent <=> c[e] = Absent)
<1>1. c \in Configs /\ e \in Entities
  BY DEF Legal, Components
<1>2. CASE j.op = "delete"
  <2> DEFINE gone == j.gone \cap Present(c)
  <2>1. gone \in SUBSET Entities /\ Mutated(c, j) = Deleted(c, gone)
    BY <1>2, MutatedDeletes DEF Present
  <2>2. e \in gone => Mutated(c, j)[e] = Absent
    BY <1>1, <2>1, DeletedConfig
  <2>3. e \notin gone => (Mutated(c, j)[e] = Absent <=> c[e] = Absent)
    BY <1>1, <2>1, DeletedConfig
  <2>4. e \in j.gone /\ e \notin gone => c[e] = Absent
    BY <1>1 DEF Present
  <2> HIDE DEF gone
  <2>5. e \in gone => e \in j.gone
    BY DEF gone
  <2>6. QED BY <1>2, <2>2, <2>3, <2>4, <2>5
<1>3. CASE j.op # "delete"
  <2>1. PICK record \in Records :
          /\ Mutated(c, j) = c \/ Mutated(c, j) = SaveRecord(c, j.e, record)
          /\ j.op \in {"create", "update"} => Mutated(c, j) = SaveRecord(c, j.e, record)
    BY <1>3, MutatedSaves
  <2>2. record # Absent
    BY GraphAssumption DEF Records
  <2>3. SaveRecord(c, j.e, record)[e] = IF e = j.e THEN record ELSE c[e]
    BY <1>1 DEF SaveRecord, Configs
  <2>4. j.op \in {"create", "update"} \/ j.e # e
    <3>1. SUFFICES ASSUME j.op \notin {"create", "update"} PROVE j.e \notin Components
      BY <3>1
    <3>2. CASE j.op = "draft"
      BY <3>2 DEF JobFits
    <3>3. CASE j.op \in {"publish", "metadata"}
      BY <3>3 DEF JobFits, Graphs, Components
    <3>4. QED BY <1>3, <3>1, <3>2, <3>3 DEF JobFits
  <2>5. QED BY <1>3, <2>1, <2>2, <2>3, <2>4
<1>4. QED BY <1>2, <1>3

-----------------------------------------------------------------------------
(* The steps.                                                              *)

\* While a command is inside the lock, its component is recorded exactly if
\* it is not one that is being created.
LEMMA HeldRecords ==
  ASSUME IInv, holder # None, NEW e \in Components
  PROVE  /\ JobFits(job[holder]) /\ job[holder].repository = active /\ holder \in Commands
         /\ Creating(e) => ~Recorded(e)
         /\ Removing(e) => Recorded(e)
         /\ ~ (Creating(e) /\ Removing(e))
<1>1. /\ holder \in Commands /\ JobFits(job[holder])
      /\ job[holder].repository = active /\ ~NotFound(job[holder])
  BY DEF IInv, TypeOK, JobsFit, HolderWorks
<1>2. Creating(e) => ~Recorded(e)
  BY <1>1 DEF Creating, Recorded, NotFound, JobFits
<1>3. Removing(e) => Recorded(e)
  <2>1. SUFFICES ASSUME Removing(e) PROVE Recorded(e)
    OBVIOUS
  <2>2. e \in Present(memory)
    BY <1>1, <2>1 DEF Removing, NotFound
  <2>3. Home[e] = active
    BY <2>2 DEF IInv, RecordsLegal, Legal
  <2>4. QED BY <2>2, <2>3 DEF Recorded, Present
<1>4. QED BY <1>1, <1>2, <1>3 DEF Creating, Removing

\* A command that takes the lock.
LEMMA EnterKeeps ==
  ASSUME IInv, NEW w \in Commands, Enter(w)
  PROVE  IInv'
<1>1. /\ job[w] # NoJob /\ holder = None
      /\ UNCHANGED <<active, memory, disk, folder, doubtful, torn, failures, crashes>>
  BY DEF Enter
<1>2. ~flush.on /\ TypeOK /\ job \in [Commands -> Jobs]
  BY <1>1 DEF IInv, HolderWorks, TypeOK
<1>3. CASE Refused(job[w])
  <2>1. job' = [job EXCEPT ![w] = NoJob] /\ holder' = None /\ flush' = flush
    BY <1>3 DEF Enter, Leave
  <2>2. TypeOK'
    BY <1>1, <1>2, <2>1 DEF TypeOK, Jobs
  <2>3. RecordsLegal'
    BY <1>1, <2>1 DEF IInv, RecordsLegal
  <2>4. JobsFit'
    BY <1>2, <2>1 DEF IInv, JobsFit
  <2>5. HolderWorks'
    BY <1>2, <2>1 DEF HolderWorks
  <2>6. FilesKnown' /\ DoubtMeans'
    BY <1>1, <1>2, <2>1 DEF IInv, FilesKnown, DoubtMeans
  <2>7. FoldersFit'
    BY <1>1, <2>1 DEF IInv, FoldersFit, FolderFits, Creating, Removing, Recorded
  <2>8. QED BY <2>2, <2>3, <2>4, <2>5, <2>6, <2>7 DEF IInv
<1>4. CASE ~Refused(job[w])
  <2> DEFINE j == job[w]
  <2>1. /\ holder' = w /\ job' = job
        /\ flush' = IF ToStage(j) = {} THEN Writing(Mutated(memory, j), FALSE) ELSE NoFlush
    BY <1>4 DEF Enter
  <2>2. JobFits(j) /\ j.repository = active /\ ~NotFound(j)
    BY <1>1, <1>4 DEF IInv, JobsFit, Refused
  <2>3. Legal(Mutated(memory, j), active)
    BY <2>2, MutatedLegal DEF IInv, RecordsLegal
  <2> HIDE DEF j
  <2>4. \/ flush' = NoFlush
        \/ flush' = Writing(Mutated(memory, j), FALSE) /\ ToStage(j) = {}
    BY <2>1
  <2>5. TypeOK'
    <3>1. flush' \in {NoFlush} \cup [on : {TRUE}, change : Configs, undo : BOOLEAN]
      <4>1. Mutated(memory, j) \in Configs
        BY <2>3 DEF Legal
      <4>2. Writing(Mutated(memory, j), FALSE) \in [on : {TRUE}, change : Configs, undo : BOOLEAN]
        BY <4>1 DEF Writing
      <4>3. QED BY <2>4, <4>2
    <3>2. QED BY <1>1, <1>2, <2>1, <3>1 DEF TypeOK
  <2>6. RecordsLegal'
    <3>1. (flush.on)' => flush'.change = Mutated(memory, j)
      BY <2>4 DEF Writing, NoFlush
    <3>2. QED BY <1>1, <2>3, <3>1 DEF IInv, RecordsLegal
  <2>7. JobsFit'
    BY <2>1 DEF IInv, JobsFit
  <2>8. HolderWorks'
    <3>1. ~NotFound(j)'
      BY <1>1, <2>1, <2>2 DEF NotFound, j, Present, Whole
    <3>2. w # None
      BY FileConfigAssumption
    <3>3. (flush.on)' => flush'.change = Mutated(memory, j) /\ ToStage(j) = {}
      BY <2>4 DEF Writing, NoFlush
    <3>4. job'[holder'] = j /\ j # NoJob
      BY <1>1, <2>1 DEF j
    <3>5. ToStage(j)' = ToStage(j)
      BY <1>1, <2>1 DEF ToStage, j
    <3>6. QED BY <1>1, <2>1, <2>2, <3>1, <3>2, <3>3, <3>4, <3>5 DEF HolderWorks, j
  <2>9. doubtful \in {"none", "lost"}
    BY <1>2 DEF IInv, DoubtMeans, TypeOK
  <2>10. DoubtMeans'
    <3>1. (flush.on)' => ~flush'.undo
      BY <2>4 DEF Writing, NoFlush
    <3>2. QED BY <1>1, <2>9, <3>1 DEF IInv, DoubtMeans
  <2>11. FilesKnown'
    <3>1. doubtful = "none" => disk[active] = memory
      BY <1>2 DEF IInv, FilesKnown
    <3>2. QED BY <1>1, <2>9, <3>1
          DEF FilesKnown, Mixture, DeletionMixed, NoneRemoved, WhatIsGone, Present
  <2>12. FoldersFit'
    <3>1. SUFFICES ASSUME ~torn, NEW e \in Components PROVE FolderFits(e)'
      BY <1>1 DEF FoldersFit
    <3>2. folder[e] = IF Recorded(e) THEN "here" ELSE "none"
      BY <1>1, <3>1 DEF IInv, FoldersFit, FolderFits, Creating, Removing
    <3>3. Removing(e)' => Recorded(e)
      <4>1. SUFFICES ASSUME j.op = "delete", e \in j.gone PROVE Recorded(e)
        BY <2>1 DEF Removing, j
      <4>2. e \in Present(memory)
        BY <2>2, <4>1 DEF NotFound
      <4>3. QED BY <4>2 DEF IInv, RecordsLegal, Legal, Recorded, Present
    <3>4. Recorded(e)' = Recorded(e)
      BY <1>1 DEF Recorded
    <3>5. QED BY <1>1, <3>2, <3>3, <3>4 DEF FolderFits
  <2>13. QED BY <2>5, <2>6, <2>7, <2>8, <2>10, <2>11, <2>12 DEF IInv
<1>5. QED BY <1>3, <1>4

\* A folder is staged.
LEMMA StageKeeps ==
  ASSUME IInv, NEW w \in Commands, StageFolder(w)
  PROVE  IInv'
<1> DEFINE j == job[w]
<1>1. /\ holder = w /\ ~flush.on /\ holder # None
      /\ UNCHANGED <<active, memory, disk, job, holder, flush, doubtful, torn, failures, crashes>>
  BY FileConfigAssumption DEF StageFolder
<1>2. PICK e \in ToStage(j) :
        folder' = [folder EXCEPT ![e] = IF j.op = "delete" THEN "aside" ELSE "here"]
  BY DEF StageFolder
<1>3. JobFits(j)
  BY <1>1 DEF IInv, JobsFit, HolderWorks
<1>4. \/ j.op = "create" /\ e = j.e
      \/ j.op = "delete" /\ e \in j.gone \cap Components
  BY DEF ToStage
<1>5. e \in Components
  BY <1>3, <1>4 DEF JobFits
<1>6. TypeOK'
  BY <1>1, <1>2 DEF IInv, TypeOK, Folders
<1>7. RecordsLegal' /\ JobsFit' /\ FilesKnown' /\ DoubtMeans'
  BY <1>1 DEF IInv, RecordsLegal, JobsFit, FilesKnown, DoubtMeans
<1>8. HolderWorks'
  <2>1. NotFound(job[holder])' = NotFound(job[holder])
    BY <1>1 DEF NotFound, Present, Whole
  <2>2. QED BY <1>1, <2>1 DEF IInv, HolderWorks
<1>9. FoldersFit'
  <2>1. SUFFICES ASSUME ~torn, NEW x \in Components PROVE FolderFits(x)'
    BY <1>1 DEF FoldersFit
  <2>2. FolderFits(x) /\ folder'[x] = IF x = e THEN (IF j.op = "delete" THEN "aside" ELSE "here")
                                      ELSE folder[x]
    BY <1>2, <2>1 DEF IInv, TypeOK, FoldersFit
  <2>3. /\ Recorded(x)' = Recorded(x) /\ Creating(x)' = Creating(x)
        /\ Removing(x)' = Removing(x)
    BY <1>1 DEF Recorded, Creating, Removing
  <2>4. x = e => IF j.op = "delete" THEN Removing(x) /\ ~Creating(x) ELSE Creating(x) /\ ~Removing(x)
    BY <1>1, <1>4 DEF Creating, Removing
  <2>5. QED BY <2>2, <2>3, <2>4 DEF FolderFits
<1>10. QED BY <1>6, <1>7, <1>8, <1>9 DEF IInv

\* The folders are staged, the flush begins.
LEMMA StartKeeps ==
  ASSUME IInv, NEW w \in Commands, StartFlush(w)
  PROVE  IInv'
<1> DEFINE j == job[w]
<1>1. /\ holder = w /\ ~flush.on /\ holder # None /\ ToStage(j) = {}
      /\ flush' = Writing(Mutated(memory, j), FALSE)
      /\ UNCHANGED <<active, memory, disk, folder, job, holder, doubtful, torn, failures, crashes>>
  BY FileConfigAssumption DEF StartFlush
<1>2. JobFits(j) /\ j.repository = active
  BY <1>1 DEF IInv, JobsFit, HolderWorks
<1>3. Legal(Mutated(memory, j), active)
  BY <1>2, MutatedLegal DEF IInv, RecordsLegal
<1>4. flush'.on = TRUE /\ flush'.undo = FALSE /\ flush'.change = Mutated(memory, j)
  BY <1>1 DEF Writing
<1>5. TypeOK'
  <2>1. flush' \in [on : {TRUE}, change : Configs, undo : BOOLEAN]
    BY <1>1, <1>3 DEF Writing, Legal
  <2>2. QED BY <1>1, <2>1 DEF IInv, TypeOK
<1>6. RecordsLegal' /\ JobsFit'
  BY <1>1, <1>3, <1>4 DEF IInv, RecordsLegal, JobsFit
<1>7. HolderWorks'
  <2>1. NotFound(job[holder])' = NotFound(job[holder])
    BY <1>1 DEF NotFound, Present, Whole
  <2>2. ToStage(job[holder])' = ToStage(job[holder])
    BY <1>1 DEF ToStage
  <2>3. Mutated(memory, job[holder])' = Mutated(memory, job[holder])
    BY <1>1
  <2>4. QED BY <1>1, <1>4, <2>1, <2>2, <2>3 DEF IInv, HolderWorks
<1>8. doubtful \in {"none", "lost"}
  BY <1>1 DEF IInv, DoubtMeans, TypeOK
<1>9. DoubtMeans'
  BY <1>1, <1>4, <1>8 DEF IInv, DoubtMeans
<1>10. FilesKnown'
  <2>1. doubtful = "none" => disk[active] = memory
    BY <1>1 DEF IInv, FilesKnown
  <2>2. QED BY <1>1, <1>8, <2>1
        DEF FilesKnown, Mixture, DeletionMixed, NoneRemoved, WhatIsGone, Present
<1>11. FoldersFit'
  BY <1>1 DEF IInv, FoldersFit, FolderFits, Creating, Removing, Recorded
<1>12. QED BY <1>5, <1>6, <1>7, <1>9, <1>10, <1>11 DEF IInv

\* Replacing one record by one of another legal configuration.
LEMMA SetLegal ==
  ASSUME NEW r, NEW c, Legal(c, r), NEW d, Legal(d, r), NEW e \in Entities
  PROVE  Legal([c EXCEPT ![e] = d[e]], r)
<1> DEFINE new == [c EXCEPT ![e] = d[e]]
<1>1. c \in Configs /\ d \in Configs
  BY DEF Legal
<1>2. new \in Configs
  BY <1>1 DEF Configs
<1>3. \A o \in Entities : new[o] = IF o = e THEN d[o] ELSE c[o]
  BY <1>1 DEF Configs
<1> HIDE DEF new
<1>4. RefersWell(new) /\ \A o \in Present(new) : Home[o] = r
  BY <1>3 DEF Legal, RefersWell, Present
<1>5. QED BY <1>2, <1>4 DEF Legal, new

\* While a deletion's files are written, no record is removed before every
\* graph it affects is demoted.
LEMMA DeletionWritten ==
  ASSUME NEW c \in Configs, NEW d \in Configs, NEW gone \in SUBSET Entities,
         Mixture(c, Deleted(c, gone), d),
         NoneRemoved(c, d, gone) \/ AllDemoted(Deleted(c, gone), d, gone),
         NEW e \in Entities,
         \/ Deleted(c, gone)[e] # Absent /\ d[e] # Deleted(c, gone)[e]
         \/ \A o \in Present(Deleted(c, gone)) : d[o] = Deleted(c, gone)[o]
  PROVE  LET after == [d EXCEPT ![e] = Deleted(c, gone)[e]]
         IN  NoneRemoved(c, after, gone) \/ AllDemoted(Deleted(c, gone), after, gone)
<1> DEFINE new == Deleted(c, gone)
           after == [d EXCEPT ![e] = new[e]]
<1>1. \A o \in Entities : after[o] = IF o = e THEN new[o] ELSE d[o]
  BY DEF Configs
<1>2. /\ \A o \in gone : new[o] = Absent
      /\ \A o \in Entities \ gone : new[o] = Absent <=> c[o] = Absent
  BY DeletedConfig
<1>3. /\ Mixture(c, new, d)
      /\ NoneRemoved(c, d, gone) \/ AllDemoted(new, d, gone)
      /\ \/ new[e] # Absent /\ d[e] # new[e]
         \/ \A o \in Present(new) : d[o] = new[o]
  OBVIOUS
<1> HIDE DEF new, after
<1>4. CASE new[e] # Absent /\ d[e] # new[e]
  <2>1. e \notin gone /\ ~ AllDemoted(new, d, gone)
    BY <1>2, <1>4 DEF AllDemoted
  <2>2. NoneRemoved(c, after, gone)
    BY <1>1, <1>3, <2>1 DEF NoneRemoved
  <2>3. QED BY <2>2 DEF new, after
<1>5. CASE \A o \in Present(new) : d[o] = new[o]
  <2>1. \A o \in Entities \ gone : d[o] = new[o]
    BY <1>2, <1>3, <1>5 DEF Mixture, Present
  <2>2. AllDemoted(new, after, gone)
    BY <1>1, <2>1 DEF AllDemoted
  <2>3. QED BY <2>2 DEF new, after
<1>6. QED BY <1>3, <1>4, <1>5

\* While a deletion is undone, a graph is published again only after what is
\* written before it.
LEMMA DeletionUndone ==
  ASSUME NEW c \in Configs, NEW d \in Configs, NEW gone \in SUBSET Entities, NEW new,
         \/ NoneRemoved(c, d, gone)
         \/ DemotedOrRestored(c, new, d, gone),
         NEW e \in Entities,
         \A o \in Present(c) : d[o] # c[o] => ~ (WriteRank(o) < WriteRank(e))
  PROVE  LET after == [d EXCEPT ![e] = c[e]]
         IN  \/ NoneRemoved(c, after, gone)
             \/ DemotedOrRestored(c, new, after, gone)
<1> DEFINE after == [d EXCEPT ![e] = c[e]]
<1>1. \A o \in Entities : after[o] = IF o = e THEN c[o] ELSE d[o]
  BY DEF Configs
<1> HIDE DEF after
<1>2. CASE NoneRemoved(c, d, gone)
  <2>1. NoneRemoved(c, after, gone)
    BY <1>1, <1>2 DEF NoneRemoved
  <2>2. QED BY <2>1 DEF after
<1>3. CASE DemotedOrRestored(c, new, d, gone)
  <2>1. ASSUME NEW g \in Entities \ gone
        PROVE  after[g] = new[g] \/ Restored(c, after, g)
    <3>1. CASE g = e
      <4>1. after[g] = c[g]
        BY <1>1, <3>1
      <4>2. \A o \in Present(c) : WriteRank(o) < WriteRank(g) => d[o] = c[o]
        BY <3>1
      <4>3. \A o \in Present(c) : WriteRank(o) < WriteRank(g) => after[o] = c[o]
        BY <1>1, <4>2 DEF Present
      <4>4. QED BY <4>1, <4>3 DEF Restored
    <3>2. CASE g # e
      <4>1. after[g] = d[g]
        BY <1>1, <3>2
      <4>2. \A o \in Present(c) : d[o] = c[o] => after[o] = c[o]
        BY <1>1 DEF Present
      <4>3. QED BY <1>3, <2>1, <4>1, <4>2 DEF DemotedOrRestored, Restored
    <3>3. QED BY <3>1, <3>2
  <2>2. DemotedOrRestored(c, new, after, gone)
    BY <2>1 DEF DemotedOrRestored
  <2>3. QED BY <2>2 DEF after
<1>4. QED BY <1>2, <1>3

\* A file is written or removed.
LEMMA WriteKeeps ==
  ASSUME IInv, WriteFile
  PROVE  IInv'
<1>1. /\ flush.on /\ holder # None
      /\ UNCHANGED <<active, memory, folder, job, holder, flush, doubtful, torn, failures, crashes>>
  BY DEF WriteFile, IInv, HolderWorks
<1>2. PICK e \in Entities : NextFile(e) /\ disk' = [disk EXCEPT ![active][e] = Target[e]]
  BY DEF WriteFile
<1>3. /\ Legal(memory, active) /\ Legal(flush.change, active) /\ Legal(disk[active], active)
      /\ active \in Repositories /\ disk \in [Repositories -> Configs]
  BY <1>1 DEF IInv, RecordsLegal, TypeOK
<1>4. memory \in Configs /\ flush.change \in Configs /\ disk[active] \in Configs
  BY <1>3 DEF Legal
<1>5. Legal(Target, active) /\ Target \in Configs
  BY <1>3, <1>4 DEF Target
<1> DEFINE d == disk[active]
           after == [d EXCEPT ![e] = Target[e]]
<1>6. disk' = [disk EXCEPT ![active] = after]
  BY <1>2
<1>7. Legal(after, active) /\ after \in Configs
  <2>1. Legal(after, active)
    BY <1>3, <1>5, SetLegal
  <2>2. QED BY <2>1 DEF Legal
<1>8. /\ disk'[active] = after /\ active' = active
      /\ \A r \in Repositories : r # active => disk'[r] = disk[r]
  BY <1>1, <1>3, <1>6
<1>9. \A o \in Entities : after[o] = IF o = e THEN Target[o] ELSE d[o]
  BY <1>4 DEF Configs
<1>10. TypeOK'
  <2>1. disk' \in [Repositories -> Configs]
    BY <1>3, <1>6, <1>7
  <2>2. QED BY <1>1, <2>1 DEF IInv, TypeOK
<1>11. RecordsLegal'
  BY <1>1, <1>7, <1>8 DEF IInv, RecordsLegal
<1>12. JobsFit' /\ DoubtMeans'
  BY <1>1 DEF IInv, JobsFit, DoubtMeans
<1>13. HolderWorks'
  <2>1. NotFound(job[holder])' = NotFound(job[holder])
    BY <1>1 DEF NotFound, Present, Whole
  <2>2. ToStage(job[holder])' = ToStage(job[holder])
    BY <1>1 DEF ToStage
  <2>3. Mutated(memory, job[holder])' = Mutated(memory, job[holder])
    BY <1>1
  <2>4. QED BY <1>1, <2>1, <2>2, <2>3 DEF IInv, HolderWorks
<1>14. FoldersFit'
  <2>1. \A x \in Components : Recorded(x)' = Recorded(x)
    BY <1>1, <1>8, FileConfigAssumption DEF Recorded, Components
  <2>2. \A x \in Components : Creating(x)' = Creating(x) /\ Removing(x)' = Removing(x)
    BY <1>1 DEF Creating, Removing
  <2>3. QED BY <1>1, <2>1, <2>2 DEF IInv, FoldersFit, FolderFits
<1>15. FilesKnown'
  <2>1. SUFFICES ASSUME doubtful # "lost"
        PROVE  /\ Mixture(memory, flush.change, after)
               /\ job[holder].op = "delete" => DeletionMixed'
    BY <1>1, <1>8 DEF FilesKnown
  <2>2. Mixture(memory, flush.change, d) /\ (job[holder].op = "delete" => DeletionMixed)
    BY <1>1, <2>1 DEF IInv, FilesKnown
  <2>3. Mixture(memory, flush.change, after)
    BY <1>9, <2>2 DEF Mixture, Target
  <2>4. ASSUME job[holder].op = "delete" PROVE DeletionMixed'
    <3> DEFINE gone == WhatIsGone
    <3>1. gone \in SUBSET Entities /\ flush.change = Deleted(memory, gone)
      BY <1>1, <2>4, MutatedDeletes DEF IInv, HolderWorks, WhatIsGone, Present
    <3>2. WhatIsGone' = gone /\ doubtful' = doubtful
      BY <1>1 DEF WhatIsGone, Present
    <3> HIDE DEF gone, after, d
    <3>3. CASE doubtful = "none"
      <4>1. ~flush.undo /\ Target = flush.change
        BY <1>1, <3>3 DEF IInv, DoubtMeans, Target
      <4>2. NoneRemoved(memory, d, gone) \/ AllDemoted(Deleted(memory, gone), d, gone)
        BY <2>2, <2>4, <3>1, <3>3 DEF DeletionMixed, gone, d
      <4>3. \/ Deleted(memory, gone)[e] # Absent /\ d[e] # Deleted(memory, gone)[e]
            \/ \A o \in Present(Deleted(memory, gone)) : d[o] = Deleted(memory, gone)[o]
        BY <1>2, <3>1, <4>1 DEF NextFile, Unwritten, d, Present
      <4>4. after = [d EXCEPT ![e] = Deleted(memory, gone)[e]]
        BY <3>1, <4>1 DEF after
      <4>5. d \in Configs /\ Mixture(memory, Deleted(memory, gone), d)
        BY <1>4, <2>2, <3>1 DEF d
      <4>6. NoneRemoved(memory, after, gone) \/ AllDemoted(Deleted(memory, gone), after, gone)
        BY <1>4, <3>1, <4>2, <4>3, <4>4, <4>5, DeletionWritten
      <4>7. QED BY <1>1, <1>8, <3>1, <3>2, <3>3, <4>6 DEF DeletionMixed
    <3>4. CASE doubtful = "undoing"
      <4>1. flush.undo /\ Target = memory
        BY <1>1, <3>4 DEF IInv, DoubtMeans, Target
      <4>2. NoneRemoved(memory, d, gone) \/ DemotedOrRestored(memory, flush.change, d, gone)
        BY <2>2, <2>4, <3>4 DEF DeletionMixed, gone, d
      <4>3. Leftover = {}
        <5>1. SUFFICES ASSUME NEW o \in Leftover PROVE FALSE
          OBVIOUS
        <5>2. o \in Entities /\ memory[o] = Absent /\ d[o] # Absent
          BY <4>1, <5>1 DEF Leftover, d
        <5>3. o \notin gone /\ d[o] \in {memory[o], flush.change[o]}
          BY <2>2, <5>2 DEF Mixture, gone, WhatIsGone, Present, d
        <5>4. flush.change[o] = Absent
          BY <1>4, <3>1, <5>2, <5>3, DeletedConfig
        <5>5. QED BY <5>2, <5>3, <5>4
      <4>4. \A o \in Present(memory) : d[o] # memory[o] => ~ (WriteRank(o) < WriteRank(e))
        <5>1. \A o \in Unwritten : WriteRank(e) <= WriteRank(o)
          BY <1>2, <4>3 DEF NextFile
        <5>2. \A o \in Present(memory) : d[o] # memory[o] => o \in Unwritten
          BY <4>1 DEF Unwritten, Present, d
        <5>3. \A o \in Entities : WriteRank(o) \in 1 .. 6
          BY GraphAssumption DEF WriteRank, Kinds
        <5>4. QED BY <5>1, <5>2, <5>3 DEF Present
      <4>5. after = [d EXCEPT ![e] = memory[e]] /\ d \in Configs
        BY <1>4, <4>1 DEF after, d
      <4>6. NoneRemoved(memory, after, gone) \/ DemotedOrRestored(memory, flush.change, after, gone)
        BY <1>4, <3>1, <4>2, <4>4, <4>5, DeletionUndone
      <4>7. QED BY <1>1, <1>8, <3>2, <3>4, <4>6 DEF DeletionMixed
    <3>5. QED BY <2>1, <3>3, <3>4 DEF IInv, TypeOK
  <2>5. QED BY <2>3, <2>4
<1>16. QED BY <1>10, <1>11, <1>12, <1>13, <1>14, <1>15 DEF IInv

\* Nothing is left to write: the files are the configuration being written.
LEMMA FlushedFiles ==
  ASSUME IInv, Flushed
  PROVE  disk[active] = Target
<1>1. disk[active] \in Configs /\ Target \in Configs /\ Unwritten = {} /\ Leftover = {}
  BY DEF IInv, TypeOK, RecordsLegal, Legal, Flushed, Target
<1>2. \A e \in Entities : disk[active][e] = Target[e]
  BY <1>1 DEF Unwritten, Leftover, Present
<1>3. QED BY <1>1, <1>2 DEF Configs

\* Who leaves the lock leaves nothing to check about commands.
LEMMA LeaveKeeps ==
  ASSUME IInv, NEW w \in Commands, Leave(w)
  PROVE  job' \in [Commands -> Jobs] /\ JobsFit' /\ holder' = None
<1>1. job \in [Commands -> Jobs] /\ job' = [job EXCEPT ![w] = NoJob] /\ holder' = None
  BY DEF IInv, TypeOK, Leave
<1>2. job' \in [Commands -> Jobs]
  BY <1>1 DEF Jobs
<1>3. JobsFit'
  BY <1>1 DEF IInv, JobsFit
<1>4. QED BY <1>1, <1>2, <1>3

\* The command succeeds.
LEMMA CommitKeeps ==
  ASSUME IInv, NEW w \in Commands, Commit(w)
  PROVE  IInv'
<1>1. /\ holder = w /\ holder # None /\ flush.on /\ ~flush.undo /\ Flushed
      /\ memory' = flush.change /\ flush' = NoFlush /\ doubtful' = "none" /\ Leave(w)
      /\ folder' = [e \in Components |-> IF folder[e] = "aside" THEN "none" ELSE folder[e]]
      /\ UNCHANGED <<active, disk, torn, failures, crashes>>
  BY FileConfigAssumption DEF Commit, Flushed
<1>2. disk[active] = flush.change
  BY <1>1, FlushedFiles DEF Target
<1>3. job' \in [Commands -> Jobs] /\ JobsFit' /\ holder' = None
  BY <1>1, LeaveKeeps
<1>4. Legal(flush.change, active) /\ flush.change \in Configs
  BY <1>1 DEF IInv, RecordsLegal, Legal
<1>5. folder' \in [Components -> Folders]
  BY <1>1 DEF IInv, TypeOK, Folders
<1>6. TypeOK'
  BY <1>1, <1>3, <1>4, <1>5 DEF IInv, TypeOK
<1>7. ~ (flush.on)'
  BY <1>1 DEF NoFlush
<1>8. RecordsLegal' /\ HolderWorks' /\ FilesKnown' /\ DoubtMeans'
  BY <1>1, <1>2, <1>3, <1>4, <1>7 DEF IInv, RecordsLegal, HolderWorks, FilesKnown, DoubtMeans
<1>9. FoldersFit'
  <2> DEFINE j == job[holder]
  <2>1. SUFFICES ASSUME ~torn, NEW e \in Components PROVE FolderFits(e)'
    BY <1>1 DEF FoldersFit
  <2>2. FolderFits(e) /\ JobFits(j) /\ j.repository = active
        /\ (Creating(e) => ~Recorded(e)) /\ (Removing(e) => Recorded(e)) /\ e \in Entities
    BY <1>1, <2>1, HeldRecords DEF IInv, FoldersFit, Components
  <2>3. ToStage(j) = {} /\ flush.change = Mutated(memory, j) /\ Legal(memory, active) /\ ~NotFound(j)
    BY <1>1 DEF IInv, HolderWorks, RecordsLegal
  <2>4. /\ Creating(e) => flush.change[e] # Absent
        /\ Removing(e) => flush.change[e] = Absent
        /\ ~Creating(e) /\ ~Removing(e) => (flush.change[e] = Absent <=> memory[e] = Absent)
    <3>1. j.op = "update" => memory[j.e] # Absent
      BY <2>3 DEF NotFound
    <3>2. Creating(e) <=> j.op = "create" /\ j.e = e
      BY <1>1 DEF Creating
    <3>3. Removing(e) <=> j.op = "delete" /\ e \in j.gone
      BY <1>1 DEF Removing
    <3> HIDE DEF j
    <3>4. QED BY <2>2, <2>3, <3>1, <3>2, <3>3, MutatedComponents
  <2>5. /\ Creating(e) => folder[e] = "here" /\ Home[e] = active
        /\ Removing(e) => folder[e] = "aside" /\ Home[e] = active
    <3>1. Creating(e) => folder[e] # "none" /\ Home[e] = active
      BY <2>2, <2>3 DEF Creating, ToStage, JobFits
    <3>2. Removing(e) => folder[e] # "here"
      BY <2>3 DEF Removing, ToStage
    <3>3. Removing(e) => Home[e] = active
      <4>1. Removing(e) => e \in Present(memory)
        BY <2>3 DEF Removing, NotFound
      <4>2. QED BY <2>3, <4>1 DEF Legal
    <3>4. QED BY <2>2, <3>1, <3>2, <3>3 DEF FolderFits
  <2>6. ~Creating(e)' /\ ~Removing(e)'
    BY <1>3 DEF Creating, Removing
  <2>7. Recorded(e)' <=> IF Home[e] = active THEN flush.change[e] # Absent ELSE Recorded(e)
    BY <1>1 DEF Recorded
  <2>8. folder'[e] = IF folder[e] = "aside" THEN "none" ELSE folder[e]
    BY <1>1
  <2>9. CASE Creating(e) \/ Removing(e)
    BY <2>2, <2>4, <2>5, <2>6, <2>7, <2>8, <2>9 DEF FolderFits
  <2>10. CASE ~Creating(e) /\ ~Removing(e)
    <3>1. folder[e] = IF Recorded(e) THEN "here" ELSE "none"
      BY <2>2, <2>10 DEF FolderFits
    <3>2. Recorded(e)' <=> Recorded(e)
      BY <2>4, <2>7, <2>10 DEF Recorded
    <3>3. QED BY <2>6, <2>8, <3>1, <3>2 DEF FolderFits
  <2>11. QED BY <2>9, <2>10
<1>10. QED BY <1>3, <1>6, <1>8, <1>9 DEF IInv

\* A command that fails puts every folder back.
LEMMA FoldersPutBack ==
  ASSUME IInv, holder # None, ~torn, NEW e \in Components
  PROVE  FolderUndone(holder)[e] = IF Recorded(e) THEN "here" ELSE "none"
<1>1. FolderFits(e) /\ (Creating(e) => ~Recorded(e)) /\ (Removing(e) => Recorded(e))
      /\ ~ (Creating(e) /\ Removing(e))
  BY HeldRecords DEF IInv, FoldersFit
<1>2. FolderUndone(holder)[e] =
        IF folder[e] = "aside" THEN "here"
        ELSE IF job[holder].op = "create" /\ job[holder].e = e THEN "none" ELSE folder[e]
  BY DEF FolderUndone
<1>3. Creating(e) <=> job[holder].op = "create" /\ job[holder].e = e
  BY DEF Creating
<1>4. QED BY <1>1, <1>2, <1>3 DEF FolderFits

LEMMA UndoneType ==
  ASSUME IInv, NEW w PROVE FolderUndone(w) \in [Components -> Folders]
BY DEF IInv, TypeOK, Folders, FolderUndone

\* Every command that fails, before the flush, after its undoing or without
\* one, ends like this.
LEMMA FailureKeeps ==
  ASSUME IInv, NEW w \in Commands, holder = w, Leave(w), folder' = FolderUndone(w),
         ~ (flush.on)', UNCHANGED <<active, memory, disk>>, flush' = NoFlush,
         torn' = torn \/ torn' = TRUE,
         failures' \in 0 .. MaxFailures, crashes' = crashes,
         doubtful' \in {"none", "undoing", "lost"},
         doubtful' # "undoing", doubtful' = "lost" => torn',
         doubtful' = "none" => disk[active] = memory
  PROVE  IInv'
<1>1. job' \in [Commands -> Jobs] /\ JobsFit' /\ holder' = None /\ holder # None
  BY LeaveKeeps, FileConfigAssumption
<1>2. TypeOK'
  BY <1>1, UndoneType DEF IInv, TypeOK
<1>3. RecordsLegal' /\ HolderWorks' /\ FilesKnown' /\ DoubtMeans'
  BY <1>1 DEF IInv, RecordsLegal, HolderWorks, FilesKnown, DoubtMeans
<1>4. FoldersFit'
  <2>1. SUFFICES ASSUME ~torn', NEW e \in Components PROVE FolderFits(e)'
    BY DEF FoldersFit
  <2>2. folder'[e] = IF Recorded(e) THEN "here" ELSE "none"
    BY <1>1, <2>1, FoldersPutBack
  <2>3. Recorded(e)' = Recorded(e) /\ ~Creating(e)' /\ ~Removing(e)'
    BY <1>1 DEF Recorded, Creating, Removing
  <2>4. QED BY <2>2, <2>3 DEF FolderFits
<1>5. QED BY <1>1, <1>2, <1>3, <1>4 DEF IInv

LEMMA CountFailure ==
  ASSUME IInv, Fails PROVE failures' \in 0 .. MaxFailures
BY FileConfigAssumption DEF IInv, TypeOK, Fails

LEMMA StageFailsKeeps ==
  ASSUME IInv, NEW w \in Commands, StageFails(w)
  PROVE  IInv'
<1>1. /\ holder = w /\ ~flush.on /\ Leave(w) /\ folder' = FolderUndone(w) /\ Fails
      /\ UNCHANGED <<active, memory, disk, flush, doubtful, torn, crashes>>
  BY DEF StageFails
<1>2. flush' = NoFlush
  BY <1>1 DEF IInv, TypeOK
<1>3. doubtful \in {"none", "lost"} /\ (doubtful = "lost" => torn)
      /\ (doubtful = "none" => disk[active] = memory)
  BY <1>1 DEF IInv, TypeOK, DoubtMeans, FilesKnown
<1>4. QED BY <1>1, <1>2, <1>3, CountFailure, FailureKeeps

LEMMA WrittenBackKeeps ==
  ASSUME IInv, NEW w \in Commands, WrittenBack(w)
  PROVE  IInv'
<1>1. /\ holder = w /\ Flushed /\ flush.undo /\ Leave(w) /\ folder' = FolderUndone(w)
      /\ flush' = NoFlush /\ doubtful' = "none"
      /\ UNCHANGED <<active, memory, disk, torn, failures, crashes>>
  BY DEF WrittenBack
<1>2. disk[active] = memory
  BY <1>1, FlushedFiles DEF Target
<1>3. failures' \in 0 .. MaxFailures /\ ~ (flush.on)'
  BY <1>1 DEF IInv, TypeOK, NoFlush
<1>4. QED BY <1>1, <1>2, <1>3, FailureKeeps

LEMMA UndoFailsKeeps ==
  ASSUME IInv, NEW w \in Commands, UndoFails(w)
  PROVE  IInv'
<1>1. /\ holder = w /\ Leave(w) /\ folder' = FolderUndone(w) /\ Fails
      /\ flush' = NoFlush /\ doubtful' = "lost" /\ torn' = TRUE
      /\ UNCHANGED <<active, memory, disk, crashes>>
  BY DEF UndoFails
<1>2. failures' \in 0 .. MaxFailures /\ ~ (flush.on)'
  BY <1>1, CountFailure DEF NoFlush
<1>3. QED BY <1>1, <1>2, FailureKeeps

\* A write fails: the change is given up.
LEMMA FlushFailsKeeps ==
  ASSUME IInv, FlushFails
  PROVE  IInv'
<1>1. /\ flush.on /\ ~flush.undo /\ Fails
      /\ flush' = Writing(flush.change, TRUE)
      /\ doubtful' = IF doubtful = "lost" THEN "lost" ELSE "undoing"
      /\ UNCHANGED <<active, memory, disk, folder, job, holder, torn, crashes>>
  BY DEF FlushFails
<1>2. flush'.on = TRUE /\ flush'.undo = TRUE /\ flush'.change = flush.change
  BY <1>1 DEF Writing
<1>3. flush.change \in Configs
  BY <1>1 DEF IInv, RecordsLegal, Legal
<1>4. TypeOK'
  <2>1. flush' \in [on : {TRUE}, change : Configs, undo : BOOLEAN]
    BY <1>1, <1>3 DEF Writing
  <2>2. QED BY <1>1, <2>1, CountFailure DEF IInv, TypeOK
<1>5. RecordsLegal' /\ JobsFit' /\ DoubtMeans'
  BY <1>1, <1>2 DEF IInv, RecordsLegal, JobsFit, DoubtMeans, TypeOK
<1>6. HolderWorks'
  <2>1. NotFound(job[holder])' = NotFound(job[holder])
    BY <1>1 DEF NotFound, Present, Whole
  <2>2. ToStage(job[holder])' = ToStage(job[holder])
    BY <1>1 DEF ToStage
  <2>3. Mutated(memory, job[holder])' = Mutated(memory, job[holder])
    BY <1>1
  <2>4. QED BY <1>1, <1>2, <2>1, <2>2, <2>3 DEF IInv, HolderWorks
<1>7. FilesKnown'
  <2>1. SUFFICES ASSUME doubtful # "lost"
        PROVE  /\ Mixture(memory, flush.change, disk[active])
               /\ job[holder].op = "delete" => DeletionMixed'
    BY <1>1, <1>2 DEF FilesKnown
  <2>2. doubtful = "none" /\ doubtful' = "undoing"
    BY <1>1, <2>1 DEF IInv, DoubtMeans, TypeOK
  <2>3. Mixture(memory, flush.change, disk[active]) /\ (job[holder].op = "delete" => DeletionMixed)
    BY <1>1, <2>1 DEF IInv, FilesKnown
  <2>4. WhatIsGone' = WhatIsGone
    BY <1>1 DEF WhatIsGone, Present
  <2>5. AllDemoted(flush.change, disk[active], WhatIsGone)
          => DemotedOrRestored(memory, flush.change, disk[active], WhatIsGone)
    BY DEF AllDemoted, DemotedOrRestored
  <2>6. job[holder].op = "delete" =>
          \/ NoneRemoved(memory, disk[active], WhatIsGone)
          \/ DemotedOrRestored(memory, flush.change, disk[active], WhatIsGone)
    BY <2>2, <2>3, <2>5 DEF DeletionMixed
  <2>7. QED BY <1>1, <1>2, <2>2, <2>3, <2>4, <2>6 DEF DeletionMixed
<1>8. FoldersFit'
  BY <1>1 DEF IInv, FoldersFit, FolderFits, Creating, Removing, Recorded
<1>9. QED BY <1>4, <1>5, <1>6, <1>7, <1>8 DEF IInv

\* Another repository becomes the active one.
LEMMA SwitchKeeps ==
  ASSUME IInv, NEW r \in Repositories, Switch(r)
  PROVE  IInv'
<1>1. /\ holder = None /\ r # active /\ active' = r /\ memory' = disk[r] /\ doubtful' = "none"
      /\ UNCHANGED <<disk, folder, job, holder, flush, torn, failures, crashes>>
  BY DEF Switch
<1>2. ~flush.on
  BY <1>1 DEF IInv, HolderWorks
<1>3. TypeOK' /\ JobsFit'
  BY <1>1 DEF IInv, TypeOK, JobsFit
<1>4. RecordsLegal' /\ HolderWorks' /\ FilesKnown' /\ DoubtMeans'
  BY <1>1, <1>2 DEF IInv, RecordsLegal, HolderWorks, FilesKnown, DoubtMeans
<1>5. FoldersFit'
  <2>1. SUFFICES ASSUME ~torn, NEW e \in Components PROVE FolderFits(e)'
    BY <1>1 DEF FoldersFit
  <2>2. disk[active] = memory
    BY <1>2, <2>1 DEF IInv, FilesKnown, DoubtMeans, TypeOK
  <2>3. Recorded(e)' <=> Recorded(e)
    BY <1>1, <2>2 DEF Recorded
  <2>4. FolderFits(e) /\ ~Creating(e) /\ ~Removing(e) /\ ~Creating(e)' /\ ~Removing(e)'
    BY <1>1, <2>1 DEF IInv, FoldersFit, Creating, Removing
  <2>5. QED BY <1>1, <2>3, <2>4 DEF FolderFits
<1>6. QED BY <1>3, <1>4, <1>5 DEF IInv

\* The process stops and starts again.
LEMMA RestartKeeps ==
  ASSUME IInv, Restart
  PROVE  IInv'
<1>1. /\ memory' = disk[active] /\ job' = [w \in Commands |-> NoJob]
      /\ holder' = None /\ flush' = NoFlush /\ doubtful' = "none" /\ torn' = TRUE
      /\ crashes < MaxCrashes /\ crashes' = crashes + 1
      /\ UNCHANGED <<active, disk, folder, failures>>
  BY DEF Restart
<1>2. TypeOK'
  <2>1. crashes' \in 0 .. MaxCrashes
    BY <1>1, FileConfigAssumption DEF IInv, TypeOK
  <2>2. job' \in [Commands -> Jobs]
    BY <1>1 DEF Jobs
  <2>3. QED BY <1>1, <2>1, <2>2 DEF IInv, TypeOK
<1>3. RecordsLegal' /\ JobsFit' /\ HolderWorks'
  BY <1>1 DEF IInv, TypeOK, RecordsLegal, JobsFit, HolderWorks, NoFlush
<1>4. FilesKnown' /\ DoubtMeans' /\ FoldersFit'
  BY <1>1 DEF FilesKnown, DoubtMeans, FoldersFit, NoFlush
<1>5. QED BY <1>2, <1>3, <1>4 DEF IInv

\* No step of the store breaks the invariant.
LEMMA NextIInv == IInv /\ [Next]_vars => IInv'
<1> SUFFICES ASSUME IInv, [Next]_vars PROVE IInv'
  OBVIOUS
<1>1. ASSUME NEW w \in Commands, NEW e \in Entities,
             AskPublish(w, e) \/ AskDraft(w, e) \/ AskMetadata(w, e) \/ AskComponent(w, e)
      PROVE  IInv'
  <2>1. PICK j \in Jobs : JobFits(j) /\ Asks(w, j)
    BY <1>1, AskFits
  <2>2. QED BY <2>1, AsksKeeps
<1>2. ASSUME NEW w \in Commands, NEW gone \in SUBSET Entities, AskDelete(w, gone)
      PROVE  IInv'
  <2>1. PICK j \in Jobs : JobFits(j) /\ Asks(w, j)
    BY <1>2, AskDeleteFits
  <2>2. QED BY <2>1, AsksKeeps
<1>3. ASSUME NEW w \in Commands,
             Enter(w) \/ StageFolder(w) \/ StartFlush(w) \/ Commit(w) \/ StageFails(w)
               \/ WrittenBack(w) \/ UndoFails(w)
      PROVE  IInv'
  BY <1>3, EnterKeeps, StageKeeps, StartKeeps, CommitKeeps, StageFailsKeeps,
     WrittenBackKeeps, UndoFailsKeeps
<1>4. CASE WriteFile
  BY <1>4, WriteKeeps
<1>5. CASE FlushFails
  BY <1>5, FlushFailsKeeps
<1>6. ASSUME NEW r \in Repositories, Switch(r) PROVE IInv'
  BY <1>6, SwitchKeeps
<1>7. CASE Restart
  BY <1>7, RestartKeeps
<1>8. CASE UNCHANGED vars
  <2>1. UNCHANGED <<active, memory, disk, folder, job, holder, flush, doubtful, torn,
                    failures, crashes>>
    BY <1>8 DEF vars
  <2>2. TypeOK'
    BY <2>1 DEF IInv, TypeOK
  <2>3. RecordsLegal' /\ JobsFit' /\ DoubtMeans'
    BY <2>1 DEF IInv, RecordsLegal, JobsFit, DoubtMeans
  <2>4. HolderWorks'
    BY <2>1 DEF IInv, HolderWorks, NotFound, ToStage
  <2>5. FilesKnown'
    BY <2>1 DEF IInv, FilesKnown, DeletionMixed, WhatIsGone
  <2>6. FoldersFit'
    BY <2>1 DEF IInv, FoldersFit, FolderFits, Creating, Removing, Recorded
  <2>7. QED BY <2>2, <2>3, <2>4, <2>5, <2>6 DEF IInv
<1>9. QED BY <1>1, <1>2, <1>3, <1>4, <1>5, <1>6, <1>7, <1>8 DEF Next

LEMMA AlwaysIInv == Spec => []IInv
BY InitIInv, NextIInv, PTL DEF Spec

\* A component has its package folder exactly when it has its record, whenever
\* no command is at work and no restart or failed undoing has interrupted one:
\* whatever fails, the folders staged for a command follow its record
\* (ComponentMutationService._staged_changes).
THEOREM FoldersFollow == Spec => []FoldersFollowRecords
<1>1. IInv => FoldersFollowRecords
  <2>1. SUFFICES ASSUME IInv, holder = None, ~torn, NEW e \in Components
                 PROVE  (folder[e] = "here") <=> Recorded(e)
    BY DEF FoldersFollowRecords, Recorded
  <2>2. FolderFits(e) /\ ~Creating(e) /\ ~Removing(e)
    BY <2>1 DEF IInv, FoldersFit, Creating, Removing
  <2>3. QED BY <2>2 DEF FolderFits
<1>2. QED BY <1>1, AlwaysIInv, PTL

-----------------------------------------------------------------------------
(* The files implement the store.                                          *)

\* The two speak of the same graphs.
LEMMA SameGraphs ==
  /\ Store!Configs = Configs /\ Store!Graphs = Graphs /\ Store!Early = Early
  /\ \A c : Store!Present(c) = Present(c)
  /\ \A c : Store!Published(c) = Published(c)
  /\ \A c : Store!Dangling(c) = Dangling(c)
<1>1. Store!Configs = Configs /\ Store!Graphs = Graphs
  BY DEF Store!Configs, Configs, Store!Records, Records, Store!Graphs, Graphs
<1>2. \A e : Store!WriteRank(e) = WriteRank(e)
  BY DEF Store!WriteRank, WriteRank
<1>3. Store!Early = Early
  BY <1>1, <1>2 DEF Store!Early, Early
<1>4. \A c : Store!Present(c) = Present(c)
  BY DEF Store!Present, Present
<1>5. \A c : Store!Published(c) = Published(c)
  BY <1>1, <1>4 DEF Store!Published, Published
<1>6. \A c, s : Store!Closed(c, s) <=> Closed(c, s)
  BY DEF Store!Closed, Closed, Store!RefsIn, RefsIn
<1>7. \A c, from : Store!Needed(c, from) = Needed(c, from)
  BY <1>6 DEF Store!Needed, Needed
<1>8. \A c, refs : Store!Whole(c, refs) <=> Whole(c, refs)
  BY <1>4, <1>7 DEF Store!Whole, Whole
<1>9. \A c : Store!Dangling(c) = Dangling(c)
  BY <1>5, <1>8 DEF Store!Dangling, Dangling
<1>10. QED BY <1>1, <1>3, <1>4, <1>5, <1>9

\* What the store's variables stand for.
LEMMA ShownIs ==
  ASSUME IInv
  PROVE  /\ active \in Repositories
         /\ Shown[active] = memory
         /\ \A r \in Repositories : r # active => Shown[r] = disk[r]
         /\ \A e \in Entities :
              Possible[active][e] = {memory[e], disk[active][e]} \cup {Applying[e]}
         /\ \A r \in Repositories, e \in Entities :
              r # active => Possible[r][e] = {disk[r][e]}
BY DEF IInv, TypeOK, Shown, Possible, Applying

LEMMA StoreInit == Init => Store!Init
<1> SUFFICES ASSUME Init PROVE Store!Init
  OBVIOUS
<1>1. IInv
  BY InitIInv
<1>2. active \in Repositories /\ memory = disk[active] /\ flush = NoFlush /\ doubtful = "none"
  BY DEF Init
<1>3. Shown = disk
  BY <1>1, <1>2 DEF IInv, TypeOK, Shown
<1>4. Applying = memory
  BY <1>2 DEF Applying, NoFlush
<1>5. Possible = [r \in Repositories |-> Store!Sure(Shown[r])]
  BY <1>2, <1>3 DEF Possible, Store!Sure, NoFlush
<1>6. \A r \in Repositories : disk[r] \in Configs /\ \A e \in Present(disk[r]) : Home[e] = r
  BY <1>1 DEF IInv, RecordsLegal, Legal
<1>7. Shown \in [Repositories -> Configs]
  BY <1>1, <1>3 DEF IInv, TypeOK
<1>8. QED BY <1>2, <1>3, <1>4, <1>5, <1>6, <1>7, SameGraphs DEF Store!Init

LEMMA StoreStutters ==
  ASSUME UNCHANGED <<active, memory, disk, flush, doubtful>>
  PROVE  UNCHANGED Store!storeVars
BY DEF Store!storeVars, Shown, Applying, Possible

\* A command that starts writing begins a change the store allows.
LEMMA StoreBegins ==
  ASSUME IInv, NEW j, JobFits(j), j.repository = active, ~flush.on,
         flush' = Writing(Mutated(memory, j), FALSE),
         UNCHANGED <<active, memory, disk, doubtful>>
  PROVE  Store!Begin
<1> DEFINE new == Mutated(memory, j)
<1>1. active \in Repositories /\ memory \in Configs /\ Legal(memory, active)
  BY DEF IInv, TypeOK, RecordsLegal
<1>2. Legal(new, active) /\ new \in Configs
  BY <1>1, MutatedLegal DEF Legal
<1>3. Shown[active] = memory /\ Applying' = new /\ UNCHANGED Shown
  BY <1>1 DEF Shown, Applying, Writing
<1>4. Store!Saves(memory, new) \/ Store!Deletes(memory, new)
  <2>1. CASE new = memory
    <3> HIDE DEF new
    <3>1. QED BY <2>1 DEF Store!Deletes
  <2>2. CASE new # memory /\ j.op # "delete"
    <3>1. PICK record \in Records : new = SaveRecord(memory, j.e, record)
      BY <1>1, <2>2, MutatedSaves
    <3>2. record # Absent /\ j.e \in Entities
      BY <2>2, GraphAssumption DEF Records, JobFits
    <3> HIDE DEF new
    <3>3. new[j.e] # Absent /\ \A o \in Entities \ {j.e} : new[o] = memory[o]
      BY <1>1, <3>1, <3>2 DEF SaveRecord, Configs
    <3>4. QED BY <3>2, <3>3 DEF Store!Saves
  <2>3. CASE j.op = "delete"
    <3> DEFINE gone == j.gone \cap Present(memory)
    <3>1. gone \in SUBSET Entities /\ new = Deleted(memory, gone)
      BY <2>3, MutatedDeletes DEF Present
    <3>2. Dangling(new) \subseteq Dangling(memory)
      BY <1>1, <3>1, DeletionSafe
    <3>3. \A e \in Entities :
            \/ new[e] \in {memory[e], Absent}
            \/ e \in Published(memory) /\ new[e] = [memory[e] EXCEPT !.enabled = FALSE]
      BY <1>1, <3>1, DeletedConfig
    <3> HIDE DEF new
    <3>4. QED BY <3>2, <3>3, SameGraphs DEF Store!Deletes
  <2>4. QED BY <2>1, <2>2, <2>3
<1> HIDE DEF new
<1>5. \A e \in Store!Present(new) : Home[e] = active
  BY <1>2, SameGraphs DEF Legal
<1>6. Possible' = [Possible EXCEPT ![active] = [e \in Entities |-> @[e] \cup {new[e]}]]
  <2>1. flush'.on /\ flush'.change = new
    BY DEF Writing, new
  <2>2. \A e \in Entities : Possible'[active][e] = Possible[active][e] \cup {new[e]}
    BY <1>1, <2>1 DEF Possible
  <2>3. Possible'[active] = [e \in Entities |-> Possible[active][e] \cup {new[e]}]
    BY <1>1, <2>2 DEF Possible
  <2>4. \A r \in Repositories : r # active => Possible'[r] = Possible[r]
    BY <1>1 DEF Possible
  <2>5. QED BY <1>1, <2>3, <2>4 DEF Possible
<1>7. QED BY <1>3, <1>4, <1>5, <1>6 DEF Store!Begin

\* Writing or removing one file only narrows what a restart may find.
LEMMA StoreSettles ==
  ASSUME IInv, WriteFile
  PROVE  Store!Settle
<1>1. PICK e \in Entities : disk' = [disk EXCEPT ![active][e] = Target[e]]
  BY DEF WriteFile
<1>2. /\ flush.on /\ UNCHANGED <<active, memory, flush, doubtful>>
      /\ active \in Repositories /\ disk \in [Repositories -> Configs]
  BY DEF WriteFile, IInv, TypeOK
<1>3. Target[e] = memory[e] \/ Target[e] = flush.change[e]
  BY DEF Target
<1>4. /\ disk'[active] = [disk[active] EXCEPT ![e] = Target[e]]
      /\ \A r \in Repositories : r # active => disk'[r] = disk[r]
  BY <1>1, <1>2
<1>5. \A o \in Entities : disk'[active][o] \in {disk[active][o], memory[o], flush.change[o]}
  BY <1>2, <1>3, <1>4 DEF Configs
<1>6. UNCHANGED <<Shown, Applying>>
  BY <1>2, <1>4 DEF Shown, Applying
<1>7. \A o \in Entities :
        Possible'[active][o] \subseteq Possible[active][o] /\ memory[o] \in Possible'[active][o]
  BY <1>2, <1>5 DEF Possible
<1>8. Possible' = [Possible EXCEPT ![active] = Possible'[active]]
  <2>1. \A r \in Repositories : r # active => Possible'[r] = Possible[r]
    BY <1>2, <1>4 DEF Possible
  <2>2. QED BY <1>2, <2>1 DEF Possible
<1>9. Shown[active] = memory
  BY ShownIs
<1>10. QED BY <1>2, <1>6, <1>7, <1>8, <1>9 DEF Store!Settle, Store!Narrowed

\* Once the files of the active repository are what it holds, and nothing is
\* being written, a restart can find nothing else.
LEMMA SureAgain ==
  ASSUME active \in Repositories, active' = active,
         NEW c \in Configs, memory' = c, disk'[active] = c, ~flush'.on,
         \A r \in Repositories : r # active => disk'[r] = disk[r]
  PROVE  /\ Shown' = [Shown EXCEPT ![active] = c]
         /\ Possible' = [Possible EXCEPT ![active] = Store!Sure(c)]
         /\ Applying' = c
<1>1. Shown' = [Shown EXCEPT ![active] = c]
  BY DEF Shown
<1>2. Possible'[active] = Store!Sure(c)
  BY DEF Possible, Store!Sure
<1>3. \A r \in Repositories : r # active => Possible'[r] = Possible[r]
  BY DEF Possible
<1>4. Possible' = [Possible EXCEPT ![active] = Store!Sure(c)]
  BY <1>2, <1>3 DEF Possible
<1>5. Applying' = c
  BY DEF Applying
<1>6. QED BY <1>1, <1>4, <1>5

LEMMA StoreCommits ==
  ASSUME IInv, NEW w \in Commands, Commit(w)
  PROVE  Store!Commit
<1>1. /\ Flushed /\ ~flush.undo /\ memory' = flush.change /\ flush' = NoFlush
      /\ doubtful' = "none" /\ UNCHANGED <<active, disk>>
  BY DEF Commit
<1>2. Target = flush.change /\ Applying = flush.change /\ ~flush'.on
  BY <1>1 DEF Target, Applying, Flushed, NoFlush
<1>3. disk[active] = flush.change
  BY <1>1, <1>2, FlushedFiles
<1>4. active \in Repositories /\ flush.change \in Configs
  BY <1>1 DEF IInv, TypeOK, RecordsLegal, Legal, Flushed
<1>5. /\ Shown' = [Shown EXCEPT ![active] = Applying]
      /\ Possible' = [Possible EXCEPT ![active] = Store!Sure(Applying)]
      /\ Applying' = Applying
  BY <1>1, <1>2, <1>3, <1>4, SureAgain
<1>6. QED BY <1>1, <1>5 DEF Store!Commit

LEMMA StoreAbandons ==
  ASSUME IInv, FlushFails
  PROVE  Store!Abandon
<1>1. /\ flush.on /\ flush' = Writing(flush.change, TRUE)
      /\ doubtful' = IF doubtful = "lost" THEN "lost" ELSE "undoing"
      /\ UNCHANGED <<active, memory, disk>>
  BY DEF FlushFails
<1>2. flush'.on /\ flush'.change = flush.change
  BY <1>1 DEF Writing
<1>3. UNCHANGED <<Shown, Applying, Possible>>
  BY <1>1, <1>2 DEF Shown, Applying, Possible
<1>4. QED BY <1>1, <1>3 DEF Store!Abandon

LEMMA StoreUndoes ==
  ASSUME IInv, NEW w \in Commands, WrittenBack(w)
  PROVE  Store!Undone
<1>1. /\ Flushed /\ flush.undo /\ flush' = NoFlush /\ doubtful' = "none"
      /\ UNCHANGED <<active, memory, disk>>
  BY DEF WrittenBack
<1>2. disk[active] = memory /\ ~flush'.on
  BY <1>1, FlushedFiles DEF Target, NoFlush
<1>3. active \in Repositories /\ memory \in Configs /\ Shown[active] = memory
  BY ShownIs DEF IInv, TypeOK
<1>4. /\ Possible' = [Possible EXCEPT ![active] = Store!Sure(memory)]
      /\ Applying' = memory
  BY <1>1, <1>2, <1>3, SureAgain
<1>5. UNCHANGED Shown
  BY <1>1 DEF Shown
<1>6. QED BY <1>1, <1>3, <1>4, <1>5 DEF Store!Undone

LEMMA StoreLoses ==
  ASSUME IInv, NEW w \in Commands, UndoFails(w)
  PROVE  Store!Lose
<1>1. /\ flush' = NoFlush /\ doubtful' = "lost" /\ UNCHANGED <<active, memory, disk>>
  BY DEF UndoFails
<1>2. active \in Repositories /\ Shown[active] = memory /\ ~flush'.on
  BY <1>1, ShownIs DEF NoFlush
<1>3. UNCHANGED Shown /\ Applying' = memory
  BY <1>1, <1>2 DEF Shown, Applying
<1>4. \A e \in Entities :
        Possible'[active][e] \subseteq Possible[active][e] /\ memory[e] \in Possible'[active][e]
  BY <1>1, <1>2 DEF Possible
<1>5. Possible' = [Possible EXCEPT ![active] = Possible'[active]]
  <2>1. \A r \in Repositories : r # active => Possible'[r] = Possible[r]
    BY <1>1 DEF Possible
  <2>2. QED BY <1>1, <1>2, <2>1 DEF Possible
<1>6. QED BY <1>1, <1>2, <1>3, <1>4, <1>5 DEF Store!Lose, Store!Narrowed

\* The files a restart or a switch finds may break what was broken before or
\* will be after the change under way, what is excused, and nothing else.
LEMMA FilesFound ==
  ASSUME IInv
  PROVE  Dangling(disk[active]) \subseteq
           Dangling(memory) \cup Dangling(Applying) \cup Store!Excused
<1>1. /\ active \in Repositories /\ disk[active] \in Configs /\ memory \in Configs
      /\ RefersWell(memory) /\ doubtful \in {"none", "undoing", "lost"}
  BY DEF IInv, TypeOK, RecordsLegal, Legal
<1>2. CASE doubtful = "lost"
  <2>1. Store!Excused = Graphs
    BY <1>2, SameGraphs DEF Store!Excused
  <2>2. Dangling(disk[active]) \subseteq Graphs
    BY DEF Dangling, Published
  <2>3. QED BY <2>1, <2>2
<1>3. CASE doubtful # "lost" /\ ~flush.on
  <2>1. doubtful = "none"
    BY <1>1, <1>3 DEF IInv, DoubtMeans
  <2>2. disk[active] = memory
    BY <1>3, <2>1 DEF IInv, FilesKnown
  <2>3. QED BY <2>2
<1>4. CASE doubtful # "lost" /\ flush.on
  <2> DEFINE j == job[holder]
  <2>1. /\ holder \in Commands /\ JobFits(j) /\ j.repository = active
        /\ flush.change = Mutated(memory, j) /\ Applying = flush.change
    BY <1>4 DEF IInv, TypeOK, HolderWorks, JobsFit, Applying
  <2>2. Mixture(memory, flush.change, disk[active])
    BY <1>4 DEF IInv, FilesKnown
  <2>3. CASE j.op # "delete"
    <3>1. PICK record \in Records :
            flush.change = memory \/ flush.change = SaveRecord(memory, j.e, record)
      BY <1>1, <2>1, <2>3, MutatedSaves DEF IInv, RecordsLegal
    <3>2. \A e \in Entities : e # j.e => flush.change[e] = memory[e]
      BY <1>1, <3>1 DEF SaveRecord, Configs
    <3>3. \A e \in Entities : e # j.e => disk[active][e] = memory[e]
      BY <2>2, <3>2 DEF Mixture
    <3>4. flush.change \in Configs /\ j.e \in Entities
      BY <1>4, <2>1, <2>3 DEF IInv, RecordsLegal, Legal, JobFits
    <3>5. disk[active] = memory \/ disk[active] = flush.change
      BY <1>1, <2>2, <3>2, <3>3, <3>4 DEF Mixture, Configs
    <3>6. QED BY <2>1, <3>5
  <2>4. CASE j.op = "delete"
    <3> DEFINE gone == WhatIsGone
    <3>1. gone \in SUBSET Entities /\ OneTable(gone) /\ flush.change = Deleted(memory, gone)
      BY <2>1, <2>4, MutatedDeletes DEF WhatIsGone, JobFits, OneTable, Present
    <3>2. DeletionMixed
      BY <1>4, <2>4 DEF IInv, FilesKnown
    <3> HIDE DEF gone
    <3>3. \/ NoneRemoved(memory, disk[active], gone)
          \/ DemotedOrRestored(memory, flush.change, disk[active], gone)
      BY <3>2 DEF DeletionMixed, AllDemoted, DemotedOrRestored, gone
    <3>4. SUFFICES ASSUME NEW g \in Dangling(disk[active]), g \notin Dangling(memory)
                   PROVE  g \in Store!Excused
      OBVIOUS
    <3>5. /\ g \in Early
          /\ ~ NoneRemoved(memory, disk[active], gone)
          /\ ~ AllDemoted(flush.change, disk[active], gone)
      BY <1>1, <2>2, <3>1, <3>3, <3>4, MixtureSafe
    <3>6. doubtful = "undoing"
      BY <3>2, <3>5 DEF DeletionMixed, gone
    <3>7. QED BY <3>5, <3>6, SameGraphs DEF Store!Excused
  <2>5. QED BY <2>3, <2>4
<1>5. QED BY <1>2, <1>3, <1>4

\* What is read again is what the files say.
LEMMA StoreReloads ==
  ASSUME IInv, active' \in Repositories, memory' = disk[active'], ~flush'.on,
         doubtful' = "none", UNCHANGED disk
  PROVE  Store!Reload
<1>1. active \in Repositories /\ disk \in [Repositories -> Configs]
  BY DEF IInv, TypeOK
<1>2. Shown' = disk
  BY <1>1 DEF Shown
<1>3. \A e \in Entities : Shown'[active][e] \in Possible[active][e]
  BY <1>1, <1>2, ShownIs
<1>4. Shown' = [Shown EXCEPT ![active] = Shown'[active]]
  BY <1>1, <1>2 DEF Shown
<1>5. Applying' = Shown'[active']
  BY <1>2 DEF Applying
<1>6. Possible' = [Possible EXCEPT ![active] = Store!Sure(Shown'[active])]
  <2>1. \A r \in Repositories, e \in Entities : Possible'[r][e] = {disk[r][e]}
    BY DEF Possible
  <2>2. Possible'[active] = Store!Sure(Shown'[active])
    BY <1>1, <1>2, <2>1 DEF Possible, Store!Sure
  <2>3. \A r \in Repositories : r # active => Possible'[r] = Possible[r]
    <3>1. SUFFICES ASSUME NEW r \in Repositories, r # active PROVE Possible'[r] = Possible[r]
      OBVIOUS
    <3>2. Possible'[r] = [e \in Entities |-> {disk[r][e]}]
      BY <2>1 DEF Possible
    <3>3. Possible[r] = [e \in Entities |-> {disk[r][e]}]
      BY <3>1 DEF Possible
    <3>4. QED BY <3>2, <3>3
  <2>4. QED BY <1>1, <2>2, <2>3 DEF Possible
<1>7. /\ Shown[active] = memory
      /\ Dangling(Shown'[active]) \subseteq Dangling(memory) \cup Dangling(Applying) \cup Store!Excused
  BY <1>2, ShownIs, FilesFound
<1>8. QED BY <1>3, <1>4, <1>5, <1>6, <1>7, SameGraphs DEF Store!Reload

\* However the files are written and whatever fails, readers see a change as
\* a whole or not at all, in the repository it was validated for, and a
\* restart between two files breaks no published graph that was whole before
\* and after the change: every step of the files is a step of the store, or
\* invisible in it (FileConfigRepository.update_config, _flush_config,
\* demote_dependent_publications).
THEOREM StoreRefined == Spec => StoreImplemented
<1>1. Init => Store!Init
  BY StoreInit
<1>2. IInv /\ [Next]_vars => [Store!Next]_Store!storeVars
  <2> SUFFICES ASSUME IInv, [Next]_vars PROVE [Store!Next]_Store!storeVars
    OBVIOUS
  <2>1. ASSUME NEW w \in Commands, NEW e \in Entities,
               AskPublish(w, e) \/ AskDraft(w, e) \/ AskMetadata(w, e) \/ AskComponent(w, e)
        PROVE  UNCHANGED Store!storeVars
    <3>1. PICK j \in Jobs : Asks(w, j)
      BY <2>1, AskFits
    <3>2. QED BY <3>1, StoreStutters DEF Asks
  <2>2. ASSUME NEW w \in Commands, NEW gone \in SUBSET Entities, AskDelete(w, gone)
        PROVE  UNCHANGED Store!storeVars
    <3>1. PICK j \in Jobs : Asks(w, j)
      BY <2>2, AskDeleteFits
    <3>2. QED BY <3>1, StoreStutters DEF Asks
  <2>3. ASSUME NEW w \in Commands, Enter(w)
        PROVE  Store!Begin \/ UNCHANGED Store!storeVars
    <3>1. /\ job[w] # NoJob /\ holder = None
          /\ UNCHANGED <<active, memory, disk, doubtful>>
      BY <2>3 DEF Enter
    <3>2. ~flush.on /\ JobFits(job[w])
      BY <3>1 DEF IInv, HolderWorks, JobsFit
    <3>3. flush = NoFlush
      BY <3>2 DEF IInv, TypeOK
    <3>4. CASE Refused(job[w]) \/ ToStage(job[w]) # {}
      BY <2>3, <3>1, <3>3, <3>4, StoreStutters DEF Enter
    <3>5. CASE ~Refused(job[w]) /\ ToStage(job[w]) = {}
      <4>1. flush' = Writing(Mutated(memory, job[w]), FALSE) /\ job[w].repository = active
        BY <2>3, <3>5 DEF Enter, Refused
      <4>2. QED BY <3>1, <3>2, <4>1, StoreBegins
    <3>6. QED BY <3>4, <3>5
  <2>4. ASSUME NEW w \in Commands, StageFolder(w) \/ StageFails(w)
        PROVE  UNCHANGED Store!storeVars
    BY <2>4, StoreStutters DEF StageFolder, StageFails
  <2>5. ASSUME NEW w \in Commands, StartFlush(w)
        PROVE  Store!Begin
    <3>1. /\ holder = w /\ ~flush.on /\ flush' = Writing(Mutated(memory, job[w]), FALSE)
          /\ UNCHANGED <<active, memory, disk, doubtful>>
      BY <2>5 DEF StartFlush
    <3>2. JobFits(job[w]) /\ job[w].repository = active
      BY <3>1, FileConfigAssumption DEF IInv, HolderWorks, JobsFit
    <3>3. QED BY <3>1, <3>2, StoreBegins
  <2>6. ASSUME NEW w \in Commands, Commit(w) \/ WrittenBack(w) \/ UndoFails(w)
        PROVE  Store!Next
    BY <2>6, StoreCommits, StoreUndoes, StoreLoses DEF Store!Next
  <2>7. CASE WriteFile
    BY <2>7, StoreSettles DEF Store!Next
  <2>8. CASE FlushFails
    BY <2>8, StoreAbandons DEF Store!Next
  <2>9. ASSUME NEW r \in Repositories, Switch(r) PROVE Store!Next
    <3>1. ~flush.on /\ flush' = flush
      BY <2>9 DEF Switch, IInv, HolderWorks
    <3>2. Store!Reload
      BY <2>9, <3>1, StoreReloads DEF Switch
    <3>3. QED BY <3>2 DEF Store!Next
  <2>10. CASE Restart
    <3>1. ~flush'.on /\ active' \in Repositories
      BY <2>10 DEF Restart, NoFlush, IInv, TypeOK
    <3>2. Store!Reload
      BY <2>10, <3>1, StoreReloads DEF Restart
    <3>3. QED BY <3>2 DEF Store!Next
  <2>11. CASE UNCHANGED vars
    BY <2>11, StoreStutters DEF vars
  <2>12. QED BY <2>1, <2>2, <2>3, <2>4, <2>5, <2>6, <2>7, <2>8, <2>9, <2>10, <2>11
            DEF Next, Store!Next
<1>3. QED BY <1>1, <1>2, AlwaysIInv, PTL DEF Spec, StoreImplemented, Store!Spec

-----------------------------------------------------------------------------
(* A run of a Workflow graph, for every document, schema and script.       *)

\* Before a run starts no Command Node has returned anything.
FreshUntilStarted == phase = "draft" => results = <<>>

\* Once no Command is scheduled, none is at work either.
NothingLeftAtEnd == phase \in {"output", "completed"} => tasks = {} /\ results = <<>>

\* An MCP Tool with a schema completes only from its output Node.
AnswerChecked == phase = "completed" /\ ChecksOutput(doc) => state \in FinalStates

RunInv == StateAlwaysValid /\ FreshUntilStarted /\ NothingLeftAtEnd /\ AnswerChecked

\* After a step that schedules nothing no task is left, and only a graph
\* without an output to check is then completed.
LEMMA EndOfStep ==
    ASSUME NEW d, NEW targets
    PROVE  /\ AfterStep(d, targets) \in {"running", "output", "completed"}
           /\ AfterStep(d, targets) # "running" => Scheduled(d, targets) = {}
           /\ AfterStep(d, targets) = "completed" => ~ ChecksOutput(d)
BY DEF AfterStep

\* A new document satisfies the invariant.
LEMMA InitRunInv == RunInit => RunInv
BY DEF RunInit, RunInv, StateAlwaysValid, FreshUntilStarted, NothingLeftAtEnd, AnswerChecked

\* No step of a run breaks the invariant.
LEMMA NextRunInv == RunInv /\ [RunNext]_runVars => RunInv'
<1> SUFFICES ASSUME RunInv, [RunNext]_runVars PROVE RunInv'
  OBVIOUS
<1> USE DEF RunInv, StateAlwaysValid, FreshUntilStarted, NothingLeftAtEnd, AnswerChecked
<1>1. CASE Reject
  BY <1>1 DEF Reject
<1>2. CASE Start
  <2> DEFINE first == UNION {TargetsOf(doc, n) : n \in OfType(doc, "start")}
  <2>1. CASE Satisfies(doc, state)
    <3>1. phase' = AfterStep(doc, first) /\ tasks' = Scheduled(doc, first)
      BY <1>2, <2>1 DEF Start
    <3>2. phase = "draft" /\ UNCHANGED <<doc, state, results>>
      BY <1>2 DEF Start
    <3> HIDE DEF first
    <3>3. QED BY <2>1, <3>1, <3>2, EndOfStep DEF Satisfies, ChecksOutput
  <2>2. CASE ~ Satisfies(doc, state)
    BY <1>2, <2>2 DEF Start
  <2>3. QED BY <2>1, <2>2
<1>3. ASSUME NEW n \in tasks, CommandEnds(n) PROVE RunInv'
  BY <1>3 DEF CommandEnds, Satisfies, ChecksOutput
<1>4. ASSUME NEW n \in tasks, CommandFails(n) PROVE RunInv'
  BY <1>4 DEF CommandFails
<1>5. CASE StepEnds
  <2>1. PICK order \in SetToAllKPermutations(tasks) :
          LET updates == [i \in 1 .. Len(order) |-> results[order[i]].update]
              targets == UNION {results[n].goto : n \in tasks}
          IN /\ Len(order) = Cardinality(tasks)
             /\ IF Collides(doc, results) \/ ~ AcceptsStep(doc, state, updates)
                THEN /\ phase' = "failed"
                     /\ UNCHANGED <<state, tasks, results>>
                ELSE /\ state' = Accumulated(state, updates)
                     /\ tasks' = Scheduled(doc, targets)
                     /\ phase' = AfterStep(doc, targets)
                     /\ results' = <<>>
    BY <1>5 DEF StepEnds
  <2> DEFINE updates == [i \in 1 .. Len(order) |-> results[order[i]].update]
             targets == UNION {results[n].goto : n \in tasks}
  <2>2. phase = "running" /\ doc' = doc
    BY <1>5 DEF StepEnds
  <2>3. CASE Collides(doc, results) \/ ~ AcceptsStep(doc, state, updates)
    <3>1. phase' = "failed"
      BY <2>1, <2>3
    <3>2. QED BY <3>1
  <2>4. CASE ~ (Collides(doc, results) \/ ~ AcceptsStep(doc, state, updates))
    <3>1. /\ state' = Accumulated(state, updates)
          /\ tasks' = Scheduled(doc, targets)
          /\ phase' = AfterStep(doc, targets)
          /\ results' = <<>>
      BY <2>1, <2>4
    <3>2. AcceptsStep(doc, state, updates)
      BY <2>4
    <3> HIDE DEF updates, targets
    <3>3. Satisfies(doc, state')
      BY <3>1, <3>2 DEF AcceptsStep
    <3>4. QED BY <2>2, <3>1, <3>3, EndOfStep DEF Satisfies, ChecksOutput
  <2>5. QED BY <2>3, <2>4
<1>6. CASE StepsExhausted
  BY <1>6 DEF StepsExhausted
<1>7. CASE OutputValidated
  BY <1>7 DEF OutputValidated, Satisfies, ChecksOutput
<1>8. CASE UNCHANGED runVars
  BY <1>8 DEF runVars, Satisfies, ChecksOutput
<1>9. QED BY <1>1, <1>2, <1>3, <1>4, <1>5, <1>6, <1>7, <1>8 DEF RunNext

\* A run that goes on has a State its schema accepts: the State channel
\* validates what the updates of a super-step add up to before it takes them
\* (_ValidatedWorkflowStateChannel.update, _ValidatedFlatStateChannel.update).
THEOREM ValidStates_Spec == RunSpec => []StateAlwaysValid
<1>1. RunInv => StateAlwaysValid
  BY DEF RunInv
<1>2. QED BY InitRunInv, NextRunInv, <1>1, PTL DEF RunSpec

\* A completed run has no task left, and an MCP Tool call that succeeds has
\* an answer its Output model accepts (compile_mcp_tool_graph's deferred
\* output Node runs when nothing else is left to run).
THEOREM ValidAnswer_Spec == RunSpec => []AnswerIsValid
<1>1. RunInv => AnswerIsValid
  BY DEF RunInv, NothingLeftAtEnd, AnswerChecked, AnswerIsValid
<1>2. QED BY InitRunInv, NextRunInv, <1>1, PTL DEF RunSpec

==============================================================================
