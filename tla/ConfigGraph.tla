----------------------------- MODULE ConfigGraph -----------------------------
(***************************************************************************)
(* The reference graph of a configuration: the records of a repository,    *)
(* which of them name which others, and what deleting some of them does to *)
(* the published ones (configuration/dependencies.py, publication.py).     *)
(***************************************************************************)
EXTENDS Integers, FiniteSets

CONSTANTS
  Entities,      \* every record a repository may hold
  Kind,          \* what each one is
  MayRefer,      \* the sets of records each one may be saved with references to
  Absent         \* no such record

Kinds == {"component", "external", "main", "subagent", "mcp", "workflow"}
(* The records that carry an "enabled" flag.                               *)
Graphs == {e \in Entities : Kind[e] \in {"main", "mcp", "workflow"}}
Components == {e \in Entities : Kind[e] = "component"}

ASSUME GraphAssumption ==
  /\ IsFiniteSet(Entities)
  /\ Kind \in [Entities -> Kinds]
  /\ MayRefer \in [Entities -> SUBSET SUBSET Entities]
  /\ Absent \notin [refs : SUBSET Entities, enabled : BOOLEAN]

(* What a record of each kind may name (the reference iterators).          *)
ReferenceKinds(kind) ==
  CASE kind \in {"component", "subagent"} -> {"component"}
    [] kind = "external" -> {}
    [] kind = "main" -> {"component", "subagent"}
    [] kind \in {"mcp", "workflow"} -> {"component", "external"}

Records == [refs : SUBSET Entities, enabled : BOOLEAN]
Configs == [Entities -> Records \cup {Absent}]
Record(refs, enabled) == [refs |-> refs, enabled |-> enabled]
Nothing == [e \in Entities |-> Absent]

Present(c) == {e \in Entities : c[e] # Absent}
Published(c) == {e \in Present(c) \cap Graphs : c[e].enabled}
RefsIn(c, e) == IF c[e] = Absent THEN {} ELSE c[e].refs

(* What is reached from a set of records by following references: the      *)
(* least set around it that no reference leads out of.                     *)
Closed(c, s) == \A e \in s : RefsIn(c, e) \subseteq s
Needed(c, from) ==
  LET closed == {s \in SUBSET Entities : from \subseteq s /\ Closed(c, s)}
  IN  {e \in Entities : \A s \in closed : e \in s}

Whole(c, refs) == Needed(c, refs) \subseteq Present(c)

(* The published graphs that cannot be assembled any more.                 *)
Dangling(c) == {e \in Published(c) : ~Whole(c, c[e].refs)}

(* The reverse walk: everything that names, directly or not, a record that *)
(* is being deleted.                                                       *)
Affected(c, gone) ==
  LET references == UNION {{<<o, t>> : t \in c[o].refs} : o \in Present(c)}
      owners == {r[1] : r \in references}
      closed == {s \in SUBSET owners : \A r \in references : r[2] \in gone \cup s => r[1] \in s}
  IN  gone \cup {o \in owners : \A s \in closed : o \in s}

(* demote_dependent_publications followed by the removal of the records:   *)
(* the published graphs affected become drafts, references stay as written.*)
Deleted(c, gone) ==
  LET demoted == Published(c) \cap Affected(c, gone)
  IN  [e \in Entities |->
         IF e \in gone THEN Absent
         ELSE IF e \in demoted THEN [c[e] EXCEPT !.enabled = FALSE]
              ELSE c[e]]

(* The order in which a flush writes the records of a repository, and then *)
(* the order in which it removes the files of records that are gone.       *)
WriteRank(e) ==
  CASE Kind[e] = "component" -> 1
    [] Kind[e] = "external" -> 2
    [] Kind[e] = "main" -> 3
    [] Kind[e] = "subagent" -> 4
    [] Kind[e] = "mcp" -> 5
    [] Kind[e] = "workflow" -> 6
UnlinkRank(e) ==
  CASE Kind[e] = "component" -> 1
    [] Kind[e] \in {"external", "main", "subagent"} -> 2
    [] Kind[e] = "mcp" -> 3
    [] Kind[e] = "workflow" -> 4

(* The graphs that may name a record written after them.                   *)
Early == {e \in Graphs :
            \E refs \in MayRefer[e] : \E t \in refs : WriteRank(t) > WriteRank(e)}
=============================================================================
