----------------------------- MODULE ConfigStore -----------------------------
(***************************************************************************)
(* What the configuration store promises, whatever files it is kept in.    *)
(* A change either happens as a whole or not at all, and only in the       *)
(* repository it was meant for; deleting records never leaves a published  *)
(* graph without something it needs; and a restart in the middle of a      *)
(* change finds, record by record, the old or the new value, in a mixture  *)
(* that breaks no graph which was whole both before and after the change.  *)
(***************************************************************************)
EXTENDS ConfigGraph

CONSTANTS
  Repositories,
  Home           \* the repository each record belongs to

VARIABLES
  active,        \* the repository in use
  records,       \* what each repository holds, as its users see it
  pending,       \* the change being made to the active one, or what it holds
  may,           \* the values each record may have after a restart
  doubtful       \* "none", "undoing" a change that was given up, or "lost":
                 \* one may not have been undone

storeVars == <<active, records, pending, may, doubtful>>

Sure(c) == [e \in Entities |-> {c[e]}]

(* What one command may ask for: one record saved, or some deleted.        *)
Saves(old, new) ==
  \E e \in Entities :
    /\ new[e] # Absent
    /\ \A o \in Entities \ {e} : new[o] = old[o]
Deletes(old, new) ==
  /\ \A e \in Entities :
       \/ new[e] \in {old[e], Absent}
       \/ e \in Published(old) /\ new[e] = [old[e] EXCEPT !.enabled = FALSE]
  /\ Dangling(new) \subseteq Dangling(old)

Init ==
  /\ active \in Repositories
  /\ records \in [Repositories -> Configs]
  /\ \A r \in Repositories :
       \A e \in Present(records[r]) : Home[e] = r
  /\ pending = records[active]
  /\ may = [r \in Repositories |-> Sure(records[r])]
  /\ doubtful = "none"

Begin ==
  /\ \/ Saves(records[active], pending')
     \/ Deletes(records[active], pending')
  /\ \A e \in Present(pending') : Home[e] = active
  /\ may' = [may EXCEPT ![active] = [e \in Entities |-> @[e] \cup {pending'[e]}]]
  /\ UNCHANGED <<active, records, doubtful>>

(* Files are written: what a restart may find narrows.                     *)
Narrowed ==
  /\ \A e \in Entities :
       may'[active][e] \subseteq may[active][e] /\ records[active][e] \in may'[active][e]
  /\ may' = [may EXCEPT ![active] = may'[active]]

Settle == Narrowed /\ UNCHANGED <<active, records, pending, doubtful>>

Commit ==
  /\ records' = [records EXCEPT ![active] = pending]
  /\ may' = [may EXCEPT ![active] = Sure(pending)]
  /\ doubtful' = "none"
  /\ UNCHANGED <<active, pending>>

(* The change fails and is being undone, it is undone, or that fails too.  *)
Abandon ==
  /\ doubtful' = IF doubtful = "lost" THEN "lost" ELSE "undoing"
  /\ UNCHANGED <<active, records, pending, may>>

Undone ==
  /\ pending' = records[active]
  /\ may' = [may EXCEPT ![active] = Sure(records[active])]
  /\ doubtful' = "none"
  /\ UNCHANGED <<active, records>>

Lose ==
  /\ pending' = records[active]
  /\ doubtful' = "lost"
  /\ Narrowed
  /\ UNCHANGED <<active, records>>

(* The configuration is read again, by a restart or a switch of repository.*)
(* Graphs that name what is written after them may suffer from an undoing; *)
(* nothing is promised once a change could not be undone.                  *)
Excused ==
  CASE doubtful = "none" -> {} [] doubtful = "undoing" -> Early [] doubtful = "lost" -> Graphs

Reload ==
  /\ active' \in Repositories
  /\ \A e \in Entities : records'[active][e] \in may[active][e]
  /\ records' = [records EXCEPT ![active] = records'[active]]
  /\ Dangling(records'[active]) \subseteq
       Dangling(records[active]) \cup Dangling(pending) \cup Excused
  /\ pending' = records'[active']
  /\ may' = [may EXCEPT ![active] = Sure(records'[active])]
  /\ doubtful' = "none"

Next == Begin \/ Settle \/ Commit \/ Abandon \/ Undone \/ Lose \/ Reload

Spec == Init /\ [][Next]_storeVars
=============================================================================
