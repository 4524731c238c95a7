----------------------------- MODULE TaskForest -----------------------------
(***************************************************************************)
(* What the tasks table promises whoever creates and deletes tasks,        *)
(* without sessions, locks or cascades that take their time: a task joins  *)
(* the forest in one step, under a task that is there, and leaves it in    *)
(* one step with everything below it; its id is never another's.           *)
(* TaskTable implements this module.                                       *)
(***************************************************************************)
CONSTANTS
  Ids,      \* the ids that can be drawn
  NoParent  \* the parent of a root

VARIABLES
  parent,  \* the tasks: their ids to their parents
  unused,  \* the ids that were not drawn yet
  pending  \* the ids of tasks that are being created

vars == <<parent, unused, pending>>

Tasks == DOMAIN parent

\* A set of tasks with everything below it.
ClosedBelow(tasks) == \A i \in Tasks : parent[i] \in tasks => i \in tasks

\* A task and everything below it.
Subtree(root) ==
  {i \in Tasks : \A tasks \in SUBSET Tasks : root \in tasks /\ ClosedBelow(tasks) => i \in tasks}

Init ==
  /\ parent = [i \in {} |-> NoParent]
  /\ unused = Ids
  /\ pending = {}

\* A create draws its id, and may have failed already.
Draw(i) ==
  /\ i \in unused
  /\ unused' = unused \ {i}
  /\ pending' \in {pending, pending \cup {i}}
  /\ UNCHANGED parent

\* It fails: the id is lost.
Abandon(i) ==
  /\ i \in pending
  /\ pending' = pending \ {i}
  /\ UNCHANGED <<parent, unused>>

\* It succeeds: the parent is there, at this moment.
Create(i, p) ==
  /\ i \in pending
  /\ p \in Tasks \cup {NoParent}
  /\ parent' = [j \in Tasks \cup {i} |-> IF j = i THEN p ELSE parent[j]]
  /\ pending' = pending \ {i}
  /\ UNCHANGED unused

Delete(root) ==
  /\ root \in Tasks
  /\ parent' = [i \in Tasks \ Subtree(root) |-> parent[i]]
  /\ UNCHANGED <<unused, pending>>

Next ==
  \/ \E i \in Ids : Draw(i) \/ Abandon(i) \/ Delete(i)
  \/ \E i \in Ids, p \in Ids \cup {NoParent} : Create(i, p)

Spec == Init /\ [][Next]_vars

-----------------------------------------------------------------------------
\* The id was lost, or its task was deleted.
Gone(i) == i \notin Tasks \cup unused \cup pending

\* An id that is gone stays so: no later task is taken for an earlier one.
GoneForGood == [][\A i \in Ids : Gone(i) => Gone(i)']_vars
=============================================================================
