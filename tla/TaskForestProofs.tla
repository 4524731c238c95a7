-------------------------- MODULE TaskForestProofs --------------------------
(***************************************************************************)
(* What a user of the tasks table can conclude from TaskForest alone, for  *)
(* any set of ids: the tasks are a forest whenever one looks, a deletion   *)
(* takes out one tree of it, and an id stands for one task in all time.    *)
(* TaskTable keeps these promises since it implements the module.          *)
(*                                                                         *)
(* Nothing is assumed of Ids but that the root marker is not one of them:  *)
(* in the table it is NULL, 0 in the model, and the sequence starts at 1.  *)
(***************************************************************************)
EXTENDS TaskForest, TLAPS

\* An id is in one stage of its life.
Stages ==
  /\ parent = [i \in Tasks |-> parent[i]]
  /\ Tasks \subseteq Ids /\ unused \subseteq Ids /\ pending \subseteq Ids
  /\ Tasks \cap pending = {}
  /\ unused \cap (Tasks \cup pending) = {}

\* Every parent is there.
Rooted == \A i \in Tasks : parent[i] \in Tasks \cup {NoParent}

\* Among any tasks there is one whose parent is not among them.
WellFounded ==
  \A tasks \in SUBSET Tasks : tasks # {} => \E i \in tasks : parent[i] \notin tasks

FInv == Stages /\ Rooted /\ WellFounded

-----------------------------------------------------------------------------
(* Subtrees.                                                               *)

\* The subtree of a task holds it, and with a task everything below it.
LEMMA SubtreeClosed ==
  ASSUME NEW root \in Tasks
  PROVE  root \in Subtree(root) /\ ClosedBelow(Subtree(root)) /\ Subtree(root) \subseteq Tasks
BY DEF Subtree, ClosedBelow

\* It hangs together: but for the root, the parent of what is in it is in it.
LEMMA SubtreeConnected ==
  ASSUME NEW root \in Tasks, NEW i \in Subtree(root) \ {root}
  PROVE  parent[i] \in Subtree(root)
<1> SUFFICES ASSUME parent[i] \notin Subtree(root) PROVE FALSE
    OBVIOUS
<1> DEFINE rest == Subtree(root) \ {i}
<1>1. rest \in SUBSET Tasks /\ root \in rest BY SubtreeClosed
<1>2. ClosedBelow(rest) BY SubtreeClosed DEF ClosedBelow
<1>3. i \in Tasks /\ i \in rest BY <1>1, <1>2 DEF Subtree
<1>4. QED BY <1>3

\* In a forest it ends at its root: the root's parent is outside.
LEMMA SubtreeRoot ==
  ASSUME WellFounded, NEW root \in Tasks
  PROVE  parent[root] \notin Subtree(root)
<1>1. PICK i \in Subtree(root) : parent[i] \notin Subtree(root)
  BY SubtreeClosed DEF WellFounded
<1>2. i = root BY <1>1, SubtreeConnected
<1>3. QED BY <1>1, <1>2

-----------------------------------------------------------------------------
(* The forest stays one.                                                   *)

LEMMA CreateKeeps ==
  ASSUME NoParent \notin Ids, FInv, NEW i \in Ids, NEW p \in Ids \cup {NoParent}, Create(i, p)
  PROVE  FInv'
<1>1. /\ i \notin Tasks /\ i # NoParent /\ p # i
      /\ Tasks' = Tasks \cup {i} /\ parent'[i] = p
      /\ \A j \in Tasks : parent'[j] = parent[j] /\ parent[j] # i
  BY DEF Create, Tasks, FInv, Stages, Rooted
<1>2. Stages'
  <2>1. parent' = [j \in Tasks' |-> parent'[j]] BY DEF Create, Tasks
  <2>2. QED BY <1>1, <2>1 DEF Create, FInv, Stages
<1>3. Rooted' BY <1>1 DEF Create, FInv, Rooted
<1>4. WellFounded'
  <2> SUFFICES ASSUME NEW tasks \in SUBSET Tasks', tasks # {}
               PROVE  \E j \in tasks : parent'[j] \notin tasks
    BY DEF WellFounded
  <2>1. CASE tasks = {i} BY <1>1, <2>1
  <2>2. CASE tasks # {i}
    <3>1. tasks \ {i} \in SUBSET Tasks /\ tasks \ {i} # {} BY <1>1, <2>2
    <3>2. PICK j \in tasks \ {i} : parent[j] \notin tasks \ {i}
      BY <3>1 DEF FInv, WellFounded
    <3>3. QED BY <1>1, <3>1, <3>2
  <2>3. QED BY <2>1, <2>2
<1>5. QED BY <1>2, <1>3, <1>4 DEF FInv

LEMMA DeleteKeeps ==
  ASSUME FInv, NEW root \in Ids, Delete(root)
  PROVE  FInv'
<1>1. /\ root \in Tasks /\ Tasks' = Tasks \ Subtree(root)
      /\ \A i \in Tasks' : parent'[i] = parent[i]
      /\ UNCHANGED <<unused, pending>>
  BY DEF Delete, Tasks
<1>2. Stages'
  <2>1. parent' = [j \in Tasks' |-> parent'[j]] BY DEF Delete, Tasks
  <2>2. QED BY <1>1, <2>1 DEF FInv, Stages
<1>3. Rooted' BY <1>1, SubtreeClosed DEF FInv, Rooted, ClosedBelow
<1>4. WellFounded' BY <1>1 DEF FInv, WellFounded
<1>5. QED BY <1>2, <1>3, <1>4 DEF FInv

LEMMA Keeps == NoParent \notin Ids /\ FInv /\ [Next]_vars => FInv'
<1> SUFFICES ASSUME NoParent \notin Ids, FInv, [Next]_vars PROVE FInv'
    OBVIOUS
<1>1. ASSUME NEW i \in Ids, Draw(i) \/ Abandon(i) PROVE FInv'
  <2>1. UNCHANGED <<parent, Tasks>> BY <1>1 DEF Draw, Abandon, Tasks
  <2>2. /\ unused' \subseteq unused /\ pending' \subseteq pending \cup {i}
        /\ unused' \cap pending' = {} /\ Tasks \cap pending' = {}
    BY <1>1 DEF Draw, Abandon, FInv, Stages
  <2>3. QED BY <2>1, <2>2 DEF FInv, Stages, Rooted, WellFounded
<1>2. CASE UNCHANGED vars BY <1>2 DEF vars, Tasks, FInv, Stages, Rooted, WellFounded
<1>3. QED BY <1>1, <1>2, CreateKeeps, DeleteKeeps DEF Next

\* 0001_init.sql:15: whenever one looks, an id is in one stage of its life,
\* the parent of a task is a task, and no task is its own ancestor.
THEOREM AlwaysAForest ==
  ASSUME NoParent \notin Ids
  PROVE  Spec => []FInv
<1>1. Init => FInv BY DEF Init, Tasks, FInv, Stages, Rooted, WellFounded
<1>2. NoParent \notin Ids => (FInv /\ [Next]_vars => FInv') BY Keeps
<1>3. FInv /\ [Next]_vars => FInv' BY <1>2
<1>4. QED BY <1>1, <1>3, PTL DEF Spec

\* 0001_init.sql:15 (AC-47): a deletion takes out one tree, whole: the parent
\* of what goes goes too, but for the root's, and of what stays stays.
THEOREM OneTreeGoes ==
  ASSUME NoParent \notin Ids
  PROVE  Spec => [][\A root \in Ids : Delete(root) =>
                      LET gone == Tasks \ Tasks' IN
                      /\ root \in gone /\ parent[root] \notin gone
                      /\ \A i \in gone \ {root} : parent[i] \in gone
                      /\ \A i \in Tasks : parent[i] \in gone => i \in gone]_vars
<1> DEFINE Whole == \A root \in Ids : Delete(root) =>
                      LET gone == Tasks \ Tasks' IN
                      /\ root \in gone /\ parent[root] \notin gone
                      /\ \A i \in gone \ {root} : parent[i] \in gone
                      /\ \A i \in Tasks : parent[i] \in gone => i \in gone
<1>1. ASSUME FInv PROVE Whole
  <2> SUFFICES ASSUME NEW root \in Ids, Delete(root)
               PROVE  LET gone == Tasks \ Tasks' IN
                      /\ root \in gone /\ parent[root] \notin gone
                      /\ \A i \in gone \ {root} : parent[i] \in gone
                      /\ \A i \in Tasks : parent[i] \in gone => i \in gone
    OBVIOUS
  <2>1. root \in Tasks /\ Tasks' = Tasks \ Subtree(root) BY DEF Delete, Tasks
  <2>2. Tasks \ Tasks' = Subtree(root) BY <2>1, SubtreeClosed
  <2>3. QED
    BY <1>1, <2>1, <2>2, SubtreeClosed, SubtreeConnected, SubtreeRoot DEF FInv, ClosedBelow
<1> HIDE DEF Whole
<1>2. FInv => [Whole]_vars BY <1>1
<1>3. Spec => [][Whole]_vars BY <1>2, AlwaysAForest, PTL DEF Spec
<1>4. QED BY <1>3 DEF Whole
=============================================================================
