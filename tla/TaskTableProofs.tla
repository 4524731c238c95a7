--------------------------- MODULE TaskTableProofs ---------------------------
(***************************************************************************)
(* Why the tasks table keeps its hierarchy for any number of sessions and  *)
(* ids.  IInv adds to the promises who locks what: an insert that has seen *)
(* its parent keeps others from deleting it, no two deletes hold one row,  *)
(* and what a delete holds hangs together.                                 *)
(***************************************************************************)
EXTENDS TaskTable, FiniteSetTheorems, TLAPS

\* Every id in use was drawn.
Drawn ==
  /\ \A i \in DOMAIN parent : i < nextId
  /\ \A s \in Session : Inserting(s) => row[s].id \in Ids /\ row[s].parent # row[s].id

\* The parent an insert has seen is there, and nobody is deleting it.
ParentHeld ==
  \A s \in Session : work[s] = "inserted" =>
    /\ row[s].parent \in DOMAIN parent \cup {NoParent}
    /\ \A t \in Session : row[s].parent \notin doomed[t]

\* Deletes hold committed rows, each its own, all below the first.
DoomedRows ==
  /\ \A s \in Session : doomed[s] \subseteq DOMAIN parent
  /\ \A s, t \in Session : s # t => doomed[s] \cap doomed[t] = {}
  /\ \A s \in Session : doomed[s] # {} =>
       \E root \in doomed[s] : \A i \in doomed[s] \ {root} : parent[i] \in doomed[s]

IInv ==
  /\ TypeOK /\ IdsUnique /\ Drawn
  /\ ParentHeld /\ DoomedRows
  /\ NoDanglingParent /\ Acyclic

-----------------------------------------------------------------------------
LEMMA InitIInv == Init => IInv
<1> SUFFICES ASSUME Init PROVE IInv
    OBVIOUS
<1>1. DOMAIN parent = {} BY DEF Init
<1>2. TypeOK
  <2>1. DOMAIN parent \subseteq Ids /\ parent \in [DOMAIN parent -> Ids \cup {NoParent}]
    BY <1>1 DEF Init
  <2>2. QED BY <2>1, MaxIdAssumption DEF Init, TypeOK, Ids, NoParent
<1>3. QED
  BY <1>1, <1>2 DEF Init, IInv, IdsUnique, Drawn, ParentHeld, DoomedRows,
     NoDanglingParent, Acyclic, Inserting

\* Types, step by step.
LEMMA TypeStep == TypeOK /\ Drawn /\ [Next]_vars => TypeOK'
<1> SUFFICES ASSUME TypeOK, Drawn, [Next]_vars PROVE TypeOK'
    OBVIOUS
<1> USE MaxIdAssumption DEF TypeOK, Ids, NoParent
<1>1. ASSUME NEW s \in Session, NEW p \in Ids \cup {NoParent}, Insert(s, p) PROVE TypeOK'
  BY <1>1 DEF Insert
<1>2. ASSUME NEW s \in Session, NEW i \in Ids, Delete(s, i) PROVE TypeOK'
  BY <1>2 DEF Delete
<1>3. ASSUME NEW s \in Session, CheckParent(s) PROVE TypeOK'
  BY <1>3 DEF CheckParent, MayCheckParent
<1>4. ASSUME NEW s \in Session, CommitInsert(s), row[s].id \in Ids PROVE TypeOK'
  <2>1. row[s].parent \in Ids \cup {NoParent} BY DEF TypeOK
  <2>2. DOMAIN parent' = DOMAIN parent \cup {row[s].id} BY <1>4 DEF CommitInsert
  <2>3. \A i \in DOMAIN parent' : parent'[i] \in Ids \cup {NoParent}
    BY <1>4, <2>1 DEF CommitInsert
  <2>4. parent' = [i \in DOMAIN parent' |-> parent'[i]] BY <1>4 DEF CommitInsert
  <2>5. DOMAIN parent' \subseteq Ids /\ parent' \in [DOMAIN parent' -> Ids \cup {NoParent}]
    BY <1>4, <2>2, <2>3, <2>4
  <2>6. QED BY <1>4, <2>5 DEF CommitInsert
<1>5. ASSUME NEW s \in Session, NEW i \in Ids, Cascade(s, i) PROVE TypeOK'
  BY <1>5 DEF Cascade, MayCascade
<1>6. ASSUME NEW s \in Session, CommitDelete(s) PROVE TypeOK'
  <2>1. DOMAIN parent' \subseteq Ids /\ parent' \in [DOMAIN parent' -> Ids \cup {NoParent}]
    BY <1>6 DEF CommitDelete
  <2>2. QED BY <1>6, <2>1 DEF CommitDelete
<1>7. ASSUME NEW s \in Session, Rollback(s) PROVE TypeOK'
  BY <1>7 DEF Rollback
<1>8. CASE UNCHANGED vars BY <1>8 DEF vars
<1>9. \A s \in Session : CommitInsert(s) => row[s].id \in Ids
  BY DEF CommitInsert, Drawn, Inserting
<1>10. QED
  BY <1>1, <1>2, <1>3, <1>4, <1>5, <1>6, <1>7, <1>8, <1>9 DEF Next, Proceed

-----------------------------------------------------------------------------
(* One lemma per action.                                                   *)

LEMMA InsertKeeps ==
  ASSUME IInv, NEW s \in Session, NEW p \in Ids \cup {NoParent}, Insert(s, p)
  PROVE  /\ IdsUnique' /\ Drawn' /\ ParentHeld' /\ DoomedRows'
         /\ NoDanglingParent' /\ Acyclic'
<1> USE MaxIdAssumption DEF IInv, TypeOK, Ids
<1>1. UNCHANGED <<parent, doomed>> /\ nextId' = nextId + 1 BY DEF Insert
<1>2. DoomedRows' /\ NoDanglingParent' /\ Acyclic'
  BY <1>1 DEF DoomedRows, NoDanglingParent, Acyclic
<1>3. CASE UNCHANGED <<work, row>>
  BY <1>1, <1>2, <1>3 DEF IdsUnique, Drawn, ParentHeld, Inserting
<1>4. CASE /\ p # nextId
           /\ work' = [work EXCEPT ![s] = "checking"]
           /\ row' = [row EXCEPT ![s] = [id |-> nextId, parent |-> p]]
  <2>1. row'[s].id = nextId /\ row'[s].parent = p /\ nextId \in Ids
    BY <1>4 DEF Insert
  <2>2. \A t \in Session \ {s} : row'[t] = row[t] /\ work'[t] = work[t] BY <1>4
  <2>3. IdsUnique' BY <1>1, <1>4, <2>1, <2>2 DEF IdsUnique, Drawn, Inserting
  <2>4. Drawn' BY <1>1, <1>4, <2>1, <2>2 DEF Drawn, Inserting
  <2>5. ParentHeld' BY <1>1, <1>4, <2>2 DEF ParentHeld
  <2>6. QED BY <1>2, <2>3, <2>4, <2>5
<1>5. QED BY <1>3, <1>4 DEF Insert

LEMMA CheckParentKeeps ==
  ASSUME IInv, NEW s \in Session, CheckParent(s)
  PROVE  /\ IdsUnique' /\ Drawn' /\ ParentHeld' /\ DoomedRows'
         /\ NoDanglingParent' /\ Acyclic'
<1> USE DEF IInv, TypeOK
<1>1. UNCHANGED <<parent, nextId, row, doomed>> BY DEF CheckParent
<1>2. DoomedRows' /\ NoDanglingParent' /\ Acyclic'
  BY <1>1 DEF DoomedRows, NoDanglingParent, Acyclic
<1>3. \A t \in Session : Inserting(t)' => Inserting(t)
  BY DEF CheckParent, MayCheckParent, Inserting
<1>4. IdsUnique' /\ Drawn' BY <1>1, <1>3 DEF IdsUnique, Drawn, Inserting
<1>5. ParentHeld'
  <2>1. \A t \in Session \ {s} : work'[t] = work[t] BY DEF CheckParent
  <2>2. ASSUME work'[s] = "inserted"
        PROVE  row[s].parent \in DOMAIN parent \cup {NoParent}
    BY <2>2 DEF CheckParent, MayCheckParent, Drawn, Inserting
  <2>3. \A t \in Session : row[s].parent \notin doomed[t]
    BY DEF CheckParent, MayCheckParent, Deleted
  <2>4. QED BY <1>1, <2>1, <2>2, <2>3 DEF ParentHeld
<1>6. QED BY <1>2, <1>4, <1>5

\* The row that is committed has a parent that stays, and no row below it.
LEMMA CommitInsertKeeps ==
  ASSUME IInv, NEW s \in Session, CommitInsert(s)
  PROVE  /\ IdsUnique' /\ Drawn' /\ ParentHeld' /\ DoomedRows'
         /\ NoDanglingParent' /\ Acyclic'
<1> USE DEF IInv, TypeOK
<1> DEFINE new == row[s].id
           up  == row[s].parent
<1>1. /\ UNCHANGED <<nextId, row, doomed>>
      /\ work[s] = "inserted"
      /\ \A t \in Session : Inserting(t)' <=> Inserting(t) /\ t # s
      /\ \A t \in Session : work'[t] = "inserted" <=> work[t] = "inserted" /\ t # s
  BY DEF CommitInsert, Inserting
<1>2. /\ new \in Ids /\ new < nextId /\ new \notin DOMAIN parent /\ up # new
      /\ up \in DOMAIN parent \cup {NoParent}
  BY <1>1 DEF IdsUnique, Drawn, ParentHeld, Inserting
<1>3. /\ DOMAIN parent' = DOMAIN parent \cup {new}
      /\ parent'[new] = up
      /\ \A i \in DOMAIN parent : parent'[i] = parent[i]
  BY <1>2 DEF CommitInsert
<1>4. IdsUnique' BY <1>1, <1>3 DEF IdsUnique, Inserting
<1>5. Drawn' BY <1>1, <1>2, <1>3 DEF Drawn
<1>6. ParentHeld' BY <1>1, <1>3 DEF ParentHeld
<1>7. DoomedRows' BY <1>1, <1>2, <1>3 DEF DoomedRows
<1>8. NoDanglingParent' BY <1>2, <1>3 DEF NoDanglingParent
<1>9. Acyclic'
  <2> SUFFICES ASSUME NEW tasks \in SUBSET (DOMAIN parent \cup {new}), tasks # {}
               PROVE  \E i \in tasks : parent'[i] \notin tasks
    BY <1>3 DEF Acyclic
  <2>1. CASE tasks \subseteq {new} BY <2>1, <1>2, <1>3
  <2>2. CASE ~(tasks \subseteq {new})
    <3>1. PICK i \in tasks \ {new} : parent[i] \notin tasks \ {new}
      BY <2>2 DEF Acyclic
    <3>2. parent[i] # new
      BY <1>2, <3>1 DEF NoDanglingParent, Ids, NoParent
    <3>3. QED BY <1>3, <3>1, <3>2
  <2>3. QED BY <2>1, <2>2
<1>10. QED BY <1>4, <1>5, <1>6, <1>7, <1>8, <1>9

LEMMA DeleteKeeps ==
  ASSUME IInv, NEW s \in Session, NEW i \in Ids, Delete(s, i)
  PROVE  /\ IdsUnique' /\ Drawn' /\ ParentHeld' /\ DoomedRows'
         /\ NoDanglingParent' /\ Acyclic'
<1> USE DEF IInv, TypeOK
<1>1. /\ UNCHANGED <<parent, nextId, row>>
      /\ \A t \in Session : Inserting(t)' <=> Inserting(t)
      /\ \A t \in Session : work'[t] = "inserted" <=> work[t] = "inserted"
  BY DEF Delete, Inserting
<1>2. /\ i \in DOMAIN parent /\ ~Locked(i)
      /\ doomed'[s] = {i}
      /\ \A t \in Session \ {s} : doomed'[t] = doomed[t]
  BY DEF Delete
<1>3. IdsUnique' /\ Drawn' BY <1>1 DEF IdsUnique, Drawn, Inserting
<1>4. NoDanglingParent' /\ Acyclic' BY <1>1 DEF NoDanglingParent, Acyclic
<1>5. ParentHeld' BY <1>1, <1>2 DEF ParentHeld, Locked, KeyShared
<1>6. DoomedRows'
  <2>1. \A t \in Session \ {s} : i \notin doomed[t] BY <1>2 DEF Locked
  <2>2. \A t \in Session : doomed'[t] \subseteq DOMAIN parent' BY <1>1, <1>2 DEF DoomedRows
  <2>3. \A t, u \in Session : t # u => doomed'[t] \cap doomed'[u] = {}
    BY <1>2, <2>1 DEF DoomedRows
  <2>4. ASSUME NEW t \in Session, doomed'[t] # {}
        PROVE  \E root \in doomed'[t] : \A j \in doomed'[t] \ {root} : parent'[j] \in doomed'[t]
    <3>1. CASE t = s BY <1>2, <3>1
    <3>2. CASE t # s BY <1>1, <1>2, <2>4, <3>2 DEF DoomedRows
    <3>3. QED BY <3>1, <3>2
  <2>5. QED BY <2>2, <2>3, <2>4 DEF DoomedRows
<1>7. QED BY <1>3, <1>4, <1>5, <1>6

LEMMA CascadeKeeps ==
  ASSUME IInv, NEW s \in Session, NEW i \in Ids, Cascade(s, i)
  PROVE  /\ IdsUnique' /\ Drawn' /\ ParentHeld' /\ DoomedRows'
         /\ NoDanglingParent' /\ Acyclic'
<1> USE DEF IInv, TypeOK
<1>1. UNCHANGED <<parent, nextId, work, row>> BY DEF Cascade
<1>2. /\ i \in DOMAIN parent \ doomed[s] /\ parent[i] \in doomed[s] /\ ~Locked(i)
      /\ doomed'[s] = doomed[s] \cup {i}
      /\ \A t \in Session \ {s} : doomed'[t] = doomed[t]
  BY DEF Cascade, MayCascade, Children
<1>3. IdsUnique' /\ Drawn' /\ NoDanglingParent' /\ Acyclic'
  BY <1>1 DEF IdsUnique, Drawn, Inserting, NoDanglingParent, Acyclic
<1>4. ParentHeld' BY <1>1, <1>2 DEF ParentHeld, Locked, KeyShared
<1>5. DoomedRows'
  <2>1. \A t, u \in Session : t # u => doomed'[t] \cap doomed'[u] = {}
    BY <1>2 DEF DoomedRows, Locked
  <2>2. PICK root \in doomed[s] : \A j \in doomed[s] \ {root} : parent[j] \in doomed[s]
    BY <1>2 DEF DoomedRows
  <2>3. \A j \in doomed'[s] \ {root} : parent[j] \in doomed'[s] BY <1>2, <2>2
  <2>4. QED BY <1>1, <1>2, <2>1, <2>2, <2>3 DEF DoomedRows
<1>6. QED BY <1>3, <1>4, <1>5

\* Nothing a delete leaves behind is below what it takes.
LEMMA CommitDeleteKeeps ==
  ASSUME IInv, NEW s \in Session, CommitDelete(s)
  PROVE  /\ IdsUnique' /\ Drawn' /\ ParentHeld' /\ DoomedRows'
         /\ NoDanglingParent' /\ Acyclic'
<1> USE DEF IInv, TypeOK
<1>1. /\ UNCHANGED <<nextId, row>> /\ work[s] = "deleting"
      /\ \A t \in Session : Inserting(t)' <=> Inserting(t)
      /\ \A t \in Session : work'[t] = "inserted" <=> work[t] = "inserted"
  BY DEF CommitDelete, MayCommitDelete, Inserting
<1>2. /\ DOMAIN parent' = DOMAIN parent \ doomed[s]
      /\ \A i \in DOMAIN parent' : parent'[i] = parent[i]
      /\ \A i \in DOMAIN parent' : parent[i] \notin doomed[s]
      /\ doomed'[s] = {}
      /\ \A t \in Session \ {s} : doomed'[t] = doomed[t]
  BY DEF CommitDelete, MayCommitDelete, Children
<1>3. IdsUnique' /\ Drawn' BY <1>1, <1>2 DEF IdsUnique, Drawn, Inserting
<1>4. ParentHeld' BY <1>1, <1>2 DEF ParentHeld
<1>5. DoomedRows'
  <2>1. \A t \in Session : doomed'[t] \subseteq DOMAIN parent' BY <1>2 DEF DoomedRows
  <2>2. QED BY <1>2, <2>1 DEF DoomedRows
<1>6. NoDanglingParent' BY <1>2 DEF NoDanglingParent
<1>7. Acyclic' BY <1>2 DEF Acyclic
<1>8. QED BY <1>3, <1>4, <1>5, <1>6, <1>7

LEMMA RollbackKeeps ==
  ASSUME IInv, NEW s \in Session, Rollback(s)
  PROVE  /\ IdsUnique' /\ Drawn' /\ ParentHeld' /\ DoomedRows'
         /\ NoDanglingParent' /\ Acyclic'
<1> USE DEF IInv, TypeOK
<1>1. UNCHANGED <<parent, nextId, row>> BY DEF Rollback
<1>2. /\ \A t \in Session : Inserting(t)' => Inserting(t)
      /\ \A t \in Session : work'[t] = "inserted" => work[t] = "inserted"
      /\ doomed'[s] = {}
      /\ \A t \in Session \ {s} : doomed'[t] = doomed[t]
  BY DEF Rollback, Inserting
<1>3. IdsUnique' /\ Drawn' /\ NoDanglingParent' /\ Acyclic'
  BY <1>1, <1>2 DEF IdsUnique, Drawn, Inserting, NoDanglingParent, Acyclic
<1>4. ParentHeld' BY <1>1, <1>2 DEF ParentHeld
<1>5. DoomedRows' BY <1>1, <1>2 DEF DoomedRows
<1>6. QED BY <1>3, <1>4, <1>5

-----------------------------------------------------------------------------
(* Waiting.                                                                *)

\* Each task of a set of tasks whose parents are all in it lies on a cycle
\* or below one: there is none.
LEMMA NoClosedSet ==
  ASSUME Acyclic, NEW tasks \in SUBSET DOMAIN parent, tasks # {}
  PROVE  \E i \in tasks : parent[i] \notin tasks
BY DEF Acyclic

\* The deletes that are open are finitely many, and if each waits for another
\* then each is waited for.  A delete that waits does so for the delete of a
\* child of its rows, and that child is the first row of the other delete:
\* then every first row has its parent among the deleted rows, and the rows
\* being deleted would be a set in which everyone's parent is.
LEMMA SomeoneProceeds == IInv => NoDeadlock
<1> SUFFICES ASSUME IInv, NEW s0 \in Session, work[s0] # "idle",
                    \A s \in Session : ~MayProceed(s)
             PROVE  FALSE
  BY DEF NoDeadlock
<1>1. TypeOK /\ DoomedRows /\ Acyclic BY DEF IInv
<1> DEFINE D     == {s \in Session : work[s] = "deleting"}
           All   == UNION {doomed[s] : s \in D}
           First(s, r) == r \in doomed[s] /\ \A j \in doomed[s] \ {r} : parent[j] \in doomed[s]
           Waits(s, t) == \E i \in Ids : First(t, i) /\ parent[i] \in doomed[s]
<1>2. \A s \in Session : work[s] # "inserted" BY DEF MayProceed
<1>3. D # {}
  <2>1. CASE work[s0] = "deleting" BY <2>1
  <2>2. CASE work[s0] = "checking"
    <3>1. PICK t \in Session : row[s0].parent \in doomed[t]
      BY <2>2 DEF MayProceed, MayCheckParent, Deleted
    <3>2. work[t] = "deleting" BY <1>1, <3>1 DEF TypeOK
    <3>3. QED BY <3>2
  <2>3. QED BY <1>1, <1>2, <2>1, <2>2 DEF TypeOK
<1>4. \A t \in Session : \A i \in doomed[t] : i \in Ids /\ i \in DOMAIN parent /\ t \in D
  BY <1>1 DEF TypeOK, DoomedRows
<1>5. \A s, t \in Session : \A i : i \in doomed[s] /\ i \in doomed[t] => s = t
  BY <1>1 DEF DoomedRows
<1>6. ASSUME NEW s \in D PROVE \E t \in D : Waits(s, t)
  <2>1. PICK i \in Children(s) : TRUE BY DEF MayProceed, MayCommitDelete
  <2>2. i \in DOMAIN parent /\ i \notin doomed[s] /\ parent[i] \in doomed[s] BY DEF Children
  <2>3. i \in Ids BY <1>1, <2>2 DEF TypeOK
  <2>4. Locked(i) BY <2>3 DEF MayProceed, MayCascade
  <2>5. PICK t \in Session : i \in doomed[t] BY <1>2, <2>4 DEF Locked, KeyShared
  <2>6. t # s /\ parent[i] \notin doomed[t] BY <1>5, <2>2, <2>5
  <2>7. First(t, i)
    <3>1. PICK r \in doomed[t] : \A j \in doomed[t] \ {r} : parent[j] \in doomed[t]
      BY <1>1, <2>5 DEF DoomedRows
    <3>2. r = i BY <2>5, <2>6, <3>1
    <3>3. QED BY <3>1, <3>2
  <2>8. QED BY <1>4, <2>2, <2>3, <2>5, <2>7
<1>7. \A s, t, u \in D : Waits(s, u) /\ Waits(t, u) => s = t
  <2> SUFFICES ASSUME NEW s \in D, NEW t \in D, NEW u \in D, Waits(s, u), Waits(t, u), s # t
               PROVE  FALSE
    OBVIOUS
  <2>1. PICK i \in Ids : First(u, i) /\ parent[i] \in doomed[s] OBVIOUS
  <2>2. PICK j \in Ids : First(u, j) /\ parent[j] \in doomed[t] OBVIOUS
  <2>3. i # j BY <1>5, <2>1, <2>2
  <2>4. parent[i] \in doomed[u] /\ parent[j] \in doomed[u] BY <2>1, <2>2, <2>3
  <2>5. u = s /\ u = t BY <1>5, <2>1, <2>2, <2>4
  <2>6. QED BY <2>5
<1>8. IsFiniteSet(D)
  <2> DEFINE first == [s \in D |-> CHOOSE i \in Ids : i \in doomed[s]]
  <2>1. ASSUME NEW s \in D PROVE first[s] \in Ids /\ first[s] \in doomed[s]
    <3>1. \E i \in Ids : i \in doomed[s]
      BY <1>4 DEF MayProceed, MayCommitDelete, Children
    <3>2. QED BY <3>1
  <2> HIDE DEF first
  <2>2. \A s, t \in D : first[s] = first[t] => s = t BY <1>5, <2>1
  <2>3. first \in [D -> Ids] BY <2>1 DEF first
  <2>4. first \in Injection(D, Ids) BY <2>2, <2>3 DEF Injection, IsInjective
  <2>5. IsFiniteSet(Ids) BY MaxIdAssumption, FS_Interval DEF Ids
  <2>6. QED BY <2>4, <2>5, FS_Injection
<1> HIDE DEF Waits
<1>9. \A t \in D : \E s \in D : Waits(s, t)
  <2> DEFINE blocker == [s \in D |-> CHOOSE t \in D : Waits(s, t)]
  <2>1. \A s \in D : blocker[s] \in D /\ Waits(s, blocker[s]) BY <1>6
  <2>2. blocker \in [D -> D] BY <2>1
  <2> HIDE DEF blocker, D
  <2>3. blocker \in Injection(D, D) BY <1>7, <2>1, <2>2 DEF Injection, IsInjective
  <2>4. blocker \in Surjection(D, D) BY <1>8, <2>3, FS_Injection
  <2>5. \A t \in D : \E s \in D : blocker[s] = t BY <2>4 DEF Surjection
  <2>6. QED BY <2>1, <2>5
<1>10. \A i \in All : parent[i] \in All
  <2> SUFFICES ASSUME NEW t \in D, NEW i \in doomed[t] PROVE parent[i] \in All
    OBVIOUS
  <2>1. PICK s \in D, r \in Ids : First(t, r) /\ parent[r] \in doomed[s]
    BY <1>9 DEF Waits
  <2>2. QED BY <2>1
<1>11. All \in SUBSET DOMAIN parent BY <1>4
<1>12. All # {}
  <2>1. PICK s \in D : TRUE BY <1>3
  <2>2. PICK t \in D : Waits(s, t) BY <1>6
  <2>3. QED BY <2>2 DEF Waits
<1>13. QED BY <1>1, <1>10, <1>11, <1>12, NoClosedSet

-----------------------------------------------------------------------------
LEMMA Step == IInv /\ [Next]_vars => IInv'
<1> SUFFICES ASSUME IInv, [Next]_vars PROVE IInv'
    OBVIOUS
<1>1. TypeOK' BY TypeStep DEF IInv
<1>2. /\ IdsUnique' /\ Drawn' /\ ParentHeld' /\ DoomedRows'
      /\ NoDanglingParent' /\ Acyclic'
  <2>1. CASE UNCHANGED vars
    BY <2>1 DEF vars, IInv, IdsUnique, Drawn, ParentHeld, DoomedRows, NoDanglingParent,
       Acyclic, Inserting
  <2>2. CASE Next
    BY <2>2, InsertKeeps, CheckParentKeeps, CommitInsertKeeps, DeleteKeeps, CascadeKeeps,
       CommitDeleteKeeps, RollbackKeeps
    DEF Next, Proceed
  <2>3. QED BY <2>1, <2>2
<1>3. QED BY <1>1, <1>2 DEF IInv

\* The inductive invariant holds for any number of sessions and ids.
THEOREM Invariance == Spec => []IInv
BY InitIInv, Step, PTL DEF Spec

\* Every variable keeps its type, and only a delete that is open holds rows.
THEOREM Types == Spec => []TypeOK
BY Invariance, PTL DEF IInv

\* No two tasks have one id, whichever inserts overlap.
THEOREM Identity == Spec => []IdsUnique
BY Invariance, PTL DEF IInv

\* The parent of a committed task is a committed task, however inserts under
\* a task and its deletion overlap.
THEOREM ParentsExist == Spec => []NoDanglingParent
BY Invariance, PTL DEF IInv

\* No task is its own ancestor, whichever ids are drawn before which.
THEOREM Hierarchy == Spec => []Acyclic
BY Invariance, PTL DEF IInv

\* While a transaction is open, some transaction can go on without a rollback.
THEOREM SomeoneCanProceed == Spec => []NoDeadlock
BY Invariance, SomeoneProceeds, PTL

\* A commit removes a task and what is below it, all of it, or nothing.
THEOREM Cascading == Spec => CascadeExact
<1> DEFINE Exact ==
      LET gone == DOMAIN parent \ DOMAIN parent' IN
      /\ gone # {} =>
           /\ \E root \in gone : \A i \in gone \ {root} : parent[i] \in gone
           /\ \A i \in DOMAIN parent : parent[i] \in gone => i \in gone
      /\ \A i \in DOMAIN parent \ gone : parent'[i] = parent[i]
<1>1. ASSUME IInv, Next PROVE Exact
  <2>1. CASE UNCHANGED parent BY <2>1
  <2>2. ASSUME NEW s \in Session, CommitInsert(s) PROVE Exact
    <3>1. row[s].id \notin DOMAIN parent BY <1>1, <2>2 DEF IInv, IdsUnique, Inserting, CommitInsert
    <3>2. DOMAIN parent' = DOMAIN parent \cup {row[s].id} BY <2>2 DEF CommitInsert
    <3>3. \A i \in DOMAIN parent : parent'[i] = parent[i]
      BY <2>2, <3>1 DEF CommitInsert
    <3>4. QED BY <3>2, <3>3
  <2>3. ASSUME NEW s \in Session, CommitDelete(s) PROVE Exact
    <3>1. DOMAIN parent' = DOMAIN parent \ doomed[s] BY <2>3 DEF CommitDelete
    <3>2. doomed[s] \subseteq DOMAIN parent BY <1>1 DEF IInv, DoomedRows
    <3>3. DOMAIN parent \ DOMAIN parent' = doomed[s] BY <3>1, <3>2
    <3>4. \A i \in DOMAIN parent : parent[i] \in doomed[s] => i \in doomed[s]
      BY <2>3 DEF CommitDelete, MayCommitDelete, Children
    <3>5. \A i \in DOMAIN parent' : parent'[i] = parent[i] BY <2>3 DEF CommitDelete
    <3>6. doomed[s] # {} =>
            \E root \in doomed[s] : \A i \in doomed[s] \ {root} : parent[i] \in doomed[s]
      BY <1>1 DEF IInv, DoomedRows
    <3>7. QED BY <3>1, <3>3, <3>4, <3>5, <3>6
  <2>4. QED
    BY <1>1, <2>1, <2>2, <2>3
    DEF Next, Proceed, Insert, Delete, CheckParent, Cascade, Rollback
<1>2. IInv /\ [Next]_vars => [Exact]_vars BY <1>1
<1>3. QED BY <1>2, Invariance, PTL DEF Spec, CascadeExact
-----------------------------------------------------------------------------
(* The forest behind the table.                                            *)

Unused  == {i \in Ids : i >= nextId}
Pending == {row[s].id : s \in {t \in Session : Inserting(t)}}

\* What a delete holds when its cascade is done is one task and everything
\* below it: all of it, since nothing is left below, and nothing else, since
\* the tasks it holds beyond would have a first one, whose parent is below.
LEMMA DoomedSubtree ==
  ASSUME IInv, NEW s \in Session, MayCommitDelete(s), doomed[s] # {}
  PROVE  \E root \in doomed[s] : doomed[s] = Forest!Subtree(root)
<1>1. PICK root \in doomed[s] : \A i \in doomed[s] \ {root} : parent[i] \in doomed[s]
  BY DEF IInv, DoomedRows
<1>2. doomed[s] \in SUBSET DOMAIN parent BY DEF IInv, DoomedRows
<1>3. Forest!ClosedBelow(doomed[s])
  BY DEF Forest!ClosedBelow, Forest!Tasks, MayCommitDelete, Children
<1>4. Forest!Subtree(root) \subseteq doomed[s]
  BY <1>1, <1>2, <1>3 DEF Forest!Subtree, Forest!Tasks
<1>5. ASSUME NEW tasks \in SUBSET DOMAIN parent, root \in tasks, Forest!ClosedBelow(tasks)
      PROVE  doomed[s] \subseteq tasks
  <2> SUFFICES ASSUME doomed[s] \ tasks # {} PROVE FALSE
    OBVIOUS
  <2>1. PICK i \in doomed[s] \ tasks : parent[i] \notin doomed[s] \ tasks
    <3>1. doomed[s] \ tasks \in SUBSET DOMAIN parent BY <1>2
    <3>2. QED BY <3>1 DEF IInv, Acyclic
  <2>2. parent[i] \in tasks BY <1>1, <1>5, <2>1
  <2>3. QED BY <1>2, <1>5, <2>1, <2>2 DEF Forest!ClosedBelow, Forest!Tasks
<1>6. doomed[s] \subseteq Forest!Subtree(root)
  BY <1>2, <1>5 DEF Forest!Subtree, Forest!Tasks
<1>7. QED BY <1>4, <1>6

\* An insert that ends gives up its id and no other's.
LEMMA OnePending ==
  ASSUME IInv, NEW s \in Session, Inserting(s), UNCHANGED row,
         \A t \in Session : Inserting(t)' <=> Inserting(t) /\ t # s
  PROVE  row[s].id \in Pending /\ row[s].id \in Ids /\ Pending' = Pending \ {row[s].id}
<1>1. \A t \in Session \ {s} : Inserting(t) => row[t].id # row[s].id BY DEF IInv, IdsUnique
<1>2. row[s].id \in Ids BY DEF IInv, Drawn
<1>3. QED BY <1>1, <1>2 DEF Pending

LEMMA ForestStep == IInv /\ [Next]_vars => [Forest!Next]_(Forest!vars)
<1> SUFFICES ASSUME IInv, [Next]_vars, ~UNCHANGED Forest!vars PROVE Forest!Next
    OBVIOUS
<1> USE DEF Unused, Pending
<1>1. ~(UNCHANGED <<parent, Unused, Pending>>) BY DEF Forest!vars
<1>2. ~(UNCHANGED <<parent, nextId, row>> /\ \A t \in Session : Inserting(t)' <=> Inserting(t))
  BY <1>1
<1>3. ASSUME NEW s \in Session, NEW p \in Ids \cup {NoParent}, Insert(s, p) PROVE Forest!Next
  <2>1. PICK i \in Ids : i = nextId
    BY <1>3, MaxIdAssumption DEF Insert, IInv, TypeOK, Ids
  <2>2. i \in Unused /\ Unused' = Unused \ {i} /\ UNCHANGED parent
    <3>1. i = nextId /\ nextId' = i + 1 /\ UNCHANGED parent BY <1>3, <2>1 DEF Insert
    <3>2. \A j \in Ids : j >= i + 1 <=> j >= i /\ j # i BY MaxIdAssumption DEF Ids
    <3>3. QED BY <3>1, <3>2, MaxIdAssumption DEF Ids
  <2>3. Pending' \in {Pending, Pending \cup {i}}
    <3>1. CASE UNCHANGED <<work, row>> BY <3>1 DEF Inserting
    <3>2. CASE /\ work' = [work EXCEPT ![s] = "checking"]
               /\ row' = [row EXCEPT ![s] = [id |-> nextId, parent |-> p]]
      <4>1. /\ \A t \in Session : Inserting(t)' <=> Inserting(t) \/ t = s
            /\ ~Inserting(s)
        BY <1>3, <3>2 DEF Insert, Inserting, IInv, TypeOK
      <4>2. row'[s].id = i /\ \A t \in Session \ {s} : row'[t] = row[t]
        BY <2>1, <3>2 DEF IInv, TypeOK
      <4>3. Pending' = Pending \cup {i} BY <4>1, <4>2
      <4>4. QED BY <4>3
    <3>3. QED BY <1>3, <3>1, <3>2 DEF Insert
  <2>4. Forest!Draw(i) BY <2>2, <2>3 DEF Forest!Draw
  <2>5. QED BY <2>4 DEF Forest!Next
<1>4. ASSUME NEW s \in Session, Inserting(s), UNCHANGED <<parent, nextId, row>>,
             work' = [work EXCEPT ![s] = "idle"]
      PROVE  Forest!Next
  <2>1. \A t \in Session : Inserting(t)' <=> Inserting(t) /\ t # s
    BY <1>4 DEF Inserting, IInv, TypeOK
  <2>2. PICK i \in Ids : i \in Pending /\ Pending' = Pending \ {i}
    BY <1>4, <2>1, OnePending
  <2>3. Forest!Abandon(i) BY <1>4, <2>2 DEF Forest!Abandon
  <2>4. QED BY <2>3 DEF Forest!Next
<1>5. ASSUME NEW s \in Session, CheckParent(s) PROVE Forest!Next
  <2>1. UNCHANGED <<parent, nextId, row, doomed>> /\ Inserting(s)
    BY <1>5 DEF CheckParent, MayCheckParent, Inserting
  <2>2. CASE work' = [work EXCEPT ![s] = "inserted"]
    <3>1. \A t \in Session : Inserting(t)' <=> Inserting(t)
      BY <2>1, <2>2 DEF Inserting, IInv, TypeOK
    <3>2. QED BY <1>2, <2>1, <3>1
  <2>3. CASE work' = [work EXCEPT ![s] = "idle"] BY <1>4, <2>1, <2>3
  <2>4. QED BY <1>5, <2>2, <2>3 DEF CheckParent
<1>6. ASSUME NEW s \in Session, CommitInsert(s) PROVE Forest!Next
  <2>1. /\ Inserting(s) /\ UNCHANGED <<nextId, row>>
        /\ \A t \in Session : Inserting(t)' <=> Inserting(t) /\ t # s
    BY <1>6 DEF CommitInsert, Inserting, IInv, TypeOK
  <2>2. PICK i \in Ids : i = row[s].id /\ i \in Pending /\ Pending' = Pending \ {i}
    BY <2>1, OnePending
  <2>3. PICK p \in Ids \cup {NoParent} : p = row[s].parent BY DEF IInv, TypeOK
  <2>4. p \in DOMAIN parent \cup {NoParent} BY <1>6, <2>3 DEF CommitInsert, IInv, ParentHeld
  <2>5. Forest!Create(i, p)
    BY <1>6, <2>1, <2>2, <2>3, <2>4 DEF Forest!Create, Forest!Tasks, CommitInsert
  <2>6. QED BY <2>5 DEF Forest!Next
<1>7. ASSUME NEW s \in Session, NEW i \in Ids, Delete(s, i) \/ Cascade(s, i) PROVE Forest!Next
  <2>1. /\ UNCHANGED <<parent, nextId, row>>
        /\ \A t \in Session : Inserting(t)' <=> Inserting(t)
    BY <1>7 DEF Delete, Cascade, Inserting, IInv, TypeOK
  <2>2. QED BY <1>2, <2>1
<1>8. ASSUME NEW s \in Session, CommitDelete(s) PROVE Forest!Next
  <2>1. /\ UNCHANGED <<nextId, row>> /\ MayCommitDelete(s)
        /\ \A t \in Session : Inserting(t)' <=> Inserting(t)
        /\ parent' = [i \in DOMAIN parent \ doomed[s] |-> parent[i]]
    BY <1>8 DEF CommitDelete, MayCommitDelete, Inserting, IInv, TypeOK
  <2>2. CASE doomed[s] = {}
    <3>1. parent' = parent BY <2>1, <2>2 DEF IInv, TypeOK
    <3>2. QED BY <1>2, <2>1, <3>1
  <2>3. CASE doomed[s] # {}
    <3>1. PICK root \in doomed[s] : doomed[s] = Forest!Subtree(root)
      BY <2>1, <2>3, DoomedSubtree
    <3>2. root \in DOMAIN parent /\ root \in Ids BY DEF IInv, DoomedRows, TypeOK
    <3>3. UNCHANGED <<Unused, Pending>> BY <2>1
    <3>4. Forest!Delete(root) BY <2>1, <3>1, <3>2, <3>3 DEF Forest!Delete, Forest!Tasks
    <3>5. QED BY <3>2, <3>4 DEF Forest!Next
  <2>4. QED BY <2>2, <2>3
<1>9. ASSUME NEW s \in Session, Rollback(s) PROVE Forest!Next
  <2>1. UNCHANGED <<parent, nextId, row>> /\ work' = [work EXCEPT ![s] = "idle"]
    BY <1>9 DEF Rollback
  <2>2. CASE Inserting(s) BY <1>4, <2>1, <2>2
  <2>3. CASE ~Inserting(s)
    <3>1. \A t \in Session : Inserting(t)' <=> Inserting(t)
      BY <2>1, <2>3 DEF Inserting, IInv, TypeOK
    <3>2. QED BY <1>2, <2>1, <3>1
  <2>4. QED BY <2>2, <2>3
<1>10. CASE UNCHANGED vars BY <1>2, <1>10 DEF vars, Inserting
<1>11. QED BY <1>3, <1>5, <1>6, <1>7, <1>8, <1>9, <1>10 DEF Next, Proceed

\* However inserts, deletes, cascades and rollbacks overlap, tasks come and go
\* as if each did so at one moment: under a parent that is there then, with
\* all that is below then, once per id.
THEOREM Refinement == Spec => ImplementsForest
<1>1. Init => Forest!Init
  <2> SUFFICES ASSUME Init PROVE Forest!Init
      OBVIOUS
  <2>1. Unused = Ids BY DEF Init, Unused, Ids
  <2>2. Pending = {} BY DEF Init, Pending, Inserting
  <2>3. QED BY <2>1, <2>2 DEF Init, Forest!Init, Unused, Pending
<1>2. QED BY <1>1, ForestStep, Invariance, PTL DEF Spec, ImplementsForest, Forest!Spec

\* An id whose task was deleted or whose insert failed is never a task's
\* again, whatever the other sessions do meanwhile.
THEOREM NoIdComesBack == Spec => IdsGoneForGood
<1> DEFINE Stays == \A i \in Ids : Forest!Gone(i) => Forest!Gone(i)'
<1>1. ASSUME Forest!Next PROVE Stays
  <2>1. ASSUME NEW i \in Ids, Forest!Draw(i) \/ Forest!Abandon(i) PROVE Stays
    BY <2>1 DEF Forest!Draw, Forest!Abandon, Forest!Gone, Forest!Tasks
  <2>2. ASSUME NEW i \in Ids, Forest!Delete(i) PROVE Stays
    BY <2>2 DEF Forest!Delete, Forest!Gone, Forest!Tasks
  <2>3. ASSUME NEW i \in Ids, NEW p \in Ids \cup {NoParent}, Forest!Create(i, p) PROVE Stays
    BY <2>3 DEF Forest!Create, Forest!Gone, Forest!Tasks
  <2>4. QED BY <1>1, <2>1, <2>2, <2>3 DEF Forest!Next
<1>2. IInv /\ [Next]_vars => [Stays]_(Forest!vars) BY <1>1, ForestStep
<1>3. QED BY <1>2, Invariance, PTL DEF Spec, IdsGoneForGood, Forest!GoneForGood
===============================================================================
