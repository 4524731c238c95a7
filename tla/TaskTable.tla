------------------------------ MODULE TaskTable ------------------------------
(***************************************************************************)
(* The hierarchy of the tasks table of 0001_init.sql under several SQL     *)
(* sessions at READ COMMITTED: the BIGSERIAL id, the CHECK no_self_parent, *)
(* and the foreign key from parent_id to id with its ON DELETE CASCADE.    *)
(*                                                                         *)
(* A transaction is one INSERT or one DELETE, the Postgres half of create  *)
(* and delete of the repo port.  No operation of the port moves a task to  *)
(* another parent.  Postgres is modelled as the table uses it: nextval is  *)
(* never undone, the check of a foreign key ends the INSERT and locks the  *)
(* parent's key for sharing, the cascade locks one child after another.    *)
(***************************************************************************)
EXTENDS Integers, FiniteSets

CONSTANTS
  Session,  \* the connections that write
  MaxId     \* bound: the last id that is drawn

ASSUME MaxIdAssumption == MaxId \in Nat

VARIABLES
  parent,  \* the committed rows: their ids to their parents
  nextId,  \* tasks_id_seq
  work,    \* work[s]: what the transaction of s is at
  row,     \* row[s]: the row s inserts
  doomed   \* doomed[s]: the rows s has deleted and not committed

vars == <<parent, nextId, work, row, doomed>>

NoParent == 0
Ids == 1..MaxId

TypeOK ==
  /\ DOMAIN parent \subseteq Ids /\ parent \in [DOMAIN parent -> Ids \cup {NoParent}]
  /\ nextId \in 1..(MaxId + 1)
  /\ work \in [Session -> {"idle", "checking", "inserted", "deleting"}]
  /\ row \in [Session -> [id : Ids \cup {0}, parent : Ids \cup {NoParent}]]
  /\ doomed \in [Session -> SUBSET Ids]
  /\ \A s \in Session : work[s] # "deleting" => doomed[s] = {}

Init ==
  /\ parent = [i \in {} |-> NoParent]
  /\ nextId = 1
  /\ work = [s \in Session |-> "idle"]
  /\ row = [s \in Session |-> [id |-> 0, parent |-> NoParent]]
  /\ doomed = [s \in Session |-> {}]

Inserting(s) == work[s] \in {"checking", "inserted"}
Deleted(s)   == \E t \in Session \ {s} : row[s].parent \in doomed[t]
KeyShared(i) == \E s \in Session : work[s] = "inserted" /\ row[s].parent = i
Locked(i)    == KeyShared(i) \/ \E s \in Session : i \in doomed[s]

-----------------------------------------------------------------------------
(* INSERT.                                                                 *)

\* Faulty: no_self_parent is missing.
InsertUnchecked(s, p) ==
  /\ work[s] = "idle" /\ nextId <= MaxId
  /\ nextId' = nextId + 1
  /\ work' = [work EXCEPT ![s] = "checking"]
  /\ row' = [row EXCEPT ![s] = [id |-> nextId, parent |-> p]]
  /\ UNCHANGED <<parent, doomed>>

\* Faulty: the id is one more than the largest there is.
InsertMaxPlusOne(s, p) ==
  LET largest == CHOOSE i \in DOMAIN parent \cup {0} : \A j \in DOMAIN parent : j <= i IN
  /\ work[s] = "idle" /\ nextId <= MaxId
  /\ nextId' = nextId + 1
  /\ work' = [work EXCEPT ![s] = "checking"]
  /\ row' = [row EXCEPT ![s] = [id |-> largest + 1, parent |-> p]]
  /\ UNCHANGED <<parent, doomed>>

\* The id is drawn; a row that would be its own parent fails the CHECK.
Insert(s, p) ==
  /\ work[s] = "idle" /\ nextId <= MaxId
  /\ nextId' = nextId + 1
  /\ IF p = nextId
     THEN UNCHANGED <<work, row>>
     ELSE /\ work' = [work EXCEPT ![s] = "checking"]
          /\ row' = [row EXCEPT ![s] = [id |-> nextId, parent |-> p]]
  /\ UNCHANGED <<parent, doomed>>

\* Faulty: the key of the parent is looked up and not locked.
CheckParentUnlocked(s) ==
  /\ work[s] = "checking"
  /\ work' = [work EXCEPT ![s] =
       IF row[s].parent \in DOMAIN parent \cup {row[s].id, NoParent} THEN "inserted" ELSE "idle"]
  /\ UNCHANGED <<parent, nextId, row, doomed>>

MayCheckParent(s) == work[s] = "checking" /\ ~Deleted(s)

\* REFERENCES tasks(id): wait for whoever deletes the parent, then find it,
\* among the committed rows or in the row itself, or roll back.
CheckParent(s) ==
  /\ MayCheckParent(s)
  /\ work' = [work EXCEPT ![s] =
       IF row[s].parent \in DOMAIN parent \cup {row[s].id, NoParent} THEN "inserted" ELSE "idle"]
  /\ UNCHANGED <<parent, nextId, row, doomed>>

CommitInsert(s) ==
  /\ work[s] = "inserted"
  /\ parent' = [i \in DOMAIN parent \cup {row[s].id} |->
                  IF i = row[s].id THEN row[s].parent ELSE parent[i]]
  /\ work' = [work EXCEPT ![s] = "idle"]
  /\ UNCHANGED <<nextId, row, doomed>>

-----------------------------------------------------------------------------
(* DELETE.                                                                 *)

Delete(s, i) ==
  /\ work[s] = "idle"
  /\ i \in DOMAIN parent /\ ~Locked(i)
  /\ work' = [work EXCEPT ![s] = "deleting"]
  /\ doomed' = [doomed EXCEPT ![s] = {i}]
  /\ UNCHANGED <<parent, nextId, row>>

Children(s) == {i \in DOMAIN parent \ doomed[s] : parent[i] \in doomed[s]}

\* ON DELETE CASCADE: the next child of a deleted row, once nobody else
\* locks it.
MayCascade(s, i) == work[s] = "deleting" /\ i \in Children(s) /\ ~Locked(i)

Cascade(s, i) ==
  /\ MayCascade(s, i)
  /\ doomed' = [doomed EXCEPT ![s] = @ \cup {i}]
  /\ UNCHANGED <<parent, nextId, work, row>>

\* Faulty: children outlive their parent, as with ON DELETE SET NULL.
CommitDeleteSetNull(s) ==
  /\ work[s] = "deleting"
  /\ parent' = [i \in DOMAIN parent \ doomed[s] |->
                  IF parent[i] \in doomed[s] THEN NoParent ELSE parent[i]]
  /\ work' = [work EXCEPT ![s] = "idle"]
  /\ doomed' = [doomed EXCEPT ![s] = {}]
  /\ UNCHANGED <<nextId, row>>

\* Faulty: the parent of what is deleted gets a new updated_at.
MayCommitDeleteTouching(s) ==
  /\ work[s] = "deleting" /\ Children(s) = {}
  /\ \A t \in Session \ {s} : \A i \in doomed[s] : parent[i] \notin doomed[t]

\* A DELETE ends when the cascade has found every row below.
MayCommitDelete(s) == work[s] = "deleting" /\ Children(s) = {}

CommitDelete(s) ==
  /\ MayCommitDelete(s)
  /\ parent' = [i \in DOMAIN parent \ doomed[s] |-> parent[i]]
  /\ work' = [work EXCEPT ![s] = "idle"]
  /\ doomed' = [doomed EXCEPT ![s] = {}]
  /\ UNCHANGED <<nextId, row>>

-----------------------------------------------------------------------------
\* Faulty: what s deleted stays locked.
RollbackKeepsLocks(s) ==
  /\ work[s] # "idle"
  /\ work' = [work EXCEPT ![s] = "idle"]
  /\ UNCHANGED <<parent, nextId, row, doomed>>

\* Faulty: the id that was drawn last is put back.
RollbackReturnsId(s) ==
  /\ work[s] # "idle"
  /\ nextId' = IF Inserting(s) /\ row[s].id = nextId - 1 THEN row[s].id ELSE nextId
  /\ work' = [work EXCEPT ![s] = "idle"]
  /\ doomed' = [doomed EXCEPT ![s] = {}]
  /\ UNCHANGED <<parent, row>>

\* The connection of s is lost, or s is rolled back for another reason.
Rollback(s) ==
  /\ work[s] # "idle"
  /\ work' = [work EXCEPT ![s] = "idle"]
  /\ doomed' = [doomed EXCEPT ![s] = {}]
  /\ UNCHANGED <<parent, nextId, row>>

Proceed(s) ==
  CheckParent(s) \/ CommitInsert(s) \/ (\E i \in Ids : Cascade(s, i)) \/ CommitDelete(s)

\* When Proceed(s) is possible.
MayProceed(s) ==
  \/ MayCheckParent(s) \/ work[s] = "inserted"
  \/ (\E i \in Ids : MayCascade(s, i)) \/ MayCommitDelete(s)

Next ==
  \E s \in Session :
    \/ \E p \in Ids \cup {NoParent} : Insert(s, p)
    \/ \E i \in Ids : Delete(s, i)
    \/ Proceed(s)
    \/ Rollback(s)

Spec == Init /\ [][Next]_vars

-----------------------------------------------------------------------------
(* What the table promises about the hierarchy.                            *)

\* 0001_init.sql:15: the parent of a committed task is a committed task,
\* however inserts under a task and its deletion overlap.
NoDanglingParent ==
  \A i \in DOMAIN parent : parent[i] = NoParent \/ parent[i] \in DOMAIN parent

\* 0001_init.sql:10: no two tasks ever have the same id, whichever inserts
\* overlap, and an id that was drawn is drawn no more.
IdsUnique ==
  \A s \in Session : Inserting(s) =>
    /\ row[s].id \notin DOMAIN parent
    /\ row[s].id < nextId
    /\ \A t \in Session \ {s} : Inserting(t) => row[t].id # row[s].id

\* 0001_init.sql:15,24: no task is its own ancestor: among any tasks there is
\* one whose parent is not among them.  The CHECK alone refuses only cycles of
\* length one; an id drawn early may well have a parent with a later id.
Acyclic ==
  \A tasks \in SUBSET DOMAIN parent :
    tasks # {} => \E i \in tasks : parent[i] \notin tasks

\* 0001_init.sql:15 (AC-47): what one commit removes is a task and what is
\* below it, all of it, and what stays is not moved.
CascadeExact ==
  [][LET gone == DOMAIN parent \ DOMAIN parent' IN
     /\ gone # {} =>
          /\ \E root \in gone : \A i \in gone \ {root} : parent[i] \in gone
          /\ \A i \in DOMAIN parent : parent[i] \in gone => i \in gone
     /\ \A i \in DOMAIN parent \ gone : parent'[i] = parent[i]]_vars

\* Inserts and cascading deletes never wait for each other in a circle: while
\* a transaction is open, one of them can go on without a rollback.
NoDeadlock == (\E s \in Session : work[s] # "idle") => \E s \in Session : MayProceed(s)

-----------------------------------------------------------------------------
(* The forest the table is to its users: what is not committed is not      *)
(* there, but for the ids that were drawn.                                 *)

Forest == INSTANCE TaskForest WITH
  unused  <- {i \in Ids : i >= nextId},
  pending <- {row[s].id : s \in {t \in Session : Inserting(t)}}

\* 0001_init.sql:10,15, repo.rs:27,30: however inserts, deletes, cascades and
\* rollbacks overlap, tasks come and go as if each did so at one moment: under
\* a parent that is there then, with all that is below then, once per id.
ImplementsForest == Forest!Spec

\* 0001_init.sql:10 (BIGSERIAL), repo.rs:30: whoever kept the id of a task
\* that was deleted, or of an insert that failed, never finds another task
\* there, whatever is inserted or rolled back meanwhile.
IdsGoneForGood == Forest!GoneForGood
=============================================================================
