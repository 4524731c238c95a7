------------------------ MODULE ServerLifecycleProofs ------------------------
(***************************************************************************)
(* Why ServerLifecycle keeps its promises for every number of servers,     *)
(* builds and faults: its types, the inductive invariant IInv, the safety  *)
(* properties that follow, and the refinement of BootContract.             *)
(***************************************************************************)
EXTENDS ServerLifecycle, TLAPS

-----------------------------------------------------------------------------
(* Types.                                                                  *)

\* A process that leaves leaves every variable well typed.
LEMMA TerminateType ==
  ASSUME TypeOK, NEW s \in Server, Terminate(s)
  PROVE  /\ pc' \in [Server -> Phases]
         /\ listed' \in [Server -> SUBSET Nat]
         /\ cursor' \in [Server -> Nat]
         /\ armed' \in [Server -> SUBSET Signals]
         /\ signalled' \in [Server -> BOOLEAN]
         /\ inflight' \in [Server -> 0..MaxInFlight]
         /\ session' \subseteq Server
         /\ lock' \in Server \cup {NoServer, Orphan}
         /\ tx' \in Nat
         /\ applied' \subseteq Nat
BY ServerAssumption DEF TypeOK, Terminate, Phases

\* Booting keeps the types.
LEMMA BootType ==
  ASSUME TypeOK, NEW s \in Server, Boot(s)
  PROVE  TypeOK'
<1> USE ServerAssumption DEF TypeOK, Phases, MigratePhases, MongoPhases, ListenPhases,
      Goto, Fault, procVars, pgVars, mongoVars, envVars
<1>1. CASE Start(s) BY <1>1 DEF Start
<1>2. CASE Connect(s) BY <1>2 DEF Connect
<1>3. CASE ConnectFails(s) BY <1>3, TerminateType DEF ConnectFails
<1>4. CASE OpenSession(s) BY <1>4 DEF OpenSession
<1>5. CASE TakeLock(s) BY <1>5 DEF TakeLock
<1>6. CASE ListApplied(s)
  <2>1. CASE applied \subseteq 1..BuildOf[s]
    <3>1. /\ pc' = [pc EXCEPT ![s] = "apply"]
          /\ listed' = [listed EXCEPT ![s] = applied]
          /\ cursor' = [cursor EXCEPT ![s] = 1]
          /\ UNCHANGED <<armed, signalled, inflight, pgVars, mongoVars, envVars>>
      BY <1>6, <2>1 DEF ListApplied
    <3>2. QED BY <3>1
  <2>2. CASE ~(applied \subseteq 1..BuildOf[s]) BY <1>6, <2>2, TerminateType DEF ListApplied
  <2>3. QED BY <2>1, <2>2
<1>7. CASE SkipApplied(s) BY <1>7 DEF SkipApplied
<1>8. CASE SendMigration(s) BY <1>8 DEF SendMigration
<1>9. CASE MigrationDone(s) BY <1>9 DEF MigrationDone
<1>10. CASE Unlock(s) BY <1>10 DEF Unlock
<1>11. CASE MigrateFails(s) BY <1>11, TerminateType DEF MigrateFails
<1>12. CASE Initialize(s)
  BY <1>12 DEF Initialize, MongoCommand, CreateCollection, CollMod, CreateIndexes, AfterCommand
<1>13. CASE InitializeReplyLost(s)
  <2>1. Terminate(s) /\ faults' \in 0..MaxFaults /\ UNCHANGED <<stopping, pgUp, mongoUp>>
    BY <1>13 DEF InitializeReplyLost
  <2>2. collection' \in BOOLEAN /\ validator' \in Nat /\ index' \in BOOLEAN
    BY <1>13 DEF InitializeReplyLost, MongoCommand, CreateCollection, CollMod, CreateIndexes
  <2>3. QED BY <2>1, <2>2, TerminateType
<1>14. CASE InitializeFails(s) BY <1>14, TerminateType DEF InitializeFails
<1>15. CASE Bind(s) BY <1>15, TerminateType DEF Bind
<1>16. CASE Arm(s) BY <1>16 DEF Arm
<1>17. CASE ConnectMongoFails(s) BY <1>17, TerminateType DEF ConnectMongoFails
<1>18. QED
  BY <1>1, <1>2, <1>3, <1>4, <1>5, <1>6, <1>7, <1>8, <1>9, <1>10, <1>11, <1>12,
     <1>13, <1>14, <1>15, <1>16, <1>17 DEF Boot

\* Serving and draining keep the types.
LEMMA ServeType ==
  ASSUME TypeOK, NEW s \in Server, Serve(s)
  PROVE  TypeOK'
<1> USE ServerAssumption DEF TypeOK, Phases, ListenPhases, Listening, Goto,
      procVars, pgVars, mongoVars, envVars
<1>1. CASE Accept(s) BY <1>1 DEF Accept
<1>2. CASE Answer(s) BY <1>2 DEF Answer
<1>3. CASE ShutdownSignal(s) BY <1>3 DEF ShutdownSignal
<1>4. CASE Drained(s) BY <1>4, TerminateType DEF Drained
<1>5. QED BY <1>1, <1>2, <1>3, <1>4 DEF Serve

\* A signal, whatever it does, keeps the types.
LEMMA DeliverType ==
  ASSUME TypeOK, NEW s \in Server, NEW signal \in Signals, Deliver(s, signal)
  PROVE  /\ pc' \in [Server -> Phases]
         /\ listed' \in [Server -> SUBSET Nat]
         /\ cursor' \in [Server -> Nat]
         /\ armed' \in [Server -> SUBSET Signals]
         /\ signalled' \in [Server -> BOOLEAN]
         /\ inflight' \in [Server -> 0..MaxInFlight]
         /\ session' \subseteq Server
         /\ lock' \in Server \cup {NoServer, Orphan}
         /\ tx' \in Nat
         /\ applied' \subseteq Nat
<1>1. CASE Terminate(s) BY <1>1, TerminateType
<1>2. CASE signalled' = [signalled EXCEPT ![s] = TRUE]
           /\ UNCHANGED <<pc, listed, cursor, armed, inflight, pgVars>>
  BY <1>2 DEF TypeOK, pgVars
<1>3. CASE UNCHANGED <<procVars, pgVars>>
  BY <1>3 DEF TypeOK, procVars, pgVars
<1>4. QED BY <1>1, <1>2, <1>3 DEF Deliver

\* Operators and crashes keep the types.
LEMMA OperateType ==
  ASSUME TypeOK, NEW s \in Server, Operate(s)
  PROVE  TypeOK'
<1> USE ServerAssumption DEF TypeOK, Fault, procVars, pgVars, mongoVars, envVars
<1>1. CASE Interrupt(s) BY <1>1, DeliverType DEF Interrupt, Signals
<1>2. CASE Stop(s) BY <1>2, DeliverType DEF Stop, Signals
<1>3. CASE GraceOver(s) BY <1>3, TerminateType DEF GraceOver
<1>4. CASE Up(s) BY <1>4 DEF Up
<1>5. CASE Crash(s) BY <1>5, TerminateType DEF Crash
<1>6. QED BY <1>1, <1>2, <1>3, <1>4, <1>5 DEF Operate

\* The stores keep the types.
LEMMA StoresType ==
  ASSUME TypeOK, Stores
  PROVE  TypeOK'
<1> USE ServerAssumption DEF TypeOK, Fault, procVars, pgVars, mongoVars, envVars
<1>1. CASE Commit BY <1>1 DEF Commit
<1>2. CASE Reap BY <1>2 DEF Reap
<1>3. CASE PgDown
  <2>1. /\ session' = {} /\ lock' = NoServer /\ tx' = 0 /\ pgUp' = FALSE
        /\ faults' \in 0..MaxFaults
    BY <1>3 DEF PgDown
  <2>2. UNCHANGED <<procVars, applied, mongoVars, stopping, mongoUp>>
    BY <1>3 DEF PgDown
  <2>3. QED BY <2>1, <2>2
<1>4. CASE PgBack BY <1>4 DEF PgBack
<1>5. CASE MongoDown
  <2>1. mongoUp' = FALSE /\ faults' \in 0..MaxFaults
    BY <1>5 DEF MongoDown
  <2>2. UNCHANGED <<procVars, pgVars, mongoVars, stopping, pgUp>>
    BY <1>5 DEF MongoDown
  <2>3. QED BY <2>1, <2>2
<1>6. CASE MongoBack BY <1>6 DEF MongoBack
<1>7. QED BY <1>1, <1>2, <1>3, <1>4, <1>5, <1>6 DEF Stores

\* Every step keeps the types.
LEMMA TypeStep == TypeOK /\ [Next]_vars => TypeOK'
<1> SUFFICES ASSUME TypeOK, [Next]_vars
             PROVE  TypeOK'
  OBVIOUS
<1>1. CASE UNCHANGED vars
  <2>1. UNCHANGED <<procVars, pgVars>> /\ UNCHANGED <<mongoVars, envVars>>
    BY <1>1 DEF vars
  <2>2. QED BY <2>1 DEF TypeOK, procVars, pgVars, mongoVars, envVars
<1>2. CASE Next BY <1>2, StoresType, BootType, ServeType, OperateType DEF Next
<1>3. QED BY <1>1, <1>2

\* The initial state is well typed.
LEMMA InitType == Init => TypeOK
<1> SUFFICES ASSUME Init PROVE TypeOK
  OBVIOUS
<1>1. /\ pc \in [Server -> Phases]
      /\ listed \in [Server -> SUBSET Nat]
      /\ cursor \in [Server -> Nat]
      /\ armed \in [Server -> SUBSET Signals]
      /\ signalled \in [Server -> BOOLEAN]
      /\ inflight \in [Server -> 0..MaxInFlight]
      /\ stopping \in [Server -> {"no", "term", "kill"}]
  BY ServerAssumption DEF Init, Phases
<1>2. /\ session \subseteq Server
      /\ lock \in Server \cup {NoServer, Orphan}
      /\ tx \in Nat /\ applied \subseteq Nat
      /\ faults \in 0..MaxFaults
  BY ServerAssumption DEF Init
<1>3. collection \in BOOLEAN /\ validator \in Nat /\ index \in BOOLEAN
  BY DEF Init
<1>4. pgUp \in BOOLEAN /\ mongoUp \in BOOLEAN
  BY DEF Init
<1>5. QED BY <1>1, <1>2, <1>3, <1>4, Zenon DEF TypeOK

\* Every variable of ServerLifecycle keeps its type, for any number of
\* servers, builds, addresses, requests and faults.
THEOREM TypeCorrect == Spec => []TypeOK
BY InitType, TypeStep, PTL DEF Spec

-----------------------------------------------------------------------------
(* The steps of Next by what they do to what the invariant speaks of: most *)
(* of them are a process that leaves, or touch nothing that matters.       *)

Moves(s) ==
  \/ Goto(s, "down", "connect")
  \/ Goto(s, "connect", "migrate")
  \/ Goto(s, "bound", "serving")
  \/ Goto(s, "serving", "draining")

Quiet ==
  /\ UNCHANGED <<listed, cursor, pgVars, mongoVars>>
  /\ pc' = pc \/ \E s \in Server : Moves(s)

Leaves(s) == Terminate(s) /\ (UNCHANGED mongoVars \/ MongoCommand(s))

ListPasses(s) == ListApplied(s) /\ applied \subseteq 1..BuildOf[s]

BindSucceeds(s) ==
  /\ Goto(s, "bind", "bound")
  /\ \A t \in Server : Listening(t) => AddrOf[t] # AddrOf[s]
  /\ UNCHANGED <<listed, cursor, pgVars, mongoVars>>

ServerStep(s) ==
  \/ Leaves(s) \/ OpenSession(s) \/ TakeLock(s) \/ ListPasses(s)
  \/ SkipApplied(s) \/ SendMigration(s) \/ MigrationDone(s) \/ Unlock(s)
  \/ Initialize(s) \/ BindSucceeds(s)

\* A signal is quiet or makes its process leave.
LEMMA DeliverSteps ==
  ASSUME NEW s \in Server, NEW signal \in Signals, Deliver(s, signal), UNCHANGED mongoVars
  PROVE  Quiet \/ Leaves(s)
BY DEF Deliver, Quiet, Leaves, procVars, pgVars

\* Every step of the system is of one of these kinds.
LEMMA Steps ==
  ASSUME [Next]_vars
  PROVE  Quiet \/ Commit \/ Reap \/ PgDown \/ \E s \in Server : ServerStep(s)
<1> USE DEF Quiet, procVars, pgVars, mongoVars, envVars
<1>1. CASE UNCHANGED vars BY <1>1 DEF vars
<1>2. CASE Stores BY <1>2 DEF Stores, PgBack, MongoDown, MongoBack
<1>3. ASSUME NEW s \in Server, Boot(s)
      PROVE  Quiet \/ ServerStep(s)
  <2> USE DEF Boot, ServerStep, Moves, Leaves
  <2>1. CASE Start(s) BY <2>1 DEF Start
  <2>2. CASE Connect(s) BY <2>2 DEF Connect
  <2>3. CASE ConnectFails(s) \/ ConnectMongoFails(s)
    BY <2>3 DEF ConnectFails, ConnectMongoFails
  <2>4. CASE ListApplied(s) BY <2>4 DEF ListApplied, ListPasses
  <2>5. CASE MigrateFails(s) BY <2>5 DEF MigrateFails
  <2>6. CASE InitializeReplyLost(s) BY <2>6 DEF InitializeReplyLost
  <2>7. CASE InitializeFails(s) BY <2>7 DEF InitializeFails
  <2>8. CASE Bind(s) BY <2>8 DEF Bind, BindSucceeds, Goto
  <2>9. CASE Arm(s) BY <2>9 DEF Arm
  <2>10. QED BY <1>3, <2>1, <2>2, <2>3, <2>4, <2>5, <2>6, <2>7, <2>8, <2>9
<1>4. ASSUME NEW s \in Server, Serve(s)
      PROVE  Quiet \/ ServerStep(s)
  <2> USE DEF ServerStep, Moves, Leaves
  <2>1. CASE Accept(s) BY <2>1 DEF Accept
  <2>2. CASE Answer(s) BY <2>2 DEF Answer
  <2>3. CASE ShutdownSignal(s) BY <2>3 DEF ShutdownSignal
  <2>4. CASE Drained(s) BY <2>4 DEF Drained
  <2>5. QED BY <1>4, <2>1, <2>2, <2>3, <2>4 DEF Serve
<1>5. ASSUME NEW s \in Server, Operate(s)
      PROVE  Quiet \/ ServerStep(s)
  <2> USE DEF ServerStep, Leaves
  <2>1. CASE Interrupt(s) BY <2>1, DeliverSteps DEF Interrupt, Signals
  <2>2. CASE Stop(s) BY <2>2, DeliverSteps DEF Stop, Signals
  <2>3. CASE GraceOver(s) BY <2>3 DEF GraceOver
  <2>4. CASE Up(s) BY <2>4 DEF Up
  <2>5. CASE Crash(s) BY <2>5 DEF Crash
  <2>6. QED BY <1>5, <2>1, <2>2, <2>3, <2>4, <2>5 DEF Operate
<1>6. QED BY <1>1, <1>2, <1>3, <1>4, <1>5 DEF Next

\* The lock stays with the one live session that is past it.
LEMMA LockStep ==
  ASSUME IInv, [Next]_vars
  PROVE  LockInv'
<1> USE ServerAssumption DEF IInv, TypeOK, LockInv, HoldPhases
<1>1. CASE Quiet BY <1>1 DEF Quiet, Moves, Goto, pgVars, mongoVars
<1>2. CASE Commit BY <1>2 DEF Commit, procVars, mongoVars
<1>3. CASE Reap BY <1>3 DEF Reap, procVars, mongoVars
<1>4. CASE PgDown BY <1>4 DEF PgDown, procVars, mongoVars
<1>5. ASSUME NEW s \in Server, ServerStep(s)
      PROVE  LockInv'
  <2>1. CASE Leaves(s)
    BY <2>1 DEF Leaves, Terminate, MongoCommand, CreateCollection, CollMod, CreateIndexes, mongoVars
  <2>2. CASE OpenSession(s)
    BY <2>2 DEF OpenSession, Goto, mongoVars
  <2>3. CASE TakeLock(s)
    BY <2>3 DEF TakeLock, Goto, mongoVars
  <2>4. CASE ListPasses(s)
    BY <2>4 DEF ListPasses, ListApplied, pgVars, mongoVars
  <2>5. CASE SkipApplied(s)
    BY <2>5 DEF SkipApplied, pgVars, mongoVars
  <2>6. CASE SendMigration(s)
    BY <2>6 DEF SendMigration, Goto, mongoVars
  <2>7. CASE MigrationDone(s)
    BY <2>7 DEF MigrationDone, Goto, pgVars, mongoVars
  <2>8. CASE Unlock(s)
    BY <2>8 DEF ListIsFresh, Unlock, Goto, mongoVars
  <2>9. CASE Initialize(s)
    BY <2>9 DEF Initialize, MongoCommand, CreateCollection, CollMod, CreateIndexes, AfterCommand, pgVars, mongoVars
  <2>10. CASE BindSucceeds(s)
    BY <2>10 DEF BindSucceeds, Goto, pgVars, mongoVars
  <2>11. QED BY <1>5, <2>1, <2>2, <2>3, <2>4, <2>5, <2>6, <2>7, <2>8, <2>9, <2>10 DEF ServerStep
<1>6. QED BY <1>1, <1>2, <1>3, <1>4, <1>5, Steps

\* The list read under the lock stays fresh while the lock is held.
LEMMA ListStep ==
  ASSUME IInv, [Next]_vars
  PROVE  \A h \in Server : lock' = h => ListIsFresh(h)'
<1> USE ServerAssumption DEF IInv, TypeOK, LockInv, HoldPhases, ListIsFresh
<1>1. CASE Quiet BY <1>1 DEF Quiet, Moves, Goto, pgVars, mongoVars
<1>2. CASE Commit BY <1>2 DEF Commit, procVars, mongoVars
<1>3. CASE Reap BY <1>3 DEF Reap, procVars, mongoVars
<1>4. CASE PgDown BY <1>4 DEF PgDown, procVars, mongoVars
<1>5. ASSUME NEW s \in Server, ServerStep(s)
      PROVE  \A h \in Server : lock' = h => ListIsFresh(h)'
  <2>1. CASE Leaves(s)
    BY <2>1 DEF Leaves, Terminate, MongoCommand, CreateCollection, CollMod, CreateIndexes, mongoVars
  <2>2. CASE OpenSession(s)
    BY <2>2 DEF OpenSession, Goto, mongoVars
  <2>3. CASE TakeLock(s)
    BY <2>3 DEF TakeLock, Goto, mongoVars
  <2>4. CASE ListPasses(s)
    <3>1. /\ pc[s] = "list" /\ s \in session /\ applied \subseteq 1..BuildOf[s]
          /\ pc' = [pc EXCEPT ![s] = "apply"]
          /\ listed' = [listed EXCEPT ![s] = applied]
          /\ cursor' = [cursor EXCEPT ![s] = 1]
          /\ UNCHANGED <<session, lock, tx, applied>>
      BY <2>4 DEF ListPasses, ListApplied, pgVars
    <3>2. lock = s /\ tx = 0 BY <3>1
    <3>3. pc'[s] = "apply" /\ listed'[s] = applied /\ cursor'[s] = 1
      BY <3>1
    <3>4. cursor'[s] \in 1..(BuildOf[s] + 1) /\ 1..(cursor'[s] - 1) = {}
      BY <3>3
    <3>5. applied' = listed'[s] \cup 1..(cursor'[s] - 1)
      BY <3>1, <3>3, <3>4
    <3>6. QED BY <3>1, <3>2, <3>3, <3>4, <3>5
  <2>5. CASE SkipApplied(s)
    BY <2>5 DEF SkipApplied, pgVars, mongoVars
  <2>6. CASE SendMigration(s)
    BY <2>6 DEF SendMigration, Goto, mongoVars
  <2>7. CASE MigrationDone(s)
    BY <2>7 DEF MigrationDone, Goto, pgVars, mongoVars
  <2>8. CASE Unlock(s)
    BY <2>8 DEF Unlock, Goto, mongoVars
  <2>9. CASE Initialize(s)
    BY <2>9 DEF Initialize, MongoCommand, CreateCollection, CollMod, CreateIndexes, AfterCommand, pgVars, mongoVars
  <2>10. CASE BindSucceeds(s)
    BY <2>10 DEF BindSucceeds, Goto, pgVars, mongoVars
  <2>11. QED BY <1>5, <2>1, <2>2, <2>3, <2>4, <2>5, <2>6, <2>7, <2>8, <2>9, <2>10 DEF ServerStep
<1>6. QED BY <1>1, <1>2, <1>3, <1>4, <1>5, Steps

\* Transactions stay in order and fresh.
LEMMA TxStep ==
  ASSUME IInv, [Next]_vars
  PROVE  TxInv'
<1> USE ServerAssumption DEF IInv, TypeOK, LockInv, HoldPhases, ListIsFresh, TxInv, NoReapply
<1>1. CASE Quiet BY <1>1 DEF Quiet, Moves, Goto, pgVars, mongoVars
<1>2. CASE Commit BY <1>2 DEF Commit, procVars, mongoVars
<1>3. CASE Reap BY <1>3 DEF Reap, procVars, mongoVars
<1>4. CASE PgDown BY <1>4 DEF PgDown, procVars, mongoVars
<1>5. ASSUME NEW s \in Server, ServerStep(s)
      PROVE  TxInv'
  <2>1. CASE Leaves(s)
    BY <2>1 DEF Leaves, Terminate, MongoCommand, CreateCollection, CollMod, CreateIndexes, mongoVars
  <2>2. CASE OpenSession(s)
    BY <2>2 DEF OpenSession, Goto, mongoVars
  <2>3. CASE TakeLock(s)
    BY <2>3 DEF TakeLock, Goto, mongoVars
  <2>4. CASE ListPasses(s)
    BY <2>4 DEF ListPasses, ListApplied, pgVars, mongoVars
  <2>5. CASE SkipApplied(s)
    BY <2>5 DEF SkipApplied, pgVars, mongoVars
  <2>6. CASE SendMigration(s)
    BY <2>6 DEF SendMigration, Goto, mongoVars
  <2>7. CASE MigrationDone(s)
    BY <2>7 DEF MigrationDone, Goto, pgVars, mongoVars
  <2>8. CASE Unlock(s)
    BY <2>8 DEF Unlock, Goto, mongoVars
  <2>9. CASE Initialize(s)
    BY <2>9 DEF Initialize, MongoCommand, CreateCollection, CollMod, CreateIndexes, AfterCommand, pgVars, mongoVars
  <2>10. CASE BindSucceeds(s)
    BY <2>10 DEF BindSucceeds, Goto, pgVars, mongoVars
  <2>11. QED BY <1>5, <2>1, <2>2, <2>3, <2>4, <2>5, <2>6, <2>7, <2>8, <2>9, <2>10 DEF ServerStep
<1>6. QED BY <1>1, <1>2, <1>3, <1>4, <1>5, Steps

\* What a process has behind it stays done.
LEMMA StageStep ==
  ASSUME IInv, [Next]_vars
  PROVE  StageInv'
<1> USE ServerAssumption DEF IInv, TypeOK, LockInv, HoldPhases, ListIsFresh, StageInv, MongoPhases, ListenPhases
<1>1. CASE Quiet BY <1>1 DEF Quiet, Moves, Goto, pgVars, mongoVars
<1>2. CASE Commit BY <1>2 DEF Commit, procVars, mongoVars
<1>3. CASE Reap BY <1>3 DEF Reap, procVars, mongoVars
<1>4. CASE PgDown BY <1>4 DEF PgDown, procVars, mongoVars
<1>5. ASSUME NEW s \in Server, ServerStep(s)
      PROVE  StageInv'
  <2>1. CASE Leaves(s)
    BY <2>1 DEF Leaves, Terminate, MongoCommand, CreateCollection, CollMod, CreateIndexes, mongoVars
  <2>2. CASE OpenSession(s)
    BY <2>2 DEF OpenSession, Goto, mongoVars
  <2>3. CASE TakeLock(s)
    BY <2>3 DEF TakeLock, Goto, mongoVars
  <2>4. CASE ListPasses(s)
    BY <2>4 DEF ListPasses, ListApplied, pgVars, mongoVars
  <2>5. CASE SkipApplied(s)
    BY <2>5 DEF SkipApplied, pgVars, mongoVars
  <2>6. CASE SendMigration(s)
    BY <2>6 DEF SendMigration, Goto, mongoVars
  <2>7. CASE MigrationDone(s)
    BY <2>7 DEF MigrationDone, Goto, pgVars, mongoVars
  <2>8. CASE Unlock(s)
    BY <2>8 DEF Unlock, Goto, mongoVars
  <2>9. CASE Initialize(s)
    BY <2>9 DEF Initialize, MongoCommand, CreateCollection, CollMod, CreateIndexes, AfterCommand, pgVars, mongoVars
  <2>10. CASE BindSucceeds(s)
    BY <2>10 DEF BindSucceeds, Goto, pgVars, mongoVars
  <2>11. QED BY <1>5, <2>1, <2>2, <2>3, <2>4, <2>5, <2>6, <2>7, <2>8, <2>9, <2>10 DEF ServerStep
<1>6. QED BY <1>1, <1>2, <1>3, <1>4, <1>5, Steps

\* The validator stays behind the tables.
LEMMA ValidatorStep ==
  ASSUME IInv, [Next]_vars
  PROVE  SchemaBeforeValidator'
<1> USE ServerAssumption DEF IInv, TypeOK, StageInv, MongoPhases, ListenPhases, SchemaBeforeValidator
<1>1. CASE Quiet BY <1>1 DEF Quiet, Moves, Goto, pgVars, mongoVars
<1>2. CASE Commit BY <1>2 DEF Commit, procVars, mongoVars
<1>3. CASE Reap BY <1>3 DEF Reap, procVars, mongoVars
<1>4. CASE PgDown BY <1>4 DEF PgDown, procVars, mongoVars
<1>5. ASSUME NEW s \in Server, ServerStep(s)
      PROVE  SchemaBeforeValidator'
  <2>1. CASE Leaves(s)
    BY <2>1 DEF Leaves, Terminate, MongoCommand, CreateCollection, CollMod, CreateIndexes, mongoVars
  <2>2. CASE OpenSession(s)
    BY <2>2 DEF OpenSession, Goto, mongoVars
  <2>3. CASE TakeLock(s)
    BY <2>3 DEF TakeLock, Goto, mongoVars
  <2>4. CASE ListPasses(s)
    BY <2>4 DEF ListPasses, ListApplied, pgVars, mongoVars
  <2>5. CASE SkipApplied(s)
    BY <2>5 DEF SkipApplied, pgVars, mongoVars
  <2>6. CASE SendMigration(s)
    BY <2>6 DEF SendMigration, Goto, mongoVars
  <2>7. CASE MigrationDone(s)
    BY <2>7 DEF MigrationDone, Goto, pgVars, mongoVars
  <2>8. CASE Unlock(s)
    BY <2>8 DEF Unlock, Goto, mongoVars
  <2>9. CASE Initialize(s)
    BY <2>9 DEF Initialize, MongoCommand, CreateCollection, CollMod, CreateIndexes, AfterCommand, pgVars, mongoVars
  <2>10. CASE BindSucceeds(s)
    BY <2>10 DEF BindSucceeds, Goto, pgVars, mongoVars
  <2>11. QED BY <1>5, <2>1, <2>2, <2>3, <2>4, <2>5, <2>6, <2>7, <2>8, <2>9, <2>10 DEF ServerStep
<1>6. QED BY <1>1, <1>2, <1>3, <1>4, <1>5, Steps

\* The invariant is inductive.
LEMMA Inductive == IInv /\ [Next]_vars => IInv'
BY TypeStep, LockStep, ListStep, TxStep, StageStep, ValidatorStep DEF IInv

\* The invariant holds initially.
LEMMA InitIInv == Init => IInv
<1> SUFFICES ASSUME Init PROVE IInv
  OBVIOUS
<1>1. TypeOK BY InitType
<1>2. LockInv BY ServerAssumption DEF Init, LockInv
<1>3. \A s \in Server : lock = s => ListIsFresh(s)
  BY ServerAssumption DEF Init
<1>4. TxInv BY DEF Init, TxInv, NoReapply
<1>5. StageInv BY DEF Init, StageInv, MongoPhases, ListenPhases
<1>6. SchemaBeforeValidator BY DEF Init, SchemaBeforeValidator
<1>7. QED BY <1>1, <1>2, <1>3, <1>4, <1>5, <1>6 DEF IInv

\* The lock protocol, the freshness of the migrator's list, the order of the
\* transactions and what every process has behind it, all at once.
THEOREM Invariance == Spec => []IInv
BY InitIInv, Inductive, PTL DEF Spec

\* pg.rs:32 (AC-59): whatever races, dies or goes down, Postgres is never sent
\* a migration twice or out of order.
THEOREM NeverReapplied == Spec => []NoReapply
<1>1. IInv => NoReapply BY DEF IInv, TxInv
<1>2. QED BY <1>1, Invariance, PTL

\* The detail validator in Mongo never runs ahead of the tables in Postgres.
THEOREM SchemaFirst == Spec => []SchemaBeforeValidator
<1>1. IInv => SchemaBeforeValidator BY DEF IInv
<1>2. QED BY <1>1, Invariance, PTL

\* main.rs:3-5 (AC-61): a server listens only over stores that are ready for
\* its build.
THEOREM NeverHalfBuilt == Spec => []ListenImpliesReady
<1>1. IInv => ListenImpliesReady
  BY DEF IInv, StageInv, ListenImpliesReady, Listening, ListenPhases, MongoPhases, Contract!ReadyFor
<1>2. QED BY <1>1, Invariance, PTL

\* What no process may do to stores that are ready for all of them.
LEMMA NoOpStep ==
  ASSUME IInv, [Next]_vars,
         \A s \in Server : Contract!ReadyFor(BuildOf[s]) /\ validator = BuildOf[s]
  PROVE  UNCHANGED <<tx, applied, mongoVars>>
<1> USE ServerAssumption DEF IInv, TypeOK, Contract!ReadyFor, mongoVars, pgVars
<1>1. tx = 0
  BY DEF TxInv, NoReapply
<1>2. CASE Quiet BY <1>2 DEF Quiet
<1>3. CASE Commit BY <1>1, <1>3 DEF Commit
<1>4. CASE Reap BY <1>1, <1>4 DEF Reap
<1>5. CASE PgDown BY <1>1, <1>5 DEF PgDown
<1>6. ASSUME NEW s \in Server, ServerStep(s)
      PROVE  UNCHANGED <<tx, applied, mongoVars>>
  <2>1. CASE Leaves(s)
    BY <2>1 DEF Leaves, Terminate, MongoCommand, CreateCollection, CollMod, CreateIndexes
  <2>2. CASE Initialize(s)
    BY <2>2 DEF Initialize, MongoCommand, CreateCollection, CollMod, CreateIndexes
  <2>3. ~SendMigration(s)
    BY DEF SendMigration, Goto, LockInv, HoldPhases, ListIsFresh
  <2>4. CASE OpenSession(s) BY <2>4 DEF OpenSession
  <2>5. CASE TakeLock(s) BY <2>5 DEF TakeLock
  <2>6. CASE ListPasses(s) BY <2>6 DEF ListPasses, ListApplied
  <2>7. CASE SkipApplied(s) BY <2>7 DEF SkipApplied
  <2>8. CASE MigrationDone(s) BY <2>8 DEF MigrationDone
  <2>9. CASE Unlock(s) BY <2>9 DEF Unlock
  <2>10. CASE BindSucceeds(s) BY <2>10 DEF BindSucceeds
  <2>11. QED BY <1>6, <2>1, <2>2, <2>3, <2>4, <2>5, <2>6, <2>7, <2>8, <2>9, <2>10 DEF ServerStep
<1>7. QED BY <1>2, <1>3, <1>4, <1>5, <1>6, Steps

\* pg.rs:32, mongo.rs:34 (AC-59): over ready stores every boot is a no-op.
THEOREM BootIsIdempotent == Spec => RestartIsNoOp
<1>1. IInv /\ [Next]_vars
        => [(\A s \in Server : Contract!ReadyFor(BuildOf[s]) /\ validator = BuildOf[s])
              => UNCHANGED <<tx, applied, mongoVars>>]_vars
  BY NoOpStep
<1>2. QED BY <1>1, Invariance, PTL DEF Spec, RestartIsNoOp

-----------------------------------------------------------------------------
(* ServerLifecycle implements BootContract.                                *)

\* The three commands of MongoStore::initialize are steps of the contract.
LEMMA MongoGrows ==
  ASSUME TypeOK, NEW s \in Server, MongoCommand(s), applied' = applied,
         {t \in Server : Listening(t)}' = {t \in Server : Listening(t)}
  PROVE  Contract!PrepareMongo
<1> USE DEF TypeOK, Contract!PrepareMongo
<1>1. CASE CreateCollection(s) BY <1>1 DEF CreateCollection
<1>2. CASE CollMod(s) BY <1>2 DEF CollMod
<1>3. CASE CreateIndexes(s) BY <1>3 DEF CreateIndexes
<1>4. QED BY <1>1, <1>2, <1>3 DEF MongoCommand

\* Every step is a step of the contract or leaves its variables alone.
LEMMA ContractStep ==
  ASSUME IInv, [Next]_vars
  PROVE  [Contract!Next]_(Contract!vars)
<1> USE ServerAssumption DEF IInv, TypeOK, Contract!vars, Listening, ListenPhases, mongoVars, pgVars
<1>1. CASE Quiet
  <2>1. {s \in Server : Listening(s)}' = {s \in Server : Listening(s)}
           \/ \E s \in Server : Contract!Leave(s)
    BY <1>1 DEF Quiet, Moves, Goto, Contract!Leave
  <2>2. QED BY <1>1, <2>1 DEF Quiet, Contract!Next
<1>2. CASE Commit
  <2>1. Contract!ApplyMigration(tx)
    BY <1>2 DEF Commit, TxInv, NoReapply, Contract!ApplyMigration, procVars
  <2>2. QED BY <1>2, <2>1 DEF Commit, TxInv, Contract!Next
<1>3. CASE Reap BY <1>3 DEF Reap, procVars
<1>4. CASE PgDown BY <1>4 DEF PgDown, procVars
<1>5. ASSUME NEW s \in Server, ServerStep(s)
      PROVE  [Contract!Next]_(Contract!vars)
  <2>1. CASE Leaves(s)
    <3>1. applied' = applied /\ pc' = [pc EXCEPT ![s] = "down"]
      BY <2>1 DEF Leaves, Terminate
    <3>2. CASE MongoCommand(s)
      <4>1. pc[s] \in MongoPhases
        BY <3>2 DEF MongoCommand, CreateCollection, CollMod, CreateIndexes, MongoPhases
      <4>2. {t \in Server : Listening(t)}' = {t \in Server : Listening(t)}
        BY <3>1, <4>1 DEF MongoPhases
      <4>3. Contract!PrepareMongo BY <3>1, <3>2, <4>2, MongoGrows
      <4>4. QED BY <4>3 DEF Contract!Next
    <3>3. CASE UNCHANGED mongoVars
      <4>1. CASE Listening(s)
        <5>1. Contract!Leave(s) BY <3>1, <3>3, <4>1 DEF Contract!Leave
        <5>2. QED BY <5>1 DEF Contract!Next
      <4>2. CASE ~Listening(s)
        <5>1. {t \in Server : Listening(t)}' = {t \in Server : Listening(t)}
          BY <3>1, <4>2
        <5>2. QED BY <3>1, <3>3, <5>1
      <4>3. QED BY <4>1, <4>2
    <3>4. QED BY <2>1, <3>2, <3>3 DEF Leaves
  <2>2. CASE BindSucceeds(s)
    <3>1. Contract!Listen(s)
      BY <2>2 DEF BindSucceeds, Goto, Contract!Listen, Contract!ReadyFor, StageInv, MongoPhases
    <3>2. QED BY <3>1 DEF Contract!Next
  <2>3. CASE Initialize(s)
    <3>1. MongoCommand(s) /\ applied' = applied /\ pc' = [pc EXCEPT ![s] = AfterCommand(pc[s])]
      BY <2>3 DEF Initialize
    <3>2. pc[s] \in MongoPhases
      BY <3>1 DEF MongoCommand, CreateCollection, CollMod, CreateIndexes, MongoPhases
    <3>3. {t \in Server : Listening(t)}' = {t \in Server : Listening(t)}
      BY <3>1, <3>2 DEF MongoPhases, AfterCommand
    <3>4. Contract!PrepareMongo BY <3>1, <3>3, MongoGrows
    <3>5. QED BY <3>4 DEF Contract!Next
  <2>4. CASE OpenSession(s) BY <2>4 DEF OpenSession, Goto
  <2>5. CASE TakeLock(s) BY <2>5 DEF TakeLock, Goto
  <2>6. CASE ListPasses(s) BY <2>6 DEF ListPasses, ListApplied
  <2>7. CASE SkipApplied(s) BY <2>7 DEF SkipApplied
  <2>8. CASE SendMigration(s) BY <2>8 DEF SendMigration, Goto
  <2>9. CASE MigrationDone(s) BY <2>9 DEF MigrationDone, Goto
  <2>10. CASE Unlock(s) BY <2>10 DEF Unlock, Goto
  <2>11. QED BY <1>5, <2>1, <2>2, <2>3, <2>4, <2>5, <2>6, <2>7, <2>8, <2>9, <2>10 DEF ServerStep
<1>6. QED BY <1>1, <1>2, <1>3, <1>4, <1>5, Steps

\* The processes implement BootContract for every number of servers, builds
\* and faults.
THEOREM Refinement == Spec => ImplementsContract
<1>1. Init => Contract!Init
  BY DEF Init, Contract!Init, Listening, ListenPhases
<1>2. QED BY <1>1, Invariance, ContractStep, PTL DEF Spec, Contract!Spec, ImplementsContract

-----------------------------------------------------------------------------
(* What follows from BootContract alone.                                   *)

\* Two servers that listen have two addresses.
OwnAddresses ==
  \A s, t \in Server : Listening(s) /\ Listening(t) /\ s # t => AddrOf[s] # AddrOf[t]

\* The migrations committed have no gap.
NoGap == applied \subseteq Nat /\ \A m \in applied : 1..m \subseteq applied

Promised == ListenImpliesReady /\ OwnAddresses /\ NoGap

LEMMA PromisedStep == Promised /\ [Contract!Next]_(Contract!vars) => Promised'
<1> DEFINE on == {s \in Server : Listening(s)}
<1> SUFFICES ASSUME Promised, [Contract!Next]_(Contract!vars) PROVE Promised'
    OBVIOUS
<1>1. ASSUME on' \subseteq on, UNCHANGED <<applied, mongoVars>> PROVE Promised'
  <2>1. \A s \in Server : Listening(s)' => Listening(s) BY <1>1
  <2>2. QED
    BY <1>1, <2>1 DEF Promised, ListenImpliesReady, OwnAddresses, NoGap, Contract!ReadyFor, mongoVars
<1>2. ASSUME NEW s \in Server, Contract!Listen(s) PROVE Promised'
  <2>1. /\ \A t \in Server : Listening(t)' <=> Listening(t) \/ t = s
        /\ \A t \in Server : Listening(t) => AddrOf[t] # AddrOf[s]
        /\ Contract!ReadyFor(BuildOf[s]) /\ UNCHANGED <<applied, mongoVars>>
    BY <1>2 DEF Contract!Listen, mongoVars
  <2>2. QED
    BY <2>1 DEF Promised, ListenImpliesReady, OwnAddresses, NoGap, Contract!ReadyFor, mongoVars
<1>3. ASSUME NEW s \in Server, NEW m \in 1..BuildOf[s], Contract!ApplyMigration(m) PROVE Promised'
  <2>1. /\ \A t \in Server : Listening(t)' <=> Listening(t)
        /\ applied' = applied \cup {m} /\ 1..(m - 1) \subseteq applied /\ UNCHANGED mongoVars
    BY <1>3 DEF Contract!ApplyMigration, mongoVars
  <2>2. ListenImpliesReady'
    BY <2>1 DEF Promised, ListenImpliesReady, Contract!ReadyFor, mongoVars
  <2>3. NoGap'
    <3>1. m \in Nat /\ m > 0 /\ 1..m \subseteq applied' BY <2>1, ServerAssumption
    <3>2. QED BY <2>1, <3>1 DEF Promised, NoGap
  <2>4. QED BY <2>1, <2>2, <2>3 DEF Promised, OwnAddresses
<1>4. CASE Contract!PrepareMongo
  <2>1. /\ \A t \in Server : Listening(t)' <=> Listening(t)
        /\ (collection => collection') /\ (index => index') /\ UNCHANGED applied
        /\ validator' = validator \/ \E s \in Server : validator' = BuildOf[s]
    BY <1>4 DEF Contract!PrepareMongo
  <2>2. validator # 0 => validator' # 0 BY <2>1, ServerAssumption
  <2>3. ListenImpliesReady'
    <3> SUFFICES ASSUME NEW s \in Server, Listening(s)' PROVE Contract!ReadyFor(BuildOf[s])'
      BY DEF ListenImpliesReady
    <3>1. Contract!ReadyFor(BuildOf[s]) BY <2>1 DEF Promised, ListenImpliesReady
    <3>2. collection' /\ index' BY <2>1, <3>1 DEF Contract!ReadyFor
    <3>3. 1..BuildOf[s] \subseteq applied' /\ validator' # 0
      BY <2>1, <2>2, <3>1 DEF Contract!ReadyFor
    <3>4. QED BY <3>2, <3>3 DEF Contract!ReadyFor
  <2>4. QED BY <2>1, <2>3 DEF Promised, OwnAddresses, NoGap
<1>5. QED
  BY <1>1, <1>2, <1>3, <1>4
  DEF Contract!Next, Contract!Leave, Contract!vars, mongoVars

\* main.rs:3-5 (AC-61): BootContract is enough to rely on: of whatever does
\* what it says, every listener has its stores ready and an address of its
\* own, and the tables have no gap.
THEOREM ContractSuffices == ImplementsContract => []Promised
<1>1. Contract!Init => Promised
  BY DEF Contract!Init, Promised, ListenImpliesReady, OwnAddresses, NoGap
<1>2. QED BY <1>1, PromisedStep, PTL DEF ImplementsContract, Contract!Spec

\* main.rs:51: never do two servers answer at one address, and no migration is
\* skipped.
THEOREM OnePerAddress == Spec => [](OwnAddresses /\ NoGap)
<1>1. Promised => OwnAddresses /\ NoGap BY DEF Promised
<1>2. QED BY <1>1, Refinement, ContractSuffices, PTL

-----------------------------------------------------------------------------
(* Requests in flight.                                                     *)

\* Only a process that listens or drains has requests in flight.
RequestsInv ==
  \A s \in Server : inflight[s] > 0 => pc[s] \in ListenPhases \cup {"draining"}

\* What may have ended a process with requests in flight.
Excused(s) ==
  \/ faults' > faults
  \/ stopping'[s] = "kill"
  \/ /\ stopping[s] = "no" /\ stopping'[s] = "term"
     /\ "term" \notin armed[s] /\ s \notin Pid1

\* A process that leaves without a request, or with an excuse, drops none
\* silently, nor does it drop one of another process.
LEMMA TerminateDrops ==
  ASSUME TypeOK, RequestsInv, NEW t \in Server, Terminate(t),
         inflight[t] = 0 \/ Excused(t),
         NEW s \in Server
  PROVE  /\ inflight'[s] > 0 => pc'[s] \in ListenPhases \cup {"draining"}
         /\ inflight[s] > 0 /\ pc'[s] = "down" => Excused(s)
BY DEF TypeOK, RequestsInv, Terminate, ListenPhases

\* Nor does a step that moves t and takes or answers no request, if t was not
\* serving or goes on to.
LEMMA MoveDrops ==
  ASSUME TypeOK, RequestsInv, NEW t \in Server, NEW phase,
         pc' = [pc EXCEPT ![t] = phase], inflight' = inflight,
         \/ pc[t] \notin ListenPhases \cup {"draining"}
         \/ phase \in ListenPhases \cup {"draining"},
         NEW s \in Server
  PROVE  /\ inflight'[s] > 0 => pc'[s] \in ListenPhases \cup {"draining"}
         /\ inflight[s] > 0 /\ pc'[s] = "down" => Excused(s)
BY DEF TypeOK, RequestsInv, ListenPhases

\* Every step keeps the requests where they belong, and drops none silently.
LEMMA RequestsStep ==
  ASSUME TypeOK, RequestsInv, [Next]_vars, NEW s \in Server
  PROVE  /\ inflight'[s] > 0 => pc'[s] \in ListenPhases \cup {"draining"}
         /\ inflight[s] > 0 /\ pc'[s] = "down" => Excused(s)
<1> DEFINE Goal == /\ inflight'[s] > 0 => pc'[s] \in ListenPhases \cup {"draining"}
                   /\ inflight[s] > 0 /\ pc'[s] = "down" => Excused(s)
<1>1. CASE UNCHANGED <<pc, inflight>> BY <1>1 DEF RequestsInv, ListenPhases
<1>2. CASE Stores
  BY <1>1, <1>2 DEF Stores, Commit, Reap, PgDown, PgBack, MongoDown, MongoBack, procVars
<1>3. ASSUME NEW t \in Server, Boot(t) PROVE Goal
  <2> HIDE DEF Goal
  <2>1. ASSUME Terminate(t), pc[t] \notin ListenPhases \cup {"draining"} PROVE Goal
    <3>1. inflight[t] = 0 BY <2>1 DEF TypeOK, RequestsInv
    <3>2. QED BY <2>1, <3>1, TerminateDrops DEF Goal
  <2>2. ASSUME NEW phase, pc' = [pc EXCEPT ![t] = phase], inflight' = inflight,
               \/ pc[t] \notin ListenPhases \cup {"draining"}
               \/ phase \in ListenPhases \cup {"draining"}
        PROVE  Goal
    BY <2>2, MoveDrops DEF Goal
  <2>3. CASE Start(t) \/ Connect(t) \/ OpenSession(t) \/ TakeLock(t) \/ SendMigration(t)
             \/ MigrationDone(t) \/ Unlock(t) \/ Arm(t)
    BY <2>2, <2>3 DEF Start, Connect, OpenSession, TakeLock, SendMigration, MigrationDone,
                      Unlock, Arm, Goto, ListenPhases
  <2>4. CASE ConnectFails(t) \/ ConnectMongoFails(t) \/ MigrateFails(t) \/ InitializeFails(t)
    BY <2>1, <2>4 DEF ConnectFails, ConnectMongoFails, MigrateFails, InitializeFails, ListenPhases,
                      MigratePhases, MongoPhases
  <2>5. CASE ListApplied(t) BY <2>1, <2>2, <2>5 DEF ListApplied, ListenPhases
  <2>6. CASE SkipApplied(t) BY <1>1, <2>6 DEF SkipApplied, Goal
  <2>7. CASE Initialize(t) \/ InitializeReplyLost(t)
    <3>1. pc[t] \in MongoPhases
      BY <2>7 DEF Initialize, InitializeReplyLost, MongoCommand, CreateCollection, CollMod,
                  CreateIndexes, MongoPhases
    <3>2. pc[t] \notin ListenPhases \cup {"draining"} BY <3>1 DEF MongoPhases, ListenPhases
    <3>3. QED BY <2>1, <2>2, <2>7, <3>2 DEF Initialize, InitializeReplyLost
  <2>8. CASE Bind(t) BY <2>1, <2>2, <2>8 DEF Bind, ListenPhases
  <2>9. QED BY <1>3, <2>3, <2>4, <2>5, <2>6, <2>7, <2>8 DEF Boot
<1>4. ASSUME NEW t \in Server, Serve(t) PROVE Goal
  <2>1. CASE Accept(t)
    BY <2>1 DEF Accept, Listening, ListenPhases, RequestsInv, TypeOK
  <2>2. CASE Answer(t)
    BY <2>2 DEF Answer, ListenPhases, RequestsInv, TypeOK
  <2>3. CASE ShutdownSignal(t)
    BY <2>3, MoveDrops DEF ShutdownSignal, Goto
  <2>4. CASE Drained(t) BY <2>4, TerminateDrops DEF Drained
  <2>5. QED BY <1>4, <2>1, <2>2, <2>3, <2>4 DEF Serve
<1>5. ASSUME NEW t \in Server, Operate(t) PROVE Goal
  <2>1. ASSUME NEW signal \in Signals, Deliver(t, signal), Terminate(t) => Excused(t) PROVE Goal
    <3>1. CASE Terminate(t) BY <2>1, <3>1, TerminateDrops
    <3>2. CASE UNCHANGED <<pc, inflight>> BY <1>1, <3>2
    <3>3. QED BY <2>1, <3>1, <3>2 DEF Deliver, procVars
  <2>2. CASE Interrupt(t) BY <2>1, <2>2 DEF Interrupt, Fault, Excused, Signals, TypeOK
  <2>3. CASE Stop(t)
    <3>1. CASE "term" \in armed[t]
      BY <1>1, <2>3, <3>1 DEF Stop, Deliver
    <3>2. CASE "term" \notin armed[t] /\ t \in Pid1
      BY <1>1, <2>3, <3>2 DEF Stop, Deliver, procVars
    <3>3. CASE "term" \notin armed[t] /\ t \notin Pid1
      <4>1. Excused(t) BY <2>3, <3>3 DEF Stop, Excused, TypeOK
      <4>2. QED BY <2>1, <2>3, <4>1 DEF Stop, Signals
    <3>4. QED BY <3>1, <3>2, <3>3
  <2>4. CASE GraceOver(t) BY <2>4, TerminateDrops DEF GraceOver, Excused, TypeOK
  <2>5. CASE Up(t) BY <1>1, <2>5 DEF Up, procVars
  <2>6. CASE Crash(t) BY <2>6, TerminateDrops DEF Crash, Fault, Excused, TypeOK
  <2>7. QED BY <1>5, <2>2, <2>3, <2>4, <2>5, <2>6 DEF Operate
<1>6. CASE UNCHANGED vars BY <1>1, <1>6 DEF vars, procVars
<1>7. QED BY <1>2, <1>3, <1>4, <1>5, <1>6 DEF Next

\* A request in flight is lost only to a fault, to the end of the grace period,
\* or to the SIGTERM that found a bare process without its handler
\* (main.rs:78-81).
THEOREM NeverDropsSilently == Spec => NoSilentDrop
<1> DEFINE Drops == \A s \in Server : inflight[s] > 0 /\ pc'[s] = "down" => Excused(s)
<1>1. Init => RequestsInv BY DEF Init, RequestsInv
<1>2. TypeOK /\ RequestsInv /\ [Next]_vars => RequestsInv' /\ Drops
  <2> SUFFICES ASSUME TypeOK, RequestsInv, [Next]_vars PROVE RequestsInv' /\ Drops
      OBVIOUS
  <2>1. QED BY RequestsStep DEF RequestsInv
<1>3. TypeOK /\ RequestsInv /\ [Next]_vars
        => [\A s \in Server :
              inflight[s] > 0 /\ pc'[s] = "down"
                => \/ faults' > faults
                   \/ stopping'[s] = "kill"
                   \/ /\ stopping[s] = "no" /\ stopping'[s] = "term"
                      /\ "term" \notin armed[s] /\ s \notin Pid1]_vars
  BY <1>2 DEF Excused
<1>4. QED BY <1>1, <1>2, <1>3, TypeCorrect, PTL DEF Spec, NoSilentDrop
-----------------------------------------------------------------------------
(* The end of a boot: what EventuallyListening asks of every step, without *)
(* the fairness that makes the steps happen.                               *)

\* pg.rs:40: nobody waits for a lock that nobody will give back.
THEOREM LockComesBack == Spec => []WaitsForTheLiving
<1>1. IInv => WaitsForTheLiving
  BY ServerAssumption DEF IInv, TypeOK, LockInv, ListIsFresh, HoldPhases, MayGoOn,
     WaitsForTheLiving
<1>2. QED BY <1>1, Invariance, PTL

\* The loop over the migrations stays within them, also in a process whose
\* session broke.
CursorInv ==
  \A s \in Server :
    /\ pc[s] = "apply" => cursor[s] \in 1..(BuildOf[s] + 1)
    /\ pc[s] = "await" => cursor[s] \in 1..BuildOf[s]

\* A step of s stays within the migrations, takes s on and nobody else.
LEMMA MoveAdvances ==
  ASSUME TypeOK, CursorInv, NEW s \in Server, ServerStep(s)
  PROVE  /\ \A t \in Server \ {s} : pc'[t] = pc[t] /\ cursor'[t] = cursor[t]
         /\ pc'[s] = "apply" => cursor'[s] \in 1..(BuildOf[s] + 1)
         /\ pc'[s] = "await" => cursor'[s] \in 1..BuildOf[s]
         /\ StepsLeft(s) > 0 => pc'[s] = "down" \/ StepsLeft(s)' \in 0..(StepsLeft(s) - 1)
<1> USE ServerAssumption DEF TypeOK, CursorInv, StepsLeft
<1>1. CASE Leaves(s) BY <1>1 DEF Leaves, Terminate
<1>2. CASE OpenSession(s) BY <1>2 DEF OpenSession, Goto
<1>3. CASE TakeLock(s) BY <1>3 DEF TakeLock, Goto
<1>4. CASE ListPasses(s) BY <1>4 DEF ListPasses, ListApplied
<1>5. CASE SkipApplied(s) BY <1>5 DEF SkipApplied
<1>6. CASE SendMigration(s) BY <1>6 DEF SendMigration, Goto
<1>7. CASE MigrationDone(s) BY <1>7 DEF MigrationDone, Goto
<1>8. CASE Unlock(s) BY <1>8 DEF Unlock, Goto
<1>9. CASE Initialize(s)
  BY <1>9 DEF Initialize, MongoCommand, CreateCollection, CollMod, CreateIndexes, AfterCommand
<1>10. CASE BindSucceeds(s) BY <1>10 DEF BindSucceeds, Goto
<1>11. QED BY <1>1, <1>2, <1>3, <1>4, <1>5, <1>6, <1>7, <1>8, <1>9, <1>10 DEF ServerStep

LEMMA AdvanceStep ==
  ASSUME TypeOK, CursorInv, [Next]_vars, NEW s \in Server
  PROVE  /\ pc'[s] = "apply" => cursor'[s] \in 1..(BuildOf[s] + 1)
         /\ pc'[s] = "await" => cursor'[s] \in 1..BuildOf[s]
         /\ StepsLeft(s) > 0 /\ <<pc'[s], cursor'[s]>> # <<pc[s], cursor[s]>>
              => pc'[s] = "down" \/ StepsLeft(s)' \in 0..(StepsLeft(s) - 1)
<1>1. CASE UNCHANGED <<pc, cursor>> BY <1>1 DEF CursorInv
<1>2. CASE Commit \/ Reap \/ PgDown BY <1>1, <1>2 DEF Commit, Reap, PgDown, procVars
<1>3. CASE Quiet
  <2>1. ASSUME NEW t \in Server, Moves(t), UNCHANGED cursor
        PROVE  /\ pc'[s] = "apply" => cursor'[s] \in 1..(BuildOf[s] + 1)
               /\ pc'[s] = "await" => cursor'[s] \in 1..BuildOf[s]
               /\ StepsLeft(s) > 0 /\ <<pc'[s], cursor'[s]>> # <<pc[s], cursor[s]>>
                    => pc'[s] = "down" \/ StepsLeft(s)' \in 0..(StepsLeft(s) - 1)
    BY <2>1, ServerAssumption DEF Moves, Goto, TypeOK, CursorInv, StepsLeft
  <2>2. QED BY <1>1, <1>3, <2>1 DEF Quiet
<1>4. ASSUME NEW t \in Server, ServerStep(t)
      PROVE  /\ pc'[s] = "apply" => cursor'[s] \in 1..(BuildOf[s] + 1)
             /\ pc'[s] = "await" => cursor'[s] \in 1..BuildOf[s]
             /\ StepsLeft(s) > 0 /\ <<pc'[s], cursor'[s]>> # <<pc[s], cursor[s]>>
                  => pc'[s] = "down" \/ StepsLeft(s)' \in 0..(StepsLeft(s) - 1)
  <2>1. CASE t = s BY <1>4, <2>1, MoveAdvances
  <2>2. CASE t # s
    <3>1. pc'[s] = pc[s] /\ cursor'[s] = cursor[s] BY <1>4, <2>2, MoveAdvances
    <3>2. QED BY <3>1 DEF CursorInv
  <2>3. QED BY <2>1, <2>2
<1>5. QED BY <1>2, <1>3, <1>4, Steps

\* lib.rs:64, main.rs:41-51: every step of a boot is one of boundedly many.
THEOREM BootsAdvance == Spec => BootAdvances
<1> DEFINE Advances ==
      \A s \in Server : StepsLeft(s) > 0 /\ <<pc'[s], cursor'[s]>> # <<pc[s], cursor[s]>>
        => pc'[s] = "down" \/ StepsLeft(s)' \in 0..(StepsLeft(s) - 1)
<1>1. Init => CursorInv BY DEF Init, CursorInv
<1>2. TypeOK /\ CursorInv /\ [Next]_vars => CursorInv' /\ Advances
  <2> SUFFICES ASSUME TypeOK, CursorInv, [Next]_vars PROVE CursorInv' /\ Advances
      OBVIOUS
  <2>1. CursorInv' BY AdvanceStep DEF CursorInv
  <2>2. Advances BY AdvanceStep
  <2>3. QED BY <2>1, <2>2
<1>3. TypeOK /\ CursorInv /\ [Next]_vars => [Advances]_vars BY <1>2
<1>4. QED BY <1>1, <1>2, <1>3, TypeCorrect, PTL DEF Spec, BootAdvances
=============================================================================
