--------------------------- MODULE ServerLifecycle ---------------------------
(***************************************************************************)
(* The life of crewlist-server processes, from `main` to exit: connect,    *)
(* migrate Postgres, initialise Mongo, bind, serve, drain.  Several        *)
(* processes, of the same or of different builds, boot, crash and restart  *)
(* against the same two stores, which themselves go down and come back.    *)
(*                                                                         *)
(* A build is a number b: it embeds the migrations 1..b (sqlx::migrate!)   *)
(* and carries the detail validator number b.  sqlx, Postgres, Mongo,      *)
(* tokio's signal handling, axum's accept loop and the container runtime   *)
(* are outside the repository; they are modelled as the code uses them.    *)
(***************************************************************************)
EXTENDS Integers

CONSTANTS
  Server,       \* the server processes that share the two stores
  BuildOf,      \* BuildOf[s]: the build s runs
  AddrOf,       \* AddrOf[s]: the address s binds (CREWLIST_BIND)
  Pid1,         \* the servers that are process 1 of a container
  NoServer,     \* value of lock: no session holds the migration lock
  Orphan,       \* value of lock: the session of a dead process holds it
  MaxInFlight,  \* bound on the requests a server has in flight
  MaxFaults     \* bound on crashes, outages, lost replies, failed lookups and
                \* failed handlers

ASSUME ServerAssumption ==
  /\ BuildOf \in [Server -> Nat \ {0}]
  /\ Pid1 \subseteq Server
  /\ NoServer \notin Server /\ Orphan \notin Server /\ NoServer # Orphan
  /\ MaxInFlight \in Nat /\ MaxFaults \in Nat

VARIABLES
  pc,          \* pc[s]: how far main() of s has come
  listed,      \* listed[s]: the applied migrations s read under the lock
  cursor,      \* cursor[s]: the migration the loop of s has reached
  armed,       \* armed[s]: the signals s has a handler for
  signalled,   \* signalled[s]: has a handled signal reached s?
  inflight,    \* inflight[s]: requests s has accepted and not answered
  stopping,    \* stopping[s]: "no", or how far `docker compose stop` has gone
  session,     \* the servers whose migrating Postgres session is alive
  lock,        \* holder of sqlx's advisory lock
  tx,          \* migration of the transaction open under the lock, 0 if none
  applied,     \* migrations committed in Postgres
  collection, validator, index,  \* what Mongo holds: see BootContract
  pgUp, mongoUp,                 \* are the stores up?
  faults                         \* faults so far

procVars  == <<pc, listed, cursor, armed, signalled, inflight>>
pgVars    == <<session, lock, tx, applied>>
mongoVars == <<collection, validator, index>>
envVars   == <<stopping, pgUp, mongoUp, faults>>
vars      == <<procVars, pgVars, mongoVars, envVars>>

Signals == {"int", "term"}
MigratePhases == {"wait", "list", "apply", "await"}
HoldPhases    == {"list", "apply", "await"}
MongoPhases   == {"create", "collmod", "index"}
ListenPhases  == {"bound", "serving"}
Phases == {"down", "connect", "migrate", "bind", "draining"}
            \cup MigratePhases \cup MongoPhases \cup ListenPhases

Listening(s) == pc[s] \in ListenPhases
Goto(s, from, to) == pc[s] = from /\ pc' = [pc EXCEPT ![s] = to]
Fault == faults < MaxFaults /\ faults' = faults + 1

TypeOK ==
  /\ pc \in [Server -> Phases]
  /\ listed \in [Server -> SUBSET Nat]
  /\ cursor \in [Server -> Nat]
  /\ armed \in [Server -> SUBSET Signals]
  /\ signalled \in [Server -> BOOLEAN]
  /\ inflight \in [Server -> 0..MaxInFlight]
  /\ stopping \in [Server -> {"no", "term", "kill"}]
  /\ session \subseteq Server
  /\ lock \in Server \cup {NoServer, Orphan}
  /\ tx \in Nat
  /\ applied \subseteq Nat
  /\ collection \in BOOLEAN /\ validator \in Nat /\ index \in BOOLEAN
  /\ pgUp \in BOOLEAN /\ mongoUp \in BOOLEAN
  /\ faults \in 0..MaxFaults

Init ==
  /\ pc = [s \in Server |-> "down"]
  /\ listed = [s \in Server |-> {}]
  /\ cursor = [s \in Server |-> 0]
  /\ armed = [s \in Server |-> {}]
  /\ signalled = [s \in Server |-> FALSE]
  /\ inflight = [s \in Server |-> 0]
  /\ stopping = [s \in Server |-> "no"]
  /\ session = {} /\ lock = NoServer /\ tx = 0 /\ applied = {}
  /\ collection = FALSE /\ validator = 0 /\ index = FALSE
  /\ pgUp \in BOOLEAN /\ mongoUp \in BOOLEAN
  /\ faults = 0

-----------------------------------------------------------------------------
(* Leaving: main returns, or the process is killed.                        *)

\* The process of s is gone.  Its requests are dropped and its handlers
\* forgotten; a Postgres session that held the migration lock outlives it
\* until Postgres notices, with the transaction it was running.
Terminate(s) ==
  /\ pc' = [pc EXCEPT ![s] = "down"]
  /\ listed' = [listed EXCEPT ![s] = {}]
  /\ cursor' = [cursor EXCEPT ![s] = 0]
  /\ armed' = [armed EXCEPT ![s] = {}]
  /\ signalled' = [signalled EXCEPT ![s] = FALSE]
  /\ inflight' = [inflight EXCEPT ![s] = 0]
  /\ session' = session \ {s}
  /\ lock' = IF lock = s THEN Orphan ELSE lock
  /\ UNCHANGED <<tx, applied>>

-----------------------------------------------------------------------------
(* Boot, part 1: connect and migrate Postgres.                             *)

\* The process starts: by hand, or by `restart: unless-stopped`.
Start(s) ==
  /\ stopping[s] = "no"
  /\ Goto(s, "down", "connect")
  /\ UNCHANGED <<listed, cursor, armed, signalled, inflight, pgVars, mongoVars, envVars>>

\* Faulty: initialize forgets Postgres and goes straight to Mongo.
ConnectUnmigrated(s) ==
  /\ pgUp
  /\ Goto(s, "connect", "create")
  /\ UNCHANGED <<listed, cursor, armed, signalled, inflight, pgVars, mongoVars, envVars>>

\* Stores::connect opens a first Postgres connection; the Mongo client is
\* lazy and touches nothing yet.
Connect(s) ==
  /\ pgUp
  /\ Goto(s, "connect", "migrate")
  /\ UNCHANGED <<listed, cursor, armed, signalled, inflight, pgVars, mongoVars, envVars>>

\* No connection within acquire_timeout, for connect or for the migrator.
ConnectFails(s) ==
  /\ pc[s] \in {"connect", "migrate"}
  /\ ~pgUp
  /\ Terminate(s)
  /\ UNCHANGED <<mongoVars, envVars>>

\* The Mongo client is lazy, but it reads its URL at once and looks up a
\* mongodb+srv name: that may fail.
ConnectMongoFails(s) ==
  /\ pgUp
  /\ pc[s] = "connect"
  /\ Fault
  /\ Terminate(s)
  /\ UNCHANGED <<mongoVars, stopping, pgUp, mongoUp>>

\* MIGRATOR.run takes a connection from the pool and asks for the lock.
OpenSession(s) ==
  /\ pgUp
  /\ Goto(s, "migrate", "wait")
  /\ session' = session \cup {s}
  /\ UNCHANGED <<listed, cursor, armed, signalled, inflight, lock, tx, applied, mongoVars, envVars>>

TakeLock(s) ==
  /\ s \in session
  /\ lock = NoServer
  /\ Goto(s, "wait", "list")
  /\ lock' = s
  /\ UNCHANGED <<listed, cursor, armed, signalled, inflight, session, tx, applied, mongoVars, envVars>>

\* The migrator lists what is applied and refuses a migration it does not
\* embed: a build never runs over a newer schema.
ListApplied(s) ==
  /\ s \in session
  /\ pc[s] = "list"
  /\ IF applied \subseteq 1..BuildOf[s]
     THEN /\ pc' = [pc EXCEPT ![s] = "apply"]
          /\ listed' = [listed EXCEPT ![s] = applied]
          /\ cursor' = [cursor EXCEPT ![s] = 1]
          /\ UNCHANGED <<armed, signalled, inflight, pgVars>>
     ELSE Terminate(s)
  /\ UNCHANGED <<mongoVars, envVars>>

\* The loop passes over a migration that was applied when it listed them.
SkipApplied(s) ==
  /\ s \in session
  /\ pc[s] = "apply"
  /\ cursor[s] \in 1..BuildOf[s] \cap listed[s]
  /\ cursor' = [cursor EXCEPT ![s] = @ + 1]
  /\ UNCHANGED <<pc, listed, armed, signalled, inflight, pgVars, mongoVars, envVars>>

\* Faulty: every migration is sent, applied or not.
SendEveryMigration(s) ==
  /\ s \in session
  /\ cursor[s] \in 1..BuildOf[s]
  /\ Goto(s, "apply", "await")
  /\ tx' = cursor[s]
  /\ UNCHANGED <<listed, cursor, armed, signalled, inflight, session, lock, applied, mongoVars, envVars>>

\* Any other migration is sent, in one transaction with its bookkeeping row.
SendMigration(s) ==
  /\ s \in session
  /\ cursor[s] \in 1..BuildOf[s] \ listed[s]
  /\ Goto(s, "apply", "await")
  /\ tx' = cursor[s]
  /\ UNCHANGED <<listed, cursor, armed, signalled, inflight, session, lock, applied, mongoVars, envVars>>

\* Postgres commits, whether or not the process that sent it still lives.
Commit ==
  /\ tx # 0
  /\ applied' = applied \cup {tx}
  /\ tx' = 0
  /\ UNCHANGED <<procVars, session, lock, mongoVars, envVars>>

MigrationDone(s) ==
  /\ s \in session
  /\ tx = 0
  /\ Goto(s, "await", "apply")
  /\ cursor' = [cursor EXCEPT ![s] = @ + 1]
  /\ UNCHANGED <<listed, armed, signalled, inflight, pgVars, mongoVars, envVars>>

\* Faulty: the session goes back to the pool with the lock.
UnlockForgotten(s) ==
  /\ s \in session
  /\ cursor[s] > BuildOf[s]
  /\ Goto(s, "apply", "create")
  /\ session' = session \ {s}
  /\ UNCHANGED <<listed, cursor, armed, signalled, inflight, lock, tx, applied, mongoVars, envVars>>

\* Past the last migration the migrator unlocks.
Unlock(s) ==
  /\ s \in session
  /\ cursor[s] > BuildOf[s]
  /\ Goto(s, "apply", "create")
  /\ session' = session \ {s}
  /\ lock' = NoServer
  /\ UNCHANGED <<listed, cursor, armed, signalled, inflight, tx, applied, mongoVars, envVars>>

\* Faulty: the migrator asks again over the session that broke.
MigrateRetries(s) ==
  /\ pc[s] \in MigratePhases
  /\ s \notin session
  /\ pc' = [pc EXCEPT ![s] = "wait"]
  /\ UNCHANGED <<listed, cursor, armed, signalled, inflight, pgVars, mongoVars, envVars>>

\* The session broke under the migrator: main returns the error.
MigrateFails(s) ==
  /\ pc[s] \in MigratePhases
  /\ s \notin session
  /\ Terminate(s)
  /\ UNCHANGED <<mongoVars, envVars>>

-----------------------------------------------------------------------------
(* Boot, part 2: MongoStore::initialize, three commands in a row.          *)

\* Faulty: the collection is dropped and created anew.
CreateCollectionAnew(s) ==
  /\ pc[s] = "create"
  /\ collection' = TRUE /\ validator' = 0 /\ index' = FALSE

\* "create" tolerates a collection that exists.
CreateCollection(s) ==
  /\ pc[s] = "create"
  /\ collection' = TRUE
  /\ UNCHANGED <<validator, index>>

\* "collMod" replaces whatever validator is there by that of the build.
CollMod(s) ==
  /\ pc[s] = "collmod"
  /\ validator' = BuildOf[s]
  /\ UNCHANGED <<collection, index>>

CreateIndexes(s) ==
  /\ pc[s] = "index"
  /\ index' = TRUE
  /\ UNCHANGED <<collection, validator>>

MongoCommand(s) == CreateCollection(s) \/ CollMod(s) \/ CreateIndexes(s)

\* Faulty: the index is forgotten.
AfterCommandNoIndex(p) == IF p = "create" THEN "collmod" ELSE "bind"

AfterCommand(p) ==
  IF p = "create" THEN "collmod" ELSE IF p = "collmod" THEN "index" ELSE "bind"

Initialize(s) ==
  /\ mongoUp
  /\ MongoCommand(s)
  /\ pc' = [pc EXCEPT ![s] = AfterCommand(pc[s])]
  /\ UNCHANGED <<listed, cursor, armed, signalled, inflight, pgVars, envVars>>

\* The command takes effect and its reply is lost: main returns the error.
InitializeReplyLost(s) ==
  /\ mongoUp
  /\ Fault
  /\ MongoCommand(s)
  /\ Terminate(s)
  /\ UNCHANGED <<stopping, pgUp, mongoUp>>

\* Faulty: the error of a command is dropped and initialize goes on.
InitializeGoesOn(s) ==
  /\ pc[s] \in MongoPhases
  /\ ~mongoUp
  /\ pc' = [pc EXCEPT ![s] = AfterCommand(pc[s])]
  /\ UNCHANGED <<listed, cursor, armed, signalled, inflight, pgVars, mongoVars, envVars>>

InitializeFails(s) ==
  /\ pc[s] \in MongoPhases
  /\ ~mongoUp
  /\ Terminate(s)
  /\ UNCHANGED <<mongoVars, envVars>>

-----------------------------------------------------------------------------
(* Serve and drain.                                                        *)

\* Faulty: the listener shares its address (SO_REUSEPORT).
BindShared(s) ==
  /\ Goto(s, "bind", "bound")
  /\ UNCHANGED <<listed, cursor, armed, signalled, inflight, pgVars, mongoVars, envVars>>

\* The address is taken or free; a server that drains has given it up.
Bind(s) ==
  /\ pc[s] = "bind"
  /\ IF \E t \in Server : Listening(t) /\ AddrOf[t] = AddrOf[s]
     THEN Terminate(s)
     ELSE /\ pc' = [pc EXCEPT ![s] = "bound"]
          /\ UNCHANGED <<listed, cursor, armed, signalled, inflight, pgVars>>
  /\ UNCHANGED <<mongoVars, envVars>>

\* axum spawns shutdown_signal, whose first poll installs the handlers.
\* Installing one may fail.
Arm(s) ==
  /\ Goto(s, "bound", "serving")
  /\ \E installed \in SUBSET Signals :
       /\ armed' = [armed EXCEPT ![s] = installed]
       /\ IF installed = Signals THEN UNCHANGED faults ELSE Fault
  /\ UNCHANGED <<listed, cursor, signalled, inflight, pgVars, mongoVars, stopping, pgUp, mongoUp>>

\* The accept loop runs beside shutdown_signal: it does not wait for Arm.
Accept(s) ==
  /\ Listening(s)
  /\ inflight[s] < MaxInFlight
  /\ inflight' = [inflight EXCEPT ![s] = @ + 1]
  /\ UNCHANGED <<pc, listed, cursor, armed, signalled, pgVars, mongoVars, envVars>>

\* Faulty: a request is answered twice.
AnswerTwice(s) ==
  /\ Listening(s)
  /\ inflight' = [inflight EXCEPT ![s] = @ - 1]
  /\ UNCHANGED <<pc, listed, cursor, armed, signalled, pgVars, mongoVars, envVars>>

Answer(s) ==
  /\ inflight[s] > 0
  /\ inflight' = [inflight EXCEPT ![s] = @ - 1]
  /\ UNCHANGED <<pc, listed, cursor, armed, signalled, pgVars, mongoVars, envVars>>

\* Faulty: shutdown_signal joins its two branches instead of selecting one.
ShutdownSignalJoined(s) ==
  /\ signalled[s] /\ "int" \notin armed[s]
  /\ Goto(s, "serving", "draining")
  /\ UNCHANGED <<listed, cursor, armed, signalled, inflight, pgVars, mongoVars, envVars>>

\* shutdown_signal resolves.  The SIGTERM branch never resolves without its
\* handler; the SIGINT branch discards the error of ctrl_c and resolves.
ShutdownSignal(s) ==
  /\ signalled[s] \/ "int" \notin armed[s]
  /\ Goto(s, "serving", "draining")
  /\ UNCHANGED <<listed, cursor, armed, signalled, inflight, pgVars, mongoVars, envVars>>

\* Faulty: main returns as soon as the listener is closed.
DrainedAtOnce(s) ==
  /\ pc[s] = "draining"
  /\ Terminate(s)
  /\ UNCHANGED <<mongoVars, envVars>>

\* axum::serve returns when the last connection has closed.
Drained(s) ==
  /\ pc[s] = "draining"
  /\ inflight[s] = 0
  /\ Terminate(s)
  /\ UNCHANGED <<mongoVars, envVars>>

-----------------------------------------------------------------------------
(* The environment: signals, the container runtime, crashes, the stores.   *)

\* A signal without a handler kills, except in process 1 of a container,
\* where the kernel discards it.
Deliver(s, signal) ==
  \/ /\ signal \in armed[s]
     /\ signalled' = [signalled EXCEPT ![s] = TRUE]
     /\ UNCHANGED <<pc, listed, cursor, armed, inflight, pgVars>>
  \/ /\ signal \notin armed[s] /\ s \in Pid1
     /\ UNCHANGED <<procVars, pgVars>>
  \/ /\ signal \notin armed[s] /\ s \notin Pid1
     /\ Terminate(s)

\* Ctrl-C at the terminal of a server that runs outside a container.
Interrupt(s) ==
  /\ s \notin Pid1
  /\ pc[s] # "down"
  /\ Fault
  /\ Deliver(s, "int")
  /\ UNCHANGED <<mongoVars, stopping, pgUp, mongoUp>>

\* `docker compose stop`, or `kill`: SIGTERM now; in a container SIGKILL when
\* the grace period is over.  It also ends the restarts of a dead server.
Stop(s) ==
  /\ stopping[s] = "no"
  /\ stopping' = [stopping EXCEPT ![s] = "term"]
  /\ Deliver(s, "term")
  /\ UNCHANGED <<mongoVars, pgUp, mongoUp, faults>>

GraceOver(s) ==
  /\ s \in Pid1
  /\ pc[s] # "down"
  /\ stopping[s] = "term"
  /\ stopping' = [stopping EXCEPT ![s] = "kill"]
  /\ Terminate(s)
  /\ UNCHANGED <<mongoVars, pgUp, mongoUp, faults>>

\* `docker compose up` after a stop.
Up(s) ==
  /\ pc[s] = "down"
  /\ stopping[s] # "no"
  /\ stopping' = [stopping EXCEPT ![s] = "no"]
  /\ UNCHANGED <<procVars, pgVars, mongoVars, pgUp, mongoUp, faults>>

Crash(s) ==
  /\ pc[s] # "down"
  /\ Fault
  /\ Terminate(s)
  /\ UNCHANGED <<mongoVars, stopping, pgUp, mongoUp>>

\* Postgres goes down: every session and the lock go with it, and an open
\* transaction rolls back.
PgDown ==
  /\ pgUp
  /\ Fault
  /\ pgUp' = FALSE
  /\ session' = {}
  /\ lock' = NoServer
  /\ tx' = 0
  /\ UNCHANGED <<procVars, applied, mongoVars, stopping, mongoUp>>

PgBack ==
  /\ ~pgUp
  /\ pgUp' = TRUE
  /\ UNCHANGED <<procVars, pgVars, mongoVars, stopping, mongoUp, faults>>

\* Postgres notices that the client of the orphaned session is gone.
Reap ==
  /\ lock = Orphan
  /\ lock' = NoServer
  /\ tx' = 0
  /\ UNCHANGED <<procVars, session, applied, mongoVars, envVars>>

MongoDown ==
  /\ mongoUp
  /\ Fault
  /\ mongoUp' = FALSE
  /\ UNCHANGED <<procVars, pgVars, mongoVars, stopping, pgUp>>

MongoBack ==
  /\ ~mongoUp
  /\ mongoUp' = TRUE
  /\ UNCHANGED <<procVars, pgVars, mongoVars, stopping, pgUp, faults>>

-----------------------------------------------------------------------------

Boot(s) ==
  \/ Start(s) \/ Connect(s) \/ ConnectFails(s) \/ ConnectMongoFails(s)
  \/ OpenSession(s) \/ TakeLock(s) \/ ListApplied(s) \/ SkipApplied(s)
  \/ SendMigration(s) \/ MigrationDone(s) \/ Unlock(s) \/ MigrateFails(s)
  \/ Initialize(s) \/ InitializeReplyLost(s) \/ InitializeFails(s)
  \/ Bind(s) \/ Arm(s)

Serve(s) == Accept(s) \/ Answer(s) \/ ShutdownSignal(s) \/ Drained(s)

Operate(s) == Interrupt(s) \/ Stop(s) \/ GraceOver(s) \/ Up(s) \/ Crash(s)

Stores == Commit \/ Reap \/ PgDown \/ PgBack \/ MongoDown \/ MongoBack

Next == Stores \/ \E s \in Server : Boot(s) \/ Serve(s) \/ Operate(s)

Spec == Init /\ [][Next]_vars

\* The step of main that runs when s is scheduled and no command fails.
Advance(s) ==
  \/ Connect(s) \/ ConnectFails(s)
  \/ OpenSession(s) \/ ListApplied(s) \/ SkipApplied(s)
  \/ SendMigration(s) \/ MigrationDone(s) \/ Unlock(s) \/ MigrateFails(s)
  \/ Initialize(s) \/ InitializeFails(s) \/ Bind(s) \/ Arm(s)
  \/ ShutdownSignal(s) \/ Drained(s)

\* The runtime schedules every task, Docker restarts a dead container,
\* handlers answer, Postgres finishes a transaction and notices a dead client.
\* Its lock queue is first in, first out: who waits for the lock and keeps
\* finding it free in between gets it.
Fairness ==
  /\ \A s \in Server :
       /\ WF_vars(Advance(s))
       /\ WF_vars(Answer(s))
       /\ SF_vars(TakeLock(s))
  /\ \A s \in Pid1 : WF_vars(Start(s))
  /\ WF_vars(Commit) /\ WF_vars(Reap)

FairSpec == Spec /\ Fairness

-----------------------------------------------------------------------------
(* What a boot guarantees.                                                 *)

Contract == INSTANCE BootContract
              WITH listening <- {s \in Server : Listening(s)}

\* The processes do what BootContract promises, across races, crashes,
\* outages and signals.
ImplementsContract == Contract!Spec

\* main.rs:3-5 (AC-61): whoever listens does so over stores that are ready
\* for the build it runs, whatever other processes and the stores do.
ListenImpliesReady ==
  \A s \in Server : Listening(s) => Contract!ReadyFor(BuildOf[s])

\* No migration is sent to Postgres a second time or ahead of an earlier
\* one, even while the session of a dead process still runs its own.
NoReapply ==
  tx # 0 => tx \notin applied /\ 1..(tx - 1) \subseteq applied

\* Stores::initialize: the validator in Mongo is never ahead of the tables in
\* Postgres, although the two stores share no transaction.
SchemaBeforeValidator == 1..validator \subseteq applied

\* pg.rs:32, mongo.rs:34 (AC-59): over stores that are ready for every
\* process, no start, race or failure of one changes or sends anything.
RestartIsNoOp ==
  [][(\A s \in Server : Contract!ReadyFor(BuildOf[s]) /\ validator = BuildOf[s])
       => UNCHANGED <<tx, applied, mongoVars>>]_vars

\* mongo.rs:36 "a restart also *upgrades* a stale validator rather than
\* leaving it behind": whoever serves does so behind a validator at least as
\* new as its own build.
ValidatorNotStale ==
  \A s \in Server : Listening(s) => validator >= BuildOf[s]

\* A migrator past the lock that does not wait for Postgres.
MayGoOn(s) ==
  \/ pc[s] = "list"
  \/ pc[s] = "apply" /\ cursor[s] \in 1..(BuildOf[s] + 1)
  \/ pc[s] = "await" /\ tx = 0

\* pg.rs:40: whoever waits for the migration lock waits for another migrator
\* that lives and can go on, or for Postgres, which can: to end a transaction
\* or to notice a dead client.  No migrator leaves with the lock and survives.
WaitsForTheLiving ==
  \A s \in session : pc[s] = "wait" =>
    \/ lock \in {NoServer, Orphan}
    \/ tx # 0
    \/ lock \in session \ {s} /\ MayGoOn(lock)

\* The steps that are left to s until it listens, at most.
StepsLeft(s) ==
  LET migrations == 2 * (BuildOf[s] + 1 - cursor[s]) IN
  CASE pc[s] = "connect" -> 2 * BuildOf[s] + 9
    [] pc[s] = "migrate" -> 2 * BuildOf[s] + 8
    [] pc[s] = "wait"    -> 2 * BuildOf[s] + 7
    [] pc[s] = "list"    -> 2 * BuildOf[s] + 6
    [] pc[s] = "apply"   -> migrations + 5
    [] pc[s] = "await"   -> migrations + 4
    [] pc[s] = "create"  -> 4
    [] pc[s] = "collmod" -> 3
    [] pc[s] = "index"   -> 2
    [] pc[s] = "bind"    -> 1
    [] OTHER             -> 0

\* lib.rs:64, main.rs:41-51: a boot never comes back to where it was: each of
\* its steps, whatever others do in between, brings it closer to listening or
\* ends it, and it has a bounded number of them.
BootAdvances ==
  [][\A s \in Server : StepsLeft(s) > 0 /\ <<pc'[s], cursor'[s]>> # <<pc[s], cursor[s]>>
       => pc'[s] = "down" \/ StepsLeft(s)' \in 0..(StepsLeft(s) - 1)]_vars

-----------------------------------------------------------------------------
(* What a shutdown guarantees.                                             *)

\* main.rs:78-81: a request in flight is lost only to a fault, to the end of
\* the grace period, or to the very SIGTERM that found a bare process without
\* its handler; never to a drain, to a boot that fails, or to a neighbour.
NoSilentDrop ==
  [][\A s \in Server :
       inflight[s] > 0 /\ pc'[s] = "down"
         => \/ faults' > faults
            \/ stopping'[s] = "kill"
            \/ /\ stopping[s] = "no" /\ stopping'[s] = "term"
               /\ "term" \notin armed[s] /\ s \notin Pid1]_vars

\* main.rs:76 "Resolves on SIGINT or SIGTERM.": a server drains only if it
\* got a signal.
DrainOnlyOnSignal ==
  \A s \in Server : pc[s] = "draining" => signalled[s]

\* main.rs:78-81: a signal that finds a handler ends in a drained exit;
\* nothing has to wait for the end of the grace period.
SignalDrains == \A s \in Server : signalled[s] ~> (pc[s] = "down")

\* A server of the newest build that Docker keeps up listens for good once
\* the stores stay up: no lock is leaked to it, no crash-looping neighbour of
\* an older build starves it.
EventuallyListening ==
  \A s \in Pid1 :
    (\A t \in Server : BuildOf[t] <= BuildOf[s]) =>
      (<>[](pgUp /\ mongoUp /\ stopping[s] = "no") => <>[]Listening(s))

-----------------------------------------------------------------------------
(* The inductive invariant: why the guarantees hold.                       *)

\* A live session past the lock is the lock holder, and only it.
LockInv ==
  /\ \A s \in Server : lock = s <=> s \in session /\ pc[s] \in HoldPhases
  /\ lock = NoServer => tx = 0

\* The list the holder read under the lock is still what Postgres holds, but
\* for the migrations the holder applied since.
ListIsFresh(s) ==
  /\ pc[s] = "list" => tx = 0
  /\ pc[s] \in {"apply", "await"} => listed[s] \subseteq 1..BuildOf[s]
  /\ pc[s] = "apply" =>
       /\ tx = 0
       /\ cursor[s] \in 1..(BuildOf[s] + 1)
       /\ applied = listed[s] \cup 1..(cursor[s] - 1)
  /\ pc[s] = "await" =>
       /\ cursor[s] \in 1..BuildOf[s]
       /\ \/ tx = cursor[s] /\ applied = listed[s] \cup 1..(cursor[s] - 1)
          \/ tx = 0 /\ applied = listed[s] \cup 1..cursor[s]

\* Transactions are those of some build, in order, and only once.
TxInv ==
  /\ NoReapply
  /\ tx # 0 => \E s \in Server : tx \in 1..BuildOf[s]

\* What a process has behind it stays done.
StageInv ==
  \A s \in Server :
    /\ pc[s] \in MongoPhases \cup ListenPhases \cup {"bind"}
         => 1..BuildOf[s] \subseteq applied
    /\ pc[s] \in {"collmod", "index", "bind"} \cup ListenPhases => collection
    /\ pc[s] \in {"index", "bind"} \cup ListenPhases => validator # 0
    /\ pc[s] \in {"bind"} \cup ListenPhases => index

IInv ==
  /\ TypeOK
  /\ LockInv
  /\ \A s \in Server : lock = s => ListIsFresh(s)
  /\ TxInv
  /\ StageInv
  /\ SchemaBeforeValidator
=============================================================================
