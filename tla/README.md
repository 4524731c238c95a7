# CrewList in TLA+

A verification project for [CrewList](../src/README.md): TLA+ modules that model
the server at the level of its control flow, TLC configurations that check them
on small instances, and TLAPS proofs of the properties that matter most. Paths
below are relative to `src/crates/` unless they say otherwise.

Contents: [the system](#the-system) · [modules](#modules) · [runs](#runs) ·
[fairness](#fairness) · [proofs](#proofs) · [findings](#findings) ·
[assumptions](#assumptions) · [what is not modelled](#what-is-not-modelled) ·
[plan](#plan)

## The system

CrewList is a task list for a human and an agent. Its repository is a Rust
workspace of three crates, and at this commit a scaffold: the server boots,
migrates, serves HTTP and reports its health; the task operations behind the
routes are declared and answer "not implemented"; the CLI is not started.

| component | state it keeps | operations | what makes it correct |
|---|---|---|---|
| server process (`crewlist-server/src/main.rs`, `docker-compose.yml`, `Dockerfile`) | how far `main` has come, the listener, signal handlers, requests in flight | start, connect, initialize, bind, serve, drain, exit; be stopped, interrupted, killed, restarted | listens only over ready stores (AC-61); a second boot changes nothing (AC-59); a stop loses no request; comes up in the end |
| Postgres store (`crewlist-store/src/pg.rs`, `migrations/0001_init.sql`) | applied migrations, the migrator's advisory lock and session, the connection pool, the task table | `connect`, `migrate`, `ping`; the table's INSERT and DELETE | every migration once and in order; no permit lost; parents exist, ids name one task, no cycles, a delete takes a whole subtree (AC-47) |
| Mongo store (`crewlist-store/src/mongo.rs`) | the collection, its validator, its unique index | `connect` (lazy), `initialize`, `ping`; what the validator accepts | every step repeatable; the validator matches the build, and the structs of `detail.rs` |
| both stores (`crewlist-store/src/lib.rs`) | – | `connect`, `initialize` (Postgres, then Mongo) | the order of the two |
| HTTP layer (`crewlist-server/src/routes`, `extract.rs`, `error.rs`) | a request in progress | route, extract, call the repo, map the error | refused requests never reach the repo; an error object on every failure; a status that determines the exit code (AC-58) |
| repo port (`crewlist-server/src/repo.rs`) | – | `create`, `get`, `list`, `delete`, `health` | a health report is worth something (AC-64) |
| test double (`crewlist-server/src/testkit.rs`) | configured values, one configured error, a log of calls | the same five | one error, one request |
| wire types and errors (`crewlist-core/src/dto.rs`, `error.rs`) | – | (de)serialization, code and exit code of an error | nothing that was sent is lost on the way to the repo; round trips with the CLI |
| detail document (`crewlist-core/src/detail.rs`) | – | (de)serialization | what Mongo holds can be read, and written back without loss |
| task record and status (`crewlist-core/src/task.rs`, `status.rs`) | – | data types only, so far | – |
| configuration (`crewlist-server/src/config.rs`, `.env.example`) | the environment of the process | load `.env`, `from_env` | every variable has one source; loopback unless asked for (AC-62) |

How they interact: `main` calls `Stores::connect` and `Stores::initialize`, and
only then binds (shared state: the two stores, which other server processes use
at the same time). axum runs the accept loop and `shutdown_signal` side by side;
every request is a task of its own, which calls the repo through a trait object,
and the repo the stores through the pool (shared state: its permits) and the
Mongo client. Signals and Docker act on the process from outside.

What is hard in it, and hardly reachable by the repository's tests: boots that
race on the advisory lock; a migration that commits after the process that sent
it has died; a Postgres that restarts under the migrator; two stores without a
common transaction; replies that are lost after their command took effect;
signals before, between and after the installation of their handlers; a drain
with requests in flight; clients that hang up while they hold a permit; reports
put together from two pings at different times; pings without a deadline under a
drain; inserts below a task that is being deleted; two hand-written descriptions
of one document; a configuration of which half is loaded. `PROJECT.json` lists
each of them with its line and the property that is about it.

## Modules

| module | models | role |
|---|---|---|
| `BootContract` | what a boot promises | abstract specification |
| `ServerLifecycle` | `main.rs`, `lib.rs`, `PgStore::connect/migrate`, `MongoStore::initialize`, and Docker, signals and outages around them | core |
| `Serde` | what `derive(Deserialize)` takes and reads | pure operators |
| `WireTypes` | the requests of `dto.rs`, read through `Serde` | pure operators |
| `HttpApi` | `routes/`, `extract.rs`, `error.rs`, `repo.rs` (tasks), `testkit.rs`, error codes; on `WireTypes` | component |
| `RouteTests` | the tests of `routes/` and of `error.rs`, on `HttpApi` | scenarios |
| `HealthProbe` | `StoreRepo::health`, `PgStore::ping` with its pool, `MongoStore::ping` | component |
| `DrainingServer` | `HealthProbe` inside the drain of `main.rs` | composition |
| `TaskForest` | what the `tasks` table is to its users | abstract specification |
| `TaskTable` | the `tasks` table of `0001_init.sql` under concurrent sessions | component |
| `DetailSchema` | `detail.rs` against `detail_validator`, through `Serde` | component |
| `ServerConfig` | `.env`, `init_tracing`, `Config::from_env` | component |
| `ServerLifecycleProofs`, `HttpApiProofs`, `HealthProbeProofs`, `TaskForestProofs`, `TaskTableProofs`, `DetailSchemaProofs`, `ServerConfigProofs`, `RouteTestsProofs` | – | theorems |
| `MC*` | – | instances for TLC |

**`ServerLifecycle`.** The processes of the constant `Server` share one Postgres
and one Mongo. `pc[s]` is the place `main` has reached:

    down -Start-> connect -Connect-> migrate -OpenSession-> wait -TakeLock-> list
      -ListApplied-> apply <-SendMigration / MigrationDone-> await
      apply -Unlock-> create -> collmod -> index -Initialize-> bind
      -Bind-> bound -Arm-> serving -ShutdownSignal-> draining -Drained-> down

A build is a number `b` with the migrations `1..b` and validator `b`. The
repository holds one migration and one validator; more of both is what the next
releases bring, and what `migrate` and `initialize` are written for. The steps
of `sqlx`'s migrator are external: one session takes a session-level advisory
lock, lists what is applied once, refuses migrations it does not embed, passes
over the listed ones, and sends each other one in a transaction with its
bookkeeping row. `Commit` is a step of Postgres of its own: it may come after
the process died (`lock = Orphan`) and before Postgres noticed (`Reap`).
`InitializeReplyLost` is a command of which only the reply is lost. Between
`bound` and `serving` connections are accepted without signal handlers, since
axum spawns the future of `shutdown_signal` beside the accept loop. `Connect` may
fail on either store: Postgres gives no connection (`ConnectFails`), or the Mongo
client does not take its URL or finds no host for it (`ConnectMongoFails`). A signal
without a handler kills a process, unless it is process 1 of its container
(`Pid1`; the `ENTRYPOINT` of the Dockerfile), where it is discarded; once a
handler was installed, tokio keeps it, so later signals are swallowed.

**`BootContract`** has no phases, locks, signals or outages: five variables and
four actions (`ApplyMigration`, `PrepareMongo`, `Listen`, `Leave`).
`ServerLifecycle` instantiates it with `listening <- {s : Listening(s)}`.

**`WireTypes`** and **`Serde`.** A JSON value is a tuple of its type and content,
an object a function from the fields that are present, a query the sequence of its
pairs.
`Readable` and `ReadAs` say what a derived reader makes of an object: missing
fields get their default or are refused, unknown ones are passed over;
`ReadableQuery` is the strict variant (`deny_unknown_fields`, no key twice) that
`ListQuery` and `DeleteQuery` use and `CreateTaskRequest` does not. Texts are
opaque, but for the names of enumerations and the two flags.

**`HttpApi`.** Each client sends one request of the constant `Requests`.
`Dispatch`, `Extract` and the repo call are separate steps, so that requests
interleave; the repo call is one step, because neither repo awaits in it. What a
handler parses (`Extracts`) is read by `WireTypes`; `AppJson` and its siblings
turn every rejection into `validation`. `calls` logs what reaches the repo with
the arguments it gets. `Init` chooses the repo behind the port and how the fake
is configured; `told` keeps the error the fake was set up with, `error` the one it
still holds.

**`RouteTests`.** The thirty-six tests of the routes (thirty in `tasks.rs`, six
in `health.rs`) as 31 scenarios, each a repo, a request and what is asserted of it,
written with the helpers of `testkit.rs`, and the rows of the error table. Tests that
differ only in what they look at in a response are one scenario; of a body it says
where it comes from, not its fields or its wording. They check the model against the code the tests pass
on. A test starts `HttpApi` with its repo and one client that sends; otherwise any
requests are sent.

**`HealthProbe`.** A probe waits in the pool's queue, holds a permit while the
pool connects and while `SELECT 1` runs, then pings Mongo and answers. The five
seconds of `acquire_timeout` cover waiting and connecting, not the query. They are
counted by the clock: `AcquireFails` may strike whatever the state of Postgres, as
it does behind a long queue, while `ConnectFails` is a Postgres that refuses. `late`
says of which probes the report names the clock.
`HangUp` drops the handler's future at any point. Stores are up, down or stalled
(connected and silent). `seenUp` and `seenBad` record for each probe what the
stores were during it; only properties read them.

**`DrainingServer`** puts the probes into a server that serves, drains, returns
or is killed. In `ServerLifecycle` the requests in flight are a number and
answering is assumed to end; here they are probes, and it is seen what that
takes. `Lifecycle` instantiates `ServerLifecycle` with one server and with
`inflight` the number of probes that run; `DrainsLikeLifecycle` says that every
step of the drain is one of its steps, or none.

**`TaskTable`.** A transaction is one INSERT or one DELETE, the Postgres half of
`create` and `delete` of the repo port (`repo.rs:27,30`), which the source
declares and does not implement yet; what is modelled is the table they will
run against. An INSERT draws its id (`Insert`), waits for whoever deletes its
parent and locks the parent's key (`CheckParent`), and commits or rolls back; a
DELETE locks a row and then, child by child, what is below (`Cascade`). No
operation of the port changes `parent_id`. What a step waits for is an operator of
its own (`MayCheckParent`, `MayCascade`, `MayCommitDelete`), so that `NoDeadlock`
can say, without `ENABLED`, that of the open transactions one can go on.

**`TaskForest`** has no sessions, locks or cascades in progress: a create draws an
id and later joins the forest or gives up, a delete takes a task and, in the same
step, its `Subtree`. `TaskTable` instantiates it with the ids from `nextId` on as
`unused` and the ids of open inserts as `pending`; everything else it holds is
not there until it commits.

**`DetailSchema`.** A document is its root object, the objects in its arrays and
its version, with every value reduced to its kind. `Init` chooses a document
that serde writes, of this build or a later one, or one that another client of
Mongo sends: the constants `WrittenDocs` and `OtherDocs`, of which
`DocumentAssumption` says only what makes them documents, and what serde writes.
`Insert` adds the `_id` that is missing, as the driver does, and asks the
validator; `Read` asks the structs.

**`ServerConfig`.** The process starts in any environment, with or without a
`.env` in its working directory and above (constants `Environments` and
`DotEnvs`; `Values` is what a line may set a variable to). `Find` takes the nearest, `LoadLine`
sets a variable or gives up at a line that cannot be parsed, `init_tracing` and
`from_env` read what is there.

Operators whose comment starts with "Faulty:" are wrong versions of the
definition below them, of the kind a plausible bug would make. They are used
nowhere; `PROJECT.json` pairs each with a property that fails when the faulty
version takes the place of the right one.

## Runs

Every run finishes within a minute or so. `tlc -config <cfg> <module>` repeats one.

| run (cfg) | instance and bounds | question |
|---|---|---|
| `race` (`MCRace`) | 2 bare servers of build 2 on one address; 2 requests in flight, 3 faults; 125,070 states | types, `IInv`, no migration twice, restart is a no-op, `BootContract` implemented |
| `mixed` (`MCMixed`) | build 2 in a container beside a bare build 1, own addresses, 2 requests in flight, 2 faults, fairness; 175,070 states | listeners have stores that are ready for their build; the validator never runs ahead of the tables; who waits for the lock waits for someone who can go on; no boot comes back to where it was; a request in flight is lost to nothing but a fault, the end of the grace period or a signal without its handler; the newer build ends up listening although the older one crash-loops through the same lock; a handled signal drains |
| `stale_validator` (`MCStale`) | as `mixed` | violated: see findings |
| `spurious_shutdown` (`MCSpurious`) | as `race`, 1 fault | violated: see findings |
| `http` (`MCHttpApi`) | 2 requests at once, of 65 kinds, both repos, every configured error, ids of four bits (−8..7); or one test; 341,272 states | what reaches the repo and with what, which call the error waits for and fails, what a status means, whether the model does what the tests assert |
| `error_object` (`MCErrorObject`) | as `http` | violated: see findings |
| `drain` (`MCDrainingServer`) | 2 probes, pool of 1, fairness; 85,488 states | the drain is that of `ServerLifecycle`; reports are sound, but for the Postgres of a probe the clock turned away; permits conserved; a probe is held up by silence only; every probe and every drain ends unless a store stays silent; a silent Postgres holds one pool of probes and no more |
| `task_table` (`MCTaskTable`) | 3 sessions, 4 ids; 175,148 states | ids name one task, parents exist, no cycles, a commit removes one whole subtree, an id that is gone stays so, nobody waits in a circle; `TaskForest` implemented |
| `detail` (`MCDetailSchema`) | all documents of this build and the next with at most one element in an array, and every way to spoil one field of one; 2,481 states | what Mongo takes is understood and written back whole; the form of the times is all that is refused; a bare document reads as the empty one |
| `detail_version` (`MCDetailVersion`, module `MCDetailSchema`) | as `detail` | violated: see findings |
| `config` (`MCServerConfig`) | every environment of 4 variables, `.env` of up to 3 lines in the working directory, of 1 above it; 56,928 states | every variable has one source; a `.env` that breaks off half way exposes the server only if, whole, it would have |
| `dot_env` (`MCDotEnv`, module `MCServerConfig`) | as `config` | violated: see findings |

Bounds. `MaxFaults` bounds crashes, outages, lost replies, interrupts, failed
Mongo lookups and failed handler installations together; stops, restarts and
recoveries are not bounded. Three faults are enough for a crash during a migration, an outage under
the process that waits for it and a lost reply in one behaviour. Two servers are
the smallest number that can race; the lock admits one at a time, so a third adds
one more waiter, and the proofs cover every number. Two migrations are needed for
"in order" to mean something, and for a crash between them. `MaxInFlight` only
has to exceed one for "the last request". In `drain` the pool is smaller than
the number of probes, which in production takes nine, and both orders of waiting
and holding happen; its safety properties are proved for every size. Three
sessions and four ids in `task_table` are a parent, a child and a grandchild, one
more id to race with, and two writers besides the one that deletes; `MaxId`
bounds how many ids are drawn, and the proofs cover every bound. The spoilt
documents of `detail` have one fault each, since the validator and the readers
look at every field by itself. Three lines of `.env` are a variable twice and a
line that cannot be parsed, in any order.

Deadlock is checked where the system goes on for ever: in the runs of
`ServerLifecycle` and in `drain`. The others stop: every request is answered
(`HttpApi`), a document is refused or read (`DetailSchema`), the configuration is
read once (`ServerConfig`), no id and no row is left (`TaskTable`, whose waiting in
circles `NoDeadlock` is about).

## Fairness

`FairSpec` of `ServerLifecycle` assumes weak fairness of the steps of `main`
(tokio runs every task that can go on), of answering (handlers end; the task
handlers return at once, and the two pings end while the stores are not silent,
which `EveryProbeEnds` of `DrainingServer` shows), of `Start` for containers only
(`restart: unless-stopped`; nobody restarts a bare process), of `Commit` and of
`Reap` (Postgres finishes a transaction and notices a closed connection). It
assumes strong fairness of `TakeLock`: Postgres queues the waiters of an advisory
lock first in, first out, so who waits while others take and release it gets it.
Nothing is assumed of stores coming back, of operators or of faults:
`EventuallyListening` is conditional on the stores staying up and on nobody
stopping the server, while its neighbour may be started, stopped and started again
at any time, and `SignalDrains` does not use the grace period.

`DrainFairSpec` assumes weak fairness of the steps of a handler and of the return
of `main` (tokio polls what can go on). Nobody has to hang up, no driver has to
give up on a silent Mongo, and nobody has to send SIGKILL: `DrainEnds` and
`EveryProbeEnds` are conditional on no store staying silent instead, and
`SilenceHoldsOnePool` on nothing but the silence. Of the acquire timeout, `Due` counts
on as little as it can: its timer goes off for a probe that waits or connects while
Postgres is not up. A wait in the pool of a Postgres that is up must end because the
probes before it do; were a permit lost, no timeout would hide it from
`EveryProbeEnds` and `DrainEnds`.

## Proofs

Eight modules hold theorems, about 4,700 obligations, all checked by `tlapm` for
all values of the constants. Every safety invariant and action property that a
passing run checks is a theorem, and so are the three refinements. Liveness is
out of the prover's reach; three theorems prove the safety half of it, that nobody
waits for what cannot come and no boot runs in circles, which leaves to TLC the step
from there to an end under fairness.

**`ServerLifecycleProofs`**, under `ServerAssumption` alone (builds are positive numbers, the two special
holders of the lock are no servers, the bounds are numbers).

| theorem | states |
|---|---|
| `TypeCorrect` | `Spec => []TypeOK` |
| `Invariance` | `Spec => []IInv` |
| `NeverReapplied` | `Spec => []NoReapply` |
| `SchemaFirst` | `Spec => []SchemaBeforeValidator` |
| `NeverHalfBuilt` | `Spec => []ListenImpliesReady` (AC-61) |
| `BootIsIdempotent` | `Spec => RestartIsNoOp` (AC-59) |
| `Refinement` | `Spec => ImplementsContract` |
| `NeverDropsSilently` | `Spec => NoSilentDrop` |
| `LockComesBack` | `Spec => []WaitsForTheLiving` |
| `BootsAdvance` | `Spec => BootAdvances` |
| `ContractSuffices` | `ImplementsContract => []Promised` |
| `OnePerAddress` | `Spec => [](OwnAddresses /\ NoGap)` |

The argument. None of the safety properties is inductive: whether a migration
about to be sent was applied before depends on what was read under the lock a
few steps ago. `IInv` adds what makes it so. `LockInv`: the lock is held by
exactly the one live session that is past it, and no transaction is open under
a free lock. `ListIsFresh`: what the holder listed, with what it applied since,
is what Postgres holds, to the migration. Hence a migration sent is new and next
in order (`TxInv`), also after the death of its sender, whose orphaned session
keeps the lock; an unlocking migrator has left all migrations of its build in
place, and stores only gain (`StageInv`); a validator is installed only behind
such a migrator (`SchemaBeforeValidator`). Lemma `Steps` first sorts the
actions by what they do to the variables the invariant speaks of (most are a
process that leaves, or touch none of them), so that each conjunct needs one
step per kind. The refinement uses `TxInv` for `ApplyMigration`, `StageInv` for
`Listen`, and nothing else. TLC checks `IInv` as an invariant of `race`.
`NoSilentDrop` rests on an invariant of its own, `RequestsInv`: only a process
that listens or drains has requests in flight; so a boot that fails drops none,
and every other way to leave is a drained one or has one of the three excuses.
The third is narrow: the step that delivers SIGTERM to a bare process without its
handler.

`LockComesBack` and `BootsAdvance` are the safety half of `EventuallyListening`.
`WaitsForTheLiving` says for whom a migrator waits: for one that holds the lock, lives
and can go on, or for Postgres, which ends a transaction or notices a dead client
(`LockInv`). `BootAdvances` says that the steps left to a boot, `StepsLeft`, only become
fewer until it listens or ends; it needs `CursorInv`, that the loop over the migrations
stays within the build. `ContractSuffices` says that `BootContract` was worth
implementing: it is about `ImplementsContract` alone, so it holds of whatever
else implements it, and with `Refinement` gives `OnePerAddress`.

**`HttpApiProofs`**, under `RequestAssumption` (requests have one of the paths and
methods the router tells apart), for any clients, requests and range of ids:
`Types`, `SoundRequests` (`OnlySoundRequestsReachRepo`), `SeenAsSent`
(`RepoSeesWhatWasSent`), `ErrorGoesFirst` (`ErrorHitsFirstCall`), `ExitCodes`
(`StatusDeterminesExit`). The invariant adds `Progress` (who is at the repo was
routed and read), `Log` (the log holds, once each, exactly the answered requests
that reach the repo, with their arguments) and `Statuses` (an error in a response
has the status of its code); `ErrorHitsFirstCall` is inductive beside `Log`: the error
held is the one set up until the log has its first entry, whose client is answered with
it in the same step, and every later entry is made without an error. `SeenAsSent`
follows from `Log` and from what `ReadAs` and `ReadQueryAs` return.

**`RouteTestsProofs`**, under `TestAssumption` too (the requests of the tests are
among those clients send): `WithAnyRepo`, the five above for `SpecRoutes`. `Init` has a
fake that answers every operation or none, with any error; the fakes of the tests
answer one operation (`TestRepos`), and from where they start the same invariant holds.
`TestsHold` (`TestsPass`) proves that the tests pass, all 31 scenarios, if the ids
they use are task ids (`TestIds`, four small numbers; `TaskId` is an `i64`). `Answer`
says what a request over a fake is answered with, as a function of the two; `TestInv`
that one client has set out, that the fake is as the test set it up until that
client is answered, and that it is answered with `Answer` and nothing but its own
call is on record. What remains is one lemma per group of tests, which compares
`Answer` with what they assert (`AllExpected`), from which route takes which request
(`Taking`), what the handler reads of it (`Reading`) and what it passes on (`Passing`).

**`HealthProbeProofs`**, under `PoolAssumption` (the pool has a connection), for any
number of probes and any pool, in a server that serves, drains or is killed:
`Types`, `PoolKept` (`PoolConserved`), `ReportsSound` (`ReportSound`), `HeldUp`
(`HeldUpBySilenceOnly`), and, if the
probes are finitely many (`ProbeAssumption`), `Refinement` (`DrainsLikeLifecycle`). First come
three lemmas about the queue as a sequence without repetitions; `PoolInv` says
that queue and permits hold who the stages say; `ProbeInv` that a probe which
runs has recorded the present state of the stores, and what it found of Postgres
was so. A kill empties all of it at once (`GraceStep`). `HeldUp` is the
safety half of `EveryProbeEnds` and `DrainEnds`. Who waits in the pool waits for a
probe that can go on: a permit is free and the head of the queue takes it, or each
is held by a ping in progress, which goes on over a Postgres that is up and is held
up by any other. No timeout is cited. `ReportsSound` needs that a probe whose acquire
ended by the clock is in `late`, the one thing a report may say of a Postgres that
was up all along. The refinement counts:
`Counting` says what one probe more or less does to the number of requests in
flight, and that it stays below `MaxInFlight`; then each step is sorted by whether
a probe starts, ends, or merely goes on (`ProbeStep`), where the invariant of the
pool says that a probe which gets a permit was running before.

**`TaskTableProofs`**, under `MaxIdAssumption` (the bound is a number), for any
sessions:

| theorem | states |
|---|---|
| `Types`, `Identity` | `Spec => []TypeOK`, `Spec => []IdsUnique` |
| `ParentsExist`, `Hierarchy` | `Spec => []NoDanglingParent`, `Spec => []Acyclic` |
| `Cascading` | `Spec => CascadeExact` |
| `SomeoneCanProceed` | `Spec => []NoDeadlock` |
| `Refinement` | `Spec => ImplementsForest` |
| `NoIdComesBack` | `Spec => IdsGoneForGood` |

The invariant adds who locks what. `Drawn`: every id in use was drawn, and no row
that is being inserted is its own parent. `ParentHeld`: an insert that has seen its
parent keeps others from deleting it. `DoomedRows`: no two deletes hold one row, and
what a delete holds hangs together. A committed insert closes no cycle because
nothing can be below a row that was not there; that, and not the CHECK, is what
`Acyclic` rests on. Nobody waits in a circle because the tasks themselves lie in
none: an insert never waits for an insert; a delete that waits does so for a delete
whose first row is a child of its own rows. If all of them waited, then each, being
finitely many and having one first row each, would be waited for, and the rows being
deleted would be a set that holds the parents of all its members (`NoClosedSet`).
The same absence of cycles gives the refinement its hard half: what a delete holds
when its cascade is done is no more than the subtree of its first row
(`DoomedSubtree`). `NoIdComesBack` goes through the refinement: no step of `TaskForest`
brings back an id that is gone.

**`TaskForestProofs`**, if the marker of a root is not an id: `AlwaysAForest`, that
`TaskForest` by itself keeps each id in one stage of its life, every parent in place
and every set of tasks free of cycles, and `OneTreeGoes`, that its `Delete` takes out one
tree. `Subtree` is defined as what every set closed below the root has in it; the
lemmas say that it is such a set itself (`SubtreeClosed`), hangs together
(`SubtreeConnected`) and ends at its root (`SubtreeRoot`). No run instantiates the
module; `TaskTable` gives it its constants.

**`DetailSchemaProofs`**, under `DocumentAssumption`, for any documents, with any
number of elements in their arrays: `Understood` (`StoredIsUnderstood`),
`RefusedForTimes` (`OnlyTimesRefused`), `MinimalIsEmpty` (`MinimalReadsAsEmpty`). The
two descriptions are compared once, field by field (`RootAgrees`, `ItemsAgree`):
whatever the schema lets in, its times as texts, the struct takes (`Understands`),
and what the struct writes, its times as dates, the schema lets in (`Admits`). From
these two facts about types the rest follows for objects, arrays and documents.
TLC has at most one element in an array and one fault in a document.

**`ServerConfigProofs`**, under `ConfigAssumption` (an environment has the four
variables, set or not; a line of a `.env` is malformed or sets one of them to a
value that is Unicode), for any environments and any `.env` files, as long and as
deep in the tree as they may be: `Types`, `Precedence`
(`EveryVariableHasItsSource`), `Exposure` (`BreakageExposesNothing`). The invariant is
that of a loop: the environment is what the first `n` lines make of the given one
(`Loaded`), and what is left to load is what stands from there (`Remaining`), down to
the end or the first malformed line. `Exposure` adds that the address was set by a line above all malformed ones, and
that mending those leaves the lines above them as they are (`MendedStart`).

Only model-checked: liveness (`EventuallyListening`, `SignalDrains`,
`EveryProbeEnds`, `DrainEnds`, `SilenceHoldsOnePool`), as fairness is out of the
prover's reach. The five violated properties are refuted by their runs.

## Findings

* **A server may shut down without a signal** (`spurious_shutdown`).
  `crewlist-server/src/main.rs:84` discards the result of `ctrl_c()`. If the
  SIGINT handler cannot be installed the branch resolves and the server drains,
  against the doc comment "Resolves on SIGINT or SIGTERM." (line 76) and against
  the care taken in the SIGTERM branch (line 95).
* **A validator may be left stale** (`stale_validator`). `collMod` is last writer
  wins. An older build that passed its migrator before a newer build's migration
  committed may install its validator after the newer one began to serve;
  `crewlist-store/src/mongo.rs:36-37` says a restart "*upgrades* a stale validator
  rather than leaving it behind".
* **Not every failure has an error object** (`error_object`). The router has no
  fallback: axum's own 404 and 405 have empty bodies, and HEAD, which GET routes
  serve too, loses the body of its error. `routes/health.rs:8-10` calls "non-2xx
  implies an error object" exceptionless, and `extract.rs:3-4` asks for it on
  every error path.
* **Readers take any version** (`detail_version`). `crewlist-core/src/detail.rs:8-9`
  says readers reject another `schema_version` "rather than guessing at the
  shape"; the derived reader takes every `i32`, and the validator
  (`mongo.rs:127`) takes later versions too.
* **`.env` is not loaded as described** (`dot_env`). `.env.example:1-3` says that "the
  server loads it from the working directory on startup. A real environment variable
  always wins over a value here". dotenvy (`main.rs:32`) takes the first `.env` it finds
  there or in any directory above, which is what the run shows; and a real variable
  that is not Unicode counts as none for it and is replaced, which breaks the same
  property when the `.env` is where it should be.

Not run as findings of their own, but visible in the models:

* What the structs of `detail.rs` write, Mongo refuses (`OnlyTimesRefused`): times
  are texts there and dates in the validator, nor could the derived readers take
  dates. The note at `crewlist-store/src/mongo.rs:114-115` says how the structs
  must serialize; `detail.rs:31` does not do so yet, and no write path exists yet.
* SIGTERM that reaches process 1 before `Arm`, that is at any time during a boot,
  is lost: the boot goes on, requests are accepted, and the end of the grace period
  kills the process with them. A bare process is killed by it, with the requests it
  accepted between `Bind` and `Arm`; `NoSilentDrop` bounds the window to that.
* A health report may name Postgres as failed that was up all along, if the probe
  spent its five seconds in the queue of the pool; its message says so
  (`ReportSound`, `late`).
* A `.env` that sets an address twice means the first (`Said`); one that sets it
  to every interface and is contradicted further down exposes the server, as
  dotenvy's rule says it should.
* A probe whose `SELECT 1` meets a silent connection has no deadline; it keeps its
  permit and a drain waits for it, until SIGKILL (`DrainingServer`).

## Assumptions

About what lies outside the repository: a Mongo command that took effect survives
an outage of Mongo; volumes are not wiped; a migration has the same text in every
build that embeds it (no checksum mismatch), and migrations succeed unless the
connection breaks; a waiter for the lock that dies leaves the queue; no document
in Mongo contradicts the unique index, since nothing in the repository writes one.
Postgres at READ COMMITTED: `nextval` is never undone, the check of a foreign key
locks the parent's key until commit, `ON DELETE CASCADE` sees children committed
meanwhile. serde ignores unknown fields unless told otherwise, reads a missing
`Option` as `None`, and refuses a query key given twice; axum serves HEAD with the
handler of GET. dotenvy sets what `env::var` does not find, stops at the first
line it cannot parse and keeps what it has set; substitution of variables inside
`.env` is left out.

## What is not modelled

Tracing output, formatting and wording; TLS and authentication (there are none);
the content of migrations after the first, which do not exist; the CHECKs on the
lengths of title and summary (`0001_init.sql:12,18`) and the columns that no
constraint relates, as Postgres evaluates each by itself. `TaskTable` leaves out
the limit to two levels and `HttpApi` the rules on titles: both belong to the task
operations, which `repo.rs` answers with "not implemented". For the same reason
the component "task record and status" is only partly modelled: `status.rs` names
the states, and the transition table and the filter of the agent queue
are in SPEC.md alone, from whose words nothing here is taken. The client and the
CLI are not started. Response bodies are modelled by where their value comes from,
not by their fields: they are written by derived serializers and read by nobody yet.

## Plan

Done, in this order: `BootContract` and `ServerLifecycle` with its proofs,
`HttpApi`, `HealthProbe`; then `DetailSchema`, `TaskTable`, `DrainingServer`,
`ServerConfig`, `WireTypes` with the tests as scenarios, and the proofs about
`HttpApi`, `HealthProbe`, `TaskTable` and `NoSilentDrop`; then the proofs about
`DetailSchema` and `ServerConfig`, that `TaskTable` is free of deadlock and implements
`TaskForest`, that a server drains its probes as `ServerLifecycle` says, and that what holds of
`HttpApi` holds with the fakes of the tests; last, that the tests pass, what follows
from `TaskForest` and `BootContract` alone, and the safety half of the liveness
properties. What is left:

1. When the task operations are written: create and delete over both stores, with
   the document in Mongo as the second half of a write without a transaction; the
   two-level limit; the transition table. `TaskTable` and `DetailSchema` are the
   halves to compose.
