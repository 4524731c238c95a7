---------------------------- MODULE HealthProbe ----------------------------
(***************************************************************************)
(* GET /health in production: StoreRepo::health pings Postgres through a   *)
(* bounded connection pool, then Mongo, and reports what it saw.  Several  *)
(* probes run at once, clients hang up in the middle of one, and the       *)
(* stores go down, stop answering and come back while it runs.             *)
(*                                                                         *)
(* The pool (sqlx) hands out permits first come, first served; dropping    *)
(* the future of a probe gives its place or its permit back.  The pool,    *)
(* the drivers and hyper are modelled as the code uses them.               *)
(***************************************************************************)
EXTENDS Integers, Sequences, FiniteSets, SequencesExt

CONSTANTS
  Probe,     \* requests for /health that may be in progress
  PoolSize   \* max_connections of PgPoolOptions, 8 in the code

ASSUME PoolAssumption == PoolSize \in Nat \ {0}

VARIABLES
  stage,    \* stage[p]: where the handler of p is
  queue,    \* the probes that wait for a permit, first come first
  permits,  \* the probes whose ping holds a permit
  report,   \* report[p]: the stores p found ok
  late,     \* the probes whose last ping of Postgres ended by the clock, which
            \* the message in their report says: "pool timed out"
  store,    \* store[x]: "up", "down", or "stalled": connected but silent
  seenUp,   \* seenUp[p]: the stores that were up at some time during p
  seenBad   \* seenBad[p]: the stores that were not up at some time during p

probeVars == <<stage, queue, permits, report, late>>
vars == <<probeVars, store, seenUp, seenBad>>

StoreNames == {"postgres", "mongo"}
UpStores == {x \in StoreNames : store[x] = "up"}
Running(p) == stage[p] \notin {"idle", "done"}

TypeOK ==
  /\ stage \in [Probe -> {"idle", "acquire", "check", "query", "mongo", "done"}]
  /\ queue \in Seq(Probe) /\ IsInjective(queue)
  /\ permits \subseteq Probe
  /\ report \in [Probe -> SUBSET StoreNames]
  /\ late \subseteq Probe
  /\ store \in [StoreNames -> {"up", "down", "stalled"}]
  /\ seenUp \in [Probe -> SUBSET StoreNames]
  /\ seenBad \in [Probe -> SUBSET StoreNames]

Init ==
  /\ stage = [p \in Probe |-> "idle"]
  /\ queue = <<>>
  /\ permits = {}
  /\ report = [p \in Probe |-> {}]
  /\ late = {}
  /\ store = [x \in StoreNames |-> "up"]
  /\ seenUp = [p \in Probe |-> {}]
  /\ seenBad = [p \in Probe |-> {}]

Unseen == UNCHANGED <<store, seenUp, seenBad>>

\* Faulty: a probe asks the pool again while its first ping still waits.
BeginAgain(p) ==
  /\ stage[p] \in {"idle", "acquire", "done"}
  /\ stage' = [stage EXCEPT ![p] = "acquire"]
  /\ queue' = Append(queue, p)
  /\ report' = [report EXCEPT ![p] = {}]
  /\ late' = late \ {p}
  /\ seenUp' = [seenUp EXCEPT ![p] = UpStores]
  /\ seenBad' = [seenBad EXCEPT ![p] = StoreNames \ UpStores]
  /\ UNCHANGED <<permits, store>>

\* A request for /health arrives: pg.ping() asks the pool for a connection.
Begin(p) ==
  /\ ~Running(p)
  /\ stage' = [stage EXCEPT ![p] = "acquire"]
  /\ queue' = Append(queue, p)
  /\ report' = [report EXCEPT ![p] = {}]
  /\ late' = late \ {p}
  /\ seenUp' = [seenUp EXCEPT ![p] = UpStores]
  /\ seenBad' = [seenBad EXCEPT ![p] = StoreNames \ UpStores]
  /\ UNCHANGED <<permits, store>>

Acquire(p) ==
  /\ queue # <<>> /\ p = Head(queue)
  /\ Cardinality(permits) < PoolSize
  /\ stage' = [stage EXCEPT ![p] = "check"]
  /\ queue' = Tail(queue)
  /\ permits' = permits \cup {p}
  /\ UNCHANGED <<report, late>>
  /\ Unseen

\* Still inside acquire_timeout the pool connects, or checks an idle
\* connection.
Connected(p) ==
  /\ stage[p] = "check"
  /\ store["postgres"] = "up"
  /\ stage' = [stage EXCEPT ![p] = "query"]
  /\ UNCHANGED <<queue, permits, report, late>>
  /\ Unseen

\* Or there is none to be had: a Postgres that is down refuses for good.
ConnectFails(p) ==
  /\ stage[p] = "check"
  /\ store["postgres"] = "down"
  /\ stage' = [stage EXCEPT ![p] = "mongo"]
  /\ permits' = permits \ {p}
  /\ UNCHANGED <<queue, report, late>>
  /\ Unseen

\* Faulty: a connection that is not made in time keeps its permit.
AcquireFailsLeaky(p) ==
  /\ stage[p] \in {"acquire", "check"}
  /\ stage' = [stage EXCEPT ![p] = "mongo"]
  /\ queue' = RemoveFirst(queue, p)
  /\ late' = late \cup {p}
  /\ UNCHANGED <<permits, report>>
  /\ Unseen

\* Faulty: no time limit on the wait for a permit.
AcquireFailsConnecting(p) ==
  /\ stage[p] = "check"
  /\ stage' = [stage EXCEPT ![p] = "mongo"]
  /\ permits' = permits \ {p}
  /\ late' = late \cup {p}
  /\ UNCHANGED <<queue, report>>
  /\ Unseen

\* Five seconds are over, in the queue or while connecting.  The clock does
\* not ask how Postgres is: a long queue will do.
AcquireFails(p) ==
  /\ stage[p] \in {"acquire", "check"}
  /\ stage' = [stage EXCEPT ![p] = "mongo"]
  /\ queue' = RemoveFirst(queue, p)
  /\ permits' = permits \ {p}
  /\ late' = late \cup {p}
  /\ UNCHANGED report
  /\ Unseen

\* SELECT 1 succeeds or fails; over a connection that is open and silent it
\* does neither, for it has no deadline.
PingPostgres(p) ==
  /\ stage[p] = "query"
  /\ store["postgres"] # "stalled"
  /\ stage' = [stage EXCEPT ![p] = "mongo"]
  /\ permits' = permits \ {p}
  /\ report' = [report EXCEPT ![p] = @ \cup ({"postgres"} \cap UpStores)]
  /\ UNCHANGED <<queue, late>>
  /\ Unseen

\* Faulty: a ping that fails is reported as one that does not.
PingMongoSwallowed(p) ==
  /\ stage[p] = "mongo"
  /\ store["mongo"] # "stalled"
  /\ stage' = [stage EXCEPT ![p] = "done"]
  /\ report' = [report EXCEPT ![p] = @ \cup {"mongo"}]
  /\ UNCHANGED <<queue, permits, late>>
  /\ Unseen

\* Only now Mongo, and with that the response, always 200.
PingMongo(p) ==
  /\ stage[p] = "mongo"
  /\ store["mongo"] # "stalled"
  /\ stage' = [stage EXCEPT ![p] = "done"]
  /\ report' = [report EXCEPT ![p] = @ \cup ({"mongo"} \cap UpStores)]
  /\ UNCHANGED <<queue, permits, late>>
  /\ Unseen

\* The driver may give up on a silent Mongo by itself.
GiveUpMongo(p) ==
  /\ stage[p] = "mongo"
  /\ store["mongo"] = "stalled"
  /\ stage' = [stage EXCEPT ![p] = "done"]
  /\ UNCHANGED <<queue, permits, report, late>>
  /\ Unseen

\* Faulty: a dropped ping does not give its permit back.
HangUpLeaky(p) ==
  /\ Running(p)
  /\ stage' = [stage EXCEPT ![p] = "idle"]
  /\ queue' = RemoveFirst(queue, p)
  /\ report' = [report EXCEPT ![p] = {}]
  /\ late' = late \ {p}
  /\ UNCHANGED permits
  /\ Unseen

\* The client hangs up: hyper drops the future of the handler where it is.
HangUp(p) ==
  /\ Running(p)
  /\ stage' = [stage EXCEPT ![p] = "idle"]
  /\ queue' = RemoveFirst(queue, p)
  /\ permits' = permits \ {p}
  /\ report' = [report EXCEPT ![p] = {}]
  /\ late' = late \ {p}
  /\ Unseen

\* A store changes state under the probes that run.
StoreTurns(x, state) ==
  /\ store[x] # state
  /\ store' = [store EXCEPT ![x] = state]
  /\ seenUp' = [p \in Probe |->
       IF Running(p) /\ state = "up" THEN seenUp[p] \cup {x} ELSE seenUp[p]]
  /\ seenBad' = [p \in Probe |->
       IF Running(p) /\ state # "up" THEN seenBad[p] \cup {x} ELSE seenBad[p]]
  /\ UNCHANGED probeVars

\* What p does when nothing fails, and when that is possible.
Proceed(p) == Acquire(p) \/ Connected(p) \/ PingPostgres(p) \/ PingMongo(p)
MayProceed(p) ==
  \/ queue # <<>> /\ p = Head(queue) /\ Cardinality(permits) < PoolSize
  \/ stage[p] = "check" /\ store["postgres"] = "up"
  \/ stage[p] = "query" /\ store["postgres"] # "stalled"
  \/ stage[p] = "mongo" /\ store["mongo"] # "stalled"

Handle(p) == Proceed(p) \/ ConnectFails(p) \/ AcquireFails(p)

Next ==
  \/ \E p \in Probe : Begin(p) \/ Handle(p) \/ GiveUpMongo(p) \/ HangUp(p)
  \/ \E x \in StoreNames, state \in {"up", "down", "stalled"} : StoreTurns(x, state)

Spec == Init /\ [][Next]_vars

-----------------------------------------------------------------------------
(* What a health report is worth.                                          *)

\* health.rs:9-10 (AC-64): a report names as ok only a store that was up, and
\* as failed only one that was not, at some time while the probe ran.  The one
\* exception says so itself: Postgres, of a probe that the pool turned away.
ReportSound ==
  \A p \in Probe : stage[p] = "done" =>
    /\ report[p] \subseteq seenUp[p]
    /\ StoreNames \ report[p] \subseteq seenBad[p] \cup {x \in {"postgres"} : p \in late}

\* pg.rs:20: a client that hangs up, at any point, gives back what its ping
\* held: the pool never shrinks, and nobody waits in it twice.
PoolConserved ==
  /\ permits = {p \in Probe : stage[p] \in {"check", "query"}}
  /\ ToSet(queue) = {p \in Probe : stage[p] = "acquire"}
  /\ Cardinality(permits) <= PoolSize

\* What p waits for is an answer of a store that does not answer.
ByPostgres(p) ==
  \/ stage[p] = "check" /\ store["postgres"] # "up"
  \/ stage[p] = "query" /\ store["postgres"] = "stalled"
ByMongo(p) == stage[p] = "mongo" /\ store["mongo"] = "stalled"

\* pg.rs:48: a probe is held up by a store that does not answer it, and by
\* nothing else; one that waits in the pool waits for another, the next in the
\* queue or one that holds a permit, that goes on or that Postgres holds up.
\* The clock, which ends the wait in the pool, is not counted on here.
HeldUpBySilenceOnly ==
  \A p \in Probe : Running(p) =>
    \/ MayProceed(p) \/ ByPostgres(p) \/ ByMongo(p)
    \/ /\ stage[p] = "acquire"
       /\ \E q \in Probe \ {p} :
            /\ q \in permits \/ q = Head(queue)
            /\ MayProceed(q) \/ ByPostgres(q)
=============================================================================
