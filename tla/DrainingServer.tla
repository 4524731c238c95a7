--------------------------- MODULE DrainingServer ---------------------------
(***************************************************************************)
(* A server that shuts down with health probes in progress: the drain of   *)
(* ServerLifecycle, whose requests in flight are the probes of             *)
(* HealthProbe instead of a number.  There, answering is assumed to end;   *)
(* here is what that takes.                                                *)
(***************************************************************************)
EXTENDS HealthProbe

\* However many clients there are, their requests can be counted.
ASSUME ProbeAssumption == IsFiniteSet(Probe)

VARIABLE phase  \* "serving", "draining", "returned" from main, or "killed"

drainVars == <<vars, phase>>

DrainTypeOK == TypeOK /\ phase \in {"serving", "draining", "returned", "killed"}

DrainInit == Init /\ phase = "serving"

\* A probe arrives: connections are accepted while the server serves, and
\* closed after their response once it drains.
Accept(p) == phase = "serving" /\ Begin(p) /\ UNCHANGED phase

\* A probe goes on, in a server that serves or drains.
Polled(p) == phase \in {"serving", "draining"} /\ Handle(p) /\ UNCHANGED phase
Left(p) ==
  phase \in {"serving", "draining"} /\ (GiveUpMongo(p) \/ HangUp(p)) /\ UNCHANGED phase

\* SIGINT or SIGTERM: shutdown_signal resolves.
ShutdownSignal ==
  /\ phase = "serving"
  /\ phase' = "draining"
  /\ UNCHANGED vars

\* Faulty: main returns as soon as the listener is closed.
DrainedAtOnce ==
  /\ phase = "draining"
  /\ phase' = "returned"
  /\ UNCHANGED vars

\* axum::serve returns once the last response is sent, and main with it.
Drained ==
  /\ phase = "draining"
  /\ \A p \in Probe : ~Running(p)
  /\ phase' = "returned"
  /\ UNCHANGED vars

\* Docker's patience is over; the process takes its futures with it.
GraceOver ==
  /\ phase = "draining"
  /\ phase' = "killed"
  /\ stage' = [p \in Probe |-> IF Running(p) THEN "idle" ELSE stage[p]]
  /\ queue' = <<>>
  /\ permits' = {}
  /\ report' = [p \in Probe |-> IF Running(p) THEN {} ELSE report[p]]
  /\ late' = {p \in late : ~Running(p)}
  /\ Unseen

Turns ==
  \E x \in StoreNames, state \in {"up", "down", "stalled"} :
    StoreTurns(x, state) /\ UNCHANGED phase

DrainNext ==
  \/ \E p \in Probe : Accept(p) \/ Polled(p) \/ Left(p)
  \/ ShutdownSignal \/ Drained \/ GraceOver
  \/ Turns

DrainSpec == DrainInit /\ [][DrainNext]_drainVars

\* What the runtime owes a probe: it polls what can go on, and the timer of the
\* pool goes off.  The timer is counted on only where Postgres is not up: a
\* wait for other probes must end by itself.
Due(p) ==
  /\ phase \in {"serving", "draining"}
  /\ \/ Proceed(p)
     \/ store["postgres"] # "up" /\ AcquireFails(p)
  /\ UNCHANGED phase

\* Nobody has to hang up, to give up on Mongo or to kill.
DrainFairSpec ==
  /\ DrainSpec
  /\ \A p \in Probe : WF_drainVars(Due(p))
  /\ WF_drainVars(Drained)

-----------------------------------------------------------------------------
(* The lifecycle around the probes: one server, process 1 of its container, *)
(* that serves and got its SIGTERM.  The requests in flight are the probes  *)
(* that run; what happens to the stores is nothing to it.                   *)

Alive == phase \in {"serving", "draining"}
InProgress == {p \in Probe : Running(p)}
Of(value) == [s \in {"server"} |-> value]

Lifecycle == INSTANCE ServerLifecycle WITH
  Server <- {"server"}, BuildOf <- Of(1), AddrOf <- Of(8787), Pid1 <- {"server"},
  NoServer <- "none", Orphan <- "orphan", MaxInFlight <- Cardinality(Probe), MaxFaults <- 0,
  pc <- Of(IF Alive THEN phase ELSE "down"), listed <- Of({}), cursor <- Of(0),
  armed <- Of(IF Alive THEN {"int", "term"} ELSE {}), signalled <- Of(Alive),
  inflight <- Of(Cardinality(InProgress)),
  stopping <- Of(IF phase = "killed" THEN "kill" ELSE "term"),
  session <- {}, lock <- "none", tx <- 0, applied <- {1},
  collection <- TRUE, validator <- 1, index <- TRUE,
  pgUp <- TRUE, mongoUp <- TRUE, faults <- 0

\* main.rs:57-60: a server that drains its probes takes the steps of
\* ServerLifecycle and no others: each probe is accepted once and answered
\* once, hung up on or not, and main returns after the last.
DrainsLikeLifecycle == [][Lifecycle!Next]_(Lifecycle!vars)

-----------------------------------------------------------------------------
(* What holds a probe, and with it a drain.                                *)

\* pg.rs:20: once the stores no longer fall silent every probe is answered or
\* given up, and what went before, clients that hung up in the middle of a
\* ping included, leaves no permit behind that it would wait for.
EveryProbeEnds ==
  <>[](\A x \in StoreNames : store[x] # "stalled")
    => \A p \in Probe : (stage[p] = "acquire") ~> ~Running(p)

\* main.rs:57: with no store silent for ever a drain ends without SIGKILL,
\* however the pool was used before.
DrainEnds ==
  <>[](\A x \in StoreNames : store[x] # "stalled")
    => (phase = "draining" ~> phase \in {"returned", "killed"})

\* pg.rs:20: a Postgres that falls silent for good never holds a probe in the
\* queue of the pool or on the way to a connection, though the pings that run
\* then may keep their permits for ever: it holds one pool of probes, no more.
SilenceHoldsOnePool ==
  <>[](store["postgres"] = "stalled")
    => \A p \in Probe : (stage[p] \in {"acquire", "check"}) ~> (stage[p] \notin {"acquire", "check"})
=============================================================================
