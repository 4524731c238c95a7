-------------------------- MODULE HealthProbeProofs --------------------------
(***************************************************************************)
(* Why a health report is sound and the pool conserved, while the server   *)
(* serves and while it drains, for any number of probes and any size of    *)
(* the pool; and why such a server drains as ServerLifecycle says.         *)
(***************************************************************************)
EXTENDS DrainingServer, FiniteSetTheorems, SequenceTheorems, TLAPS

-----------------------------------------------------------------------------
(* The queue of the pool.                                                  *)

\* A probe that joins a queue it is not in.
LEMMA AppendProps ==
  ASSUME NEW S, NEW q \in Seq(S), IsInjective(q), NEW e \in S, e \notin ToSet(q)
  PROVE  /\ Append(q, e) \in Seq(S)
         /\ IsInjective(Append(q, e))
         /\ ToSet(Append(q, e)) = ToSet(q) \cup {e}
<1> DEFINE a == Append(q, e)
<1>1. /\ a \in Seq(S) /\ Len(a) = Len(q) + 1
      /\ \A i \in 1..Len(q) : a[i] = q[i]
      /\ a[Len(q) + 1] = e
  OBVIOUS
<1>2. \A i \in 1..Len(q) : q[i] # e BY DEF ToSet
<1>3. IsInjective(a) BY <1>1, <1>2 DEF IsInjective
<1>4. ToSet(a) = ToSet(q) \cup {e} BY <1>1 DEF ToSet
<1>5. QED BY <1>1, <1>3, <1>4

\* The first of the queue leaves it.
LEMMA TailProps ==
  ASSUME NEW S, NEW q \in Seq(S), IsInjective(q), q # <<>>
  PROVE  /\ Head(q) \in S
         /\ Tail(q) \in Seq(S)
         /\ IsInjective(Tail(q))
         /\ ToSet(Tail(q)) = ToSet(q) \ {Head(q)}
<1>1. /\ Tail(q) \in Seq(S) /\ Len(Tail(q)) = Len(q) - 1 /\ Len(q) \in Nat \ {0}
      /\ \A i \in 1..Len(Tail(q)) : Tail(q)[i] = q[i + 1]
      /\ Head(q) = q[1] /\ q[1] \in S
  OBVIOUS
<1>2. IsInjective(Tail(q)) BY <1>1 DEF IsInjective
<1>3. ToSet(Tail(q)) \subseteq ToSet(q) \ {Head(q)} BY <1>1 DEF ToSet, IsInjective
<1>4. ASSUME NEW x \in ToSet(q) \ {Head(q)} PROVE x \in ToSet(Tail(q))
  <2>1. PICK i \in 1..Len(q) : q[i] = x /\ i # 1 BY <1>1 DEF ToSet
  <2>2. i - 1 \in 1..Len(Tail(q)) /\ Tail(q)[i - 1] = x BY <1>1, <2>1
  <2>3. i - 1 \in DOMAIN Tail(q) BY <1>1, <2>2
  <2>4. QED BY <2>2, <2>3 DEF ToSet
<1>5. QED BY <1>1, <1>2, <1>3, <1>4

\* A probe leaves the queue wherever it is in it.
LEMMA RemoveFirstProps ==
  ASSUME NEW S, NEW q \in Seq(S), IsInjective(q), NEW e
  PROVE  /\ RemoveFirst(q, e) \in Seq(S)
         /\ IsInjective(RemoveFirst(q, e))
         /\ ToSet(RemoveFirst(q, e)) = ToSet(q) \ {e}
<1>1. CASE ~\E i \in 1..Len(q) : q[i] = e
  BY <1>1 DEF RemoveFirst, ToSet
<1>2. CASE \E i \in 1..Len(q) : q[i] = e
  <2>1. PICK k \in 1..Len(q) : q[k] = e BY <1>2
  <2>2. {i \in 1..Len(q) : q[i] = e} = {k} BY <2>1 DEF IsInjective
  <2>3. Min({k}) = k BY DEF Min
  <2>4. SelectInSeq(q, LAMBDA v : v = e) = k BY <2>2, <2>3 DEF SelectInSeq
  <2>5. RemoveFirst(q, e) = RemoveAt(q, k) BY <1>2, <2>4 DEF RemoveFirst
  <2> DEFINE r == RemoveAt(q, k)
  <2>6. /\ r \in Seq(S) /\ Len(r) = Len(q) - 1
        /\ \A i \in 1..Len(r) : r[i] = IF i < k THEN q[i] ELSE q[i + 1]
    <3>1. /\ SubSeq(q, 1, k - 1) \in Seq(S) /\ Len(SubSeq(q, 1, k - 1)) = k - 1
          /\ \A i \in 1..(k - 1) : SubSeq(q, 1, k - 1)[i] = q[i]
      OBVIOUS
    <3>2. /\ SubSeq(q, k + 1, Len(q)) \in Seq(S) /\ Len(SubSeq(q, k + 1, Len(q))) = Len(q) - k
          /\ \A i \in 1..(Len(q) - k) : SubSeq(q, k + 1, Len(q))[i] = q[k + i]
      OBVIOUS
    <3> DEFINE left == SubSeq(q, 1, k - 1)
               right == SubSeq(q, k + 1, Len(q))
    <3>3. r = left \o right BY DEF RemoveAt
    <3>4. /\ left \in Seq(S) /\ Len(left) = k - 1
          /\ right \in Seq(S) /\ Len(right) = Len(q) - k
      BY <3>1, <3>2
    <3> HIDE DEF left, right, r
    <3>9. /\ left \o right \in Seq(S)
          /\ Len(left \o right) = Len(left) + Len(right)
          /\ \A i \in 1..(Len(left) + Len(right)) :
               (left \o right)[i] = IF i <= Len(left) THEN left[i] ELSE right[i - Len(left)]
      BY <3>4, ConcatProperties
    <3>5. /\ r \in Seq(S) /\ Len(r) = Len(left) + Len(right)
          /\ \A i \in 1..Len(r) : r[i] = IF i <= Len(left) THEN left[i] ELSE right[i - Len(left)]
      BY <3>3, <3>9
    <3>6. Len(r) = Len(q) - 1 /\ Len(q) \in Nat BY <3>4, <3>5
    <3>7. ASSUME NEW i \in 1..Len(r) PROVE r[i] = IF i < k THEN q[i] ELSE q[i + 1]
      <4>1. CASE i < k
        <5>1. r[i] = left[i] BY <3>4, <3>5, <4>1
        <5>2. i \in 1..(k - 1) BY <4>1
        <5>3. QED BY <3>1, <4>1, <5>1, <5>2 DEF left
      <4>2. CASE i >= k
        <5>1. r[i] = right[i - (k - 1)]
          <6>1. ~(i <= k - 1) BY <3>6, <4>2
          <6>2. QED BY <3>4, <3>5, <6>1
        <5>2. i - (k - 1) \in 1..(Len(q) - k) BY <3>6, <4>2
        <5>3. right[i - (k - 1)] = q[k + (i - (k - 1))] BY <3>2, <5>2 DEF right
        <5>4. k + (i - (k - 1)) = i + 1 BY <3>6
        <5>5. QED BY <4>2, <5>1, <5>3, <5>4
      <4>3. QED BY <4>1, <4>2
    <3>8. QED BY <3>5, <3>6, <3>7
  <2>7. IsInjective(r)
    <3> DEFINE at(i) == IF i < k THEN i ELSE i + 1
    <3>1. DOMAIN r = 1..(Len(q) - 1) /\ Len(r) = Len(q) - 1 BY <2>6
    <3>2. \A i \in DOMAIN r : at(i) \in DOMAIN q /\ r[i] = q[at(i)] BY <2>6, <3>1
    <3>3. \A i, j \in DOMAIN r : at(i) = at(j) => i = j BY <3>1
    <3> HIDE DEF r, at
    <3>4. QED BY <3>2, <3>3 DEF IsInjective
  <2>8. ToSet(r) \subseteq ToSet(q) \ {e} BY <2>1, <2>6 DEF ToSet, IsInjective
  <2>9. ASSUME NEW x \in ToSet(q) \ {e} PROVE x \in ToSet(r)
    <3>1. PICK i \in 1..Len(q) : q[i] = x /\ i # k BY <2>1, <2>9 DEF ToSet
    <3>2. CASE i < k BY <2>6, <3>1, <3>2 DEF ToSet
    <3>3. CASE i > k
      <4>1. i - 1 \in 1..Len(r) /\ r[i - 1] = x BY <2>6, <3>1, <3>3
      <4>2. QED BY <2>6, <4>1 DEF ToSet
    <3>4. QED BY <3>1, <3>2, <3>3
  <2>10. QED BY <2>5, <2>6, <2>7, <2>8, <2>9
<1>3. QED BY <1>1, <1>2

-----------------------------------------------------------------------------
(* Types and the pool.                                                     *)

\* The pool with the one fact its count needs.
PoolInv == PoolConserved /\ IsFiniteSet(permits)

\* At first nobody is in the pool.
LEMMA InitPool == Init => TypeOK /\ PoolInv
<1> SUFFICES ASSUME Init PROVE TypeOK /\ PoolInv
    OBVIOUS
<1>1. queue = <<>> /\ ToSet(queue) = {} BY DEF Init, ToSet
<1>2. TypeOK BY <1>1 DEF Init, TypeOK, IsInjective
<1>3. IsFiniteSet(permits) /\ Cardinality(permits) = 0 BY FS_EmptySet DEF Init
<1>4. PoolConserved BY <1>1, <1>3, PoolAssumption DEF Init, PoolConserved
<1>5. QED BY <1>2, <1>3, <1>4 DEF PoolInv

\* A permit that is given back.
LEMMA GiveBack ==
  ASSUME NEW p, IsFiniteSet(permits), Cardinality(permits) <= PoolSize
  PROVE  IsFiniteSet(permits \ {p}) /\ Cardinality(permits \ {p}) <= PoolSize
<1>1. CASE p \in permits
  <2>1. IsFiniteSet(permits \ {p}) /\ Cardinality(permits \ {p}) = Cardinality(permits) - 1
    BY <1>1, FS_RemoveElement
  <2>2. Cardinality(permits) \in Nat BY FS_CardinalityType
  <2>3. QED BY <2>1, <2>2, PoolAssumption
<1>2. CASE p \notin permits
  <2>1. permits \ {p} = permits BY <1>2
  <2>2. QED BY <2>1
<1>3. QED BY <1>1, <1>2

\* Whatever a probe does, it is in the queue or holds a permit as its stage
\* says.
LEMMA PoolStep == TypeOK /\ PoolInv /\ [Next]_vars => TypeOK' /\ PoolInv'
<1> SUFFICES ASSUME TypeOK, PoolInv, [Next]_vars PROVE TypeOK' /\ PoolInv'
    OBVIOUS
<1> USE DEF TypeOK, PoolInv, PoolConserved, Unseen, Running, StoreNames
<1>1. ASSUME NEW p \in Probe, Begin(p) PROVE TypeOK' /\ PoolInv'
  <2>1. p \notin ToSet(queue) /\ p \notin permits BY <1>1 DEF Begin
  <2>2. /\ queue' \in Seq(Probe) /\ IsInjective(queue')
        /\ ToSet(queue') = ToSet(queue) \cup {p}
    BY <1>1, <2>1, AppendProps DEF Begin
  <2>3. UpStores \in SUBSET StoreNames BY DEF UpStores
  <2>4. TypeOK' BY <1>1, <2>2, <2>3 DEF Begin
  <2>5. PoolInv' BY <1>1, <2>1, <2>2 DEF Begin
  <2>6. QED BY <2>4, <2>5
<1>2. ASSUME NEW p \in Probe, Acquire(p) PROVE TypeOK' /\ PoolInv'
  <2>1. /\ queue' \in Seq(Probe) /\ IsInjective(queue')
        /\ ToSet(queue') = ToSet(queue) \ {p}
    BY <1>2, TailProps DEF Acquire
  <2>2. p \in ToSet(queue) BY <1>2 DEF Acquire, ToSet
  <2>3. stage[p] = "acquire" /\ p \notin permits BY <2>2
  <2>4. IsFiniteSet(permits') /\ Cardinality(permits') <= PoolSize
    <3>1. permits' = permits \cup {p} /\ Cardinality(permits) < PoolSize BY <1>2 DEF Acquire
    <3>2. /\ IsFiniteSet(permits \cup {p})
          /\ Cardinality(permits \cup {p}) = Cardinality(permits) + 1
      BY <2>3, FS_AddElement
    <3>3. Cardinality(permits) \in Nat BY FS_CardinalityType
    <3>4. QED BY <3>1, <3>2, <3>3, PoolAssumption
  <2>5. TypeOK' BY <1>2, <2>1 DEF Acquire
  <2>6. PoolInv' BY <1>2, <2>1, <2>3, <2>4 DEF Acquire
  <2>7. QED BY <2>5, <2>6
<1>3. ASSUME NEW p \in Probe, Connected(p) PROVE TypeOK' /\ PoolInv'
  BY <1>3 DEF Connected
<1>4. ASSUME NEW p \in Probe,
             ConnectFails(p) \/ AcquireFails(p) \/ PingPostgres(p) \/ HangUp(p)
      PROVE  TypeOK' /\ PoolInv'
  <2>1. /\ permits' = permits \ {p}
        /\ stage' \in [Probe -> {"idle", "acquire", "check", "query", "mongo", "done"}]
        /\ stage'[p] \in {"idle", "mongo"}
        /\ \A q \in Probe \ {p} : stage'[q] = stage[q]
        /\ report' \in [Probe -> SUBSET StoreNames]
        /\ late' \subseteq Probe
        /\ UNCHANGED <<store, seenUp, seenBad>>
    BY <1>4 DEF ConnectFails, AcquireFails, PingPostgres, HangUp
  <2>2. /\ queue' \in Seq(Probe) /\ IsInjective(queue')
        /\ ToSet(queue') = ToSet(queue) \ {p}
    <3>1. CASE queue' = RemoveFirst(queue, p) BY <3>1, RemoveFirstProps
    <3>2. CASE ConnectFails(p) \/ PingPostgres(p) BY <3>2 DEF ConnectFails, PingPostgres
    <3>3. QED BY <1>4, <3>1, <3>2 DEF AcquireFails, HangUp
  <2>3. IsFiniteSet(permits') /\ Cardinality(permits') <= PoolSize BY <2>1, GiveBack
  <2>4. TypeOK' BY <2>1, <2>2
  <2>5. PoolInv' BY <2>1, <2>2, <2>3
  <2>6. QED BY <2>4, <2>5
<1>5. ASSUME NEW p \in Probe, PingMongo(p) \/ GiveUpMongo(p) PROVE TypeOK' /\ PoolInv'
  <2>1. /\ UNCHANGED <<queue, permits, late, store, seenUp, seenBad>>
        /\ stage[p] = "mongo" /\ stage' = [stage EXCEPT ![p] = "done"]
        /\ report' \in [Probe -> SUBSET StoreNames]
    BY <1>5 DEF PingMongo, GiveUpMongo
  <2>2. QED BY <2>1
<1>6. ASSUME NEW x \in StoreNames, NEW state \in {"up", "down", "stalled"}, StoreTurns(x, state)
      PROVE  TypeOK' /\ PoolInv'
  BY <1>6 DEF StoreTurns, probeVars
<1>7. CASE UNCHANGED vars BY <1>7 DEF vars, probeVars
<1>8. QED BY <1>1, <1>2, <1>3, <1>4, <1>5, <1>6, <1>7 DEF Next, Handle, Proceed

-----------------------------------------------------------------------------
(* Reports.                                                                *)

\* What a running probe has found was so while it ran, and what it has not
\* found of Postgres after its ping, too, unless the clock ended it; the stores
\* of the moment count.
ProbeInv ==
  \A p \in Probe : Running(p) =>
    /\ UpStores \subseteq seenUp[p] /\ StoreNames \ UpStores \subseteq seenBad[p]
    /\ report[p] \subseteq {"postgres"} \cap seenUp[p]
    /\ stage[p] = "mongo" => "postgres" \in report[p] \cup seenBad[p] \/ p \in late

\* Whatever a store does is seen by the probes that run.
LEMMA ReportStep ==
  TypeOK /\ PoolInv /\ ProbeInv /\ ReportSound /\ [Next]_vars => ProbeInv' /\ ReportSound'
<1> SUFFICES ASSUME TypeOK, PoolInv, ProbeInv, ReportSound, [Next]_vars
             PROVE  ProbeInv' /\ ReportSound'
    OBVIOUS
<1> USE DEF TypeOK, ProbeInv, ReportSound, Unseen, Running, StoreNames, UpStores
<1>1. ASSUME NEW p \in Probe, Begin(p) PROVE ProbeInv' /\ ReportSound'
  BY <1>1 DEF Begin
<1>2. ASSUME NEW p \in Probe, Acquire(p) PROVE ProbeInv' /\ ReportSound'
  <2>1. p \in ToSet(queue) BY <1>2 DEF Acquire, ToSet
  <2>2. stage[p] = "acquire" BY <2>1 DEF PoolInv, PoolConserved
  <2>3. QED BY <1>2, <2>2 DEF Acquire
<1>3. ASSUME NEW p \in Probe, Connected(p) PROVE ProbeInv' /\ ReportSound'
  BY <1>3 DEF Connected
<1>4. ASSUME NEW p \in Probe, AcquireFails(p) PROVE ProbeInv' /\ ReportSound'
  BY <1>4 DEF AcquireFails
<1>5. ASSUME NEW p \in Probe, ConnectFails(p) PROVE ProbeInv' /\ ReportSound'
  BY <1>5 DEF ConnectFails
<1>6. ASSUME NEW p \in Probe, PingPostgres(p) PROVE ProbeInv' /\ ReportSound'
  BY <1>6 DEF PingPostgres
<1>7. ASSUME NEW p \in Probe, PingMongo(p) PROVE ProbeInv' /\ ReportSound'
  BY <1>7 DEF PingMongo
<1>8. ASSUME NEW p \in Probe, GiveUpMongo(p) PROVE ProbeInv' /\ ReportSound'
  BY <1>8 DEF GiveUpMongo
<1>9. ASSUME NEW p \in Probe, HangUp(p) PROVE ProbeInv' /\ ReportSound'
  BY <1>9 DEF HangUp
<1>10. ASSUME NEW x \in StoreNames, NEW state \in {"up", "down", "stalled"}, StoreTurns(x, state)
      PROVE  ProbeInv' /\ ReportSound'
  BY <1>10 DEF StoreTurns, probeVars
<1>11. CASE UNCHANGED vars BY <1>11 DEF vars, probeVars
<1>12. QED
  BY <1>1, <1>2, <1>3, <1>4, <1>5, <1>6, <1>7, <1>8, <1>9, <1>10, <1>11 DEF Next, Handle, Proceed

-----------------------------------------------------------------------------
(* The server around the probes.                                           *)

IInv == TypeOK /\ PoolInv /\ ProbeInv /\ ReportSound

\* Who is killed leaves nothing in the pool.
LEMMA GraceStep == IInv /\ GraceOver => IInv'
<1> SUFFICES ASSUME IInv, GraceOver PROVE IInv'
    OBVIOUS
<1> USE DEF GraceOver, IInv, Unseen
<1>1. queue' = <<>> /\ ToSet(queue') = {} BY DEF ToSet
<1>2. \A p \in Probe : stage'[p] \in {"idle", "done"} BY DEF TypeOK, Running
<1>3. TypeOK' BY <1>1 DEF TypeOK, IsInjective
<1>4. IsFiniteSet(permits') /\ Cardinality(permits') = 0 BY FS_EmptySet
<1>5. PoolInv' BY <1>1, <1>2, <1>4, PoolAssumption DEF PoolInv, PoolConserved
<1>6. ProbeInv' BY <1>2 DEF ProbeInv, Running
<1>7. ReportSound' BY DEF ReportSound, Running, TypeOK
<1>8. QED BY <1>3, <1>5, <1>6, <1>7

\* The inductive invariant, for any number of probes and any pool.
THEOREM Invariance == DrainSpec => [](IInv /\ DrainTypeOK)
<1> DEFINE Inv == IInv /\ DrainTypeOK
<1>1. DrainInit => Inv
  <2>1. Init => ProbeInv /\ ReportSound BY DEF Init, ProbeInv, ReportSound, Running
  <2>2. QED BY <2>1, InitPool DEF DrainInit, DrainTypeOK, IInv
<1>2. Inv /\ [DrainNext]_drainVars => Inv'
  <2>1. ASSUME Inv, DrainNext PROVE [Next]_vars \/ GraceOver
    BY <2>1 DEF DrainNext, Accept, Polled, Left, ShutdownSignal, Drained, Turns, Next
  <2>2. ASSUME Inv, [DrainNext]_drainVars PROVE IInv'
    <3>1. CASE GraceOver BY <2>2, <3>1, GraceStep
    <3>2. CASE [Next]_vars BY <2>2, <3>2, PoolStep, ReportStep DEF IInv
    <3>3. QED BY <2>1, <2>2, <3>1, <3>2 DEF drainVars
  <2>3. ASSUME Inv, [DrainNext]_drainVars
        PROVE  phase' \in {"serving", "draining", "returned", "killed"}
    BY <2>3 DEF DrainTypeOK, DrainNext, drainVars, Accept, Polled, Left, ShutdownSignal,
                Drained, GraceOver, Turns
  <2>4. QED BY <2>2, <2>3 DEF DrainTypeOK, IInv
<1>3. QED BY <1>1, <1>2, PTL DEF DrainSpec

\* Every variable keeps its type, and nobody waits in the pool twice.
THEOREM Types == DrainSpec => []DrainTypeOK
BY Invariance, PTL

\* Permits are held by the pings in progress and no others, and never more
\* than the pool has, in a server that drains or is killed, too.
THEOREM PoolKept == DrainSpec => []PoolConserved
BY Invariance, PTL DEF IInv, PoolInv

\* A health report names as ok only what was up while the probe ran, and as
\* failed only what was not (AC-64), or Postgres if the pool's clock ran out,
\* for any pool and any number of probes.
THEOREM ReportsSound == DrainSpec => []ReportSound
BY Invariance, PTL DEF IInv

\* A probe waits for a store that does not answer or for a probe that goes on
\* or does so: a permit is free, or each is held by a ping in progress.  No
\* clock is needed to end a wait in the pool of a Postgres that is up.
THEOREM HeldUp == DrainSpec => []HeldUpBySilenceOnly
<1> DEFINE Moves(q) == MayProceed(q) \/ ByPostgres(q)
<1>1. IInv => HeldUpBySilenceOnly
  <2> SUFFICES ASSUME IInv, NEW p \in Probe, Running(p), ~MayProceed(p), stage[p] = "acquire"
               PROVE  \E q \in Probe \ {p} : (q \in permits \/ q = Head(queue)) /\ Moves(q)
    BY DEF IInv, TypeOK, HeldUpBySilenceOnly, Running, MayProceed, ByPostgres, ByMongo, StoreNames
  <2>1. /\ queue \in Seq(Probe) /\ p \in ToSet(queue)
        /\ permits = {q \in Probe : stage[q] \in {"check", "query"}}
        /\ IsFiniteSet(permits) /\ Cardinality(permits) <= PoolSize
    BY DEF IInv, TypeOK, PoolInv, PoolConserved
  <2>2. queue # <<>> /\ Head(queue) \in Probe BY <2>1 DEF ToSet
  <2>3. Cardinality(permits) \in Nat BY <2>1, FS_CardinalityType
  <2>4. CASE Cardinality(permits) < PoolSize
    <3>1. MayProceed(Head(queue)) /\ Head(queue) # p BY <2>2, <2>4 DEF MayProceed
    <3>2. QED BY <2>2, <3>1
  <2>5. CASE Cardinality(permits) = PoolSize
    <3>1. PICK q \in permits : TRUE BY <2>5, PoolAssumption, FS_EmptySet
    <3>2. q \in Probe \ {p} /\ stage[q] \in {"check", "query"} BY <2>1, <3>1
    <3>3. store["postgres"] \in {"up", "down", "stalled"} BY DEF IInv, TypeOK, StoreNames
    <3>4. Moves(q) BY <3>2, <3>3 DEF MayProceed, ByPostgres
    <3>5. QED BY <3>1, <3>2, <3>4
  <2>6. QED BY <2>1, <2>3, <2>4, <2>5, PoolAssumption
<1>2. QED BY <1>1, Invariance, PTL

-----------------------------------------------------------------------------
(* The drain and the lifecycle of the server: each step of this module is  *)
(* one of ServerLifecycle, or none of its business.                        *)

\* The requests in flight are a number, and one more or less with the probe
\* that arrives or leaves.
LEMMA Counting ==
  /\ IsFiniteSet(InProgress)
  /\ Cardinality(InProgress) \in Nat
  /\ \A p \in Probe :
       /\ p \notin InProgress =>
            /\ Cardinality(InProgress \cup {p}) = Cardinality(InProgress) + 1
            /\ Cardinality(InProgress) < Cardinality(Probe)
       /\ p \in InProgress =>
            /\ Cardinality(InProgress \ {p}) = Cardinality(InProgress) - 1
            /\ Cardinality(InProgress) > 0
<1>1. InProgress \subseteq Probe BY DEF InProgress
<1>2. IsFiniteSet(InProgress) BY <1>1, ProbeAssumption, FS_Subset
<1>3. Cardinality(InProgress) \in Nat BY <1>2, FS_CardinalityType
<1>4. ASSUME NEW p \in Probe, p \notin InProgress
      PROVE  /\ Cardinality(InProgress \cup {p}) = Cardinality(InProgress) + 1
             /\ Cardinality(InProgress) < Cardinality(Probe)
  <2>1. Cardinality(InProgress \cup {p}) = Cardinality(InProgress) + 1
    BY <1>2, <1>4, FS_AddElement
  <2>2. Cardinality(InProgress \cup {p}) <= Cardinality(Probe)
    <3>1. InProgress \cup {p} \subseteq Probe BY <1>1
    <3>2. QED BY <3>1, ProbeAssumption, FS_Subset
  <2>3. Cardinality(Probe) \in Nat BY ProbeAssumption, FS_CardinalityType
  <2>4. QED BY <1>3, <2>1, <2>2, <2>3
<1>5. ASSUME NEW p \in InProgress
      PROVE  /\ Cardinality(InProgress \ {p}) = Cardinality(InProgress) - 1
             /\ Cardinality(InProgress) > 0
  <2>1. Cardinality(InProgress \ {p}) = Cardinality(InProgress) - 1
    BY <1>2, FS_RemoveElement
  <2>2. IsFiniteSet(InProgress \ {p}) BY <1>2, FS_RemoveElement
  <2>3. Cardinality(InProgress \ {p}) \in Nat BY <2>2, FS_CardinalityType
  <2>4. QED BY <1>3, <2>1, <2>3
<1>6. QED BY <1>2, <1>3, <1>4, <1>5

\* What the lifecycle sees of a step: the phase and the number of requests.
LEMMA Unnoticed ==
  phase' = phase /\ Cardinality(InProgress') = Cardinality(InProgress)
    => UNCHANGED Lifecycle!vars
BY DEF Lifecycle!vars, Lifecycle!procVars, Lifecycle!pgVars, Lifecycle!mongoVars,
       Lifecycle!envVars, Alive, Of
\* A probe that arrives while the server serves is a request accepted.
LEMMA Accepted ==
  ASSUME phase = "serving", phase' = phase,
         Cardinality(InProgress) < Cardinality(Probe),
         Cardinality(InProgress') = Cardinality(InProgress) + 1
  PROVE  Lifecycle!Accept("server")
BY DEF Lifecycle!Accept, Lifecycle!Listening, Lifecycle!ListenPhases,
       Lifecycle!pgVars, Lifecycle!mongoVars, Lifecycle!envVars, Alive, Of

\* A probe that ends, one way or another, is a request answered.
LEMMA Answered ==
  ASSUME phase' = phase,
         Cardinality(InProgress) > 0,
         Cardinality(InProgress') = Cardinality(InProgress) - 1
  PROVE  Lifecycle!Answer("server")
BY DEF Lifecycle!Answer, Lifecycle!pgVars, Lifecycle!mongoVars, Lifecycle!envVars, Alive, Of

LEMMA OfIs ==
  ASSUME NEW x, NEW y
  PROVE  Of(x)["server"] = x /\ [Of(x) EXCEPT !["server"] = y] = Of(y)
BY DEF Of

\* The signal that is handled starts the drain.
LEMMA Signalled == ShutdownSignal => Lifecycle!ShutdownSignal("server")
<1> SUFFICES ASSUME ShutdownSignal PROVE Lifecycle!ShutdownSignal("server")
    OBVIOUS
<1>1. phase = "serving" /\ phase' = "draining" BY DEF ShutdownSignal
<1>2. Alive = TRUE /\ Alive' = TRUE BY <1>1 DEF Alive
<1>3. InProgress' = InProgress BY DEF ShutdownSignal, vars, probeVars, InProgress, Running
<1>4. Lifecycle!Goto("server", "serving", "draining") BY <1>1, <1>2, OfIs DEF Lifecycle!Goto
<1>5. Of(Alive)["server"] BY <1>2, OfIs
<1>6. UNCHANGED Lifecycle!envVars BY <1>1 DEF Lifecycle!envVars
<1>7. UNCHANGED <<Of(IF Alive THEN {"int", "term"} ELSE {}), Of(Alive), Of(Cardinality(InProgress))>>
  BY <1>2, <1>3
<1>8. UNCHANGED <<Of({}), Of(0), Lifecycle!pgVars, Lifecycle!mongoVars>>
  BY DEF Of, Lifecycle!pgVars, Lifecycle!mongoVars
<1>9. QED BY <1>4, <1>5, <1>6, <1>7, <1>8 DEF Lifecycle!ShutdownSignal

\* A process that ends takes its handlers and its requests with it.
LEMMA Ended ==
  ASSUME phase = "draining", phase' \in {"returned", "killed"}, InProgress' = {}
  PROVE  Lifecycle!Terminate("server")
<1>1. Alive = TRUE /\ Alive' = FALSE BY DEF Alive
<1>2. Cardinality(InProgress') = 0 BY FS_EmptySet
<1>3. Of(IF Alive THEN phase ELSE "down")' = Of("down") BY <1>1
<1>4. Of(IF Alive THEN {"int", "term"} ELSE {})' = Of({}) BY <1>1
<1>5. Of(Alive)' = Of(FALSE) BY <1>1
<1>6. Of(Cardinality(InProgress))' = Of(0) BY <1>2
<1>7. Of({})' = Of({}) /\ Of(0)' = Of(0) BY DEF Of
<1>8. {}' = {} \ {"server"} /\ "none"' = (IF "none" = "server" THEN "orphan" ELSE "none")
      /\ UNCHANGED <<0, {1}>>
  OBVIOUS
<1>9. QED BY <1>3, <1>4, <1>5, <1>6, <1>7, <1>8, OfIs DEF Lifecycle!Terminate

\* The end of main, and of the process, when it has drained.
LEMMA Returned == Drained => Lifecycle!Drained("server")
<1> SUFFICES ASSUME Drained PROVE Lifecycle!Drained("server")
    OBVIOUS
<1>1. phase = "draining" /\ phase' = "returned" BY DEF Drained
<1>2. InProgress = {} /\ InProgress' = {} BY DEF Drained, InProgress, Running, vars, probeVars
<1>3. Cardinality(InProgress) = 0 BY <1>2, FS_EmptySet
<1>4. Lifecycle!Terminate("server") BY <1>1, <1>2, Ended
<1>5. Of(IF Alive THEN phase ELSE "down")["server"] = "draining" BY <1>1, OfIs DEF Alive
<1>6. Of(Cardinality(InProgress))["server"] = 0 BY <1>3, OfIs
<1>7. UNCHANGED <<Lifecycle!mongoVars, Lifecycle!envVars>>
  BY <1>1 DEF Lifecycle!mongoVars, Lifecycle!envVars
<1>8. QED BY <1>4, <1>5, <1>6, <1>7 DEF Lifecycle!Drained

\* The end of the process when its time is over.
LEMMA Killed == TypeOK /\ GraceOver => Lifecycle!GraceOver("server")
<1> SUFFICES ASSUME TypeOK, GraceOver PROVE Lifecycle!GraceOver("server")
    OBVIOUS
<1>1. phase = "draining" /\ phase' = "killed" BY DEF GraceOver
<1>2. InProgress' = {} BY DEF GraceOver, InProgress, Running, TypeOK
<1>3. Lifecycle!Terminate("server") BY <1>1, <1>2, Ended
<1>4. Of(IF Alive THEN phase ELSE "down")["server"] # "down" BY <1>1, OfIs DEF Alive
<1>5. Of(IF phase = "killed" THEN "kill" ELSE "term")["server"] = "term" BY <1>1, OfIs
<1>6. Of(IF phase = "killed" THEN "kill" ELSE "term")'
        = [Of(IF phase = "killed" THEN "kill" ELSE "term") EXCEPT !["server"] = "kill"]
  BY <1>1, OfIs
<1>7. UNCHANGED <<Lifecycle!mongoVars, TRUE, TRUE, 0>> BY DEF Lifecycle!mongoVars
<1>8. QED BY <1>3, <1>4, <1>5, <1>6, <1>7 DEF Lifecycle!GraceOver

\* The steps of one probe: it arrives, goes on, or ends.
LEMMA ProbeStep ==
  ASSUME IInv, NEW p \in Probe
  PROVE  /\ Accept(p) => Lifecycle!Accept("server")
         /\ Polled(p) => Lifecycle!Answer("server") \/ UNCHANGED Lifecycle!vars
         /\ Left(p) => Lifecycle!Answer("server")
<1> USE DEF IInv, TypeOK, Unseen
<1>1. ASSUME Accept(p) PROVE Lifecycle!Accept("server")
  <2>1. p \notin InProgress /\ InProgress' = InProgress \cup {p}
    BY <1>1 DEF Accept, Begin, InProgress, Running
  <2>2. phase = "serving" /\ phase' = phase BY <1>1 DEF Accept
  <2>3. QED BY <2>1, <2>2, Counting, Accepted
<1>2. ASSUME Running(p), phase' = phase,
             stage'[p] \in {"idle", "done"}, \A q \in Probe \ {p} : stage'[q] = stage[q]
      PROVE  Lifecycle!Answer("server")
  <2>1. p \in InProgress /\ InProgress' = InProgress \ {p} BY <1>2 DEF InProgress, Running
  <2>2. QED BY <1>2, <2>1, Counting, Answered
<1>3. ASSUME Left(p) PROVE Lifecycle!Answer("server")
  BY <1>2, <1>3 DEF Left, GiveUpMongo, HangUp, Running
<1>4. ASSUME Polled(p), PingMongo(p) PROVE Lifecycle!Answer("server")
  BY <1>2, <1>4 DEF Polled, PingMongo, Running
<1>5. ASSUME Polled(p), Acquire(p) \/ Connected(p) \/ ConnectFails(p) \/ AcquireFails(p) \/ PingPostgres(p)
      PROVE  UNCHANGED Lifecycle!vars
  <2>1. Running(p)
    <3>1. CASE Acquire(p)
      <4>1. p \in ToSet(queue) BY <3>1 DEF Acquire, ToSet
      <4>2. QED BY <4>1 DEF PoolInv, PoolConserved, Running
    <3>2. CASE Connected(p) \/ ConnectFails(p) \/ AcquireFails(p) \/ PingPostgres(p)
      BY <3>2 DEF Connected, ConnectFails, AcquireFails, PingPostgres, Running
    <3>3. QED BY <1>5, <3>1, <3>2
  <2>2. /\ stage'[p] \in {"check", "query", "mongo"}
        /\ \A q \in Probe \ {p} : stage'[q] = stage[q]
    BY <1>5 DEF Acquire, Connected, ConnectFails, AcquireFails, PingPostgres
  <2>3. InProgress' = InProgress BY <2>1, <2>2 DEF InProgress, Running
  <2>4. phase' = phase BY <1>5 DEF Polled
  <2>5. QED BY <2>3, <2>4, Unnoticed
<1>6. QED BY <1>1, <1>3, <1>4, <1>5 DEF Polled, Handle, Proceed

\* A server that drains its probes takes the steps of ServerLifecycle and no
\* others, for any number of clients: main.rs returns after the last probe is
\* answered or hung up on, unless the process is killed.
THEOREM Refinement == DrainSpec => DrainsLikeLifecycle
<1>1. IInv /\ [DrainNext]_drainVars => [Lifecycle!Next]_(Lifecycle!vars)
  <2> SUFFICES ASSUME IInv, [DrainNext]_drainVars, ~UNCHANGED Lifecycle!vars
               PROVE  Lifecycle!Next
      OBVIOUS
  <2>1. ASSUME NEW p \in Probe, Accept(p) \/ Polled(p) \/ Left(p) PROVE Lifecycle!Serve("server")
    BY <2>1, ProbeStep DEF Lifecycle!Serve
  <2>2. CASE ShutdownSignal \/ Drained \/ GraceOver
    BY <2>2, Signalled, Returned, Killed
       DEF IInv, Lifecycle!Next, Lifecycle!Serve, Lifecycle!Operate
  <2>3. CASE Turns \/ UNCHANGED drainVars
    <3>1. stage' = stage /\ phase' = phase
      BY <2>3 DEF Turns, StoreTurns, drainVars, vars, probeVars
    <3>2. InProgress' = InProgress BY <3>1 DEF InProgress, Running
    <3>3. QED BY <3>1, <3>2, Unnoticed
  <2>4. QED BY <2>1, <2>2, <2>3 DEF DrainNext, Lifecycle!Next
<1>2. QED BY <1>1, Invariance, PTL DEF DrainSpec, DrainsLikeLifecycle
===============================================================================
