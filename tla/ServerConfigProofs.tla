------------------------ MODULE ServerConfigProofs ------------------------
(***************************************************************************)
(* Why the configuration is what the operator wrote, for every environment *)
(* and every .env, however many lines and directories there are.           *)
(*                                                                         *)
(* While .env is loaded, the environment is what the lines before some     *)
(* place make of it, and what is left to load is what stands from there.   *)
(***************************************************************************)
EXTENDS ServerConfig, NaturalsInduction, WellFoundedInduction, TLAPS

\* Line i of a .env sets a variable, and is the first to do so.
Sets(file, i, key)  == file[i] # Malformed /\ file[i][1] = key
First(file, i, key) == Sets(file, i, key) /\ \A j \in 1..(i - 1) : ~Sets(file, j, key)

\* The first n lines can be parsed, and are loaded.
Loaded(n) ==
  /\ n \in 0..Len(Nearest)
  /\ \A i \in 1..n : Nearest[i] # Malformed
  /\ \A key \in Keys :
       \/ /\ IsSet(given, key) \/ \A i \in 1..n : ~Sets(Nearest, i, key)
          /\ env[key] = given[key]
       \/ /\ ~IsSet(given, key)
          /\ \E i \in 1..n : First(Nearest, i, key) /\ env[key] = Nearest[i][2]

\* No line after the first n is ever loaded.
Ended(n) == n = Len(Nearest) \/ Nearest[n + 1] = Malformed

Remaining(n) ==
  \/ lines = <<>> /\ Ended(n)
  \/ /\ lines \in Seq(DotEnvLines)
     /\ Len(lines) = Len(Nearest) - n
     /\ \A i \in 1..Len(lines) : lines[i] = Nearest[n + i]

Filter == IF IsFilter(env["RUST_LOG"]) THEN env["RUST_LOG"] ELSE "default"

Progress ==
  /\ pc = "find" => env = given
  /\ pc = "load" => \E n \in Nat : Loaded(n) /\ Remaining(n)
  /\ pc \in {"config", "done"} => filter = Filter /\ \E n \in Nat : Loaded(n) /\ Ended(n)

\* The bind address is the one of the environment as it was loaded.
Bound ==
  "bind" \in DOMAIN config =>
    /\ pc = "done"
    /\ config.bind = IF IsSet(env, "CREWLIST_BIND") THEN env["CREWLIST_BIND"] ELSE DEFAULT_BIND

IInv == TypeOK /\ Progress /\ Bound

-----------------------------------------------------------------------------
(* Lines and files.                                                        *)

LEMMA MinIsLeast ==
  ASSUME NEW S \in SUBSET Nat, NEW n \in S, \A m \in S : n <= m
  PROVE  Min(S) = n
<1>1. \A m \in S : (\A k \in S : m <= k) => m = n OBVIOUS
<1>2. QED BY <1>1 DEF Min

LEMMA MinExists ==
  ASSUME NEW S \in SUBSET Nat, S # {}
  PROVE  Min(S) \in S /\ \A m \in S : Min(S) <= m
<1>1. PICK n \in S : \A m \in S : <<m, n>> \notin OpToRel(<, Nat)
  BY NatLessThanWellFounded, WFMin
<1>2. \A m \in S : ~(m < n) BY <1>1 DEF OpToRel
<1>3. \A m \in S : n <= m BY <1>2
<1>4. QED BY <1>3, MinIsLeast

LEMMA LineForm ==
  ASSUME NEW l \in DotEnvLines
  PROVE  \/ l = Malformed
         \/ l # Malformed /\ Len(l) = 2 /\ l[1] \in Keys /\ l[2] \in Values
<1>1. CASE l = Malformed BY <1>1
<1>2. CASE l # Malformed
  <2>1. PICK key \in Keys, value \in Values : l = <<key, value>>
    BY <1>2 DEF DotEnvLines, Line
  <2>2. QED BY <1>2, <2>1
<1>3. QED BY <1>1, <1>2

\* What a file says of a variable is said by the first line that sets it.
LEMMA SaidFirst ==
  ASSUME NEW file \in Seq(DotEnvLines), NEW key, NEW i \in 1..Len(file), First(file, i, key)
  PROVE  Said(file, key) = file[i][2]
<1> DEFINE at == {j \in DOMAIN file : file[j] # Malformed /\ file[j][1] = key}
<1>1. at \in SUBSET Nat /\ i \in at BY DEF First, Sets
<1>2. \A j \in at : i <= j BY DEF First, Sets
<1>3. Min(at) = i BY <1>1, <1>2, MinIsLeast
<1>4. QED BY <1>1, <1>3 DEF Said

LEMMA SaidNothing ==
  ASSUME NEW file \in Seq(DotEnvLines), NEW key, \A i \in 1..Len(file) : ~Sets(file, i, key)
  PROVE  Said(file, key) = "unset"
BY DEF Said, Sets

LEMMA NearestForm == TypeOK => Nearest \in Seq(DotEnvLines)
<1> SUFFICES ASSUME TypeOK PROVE Nearest \in Seq(DotEnvLines)
    OBVIOUS
<1>1. CASE DOMAIN dotenv = {}
  <2>1. Nearest = <<>> BY <1>1 DEF Nearest
  <2>2. QED BY <2>1
<1>2. CASE DOMAIN dotenv # {}
  <2>1. DOMAIN dotenv \in SUBSET Nat BY ConfigAssumption DEF TypeOK
  <2>2. Min(DOMAIN dotenv) \in DOMAIN dotenv BY <1>2, <2>1, MinExists
  <2>3. dotenv[Min(DOMAIN dotenv)] \in Seq(DotEnvLines) BY <2>2, ConfigAssumption DEF TypeOK
  <2>4. QED BY <1>2, <2>3 DEF Nearest
<1>3. QED BY <1>1, <1>2

\* The sane part of .env is the part that is loaded.
LEMMA SaneIsLoaded ==
  ASSUME NEW file \in Seq(DotEnvLines), NEW n \in 0..Len(file),
         \A i \in 1..n : file[i] # Malformed,
         n = Len(file) \/ file[n + 1] = Malformed
  PROVE  /\ Sane(file) \in Seq(DotEnvLines) /\ Len(Sane(file)) = n
         /\ \A i \in 1..n : Sane(file)[i] = file[i]
<1> DEFINE bad == {i \in DOMAIN file : file[i] = Malformed}
<1>1. CASE bad = {}
  <2>1. n = Len(file) BY <1>1
  <2>2. Sane(file) = file BY <1>1 DEF Sane
  <2>3. QED BY <2>1, <2>2
<1>2. CASE bad # {}
  <2>1. n # Len(file) BY <1>2
  <2>2. bad \in SUBSET Nat /\ n + 1 \in bad BY <2>1
  <2>3. \A i \in bad : n + 1 <= i OBVIOUS
  <2>4. Min(bad) = n + 1 BY <2>2, <2>3, MinIsLeast
  <2>5. Sane(file) = SubSeq(file, 1, n) BY <1>2, <2>4 DEF Sane
  <2>6. QED BY <2>5
<1>3. QED BY <1>1, <1>2

-----------------------------------------------------------------------------
(* The steps.                                                              *)

LEMMA InitIInv == Init => IInv
<1> SUFFICES ASSUME Init PROVE IInv
    OBVIOUS
<1>1. given \in Environments /\ env = given /\ DOMAIN env = Keys BY ConfigAssumption DEF Init
<1>2. pc = "find" /\ "bind" \notin DOMAIN config BY DEF Init
<1>3. TypeOK BY <1>1, <1>2 DEF Init, TypeOK
<1>4. Progress /\ Bound BY <1>1, <1>2 DEF Progress, Bound
<1>5. QED BY <1>3, <1>4 DEF IInv

LEMMA FindKeeps == ASSUME IInv, Find PROVE IInv'
<1> USE DEF IInv
<1>1. /\ pc = "find" /\ pc' = "load" /\ lines' = Nearest /\ env = given
      /\ UNCHANGED <<given, dotenv, env, filter, config>>
  BY DEF Find, Progress
<1>2. Nearest' = Nearest BY <1>1 DEF Nearest
<1>3. TypeOK' BY <1>1 DEF TypeOK
<1>4. Nearest \in Seq(DotEnvLines) BY NearestForm
<1>5. Loaded(0)' /\ Remaining(0)'
  <2>1. Loaded(0)' BY <1>1, <1>2, <1>4 DEF Loaded
  <2>2. Remaining(0)' BY <1>1, <1>2, <1>4 DEF Remaining
  <2>3. QED BY <2>1, <2>2
<1>6. Progress' BY <1>1, <1>5 DEF Progress
<1>7. Bound' BY <1>1 DEF Bound, TypeOK
<1>8. QED BY <1>3, <1>6, <1>7

LEMMA LoadLineKeeps == ASSUME IInv, LoadLine PROVE IInv'
<1> USE DEF IInv
<1>1. /\ pc = "load" /\ pc' = "load" /\ lines # <<>>
      /\ UNCHANGED <<given, dotenv, filter, config>>
  BY DEF LoadLine
<1>2. Nearest' = Nearest BY <1>1 DEF Nearest
<1>3. Nearest \in Seq(DotEnvLines) BY NearestForm
<1>4. PICK n \in Nat : Loaded(n) /\ Remaining(n) BY <1>1 DEF Progress
<1>5. /\ lines \in Seq(DotEnvLines) /\ Len(lines) = Len(Nearest) - n
      /\ \A i \in 1..Len(lines) : lines[i] = Nearest[n + i]
  BY <1>1, <1>4 DEF Remaining
<1>6. Head(lines) = Nearest[n + 1] /\ n + 1 \in 1..Len(Nearest) /\ n \in 0..Len(Nearest)
  BY <1>1, <1>3, <1>4, <1>5
<1>7. CASE Head(lines) = Malformed
  <2>1. lines' = <<>> /\ env' = env BY <1>7 DEF LoadLine
  <2>2. TypeOK' BY <1>1, <2>1 DEF TypeOK
  <2>3. Loaded(n)' BY <1>1, <1>2, <1>4, <2>1 DEF Loaded
  <2>4. Remaining(n)' BY <1>2, <1>6, <1>7, <2>1 DEF Remaining, Ended
  <2>5. Progress' BY <1>1, <2>3, <2>4 DEF Progress
  <2>6. Bound' BY <1>1, <2>1 DEF Bound
  <2>7. QED BY <2>2, <2>5, <2>6
<1>8. CASE Head(lines) # Malformed
  <2> DEFINE line == Nearest[n + 1]
             key  == line[1]
  <2>1. line \in DotEnvLines /\ line # Malformed BY <1>3, <1>6, <1>8
  <2>2. key \in Keys /\ line[2] \in Values BY <2>1, LineForm
  <2>3. /\ lines' = Tail(lines)
        /\ env' = IF IsSet(env, key) THEN env ELSE [env EXCEPT ![key] = line[2]]
    BY <1>6, <1>8 DEF LoadLine
  <2>4. DOMAIN env = Keys BY DEF TypeOK
  <2>5. TypeOK' BY <1>1, <2>2, <2>3, <2>4 DEF TypeOK
  <2>6. Remaining(n + 1)'
    <3>1. Tail(lines) \in Seq(DotEnvLines) /\ Len(Tail(lines)) = Len(lines) - 1
          /\ \A i \in 1..Len(Tail(lines)) : Tail(lines)[i] = lines[i + 1]
      BY <1>1, <1>5
    <3>2. Len(Tail(lines)) = Len(Nearest) - (n + 1) BY <1>5, <1>6, <3>1
    <3>3. ASSUME NEW i \in 1..Len(Tail(lines)) PROVE Tail(lines)[i] = Nearest[(n + 1) + i]
      <4>1. i + 1 \in 1..Len(lines) BY <1>5, <3>1
      <4>2. lines[i + 1] = Nearest[n + (i + 1)] BY <1>5, <4>1
      <4>3. n + (i + 1) = (n + 1) + i OBVIOUS
      <4>4. QED BY <3>1, <4>2, <4>3
    <3>4. QED BY <1>2, <2>3, <3>1, <3>2, <3>3 DEF Remaining
  <2>7. \A k : Sets(Nearest, n + 1, k) <=> k = key BY <2>1 DEF Sets
  <2>8. Loaded(n + 1)'
    <3>1. \A i \in 1..(n + 1) : Nearest[i] # Malformed BY <1>4, <2>1 DEF Loaded
    <3>2. ASSUME NEW k \in Keys, k # key \/ IsSet(env, key)
          PROVE  \/ /\ IsSet(given, k) \/ \A i \in 1..(n + 1) : ~Sets(Nearest, i, k)
                    /\ env'[k] = given[k]
                 \/ /\ ~IsSet(given, k)
                    /\ \E i \in 1..(n + 1) : First(Nearest, i, k) /\ env'[k] = Nearest[i][2]
      <4>1. env'[k] = env[k] BY <2>2, <2>3, <2>4, <3>2
      <4>2. CASE /\ ~IsSet(given, k)
                 /\ \E i \in 1..n : First(Nearest, i, k) /\ env[k] = Nearest[i][2]
        BY <4>1, <4>2
      <4>3. CASE /\ IsSet(given, k) \/ \A i \in 1..n : ~Sets(Nearest, i, k)
                 /\ env[k] = given[k]
        <5>1. CASE IsSet(given, k) BY <4>1, <4>3, <5>1
        <5>2. CASE ~IsSet(given, k)
          <6>1. k # key BY <3>2, <4>3, <5>2 DEF IsSet
          <6>2. \A i \in 1..(n + 1) : i \in 1..n \/ i = n + 1 OBVIOUS
          <6>3. \A i \in 1..(n + 1) : ~Sets(Nearest, i, k) BY <2>7, <4>3, <5>2, <6>1, <6>2
          <6>4. QED BY <4>1, <4>3, <6>3
        <5>3. QED BY <5>1, <5>2
      <4>4. QED BY <1>4, <4>2, <4>3 DEF Loaded
    <3>3. ASSUME ~IsSet(env, key)
          PROVE  /\ ~IsSet(given, key) /\ First(Nearest, n + 1, key)
                 /\ env'[key] = Nearest[n + 1][2]
      <4>1. env'[key] = line[2] BY <2>2, <2>3, <2>4, <3>3
      <4>2. ~(\E i \in 1..n : First(Nearest, i, key) /\ env[key] = Nearest[i][2])
        <5> SUFFICES ASSUME NEW i \in 1..n, First(Nearest, i, key), env[key] = Nearest[i][2]
                     PROVE  FALSE
          OBVIOUS
        <5>1. Nearest[i] \in DotEnvLines /\ Nearest[i] # Malformed
          BY <1>3, <1>6 DEF First, Sets
        <5>2. env[key] \in Values BY <5>1, LineForm
        <5>3. QED BY <3>3, <5>2, ConfigAssumption DEF IsSet
      <4>3. /\ IsSet(given, key) \/ \A i \in 1..n : ~Sets(Nearest, i, key)
            /\ env[key] = given[key]
        BY <1>4, <2>2, <4>2 DEF Loaded
      <4>4. ~IsSet(given, key) BY <3>3, <4>3 DEF IsSet
      <4>5. First(Nearest, n + 1, key) BY <2>7, <4>3, <4>4 DEF First
      <4>6. QED BY <4>1, <4>4, <4>5
    <3>4. ASSUME NEW k \in Keys
          PROVE  \/ /\ IsSet(given, k) \/ \A i \in 1..(n + 1) : ~Sets(Nearest, i, k)
                    /\ env'[k] = given[k]
                 \/ /\ ~IsSet(given, k)
                    /\ \E i \in 1..(n + 1) : First(Nearest, i, k) /\ env'[k] = Nearest[i][2]
      <4>1. CASE k # key \/ IsSet(env, key) BY <3>2, <4>1
      <4>2. CASE k = key /\ ~IsSet(env, key) BY <3>3, <4>2
      <4>3. QED BY <4>1, <4>2
    <3>5. n + 1 \in 0..Len(Nearest) BY <1>6
    <3>6. QED BY <1>1, <1>2, <3>1, <3>4, <3>5 DEF Loaded
  <2>9. Progress' BY <1>1, <2>6, <2>8 DEF Progress
  <2>10. Bound' BY <1>1 DEF Bound
  <2>11. QED BY <2>5, <2>9, <2>10
<1>9. QED BY <1>7, <1>8

LEMMA TracingKeeps == ASSUME IInv, init_tracing PROVE IInv'
<1> USE DEF IInv
<1>1. /\ pc = "load" /\ pc' = "config" /\ lines = <<>> /\ filter' = Filter
      /\ UNCHANGED <<given, dotenv, env, lines, config>>
  BY DEF init_tracing, Filter
<1>2. Nearest' = Nearest /\ Filter' = Filter BY <1>1 DEF Nearest, Filter
<1>3. PICK n \in Nat : Loaded(n) /\ Remaining(n) BY <1>1 DEF Progress
<1>4. Nearest \in Seq(DotEnvLines) BY NearestForm
<1>5. Ended(n) BY <1>1, <1>3, <1>4 DEF Remaining, Ended
<1>6. Loaded(n)' /\ Ended(n)' BY <1>1, <1>2, <1>3, <1>5 DEF Loaded, Ended
<1>7. Filter \in {"default", "debug"} BY DEF Filter, IsFilter
<1>8. TypeOK' BY <1>1, <1>7 DEF TypeOK
<1>9. Progress' BY <1>1, <1>2, <1>6 DEF Progress
<1>10. Bound' BY <1>1 DEF Bound
<1>11. QED BY <1>8, <1>9, <1>10

LEMMA FromEnvKeeps == ASSUME IInv, from_env PROVE IInv'
<1> USE DEF IInv
<1> DEFINE bind == IF IsSet(env, "CREWLIST_BIND") THEN env["CREWLIST_BIND"] ELSE DEFAULT_BIND
<1>1. /\ pc = "config" /\ pc' = "done" /\ UNCHANGED <<given, dotenv, env, lines, filter>>
  BY DEF from_env
<1>2. Nearest' = Nearest /\ Filter' = Filter BY <1>1 DEF Nearest, Filter
<1>3. PICK n \in Nat : Loaded(n) /\ Ended(n) BY <1>1 DEF Progress
<1>4. Loaded(n)' /\ Ended(n)' BY <1>1, <1>2, <1>3 DEF Loaded, Ended
<1>5. Progress' BY <1>1, <1>2, <1>4 DEF Progress
<1>6. "bind" \in DOMAIN config' => config'.bind = bind /\ IsAddr(bind)
  BY DEF from_env
<1>7. TypeOK' BY <1>1, <1>6 DEF TypeOK
<1>8. Bound' BY <1>1, <1>6 DEF Bound
<1>9. QED BY <1>5, <1>7, <1>8

LEMMA Step == IInv /\ [Next]_vars => IInv'
<1> SUFFICES ASSUME IInv, [Next]_vars PROVE IInv'
    OBVIOUS
<1>1. CASE UNCHANGED vars
  <2>1. UNCHANGED <<given, dotenv, env, lines, filter, config, pc>> BY <1>1 DEF vars
  <2>2. Nearest' = Nearest /\ Filter' = Filter BY <2>1 DEF Nearest, Filter
  <2>3. \A n : (Loaded(n) => Loaded(n)') /\ (Remaining(n) => Remaining(n)') /\ (Ended(n) => Ended(n)')
    BY <2>1, <2>2 DEF Loaded, Remaining, Ended
  <2>4. TypeOK' BY <2>1 DEF IInv, TypeOK
  <2>5. Progress' BY <2>1, <2>2, <2>3 DEF IInv, Progress
  <2>6. Bound' BY <2>1 DEF IInv, Bound
  <2>7. QED BY <2>4, <2>5, <2>6 DEF IInv
<1>2. CASE Next BY <1>2, FindKeeps, LoadLineKeeps, TracingKeeps, FromEnvKeeps DEF Next
<1>3. QED BY <1>1, <1>2

-----------------------------------------------------------------------------
\* The inductive invariant, for every environment and every .env.
THEOREM Invariance == Spec => []IInv
BY InitIInv, Step, PTL DEF Spec

\* Every variable keeps its type, and an address that is served is one.
THEOREM Types == Spec => []TypeOK
BY Invariance, PTL DEF IInv

\* What the real environment sets is kept; the rest is what the nearest .env
\* says first, up to the line that cannot be parsed.
THEOREM Precedence == Spec => []EveryVariableHasItsSource
<1>1. IInv => EveryVariableHasItsSource
  <2> SUFFICES ASSUME IInv, pc \in {"config", "done"}
               PROVE  /\ \A key \in Keys :
                           env[key] = IF IsSet(given, key) \/ Said(Sane(Nearest), key) = "unset"
                                      THEN given[key] ELSE Said(Sane(Nearest), key)
                      /\ filter = IF IsFilter(env["RUST_LOG"]) THEN env["RUST_LOG"] ELSE "default"
    BY DEF EveryVariableHasItsSource
  <2>1. PICK n \in Nat : Loaded(n) /\ Ended(n) BY DEF IInv, Progress
  <2>2. filter = Filter BY DEF IInv, Progress
  <2> DEFINE sane == Sane(Nearest)
  <2>3. Nearest \in Seq(DotEnvLines) BY NearestForm DEF IInv
  <2>4. sane \in Seq(DotEnvLines) /\ Len(sane) = n /\ \A i \in 1..n : sane[i] = Nearest[i]
    BY <2>1, <2>3, SaneIsLoaded DEF Loaded, Ended
  <2> HIDE DEF sane
  <2>5. ASSUME NEW key \in Keys
        PROVE  env[key] = IF IsSet(given, key) \/ Said(sane, key) = "unset"
                          THEN given[key] ELSE Said(sane, key)
    <3>1. CASE IsSet(given, key) /\ env[key] = given[key] BY <3>1
    <3>2. CASE (\A i \in 1..n : ~Sets(Nearest, i, key)) /\ env[key] = given[key]
      <4>1. \A i \in 1..Len(sane) : ~Sets(sane, i, key) BY <2>4, <3>2 DEF Sets
      <4>2. Said(sane, key) = "unset" BY <2>4, <4>1, SaidNothing
      <4>3. QED BY <3>2, <4>2
    <3>3. CASE /\ ~IsSet(given, key)
               /\ \E i \in 1..n : First(Nearest, i, key) /\ env[key] = Nearest[i][2]
      <4>1. PICK i \in 1..n : First(Nearest, i, key) /\ env[key] = Nearest[i][2] BY <3>3
      <4>2. First(sane, i, key) BY <2>4, <4>1 DEF First, Sets
      <4>3. Said(sane, key) = sane[i][2] /\ sane[i] = Nearest[i]
        BY <2>4, <4>2, SaidFirst
      <4>4. sane[i] \in DotEnvLines /\ sane[i] # Malformed BY <2>4, <4>2 DEF First, Sets
      <4>5. Said(sane, key) # "unset" BY <4>3, <4>4, LineForm, ConfigAssumption
      <4>6. QED BY <3>3, <4>1, <4>3, <4>5
    <3>4. QED BY <2>1, <3>1, <3>2, <3>3 DEF Loaded
  <2>6. QED BY <2>2, <2>5 DEF Filter, sane
<1>2. QED BY <1>1, Invariance, PTL

\* Where a line may be mended, the lines before the first broken one stay.
LEMMA MendedStart ==
  ASSUME NEW file \in Seq(DotEnvLines), NEW n \in 0..Len(file), \A i \in 1..n : file[i] # Malformed,
         NEW line \in DotEnvLines
  PROVE  /\ Mended(file, line) \in Seq(DotEnvLines) /\ Len(Mended(file, line)) = Len(file)
         /\ \A i \in 1..n : Mended(file, line)[i] = file[i]
<1>1. DOMAIN file = 1..Len(file) /\ Len(file) \in Nat OBVIOUS
<1>2. Mended(file, line) = [i \in 1..Len(file) |-> IF file[i] = Malformed THEN line ELSE file[i]]
  BY <1>1 DEF Mended
<1>3. \A i \in 1..Len(file) : (IF file[i] = Malformed THEN line ELSE file[i]) \in DotEnvLines
  OBVIOUS
<1>4. Mended(file, line) \in [1..Len(file) -> DotEnvLines] BY <1>2, <1>3
<1>5. Mended(file, line) \in Seq(DotEnvLines) /\ Len(Mended(file, line)) = Len(file)
  BY <1>1, <1>4
<1>6. \A i \in 1..n : Mended(file, line)[i] = file[i] BY <1>2
<1>7. QED BY <1>5, <1>6

\* The server listens beyond loopback only where the real environment says so
\* or a line of .env above all broken ones, which no mending changes.
THEOREM Exposure == Spec => []BreakageExposesNothing
<1>1. IInv => BreakageExposesNothing
  <2> DEFINE key == "CREWLIST_BIND"
  <2> SUFFICES ASSUME IInv, "bind" \in DOMAIN config, config.bind = "everywhere"
               PROVE  IF IsSet(given, key) THEN given[key] = "everywhere"
                      ELSE \A line \in DotEnvLines \ {Malformed} :
                             Said(Mended(Nearest, line), key) = "everywhere"
    BY DEF BreakageExposesNothing
  <2>1. pc = "done" /\ IsSet(env, key) /\ env[key] = "everywhere"
    BY DEF IInv, Bound, DEFAULT_BIND
  <2>2. PICK n \in Nat : Loaded(n) BY <2>1 DEF IInv, Progress
  <2>3. Nearest \in Seq(DotEnvLines) BY NearestForm DEF IInv
  <2>4. key \in Keys BY DEF Keys
  <2> HIDE DEF key
  <2>5. CASE IsSet(given, key) BY <2>1, <2>2, <2>4, <2>5 DEF Loaded
  <2>6. ASSUME ~IsSet(given, key), NEW line \in DotEnvLines \ {Malformed}
        PROVE  Said(Mended(Nearest, line), key) = "everywhere"
    <3>1. env[key] # given[key] BY <2>1, <2>6 DEF IsSet
    <3>2. PICK i \in 1..n : First(Nearest, i, key) /\ env[key] = Nearest[i][2]
      BY <2>2, <2>4, <3>1 DEF Loaded
    <3> DEFINE file == Mended(Nearest, line)
    <3>3. /\ file \in Seq(DotEnvLines) /\ Len(file) = Len(Nearest)
          /\ \A j \in 1..n : file[j] = Nearest[j]
      BY <2>2, <2>3, MendedStart DEF Loaded
    <3> HIDE DEF file
    <3>4. i \in 1..Len(file) BY <2>2, <2>3, <3>3 DEF Loaded
    <3>5. First(file, i, key) BY <3>2, <3>3 DEF First, Sets
    <3>6. Said(file, key) = file[i][2] BY <3>3, <3>4, <3>5, SaidFirst
    <3>7. file[i] = Nearest[i] BY <3>3
    <3>8. QED BY <2>1, <3>2, <3>6, <3>7 DEF file
  <2>7. QED BY <2>5, <2>6
<1>2. QED BY <1>1, Invariance, PTL
=============================================================================
