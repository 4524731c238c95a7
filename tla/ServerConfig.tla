---------------------------- MODULE ServerConfig ----------------------------
(***************************************************************************)
(* How crewlist-server comes by its configuration: main loads .env into    *)
(* the environment of the process, line by line, sets up tracing, and      *)
(* reads Config from the environment.                                      *)
(*                                                                         *)
(* dotenvy is modelled as used: it takes the first .env it finds in the    *)
(* working directory or above, leaves alone what the environment has       *)
(* already, and gives up at a line it cannot parse, with what came before  *)
(* in force.  main discards its result, whatever it is.                    *)
(***************************************************************************)
EXTENDS Integers, Sequences, SequencesExt

CONSTANTS
  Environments,  \* what the process may be started with
  Values,        \* what a line of .env may set a variable to
  DotEnvs        \* what .env may hold, by directory: 1 is the working one

VARIABLES
  given,   \* the environment the process was started with
  dotenv,  \* dotenv[d]: the lines of .env in directory d, if it has one
  env,     \* the environment of the process now
  lines,   \* the lines of .env that are still to be loaded
  filter,  \* what is traced
  config,  \* the configuration, or why there is none
  pc

vars == <<given, dotenv, env, lines, filter, config, pc>>

Keys   == {"CREWLIST_BIND", "CREWLIST_POSTGRES_URL", "CREWLIST_MONGO_URL", "RUST_LOG"}

\* A line that sets a variable, or Malformed.
Line(key, value) == <<key, value>>
Malformed == <<"malformed">>

DotEnvLines == {Malformed} \cup {Line(key, value) : key \in Keys, value \in Values}

\* .env is a text: what it sets is set, to a value that is Unicode.
ASSUME ConfigAssumption ==
  /\ \A e \in Environments : DOMAIN e = Keys
  /\ Values \cap {"unset", "not unicode"} = {}
  /\ \A files \in DotEnvs :
       DOMAIN files \subseteq Nat /\ \A d \in DOMAIN files : files[d] \in Seq(DotEnvLines)

\* env::var: a value that is not Unicode is as good as none.
IsSet(e, key) == e[key] \notin {"unset", "not unicode"}

DEFAULT_BIND   == "loopback"
IsAddr(value)  == value \in {"loopback", "everywhere"}
IsFilter(value) == value = "debug"

TypeOK ==
  /\ given \in Environments /\ dotenv \in DotEnvs
  /\ DOMAIN env = Keys
  /\ filter \in {"none yet", "default", "debug"}
  /\ pc \in {"find", "load", "config", "done"}
  /\ "bind" \in DOMAIN config => IsAddr(config.bind)

Init ==
  /\ given \in Environments
  /\ dotenv \in DotEnvs
  /\ env = given
  /\ lines = <<>>
  /\ filter = "none yet"
  /\ config = [error |-> "none yet"]
  /\ pc = "find"

\* The nearest .env, from the working directory upwards.
Nearest ==
  IF DOMAIN dotenv = {} THEN <<>> ELSE dotenv[Min(DOMAIN dotenv)]

Find ==
  /\ pc = "find"
  /\ pc' = "load"
  /\ lines' = Nearest
  /\ UNCHANGED <<given, dotenv, env, filter, config>>

\* Faulty: .env overrides the environment.
LoadLineOverriding ==
  /\ pc = "load"
  /\ lines # <<>>
  /\ IF Head(lines) = Malformed
     THEN lines' = <<>> /\ UNCHANGED env
     ELSE /\ lines' = Tail(lines)
          /\ env' = [env EXCEPT ![Head(lines)[1]] = Head(lines)[2]]
  /\ UNCHANGED <<given, dotenv, filter, config, pc>>

\* Faulty: a line that cannot be parsed is skipped.
LoadLineSkipping ==
  /\ pc = "load"
  /\ lines # <<>>
  /\ lines' = Tail(lines)
  /\ env' = IF Head(lines) = Malformed \/ IsSet(env, Head(lines)[1]) THEN env
            ELSE [env EXCEPT ![Head(lines)[1]] = Head(lines)[2]]
  /\ UNCHANGED <<given, dotenv, filter, config, pc>>

LoadLine ==
  /\ pc = "load"
  /\ lines # <<>>
  /\ IF Head(lines) = Malformed
     THEN lines' = <<>> /\ UNCHANGED env
     ELSE /\ lines' = Tail(lines)
          /\ env' = IF IsSet(env, Head(lines)[1]) THEN env
                    ELSE [env EXCEPT ![Head(lines)[1]] = Head(lines)[2]]
  /\ UNCHANGED <<given, dotenv, filter, config, pc>>

init_tracing ==
  /\ pc = "load"
  /\ lines = <<>>
  /\ filter' = IF IsFilter(env["RUST_LOG"]) THEN env["RUST_LOG"] ELSE "default"
  /\ pc' = "config"
  /\ UNCHANGED <<given, dotenv, env, lines, config>>

\* Faulty: the addresses are taken as they come.
from_env_unparsed ==
  /\ pc = "config"
  /\ pc' = "done"
  /\ config' = [bind |-> env["CREWLIST_BIND"], postgres_url |-> env["CREWLIST_POSTGRES_URL"],
                mongo_url |-> env["CREWLIST_MONGO_URL"]]
  /\ UNCHANGED <<given, dotenv, env, lines, filter>>

\* A bind address that is set but is none is an error, never the default.
from_env ==
  LET bind == IF IsSet(env, "CREWLIST_BIND") THEN env["CREWLIST_BIND"] ELSE DEFAULT_BIND IN
  /\ pc = "config"
  /\ pc' = "done"
  /\ config' =
       IF ~IsAddr(bind) THEN [error |-> "CREWLIST_BIND"]
       ELSE IF ~IsSet(env, "CREWLIST_POSTGRES_URL") THEN [error |-> "CREWLIST_POSTGRES_URL"]
       ELSE IF ~IsSet(env, "CREWLIST_MONGO_URL") THEN [error |-> "CREWLIST_MONGO_URL"]
       ELSE [bind |-> bind, postgres_url |-> env["CREWLIST_POSTGRES_URL"],
             mongo_url |-> env["CREWLIST_MONGO_URL"]]
  /\ UNCHANGED <<given, dotenv, env, lines, filter>>

Next == Find \/ LoadLine \/ init_tracing \/ from_env

Spec == Init /\ [][Next]_vars

-----------------------------------------------------------------------------
(* Where the configuration comes from.                                     *)

\* What a .env says of a variable: the first line that sets it.
Said(file, key) ==
  LET at == {i \in DOMAIN file : file[i] # Malformed /\ file[i][1] = key}
  IN  IF at = {} THEN "unset" ELSE file[Min(at)][2]

\* The lines before the first that cannot be parsed.
Sane(file) ==
  LET bad == {i \in DOMAIN file : file[i] = Malformed}
  IN  IF bad = {} THEN file ELSE SubSeq(file, 1, Min(bad) - 1)

\* main.rs:30-34: once main has loaded .env, every variable, RUST_LOG for
\* tracing included, has one source: the real environment where env::var finds
\* the variable there, and else the line that is the first to set it in the
\* sane part of the nearest .env, here or above.  A variable that is set to
\* what is not Unicode is not found, so a line replaces it.
EveryVariableHasItsSource ==
  pc \in {"config", "done"} =>
    /\ \A key \in Keys :
         env[key] = IF IsSet(given, key) \/ Said(Sane(Nearest), key) = "unset" THEN given[key]
                    ELSE Said(Sane(Nearest), key)
    /\ filter = IF IsFilter(env["RUST_LOG"]) THEN env["RUST_LOG"] ELSE "default"

\* The file as it would be with `line' in place of what cannot be parsed.
Mended(file, line) == [i \in DOMAIN file |-> IF file[i] = Malformed THEN line ELSE file[i]]

\* config.rs:6-8 (AC-62), "safe precisely and only because of this bind", and
\* main.rs:32, which goes on with a .env that broke off half way: that a .env
\* is broken never exposes a server.  If it listens beyond loopback, then
\* because the real environment says so, or because the .env would have said
\* so, too, whatever else its broken lines had set.  (A .env that sets the
\* address twice means the first, and exposes the server if that does.)
BreakageExposesNothing ==
  "bind" \in DOMAIN config /\ config.bind = "everywhere" =>
    IF IsSet(given, "CREWLIST_BIND") THEN given["CREWLIST_BIND"] = "everywhere"
    ELSE \A line \in DotEnvLines \ {Malformed} :
           Said(Mended(Nearest, line), "CREWLIST_BIND") = "everywhere"

\* .env.example:1-3: "the server loads it from the working directory on
\* startup.  A real environment variable always wins over a value here".
SourcesAsDocumented ==
  pc \in {"config", "done"} =>
    \A key \in Keys :
      env[key] = IF given[key] # "unset" THEN given[key]
                 ELSE IF 1 \in DOMAIN dotenv THEN Said(Sane(dotenv[1]), key) ELSE "unset"
=============================================================================
