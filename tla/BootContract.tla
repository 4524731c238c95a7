---------------------------- MODULE BootContract ----------------------------
(***************************************************************************)
(* What crewlist-server promises about booting, without saying how: a      *)
(* process listens only over stores that are ready for the build it runs,  *)
(* and stores that are ready stay ready.  There are no phases, no locks,   *)
(* no signals and no store outages here; ServerLifecycle implements this   *)
(* module.                                                                 *)
(***************************************************************************)
EXTENDS Integers

CONSTANTS
  Server,   \* the server processes that share one Postgres and one Mongo
  BuildOf,  \* BuildOf[s]: the build s runs, which embeds migrations 1..BuildOf[s]
  AddrOf    \* AddrOf[s]: the socket address s binds

VARIABLES
  listening,   \* the servers that hold a listening socket
  applied,     \* migrations whose transaction has committed in Postgres
  collection,  \* does task_details exist in Mongo?
  validator,   \* build whose $jsonSchema is installed on it, 0 for none
  index        \* does the unique index on task_id exist?

vars == <<listening, applied, collection, validator, index>>

\* The stores are ready for build b.
ReadyFor(b) ==
  /\ 1..b \subseteq applied
  /\ collection
  /\ validator # 0
  /\ index

Init ==
  /\ listening = {}
  /\ applied = {}
  /\ collection = FALSE
  /\ validator = 0
  /\ index = FALSE

\* Migration m commits: once, and after every migration before it.
ApplyMigration(m) ==
  /\ m \notin applied
  /\ 1..(m - 1) \subseteq applied
  /\ applied' = applied \cup {m}
  /\ UNCHANGED <<listening, collection, validator, index>>

\* The Mongo side gains something and loses nothing; a validator is only
\* ever replaced by the validator of some build.
PrepareMongo ==
  /\ collection => collection'
  /\ index => index'
  /\ validator' = validator \/ \E s \in Server : validator' = BuildOf[s]
  /\ {collection', index'} \subseteq BOOLEAN
  /\ UNCHANGED <<listening, applied>>

\* s starts to listen: its stores are ready and its address is free.
Listen(s) ==
  /\ s \notin listening
  /\ ReadyFor(BuildOf[s])
  /\ \A t \in listening : AddrOf[t] # AddrOf[s]
  /\ listening' = listening \cup {s}
  /\ UNCHANGED <<applied, collection, validator, index>>

\* s no longer listens: it drains, exits, or is killed.
Leave(s) ==
  /\ s \in listening
  /\ listening' = listening \ {s}
  /\ UNCHANGED <<applied, collection, validator, index>>

Next ==
  \/ \E s \in Server : Listen(s) \/ Leave(s)
  \/ \E s \in Server : \E m \in 1..BuildOf[s] : ApplyMigration(m)
  \/ PrepareMongo

Spec == Init /\ [][Next]_vars
=============================================================================
