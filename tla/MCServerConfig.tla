--------------------------- MODULE MCServerConfig ---------------------------
(* A working directory and its parent, each with a .env or without; the    *)
(* first of up to three lines.  Values stand for the cases the code tells  *)
(* apart.                                                                  *)
EXTENDS ServerConfig

AllEnvironments ==
  {[key \in Keys |-> CASE key = "CREWLIST_BIND" -> b [] key = "CREWLIST_POSTGRES_URL" -> p
                       [] key = "CREWLIST_MONGO_URL" -> m [] key = "RUST_LOG" -> l] :
     b \in {"unset", "not unicode", "everywhere", "no address"},
     p \in {"unset", "url"}, m \in {"unset", "not unicode", "url"},
     l \in {"unset", "no filter"}}

AllLines ==
  {Malformed, Line("CREWLIST_BIND", "everywhere"), Line("CREWLIST_BIND", "loopback"),
   Line("CREWLIST_MONGO_URL", "url"), Line("RUST_LOG", "debug")}

Files(n) == UNION {[1..k -> AllLines] : k \in 0..n}
AllDotEnvs ==
  {<<>>} \cup [{1} -> Files(3)] \cup [{2} -> Files(1)]
    \cup {<<cwd, parent>> : cwd \in Files(1), parent \in Files(1)}
=============================================================================
