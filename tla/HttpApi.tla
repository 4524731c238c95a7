------------------------------ MODULE HttpApi ------------------------------
(***************************************************************************)
(* The HTTP layer of crewlist-server: the route table, the extractors, the *)
(* handlers, the repo port behind them and the mapping of errors to HTTP   *)
(* statuses.  Several requests are in progress at once over one repo.      *)
(*                                                                         *)
(* The repo is StoreRepo, whose task operations are not written yet, or    *)
(* FakeRepo, the double the tests drive the router with.  axum (matching,  *)
(* HEAD served by GET, the default 404 and 405) is modelled as used.       *)
(***************************************************************************)
EXTENDS WireTypes, SequencesExt

CONSTANTS
  Client,   \* each client sends one request
  Requests  \* the requests they may send

VARIABLES
  request,     \* request[c]: what c sends
  stage,       \* stage[c]: how far the router has taken it
  response,    \* response[c]: status and what the body holds
  kind,        \* "store" or "fake": which repo is behind the port
  configured,  \* operations the fake has a value for
  told,        \* the error the fake is set up with, or "none"
  error,       \* the error it still holds, or "none"
  calls        \* the task calls that reached the repo, in order

vars == <<request, stage, response, kind, configured, told, error, calls>>

\* Repo errors by code.  CrewError has no variant for "unreachable".
CrewCodes == {"not_found", "illegal_transition", "validation", "storage",
              "internal", "unimplemented"}

exit_code(code) ==
  CASE code = "not_found" -> 3
    [] code = "illegal_transition" -> 4
    [] code \in {"storage", "unreachable"} -> 5
    [] code = "validation" -> 6
    [] code \in {"internal", "unimplemented"} -> 1

\* Faulty: a store outage is an internal error.
status_for_storage500(code) ==
  CASE code = "validation" -> 400
    [] code = "not_found" -> 404
    [] code = "illegal_transition" -> 409
    [] code = "unimplemented" -> 501
    [] OTHER -> 500

status_for(code) ==
  CASE code = "validation" -> 400
    [] code = "not_found" -> 404
    [] code = "illegal_transition" -> 409
    [] code = "storage" -> 503
    [] code = "unimplemented" -> 501
    [] code \in {"internal", "unreachable"} -> 500

-----------------------------------------------------------------------------
(* Routing and extraction.                                                 *)

Route(path, method, handler) == [path |-> path, method |-> method, handler |-> handler]

Routes ==
  { Route("/health", "GET", "health"),
    Route("/tasks", "POST", "create"),
    Route("/tasks", "GET", "list"),
    Route("/tasks/{id}", "GET", "get"),
    Route("/tasks/{id}", "DELETE", "delete") }

Paths   == {"/health", "/tasks", "/tasks/{id}", "/other"}
Methods == {"GET", "HEAD", "POST", "DELETE", "PUT"}

ASSUME RequestAssumption ==
  \A r \in Requests : r.path \in Paths /\ r.method \in Methods

\* axum serves HEAD with the handler of GET.
Matching(r) ==
  LET method == IF r.method = "HEAD" THEN "GET" ELSE r.method
  IN  {e \in Routes : e.path = r.path /\ e.method = method}
Handler(r) == (CHOOSE e \in Matching(r) : TRUE).handler

\* Faulty: DELETE forgets to look at its query.
ExtractsNoQuery(handler) ==
  CASE handler = "create" -> {"body"}
    [] handler = "list" -> {"query"}
    [] handler \in {"get", "delete"} -> {"id"}
    [] handler = "health" -> {}

\* The parts of a request a handler parses.
Extracts(handler) ==
  CASE handler = "create" -> {"body"}
    [] handler = "list" -> {"query"}
    [] handler = "get" -> {"id"}
    [] handler = "delete" -> {"id", "query"}
    [] handler = "health" -> {}

PartReadable(r, part) ==
  CASE part = "id" -> IsTaskId(r.id)
    [] part = "body" -> CreateReadable(r.body)
    [] part = "query" -> IF Handler(r) = "list" THEN ListReadable(r.query)
                                                ELSE DeleteReadable(r.query)

\* What a handler passes on to the repo.
Args(r) ==
  LET handler == Handler(r) IN
  CASE handler = "create" -> CreateTaskRequest(r.body)
    [] handler = "list" -> ListQuery(r.query)
    [] handler = "get" -> [id |-> r.id[2]]
    [] handler = "delete" -> [id |-> r.id[2], force |-> DeleteQuery(r.query).force]

TaskOps == {"create", "get", "list", "delete"}
Ops     == TaskOps \cup {"health"}
Pending == [status |-> 0, body |-> "none"]

\* A value in a body is the repo's own, or one the fake was configured with,
\* or the one the fake falls back to.
Values == {"own", "configured", "default"}
Bodies == {"none"} \cup Values \cup CrewCodes

Callers == {calls[i].client : i \in DOMAIN calls}

TypeOK ==
  /\ request \in [Client -> Requests]
  /\ stage \in [Client -> {"dispatch", "extract", "call", "done"}]
  /\ response \in [Client -> [status : 0..599, body : Bodies]]
  /\ kind \in {"store", "fake"}
  /\ configured \subseteq Ops
  /\ told \in CrewCodes \cup {"none"} /\ error \in {told, "none"}
  /\ \A i \in DOMAIN calls : calls[i].client \in Client
  /\ \A i, j \in DOMAIN calls : calls[i].client = calls[j].client => i = j

Init ==
  /\ request \in [Client -> Requests]
  /\ stage = [c \in Client |-> "dispatch"]
  /\ response = [c \in Client |-> Pending]
  /\ \/ kind = "store" /\ configured = {} /\ told = "none"
     \/ kind = "fake" /\ configured \in {{}, Ops} /\ told \in CrewCodes \cup {"none"}
  /\ error = told
  /\ calls = <<>>

\* The response to HEAD loses its body.
Response(c, status, body) ==
  [status |-> status, body |-> IF request[c].method = "HEAD" THEN "none" ELSE body]

Reply(c, status, body) ==
  /\ stage' = [stage EXCEPT ![c] = "done"]
  /\ response' = [response EXCEPT ![c] = Response(c, status, body)]

\* ApiError::into_response.
Fail(c, code) == Reply(c, status_for(code), code)

\* The router sets no fallback: axum answers with an empty body.
Dispatch(c) ==
  /\ stage[c] = "dispatch"
  /\ IF Matching(request[c]) # {}
     THEN stage' = [stage EXCEPT ![c] = "extract"] /\ UNCHANGED response
     ELSE Reply(c, IF \E e \in Routes : e.path = request[c].path THEN 405 ELSE 404, "none")
  /\ UNCHANGED <<request, kind, configured, told, error, calls>>

\* AppJson, AppPath, AppQuery: whatever the rejection, a validation error.
Extract(c) ==
  /\ stage[c] = "extract"
  /\ IF \A part \in Extracts(Handler(request[c])) : PartReadable(request[c], part)
     THEN stage' = [stage EXCEPT ![c] = "call"] /\ UNCHANGED response
     ELSE Fail(c, "validation")
  /\ UNCHANGED <<request, kind, configured, told, error, calls>>

-----------------------------------------------------------------------------
(* Handlers and repos.                                                     *)

Value(op) ==
  IF kind = "store" THEN "own" ELSE IF op \in configured THEN "configured" ELSE "default"

\* GET /health is 200 whatever the stores say.
Health(c) ==
  /\ stage[c] = "call"
  /\ Handler(request[c]) = "health"
  /\ Reply(c, 200, Value("health"))
  /\ UNCHANGED <<request, kind, configured, told, error, calls>>

Entry(c) == [client |-> c, op |-> Handler(request[c]), args |-> Args(request[c])]

\* Faulty: a middleware tries a call again.
CallTwice(c) ==
  /\ stage[c] = "call"
  /\ Handler(request[c]) \in TaskOps
  /\ calls' = calls \o <<Entry(c), Entry(c)>>
  /\ UNCHANGED <<request, kind, configured, told>>

Call(c) ==
  /\ stage[c] = "call"
  /\ Handler(request[c]) \in TaskOps
  /\ calls' = Append(calls, Entry(c))
  /\ UNCHANGED <<request, kind, configured, told>>

StoreRepo(c) ==
  /\ kind = "store"
  /\ Call(c)
  /\ Fail(c, "unimplemented")
  /\ UNCHANGED error

\* Faulty: the error is read, not taken.
FakeRepoKeepsError(c) ==
  /\ kind = "fake"
  /\ Call(c)
  /\ IF error # "none" THEN Fail(c, error) ELSE Reply(c, 200, "default")
  /\ UNCHANGED error

\* The fake records the call, then takes its error, then looks for a value;
\* a handler awaits nothing in between.
FakeRepo(c) ==
  LET op == Handler(request[c]) IN
  /\ kind = "fake"
  /\ Call(c)
  /\ IF error # "none" THEN Fail(c, error)
     ELSE IF op \in {"get", "delete"} \ configured THEN Fail(c, "not_found")
     ELSE Reply(c, IF op = "create" THEN 201 ELSE 200, Value(op))
  /\ error' = "none"

Next ==
  \E c \in Client :
    Dispatch(c) \/ Extract(c) \/ Health(c) \/ StoreRepo(c) \/ FakeRepo(c)

Spec == Init /\ [][Next]_vars

-----------------------------------------------------------------------------
(* What the HTTP layer guarantees.                                         *)

Done(c) == stage[c] = "done"

\* tasks.rs:3, extract.rs:3: a request reaches the repo, once, exactly when it
\* is routed to a task operation and nothing in it that the handler reads was
\* refused; the repo answers it then, and axum or an extractor otherwise.
OnlySoundRequestsReachRepo ==
  \A c \in Client : Done(c) =>
    LET r == request[c] IN
    c \in Callers <=>
      \/ r.path = "/tasks" /\ r.method = "POST" /\ CreateReadable(r.body)
      \/ r.path = "/tasks" /\ r.method \in {"GET", "HEAD"} /\ ListReadable(r.query)
      \/ r.path = "/tasks/{id}" /\ r.method \in {"GET", "HEAD"} /\ IsTaskId(r.id)
      \/ /\ r.path = "/tasks/{id}" /\ r.method = "DELETE"
         /\ IsTaskId(r.id) /\ DeleteReadable(r.query)

\* dto.rs:45-50 "answering a different question than the one asked is worse
\* than refusing": nothing a query says is lost on its way to list or delete,
\* a delete is forced only if it says so, and a body loses no field that
\* CreateTaskRequest has; what was not sent arrives as the default.
RepoSeesWhatWasSent ==
  \A i \in DOMAIN calls :
    LET r    == request[calls[i].client]
        args == calls[i].args
    IN  CASE calls[i].op = "create" ->
               \A f \in CreateFields :
                 args[f] = IF f \in DOMAIN r.body.object THEN r.body.object[f]
                           ELSE IF f = "agent_eligible" THEN Bool(TRUE)
                           ELSE IF f = "sources" THEN Texts({}) ELSE Null
          [] calls[i].op = "get" -> args.id = r.id[2]
          [] calls[i].op \in {"list", "delete"} ->
               /\ \A j \in DOMAIN r.query :
                    r.query[j][1] \in DOMAIN args /\ args[r.query[j][1]] = r.query[j][2]
               /\ calls[i].op = "delete" =>
                    /\ args.id = r.id[2]
                    /\ args.force = "true" =>
                         \E j \in DOMAIN r.query : r.query[j][1] = "force" /\ r.query[j][2] = "true"

\* What the fake answers a call with when it has no error for it.
AnsweredFreely(call) ==
  LET status == response[call.client].status IN
  \/ status \in 200..299
  \/ status = 404 /\ call.op \in {"get", "delete"} \ configured

\* testkit.rs:27-28 "A configured error is consumed by the first call that
\* reaches the repo, so one failure applies to one request": until a call
\* reaches the repo the error is held, whatever is refused or asks for health;
\* the first call, of the clients in progress, is answered with that very
\* error; and no later call is failed with it, or with another.
ErrorHitsFirstCall ==
  kind = "fake" /\ told # "none" =>
    IF calls = <<>> THEN error = told
    ELSE /\ error = "none"
         /\ response[calls[1].client] = Response(calls[1].client, status_for(told), told)
         /\ \A i \in 2..Len(calls) : AnsweredFreely(calls[i])

\* error.rs:3-5 (AC-58): whatever error the status of a response can stand
\* for, its exit code is that of the error that was sent.
StatusDeterminesExit ==
  \A c \in Client : response[c].body \in CrewCodes =>
    \A code \in CrewCodes :
      status_for(code) = response[c].status
        => exit_code(code) = exit_code(response[c].body)

\* health.rs:8: 'Keeping "non-2xx implies an error object" exceptionless'.
NonSuccessHasErrorObject ==
  \A c \in Client : Done(c) /\ response[c].status \notin 200..299
                      => response[c].body \in CrewCodes
=============================================================================
