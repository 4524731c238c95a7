------------------------------ MODULE RouteTests ------------------------------
(***************************************************************************)
(* The repository's own tests of the HTTP layer, as scenarios for HttpApi: *)
(* what each sets the fake repo up with, the request it sends through the  *)
(* router, and what it asserts of the response and of the calls the fake   *)
(* recorded.  They tie the model to the code the tests run.  Beside them   *)
(* the clients of HttpApi send whatever they may.                          *)
(*                                                                         *)
(* The thirty-six route tests are 31 scenarios: those that differ only in  *)
(* what they look at in a response are one.  Of a body a scenario says     *)
(* where it comes from, not its fields or its wording.                     *)
(***************************************************************************)
EXTENDS HttpApi, FiniteSets

VARIABLE test  \* the test that runs, as a set, empty if none does

testVars == <<vars, test>>

-----------------------------------------------------------------------------
(* Test doubles and request helpers (testkit.rs).                          *)

new == [configured |-> {}, error |-> "none"]
with(op) == [new EXCEPT !.configured = {op}]
failing(code) == [new EXCEPT !.error = code]

TaskPath == "/tasks/{id}"
NoBody == [json |-> FALSE, object |-> <<>>]
Request_(method, path, id, query, body) ==
  [path |-> path, method |-> method, id |-> id, query |-> query, body |-> body]

get_req(path, id, query) == Request_("GET", path, id, query, NoBody)
put_req(path) == Request_("PUT", path, Null, <<>>, NoBody)
delete_req(path, id, query) == Request_("DELETE", path, id, query, NoBody)
post_req(object) == Request_("POST", "/tasks", Null, <<>>, [json |-> TRUE, object |-> object])
post_req_raw == Request_("POST", "/tasks", Null, <<>>, NoBody)

\* A test that looks at status and body; at "any" it does not look.
Send(repo, req, status, body) ==
  [repo |-> repo, request |-> req, status |-> status, body |-> body,
   touched |-> "any", args |-> <<>>]

\* ... and at the last call the fake recorded, or that there is none.
Sees(t, args) == [t EXCEPT !.touched = "yes", !.args = args]
Untouched(t)  == [t EXCEPT !.touched = "no"]

-----------------------------------------------------------------------------
(* The tests.                                                              *)

Titled(title) == [title |-> Text(title), origin |-> Text("human")]
ChildOf(parent) ==
  [title |-> Text("a child"), origin |-> Text("agent"), parent_id |-> Int_(parent)]
WholeRequest ==
  [title |-> Text("  Call Alex's Tree Service  "), origin |-> Text("agent"),
   parent_id |-> Int_(1), agent_eligible |-> Bool(FALSE),
   description |-> Text("quotes Tue-Thu"), sources |-> Texts({"registry"})]

TreeService == Titled("find a reliable tree removal service")
Spaced      == Titled("  spaced  ")
Milk        == Titled("buy milk")
NoOrigin    == [title |-> Text("no origin")]

CreateTests ==
  { Send(with("create"), post_req(TreeService), 201, "configured"),
    Sees(Send(with("create"), post_req(WholeRequest), 201, "any"), WholeRequest),
    Sees(Send(with("create"), post_req(Spaced), 201, "any"), Spaced),
    Sees(Send(with("create"), post_req(Milk), 201, "any"),
         [agent_eligible |-> Bool(TRUE)]),
    Untouched(Send(new, post_req_raw, 400, "validation")),
    Send(new, post_req(NoOrigin), 400, "validation"),
    Send(failing("not_found"), post_req(ChildOf(5)), 404, "not_found"),
    Send(failing("validation"), post_req(ChildOf(2)), 400, "validation") }

GetTests ==
  { Send(with("get"), get_req(TaskPath, Int_(1), <<>>), 200, "configured"),
    Sees(Send(with("get"), get_req(TaskPath, Int_(6), <<>>), 200, "any"), [id |-> 6]),
    Send(failing("not_found"), get_req(TaskPath, Int_(6), <<>>), 404, "not_found"),
    Untouched(Send(new, get_req(TaskPath, Text("abc"), <<>>), 400, "validation")) }

ListTests ==
  LET list(repo, query, status, body) == Send(repo, get_req("/tasks", Null, query), status, body)
  IN
  { list(with("list"), <<>>, 200, "configured"),
    Sees(list(with("list"), <<>>, 200, "any"), ListDefaults),
    Sees(list(with("list"), << <<"queue", "agent">> >>, 200, "any"), [queue |-> "agent"]),
    Sees(list(with("list"), << <<"status", "handed_off">>, <<"all", "true">> >>, 200, "any"),
         [status |-> "handed_off", all |-> "true"]),
    list(with("list"), << <<"queue", "agent">> >>, 200, "configured"),
    Untouched(list(new, << <<"queue", "bogus">> >>, 400, "validation")),
    Untouched(list(with("list"), << <<"queeue", "agent">> >>, 400, "validation")),
    list(failing("storage"), <<>>, 503, "storage") }

DeleteTests ==
  LET delete(repo, id, query, status, body) ==
        Send(repo, delete_req(TaskPath, Int_(id), query), status, body)
  IN
  { delete(with("delete"), 1, << <<"force", "true">> >>, 200, "configured"),
    Sees(delete(with("delete"), 1, <<>>, 200, "any"), [id |-> 1, force |-> "false"]),
    Sees(delete(with("delete"), 1, << <<"force", "true">> >>, 200, "any"), [id |-> 1, force |-> "true"]),
    delete(failing("validation"), 1, <<>>, 400, "validation"),
    Untouched(delete(with("delete"), 1, << <<"forse", "true">> >>, 400, "validation")),
    delete(failing("not_found"), 6, <<>>, 404, "not_found") }

RoutingTests ==
  { Send(new, get_req("/other", Null, <<>>), 404, "any"),
    Send(new, put_req("/tasks"), 405, "any"),
    Send(new, delete_req("/tasks", Null, <<>>), 405, "any") }

\* A degraded report is still a health body, and not an error.
HealthTests ==
  { Send(new, get_req("/health", Null, <<>>), 200, "default"),
    Send(with("health"), get_req("/health", Null, <<>>), 200, "configured") }

Tests == CreateTests \cup GetTests \cup ListTests \cup DeleteTests \cup RoutingTests \cup HealthTests

\* The rows error.rs asserts: the status and the exit code of an error code.
StatusRows ==
  { <<"validation", 400>>, <<"not_found", 404>>, <<"illegal_transition", 409>>,
    <<"storage", 503>>, <<"internal", 500>>, <<"unimplemented", 501>> }
ExitRows ==
  { <<"not_found", 3>>, <<"illegal_transition", 4>>, <<"storage", 5>>, <<"unreachable", 5>>,
    <<"validation", 6>>, <<"internal", 1>> }

\* What the tests send, clients may send.
ASSUME TestAssumption == \A t \in Tests : t.request \in Requests

-----------------------------------------------------------------------------
(* `send`: a fresh router over the fake, and one request through it.       *)

InitTest(t) ==
  /\ request = [c \in Client |-> t.request]
  /\ stage = [c \in Client |-> "dispatch"]
  /\ response = [c \in Client |-> Pending]
  /\ kind = "fake"
  /\ configured = t.repo.configured
  /\ told = t.repo.error /\ error = told
  /\ calls = <<>>

InitRoutes ==
  \/ \E t \in Tests : InitTest(t) /\ test = {t}
  \/ Init /\ test = {}

\* In a test one client sends its request, and the others none.
NextRoutes ==
  /\ Next
  /\ test # {} => Cardinality({c \in Client : stage'[c] # "dispatch"}) = 1
  /\ UNCHANGED test

SpecRoutes == InitRoutes /\ [][NextRoutes]_testVars

-----------------------------------------------------------------------------

\* routes/tasks.rs:53, routes/health.rs:25, error.rs:56: whatever a test
\* asserts of status, error code, answer and recorded calls is so in the
\* model, and so are the rows of the error table.
TestsPass ==
  /\ \A t \in test : \A c \in Client : Done(c) =>
       /\ response[c].status = t.status
       /\ t.body # "any" => response[c].body = t.body
       /\ t.touched = "no" => calls = <<>>
       /\ t.touched = "yes" =>
            \E i \in DOMAIN calls : \A f \in DOMAIN t.args :
              calls[i].args[f] = t.args[f]
  /\ \A row \in StatusRows : status_for(row[1]) = row[2]
  /\ \A row \in ExitRows : exit_code(row[1]) = row[2]
=============================================================================
