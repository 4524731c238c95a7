-------------------------- MODULE RouteTestsProofs --------------------------
(***************************************************************************)
(* Why what holds of the HTTP layer with the fake of any client's making   *)
(* holds in the tests, too, whose fakes are set up for one operation or    *)
(* one error; and why the tests pass.                                      *)
(*                                                                         *)
(* Answer says what a request over a fake is answered with.  TestInv says  *)
(* that a test stays with its one client and that the client, once it is   *)
(* answered, has that answer; the rest is what Answer makes of each test.  *)
(***************************************************************************)
EXTENDS RouteTests, HttpApiProofs, FiniteSetTheorems

\* What a test may set the fake up with.
Repos == {new} \cup {with(op) : op \in Ops} \cup {failing(code) : code \in CrewCodes}

LEMMA ReposAreFakes ==
  ASSUME NEW repo \in Repos
  PROVE  repo.configured \subseteq Ops /\ repo.error \in CrewCodes \cup {"none"}
<1>1. new.configured = {} /\ new.error = "none" BY DEF new
<1>2. \A op \in Ops : with(op).configured = {op} /\ with(op).error = "none" BY DEF with, new
<1>3. \A code \in CrewCodes : failing(code).configured = {} /\ failing(code).error = code
  BY DEF failing, new
<1>4. QED BY <1>1, <1>2, <1>3 DEF Repos

\* That a test runs over one of these: whatever it asserts, it does.
OverRepo(t) == t.repo \in Repos

LEMMA Asserted ==
  \A repo \in Repos : \A req, status, body :
     /\ OverRepo(Send(repo, req, status, body))
     /\ OverRepo(Untouched(Send(repo, req, status, body)))
     /\ \A args : OverRepo(Sees(Send(repo, req, status, body), args))
BY DEF OverRepo, Send, Sees, Untouched

LEMMA TestRepos == \A t \in Tests : t.repo \in Repos
<1>1. /\ new \in Repos /\ with("create") \in Repos /\ with("get") \in Repos
      /\ with("list") \in Repos /\ with("delete") \in Repos /\ with("health") \in Repos
      /\ failing("not_found") \in Repos /\ failing("validation") \in Repos
      /\ failing("storage") \in Repos
  BY DEF Repos, Ops, TaskOps, CrewCodes
<1>2. \A t \in CreateTests : OverRepo(t) BY <1>1, Asserted DEF CreateTests
<1>3. \A t \in GetTests : OverRepo(t) BY <1>1, Asserted DEF GetTests
<1>4. \A t \in ListTests : OverRepo(t) BY <1>1, Asserted DEF ListTests
<1>5. \A t \in DeleteTests : OverRepo(t) BY <1>1, Asserted DEF DeleteTests
<1>6. \A t \in RoutingTests : OverRepo(t) BY <1>1, Asserted DEF RoutingTests
<1>7. \A t \in HealthTests : OverRepo(t) BY <1>1, Asserted DEF HealthTests
<1>8. QED BY <1>2, <1>3, <1>4, <1>5, <1>6, <1>7 DEF Tests, OverRepo

\* A test starts where the invariant holds.
LEMMA InitTestIInv == ASSUME NEW t \in Tests, InitTest(t) PROVE IInv
<1>1. calls = <<>> /\ DOMAIN calls = {} /\ Callers = {} BY DEF InitTest, Callers
<1>2. Pending \in [status : 0..599, body : Bodies] /\ Pending.body \notin CrewCodes
  BY DEF Pending, Bodies, CrewCodes
<1>3. TypeOK
  <2>1. /\ configured \subseteq Ops /\ kind = "fake"
        /\ told \in CrewCodes \cup {"none"} /\ error = told
    BY TestRepos, ReposAreFakes DEF InitTest
  <2>2. request \in [Client -> Requests] BY TestAssumption DEF InitTest
  <2>3. response \in [Client -> [status : 0..599, body : Bodies]] BY <1>2 DEF InitTest
  <2>4. stage \in [Client -> {"dispatch", "extract", "call", "done"}] BY DEF InitTest
  <2>5. QED BY <1>1, <2>1, <2>2, <2>3, <2>4 DEF TypeOK
<1>4. Progress /\ Statuses BY <1>2 DEF InitTest, Progress, Statuses
<1>5. Log BY <1>1 DEF InitTest, Log
<1>6. ErrorHitsFirstCall BY <1>1 DEF InitTest, ErrorHitsFirstCall
<1>7. QED BY <1>3, <1>4, <1>5, <1>6 DEF IInv

\* What the HTTP layer guarantees it guarantees with every repo: the one of
\* production, a fake that answers everything or nothing, and the fakes of
\* the tests.
THEOREM WithAnyRepo ==
  SpecRoutes => [](/\ TypeOK /\ OnlySoundRequestsReachRepo /\ RepoSeesWhatWasSent
                   /\ ErrorHitsFirstCall /\ StatusDeterminesExit)
<1>1. InitRoutes => IInv BY InitIInv, InitTestIInv DEF InitRoutes
<1>2. IInv /\ [NextRoutes]_testVars => IInv' BY Step DEF NextRoutes, testVars
<1>3. IInv => /\ TypeOK /\ OnlySoundRequestsReachRepo /\ RepoSeesWhatWasSent
              /\ ErrorHitsFirstCall /\ StatusDeterminesExit
  BY SoundFromLog, SeenFromLog, ExitFromStatuses DEF IInv
<1>4. QED BY <1>1, <1>2, <1>3, PTL DEF SpecRoutes

-----------------------------------------------------------------------------
(* What a request over a fake is answered with.                            *)

Found(repo, op) == IF op \in repo.configured THEN "configured" ELSE "default"

Error(code) == [status |-> status_for(code), body |-> code]

Answer(repo, r) ==
  IF Matching(r) = {}
  THEN [status |-> IF \E e \in Routes : e.path = r.path THEN 405 ELSE 404, body |-> "none"]
  ELSE IF ~Sound(r) THEN Error("validation")
  ELSE IF Handler(r) = "health" THEN [status |-> 200, body |-> Found(repo, "health")]
  ELSE IF repo.error # "none" THEN Error(repo.error)
  ELSE IF Handler(r) \in {"get", "delete"} \ repo.configured THEN Error("not_found")
  ELSE [status |-> IF Handler(r) = "create" THEN 201 ELSE 200, body |-> Found(repo, Handler(r))]

\* What the fake has recorded once the request of c is answered.
Recorded(c, r) ==
  IF Reaches(r) THEN <<[client |-> c, op |-> Handler(r), args |-> Args(r)]>> ELSE <<>>

\* While a test runs, one client has set out, and the fake is as it was set
\* up until that client is answered.
Underway == {c \in Client : stage[c] # "dispatch"}

Runs(t) ==
  /\ request = [c \in Client |-> t.request]
  /\ kind = "fake" /\ configured = t.repo.configured
  /\ Underway = {} \/ \E c \in Client : Underway = {c}
  /\ (\A c \in Client : stage[c] # "done") => error = t.repo.error /\ calls = <<>>
  /\ \A c \in Client : stage[c] = "done" =>
       response[c] = Answer(t.repo, t.request) /\ calls = Recorded(c, t.request)

TestInv == test \subseteq Tests /\ (test = {} \/ \E t \in Tests : test = {t} /\ Runs(t))

\* No second client sets out.
LEMMA OneSender ==
  ASSUME NEW t \in Tests, Runs(t), NextRoutes, test = {t},
         NEW c \in Client, stage' = [stage EXCEPT ![c] = stage'[c]], stage'[c] # "dispatch",
         TypeOK
  PROVE  Underway \subseteq {c} /\ Underway' = {c}
<1>1. Underway' = Underway \cup {c} BY DEF Underway, TypeOK
<1>2. IsFiniteSet(Underway')
  <2>1. Underway = {} \/ \E d \in Client : Underway = {d} BY DEF Runs
  <2> HIDE DEF Runs
  <2>2. IsFiniteSet(Underway) BY <2>1, FS_EmptySet, FS_Singleton, Zenon
  <2>3. QED BY <1>1, <2>2, FS_AddElement
<1>3. Cardinality(Underway') = 1
  <2>1. test # {} OBVIOUS
  <2>2. QED BY <2>1 DEF NextRoutes, Underway
<1>4. \E d : Underway' = {d} BY <1>2, <1>3, FS_Singleton
<1>5. QED BY <1>1, <1>4

\* The client that set out is answered.
LEMMA TestEnds ==
  ASSUME NEW t \in Tests, Runs(t), NEW c \in Client, TypeOK, Underway \subseteq {c}, Underway' = {c},
         stage[c] # "done", UNCHANGED <<request, kind, configured>>,
         t.request.method # "HEAD",
         NEW answer, answer = Answer(t.repo, t.request), Reply(c, answer.status, answer.body),
         answer = [status |-> answer.status, body |-> answer.body],
         calls' = Recorded(c, t.request)
  PROVE  Runs(t)'
<1>1. request[c] = t.request BY DEF Runs
<1>2. response'[c] = answer BY <1>1 DEF Reply, Response, TypeOK
<1>3. \A d \in Client : stage'[d] = "done" <=> d = c
  <2>1. \A d \in Client \ {c} : stage[d] = "dispatch" BY DEF Underway
  <2>2. QED BY <2>1 DEF Reply, TypeOK
<1>4. QED BY <1>2, <1>3 DEF Runs


\* What the tests send, none of them with HEAD.
LEMMA NoHead == \A t \in Tests : t.request.method # "HEAD"
<1> DEFINE ok(t) == t.request.method # "HEAD"
<1>1. \A repo, req, status, body : req.method # "HEAD" =>
        /\ ok(Send(repo, req, status, body))
        /\ ok(Untouched(Send(repo, req, status, body)))
        /\ \A args : ok(Sees(Send(repo, req, status, body), args))
  BY DEF Send, Sees, Untouched
<1>2. /\ \A path, id, query : get_req(path, id, query).method # "HEAD"
      /\ \A path, id, query : delete_req(path, id, query).method # "HEAD"
      /\ \A path : put_req(path).method # "HEAD"
      /\ \A object : post_req(object).method # "HEAD"
      /\ post_req_raw.method # "HEAD"
  BY DEF get_req, put_req, delete_req, post_req, post_req_raw, Request_
<1> HIDE DEF ok
<1>3. \A t \in CreateTests : ok(t) BY <1>1, <1>2 DEF CreateTests
<1>4. \A t \in GetTests : ok(t) BY <1>1, <1>2 DEF GetTests
<1>5. \A t \in ListTests : ok(t) BY <1>1, <1>2 DEF ListTests
<1>6. \A t \in DeleteTests : ok(t) BY <1>1, <1>2 DEF DeleteTests
<1>7. \A t \in RoutingTests : ok(t) BY <1>1, <1>2 DEF RoutingTests
<1>8. \A t \in HealthTests : ok(t) BY <1>1, <1>2 DEF HealthTests
<1>9. QED BY <1>3, <1>4, <1>5, <1>6, <1>7, <1>8 DEF Tests, ok

\* A test stays on its way until its client is answered, and its answer stays.
LEMMA TestStep == TestInv /\ IInv /\ [NextRoutes]_testVars => TestInv'
<1> SUFFICES ASSUME TestInv, IInv, [NextRoutes]_testVars PROVE TestInv'
    OBVIOUS
<1>1. CASE UNCHANGED testVars
  BY <1>1 DEF testVars, vars, TestInv, Runs, Underway
<1>2. CASE NextRoutes /\ test = {} BY <1>2 DEF NextRoutes, TestInv
<1>3. ASSUME NEW t \in Tests, test = {t}, Runs(t), NextRoutes PROVE TestInv'
  <2> DEFINE r == t.request
  <2>. TypeOK /\ Progress /\ Log BY DEF IInv
  <2>1. r.method # "HEAD" BY NoHead
  <2>2. SUFFICES Runs(t)' BY <1>3, <2>2 DEF NextRoutes, TestInv
  <2>3. kind = "fake" /\ configured = t.repo.configured /\ \A c \in Client : request[c] = r
    BY <1>3 DEF Runs
  <2>4. ASSUME NEW c \in Client, Underway \subseteq {c}, stage[c] # "done"
        PROVE  error = t.repo.error /\ calls = <<>>
    BY <1>3, <2>4 DEF Runs, Underway
  <2>5. ASSUME NEW c \in Client, stage[c] # "done", Underway \subseteq {c}, Underway' = {c},
               UNCHANGED <<request, kind, configured, error, calls>>,
               stage' = [stage EXCEPT ![c] = stage'[c]], stage'[c] # "done"
        PROVE  Runs(t)'
    BY <1>3, <2>4, <2>5 DEF Runs, Underway, TypeOK
  <2>6. ASSUME NEW c \in Client, stage[c] # "done",
               Dispatch(c) \/ Extract(c) \/ Health(c) \/ StoreRepo(c) \/ FakeRepo(c)
        PROVE  Underway \subseteq {c} /\ Underway' = {c}
    <3>1. stage' = [stage EXCEPT ![c] = stage'[c]] /\ stage'[c] # "dispatch"
      BY <2>6 DEF Dispatch, Extract, Health, StoreRepo, FakeRepo, Fail, Reply, TypeOK
    <3>2. QED BY <1>3, <3>1, OneSender
  <2>7. ASSUME NEW c \in Client, Dispatch(c) PROVE Runs(t)'
    <3>1. /\ stage[c] # "done" /\ UNCHANGED <<request, kind, configured, error, calls>>
          /\ Underway \subseteq {c} /\ Underway' = {c}
      BY <2>6, <2>7 DEF Dispatch
    <3>2. CASE Matching(r) # {} BY <2>3, <2>5, <2>7, <3>1, <3>2 DEF Dispatch, TypeOK
    <3>3. CASE Matching(r) = {}
      <4> DEFINE a == [status |-> IF \E e \in Routes : e.path = r.path THEN 405 ELSE 404,
                       body |-> "none"]
      <4>1. a = Answer(t.repo, r) BY <3>3 DEF Answer
      <4>2. Reply(c, a.status, a.body) BY <2>3, <2>7, <3>3 DEF Dispatch
      <4>3. calls' = Recorded(c, r) BY <2>4, <3>1, <3>3 DEF Recorded, Reaches
      <4>4. QED BY <1>3, <2>1, <3>1, <4>1, <4>2, <4>3, TestEnds
    <3>4. QED BY <3>2, <3>3
  <2>8. ASSUME NEW c \in Client, Extract(c) PROVE Runs(t)'
    <3>1. /\ stage[c] # "done" /\ UNCHANGED <<request, kind, configured, error, calls>>
          /\ Underway \subseteq {c} /\ Underway' = {c} /\ Matching(r) # {}
      BY <2>3, <2>6, <2>8 DEF Extract, Progress
    <3>2. CASE Sound(r) BY <2>3, <2>5, <2>8, <3>1, <3>2 DEF Extract, Sound, TypeOK
    <3>3. CASE ~Sound(r)
      <4> DEFINE a == Error("validation")
      <4>1. a = Answer(t.repo, r) BY <3>1, <3>3 DEF Answer
      <4>2. Reply(c, a.status, a.body) BY <2>3, <2>8, <3>3 DEF Extract, Sound, Fail, Error
      <4>3. calls' = Recorded(c, r) BY <2>4, <3>1, <3>3 DEF Recorded, Reaches
      <4>4. QED BY <1>3, <2>1, <3>1, <4>1, <4>2, <4>3, TestEnds DEF Error
    <3>4. QED BY <3>2, <3>3
  <2>9. ASSUME NEW c \in Client, Health(c) PROVE Runs(t)'
    <3>1. /\ stage[c] # "done" /\ UNCHANGED <<request, kind, configured, error, calls>>
          /\ Underway \subseteq {c} /\ Underway' = {c} /\ Matching(r) # {} /\ Sound(r)
          /\ Handler(r) = "health"
      BY <2>3, <2>6, <2>9 DEF Health, Progress
    <3> DEFINE a == [status |-> 200, body |-> Found(t.repo, "health")]
    <3>2. a = Answer(t.repo, r) BY <3>1 DEF Answer
    <3>3. Reply(c, a.status, a.body) BY <2>3, <2>9 DEF Health, Value, Found
    <3>4. calls' = Recorded(c, r) BY <2>4, <3>1 DEF Recorded, Reaches, TaskOps
    <3>5. QED BY <1>3, <2>1, <3>1, <3>2, <3>3, <3>4, TestEnds
  <2>10. ASSUME NEW c \in Client, FakeRepo(c) PROVE Runs(t)'
    <3>1. /\ stage[c] # "done" /\ UNCHANGED <<request, kind, configured>>
          /\ Underway \subseteq {c} /\ Underway' = {c} /\ Matching(r) # {} /\ Sound(r)
          /\ Handler(r) \in TaskOps /\ calls' = Append(calls, Entry(c))
      BY <2>3, <2>6, <2>10 DEF FakeRepo, Call, Progress
    <3>2. error = t.repo.error /\ calls = <<>> BY <2>4, <3>1
    <3> DEFINE a == IF t.repo.error # "none" THEN Error(t.repo.error)
                    ELSE IF Handler(r) \in {"get", "delete"} \ t.repo.configured
                    THEN Error("not_found")
                    ELSE [status |-> IF Handler(r) = "create" THEN 201 ELSE 200,
                          body |-> Found(t.repo, Handler(r))]
    <3>3. a = Answer(t.repo, r) BY <3>1 DEF Answer, TaskOps
    <3>4. Reply(c, a.status, a.body)
      BY <2>3, <2>10, <3>2 DEF FakeRepo, Fail, Error, Value, Found
    <3>5. calls' = Recorded(c, r) BY <2>3, <3>1, <3>2 DEF Recorded, Reaches, Entry
    <3>6. a = [status |-> a.status, body |-> a.body] BY DEF Error
    <3> HIDE DEF a
    <3>7. QED BY <1>3, <2>1, <3>1, <3>3, <3>4, <3>5, <3>6, TestEnds
  <2>11. \A c \in Client : ~StoreRepo(c) BY <2>3 DEF StoreRepo
  <2>12. QED BY <1>3, <2>7, <2>8, <2>9, <2>10, <2>11 DEF NextRoutes, Next
<1>4. QED BY <1>1, <1>2, <1>3 DEF TestInv


-----------------------------------------------------------------------------
(* The requests of the tests, route by route.                              *)

\* Which handler takes a request, and what it reads of it.
Taken(r, handler) == Matching(r) # {} /\ Handler(r) = handler

LEMMA Taking ==
  /\ Taken(post_req_raw, "create") /\ \A object : Taken(post_req(object), "create")
  /\ \A query : Taken(get_req("/tasks", Null, query), "list")
  /\ \A id, query : Taken(get_req(TaskPath, id, query), "get")
  /\ \A id, query : Taken(delete_req(TaskPath, id, query), "delete")
  /\ Taken(get_req("/health", Null, <<>>), "health")
<1>1. ASSUME NEW r, r.path \in Paths, r.method \in Methods
      PROVE  /\ r.path = "/tasks" /\ r.method = "POST" => Taken(r, "create")
             /\ r.path = "/tasks" /\ r.method = "GET" => Taken(r, "list")
             /\ r.path = "/tasks/{id}" /\ r.method = "GET" => Taken(r, "get")
             /\ r.path = "/tasks/{id}" /\ r.method = "DELETE" => Taken(r, "delete")
             /\ r.path = "/health" /\ r.method = "GET" => Taken(r, "health")
  <2> DEFINE h == Handler(r)
             known == Matching(r) # {}
  <2>1. /\ known =>
             /\ h = "health" <=> r.path = "/health"
             /\ h = "create" <=> r.path = "/tasks" /\ r.method = "POST"
             /\ h = "list" <=> r.path = "/tasks" /\ r.method \in {"GET", "HEAD"}
             /\ h = "get" <=> r.path = "/tasks/{id}" /\ r.method \in {"GET", "HEAD"}
             /\ h = "delete" <=> r.path = "/tasks/{id}" /\ r.method = "DELETE"
        /\ known <=>
             \/ r.path = "/health" /\ r.method \in {"GET", "HEAD"}
             \/ r.path = "/tasks" /\ r.method \in {"POST", "GET", "HEAD"}
             \/ r.path = "/tasks/{id}" /\ r.method \in {"GET", "HEAD", "DELETE"}
    BY <1>1, Routing
  <2>2. \A handler : Taken(r, handler) <=> known /\ h = handler BY DEF Taken
  <2> HIDE DEF h, known
  <2>3. QED BY <2>1, <2>2
<1>2. /\ "POST" \in Methods /\ "GET" \in Methods /\ "DELETE" \in Methods
      /\ "/tasks" \in Paths /\ "/tasks/{id}" \in Paths /\ "/health" \in Paths
  BY DEF Methods, Paths
<1>3. /\ post_req_raw.path = "/tasks" /\ post_req_raw.method = "POST"
      /\ \A object : post_req(object).path = "/tasks" /\ post_req(object).method = "POST"
      /\ \A path, id, query :
           /\ get_req(path, id, query).path = path /\ get_req(path, id, query).method = "GET"
           /\ delete_req(path, id, query).path = path /\ delete_req(path, id, query).method = "DELETE"
  BY DEF post_req_raw, post_req, get_req, delete_req, Request_
<1>4. Taken(post_req_raw, "create") /\ \A object : Taken(post_req(object), "create")
  BY <1>1, <1>2, <1>3
<1>5. ASSUME NEW path \in Paths, NEW id, NEW query
      PROVE  /\ path = "/tasks" => Taken(get_req(path, id, query), "list")
             /\ path = "/tasks/{id}" => Taken(get_req(path, id, query), "get")
             /\ path = "/tasks/{id}" => Taken(delete_req(path, id, query), "delete")
             /\ path = "/health" => Taken(get_req(path, id, query), "health")
  <2> DEFINE g == get_req(path, id, query)
             d == delete_req(path, id, query)
  <2>1. g.path = path /\ g.method = "GET" /\ d.path = path /\ d.method = "DELETE"
    BY <1>3
  <2> HIDE DEF g, d
  <2>2. /\ path = "/tasks" => Taken(g, "list")
        /\ path = "/tasks/{id}" => Taken(g, "get")
        /\ path = "/tasks/{id}" => Taken(d, "delete")
        /\ path = "/health" => Taken(g, "health")
    BY <1>1, <1>2, <2>1
  <2>3. QED BY <2>2 DEF g, d
<1>6. QED BY <1>2, <1>4, <1>5 DEF TaskPath

\* What no route takes.
LEMMA NotTaking ==
  /\ Matching(get_req("/other", Null, <<>>)) = {} /\ ~\E e \in Routes : e.path = "/other"
  /\ Matching(put_req("/tasks")) = {} /\ Matching(delete_req("/tasks", Null, <<>>)) = {}
  /\ \E e \in Routes : e.path = "/tasks"
<1>1. ASSUME NEW r, r.path = "/other", r.method = "GET" PROVE Matching(r) = {}
  <2>1. r.path \in Paths /\ r.method \in Methods BY <1>1 DEF Paths, Methods
  <2>2. QED BY <1>1, <2>1, Routing
<1>2. ASSUME NEW r, r.path = "/tasks", r.method \in {"PUT", "DELETE"} PROVE Matching(r) = {}
  <2>1. r.path \in Paths /\ r.method \in Methods BY <1>2 DEF Paths, Methods
  <2>2. QED BY <1>2, <2>1, Routing
<1>3. \E e \in Routes : e.path = "/tasks" BY DEF Routes, Route
<1>4. ~\E e \in Routes : e.path = "/other" BY DEF Routes, Route
<1>5. QED BY <1>1, <1>2, <1>3, <1>4 DEF put_req, get_req, delete_req, Request_

CreatedFrom(object) == Readable(object, CreateFields, CreateDefaults, CreateReads)

\* When what the handler reads is readable.
LEMMA Reading ==
  /\ \A object : Sound(post_req(object)) <=> CreatedFrom(object)
  /\ ~Sound(post_req_raw)
  /\ \A query : Sound(get_req("/tasks", Null, query)) <=> ListReadable(query)
  /\ \A id, query : Sound(get_req(TaskPath, id, query)) <=> IsTaskId(id)
  /\ \A id, query : Sound(delete_req(TaskPath, id, query)) <=> IsTaskId(id) /\ DeleteReadable(query)
  /\ Sound(get_req("/health", Null, <<>>))
<1>1. \A r : Taken(r, "create") => (Sound(r) <=> CreateReadable(r.body))
  BY DEF Taken, Sound, Extracts, PartReadable
<1>2. \A r : Taken(r, "list") => (Sound(r) <=> ListReadable(r.query))
  BY DEF Taken, Sound, Extracts, PartReadable
<1>3. \A r : Taken(r, "get") => (Sound(r) <=> IsTaskId(r.id))
  BY DEF Taken, Sound, Extracts, PartReadable
<1>4. \A r : Taken(r, "delete") => (Sound(r) <=> IsTaskId(r.id) /\ DeleteReadable(r.query))
  BY DEF Taken, Sound, Extracts, PartReadable
<1>5. \A r : Taken(r, "health") => Sound(r) BY DEF Taken, Sound, Extracts
<1>6. /\ \A object : post_req(object).body = [json |-> TRUE, object |-> object]
      /\ post_req_raw.body.json = FALSE
      /\ \A path, id, query : get_req(path, id, query).id = id /\ get_req(path, id, query).query = query
      /\ \A path, id, query : delete_req(path, id, query).id = id /\ delete_req(path, id, query).query = query
  BY DEF post_req, post_req_raw, NoBody, get_req, delete_req, Request_
<1>7. \A object : CreateReadable([json |-> TRUE, object |-> object])
        <=> CreatedFrom(object)
  BY DEF CreateReadable, CreatedFrom
<1>8. ~CreateReadable(post_req_raw.body) BY <1>6 DEF CreateReadable
<1>9. ASSUME NEW object PROVE Sound(post_req(object)) <=> CreatedFrom(object)
  <2>1. Sound(post_req(object)) <=> CreateReadable(post_req(object).body) BY <1>1, Taking
  <2>2. post_req(object).body = [json |-> TRUE, object |-> object] BY <1>6
  <2>3. CreateReadable(post_req(object).body) <=> CreatedFrom(object) BY <1>7, <2>2, Zenon
  <2>4. QED BY <2>1, <2>3
<1>10. ~Sound(post_req_raw) BY <1>1, <1>8, Taking
<1>11. \A query : Sound(get_req("/tasks", Null, query)) <=> ListReadable(query)
  BY <1>2, <1>6, Taking
<1>12. \A id, query : Sound(get_req(TaskPath, id, query)) <=> IsTaskId(id)
  BY <1>3, <1>6, Taking
<1>13. \A id, query : Sound(delete_req(TaskPath, id, query)) <=> IsTaskId(id) /\ DeleteReadable(query)
  BY <1>4, <1>6, Taking
<1>14. Sound(get_req("/health", Null, <<>>)) BY <1>5, Taking
<1>15. QED BY <1>9, <1>10, <1>11, <1>12, <1>13, <1>14

\* What the fake is called with.
LEMMA Passing ==
  /\ \A object : \A f \in CreateFields :
       Args(post_req(object))[f] = IF f \in DOMAIN object THEN object[f] ELSE CreateDefaults[f]
  /\ \A query : Args(get_req("/tasks", Null, query)) = ListQuery(query)
  /\ \A n, query : Args(get_req(TaskPath, Int_(n), query)) = [id |-> n]
  /\ \A n, query : Args(delete_req(TaskPath, Int_(n), query))
       = [id |-> n, force |-> DeleteQuery(query).force]
<1>1. /\ \A r : Taken(r, "create") => Args(r) = CreateTaskRequest(r.body)
      /\ \A r : Taken(r, "list") => Args(r) = ListQuery(r.query)
      /\ \A r : Taken(r, "get") => Args(r) = [id |-> r.id[2]]
      /\ \A r : Taken(r, "delete") => Args(r) = [id |-> r.id[2], force |-> DeleteQuery(r.query).force]
  BY DEF Taken, Args
<1>2. /\ \A object : post_req(object).body.object = object
      /\ \A path, id, query : get_req(path, id, query).id = id /\ get_req(path, id, query).query = query
      /\ \A path, id, query : delete_req(path, id, query).id = id /\ delete_req(path, id, query).query = query
  BY DEF post_req, get_req, delete_req, Request_
<1>3. \A n : Int_(n)[2] = n BY DEF Int_
<1>4. \A object : Args(post_req(object)) = ReadAs(object, CreateFields, CreateDefaults)
  BY <1>1, <1>2, Taking DEF CreateTaskRequest
<1>5. \A object : \A f \in CreateFields :
        Args(post_req(object))[f] = IF f \in DOMAIN object THEN object[f] ELSE CreateDefaults[f]
  BY <1>4 DEF ReadAs
<1>6. QED BY <1>1, <1>2, <1>3, <1>5, Taking


-----------------------------------------------------------------------------
(* What the tests send and what they are answered with.                    *)

LEMMA FieldsRead ==
  /\ \A x : CreateReads("title", Text(x)) /\ CreateReads("description", Text(x))
  /\ CreateReads("origin", Text("human")) /\ CreateReads("origin", Text("agent"))
  /\ \A n \in MinId..MaxId : CreateReads("parent_id", Int_(n))
  /\ \A b : CreateReads("agent_eligible", Bool(b)) /\ CreateReads("sources", Texts(b))
<1>1. \A x : Text(x)[1] = "text" /\ Text(x)[2] = x BY DEF Text
<1>2. \A n : Int_(n)[1] = "int" /\ Int_(n)[2] = n BY DEF Int_
<1>3. \A b : Bool(b)[1] = "bool" /\ Texts(b)[1] = "texts" BY DEF Bool, Texts
<1>4. \A x : CreateReads("title", Text(x)) /\ CreateReads("description", Text(x))
  BY <1>1 DEF CreateReads, IsText
<1>5. CreateReads("origin", Text("human")) /\ CreateReads("origin", Text("agent"))
  BY <1>1 DEF CreateReads, IsText, TaskOrigin
<1>6. \A n \in MinId..MaxId : CreateReads("parent_id", Int_(n))
  BY <1>2 DEF CreateReads, IsTaskId
<1>7. \A b : CreateReads("agent_eligible", Bool(b)) /\ CreateReads("sources", Texts(b))
  BY <1>3 DEF CreateReads
<1>8. QED BY <1>4, <1>5, <1>6, <1>7

LEMMA CreateFieldsAre ==
  /\ DOMAIN CreateDefaults = {"description", "parent_id", "agent_eligible", "sources"}
  /\ CreateFields = {"title", "origin", "description", "parent_id", "agent_eligible", "sources"}
BY DEF CreateDefaults, CreateFields

\* An object is taken for a new task when it has a title and an origin.
LEMMA CreatedWhen ==
  ASSUME NEW object, DOMAIN object \subseteq CreateFields,
         \A f \in DOMAIN object : CreateReads(f, object[f])
  PROVE  CreatedFrom(object) <=> "title" \in DOMAIN object /\ "origin" \in DOMAIN object
BY CreateFieldsAre DEF CreatedFrom, Readable

LEMMA BodiesRead ==
  /\ \A x : CreatedFrom(Titled(x)) /\ DOMAIN Titled(x) = {"title", "origin"}
  /\ \A n \in MinId..MaxId : CreatedFrom(ChildOf(n))
  /\ 1 \in MinId..MaxId => CreatedFrom(WholeRequest)
  /\ DOMAIN WholeRequest = CreateFields
  /\ ~CreatedFrom(NoOrigin)
<1>1. ASSUME NEW x PROVE CreatedFrom(Titled(x)) /\ DOMAIN Titled(x) = {"title", "origin"}
  <2>1. /\ DOMAIN Titled(x) = {"title", "origin"}
        /\ Titled(x)["title"] = Text(x) /\ Titled(x)["origin"] = Text("human")
    BY DEF Titled
  <2>2. QED BY <2>1, FieldsRead, CreateFieldsAre, CreatedWhen
<1>2. ASSUME NEW n \in MinId..MaxId PROVE CreatedFrom(ChildOf(n))
  <2>1. /\ DOMAIN ChildOf(n) = {"title", "origin", "parent_id"}
        /\ \E x : ChildOf(n)["title"] = Text(x)
        /\ ChildOf(n)["origin"] = Text("agent") /\ ChildOf(n)["parent_id"] = Int_(n)
    BY DEF ChildOf
  <2>2. QED BY <2>1, FieldsRead, CreateFieldsAre, CreatedWhen
<1>3. DOMAIN WholeRequest = CreateFields BY CreateFieldsAre DEF WholeRequest
<1>4. ASSUME 1 \in MinId..MaxId PROVE CreatedFrom(WholeRequest)
  <2>1. /\ (\E x : WholeRequest["title"] = Text(x)) /\ WholeRequest["origin"] = Text("agent")
        /\ WholeRequest["parent_id"] = Int_(1) /\ WholeRequest["agent_eligible"] = Bool(FALSE)
        /\ (\E x : WholeRequest["description"] = Text(x))
        /\ (\E x : WholeRequest["sources"] = Texts(x))
    BY DEF WholeRequest
  <2>2. \A f \in CreateFields : CreateReads(f, WholeRequest[f])
    BY <1>4, <2>1, FieldsRead, CreateFieldsAre
  <2>3. QED BY <1>3, <2>2, CreateFieldsAre, CreatedWhen
<1>5. ~CreatedFrom(NoOrigin)
  <2>1. DOMAIN NoOrigin = {"title"} /\ \E x : NoOrigin["title"] = Text(x) BY DEF NoOrigin
  <2>2. QED BY <2>1, FieldsRead, CreateFieldsAre, CreatedWhen
<1>6. QED BY <1>1, <1>2, <1>3, <1>4, <1>5

LEMMA QueriesRead ==
  /\ ListReadable(<<>>) /\ ListQuery(<<>>) = ListDefaults
  /\ ListReadable(<< <<"queue", "agent">> >>) /\ ListQuery(<< <<"queue", "agent">> >>).queue = "agent"
  /\ ListReadable(<< <<"status", "handed_off">>, <<"all", "true">> >>)
  /\ ListQuery(<< <<"status", "handed_off">>, <<"all", "true">> >>).status = "handed_off"
  /\ ListQuery(<< <<"status", "handed_off">>, <<"all", "true">> >>).all = "true"
  /\ ~ListReadable(<< <<"queue", "bogus">> >>) /\ ~ListReadable(<< <<"queeue", "agent">> >>)
  /\ DeleteReadable(<<>>) /\ DeleteQuery(<<>>).force = "false"
  /\ DeleteReadable(<< <<"force", "true">> >>) /\ DeleteQuery(<< <<"force", "true">> >>).force = "true"
  /\ ~DeleteReadable(<< <<"forse", "true">> >>)
<1>1. /\ DOMAIN ListDefaults = {"queue", "status", "all"} /\ DOMAIN DeleteDefaults = {"force"}
      /\ DeleteDefaults["force"] = "false" /\ ListDefaults = [f \in DOMAIN ListDefaults |-> ListDefaults[f]]
  BY DEF ListDefaults, DeleteDefaults
<1>2. ListReadable(<<>>) /\ DeleteReadable(<<>>)
  BY DEF ListReadable, DeleteReadable, ReadableQuery
<1>3. ListQuery(<<>>) = ListDefaults /\ DeleteQuery(<<>>).force = "false"
  BY <1>1 DEF ListQuery, DeleteQuery, ReadQueryAs
<1>4. /\ ListReadable(<< <<"queue", "agent">> >>)
      /\ ListReadable(<< <<"status", "handed_off">>, <<"all", "true">> >>)
      /\ ~ListReadable(<< <<"queue", "bogus">> >>) /\ ~ListReadable(<< <<"queeue", "agent">> >>)
  <2>1. ASSUME NEW q, DOMAIN q = {1}
        PROVE  /\ q[1][1] = "queue" => (ListReadable(q) <=> q[1][2] \in Queue)
               /\ q[1][1] = "queeue" => ~ListReadable(q)
    BY <1>1, <2>1 DEF ListReadable, ReadableQuery
  <2>2. ASSUME NEW q, DOMAIN q = {1, 2}, q[1] = <<"status", "handed_off">>, q[2] = <<"all", "true">>
        PROVE  ListReadable(q)
    <3>1. /\ q[1][1] = "status" /\ q[1][2] = "handed_off" /\ q[2][1] = "all" /\ q[2][2] = "true"
      BY <2>2
    <3>2. \A j, k \in DOMAIN q : q[j][1] = q[k][1] => j = k BY <2>2, <3>1
    <3>3. QED BY <1>1, <2>2, <3>1, <3>2 DEF ListReadable, ReadableQuery, TaskStatus, FlagReads
  <2>3. ASSUME NEW a, NEW b
        PROVE  LET q == << <<a, b>> >> IN DOMAIN q = {1} /\ q[1][1] = a /\ q[1][2] = b
    OBVIOUS
  <2>4. LET q == << <<"status", "handed_off">>, <<"all", "true">> >> IN
          DOMAIN q = {1, 2} /\ q[1] = <<"status", "handed_off">> /\ q[2] = <<"all", "true">>
    OBVIOUS
  <2>5. "agent" \in Queue /\ "bogus" \notin Queue BY DEF Queue
  <2>6. QED BY <2>1, <2>2, <2>3, <2>4, <2>5
<1>5. DeleteReadable(<< <<"force", "true">> >>) /\ ~DeleteReadable(<< <<"forse", "true">> >>)
  BY <1>1 DEF DeleteReadable, ReadableQuery, FlagReads
<1>6. ListQuery(<< <<"queue", "agent">> >>).queue = "agent"
  <2> DEFINE q == << <<"queue", "agent">> >>
  <2>1. DOMAIN q = {1} /\ q[1][1] = "queue" /\ q[1][2] = "agent" OBVIOUS
  <2> HIDE DEF q
  <2>2. \A j, k \in DOMAIN q : q[j][1] = q[k][1] => j = k BY <2>1
  <2>3. ReadQueryAs(q, ListDefaults)["queue"] = "agent" BY <1>1, <2>1, <2>2, ReadPairs
  <2>4. QED BY <2>3 DEF ListQuery, q
<1>7. /\ ListQuery(<< <<"status", "handed_off">>, <<"all", "true">> >>).status = "handed_off"
      /\ ListQuery(<< <<"status", "handed_off">>, <<"all", "true">> >>).all = "true"
  <2> DEFINE q == << <<"status", "handed_off">>, <<"all", "true">> >>
  <2>1. /\ DOMAIN q = {1, 2} /\ q[1][1] = "status" /\ q[1][2] = "handed_off"
        /\ q[2][1] = "all" /\ q[2][2] = "true"
    OBVIOUS
  <2> HIDE DEF q
  <2>2. \A j, k \in DOMAIN q : q[j][1] = q[k][1] => j = k BY <2>1
  <2>3. ReadQueryAs(q, ListDefaults)["status"] = "handed_off" BY <1>1, <2>1, <2>2, ReadPairs
  <2>4. ReadQueryAs(q, ListDefaults)["all"] = "true" BY <1>1, <2>1, <2>2, ReadPairs
  <2>5. QED BY <2>3, <2>4 DEF ListQuery, q
<1>8. DeleteQuery(<< <<"force", "true">> >>).force = "true"
  <2> DEFINE q == << <<"force", "true">> >>
  <2>1. DOMAIN q = {1} /\ q[1][1] = "force" /\ q[1][2] = "true" OBVIOUS
  <2> HIDE DEF q
  <2>2. \A j, k \in DOMAIN q : q[j][1] = q[k][1] => j = k BY <2>1
  <2>3. ReadQueryAs(q, DeleteDefaults)["force"] = "true" BY <1>1, <2>1, <2>2, ReadPairs
  <2>4. QED BY <2>3 DEF DeleteQuery, q
<1>9. QED BY <1>2, <1>3, <1>4, <1>5, <1>6, <1>7, <1>8


-----------------------------------------------------------------------------
(* What the tests assert.                                                  *)

Expected(t) ==
  /\ Answer(t.repo, t.request).status = t.status
  /\ t.body # "any" => Answer(t.repo, t.request).body = t.body
  /\ t.touched = "no" => ~Reaches(t.request)
  /\ t.touched = "yes" =>
       Reaches(t.request) /\ \A f \in DOMAIN t.args : Args(t.request)[f] = t.args[f]

LEMMA ExpectedOf ==
  ASSUME NEW repo, NEW req, NEW status, NEW body,
         Answer(repo, req).status = status, body = "any" \/ body = Answer(repo, req).body
  PROVE  /\ Expected(Send(repo, req, status, body))
         /\ ~Reaches(req) => Expected(Untouched(Send(repo, req, status, body)))
         /\ \A args : Reaches(req) /\ (\A f \in DOMAIN args : Args(req)[f] = args[f])
              => Expected(Sees(Send(repo, req, status, body), args))
BY DEF Expected, Send, Untouched, Sees

\* A part that is not readable, or a task operation the fake answers with
\* what it was configured with, or with the error it was told to fail with.
LEMMA AnsweredWith ==
  ASSUME NEW r, NEW handler, Taken(r, handler)
  PROVE  /\ ~Sound(r) => /\ ~Reaches(r)
                         /\ \A repo : /\ Answer(repo, r).status = 400
                                      /\ Answer(repo, r).body = "validation"
         /\ Sound(r) /\ handler \in TaskOps =>
              /\ Reaches(r)
              /\ Answer(with(handler), r).status = IF handler = "create" THEN 201 ELSE 200
              /\ Answer(with(handler), r).body = "configured"
              /\ \A code \in CrewCodes : /\ Answer(failing(code), r).status = status_for(code)
                                         /\ Answer(failing(code), r).body = code
<1>1. Matching(r) # {} /\ Handler(r) = handler BY DEF Taken
<1>2. ASSUME ~Sound(r)
      PROVE  ~Reaches(r) /\ \A repo : Answer(repo, r) = Error("validation")
  BY <1>1, <1>2 DEF Reaches, Answer
<1>3. Error("validation").status = 400 /\ Error("validation").body = "validation"
  BY DEF Error, status_for
<1>4. ASSUME Sound(r), handler \in TaskOps
      PROVE  /\ Reaches(r)
             /\ Answer(with(handler), r).status = IF handler = "create" THEN 201 ELSE 200
             /\ Answer(with(handler), r).body = "configured"
  <2>1. with(handler).configured = {handler} /\ with(handler).error = "none" BY DEF with, new
  <2>2. handler # "health" BY <1>4 DEF TaskOps
  <2>3. Found(with(handler), handler) = "configured" BY <2>1 DEF Found
  <2>4. Answer(with(handler), r)
          = [status |-> IF handler = "create" THEN 201 ELSE 200, body |-> "configured"]
    BY <1>1, <1>4, <2>1, <2>2, <2>3 DEF Answer
  <2>5. QED BY <1>1, <1>4, <2>4 DEF Reaches
<1>5. ASSUME Sound(r), handler \in TaskOps, NEW code \in CrewCodes
      PROVE  Answer(failing(code), r).status = status_for(code) /\ Answer(failing(code), r).body = code
  <2>1. failing(code).error = code /\ code # "none" BY DEF failing, new, CrewCodes
  <2>2. Answer(failing(code), r) = Error(code)
    BY <1>1, <1>5, <2>1 DEF Answer, TaskOps
  <2>3. QED BY <2>2 DEF Error
<1>6. QED BY <1>2, <1>3, <1>4, <1>5

LEMMA ErrorStatuses ==
  /\ status_for("validation") = 400 /\ "validation" \in CrewCodes
  /\ status_for("not_found") = 404 /\ "not_found" \in CrewCodes
  /\ status_for("storage") = 503 /\ "storage" \in CrewCodes
BY DEF status_for, CrewCodes

\* A test whose request is refused, whatever the fake is set up with.
LEMMA Refused ==
  ASSUME NEW repo, NEW req, NEW handler, Taken(req, handler), ~Sound(req)
  PROVE  /\ Expected(Send(repo, req, 400, "validation"))
         /\ Expected(Untouched(Send(repo, req, 400, "validation")))
<1> DEFINE status == 400
<1>1. /\ ~Reaches(req)
      /\ Answer(repo, req).status = status /\ Answer(repo, req).body = "validation"
  BY AnsweredWith
<1> HIDE DEF status
<1>2. /\ Expected(Send(repo, req, status, "validation"))
      /\ Expected(Untouched(Send(repo, req, status, "validation")))
  BY <1>1, ExpectedOf
<1>3. QED BY <1>2 DEF status

\* A test whose request reaches a fake that is set up for it.
LEMMA Served ==
  ASSUME NEW req, NEW handler \in TaskOps, Taken(req, handler), Sound(req)
  PROVE  LET status == IF handler = "create" THEN 201 ELSE 200 IN
         /\ Expected(Send(with(handler), req, status, "configured"))
         /\ \A args : (\A f \in DOMAIN args : Args(req)[f] = args[f]) =>
              Expected(Sees(Send(with(handler), req, status, "any"), args))
         /\ \A code \in CrewCodes : Expected(Send(failing(code), req, status_for(code), code))
<1> DEFINE status == IF handler = "create" THEN 201 ELSE 200
<1>1. /\ Reaches(req) /\ Answer(with(handler), req).status = status
      /\ Answer(with(handler), req).body = "configured"
      /\ \A code \in CrewCodes : /\ Answer(failing(code), req).status = status_for(code)
                                 /\ Answer(failing(code), req).body = code
  BY AnsweredWith
<1> HIDE DEF status
<1>2. Expected(Send(with(handler), req, status, "configured")) BY <1>1, ExpectedOf
<1>3. \A args : (\A f \in DOMAIN args : Args(req)[f] = args[f]) =>
        Expected(Sees(Send(with(handler), req, status, "any"), args))
  BY <1>1, ExpectedOf
<1>4. \A code \in CrewCodes : Expected(Send(failing(code), req, status_for(code), code))
  BY <1>1, ExpectedOf
<1>5. QED BY <1>2, <1>3, <1>4 DEF status

LEMMA CreateTestsPass ==
  ASSUME {1, 2, 5} \subseteq MinId..MaxId
  PROVE  \A t \in CreateTests : Expected(t)
<1>1. ASSUME NEW object, CreatedFrom(object)
      PROVE  /\ Expected(Send(with("create"), post_req(object), 201, "configured"))
             /\ \A args : (\A f \in DOMAIN args : Args(post_req(object))[f] = args[f]) =>
                  Expected(Sees(Send(with("create"), post_req(object), 201, "any"), args))
             /\ \A code \in CrewCodes :
                  Expected(Send(failing(code), post_req(object), status_for(code), code))
  <2>1. Taken(post_req(object), "create") /\ Sound(post_req(object)) /\ "create" \in TaskOps
    BY <1>1, Taking, Reading DEF TaskOps
  <2>2. QED BY <2>1, Served
<1>2. ASSUME NEW req, Taken(req, "create"), ~Sound(req)
      PROVE  /\ Expected(Send(new, req, 400, "validation"))
             /\ Expected(Untouched(Send(new, req, 400, "validation")))
  BY <1>2, Refused
<1>3. ASSUME NEW object, DOMAIN object \subseteq CreateFields, NEW f \in DOMAIN object
      PROVE  Args(post_req(object))[f] = object[f]
  BY <1>3, Passing
<1>4. CreatedFrom(TreeService) BY BodiesRead DEF TreeService
<1>5. CreatedFrom(WholeRequest) /\ \A f \in DOMAIN WholeRequest : Args(post_req(WholeRequest))[f] = WholeRequest[f]
  BY <1>3, BodiesRead
<1>6. CreatedFrom(Spaced) /\ \A f \in DOMAIN Spaced : Args(post_req(Spaced))[f] = Spaced[f]
  <2>1. CreatedFrom(Spaced) /\ DOMAIN Spaced \subseteq CreateFields
    BY BodiesRead, CreateFieldsAre DEF Spaced
  <2>2. QED BY <1>3, <2>1
<1>7. CreatedFrom(Milk) /\ LET args == [agent_eligible |-> Bool(TRUE)] IN
        \A f \in DOMAIN args : Args(post_req(Milk))[f] = args[f]
  <2>1. CreatedFrom(Milk) /\ DOMAIN Milk = {"title", "origin"} BY BodiesRead DEF Milk
  <2>2. CreateDefaults["agent_eligible"] = Bool(TRUE) BY DEF CreateDefaults
  <2>3. Args(post_req(Milk))["agent_eligible"] = Bool(TRUE)
    BY <2>1, <2>2, Passing, CreateFieldsAre
  <2>4. [agent_eligible |-> Bool(TRUE)]["agent_eligible"] = Bool(TRUE)
        /\ DOMAIN [agent_eligible |-> Bool(TRUE)] = {"agent_eligible"}
    OBVIOUS
  <2>5. QED BY <2>1, <2>3, <2>4
<1>8. Taken(post_req_raw, "create") /\ ~Sound(post_req_raw) BY Taking, Reading
<1>9. Taken(post_req(NoOrigin), "create") /\ ~Sound(post_req(NoOrigin))
  BY Taking, Reading, BodiesRead
<1>10. CreatedFrom(ChildOf(5)) /\ CreatedFrom(ChildOf(2)) BY BodiesRead
<1>11. /\ Expected(Send(with("create"), post_req(TreeService), 201, "configured"))
       /\ Expected(Sees(Send(with("create"), post_req(WholeRequest), 201, "any"), WholeRequest))
       /\ Expected(Sees(Send(with("create"), post_req(Spaced), 201, "any"), Spaced))
  BY <1>1, <1>4, <1>5, <1>6
<1>12. Expected(Sees(Send(with("create"), post_req(Milk), 201, "any"),
                     [agent_eligible |-> Bool(TRUE)]))
  BY <1>1, <1>7
<1>13. /\ Expected(Untouched(Send(new, post_req_raw, 400, "validation")))
       /\ Expected(Send(new, post_req(NoOrigin), 400, "validation"))
  BY <1>2, <1>8, <1>9
<1>14. /\ Expected(Send(failing("not_found"), post_req(ChildOf(5)), 404, "not_found"))
       /\ Expected(Send(failing("validation"), post_req(ChildOf(2)), 400, "validation"))
  BY <1>1, <1>10, ErrorStatuses
<1>15. QED BY <1>11, <1>12, <1>13, <1>14 DEF CreateTests


LEMMA GetTestsPass ==
  ASSUME {1, 6} \subseteq MinId..MaxId
  PROVE  \A t \in GetTests : Expected(t)
<1> DEFINE req(id) == get_req(TaskPath, id, <<>>)
<1>1. \A id : Taken(req(id), "get") /\ (Sound(req(id)) <=> IsTaskId(id)) BY Taking, Reading
<1>2. \A n \in {1, 6} : IsTaskId(Int_(n)) /\ Args(req(Int_(n))) = [id |-> n]
  BY Passing DEF IsTaskId, Int_
<1>3. ~IsTaskId(Text("abc")) BY DEF IsTaskId, Text
<1>4. "get" \in TaskOps BY DEF TaskOps
<1> HIDE DEF req
<1>5. ASSUME NEW n \in {1, 6}
      PROVE  /\ Expected(Send(with("get"), req(Int_(n)), 200, "configured"))
             /\ Expected(Sees(Send(with("get"), req(Int_(n)), 200, "any"), [id |-> n]))
             /\ Expected(Send(failing("not_found"), req(Int_(n)), 404, "not_found"))
  <2>1. Taken(req(Int_(n)), "get") /\ Sound(req(Int_(n))) BY <1>1, <1>2
  <2>2. /\ Expected(Send(with("get"), req(Int_(n)), 200, "configured"))
        /\ \A args : (\A f \in DOMAIN args : Args(req(Int_(n)))[f] = args[f]) =>
             Expected(Sees(Send(with("get"), req(Int_(n)), 200, "any"), args))
        /\ \A code \in CrewCodes : Expected(Send(failing(code), req(Int_(n)), status_for(code), code))
    BY <1>4, <2>1, Served
  <2>3. Expected(Sees(Send(with("get"), req(Int_(n)), 200, "any"), [id |-> n]))
    BY <1>2, <2>2
  <2>4. QED BY <2>2, <2>3, ErrorStatuses
<1>6. Expected(Untouched(Send(new, req(Text("abc")), 400, "validation")))
  BY <1>1, <1>3, Refused
<1>7. QED BY <1>5, <1>6 DEF GetTests, req

LEMMA ListTestsPass == \A t \in ListTests : Expected(t)
<1> DEFINE req(query) == get_req("/tasks", Null, query)
<1>1. ASSUME NEW query
      PROVE  /\ Taken(req(query), "list") /\ (Sound(req(query)) <=> ListReadable(query))
             /\ Args(req(query)) = ListQuery(query)
  BY Taking, Reading, Passing
<1>2. "list" \in TaskOps BY DEF TaskOps
<1> HIDE DEF req
<1>3. ASSUME NEW query, ListReadable(query)
      PROVE  /\ Expected(Send(with("list"), req(query), 200, "configured"))
             /\ \A args : (\A f \in DOMAIN args : ListQuery(query)[f] = args[f]) =>
                  Expected(Sees(Send(with("list"), req(query), 200, "any"), args))
             /\ \A code \in CrewCodes : Expected(Send(failing(code), req(query), status_for(code), code))
  BY <1>1, <1>2, <1>3, Served
<1>4. ASSUME NEW query, ~ListReadable(query), NEW repo
      PROVE  Expected(Untouched(Send(repo, req(query), 400, "validation")))
  BY <1>1, <1>4, Refused
<1> DEFINE q1 == << <<"queue", "agent">> >>
           q2 == << <<"status", "handed_off">>, <<"all", "true">> >>
<1>5. /\ Expected(Send(with("list"), req(<<>>), 200, "configured"))
      /\ Expected(Sees(Send(with("list"), req(<<>>), 200, "any"), ListDefaults))
      /\ Expected(Send(failing("storage"), req(<<>>), 503, "storage"))
  BY <1>3, QueriesRead, ErrorStatuses
<1>6. /\ Expected(Send(with("list"), req(q1), 200, "configured"))
      /\ Expected(Sees(Send(with("list"), req(q1), 200, "any"), [queue |-> "agent"]))
  <2>1. \A f \in DOMAIN [queue |-> "agent"] : ListQuery(q1)[f] = [queue |-> "agent"][f]
    BY QueriesRead
  <2>2. ListReadable(q1) BY QueriesRead
  <2> HIDE DEF q1
  <2>3. QED BY <1>3, <2>1, <2>2
<1>7. Expected(Sees(Send(with("list"), req(q2), 200, "any"),
                    [status |-> "handed_off", all |-> "true"]))
  <2> DEFINE args == [status |-> "handed_off", all |-> "true"]
  <2>1. \A f \in DOMAIN args : ListQuery(q2)[f] = args[f] BY QueriesRead
  <2>2. ListReadable(q2) BY QueriesRead
  <2> HIDE DEF q2, args
  <2>3. Expected(Sees(Send(with("list"), req(q2), 200, "any"), args)) BY <1>3, <2>1, <2>2
  <2>4. QED BY <2>3 DEF args
<1>8. /\ Expected(Untouched(Send(new, req(<< <<"queue", "bogus">> >>), 400, "validation")))
      /\ Expected(Untouched(Send(with("list"), req(<< <<"queeue", "agent">> >>), 400, "validation")))
  BY <1>4, QueriesRead
<1>9. QED BY <1>5, <1>6, <1>7, <1>8 DEF ListTests, req, q1, q2


LEMMA DeleteTestsPass ==
  ASSUME {1, 6} \subseteq MinId..MaxId
  PROVE  \A t \in DeleteTests : Expected(t)
<1> DEFINE req(n, query) == delete_req(TaskPath, Int_(n), query)
<1>1. ASSUME NEW n \in {1, 6}, NEW query
      PROVE  /\ Taken(req(n, query), "delete") /\ (Sound(req(n, query)) <=> DeleteReadable(query))
             /\ Args(req(n, query)) = [id |-> n, force |-> DeleteQuery(query).force]
  <2>1. IsTaskId(Int_(n)) BY DEF IsTaskId, Int_
  <2>2. QED BY <2>1, Taking, Reading, Passing
<1>2. "delete" \in TaskOps BY DEF TaskOps
<1> HIDE DEF req
<1>3. ASSUME NEW n \in {1, 6}, NEW query, DeleteReadable(query)
      PROVE  /\ Expected(Send(with("delete"), req(n, query), 200, "configured"))
             /\ Expected(Sees(Send(with("delete"), req(n, query), 200, "any"),
                              [id |-> n, force |-> DeleteQuery(query).force]))
             /\ \A code \in CrewCodes :
                  Expected(Send(failing(code), req(n, query), status_for(code), code))
  <2> DEFINE args == [id |-> n, force |-> DeleteQuery(query).force]
  <2>1. Args(req(n, query)) = args BY <1>1
  <2> HIDE DEF args
  <2>2. Expected(Sees(Send(with("delete"), req(n, query), 200, "any"), args))
    BY <1>1, <1>2, <1>3, <2>1, Served
  <2>3. /\ Expected(Send(with("delete"), req(n, query), 200, "configured"))
        /\ \A code \in CrewCodes :
             Expected(Send(failing(code), req(n, query), status_for(code), code))
    BY <1>1, <1>2, <1>3, Served
  <2>4. QED BY <2>2, <2>3 DEF args
<1> DEFINE forced == << <<"force", "true">> >>
<1>4. /\ DeleteReadable(<<>>) /\ DeleteQuery(<<>>).force = "false"
      /\ DeleteReadable(forced) /\ DeleteQuery(forced).force = "true"
  BY QueriesRead
<1> HIDE DEF forced
<1>5. /\ Expected(Send(with("delete"), req(1, forced), 200, "configured"))
      /\ Expected(Sees(Send(with("delete"), req(1, forced), 200, "any"), [id |-> 1, force |-> "true"]))
  BY <1>3, <1>4
<1>6. /\ Expected(Sees(Send(with("delete"), req(1, <<>>), 200, "any"), [id |-> 1, force |-> "false"]))
      /\ Expected(Send(failing("validation"), req(1, <<>>), 400, "validation"))
      /\ Expected(Send(failing("not_found"), req(6, <<>>), 404, "not_found"))
  <2>1. Expected(Sees(Send(with("delete"), req(1, <<>>), 200, "any"), [id |-> 1, force |-> "false"]))
    BY <1>3, <1>4
  <2>2. \A n \in {1, 6} : \A code \in CrewCodes :
          Expected(Send(failing(code), req(n, <<>>), status_for(code), code))
    BY <1>3, <1>4
  <2>3. Expected(Send(failing("validation"), req(1, <<>>), status_for("validation"), "validation"))
    BY <2>2, ErrorStatuses
  <2>4. Expected(Send(failing("not_found"), req(6, <<>>), status_for("not_found"), "not_found"))
    BY <2>2, ErrorStatuses
  <2>5. QED BY <2>1, <2>3, <2>4, ErrorStatuses
<1>7. Expected(Untouched(Send(with("delete"), req(1, << <<"forse", "true">> >>), 400, "validation")))
  BY <1>1, QueriesRead, Refused
<1>8. QED BY <1>5, <1>6, <1>7 DEF DeleteTests, req, forced

LEMMA RoutingTestsPass == \A t \in RoutingTests : Expected(t)
<1>1. ASSUME NEW repo, NEW req, Matching(req) = {}, NEW status,
             status = IF \E e \in Routes : e.path = req.path THEN 405 ELSE 404
      PROVE  Expected(Send(repo, req, status, "any"))
  BY <1>1, ExpectedOf DEF Answer
<1>2. /\ get_req("/other", Null, <<>>).path = "/other" /\ put_req("/tasks").path = "/tasks"
      /\ delete_req("/tasks", Null, <<>>).path = "/tasks"
  BY DEF get_req, put_req, delete_req, Request_
<1>3. Expected(Send(new, get_req("/other", Null, <<>>), 404, "any")) BY <1>1, <1>2, NotTaking
<1>4. Expected(Send(new, put_req("/tasks"), 405, "any")) BY <1>1, <1>2, NotTaking
<1>5. Expected(Send(new, delete_req("/tasks", Null, <<>>), 405, "any")) BY <1>1, <1>2, NotTaking
<1>6. QED BY <1>3, <1>4, <1>5 DEF RoutingTests

LEMMA HealthTestsPass == \A t \in HealthTests : Expected(t)
<1> DEFINE req == get_req("/health", Null, <<>>)
           status == 200
<1>1. \A repo : Answer(repo, req).status = status /\ Answer(repo, req).body = Found(repo, "health")
  BY Taking, Reading DEF Taken, Answer
<1>2. Found(new, "health") = "default" /\ Found(with("health"), "health") = "configured"
  BY DEF Found, new, with
<1> HIDE DEF req, status
<1>3. /\ Expected(Send(new, req, status, "default"))
      /\ Expected(Send(with("health"), req, status, "configured"))
  BY <1>1, <1>2, ExpectedOf
<1>4. QED BY <1>3 DEF HealthTests, req, status

\* The ids of the tests.
TestIds == {1, 2, 5, 6}

LEMMA AllExpected ==
  ASSUME TestIds \subseteq MinId..MaxId
  PROVE  \A t \in Tests : Expected(t)
<1>1. {1, 2, 5} \subseteq MinId..MaxId /\ {1, 6} \subseteq MinId..MaxId BY DEF TestIds
<1>2. QED
  BY <1>1, CreateTestsPass, GetTestsPass, ListTestsPass, DeleteTestsPass, RoutingTestsPass,
     HealthTestsPass
  DEF Tests

LEMMA RowsRight ==
  /\ \A row \in StatusRows : status_for(row[1]) = row[2]
  /\ \A row \in ExitRows : exit_code(row[1]) = row[2]
BY DEF StatusRows, ExitRows, status_for, exit_code

\* An answered test has the answer it asserts.
LEMMA PassFromInv ==
  ASSUME TestIds \subseteq MinId..MaxId, TestInv
  PROVE  TestsPass
<1> SUFFICES ASSUME NEW t \in Tests, test = {t}, Runs(t), NEW c \in Client, Done(c)
             PROVE  /\ response[c].status = t.status
                    /\ t.body # "any" => response[c].body = t.body
                    /\ t.touched = "no" => calls = <<>>
                    /\ t.touched = "yes" =>
                         \E i \in DOMAIN calls : \A f \in DOMAIN t.args :
                           calls[i].args[f] = t.args[f]
  BY RowsRight DEF TestInv, TestsPass
<1>1. Expected(t) BY AllExpected
<1>2. response[c] = Answer(t.repo, t.request) /\ calls = Recorded(c, t.request) BY DEF Runs, Done
<1>3. t.touched = "no" => calls = <<>> BY <1>1, <1>2 DEF Expected, Recorded
<1>4. ASSUME t.touched = "yes"
      PROVE  \E i \in DOMAIN calls : \A f \in DOMAIN t.args : calls[i].args[f] = t.args[f]
  <2>1. calls = <<[client |-> c, op |-> Handler(t.request), args |-> Args(t.request)]>>
    BY <1>1, <1>2, <1>4 DEF Expected, Recorded
  <2>2. 1 \in DOMAIN calls /\ calls[1].args = Args(t.request) BY <2>1
  <2>3. QED BY <1>1, <1>4, <2>2 DEF Expected
<1>5. QED BY <1>1, <1>2, <1>3, <1>4 DEF Expected

\* routes/tasks.rs:53, routes/health.rs:25, error.rs:56: whatever a test
\* asserts of status, error code, answer and recorded calls is so, whichever
\* client sends it and whatever else clients may send, when the ids of the
\* tests are task ids, as they are for the i64 of the code.
THEOREM TestsHold ==
  ASSUME TestIds \subseteq MinId..MaxId
  PROVE  SpecRoutes => []TestsPass
<1>1. InitRoutes => IInv /\ TestInv
  <2>1. ASSUME NEW t \in Tests, InitTest(t), test = {t} PROVE TestInv
    BY <2>1 DEF TestInv, InitTest, Runs, Underway
  <2>2. ASSUME test = {} PROVE TestInv BY <2>2 DEF TestInv
  <2>3. QED BY <2>1, <2>2, InitIInv, InitTestIInv DEF InitRoutes
<1>2. IInv /\ TestInv /\ [NextRoutes]_testVars => (IInv /\ TestInv)'
  BY Step, TestStep DEF NextRoutes, testVars
<1>3. TestInv => TestsPass BY PassFromInv
<1>4. QED BY <1>1, <1>2, <1>3, PTL DEF SpecRoutes

=============================================================================
