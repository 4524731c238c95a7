---------------------------- MODULE MCHttpApi ----------------------------
(***************************************************************************)
(* Two requests in progress at once: every path with every method, and for *)
(* every route what its extractors take or refuse; or one of the tests.    *)
(***************************************************************************)
EXTENDS RouteTests, TLC

CONSTANTS c1, c2
Clients  == {c1, c2}
Symmetry == Permutations(Clients)

Body(object) == [json |-> TRUE, object |-> object]

Req(path, method, id, query, body) ==
  [path |-> path, method |-> method, id |-> id, query |-> query, body |-> body]

Routed ==
  {Req(path, method, Int_(1), <<>>, IF method = "POST" THEN Body(Milk) ELSE NoBody) :
     path \in Paths, method \in Methods}

\* TaskId has four bits here.
MinSmallId == -8
BadIds == {Req("/tasks/{id}", m, id, <<>>, NoBody) :
             m \in {"GET", "DELETE"}, id \in {Text("abc"), Int_(8), Int_(-8)}}

Queries ==
  {Req("/tasks", m, Null, q, NoBody) :
     m \in {"GET", "HEAD"},
     q \in {<< <<"queue", "agent">> >>, << <<"queeue", "agent">> >>,
            << <<"status", "handed_off">>, <<"all", "true">> >>, << <<"all", "yes">> >>,
            << <<"queue", "agent">>, <<"queue", "human">> >>,
            << <<"queue", "agent">>, <<"queue", "agent">> >>}}
  \cup {Req("/tasks/{id}", m, Int_(1), q, NoBody) :
     m \in {"GET", "DELETE"},
     q \in {<< <<"force", "true">> >>, << <<"forse", "true">> >>,
            << <<"force", "true">>, <<"force", "true">> >>}}

SpoiltBodies ==
  {Req("/tasks", "POST", Null, <<>>, b) :
     b \in {NoBody, Body(NoOrigin),
            Body(Milk @@ [parent_id |-> Int_(8)]), Body(Milk @@ [parent_id |-> Int_(-8)]),
            Body(Milk @@ [agent_eligible |-> Null]), Body(Milk @@ [description |-> Null]),
            Body(Milk @@ [agent_eligible |-> Bool(FALSE), unknown |-> Null])}}

AllRequests ==
  Routed \cup BadIds \cup Queries \cup SpoiltBodies \cup {t.request : t \in Tests}
==========================================================================
