---------------------------- MODULE HttpApiProofs ----------------------------
(***************************************************************************)
(* Why only sound requests reach the repo, as they were sent, for any      *)
(* number of clients, any requests they may send and either repo.          *)
(***************************************************************************)
EXTENDS HttpApi, TLAPS

-----------------------------------------------------------------------------
(* The route table.                                                        *)

\* What the router makes of a request, route by route.
LEMMA Routing ==
  ASSUME NEW r, r.path \in Paths, r.method \in Methods
  PROVE  /\ Matching(r) # {} =>
              /\ Handler(r) \in Ops
              /\ Handler(r) = "health" <=> r.path = "/health"
              /\ Handler(r) = "create" <=> r.path = "/tasks" /\ r.method = "POST"
              /\ Handler(r) = "list" <=> r.path = "/tasks" /\ r.method \in {"GET", "HEAD"}
              /\ Handler(r) = "get" <=> r.path = "/tasks/{id}" /\ r.method \in {"GET", "HEAD"}
              /\ Handler(r) = "delete" <=> r.path = "/tasks/{id}" /\ r.method = "DELETE"
         /\ Matching(r) # {} <=>
              \/ r.path = "/health" /\ r.method \in {"GET", "HEAD"}
              \/ r.path = "/tasks" /\ r.method \in {"POST", "GET", "HEAD"}
              \/ r.path = "/tasks/{id}" /\ r.method \in {"GET", "HEAD", "DELETE"}
<1> DEFINE m == IF r.method = "HEAD" THEN "GET" ELSE r.method
<1>1. Matching(r) = {e \in Routes : e.path = r.path /\ e.method = m} BY DEF Matching
<1>2. \A e : e \in Routes <=>
        \/ e = Route("/health", "GET", "health")
        \/ e = Route("/tasks", "POST", "create")
        \/ e = Route("/tasks", "GET", "list")
        \/ e = Route("/tasks/{id}", "GET", "get")
        \/ e = Route("/tasks/{id}", "DELETE", "delete")
  BY DEF Routes
<1>3. Matching(r) # {} => Handler(r) \in {e.handler : e \in Matching(r)}
  BY DEF Handler
<1>4. ASSUME NEW e \in Matching(r) PROVE
        \/ e.handler = "health" /\ r.path = "/health" /\ m = "GET"
        \/ e.handler = "create" /\ r.path = "/tasks" /\ m = "POST"
        \/ e.handler = "list" /\ r.path = "/tasks" /\ m = "GET"
        \/ e.handler = "get" /\ r.path = "/tasks/{id}" /\ m = "GET"
        \/ e.handler = "delete" /\ r.path = "/tasks/{id}" /\ m = "DELETE"
  <2>1. e \in Routes /\ e.path = r.path /\ e.method = m BY <1>1, <1>4
  <2> HIDE DEF m
  <2>2. CASE e = Route("/health", "GET", "health") BY <2>1, <2>2 DEF Route
  <2>3. CASE e = Route("/tasks", "POST", "create") BY <2>1, <2>3 DEF Route
  <2>4. CASE e = Route("/tasks", "GET", "list") BY <2>1, <2>4 DEF Route
  <2>5. CASE e = Route("/tasks/{id}", "GET", "get") BY <2>1, <2>5 DEF Route
  <2>6. CASE e = Route("/tasks/{id}", "DELETE", "delete") BY <2>1, <2>6 DEF Route
  <2>7. QED BY <1>2, <2>1, <2>2, <2>3, <2>4, <2>5, <2>6
<1>5. Matching(r) # {} <=>
        \/ r.path = "/health" /\ m = "GET"
        \/ r.path = "/tasks" /\ m \in {"POST", "GET"}
        \/ r.path = "/tasks/{id}" /\ m \in {"GET", "DELETE"}
  <2>1. ASSUME NEW p, NEW q, NEW h, Route(p, q, h) \in Routes, r.path = p, m = q
        PROVE  Route(p, q, h) \in Matching(r)
    BY <1>1, <2>1 DEF Route
  <2>2. QED BY <1>2, <1>4, <2>1
<1>6. QED BY <1>3, <1>4, <1>5 DEF Paths, Methods, Ops, TaskOps

-----------------------------------------------------------------------------
(* The invariant.                                                          *)

Sound(r)   == \A part \in Extracts(Handler(r)) : PartReadable(r, part)
Reaches(r) == Matching(r) # {} /\ Sound(r) /\ Handler(r) \in TaskOps

Entries == {Entry(c) : c \in Client}

Progress ==
  \A c \in Client :
    /\ stage[c] \in {"extract", "call"} => Matching(request[c]) # {}
    /\ stage[c] = "call" => Sound(request[c])

\* The log holds, once each, the requests that are answered and reach the
\* repo, as they were sent.
Log ==
  /\ calls \in Seq(Entries)
  /\ \A c \in Client : c \in Callers <=> stage[c] = "done" /\ Reaches(request[c])

\* An error in a response has the status of its code.
Statuses ==
  \A c \in Client : response[c].body \in CrewCodes
    => response[c].status = status_for(response[c].body)

IInv == TypeOK /\ Progress /\ Log /\ Statuses /\ ErrorHitsFirstCall

LEMMA StatusRange ==
  /\ \A code \in CrewCodes : status_for(code) \in 0..599
  /\ CrewCodes \subseteq Bodies /\ CrewCodes \cap (Values \cup {"none"}) = {}
BY DEF CrewCodes, status_for, Bodies, Values

\* The request of c is answered with a status and a body that agree, and no
\* other request is touched.
Ended(c) ==
  /\ stage' \in [Client -> {"dispatch", "extract", "call", "done"}]
  /\ stage'[c] = "done" /\ \A d \in Client \ {c} : stage'[d] = stage[d]
  /\ response' \in [Client -> [status : 0..599, body : Bodies]]
  /\ \A d \in Client \ {c} : response'[d] = response[d]
  /\ Statuses'

Agree(status, body) ==
  /\ status \in 0..599 /\ body \in Bodies
  /\ body \in CrewCodes => status = status_for(body)

LEMMA Replied ==
  ASSUME TypeOK, Statuses, NEW c \in Client, NEW status, NEW body,
         Agree(status, body), Reply(c, status, body)
  PROVE  Ended(c) /\ response'[c] = Response(c, status, body)
<1> DEFINE new == Response(c, status, body)
<1>0. new = [status |-> status, body |-> IF request[c].method = "HEAD" THEN "none" ELSE body]
  BY DEF Response
<1>1. "none" \in Bodies /\ "none" \notin CrewCodes BY DEF Bodies, CrewCodes
<1>2. new \in [status : 0..599, body : Bodies] BY <1>0, <1>1 DEF Agree
<1>3. response' = [response EXCEPT ![c] = new] BY DEF Reply
<1>4. stage' = [stage EXCEPT ![c] = "done"] BY DEF Reply
<1>5. new.body \in CrewCodes => new.status = status_for(new.body) BY <1>0, <1>1 DEF Agree
<1> HIDE DEF new
<1>7. response' \in [Client -> [status : 0..599, body : Bodies]] /\ response'[c] = new
      /\ \A d \in Client \ {c} : response'[d] = response[d]
  BY <1>2, <1>3 DEF TypeOK
<1>8. Statuses'
  <2> SUFFICES ASSUME NEW d \in Client, response'[d].body \in CrewCodes
               PROVE  response'[d].status = status_for(response'[d].body)
    BY DEF Statuses
  <2>1. CASE d = c BY <1>5, <1>7, <2>1
  <2>2. CASE d # c BY <1>7, <2>2 DEF Statuses
  <2>3. QED BY <2>1, <2>2
<1>9. stage' \in [Client -> {"dispatch", "extract", "call", "done"}]
      /\ stage'[c] = "done" /\ \A d \in Client \ {c} : stage'[d] = stage[d]
  BY <1>4 DEF TypeOK
<1>10. QED BY <1>7, <1>8, <1>9 DEF Ended, new

LEMMA Failed ==
  ASSUME TypeOK, Statuses, NEW c \in Client, NEW code \in CrewCodes, Fail(c, code)
  PROVE  Ended(c) /\ response'[c] = Response(c, status_for(code), code)
<1>1. Agree(status_for(code), code) BY StatusRange DEF Agree
<1>2. Reply(c, status_for(code), code) BY DEF Fail
<1>3. QED BY <1>1, <1>2, Replied

-----------------------------------------------------------------------------
(* The steps.                                                              *)

\* What ErrorHitsFirstCall says of the log stays so while the log does.
LEMMA FirstCallOnly ==
  ASSUME ErrorHitsFirstCall, UNCHANGED <<request, kind, configured, told, error, calls>>,
         calls \in Seq(Entries),
         \A i \in DOMAIN calls : response'[calls[i].client] = response[calls[i].client]
  PROVE  ErrorHitsFirstCall'
<1>1. request' = request /\ kind' = kind /\ configured' = configured
      /\ told' = told /\ error' = error /\ calls' = calls
  OBVIOUS
<1>2. DOMAIN calls = 1..Len(calls) /\ Len(calls) \in Nat OBVIOUS
<1>3. calls # <<>> => 1 \in DOMAIN calls BY <1>2
<1>4. \A i \in 2..Len(calls) : i \in DOMAIN calls BY <1>2
<1>5. SUFFICES ASSUME kind = "fake", told # "none", calls # <<>>
               PROVE  /\ error = "none"
                      /\ response'[calls[1].client] = Response(calls[1].client, status_for(told), told)
                      /\ \A i \in 2..Len(calls) : AnsweredFreely(calls[i])'
  BY <1>1 DEF ErrorHitsFirstCall, Response, AnsweredFreely
<1>6. /\ error = "none"
      /\ response[calls[1].client] = Response(calls[1].client, status_for(told), told)
      /\ \A i \in 2..Len(calls) : AnsweredFreely(calls[i])
  BY <1>5 DEF ErrorHitsFirstCall
<1>7. ASSUME NEW i \in 2..Len(calls) PROVE AnsweredFreely(calls[i])'
  <2>1. AnsweredFreely(calls[i]) BY <1>6
  <2>2. response'[calls[i].client] = response[calls[i].client] BY <1>4
  <2>3. calls'[i] = calls[i] /\ configured' = configured BY <1>1
  <2>4. QED BY <2>1, <2>2, <2>3 DEF AnsweredFreely
<1>8. QED BY <1>3, <1>5, <1>6, <1>7

\* A step that answers no request.
LEMMA NotAnswered ==
  ASSUME IInv, UNCHANGED <<request, response, kind, configured, told, error, calls>>,
         stage' \in [Client -> {"dispatch", "extract", "call", "done"}],
         \A c \in Client : stage'[c] = "done" <=> stage[c] = "done",
         Progress'
  PROVE  IInv'
<1>1. TypeOK' BY DEF IInv, TypeOK
<1>2. Entries' = Entries /\ Callers' = Callers BY DEF Entries, Entry, Callers
<1>3. Log' BY <1>2 DEF IInv, Log
<1>4. Statuses' BY DEF IInv, Statuses
<1>5. ErrorHitsFirstCall' BY FirstCallOnly DEF IInv, Log
<1>6. QED BY <1>1, <1>3, <1>4, <1>5 DEF IInv

\* A request that is answered without the repo.
LEMMA AnsweredOutside ==
  ASSUME IInv, NEW c \in Client, stage[c] # "done", ~Reaches(request[c]),
         UNCHANGED <<request, kind, configured, told, error, calls>>,
         Ended(c)
  PROVE  IInv'
<1> USE DEF IInv, Ended
<1>1. TypeOK' BY DEF TypeOK
<1>2. Progress' BY DEF Progress, Sound
<1>3. Callers' = Callers /\ Entries' = Entries BY DEF Callers, Entries, Entry
<1>4. Log' BY <1>3 DEF Log
<1>5. ErrorHitsFirstCall'
  <2>1. c \notin Callers BY DEF Log
  <2>2. \A i \in DOMAIN calls : calls[i].client \in Client \ {c}
    BY <2>1 DEF Callers, TypeOK
  <2>3. \A i \in DOMAIN calls : response'[calls[i].client] = response[calls[i].client]
    BY <2>2
  <2>4. calls \in Seq(Entries) BY DEF Log
  <2>5. QED BY <2>3, <2>4, FirstCallOnly
<1>6. QED BY <1>1, <1>2, <1>4, <1>5

\* A request that is logged.
LEMMA Logged ==
  ASSUME TypeOK, Progress, Log, NEW c \in Client, Call(c)
  PROVE  /\ calls' \in Seq(Entries) /\ Len(calls') = Len(calls) + 1 /\ Len(calls) \in Nat
         /\ \A i \in 1..Len(calls) : calls'[i] = calls[i]
         /\ calls'[Len(calls) + 1] = Entry(c) /\ Entry(c).client = c
         /\ Callers' = Callers \cup {c} /\ c \notin Callers
         /\ Reaches(request[c]) /\ Entries' = Entries
<1>1. calls' = Append(calls, Entry(c)) /\ calls \in Seq(Entries) /\ Entry(c) \in Entries
  BY DEF Call, Log, Entries
<1>2. /\ calls' \in Seq(Entries) /\ Len(calls') = Len(calls) + 1 /\ Len(calls) \in Nat
      /\ \A i \in 1..Len(calls) : calls'[i] = calls[i]
      /\ calls'[Len(calls) + 1] = Entry(c)
  BY <1>1
<1>3. Entry(c).client = c BY DEF Entry
<1>4. DOMAIN calls = 1..Len(calls) /\ DOMAIN calls' = 1..(Len(calls) + 1) BY <1>1, <1>2
<1>5. Callers' = Callers \cup {c} BY <1>2, <1>3, <1>4 DEF Callers
<1>6. c \notin Callers BY DEF Log, Call
<1>7. Reaches(request[c]) BY DEF Call, Progress, Reaches
<1>8. Entries' = Entries BY DEF Call, Entries, Entry
<1>9. QED BY <1>2, <1>3, <1>5, <1>6, <1>7, <1>8

\* A request that the repo answers: with the error the fake holds, if it
\* holds one, and holds no longer.
LEMMA AnsweredByRepo ==
  ASSUME IInv, NEW c \in Client, Call(c),
         Ended(c), error' \in {error, "none"},
         kind = "fake" => error' = "none",
         kind = "fake" /\ error # "none" => response'[c] = Response(c, status_for(error), error),
         kind = "fake" /\ error = "none" => AnsweredFreely(Entry(c))'
  PROVE  IInv'
<1> USE DEF IInv, Ended
<1>1. /\ calls' \in Seq(Entries) /\ Len(calls') = Len(calls) + 1 /\ Len(calls) \in Nat
      /\ \A i \in 1..Len(calls) : calls'[i] = calls[i]
      /\ calls'[Len(calls) + 1] = Entry(c) /\ Entry(c).client = c
      /\ Callers' = Callers \cup {c} /\ c \notin Callers
      /\ Reaches(request[c]) /\ Entries' = Entries
  BY Logged
<1>2. UNCHANGED <<request, kind, configured, told>> BY DEF Call
<1>3. DOMAIN calls = 1..Len(calls) /\ DOMAIN calls' = 1..(Len(calls) + 1)
  BY <1>1 DEF Log
<1>4. \A i \in 1..Len(calls) : calls[i].client \in Client \ {c}
  BY <1>1, <1>3 DEF Callers, TypeOK
<1>5. TypeOK'
  <2>1. \A i \in DOMAIN calls' : calls'[i].client \in Client BY <1>1, <1>3, <1>4
  <2>2. \A i, j \in DOMAIN calls' : calls'[i].client = calls'[j].client => i = j
    BY <1>1, <1>3, <1>4 DEF TypeOK
  <2>3. QED BY <1>2, <2>1, <2>2 DEF TypeOK
<1>6. Progress' BY <1>2 DEF Progress, Sound
<1>7. Log' BY <1>1, <1>2 DEF Log
<1>8. ErrorHitsFirstCall'
  <2>1. SUFFICES ASSUME kind = "fake", told # "none"
                 PROVE  /\ response'[calls'[1].client]
                             = Response(calls'[1].client, status_for(told), told)
                        /\ \A i \in 2..Len(calls') : AnsweredFreely(calls[i])'
    <3>1. calls' # <<>> BY <1>1
    <3>2. told' = told /\ kind' = kind /\ request' = request BY <1>2
    <3>3. kind = "fake" => error' = "none" OBVIOUS
    <3> HIDE DEF IInv, Ended
    <3>4. QED BY <3>1, <3>2, <3>3 DEF ErrorHitsFirstCall, Response, AnsweredFreely
  <2>2. CASE calls = <<>>
    <3>1. Len(calls) = 0 /\ calls'[1] = Entry(c) /\ Len(calls') = 1 BY <1>1, <2>2
    <3>2. error = told BY <2>1, <2>2 DEF ErrorHitsFirstCall
    <3>3. response'[c] = Response(c, status_for(told), told) BY <2>1, <3>2
    <3>4. QED BY <1>1, <3>1, <3>3
  <2>3. CASE calls # <<>>
    <3>1. /\ error = "none"
          /\ response[calls[1].client] = Response(calls[1].client, status_for(told), told)
          /\ \A i \in 2..Len(calls) : AnsweredFreely(calls[i])
      BY <2>1, <2>3 DEF ErrorHitsFirstCall
    <3>2. Len(calls) >= 1 BY <2>3, <1>1 DEF Log
    <3>3. 1 \in 1..Len(calls) BY <1>1, <3>2
    <3>4. calls'[1] = calls[1] /\ calls[1].client \in Client \ {c} BY <1>1, <1>4, <3>3
    <3>5. response'[calls[1].client] = response[calls[1].client] BY <3>4
    <3>6. ASSUME NEW i \in 2..Len(calls') PROVE AnsweredFreely(calls[i])'
      <4>1. i = Len(calls) + 1 \/ i \in 2..Len(calls) BY <1>1
      <4>2. CASE i = Len(calls) + 1
        <5>1. AnsweredFreely(Entry(c))' BY <2>1, <3>1
        <5>2. calls'[i] = Entry(c) /\ Entry(c)' = Entry(c) BY <1>1, <1>2, <4>2 DEF Entry
        <5>3. QED BY <5>1, <5>2 DEF AnsweredFreely
      <4>3. CASE i \in 2..Len(calls)
        <5>1. i \in 1..Len(calls) BY <1>1, <4>3
        <5>2. calls'[i] = calls[i] /\ calls[i].client \in Client \ {c} BY <1>1, <1>4, <5>1
        <5>3. response'[calls[i].client] = response[calls[i].client] BY <5>2
        <5>4. AnsweredFreely(calls[i]) BY <3>1, <4>3
        <5> HIDE DEF IInv, Ended
        <5>5. QED BY <1>2, <5>2, <5>3, <5>4 DEF AnsweredFreely
      <4>4. QED BY <4>1, <4>2, <4>3
    <3>7. QED BY <3>1, <3>4, <3>5, <3>6
  <2>4. QED BY <2>2, <2>3
<1>9. QED BY <1>5, <1>6, <1>7, <1>8

-----------------------------------------------------------------------------
LEMMA InitIInv == Init => IInv
<1> SUFFICES ASSUME Init PROVE IInv
    OBVIOUS
<1>1. calls = <<>> /\ DOMAIN calls = {} /\ Callers = {} BY DEF Init, Callers
<1>2. Pending \in [status : 0..599, body : Bodies] /\ Pending.body \notin CrewCodes
  BY DEF Pending, Bodies, CrewCodes
<1>3. TypeOK
  <2>1. /\ told \in CrewCodes \cup {"none"} /\ error \in {told, "none"}
        /\ kind \in {"store", "fake"} /\ configured \subseteq Ops
    BY DEF Init
  <2>2. response \in [Client -> [status : 0..599, body : Bodies]] BY <1>2 DEF Init
  <2>3. request \in [Client -> Requests]
        /\ stage \in [Client -> {"dispatch", "extract", "call", "done"}]
    BY DEF Init
  <2>4. QED BY <1>1, <2>1, <2>2, <2>3 DEF TypeOK
<1>4. Progress /\ Statuses BY <1>2 DEF Init, Progress, Statuses
<1>5. Log BY <1>1 DEF Init, Log
<1>6. ErrorHitsFirstCall BY <1>1 DEF Init, ErrorHitsFirstCall
<1>7. QED BY <1>3, <1>4, <1>5, <1>6 DEF IInv

LEMMA Step == IInv /\ [Next]_vars => IInv'
<1> SUFFICES ASSUME IInv, [Next]_vars PROVE IInv'
    OBVIOUS
<1>1. CASE UNCHANGED vars
  <2>1. UNCHANGED <<request, stage, response, kind, configured, told, error, calls>>
    BY <1>1 DEF vars
  <2>2. Progress' BY <2>1 DEF IInv, Progress, Sound
  <2>3. stage' \in [Client -> {"dispatch", "extract", "call", "done"}]
        /\ \A c \in Client : stage'[c] = "done" <=> stage[c] = "done"
    BY <2>1 DEF TypeOK, IInv
  <2>4. QED BY <2>1, <2>2, <2>3, NotAnswered
<1>2. /\ \A status \in {404, 405} : Agree(status, "none")
      /\ \A op : \A status \in {200, 201} : Agree(status, Value(op))
  BY DEF Agree, Value, Bodies, Values, CrewCodes
<1>. TypeOK /\ Statuses BY DEF IInv
<1>3. ASSUME NEW c \in Client, Dispatch(c) PROVE IInv'
  <2>1. CASE Matching(request[c]) # {}
    <3>1. /\ stage' = [stage EXCEPT ![c] = "extract"] /\ stage[c] = "dispatch"
          /\ UNCHANGED <<request, response, kind, configured, told, error, calls>>
      BY <1>3, <2>1 DEF Dispatch
    <3>2. Progress' BY <2>1, <3>1 DEF IInv, TypeOK, Progress, Sound
    <3>3. stage' \in [Client -> {"dispatch", "extract", "call", "done"}]
          /\ \A d \in Client : stage'[d] = "done" <=> stage[d] = "done"
      BY <3>1 DEF TypeOK
    <3>4. QED BY <3>1, <3>2, <3>3, NotAnswered
  <2>2. CASE Matching(request[c]) = {}
    <3>1. PICK status \in {404, 405} : Reply(c, status, "none") BY <1>3, <2>2 DEF Dispatch
    <3>2. Agree(status, "none") BY <1>2
    <3>3. Ended(c) BY <3>1, <3>2, Replied
    <3>4. ~Reaches(request[c]) BY <2>2 DEF Reaches
    <3>5. stage[c] # "done" /\ UNCHANGED <<request, kind, configured, told, error, calls>>
      BY <1>3 DEF Dispatch
    <3>6. QED BY <3>3, <3>4, <3>5, AnsweredOutside
  <2>3. QED BY <2>1, <2>2
<1>4. ASSUME NEW c \in Client, Extract(c) PROVE IInv'
  <2>1. stage[c] = "extract" /\ UNCHANGED <<request, kind, configured, told, error, calls>>
    BY <1>4 DEF Extract
  <2>2. CASE Sound(request[c])
    <3>1. stage' = [stage EXCEPT ![c] = "call"] /\ UNCHANGED response
      BY <1>4, <2>2 DEF Extract, Sound
    <3>2. Progress' BY <2>1, <2>2, <3>1 DEF IInv, TypeOK, Progress, Sound
    <3>3. stage' \in [Client -> {"dispatch", "extract", "call", "done"}]
          /\ \A d \in Client : stage'[d] = "done" <=> stage[d] = "done"
      BY <2>1, <3>1 DEF TypeOK
    <3>4. QED BY <2>1, <3>1, <3>2, <3>3, NotAnswered
  <2>3. CASE ~Sound(request[c])
    <3>1. Fail(c, "validation") /\ "validation" \in CrewCodes
      BY <1>4, <2>3 DEF Extract, Sound, CrewCodes
    <3>2. Ended(c) BY <3>1, Failed
    <3>3. ~Reaches(request[c]) /\ stage[c] # "done" BY <2>1, <2>3 DEF Reaches
    <3>4. QED BY <2>1, <3>2, <3>3, AnsweredOutside
  <2>4. QED BY <2>2, <2>3
<1>5. ASSUME NEW c \in Client, Health(c) PROVE IInv'
  <2>1. /\ stage[c] = "call" /\ Reply(c, 200, Value("health"))
        /\ UNCHANGED <<request, kind, configured, told, error, calls>>
    BY <1>5 DEF Health
  <2>2. Agree(200, Value("health")) BY <1>2
  <2>3. Ended(c) BY <2>1, <2>2, Replied
  <2>4. ~Reaches(request[c]) BY <1>5 DEF Health, Reaches, TaskOps
  <2>5. stage[c] # "done" BY <2>1
  <2>6. QED BY <2>1, <2>3, <2>4, <2>5, AnsweredOutside
<1>6. ASSUME NEW c \in Client, StoreRepo(c) PROVE IInv'
  <2>1. /\ Call(c) /\ kind = "store" /\ error' = error
        /\ Fail(c, "unimplemented") /\ "unimplemented" \in CrewCodes
    BY <1>6 DEF StoreRepo, CrewCodes
  <2>2. Ended(c) BY <2>1, Failed
  <2>3. kind # "fake" /\ error' \in {error, "none"} BY <2>1
  <2>4. QED BY <2>1, <2>2, <2>3, AnsweredByRepo
<1>7. ASSUME NEW c \in Client, FakeRepo(c) PROVE IInv'
  <2> DEFINE op == Handler(request[c])
  <2>1. Call(c) /\ error' = "none" /\ kind = "fake" /\ error' \in {error, "none"}
    BY <1>7 DEF FakeRepo
  <2>2. /\ request' = request /\ configured' = configured
        /\ Entry(c).client = c /\ Entry(c).op = op /\ Entry(c)' = Entry(c)
    BY <2>1 DEF Call, Entry
  <2>3. CASE error # "none"
    <3>1. Fail(c, error) /\ error \in CrewCodes BY <1>7, <2>3 DEF FakeRepo, IInv, TypeOK
    <3>2. Ended(c) /\ response'[c] = Response(c, status_for(error), error) BY <3>1, Failed
    <3>3. QED BY <2>1, <2>3, <3>2, AnsweredByRepo
  <2>4. CASE error = "none" /\ op \in {"get", "delete"} \ configured
    <3>1. Fail(c, "not_found") /\ "not_found" \in CrewCodes
      BY <1>7, <2>4 DEF FakeRepo, CrewCodes
    <3>2. Ended(c) /\ response'[c] = Response(c, status_for("not_found"), "not_found")
      BY <3>1, Failed
    <3>3. response'[c].status = 404 BY <3>2 DEF Response, status_for
    <3>4. AnsweredFreely(Entry(c))' BY <2>2, <2>4, <3>3 DEF AnsweredFreely
    <3>5. QED BY <2>1, <2>4, <3>2, <3>4, AnsweredByRepo
  <2>5. CASE error = "none" /\ op \notin {"get", "delete"} \ configured
    <3>1. PICK status \in {200, 201} : Reply(c, status, Value(op)) BY <1>7, <2>5 DEF FakeRepo
    <3>2. Agree(status, Value(op)) BY <1>2
    <3>3. Ended(c) /\ response'[c] = Response(c, status, Value(op)) BY <3>1, <3>2, Replied
    <3>4. response'[c].status \in 200..299 BY <3>3 DEF Response
    <3>5. AnsweredFreely(Entry(c))' BY <2>2, <3>4 DEF AnsweredFreely
    <3>6. QED BY <2>1, <2>5, <3>3, <3>5, AnsweredByRepo
  <2>6. QED BY <2>3, <2>4, <2>5
<1>8. QED BY <1>1, <1>3, <1>4, <1>5, <1>6, <1>7 DEF Next

\* The inductive invariant, for any clients and requests and either repo.
THEOREM Invariance == Spec => []IInv
BY InitIInv, Step, PTL DEF Spec

\* Every variable keeps its type, and no client is in the log twice.
THEOREM Types == Spec => []TypeOK
BY Invariance, PTL DEF IInv

\* The error a fake is set up with stays until a call reaches the repo, is
\* what the first such call is answered with, and fails no later one.
THEOREM ErrorGoesFirst == Spec => []ErrorHitsFirstCall
BY Invariance, PTL DEF IInv

-----------------------------------------------------------------------------
(* What the log says of the requests.                                      *)

LEMMA ReachesWhen ==
  ASSUME NEW r, r.path \in Paths, r.method \in Methods
  PROVE  Reaches(r) <=>
      \/ r.path = "/tasks" /\ r.method = "POST" /\ CreateReadable(r.body)
      \/ r.path = "/tasks" /\ r.method \in {"GET", "HEAD"} /\ ListReadable(r.query)
      \/ r.path = "/tasks/{id}" /\ r.method \in {"GET", "HEAD"} /\ IsTaskId(r.id)
      \/ /\ r.path = "/tasks/{id}" /\ r.method = "DELETE"
         /\ IsTaskId(r.id) /\ DeleteReadable(r.query)
<1>1. Handler(r) = "create" => (Sound(r) <=> CreateReadable(r.body))
  BY DEF Sound, Extracts, PartReadable
<1>2. Handler(r) = "list" => (Sound(r) <=> ListReadable(r.query))
  BY DEF Sound, Extracts, PartReadable
<1>3. Handler(r) = "get" => (Sound(r) <=> IsTaskId(r.id))
  BY DEF Sound, Extracts, PartReadable
<1>4. Handler(r) = "delete" => (Sound(r) <=> IsTaskId(r.id) /\ DeleteReadable(r.query))
  BY DEF Sound, Extracts, PartReadable
<1> DEFINE h == Handler(r)
           known == Matching(r) # {}
<1>5. /\ known =>
           /\ h \in Ops
           /\ h = "health" <=> r.path = "/health"
           /\ h = "create" <=> r.path = "/tasks" /\ r.method = "POST"
           /\ h = "list" <=> r.path = "/tasks" /\ r.method \in {"GET", "HEAD"}
           /\ h = "get" <=> r.path = "/tasks/{id}" /\ r.method \in {"GET", "HEAD"}
           /\ h = "delete" <=> r.path = "/tasks/{id}" /\ r.method = "DELETE"
      /\ known <=>
           \/ r.path = "/health" /\ r.method \in {"GET", "HEAD"}
           \/ r.path = "/tasks" /\ r.method \in {"POST", "GET", "HEAD"}
           \/ r.path = "/tasks/{id}" /\ r.method \in {"GET", "HEAD", "DELETE"}
  BY Routing
<1>6. Reaches(r) <=> known /\ Sound(r) /\ h \in TaskOps BY DEF Reaches
<1> HIDE DEF h, known
<1>7. CASE ~known BY <1>5, <1>6, <1>7
<1>8. CASE known
  <2>1. h = "create" \/ h = "list" \/ h = "get" \/ h = "delete" \/ h = "health"
    BY <1>5, <1>8 DEF Ops, TaskOps
  <2>2. CASE h = "create" BY <1>1, <1>5, <1>6, <1>8, <2>2 DEF TaskOps, h
  <2>3. CASE h = "list" BY <1>2, <1>5, <1>6, <1>8, <2>3 DEF TaskOps, h
  <2>4. CASE h = "get" BY <1>3, <1>5, <1>6, <1>8, <2>4 DEF TaskOps, h
  <2>5. CASE h = "delete" BY <1>4, <1>5, <1>6, <1>8, <2>5 DEF TaskOps, h
  <2>6. CASE h = "health" BY <1>5, <1>6, <1>8, <2>6 DEF TaskOps
  <2>7. QED BY <2>1, <2>2, <2>3, <2>4, <2>5, <2>6
<1>9. QED BY <1>7, <1>8

LEMMA SoundFromLog == IInv => OnlySoundRequestsReachRepo
<1> SUFFICES ASSUME IInv, NEW c \in Client, Done(c)
             PROVE  LET r == request[c] IN
               c \in Callers <=>
                 \/ r.path = "/tasks" /\ r.method = "POST" /\ CreateReadable(r.body)
                 \/ r.path = "/tasks" /\ r.method \in {"GET", "HEAD"} /\ ListReadable(r.query)
                 \/ r.path = "/tasks/{id}" /\ r.method \in {"GET", "HEAD"} /\ IsTaskId(r.id)
                 \/ /\ r.path = "/tasks/{id}" /\ r.method = "DELETE"
                    /\ IsTaskId(r.id) /\ DeleteReadable(r.query)
  BY DEF OnlySoundRequestsReachRepo
<1>1. request[c].path \in Paths /\ request[c].method \in Methods
  BY RequestAssumption DEF IInv, TypeOK
<1>2. c \in Callers <=> Reaches(request[c]) BY DEF IInv, Log, Done
<1>3. QED BY <1>1, <1>2, ReachesWhen

\* A request reaches the repo exactly when it is routed to a task operation
\* and nothing in it was refused.
THEOREM SoundRequests == Spec => []OnlySoundRequestsReachRepo
BY SoundFromLog, Invariance, PTL

LEMMA ExitFromStatuses == IInv => StatusDeterminesExit
<1>1. \A a, b \in CrewCodes : status_for(a) = status_for(b) => exit_code(a) = exit_code(b)
  BY DEF CrewCodes, status_for, exit_code
<1>2. QED BY <1>1 DEF IInv, Statuses, StatusDeterminesExit

\* The status of an error determines its exit code.
THEOREM ExitCodes == Spec => []StatusDeterminesExit
BY ExitFromStatuses, Invariance, PTL

-----------------------------------------------------------------------------
(* What arrives at the repo.                                               *)

\* The reader of an object takes what is there and completes it.
LEMMA ReadObject ==
  ASSUME NEW object, NEW fields, NEW defaults, NEW f \in fields,
         fields \ DOMAIN defaults \subseteq DOMAIN object
  PROVE  ReadAs(object, fields, defaults)[f]
           = IF f \in DOMAIN object THEN object[f] ELSE defaults[f]
BY DEF ReadAs

\* The reader of a query whose keys are distinct loses no pair.
LEMMA ReadPairs ==
  ASSUME NEW pairs, NEW defaults, NEW i \in DOMAIN pairs, pairs[i][1] \in DOMAIN defaults,
         \A j, k \in DOMAIN pairs : pairs[j][1] = pairs[k][1] => j = k
  PROVE  ReadQueryAs(pairs, defaults)[pairs[i][1]] = pairs[i][2]
<1>1. (CHOOSE j \in DOMAIN pairs : pairs[j][1] = pairs[i][1]) = i OBVIOUS
<1>2. QED BY <1>1 DEF ReadQueryAs

LEMMA SeenFromLog == IInv => RepoSeesWhatWasSent
<1>1. ASSUME IInv, NEW i \in DOMAIN calls
      PROVE  \E c \in Client : calls[i] = Entry(c) /\ Reaches(request[c])
  <2>1. calls[i] \in Entries BY <1>1 DEF IInv, Log
  <2>2. PICK c \in Client : calls[i] = Entry(c) BY <2>1 DEF Entries
  <2>3. c \in Callers BY <2>2 DEF Callers, Entry
  <2>4. QED BY <1>1, <2>2, <2>3 DEF IInv, Log
<1>2. ASSUME NEW r, Sound(r), Handler(r) = "create", NEW f \in CreateFields
      PROVE  Args(r)[f] = IF f \in DOMAIN r.body.object THEN r.body.object[f]
                          ELSE IF f = "agent_eligible" THEN Bool(TRUE)
                          ELSE IF f = "sources" THEN Texts({}) ELSE Null
  <2>1. CreateReadable(r.body) BY <1>2 DEF Sound, Extracts, PartReadable
  <2>2. CreateFields \ DOMAIN CreateDefaults \subseteq DOMAIN r.body.object
    BY <2>1 DEF CreateReadable, Readable
  <2>3. Args(r) = ReadAs(r.body.object, CreateFields, CreateDefaults)
    BY <1>2 DEF Args, CreateTaskRequest
  <2>4. Args(r)[f] = IF f \in DOMAIN r.body.object THEN r.body.object[f] ELSE CreateDefaults[f]
    BY <2>2, <2>3, ReadObject
  <2>5. f \notin DOMAIN r.body.object => f \in DOMAIN CreateDefaults BY <2>2
  <2>6. f \in DOMAIN CreateDefaults =>
          CreateDefaults[f] = IF f = "agent_eligible" THEN Bool(TRUE)
                              ELSE IF f = "sources" THEN Texts({}) ELSE Null
    <3>1. DOMAIN CreateDefaults = {"description", "parent_id", "agent_eligible", "sources"}
      BY DEF CreateDefaults
    <3>2. /\ CreateDefaults["description"] = Null /\ CreateDefaults["parent_id"] = Null
          /\ CreateDefaults["agent_eligible"] = Bool(TRUE) /\ CreateDefaults["sources"] = Texts({})
      BY DEF CreateDefaults
    <3>3. QED BY <3>1, <3>2
  <2>7. QED BY <2>4, <2>5, <2>6
<1>3. ASSUME NEW r, Sound(r), Handler(r) = "list", NEW j \in DOMAIN r.query
      PROVE  r.query[j][1] \in DOMAIN Args(r) /\ Args(r)[r.query[j][1]] = r.query[j][2]
  <2> DEFINE q == r.query
  <2>1. ListReadable(q) BY <1>3 DEF Sound, Extracts, PartReadable
  <2>2. q[j][1] \in DOMAIN ListDefaults /\ \A k, l \in DOMAIN q : q[k][1] = q[l][1] => k = l
    BY <1>3, <2>1 DEF ListReadable, ReadableQuery
  <2>3. Args(r) = ReadQueryAs(q, ListDefaults) BY <1>3 DEF Args, ListQuery
  <2>4. DOMAIN Args(r) = DOMAIN ListDefaults BY <2>3 DEF ReadQueryAs
  <2>5. j \in DOMAIN q BY <1>3
  <2> HIDE DEF q
  <2>6. ReadQueryAs(q, ListDefaults)[q[j][1]] = q[j][2] BY <2>2, <2>5, ReadPairs
  <2>7. QED BY <2>2, <2>3, <2>4, <2>6 DEF q
<1>4. ASSUME NEW r, Sound(r), Handler(r) = "delete"
      PROVE  /\ \A j \in DOMAIN r.query :
                  r.query[j][1] \in DOMAIN Args(r) /\ Args(r)[r.query[j][1]] = r.query[j][2]
             /\ Args(r).id = r.id[2]
             /\ Args(r).force = "true" =>
                  \E j \in DOMAIN r.query : r.query[j][1] = "force" /\ r.query[j][2] = "true"
  <2> DEFINE q    == r.query
             read == ReadQueryAs(q, DeleteDefaults)
  <2>1. DeleteReadable(q) BY <1>4 DEF Sound, Extracts, PartReadable
  <2> HIDE DEF q
  <2>2. \A j \in DOMAIN q : q[j][1] = "force" /\ \A k \in DOMAIN q : q[j][1] = q[k][1] => j = k
    BY <2>1 DEF DeleteReadable, ReadableQuery, DeleteDefaults
  <2>3. "force" \in DOMAIN DeleteDefaults /\ DeleteDefaults["force"] = "false" BY DEF DeleteDefaults
  <2>4. Args(r) = [id |-> r.id[2], force |-> read["force"]] BY <1>4 DEF Args, DeleteQuery, q
  <2>5. ASSUME NEW j \in DOMAIN q PROVE read["force"] = q[j][2]
    BY <2>2, <2>3, ReadPairs
  <2>6. DOMAIN q = {} => read["force"] = "false" BY <2>3 DEF ReadQueryAs
  <2> HIDE DEF read
  <2>7. /\ \A j \in DOMAIN q : q[j][1] \in DOMAIN Args(r) /\ Args(r)[q[j][1]] = q[j][2]
        /\ Args(r).id = r.id[2]
        /\ Args(r).force = "true" => \E j \in DOMAIN q : q[j][1] = "force" /\ q[j][2] = "true"
    BY <2>2, <2>4, <2>5, <2>6
  <2>8. QED BY <2>7 DEF q
<1>5. ASSUME NEW r, Reaches(r), Handler(r) = "get" PROVE Args(r).id = r.id[2]
  BY <1>5 DEF Args
<1>6. IInv => RepoSeesWhatWasSent
  <2> SUFFICES ASSUME IInv, NEW i \in DOMAIN calls
               PROVE  LET r    == request[calls[i].client]
                          args == calls[i].args
                      IN  CASE calls[i].op = "create" ->
                                 \A f \in CreateFields :
                                   args[f] = IF f \in DOMAIN r.body.object THEN r.body.object[f]
                                             ELSE IF f = "agent_eligible" THEN Bool(TRUE)
                                             ELSE IF f = "sources" THEN Texts({}) ELSE Null
                            [] calls[i].op = "get" -> args.id = r.id[2]
                            [] calls[i].op \in {"list", "delete"} ->
                                 /\ \A j \in DOMAIN r.query :
                                      r.query[j][1] \in DOMAIN args /\ args[r.query[j][1]] = r.query[j][2]
                                 /\ calls[i].op = "delete" =>
                                      /\ args.id = r.id[2]
                                      /\ args.force = "true" =>
                                           \E j \in DOMAIN r.query :
                                             r.query[j][1] = "force" /\ r.query[j][2] = "true"
    BY DEF RepoSeesWhatWasSent
  <2>1. PICK c \in Client : calls[i] = Entry(c) /\ Reaches(request[c]) BY <1>1
  <2>2. /\ calls[i].client = c /\ calls[i].op = Handler(request[c])
        /\ calls[i].args = Args(request[c]) /\ Sound(request[c]) /\ calls[i].op \in TaskOps
    BY <2>1 DEF Entry, Reaches
  <2>3. CASE calls[i].op = "create"
    <3> DEFINE r == request[calls[i].client]
    <3>1. Sound(r) /\ Handler(r) = "create" /\ calls[i].args = Args(r) BY <2>2, <2>3
    <3> HIDE DEF r
    <3>2. \A f \in CreateFields :
            calls[i].args[f] = IF f \in DOMAIN r.body.object THEN r.body.object[f]
                               ELSE IF f = "agent_eligible" THEN Bool(TRUE)
                               ELSE IF f = "sources" THEN Texts({}) ELSE Null
      BY <1>2, <3>1
    <3>3. QED BY <2>3, <3>2 DEF r
  <2>4. CASE calls[i].op = "get" BY <1>5, <2>1, <2>2, <2>4
  <2>5. CASE calls[i].op = "list"
    <3> DEFINE r == request[calls[i].client]
    <3>1. Sound(r) /\ Handler(r) = "list" /\ calls[i].args = Args(r) BY <2>2, <2>5
    <3> HIDE DEF r
    <3>2. \A j \in DOMAIN r.query :
            r.query[j][1] \in DOMAIN calls[i].args /\ calls[i].args[r.query[j][1]] = r.query[j][2]
      BY <1>3, <3>1
    <3>3. QED BY <2>5, <3>2 DEF r
  <2>6. CASE calls[i].op = "delete"
    <3> DEFINE r == request[calls[i].client]
    <3>1. Sound(r) /\ Handler(r) = "delete" /\ calls[i].args = Args(r) BY <2>2, <2>6
    <3> HIDE DEF r
    <3>2. \A j \in DOMAIN r.query :
            r.query[j][1] \in DOMAIN calls[i].args /\ calls[i].args[r.query[j][1]] = r.query[j][2]
      BY <1>4, <3>1
    <3>3. calls[i].args.id = r.id[2] BY <1>4, <3>1
    <3>4. calls[i].args.force = "true" =>
            \E j \in DOMAIN r.query : r.query[j][1] = "force" /\ r.query[j][2] = "true"
      BY <1>4, <3>1
    <3>5. QED BY <2>6, <3>2, <3>3, <3>4 DEF r
  <2>7. QED BY <2>2, <2>3, <2>4, <2>5, <2>6 DEF TaskOps
<1>7. QED BY <1>6

\* What the repo is called with is what the client sent, completed with the
\* defaults.
THEOREM SeenAsSent == Spec => []RepoSeesWhatWasSent
BY SeenFromLog, Invariance, PTL
=============================================================================
