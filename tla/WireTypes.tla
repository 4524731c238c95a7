------------------------------ MODULE WireTypes ------------------------------
(***************************************************************************)
(* The requests of the wire protocol (dto.rs): what a path id, a query and *)
(* a JSON body have to look like to be taken, and what they are taken for. *)
(*                                                                         *)
(* A JSON value is a tuple that starts with its type; Null, a text, a      *)
(* number, a Boolean or an array of texts.                                 *)
(***************************************************************************)
EXTENDS Integers, Sequences, Serde

CONSTANTS MinId, MaxId  \* the range of TaskId: i64 in the code

Null     == <<"null">>
Text(t)  == <<"text", t>>
Int_(n)  == <<"int", n>>
Bool(b)  == <<"bool", b>>
Texts(t) == <<"texts", t>>

IsText(v) == v[1] = "text"
IsTaskId(v) == v[1] = "int" /\ v[2] \in MinId..MaxId

TaskStatus == {"todo", "handed_off", "done", "cancelled"}
TaskOrigin == {"human", "agent"}
Queue      == {"agent", "human"}

\* Faulty: a task whose eligibility is not given is not eligible.
CreateDefaultsNotEligible ==
  [description |-> Null, parent_id |-> Null, agent_eligible |-> Bool(FALSE), sources |-> Texts({})]

CreateDefaults ==
  [description |-> Null, parent_id |-> Null, agent_eligible |-> Bool(TRUE), sources |-> Texts({})]
CreateFields == {"title", "origin"} \cup DOMAIN CreateDefaults

CreateReads(f, v) ==
  CASE f = "title" -> IsText(v)
    [] f = "origin" -> IsText(v) /\ v[2] \in TaskOrigin
    [] f = "description" -> v = Null \/ IsText(v)
    [] f = "parent_id" -> v = Null \/ IsTaskId(v)
    [] f = "agent_eligible" -> v[1] = "bool"
    [] f = "sources" -> v[1] = "texts"

\* CreateTaskRequest: not strict, a field it does not know is passed over.
CreateReadable(body) ==
  body.json /\ Readable(body.object, CreateFields, CreateDefaults, CreateReads)
CreateTaskRequest(body) == ReadAs(body.object, CreateFields, CreateDefaults)

FlagReads(text) == text \in {"true", "false"}

\* Faulty: deny_unknown_fields is gone.
ListReadableLoose(pairs) ==
  LET Known(p) == p[1] \in {"queue", "status", "all"}
      known    == SelectSeq(pairs, Known)
  IN  ReadableQuery(known, {"queue", "status", "all"},
        LAMBDA f, t : CASE f = "queue" -> t \in Queue
                        [] f = "status" -> t \in TaskStatus
                        [] f = "all" -> FlagReads(t))

\* ListQuery and DeleteQuery: strict.
ListDefaults == [queue |-> "none", status |-> "none", all |-> "false"]
ListReadable(pairs) ==
  ReadableQuery(pairs, DOMAIN ListDefaults,
    LAMBDA f, t : CASE f = "queue" -> t \in Queue
                    [] f = "status" -> t \in TaskStatus
                    [] f = "all" -> FlagReads(t))
ListQuery(pairs) == ReadQueryAs(pairs, ListDefaults)

DeleteDefaults == [force |-> "false"]
DeleteReadable(pairs) ==
  ReadableQuery(pairs, DOMAIN DeleteDefaults, LAMBDA f, t : FlagReads(t))
DeleteQuery(pairs) == ReadQueryAs(pairs, DeleteDefaults)
=============================================================================
