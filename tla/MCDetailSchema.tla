--------------------------- MODULE MCDetailSchema ---------------------------
(* Arrays that are empty or hold one element; this version of the schema   *)
(* and the next.  What others send: such a document with its times as      *)
(* dates, one object of it spoilt, or a document of the required fields.   *)
EXTENDS DetailSchema

SomeWritten ==
  {[root |-> r, items |-> [notes |-> n, sources |-> s, contacts |-> c], version |-> v] :
     r \in Written(TaskDetail),
     n \in {{}} \cup {{o} : o \in Written(Item.notes)},
     s \in {{}} \cup {{o} : o \in Written(Item.sources)},
     c \in {{}} \cup {{o} : o \in Written(Item.contacts)},
     v \in {SCHEMA_VERSION, SCHEMA_VERSION + 1}}

Spoilt(object) ==
  {Without(object, f) : f \in DOMAIN object}
    \cup {[g \in DOMAIN object \cup {f} |-> IF g = f THEN k ELSE object[g]] :
            f \in DOMAIN object \cup {"unknown", "_id"}, k \in Kinds}

SomeOther ==
  LET bare == Dated(empty_for)
      Elements(a) == {Retimed(o, "rfc3339", "date") : o \in Written(Item[a])}
  IN  {Dated(d) : d \in SomeWritten}
        \cup {[bare EXCEPT !.root = o] : o \in Spoilt(bare.root)}
        \cup UNION {{[bare EXCEPT !.items[a] = {o}] : o \in UNION {Spoilt(e) : e \in Elements(a)}} :
                      a \in Arrays}
        \cup {[bare EXCEPT !.root = [f \in Required |-> @[f]], !.version = v] : v \in 0..2}
=============================================================================
