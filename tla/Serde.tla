-------------------------------- MODULE Serde --------------------------------
(***************************************************************************)
(* What #[derive(Deserialize)] makes of an object: the reader the types of *)
(* crewlist-core get from serde.  An object is a function from the names   *)
(* of the fields that are present to their values.                         *)
(***************************************************************************)

\* A struct reads an object when no field without a default is missing and
\* every field it knows has a value of its type.  It ignores other fields.
\* An Option counts as a field with the default None.
Readable(object, fields, defaults, Reads(_, _)) ==
  /\ fields \ DOMAIN defaults \subseteq DOMAIN object
  /\ \A f \in fields \cap DOMAIN object : Reads(f, object[f])

\* The value it reads.
ReadAs(object, fields, defaults) ==
  [f \in fields |-> IF f \in DOMAIN object THEN object[f] ELSE defaults[f]]

\* A query string, as a sequence of pairs of key and text, for a struct with
\* deny_unknown_fields.  A key given twice is refused too, with one text or two.
ReadableQuery(pairs, fields, Reads(_, _)) ==
  /\ \A i \in DOMAIN pairs : pairs[i][1] \in fields /\ Reads(pairs[i][1], pairs[i][2])
  /\ \A i, j \in DOMAIN pairs : pairs[i][1] = pairs[j][1] => i = j

ReadQueryAs(pairs, defaults) ==
  [f \in DOMAIN defaults |->
     IF \E i \in DOMAIN pairs : pairs[i][1] = f
     THEN pairs[CHOOSE i \in DOMAIN pairs : pairs[i][1] = f][2] ELSE defaults[f]]
=============================================================================
