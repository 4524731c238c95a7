----------------------------- MODULE DetailSchema -----------------------------
(***************************************************************************)
(* The detail document of a task: the structs of detail.rs, as serde       *)
(* writes and reads them, against the $jsonSchema that mongo.rs installs.  *)
(* The two were written by hand, field by field, and nothing but a test    *)
(* against a real Mongo would notice that they disagree.                   *)
(*                                                                         *)
(* A value is abstracted to its kind, an object to a function from the     *)
(* fields that are present to kinds.  A document is its root object, the   *)
(* objects in its three arrays, and the number in schema_version.          *)
(***************************************************************************)
EXTENDS Integers, Serde

CONSTANTS
  WrittenDocs,  \* what this build, or a later one, may write
  OtherDocs     \* what another client of Mongo may send

VARIABLES
  doc,     \* the document
  author,  \* "crewlist": serde wrote it; "other": any other client of Mongo
  place    \* where it is: see Next

vars == <<doc, author, place>>

SCHEMA_VERSION == 1

Strings == {"text", "blank", "rfc3339"}
Kinds   == Strings \cup {"null", "int", "long", "date", "array", "objectId"}
Arrays  == {"notes", "sources", "contacts"}

-----------------------------------------------------------------------------
(* The structs: the type of every field, and what has a serde(default).    *)

TaskDetail ==
  [task_id |-> "i64", schema_version |-> "i32", description |-> "String",
   notes |-> "Vec", sources |-> "Vec", contacts |-> "Vec", summary |-> "Option",
   created_at |-> "DateTime", updated_at |-> "DateTime"]

\* Faulty: the notes have no default.
DetailDefaultsNoNotes ==
  [description |-> "blank", sources |-> "array", contacts |-> "array", summary |-> "null"]

DetailDefaults ==
  [description |-> "blank", notes |-> "array", sources |-> "array", contacts |-> "array",
   summary |-> "null"]

Item ==
  [notes    |-> [author |-> "String", body |-> "String", at |-> "DateTime"],
   sources  |-> [url |-> "String", title |-> "Option", retrieved_at |-> "DateTime"],
   contacts |-> [name |-> "String", phone |-> "Option", email |-> "Option", url |-> "Option"]]
ItemDefaults ==
  [notes |-> <<>>, sources |-> [title |-> "null"],
   contacts |-> [phone |-> "null", email |-> "null", url |-> "null"]]

\* How serde writes a type, a None apart; what it takes for it.  chrono's
\* time is a text.
WrittenAs ==
  [i64 |-> "long", i32 |-> "int", String |-> "text", Option |-> "text", Vec |-> "array",
   DateTime |-> "rfc3339"]
TakenFor ==
  [i64 |-> {"int", "long"}, i32 |-> {"int", "long"}, String |-> Strings,
   Option |-> Strings \cup {"null"}, Vec |-> {"array"}, DateTime |-> {"rfc3339"}]

Written(struct) ==
  {[f \in DOMAIN struct |-> IF f \in none THEN "null" ELSE WrittenAs[struct[f]]] :
     none \in SUBSET {f \in DOMAIN struct : struct[f] = "Option"}}

DetailReadable(d) ==
  /\ Readable(d.root, DOMAIN TaskDetail, DetailDefaults, LAMBDA f, k : k \in TakenFor[TaskDetail[f]])
  /\ \A a \in Arrays : \A o \in d.items[a] :
       Readable(o, DOMAIN Item[a], ItemDefaults[a], LAMBDA f, k : k \in TakenFor[Item[a][f]])

\* The value that is read, as the document it would be written as again.
Reread(d) ==
  [root |-> ReadAs(d.root, DOMAIN TaskDetail, DetailDefaults),
   items |-> [a \in Arrays |-> {ReadAs(o, DOMAIN Item[a], ItemDefaults[a]) : o \in d.items[a]}],
   version |-> d.version]

empty_for ==
  [root |-> [task_id |-> "long", schema_version |-> "int", description |-> "blank",
             notes |-> "array", sources |-> "array", contacts |-> "array", summary |-> "null",
             created_at |-> "rfc3339", updated_at |-> "rfc3339"],
   items |-> [a \in Arrays |-> {}],
   version |-> SCHEMA_VERSION]

-----------------------------------------------------------------------------
(* detail_validator: required fields, pinned types, nothing else.          *)

Pinned ==
  [_id |-> {"objectId"}, task_id |-> {"long"}, schema_version |-> {"int"},
   description |-> Strings, summary |-> Strings \cup {"null"},
   created_at |-> {"date"}, updated_at |-> {"date"},
   notes |-> {"array"}, sources |-> {"array"}, contacts |-> {"array"}]
PinnedItem ==
  [notes    |-> [author |-> Strings, body |-> Strings, at |-> {"date"}],
   sources  |-> [url |-> Strings, title |-> Strings \cup {"null"}, retrieved_at |-> {"date"}],
   contacts |-> [name |-> Strings, phone |-> Strings \cup {"null"},
                 email |-> Strings \cup {"null"}, url |-> Strings \cup {"null"}]]
Required == {"task_id", "schema_version", "created_at", "updated_at"}
RequiredItem ==
  [notes |-> {"author", "body", "at"}, sources |-> {"url", "retrieved_at"}, contacts |-> {"name"}]

\* Faulty: the fields of array elements are pinned, but others let in.
ConformsLoose(object, pinned, required) ==
  /\ required \subseteq DOMAIN object
  /\ \A f \in DOMAIN object \cap DOMAIN pinned : object[f] \in pinned[f]

\* Faulty: whatever may be absent has to be there.
ConformsInFull(object, pinned, required) ==
  /\ DOMAIN pinned \subseteq DOMAIN object \cup {"_id"}
  /\ \A f \in DOMAIN object : f \in DOMAIN pinned /\ object[f] \in pinned[f] \ {"null"}

Conforms(object, pinned, required) ==
  /\ required \subseteq DOMAIN object
  /\ \A f \in DOMAIN object : f \in DOMAIN pinned /\ object[f] \in pinned[f]

detail_validator(d) ==
  /\ Conforms(d.root, Pinned, Required)
  /\ d.version >= 1
  /\ \A a \in Arrays : \A o \in d.items[a] : Conforms(o, PinnedItem[a], RequiredItem[a])

-----------------------------------------------------------------------------
(* The documents.                                                          *)

Retimed(object, from, to) ==
  [f \in DOMAIN object |-> IF object[f] = from THEN to ELSE object[f]]
RetimedDoc(d, from, to) ==
  [d EXCEPT !.root = Retimed(@, from, to),
            !.items = [a \in Arrays |-> {Retimed(o, from, to) : o \in @[a]}]]

\* The same document with its times as BSON dates, or as texts.
Dated(d)   == RetimedDoc(d, "rfc3339", "date")
Textual(d) == RetimedDoc(d, "date", "rfc3339")

Without(object, f) == [g \in DOMAIN object \ {f} |-> object[g]]

\* Any document, and one that serde writes.  An array that is not there has
\* no elements.
IsDocument(d) ==
  /\ DOMAIN d = {"root", "items", "version"} /\ d.version \in Int
  /\ DOMAIN d.items = Arrays
  /\ \A f \in DOMAIN d.root : d.root[f] \in Kinds
  /\ \A a \in Arrays : d.items[a] # {} => a \in DOMAIN d.root
  /\ \A a \in Arrays : \A o \in d.items[a] : \A f \in DOMAIN o : o[f] \in Kinds
IsWritten(d) ==
  /\ IsDocument(d) /\ d.version >= SCHEMA_VERSION
  /\ d.root \in Written(TaskDetail)
  /\ \A a \in Arrays : d.items[a] \subseteq Written(Item[a])

ASSUME DocumentAssumption ==
  (\A d \in WrittenDocs : IsWritten(d)) /\ (\A d \in OtherDocs : IsDocument(d))

Init ==
  /\ \/ author = "crewlist" /\ doc \in WrittenDocs
     \/ author = "other" /\ doc \in OtherDocs
  /\ place = "sent"

\* The driver adds an _id where there is none, and Mongo takes or refuses
\* the document.
WithId(object) ==
  [f \in DOMAIN object \cup {"_id"} |-> IF f \in DOMAIN object THEN object[f] ELSE "objectId"]

Insert ==
  LET inserted == [doc EXCEPT !.root = WithId(@)] IN
  /\ place = "sent"
  /\ IF detail_validator(inserted)
     THEN place' = "stored" /\ doc' = inserted
     ELSE place' = "refused" /\ UNCHANGED doc
  /\ UNCHANGED author

\* serde reads it: as it is stored, or off the wire, where a TaskView of this
\* build or of the next has it.
Read ==
  /\ place = "stored" \/ (place = "sent" /\ author = "crewlist")
  /\ place' = IF DetailReadable(doc) THEN "read" ELSE "unreadable"
  /\ UNCHANGED <<doc, author>>

Next == Insert \/ Read

Spec == Init /\ [][Next]_vars

-----------------------------------------------------------------------------
(* Where the two agree, and where they do not.                             *)

Keeps(written, object) ==
  \A f \in DOMAIN object : f \in DOMAIN written /\ written[f] = object[f]

\* mongo.rs:110 "the database rejects drift": but for the form of its
\* times, whatever Mongo took can be read by the structs, and reading it and
\* writing it back loses no field, at the root or in an array.
StoredIsUnderstood ==
  place = "stored" =>
    LET text == Textual(doc) IN
    /\ DetailReadable(text)
    /\ text.version >= SCHEMA_VERSION
    /\ Keeps(Reread(text).root, Without(text.root, "_id"))
    /\ Reread(text).version = text.version
    /\ \A a \in Arrays : \A o \in text.items[a] : \E w \in Reread(text).items[a] :
         Keeps(w, o)

\* mongo.rs:114-115 "the detail structs must serialize through
\* `bson::serde_helpers::chrono_datetime_as_bson_datetime`": they do not, and
\* Mongo takes none of their documents; but the form of the times is all that
\* stands between, options that are None and a later version included.
OnlyTimesRefused ==
  author = "crewlist" => place # "stored" /\ detail_validator(Dated(doc))

\* detail.rs:14-17 (AC-25): a document that holds only what it must reads as
\* the value that stands for an absent one.
MinimalReadsAsEmpty ==
  /\ DOMAIN doc.root \ {"_id"} = Required
  /\ doc.version = SCHEMA_VERSION
  /\ detail_validator(doc)
  => DetailReadable(Textual(doc)) /\ Reread(Textual(doc)) = empty_for

\* detail.rs:8-9 "Readers reject anything else rather than guessing at the
\* shape": no reader takes a version other than its own.
VersionChecked ==
  place = "read" => doc.version = SCHEMA_VERSION
=============================================================================
