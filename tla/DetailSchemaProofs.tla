------------------------ MODULE DetailSchemaProofs ------------------------
(***************************************************************************)
(* Why the structs and the validator agree, but for the form of times, on  *)
(* every document there can be: any fields, arrays of any length, and any  *)
(* version.                                                                *)
(*                                                                         *)
(* The structs and the schema are compared field by field, once; what      *)
(* holds of a document follows from that.                                  *)
(***************************************************************************)
EXTENDS DetailSchema, TLAPS

Dating(k)  == IF k = "rfc3339" THEN "date" ELSE k
Texting(k) == IF k = "date" THEN "rfc3339" ELSE k

\* What the schema lets in, its times as texts, is what the struct takes: no
\* field is required by the struct alone or known to the schema alone.
Understands(struct, defaults, pinned, required) ==
  /\ DOMAIN struct \ DOMAIN defaults \subseteq required
  /\ DOMAIN pinned \subseteq DOMAIN struct \cup {"_id"}
  /\ \A f \in DOMAIN struct : f \in DOMAIN pinned
  /\ \A f \in DOMAIN struct : \A k \in pinned[f] : Texting(k) \in TakenFor[struct[f]]

\* What the struct writes, its times as dates, is what the schema lets in.
Admits(struct, pinned, required) ==
  /\ required \subseteq DOMAIN struct
  /\ \A f \in DOMAIN struct : f \in DOMAIN pinned
  /\ \A f \in DOMAIN struct : Dating(WrittenAs[struct[f]]) \in pinned[f]
  /\ \A f \in DOMAIN struct : struct[f] = "Option" => "null" \in pinned[f]

-----------------------------------------------------------------------------
(* Field by field.                                                         *)

LEMMA Taken ==
  /\ TakenFor["i64"] = {"int", "long"} /\ TakenFor["i32"] = {"int", "long"}
  /\ TakenFor["String"] = Strings /\ TakenFor["Option"] = Strings \cup {"null"}
  /\ TakenFor["Vec"] = {"array"} /\ TakenFor["DateTime"] = {"rfc3339"}
BY DEF TakenFor

LEMMA WrittenForm ==
  /\ WrittenAs["i64"] = "long" /\ WrittenAs["i32"] = "int" /\ WrittenAs["String"] = "text"
  /\ WrittenAs["Option"] = "text" /\ WrittenAs["Vec"] = "array"
  /\ WrittenAs["DateTime"] = "rfc3339"
BY DEF WrittenAs

LEMMA Times ==
  /\ \A k \in Strings \cup {"null"} : Texting(k) = k
  /\ \A k \in {"int", "long", "array", "null", "text"} : Texting(k) = k /\ Dating(k) = k
  /\ Texting("date") = "rfc3339" /\ Dating("rfc3339") = "date"
BY DEF Texting, Dating, Strings

LEMMA RootAgrees ==
  /\ Understands(TaskDetail, DetailDefaults, Pinned, Required)
  /\ Admits(TaskDetail, Pinned, Required)
<1>1. /\ DOMAIN TaskDetail = {"task_id", "schema_version", "description", "notes", "sources",
                              "contacts", "summary", "created_at", "updated_at"}
      /\ DOMAIN DetailDefaults = {"description", "notes", "sources", "contacts", "summary"}
      /\ DOMAIN Pinned = DOMAIN TaskDetail \cup {"_id"}
  BY DEF TaskDetail, DetailDefaults, Pinned
<1>2. /\ TaskDetail["task_id"] = "i64" /\ Pinned["task_id"] = {"long"}
      /\ TaskDetail["schema_version"] = "i32" /\ Pinned["schema_version"] = {"int"}
      /\ TaskDetail["description"] = "String" /\ Pinned["description"] = Strings
      /\ TaskDetail["summary"] = "Option" /\ Pinned["summary"] = Strings \cup {"null"}
      /\ \A f \in {"created_at", "updated_at"} : TaskDetail[f] = "DateTime" /\ Pinned[f] = {"date"}
      /\ \A f \in {"notes", "sources", "contacts"} : TaskDetail[f] = "Vec" /\ Pinned[f] = {"array"}
  BY DEF TaskDetail, Pinned
<1>3. \A f \in DOMAIN TaskDetail : \A k \in Pinned[f] : Texting(k) \in TakenFor[TaskDetail[f]]
  BY <1>1, <1>2, Taken, Times
<1>4. \A f \in DOMAIN TaskDetail : Dating(WrittenAs[TaskDetail[f]]) \in Pinned[f]
  <2>1. "text" \in Strings BY DEF Strings
  <2>2. QED BY <1>1, <1>2, <2>1, WrittenForm, Times
<1>5. \A f \in DOMAIN TaskDetail : TaskDetail[f] = "Option" => "null" \in Pinned[f]
  BY <1>1, <1>2
<1>6. QED BY <1>1, <1>3, <1>4, <1>5 DEF Understands, Admits, Required

LEMMA ItemsAgree ==
  ASSUME NEW a \in Arrays
  PROVE  /\ Understands(Item[a], ItemDefaults[a], PinnedItem[a], RequiredItem[a])
         /\ Admits(Item[a], PinnedItem[a], RequiredItem[a])
<1>1. "text" \in Strings BY DEF Strings
<1> DEFINE struct == Item[a]
           pinned == PinnedItem[a]
<1> USE Taken, WrittenForm, Times
<1>2. CASE a = "notes"
  <2>1. /\ DOMAIN struct = {"author", "body", "at"} /\ DOMAIN pinned = DOMAIN struct
        /\ struct["author"] = "String" /\ struct["body"] = "String" /\ struct["at"] = "DateTime"
        /\ pinned["author"] = Strings /\ pinned["body"] = Strings /\ pinned["at"] = {"date"}
        /\ RequiredItem[a] = DOMAIN struct
    BY <1>2 DEF Item, PinnedItem, RequiredItem
  <2> HIDE DEF struct, pinned
  <2>2. Understands(struct, ItemDefaults[a], pinned, RequiredItem[a]) BY <2>1 DEF Understands
  <2>3. Admits(struct, pinned, RequiredItem[a]) BY <1>1, <2>1 DEF Admits
  <2>4. QED BY <2>2, <2>3 DEF struct, pinned
<1>3. CASE a = "sources"
  <2>1. /\ DOMAIN struct = {"url", "title", "retrieved_at"} /\ DOMAIN pinned = DOMAIN struct
        /\ struct["url"] = "String" /\ struct["title"] = "Option"
        /\ struct["retrieved_at"] = "DateTime"
        /\ pinned["url"] = Strings /\ pinned["title"] = Strings \cup {"null"}
        /\ pinned["retrieved_at"] = {"date"}
        /\ RequiredItem[a] = {"url", "retrieved_at"} /\ DOMAIN ItemDefaults[a] = {"title"}
    BY <1>3 DEF Item, ItemDefaults, PinnedItem, RequiredItem
  <2> HIDE DEF struct, pinned
  <2>2. Understands(struct, ItemDefaults[a], pinned, RequiredItem[a]) BY <2>1 DEF Understands
  <2>3. Admits(struct, pinned, RequiredItem[a]) BY <1>1, <2>1 DEF Admits
  <2>4. QED BY <2>2, <2>3 DEF struct, pinned
<1>4. CASE a = "contacts"
  <2>1. /\ DOMAIN struct = {"name", "phone", "email", "url"} /\ DOMAIN pinned = DOMAIN struct
        /\ struct["name"] = "String" /\ pinned["name"] = Strings
        /\ \A f \in {"phone", "email", "url"} :
             struct[f] = "Option" /\ pinned[f] = Strings \cup {"null"}
        /\ RequiredItem[a] = {"name"} /\ DOMAIN ItemDefaults[a] = {"phone", "email", "url"}
    BY <1>4 DEF Item, ItemDefaults, PinnedItem, RequiredItem
  <2> HIDE DEF struct, pinned
  <2>2. Understands(struct, ItemDefaults[a], pinned, RequiredItem[a]) BY <2>1 DEF Understands
  <2>3. Admits(struct, pinned, RequiredItem[a]) BY <1>1, <2>1 DEF Admits
  <2>4. QED BY <2>2, <2>3 DEF struct, pinned
<1>5. QED BY <1>2, <1>3, <1>4 DEF Arrays

-----------------------------------------------------------------------------
(* One object.                                                             *)

LEMMA RetimedForm ==
  ASSUME NEW o
  PROVE  /\ DOMAIN Retimed(o, "date", "rfc3339") = DOMAIN o
         /\ DOMAIN Retimed(o, "rfc3339", "date") = DOMAIN o
         /\ \A f \in DOMAIN o : /\ Retimed(o, "date", "rfc3339")[f] = Texting(o[f])
                                /\ Retimed(o, "rfc3339", "date")[f] = Dating(o[f])
BY DEF Retimed, Texting, Dating

\* What the schema let in is read, every field of it.
LEMMA ObjectUnderstood ==
  ASSUME NEW struct, NEW defaults, NEW pinned, NEW required, NEW o,
         Understands(struct, defaults, pinned, required), Conforms(o, pinned, required)
  PROVE  LET text == Retimed(o, "date", "rfc3339") IN
         /\ DOMAIN struct \ DOMAIN defaults \subseteq DOMAIN text
         /\ \A f \in DOMAIN struct \cap DOMAIN text : text[f] \in TakenFor[struct[f]]
         /\ DOMAIN text \ {"_id"} \subseteq DOMAIN struct
         /\ Keeps(ReadAs(text, DOMAIN struct, defaults), Without(text, "_id"))
<1> DEFINE text == Retimed(o, "date", "rfc3339")
<1>1. DOMAIN text = DOMAIN o /\ \A f \in DOMAIN o : text[f] = Texting(o[f]) BY RetimedForm
<1> HIDE DEF text
<1>2. DOMAIN struct \ DOMAIN defaults \subseteq DOMAIN text
  BY <1>1 DEF Understands, Conforms
<1>3. \A f \in DOMAIN struct \cap DOMAIN text : text[f] \in TakenFor[struct[f]]
  BY <1>1 DEF Understands, Conforms
<1>4. DOMAIN text \ {"_id"} \subseteq DOMAIN struct BY <1>1 DEF Understands, Conforms
<1>5. Keeps(ReadAs(text, DOMAIN struct, defaults), Without(text, "_id"))
  BY <1>4 DEF Keeps, ReadAs, Without
<1>6. QED BY <1>2, <1>3, <1>4, <1>5 DEF text

\* What serde wrote is let in, but for its times.
LEMMA ObjectAdmitted ==
  ASSUME NEW struct, NEW pinned, NEW required, NEW o \in Written(struct),
         Admits(struct, pinned, required)
  PROVE  Conforms(Retimed(o, "rfc3339", "date"), pinned, required)
<1> DEFINE dated == Retimed(o, "rfc3339", "date")
<1>1. DOMAIN dated = DOMAIN o /\ \A f \in DOMAIN o : dated[f] = Dating(o[f]) BY RetimedForm
<1> HIDE DEF dated
<1>2. PICK none \in SUBSET {f \in DOMAIN struct : struct[f] = "Option"} :
        o = [f \in DOMAIN struct |-> IF f \in none THEN "null" ELSE WrittenAs[struct[f]]]
  BY DEF Written
<1>3. DOMAIN o = DOMAIN struct BY <1>2
<1>4. ASSUME NEW f \in DOMAIN struct PROVE f \in DOMAIN pinned /\ dated[f] \in pinned[f]
  <2>1. CASE f \in none
    <3>1. o[f] = "null" /\ struct[f] = "Option" BY <1>2, <2>1
    <3>2. dated[f] = "null" BY <1>1, <1>3, <3>1, Times
    <3>3. QED BY <3>1, <3>2 DEF Admits
  <2>2. CASE f \notin none
    <3>1. o[f] = WrittenAs[struct[f]] BY <1>2, <2>2
    <3>2. QED BY <1>1, <1>3, <3>1 DEF Admits
  <2>3. QED BY <2>1, <2>2
<1>5. required \subseteq DOMAIN dated BY <1>1, <1>3 DEF Admits
<1>6. QED BY <1>1, <1>3, <1>4, <1>5 DEF Conforms, dated

-----------------------------------------------------------------------------
(* One document.                                                           *)

LEMMA Retiming ==
  ASSUME NEW d, DOMAIN d = {"root", "items", "version"}, NEW from, NEW to
  PROVE  /\ RetimedDoc(d, from, to).root = Retimed(d.root, from, to)
         /\ RetimedDoc(d, from, to).items =
              [a \in Arrays |-> {Retimed(o, from, to) : o \in d.items[a]}]
         /\ RetimedDoc(d, from, to).version = d.version
BY DEF RetimedDoc

\* A document that was let in is read, its times as texts, and nothing of it
\* is lost.
LEMMA DocumentUnderstood ==
  ASSUME NEW d, IsDocument(d), detail_validator(d)
  PROVE  /\ DetailReadable(Textual(d))
         /\ Textual(d).version >= SCHEMA_VERSION
         /\ Keeps(Reread(Textual(d)).root, Without(Textual(d).root, "_id"))
         /\ Reread(Textual(d)).version = Textual(d).version
         /\ \A a \in Arrays : \A o \in Textual(d).items[a] : \E w \in Reread(Textual(d)).items[a] :
              Keeps(w, o)
<1> DEFINE text == Textual(d)
<1>1. /\ text.root = Retimed(d.root, "date", "rfc3339")
      /\ text.items = [a \in Arrays |-> {Retimed(o, "date", "rfc3339") : o \in d.items[a]}]
      /\ text.version = d.version
  BY Retiming DEF IsDocument, Textual
<1> HIDE DEF text
<1>2. /\ DOMAIN TaskDetail \ DOMAIN DetailDefaults \subseteq DOMAIN text.root
      /\ \A f \in DOMAIN TaskDetail \cap DOMAIN text.root : text.root[f] \in TakenFor[TaskDetail[f]]
      /\ Keeps(ReadAs(text.root, DOMAIN TaskDetail, DetailDefaults), Without(text.root, "_id"))
  BY <1>1, RootAgrees, ObjectUnderstood DEF detail_validator
<1>3. ASSUME NEW a \in Arrays, NEW o \in text.items[a]
      PROVE  /\ DOMAIN Item[a] \ DOMAIN ItemDefaults[a] \subseteq DOMAIN o
             /\ \A f \in DOMAIN Item[a] \cap DOMAIN o : o[f] \in TakenFor[Item[a][f]]
             /\ Keeps(ReadAs(o, DOMAIN Item[a], ItemDefaults[a]), o)
  <2>1. PICK e \in d.items[a] : o = Retimed(e, "date", "rfc3339") BY <1>1
  <2>2. Conforms(e, PinnedItem[a], RequiredItem[a]) BY DEF detail_validator
  <2>3. Understands(Item[a], ItemDefaults[a], PinnedItem[a], RequiredItem[a]) BY ItemsAgree
  <2>4. /\ DOMAIN Item[a] \ DOMAIN ItemDefaults[a] \subseteq DOMAIN o
        /\ \A f \in DOMAIN Item[a] \cap DOMAIN o : o[f] \in TakenFor[Item[a][f]]
        /\ Keeps(ReadAs(o, DOMAIN Item[a], ItemDefaults[a]), Without(o, "_id"))
    BY <2>1, <2>2, <2>3, ObjectUnderstood
  <2>5. "_id" \notin DOMAIN o
    <3>1. DOMAIN o = DOMAIN e BY <2>1, RetimedForm
    <3>2. "_id" \notin DOMAIN PinnedItem[a] BY DEF PinnedItem, Arrays
    <3>3. QED BY <2>2, <3>1, <3>2 DEF Conforms
  <2>6. Keeps(ReadAs(o, DOMAIN Item[a], ItemDefaults[a]), o)
    BY <2>4, <2>5 DEF Keeps, Without
  <2>7. QED BY <2>4, <2>6
<1>4. DetailReadable(text) BY <1>2, <1>3 DEF DetailReadable, Readable
<1>5. /\ Reread(text).root = ReadAs(text.root, DOMAIN TaskDetail, DetailDefaults)
      /\ Reread(text).version = text.version
      /\ \A a \in Arrays : \A o \in text.items[a] :
           ReadAs(o, DOMAIN Item[a], ItemDefaults[a]) \in Reread(text).items[a]
  BY DEF Reread
<1>6. text.version >= SCHEMA_VERSION BY <1>1 DEF detail_validator, SCHEMA_VERSION
<1>7. \A a \in Arrays : \A o \in text.items[a] : \E w \in Reread(text).items[a] : Keeps(w, o)
  BY <1>3, <1>5
<1>8. QED BY <1>2, <1>4, <1>5, <1>6, <1>7 DEF text

\* A document serde wrote is let in, its times as dates, and is not as it is.
LEMMA DocumentAdmitted ==
  ASSUME NEW d, IsWritten(d)
  PROVE  detail_validator(Dated(d))
<1>1. /\ Dated(d).root = Retimed(d.root, "rfc3339", "date")
      /\ Dated(d).items = [a \in Arrays |-> {Retimed(o, "rfc3339", "date") : o \in d.items[a]}]
      /\ Dated(d).version = d.version
  BY Retiming DEF IsWritten, IsDocument, Dated
<1>2. Conforms(Dated(d).root, Pinned, Required)
  BY <1>1, RootAgrees, ObjectAdmitted DEF IsWritten
<1>3. Dated(d).version >= 1 BY <1>1 DEF IsWritten, SCHEMA_VERSION
<1>4. ASSUME NEW a \in Arrays, NEW o \in Dated(d).items[a]
      PROVE  Conforms(o, PinnedItem[a], RequiredItem[a])
  <2>1. PICK e \in d.items[a] : o = Retimed(e, "rfc3339", "date") BY <1>1
  <2>2. e \in Written(Item[a]) BY DEF IsWritten
  <2>3. Admits(Item[a], PinnedItem[a], RequiredItem[a]) BY ItemsAgree
  <2>4. QED BY <2>1, <2>2, <2>3, ObjectAdmitted
<1>5. QED BY <1>2, <1>3, <1>4 DEF detail_validator

LEMMA WrittenRefused ==
  ASSUME NEW d, IsWritten(d), NEW e, e.root = WithId(d.root)
  PROVE  ~detail_validator(e)
<1>1. /\ "created_at" \in DOMAIN TaskDetail /\ TaskDetail["created_at"] = "DateTime"
      /\ Pinned["created_at"] = {"date"}
  BY DEF TaskDetail, Pinned
<1>2. "created_at" \in DOMAIN d.root /\ d.root["created_at"] = "rfc3339"
  BY <1>1, WrittenForm DEF IsWritten, Written
<1>3. "created_at" \in DOMAIN e.root /\ e.root["created_at"] = "rfc3339"
  BY <1>2 DEF WithId
<1>4. QED BY <1>1, <1>3 DEF detail_validator, Conforms

\* The smallest document there can be reads as the one that stands for none.
LEMMA MinimalReads ==
  ASSUME NEW d, IsDocument(d), detail_validator(d),
         DOMAIN d.root \ {"_id"} = Required, d.version = SCHEMA_VERSION
  PROVE  Reread(Textual(d)) = empty_for
<1> DEFINE text == Textual(d)
<1>1. /\ text.root = Retimed(d.root, "date", "rfc3339")
      /\ text.items = [a \in Arrays |-> {Retimed(o, "date", "rfc3339") : o \in d.items[a]}]
      /\ text.version = d.version
  BY Retiming DEF IsDocument, Textual
<1> HIDE DEF text
<1>2. DOMAIN text.root = DOMAIN d.root /\ \A f \in DOMAIN d.root : text.root[f] = Texting(d.root[f])
  BY <1>1, RetimedForm
<1>3. Required \subseteq DOMAIN d.root OBVIOUS
<1>4. \A f \in Required : f \in DOMAIN Pinned /\ d.root[f] \in Pinned[f]
  BY <1>3 DEF detail_validator, Conforms
<1>5. /\ Pinned["task_id"] = {"long"} /\ Pinned["schema_version"] = {"int"}
      /\ Pinned["created_at"] = {"date"} /\ Pinned["updated_at"] = {"date"}
  BY DEF Pinned
<1>6. /\ text.root["task_id"] = "long" /\ text.root["schema_version"] = "int"
      /\ text.root["created_at"] = "rfc3339" /\ text.root["updated_at"] = "rfc3339"
  BY <1>2, <1>3, <1>4, <1>5, Times DEF Required
<1>7. \A f \in {"description", "notes", "sources", "contacts", "summary"} : f \notin DOMAIN text.root
  BY <1>2 DEF Required
<1>8. \A a \in Arrays : text.items[a] = {}
  <2>1. \A a \in Arrays : a \notin DOMAIN d.root BY <1>2, <1>7 DEF Arrays
  <2>2. QED BY <1>1, <2>1 DEF IsDocument
<1>9. ReadAs(text.root, DOMAIN TaskDetail, DetailDefaults) = empty_for.root
  <2>1. DOMAIN TaskDetail = {"task_id", "schema_version", "description", "notes", "sources",
                             "contacts", "summary", "created_at", "updated_at"}
    BY DEF TaskDetail
  <2>2. /\ DetailDefaults["description"] = "blank" /\ DetailDefaults["notes"] = "array"
        /\ DetailDefaults["sources"] = "array" /\ DetailDefaults["contacts"] = "array"
        /\ DetailDefaults["summary"] = "null"
    BY DEF DetailDefaults
  <2>3. \A f \in Required : f \in DOMAIN text.root BY <1>2, <1>3
  <2>4. \A f \in DOMAIN TaskDetail :
          ReadAs(text.root, DOMAIN TaskDetail, DetailDefaults)[f] = empty_for.root[f]
    BY <1>6, <1>7, <2>1, <2>2, <2>3 DEF ReadAs, empty_for, Required
  <2>5. empty_for.root = [f \in DOMAIN TaskDetail |-> empty_for.root[f]]
    BY <2>1 DEF empty_for
  <2>6. QED BY <2>4, <2>5 DEF ReadAs
<1>10. [a \in Arrays |-> {ReadAs(o, DOMAIN Item[a], ItemDefaults[a]) : o \in text.items[a]}]
         = [a \in Arrays |-> {}]
  BY <1>8
<1>11. QED BY <1>1, <1>9, <1>10 DEF Reread, empty_for, text

-----------------------------------------------------------------------------
(* The steps.                                                              *)

\* What is stored is what another client sent and the validator let in.
IInv ==
  /\ IsDocument(doc)
  /\ author = "crewlist" => IsWritten(doc) /\ place # "stored"
  /\ place = "stored" => detail_validator(doc)

LEMMA InitIInv == Init => IInv
BY DocumentAssumption DEF Init, IInv, IsWritten

LEMMA InsertKeeps == IInv /\ Insert => IInv'
<1> SUFFICES ASSUME IInv, Insert PROVE IInv'
    OBVIOUS
<1> DEFINE inserted == [doc EXCEPT !.root = WithId(@)]
<1>1. /\ author' = author
      /\ \/ detail_validator(inserted) /\ place' = "stored" /\ doc' = inserted
         \/ place' = "refused" /\ doc' = doc
  BY DEF Insert
<1>2. /\ DOMAIN inserted = {"root", "items", "version"} /\ inserted.root = WithId(doc.root)
      /\ inserted.items = doc.items /\ inserted.version = doc.version
  BY DEF IInv, IsDocument
<1> HIDE DEF inserted
<1>3. CASE detail_validator(inserted) /\ place' = "stored" /\ doc' = inserted
  <2>1. author # "crewlist" BY <1>2, <1>3, WrittenRefused DEF IInv
  <2>2. DOMAIN WithId(doc.root) = DOMAIN doc.root \cup {"_id"}
        /\ \A f \in DOMAIN WithId(doc.root) : WithId(doc.root)[f] \in Kinds
    BY DEF WithId, Kinds, IInv, IsDocument
  <2>3. IsDocument(inserted) BY <1>2, <2>2 DEF IInv, IsDocument
  <2>4. QED BY <1>1, <1>3, <2>1, <2>3 DEF IInv
<1>4. CASE place' = "refused" /\ doc' = doc
  BY <1>1, <1>4 DEF IInv, IsWritten
<1>5. QED BY <1>1, <1>3, <1>4

LEMMA ReadKeeps == IInv /\ Read => IInv'
<1> SUFFICES ASSUME IInv, Read PROVE IInv'
    OBVIOUS
<1>1. doc' = doc /\ author' = author /\ place' \in {"read", "unreadable"} BY DEF Read
<1>2. QED BY <1>1 DEF IInv

\* The inductive invariant, for all documents.
THEOREM Invariance == Spec => []IInv
<1>1. IInv /\ [Next]_vars => IInv'
  <2>1. IInv /\ UNCHANGED vars => IInv' BY DEF IInv, vars
  <2>2. QED BY <2>1, InsertKeeps, ReadKeeps DEF Next
<1>2. QED BY <1>1, InitIInv, PTL DEF Spec

\* Whatever Mongo took, the structs read, times as texts, without a loss.
THEOREM Understood == Spec => []StoredIsUnderstood
<1>1. IInv => StoredIsUnderstood BY DocumentUnderstood DEF IInv, StoredIsUnderstood
<1>2. QED BY <1>1, Invariance, PTL

\* Mongo takes nothing serde writes, and would take all of it but for times.
THEOREM RefusedForTimes == Spec => []OnlyTimesRefused
<1>1. IInv => OnlyTimesRefused BY DocumentAdmitted DEF IInv, OnlyTimesRefused
<1>2. QED BY <1>1, Invariance, PTL

\* A document of the required fields reads as the value for an absent one.
THEOREM MinimalIsEmpty == Spec => []MinimalReadsAsEmpty
<1>1. IInv => MinimalReadsAsEmpty
  BY DocumentUnderstood, MinimalReads DEF IInv, MinimalReadsAsEmpty
<1>2. QED BY <1>1, Invariance, PTL
=============================================================================
