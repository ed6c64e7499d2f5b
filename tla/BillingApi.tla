------------------------------ MODULE BillingApi ------------------------------
(***************************************************************************)
(* How the SDK reads what the billing server answers                       *)
(* (packages/dp-rust-sdk/src/client.rs, and fetch_enrollment in admin.rs), *)
(* whatever of several shapes it has, and what it asks for.                *)
(*                                                                         *)
(* A JSON value is a record of its kind and what it holds; NoValue is what *)
(* is not there, and what comes of an answer that is refused.              *)
(***************************************************************************)
EXTENDS Integers, Sequences, SequencesExt

CONSTANT NoValue

Null == [kind |-> "null"]
Textual(t) == [kind |-> "text", text |-> t]
Array(items) == [kind |-> "array", items |-> items]
Object(fields) == [kind |-> "object", fields |-> fields]

Field(v, key) ==
  IF v.kind = "object" /\ key \in DOMAIN v.fields THEN v.fields[key] ELSE NoValue

Kinds == {"null", "text", "array", "object"}

(* The first of these fields that is there and of one of these kinds. *)
FirstField(v, keys, kinds) ==
  LET found == SelectSeq(keys, LAMBDA k : Field(v, k) # NoValue /\ Field(v, k).kind \in kinds)
  IN IF found = <<>> THEN NoValue ELSE Field(v, found[1])

-----------------------------------------------------------------------------
(* Answers: a status, and a body that may be empty or no JSON (NoValue).   *)

Unwrapped(body) == IF Field(body, "data") = NoValue THEN body ELSE Field(body, "data")

SendJson(answer) ==
  CASE ~ answer.success -> NoValue
    [] answer.empty -> Null
    [] answer.body = NoValue -> NoValue
    [] OTHER -> Unwrapped(answer.body)

(* What is read as a record has to be an object. *)
Record(v) == IF v.kind = "object" THEN v ELSE NoValue

Records(list) ==
  IF \A v \in Range(list.items) : v.kind = "object" THEN list.items ELSE NoValue

(* A list, or an object that has one under one of several names. *)
NamedList(value, names) ==
  LET listed == FirstField(value, names, {"array"})
  IN CASE value.kind = "array" -> Records(value)
       [] listed # NoValue -> Records(listed)
       [] OTHER -> NoValue

ListOf(answer, names) ==
  IF SendJson(answer) = NoValue THEN NoValue ELSE NamedList(SendJson(answer), names)

EnrollList(answer) == ListOf(answer, <<"enrollments", "items", "requests", "data">>)

CredentialList(answer) == ListOf(answer, <<"credentials", "items", "data", "results">>)

EnrollItem(value) ==
  LET inner == FirstField(value, <<"enrollment", "request", "item">>, Kinds)
  IN Record(IF inner = NoValue THEN value ELSE inner)

EnrollGet(answer) ==
  IF SendJson(answer) = NoValue THEN NoValue ELSE EnrollItem(SendJson(answer))

(* An enrollment is known by its enrollId, or by its id. *)
EnrollmentId(item) ==
  LET id == IF Field(item, "enrollId") # NoValue THEN Field(item, "enrollId") ELSE Field(item, "id")
  IN IF id \in {NoValue, Textual("")} THEN NoValue ELSE id

(* enroll-get, or else the row of enroll-list, if the organisation is known. *)
FetchEnrollment(got, listed, id, org) ==
  LET rows == IF EnrollList(listed) = NoValue THEN <<>>
              ELSE SelectSeq(EnrollList(listed), LAMBDA row : EnrollmentId(row) = id)
  IN CASE EnrollGet(got) # NoValue -> EnrollGet(got)
       [] org = NoValue \/ rows = <<>> -> NoValue
       [] OTHER -> rows[1]

-----------------------------------------------------------------------------
(* Questions *)

(* No filter, in any spelling. *)
Unfiltered(status) == status \in {NoValue, "", "all", "All", "ALL"}

EnrollListStatus(status) == IF Unfiltered(status) THEN NoValue ELSE status

(* The server keeps machines that are decommissioned as revoked ones. *)
CredentialListStatus(status) ==
  CASE Unfiltered(status) -> NoValue
    [] status \in {"decommissioned", "Decommissioned"} -> "revoked"
    [] OTHER -> status

(* The certificate a client shows: the chain comes first, unless it is      *)
(* blank.                                                                  *)
StoredClientIdentity(files) ==
  LET cert == IF files.chain \in {NoValue, "blank"} THEN files.crt ELSE files.chain
  IN IF NoValue \in {files.key, cert} THEN NoValue ELSE [cert |-> cert, key |-> files.key]

(* Without an identity, or with one that TLS does not take, the request is  *)
(* sent without.                                                           *)
WithOptionalStoredMtls(files, accepted) ==
  LET identity == StoredClientIdentity(files)
  IN IF identity \in accepted THEN identity ELSE NoValue

(* The organisation a command is about: the one named, or the only one      *)
(* with a CA in the state directory.                                       *)
InferEntityId(named, directories) ==
  CASE named # NoValue -> IF named = "" THEN NoValue ELSE named
    [] \E only \in directories : directories = {only} -> CHOOSE only \in directories : TRUE
    [] OTHER -> NoValue
=============================================================================
