------------------------------ MODULE MCCsrInbox ------------------------------
(* Small instances of CsrInbox for TLC, and what is checked of the names    *)
(* in the inbox.  The key pairs of CAs are interchangeable: nothing         *)
(* compares or orders them but for equality.                               *)
EXTENDS CsrInbox, MachineName, BillingApi, TLC

Symmetry == Permutations(Ca)

-----------------------------------------------------------------------------
(* Names *)

Dashes == <<"-", "-">>

Identities(separator) ==
  {i \in [name : Text({"a", "-", "A"}, 3), separator : {separator},
          entity : Text({"a", "-", "@"}, 3)] : Valid(i)}

(* A name is read back as it was made, unless its entity begins with the    *)
(* end of the separator: then it is refused, or taken for another machine  *)
(* of another organisation.                                                *)
ASSUME NamesAreReadBack ==
  \A separator \in {Dashes, <<"-">>, <<"@", "@">>} : \A i \in Identities(separator) :
    LET cut == Len(separator) > 1 /\ Head(i.entity) = Last(separator)
    IN /\ ~ cut => Parse(AsStr(i), separator) = {i}
       /\ cut => i \notin Parse(AsStr(i), separator)

(* The one for the other: "a" of "-a" for "a-" of "a".                      *)
ASSUME NamesCollide ==
  LET here == [name |-> <<"a">>, separator |-> Dashes, entity |-> <<"-", "a">>]
      there == [name |-> <<"a", "-">>, separator |-> Dashes, entity |-> <<"a">>]
  IN /\ Valid(here) /\ Valid(there) /\ AsStr(here) = AsStr(there)
     /\ PermittedName({AsStr(here)}, <<"s">>, Dashes) = there.name

(* Every entity that signup makes is one for "--", but not for another     *)
(* separator.                                                              *)
ASSUME SignupMakesEntities ==
  /\ \A kind \in {"personal", "domain", "brand"}, raw \in Text({"A", "-", "@", "~", " "}, 4) :
       \A t \in ResolveSignup(kind, raw) : ValidEntityId(t.entity, Dashes)
  /\ \E t \in ResolveSignup("brand", <<"A", ".", "A">>) : ~ ValidEntityId(t.entity, <<".">>)

-----------------------------------------------------------------------------
(* Answers *)

Success(body) == [success |-> TRUE, empty |-> FALSE, body |-> body]
Failure == [success |-> FALSE, empty |-> TRUE, body |-> NoValue]
Empty == [success |-> TRUE, empty |-> TRUE, body |-> NoValue]

One(key, v) == Object([k \in {key} |-> v])

RowOf(id) == Object([enrollId |-> Textual(id), status |-> Textual("pending")])

Rows == {<<>>, <<RowOf("e1")>>, <<RowOf("e1"), RowOf("e2")>>}

(* A value as it is, in an envelope, and beside other fields in either.     *)
Enveloped(v) ==
  {v, One("data", v)} \cup
    (IF v.kind = "object" THEN {Object(v.fields @@ [total |-> Null]),
                                One("data", Object(v.fields @@ [data |-> Null]))} ELSE {})

(* A list arrives whatever shape it has: bare, under a name, or in an       *)
(* envelope.                                                               *)
ASSUME ListsArrive ==
  \A rows \in Rows : \A name \in {"enrollments", "items", "requests"} :
    \A v \in Enveloped(Array(rows)) \cup Enveloped(One(name, Array(rows))) :
      EnrollList(Success(v)) = rows

(* But a null beside it, where an envelope would be, hides it; and nothing  *)
(* but a list is taken for one.                                            *)
ASSUME ListsAreLists ==
  /\ \A rows \in Rows :
       EnrollList(Success(Object([enrollments |-> Array(rows), data |-> Null]))) = NoValue
  /\ \A answer \in {Failure, Empty, Success(Null), Success(One("rows", Array(<<>>))),
                     Success(Array(<<Null>>))} :
       EnrollList(answer) = NoValue /\ CredentialList(answer) = NoValue

(* What is fetched is the enrollment that was asked for, from the row the   *)
(* server shows, or from the list, where the first of that id counts; but  *)
(* a row with a field named "request" is taken for what that field holds.  *)
ASSUME EnrollmentsAreFetched ==
  /\ \A v \in Enveloped(RowOf("e1")) \cup Enveloped(One("enrollment", RowOf("e1"))) :
       EnrollmentId(FetchEnrollment(Success(v), Failure, Textual("e1"), NoValue)) = Textual("e1")
  /\ \A rows \in Rows, id \in {"e1", "e2", "e3"} :
       LET found == FetchEnrollment(Failure, Success(Array(rows)), Textual(id), "acme")
       IN IF RowOf(id) \in Range(rows) THEN found = RowOf(id) ELSE found = NoValue
  /\ \A listed \in {Success(Array(rows)) : rows \in Rows} :
       FetchEnrollment(Failure, listed, Textual("e1"), NoValue) = NoValue
  /\ \A got \in {Empty, Success(Null), Success(Array(<<>>))} : EnrollGet(got) = NoValue
  /\ EnrollItem(Object([enrollId |-> Textual("e1"), request |-> Null])) = NoValue

(* A filter that names a status the server does not have would list         *)
(* nothing: none is sent as it is.                                         *)
ASSUME StatusesAreTheServers ==
  \A status \in {NoValue, "", "all", "ALL", "active", "revoked", "decommissioned"} :
    /\ CredentialListStatus(status) \in {NoValue, "active", "revoked"}
    /\ status \in {"active", "revoked"} => CredentialListStatus(status) = status
    /\ EnrollListStatus(status) = NoValue <=> CredentialListStatus(status) = NoValue

(* A machine that has its key and any certificate always gets its request   *)
(* through, shown or not; the one that is shown is never a blank file      *)
(* while there is a chain.                                                 *)
ASSUME IdentitiesAreShown ==
  \A files \in [key : {"key", NoValue}, chain : {"chain", "blank", NoValue},
                crt : {"crt", NoValue}] :
    /\ files.key = "key" /\ files.crt = "crt" => StoredClientIdentity(files) # NoValue
    /\ StoredClientIdentity(files) # NoValue =>
         StoredClientIdentity(files).cert = (IF files.chain = "chain" THEN "chain" ELSE "crt")
    /\ WithOptionalStoredMtls(files, {}) = NoValue

(* A command never guesses between organisations. *)
ASSUME OrganisationsAreNotGuessed ==
  \A named \in {NoValue, "", "acme"}, directories \in SUBSET {"acme", "other"} :
    LET org == InferEntityId(named, directories)
    IN org # NoValue /\ named = NoValue => directories = {org}
=============================================================================
