------------------------------- MODULE Authorize -------------------------------
(***************************************************************************)
(* The capability algebra (packages/dp-rust/src/authorize.rs): what a set  *)
(* of grants authorizes, and when one set of grants attenuates another.    *)
(*                                                                         *)
(* Strings are cut where the code cuts them: an action and a DNS name at   *)
(* its dots, a path at its slashes; the empty string is the empty sequence. *)
(***************************************************************************)
EXTENDS Semver, SequencesExt

CONSTANTS
  Segment,         \* the pieces of actions, names and paths; whole tokens
  CatalogActions,  \* the actions of the service's catalog
  Algebra,         \* the algebra of each scope dimension of the catalog
  NotStrings       \* a JSON value that is neither a string nor a list of them

Action ==
  { a \in Seq(Segment) : a # <<>> /\ \A i \in 1 .. Len(a) - 1 : a[i] # "*" }

(* as_string_list: a string stands for the list of itself. *)
Atom(algebra) ==
  CASE algebra \in {"dns_prefix", "path_prefix"} -> Seq(Segment)
    [] algebra = "semver" -> RangeExpr
    [] OTHER -> Segment

ScopeValue(d) == Seq(Atom(Algebra[d])) \cup {NotStrings}

ASSUME CatalogAssumption ==
  /\ CatalogActions \subseteq Action
  /\ \A d \in DOMAIN Algebra : NotStrings \notin Seq(Atom(Algebra[d]))

(* A scope is a function from dimensions to values, a resource too; grants *)
(* are a sequence of capabilities.                                         *)
IsScope(scope) ==
  \A d \in DOMAIN scope : d \in DOMAIN Algebra => scope[d] \in ScopeValue(d)

IsGrants(grants) ==
  /\ grants \in Seq(Range(grants))
  /\ \A cap \in Range(grants) :
       /\ cap.action \in Action /\ IsScope(cap.scope)
       /\ cap.delegable \in BOOLEAN /\ cap.effect \in {"allow", "deny"}

-----------------------------------------------------------------------------
(* Actions *)

(* cert.* is; * alone is not. *)
Wild(action) == Len(action) > 1 /\ Last(action) = "*"

ActionCovers(granted, requested) ==
  \/ granted = requested
  \/ Wild(granted) /\ IsPrefix(Front(granted), requested)

ActionKnown(action) ==
  \/ action \in CatalogActions
  \/ Wild(action) /\ \E a \in CatalogActions : IsPrefix(Front(action), a)

-----------------------------------------------------------------------------
(* Scope values *)

One(value) == Len(value) = 1

ValueSubset(child, parent, algebra) ==
  /\ child # NotStrings /\ parent # NotStrings
  /\ \/ algebra = "exact" /\ One(child) /\ One(parent) /\ child[1] = parent[1]
     \/ algebra = "dns_prefix" /\ One(child) /\ One(parent) /\ IsSuffix(parent[1], child[1])
     \/ algebra = "path_prefix" /\ One(child) /\ One(parent) /\ IsPrefix(parent[1], child[1])
     \/ algebra = "set" /\ Range(child) \subseteq Range(parent)
     \/ /\ algebra = "semver"
        /\ child # <<>> /\ parent # <<>>
        /\ IF One(child) /\ IsExact(child[1])
             THEN \E r \in Range(parent) : SemverSatisfies(child[1], r)
             ELSE \A c \in Range(child) : \E r \in Range(parent) : SemverRangeSubset(c, r)

(* Broken: a deny that is narrower than the allow is not noticed. *)
ValuesOverlapOneWay(a, b, algebra) == ValueSubset(a, b, algebra)

ValuesOverlap(a, b, algebra) ==
  /\ a # NotStrings /\ b # NotStrings
  /\ \/ algebra = "exact" /\ One(a) /\ One(b) /\ a[1] = b[1]
     \/ /\ algebra = "dns_prefix" /\ One(a) /\ One(b)
        /\ IsSuffix(b[1], a[1]) \/ IsSuffix(a[1], b[1])
     \/ /\ algebra = "path_prefix" /\ One(a) /\ One(b)
        /\ IsPrefix(b[1], a[1]) \/ IsPrefix(a[1], b[1])
     \/ algebra = "set" /\ Range(a) \cap Range(b) # {}
     \/ /\ algebra = "semver"
        /\ \E r \in Range(a), q \in Range(b) : SemverRangesOverlap(r, q)

-----------------------------------------------------------------------------
(* Scopes *)

Known(d) == d \in DOMAIN Algebra

(* Every dimension the grant restricts is there and within the grant. *)
ResourceSatisfiesScope(resource, scope) ==
  \A d \in DOMAIN scope :
    /\ d \in DOMAIN resource /\ Known(d)
    /\ ValueSubset(resource[d], scope[d], Algebra[d])

(* Broken: a dimension the child leaves open is not compared. *)
ScopeMapSubsetOpen(child, parent) ==
  \A d \in DOMAIN parent \cap DOMAIN child :
    Known(d) /\ ValueSubset(child[d], parent[d], Algebra[d])

(* A child may restrict more dimensions than its parent, never fewer. *)
ScopeMapSubset(child, parent) ==
  \A d \in DOMAIN parent :
    /\ d \in DOMAIN child /\ Known(d)
    /\ ValueSubset(child[d], parent[d], Algebra[d])

(* A dimension that the allow leaves open overlaps with any deny. *)
ScopesOverlapDeny(allow, deny) ==
  \A d \in DOMAIN deny \cap DOMAIN allow :
    Known(d) /\ ValuesOverlap(allow[d], deny[d], Algebra[d])

-----------------------------------------------------------------------------
(* Grants *)

Matches(cap, action, resource) ==
  ActionCovers(cap.action, action) /\ ResourceSatisfiesScope(resource, cap.scope)

Granted(grants, effect, action, resource) ==
  \E cap \in Range(grants) : cap.effect = effect /\ Matches(cap, action, resource)

Authorized(grants, action, resource) ==
  CASE action \notin CatalogActions -> "UNKNOWN_ACTION"
    [] action \in CatalogActions /\ \E d \in DOMAIN resource : ~ Known(d) ->
         "UNKNOWN_SCOPE_DIMENSION"
    [] OTHER ->
         IF Granted(grants, "deny", action, resource) THEN "EXPLICIT_DENY"
         ELSE IF Granted(grants, "allow", action, resource) THEN "ok"
         ELSE "NOT_AUTHORIZED"

ParentDenyBlocksAllow(cap, parent) ==
  \E p \in Range(parent) :
    /\ p.effect = "deny" /\ ActionCovers(p.action, cap.action)
    /\ ScopesOverlapDeny(cap.scope, p.scope)

(* A deny may be derived from any delegable grant, an allow from an allow. *)
Covered(cap, parent) ==
  \E p \in Range(parent) :
    /\ p.delegable
    /\ cap.effect = "allow" => p.effect = "allow"
    /\ ActionCovers(p.action, cap.action) /\ ScopeMapSubset(cap.scope, p.scope)

(* What assert_subset finds about one capability of the child. *)
Verdict(cap, parent) ==
  IF ~ ActionKnown(cap.action) THEN "UNKNOWN_ACTION"
  ELSE IF \E d \in DOMAIN cap.scope : ~ Known(d) THEN "UNKNOWN_SCOPE_DIMENSION"
  ELSE IF cap.effect = "allow" /\ ParentDenyBlocksAllow(cap, parent)
    THEN "DENY_OVERRIDE_VIOLATION"
  ELSE IF ~ Covered(cap, parent) THEN "SUBSET_VIOLATION"
  ELSE "ok"

(* The first capability that is not fine decides. *)
AssertSubset(child, parent) ==
  LET bad == { i \in 1 .. Len(child) : Verdict(child[i], parent) # "ok" }
  IN IF bad = {} THEN "ok"
     ELSE Verdict(child[CHOOSE i \in bad : \A j \in bad : i <= j], parent)
=============================================================================
