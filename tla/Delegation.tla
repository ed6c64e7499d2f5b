------------------------------ MODULE Delegation ------------------------------
(***************************************************************************)
(* Grants that are handed on: from the first holder's grants, each holder  *)
(* derives the next one's, if assert_subset accepts them as attenuated.    *)
(***************************************************************************)
EXTENDS Authorize

CONSTANTS
  RootGrants,   \* what the first holder may have been granted
  ChildGrants,  \* what may be asked for
  Resource      \* the resources authorization is asked for

ASSUME GrantsAssumption ==
  /\ \A g \in RootGrants \cup ChildGrants : IsGrants(g)
  /\ \A r \in Resource : IsScope(r)

VARIABLES
  root,   \* the grants at the head of the chain
  grants  \* the grants of the last holder

vars == <<root, grants>>

(* Resources that name one thing in each dimension, and a released version. *)
Concrete(resource) ==
  \A d \in DOMAIN resource :
    /\ Known(d) /\ resource[d] # NotStrings /\ One(resource[d])
    /\ Algebra[d] = "semver" => IsExact(resource[d][1]) /\ Released(resource[d][1].v)

-----------------------------------------------------------------------------
Init == root \in RootGrants /\ grants = root

Delegate ==
  /\ \E child \in ChildGrants : AssertSubset(child, grants) = "ok" /\ grants' = child
  /\ UNCHANGED root

Next == Delegate

Spec == Init /\ [][Next]_vars

-----------------------------------------------------------------------------
(* Properties *)

(* Each deny of the root reaches at least as far up the action tree as the *)
(* delegable allows it cuts into.                                          *)
DeniesAsBroad(g) ==
  \A d, a \in Range(g) :
    /\ d.effect = "deny" /\ a.effect = "allow" /\ a.delegable
    /\ ActionCovers(a.action, d.action)
    => ActionCovers(d.action, a.action)

(* However often grants are handed on, the last holder is only authorized  *)
(* to do what the first is, if the first one's denies are as broad as its  *)
(* allows.                                                                 *)
ChainAttenuates ==
  DeniesAsBroad(root) =>
    \A a \in CatalogActions, r \in Resource :
      Concrete(r) /\ Authorized(grants, a, r) = "ok" => Authorized(root, a, r) = "ok"

(* A grant that was not delegable stays with its holder: what is handed on *)
(* comes from delegable grants of the first holder.                        *)
DelegableOnly ==
  grants # root =>
    \A a \in CatalogActions, r \in Resource :
      Concrete(r) /\ Authorized(grants, a, r) = "ok" =>
        \E p \in Range(root) : p.delegable /\ p.effect = "allow" /\ Matches(p, a, r)

(* Every capability is for one entity. *)
WithinEntity(g, entity) ==
  \A cap \in Range(g) : "entity" \in DOMAIN cap.scope /\ cap.scope["entity"] = <<entity>>

(* Grants for one organisation stay in it: no holder after the first gets  *)
(* a capability, or even a deny, that names another entity or none.        *)
EntityKept ==
  "entity" \in DOMAIN Algebra /\ Algebra["entity"] = "exact" =>
    \A entity \in Segment : WithinEntity(root, entity) => WithinEntity(grants, entity)

-----------------------------------------------------------------------------
(* What a comment says and the code does not do *)

(* "Assert child CapabilitySet is a subset of parent (attenuation)",       *)
(* wherever the parent's denies are.                                       *)
SubsetIsAttenuation ==
  \A a \in CatalogActions, r \in Resource :
    Concrete(r) /\ Authorized(grants, a, r) = "ok" => Authorized(root, a, r) = "ok"
=============================================================================
