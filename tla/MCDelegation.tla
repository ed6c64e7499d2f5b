----------------------------- MODULE MCDelegation -----------------------------
(* Small instances of Delegation for TLC, with the catalog of the shared    *)
(* conformance fixtures (conformance/dp-authz/fixtures.json).               *)
EXTENDS Delegation, Credential

MCSegment ==
  {"cert", "issue", "machine", "bind", "connect", "publish", "admin", "invite", "zone", "ns",
   "delegate", "seat", "resource", "access", "entity", "read",
   "*", "us", "eu", "ssh", "http", "acme", "other"}

(* The actions of that catalog that the grants below are about, and those  *)
(* of the organisation profiles of the SDK.                                *)
MCActions ==
  {<<"publish">>} \cup {cap.action : cap \in Range(RootAdminPermissions)}

MCAlgebra ==
  [entity |-> "exact", name |-> "dns_prefix", service |-> "set",
   resource |-> "path_prefix", version |-> "semver"]

V(major, minor, patch) == [Ver(major, minor, patch) EXCEPT !.pre = Release]

RC(major, minor, patch) == [V(major, minor, patch) EXCEPT !.pre = 0]

Expr(op, v) == [op |-> op, v |-> v, w |-> v]

Exactly(v) == Expr("exact", v)

Between(v, w) == [op |-> "between", v |-> v, w |-> w]

(* No restriction, or one dimension restricted to one value. *)
Scopes(d, values) == {<<>>} \cup {[x \in {d} |-> v] : v \in values}

Caps(actions, scopes) ==
  [action : actions, scope : scopes, delegable : BOOLEAN, effect : {"allow", "deny"}]

Allows(caps) == {c \in caps : c.effect = "allow"}

(* An allow with or without a deny beside it. *)
Pairs(caps) ==
  {<<a>> : a \in Allows(caps)} \cup {<<a, d>> : a \in Allows(caps), d \in caps \ Allows(caps)}

CertActions == {<<"cert", "issue">>, <<"cert", "*">>}

(* Names and paths of up to two pieces; sets of up to two tokens. *)
Trees == {<<<<>>>>, <<<<"us">>>>, <<<<"us", "eu">>>>, <<<<"eu", "us">>>>}

Sets == {<<"ssh">>, <<"http">>, <<"ssh", "http">>, <<>>}

Ranges ==
  {<<Exactly(V(1, 1, 0))>>, <<Expr("caret", V(1, 0, 0))>>, <<Expr("tilde", V(1, 1, 0))>>,
   <<Expr("caret", V(0, 1, 0))>>, <<Expr("major", V(1, 0, 0)), Exactly(V(0, 1, 1))>>,
   <<Between(V(0, 1, 0), V(1, 1, 0))>>, <<Expr("caret", V(Top, 0, 0))>>}

TreeCaps == Caps(CertActions, Scopes("resource", Trees))
NameCaps == Caps({<<"publish">>}, Scopes("name", Trees))
SetCaps == Caps({<<"publish">>}, Scopes("service", Sets \cup {NotStrings}))
VersionCaps == Caps({<<"publish">>}, Scopes("version", Ranges))
MixedCaps ==
  Caps({<<"publish">>},
       Scopes("resource", {<<<<"us">>>>}) \cup Scopes("entity", {<<"acme">>})
         \cup {[resource |-> <<<<"us">>>>, entity |-> <<"acme">>]})

MachineOf(name, entity) == MachinePermissions(<<>>, name, entity)

MachineGrants(name) == MachineOf(name, "acme")

MCRootGrants ==
  Pairs(TreeCaps) \cup Pairs(NameCaps) \cup Pairs(SetCaps) \cup Pairs(VersionCaps)
    \cup Pairs(MixedCaps)
    \cup {WithEntityScope(KickstartPermissions(p), "acme") : p \in {"personal", "enterprise"}}

MCChildGrants ==
  {<<c>> : c \in TreeCaps \cup NameCaps \cup SetCaps \cup VersionCaps \cup MixedCaps}
    \cup {WithEntityScope(PersonalRootPermissions, "acme"), MachineGrants(<<"us", "eu">>),
          MachineOf(<<"us", "eu">>, "other"), DefaultMachinePermissions(<<"us">>)}

MCResource ==
  {[resource |-> <<<<"us", "eu">>>>], [resource |-> <<<<"eu", "us">>>>],
   [resource |-> <<<<"us">>>>, entity |-> <<"acme">>],
   [name |-> <<<<"us", "eu">>>>], [name |-> <<<<"us">>>>],
   [name |-> <<<<"us", "eu">>>>, entity |-> <<"acme">>],
   [service |-> <<"ssh">>], [service |-> <<"http">>],
   [version |-> <<Exactly(V(1, 1, 0))>>], [version |-> <<Exactly(V(1, 1, 1))>>],
   [version |-> <<Exactly(V(0, 1, 1))>>], [version |-> <<Exactly(RC(1, 1, 0))>>],
   [version |-> <<Exactly(V(Top, 0, 0))>>]}

-----------------------------------------------------------------------------
(* The shared fixtures hold of the algebra as it is modelled here. *)

Grant(action, scope, delegable, effect) ==
  [action |-> action, scope |-> scope, delegable |-> delegable, effect |-> effect]

Res(path) == [resource |-> <<path>>]

Vsn(r) == [version |-> <<r>>]

ASSUME PrimitiveFixtures ==
  /\ ActionCovers(<<"cert", "*">>, <<"cert", "issue">>)
  /\ ActionCovers(<<"cert", "*">>, <<"cert">>)
  /\ ~ ActionCovers(<<"cert", "*">>, <<"certificate", "issue">>)
  /\ ~ ActionCovers(<<"machine", "bind">>, <<"machine", "connect">>)
  /\ IsSuffix(<<>>, <<"db1", "zone6", "us-east">>)
  /\ IsSuffix(<<"us-east">>, <<"zone6", "us-east">>)
  /\ ~ IsSuffix(<<"zone6", "us-east">>, <<"us-east">>)
  /\ IsPrefix(<<"@acme", "turbofan">>, <<"@acme", "turbofan", "Rotor">>)
  /\ ~ IsPrefix(<<"@acme", "turbofan">>, <<"@acme", "turbofan-extra">>)
  /\ SemverSatisfies(Exactly(V(2, 4, 1)), Expr("caret", V(2, 0, 0)))
  /\ ~ SemverSatisfies(Exactly(V(3, 0, 0)), Expr("caret", V(2, 0, 0)))
  /\ SemverSatisfies(Exactly(V(2, 4, 1)), Expr("tilde", V(2, 4, 0)))
  /\ ~ SemverSatisfies(Exactly(V(2, 5, 0)), Expr("tilde", V(2, 4, 0)))
  /\ SemverSatisfies(Exactly(V(1, 9, 0)), Expr("major", V(1, 0, 0)))
  /\ ~ SemverSatisfies(Exactly(V(2, 0, 0)), Expr("major", V(1, 0, 0)))
  /\ SemverSatisfies(Exactly(V(2, 4, 1)), Between(V(2, 0, 0), V(3, 0, 0)))
  /\ ~ SemverSatisfies(Exactly(RC(2, 4, 0)), Expr("caret", V(2, 4, 0)))
  /\ SemverSatisfies(Exactly(RC(2, 4, 0)), Exactly(RC(2, 4, 0)))
  /\ SemverRangeSubset(Expr("caret", V(2, 4, 0)), Expr("caret", V(2, 0, 0)))
  /\ ~ SemverRangeSubset(Expr("caret", V(2, 0, 0)), Expr("caret", V(2, 4, 0)))
  /\ SemverRangeSubset(Exactly(V(2, 4, 1)), Expr("caret", V(2, 0, 0)))
  /\ SemverRangeSubset(Expr("tilde", V(2, 4, 0)), Expr("major", V(2, 0, 0)))
  /\ ~ SemverRangeSubset(Expr("major", V(2, 0, 0)), Expr("tilde", V(2, 4, 0)))

ASSUME GrantFixtures ==
  LET publish(scope, effect) == Grant(<<"publish">>, scope, TRUE, effect)
      acme == Res(<<"@acme">>)
      secrets == Res(<<"@acme", "secrets">>)
      fan == Res(<<"@acme", "turbofan">>)
      service(l) == [service |-> l]
      bind(l) == <<Grant(<<"machine", "bind">>, [name |-> <<l>>], TRUE, "allow")>>
      minor4 == <<publish(Vsn(Expr("caret", V(2, 4, 0))), "allow")>>
      major2 == <<publish(Vsn(Expr("caret", V(2, 0, 0))), "allow")>>
  IN
  /\ Authorized(<<publish(service(<<"ssh", "http">>), "allow")>>, <<"publish">>,
                service(<<"ssh">>)) = "ok"
  /\ Authorized(<<publish(service(<<"ssh", "http">>), "allow")>>, <<"publish">>,
                service(<<"rdp">>)) = "NOT_AUTHORIZED"
  /\ Authorized(<<publish(acme, "allow"), publish(acme, "deny")>>, <<"publish">>, fan)
       = "EXPLICIT_DENY"
  /\ Authorized(<<publish(acme, "allow"), publish(secrets, "deny")>>, <<"publish">>, fan)
       = "ok"
  /\ Authorized(major2, <<"publish">>, Vsn(Exactly(V(2, 4, 1)))) = "ok"
  /\ Authorized(major2, <<"publish">>, Vsn(Exactly(V(3, 0, 0)))) = "NOT_AUTHORIZED"
  /\ AssertSubset(<<Grant(<<"cert", "issue">>, fan, FALSE, "allow")>>,
                  <<Grant(<<"cert", "*">>, acme, TRUE, "allow")>>) = "ok"
  /\ AssertSubset(bind(<<>>), bind(<<"us-east">>)) = "SUBSET_VIOLATION"
  /\ AssertSubset(minor4, major2) = "ok"
  /\ AssertSubset(major2, minor4) = "SUBSET_VIOLATION"
  /\ AssertSubset(<<publish(fan, "allow")>>, <<publish(acme, "deny")>>)
       = "DENY_OVERRIDE_VIOLATION"
  /\ AssertSubset(<<publish(secrets, "deny")>>, <<publish(acme, "allow")>>) = "ok"

(* A prerelease counts as a part of a list of ranges that authorize finds   *)
(* it outside of.                                                          *)
ASSUME PrereleaseInARange ==
  LET publish(versions) == <<Grant(<<"publish">>, [version |-> versions], TRUE, "allow")>>
      parent == publish(<<Expr("caret", V(1, 0, 0))>>)
      child == publish(<<Exactly(RC(1, 1, 0)), Exactly(V(1, 1, 0))>>)
      rc == Vsn(Exactly(RC(1, 1, 0)))
  IN /\ AssertSubset(child, parent) = "ok"
     /\ Authorized(child, <<"publish">>, rc) = "ok"
     /\ Authorized(parent, <<"publish">>, rc) = "NOT_AUTHORIZED"

-----------------------------------------------------------------------------
(* The profiles of the SDK *)

Names == {<<"us">>, <<"us", "eu">>, <<"eu", "us">>}

(* What a machine is given without further ado is a part of what any       *)
(* organisation starts with, but not of what another one starts with; and  *)
(* a machine hands nothing on.                                             *)
ASSUME MachinesAreAttenuated ==
  \A name \in Names, package \in {"personal", "enterprise"} :
    LET profile(entity) == WithEntityScope(KickstartPermissions(package), entity)
    IN /\ AssertSubset(MachineGrants(name), profile("acme")) = "ok"
       /\ AssertSubset(MachineGrants(name), profile("other")) = "SUBSET_VIOLATION"
       /\ AssertSubset(MachineGrants(name), MachineGrants(name)) = "SUBSET_VIOLATION"

(* A machine connects as itself and as the names below its own, in its     *)
(* entity, and may do nothing else.                                        *)
ASSUME MachinesConnectAsThemselves ==
  \A name, other \in Names, entity \in {"acme", "other"}, action \in CatalogActions :
    LET resource == [name |-> <<other>>, entity |-> <<entity>>]
    IN Authorized(MachineGrants(name), action, resource) = "ok"
         <=> action = <<"machine", "connect">> /\ entity = "acme" /\ IsSuffix(name, other)

(* A person's organisation may do less than an enterprise; to neither does *)
(* "*" mean any service.                                                   *)
ASSUME Profiles ==
  /\ AssertSubset(PersonalRootPermissions, RootAdminPermissions) = "ok"
  /\ AssertSubset(RootAdminPermissions, PersonalRootPermissions) = "SUBSET_VIOLATION"
  /\ Authorized(RootAdminPermissions, <<"resource", "access">>, [service |-> <<"ssh">>])
       = "NOT_AUTHORIZED"

(* A registration and its repetition carry credentials that verify with    *)
(* the CA alone; an endorsement leaves them as they are, a permission more *)
(* does not.                                                               *)
ASSUME KickstartVerifies ==
  \A package \in {"personal", "enterprise"}, admins \in SUBSET {"admin"} :
    LET request == KickstartRequest("ca", admins, "acme", package)
    IN \A c \in {request.rootCredential} \cup request.adminCredentials :
         /\ VerifyCredentialSignature(c, request.rootSki)
         /\ ~ VerifyCredentialSignature(c, "admin")
         /\ VerifyCredentialSignature([c EXCEPT !.platformCosign = TRUE], "ca")
         /\ ~ VerifyCredentialSignature(
                [c EXCEPT !.body.permissions = @ \o DefaultMachinePermissions(<<"us">>)], "ca")
=============================================================================
