------------------------------ MODULE Credential ------------------------------
(***************************************************************************)
(* Capability credentials: the grants that the SDK writes into those it    *)
(* signs, and what the signature covers (packages/dp-rust-sdk/src/         *)
(* credential.rs), for a new organisation and its first admin              *)
(* (packages/dp-rust-sdk/src/admin.rs) and for a machine.                  *)
(***************************************************************************)
EXTENDS Authorize, Pki

Cap(action, scope, delegable) ==
  [action |-> action, scope |-> scope, delegable |-> delegable, effect |-> "allow"]

Unscoped == <<>>

(* The empty name is above all names; "*" is a service of that name. *)
AnyName == [name |-> <<<<>>>>]
StarService == [service |-> <<"*">>]

-----------------------------------------------------------------------------
(* Permissions *)

DefaultMachinePermissions(name) ==
  <<Cap(<<"machine", "connect">>, [name |-> <<name>>], FALSE)>>

PersonalRootPermissions ==
  <<Cap(<<"cert", "issue">>, AnyName, TRUE),
    Cap(<<"machine", "bind">>, AnyName, TRUE),
    Cap(<<"machine", "connect">>, AnyName, TRUE),
    Cap(<<"seat", "bind">>, Unscoped, TRUE),
    Cap(<<"resource", "access">>, StarService, TRUE),
    Cap(<<"entity", "read">>, Unscoped, TRUE)>>

RootAdminPermissions ==
  PersonalRootPermissions \o
  <<Cap(<<"admin", "invite">>, Unscoped, TRUE),
    Cap(<<"zone", "ns">>, AnyName, TRUE),
    Cap(<<"zone", "delegate">>, AnyName, TRUE)>>

KickstartPermissions(package) ==
  IF package = "personal" THEN PersonalRootPermissions ELSE RootAdminPermissions

(* Every scope gets the entity, over what it may have said of one. *)
EntityScope(scope, entity) ==
  [d \in DOMAIN scope \cup {"entity"} |-> IF d = "entity" THEN <<entity>> ELSE scope[d]]

CapInEntity(cap, entity) == [cap EXCEPT !.scope = EntityScope(@, entity)]

WithEntityScope(permissions, entity) ==
  [i \in DOMAIN permissions |-> CapInEntity(permissions[i], entity)]

-----------------------------------------------------------------------------
(* Credentials: kind, subject, issuer and permissions are signed, a later  *)
(* endorsement by the platform is not.                                     *)

UnsignedCredential(kind, ski, issuer, permissions) ==
  [kind |-> kind, ski |-> ski, issuerSki |-> issuer, permissions |-> permissions]

SignCredential(body, k) ==
  [body |-> body, signature |-> Jws(k, body), platformCosign |-> FALSE]

VerifyCredentialSignature(credential, k) ==
  JwsVerifies(k, credential.signature, credential.body)

(* What an organisation is registered with: a credential of the CA for     *)
(* itself and one for the first admin, if there is one.                    *)
KickstartRequest(ca, admins, entity, package) ==
  LET permissions == WithEntityScope(KickstartPermissions(package), entity)
      signed(kind, ski) ==
        SignCredential(UnsignedCredential(kind, ski, ca, permissions), ca)
  IN [rootSki |-> ca,
      rootCredential |-> signed("entity_root", ca),
      adminCredentials |-> {signed("root_admin", a) : a \in admins}]

(* The permissions the server names for a machine come before the default. *)
MachinePermissions(named, name, entity) ==
  IF named # <<>> THEN named ELSE WithEntityScope(DefaultMachinePermissions(name), entity)
=============================================================================
