---------------------------- MODULE LicensePayload ----------------------------
(***************************************************************************)
(* What a billing license says (crates/2key_core/src/models/payload.rs,    *)
(* subscription.rs) and what makes it good (license.rs): from the claims   *)
(* of a token to the seats, add-ons and devices it grants.                 *)
(*                                                                         *)
(* Claims are a record of those that decide something; one that is absent  *)
(* or of the wrong JSON type is Missing, and Missing is what comes of a    *)
(* document that is refused.                                               *)
(***************************************************************************)
EXTENDS Integers, SequencesExt, FiniteSetsExt

CONSTANTS
  Missing,
  FarFuture,  \* the expiry of a license that has none
  Half        \* half the range of an i64

ASSUME MissingAssumption ==
  FarFuture \in Nat /\ Half \in Nat \ {0} /\ Missing \notin Int \cup BOOLEAN

(* Sums and products wrap around. *)
I64(n) == ((n + Half) % (2 * Half)) - Half

OrElse(value, default) == IF value = Missing THEN default ELSE value

AtLeast(n, value) == IF value < n THEN n ELSE value

Total(values) == FoldLeft(LAMBDA sum, n : I64(sum + n), 0, values)

-----------------------------------------------------------------------------
(* Subscriptions *)

(* An offering has an id, a code and a product, or is refused. *)
Offering(claim) ==
  IF ~ claim.complete THEN Missing
  ELSE [product |-> claim.product, units |-> AtLeast(1, OrElse(claim.units, 1)),
        devices |-> claim.devices, addon |-> claim.addon]

FirstOf(values) == IF \E v \in Range(values) : v # Missing
                   THEN SelectSeq(values, LAMBDA v : v # Missing)[1] ELSE Missing

(* Product and add-on may come from the offerings; "complete" is about the *)
(* ids, names and the status that have to be there.                        *)
Subscription(claim) ==
  LET offerings == [i \in DOMAIN claim.offerings |-> Offering(claim.offerings[i])]
      product == IF claim.product = Missing /\ offerings # <<>> THEN offerings[1].product
                 ELSE claim.product
  IN IF \/ Missing \in Range(offerings)
        \/ claim.validUntil = Missing \/ ~ claim.complete \/ product = Missing
        \/ offerings = <<>> /\ ~ claim.named
       THEN Missing
     ELSE [product |-> product, active |-> claim.active, validUntil |-> claim.validUntil,
           quantity |-> AtLeast(1, OrElse(claim.quantity, 1)),
           maxDevices |-> claim.maxDevices, offerings |-> offerings, skis |-> claim.skis,
           addon |-> FirstOf(<<claim.addon>> \o [i \in DOMAIN offerings |-> offerings[i].addon])]

-----------------------------------------------------------------------------
(* The license *)

(* A paying party has an identity, or a legacy one. *)
PartyIsNamed(party) ==
  party.id /\ party.email /\ ((party.provider /\ party.subject) \/ party.legacy)

FromClaims(claims) ==
  LET subscriptions == [i \in DOMAIN claims.subscriptions |-> Subscription(claims.subscriptions[i])]
  IN IF \/ claims.version = Missing \/ ~ PartyIsNamed(claims.party)
        \/ Missing \in Range(subscriptions)
       THEN Missing
     ELSE [version |-> claims.version, expires |-> OrElse(claims.exp, FarFuture),
           subscriptions |-> subscriptions, entitlements |-> claims.entitlements]

ActiveSubscriptions(p) == SelectSeq(p.subscriptions, LAMBDA s : s.active)

(* A license is good in the second in which it expires, a subscription is  *)
(* not.                                                                    *)
IsExpired(p, now) == now > p.expires

Running(p, now) == SelectSeq(ActiveSubscriptions(p), LAMBDA s : s.validUntil > now)

SubscriptionDevices(s) ==
  IF s.offerings # <<>>
    THEN Total([i \in DOMAIN s.offerings |->
           I64(AtLeast(0, OrElse(s.offerings[i].devices, 0)) * s.offerings[i].units * s.quantity)])
  ELSE I64(AtLeast(0, OrElse(s.maxDevices, 0)) * s.quantity)

(* The server's own figures, per product or in all, come first. *)
MaxDevices(p, now) ==
  LET e == p.entitlements
      subscribed == Total([i \in DOMAIN Running(p, now) |-> SubscriptionDevices(Running(p, now)[i])])
  IN IF p.version < 3 \/ ~ e.there THEN subscribed
     ELSE IF DOMAIN e.byProduct # {}
       THEN FoldFunction(LAMBDA n, sum : I64(AtLeast(0, OrElse(n, 0)) + sum), 0, e.byProduct)
     ELSE IF e.maxDevices # Missing THEN AtLeast(0, e.maxDevices)
     ELSE subscribed

(* The figure of one product; whatever the version. *)
ResourceForProduct(p, product) ==
  IF p.entitlements.there /\ product \in DOMAIN p.entitlements.byProduct
    THEN AtLeast(0, OrElse(p.entitlements.byProduct[product], 0)) ELSE 0

HasAddon(p, addon, now) ==
  \/ p.version >= 3 /\ p.entitlements.there /\ addon \in p.entitlements.addons
  \/ \E s \in Range(Running(p, now)) : s.addon = addon

(* A subscription that lists devices is bound to them. *)
AllowsLocalDevice(p, ski) ==
  LET bound == {s \in Range(ActiveSubscriptions(p)) : s.skis # {}}
  IN bound = {} \/ \E s \in bound : ski \in s.skis

-----------------------------------------------------------------------------
(* verify_and_decode_for_device: the first thing that is wrong is reported. *)

Verify(token, now, ski) ==
  LET p == FromClaims(token.claims)
  IN IF ~ token.header THEN "malformed"
     ELSE IF ~ token.es256 THEN "invalid"
     ELSE IF ~ token.signature THEN "malformed"
     ELSE IF ~ token.verifies THEN "invalid"
     ELSE IF ~ token.payload \/ p = Missing THEN "malformed"
     ELSE IF IsExpired(p, now) THEN "expired"
     ELSE IF ski # Missing /\ ~ AllowsLocalDevice(p, ski) THEN "device_mismatch"
     ELSE "success"

(* Whether a host is advised to go on syncing. *)
ShouldPoll(token, now) ==
  /\ token # Missing /\ Verify(token, now, Missing) = "success"
  /\ FromClaims(token.claims).subscriptions # <<>>
=============================================================================
