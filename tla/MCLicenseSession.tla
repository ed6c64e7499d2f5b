--------------------------- MODULE MCLicenseSession ---------------------------
(* Small instances of LicenseSession for TLC, and what is checked of the    *)
(* license documents it keeps.                                             *)
EXTENDS LicenseSession, LicensePayload, TLC

(* One storage key: accounts may share one, as "a+b" and "a b" do. *)
MCSlot == [a \in Account |-> "slot"]

-----------------------------------------------------------------------------
(* Documents, at time 5 *)

Now == 5

Party == [id |-> TRUE, email |-> TRUE, provider |-> TRUE, subject |-> TRUE, legacy |-> FALSE]

NoEntitlements ==
  [there |-> FALSE, byProduct |-> <<>>, maxDevices |-> Missing, addons |-> {}]

OfferingClaims ==
  [complete : BOOLEAN, product : {"fan"}, units : {0, 2, Missing}, devices : {-1, 3, Missing},
   addon : {"x", Missing}]

(* One seat of its own figure, or of one offering. *)
SubscriptionClaims ==
  {[complete |-> TRUE, named |-> named, product |-> product, active |-> active,
    validUntil |-> until, quantity |-> quantity, maxDevices |-> 2, offerings |-> offerings,
    skis |-> skis, addon |-> Missing] :
     named, active \in BOOLEAN, product \in {"fan", Missing}, until \in {Now, Now + 1, Missing},
     quantity \in {0, 2}, skis \in SUBSET {"here", "there"},
     offerings \in {<<>>} \cup {<<o>> : o \in OfferingClaims}}

Subscriptions == {Subscription(c) : c \in SubscriptionClaims} \ {Missing}

Licenses ==
  {[version |-> version, expires |-> Now, subscriptions |-> subscriptions, entitlements |-> e] :
     version \in {2, 3},
     subscriptions \in {<<>>} \cup {<<s>> : s \in Subscriptions},
     e \in {NoEntitlements, [NoEntitlements EXCEPT !.there = TRUE, !.addons = {"y"}],
            [NoEntitlements EXCEPT !.there = TRUE, !.byProduct = [fan |-> 7]]}}

And(p, s) == [p EXCEPT !.subscriptions = @ \o <<s>>]

(* A subscription that is over or not active adds nothing, one that runs    *)
(* never takes anything away, and the order does not matter.               *)
ASSUME SubscriptionsAddUp ==
  \A p \in {q \in Licenses : q.version = 2}, s \in Subscriptions :
    /\ MaxDevices(And(p, s), Now) >= MaxDevices(p, Now)
    /\ ~ s.active \/ s.validUntil <= Now => MaxDevices(And(p, s), Now) = MaxDevices(p, Now)
    /\ HasAddon(p, "x", Now) => HasAddon(And(p, s), "x", Now)
    /\ MaxDevices([p EXCEPT !.subscriptions = <<s>> \o @], Now) = MaxDevices(And(p, s), Now)

(* From version 3 on the server's figures stand in for the subscriptions,  *)
(* before that only resource_for_product knows of them.                    *)
ASSUME EntitlementsComeFirst ==
  \A p \in Licenses : DOMAIN p.entitlements.byProduct # {} =>
    /\ ResourceForProduct(p, "fan") = 7
    /\ p.version = 3 => MaxDevices(p, Now) = 7
    /\ p.version = 2 =>
         MaxDevices(p, Now) = MaxDevices([p EXCEPT !.entitlements = NoEntitlements], Now)

(* Seats of a large enough quantity turn negative. *)
ASSUME SeatsOverflow ==
  \E s \in Subscriptions :
    MaxDevices([version |-> 2, expires |-> Now, entitlements |-> NoEntitlements,
                subscriptions |-> <<[s EXCEPT !.quantity = Half \div 2]>>], Now) < 0

-----------------------------------------------------------------------------
(* Tokens *)

Claims ==
  {[version |-> version, party |-> party, exp |-> exp, entitlements |-> NoEntitlements,
    subscriptions |-> subscriptions] :
     version \in {3, Missing}, party \in {Party, [Party EXCEPT !.provider = FALSE]},
     exp \in {Now - 1, Now, Missing},
     subscriptions \in {<<>>} \cup
       {<<c>> : c \in {d \in SubscriptionClaims : d.offerings = <<>> /\ d.named /\ d.active}}}

Tokens(claims) ==
  [header : BOOLEAN, es256 : BOOLEAN, signature : BOOLEAN, verifies : BOOLEAN,
   payload : BOOLEAN, claims : claims]

(* What a token says is only looked at when its signature is the server's; *)
(* a device that is not bound is only told so of a license that is good.   *)
ASSUME SignatureFirst ==
  \A t \in Tokens(Claims) : \A ski \in {"here", Missing} :
    /\ ~ t.verifies \/ ~ t.es256 => Verify(t, Now, ski) \in {"malformed", "invalid"}
    /\ Verify(t, Now, ski) \in {"success", "device_mismatch"} => Verify(t, Now, Missing) = "success"

(* A host that syncs while it is advised to stops for good when its license *)
(* expires: the advice never comes back without another license.           *)
ASSUME AdviceEnds ==
  /\ \A t \in Tokens(Claims) \cup {Missing} :
       ShouldPoll(t, Now + 1) => ShouldPoll(t, Now)
  /\ \E t \in Tokens(Claims) : ShouldPoll(t, Now) /\ ~ ShouldPoll(t, Now + 1)

(* A license is good in the second in which it and its seats expire, but   *)
(* has no seats then.                                                      *)
ASSUME LastSecond ==
  \A p \in Licenses :
    p.version = 2 /\ (\A s \in Range(p.subscriptions) : s.validUntil = p.expires)
      => ~ IsExpired(p, Now) /\ MaxDevices(p, Now) = 0

(* One bound subscription with the device is enough, although the comment  *)
(* of allows_local_device asks for all of them.                            *)
ASSUME AnyBoundSubscription ==
  \E s, r \in Subscriptions :
    LET p == [version |-> 2, expires |-> Now, entitlements |-> NoEntitlements,
              subscriptions |-> <<s, r>>]
    IN /\ r.active /\ r.skis # {} /\ "here" \notin r.skis
       /\ AllowsLocalDevice(p, "here")
=============================================================================
