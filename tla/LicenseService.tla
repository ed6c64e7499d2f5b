---------------------------- MODULE LicenseService ----------------------------
(***************************************************************************)
(* What sync_license promises a host (crates/2key_core/src/session.rs), as *)
(* if nothing were cached and nothing stored: a call is answered with the  *)
(* license the server has for the host's account at one moment of the      *)
(* call, the license verifies at a later one, and then it is returned; or  *)
(* the call ends with nothing.                                             *)
(***************************************************************************)
CONSTANTS Host, Account, License, None

VARIABLES
  current,   \* server: the license of each account
  verifies,  \* the licenses that now pass verification
  account,   \* the account each host is signed in to
  call,      \* how far each host's call is, NoCall if it is in none
  got        \* what the last call of each host returned

serviceVars == <<current, verifies, account, call, got>>

NoCall == [stage |-> "none", license |-> None]

Init ==
  /\ current \in [Account -> License]
  /\ verifies \in SUBSET License
  /\ account \in [Host -> Account]
  /\ call = [h \in Host |-> NoCall]
  /\ got = [h \in Host |-> None]

-----------------------------------------------------------------------------
(* A host *)

Enters(h, stage, license) ==
  /\ call' = [call EXCEPT ![h] = [stage |-> stage, license |-> license]]
  /\ UNCHANGED <<current, verifies, account>>

Leaves(h, license) ==
  /\ call[h] # NoCall
  /\ call' = [call EXCEPT ![h] = NoCall]
  /\ got' = [got EXCEPT ![h] = license]
  /\ UNCHANGED <<current, verifies, account>>

Ask(h) ==
  call[h] = NoCall /\ Enters(h, "asked", None) /\ got' = [got EXCEPT ![h] = None]

Answer(h) ==
  call[h].stage = "asked" /\ Enters(h, "answered", current[account[h]]) /\ UNCHANGED got

Check(h) ==
  /\ call[h].stage = "answered" /\ call[h].license \in verifies
  /\ Enters(h, "checked", call[h].license) /\ UNCHANGED got

CheckAndReturn(h) ==
  call[h].stage = "answered" /\ call[h].license \in verifies /\ Leaves(h, call[h].license)

Return(h) == call[h].stage = "checked" /\ Leaves(h, call[h].license)

GiveUp(h) == Leaves(h, None)

(* Between two calls the host may sign in to another account, ... *)
Switch(h) ==
  /\ call[h] = NoCall
  /\ \E a \in Account : account' = [account EXCEPT ![h] = a]
  /\ UNCHANGED <<current, verifies, call, got>>

(* ... and at any moment it may die. *)
Restart(h) ==
  /\ \E a \in Account : account' = [account EXCEPT ![h] = a]
  /\ call' = [call EXCEPT ![h] = NoCall]
  /\ got' = [got EXCEPT ![h] = None]
  /\ UNCHANGED <<current, verifies>>

-----------------------------------------------------------------------------
(* The world around *)

Reissue ==
  /\ current' \in [Account -> License]
  /\ UNCHANGED <<verifies, account, call, got>>

ClockMoves ==
  /\ verifies' \in SUBSET License
  /\ UNCHANGED <<current, account, call, got>>

-----------------------------------------------------------------------------
Next ==
  \/ \E h \in Host :
       \/ Ask(h) \/ Answer(h) \/ Check(h) \/ CheckAndReturn(h) \/ Return(h) \/ GiveUp(h)
       \/ Switch(h) \/ Restart(h)
  \/ Reissue \/ ClockMoves

Spec == Init /\ [][Next]_serviceVars
=============================================================================
