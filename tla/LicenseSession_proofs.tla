-------------------------- MODULE LicenseSession_proofs --------------------------
(* The license session: its types, what a sync returns and the promise of  *)
(* LicenseService, for any hosts, accounts, storage keys and licenses.     *)
EXTENDS LicenseSession, LicensePayload, TLAPS

LEMMA TypeInit == Init => TypeOK
<1> SUFFICES ASSUME Init PROVE TypeOK
  OBVIOUS
<1>1. stored \in [Slots -> Session \cup {None}]
  BY DEF Init
<1>2. \A a \in Account : Fresh(a) \in Session
  BY DEF Fresh, Session
<1>3. held \in [Host -> Session]
  BY <1>2 DEF Init
<1>4. answer \in [Host -> [jwt : License \cup {None}, etag : License \cup {None}]]
  BY DEF Init, NoAnswer
<1> QED
  BY <1>1, <1>3, <1>4 DEF Init, TypeOK

LEMMA TypeStep == TypeOK /\ [Next]_vars => TypeOK'
<1> SUFFICES ASSUME TypeOK, [Next]_vars PROVE TypeOK'
  OBVIOUS
<1> USE DEF TypeOK
<1>1. ASSUME NEW h \in Host, Restart(h) PROVE TypeOK'
  BY <1>1 DEF Restart, Return, Goto, NoAnswer, Fresh, Session
<1>2. ASSUME NEW h \in Host, Load(h) PROVE TypeOK'
  BY <1>2 DEF Load, hostVars, Slots
<1>3. ASSUME NEW h \in Host, SignIn(h) PROVE TypeOK'
  BY <1>3 DEF SignIn, hostVars, Session
<1>4. ASSUME NEW h \in Host, Save(h) PROVE TypeOK'
  BY <1>4 DEF Save, hostVars
<1>5. ASSUME NEW h \in Host, Clear(h) PROVE TypeOK'
  BY <1>5 DEF Clear, hostVars
<1>6. ASSUME NEW h \in Host, Sync(h) PROVE TypeOK'
  BY <1>6 DEF Sync, Goto
<1>7. ASSUME NEW h \in Host, FetchLicense(h) PROVE TypeOK'
  <2> DEFINE license == current[held[h].account]
  <2>1. license \in License
    BY DEF Session
  <2>2. \E reply \in [jwt : License \cup {None}, etag : License \cup {None}] :
          answer' = [answer EXCEPT ![h] = reply]
    <3>1. CASE answer' = [answer EXCEPT ![h] = [jwt |-> None, etag |-> license]]
      BY <2>1, <3>1
    <3>2. CASE \E etag \in {None, license} :
                 answer' = [answer EXCEPT ![h] = [jwt |-> license, etag |-> etag]]
      BY <2>1, <3>2
    <3> QED
      BY <1>7, <3>1, <3>2 DEF FetchLicense
  <2> QED
    BY <1>7, <2>1, <2>2 DEF FetchLicense, Goto
<1>8. ASSUME NEW h \in Host, NotModified(h) PROVE TypeOK'
  BY <1>8 DEF NotModified, Return, Goto, NoAnswer, Session
<1>9. ASSUME NEW h \in Host, Success(h) PROVE TypeOK'
  <2>1. CASE Verified(answer[h].jwt)
    <3>1. held' \in [Host -> Session]
      BY <1>9, <2>1 DEF Success, Session
    <3> QED
      BY <1>9, <2>1, <3>1 DEF Success, Goto
  <2>2. CASE ~ Verified(answer[h].jwt)
    <3>1. answer' = [answer EXCEPT ![h] = [jwt |-> None, etag |-> None]]
      BY <1>9, <2>2 DEF Success, Return, NoAnswer
    <3>2. pc' = [pc EXCEPT ![h] = "idle"] /\ UNCHANGED held
      BY <1>9, <2>2 DEF Success, Return, Goto
    <3> QED
      BY <1>9, <3>1, <3>2 DEF Success
  <2> QED
    BY <2>1, <2>2
<1>10. ASSUME NEW h \in Host, SaveLicense(h) PROVE TypeOK'
  BY <1>10 DEF SaveLicense, Return, Goto, NoAnswer, Session
<1>11. ASSUME NEW h \in Host, ReturnSession(h) PROVE TypeOK'
  BY <1>11 DEF ReturnSession, Return, Goto, NoAnswer, Session
<1>12. ASSUME NEW h \in Host, Fail(h) PROVE TypeOK'
  BY <1>12 DEF Fail, Return, Goto, NoAnswer
<1>13. CASE Reissue
  BY <1>13 DEF Reissue, hostVars
<1>14. CASE ClockMoves
  BY <1>14 DEF ClockMoves, hostVars
<1>15. CASE UNCHANGED vars
  BY <1>15 DEF vars, hostVars
<1> QED
  BY <1>1, <1>2, <1>3, <1>4, <1>5, <1>6, <1>7, <1>8, <1>9, <1>10, <1>11, <1>12,
     <1>13, <1>14, <1>15 DEF Next, Command

(* Every variable stays in its range, whatever the constants are. *)
THEOREM LicenseTypeCorrect == Spec => []TypeOK
<1> QED
  BY TypeInit, TypeStep, PTL DEF Spec

-----------------------------------------------------------------------------
LEMMA SessionInit == Init => SessionInv
BY NoneIsNoLicense DEF Init, SessionInv, StoredInv, HostInv, Paired, Fresh

(* A step that leaves a host's variables alone leaves HostInv alone. *)
LEMMA HostInvFrame ==
  ASSUME NEW h \in Host, HostInv(h),
         held'[h] = held[h], pc'[h] = pc[h], answer'[h] = answer[h],
         meant'[h] = meant[h], got'[h] = got[h]
  PROVE HostInv(h)'
BY DEF HostInv, Paired

HostSteps(h) ==
  \/ Restart(h) \/ Load(h) \/ SignIn(h) \/ Save(h) \/ Clear(h)
  \/ Sync(h) \/ Command(h) \/ Fail(h)

(* The other hosts, when one host takes a step of its own. *)
LEMMA OthersStay ==
  ASSUME TypeOK, NEW h \in Host, NEW g \in Host \ {h}, HostSteps(h)
  PROVE /\ held'[g] = held[g] /\ pc'[g] = pc[g] /\ answer'[g] = answer[g]
        /\ meant'[g] = meant[g] /\ got'[g] = got[g]
<1> USE DEF HostSteps
<1>1. held'[g] = held[g]
  BY DEF TypeOK, Restart, Load, SignIn, Save, Clear, Sync, Command, FetchLicense,
         NotModified, Success, SaveLicense, ReturnSession, Fail
<1>2. pc'[g] = pc[g] /\ answer'[g] = answer[g]
  BY DEF TypeOK, Restart, Load, SignIn, Save, Clear, Sync, Command, FetchLicense,
         NotModified, Success, SaveLicense, ReturnSession, Fail, Goto, Return, hostVars
<1>3. meant'[g] = meant[g] /\ got'[g] = got[g]
  BY DEF TypeOK, Restart, Load, SignIn, Save, Clear, Sync, Command, FetchLicense,
         NotModified, Success, SaveLicense, ReturnSession, Fail, hostVars
<1> QED
  BY <1>1, <1>2, <1>3

LEMMA OthersFrame ==
  ASSUME TypeOK, NEW h \in Host, NEW g \in Host \ {h}, HostInv(g), HostSteps(h)
  PROVE HostInv(g)'
BY OthersStay, HostInvFrame

(* A session is stored as its host holds it. *)
LEMMA StoredStep == TypeOK /\ SessionInv /\ [Next]_vars => StoredInv'
<1> SUFFICES ASSUME TypeOK, StoredInv, \A h \in Host : Paired(held[h]), [Next]_vars
             PROVE StoredInv'
  BY DEF SessionInv, HostInv
<1>1. ASSUME NEW h \in Host, Save(h) \/ SaveLicense(h) PROVE StoredInv'
  BY <1>1 DEF TypeOK, StoredInv, Save, SaveLicense, Paired
<1>2. ASSUME NEW h \in Host, Clear(h) PROVE StoredInv'
  BY <1>2 DEF TypeOK, StoredInv, Clear, Paired
<1>3. CASE UNCHANGED stored
  BY <1>3 DEF StoredInv, Paired
<1> QED
  BY <1>1, <1>2, <1>3 DEF Next, Command, Restart, Load, SignIn, Sync, FetchLicense,
     NotModified, Success, ReturnSession, Fail, Reissue, ClockMoves, vars

(* The host that takes the step: each action keeps what HostInv says of the *)
(* place it leads to.                                                       *)
LEMMA HostStep ==
  ASSUME TypeOK, SessionInv, NEW h \in Host, HostSteps(h)
  PROVE HostInv(h)'
<1> USE NoneIsNoLicense DEF TypeOK, SessionInv, HostInv, Paired, Goto
<1>1. CASE Restart(h)
  BY <1>1 DEF Restart, Return, Fresh
<1>2. CASE Load(h)
  BY <1>2 DEF Load, hostVars, StoredInv, Slots
<1>3. CASE SignIn(h)
  BY <1>3 DEF SignIn, hostVars, Session
<1>4. CASE Save(h) \/ Clear(h)
  BY <1>4 DEF Save, Clear, hostVars
<1>5. CASE Sync(h)
  BY <1>5 DEF Sync
<1>6. CASE FetchLicense(h)
  BY <1>6 DEF FetchLicense, Session
<1>7. CASE NotModified(h)
  BY <1>7 DEF NotModified, Return, Session, Verified
<1>8. CASE Success(h)
  BY <1>8 DEF Success, Return, Session, Verified
<1>9. CASE SaveLicense(h) \/ ReturnSession(h)
  BY <1>9 DEF SaveLicense, ReturnSession, Return
<1>10. CASE Fail(h)
  BY <1>10 DEF Fail, Return
<1> QED
  BY <1>1, <1>2, <1>3, <1>4, <1>5, <1>6, <1>7, <1>8, <1>9, <1>10 DEF HostSteps, Command

LEMMA SessionStep == TypeOK /\ SessionInv /\ [Next]_vars => SessionInv'
<1> SUFFICES ASSUME TypeOK, SessionInv, [Next]_vars, NEW h \in Host
             PROVE HostInv(h)'
  BY StoredStep DEF SessionInv
<1>1. ASSUME NEW g \in Host, HostSteps(g)
      PROVE HostInv(h)'
  BY <1>1, HostStep, OthersFrame DEF SessionInv
<1>2. CASE Reissue \/ ClockMoves \/ UNCHANGED vars
  BY <1>2, HostInvFrame DEF SessionInv, Reissue, ClockMoves, vars, hostVars
<1> QED
  BY <1>1, <1>2 DEF Next, HostSteps

THEOREM InvariantHolds == Spec => [](TypeOK /\ SessionInv)
<1>1. Init => TypeOK /\ SessionInv
  BY TypeInit, SessionInit
<1>2. TypeOK /\ SessionInv /\ [Next]_vars => TypeOK' /\ SessionInv'
  BY TypeStep, SessionStep
<1> QED
  BY <1>1, <1>2, PTL DEF Spec

(* sync_license never returns another license than the server meant, though *)
(* a 304 names none, for any number of hosts that share their storage and   *)
(* even when several accounts share a storage key: an ETag is only ever     *)
(* kept beside the license it came with (SessionInv), and that survives     *)
(* every load, save, refusal and failure.                                   *)
THEOREM SyncReturnsMeantCorrect == Spec => []SyncReturnsMeant
<1>1. SessionInv => SyncReturnsMeant
  BY DEF SessionInv, HostInv, SyncReturnsMeant
<1> QED
  BY <1>1, InvariantHolds, PTL

-----------------------------------------------------------------------------
(* The promise to a host: LicenseService, with the cache taken away *)

LEMMA InitServes == Init => Service!Init
<1> SUFFICES ASSUME Init PROVE Service!Init
  OBVIOUS
<1>1. ASSUME NEW h \in Host PROVE held[h].account \in Account
  <2>1. PICK a \in Account : held[h] = Fresh(a)
    BY DEF Init
  <2> QED
    BY <2>1 DEF Fresh
<1>2. \A h \in Host : CallOf(h) = Service!NoCall
  BY DEF Init, CallOf, Service!NoCall
<1> QED
  BY <1>1, <1>2 DEF Init, Service!Init

(* Of a step of one host the service sees what becomes of that host.       *)
LEMMA OneCall ==
  ASSUME NEW h \in Host, NEW c, CallOf(h)' = c,
         \A g \in Host \ {h} : pc'[g] = pc[g] /\ meant'[g] = meant[g]
  PROVE  [g \in Host |-> CallOf(g)]' = [[g \in Host |-> CallOf(g)] EXCEPT ![h] = c]
<1>1. \A g \in Host : CallOf(g)' = IF g = h THEN c ELSE CallOf(g)
  BY DEF CallOf
<1> QED
  BY <1>1

LEMMA OneAccount ==
  ASSUME NEW h \in Host, NEW a, held'[h].account = a,
         \A g \in Host \ {h} : held'[g] = held[g]
  PROVE  [g \in Host |-> held[g].account]' = [[g \in Host |-> held[g].account] EXCEPT ![h] = a]
OBVIOUS

LEMMA SameAccounts ==
  ASSUME NEW h \in Host, held'[h].account = held[h].account,
         \A g \in Host \ {h} : held'[g] = held[g]
  PROVE  [g \in Host |-> held[g].account]' = [g \in Host |-> held[g].account]
OBVIOUS

(* Steps outside of a sync. *)
LEMMA RestartServes ==
  ASSUME TypeOK, NEW h \in Host, Restart(h)
  PROVE  Service!Restart(h)
<1>1. \A g \in Host \ {h} : held'[g] = held[g] /\ pc'[g] = pc[g] /\ meant'[g] = meant[g]
  BY OthersStay DEF HostSteps
<1>2. PICK a \in Account : held'[h].account = a
  BY DEF Restart, Fresh, TypeOK
<1>3. CallOf(h)' = Service!NoCall
  BY DEF Restart, Return, Goto, TypeOK, CallOf, Service!NoCall
<1>4. [g \in Host |-> CallOf(g)]' = [[g \in Host |-> CallOf(g)] EXCEPT ![h] = Service!NoCall]
  BY <1>1, <1>3, OneCall
<1>5. [g \in Host |-> held[g].account]' = [[g \in Host |-> held[g].account] EXCEPT ![h] = a]
  BY <1>1, <1>2, OneAccount
<1>6. got' = [got EXCEPT ![h] = None] /\ UNCHANGED <<current, verifies>>
  BY DEF Restart
<1> QED
  BY <1>4, <1>5, <1>6 DEF Service!Restart

LEMMA LoadServes ==
  ASSUME TypeOK, NEW h \in Host, Load(h)
  PROVE  Service!Switch(h)
<1>1. \A g \in Host \ {h} : held'[g] = held[g]
  BY OthersStay DEF HostSteps
<1>2. PICK a \in Account : held'[h].account = a
  <2>1. PICK b \in Account : stored[Slot[b]] # None /\ held' = [held EXCEPT ![h] = stored[Slot[b]]]
    BY DEF Load
  <2>2. stored[Slot[b]] \in Session
    BY <2>1 DEF TypeOK, Slots
  <2>3. held'[h] \in Session
    BY <2>1, <2>2 DEF TypeOK
  <2> QED
    BY <2>3 DEF Session
<1>3. [g \in Host |-> held[g].account]' = [[g \in Host |-> held[g].account] EXCEPT ![h] = a]
  BY <1>1, <1>2, OneAccount
<1>4. CallOf(h) = Service!NoCall /\ \A g \in Host : CallOf(g)' = CallOf(g)
  BY DEF Load, hostVars, CallOf, Service!NoCall
<1>5. UNCHANGED <<current, verifies, got>>
  BY DEF Load, hostVars
<1> QED
  BY <1>3, <1>4, <1>5 DEF Service!Switch

LEMMA KeepsToItself ==
  ASSUME TypeOK, NEW h \in Host, SignIn(h) \/ Save(h) \/ Clear(h)
  PROVE  UNCHANGED Service!serviceVars
<1>1. \A g \in Host \ {h} : held'[g] = held[g]
  BY OthersStay DEF HostSteps
<1>2. held'[h].account = held[h].account
  BY DEF SignIn, Save, Clear, TypeOK, Session
<1>3. [g \in Host |-> held[g].account]' = [g \in Host |-> held[g].account]
  BY <1>1, <1>2, SameAccounts
<1>4. \A g \in Host : CallOf(g)' = CallOf(g)
  BY DEF SignIn, Save, Clear, hostVars, CallOf
<1>5. UNCHANGED <<current, verifies, got>>
  BY DEF SignIn, Save, Clear, hostVars
<1> QED
  BY <1>3, <1>4, <1>5 DEF Service!serviceVars

(* Steps of a sync keep the account. *)
LEMMA SyncKeepsAccounts ==
  ASSUME TypeOK, NEW h \in Host, Sync(h) \/ Command(h) \/ Fail(h)
  PROVE  /\ [g \in Host |-> held[g].account]' = [g \in Host |-> held[g].account]
         /\ UNCHANGED <<current, verifies>>
         /\ \A g \in Host \ {h} : pc'[g] = pc[g] /\ meant'[g] = meant[g]
<1>1. \A g \in Host \ {h} : held'[g] = held[g] /\ pc'[g] = pc[g] /\ meant'[g] = meant[g]
  BY OthersStay DEF HostSteps
<1>2. held'[h].account = held[h].account /\ UNCHANGED <<current, verifies>>
  BY DEF TypeOK, Session, Sync, Command, FetchLicense, NotModified, Success, SaveLicense,
         ReturnSession, Fail
<1> QED
  BY <1>1, <1>2, SameAccounts

LEMMA SyncServes ==
  ASSUME TypeOK, NEW h \in Host, Sync(h)
  PROVE  Service!Ask(h)
<1>1. CallOf(h) = Service!NoCall /\ CallOf(h)' = [stage |-> "asked", license |-> None]
  BY DEF Sync, Goto, TypeOK, CallOf, Stage, Service!NoCall
<1>2. [g \in Host |-> CallOf(g)]' =
        [[g \in Host |-> CallOf(g)] EXCEPT ![h] = [stage |-> "asked", license |-> None]]
  BY <1>1, SyncKeepsAccounts, OneCall
<1> QED
  BY <1>1, <1>2, SyncKeepsAccounts DEF Sync, Service!Ask, Service!Enters

LEMMA FetchServes ==
  ASSUME TypeOK, NEW h \in Host, FetchLicense(h)
  PROVE  Service!Answer(h)
<1>1. Command(h)
  BY DEF Command
<1> DEFINE c == [stage |-> "answered", license |-> current[held[h].account]]
<1>2. CallOf(h).stage = "asked" /\ CallOf(h)' = c
  BY DEF FetchLicense, Goto, TypeOK, CallOf, Stage
<1>3. [g \in Host |-> CallOf(g)]' = [[g \in Host |-> CallOf(g)] EXCEPT ![h] = c]
  BY <1>1, <1>2, SyncKeepsAccounts, OneCall
<1> QED
  BY <1>1, <1>2, <1>3, SyncKeepsAccounts DEF FetchLicense, Service!Answer, Service!Enters

(* A sync that ends: with the license that was meant, or with none. *)
LEMMA EndServes ==
  ASSUME TypeOK, NEW h \in Host, Command(h) \/ Fail(h), pc[h] # "idle", Return(h),
         NEW license, got' = [got EXCEPT ![h] = license]
  PROVE  Service!Leaves(h, license)
<1>1. CallOf(h) # Service!NoCall /\ CallOf(h)' = Service!NoCall
  BY DEF TypeOK, CallOf, Stage, Return, Goto, Service!NoCall
<1>2. [g \in Host |-> CallOf(g)]' = [[g \in Host |-> CallOf(g)] EXCEPT ![h] = Service!NoCall]
  BY <1>1, SyncKeepsAccounts, OneCall
<1> QED
  BY <1>1, <1>2, SyncKeepsAccounts DEF Service!Leaves

LEMMA NotModifiedServes ==
  ASSUME TypeOK, SessionInv, NEW h \in Host, NotModified(h)
  PROVE  Service!CheckAndReturn(h) \/ Service!GiveUp(h)
<1>1. Command(h) /\ pc[h] # "idle" /\ Return(h)
  BY DEF Command, NotModified
<1>2. CallOf(h).stage = "answered" /\ CallOf(h).license = meant[h]
  BY DEF NotModified, CallOf, Stage
<1>3. held[h].jwt = meant[h]
  BY DEF NotModified, SessionInv, HostInv, Paired
<1>4. CASE Verified(held[h].jwt)
  <2>1. got' = [got EXCEPT ![h] = meant[h]] /\ meant[h] \in verifies
    BY <1>3, <1>4 DEF NotModified, Verified
  <2>2. Service!Leaves(h, meant[h])
    BY <1>1, <2>1, EndServes
  <2> QED
    BY <1>2, <2>1, <2>2 DEF Service!CheckAndReturn
<1>5. CASE ~ Verified(held[h].jwt)
  <2>1. got' = [got EXCEPT ![h] = None]
    BY <1>5 DEF NotModified
  <2> QED
    BY <1>1, <2>1, EndServes DEF Service!GiveUp
<1> QED
  BY <1>4, <1>5

LEMMA NothingGot ==
  ASSUME TypeOK, SessionInv, NEW h \in Host, pc[h] # "idle"
  PROVE  got = [got EXCEPT ![h] = None]
BY DEF TypeOK, SessionInv, HostInv

LEMMA SuccessServes ==
  ASSUME TypeOK, SessionInv, NEW h \in Host, Success(h)
  PROVE  Service!Check(h) \/ Service!GiveUp(h)
<1>1. Command(h) /\ pc[h] # "idle" /\ UNCHANGED got
  BY DEF Command, Success
<1>2. CallOf(h).stage = "answered" /\ CallOf(h).license = meant[h]
  BY DEF Success, CallOf, Stage
<1>3. answer[h].jwt = meant[h]
  BY DEF Success, SessionInv, HostInv
<1>4. CASE Verified(answer[h].jwt)
  <2>1. meant[h] \in verifies
    BY <1>3, <1>4 DEF Verified
  <2>2. CallOf(h)' = [stage |-> "checked", license |-> meant[h]]
    BY <1>4 DEF Success, Goto, TypeOK, CallOf, Stage
  <2>3. [g \in Host |-> CallOf(g)]' =
          [[g \in Host |-> CallOf(g)] EXCEPT ![h] = [stage |-> "checked", license |-> meant[h]]]
    BY <1>1, <2>2, SyncKeepsAccounts, OneCall
  <2> QED
    BY <1>1, <1>2, <2>1, <2>3, SyncKeepsAccounts DEF Service!Check, Service!Enters
<1>5. CASE ~ Verified(answer[h].jwt)
  <2>1. Return(h) /\ got' = [got EXCEPT ![h] = None]
    BY <1>1, <1>5, NothingGot DEF Success
  <2> QED
    BY <1>1, <2>1, EndServes DEF Service!GiveUp
<1> QED
  BY <1>4, <1>5

LEMMA ReturnServes ==
  ASSUME TypeOK, SessionInv, NEW h \in Host, SaveLicense(h) \/ ReturnSession(h)
  PROVE  Service!Return(h)
<1>1. Command(h) /\ pc[h] # "idle" /\ Return(h)
  BY DEF Command, SaveLicense, ReturnSession
<1>2. CallOf(h).stage = "checked" /\ CallOf(h).license = meant[h]
  BY DEF SaveLicense, ReturnSession, CallOf, Stage
<1>3. got' = [got EXCEPT ![h] = meant[h]]
  BY DEF SaveLicense, ReturnSession, SessionInv, HostInv
<1> QED
  BY <1>1, <1>2, <1>3, EndServes DEF Service!Return

LEMMA FailServes ==
  ASSUME TypeOK, SessionInv, NEW h \in Host, Fail(h)
  PROVE  Service!GiveUp(h)
<1>1. pc[h] # "idle" /\ Return(h) /\ got' = [got EXCEPT ![h] = None]
  BY NothingGot DEF Fail
<1> QED
  BY <1>1, EndServes DEF Service!GiveUp

(* Every step is one of the service, or none that it sees. *)
LEMMA ServiceStep ==
  TypeOK /\ SessionInv /\ [Next]_vars => [Service!Next]_(Service!serviceVars)
<1> SUFFICES ASSUME TypeOK, SessionInv, [Next]_vars
             PROVE  Service!Next \/ UNCHANGED Service!serviceVars
  OBVIOUS
<1>1. ASSUME NEW h \in Host, HostSteps(h)
      PROVE  Service!Next \/ UNCHANGED Service!serviceVars
  BY <1>1, RestartServes, LoadServes, KeepsToItself, SyncServes, FetchServes,
     NotModifiedServes, SuccessServes, ReturnServes, FailServes
     DEF HostSteps, Command, Service!Next
<1>2. CASE Reissue
  <2>1. current' \in [Account -> License] /\ UNCHANGED <<verifies, held, pc, meant, got>>
    BY <1>2 DEF Reissue, TypeOK, hostVars
  <2>2. Service!Reissue
    BY <2>1 DEF Service!Reissue, CallOf
  <2> QED
    BY <2>2 DEF Service!Next
<1>3. CASE ClockMoves
  <2>1. verifies' \in SUBSET License /\ UNCHANGED <<current, held, pc, meant, got>>
    BY <1>3 DEF ClockMoves, hostVars
  <2>2. Service!ClockMoves
    BY <2>1 DEF Service!ClockMoves, CallOf
  <2> QED
    BY <2>2 DEF Service!Next
<1>4. CASE UNCHANGED vars
  BY <1>4 DEF vars, hostVars, CallOf, Service!serviceVars
<1> QED
  BY <1>1, <1>2, <1>3, <1>4 DEF Next, HostSteps

(* sync_license keeps the promise of LicenseService, for any hosts,        *)
(* accounts, storage keys and licenses: no host can tell the cached        *)
(* license and the ETag from a server that sends its license every time.   *)
THEOREM ImplementsServiceCorrect == Spec => ImplementsService
<1>1. Init => Service!Init
  BY InitServes
<1>2. TypeOK /\ SessionInv /\ [Next]_vars => [Service!Next]_(Service!serviceVars)
  BY ServiceStep
<1> QED
  BY <1>1, <1>2, InvariantHolds, PTL DEF Spec, ImplementsService, Service!Spec

-----------------------------------------------------------------------------
(* License documents *)

(* As time goes by a license that was good expires, and nothing else       *)
(* becomes of it; one that is good was good before                         *)
(* (verify_and_decode_for_device).                                         *)
THEOREM VerdictAges ==
  ASSUME NEW token, token.claims.exp \in Int \cup {Missing}, NEW ski,
         NEW now \in Int, NEW later \in Int, now <= later
  PROVE  /\ Verify(token, now, ski) = "success" =>
              Verify(token, later, ski) \in {"success", "expired"}
         /\ Verify(token, later, ski) = "success" => Verify(token, now, ski) = "success"
         /\ ShouldPoll(token, later) => ShouldPoll(token, now)
<1>1. PICK p : p = FromClaims(token.claims)
  OBVIOUS
<1>2. p # Missing => p.expires \in Int
  BY <1>1, MissingAssumption DEF FromClaims, OrElse
<1>3. p # Missing /\ IsExpired(p, now) => IsExpired(p, later)
  BY <1>2 DEF IsExpired
<1>4. ASSUME NEW device
      PROVE  /\ Verify(token, now, device) = "success" =>
                  Verify(token, later, device) \in {"success", "expired"}
             /\ Verify(token, later, device) = "success" =>
                  Verify(token, now, device) = "success"
  BY <1>1, <1>3 DEF Verify
<1> QED
  BY <1>4 DEF ShouldPoll
===============================================================================
