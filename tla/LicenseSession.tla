---------------------------- MODULE LicenseSession ----------------------------
(***************************************************************************)
(* License documents and the sessions that cache them                      *)
(* (crates/2key_core/src/session.rs, api/client.rs, license.rs): hosts     *)
(* that share one storage, each with a session in memory, and the billing  *)
(* server they fetch their license from.                                   *)
(*                                                                         *)
(* A license stands for its signed JWT, and an ETag for the license it was *)
(* sent with.  The server may go back to a license it has issued before.   *)
(***************************************************************************)
CONSTANTS
  Host,     \* the processes or threads with a session of their own
  Account,  \* account keys
  Slot,     \* where the session of each account is stored
  License,  \* the documents the server may issue
  None

ASSUME NoneIsNoLicense == None \notin License

VARIABLES
  stored,    \* what the storage holds in each slot
  held,      \* the session each host has in memory
  pc,        \* how far each host is with sync_license
  answer,    \* what the server answered it
  current,   \* server: the license of each account
  verifies,  \* the licenses that now pass verification
  meant,     \* history: the license the server had when it answered
  got        \* history: what the last sync of each host returned

hostVars == <<pc, answer, meant, got>>
vars == <<stored, held, hostVars, current, verifies>>

Session ==
  [account : Account, token : BOOLEAN,
   jwt : License \cup {None}, etag : License \cup {None}]

Slots == { Slot[a] : a \in Account }

(* AccountSession::new *)
Fresh(a) == [account |-> a, token |-> FALSE, jwt |-> None, etag |-> None]

NoAnswer == [jwt |-> None, etag |-> None]

Init ==
  /\ stored = [s \in Slots |-> None]
  /\ held \in [Host -> { Fresh(a) : a \in Account }]
  /\ pc = [h \in Host |-> "idle"]
  /\ answer = [h \in Host |-> NoAnswer]
  /\ current \in [Account -> License]
  /\ verifies \in SUBSET License
  /\ meant = [h \in Host |-> None]
  /\ got = [h \in Host |-> None]

Goto(h, l) == pc' = [pc EXCEPT ![h] = l]

(* sync_license returns; what it was answered goes with its frame. *)
Return(h) == Goto(h, "idle") /\ answer' = [answer EXCEPT ![h] = NoAnswer]

(* init_license: the signature is the server's, the claims are complete    *)
(* and the license has not expired.                                        *)
Verified(license) == license \in verifies

-----------------------------------------------------------------------------
(* What a host does with its session between two syncs *)

(* The host starts, or starts again after it died anywhere. *)
Restart(h) ==
  /\ \E a \in Account : held' = [held EXCEPT ![h] = Fresh(a)]
  /\ Return(h)
  /\ meant' = [meant EXCEPT ![h] = None]
  /\ got' = [got EXCEPT ![h] = None]
  /\ UNCHANGED <<stored, current, verifies>>

(* Broken: a slot that holds nothing is loaded as well. *)
LoadEmpty(h) ==
  /\ pc[h] = "idle"
  /\ \E a \in Account : held' = [held EXCEPT ![h] = stored[Slot[a]]]
  /\ UNCHANGED <<stored, hostVars, current, verifies>>

Load(h) ==
  /\ pc[h] = "idle"
  /\ \E a \in Account :
       /\ stored[Slot[a]] # None
       /\ held' = [held EXCEPT ![h] = stored[Slot[a]]]
  /\ UNCHANGED <<stored, hostVars, current, verifies>>

(* The host puts an access token into its session. *)
SignIn(h) ==
  /\ pc[h] = "idle" /\ ~ held[h].token
  /\ held' = [held EXCEPT ![h].token = TRUE]
  /\ UNCHANGED <<stored, hostVars, current, verifies>>

Save(h) ==
  /\ pc[h] = "idle"
  /\ stored' = [stored EXCEPT ![Slot[held[h].account]] = held[h]]
  /\ UNCHANGED <<held, hostVars, current, verifies>>

Clear(h) ==
  /\ pc[h] = "idle"
  /\ \E a \in Account : stored' = [stored EXCEPT ![Slot[a]] = None]
  /\ UNCHANGED <<held, hostVars, current, verifies>>

-----------------------------------------------------------------------------
(* sync_license *)

Sync(h) ==
  /\ pc[h] = "idle" /\ held[h].token
  /\ Goto(h, "asked")
  /\ meant' = [meant EXCEPT ![h] = None]
  /\ got' = [got EXCEPT ![h] = None]
  /\ UNCHANGED <<stored, held, answer, current, verifies>>

(* The server: 304 only if the license is the one the request names, 200   *)
(* at any time, with or without an ETag.                                   *)
FetchLicense(h) ==
  LET license == current[held[h].account]
  IN /\ pc[h] = "asked"
     /\ \/ /\ held[h].etag = license
           /\ answer' = [answer EXCEPT ![h] = [jwt |-> None, etag |-> license]]
           /\ Goto(h, "not_modified")
        \/ /\ \E etag \in {None, license} :
                answer' = [answer EXCEPT ![h] = [jwt |-> license, etag |-> etag]]
           /\ Goto(h, "success")
     /\ meant' = [meant EXCEPT ![h] = license]
     /\ UNCHANGED <<stored, held, got, current, verifies>>

(* Broken: the cached license is not verified again. *)
NotModifiedUnchecked(h) ==
  /\ pc[h] = "not_modified"
  /\ held' = [held EXCEPT ![h].etag = answer[h].etag]
  /\ got' = [got EXCEPT ![h] = held[h].jwt]
  /\ Return(h)
  /\ UNCHANGED <<stored, meant, current, verifies>>

(* The cached license, if there is one and it verifies. *)
NotModified(h) ==
  /\ pc[h] = "not_modified"
  /\ held' = [held EXCEPT ![h].etag = answer[h].etag]
  /\ got' = [got EXCEPT ![h] = IF Verified(held[h].jwt) THEN held[h].jwt ELSE None]
  /\ Return(h)
  /\ UNCHANGED <<stored, meant, current, verifies>>

(* Broken: an answer without an ETag leaves the old one in the session. *)
SuccessKeepsEtag(h) ==
  /\ pc[h] = "success"
  /\ IF Verified(answer[h].jwt)
       THEN /\ held' = [held EXCEPT ![h].jwt = answer[h].jwt,
                                    ![h].etag = IF answer[h].etag = None THEN @
                                                ELSE answer[h].etag]
            /\ Goto(h, "save") /\ UNCHANGED answer
       ELSE UNCHANGED held /\ Return(h)
  /\ UNCHANGED <<stored, meant, got, current, verifies>>

(* Broken: the ETag is kept although the license does not verify. *)
SuccessEtagFirst(h) ==
  /\ pc[h] = "success"
  /\ IF Verified(answer[h].jwt)
       THEN /\ held' = [held EXCEPT ![h].jwt = answer[h].jwt, ![h].etag = answer[h].etag]
            /\ Goto(h, "save") /\ UNCHANGED answer
       ELSE held' = [held EXCEPT ![h].etag = answer[h].etag] /\ Return(h)
  /\ UNCHANGED <<stored, meant, got, current, verifies>>

(* A license that does not verify changes nothing. *)
Success(h) ==
  /\ pc[h] = "success"
  /\ IF Verified(answer[h].jwt)
       THEN /\ held' = [held EXCEPT ![h].jwt = answer[h].jwt, ![h].etag = answer[h].etag]
            /\ Goto(h, "save") /\ UNCHANGED answer
       ELSE UNCHANGED held /\ Return(h)
  /\ UNCHANGED <<stored, meant, got, current, verifies>>

SaveLicense(h) ==
  /\ pc[h] = "save"
  /\ stored' = [stored EXCEPT ![Slot[held[h].account]] = held[h]]
  /\ got' = [got EXCEPT ![h] = held[h].jwt]
  /\ Return(h)
  /\ UNCHANGED <<held, meant, current, verifies>>

(* The exported functions leave the saving to the host. *)
ReturnSession(h) ==
  /\ pc[h] = "save"
  /\ got' = [got EXCEPT ![h] = held[h].jwt]
  /\ Return(h)
  /\ UNCHANGED <<stored, held, meant, current, verifies>>

(* No connection, an answer that is lost or an error, a save that fails. *)
Fail(h) ==
  /\ pc[h] # "idle"
  /\ Return(h)
  /\ meant' = [meant EXCEPT ![h] = None]
  /\ UNCHANGED <<stored, held, got, current, verifies>>

-----------------------------------------------------------------------------
(* The world around *)

(* A purchase, a cancellation, a seat that is bound or released. *)
Reissue ==
  /\ \E a \in Account : \E license \in License \ {current[a]} :
       current' = [current EXCEPT ![a] = license]
  /\ UNCHANGED <<stored, held, hostVars, verifies>>

(* Licenses expire; a clock is set; the key to verify with is rotated. *)
ClockMoves ==
  /\ verifies' \in (SUBSET License) \ {verifies}
  /\ UNCHANGED <<stored, held, hostVars, current>>

-----------------------------------------------------------------------------
Command(h) ==
  \/ FetchLicense(h) \/ NotModified(h) \/ Success(h)
  \/ SaveLicense(h) \/ ReturnSession(h)

Next ==
  \/ \E h \in Host :
       \/ Restart(h) \/ Load(h) \/ SignIn(h) \/ Save(h) \/ Clear(h)
       \/ Sync(h) \/ Command(h) \/ Fail(h)
  \/ Reissue \/ ClockMoves

Spec == Init /\ [][Next]_vars

(* A sync that has started is answered, and goes on.                       *)
FairSpec == Spec /\ \A h \in Host : WF_vars(Command(h))

-----------------------------------------------------------------------------
(* Properties *)

(* Sessions, stored or in memory, are of AccountSession's shape: an empty   *)
(* storage key is never taken for a session.                               *)
TypeOK ==
  /\ stored \in [Slots -> Session \cup {None}]
  /\ held \in [Host -> Session]
  /\ pc \in [Host -> {"idle", "asked", "not_modified", "success", "save"}]
  /\ answer \in [Host -> [jwt : License \cup {None}, etag : License \cup {None}]]
  /\ current \in [Account -> License]
  /\ verifies \subseteq License
  /\ meant \in [Host -> License \cup {None}]
  /\ got \in [Host -> License \cup {None}]

(* A sync returns the license the server had when it answered, though a    *)
(* 304 names none: the ETag was never kept beside another license, by this *)
(* host or the one that stored the session, not when licenses come back,   *)
(* answers lack an ETag, or verification and saving fail.                  *)
SyncReturnsMeant == \A h \in Host : got[h] # None => got[h] = meant[h]

(* The inductive invariant: wherever a session is, its ETag is the one its *)
(* license came with.                                                      *)
Paired(session) == session.etag # None => session.etag = session.jwt

StoredInv == \A s \in Slots : stored[s] # None => Paired(stored[s])

HostInv(h) ==
  /\ Paired(held[h])
  /\ pc[h] = "success" => answer[h].jwt = meant[h] /\ answer[h].etag \in {None, meant[h]}
  /\ pc[h] = "not_modified" =>
       meant[h] # None /\ held[h].etag = meant[h] /\ answer[h].etag = meant[h]
  /\ pc[h] = "save" => held[h].jwt = meant[h]
  /\ pc[h] # "idle" => got[h] = None
  /\ got[h] # None => got[h] = meant[h]

SessionInv == StoredInv /\ \A h \in Host : HostInv(h)

(* To its host a sync is a call of LicenseService: the cached license, the  *)
(* ETag, the storage and the other hosts cannot be told from a server that *)
(* sends its license every time.                                           *)
Stage(l) ==
  CASE l = "asked" -> "asked"
    [] l \in {"not_modified", "success"} -> "answered"
    [] l = "save" -> "checked"

CallOf(h) ==
  IF pc[h] = "idle" THEN [stage |-> "none", license |-> None]
  ELSE [stage |-> Stage(pc[h]), license |-> IF pc[h] = "asked" THEN None ELSE meant[h]]

Service == INSTANCE LicenseService
  WITH account <- [h \in Host |-> held[h].account], call <- [h \in Host |-> CallOf(h)]

ImplementsService == Service!Spec

(* A host that goes on syncing catches up: when the server's license stays *)
(* and verifies, and syncs stop failing, the session has that license,     *)
(* whatever was refused, lost or stored before.                            *)
SyncCatchesUp ==
  \A h \in Host :
    /\ SF_vars(Sync(h))
    /\ <>[][~ (Restart(h) \/ Load(h) \/ Fail(h) \/ Reissue \/ ClockMoves)]_vars
    /\ <>[](held[h].token /\ current[held[h].account] \in verifies)
    => <>[](held[h].jwt = current[held[h].account])
=============================================================================
