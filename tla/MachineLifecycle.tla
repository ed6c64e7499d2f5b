--------------------------- MODULE MachineLifecycle ---------------------------
(***************************************************************************)
(* One machine's state directory, the CLI processes that work on it, and   *)
(* the billing server they call.                                           *)
(*                                                                         *)
(* Every file of $DP_STATE_DIR/identity is abstracted to the key it is     *)
(* about: the private key it holds, or the key a CSR, certificate or       *)
(* credential was made for.  A step writes or removes at most one file, so *)
(* a process may die, or another process may run, between any two writes.  *)
(* A command that returns an error has the effect of a crash at that       *)
(* point: whatever it wrote stays and whatever it held in memory is lost.  *)
(***************************************************************************)
EXTENDS EnrollmentStatus, Integers

CONSTANTS
  Key,      \* the Ed25519 key pairs that can be generated (also their SKIs)
  Process,  \* the CLI processes that share the state directory
  None,     \* no file, or a field that is not set
  Zeroed,   \* a file with zeros over some or all of it, and not yet removed
  IssuedReplies,   \* which files an approved enrollment may come with
  Endorsements     \* which platform files a renewal may come with

ASSUME SentinelsAreNotKeys ==
  None \notin Key /\ Zeroed \notin Key /\ None # Zeroed

VARIABLES
  state,       \* state.json
  disk,        \* the files under identity/
  pc,          \* where each process is in its command
  mem,         \* the MachineState a process has in memory
  key,         \* the key a process's command is about
  todo,        \* the files a process has still to write or wipe
  minted,      \* the keys generated so far
  enrollment,  \* server: what became of the enrollment of each key
  credential   \* server: the status of the credential of each key

localVars  == <<pc, mem, key, todo>>
serverVars == <<enrollment, credential>>
vars == <<state, disk, pc, mem, key, todo, minted, enrollment, credential>>

-----------------------------------------------------------------------------
(* Data *)

File ==
  {"key", "key.new", "csr", "crt", "org-ca", "platform-ca", "endorsed",
   "chain", "credential"}

(* What a server's answer may carry: a leaf or a credential at least;      *)
(* org-ca.crt is cut out of the chain.                                     *)
IssuedReply ==
  { r \in SUBSET {"crt", "chain", "org-ca", "platform-ca", "endorsed", "credential"} :
      /\ {"crt", "credential"} \cap r # {}
      /\ "chain" \in r <=> "org-ca" \in r }

ASSUME RepliesAreReplies ==
  /\ IssuedReplies \subseteq IssuedReply
  /\ Endorsements \subseteq SUBSET {"platform-ca", "endorsed"}

Content == Key \cup {None, Zeroed}

StateJson ==
  [status : Status,
   ski : Key \cup {None},
   pullToken : Key \cup {None},     \* the key whose enrollment it redeems
   renewedFrom : Key \cup {None}]

(* No state.json yet.  A written one never has this status. *)
NoState ==
  [status |-> "uninitialized", ski |-> None, pullToken |-> None,
   renewedFrom |-> None]

(* The order in which apply_issued, persist_renewed and wipe_secrets go    *)
(* through the files.                                                      *)
IssueOrder ==
  [f \in File |-> CASE f = "crt" -> 1 [] f = "chain" -> 2 [] f = "org-ca" -> 3
                    [] f = "platform-ca" -> 4 [] f = "endorsed" -> 5
                    [] OTHER -> 6]

(* Broken: the replacement key is removed before it is installed. *)
RenewOrderDropsFirst ==
  [f \in File |-> CASE f = "crt" -> 1 [] f = "chain" -> 2
                    [] f = "platform-ca" -> 3 [] f = "endorsed" -> 4
                    [] f = "key.new" -> 5 [] f = "key" -> 6 [] OTHER -> 7]

RenewOrder ==
  [f \in File |-> CASE f = "crt" -> 1 [] f = "chain" -> 2
                    [] f = "platform-ca" -> 3 [] f = "endorsed" -> 4
                    [] f = "key" -> 5 [] f = "key.new" -> 6 [] OTHER -> 7]

WipeOrder ==
  [f \in File |-> CASE f = "key" -> 1 [] f = "key.new" -> 2 [] f = "csr" -> 3
                    [] f = "crt" -> 4 [] f = "org-ca" -> 5
                    [] f = "platform-ca" -> 6 [] f = "endorsed" -> 7
                    [] f = "chain" -> 8 [] OTHER -> 9]

-----------------------------------------------------------------------------
(* Steps of a process *)

Goto(p, l) == pc' = [pc EXCEPT ![p] = l]

Put(f, v) == disk' = [disk EXCEPT ![f] = v]

(* Drop what the process held in memory and go to l: "idle" when the       *)
(* command is over, "waiting" between two polls of `enroll --wait`.        *)
Rest(p, l) ==
  /\ Goto(p, l)
  /\ mem'  = [mem EXCEPT ![p] = NoState]
  /\ key'  = [key EXCEPT ![p] = None]
  /\ todo' = [todo EXCEPT ![p] = {}]

Exit(p) == Rest(p, "idle")

(* The file of todo[p] that comes first in the given order. *)
IsNext(p, f, order) ==
  /\ f \in todo[p]
  /\ \A g \in todo[p] : order[f] <= order[g]

Done(p, f) == todo' = [todo EXCEPT ![p] = @ \ {f}]

(* secure_delete overwrites a file with zeros and then unlinks it; there is *)
(* nothing to do when there is no file.  Unlinking it is an error when     *)
(* another process got there first.                                        *)
SecureDelete(p, f, unlink) ==
  IF disk[f] = None
    THEN Done(p, f) /\ UNCHANGED <<disk, pc>>
    ELSE Put(f, Zeroed) /\ Goto(p, unlink) /\ UNCHANGED todo

Unlink(p, f, next) ==
  IF disk[f] = None
    THEN Exit(p) /\ UNCHANGED disk
    ELSE Put(f, None) /\ Done(p, f) /\ Goto(p, next) /\ UNCHANGED <<mem, key>>

(* The process dies, is killed, loses the connection or meets an error. *)
Abort(p) ==
  /\ pc[p] # "idle"
  /\ Exit(p)
  /\ UNCHANGED <<state, disk, minted, serverVars>>

-----------------------------------------------------------------------------
(* machine enroll *)

(* Broken: enroll does not look at the state it finds. *)
EnrollBeginAnyStatus(p) ==
  /\ pc[p] = "idle"
  /\ \E k \in Key \ minted :
       /\ minted' = minted \cup {k}
       /\ key' = [key EXCEPT ![p] = k]
  /\ Goto(p, "enroll_key")
  /\ UNCHANGED <<state, disk, mem, todo, serverVars>>

EnrollBegin(p) ==
  /\ pc[p] = "idle"
  /\ AllowsEnroll(state.status)
  /\ \E k \in Key \ minted :
       /\ minted' = minted \cup {k}
       /\ key' = [key EXCEPT ![p] = k]
  /\ Goto(p, "enroll_key")
  /\ UNCHANGED <<state, disk, mem, todo, serverVars>>

EnrollSaveKey(p) ==
  /\ pc[p] = "enroll_key"
  /\ Put("key", key[p])
  /\ Goto(p, "enroll_state")
  /\ UNCHANGED <<state, mem, key, todo, minted, serverVars>>

EnrollSaveState(p) ==
  /\ pc[p] = "enroll_state"
  /\ state' = [NoState EXCEPT !.status = "key_generated", !.ski = key[p]]
  /\ mem' = [mem EXCEPT ![p] = state']
  /\ Goto(p, "enroll_csr")
  /\ UNCHANGED <<disk, key, todo, minted, serverVars>>

EnrollSaveCsr(p) ==
  /\ pc[p] = "enroll_csr"
  /\ Put("csr", key[p])
  /\ mem' = [mem EXCEPT ![p].status = "csr_created"]
  /\ Goto(p, "enroll_csr_state")
  /\ UNCHANGED <<state, key, todo, minted, serverVars>>

EnrollSaveCsrState(p) ==
  /\ pc[p] = "enroll_csr_state"
  /\ state' = mem[p]
  /\ Goto(p, "enroll_send")
  /\ UNCHANGED <<disk, mem, key, todo, minted, serverVars>>

(* The server takes the enrollment: into the admin's inbox, or (instant    *)
(* enrollment, where the device signs with the local Entity CA) at once.   *)
EnrollCreate(p) ==
  /\ pc[p] = "enroll_send"
  /\ enrollment[key[p]] = "none"
  /\ \/ /\ enrollment' = [enrollment EXCEPT ![key[p]] = "pending"]
        /\ Goto(p, "enroll_pending")
        /\ UNCHANGED credential
     \/ /\ enrollment' = [enrollment EXCEPT ![key[p]] = "approved"]
        /\ credential' = [credential EXCEPT ![key[p]] = "active"]
        /\ Goto(p, "enroll_approved")
  /\ UNCHANGED <<state, disk, mem, key, todo, minted>>

(* Broken: the pull token is not stored. *)
EnrollPendingNoToken(p) ==
  /\ pc[p] = "enroll_pending"
  /\ state' = [mem[p] EXCEPT !.status = "pending_admin"]
  /\ \E l \in {"idle", "waiting"} : Rest(p, l)
  /\ UNCHANGED <<disk, minted, serverVars>>

EnrollPending(p) ==
  /\ pc[p] = "enroll_pending"
  /\ state' = [mem[p] EXCEPT !.status = "pending_admin", !.pullToken = key[p]]
  /\ \E l \in {"idle", "waiting"} : Rest(p, l)
  /\ UNCHANGED <<disk, minted, serverVars>>

EnrollApproved(p) ==
  /\ pc[p] = "enroll_approved"
  /\ \E token \in {None, key[p]} :   \* enroll-instant returns no token
       mem' = [mem EXCEPT ![p].status = "signed", ![p].pullToken = token]
  /\ \E reply \in IssuedReplies : todo' = [todo EXCEPT ![p] = reply]
  /\ Goto(p, "issue")
  /\ UNCHANGED <<state, disk, key, minted, serverVars>>

-----------------------------------------------------------------------------
(* machine pull, and each poll of `machine enroll --wait` *)

PullBegin(p) ==
  /\ pc[p] \in {"idle", "waiting"}
  /\ state.pullToken # None
  /\ mem' = [mem EXCEPT ![p] = state]
  /\ key' = [key EXCEPT ![p] = state.pullToken]
  /\ Goto(p, "pull_send")
  /\ UNCHANGED <<state, disk, todo, minted, serverVars>>

(* Broken: `enroll --wait` goes on waiting when the token has gone. *)
PullRefusedIgnored(p) ==
  pc[p] = "waiting" /\ state.pullToken = None /\ UNCHANGED vars

(* `enroll --wait` gives up: someone else dropped the pull token. *)
PullRefused(p) ==
  /\ pc[p] = "waiting"
  /\ state.pullToken = None
  /\ Exit(p)
  /\ UNCHANGED <<state, disk, minted, serverVars>>

EnrollPull(p) ==
  /\ pc[p] = "pull_send"
  /\ \/ enrollment[key[p]] = "pending"  /\ Goto(p, "pull_pending")
     \/ enrollment[key[p]] = "rejected" /\ Goto(p, "pull_rejected")
     \/ enrollment[key[p]] = "approved" /\ Goto(p, "pull_approved")
  /\ UNCHANGED <<state, disk, mem, key, todo, minted, serverVars>>

PullPending(p) ==
  /\ pc[p] = "pull_pending"
  /\ state' = mem[p]
  /\ \E l \in {"idle", "waiting"} : Rest(p, l)
  /\ UNCHANGED <<disk, minted, serverVars>>

PullRejected(p) ==
  /\ pc[p] = "pull_rejected"
  /\ IF CanTransitionTo(mem[p].status, "rejected")
       THEN state' = [mem[p] EXCEPT !.status = "rejected"]
       ELSE UNCHANGED state
  /\ Exit(p)
  /\ UNCHANGED <<disk, minted, serverVars>>

PullApproved(p) ==
  /\ pc[p] = "pull_approved"
  /\ mem' = [mem EXCEPT ![p].status = IF @ = "pending_admin" THEN "signed" ELSE @]
  /\ \E reply \in IssuedReplies : todo' = [todo EXCEPT ![p] = reply]
  /\ Goto(p, "issue")
  /\ UNCHANGED <<state, disk, key, minted, serverVars>>

-----------------------------------------------------------------------------
(* apply_issued *)

IssueLeaf(p) ==
  /\ pc[p] = "issue"
  /\ IF "crt" \in todo[p] THEN Put("crt", key[p]) ELSE UNCHANGED disk
  /\ IF CanTransitionTo(mem[p].status, "cert_received")
       THEN /\ mem' = [mem EXCEPT ![p].status = "cert_received"]
            /\ Done(p, "crt")
            /\ Goto(p, "issue_files")
            /\ UNCHANGED key
       ELSE Exit(p)
  /\ UNCHANGED <<state, minted, serverVars>>

(* An endorsement that comes without a Platform Root, when none is stored, *)
(* is refused after it was written; so is a credential that is not for     *)
(* machine.key.                                                            *)
IssueFile(p) ==
  /\ pc[p] = "issue_files"
  /\ \E f \in File :
       /\ IsNext(p, f, IssueOrder)
       /\ Put(f, key[p])
       /\ IF \/ f = "endorsed" /\ disk["platform-ca"] \notin Key
             \/ f = "credential" /\ disk["key"] # key[p]
            THEN Exit(p)
            ELSE /\ Done(p, f)
                 /\ mem' = [mem EXCEPT ![p].ski = IF f = "credential" THEN key[p] ELSE @]
                 /\ Goto(p, IF f = "credential" THEN "issue_save" ELSE "issue_files")
                 /\ UNCHANGED key
  /\ UNCHANGED <<state, minted, serverVars>>

(* A leaf without a credential: only the presence of a key is checked. *)
IssueVerifyKeyPresent(p) ==
  /\ pc[p] = "issue_files"
  /\ todo[p] = {}
  /\ IF disk["key"] # None
       THEN Goto(p, "issue_save") /\ UNCHANGED <<mem, key, todo>>
       ELSE Exit(p)
  /\ UNCHANGED <<state, disk, minted, serverVars>>

IssueSave(p) ==
  /\ pc[p] = "issue_save"
  /\ state' = [mem[p] EXCEPT !.status = "active"]
  /\ Exit(p)
  /\ UNCHANGED <<disk, minted, serverVars>>

-----------------------------------------------------------------------------
(* machine renew (and rotate-key, its alias) *)

(* Broken: the material of the interrupted renewal is taken for granted. *)
RenewResumeUnchecked(p) ==
  /\ pc[p] = "idle"
  /\ InRenewal(state.status)
  /\ key' = [key EXCEPT ![p] = disk["csr"]]
  /\ Goto(p, "renew_check")
  /\ UNCHANGED <<state, disk, mem, todo, minted, serverVars>>

(* prepare_renewal finds the material of an interrupted renewal. *)
RenewResume(p) ==
  /\ pc[p] = "idle"
  /\ InRenewal(state.status)
  /\ disk["key.new"] \in Key
  /\ disk["csr"] \in Key
  /\ key' = [key EXCEPT ![p] = disk["csr"]]
  /\ Goto(p, "renew_check")
  /\ UNCHANGED <<state, disk, mem, todo, minted, serverVars>>

RenewBegin(p) ==
  /\ pc[p] = "idle"
  /\ state.status = "active"
  /\ \E k \in Key \ minted :
       /\ minted' = minted \cup {k}
       /\ key' = [key EXCEPT ![p] = k]
  /\ mem' = [mem EXCEPT ![p] = state]
  /\ Goto(p, "renew_key")
  /\ UNCHANGED <<state, disk, todo, serverVars>>

RenewSaveKey(p) ==
  /\ pc[p] = "renew_key"
  /\ Put("key.new", key[p])
  /\ Goto(p, "renew_csr")
  /\ UNCHANGED <<state, mem, key, todo, minted, serverVars>>

(* Broken: the renewal keeps the CSR of the enrollment. *)
RenewSaveCsrForgotten(p) ==
  /\ pc[p] = "renew_csr"
  /\ mem' = [mem EXCEPT ![p].status = "renewing"]
  /\ Goto(p, "renew_state")
  /\ UNCHANGED <<state, disk, key, todo, minted, serverVars>>

RenewSaveCsr(p) ==
  /\ pc[p] = "renew_csr"
  /\ Put("csr", key[p])
  /\ mem' = [mem EXCEPT ![p].status = "renewing"]
  /\ Goto(p, "renew_state")
  /\ UNCHANGED <<state, key, todo, minted, serverVars>>

RenewSaveState(p) ==
  /\ pc[p] = "renew_state"
  /\ state' = mem[p]
  /\ Goto(p, "renew_check")
  /\ UNCHANGED <<disk, mem, key, todo, minted, serverVars>>

(* Broken: the locally signed leaf is installed without asking the server. *)
RenewCheckInstalls(p) ==
  /\ pc[p] = "renew_check"
  /\ InRenewal(state.status) /\ state.ski # None /\ disk["key.new"] = key[p]
  /\ mem' = [mem EXCEPT ![p] = state]
  /\ todo' = [todo EXCEPT ![p] = {"crt", "chain", "key", "key.new", "credential"}]
  /\ Goto(p, "renew_files")
  /\ UNCHANGED <<state, disk, key, minted, serverVars>>

(* complete_renewal loads everything again; the leaf and the credential    *)
(* were signed for the CSR's key.                                          *)
RenewCheck(p) ==
  /\ pc[p] = "renew_check"
  /\ IF /\ InRenewal(state.status)
        /\ state.ski # None
        /\ disk["key.new"] = key[p]
        /\ disk["csr"] # None
       THEN /\ mem' = [mem EXCEPT ![p] = state]
            /\ Goto(p, "renew_send")
            /\ UNCHANGED <<key, todo>>
       ELSE Exit(p)
  /\ UNCHANGED <<state, disk, minted, serverVars>>

(* The server retires the old credential for the new one.  A second        *)
(* request for the same renewal is answered like the first.                *)
MachineRenew(p) ==
  /\ pc[p] = "renew_send"
  /\ \/ /\ credential[mem[p].ski] = "active"
        /\ credential[key[p]] = "none"
        /\ credential' = [credential EXCEPT ![mem[p].ski] = "renewed",
                                            ![key[p]] = "active"]
     \/ /\ credential[mem[p].ski] = "renewed"
        /\ credential[key[p]] = "active"
        /\ UNCHANGED credential
  /\ \E endorsement \in Endorsements :
       todo' = [todo EXCEPT ![p] =
                  {"crt", "chain", "key", "key.new", "credential"} \cup endorsement]
  /\ Goto(p, "renew_files")
  /\ UNCHANGED <<state, disk, mem, key, minted, enrollment>>

(* persist_renewed *)
RenewFile(p) ==
  /\ pc[p] = "renew_files"
  /\ \E f \in File :
       /\ IsNext(p, f, RenewOrder)
       /\ IF f = "key.new"
            THEN SecureDelete(p, f, "renew_unlink") /\ UNCHANGED <<mem, key>>
            ELSE /\ Put(f, key[p])
                 /\ IF f = "endorsed" /\ disk["platform-ca"] \notin Key
                      THEN Exit(p)
                      ELSE Done(p, f) /\ UNCHANGED <<pc, mem, key>>
  /\ UNCHANGED <<state, minted, serverVars>>

RenewUnlink(p) ==
  /\ pc[p] = "renew_unlink"
  /\ Unlink(p, "key.new", "renew_files")
  /\ UNCHANGED <<state, minted, serverVars>>

(* Broken: state.json goes on naming the old key. *)
RenewSaveOldSki(p) ==
  /\ pc[p] = "renew_files"
  /\ todo[p] = {}
  /\ state' = [mem[p] EXCEPT !.status = "active", !.renewedFrom = mem[p].ski]
  /\ Exit(p)
  /\ UNCHANGED <<disk, minted, serverVars>>

(* Broken: the audit trail is taken after the key was exchanged. *)
RenewSaveTrailLate(p) ==
  /\ pc[p] = "renew_files"
  /\ todo[p] = {}
  /\ state' = [mem[p] EXCEPT !.status = "active", !.ski = key[p],
                             !.renewedFrom = key[p]]
  /\ Exit(p)
  /\ UNCHANGED <<disk, minted, serverVars>>

RenewSave(p) ==
  /\ pc[p] = "renew_files"
  /\ todo[p] = {}
  /\ state' = [mem[p] EXCEPT !.status = "active", !.ski = key[p],
                             !.renewedFrom = mem[p].ski]
  /\ Exit(p)
  /\ UNCHANGED <<disk, minted, serverVars>>

-----------------------------------------------------------------------------
(* machine decommission *)

DecommissionBegin(p) ==
  /\ pc[p] = "idle"
  /\ state.status = "active" \/ InRenewal(state.status)
  /\ state.ski # None
  /\ mem' = [mem EXCEPT ![p] = state]
  /\ Goto(p, "decommission_send")
  /\ UNCHANGED <<state, disk, key, todo, minted, serverVars>>

(* Broken: the replacement key of an interrupted renewal is not wiped. *)
MachineDecommissionKeepsNew(p) ==
  /\ pc[p] = "decommission_send"
  /\ credential[mem[p].ski] \in {"active", "revoked"}
  /\ credential' = [credential EXCEPT ![mem[p].ski] = "revoked"]
  /\ todo' = [todo EXCEPT ![p] = File \ {"key.new"}]
  /\ Goto(p, "wipe")
  /\ UNCHANGED <<state, disk, mem, key, minted, enrollment>>

MachineDecommission(p) ==
  /\ pc[p] = "decommission_send"
  /\ credential[mem[p].ski] \in {"active", "revoked"}
  /\ credential' = [credential EXCEPT ![mem[p].ski] = "revoked"]
  /\ todo' = [todo EXCEPT ![p] = File]
  /\ Goto(p, "wipe")
  /\ UNCHANGED <<state, disk, mem, key, minted, enrollment>>

WipeFile(p) ==
  /\ pc[p] = "wipe"
  /\ \E f \in File : IsNext(p, f, WipeOrder) /\ SecureDelete(p, f, "wipe_unlink")
  /\ UNCHANGED <<state, mem, key, minted, serverVars>>

WipeUnlink(p) ==
  /\ pc[p] = "wipe_unlink"
  /\ \E f \in File : IsNext(p, f, WipeOrder) /\ Unlink(p, f, "wipe")
  /\ UNCHANGED <<state, minted, serverVars>>

DecommissionSave(p) ==
  /\ pc[p] = "wipe"
  /\ todo[p] = {}
  /\ state' = [mem[p] EXCEPT !.status = "decommissioned", !.pullToken = None]
  /\ Exit(p)
  /\ UNCHANGED <<disk, minted, serverVars>>

-----------------------------------------------------------------------------
(* admin revoke, run on this machine *)

RevokeBegin(p) ==
  /\ pc[p] = "idle"
  /\ \E k \in minted : key' = [key EXCEPT ![p] = k]
  /\ Goto(p, "revoke_send")
  /\ UNCHANGED <<state, disk, mem, todo, minted, serverVars>>

CredentialRevoke(p) ==
  /\ pc[p] = "revoke_send"
  /\ credential[key[p]] \in {"active", "revoked"}
  /\ credential' = [credential EXCEPT ![key[p]] = "revoked"]
  /\ Goto(p, "revoke_load")
  /\ UNCHANGED <<state, disk, mem, key, todo, minted, enrollment>>

(* Broken: revoking any machine marks this one revoked. *)
RevokeLoadAnySki(p) ==
  /\ pc[p] = "revoke_load"
  /\ IF CanTransitionTo(state.status, "revoked")
       THEN /\ mem' = [mem EXCEPT ![p] = state]
            /\ Goto(p, "revoke_save")
            /\ UNCHANGED <<key, todo>>
       ELSE Exit(p)
  /\ UNCHANGED <<state, disk, minted, serverVars>>

RevokeLoad(p) ==
  /\ pc[p] = "revoke_load"
  /\ IF state.ski = key[p] /\ CanTransitionTo(state.status, "revoked")
       THEN /\ mem' = [mem EXCEPT ![p] = state]
            /\ Goto(p, "revoke_save")
            /\ UNCHANGED <<key, todo>>
       ELSE Exit(p)
  /\ UNCHANGED <<state, disk, minted, serverVars>>

RevokeSave(p) ==
  /\ pc[p] = "revoke_save"
  /\ state' = [mem[p] EXCEPT !.status = "revoked"]
  /\ Exit(p)
  /\ UNCHANGED <<disk, minted, serverVars>>

-----------------------------------------------------------------------------
(* The server refuses a request about a credential that is not active. *)
Refused(p) ==
  /\ \/ /\ pc[p] = "renew_send"
        /\ credential[mem[p].ski] # "active"
        /\ ~ (credential[mem[p].ski] = "renewed" /\ credential[key[p]] = "active")
     \/ /\ pc[p] = "decommission_send"
        /\ credential[mem[p].ski] \notin {"active", "revoked"}
     \/ /\ pc[p] = "revoke_send"
        /\ credential[key[p]] \notin {"active", "revoked"}
  /\ Exit(p)
  /\ UNCHANGED <<state, disk, minted, serverVars>>

(* What the organisation's admins do from other machines. *)
AdminApprove(k) ==
  /\ enrollment[k] = "pending"
  /\ enrollment' = [enrollment EXCEPT ![k] = "approved"]
  /\ credential' = [credential EXCEPT ![k] = "active"]
  /\ UNCHANGED <<state, disk, localVars, minted>>

AdminReject(k) ==
  /\ enrollment[k] = "pending"
  /\ enrollment' = [enrollment EXCEPT ![k] = "rejected"]
  /\ UNCHANGED <<state, disk, localVars, minted, credential>>

AdminRevoke(k) ==
  /\ credential[k] = "active"
  /\ credential' = [credential EXCEPT ![k] = "revoked"]
  /\ UNCHANGED <<state, disk, localVars, minted, enrollment>>

-----------------------------------------------------------------------------
Init ==
  /\ state = NoState
  /\ disk = [f \in File |-> None]
  /\ pc = [p \in Process |-> "idle"]
  /\ mem = [p \in Process |-> NoState]
  /\ key = [p \in Process |-> None]
  /\ todo = [p \in Process |-> {}]
  /\ minted = {}
  /\ enrollment = [k \in Key |-> "none"]
  /\ credential = [k \in Key |-> "none"]

Enroll(p) ==
  \/ EnrollBegin(p) \/ EnrollSaveKey(p) \/ EnrollSaveState(p) \/ EnrollSaveCsr(p)
  \/ EnrollSaveCsrState(p) \/ EnrollCreate(p) \/ EnrollPending(p) \/ EnrollApproved(p)

Pull(p) ==
  \/ PullBegin(p) \/ PullRefused(p) \/ EnrollPull(p) \/ PullPending(p)
  \/ PullRejected(p) \/ PullApproved(p)

ApplyIssued(p) ==
  IssueLeaf(p) \/ IssueFile(p) \/ IssueVerifyKeyPresent(p) \/ IssueSave(p)

Renew(p) ==
  \/ RenewResume(p) \/ RenewBegin(p) \/ RenewSaveKey(p) \/ RenewSaveCsr(p)
  \/ RenewSaveState(p) \/ RenewCheck(p) \/ MachineRenew(p) \/ RenewFile(p)
  \/ RenewUnlink(p) \/ RenewSave(p)

Decommission(p) ==
  \/ DecommissionBegin(p) \/ MachineDecommission(p) \/ WipeFile(p)
  \/ WipeUnlink(p) \/ DecommissionSave(p)

Revoke(p) ==
  RevokeBegin(p) \/ CredentialRevoke(p) \/ RevokeLoad(p) \/ RevokeSave(p)

Command(p) ==
  \/ Enroll(p) \/ Pull(p) \/ ApplyIssued(p) \/ Renew(p) \/ Decommission(p)
  \/ Revoke(p) \/ Refused(p)

Admin(k) == AdminApprove(k) \/ AdminReject(k) \/ AdminRevoke(k)

Next ==
  \/ \E p \in Process : Command(p) \/ Abort(p)
  \/ \E k \in Key : Admin(k)

Spec == Init /\ [][Next]_vars

(* A command that has started goes on: the runtime polls it, the server    *)
(* answers or refuses, and an admin ends up deciding every enrollment.     *)
Step(p) == pc[p] # "idle" /\ Command(p)

Decide(k) == AdminApprove(k) \/ AdminReject(k)

FairSpec ==
  /\ Spec
  /\ \A p \in Process : WF_vars(Step(p))
  /\ \A k \in Key : WF_vars(Decide(k))

-----------------------------------------------------------------------------
(* Properties *)

Label ==
  {"idle", "waiting",
   "enroll_key", "enroll_state", "enroll_csr", "enroll_csr_state", "enroll_send",
   "enroll_pending", "enroll_approved",
   "pull_send", "pull_pending", "pull_rejected", "pull_approved",
   "issue", "issue_files", "issue_save",
   "renew_key", "renew_csr", "renew_state", "renew_check", "renew_send", "renew_files",
   "renew_unlink", "decommission_send", "wipe", "wipe_unlink",
   "revoke_send", "revoke_load", "revoke_save"}

(* Files, records and the copies the commands hold are of the shapes that  *)
(* types.rs and keystore.rs give them, and what a command takes for a key  *)
(* is one: never a file that is missing or was zeroed.                     *)
TypeOK ==
  /\ state \in StateJson
  /\ disk \in [File -> Content]
  /\ pc \in [Process -> Label]
  /\ mem \in [Process -> StateJson]
  /\ key \in [Process -> Key \cup {None}]
  /\ todo \in [Process -> SUBSET File]
  /\ minted \in SUBSET Key
  /\ enrollment \in [Key -> {"none", "pending", "approved", "rejected"}]
  /\ credential \in [Key -> {"none", "active", "renewed", "revoked"}]

(* Wherever a command is cut short, the private key of a credential that   *)
(* the server still honours is in machine.key or machine.key.new.  Without *)
(* it the machine could neither present nor renew that credential.         *)
KeyCustody ==
  \A k \in Key : credential[k] = "active" => k \in {disk["key"], disk["key.new"]}

(* The server never honours two credentials of this machine at once:       *)
(* enrollment is refused while the local record may stand for a live one,  *)
(* and a renewal retires the credential it starts from.                    *)
OneLiveCredential ==
  \A j, k \in Key : credential[j] = "active" /\ credential[k] = "active" => j = k

(* A state.json that says "active" names a credential the server issued    *)
(* and has not replaced, and as long as that one is honoured its key is    *)
(* machine.key.                                                            *)
ActiveAgrees ==
  state.status = "active" =>
    /\ credential[state.ski] \in {"active", "revoked"}
    /\ credential[state.ski] = "active" => disk["key"] = state.ski

(* A machine found in "renewing" can resume (machine.key.new and its CSR   *)
(* are there), or the renewal went through with the new key and chain      *)
(* installed, or its credential has been revoked.                          *)
RenewalRecoverable ==
  InRenewal(state.status) =>
    \/ disk["key.new"] \in Key /\ disk["csr"] = disk["key.new"]
    \/ /\ credential[state.ski] = "renewed"
       /\ disk["key"] \in Key /\ disk["chain"] = disk["key"]
       /\ credential[disk["key"]] \in {"active", "revoked"}
    \/ credential[state.ski] = "revoked"

(* A decommissioned machine keeps nothing a credential was ever issued     *)
(* for: at most the key of a new enrollment that was never submitted.      *)
DecommissionedIsClean ==
  state.status = "decommissioned" =>
    /\ state.pullToken = None
    /\ credential[state.ski] = "revoked"
    /\ \A f \in File \ {"key"} : disk[f] = None
    /\ disk["key"] \in Key => enrollment[disk["key"]] = "none"
                             /\ credential[disk["key"]] = "none"

(* renewed_from_ski always names a credential that the server replaced. *)
AuditTrail ==
  state.renewedFrom # None => credential[state.renewedFrom] = "renewed"

(* Whatever the interleaving, nothing is installed that the server did not *)
(* issue, and a machine is only past its enrollment with such a key.       *)
OnlyIssued ==
  /\ \A f \in {"crt", "chain", "org-ca", "platform-ca", "endorsed", "credential"} :
       disk[f] \in Key => credential[disk[f]] # "none"
  /\ state.status \in {"active", "renewing", "revoked", "decommissioned"} =>
       credential[state.ski] # "none"

Identity == INSTANCE MachineIdentity WITH status <- state.status, ski <- state.ski

(* state.json and the server's record move together as one machine         *)
(* identity does: see MachineIdentity.                                     *)
ImplementsIdentity == Identity!Spec

(* Every command ends, `enroll --wait` included. *)
CommandsFinish ==
  \A p \in Process : pc[p] # "idle" ~> pc[p] = "idle"

(* If somebody runs `machine pull` again and again, and commands stop being *)
(* cut short, a machine that waits for an admin does not wait for ever.    *)
PendingIsDecided ==
  (\A p \in Process : SF_vars(PullBegin(p))) /\ <>[][~ \E p \in Process : Abort(p)]_vars
    => (state.status = "pending_admin" ~> state.status # "pending_admin")

-----------------------------------------------------------------------------
(* What the documents say and the code does not do *)

Quiet == \A p \in Process : pc[p] = "idle"

(* "Crash-safe: state.json tracks the transition": a renewal that was      *)
(* interrupted can be taken up again.                                      *)
RenewalResumable ==
  Quiet /\ InRenewal(state.status) /\ credential[state.ski] # "revoked" =>
    disk["key.new"] \in Key /\ disk["csr"] \in Key

(* "The CLI can survive process restarts": whatever state it is found in,  *)
(* some command can carry the machine on.                                  *)
SurvivesRestart ==
  Quiet => \/ AllowsEnroll(state.status)
           \/ state.pullToken # None
           \/ state.status = "active" \/ InRenewal(state.status)

(* "Legal next states from self": a decommissioned machine has none, and   *)
(* is not active again without a new enrollment.                           *)
NeverActiveAgain ==
  [][state.status = "decommissioned" => state'.status # "active"]_state
=============================================================================
