-------------------------- MODULE MachineLifecycleInv --------------------------
(***************************************************************************)
(* Inductive invariants of MachineLifecycle.                               *)
(***************************************************************************)
EXTENDS MachineLifecycle

(* Files that hold what the server issued. *)
IssuedFile == {"crt", "chain", "org-ca", "platform-ca", "endorsed", "credential"}

Issued(k) == credential[k] # "none"

(* Statuses of a machine that has been active. *)
Enrolled == {"active", "renewing", "revoked", "decommissioned"}

(* Where a process is making an enrollment key known, where it works with a *)
(* replacement key, and where it installs a key the server has issued for.  *)
Enrolling ==
  {"enroll_key", "enroll_state", "enroll_csr", "enroll_csr_state", "enroll_send"}

Renewing ==
  {"renew_key", "renew_csr", "renew_state", "renew_send", "renew_files", "renew_unlink"}

Pulling == {"pull_send", "pull_pending", "pull_rejected", "pull_approved"}

Installing ==
  {"enroll_approved", "pull_approved", "issue", "issue_files", "issue_save",
   "renew_files", "renew_unlink"}

WithKey ==
  Enrolling \cup Renewing \cup Pulling \cup Installing
    \cup {"enroll_pending", "renew_check", "revoke_send", "revoke_load", "revoke_save"}

(* Nothing refers to a key before it is generated. *)
FreshKeys ==
  \A k \in Key \ minted :
    /\ credential[k] = "none" /\ enrollment[k] = "none"
    /\ \A f \in File : disk[f] # k
    /\ \A p \in Process : key[p] # k
    /\ state.pullToken # k /\ state.ski # k
    /\ \A p \in Process : mem[p].pullToken # k /\ mem[p].ski # k

(* An enrollment key is never a replacement key as well, and a replacement *)
(* or enrollment key in the making belongs to one process.                 *)
KeysApart ==
  /\ \A p, q \in Process :
       pc[p] \in Enrolling /\ pc[q] \in Enrolling \cup Renewing /\ p # q => key[p] # key[q]
  /\ \A p \in Process :
       pc[p] \in Enrolling => /\ disk["key.new"] # key[p]
                              /\ enrollment[key[p]] = "none"
                              /\ credential[key[p]] = "none"
  /\ \A p \in Process : pc[p] \in Renewing => enrollment[key[p]] = "none"
  /\ disk["key.new"] \in Key => enrollment[disk["key.new"]] = "none"

(* The server issues on approval only. *)
EnrollmentIssues ==
  \A k \in Key :
    /\ enrollment[k] = "approved" => Issued(k)
    /\ enrollment[k] \in {"pending", "rejected"} => ~ Issued(k)

(* What a machine record r (on disk or in memory) stands for, given the    *)
(* server's credentials c.                                                 *)
RecordOK(r, c) ==
  /\ r.renewedFrom # None => c[r.renewedFrom] = "renewed"
  /\ r.status # "uninitialized" => r.ski \in Key
  /\ r.status \in Enrolled => c[r.ski] # "none"
  /\ r.status \in {"pending_admin", "signed", "cert_received"} =>
       r.pullToken \in {None, r.ski}
  /\ r.status \notin {"cert_verified", "enrollment_submitted", "rotating"}

RecordsOK ==
  /\ RecordOK(state, credential)
  /\ \A p \in Process : RecordOK(mem[p], credential)

(* What a process knows at label l, with record m in memory and working    *)
(* with key k, given the server's credentials c.                           *)
KnowsOK(l, m, k, c) ==
  /\ l \in WithKey => k \in Key
  /\ l \in Installing => c[k] # "none"
  /\ l \in Pulling => m.pullToken = k
  /\ l \in {"enroll_csr", "enroll_csr_state", "enroll_send", "enroll_pending",
            "enroll_approved"} =>
       /\ m.ski = k /\ m.pullToken = None /\ m.renewedFrom = None
       /\ m.status \in {"key_generated", "csr_created"}
  /\ l = "issue" /\ m.status = "signed" => m.ski = k
  /\ l \in {"issue_files", "issue_save"} => m.status = "cert_received" /\ m.ski = k
  /\ l \in {"renew_key", "renew_csr"} => m.status = "active"
  /\ l \in {"renew_state", "renew_send", "renew_files", "renew_unlink"} =>
       m.status = "renewing"
  /\ l \in {"renew_files", "renew_unlink"} => c[m.ski] = "renewed"
  /\ l \in {"revoke_save", "decommission_send", "wipe", "wipe_unlink"} =>
       m.status \in {"active", "renewing"}

ProcessesOK ==
  \A p \in Process : KnowsOK(pc[p], mem[p], key[p], credential)

(* A pull only ever writes what an enrollment can come with. *)
WorkListsOK ==
  \A p \in Process : pc[p] \in {"issue", "issue_files"} => todo[p] \subseteq IssuedFile

(* For any number of processes. *)
SharedInv ==
  /\ FreshKeys /\ KeysApart /\ EnrollmentIssues
  /\ RecordsOK /\ ProcessesOK /\ WorkListsOK
  /\ OnlyIssued

-----------------------------------------------------------------------------
(* With a single process at a time.                                        *)

Live(k) == credential[k] = "active"

(* The process's copy of state.json is the one on disk, but for what it is *)
(* about to save.                                                          *)
MemoryOK(p) ==
  /\ pc[p] \in {"enroll_csr", "enroll_send", "enroll_pending", "enroll_approved", "renew_key",
               "renew_csr", "renew_send", "renew_files", "renew_unlink",
               "decommission_send", "wipe", "wipe_unlink", "revoke_save"} \cup Pulling
       => mem[p] = state
  /\ pc[p] \in {"enroll_key", "enroll_state"} => AllowsEnroll(state.status)
  /\ pc[p] = "enroll_csr" => state.status = "key_generated"
  /\ pc[p] = "enroll_csr_state" =>
       state.status = "key_generated" /\ mem[p] = [state EXCEPT !.status = "csr_created"]
  /\ pc[p] \in {"enroll_send", "enroll_pending", "enroll_approved"} =>
       state.status = "csr_created"
  /\ pc[p] \in {"enroll_approved", "pull_approved"} => enrollment[key[p]] = "approved"
  /\ pc[p] = "pull_rejected" => enrollment[key[p]] = "rejected"
  /\ pc[p] = "issue" =>
       /\ state.status # "decommissioned"
       /\ mem[p].status = "signed" => /\ state.status \in {"csr_created", "pending_admin"}
                                      /\ state.ski = key[p]
  /\ pc[p] \in {"issue_files", "issue_save"} =>
       /\ state.status \in {"csr_created", "pending_admin"} /\ state.ski = key[p]
       /\ mem[p].pullToken \in {None, key[p]}
  /\ pc[p] = "renew_state" =>
       state.status = "active" /\ mem[p] = [state EXCEPT !.status = "renewing"]

(* What the server honours, and which key file it needs, given the status  *)
(* on disk.                                                                *)
LiveOK ==
  /\ state.status \notin {"signed", "cert_received"}
  /\ \A k \in Key : enrollment[k] = "pending" =>
       /\ state.status \in {"csr_created", "pending_admin"} /\ state.ski = k
       /\ \A j \in Key : ~ Live(j)
  /\ \A k \in Key : Live(k) =>
       \/ /\ state.status \in {"csr_created", "pending_admin", "active", "renewing"}
          /\ state.ski = k /\ disk["key"] = k
       \/ /\ state.status = "renewing" /\ credential[state.ski] = "renewed"
          /\ disk["csr"] = k
  /\ state.status \in {"key_generated", "csr_created", "pending_admin"} =>
       disk["key"] = state.ski
  /\ state.status = "key_generated" =>
       credential[state.ski] = "none" /\ enrollment[state.ski] = "none"
  /\ state.status \in {"csr_created", "pending_admin"} /\ Issued(state.ski) =>
       enrollment[state.ski] = "approved" /\ credential[state.ski] # "renewed"
  /\ state.status \in {"active", "renewing"} /\ state.pullToken # None =>
       enrollment[state.pullToken] = "approved"
  /\ state.status = "active" => credential[state.ski] # "renewed"
  /\ state.status \in {"revoked", "decommissioned"} => credential[state.ski] = "revoked"

(* The key a renewal puts in place is the one its CSR is for.              *)
RenewalOK ==
  state.status = "renewing" /\ credential[state.ski] # "revoked" =>
    /\ disk["csr"] \in Key
    /\ credential[state.ski] = "active" =>
         disk["key.new"] = disk["csr"] /\ credential[disk["csr"]] = "none"
    /\ credential[state.ski] = "renewed" =>
         /\ credential[disk["csr"]] \in {"active", "revoked"}
         /\ \/ disk["key.new"] = disk["csr"]
            \/ disk["key"] = disk["csr"] /\ disk["chain"] = disk["csr"]

(* How far a command has come with its files.                              *)
FilesOK(p) ==
  /\ pc[p] = "enroll_state" => disk["key"] = key[p]
  /\ pc[p] = "renew_csr" => disk["key.new"] = key[p]
  /\ pc[p] = "renew_state" => disk["key.new"] = key[p] /\ disk["csr"] = key[p]
  /\ pc[p] \in {"renew_key", "renew_csr", "renew_state"} => credential[key[p]] = "none"
  /\ pc[p] \in {"renew_check", "renew_send", "renew_files", "renew_unlink"} =>
       disk["csr"] = key[p]
  /\ pc[p] = "renew_files" => /\ "key" \in todo[p] \/ disk["key"] = key[p]
                              /\ "chain" \in todo[p] \/ disk["chain"] = key[p]
  /\ pc[p] = "renew_unlink" => disk["key"] = key[p] /\ disk["chain"] = key[p]
  /\ pc[p] \in {"wipe", "wipe_unlink"} =>
       /\ credential[state.ski] = "revoked"
       /\ \A f \in File : f \in todo[p] \/ disk[f] = None
  /\ pc[p] \in {"revoke_load", "revoke_save"} => credential[key[p]] = "revoked"
  /\ pc[p] = "revoke_save" => state.ski = key[p]

SoloInv ==
  /\ \A p \in Process : MemoryOK(p) /\ FilesOK(p)
  /\ LiveOK /\ RenewalOK /\ DecommissionedIsClean
=============================================================================
