---------------------------- MODULE MachineIdentity ----------------------------
(***************************************************************************)
(* What a machine's lifecycle promises, seen from outside: the record the  *)
(* machine keeps of itself (status and SKI of state.json) and the server's *)
(* record of the credentials issued to it.  The machine's record only      *)
(* moves on when the server's record allows it.                            *)
(***************************************************************************)
EXTENDS EnrollmentStatus

CONSTANTS Key, None

VARIABLES status, ski, credential

idVars == <<status, ski, credential>>

Init ==
  /\ status = "uninitialized"
  /\ ski = None
  /\ credential = [k \in Key |-> "none"]

-----------------------------------------------------------------------------
(* The machine's record *)

Record(s, k) == status' = s /\ ski' = k /\ UNCHANGED credential

Issued(k) == credential[k] \in {"active", "revoked"}

StartEnroll(k) ==
  AllowsEnroll(status) /\ credential[k] = "none" /\ Record("key_generated", k)

MakeCsr == status = "key_generated" /\ Record("csr_created", ski)

AwaitAdmin == status = "csr_created" /\ Record("pending_admin", ski)

Activate ==
  status \in {"csr_created", "pending_admin"} /\ Issued(ski) /\ Record("active", ski)

Reject ==
  status = "pending_admin" /\ credential[ski] = "none" /\ Record("rejected", ski)

StartRenewal == status = "active" /\ Record("renewing", ski)

FinishRenewal(k) ==
  status = "renewing" /\ credential[ski] = "renewed" /\ Issued(k) /\ Record("active", k)

Close ==
  /\ status \in {"active", "renewing"}
  /\ credential[ski] = "revoked"
  /\ \E s \in {"revoked", "decommissioned"} : Record(s, ski)

-----------------------------------------------------------------------------
(* The server's record *)

Issue(k) ==
  /\ status \in {"csr_created", "pending_admin"} /\ ski = k
  /\ \A j \in Key : credential[j] # "active"
  /\ credential[k] = "none"
  /\ credential' = [credential EXCEPT ![k] = "active"]
  /\ UNCHANGED <<status, ski>>

Replace(k) ==
  /\ status = "renewing"
  /\ credential[ski] = "active" /\ credential[k] = "none"
  /\ credential' = [credential EXCEPT ![ski] = "renewed", ![k] = "active"]
  /\ UNCHANGED <<status, ski>>

Withdraw(k) ==
  /\ credential[k] = "active"
  /\ credential' = [credential EXCEPT ![k] = "revoked"]
  /\ UNCHANGED <<status, ski>>

-----------------------------------------------------------------------------
Next ==
  \/ MakeCsr \/ AwaitAdmin \/ Activate \/ Reject \/ StartRenewal \/ Close
  \/ \E k \in Key : \/ StartEnroll(k) \/ FinishRenewal(k)
                     \/ Issue(k) \/ Replace(k) \/ Withdraw(k)

Spec == Init /\ [][Next]_idVars
=============================================================================
