--------------------------- MODULE EnrollmentStatus ---------------------------
(***************************************************************************)
(* The statuses a machine's state.json can carry, and the moves between   *)
(* them that MachineState::transition accepts                             *)
(* (packages/dp-rust-sdk/src/types.rs).                                    *)
(***************************************************************************)

Status ==
  {"uninitialized", "key_generated", "csr_created", "enrollment_submitted",
   "pending_admin", "rejected", "signed", "cert_received", "cert_verified",
   "active", "renewing", "rotating", "revoked", "decommissioned"}

(* The statuses from which `machine enroll` may start afresh. *)
AllowsEnroll(s) ==
  s \in {"uninitialized", "rejected", "decommissioned", "revoked"}

(* A replacement key is being put in place of the current one. *)
InRenewal(s) == s \in {"renewing", "rotating"}

CanTransitionTo(s, t) ==
  \/ <<s, t>> \in {<<"uninitialized", "key_generated">>,
                   <<"key_generated", "csr_created">>,
                   <<"csr_created", "enrollment_submitted">>,
                   <<"enrollment_submitted", "pending_admin">>,
                   <<"pending_admin", "rejected">>,
                   <<"pending_admin", "signed">>,
                   <<"signed", "cert_received">>,
                   <<"cert_received", "cert_verified">>,
                   <<"cert_verified", "active">>}
  \/ s = "active"  /\ t \in {"renewing", "rotating", "revoked", "decommissioned"}
  \/ InRenewal(s)  /\ t \in {"active", "decommissioned", "revoked", "rejected"}
=============================================================================
