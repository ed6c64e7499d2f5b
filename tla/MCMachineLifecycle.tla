-------------------------- MODULE MCMachineLifecycle --------------------------
(* Small instances of MachineLifecycle for TLC. *)
EXTENDS MachineLifecycleInv, TLC

(* Everything, a leaf alone, and (instant enrollment) a credential alone. *)
MCReplies ==
  {{"crt", "chain", "org-ca", "platform-ca", "endorsed", "credential"},
   {"crt"}, {"credential"}}

(* A renewal is endorsed again or not at all; an endorsement may come      *)
(* without the root.                                                       *)
MCEndorsements == {{}, {"endorsed"}}

OneReply == {{"crt"}}

OneEndorsement == {{}}

Symmetry == Permutations(Key)
=============================================================================
