---------------------- MODULE MachineLifecycle_proofs -----------------------
(***************************************************************************)
(* Proofs about MachineLifecycle, for any number of keys: its types; what  *)
(* holds however many processes share the state directory; and what holds  *)
(* when one command runs at a time, wherever it is cut short.              *)
(***************************************************************************)
EXTENDS MachineLifecycleInv, TLAPS

-----------------------------------------------------------------------------
(* Types *)

(* The updates of a machine record that the commands make keep its type.   *)
LEMMA RecordTypes ==
  ASSUME NEW r \in StateJson, NEW s \in Status, NEW k \in Key \cup {None}
  PROVE  /\ [r EXCEPT !.status = s] \in StateJson
         /\ [r EXCEPT !.status = s, !.pullToken = k] \in StateJson
         /\ [r EXCEPT !.status = s, !.ski = k] \in StateJson
BY DEF StateJson

LEMMA NoStateType == NoState \in StateJson
BY DEF StateJson, NoState, Status

(* Every step keeps the variables within their types.                      *)
LEMMA TypeStep == TypeOK /\ [Next]_vars => TypeOK'
<1> USE SentinelsAreNotKeys, RepliesAreReplies, NoStateType
<1> SUFFICES ASSUME TypeOK, [Next]_vars PROVE TypeOK'
  OBVIOUS
<1> USE DEF TypeOK, Content, serverVars, localVars, Goto, Put, Done, Exit, Rest
<1>1. ASSUME NEW p \in Process, Command(p) PROVE TypeOK'
  <2>0. /\ mem[p] \in StateJson /\ key[p] \in Key \cup {None}
        /\ state.pullToken \in Key \cup {None} /\ mem[p].ski \in Key \cup {None}
    BY DEF StateJson
  <2>1. CASE Enroll(p)
    <3>1. CASE EnrollBegin(p)  BY <2>0, <3>1 DEF EnrollBegin, Label
    <3>2. CASE EnrollSaveKey(p)  BY <2>0, <3>2 DEF EnrollSaveKey, Label
    <3>3. CASE EnrollSaveState(p)
      <4>1. [NoState EXCEPT !.status = "key_generated", !.ski = key[p]] \in StateJson
        BY <2>0, RecordTypes DEF Status
      <4>2. QED  BY <3>3, <4>1 DEF EnrollSaveState, Label
    <3>4. CASE EnrollSaveCsr(p)
      <4>1. [mem[p] EXCEPT !.status = "csr_created"] \in StateJson
        BY <2>0, RecordTypes DEF Status
      <4>2. QED  BY <3>4, <4>1 DEF EnrollSaveCsr, Label
    <3>5. CASE EnrollSaveCsrState(p)  BY <2>0, <3>5 DEF EnrollSaveCsrState, Label
    <3>6. CASE EnrollCreate(p)  BY <2>0, <3>6 DEF EnrollCreate, Label
    <3>7. CASE EnrollPending(p)
      <4>1. [mem[p] EXCEPT !.status = "pending_admin", !.pullToken = key[p]] \in StateJson
        BY <2>0, RecordTypes DEF Status
      <4>2. QED  BY <3>7, <4>1 DEF EnrollPending, Label
    <3>8. CASE EnrollApproved(p)
      <4>1. PICK token \in {None, key[p]} :
              mem' = [mem EXCEPT ![p].status = "signed", ![p].pullToken = token]
        BY <3>8 DEF EnrollApproved
      <4>2. token \in Key \cup {None} /\ "signed" \in Status
        BY <2>0 DEF Status
      <4>3. [mem[p] EXCEPT !.status = "signed", !.pullToken = token] \in StateJson
        BY <2>0, <4>2, RecordTypes
      <4>4. mem' \in [Process -> StateJson]
        BY <4>1, <4>3
      <4>5. todo' \in [Process -> SUBSET File]
        BY <3>8 DEF EnrollApproved, IssuedReply, File
      <4>6. QED  BY <3>8, <4>4, <4>5 DEF EnrollApproved, Label
    <3>9. QED  BY <2>1, <3>1, <3>2, <3>3, <3>4, <3>5, <3>6, <3>7, <3>8 DEF Enroll
  <2>2. CASE Pull(p)
    <3>1. CASE PullBegin(p)  BY <2>0, <3>1 DEF PullBegin, Label
    <3>2. CASE PullRefused(p)  BY <2>0, <3>2 DEF PullRefused, Label
    <3>3. CASE EnrollPull(p)  BY <2>0, <3>3 DEF EnrollPull, Label
    <3>4. CASE PullPending(p)  BY <2>0, <3>4 DEF PullPending, Label
    <3>5. CASE PullRejected(p)
      <4>1. [mem[p] EXCEPT !.status = "rejected"] \in StateJson
        BY <2>0, RecordTypes DEF Status
      <4>2. QED  BY <3>5, <4>1 DEF PullRejected, Label
    <3>6. CASE PullApproved(p)
      <4> DEFINE s == IF mem[p].status = "pending_admin" THEN "signed" ELSE mem[p].status
      <4>1. s \in Status
        BY <2>0 DEF StateJson, Status
      <4>2. [mem[p] EXCEPT !.status = s] \in StateJson
        <5> HIDE DEF s
        <5> QED  BY <2>0, <4>1, RecordTypes
      <4>3. mem' \in [Process -> StateJson]
        BY <3>6, <4>2 DEF PullApproved
      <4>4. todo' \in [Process -> SUBSET File]
        BY <3>6 DEF PullApproved, IssuedReply, File
      <4>5. QED  BY <3>6, <4>3, <4>4 DEF PullApproved, Label
    <3>7. QED  BY <2>2, <3>1, <3>2, <3>3, <3>4, <3>5, <3>6 DEF Pull
  <2>3. CASE ApplyIssued(p)
    <3>1. CASE IssueLeaf(p)
      <4>1. disk' \in [File -> Content]
        BY <3>1, <2>0 DEF IssueLeaf
      <4>2. [mem[p] EXCEPT !.status = "cert_received"] \in StateJson
        BY <2>0, RecordTypes DEF Status
      <4>3. CASE CanTransitionTo(mem[p].status, "cert_received")
        BY <3>1, <4>1, <4>2, <4>3 DEF IssueLeaf, Label
      <4>4. CASE ~ CanTransitionTo(mem[p].status, "cert_received")
        BY <3>1, <4>1, <4>4 DEF IssueLeaf, Label
      <4>5. QED  BY <4>3, <4>4
    <3>2. CASE IssueFile(p)
      <4>1. PICK f \in File : /\ Put(f, key[p])
                              /\ \/ Exit(p)
                                 \/ /\ Done(p, f)
                                    /\ mem' = [mem EXCEPT ![p].ski = IF f = "credential"
                                                                      THEN key[p] ELSE @]
                                    /\ \E l \in Label : Goto(p, l)
                                    /\ UNCHANGED key
        BY <3>2 DEF IssueFile, Label
      <4> DEFINE ski == IF f = "credential" THEN key[p] ELSE mem[p].ski
      <4>2. [mem[p] EXCEPT !.ski = ski] \in StateJson
        <5>1. ski \in Key \cup {None}
          BY <2>0
        <5> HIDE DEF ski
        <5>2. QED  BY <2>0, <5>1 DEF StateJson
      <4>3. UNCHANGED <<state, minted, serverVars>> /\ disk' \in [File -> Content]
        BY <3>2, <4>1 DEF IssueFile
      <4>4. CASE Exit(p)
        BY <4>3, <4>4 DEF Label
      <4>5. CASE ~ Exit(p)
        BY <4>1, <4>2, <4>3, <4>5
      <4>6. QED  BY <4>4, <4>5
    <3>3. CASE IssueVerifyKeyPresent(p)
      <4>1. CASE Exit(p)
        BY <3>3, <4>1 DEF IssueVerifyKeyPresent, Label
      <4>2. CASE ~ Exit(p)
        BY <3>3, <4>2 DEF IssueVerifyKeyPresent, Label
      <4>3. QED  BY <4>1, <4>2
    <3>4. CASE IssueSave(p)
      <4>1. [mem[p] EXCEPT !.status = "active"] \in StateJson
        BY <2>0, RecordTypes DEF Status
      <4>2. QED  BY <3>4, <4>1 DEF IssueSave, Label
    <3>5. QED  BY <2>3, <3>1, <3>2, <3>3, <3>4 DEF ApplyIssued
  <2>4. CASE Renew(p)
    <3>1. CASE RenewResume(p)  BY <2>0, <3>1 DEF RenewResume, Label
    <3>2. CASE RenewBegin(p)  BY <2>0, <3>2 DEF RenewBegin, Label
    <3>3. CASE RenewSaveKey(p)  BY <2>0, <3>3 DEF RenewSaveKey, Label
    <3>4. CASE RenewSaveCsr(p)
      <4>1. [mem[p] EXCEPT !.status = "renewing"] \in StateJson
        BY <2>0, RecordTypes DEF Status
      <4>2. QED  BY <3>4, <4>1 DEF RenewSaveCsr, Label
    <3>5. CASE RenewSaveState(p)  BY <2>0, <3>5 DEF RenewSaveState, Label
    <3>6. CASE RenewCheck(p)
      <4>1. CASE Exit(p)
        BY <3>6, <4>1 DEF RenewCheck, Label
      <4>2. CASE ~ Exit(p)
        BY <3>6, <4>2 DEF RenewCheck, Label
      <4>3. QED  BY <4>1, <4>2
    <3>7. CASE MachineRenew(p)  BY <2>0, <3>7 DEF MachineRenew, File, Label
    <3>8. CASE RenewFile(p)  BY <2>0, <3>8 DEF RenewFile, SecureDelete, Label
    <3>9. CASE RenewUnlink(p)
      <4>1. CASE Exit(p)
        BY <3>9, <4>1 DEF RenewUnlink, Unlink, Label
      <4>2. CASE ~ Exit(p)
        BY <3>9, <4>2 DEF RenewUnlink, Unlink, Label
      <4>3. QED  BY <4>1, <4>2
    <3>10. CASE RenewSave(p)
      <4> DEFINE r == [mem[p] EXCEPT !.status = "active", !.ski = key[p]]
      <4>1. r \in StateJson
        BY <2>0, RecordTypes DEF Status
      <4>2. [r EXCEPT !.renewedFrom = mem[p].ski] \in StateJson
        <5> HIDE DEF r
        <5> QED  BY <2>0, <4>1 DEF StateJson
      <4>3. QED  BY <3>10, <4>2 DEF RenewSave, Label
    <3>11. QED  BY <2>4, <3>1, <3>2, <3>3, <3>4, <3>5, <3>6, <3>7, <3>8, <3>9, <3>10 DEF Renew
  <2>5. CASE Decommission(p)
    <3>1. CASE DecommissionBegin(p)  BY <2>0, <3>1 DEF DecommissionBegin, Label
    <3>2. CASE MachineDecommission(p)  BY <2>0, <3>2 DEF MachineDecommission, File, Label
    <3>3. CASE WipeFile(p)  BY <2>0, <3>3 DEF WipeFile, SecureDelete, Label
    <3>4. CASE WipeUnlink(p)
      <4>1. CASE Exit(p)
        BY <3>4, <4>1 DEF WipeUnlink, Unlink, Label
      <4>2. CASE ~ Exit(p)
        BY <3>4, <4>2 DEF WipeUnlink, Unlink, Label
      <4>3. QED  BY <4>1, <4>2
    <3>5. CASE DecommissionSave(p)
      <4>1. [mem[p] EXCEPT !.status = "decommissioned", !.pullToken = None] \in StateJson
        BY <2>0, RecordTypes DEF Status
      <4>2. QED  BY <3>5, <4>1 DEF DecommissionSave, Label
    <3>6. QED  BY <2>5, <3>1, <3>2, <3>3, <3>4, <3>5 DEF Decommission
  <2>6. CASE Revoke(p)
    <3>1. CASE RevokeBegin(p)  BY <2>0, <3>1 DEF RevokeBegin, Label
    <3>2. CASE CredentialRevoke(p)  BY <2>0, <3>2 DEF CredentialRevoke, Label
    <3>3. CASE RevokeLoad(p)
      <4>1. CASE Exit(p)
        BY <3>3, <4>1 DEF RevokeLoad, Label
      <4>2. CASE ~ Exit(p)
        BY <3>3, <4>2 DEF RevokeLoad, Label
      <4>3. QED  BY <4>1, <4>2
    <3>4. CASE RevokeSave(p)
      <4>1. [mem[p] EXCEPT !.status = "revoked"] \in StateJson
        BY <2>0, RecordTypes DEF Status
      <4>2. QED  BY <3>4, <4>1 DEF RevokeSave, Label
    <3>5. QED  BY <2>6, <3>1, <3>2, <3>3, <3>4 DEF Revoke
  <2>7. CASE Refused(p)  BY <2>7 DEF Refused, Label
  <2>8. QED  BY <1>1, <2>1, <2>2, <2>3, <2>4, <2>5, <2>6, <2>7 DEF Command
<1>2. ASSUME NEW p \in Process, Abort(p) PROVE TypeOK'
  BY <1>2 DEF Abort, Label
<1>3. ASSUME NEW k \in Key, Admin(k) PROVE TypeOK'
  BY <1>3 DEF Admin, AdminApprove, AdminReject, AdminRevoke
<1>4. CASE UNCHANGED vars
  BY <1>4 DEF vars
<1>5. QED
  BY <1>1, <1>2, <1>3, <1>4 DEF Next

(* The variables keep their types in every behaviour.                      *)
THEOREM TypeCorrect == Spec => []TypeOK
<1>1. Init => TypeOK
  BY SentinelsAreNotKeys DEF Init, TypeOK, StateJson, NoState, Status, Content, Label
<1>2. QED
  BY <1>1, TypeStep, PTL DEF Spec

-----------------------------------------------------------------------------
(* However many processes share the state directory *)

(* A process leaves alone what the other processes hold.                   *)
LEMMA Frame ==
  ASSUME TypeOK, NEW p \in Process, Command(p) \/ Abort(p), NEW q \in Process, q # p
  PROVE  pc'[q] = pc[q] /\ mem'[q] = mem[q] /\ key'[q] = key[q]
<1> USE DEF TypeOK, Goto, Done, Exit, Rest, SecureDelete, Unlink
<1>1. CASE Enroll(p)
  BY <1>1 DEF Enroll, EnrollBegin, EnrollSaveKey, EnrollSaveState, EnrollSaveCsr,
              EnrollSaveCsrState, EnrollCreate, EnrollPending, EnrollApproved
<1>2. CASE Pull(p)
  BY <1>2 DEF Pull, PullBegin, PullRefused, EnrollPull, PullPending, PullRejected,
              PullApproved
<1>3. CASE ApplyIssued(p)
  BY <1>3 DEF ApplyIssued, IssueLeaf, IssueFile, IssueVerifyKeyPresent, IssueSave
<1>4. CASE Renew(p)
  BY <1>4 DEF Renew, RenewResume, RenewBegin, RenewSaveKey, RenewSaveCsr, RenewSaveState,
              RenewCheck, MachineRenew, RenewFile, RenewUnlink, RenewSave
<1>5. CASE Decommission(p)
  BY <1>5 DEF Decommission, DecommissionBegin, MachineDecommission, WipeFile, WipeUnlink,
              DecommissionSave
<1>6. CASE Revoke(p)
  BY <1>6 DEF Revoke, RevokeBegin, CredentialRevoke, RevokeLoad, RevokeSave
<1>7. CASE Refused(p) \/ Abort(p)
  BY <1>7 DEF Refused, Abort
<1>8. QED
  BY <1>1, <1>2, <1>3, <1>4, <1>5, <1>6, <1>7 DEF Command

(* Only four steps of a process change what the server has on record.      *)
LEMMA ServerSteps ==
  ASSUME NEW p \in Process, Command(p) \/ Abort(p)
  PROVE  \/ UNCHANGED serverVars
         \/ EnrollCreate(p) \/ MachineRenew(p) \/ MachineDecommission(p) \/ CredentialRevoke(p)
<1>1. CASE Enroll(p)
  BY <1>1 DEF Enroll, EnrollBegin, EnrollSaveKey, EnrollSaveState, EnrollSaveCsr,
              EnrollSaveCsrState, EnrollPending, EnrollApproved
<1>2. CASE Pull(p)
  BY <1>2 DEF Pull, PullBegin, PullRefused, EnrollPull, PullPending, PullRejected,
              PullApproved
<1>3. CASE ApplyIssued(p)
  BY <1>3 DEF ApplyIssued, IssueLeaf, IssueFile, IssueVerifyKeyPresent, IssueSave
<1>4. CASE Renew(p)
  BY <1>4 DEF Renew, RenewResume, RenewBegin, RenewSaveKey, RenewSaveCsr, RenewSaveState,
              RenewCheck, RenewFile, RenewUnlink, RenewSave
<1>5. CASE Decommission(p)
  BY <1>5 DEF Decommission, DecommissionBegin, WipeFile, WipeUnlink, DecommissionSave
<1>6. CASE Revoke(p)
  BY <1>6 DEF Revoke, RevokeBegin, RevokeLoad, RevokeSave
<1>7. CASE Refused(p) \/ Abort(p)
  BY <1>7 DEF Refused, Abort
<1>8. QED
  BY <1>1, <1>2, <1>3, <1>4, <1>5, <1>6, <1>7 DEF Command

(* What the server has issued stays issued, what it has replaced stays     *)
(* replaced, and an enrollment stays on record.                            *)
Grows(c, d, e, f) ==
  \A k \in Key : /\ c[k] # "none" => d[k] # "none"
                 /\ c[k] = "renewed" => d[k] = "renewed"
                 /\ e[k] # "none" => f[k] # "none"

LEMMA ServerGrows ==
  ASSUME TypeOK, KeysApart, EnrollmentIssues, ProcessesOK, [Next]_vars
  PROVE  Grows(credential, credential', enrollment, enrollment')
<1> USE DEF TypeOK, Grows
<1>1. ASSUME NEW p \in Process, Command(p) \/ Abort(p)
      PROVE  Grows(credential, credential', enrollment, enrollment')
  <2>1. CASE UNCHANGED serverVars
    BY <2>1 DEF serverVars
  <2>2. CASE EnrollCreate(p)
    BY <2>2 DEF EnrollCreate, KeysApart, Enrolling, ProcessesOK, KnowsOK, WithKey
  <2>3. CASE MachineRenew(p)
    BY <2>3 DEF MachineRenew
  <2>4. CASE MachineDecommission(p)
    BY <2>4 DEF MachineDecommission
  <2>5. CASE CredentialRevoke(p)
    BY <2>5 DEF CredentialRevoke
  <2>6. QED
    BY <1>1, <2>1, <2>2, <2>3, <2>4, <2>5, ServerSteps
<1>2. ASSUME NEW k \in Key, Admin(k)
      PROVE  Grows(credential, credential', enrollment, enrollment')
  BY <1>2 DEF Admin, AdminApprove, AdminReject, AdminRevoke, EnrollmentIssues, Issued
<1>3. CASE UNCHANGED vars
  BY <1>3 DEF vars
<1>4. QED
  BY <1>1, <1>2, <1>3 DEF Next

(* A growing server record does not falsify a machine record or what a     *)
(* process knows.                                                          *)
LEMMA RecordGrows ==
  ASSUME NEW c, NEW d, NEW e, NEW f, Grows(c, d, e, f),
         NEW r \in StateJson, RecordOK(r, c)
  PROVE  RecordOK(r, d)
BY DEF Grows, RecordOK, StateJson, Enrolled

LEMMA KnowledgeGrows ==
  ASSUME NEW c, NEW d, NEW e, NEW f, Grows(c, d, e, f),
         NEW l, NEW m \in StateJson, NEW k, KnowsOK(l, m, k, c), RecordOK(m, c)
  PROVE  KnowsOK(l, m, k, d)
BY DEF Grows, KnowsOK, RecordOK, StateJson, Installing, WithKey

(* The machine records, on disk and in memory, agree with the server.      *)
LEMMA RecordsStep ==
  ASSUME TypeOK, TypeOK', SharedInv, [Next]_vars
  PROVE  RecordsOK'
<1>0. Grows(credential, credential', enrollment, enrollment')
  BY ServerGrows DEF SharedInv
<1>1. ASSUME NEW p \in Process, Command(p) \/ Abort(p) PROVE RecordsOK'
  <2>1. RecordOK(state', credential) /\ RecordOK(mem'[p], credential)
    <3>0. /\ RecordOK(state, credential) /\ RecordOK(mem[p], credential)
          /\ KnowsOK(pc[p], mem[p], key[p], credential)
          /\ state \in StateJson /\ mem[p] \in StateJson /\ RecordOK(NoState, credential)
      BY DEF SharedInv, RecordsOK, ProcessesOK, TypeOK, RecordOK, NoState, Enrolled
    <3>01. mem \in [Process -> StateJson]
      BY DEF TypeOK
    <3> USE <3>0, <3>01 DEF StateJson, Status, RecordOK, KnowsOK, Enrolled, WithKey,
                     Installing, Enrolling, Renewing, Pulling, Goto, Exit, Rest, SecureDelete, Unlink, NoState
    <3>1. CASE Enroll(p)
      <4>1. CASE EnrollBegin(p)  BY <4>1 DEF EnrollBegin
      <4>2. CASE EnrollSaveKey(p)  BY <4>2 DEF EnrollSaveKey
      <4>3. CASE EnrollSaveState(p)  BY <4>3 DEF EnrollSaveState
      <4>4. CASE EnrollSaveCsr(p)  BY <4>4 DEF EnrollSaveCsr
      <4>5. CASE EnrollSaveCsrState(p)  BY <4>5 DEF EnrollSaveCsrState
      <4>6. CASE EnrollCreate(p)  BY <4>6 DEF EnrollCreate
      <4>7. CASE EnrollPending(p)  BY <4>7 DEF EnrollPending
      <4>8. CASE EnrollApproved(p)  BY <4>8 DEF EnrollApproved
      <4>9. QED  BY <3>1, <4>1, <4>2, <4>3, <4>4, <4>5, <4>6, <4>7, <4>8 DEF Enroll
    <3>2. CASE Pull(p)
      <4>1. CASE PullBegin(p)  BY <4>1 DEF PullBegin
      <4>2. CASE PullRefused(p)  BY <4>2 DEF PullRefused
      <4>3. CASE EnrollPull(p)  BY <4>3 DEF EnrollPull
      <4>4. CASE PullPending(p)  BY <4>4 DEF PullPending
      <4>5. CASE PullRejected(p)  BY <4>5 DEF PullRejected, CanTransitionTo, InRenewal
      <4>6. CASE PullApproved(p)  BY <4>6 DEF PullApproved
      <4>7. QED  BY <3>2, <4>1, <4>2, <4>3, <4>4, <4>5, <4>6 DEF Pull
    <3>3. CASE ApplyIssued(p)
      <4>1. CASE IssueLeaf(p)  BY <4>1 DEF IssueLeaf, CanTransitionTo, InRenewal
      <4>2. CASE IssueFile(p)  BY <4>2 DEF IssueFile
      <4>3. CASE IssueVerifyKeyPresent(p)  BY <4>3 DEF IssueVerifyKeyPresent
      <4>4. CASE IssueSave(p)  BY <4>4 DEF IssueSave
      <4>5. QED  BY <3>3, <4>1, <4>2, <4>3, <4>4 DEF ApplyIssued
    <3>4. CASE Renew(p)
      <4>1. CASE RenewResume(p)  BY <4>1 DEF RenewResume
      <4>2. CASE RenewBegin(p)  BY <4>2 DEF RenewBegin
      <4>3. CASE RenewSaveKey(p)  BY <4>3 DEF RenewSaveKey
      <4>4. CASE RenewSaveCsr(p)  BY <4>4 DEF RenewSaveCsr
      <4>5. CASE RenewSaveState(p)  BY <4>5 DEF RenewSaveState
      <4>6. CASE RenewCheck(p)  BY <4>6 DEF RenewCheck
      <4>7. CASE MachineRenew(p)  BY <4>7 DEF MachineRenew
      <4>8. CASE RenewFile(p)  BY <4>8 DEF RenewFile
      <4>9. CASE RenewUnlink(p)  BY <4>9 DEF RenewUnlink
      <4>10. CASE RenewSave(p)  BY <4>10 DEF RenewSave
      <4>11. QED  BY <3>4, <4>1, <4>2, <4>3, <4>4, <4>5, <4>6, <4>7, <4>8, <4>9, <4>10 DEF Renew
    <3>5. CASE Decommission(p)
      <4>1. CASE DecommissionBegin(p)  BY <4>1 DEF DecommissionBegin
      <4>2. CASE MachineDecommission(p)  BY <4>2 DEF MachineDecommission
      <4>3. CASE WipeFile(p)  BY <4>3 DEF WipeFile
      <4>4. CASE WipeUnlink(p)  BY <4>4 DEF WipeUnlink
      <4>5. CASE DecommissionSave(p)  BY <4>5 DEF DecommissionSave
      <4>6. QED  BY <3>5, <4>1, <4>2, <4>3, <4>4, <4>5 DEF Decommission
    <3>6. CASE Revoke(p)
      <4>1. CASE RevokeBegin(p)  BY <4>1 DEF RevokeBegin
      <4>2. CASE CredentialRevoke(p)  BY <4>2 DEF CredentialRevoke
      <4>3. CASE RevokeLoad(p)  BY <4>3 DEF RevokeLoad
      <4>4. CASE RevokeSave(p)  BY <4>4 DEF RevokeSave
      <4>5. QED  BY <3>6, <4>1, <4>2, <4>3, <4>4 DEF Revoke
    <3>7. CASE Refused(p) \/ Abort(p)
      BY <3>7 DEF Refused, Abort
    <3>8. QED
      BY <1>1, <3>1, <3>2, <3>3, <3>4, <3>5, <3>6, <3>7 DEF Command
  <2>2. ASSUME NEW q \in Process, q # p PROVE RecordOK(mem'[q], credential)
    BY <1>1, <2>2, Frame DEF SharedInv, RecordsOK
  <2>3. QED
    BY <1>0, <2>1, <2>2, RecordGrows DEF RecordsOK, TypeOK
<1>2. ASSUME NEW k \in Key, Admin(k) PROVE RecordsOK'
  <2>1. UNCHANGED <<state, mem>>
    BY <1>2 DEF Admin, AdminApprove, AdminReject, AdminRevoke, localVars
  <2>2. QED
    BY <1>0, <2>1, RecordGrows DEF SharedInv, RecordsOK, TypeOK
<1>3. CASE UNCHANGED vars
  BY <1>3 DEF vars, SharedInv, RecordsOK
<1>4. QED
  BY <1>1, <1>2, <1>3 DEF Next

(* What a process knows at its label is what its earlier steps found out.  *)
LEMMA ProcessesStep ==
  ASSUME TypeOK, TypeOK', SharedInv, [Next]_vars
  PROVE  ProcessesOK'
<1>0. Grows(credential, credential', enrollment, enrollment')
  BY ServerGrows DEF SharedInv
<1>1. ASSUME NEW p \in Process, Command(p) \/ Abort(p) PROVE ProcessesOK'
  <2>1. KnowsOK(pc'[p], mem'[p], key'[p], credential')
    <3>0. /\ RecordOK(state, credential) /\ RecordOK(mem[p], credential)
          /\ KnowsOK(pc[p], mem[p], key[p], credential)
          /\ state \in StateJson /\ mem[p] \in StateJson
      BY DEF SharedInv, RecordsOK, ProcessesOK, TypeOK
    <3>01. /\ mem \in [Process -> StateJson] /\ key \in [Process -> Key \cup {None}]
           /\ pc \in [Process -> Label] /\ minted \in SUBSET Key
           /\ credential \in [Key -> {"none", "active", "renewed", "revoked"}]
      BY DEF TypeOK
    <3>02. EnrollmentIssues /\ None \notin Key
      BY SentinelsAreNotKeys DEF SharedInv
    <3> USE <3>0, <3>01, <3>02
        DEF StateJson, Status, RecordOK, KnowsOK, Enrolled, WithKey, Installing, Enrolling,
            Renewing, Pulling, Goto, Exit, Rest, Done, SecureDelete, Unlink, NoState, serverVars
    <3>1. CASE Enroll(p)
      <4>1. CASE EnrollBegin(p)  BY <4>1 DEF EnrollBegin
      <4>2. CASE EnrollSaveKey(p)  BY <4>2 DEF EnrollSaveKey
      <4>3. CASE EnrollSaveState(p)  BY <4>3 DEF EnrollSaveState
      <4>4. CASE EnrollSaveCsr(p)  BY <4>4 DEF EnrollSaveCsr
      <4>5. CASE EnrollSaveCsrState(p)  BY <4>5 DEF EnrollSaveCsrState
      <4>6. CASE EnrollCreate(p)  BY <4>6 DEF EnrollCreate
      <4>7. CASE EnrollPending(p)  BY <4>7 DEF EnrollPending
      <4>8. CASE EnrollApproved(p)  BY <4>8 DEF EnrollApproved
      <4>9. QED  BY <3>1, <4>1, <4>2, <4>3, <4>4, <4>5, <4>6, <4>7, <4>8 DEF Enroll
    <3>2. CASE Pull(p)
      <4>1. CASE PullBegin(p)  BY <4>1 DEF PullBegin
      <4>2. CASE PullRefused(p)  BY <4>2 DEF PullRefused
      <4>3. CASE EnrollPull(p)  BY <4>3 DEF EnrollPull, EnrollmentIssues, Issued
      <4>4. CASE PullPending(p)  BY <4>4 DEF PullPending
      <4>5. CASE PullRejected(p)  BY <4>5 DEF PullRejected
      <4>6. CASE PullApproved(p)  BY <4>6 DEF PullApproved
      <4>7. QED  BY <3>2, <4>1, <4>2, <4>3, <4>4, <4>5, <4>6 DEF Pull
    <3>3. CASE ApplyIssued(p)
      <4>1. CASE IssueLeaf(p)  BY <4>1 DEF IssueLeaf, CanTransitionTo, InRenewal
      <4>2. CASE IssueFile(p)  BY <4>2 DEF IssueFile
      <4>3. CASE IssueVerifyKeyPresent(p)  BY <4>3 DEF IssueVerifyKeyPresent
      <4>4. CASE IssueSave(p)  BY <4>4 DEF IssueSave
      <4>5. QED  BY <3>3, <4>1, <4>2, <4>3, <4>4 DEF ApplyIssued
    <3>4. CASE Renew(p)
      <4>1. CASE RenewResume(p)  BY <4>1 DEF RenewResume
      <4>2. CASE RenewBegin(p)  BY <4>2 DEF RenewBegin
      <4>3. CASE RenewSaveKey(p)  BY <4>3 DEF RenewSaveKey
      <4>4. CASE RenewSaveCsr(p)  BY <4>4 DEF RenewSaveCsr
      <4>5. CASE RenewSaveState(p)  BY <4>5 DEF RenewSaveState
      <4>6. CASE RenewCheck(p)  BY <4>6 DEF RenewCheck, InRenewal
      <4>7. CASE MachineRenew(p)  BY <4>7 DEF MachineRenew
      <4>8. CASE RenewFile(p)  BY <4>8 DEF RenewFile
      <4>9. CASE RenewUnlink(p)  BY <4>9 DEF RenewUnlink
      <4>10. CASE RenewSave(p)  BY <4>10 DEF RenewSave
      <4>11. QED  BY <3>4, <4>1, <4>2, <4>3, <4>4, <4>5, <4>6, <4>7, <4>8, <4>9, <4>10 DEF Renew
    <3>5. CASE Decommission(p)
      <4>1. CASE DecommissionBegin(p)  BY <4>1 DEF DecommissionBegin, InRenewal
      <4>2. CASE MachineDecommission(p)  BY <4>2 DEF MachineDecommission
      <4>3. CASE WipeFile(p)  BY <4>3 DEF WipeFile
      <4>4. CASE WipeUnlink(p)  BY <4>4 DEF WipeUnlink
      <4>5. CASE DecommissionSave(p)  BY <4>5 DEF DecommissionSave
      <4>6. QED  BY <3>5, <4>1, <4>2, <4>3, <4>4, <4>5 DEF Decommission
    <3>6. CASE Revoke(p)
      <4>1. CASE RevokeBegin(p)  BY <4>1 DEF RevokeBegin
      <4>2. CASE CredentialRevoke(p)  BY <4>2 DEF CredentialRevoke
      <4>3. CASE RevokeLoad(p)  BY <4>3 DEF RevokeLoad, CanTransitionTo, InRenewal
      <4>4. CASE RevokeSave(p)  BY <4>4 DEF RevokeSave
      <4>5. QED  BY <3>6, <4>1, <4>2, <4>3, <4>4 DEF Revoke
    <3>7. CASE Refused(p) \/ Abort(p)
      BY <3>7 DEF Refused, Abort
    <3>8. QED
      BY <1>1, <3>1, <3>2, <3>3, <3>4, <3>5, <3>6, <3>7 DEF Command
  <2>2. ASSUME NEW q \in Process, q # p PROVE KnowsOK(pc'[q], mem'[q], key'[q], credential')
    <3>1. pc'[q] = pc[q] /\ mem'[q] = mem[q] /\ key'[q] = key[q]
      BY <1>1, <2>2, Frame
    <3>2. KnowsOK(pc[q], mem[q], key[q], credential')
      BY <1>0, KnowledgeGrows DEF SharedInv, RecordsOK, ProcessesOK, TypeOK
    <3>3. QED
      BY <3>1, <3>2
  <2>3. QED
    BY <2>1, <2>2 DEF ProcessesOK
<1>2. ASSUME NEW k \in Key, Admin(k) PROVE ProcessesOK'
  <2>1. UNCHANGED <<pc, mem, key>>
    BY <1>2 DEF Admin, AdminApprove, AdminReject, AdminRevoke, localVars
  <2>2. QED
    BY <1>0, <2>1, KnowledgeGrows DEF SharedInv, RecordsOK, ProcessesOK, TypeOK
<1>3. CASE UNCHANGED vars
  BY <1>3 DEF vars, SharedInv, ProcessesOK
<1>4. QED
  BY <1>1, <1>2, <1>3 DEF Next

(* Keys in the making stay with their process, and enrollment keys never   *)
(* become replacement keys.                                                *)
LEMMA KeysApartStep ==
  ASSUME TypeOK, SharedInv, [Next]_vars
  PROVE  KeysApart'
<1>1. ASSUME NEW p \in Process, Command(p) \/ Abort(p) PROVE KeysApart'
  <2>0. /\ KeysApart /\ FreshKeys /\ WorkListsOK /\ TypeOK /\ None \notin Key /\ Zeroed \notin Key
        /\ \A q \in Process : pc[q] \in WithKey => key[q] \in Key
    BY SentinelsAreNotKeys DEF SharedInv, ProcessesOK, KnowsOK
  <2> USE <2>0
      DEF KeysApart, TypeOK, Enrolling, Renewing, WithKey, Goto, Exit, Rest, Done, Put,
            SecureDelete, Unlink,
          serverVars
  <2>1. CASE Enroll(p)
    <3>1. CASE EnrollBegin(p)
      <4>1. PICK k \in Key \ minted : key' = [key EXCEPT ![p] = k]
        BY <3>1 DEF EnrollBegin
      <4>2. /\ credential[k] = "none" /\ enrollment[k] = "none" /\ disk["key.new"] # k
            /\ \A q \in Process : key[q] # k
        BY DEF FreshKeys, File
      <4>3. QED  BY <3>1, <4>1, <4>2 DEF EnrollBegin
    <3>2. CASE EnrollSaveKey(p)  BY <3>2 DEF EnrollSaveKey
    <3>3. CASE EnrollSaveState(p)  BY <3>3 DEF EnrollSaveState
    <3>4. CASE EnrollSaveCsr(p)  BY <3>4 DEF EnrollSaveCsr
    <3>5. CASE EnrollSaveCsrState(p)  BY <3>5 DEF EnrollSaveCsrState
    <3>6. CASE EnrollCreate(p)  BY <3>6 DEF EnrollCreate
    <3>7. CASE EnrollPending(p)  BY <3>7 DEF EnrollPending
    <3>8. CASE EnrollApproved(p)  BY <3>8 DEF EnrollApproved
    <3>9. QED  BY <2>1, <3>1, <3>2, <3>3, <3>4, <3>5, <3>6, <3>7, <3>8 DEF Enroll
  <2>2. CASE Pull(p)
    <3>1. CASE PullBegin(p)  BY <3>1 DEF PullBegin
    <3>2. CASE PullRefused(p)  BY <3>2 DEF PullRefused
    <3>3. CASE EnrollPull(p)  BY <3>3 DEF EnrollPull
    <3>4. CASE PullPending(p)  BY <3>4 DEF PullPending
    <3>5. CASE PullRejected(p)  BY <3>5 DEF PullRejected
    <3>6. CASE PullApproved(p)  BY <3>6 DEF PullApproved
    <3>7. QED  BY <2>2, <3>1, <3>2, <3>3, <3>4, <3>5, <3>6 DEF Pull
  <2>3. CASE ApplyIssued(p)
    <3>1. CASE IssueLeaf(p)  BY <3>1 DEF IssueLeaf, File
    <3>2. CASE IssueFile(p)  BY <3>2 DEF IssueFile, IsNext, WorkListsOK, IssuedFile, File
    <3>3. CASE IssueVerifyKeyPresent(p)  BY <3>3 DEF IssueVerifyKeyPresent
    <3>4. CASE IssueSave(p)  BY <3>4 DEF IssueSave
    <3>5. QED  BY <2>3, <3>1, <3>2, <3>3, <3>4 DEF ApplyIssued
  <2>4. CASE Renew(p)
    <3>1. CASE RenewResume(p)  BY <3>1 DEF RenewResume
    <3>2. CASE RenewBegin(p)  BY <3>2 DEF RenewBegin, FreshKeys
    <3>3. CASE RenewSaveKey(p)  BY <3>3 DEF RenewSaveKey
    <3>4. CASE RenewSaveCsr(p)  BY <3>4 DEF RenewSaveCsr
    <3>5. CASE RenewSaveState(p)  BY <3>5 DEF RenewSaveState
    <3>6. CASE RenewCheck(p)  BY <3>6 DEF RenewCheck
    <3>7. CASE MachineRenew(p)  BY <3>7 DEF MachineRenew, File
    <3>8. CASE RenewFile(p)  BY <3>8 DEF RenewFile, File
    <3>9. CASE RenewUnlink(p)  BY <3>9 DEF RenewUnlink, File
    <3>10. CASE RenewSave(p)  BY <3>10 DEF RenewSave
    <3>11. QED  BY <2>4, <3>1, <3>2, <3>3, <3>4, <3>5, <3>6, <3>7, <3>8, <3>9, <3>10 DEF Renew
  <2>5. CASE Decommission(p)
    <3>1. CASE DecommissionBegin(p)  BY <3>1 DEF DecommissionBegin
    <3>2. CASE MachineDecommission(p)  BY <3>2 DEF MachineDecommission
    <3>3. CASE WipeFile(p)  BY <3>3 DEF WipeFile, File
    <3>4. CASE WipeUnlink(p)  BY <3>4 DEF WipeUnlink, File
    <3>5. CASE DecommissionSave(p)  BY <3>5 DEF DecommissionSave
    <3>6. QED  BY <2>5, <3>1, <3>2, <3>3, <3>4, <3>5 DEF Decommission
  <2>6. CASE Revoke(p)
    <3>1. CASE RevokeBegin(p)  BY <3>1 DEF RevokeBegin
    <3>2. CASE CredentialRevoke(p)  BY <3>2 DEF CredentialRevoke
    <3>3. CASE RevokeLoad(p)  BY <3>3 DEF RevokeLoad
    <3>4. CASE RevokeSave(p)  BY <3>4 DEF RevokeSave
    <3>5. QED  BY <2>6, <3>1, <3>2, <3>3, <3>4 DEF Revoke
  <2>7. CASE Refused(p) \/ Abort(p)
    BY <2>7 DEF Refused, Abort
  <2>8. QED
    BY <1>1, <2>1, <2>2, <2>3, <2>4, <2>5, <2>6, <2>7 DEF Command
<1>2. ASSUME NEW k \in Key, Admin(k) PROVE KeysApart'
  <2>1. \A q \in Process : pc[q] \in Enrolling \cup Renewing => key[q] \in Key
    BY DEF SharedInv, ProcessesOK, KnowsOK, WithKey
  <2>2. pc' = pc /\ key' = key /\ disk' = disk
    BY <1>2 DEF Admin, AdminApprove, AdminReject, AdminRevoke, localVars
  <2>3. /\ \A j \in Key : enrollment[j] = "none" => enrollment'[j] = "none"
        /\ \A j \in Key : enrollment[j] = "none" /\ credential[j] = "none"
                         => credential'[j] = "none"
    BY <1>2 DEF Admin, AdminApprove, AdminReject, AdminRevoke, TypeOK
  <2>4. KeysApart
    BY DEF SharedInv
  <2> HIDE DEF Enrolling, Renewing
  <2>5. \A p, q \in Process :
          pc'[p] \in Enrolling /\ pc'[q] \in Enrolling \cup Renewing /\ p # q => key'[p] # key'[q]
    BY <2>2, <2>4 DEF KeysApart
  <2>6. \A p \in Process : pc'[p] \in Enrolling => /\ disk'["key.new"] # key'[p]
                              /\ enrollment'[key'[p]] = "none"
                              /\ credential'[key'[p]] = "none"
    BY <2>1, <2>2, <2>3, <2>4 DEF KeysApart
  <2>7. \A p \in Process : pc'[p] \in Renewing => enrollment'[key'[p]] = "none"
    BY <2>1, <2>2, <2>3, <2>4 DEF KeysApart
  <2>8. disk'["key.new"] \in Key => enrollment'[disk'["key.new"]] = "none"
    BY <2>1, <2>2, <2>3, <2>4 DEF KeysApart
  <2>9. QED
    BY <2>5, <2>6, <2>7, <2>8 DEF KeysApart
<1>3. CASE UNCHANGED vars
  BY <1>3 DEF vars, SharedInv, KeysApart
<1>4. QED
  BY <1>1, <1>2, <1>3 DEF Next

(* Nothing refers to a key before it is generated.                         *)
LEMMA FreshKeysStep ==
  ASSUME TypeOK, SharedInv, [Next]_vars
  PROVE  FreshKeys'
<1>1. ASSUME NEW p \in Process, Command(p) \/ Abort(p) PROVE FreshKeys'
  <2>0. /\ FreshKeys /\ TypeOK /\ None \notin Key /\ Zeroed \notin Key
        /\ KnowsOK(pc[p], mem[p], key[p], credential) /\ RecordOK(mem[p], credential)
    BY SentinelsAreNotKeys DEF SharedInv, ProcessesOK, RecordsOK
  <2> USE <2>0
      DEF FreshKeys, TypeOK, StateJson, NoState, Goto, Exit, Rest, Done, Put, SecureDelete,
            Unlink,
          serverVars
  <2>1. CASE Enroll(p)
    <3>1. CASE EnrollBegin(p)  BY <3>1 DEF EnrollBegin
    <3>2. CASE EnrollSaveKey(p)  BY <3>2 DEF EnrollSaveKey
    <3>3. CASE EnrollSaveState(p)  BY <3>3 DEF EnrollSaveState
    <3>4. CASE EnrollSaveCsr(p)  BY <3>4 DEF EnrollSaveCsr
    <3>5. CASE EnrollSaveCsrState(p)  BY <3>5 DEF EnrollSaveCsrState
    <3>6. CASE EnrollCreate(p)  BY <3>6 DEF EnrollCreate, KnowsOK, WithKey, Enrolling
    <3>7. CASE EnrollPending(p)  BY <3>7 DEF EnrollPending
    <3>8. CASE EnrollApproved(p)  BY <3>8 DEF EnrollApproved
    <3>9. QED  BY <2>1, <3>1, <3>2, <3>3, <3>4, <3>5, <3>6, <3>7, <3>8 DEF Enroll
  <2>2. CASE Pull(p)
    <3>1. CASE PullBegin(p)  BY <3>1 DEF PullBegin
    <3>2. CASE PullRefused(p)  BY <3>2 DEF PullRefused
    <3>3. CASE EnrollPull(p)  BY <3>3 DEF EnrollPull
    <3>4. CASE PullPending(p)  BY <3>4 DEF PullPending
    <3>5. CASE PullRejected(p)  BY <3>5 DEF PullRejected
    <3>6. CASE PullApproved(p)  BY <3>6 DEF PullApproved
    <3>7. QED  BY <2>2, <3>1, <3>2, <3>3, <3>4, <3>5, <3>6 DEF Pull
  <2>3. CASE ApplyIssued(p)
    <3>1. CASE IssueLeaf(p)  BY <3>1 DEF IssueLeaf
    <3>2. CASE IssueFile(p)  BY <3>2 DEF IssueFile
    <3>3. CASE IssueVerifyKeyPresent(p)  BY <3>3 DEF IssueVerifyKeyPresent
    <3>4. CASE IssueSave(p)  BY <3>4 DEF IssueSave
    <3>5. QED  BY <2>3, <3>1, <3>2, <3>3, <3>4 DEF ApplyIssued
  <2>4. CASE Renew(p)
    <3>1. CASE RenewResume(p)  BY <3>1 DEF RenewResume, File
    <3>2. CASE RenewBegin(p)  BY <3>2 DEF RenewBegin
    <3>3. CASE RenewSaveKey(p)  BY <3>3 DEF RenewSaveKey
    <3>4. CASE RenewSaveCsr(p)  BY <3>4 DEF RenewSaveCsr
    <3>5. CASE RenewSaveState(p)  BY <3>5 DEF RenewSaveState
    <3>6. CASE RenewCheck(p)  BY <3>6 DEF RenewCheck
    <3>7. CASE MachineRenew(p)  BY <3>7 DEF MachineRenew, KnowsOK, RecordOK, WithKey, Renewing
    <3>8. CASE RenewFile(p)
      <4>1. CASE Exit(p)  BY <3>8, <4>1 DEF RenewFile
      <4>2. CASE ~ Exit(p)  BY <3>8, <4>2 DEF RenewFile
      <4>3. QED  BY <4>1, <4>2
    <3>9. CASE RenewUnlink(p)
      <4>1. CASE Exit(p)  BY <3>9, <4>1 DEF RenewUnlink
      <4>2. CASE ~ Exit(p)  BY <3>9, <4>2 DEF RenewUnlink
      <4>3. QED  BY <4>1, <4>2
    <3>10. CASE RenewSave(p)  BY <3>10 DEF RenewSave
    <3>11. QED  BY <2>4, <3>1, <3>2, <3>3, <3>4, <3>5, <3>6, <3>7, <3>8, <3>9, <3>10 DEF Renew
  <2>5. CASE Decommission(p)
    <3>1. CASE DecommissionBegin(p)  BY <3>1 DEF DecommissionBegin
    <3>2. CASE MachineDecommission(p)  BY <3>2 DEF MachineDecommission
    <3>3. CASE WipeFile(p)  BY <3>3 DEF WipeFile
    <3>4. CASE WipeUnlink(p)
      <4>1. CASE Exit(p)  BY <3>4, <4>1 DEF WipeUnlink
      <4>2. CASE ~ Exit(p)  BY <3>4, <4>2 DEF WipeUnlink
      <4>3. QED  BY <4>1, <4>2
    <3>5. CASE DecommissionSave(p)  BY <3>5 DEF DecommissionSave
    <3>6. QED  BY <2>5, <3>1, <3>2, <3>3, <3>4, <3>5 DEF Decommission
  <2>6. CASE Revoke(p)
    <3>1. CASE RevokeBegin(p)  BY <3>1 DEF RevokeBegin
    <3>2. CASE CredentialRevoke(p)  BY <3>2 DEF CredentialRevoke
    <3>3. CASE RevokeLoad(p)
      <4>1. CASE Exit(p)  BY <3>3, <4>1 DEF RevokeLoad
      <4>2. CASE ~ Exit(p)  BY <3>3, <4>2 DEF RevokeLoad
      <4>3. QED  BY <4>1, <4>2
    <3>4. CASE RevokeSave(p)  BY <3>4 DEF RevokeSave
    <3>5. QED  BY <2>6, <3>1, <3>2, <3>3, <3>4 DEF Revoke
  <2>7. CASE Refused(p) \/ Abort(p)
    <3>1. Exit(p) /\ UNCHANGED <<state, disk, minted, serverVars>>
      BY <2>7 DEF Refused, Abort
    <3>2. QED  BY <3>1
  <2>8. QED
    BY <1>1, <2>1, <2>2, <2>3, <2>4, <2>5, <2>6, <2>7 DEF Command
<1>2. ASSUME NEW k \in Key, Admin(k) PROVE FreshKeys'
  BY <1>2 DEF Admin, AdminApprove, AdminReject, AdminRevoke, localVars, SharedInv,
        FreshKeys, TypeOK
<1>3. CASE UNCHANGED vars
  BY <1>3 DEF vars, SharedInv, FreshKeys
<1>4. QED
  BY <1>1, <1>2, <1>3 DEF Next

(* The server issues on approval only.                                     *)
LEMMA EnrollmentIssuesStep ==
  ASSUME TypeOK, SharedInv, [Next]_vars
  PROVE  EnrollmentIssues'
<1> USE DEF TypeOK, EnrollmentIssues, Issued, SharedInv
<1>1. ASSUME NEW p \in Process, Command(p) \/ Abort(p) PROVE EnrollmentIssues'
  <2>0. /\ pc[p] \in Enrolling => credential[key[p]] = "none" /\ key[p] \in Key
        /\ pc[p] \in Renewing => enrollment[key[p]] = "none" /\ key[p] \in Key
    BY DEF KeysApart, ProcessesOK, KnowsOK, WithKey
  <2>1. CASE UNCHANGED serverVars
    BY <2>1 DEF serverVars
  <2>2. CASE EnrollCreate(p)
    BY <2>0, <2>2 DEF EnrollCreate, Enrolling
  <2>3. CASE MachineRenew(p)
    BY <2>0, <2>3 DEF MachineRenew, Renewing
  <2>4. CASE MachineDecommission(p)
    BY <2>4 DEF MachineDecommission
  <2>5. CASE CredentialRevoke(p)
    BY <2>5 DEF CredentialRevoke
  <2>6. QED
    BY <1>1, <2>1, <2>2, <2>3, <2>4, <2>5, ServerSteps
<1>2. ASSUME NEW k \in Key, Admin(k) PROVE EnrollmentIssues'
  BY <1>2 DEF Admin, AdminApprove, AdminReject, AdminRevoke
<1>3. CASE UNCHANGED vars
  BY <1>3 DEF vars
<1>4. QED
  BY <1>1, <1>2, <1>3 DEF Next

(* A pull only ever writes what an enrollment can come with.               *)
LEMMA WorkListsStep ==
  ASSUME TypeOK, SharedInv, [Next]_vars
  PROVE  WorkListsOK'
<1>1. ASSUME NEW p \in Process, Command(p) \/ Abort(p) PROVE WorkListsOK'
  <2>0. WorkListsOK /\ TypeOK
    BY DEF SharedInv
  <2> USE <2>0, RepliesAreReplies
      DEF WorkListsOK, TypeOK, Goto, Exit, Rest, Done, SecureDelete, Unlink, IssuedReply,
            IssuedFile
  <2>1. CASE Enroll(p)
    <3>1. CASE EnrollBegin(p)  BY <3>1 DEF EnrollBegin
    <3>2. CASE EnrollSaveKey(p)  BY <3>2 DEF EnrollSaveKey
    <3>3. CASE EnrollSaveState(p)  BY <3>3 DEF EnrollSaveState
    <3>4. CASE EnrollSaveCsr(p)  BY <3>4 DEF EnrollSaveCsr
    <3>5. CASE EnrollSaveCsrState(p)  BY <3>5 DEF EnrollSaveCsrState
    <3>6. CASE EnrollCreate(p)  BY <3>6 DEF EnrollCreate
    <3>7. CASE EnrollPending(p)  BY <3>7 DEF EnrollPending
    <3>8. CASE EnrollApproved(p)  BY <3>8 DEF EnrollApproved
    <3>9. QED  BY <2>1, <3>1, <3>2, <3>3, <3>4, <3>5, <3>6, <3>7, <3>8 DEF Enroll
  <2>2. CASE Pull(p)
    <3>1. CASE PullBegin(p)  BY <3>1 DEF PullBegin
    <3>2. CASE PullRefused(p)  BY <3>2 DEF PullRefused
    <3>3. CASE EnrollPull(p)  BY <3>3 DEF EnrollPull
    <3>4. CASE PullPending(p)  BY <3>4 DEF PullPending
    <3>5. CASE PullRejected(p)  BY <3>5 DEF PullRejected
    <3>6. CASE PullApproved(p)  BY <3>6 DEF PullApproved
    <3>7. QED  BY <2>2, <3>1, <3>2, <3>3, <3>4, <3>5, <3>6 DEF Pull
  <2>3. CASE ApplyIssued(p)
    <3>1. CASE IssueLeaf(p)  BY <3>1 DEF IssueLeaf
    <3>2. CASE IssueFile(p)  BY <3>2 DEF IssueFile
    <3>3. CASE IssueVerifyKeyPresent(p)  BY <3>3 DEF IssueVerifyKeyPresent
    <3>4. CASE IssueSave(p)  BY <3>4 DEF IssueSave
    <3>5. QED  BY <2>3, <3>1, <3>2, <3>3, <3>4 DEF ApplyIssued
  <2>4. CASE Renew(p)
    <3>1. CASE RenewResume(p)  BY <3>1 DEF RenewResume
    <3>2. CASE RenewBegin(p)  BY <3>2 DEF RenewBegin
    <3>3. CASE RenewSaveKey(p)  BY <3>3 DEF RenewSaveKey
    <3>4. CASE RenewSaveCsr(p)  BY <3>4 DEF RenewSaveCsr
    <3>5. CASE RenewSaveState(p)  BY <3>5 DEF RenewSaveState
    <3>6. CASE RenewCheck(p)  BY <3>6 DEF RenewCheck
    <3>7. CASE MachineRenew(p)  BY <3>7 DEF MachineRenew
    <3>8. CASE RenewFile(p)  BY <3>8 DEF RenewFile
    <3>9. CASE RenewUnlink(p)  BY <3>9 DEF RenewUnlink
    <3>10. CASE RenewSave(p)  BY <3>10 DEF RenewSave
    <3>11. QED  BY <2>4, <3>1, <3>2, <3>3, <3>4, <3>5, <3>6, <3>7, <3>8, <3>9, <3>10 DEF Renew
  <2>5. CASE Decommission(p)
    <3>1. CASE DecommissionBegin(p)  BY <3>1 DEF DecommissionBegin
    <3>2. CASE MachineDecommission(p)  BY <3>2 DEF MachineDecommission
    <3>3. CASE WipeFile(p)  BY <3>3 DEF WipeFile
    <3>4. CASE WipeUnlink(p)  BY <3>4 DEF WipeUnlink
    <3>5. CASE DecommissionSave(p)  BY <3>5 DEF DecommissionSave
    <3>6. QED  BY <2>5, <3>1, <3>2, <3>3, <3>4, <3>5 DEF Decommission
  <2>6. CASE Revoke(p)
    <3>1. CASE RevokeBegin(p)  BY <3>1 DEF RevokeBegin
    <3>2. CASE CredentialRevoke(p)  BY <3>2 DEF CredentialRevoke
    <3>3. CASE RevokeLoad(p)  BY <3>3 DEF RevokeLoad
    <3>4. CASE RevokeSave(p)  BY <3>4 DEF RevokeSave
    <3>5. QED  BY <2>6, <3>1, <3>2, <3>3, <3>4 DEF Revoke
  <2>7. CASE Refused(p) \/ Abort(p)
    BY <2>7 DEF Refused, Abort
  <2>8. QED
    BY <1>1, <2>1, <2>2, <2>3, <2>4, <2>5, <2>6, <2>7 DEF Command
<1>2. ASSUME NEW k \in Key, Admin(k) PROVE WorkListsOK'
  BY <1>2 DEF Admin, AdminApprove, AdminReject, AdminRevoke, localVars, SharedInv, WorkListsOK
<1>3. CASE UNCHANGED vars
  BY <1>3 DEF vars, SharedInv, WorkListsOK
<1>4. QED
  BY <1>1, <1>2, <1>3 DEF Next

(* What is installed was issued.                                           *)
LEMMA OnlyIssuedStep ==
  ASSUME TypeOK, TypeOK', SharedInv, RecordsOK', [Next]_vars
  PROVE  OnlyIssued'
<1>0. Grows(credential, credential', enrollment, enrollment')
  BY ServerGrows DEF SharedInv
<1>1. \A f \in IssuedFile : disk'[f] \in Key => credential[disk'[f]] # "none"
  <2>1. ASSUME NEW p \in Process, Command(p) \/ Abort(p)
        PROVE  \A f \in IssuedFile : disk'[f] \in Key => credential[disk'[f]] # "none"
    <3>0. /\ OnlyIssued /\ TypeOK /\ None \notin Key /\ Zeroed \notin Key
          /\ KnowsOK(pc[p], mem[p], key[p], credential)
      BY SentinelsAreNotKeys DEF SharedInv, ProcessesOK
    <3> USE <3>0 DEF OnlyIssued, IssuedFile, KnowsOK, Installing, TypeOK, Put, SecureDelete,
          Unlink,
                    File
    <3>1. CASE Enroll(p)
      <4>1. CASE EnrollBegin(p)  BY <4>1 DEF EnrollBegin
      <4>2. CASE EnrollSaveKey(p)  BY <4>2 DEF EnrollSaveKey
      <4>3. CASE EnrollSaveState(p)  BY <4>3 DEF EnrollSaveState
      <4>4. CASE EnrollSaveCsr(p)  BY <4>4 DEF EnrollSaveCsr
      <4>5. CASE EnrollSaveCsrState(p)  BY <4>5 DEF EnrollSaveCsrState
      <4>6. CASE EnrollCreate(p)  BY <4>6 DEF EnrollCreate
      <4>7. CASE EnrollPending(p)  BY <4>7 DEF EnrollPending
      <4>8. CASE EnrollApproved(p)  BY <4>8 DEF EnrollApproved
      <4>9. QED  BY <3>1, <4>1, <4>2, <4>3, <4>4, <4>5, <4>6, <4>7, <4>8 DEF Enroll
    <3>2. CASE Pull(p)
      <4>1. CASE PullBegin(p)  BY <4>1 DEF PullBegin
      <4>2. CASE PullRefused(p)  BY <4>2 DEF PullRefused
      <4>3. CASE EnrollPull(p)  BY <4>3 DEF EnrollPull
      <4>4. CASE PullPending(p)  BY <4>4 DEF PullPending
      <4>5. CASE PullRejected(p)  BY <4>5 DEF PullRejected
      <4>6. CASE PullApproved(p)  BY <4>6 DEF PullApproved
      <4>7. QED  BY <3>2, <4>1, <4>2, <4>3, <4>4, <4>5, <4>6 DEF Pull
    <3>3. CASE ApplyIssued(p)
      <4>1. CASE IssueLeaf(p)  BY <4>1 DEF IssueLeaf
      <4>2. CASE IssueFile(p)  BY <4>2 DEF IssueFile
      <4>3. CASE IssueVerifyKeyPresent(p)  BY <4>3 DEF IssueVerifyKeyPresent
      <4>4. CASE IssueSave(p)  BY <4>4 DEF IssueSave
      <4>5. QED  BY <3>3, <4>1, <4>2, <4>3, <4>4 DEF ApplyIssued
    <3>4. CASE Renew(p)
      <4>1. CASE RenewResume(p)  BY <4>1 DEF RenewResume
      <4>2. CASE RenewBegin(p)  BY <4>2 DEF RenewBegin
      <4>3. CASE RenewSaveKey(p)  BY <4>3 DEF RenewSaveKey
      <4>4. CASE RenewSaveCsr(p)  BY <4>4 DEF RenewSaveCsr
      <4>5. CASE RenewSaveState(p)  BY <4>5 DEF RenewSaveState
      <4>6. CASE RenewCheck(p)  BY <4>6 DEF RenewCheck
      <4>7. CASE MachineRenew(p)  BY <4>7 DEF MachineRenew
      <4>8. CASE RenewFile(p)  BY <4>8 DEF RenewFile
      <4>9. CASE RenewUnlink(p)  BY <4>9 DEF RenewUnlink
      <4>10. CASE RenewSave(p)  BY <4>10 DEF RenewSave
      <4>11. QED  BY <3>4, <4>1, <4>2, <4>3, <4>4, <4>5, <4>6, <4>7, <4>8, <4>9, <4>10 DEF Renew
    <3>5. CASE Decommission(p)
      <4>1. CASE DecommissionBegin(p)  BY <4>1 DEF DecommissionBegin
      <4>2. CASE MachineDecommission(p)  BY <4>2 DEF MachineDecommission
      <4>3. CASE WipeFile(p)  BY <4>3 DEF WipeFile
      <4>4. CASE WipeUnlink(p)  BY <4>4 DEF WipeUnlink
      <4>5. CASE DecommissionSave(p)  BY <4>5 DEF DecommissionSave
      <4>6. QED  BY <3>5, <4>1, <4>2, <4>3, <4>4, <4>5 DEF Decommission
    <3>6. CASE Revoke(p)
      <4>1. CASE RevokeBegin(p)  BY <4>1 DEF RevokeBegin
      <4>2. CASE CredentialRevoke(p)  BY <4>2 DEF CredentialRevoke
      <4>3. CASE RevokeLoad(p)  BY <4>3 DEF RevokeLoad
      <4>4. CASE RevokeSave(p)  BY <4>4 DEF RevokeSave
      <4>5. QED  BY <3>6, <4>1, <4>2, <4>3, <4>4 DEF Revoke
    <3>7. CASE Refused(p) \/ Abort(p)
      BY <3>7 DEF Refused, Abort
    <3>8. QED
      BY <2>1, <3>1, <3>2, <3>3, <3>4, <3>5, <3>6, <3>7 DEF Command
  <2>2. ASSUME NEW k \in Key, Admin(k) PROVE disk' = disk
    BY <2>2 DEF Admin, AdminApprove, AdminReject, AdminRevoke
  <2>3. CASE disk' = disk
    BY <2>3 DEF SharedInv, OnlyIssued, IssuedFile
  <2>4. QED
    BY <2>1, <2>2, <2>3 DEF Next, vars
<1>2. QED
  BY <1>0, <1>1 DEF OnlyIssued, RecordsOK, RecordOK, IssuedFile, Enrolled, Grows

-----------------------------------------------------------------------------
LEMMA SharedInvInit == Init => SharedInv
BY SentinelsAreNotKeys
DEF Init, SharedInv, FreshKeys, KeysApart, EnrollmentIssues, RecordsOK, ProcessesOK,
      WorkListsOK,
    OnlyIssued, RecordOK, KnowsOK, NoState, Issued, Enrolled, Enrolling, Renewing, Pulling,
    Installing, WithKey, File

LEMMA SharedInvStep == TypeOK /\ SharedInv /\ [Next]_vars => SharedInv'
<1> SUFFICES ASSUME TypeOK, SharedInv, [Next]_vars PROVE SharedInv'
  OBVIOUS
<1>1. TypeOK'
  BY TypeStep
<1>2. RecordsOK'
  BY <1>1, RecordsStep
<1>3. QED
  BY <1>1, <1>2, ProcessesStep, FreshKeysStep, KeysApartStep, EnrollmentIssuesStep,
        WorkListsStep,
     OnlyIssuedStep DEF SharedInv

LEMMA SharedInvCorrect == Spec => [](TypeOK /\ SharedInv)
BY TypeCorrect, SharedInvInit, SharedInvStep, PTL DEF Spec

(* However many processes work on the state directory, in whatever order,  *)
(* and wherever they are cut short: nothing is installed that the server   *)
(* did not issue.                                                          *)
THEOREM OnlyIssuedCorrect == Spec => []OnlyIssued
<1>1. SharedInv => OnlyIssued
  BY DEF SharedInv
<1>2. QED
  BY <1>1, SharedInvCorrect, PTL

(* ... and renewed_from_ski names a credential the server has replaced.    *)
THEOREM AuditTrailCorrect == Spec => []AuditTrail
<1>1. SharedInv => AuditTrail
  BY DEF SharedInv, RecordsOK, RecordOK, AuditTrail
<1>2. QED
  BY <1>1, SharedInvCorrect, PTL

-----------------------------------------------------------------------------
(* One command at a time, wherever it is cut short *)

Solo == \A p, q \in Process : p = q

(* What is known of the one process and the state it finds.                *)
LEMMA Known ==
  ASSUME TypeOK, SharedInv, SoloInv, NEW p \in Process
  PROVE  /\ RecordOK(state, credential) /\ RecordOK(mem[p], credential)
         /\ KnowsOK(pc[p], mem[p], key[p], credential)
         /\ MemoryOK(p) /\ FilesOK(p) /\ LiveOK /\ RenewalOK /\ DecommissionedIsClean
         /\ EnrollmentIssues /\ KeysApart /\ FreshKeys
         /\ state \in StateJson /\ mem[p] \in StateJson
         /\ None \notin Key /\ Zeroed \notin Key
BY SentinelsAreNotKeys DEF SharedInv, SoloInv, RecordsOK, ProcessesOK, TypeOK

(* What the process has of state.json stays what is on disk, but for what   *)
(* it is about to save.                                                     *)
LEMMA MemoryStep ==
  ASSUME Solo, TypeOK, SharedInv, SoloInv, [Next]_vars
  PROVE  \A q \in Process : MemoryOK(q)'
<1>1. ASSUME NEW p \in Process, Command(p) \/ Abort(p) PROVE \A q \in Process : MemoryOK(q)'
  <2>0. /\ RecordOK(state, credential) /\ RecordOK(mem[p], credential)
        /\ KnowsOK(pc[p], mem[p], key[p], credential)
        /\ MemoryOK(p) /\ FilesOK(p) /\ LiveOK /\ RenewalOK /\ DecommissionedIsClean
        /\ EnrollmentIssues /\ KeysApart /\ FreshKeys
        /\ None \notin Key /\ Zeroed \notin Key
        /\ state \in StateJson /\ mem[p] \in StateJson /\ TypeOK
        /\ \A q \in Process : q = p
    BY Known DEF Solo
  <2> USE <2>0 DEF RecordOK, KnowsOK, WithKey, Installing, Enrolling, Renewing, Pulling,
        Enrolled,
      StateJson, NoState, TypeOK, Goto, Exit, Rest, Done, Put, SecureDelete, Unlink, serverVars,
      AllowsEnroll, InRenewal, CanTransitionTo, File, MemoryOK, LiveOK, DecommissionedIsClean
  <2>1. CASE Enroll(p)
    <3>1. CASE EnrollBegin(p)  BY <3>1 DEF EnrollBegin
    <3>2. CASE EnrollSaveKey(p)  BY <3>2 DEF EnrollSaveKey
    <3>3. CASE EnrollSaveState(p)  BY <3>3 DEF EnrollSaveState
    <3>4. CASE EnrollSaveCsr(p)  BY <3>4 DEF EnrollSaveCsr
    <3>5. CASE EnrollSaveCsrState(p)  BY <3>5 DEF EnrollSaveCsrState
    <3>6. CASE EnrollCreate(p)  BY <3>6 DEF EnrollCreate
    <3>7. CASE EnrollPending(p)  BY <3>7 DEF EnrollPending
    <3>8. CASE EnrollApproved(p)  BY <3>8 DEF EnrollApproved
    <3>9. QED  BY <2>1, <3>1, <3>2, <3>3, <3>4, <3>5, <3>6, <3>7, <3>8 DEF Enroll
  <2>2. CASE Pull(p)
    <3>1. CASE PullBegin(p)  BY <3>1 DEF PullBegin
    <3>2. CASE PullRefused(p)  BY <3>2 DEF PullRefused
    <3>3. CASE EnrollPull(p)  BY <3>3 DEF EnrollPull
    <3>4. CASE PullPending(p)  BY <3>4 DEF PullPending
    <3>5. CASE PullRejected(p)  BY <3>5 DEF PullRejected
    <3>6. CASE PullApproved(p)  BY <3>6 DEF PullApproved
    <3>7. QED  BY <2>2, <3>1, <3>2, <3>3, <3>4, <3>5, <3>6 DEF Pull
  <2>3. CASE ApplyIssued(p)
    <3>1. CASE IssueLeaf(p)  BY <3>1 DEF IssueLeaf
    <3>2. CASE IssueFile(p)  BY <3>2 DEF IssueFile
    <3>3. CASE IssueVerifyKeyPresent(p)  BY <3>3 DEF IssueVerifyKeyPresent
    <3>4. CASE IssueSave(p)  BY <3>4 DEF IssueSave
    <3>5. QED  BY <2>3, <3>1, <3>2, <3>3, <3>4 DEF ApplyIssued
  <2>4. CASE Renew(p)
    <3>1. CASE RenewResume(p)  BY <3>1 DEF RenewResume
    <3>2. CASE RenewBegin(p)  BY <3>2 DEF RenewBegin
    <3>3. CASE RenewSaveKey(p)  BY <3>3 DEF RenewSaveKey
    <3>4. CASE RenewSaveCsr(p)  BY <3>4 DEF RenewSaveCsr
    <3>5. CASE RenewSaveState(p)  BY <3>5 DEF RenewSaveState
    <3>6. CASE RenewCheck(p)  BY <3>6 DEF RenewCheck
    <3>7. CASE MachineRenew(p)  BY <3>7 DEF MachineRenew
    <3>8. CASE RenewFile(p)  BY <3>8 DEF RenewFile
    <3>9. CASE RenewUnlink(p)  BY <3>9 DEF RenewUnlink
    <3>10. CASE RenewSave(p)  BY <3>10 DEF RenewSave
    <3>11. QED  BY <2>4, <3>1, <3>2, <3>3, <3>4, <3>5, <3>6, <3>7, <3>8, <3>9, <3>10 DEF Renew
  <2>5. CASE Decommission(p)
    <3>1. CASE DecommissionBegin(p)  BY <3>1 DEF DecommissionBegin
    <3>2. CASE MachineDecommission(p)  BY <3>2 DEF MachineDecommission
    <3>3. CASE WipeFile(p)  BY <3>3 DEF WipeFile
    <3>4. CASE WipeUnlink(p)  BY <3>4 DEF WipeUnlink
    <3>5. CASE DecommissionSave(p)  BY <3>5 DEF DecommissionSave
    <3>6. QED  BY <2>5, <3>1, <3>2, <3>3, <3>4, <3>5 DEF Decommission
  <2>6. CASE Revoke(p)
    <3>1. CASE RevokeBegin(p)  BY <3>1 DEF RevokeBegin
    <3>2. CASE CredentialRevoke(p)  BY <3>2 DEF CredentialRevoke
    <3>3. CASE RevokeLoad(p)  BY <3>3 DEF RevokeLoad
    <3>4. CASE RevokeSave(p)  BY <3>4 DEF RevokeSave
    <3>5. QED  BY <2>6, <3>1, <3>2, <3>3, <3>4 DEF Revoke
  <2>7. CASE Refused(p) \/ Abort(p)
    BY <2>7 DEF Refused, Abort
  <2>8. QED
    BY <1>1, <2>1, <2>2, <2>3, <2>4, <2>5, <2>6, <2>7 DEF Command
<1>2. ASSUME NEW k \in Key, Admin(k), NEW p \in Process PROVE MemoryOK(p)'
  <2>1. pc' = pc /\ mem' = mem /\ key' = key /\ state' = state
    BY <1>2 DEF Admin, AdminApprove, AdminReject, AdminRevoke, localVars
  <2>2. \A j \in Key : enrollment[j] \in {"approved", "rejected"} => enrollment'[j] = enrollment[j]
    BY <1>2 DEF Admin, AdminApprove, AdminReject, AdminRevoke, TypeOK
  <2>3. MemoryOK(p) /\ (pc[p] \in WithKey => key[p] \in Key)
    BY Known DEF KnowsOK
  <2>4. QED
    BY <2>1, <2>2, <2>3 DEF MemoryOK, WithKey, Pulling, Installing
<1>3. CASE UNCHANGED vars
  BY <1>3 DEF vars, SoloInv, MemoryOK, FilesOK, LiveOK, Live, Issued, RenewalOK,
        DecommissionedIsClean
<1>4. QED
  BY <1>1, <1>2, <1>3 DEF Next

(* machine.key.new goes last but for the credential.                       *)
LEMMA NewKeyLast ==
  ASSUME NEW p \in Process, IsNext(p, "key.new", RenewOrder)
  PROVE  "key" \notin todo[p] /\ "chain" \notin todo[p]
<1>1. RenewOrder["key.new"] = 6 /\ RenewOrder["key"] = 5 /\ RenewOrder["chain"] = 2
  BY DEF RenewOrder, File
<1>2. QED
  BY <1>1 DEF IsNext

(* The files stay as far as the command has come with them.                *)
LEMMA FilesStep ==
  ASSUME Solo, TypeOK, SharedInv, SoloInv, [Next]_vars
  PROVE  \A q \in Process : FilesOK(q)'
<1>1. ASSUME NEW p \in Process, Command(p) \/ Abort(p) PROVE \A q \in Process : FilesOK(q)'
  <2>0. /\ RecordOK(state, credential) /\ RecordOK(mem[p], credential)
        /\ KnowsOK(pc[p], mem[p], key[p], credential)
        /\ MemoryOK(p) /\ FilesOK(p) /\ LiveOK /\ RenewalOK /\ DecommissionedIsClean
        /\ EnrollmentIssues /\ KeysApart /\ FreshKeys
        /\ None \notin Key /\ Zeroed \notin Key
        /\ state \in StateJson /\ mem[p] \in StateJson /\ TypeOK
        /\ \A q \in Process : q = p
    BY Known DEF Solo
  <2> USE <2>0 DEF RecordOK, KnowsOK, WithKey, Installing, Enrolling, Renewing, Pulling,
        Enrolled,
      StateJson, NoState, TypeOK, Goto, Exit, Rest, Done, Put, SecureDelete, Unlink, serverVars,
      AllowsEnroll, InRenewal, CanTransitionTo, File, FilesOK, MemoryOK, LiveOK, RenewalOK
  <2>1. CASE Enroll(p)
    <3>1. CASE EnrollBegin(p)  BY <3>1 DEF EnrollBegin
    <3>2. CASE EnrollSaveKey(p)  BY <3>2 DEF EnrollSaveKey
    <3>3. CASE EnrollSaveState(p)  BY <3>3 DEF EnrollSaveState
    <3>4. CASE EnrollSaveCsr(p)  BY <3>4 DEF EnrollSaveCsr
    <3>5. CASE EnrollSaveCsrState(p)  BY <3>5 DEF EnrollSaveCsrState
    <3>6. CASE EnrollCreate(p)  BY <3>6 DEF EnrollCreate
    <3>7. CASE EnrollPending(p)  BY <3>7 DEF EnrollPending
    <3>8. CASE EnrollApproved(p)  BY <3>8 DEF EnrollApproved
    <3>9. QED  BY <2>1, <3>1, <3>2, <3>3, <3>4, <3>5, <3>6, <3>7, <3>8 DEF Enroll
  <2>2. CASE Pull(p)
    <3>1. CASE PullBegin(p)  BY <3>1 DEF PullBegin
    <3>2. CASE PullRefused(p)  BY <3>2 DEF PullRefused
    <3>3. CASE EnrollPull(p)  BY <3>3 DEF EnrollPull
    <3>4. CASE PullPending(p)  BY <3>4 DEF PullPending
    <3>5. CASE PullRejected(p)  BY <3>5 DEF PullRejected
    <3>6. CASE PullApproved(p)  BY <3>6 DEF PullApproved
    <3>7. QED  BY <2>2, <3>1, <3>2, <3>3, <3>4, <3>5, <3>6 DEF Pull
  <2>3. CASE ApplyIssued(p)
    <3>1. CASE IssueLeaf(p)  BY <3>1 DEF IssueLeaf
    <3>2. CASE IssueFile(p)  BY <3>2 DEF IssueFile
    <3>3. CASE IssueVerifyKeyPresent(p)  BY <3>3 DEF IssueVerifyKeyPresent
    <3>4. CASE IssueSave(p)  BY <3>4 DEF IssueSave
    <3>5. QED  BY <2>3, <3>1, <3>2, <3>3, <3>4 DEF ApplyIssued
  <2>4. CASE Renew(p)
    <3>1. CASE RenewResume(p)  BY <3>1 DEF RenewResume
    <3>2. CASE RenewBegin(p)  BY <3>2 DEF RenewBegin, FreshKeys
    <3>3. CASE RenewSaveKey(p)  BY <3>3 DEF RenewSaveKey
    <3>4. CASE RenewSaveCsr(p)  BY <3>4 DEF RenewSaveCsr
    <3>5. CASE RenewSaveState(p)  BY <3>5 DEF RenewSaveState
    <3>6. CASE RenewCheck(p)  BY <3>6 DEF RenewCheck
    <3>7. CASE MachineRenew(p)  BY <3>7 DEF MachineRenew
    <3>8. CASE RenewFile(p)
      <4>1. PICK f \in File : /\ IsNext(p, f, RenewOrder)
                              /\ IF f = "key.new"
                                   THEN SecureDelete(p, f, "renew_unlink") /\ UNCHANGED <<mem, key>>
                                   ELSE /\ Put(f, key[p])
                                        /\ Exit(p) \/ (Done(p, f) /\ UNCHANGED <<pc, mem, key>>)
        BY <3>8 DEF RenewFile
      <4>2. UNCHANGED <<state, credential>> /\ pc[p] = "renew_files"
        BY <3>8 DEF RenewFile
      <4>3. CASE f = "key.new"
        BY <4>1, <4>2, <4>3, NewKeyLast
      <4>4. CASE f # "key.new" /\ Exit(p)
        BY <4>1, <4>2, <4>4
      <4>5. CASE f # "key.new" /\ ~ Exit(p)
        BY <4>1, <4>2, <4>5
      <4>6. QED  BY <4>1, <4>3, <4>4, <4>5
    <3>9. CASE RenewUnlink(p)  BY <3>9 DEF RenewUnlink
    <3>10. CASE RenewSave(p)  BY <3>10 DEF RenewSave
    <3>11. QED  BY <2>4, <3>1, <3>2, <3>3, <3>4, <3>5, <3>6, <3>7, <3>8, <3>9, <3>10 DEF Renew
  <2>5. CASE Decommission(p)
    <3>1. CASE DecommissionBegin(p)  BY <3>1 DEF DecommissionBegin
    <3>2. CASE MachineDecommission(p)  BY <3>2 DEF MachineDecommission
    <3>3. CASE WipeFile(p)  BY <3>3 DEF WipeFile, IsNext
    <3>4. CASE WipeUnlink(p)  BY <3>4 DEF WipeUnlink, IsNext
    <3>5. CASE DecommissionSave(p)  BY <3>5 DEF DecommissionSave
    <3>6. QED  BY <2>5, <3>1, <3>2, <3>3, <3>4, <3>5 DEF Decommission
  <2>6. CASE Revoke(p)
    <3>1. CASE RevokeBegin(p)  BY <3>1 DEF RevokeBegin
    <3>2. CASE CredentialRevoke(p)  BY <3>2 DEF CredentialRevoke
    <3>3. CASE RevokeLoad(p)  BY <3>3 DEF RevokeLoad
    <3>4. CASE RevokeSave(p)  BY <3>4 DEF RevokeSave
    <3>5. QED  BY <2>6, <3>1, <3>2, <3>3, <3>4 DEF Revoke
  <2>7. CASE Refused(p) \/ Abort(p)
    BY <2>7 DEF Refused, Abort
  <2>8. QED
    BY <1>1, <2>1, <2>2, <2>3, <2>4, <2>5, <2>6, <2>7 DEF Command
<1>2. ASSUME NEW k \in Key, Admin(k), NEW p \in Process PROVE FilesOK(p)'
  <2>1. pc' = pc /\ mem' = mem /\ key' = key /\ state' = state /\ todo' = todo /\ disk' = disk
    BY <1>2 DEF Admin, AdminApprove, AdminReject, AdminRevoke, localVars
  <2>2. /\ \A j \in Key : credential[j] = "revoked" => credential'[j] = "revoked"
        /\ \A j \in Key : credential[j] = "none" /\ enrollment[j] = "none" => credential'[j] = "none"
    BY <1>2, Known DEF Admin, AdminApprove, AdminReject, AdminRevoke, TypeOK,
          EnrollmentIssues, Issued
  <2>3. /\ FilesOK(p) /\ (pc[p] \in WithKey => key[p] \in Key)
        /\ pc[p] \in Renewing => enrollment[key[p]] = "none"
        /\ state.status # "uninitialized" => state.ski \in Key
        /\ pc[p] \in {"wipe", "wipe_unlink"} => state.status # "uninitialized"
    BY Known DEF KnowsOK, KeysApart, RecordOK, MemoryOK
  <2>4. QED
    BY <2>1, <2>2, <2>3 DEF FilesOK, WithKey, Renewing
<1>3. CASE UNCHANGED vars
  BY <1>3 DEF vars, SoloInv, MemoryOK, FilesOK, LiveOK, Live, Issued, RenewalOK,
        DecommissionedIsClean
<1>4. QED
  BY <1>1, <1>2, <1>3 DEF Next

(* What the server honours stays within what the status on disk allows,    *)
(* and its key stays in machine.key.                                       *)
LEMMA LiveStep ==
  ASSUME Solo, TypeOK, SharedInv, SoloInv, [Next]_vars
  PROVE  LiveOK'
<1>1. ASSUME NEW p \in Process, Command(p) \/ Abort(p) PROVE LiveOK'
  <2>0. /\ RecordOK(state, credential) /\ RecordOK(mem[p], credential)
        /\ KnowsOK(pc[p], mem[p], key[p], credential)
        /\ MemoryOK(p) /\ FilesOK(p) /\ LiveOK /\ RenewalOK /\ DecommissionedIsClean
        /\ EnrollmentIssues /\ KeysApart /\ FreshKeys
        /\ None \notin Key /\ Zeroed \notin Key
        /\ state \in StateJson /\ mem[p] \in StateJson /\ TypeOK
        /\ \A q \in Process : q = p
    BY Known DEF Solo
  <2> USE <2>0 DEF RecordOK, KnowsOK, WithKey, Installing, Enrolling, Renewing, Pulling,
        Enrolled,
      StateJson, NoState, TypeOK, Goto, Exit, Rest, Done, Put, SecureDelete, Unlink, serverVars,
      AllowsEnroll, InRenewal, CanTransitionTo, File, FilesOK, MemoryOK, LiveOK, Live, Issued, EnrollmentIssues
  <2>1. CASE Enroll(p)
    <3>1. CASE EnrollBegin(p)  BY <3>1 DEF EnrollBegin
    <3>2. CASE EnrollSaveKey(p)  BY <3>2 DEF EnrollSaveKey
    <3>3. CASE EnrollSaveState(p)  BY <3>3 DEF EnrollSaveState, KeysApart
    <3>4. CASE EnrollSaveCsr(p)  BY <3>4 DEF EnrollSaveCsr
    <3>5. CASE EnrollSaveCsrState(p)  BY <3>5 DEF EnrollSaveCsrState
    <3>6. CASE EnrollCreate(p)  BY <3>6 DEF EnrollCreate
    <3>7. CASE EnrollPending(p)  BY <3>7 DEF EnrollPending
    <3>8. CASE EnrollApproved(p)  BY <3>8 DEF EnrollApproved
    <3>9. QED  BY <2>1, <3>1, <3>2, <3>3, <3>4, <3>5, <3>6, <3>7, <3>8 DEF Enroll
  <2>2. CASE Pull(p)
    <3>1. CASE PullBegin(p)  BY <3>1 DEF PullBegin
    <3>2. CASE PullRefused(p)  BY <3>2 DEF PullRefused
    <3>3. CASE EnrollPull(p)  BY <3>3 DEF EnrollPull
    <3>4. CASE PullPending(p)  BY <3>4 DEF PullPending
    <3>5. CASE PullRejected(p)  BY <3>5 DEF PullRejected
    <3>6. CASE PullApproved(p)  BY <3>6 DEF PullApproved
    <3>7. QED  BY <2>2, <3>1, <3>2, <3>3, <3>4, <3>5, <3>6 DEF Pull
  <2>3. CASE ApplyIssued(p)
    <3>1. CASE IssueLeaf(p)  BY <3>1 DEF IssueLeaf
    <3>2. CASE IssueFile(p)  BY <3>2 DEF IssueFile
    <3>3. CASE IssueVerifyKeyPresent(p)  BY <3>3 DEF IssueVerifyKeyPresent
    <3>4. CASE IssueSave(p)  BY <3>4 DEF IssueSave
    <3>5. QED  BY <2>3, <3>1, <3>2, <3>3, <3>4 DEF ApplyIssued
  <2>4. CASE Renew(p)
    <3>1. CASE RenewResume(p)  BY <3>1 DEF RenewResume
    <3>2. CASE RenewBegin(p)  BY <3>2 DEF RenewBegin
    <3>3. CASE RenewSaveKey(p)  BY <3>3 DEF RenewSaveKey
    <3>4. CASE RenewSaveCsr(p)  BY <3>4 DEF RenewSaveCsr
    <3>5. CASE RenewSaveState(p)  BY <3>5 DEF RenewSaveState
    <3>6. CASE RenewCheck(p)  BY <3>6 DEF RenewCheck
    <3>7. CASE MachineRenew(p)  BY <3>7 DEF MachineRenew
    <3>8. CASE RenewFile(p)  BY <3>8 DEF RenewFile, IsNext
    <3>9. CASE RenewUnlink(p)  BY <3>9 DEF RenewUnlink
    <3>10. CASE RenewSave(p)  BY <3>10 DEF RenewSave, RenewalOK
    <3>11. QED  BY <2>4, <3>1, <3>2, <3>3, <3>4, <3>5, <3>6, <3>7, <3>8, <3>9, <3>10 DEF Renew
  <2>5. CASE Decommission(p)
    <3>1. CASE DecommissionBegin(p)  BY <3>1 DEF DecommissionBegin
    <3>2. CASE MachineDecommission(p)  BY <3>2 DEF MachineDecommission
    <3>3. CASE WipeFile(p)  BY <3>3 DEF WipeFile
    <3>4. CASE WipeUnlink(p)  BY <3>4 DEF WipeUnlink
    <3>5. CASE DecommissionSave(p)  BY <3>5 DEF DecommissionSave
    <3>6. QED  BY <2>5, <3>1, <3>2, <3>3, <3>4, <3>5 DEF Decommission
  <2>6. CASE Revoke(p)
    <3>1. CASE RevokeBegin(p)  BY <3>1 DEF RevokeBegin
    <3>2. CASE CredentialRevoke(p)  BY <3>2 DEF CredentialRevoke
    <3>3. CASE RevokeLoad(p)  BY <3>3 DEF RevokeLoad
    <3>4. CASE RevokeSave(p)  BY <3>4 DEF RevokeSave
    <3>5. QED  BY <2>6, <3>1, <3>2, <3>3, <3>4 DEF Revoke
  <2>7. CASE Refused(p) \/ Abort(p)
    BY <2>7 DEF Refused, Abort
  <2>8. QED
    BY <1>1, <2>1, <2>2, <2>3, <2>4, <2>5, <2>6, <2>7 DEF Command
<1>2. ASSUME NEW k \in Key, Admin(k) PROVE LiveOK'
  <2>1. /\ LiveOK /\ RenewalOK /\ DecommissionedIsClean /\ EnrollmentIssues /\ TypeOK
        /\ RecordOK(state, credential) /\ state \in StateJson
        /\ None \notin Key
    BY SentinelsAreNotKeys DEF SoloInv, SharedInv, RecordsOK, TypeOK
  <2> USE <2>1 DEF TypeOK, LiveOK, Live, Issued, RenewalOK, DecommissionedIsClean,
        EnrollmentIssues,
      RecordOK, Enrolled, StateJson, File, localVars
  <2>2. CASE AdminApprove(k)  BY <2>2 DEF AdminApprove
  <2>3. CASE AdminReject(k)  BY <2>3 DEF AdminReject
  <2>4. CASE AdminRevoke(k)  BY <2>4 DEF AdminRevoke
  <2>5. QED  BY <1>2, <2>2, <2>3, <2>4 DEF Admin
<1>3. CASE UNCHANGED vars
  BY <1>3 DEF vars, SoloInv, MemoryOK, FilesOK, LiveOK, Live, Issued, RenewalOK,
        DecommissionedIsClean
<1>4. QED
  BY <1>1, <1>2, <1>3 DEF Next

(* The replacement key is kept until it is installed.                      *)
LEMMA RenewalStep ==
  ASSUME Solo, TypeOK, SharedInv, SoloInv, [Next]_vars
  PROVE  RenewalOK'
<1>1. ASSUME NEW p \in Process, Command(p) \/ Abort(p) PROVE RenewalOK'
  <2>0. /\ RecordOK(state, credential) /\ RecordOK(mem[p], credential)
        /\ KnowsOK(pc[p], mem[p], key[p], credential)
        /\ MemoryOK(p) /\ FilesOK(p) /\ LiveOK /\ RenewalOK /\ DecommissionedIsClean
        /\ EnrollmentIssues /\ KeysApart /\ FreshKeys
        /\ None \notin Key /\ Zeroed \notin Key
        /\ state \in StateJson /\ mem[p] \in StateJson /\ TypeOK
        /\ \A q \in Process : q = p
    BY Known DEF Solo
  <2> USE <2>0 DEF RecordOK, KnowsOK, WithKey, Installing, Enrolling, Renewing, Pulling,
        Enrolled,
      StateJson, NoState, TypeOK, Goto, Exit, Rest, Done, Put, SecureDelete, Unlink, serverVars,
      AllowsEnroll, InRenewal, CanTransitionTo, File, FilesOK, MemoryOK, LiveOK, Live, Issued, RenewalOK, EnrollmentIssues
  <2>1. CASE Enroll(p)
    <3>1. CASE EnrollBegin(p)  BY <3>1 DEF EnrollBegin
    <3>2. CASE EnrollSaveKey(p)  BY <3>2 DEF EnrollSaveKey
    <3>3. CASE EnrollSaveState(p)  BY <3>3 DEF EnrollSaveState
    <3>4. CASE EnrollSaveCsr(p)  BY <3>4 DEF EnrollSaveCsr
    <3>5. CASE EnrollSaveCsrState(p)  BY <3>5 DEF EnrollSaveCsrState
    <3>6. CASE EnrollCreate(p)  BY <3>6 DEF EnrollCreate
    <3>7. CASE EnrollPending(p)  BY <3>7 DEF EnrollPending
    <3>8. CASE EnrollApproved(p)  BY <3>8 DEF EnrollApproved
    <3>9. QED  BY <2>1, <3>1, <3>2, <3>3, <3>4, <3>5, <3>6, <3>7, <3>8 DEF Enroll
  <2>2. CASE Pull(p)
    <3>1. CASE PullBegin(p)  BY <3>1 DEF PullBegin
    <3>2. CASE PullRefused(p)  BY <3>2 DEF PullRefused
    <3>3. CASE EnrollPull(p)  BY <3>3 DEF EnrollPull
    <3>4. CASE PullPending(p)  BY <3>4 DEF PullPending
    <3>5. CASE PullRejected(p)  BY <3>5 DEF PullRejected
    <3>6. CASE PullApproved(p)  BY <3>6 DEF PullApproved
    <3>7. QED  BY <2>2, <3>1, <3>2, <3>3, <3>4, <3>5, <3>6 DEF Pull
  <2>3. CASE ApplyIssued(p)
    <3>1. CASE IssueLeaf(p)  BY <3>1 DEF IssueLeaf
    <3>2. CASE IssueFile(p)  BY <3>2 DEF IssueFile
    <3>3. CASE IssueVerifyKeyPresent(p)  BY <3>3 DEF IssueVerifyKeyPresent
    <3>4. CASE IssueSave(p)  BY <3>4 DEF IssueSave
    <3>5. QED  BY <2>3, <3>1, <3>2, <3>3, <3>4 DEF ApplyIssued
  <2>4. CASE Renew(p)
    <3>1. CASE RenewResume(p)  BY <3>1 DEF RenewResume
    <3>2. CASE RenewBegin(p)  BY <3>2 DEF RenewBegin
    <3>3. CASE RenewSaveKey(p)  BY <3>3 DEF RenewSaveKey
    <3>4. CASE RenewSaveCsr(p)  BY <3>4 DEF RenewSaveCsr
    <3>5. CASE RenewSaveState(p)  BY <3>5 DEF RenewSaveState
    <3>6. CASE RenewCheck(p)  BY <3>6 DEF RenewCheck
    <3>7. CASE MachineRenew(p)  BY <3>7 DEF MachineRenew
    <3>8. CASE RenewFile(p)
      <4>1. PICK f \in File : /\ IsNext(p, f, RenewOrder)
                              /\ IF f = "key.new"
                                   THEN SecureDelete(p, f, "renew_unlink") /\ UNCHANGED <<mem, key>>
                                   ELSE /\ Put(f, key[p])
                                        /\ Exit(p) \/ (Done(p, f) /\ UNCHANGED <<pc, mem, key>>)
        BY <3>8 DEF RenewFile
      <4>2. UNCHANGED <<state, credential>> /\ pc[p] = "renew_files"
        BY <3>8 DEF RenewFile
      <4>3. CASE f = "key.new"
        BY <4>1, <4>2, <4>3, NewKeyLast
      <4>4. CASE f # "key.new" /\ Exit(p)
        BY <4>1, <4>2, <4>4
      <4>5. CASE f # "key.new" /\ ~ Exit(p)
        BY <4>1, <4>2, <4>5
      <4>6. QED  BY <4>1, <4>3, <4>4, <4>5
    <3>9. CASE RenewUnlink(p)  BY <3>9 DEF RenewUnlink
    <3>10. CASE RenewSave(p)  BY <3>10 DEF RenewSave
    <3>11. QED  BY <2>4, <3>1, <3>2, <3>3, <3>4, <3>5, <3>6, <3>7, <3>8, <3>9, <3>10 DEF Renew
  <2>5. CASE Decommission(p)
    <3>1. CASE DecommissionBegin(p)  BY <3>1 DEF DecommissionBegin
    <3>2. CASE MachineDecommission(p)  BY <3>2 DEF MachineDecommission
    <3>3. CASE WipeFile(p)  BY <3>3 DEF WipeFile
    <3>4. CASE WipeUnlink(p)  BY <3>4 DEF WipeUnlink
    <3>5. CASE DecommissionSave(p)  BY <3>5 DEF DecommissionSave
    <3>6. QED  BY <2>5, <3>1, <3>2, <3>3, <3>4, <3>5 DEF Decommission
  <2>6. CASE Revoke(p)
    <3>1. CASE RevokeBegin(p)  BY <3>1 DEF RevokeBegin
    <3>2. CASE CredentialRevoke(p)  BY <3>2 DEF CredentialRevoke
    <3>3. CASE RevokeLoad(p)  BY <3>3 DEF RevokeLoad
    <3>4. CASE RevokeSave(p)  BY <3>4 DEF RevokeSave
    <3>5. QED  BY <2>6, <3>1, <3>2, <3>3, <3>4 DEF Revoke
  <2>7. CASE Refused(p) \/ Abort(p)
    BY <2>7 DEF Refused, Abort
  <2>8. QED
    BY <1>1, <2>1, <2>2, <2>3, <2>4, <2>5, <2>6, <2>7 DEF Command
<1>2. ASSUME NEW k \in Key, Admin(k) PROVE RenewalOK'
  <2>1. /\ LiveOK /\ RenewalOK /\ DecommissionedIsClean /\ EnrollmentIssues /\ TypeOK
        /\ RecordOK(state, credential) /\ state \in StateJson
        /\ None \notin Key
    BY SentinelsAreNotKeys DEF SoloInv, SharedInv, RecordsOK, TypeOK
  <2> USE <2>1 DEF TypeOK, LiveOK, Live, Issued, RenewalOK, DecommissionedIsClean,
        EnrollmentIssues,
      RecordOK, Enrolled, StateJson, File, localVars
  <2>2. CASE AdminApprove(k)  BY <2>2 DEF AdminApprove
  <2>3. CASE AdminReject(k)  BY <2>3 DEF AdminReject
  <2>4. CASE AdminRevoke(k)  BY <2>4 DEF AdminRevoke
  <2>5. QED  BY <1>2, <2>2, <2>3, <2>4 DEF Admin
<1>3. CASE UNCHANGED vars
  BY <1>3 DEF vars, SoloInv, MemoryOK, FilesOK, LiveOK, Live, Issued, RenewalOK,
        DecommissionedIsClean
<1>4. QED
  BY <1>1, <1>2, <1>3 DEF Next

(* Decommissioning wipes everything, and nothing comes back.               *)
LEMMA CleanStep ==
  ASSUME Solo, TypeOK, SharedInv, SoloInv, [Next]_vars
  PROVE  DecommissionedIsClean'
<1>1. ASSUME NEW p \in Process, Command(p) \/ Abort(p) PROVE DecommissionedIsClean'
  <2>0. /\ RecordOK(state, credential) /\ RecordOK(mem[p], credential)
        /\ KnowsOK(pc[p], mem[p], key[p], credential)
        /\ MemoryOK(p) /\ FilesOK(p) /\ LiveOK /\ RenewalOK /\ DecommissionedIsClean
        /\ EnrollmentIssues /\ KeysApart /\ FreshKeys
        /\ None \notin Key /\ Zeroed \notin Key
        /\ state \in StateJson /\ mem[p] \in StateJson /\ TypeOK
        /\ \A q \in Process : q = p
    BY Known DEF Solo
  <2> USE <2>0 DEF RecordOK, KnowsOK, WithKey, Installing, Enrolling, Renewing, Pulling,
        Enrolled,
      StateJson, NoState, TypeOK, Goto, Exit, Rest, Done, Put, SecureDelete, Unlink, serverVars,
      AllowsEnroll, InRenewal, CanTransitionTo, File, FilesOK, MemoryOK, LiveOK, Live, Issued, DecommissionedIsClean, EnrollmentIssues, KeysApart
  <2>1. CASE Enroll(p)
    <3>1. CASE EnrollBegin(p)  BY <3>1 DEF EnrollBegin
    <3>2. CASE EnrollSaveKey(p)  BY <3>2 DEF EnrollSaveKey
    <3>3. CASE EnrollSaveState(p)  BY <3>3 DEF EnrollSaveState
    <3>4. CASE EnrollSaveCsr(p)  BY <3>4 DEF EnrollSaveCsr
    <3>5. CASE EnrollSaveCsrState(p)  BY <3>5 DEF EnrollSaveCsrState
    <3>6. CASE EnrollCreate(p)  BY <3>6 DEF EnrollCreate
    <3>7. CASE EnrollPending(p)  BY <3>7 DEF EnrollPending
    <3>8. CASE EnrollApproved(p)  BY <3>8 DEF EnrollApproved
    <3>9. QED  BY <2>1, <3>1, <3>2, <3>3, <3>4, <3>5, <3>6, <3>7, <3>8 DEF Enroll
  <2>2. CASE Pull(p)
    <3>1. CASE PullBegin(p)  BY <3>1 DEF PullBegin
    <3>2. CASE PullRefused(p)  BY <3>2 DEF PullRefused
    <3>3. CASE EnrollPull(p)  BY <3>3 DEF EnrollPull
    <3>4. CASE PullPending(p)  BY <3>4 DEF PullPending
    <3>5. CASE PullRejected(p)  BY <3>5 DEF PullRejected
    <3>6. CASE PullApproved(p)  BY <3>6 DEF PullApproved
    <3>7. QED  BY <2>2, <3>1, <3>2, <3>3, <3>4, <3>5, <3>6 DEF Pull
  <2>3. CASE ApplyIssued(p)
    <3>1. CASE IssueLeaf(p)  BY <3>1 DEF IssueLeaf
    <3>2. CASE IssueFile(p)  BY <3>2 DEF IssueFile
    <3>3. CASE IssueVerifyKeyPresent(p)  BY <3>3 DEF IssueVerifyKeyPresent
    <3>4. CASE IssueSave(p)  BY <3>4 DEF IssueSave
    <3>5. QED  BY <2>3, <3>1, <3>2, <3>3, <3>4 DEF ApplyIssued
  <2>4. CASE Renew(p)
    <3>1. CASE RenewResume(p)  BY <3>1 DEF RenewResume
    <3>2. CASE RenewBegin(p)  BY <3>2 DEF RenewBegin
    <3>3. CASE RenewSaveKey(p)  BY <3>3 DEF RenewSaveKey
    <3>4. CASE RenewSaveCsr(p)  BY <3>4 DEF RenewSaveCsr
    <3>5. CASE RenewSaveState(p)  BY <3>5 DEF RenewSaveState
    <3>6. CASE RenewCheck(p)  BY <3>6 DEF RenewCheck
    <3>7. CASE MachineRenew(p)  BY <3>7 DEF MachineRenew
    <3>8. CASE RenewFile(p)  BY <3>8 DEF RenewFile, IsNext
    <3>9. CASE RenewUnlink(p)  BY <3>9 DEF RenewUnlink
    <3>10. CASE RenewSave(p)  BY <3>10 DEF RenewSave
    <3>11. QED  BY <2>4, <3>1, <3>2, <3>3, <3>4, <3>5, <3>6, <3>7, <3>8, <3>9, <3>10 DEF Renew
  <2>5. CASE Decommission(p)
    <3>1. CASE DecommissionBegin(p)  BY <3>1 DEF DecommissionBegin
    <3>2. CASE MachineDecommission(p)  BY <3>2 DEF MachineDecommission
    <3>3. CASE WipeFile(p)  BY <3>3 DEF WipeFile
    <3>4. CASE WipeUnlink(p)  BY <3>4 DEF WipeUnlink
    <3>5. CASE DecommissionSave(p)  BY <3>5 DEF DecommissionSave
    <3>6. QED  BY <2>5, <3>1, <3>2, <3>3, <3>4, <3>5 DEF Decommission
  <2>6. CASE Revoke(p)
    <3>1. CASE RevokeBegin(p)  BY <3>1 DEF RevokeBegin
    <3>2. CASE CredentialRevoke(p)  BY <3>2 DEF CredentialRevoke
    <3>3. CASE RevokeLoad(p)  BY <3>3 DEF RevokeLoad
    <3>4. CASE RevokeSave(p)  BY <3>4 DEF RevokeSave
    <3>5. QED  BY <2>6, <3>1, <3>2, <3>3, <3>4 DEF Revoke
  <2>7. CASE Refused(p) \/ Abort(p)
    BY <2>7 DEF Refused, Abort
  <2>8. QED
    BY <1>1, <2>1, <2>2, <2>3, <2>4, <2>5, <2>6, <2>7 DEF Command
<1>2. ASSUME NEW k \in Key, Admin(k) PROVE DecommissionedIsClean'
  <2>1. /\ LiveOK /\ RenewalOK /\ DecommissionedIsClean /\ EnrollmentIssues /\ TypeOK
        /\ RecordOK(state, credential) /\ state \in StateJson
        /\ None \notin Key
    BY SentinelsAreNotKeys DEF SoloInv, SharedInv, RecordsOK, TypeOK
  <2> USE <2>1 DEF TypeOK, LiveOK, Live, Issued, RenewalOK, DecommissionedIsClean,
        EnrollmentIssues,
      RecordOK, Enrolled, StateJson, File, localVars
  <2>2. CASE AdminApprove(k)  BY <2>2 DEF AdminApprove
  <2>3. CASE AdminReject(k)  BY <2>3 DEF AdminReject
  <2>4. CASE AdminRevoke(k)  BY <2>4 DEF AdminRevoke
  <2>5. QED  BY <1>2, <2>2, <2>3, <2>4 DEF Admin
<1>3. CASE UNCHANGED vars
  BY <1>3 DEF vars, SoloInv, MemoryOK, FilesOK, LiveOK, Live, Issued, RenewalOK,
        DecommissionedIsClean
<1>4. QED
  BY <1>1, <1>2, <1>3 DEF Next

-----------------------------------------------------------------------------
LEMMA SoloInvInit == Init => SoloInv
BY SentinelsAreNotKeys
DEF Init, SoloInv, MemoryOK, FilesOK, LiveOK, Live, Issued, RenewalOK,
      DecommissionedIsClean, NoState,
    Pulling

LEMMA SoloInvStep ==
  ASSUME Solo, TypeOK, SharedInv, SoloInv, [Next]_vars
  PROVE  SoloInv'
BY MemoryStep, FilesStep, LiveStep, RenewalStep, CleanStep DEF SoloInv

LEMMA SoloInvCorrect == ASSUME Solo PROVE Spec => [](TypeOK /\ SharedInv /\ SoloInv)
<1>1. TypeOK /\ SharedInv /\ SoloInv /\ [Next]_vars => SoloInv'
  BY SoloInvStep
<1>2. QED
  BY <1>1, SharedInvCorrect, SoloInvInit, PTL DEF Spec

(* Wherever a command is cut short, the key of a credential the server     *)
(* honours is in machine.key or machine.key.new.                           *)
THEOREM KeyCustodyCorrect == ASSUME Solo PROVE Spec => []KeyCustody
<1>1. SoloInv => KeyCustody
  BY DEF SoloInv, LiveOK, RenewalOK, Live, KeyCustody
<1>2. QED
  BY <1>1, SoloInvCorrect, PTL

(* The server honours at most one credential of the machine.               *)
THEOREM OneLiveCredentialCorrect == ASSUME Solo PROVE Spec => []OneLiveCredential
<1>1. SoloInv => OneLiveCredential
  BY DEF SoloInv, LiveOK, Live, OneLiveCredential
<1>2. QED
  BY <1>1, SoloInvCorrect, PTL

(* "active" in state.json names a credential that was issued and not       *)
(* replaced, and while it is honoured its key is machine.key.              *)
THEOREM ActiveAgreesCorrect == ASSUME Solo PROVE Spec => []ActiveAgrees
<1>1. TypeOK /\ SharedInv /\ SoloInv => ActiveAgrees
  BY DEF TypeOK, StateJson, SharedInv, RecordsOK, RecordOK, Enrolled, SoloInv, LiveOK, Live,
        ActiveAgrees
<1>2. QED
  BY <1>1, SoloInvCorrect, PTL

(* A renewal that was cut short can be resumed, or is done but for         *)
(* state.json, or is void because its credential was revoked.              *)
THEOREM RenewalRecoverableCorrect == ASSUME Solo PROVE Spec => []RenewalRecoverable
<1>1. TypeOK /\ SharedInv /\ SoloInv => RenewalRecoverable
  BY DEF TypeOK, StateJson, SharedInv, RecordsOK, RecordOK, Enrolled, SoloInv, RenewalOK,
         RenewalRecoverable, InRenewal
<1>2. QED
  BY <1>1, SoloInvCorrect, PTL

(* A decommissioned machine keeps nothing a credential was issued for.     *)
THEOREM DecommissionedIsCleanCorrect == ASSUME Solo PROVE Spec => []DecommissionedIsClean
<1>1. SoloInv => DecommissionedIsClean
  BY DEF SoloInv
<1>2. QED
  BY <1>1, SoloInvCorrect, PTL

-----------------------------------------------------------------------------
(* Every step is a step of MachineIdentity or leaves its variables alone.  *)
LEMMA IdentityStep ==
  ASSUME Solo, TypeOK, SharedInv, SoloInv, [Next]_vars
  PROVE  [Identity!Next]_(Identity!idVars)
<1> USE DEF Identity!idVars, Identity!Next, Identity!Record, Identity!Issued
<1>1. ASSUME NEW p \in Process, Command(p) \/ Abort(p)
      PROVE  [Identity!Next]_(Identity!idVars)
  <2>0. /\ RecordOK(state, credential) /\ RecordOK(mem[p], credential)
        /\ KnowsOK(pc[p], mem[p], key[p], credential)
        /\ MemoryOK(p) /\ FilesOK(p) /\ LiveOK /\ RenewalOK
        /\ EnrollmentIssues /\ KeysApart
        /\ None \notin Key
        /\ state \in StateJson /\ mem[p] \in StateJson /\ TypeOK
    BY Known
  <2> USE <2>0 DEF RecordOK, KnowsOK, WithKey, Installing, Enrolling, Renewing, Pulling,
        Enrolled,
      StateJson, NoState, TypeOK, Exit, Rest, AllowsEnroll, InRenewal, CanTransitionTo, serverVars,
      MemoryOK, LiveOK, Live, Issued
  <2>1. CASE Enroll(p)
    <3>1. CASE EnrollBegin(p)  BY <3>1 DEF EnrollBegin
    <3>2. CASE EnrollSaveKey(p)  BY <3>2 DEF EnrollSaveKey
    <3>3. CASE EnrollSaveState(p)  BY <3>3 DEF EnrollSaveState, KeysApart,
          Identity!StartEnroll, Identity!AllowsEnroll
    <3>4. CASE EnrollSaveCsr(p)  BY <3>4 DEF EnrollSaveCsr
    <3>5. CASE EnrollSaveCsrState(p)  BY <3>5 DEF EnrollSaveCsrState, Identity!MakeCsr
    <3>6. CASE EnrollCreate(p)  BY <3>6 DEF EnrollCreate, Identity!Issue
    <3>7. CASE EnrollPending(p)  BY <3>7 DEF EnrollPending, Identity!AwaitAdmin
    <3>8. CASE EnrollApproved(p)  BY <3>8 DEF EnrollApproved
    <3>9. QED  BY <2>1, <3>1, <3>2, <3>3, <3>4, <3>5, <3>6, <3>7, <3>8 DEF Enroll
  <2>2. CASE Pull(p)
    <3>1. CASE PullBegin(p)  BY <3>1 DEF PullBegin
    <3>2. CASE PullRefused(p)  BY <3>2 DEF PullRefused
    <3>3. CASE EnrollPull(p)  BY <3>3 DEF EnrollPull
    <3>4. CASE PullPending(p)  BY <3>4 DEF PullPending
    <3>5. CASE PullRejected(p)  BY <3>5 DEF PullRejected, EnrollmentIssues, Identity!Reject
    <3>6. CASE PullApproved(p)  BY <3>6 DEF PullApproved
    <3>7. QED  BY <2>2, <3>1, <3>2, <3>3, <3>4, <3>5, <3>6 DEF Pull
  <2>3. CASE ApplyIssued(p)
    <3>1. CASE IssueLeaf(p)  BY <3>1 DEF IssueLeaf
    <3>2. CASE IssueFile(p)  BY <3>2 DEF IssueFile
    <3>3. CASE IssueVerifyKeyPresent(p)  BY <3>3 DEF IssueVerifyKeyPresent
    <3>4. CASE IssueSave(p)  BY <3>4 DEF IssueSave, Identity!Activate
    <3>5. QED  BY <2>3, <3>1, <3>2, <3>3, <3>4 DEF ApplyIssued
  <2>4. CASE Renew(p)
    <3>1. CASE RenewResume(p)  BY <3>1 DEF RenewResume
    <3>2. CASE RenewBegin(p)  BY <3>2 DEF RenewBegin
    <3>3. CASE RenewSaveKey(p)  BY <3>3 DEF RenewSaveKey
    <3>4. CASE RenewSaveCsr(p)  BY <3>4 DEF RenewSaveCsr
    <3>5. CASE RenewSaveState(p)  BY <3>5 DEF RenewSaveState, Identity!StartRenewal
    <3>6. CASE RenewCheck(p)  BY <3>6 DEF RenewCheck
    <3>7. CASE MachineRenew(p)  BY <3>7 DEF MachineRenew, Identity!Replace
    <3>8. CASE RenewFile(p)  BY <3>8 DEF RenewFile
    <3>9. CASE RenewUnlink(p)  BY <3>9 DEF RenewUnlink
    <3>10. CASE RenewSave(p)  BY <3>10 DEF RenewSave, FilesOK, RenewalOK, Identity!FinishRenewal
    <3>11. QED  BY <2>4, <3>1, <3>2, <3>3, <3>4, <3>5, <3>6, <3>7, <3>8, <3>9, <3>10 DEF Renew
  <2>5. CASE Decommission(p)
    <3>1. CASE DecommissionBegin(p)  BY <3>1 DEF DecommissionBegin
    <3>2. CASE MachineDecommission(p)  BY <3>2, ZenonT(60) DEF MachineDecommission, Identity!Withdraw
    <3>3. CASE WipeFile(p)  BY <3>3 DEF WipeFile
    <3>4. CASE WipeUnlink(p)  BY <3>4 DEF WipeUnlink
    <3>5. CASE DecommissionSave(p)  BY <3>5 DEF DecommissionSave, FilesOK, Identity!Close
    <3>6. QED  BY <2>5, <3>1, <3>2, <3>3, <3>4, <3>5 DEF Decommission
  <2>6. CASE Revoke(p)
    <3>1. CASE RevokeBegin(p)  BY <3>1 DEF RevokeBegin
    <3>2. CASE CredentialRevoke(p)  BY <3>2, ZenonT(60) DEF CredentialRevoke, Identity!Withdraw
    <3>3. CASE RevokeLoad(p)  BY <3>3 DEF RevokeLoad
    <3>4. CASE RevokeSave(p)  BY <3>4 DEF RevokeSave, FilesOK, Identity!Close
    <3>5. QED  BY <2>6, <3>1, <3>2, <3>3, <3>4 DEF Revoke
  <2>7. CASE Refused(p) \/ Abort(p)
    BY <2>7 DEF Refused, Abort
  <2>8. QED
    BY <1>1, <2>1, <2>2, <2>3, <2>4, <2>5, <2>6, <2>7 DEF Command
<1>2. ASSUME NEW k \in Key, Admin(k) PROVE [Identity!Next]_(Identity!idVars)
  <2> USE DEF localVars
  <2>1. CASE AdminApprove(k)
    BY <2>1 DEF AdminApprove, Identity!Issue, SoloInv, SharedInv, LiveOK, Live,
          EnrollmentIssues, Issued
  <2>2. CASE AdminReject(k)
    BY <2>2 DEF AdminReject
  <2>3. CASE AdminRevoke(k)
    BY <2>3 DEF AdminRevoke, Identity!Withdraw
  <2>4. QED
    BY <1>2, <2>1, <2>2, <2>3 DEF Admin
<1>3. CASE UNCHANGED vars
  BY <1>3 DEF vars
<1>4. QED
  BY <1>1, <1>2, <1>3 DEF Next

(* state.json and the server's record together implement MachineIdentity.  *)
THEOREM ImplementsIdentityCorrect == ASSUME Solo PROVE Spec => ImplementsIdentity
<1>1. Init => Identity!Init
  BY DEF Init, Identity!Init, NoState
<1>2. TypeOK /\ SharedInv /\ SoloInv /\ [Next]_vars => [Identity!Next]_(Identity!idVars)
  BY IdentityStep
<1>3. QED
  BY <1>1, <1>2, SoloInvCorrect, PTL DEF Spec, ImplementsIdentity, Identity!Spec
=============================================================================
