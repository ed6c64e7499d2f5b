--------------------------- MODULE CsrInbox_proofs ---------------------------
(***************************************************************************)
(* Proofs about CsrInbox and the CA it signs with, for any number of       *)
(* admins, CA key pairs, enrollments and machines.                         *)
(***************************************************************************)
EXTENDS CsrInbox, FiniteSetTheorems, TLAPS

Whole(c) == [key |-> c, cert |-> SelfSigned(c), meta |-> c]

WholeMaterial(m) == m.ski \in Ca /\ m = NewMaterial(m.ski)

SavingCa == {"save_key", "save_cert", "save_meta"}

(* How far an init is says what is in the directory and what the server    *)
(* knows.                                                                  *)
Progress(p) ==
  /\ ca[p].meta # None => ca[p] = Whole(ca[p].meta)
  /\ pc[p] \in SavingCa \cup {"ask_server"} => ca[p].meta = None
  /\ pc[p] \in SavingCa => WholeMaterial(material[p])
  /\ pc[p] \in {"save_cert", "save_meta"} => ca[p].key = material[p].ski
  /\ pc[p] = "save_meta" => ca[p].cert = material[p].cert
  /\ pc[p] \in {"kickstart", "conflict", "kickstarted"} =>
       material[p].ski \in Ca /\ ca[p] = Whole(material[p].ski)
  /\ (pc[p] \in SavingCa /\ mode[p] = "server") \/ pc[p] = "kickstarted" =>
       registered # None /\ registered.ski = material[p].ski

CaInv == (\A p \in Admin : Progress(p)) /\ RegisteredKeyKept

RowInv ==
  \A i \in Id :
    /\ row[i].status # "none" => row[i].csr \in Request
    /\ row[i].status = "approved" =>
         /\ registered # None /\ CsrVerifies(row[i].csr)
         /\ row[i].issued = Issued(row[i].csr, NewMaterial(registered.ski))

LocalInv ==
  \A p \in Machine : local[p].id # None =>
    /\ local[p].csr \in Request
    /\ row[local[p].id].status # "none"
    /\ row[local[p].id].status = "pending" => local[p].csr = row[local[p].id].csr

(* What an admin is about to send was fetched for a row that exists, and   *)
(* while that row is pending the request is the row's own.                 *)
Decision(p) ==
  /\ pc[p] \in Deciding <=> job[p] # None
  /\ pc[p] \in Deciding => row[job[p].id].status # "none"
  /\ pc[p] \in {"confirm", "send"} /\ job[p].verb = "approve" =>
       /\ WholeMaterial(material[p])
       /\ (job[p].csr # None /\ row[job[p].id].status = "pending") =>
            job[p].csr = row[job[p].id].csr
  /\ pc[p] = "send" => job[p].yes \/ job[p].id = job[p].meant

JobInv == \A p \in Clerk : Decision(p)

IInv == TypeOK /\ CaInv /\ RowInv /\ LocalInv /\ JobInv

-----------------------------------------------------------------------------
(* Key material *)

LEMMA NewMaterialWhole ==
  ASSUME NEW c \in Ca
  PROVE  /\ NewMaterial(c) \in Material /\ WholeMaterial(NewMaterial(c))
         /\ NewMaterial(c).ski = c /\ NewMaterial(c).cert = SelfSigned(c)
  BY DEF NewMaterial, Material, WholeMaterial

LEMMA WholeIsFiles ==
  ASSUME NEW c \in Ca
  PROVE  /\ Whole(c) \in Files
         /\ Whole(c).key = c /\ Whole(c).cert = SelfSigned(c) /\ Whole(c).meta = c
         /\ c # None /\ SelfSigned(c) # None
  BY NoneIsNoCa DEF Whole, Files

(* What is read back from a directory is what was saved there. *)
LEMMA LoadedWhole ==
  ASSUME CaTypeOK, NEW p \in Admin, Progress(p), LoadEntityCa(p) # NoMaterial
  PROVE  /\ WholeMaterial(LoadEntityCa(p)) /\ LoadEntityCa(p) \in Material
         /\ ca[p] = Whole(LoadEntityCa(p).ski)
<1>1. ca[p] \in Files
  BY DEF CaTypeOK
<1>2. ca[p].meta # None /\ LoadEntityCa(p) = [ski |-> ca[p].meta, cert |-> ca[p].cert]
  BY DEF LoadEntityCa
<1>3. ca[p].meta \in Ca /\ ca[p] = Whole(ca[p].meta)
  BY <1>1, <1>2 DEF Files, Progress
<1>4. LoadEntityCa(p) = NewMaterial(ca[p].meta)
  BY <1>2, <1>3, WholeIsFiles DEF NewMaterial
<1> QED
  BY <1>3, <1>4, NewMaterialWhole

LEMMA SavedWhole ==
  ASSUME NEW c \in Ca, NEW p \in Admin, ca[p] = Whole(c)
  PROVE  LoadEntityCa(p) = NewMaterial(c)
  BY WholeIsFiles DEF LoadEntityCa, NewMaterial

-----------------------------------------------------------------------------
(* init *)

CaWell == CaTypeOK /\ pc \in [Admin -> {"idle"} \cup Initing \cup Deciding]

(* The step of one admin's init, seen from every other place. *)
Apart(p) ==
  /\ \A q \in Admin \ {p} :
       /\ pc'[q] = pc[q] /\ material'[q] = material[q]
       /\ mode'[q] = mode[q] /\ ca'[q] = ca[q]
  /\ registered # None => registered' = registered

LEMMA InitTypes ==
  ASSUME CaWell, NEW p \in Admin, Progress(p), InitCommand(p)
  PROVE  CaWell' /\ Apart(p) /\ pc[p] \notin Deciding /\ pc'[p] \notin Deciding
<1> USE DEF CaWell, CaTypeOK, Apart, Goto, Keeps, Initing, Deciding
<1>0. NoMaterial \in Material \cup {NoMaterial}
  OBVIOUS
<1>1. CASE InitAgain(p)
  BY <1>1, LoadedWhole DEF InitAgain, Begins
<1>2. CASE InitNew(p)
  BY <1>2, NewMaterialWhole DEF InitNew, Begins, Fresh
<1>3. CASE InitServerKeys(p)
  BY <1>3 DEF InitServerKeys, Begins
<1>4. CASE SaveKey(p)
  BY <1>4, NewMaterialWhole DEF SaveKey, Saves, Progress, SavingCa, WholeMaterial, Files
<1>5. CASE SaveCert(p)
  BY <1>5, NewMaterialWhole DEF SaveCert, Saves, Progress, SavingCa, WholeMaterial, Files
<1>6. CASE SaveMeta(p)
  BY <1>6, NewMaterialWhole DEF SaveMeta, Saves, Progress, SavingCa, WholeMaterial, Files
<1>7. CASE Kickstart(p)
  <2>1. CASE registered = None
    <3>1. material[p].ski \in Ca
      BY <1>7 DEF Kickstart, Progress
    <3>2. registered' = [ski |-> material[p].ski, by |-> p, ours |-> TRUE]
      BY <1>7, <2>1 DEF Kickstart
    <3>3. registered' \in Registration
      BY <3>1, <3>2 DEF Registration
    <3> QED
      BY <1>7, <2>1, <3>3 DEF Kickstart
  <2>2. CASE registered # None
    BY <1>7, <2>2 DEF Kickstart
  <2> QED
    BY <2>1, <2>2
<1>8. CASE KickstartServerKeys(p)
  BY <1>8, NewMaterialWhole DEF KickstartServerKeys, Fresh, Registration
<1>9. CASE Conflict(p)
  BY <1>9 DEF Conflict
<1>10. CASE InitReports(p)
  BY <1>0, <1>10 DEF InitReports, Returns
<1>11. CASE InitFails(p)
  BY <1>0, <1>11 DEF InitFails, Returns
<1> QED
  BY <1>1, <1>2, <1>3, <1>4, <1>5, <1>6, <1>7, <1>8, <1>9, <1>10, <1>11
    DEF InitCommand, InitStarts, InitGoesOn

LEMMA ProgressElsewhere ==
  ASSUME NEW q \in Admin, Progress(q),
         pc'[q] = pc[q], material'[q] = material[q], mode'[q] = mode[q], ca'[q] = ca[q],
         registered # None => registered' = registered
  PROVE  Progress(q)'
  BY DEF Progress, WholeMaterial, NewMaterial, Whole

LEMMA InitProgress ==
  ASSUME CaWell, NEW p \in Admin, Progress(p), InitCommand(p)
  PROVE  Progress(p)'
<1> USE DEF CaWell, CaTypeOK, Goto, Keeps, SavingCa
<1>1. CASE InitAgain(p)
  BY <1>1, LoadedWhole DEF InitAgain, Begins, Progress, WholeMaterial, Whole, NewMaterial
<1>2. CASE InitNew(p)
  BY <1>2, NewMaterialWhole DEF InitNew, Begins, Fresh, Progress
<1>3. CASE InitServerKeys(p)
  BY <1>3 DEF InitServerKeys, Begins, Progress
<1>4. CASE SaveKey(p)
  BY <1>4 DEF SaveKey, Saves, Progress, WholeMaterial, Files
<1>5. CASE SaveCert(p)
  BY <1>5 DEF SaveCert, Saves, Progress, WholeMaterial, Files
<1>6. CASE SaveMeta(p)
  <2>1. /\ material[p].ski \in Ca /\ material[p].cert = SelfSigned(material[p].ski)
        /\ ca[p].key = material[p].ski /\ ca[p].cert = material[p].cert
    BY <1>6, NewMaterialWhole DEF SaveMeta, Progress, WholeMaterial
  <2>2. ca'[p] = Whole(material[p].ski)
    BY <1>6, <2>1 DEF SaveMeta, Saves, Files, Whole
  <2>3. /\ material' = material /\ registered' = registered
        /\ pc'[p] = IF mode[p] = "server" THEN "kickstarted" ELSE "kickstart"
    BY <1>6 DEF SaveMeta, Saves
  <2>4. pc'[p] = "kickstarted" => registered # None /\ registered.ski = material[p].ski
    BY <1>6, <2>3 DEF SaveMeta, Progress
  <2> QED
    BY <2>1, <2>2, <2>3, <2>4, WholeIsFiles DEF Progress
<1>7. CASE Kickstart(p)
  <2>1. material[p].ski \in Ca /\ ca[p] = Whole(material[p].ski)
    BY <1>7 DEF Kickstart, Progress
  <2>2. UNCHANGED <<ca, material>>
    BY <1>7 DEF Kickstart
  <2>3. CASE registered = None
    <3>1. registered' = [ski |-> material[p].ski, by |-> p, ours |-> TRUE]
      BY <1>7, <2>3 DEF Kickstart
    <3>2. registered' \in Registration
      BY <2>1, <3>1 DEF Registration
    <3>3. registered' # None /\ registered'.ski = material[p].ski
      BY <3>1, <3>2, NoneIsNoRegistration
    <3>4. pc'[p] = "kickstarted"
      BY <1>7, <2>3 DEF Kickstart
    <3> QED
      BY <2>1, <2>2, <3>3, <3>4, WholeIsFiles DEF Progress
  <2>4. CASE registered # None
    <3>1. pc'[p] = "conflict"
      BY <1>7, <2>4 DEF Kickstart
    <3> QED
      BY <2>1, <2>2, <3>1, WholeIsFiles DEF Progress
  <2> QED
    BY <2>3, <2>4
<1>8. CASE KickstartServerKeys(p)
  <2>1. PICK c \in Fresh :
          /\ material' = [material EXCEPT ![p] = NewMaterial(c)]
          /\ registered' = [ski |-> c, by |-> p, ours |-> FALSE]
    BY <1>8 DEF KickstartServerKeys
  <2>2. c \in Ca /\ registered' \in Registration
    BY <2>1 DEF Fresh, Registration
  <2>3. material'[p] = NewMaterial(c) /\ WholeMaterial(NewMaterial(c)) /\ NewMaterial(c).ski = c
    BY <2>1, <2>2, NewMaterialWhole
  <2>4. WholeMaterial(material[p])'
    BY <2>3 DEF WholeMaterial, NewMaterial
  <2>5. registered' # None /\ registered'.ski = c
    BY <2>1, <2>2, NoneIsNoRegistration
  <2>6. pc'[p] = "save_key" /\ ca' = ca /\ ca[p].meta = None
    BY <1>8 DEF KickstartServerKeys, Progress
  <2> QED
    BY <2>3, <2>4, <2>5, <2>6 DEF Progress
<1>9. CASE Conflict(p)
  BY <1>9 DEF Conflict, Progress
<1>10. CASE InitReports(p)
  BY <1>10 DEF InitReports, Returns, Progress
<1>11. CASE InitFails(p)
  BY <1>11 DEF InitFails, Returns, Progress
<1> QED
  BY <1>1, <1>2, <1>3, <1>4, <1>5, <1>6, <1>7, <1>8, <1>9, <1>10, <1>11
    DEF InitCommand, InitStarts, InitGoesOn

(* A directory that has a CA is not written to. *)
LEMMA WholeStays ==
  ASSUME CaWell, NEW p \in Admin, Progress(p), InitCommand(p), ca[p].meta # None
  PROVE  ca'[p] = ca[p]
<1>1. pc[p] \notin SavingCa
  BY DEF Progress
<1> QED
  BY <1>1 DEF SavingCa, InitCommand, InitStarts, InitGoesOn, InitAgain, InitNew, InitServerKeys,
     Begins, SaveKey, SaveCert, SaveMeta, Kickstart, KickstartServerKeys, Conflict, InitReports, InitFails

LEMMA RegistersOwn ==
  ASSUME CaWell, NEW p \in Admin, Progress(p), InitCommand(p), registered = None,
         registered' # None, registered'.ours
  PROVE  /\ registered'.by = p /\ registered'.ski \in Ca
         /\ ca'[p] = Whole(registered'.ski)
<1>1. CASE Kickstart(p)
  <2>1. material[p].ski \in Ca /\ ca[p] = Whole(material[p].ski)
    BY <1>1 DEF Kickstart, Progress
  <2>2. registered' = [ski |-> material[p].ski, by |-> p, ours |-> TRUE] /\ ca' = ca
    BY <1>1 DEF Kickstart
  <2> QED
    BY <2>1, <2>2
<1>2. ~ KickstartServerKeys(p)
  BY DEF KickstartServerKeys
<1> QED
  BY <1>1, <1>2 DEF InitCommand, InitStarts, InitGoesOn, InitAgain, InitNew, InitServerKeys,
     Begins, SaveKey, SaveCert, SaveMeta, Saves, Conflict, InitReports, InitFails

LEMMA InitKeepsCa ==
  ASSUME CaWell, CaInv, NEW p \in Admin, InitCommand(p)
  PROVE  CaInv'
<1>1. Progress(p)
  BY DEF CaInv
<1>2. Apart(p)
  BY <1>1, InitTypes
<1>3. ASSUME NEW q \in Admin PROVE Progress(q)'
  <2>1. CASE q = p
    BY <1>1, <2>1, InitProgress
  <2>2. CASE q # p
    BY <1>2, <2>2, ProgressElsewhere DEF Apart, CaInv
  <2> QED
    BY <2>1, <2>2
<1>4. RegisteredKeyKept'
  <2> SUFFICES ASSUME registered' # None, registered'.ours
               PROVE  ca'[registered'.by] = Whole(registered'.ski)
    BY DEF RegisteredKeyKept, Whole
  <2>1. CASE registered = None
    BY <1>1, <2>1, RegistersOwn
  <2>2. CASE registered # None
    <3>1. registered' = registered /\ registered \in Registration
      BY <1>2, <2>2 DEF Apart, CaWell, CaTypeOK
    <3>2. registered.by \in Admin /\ registered.ski \in Ca
      BY <3>1 DEF Registration
    <3>3. ca[registered.by] = Whole(registered.ski)
      BY <2>2, <3>1 DEF CaInv, RegisteredKeyKept, Whole
    <3>4. ca[registered.by].meta # None
      BY <3>2, <3>3, WholeIsFiles
    <3> QED
      BY <1>1, <1>2, <3>1, <3>2, <3>3, <3>4, WholeStays DEF Apart
  <2> QED
    BY <2>1, <2>2
<1> QED
  BY <1>3, <1>4 DEF CaInv

(* Whatever is no init leaves the CA alone. *)
LEMMA OthersKeepCa ==
  ASSUME CaWell, CaInv, UNCHANGED <<ca, registered>>, NEW p \in Admin,
         pc[p] \notin Initing, pc'[p] \in {"idle"} \cup Deciding,
         \A q \in Admin \ {p} :
           pc'[q] = pc[q] /\ material'[q] = material[q] /\ mode'[q] = mode[q]
  PROVE  CaInv'
<1>1. Progress(p)'
  BY DEF CaInv, Progress, SavingCa, Deciding, Whole
<1>2. ASSUME NEW q \in Admin, q # p PROVE Progress(q)'
  BY <1>2, ProgressElsewhere DEF CaInv
<1> QED
  BY <1>1, <1>2 DEF CaInv, RegisteredKeyKept

LEMMA SameKeepsCa ==
  ASSUME CaInv, UNCHANGED <<caVars, pc, material>>
  PROVE  CaInv'
<1>1. ASSUME NEW q \in Admin PROVE Progress(q)'
  BY ProgressElsewhere DEF CaInv, caVars
<1> QED
  BY <1>1 DEF CaInv, RegisteredKeyKept, caVars

(* An init leaves the inbox alone, and what is known of it stays true. *)
LEMMA InitKeepsInbox ==
  ASSUME IInv, NEW p \in Admin, InitStep(p)
  PROVE  IInv'
<1>1. CaWell /\ CaInv /\ Progress(p) /\ InitCommand(p) /\ UNCHANGED inboxVars
  BY DEF IInv, TypeOK, CaWell, CaInv, InitStep
<1>2. CaWell' /\ Apart(p) /\ pc[p] \notin Deciding /\ pc'[p] \notin Deciding
  BY <1>1, InitTypes
<1>3. TypeOK'
  BY <1>1, <1>2 DEF CaWell, TypeOK, IInv, inboxVars
<1>4. CaInv'
  BY <1>1, InitKeepsCa
<1>5. RowInv'
  BY <1>1, <1>2 DEF RowInv, IInv, inboxVars, Apart, CsrVerifies
<1>6. LocalInv'
  BY <1>1 DEF LocalInv, IInv, inboxVars
<1>7. ASSUME NEW q \in Clerk PROVE Decision(q)'
  <2>1. q \in Admin /\ Decision(q)
    BY ClerksAreAdmins DEF IInv, JobInv
  <2>2. CASE q = p
    BY <1>1, <1>2, <2>1, <2>2 DEF Decision, Deciding, inboxVars
  <2>3. CASE q # p
    BY <1>1, <1>2, <2>1, <2>3 DEF Decision, Deciding, inboxVars, Apart, WholeMaterial, NewMaterial
  <2> QED
    BY <2>2, <2>3
<1> QED
  BY <1>3, <1>4, <1>5, <1>6, <1>7 DEF IInv, JobInv

-----------------------------------------------------------------------------
(* Rows *)

(* A row that exists stays, and is what it was for as long as it is pending. *)
RowsGoOn ==
  \A i \in Id : row[i].status # "none" =>
    row'[i].status # "none" /\ (row'[i].status = "pending" => row'[i] = row[i])

LEMMA NewRow ==
  ASSUME TypeOK, RowInv, NEW i \in Id, NEW csr \in Request, Enrolls(i, csr), UNCHANGED registered
  PROVE  row' \in [Id -> Row] /\ RowInv' /\ RowsGoOn
<1>1. row \in [Id -> Row]
  BY DEF TypeOK
<1>2. row' = [row EXCEPT ![i] = [status |-> "pending", csr |-> csr, issued |-> None]]
  BY DEF Enrolls
<1>3. row'[i] \in Row /\ row'[i].status = "pending" /\ row'[i].csr = csr
  BY <1>1, <1>2 DEF Row
<1>4. row[i].status = "none"
  BY DEF Enrolls
<1>5. row' \in [Id -> Row] /\ RowsGoOn
  BY <1>1, <1>2, <1>3, <1>4 DEF RowsGoOn
<1>6. RowInv'
  BY <1>1, <1>2, <1>3 DEF RowInv, CsrVerifies
<1> QED
  BY <1>5, <1>6

LEMMA RejectedRow ==
  ASSUME TypeOK, RowInv, NEW i \in Id, row[i].status = "pending", UNCHANGED registered,
         row' = [row EXCEPT ![i] = [@ EXCEPT !.status = "rejected"]]
  PROVE  row' \in [Id -> Row] /\ RowInv' /\ RowsGoOn
<1>1. row \in [Id -> Row]
  BY DEF TypeOK
<1>2. row'[i] \in Row /\ row'[i].status = "rejected" /\ row'[i].csr = row[i].csr
  BY <1>1 DEF Row
<1>3. row' \in [Id -> Row] /\ RowsGoOn
  BY <1>1, <1>2 DEF RowsGoOn
<1>4. RowInv'
  BY <1>1, <1>2 DEF RowInv, CsrVerifies
<1> QED
  BY <1>3, <1>4

LEMMA LocalGoesOn ==
  ASSUME TypeOK, LocalInv, RowsGoOn, UNCHANGED local
  PROVE  LocalInv'
<1> SUFFICES ASSUME NEW p \in Machine, local[p].id # None
             PROVE  /\ local[p].csr \in Request
                    /\ row'[local[p].id].status # "none"
                    /\ row'[local[p].id].status = "pending" =>
                         local[p].csr = row'[local[p].id].csr
  BY DEF LocalInv
<1>1. local[p].id \in Id
  BY DEF TypeOK, Local
<1> QED
  BY <1>1 DEF RowsGoOn, LocalInv

LEMMA DecisionGoesOn ==
  ASSUME TypeOK, NEW q \in Clerk, Decision(q), RowsGoOn,
         pc'[q] = pc[q], job'[q] = job[q], material'[q] = material[q]
  PROVE  Decision(q)'
<1>1. pc[q] \in Deciding => job[q].id \in Id
  BY DEF Decision, TypeOK, Job
<1> QED
  BY <1>1 DEF Decision, RowsGoOn, Deciding, WholeMaterial, NewMaterial

LEMMA SameRows ==
  ASSUME UNCHANGED row
  PROVE  RowsGoOn
  BY DEF RowsGoOn

(* What an admin elsewhere or a machine does. *)
LEMMA ForeignStep ==
  ASSUME IInv, RowsGoOn, UNCHANGED <<caVars, pc, material, job>>,
         row' \in [Id -> Row], RowInv', LocalInv', local' \in [Machine -> Local]
  PROVE  IInv'
<1>1. CaInv'
  BY SameKeepsCa DEF IInv
<1>2. JobInv'
  BY DecisionGoesOn DEF IInv, JobInv
<1>3. TypeOK'
  BY DEF IInv, TypeOK, CaTypeOK, caVars
<1> QED
  BY <1>1, <1>2, <1>3 DEF IInv

LEMMA RemoteEnrollKeeps == IInv /\ RemoteEnroll => IInv'
<1> SUFFICES ASSUME IInv, RemoteEnroll PROVE IInv'
  OBVIOUS
<1>0. PICK i \in Id : \E csr \in {Csr(i), Tampered(i, None)} : Enrolls(i, csr)
  BY DEF RemoteEnroll
<1>1. PICK csr \in {Csr(i), Tampered(i, None)} : Enrolls(i, csr)
  BY <1>0
<1>2. csr \in Request
  BY <1>1 DEF Request, MKey
<1>3. row' \in [Id -> Row] /\ RowInv' /\ RowsGoOn
  BY <1>1, <1>2, NewRow DEF IInv, RemoteEnroll, caVars
<1>4. LocalInv' /\ local' \in [Machine -> Local]
  BY <1>3, LocalGoesOn DEF IInv, RemoteEnroll, TypeOK
<1> QED
  BY <1>3, <1>4, ForeignStep DEF RemoteEnroll

LEMMA RejectElsewhereKeeps == IInv /\ RejectElsewhere => IInv'
<1> SUFFICES ASSUME IInv, RejectElsewhere PROVE IInv'
  OBVIOUS
<1>1. row' \in [Id -> Row] /\ RowInv' /\ RowsGoOn
  BY RejectedRow DEF IInv, RejectElsewhere, Pending, caVars
<1>2. LocalInv' /\ local' \in [Machine -> Local]
  BY <1>1, LocalGoesOn DEF IInv, RejectElsewhere, TypeOK
<1> QED
  BY <1>1, <1>2, ForeignStep DEF RejectElsewhere

LEMMA LocalEnrollKeeps ==
  ASSUME IInv, NEW p \in Machine, LocalEnroll(p)
  PROVE  IInv'
<1>1. PICK i \in Id :
        /\ Enrolls(i, Csr(i))
        /\ local' = [local EXCEPT ![p] = [id |-> None, csr |-> Csr(i), ski |-> i]]
  BY DEF LocalEnroll
<1>2. Csr(i) \in Request /\ i \in MKey
  BY DEF Request, MKey
<1>3. row' \in [Id -> Row] /\ RowInv' /\ RowsGoOn
  BY <1>1, <1>2, NewRow DEF IInv, LocalEnroll, caVars
<1>4. [id |-> None, csr |-> Csr(i), ski |-> i] \in Local
  BY <1>2 DEF Local
<1>5. local' \in [Machine -> Local]
  BY <1>1, <1>4 DEF IInv, TypeOK
<1>6. ASSUME NEW q \in Machine, local'[q].id # None
      PROVE  /\ local'[q].csr \in Request
             /\ row'[local'[q].id].status # "none"
             /\ row'[local'[q].id].status = "pending" => local'[q].csr = row'[local'[q].id].csr
  <2>1. q # p /\ local'[q] = local[q]
    BY <1>1, <1>6 DEF IInv, TypeOK
  <2>2. local[q].id \in Id
    BY <1>6, <2>1 DEF IInv, TypeOK, Local
  <2> QED
    BY <1>3, <1>6, <2>1, <2>2 DEF IInv, LocalInv, RowsGoOn
<1>7. LocalInv'
  BY <1>6 DEF LocalInv
<1> QED
  BY <1>3, <1>5, <1>7, ForeignStep DEF LocalEnroll

LEMMA LocalInstantKeeps ==
  ASSUME IInv, NEW p \in Machine, LocalInstant(p)
  PROVE  IInv'
<1> DEFINE m == LoadEntityCa(p)
<1>0. p \in Admin
  BY ClerksAreAdmins
<1>1. /\ m # NoMaterial /\ registered # None /\ registered.ski = m.ski
      /\ UNCHANGED <<caVars, pc, material, job>>
  BY DEF LocalInstant
<1>2. PICK i \in Id, id \in Id \cup {None} :
        /\ id \in {i, None} /\ row[i].status = "none"
        /\ row' = [row EXCEPT ![i] =
             [status |-> "approved", csr |-> Csr(i), issued |-> Issued(Csr(i), m)]]
        /\ local' = [local EXCEPT ![p] = [id |-> id, csr |-> Csr(i), ski |-> i]]
  BY DEF LocalInstant
<1>3. m \in Material /\ m = NewMaterial(registered.ski)
  BY <1>0, <1>1, LoadedWhole DEF WholeMaterial, IInv, TypeOK, CaInv
<1>4. Csr(i) \in Request /\ i \in MKey /\ CsrVerifies(Csr(i))
  BY DEF Request, MKey, Csr, CsrVerifies
<1>5. row \in [Id -> Row] /\ local \in [Machine -> Local]
  BY DEF IInv, TypeOK
<1>6. /\ row'[i] = [status |-> "approved", csr |-> Csr(i), issued |-> Issued(Csr(i), m)]
      /\ row'[i] \in Row
  BY <1>2, <1>3, <1>4, <1>5 DEF Row
<1>7. row' \in [Id -> Row] /\ RowsGoOn
  BY <1>2, <1>5, <1>6 DEF RowsGoOn
<1>8. RowInv'
  BY <1>1, <1>2, <1>3, <1>4, <1>5, <1>6 DEF RowInv, IInv, CsrVerifies, caVars
<1>9. local'[p] = [id |-> id, csr |-> Csr(i), ski |-> i] /\ local'[p] \in Local
  BY <1>2, <1>4, <1>5 DEF Local
<1>10. local' \in [Machine -> Local]
  BY <1>2, <1>5, <1>9
<1>11. ASSUME NEW q \in Machine, local'[q].id # None
       PROVE  /\ local'[q].csr \in Request
              /\ row'[local'[q].id].status # "none"
              /\ row'[local'[q].id].status = "pending" => local'[q].csr = row'[local'[q].id].csr
  <2>1. CASE q = p
    BY <1>2, <1>4, <1>6, <1>9, <1>11, <2>1
  <2>2. CASE q # p
    <3>1. local'[q] = local[q] /\ local[q].id \in Id
      BY <1>2, <1>5, <1>11, <2>2 DEF Local
    <3> QED
      BY <1>7, <1>11, <3>1 DEF IInv, LocalInv, RowsGoOn
  <2> QED
    BY <2>1, <2>2
<1>12. LocalInv'
  BY <1>11 DEF LocalInv
<1> QED
  BY <1>1, <1>7, <1>8, <1>10, <1>12, ForeignStep

LEMMA LocalSubmittedKeeps ==
  ASSUME IInv, NEW p \in Machine, LocalSubmitted(p)
  PROVE  IInv'
<1>1. PICK i \in Pending : row[i].csr = local[p].csr /\ local' = [local EXCEPT ![p].id = i]
  BY DEF LocalSubmitted
<1>2. i \in Id /\ row[i].status = "pending" /\ row[i].csr \in Request
  BY DEF Pending, IInv, RowInv
<1>3. local \in [Machine -> Local] /\ local'[p] \in Local
  BY <1>1, <1>2 DEF IInv, TypeOK, Local
<1>4. local' \in [Machine -> Local]
  BY <1>1, <1>3
<1>5. LocalInv'
  BY <1>1, <1>2, <1>3 DEF LocalInv, IInv, LocalSubmitted, Local
<1>6. RowInv' /\ row' \in [Id -> Row]
  BY DEF LocalSubmitted, IInv, RowInv, TypeOK, caVars, CsrVerifies
<1> QED
  BY <1>4, <1>5, <1>6, SameRows, ForeignStep DEF LocalSubmitted

LEMMA LocalRenewKeeps ==
  ASSUME IInv, NEW p \in Machine, LocalRenew(p)
  PROVE  IInv'
<1>1. local \in [Machine -> Local] /\ local[p].id # None /\ row[local[p].id].status = "approved"
  BY DEF IInv, TypeOK, LocalRenew
<1>2. local[p].csr \in Request
  BY <1>1 DEF IInv, LocalInv
<1>3. /\ local' = [local EXCEPT ![p] = local'[p]] /\ local'[p] \in Local
      /\ local'[p].id = local[p].id /\ local'[p].csr \in Request
  <2>1. CASE local[p].csr = Csr(local[p].ski)
    <3>1. Csr(Renewed) \in Request
      BY DEF Request, MKey
    <3> QED
      BY <1>1, <2>1, <3>1 DEF LocalRenew, Local
  <2>2. CASE local[p].csr # Csr(local[p].ski)
    <3>1. local[p].csr.key \in MKey
      BY <1>2 DEF Request, Csr, Tampered
    <3> QED
      BY <1>1, <1>2, <2>2, <3>1 DEF LocalRenew, Local
  <2> QED
    BY <2>1, <2>2
<1>4. local' \in [Machine -> Local]
  BY <1>1, <1>3
<1>5. LocalInv'
  BY <1>1, <1>3 DEF LocalInv, IInv, LocalRenew
<1>6. RowInv' /\ row' \in [Id -> Row]
  BY DEF LocalRenew, IInv, RowInv, TypeOK, caVars, CsrVerifies
<1> QED
  BY <1>4, <1>5, <1>6, SameRows, ForeignStep DEF LocalRenew

-----------------------------------------------------------------------------
(* The admin's commands *)

LEMMA PositionTyped ==
  ASSUME NEW i
  PROVE  Position(i) \in 0 .. Cardinality(Id)
<1> DEFINE upTo == {j \in Pending : j <= i}
<1>1. IsFiniteSet(Id) /\ upTo \subseteq Id
  BY IdsAreSorted DEF Pending
<1>2. IsFiniteSet(upTo) /\ Cardinality(upTo) <= Cardinality(Id)
  BY <1>1, FS_Subset
<1>3. Cardinality(upTo) \in Nat /\ Cardinality(Id) \in Nat
  BY <1>1, <1>2, FS_CardinalityType
<1> QED
  BY <1>2, <1>3 DEF Position

(* What a command of p leaves as it was. *)
OnlyFor(p) ==
  /\ UNCHANGED <<ca, registered, local>>
  /\ \A q \in Admin \ {p} :
       pc'[q] = pc[q] /\ material'[q] = material[q] /\ mode'[q] = mode[q]
  /\ \A q \in Clerk \ {p} : job'[q] = job[q]

CommandTyped ==
  /\ pc' \in [Admin -> {"idle"} \cup Initing \cup Deciding]
  /\ mode' \in [Admin -> {"new", "again", "server"}]
  /\ material' \in [Admin -> Material \cup {NoMaterial}]
  /\ job' \in [Clerk -> Job \cup {None}]

LEMMA CommandStep ==
  ASSUME IInv, NEW p \in Clerk, OnlyFor(p), CommandTyped,
         RowsGoOn, RowInv', row' \in [Id -> Row],
         pc[p] \notin Initing, pc'[p] \in {"idle"} \cup Deciding, Decision(p)'
  PROVE  IInv'
<1>1. p \in Admin /\ CaWell
  BY ClerksAreAdmins DEF IInv, TypeOK, CaWell
<1>2. CaInv'
  BY <1>1, OthersKeepCa DEF IInv, OnlyFor
<1>3. LocalInv'
  BY LocalGoesOn DEF IInv, OnlyFor
<1>4. ASSUME NEW q \in Clerk, q # p PROVE Decision(q)'
  BY <1>4, ClerksAreAdmins, DecisionGoesOn DEF IInv, JobInv, OnlyFor
<1>5. TypeOK'
  BY DEF IInv, TypeOK, CaTypeOK, OnlyFor, CommandTyped
<1> QED
  BY <1>2, <1>3, <1>4, <1>5 DEF IInv, JobInv

(* A command that is over: whatever became of the row, nothing is meant.   *)
LEMMA EndKeeps ==
  ASSUME IInv, NEW p \in Clerk, pc[p] \in Deciding, Ends(p),
         UNCHANGED <<ca, registered, local>>, RowsGoOn, RowInv', row' \in [Id -> Row]
  PROVE  IInv'
<1> USE DEF Ends, Returns, Goto, Keeps
<1>1. p \in Admin
  BY ClerksAreAdmins
<1>2. OnlyFor(p)
  BY DEF OnlyFor, IInv, TypeOK, CaTypeOK
<1>3. CommandTyped
  BY DEF CommandTyped, IInv, TypeOK, CaTypeOK
<1>4. pc'[p] = "idle" /\ job'[p] = None
  BY <1>1 DEF IInv, TypeOK
<1>5. Decision(p)'
  BY <1>4 DEF Decision, Deciding
<1> QED
  BY <1>2, <1>3, <1>4, <1>5, CommandStep DEF Deciding, Initing

LEMMA ChooseKeeps ==
  ASSUME IInv, NEW p \in Clerk, Choose(p)
  PROVE  IInv'
<1>0. p \in Admin
  BY ClerksAreAdmins
<1>1. PICK i \in Pending, verb \in {"approve", "reject"}, yes \in BOOLEAN, byIndex \in BOOLEAN :
        /\ job' = [job EXCEPT ![p] =
             [verb |-> verb, at |-> IF byIndex THEN Position(i) ELSE 0,
              id |-> i, meant |-> i, yes |-> yes, csr |-> None, ski |-> None]]
        /\ pc' = [pc EXCEPT ![p] = IF byIndex THEN "resolve" ELSE DecideNext(verb)]
  BY DEF Choose, Goto
<1> DEFINE new == [verb |-> verb, at |-> IF byIndex THEN Position(i) ELSE 0,
                   id |-> i, meant |-> i, yes |-> yes, csr |-> None, ski |-> None]
<1>2. i \in Id /\ row[i].status = "pending"
  BY DEF Pending
<1>3. (IF byIndex THEN Position(i) ELSE 0) \in 0 .. Cardinality(Id)
  <2>1. Position(i) \in 0 .. Cardinality(Id) /\ Cardinality(Id) \in Nat
    BY PositionTyped, IdsAreSorted, FS_CardinalityType
  <2> QED
    BY <2>1
<1>4. new \in Job
  BY <1>2, <1>3 DEF Job
<1>5. /\ job'[p] = new /\ new # None
      /\ pc'[p] \in Deciding /\ pc'[p] # "send"
      /\ pc'[p] = "confirm" => verb = "reject"
  BY <1>0, <1>1, <1>4, NoneIsNoJob DEF Deciding, DecideNext, IInv, TypeOK
<1>6. Decision(p)'
  BY <1>2, <1>5 DEF Decision, Choose
<1>7. OnlyFor(p) /\ CommandTyped
  BY <1>1, <1>4, <1>5 DEF OnlyFor, CommandTyped, Choose, caVars, IInv, TypeOK, CaTypeOK, Deciding,
     DecideNext
<1>8. RowsGoOn /\ RowInv' /\ row' \in [Id -> Row]
  BY DEF Choose, RowsGoOn, IInv, RowInv, TypeOK, CsrVerifies, caVars
<1> QED
  BY <1>5, <1>6, <1>7, <1>8, CommandStep DEF Choose, Initing

LEMMA ResolveKeeps ==
  ASSUME IInv, NEW p \in Clerk, Resolve(p)
  PROVE  IInv'
<1>0. p \in Admin
  BY ClerksAreAdmins
<1>1. PICK i \in Pending : job' = [job EXCEPT ![p].id = i, ![p].at = 0]
  BY DEF Resolve
<1>2. i \in Id /\ row[i].status = "pending"
  BY DEF Pending
<1>3. job[p] \in Job
  BY DEF Resolve, IInv, JobInv, Decision, Deciding, TypeOK
<1>4. 0 \in 0 .. Cardinality(Id)
  BY PositionTyped, IdsAreSorted, FS_CardinalityType
<1>5. /\ job' = [job EXCEPT ![p] = job'[p]] /\ job'[p] \in Job
      /\ job'[p].id = i /\ job'[p].verb = job[p].verb
  BY <1>1, <1>2, <1>3, <1>4 DEF Job, IInv, TypeOK
<1>6. /\ pc' = [pc EXCEPT ![p] = DecideNext(job[p].verb)]
      /\ pc'[p] \in Deciding /\ pc'[p] # "send"
      /\ pc'[p] = "confirm" => job[p].verb # "approve"
  BY <1>0, <1>3 DEF Resolve, Goto, DecideNext, Deciding, IInv, TypeOK
<1>7. Decision(p)'
  BY <1>2, <1>5, <1>6, NoneIsNoJob DEF Decision, Resolve
<1>8. OnlyFor(p) /\ CommandTyped
  BY <1>5, <1>6 DEF OnlyFor, CommandTyped, Resolve, caVars, IInv, TypeOK, CaTypeOK
<1>9. RowsGoOn /\ RowInv' /\ row' \in [Id -> Row]
  BY DEF Resolve, RowsGoOn, IInv, RowInv, TypeOK, CsrVerifies, caVars
<1> QED
  BY <1>6, <1>7, <1>8, <1>9, CommandStep DEF Resolve, Initing

(* What is fetched for a pending row is the row's own request, wherever it *)
(* comes from.                                                             *)
LEMMA Fetched ==
  ASSUME IInv, NEW p \in Admin, NEW i \in Id, row[i].status # "none", NEW item \in Item(p, i)
  PROVE  /\ item.csr \in Request \cup {None} /\ item.ski \in MKey \cup {None}
         /\ item.csr # None /\ row[i].status = "pending" => item.csr = row[i].csr
<1> DEFINE here == LocalItem(p, i)
<1>1. /\ here.csr \in Request \cup {None} /\ here.ski \in MKey \cup {None}
      /\ here.csr # None /\ row[i].status = "pending" => here.csr = row[i].csr
  <2>1. CASE p \in Machine /\ local[p].id = i
    <3>1. here = [csr |-> local[p].csr, ski |-> local[p].ski] /\ local[p] \in Local
      BY <2>1 DEF LocalItem, IInv, TypeOK
    <3>2. i # None
      BY IdsAreSorted
    <3>3. row[i].status = "pending" => local[p].csr = row[i].csr
      BY <2>1, <3>2 DEF IInv, LocalInv
    <3> QED
      BY <3>1, <3>3 DEF Local
  <2>2. CASE ~ (p \in Machine /\ local[p].id = i)
    BY <2>2 DEF LocalItem
  <2> QED
    BY <2>1, <2>2
<1>2. row[i].csr \in Request /\ row[i].csr.key \in MKey
  <2>1. row[i].csr \in Request
    BY DEF IInv, RowInv
  <2> QED
    BY <2>1 DEF Request, Csr, Tampered
<1>3. CASE item = here
  BY <1>1, <1>3
<1>4. CASE \E c \in {row[i].csr, here.csr}, s \in {row[i].csr.key, None} : item = [csr |-> c, ski |-> s]
  BY <1>1, <1>2, <1>4
<1> QED
  BY <1>3, <1>4 DEF Item

LEMMA FetchKeeps ==
  ASSUME IInv, NEW p \in Clerk, Fetch(p)
  PROVE  IInv'
<1>0. p \in Admin
  BY ClerksAreAdmins
<1>1. job[p] \in Job /\ job[p].id \in Id /\ row[job[p].id].status # "none"
  BY DEF Fetch, IInv, JobInv, Decision, Deciding, TypeOK, Job
<1>2. PICK item \in Item(p, job[p].id) :
        job' = [job EXCEPT ![p].csr = item.csr, ![p].ski = item.ski]
  BY DEF Fetch
<1>3. /\ item.csr \in Request \cup {None} /\ item.ski \in MKey \cup {None}
      /\ item.csr # None /\ row[job[p].id].status = "pending" => item.csr = row[job[p].id].csr
  BY <1>0, <1>1, <1>2, Fetched
<1>4. /\ job' = [job EXCEPT ![p] = job'[p]] /\ job'[p] \in Job
      /\ job'[p].csr = item.csr /\ job'[p].id = job[p].id
  BY <1>1, <1>2, <1>3 DEF Job, IInv, TypeOK
<1>5. WholeMaterial(LoadEntityCa(p)) /\ LoadEntityCa(p) \in Material
  BY <1>0, LoadedWhole DEF Fetch, IInv, TypeOK, CaInv
<1>6. /\ material' = [material EXCEPT ![p] = LoadEntityCa(p)]
      /\ material'[p] = LoadEntityCa(p) /\ pc' = [pc EXCEPT ![p] = "confirm"] /\ pc'[p] = "confirm"
  BY <1>0 DEF Fetch, Keeps, Goto, IInv, TypeOK, CaTypeOK
<1>7. UNCHANGED row
  BY DEF Fetch
<1>8. WholeMaterial(material[p])'
  BY <1>5, <1>6 DEF WholeMaterial, NewMaterial
<1>9. Decision(p)'
  BY <1>1, <1>3, <1>4, <1>6, <1>7, <1>8, NoneIsNoJob DEF Decision, Deciding
<1>10. OnlyFor(p) /\ CommandTyped
  BY <1>4, <1>5, <1>6 DEF OnlyFor, CommandTyped, Fetch, caVars, IInv, TypeOK, CaTypeOK, Deciding
<1>11. RowsGoOn /\ RowInv' /\ row' \in [Id -> Row]
  BY DEF Fetch, RowsGoOn, IInv, RowInv, TypeOK, CsrVerifies, caVars
<1> QED
  BY <1>6, <1>9, <1>10, <1>11, CommandStep DEF Fetch, Initing, Deciding

LEMMA ConfirmKeeps ==
  ASSUME IInv, NEW p \in Clerk, Confirm(p)
  PROVE  IInv'
<1>0. p \in Admin
  BY ClerksAreAdmins
<1>1. pc' = [pc EXCEPT ![p] = "send"] /\ pc'[p] = "send"
  BY <1>0 DEF Confirm, Goto, IInv, TypeOK
<1>2. Decision(p)'
  BY <1>1 DEF Decision, Confirm, IInv, JobInv, Deciding, WholeMaterial, NewMaterial
<1>3. OnlyFor(p) /\ CommandTyped
  BY <1>1 DEF OnlyFor, CommandTyped, Confirm, caVars, IInv, TypeOK, CaTypeOK, Deciding
<1>4. RowsGoOn /\ RowInv' /\ row' \in [Id -> Row]
  BY DEF Confirm, RowsGoOn, IInv, RowInv, TypeOK, CsrVerifies, caVars
<1> QED
  BY <1>1, <1>2, <1>3, <1>4, CommandStep DEF Confirm, Initing, Deciding

(* The only step of the inbox that issues anything. *)
LEMMA ApproveKeeps ==
  ASSUME IInv, NEW p \in Clerk, Approve(p)
  PROVE  IInv'
<1> DEFINE i   == job[p].id
           csr == job[p].csr
<1>1. /\ pc[p] = "send" /\ job[p].verb = "approve"
      /\ csr # None /\ CsrVerifies(csr) /\ row[i].status = "pending"
      /\ registered # None /\ registered.ski = material[p].ski
      /\ row' = [row EXCEPT ![i] =
           [status |-> "approved", csr |-> @.csr, issued |-> Issued(csr, material[p])]]
      /\ UNCHANGED <<ca, registered, local>>
  BY DEF Approve
<1>2. i \in Id
  BY <1>1 DEF IInv, JobInv, Decision, Deciding, TypeOK, Job
<1>3. csr = row[i].csr /\ WholeMaterial(material[p]) /\ csr \in Request
  BY <1>1, <1>2 DEF IInv, JobInv, Decision, RowInv
<1>4. material[p] = NewMaterial(registered.ski) /\ material[p] \in Material
  BY <1>1, <1>3, NewMaterialWhole DEF WholeMaterial
<1>5. row \in [Id -> Row]
  BY DEF IInv, TypeOK
<1>6. row'[i] = [status |-> "approved", csr |-> csr, issued |-> Issued(csr, material[p])]
  BY <1>1, <1>2, <1>3, <1>5
<1>7. row'[i] \in Row /\ row'[i].status = "approved" /\ row'[i].csr = csr
      /\ row'[i].issued = Issued(csr, NewMaterial(registered.ski))
  BY <1>3, <1>4, <1>6 DEF Row
<1>8. row' \in [Id -> Row] /\ RowsGoOn
  BY <1>1, <1>5, <1>7 DEF RowsGoOn
<1>9. RowInv'
  BY <1>1, <1>2, <1>3, <1>5, <1>7 DEF RowInv, IInv, CsrVerifies
<1> QED
  BY <1>1, <1>8, <1>9, EndKeeps DEF Approve, Deciding

LEMMA RejectKeeps ==
  ASSUME IInv, NEW p \in Clerk, Reject(p)
  PROVE  IInv'
<1>1. job[p].id \in Id
  BY DEF Reject, IInv, JobInv, Decision, Deciding, TypeOK, Job
<1>2. row' \in [Id -> Row] /\ RowInv' /\ RowsGoOn
  BY <1>1, RejectedRow DEF IInv, Reject
<1> QED
  BY <1>2, EndKeeps DEF Reject, Deciding

LEMMA JobFailsKeeps ==
  ASSUME IInv, NEW p \in Clerk, JobFails(p)
  PROVE  IInv'
<1>1. RowsGoOn /\ RowInv' /\ row' \in [Id -> Row]
  BY DEF JobFails, RowsGoOn, IInv, RowInv, TypeOK, CsrVerifies
<1> QED
  BY <1>1, EndKeeps DEF JobFails

-----------------------------------------------------------------------------
(* The invariant *)

LEMMA InvariantInit == Init => IInv
<1> SUFFICES ASSUME Init PROVE IInv
  OBVIOUS
<1>1. TypeOK
  <2>1. NoRow \in Row
    BY DEF NoRow, Row
  <2>2. [id |-> None, csr |-> None, ski |-> None] \in Local
    BY DEF Local
  <2>3. [key |-> None, cert |-> None, meta |-> None] \in Files
    BY DEF Files
  <2> QED
    BY <2>1, <2>2, <2>3 DEF Init, CaInit, TypeOK, CaTypeOK
<1>2. CaInv
  BY DEF Init, CaInit, CaInv, Progress, SavingCa, RegisteredKeyKept
<1>3. RowInv
  BY DEF Init, RowInv, NoRow
<1>4. LocalInv
  BY DEF Init, LocalInv
<1>5. JobInv
  BY ClerksAreAdmins DEF Init, CaInit, JobInv, Decision, Deciding
<1> QED
  BY <1>1, <1>2, <1>3, <1>4, <1>5 DEF IInv

LEMMA InvariantStep == IInv /\ [Next]_vars => IInv'
<1> SUFFICES ASSUME IInv, [Next]_vars PROVE IInv'
  OBVIOUS
<1>1. ASSUME NEW p \in Clerk, Decide(p) PROVE IInv'
  BY <1>1, ChooseKeeps, ResolveKeeps, FetchKeeps, ConfirmKeeps, ApproveKeeps, RejectKeeps,
     JobFailsKeeps DEF Decide
<1>2. ASSUME NEW p \in Machine,
             LocalEnroll(p) \/ LocalInstant(p) \/ LocalSubmitted(p) \/ LocalRenew(p)
      PROVE  IInv'
  BY <1>2, LocalEnrollKeeps, LocalInstantKeeps, LocalSubmittedKeeps, LocalRenewKeeps
<1>3. CASE UNCHANGED vars
  <2>1. RowsGoOn /\ RowInv' /\ LocalInv' /\ row' \in [Id -> Row] /\ local' \in [Machine -> Local]
    BY <1>3 DEF vars, caVars, RowsGoOn, RowInv, LocalInv, IInv, TypeOK, CsrVerifies
  <2> QED
    BY <1>3, <2>1, ForeignStep DEF vars
<1> QED
  BY <1>1, <1>2, <1>3, RemoteEnrollKeeps, RejectElsewhereKeeps, InitKeepsInbox DEF Next

(* The invariant behind everything below. *)
THEOREM InvariantHolds == Spec => []IInv
<1> QED
  BY InvariantInit, InvariantStep, PTL DEF Spec

(* TypeOK, for any admins, CAs, enrollments and machines. *)
THEOREM InboxTyped == Spec => []TypeOK
<1>1. IInv => TypeOK
  BY DEF IInv
<1> QED
  BY <1>1, InvariantHolds, PTL

-----------------------------------------------------------------------------
(* What follows from it *)

(* RegisteredKeyKept: the private key of the registered CA is never lost.  *)
THEOREM RegisteredKeyKeptAlways == Spec => []RegisteredKeyKept
<1>1. IInv => RegisteredKeyKept
  BY DEF IInv, CaInv
<1> QED
  BY <1>1, InvariantHolds, PTL

(* MetadataComplete: entity-ca.json is never there without the rest.       *)
THEOREM MetadataCompleteAlways == Spec => []MetadataComplete
<1>1. IInv => MetadataComplete
  BY DEF IInv, CaInv, Progress, MetadataComplete, Whole
<1> QED
  BY <1>1, InvariantHolds, PTL

(* KickstartedIsOurs: a reported kickstart is that of the CA on disk.      *)
THEOREM KickstartedIsOursAlways == Spec => []KickstartedIsOurs
<1>1. IInv => KickstartedIsOurs
  <2> SUFFICES ASSUME IInv, NEW p \in Admin, pc[p] = "kickstarted"
               PROVE  registered # None /\ LoadEntityCa(p) = NewMaterial(registered.ski)
    BY DEF KickstartedIsOurs
  <2>1. /\ registered # None /\ registered.ski = material[p].ski
        /\ material[p].ski \in Ca /\ ca[p] = Whole(material[p].ski)
    BY DEF IInv, CaInv, Progress
  <2> QED
    BY <2>1, SavedWhole
<1> QED
  BY <1>1, InvariantHolds, PTL

LEMMA WhatIsIssued ==
  ASSUME NEW csr, NEW c
  PROVE  LET issued == Issued(csr, NewMaterial(c))
         IN /\ issued.leaf = [key |-> csr.key, ski |-> csr.key, signer |-> c]
            /\ issued.chain = [key |-> c, ski |-> c, signer |-> c]
            /\ issued.signature = Jws(c, MachineCredential(csr.key, c))
<1>1. NewMaterial(c).ski = c /\ NewMaterial(c).cert = SelfSigned(c)
  BY DEF NewMaterial
<1> QED
  BY <1>1 DEF Issued, Leaf, SelfSigned

LEMMA IssuedInRow ==
  ASSUME IInv, NEW i \in Id, row[i].status = "approved"
  PROVE  LET issued == row[i].issued
             k      == row[i].csr.key
             c      == registered.ski
         IN /\ CsrVerifies(row[i].csr)
            /\ issued.leaf = [key |-> k, ski |-> k, signer |-> c]
            /\ issued.chain = [key |-> c, ski |-> c, signer |-> c]
            /\ issued.signature = Jws(c, MachineCredential(k, c))
<1> DEFINE issued == row[i].issued
           k      == row[i].csr.key
           c      == registered.ski
<1>1. CsrVerifies(row[i].csr) /\ issued = Issued(row[i].csr, NewMaterial(c))
  BY DEF IInv, RowInv
<1>2. /\ issued.leaf = [key |-> k, ski |-> k, signer |-> c]
      /\ issued.chain = [key |-> c, ski |-> c, signer |-> c]
      /\ issued.signature = Jws(c, MachineCredential(k, c))
  BY <1>1, WhatIsIssued
<1> QED
  BY <1>1, <1>2

(* ApprovedKeyEnrolled: certificates are for the key that enrolled.        *)
THEOREM ApprovedKeyEnrolledAlways == Spec => []ApprovedKeyEnrolled
<1>1. IInv => ApprovedKeyEnrolled
  <2> SUFFICES ASSUME IInv, NEW i \in Id, row[i].status = "approved"
               PROVE  row[i].issued.leaf.key = row[i].csr.key
    BY DEF ApprovedKeyEnrolled
  <2> DEFINE issued == row[i].issued
             k      == row[i].csr.key
             c      == registered.ski
  <2>1. /\ CsrVerifies(row[i].csr)
        /\ issued.leaf = [key |-> k, ski |-> k, signer |-> c]
        /\ issued.chain = [key |-> c, ski |-> c, signer |-> c]
        /\ issued.signature = Jws(c, MachineCredential(k, c))
    BY IssuedInRow
  <2> QED
    BY <2>1
<1> QED
  BY <1>1, InvariantHolds, PTL

(* ApprovedVerifies: what is issued verifies wherever it is checked.       *)
THEOREM ApprovedVerifiesAlways == Spec => []ApprovedVerifies
<1>1. IInv => ApprovedVerifies
  <2> SUFFICES ASSUME IInv, NEW i \in Id, row[i].status = "approved"
               PROVE  LET issued == row[i].issued
                      IN /\ CsrVerifies(row[i].csr)
                         /\ issued.leaf.ski = issued.leaf.key
                         /\ VerifiesAgainst(issued.leaf, issued.chain)
                         /\ issued.chain = SelfSigned(registered.ski)
                         /\ JwsVerifies(registered.ski, issued.signature,
                              MachineCredential(issued.leaf.key, registered.ski))
    BY DEF ApprovedVerifies
  <2> DEFINE issued == row[i].issued
             k      == row[i].csr.key
             c      == registered.ski
  <2>1. /\ CsrVerifies(row[i].csr)
        /\ issued.leaf = [key |-> k, ski |-> k, signer |-> c]
        /\ issued.chain = [key |-> c, ski |-> c, signer |-> c]
        /\ issued.signature = Jws(c, MachineCredential(k, c))
    BY IssuedInRow
  <2>2. /\ issued.leaf.key = k /\ issued.leaf.ski = k /\ issued.leaf.signer = c
        /\ issued.chain.key = c /\ issued.chain = SelfSigned(c)
    BY <2>1 DEF SelfSigned
  <2>3. VerifiesAgainst(issued.leaf, issued.chain)
    BY <2>2 DEF VerifiesAgainst
  <2>4. JwsVerifies(c, issued.signature, MachineCredential(issued.leaf.key, c))
    BY <2>1, <2>2 DEF JwsVerifies, Jws
  <2> QED
    BY <2>1, <2>2, <2>3, <2>4
<1> QED
  BY <1>1, InvariantHolds, PTL

(* The action of ConfirmedIsMeant. *)
MeantStep ==
  \A p \in Clerk, i \in Id :
    pc[p] = "send" /\ pc'[p] = "idle" /\ row'[i] # row[i] => job[p].yes \/ job[p].meant = i

LEMMA MeantIsKept == IInv /\ [Next]_vars => MeantStep
<1> SUFFICES ASSUME IInv, [Next]_vars, NEW p \in Clerk, NEW i \in Id,
                    pc[p] = "send", pc'[p] = "idle", row'[i] # row[i]
             PROVE  job[p].yes \/ job[p].meant = i
  BY DEF MeantStep
<1>1. (job[p].yes \/ job[p].id = job[p].meant) /\ p \in Admin
  BY ClerksAreAdmins DEF IInv, JobInv, Decision
<1>2. row' # row /\ pc' # pc
  OBVIOUS
<1>3. ~ RemoteEnroll /\ ~ RejectElsewhere /\ ~ UNCHANGED vars
  BY <1>2 DEF RemoteEnroll, RejectElsewhere, vars
<1>4. ASSUME NEW q \in Admin PROVE ~ InitStep(q)
  BY <1>2 DEF InitStep, inboxVars
<1>5. ASSUME NEW q \in Machine PROVE ~ (LocalEnroll(q) \/ LocalInstant(q) \/ LocalSubmitted(q) \/ LocalRenew(q))
  BY <1>2 DEF LocalEnroll, LocalInstant, LocalSubmitted, LocalRenew
<1>6. PICK q \in Clerk : Decide(q)
  BY <1>3, <1>4, <1>5 DEF Next
<1>7. Approve(q) \/ Reject(q)
  BY <1>2, <1>6 DEF Decide, Choose, Resolve, Fetch, Confirm, JobFails
<1>8. q = p
  BY <1>7, ClerksAreAdmins DEF Approve, Reject, Ends, Returns, Goto, IInv, TypeOK
<1>9. job[p].id = i
  BY <1>7, <1>8 DEF Approve, Reject, IInv, TypeOK
<1> QED
  BY <1>1, <1>9

(* ConfirmedIsMeant: without --yes only the row that was meant is decided. *)
THEOREM ConfirmedIsMeantAlways == Spec => ConfirmedIsMeant
<1>1. Spec => [][MeantStep]_vars
  BY InvariantHolds, MeantIsKept, PTL DEF Spec
<1> QED
  BY <1>1 DEF ConfirmedIsMeant, MeantStep

-----------------------------------------------------------------------------
(* Custody: whose each CA is *)

(* The CAs an admin has, on disk or in memory. *)
Holds(p) == {material[p].ski, ca[p].meta} \ {None}

(* No two admins have the same CA, and the registered one is its founder's. *)
Owned ==
  /\ \A p, q \in Admin : p # q => Holds(p) \cap Holds(q) = {}
  /\ registered # None => \A p \in Admin : registered.ski \in Holds(p) => p = registered.by

(* The CA an admin is about to sign with is the one in the directory. *)
AtHand(p) ==
  pc[p] \in {"confirm", "send"} /\ job[p].verb = "approve" => ca[p] = Whole(material[p].ski)

CustodyInv == Owned /\ \A p \in Clerk : AtHand(p)

(* An admin comes by a CA only as a new key pair, and only what an admin   *)
(* has is registered.                                                      *)
LEMMA OwnedGoesOn ==
  ASSUME Owned, NEW p \in Admin,
         \A q \in Admin \ {p} : material'[q] = material[q] /\ ca'[q] = ca[q],
         Holds(p)' \subseteq Holds(p) \cup Fresh,
         \/ registered' = registered
         \/ registered'.by = p /\ registered'.ski \in Holds(p)'
  PROVE  Owned'
<1>1. \A q \in Admin : q # p => Holds(q)' = Holds(q)
  BY DEF Holds
<1>2. ASSUME NEW c \in Fresh, NEW q \in Admin
      PROVE  c \notin Holds(q) /\ (registered # None => registered.ski # c)
  BY <1>2 DEF Fresh, Holds
<1>3. ASSUME NEW q \in Admin, q # p PROVE Holds(p)' \cap Holds(q)' = {}
  BY <1>1, <1>2, <1>3 DEF Owned
<1>4. ASSUME NEW q \in Admin, NEW r \in Admin, q # r PROVE Holds(q)' \cap Holds(r)' = {}
  BY <1>1, <1>3, <1>4 DEF Owned
<1>5. ASSUME registered' # None, NEW q \in Admin, registered'.ski \in Holds(q)'
      PROVE  q = registered'.by
  <2>1. CASE registered' = registered
    BY <1>1, <1>2, <1>5, <2>1 DEF Owned
  <2>2. CASE registered'.by = p /\ registered'.ski \in Holds(p)'
    BY <1>3, <1>5, <2>2
  <2> QED
    BY <2>1, <2>2
<1> QED
  BY <1>4, <1>5 DEF Owned

LEMMA InitKeepsOwned ==
  ASSUME IInv, Owned, NEW p \in Admin, InitCommand(p)
  PROVE  Owned'
<1>1. CaWell /\ Progress(p)
  BY DEF IInv, TypeOK, CaInv, CaWell
<1>2. Apart(p)
  BY <1>1, InitTypes
<1>3. \A q \in Admin \ {p} : material'[q] = material[q] /\ ca'[q] = ca[q]
  BY <1>2 DEF Apart
<1> USE DEF Keeps, Begins, Saves
<1>4. ca[p] \in Files /\ ca \in [Admin -> Files] /\ material \in [Admin -> Material \cup {NoMaterial}]
  BY <1>1 DEF CaWell, CaTypeOK
<1>5. /\ Holds(p)' \subseteq Holds(p) \cup Fresh
      /\ \/ registered' = registered
         \/ registered'.by = p /\ registered'.ski \in Holds(p)'
  <2>1. CASE InitAgain(p)
    BY <1>4, <2>1 DEF InitAgain, Holds, LoadEntityCa, NoMaterial
  <2>2. CASE InitNew(p)
    BY <1>4, <2>2 DEF InitNew, Holds, NewMaterial
  <2>3. CASE InitServerKeys(p) \/ Kickstart(p) \/ Conflict(p)
    <3>1. ca' = ca /\ material' = material
      BY <2>3 DEF InitServerKeys, Kickstart, Conflict
    <3>2. CASE registered' = registered
      BY <3>1, <3>2 DEF Holds
    <3>3. CASE registered' # registered
      <4>1. Kickstart(p) /\ registered' = [ski |-> material[p].ski, by |-> p, ours |-> TRUE]
        BY <2>3, <3>3 DEF InitServerKeys, Kickstart, Conflict
      <4>2. material[p].ski \in Ca
        BY <1>1, <4>1 DEF Kickstart, Progress
      <4> QED
        BY <3>1, <4>1, <4>2, NoneIsNoCa DEF Holds
    <3> QED
      BY <3>2, <3>3
  <2>4. CASE KickstartServerKeys(p)
    <3>1. PICK c \in Fresh :
            /\ material' = [material EXCEPT ![p] = NewMaterial(c)]
            /\ registered' = [ski |-> c, by |-> p, ours |-> FALSE]
      BY <2>4 DEF KickstartServerKeys
    <3>2. material'[p].ski = c /\ ca' = ca /\ c # None
      BY <1>4, <2>4, <3>1, NoneIsNoCa DEF KickstartServerKeys, NewMaterial, Fresh
    <3> QED
      BY <3>1, <3>2 DEF Holds
  <2>5. CASE SaveKey(p) \/ SaveCert(p)
    BY <1>4, <2>5 DEF SaveKey, SaveCert, Holds, Files
  <2>6. CASE SaveMeta(p)
    BY <1>4, <2>6 DEF SaveMeta, Holds, Files
  <2>7. CASE InitReports(p) \/ InitFails(p)
    BY <1>4, <2>7 DEF InitReports, InitFails, Returns, Holds, NoMaterial
  <2> QED
    BY <2>1, <2>2, <2>3, <2>4, <2>5, <2>6, <2>7 DEF InitCommand, InitStarts, InitGoesOn
<1> QED
  BY <1>3, <1>5, OwnedGoesOn

LEMMA DecideKeepsOwned ==
  ASSUME IInv, Owned, NEW p \in Clerk, Decide(p)
  PROVE  Owned' /\ UNCHANGED <<ca, registered>>
<1>0. p \in Admin
  BY ClerksAreAdmins
<1>1. material \in [Admin -> Material \cup {NoMaterial}]
  BY DEF IInv, TypeOK, CaTypeOK
<1>2. /\ UNCHANGED <<ca, registered>>
      /\ \/ material' = material
         \/ material' = [material EXCEPT ![p] = LoadEntityCa(p)] /\ LoadEntityCa(p) # NoMaterial
         \/ material' = [material EXCEPT ![p] = NoMaterial]
  BY DEF Decide, Choose, Resolve, Fetch, Confirm, Approve, Reject, JobFails, Ends, Returns, Keeps,
     caVars
<1>3. Holds(p)' \subseteq Holds(p) /\ \A q \in Admin \ {p} : material'[q] = material[q]
  BY <1>0, <1>1, <1>2 DEF Holds, LoadEntityCa, NoMaterial
<1> QED
  BY <1>0, <1>2, <1>3, OwnedGoesOn

LEMMA CustodyInit == Init => CustodyInv
BY ClerksAreAdmins DEF Init, CaInit, CustodyInv, Owned, Holds, AtHand, NoMaterial

LEMMA CustodyStep == IInv /\ CustodyInv /\ [Next]_vars => CustodyInv'
<1> SUFFICES ASSUME IInv, CustodyInv, [Next]_vars PROVE CustodyInv'
  OBVIOUS
<1> USE ClerksAreAdmins
<1>1. ASSUME NEW p \in Admin, InitStep(p) PROVE CustodyInv'
  <2>1. CaWell /\ Progress(p) /\ InitCommand(p) /\ job' = job
    BY <1>1 DEF IInv, TypeOK, CaWell, CaInv, InitStep, inboxVars
  <2>2. Apart(p) /\ pc'[p] \notin Deciding
    BY <2>1, InitTypes
  <2>3. \A q \in Clerk : AtHand(q)'
    BY <2>1, <2>2 DEF CustodyInv, AtHand, Apart, Deciding, Whole
  <2> QED
    BY <2>1, <2>3, InitKeepsOwned DEF CustodyInv
<1>2. ASSUME NEW p \in Clerk, Decide(p) PROVE CustodyInv'
  <2>1. Owned' /\ ca' = ca
    BY <1>2, DecideKeepsOwned DEF CustodyInv
  <2>2. ASSUME NEW q \in Clerk, q # p PROVE AtHand(q)'
    <3>1. pc'[q] = pc[q] /\ material'[q] = material[q] /\ job'[q] = job[q]
      BY <1>2, <2>2 DEF Decide, Choose, Resolve, Fetch, Confirm, Approve, Reject, JobFails, Ends,
         Returns, Keeps, Goto, IInv, TypeOK, CaTypeOK
    <3> QED
      BY <2>1, <3>1 DEF CustodyInv, AtHand, Whole
  <2>3. AtHand(p)'
    <3>1. CASE Fetch(p)
      <4>1. CaWell /\ Progress(p)
        BY DEF IInv, TypeOK, CaInv, CaWell
      <4>2. ca[p] = Whole(LoadEntityCa(p).ski) /\ material'[p] = LoadEntityCa(p)
        BY <3>1, <4>1, LoadedWhole DEF Fetch, Keeps, CaWell, CaTypeOK
      <4> QED
        BY <2>1, <4>2 DEF AtHand, Whole
    <3>2. CASE Confirm(p)
      BY <2>1, <3>2 DEF Confirm, CustodyInv, AtHand, Whole
    <3>3. CASE Choose(p)
      <4>1. PICK verb \in {"approve", "reject"}, byIndex \in BOOLEAN :
              job'[p].verb = verb /\ pc'[p] = IF byIndex THEN "resolve" ELSE DecideNext(verb)
        BY <3>3 DEF Choose, Goto, IInv, TypeOK
      <4> QED
        BY <4>1 DEF AtHand, DecideNext
    <3>4. CASE Resolve(p)
      <4>1. job[p] \in Job
        BY <3>4 DEF Resolve, IInv, JobInv, Decision, Deciding, TypeOK
      <4>2. job'[p].verb = job[p].verb /\ pc'[p] = DecideNext(job[p].verb)
        BY <3>4, <4>1 DEF Resolve, Goto, IInv, TypeOK, Job
      <4> QED
        BY <4>2 DEF AtHand, DecideNext
    <3>5. CASE Approve(p) \/ Reject(p) \/ JobFails(p)
      <4>1. pc'[p] = "idle"
        BY <3>5 DEF Approve, Reject, JobFails, Ends, Returns, Goto, IInv, TypeOK
      <4> QED
        BY <4>1 DEF AtHand
    <3> QED
      BY <1>2, <3>1, <3>2, <3>3, <3>4, <3>5 DEF Decide
  <2> QED
    BY <2>1, <2>2, <2>3 DEF CustodyInv
<1>3. CASE UNCHANGED <<caVars, pc, material, job>>
  BY <1>3 DEF CustodyInv, Owned, Holds, AtHand, caVars, Whole
<1> QED
  BY <1>1, <1>2, <1>3 DEF Next, vars, RemoteEnroll, RejectElsewhere, LocalEnroll, LocalInstant,
     LocalSubmitted, LocalRenew

-----------------------------------------------------------------------------
(* The refinement of Authority *)

(* What a command would load is what entity-ca.json says. *)
LEMMA KeptIsMeta ==
  ASSUME IInv, NEW p \in Admin
  PROVE  LoadEntityCa(p).ski = ca[p].meta
<1>1. ca[p] \in Files /\ (ca[p].meta # None => ca[p] = Whole(ca[p].meta))
  BY DEF IInv, TypeOK, CaTypeOK, CaInv, Progress
<1>2. CASE ca[p].meta = None
  BY <1>2 DEF LoadEntityCa, NoMaterial
<1>3. CASE ca[p].meta # None
  <2>1. ca[p].meta \in Ca /\ LoadEntityCa(p) = NewMaterial(ca[p].meta)
    BY <1>1, <1>3, SavedWhole DEF Files
  <2> QED
    BY <2>1 DEF NewMaterial
<1> QED
  BY <1>2, <1>3

Kept == [p \in Admin |-> LoadEntityCa(p).ski]

Founded == IF registered = None THEN None ELSE registered.ski

Founder == IF registered = None THEN None ELSE registered.by

Statuses == [i \in Id |-> row[i].status]

Asked ==
  [i \in Id |-> IF row[i].status = "none" THEN None
                ELSE [key |-> row[i].csr.key, own |-> CsrVerifies(row[i].csr)]]

Certificates ==
  [i \in Id |-> IF row[i].status # "approved" THEN None
                ELSE [key |-> row[i].issued.leaf.key, by |-> row[i].issued.leaf.signer]]

Metas == [p \in Admin |-> ca[p].meta]

LEMMA KeptAreMetas == IInv => Kept = Metas
BY KeptIsMeta DEF Kept, Metas

LEMMA KeptStays ==
  ASSUME UNCHANGED <<ca, registered>>
  PROVE  Kept' = Kept /\ Founded' = Founded /\ Founder' = Founder
BY DEF Kept, Founded, Founder, LoadEntityCa

LEMMA RowsStay ==
  ASSUME UNCHANGED row
  PROVE  Statuses' = Statuses /\ Asked' = Asked /\ Certificates' = Certificates
BY DEF Statuses, Asked, Certificates, CsrVerifies

(* What a row becomes is all that changes. *)
LEMMA RowBecomes ==
  ASSUME row \in [Id -> Row], NEW i \in Id, NEW r \in Row, row' = [row EXCEPT ![i] = r]
  PROVE  /\ Statuses' = [Statuses EXCEPT ![i] = r.status]
         /\ Asked' = [Asked EXCEPT ![i] =
              IF r.status = "none" THEN None ELSE [key |-> r.csr.key, own |-> CsrVerifies(r.csr)]]
         /\ Certificates' = [Certificates EXCEPT ![i] =
              IF r.status # "approved" THEN None
              ELSE [key |-> r.issued.leaf.key, by |-> r.issued.leaf.signer]]
<1>1. row'[i] = r /\ \A j \in Id \ {i} : row'[j] = row[j]
  OBVIOUS
<1>2. Statuses' = [Statuses EXCEPT ![i] = r.status]
  BY <1>1 DEF Statuses
<1>3. Asked' = [Asked EXCEPT ![i] =
         IF r.status = "none" THEN None ELSE [key |-> r.csr.key, own |-> CsrVerifies(r.csr)]]
  BY <1>1 DEF Asked, CsrVerifies
<1>4. Certificates' = [Certificates EXCEPT ![i] =
         IF r.status # "approved" THEN None
         ELSE [key |-> r.issued.leaf.key, by |-> r.issued.leaf.signer]]
  BY <1>1 DEF Certificates
<1> QED
  BY <1>2, <1>3, <1>4

(* The steps of an init: the CA is kept when entity-ca.json is written, and *)
(* the organisation is founded at the server.                              *)
LEMMA InitRefines ==
  ASSUME IInv, IInv', CustodyInv, NEW p \in Admin, InitStep(p)
  PROVE  [Organisation!Next]_(Organisation!authorityVars)
<1>1. CaWell /\ Progress(p) /\ InitCommand(p) /\ UNCHANGED row
  BY DEF IInv, TypeOK, CaWell, CaInv, InitStep, inboxVars
<1>2. Apart(p) /\ Statuses' = Statuses /\ Asked' = Asked /\ Certificates' = Certificates
  BY <1>1, InitTypes, RowsStay
<1>3. /\ Kept = [q \in Admin |-> ca[q].meta] /\ Kept' = [q \in Admin |-> ca'[q].meta]
      /\ ca \in [Admin -> Files] /\ ca' \in [Admin -> Files]
  <2>1. Kept = Metas /\ (Kept = Metas)'
    BY KeptAreMetas, PTL
  <2> QED
    BY <2>1 DEF Metas, IInv, TypeOK, CaTypeOK
<1>4. CASE SaveMeta(p)
  <2> DEFINE c == material[p].ski
  <2>1. c \in Ca /\ c # None /\ ca[p].meta = None /\ UNCHANGED registered
    BY <1>1, <1>4, NoneIsNoCa DEF SaveMeta, Saves, Progress, SavingCa, WholeMaterial
  <2>2. ca'[p].meta = c /\ \A q \in Admin \ {p} : ca'[q] = ca[q]
    BY <1>3, <1>4 DEF SaveMeta, Saves, Files
  <2>3. /\ Kept[p] = None /\ Kept' = [Kept EXCEPT ![p] = c]
        /\ Founded' = Founded /\ Founder' = Founder
    BY <1>3, <2>1, <2>2 DEF Founded, Founder
  <2>4. \A q \in Admin \ {p} : Kept[q] # c
    BY <1>3, <2>1 DEF CustodyInv, Owned, Holds
  <2>5. Founded = c => Founder = p
    BY <2>1 DEF Founded, Founder, CustodyInv, Owned, Holds
  <2>6. Organisation!Keep(p)
    BY <1>2, <2>1, <2>3, <2>4, <2>5
       DEF Organisation!Keep, Organisation!KeptByOthers, Kept, Founded, Founder, Statuses, Asked, Certificates
  <2> QED
    BY <2>6 DEF Organisation!Next
<1>5. CASE registered' # registered
  <2>1. Kickstart(p) \/ KickstartServerKeys(p)
    BY <1>1, <1>5 DEF InitCommand, InitStarts, InitGoesOn, InitAgain, InitNew, InitServerKeys,
       Begins, SaveKey, SaveCert, SaveMeta, Saves, Conflict, InitReports, InitFails
  <2>2. registered = None /\ ca' = ca /\ registered' \in Registration /\ registered'.by = p
    BY <1>2, <1>5, <2>1 DEF Kickstart, KickstartServerKeys, Apart, IInv, TypeOK, CaTypeOK
  <2>3. registered'.ski \in Ca /\ registered' # None
    BY <2>2, NoneIsNoRegistration DEF Registration
  <2>4. \A q \in Admin \ {p} : ca[q].meta # registered'.ski
    <3>1. CASE Kickstart(p)
      <4>1. registered'.ski = material[p].ski
        BY <1>5, <3>1 DEF Kickstart
      <4> QED
        BY <2>3, <4>1, NoneIsNoCa DEF CustodyInv, Owned, Holds
    <3>2. CASE KickstartServerKeys(p)
      BY <3>2 DEF KickstartServerKeys, Fresh
    <3> QED
      BY <2>1, <3>1, <3>2
  <2>5. Founded = None /\ Founded' = registered'.ski /\ Founder' = p /\ Kept' = Kept
    BY <1>3, <2>2, <2>3 DEF Founded, Founder
  <2>6. Organisation!Found(p)
    BY <1>2, <1>3, <2>3, <2>4, <2>5
       DEF Organisation!Found, Organisation!KeptByOthers, Kept, Founded, Founder, Statuses, Asked, Certificates
  <2> QED
    BY <2>6 DEF Organisation!Next
<1>6. CASE ~ SaveMeta(p) /\ registered' = registered
  <2>1. ca'[p].meta = ca[p].meta
    BY <1>1, <1>3, <1>6 DEF InitCommand, InitStarts, InitGoesOn, InitAgain, InitNew, InitServerKeys,
       Begins, SaveKey, SaveCert, Saves, Kickstart, KickstartServerKeys, Conflict, InitReports,
       InitFails, Files
  <2>2. Kept' = Kept /\ Founded' = Founded /\ Founder' = Founder
    BY <1>2, <1>3, <1>6, <2>1 DEF Apart, Founded, Founder
  <2> QED
    BY <1>2, <2>2 DEF Organisation!authorityVars, Kept, Founded, Founder, Statuses, Asked, Certificates
<1> QED
  BY <1>4, <1>5, <1>6

(* An enrollment, of a machine elsewhere or of this one. *)
LEMMA EnrollRefines ==
  ASSUME IInv, NEW i \in Id, NEW csr \in Request, Enrolls(i, csr), UNCHANGED <<ca, registered>>
  PROVE  Organisation!Enroll(i)
<1> DEFINE r == [status |-> "pending", csr |-> csr, issued |-> None]
<1>1. row[i].status = "none" /\ row' = [row EXCEPT ![i] = r] /\ r \in Row /\ row \in [Id -> Row]
  BY DEF Enrolls, Row, IInv, TypeOK
<1>2. csr.key \in MKey /\ CsrVerifies(csr) \in BOOLEAN
  BY DEF Request, Csr, Tampered, CsrVerifies
<1>3. /\ Statuses[i] = "none" /\ Statuses' = [Statuses EXCEPT ![i] = "pending"]
      /\ Asked' = [Asked EXCEPT ![i] = [key |-> csr.key, own |-> CsrVerifies(csr)]]
      /\ Certificates' = [Certificates EXCEPT ![i] = None] /\ Certificates[i] = None
  BY <1>1, RowBecomes, ZenonT(60) DEF Statuses, Certificates
<1>4. Certificates' = Certificates
  BY <1>3 DEF Certificates
<1>5. Kept' = Kept /\ Founded' = Founded /\ Founder' = Founder
  BY KeptStays
<1> QED
  BY <1>2, <1>3, <1>4, <1>5
     DEF Organisation!Enroll, Organisation!Becomes, Organisation!Asks, Organisation!caVars,
         Kept, Founded, Founder, Statuses, Asked, Certificates

LEMMA RejectRefines ==
  ASSUME IInv, NEW i \in Id, row[i].status = "pending", UNCHANGED <<ca, registered>>,
         row' = [row EXCEPT ![i] = [@ EXCEPT !.status = "rejected"]]
  PROVE  Organisation!Reject(i)
<1> DEFINE r == [row[i] EXCEPT !.status = "rejected"]
<1>1. /\ row \in [Id -> Row] /\ r \in Row /\ row' = [row EXCEPT ![i] = r]
      /\ r.status = "rejected" /\ r.csr = row[i].csr
  BY DEF IInv, TypeOK, Row
<1>2. /\ Statuses[i] = "pending" /\ Statuses' = [Statuses EXCEPT ![i] = "rejected"]
      /\ Asked' = [Asked EXCEPT ![i] = [key |-> row[i].csr.key, own |-> CsrVerifies(row[i].csr)]]
      /\ Certificates' = [Certificates EXCEPT ![i] = None] /\ Certificates[i] = None
  BY <1>1, RowBecomes, ZenonT(60) DEF Statuses, Certificates
<1>3. Asked' = Asked /\ Certificates' = Certificates
  BY <1>2 DEF Asked, Certificates
<1>4. Kept' = Kept /\ Founded' = Founded /\ Founder' = Founder
  BY KeptStays
<1> QED
  BY <1>2, <1>3, <1>4
     DEF Organisation!Reject, Organisation!Becomes, Organisation!caVars,
         Kept, Founded, Founder, Statuses, Asked, Certificates

(* Whoever signs with the registered CA is its founder and keeps it. *)
LEMMA FounderSigns ==
  ASSUME IInv, CustodyInv, NEW p \in Admin, registered # None, ca[p] = Whole(registered.ski)
  PROVE  Founded # None /\ Founded = registered.ski /\ Kept[Founder] = Founded
<1>1. registered.ski \in Ca
  BY DEF IInv, TypeOK, CaTypeOK, Registration
<1>2. ca[p].meta = registered.ski /\ registered.ski # None
  BY <1>1, WholeIsFiles
<1>3. registered.by = p
  BY <1>2 DEF CustodyInv, Owned, Holds
<1> QED
  BY <1>2, <1>3, KeptIsMeta DEF Founded, Founder, Kept

LEMMA ApproveRefines ==
  ASSUME IInv, CustodyInv, NEW p \in Clerk, Approve(p)
  PROVE  \E i \in Id : Organisation!Certify(i)
<1>2. PICK i \in Id, csr \in Request :
        /\ i = job[p].id /\ csr = job[p].csr /\ csr = row[i].csr /\ WholeMaterial(material[p])
        /\ row[i].status = "pending"
  <2>1. /\ pc[p] = "send" /\ job[p].verb = "approve"
        /\ job[p].csr # None /\ row[job[p].id].status = "pending"
    BY DEF Approve
  <2>2. job[p].id \in Id
    BY <2>1 DEF IInv, JobInv, Decision, Deciding, TypeOK, Job
  <2>3. /\ job[p].csr = row[job[p].id].csr /\ WholeMaterial(material[p])
        /\ job[p].csr \in Request
    BY <2>1, <2>2 DEF IInv, JobInv, Decision, RowInv
  <2> QED
    BY <2>1, <2>2, <2>3
<1> DEFINE k == csr.key
           r == [status |-> "approved", csr |-> csr, issued |-> Issued(csr, material[p])]
<1>0. p \in Admin
  BY ClerksAreAdmins
<1>1. /\ CsrVerifies(csr)
      /\ registered # None /\ registered.ski = material[p].ski
      /\ row' = [row EXCEPT ![i] =
           [status |-> "approved", csr |-> @.csr, issued |-> Issued(csr, material[p])]]
      /\ UNCHANGED <<ca, registered>>
  BY <1>2 DEF Approve
<1>3. row \in [Id -> Row]
  BY DEF IInv, TypeOK
<1>4. material[p] = NewMaterial(registered.ski) /\ material[p] \in Material
  BY <1>1, <1>2, NewMaterialWhole DEF WholeMaterial
<1>5. row' = [row EXCEPT ![i] = r] /\ r \in Row
  BY <1>1, <1>2, <1>3, <1>4 DEF Row
<1>6. /\ r.status = "approved" /\ r.csr = csr
      /\ r.issued.leaf.key = k /\ r.issued.leaf.signer = registered.ski
  <2>1. r.issued = Issued(csr, NewMaterial(registered.ski))
    BY <1>4
  <2>2. Issued(csr, NewMaterial(registered.ski)).leaf =
          [key |-> k, ski |-> k, signer |-> registered.ski]
    BY WhatIsIssued
  <2> QED
    BY <2>1, <2>2
<1> HIDE DEF r
<1>7. /\ Statuses[i] = "pending" /\ Statuses' = [Statuses EXCEPT ![i] = "approved"]
      /\ Asked[i] = [key |-> k, own |-> TRUE] /\ Asked' = [Asked EXCEPT ![i] = Asked[i]]
      /\ Certificates' = [Certificates EXCEPT ![i] = [key |-> k, by |-> registered.ski]]
  <2>1. CsrVerifies(csr) = TRUE
    BY <1>1 DEF CsrVerifies
  <2>2. Statuses[i] = "pending" /\ Asked[i] = [key |-> k, own |-> TRUE]
    BY <1>1, <1>2, <1>3, <2>1 DEF Statuses, Asked
  <2>3. /\ Statuses' = [Statuses EXCEPT ![i] = r.status]
        /\ Asked' = [Asked EXCEPT ![i] =
             IF r.status = "none" THEN None ELSE [key |-> r.csr.key, own |-> CsrVerifies(r.csr)]]
        /\ Certificates' = [Certificates EXCEPT ![i] =
             IF r.status # "approved" THEN None
             ELSE [key |-> r.issued.leaf.key, by |-> r.issued.leaf.signer]]
    BY <1>3, <1>5, RowBecomes
  <2> QED
    BY <1>6, <2>1, <2>2, <2>3
<1>8. Asked' = Asked
  BY <1>7 DEF Asked
<1>9. Founded # None /\ Founded = registered.ski /\ Kept[Founder] = Founded
  <2>1. ca[p] = Whole(registered.ski)
    BY <1>1 DEF CustodyInv, AtHand, Approve
  <2> QED
    BY <1>0, <1>1, <2>1, FounderSigns
<1>10. Kept' = Kept /\ Founded' = Founded /\ Founder' = Founder
  BY <1>1, KeptStays
<1>11. Asked[i].own /\ Asked[i].key = k
  BY <1>7
<1>12. Organisation!Certify(i)
  BY <1>7, <1>8, <1>9, <1>10, <1>11
     DEF Organisation!Certify, Organisation!Becomes, Organisation!Certifies, Organisation!caVars,
         Kept, Founded, Founder, Statuses, Asked, Certificates
<1> QED
  BY <1>12

LEMMA InstantRefines ==
  ASSUME IInv, CustodyInv, NEW p \in Machine, LocalInstant(p)
  PROVE  \E i \in Id : Organisation!CertifyAtOnce(i)
<1> DEFINE m == LoadEntityCa(p)
<1>0. p \in Admin
  BY ClerksAreAdmins
<1>1. PICK i \in Id :
        /\ row[i].status = "none"
        /\ row' = [row EXCEPT ![i] =
             [status |-> "approved", csr |-> Csr(i), issued |-> Issued(Csr(i), m)]]
  BY DEF LocalInstant
<1> DEFINE r == [status |-> "approved", csr |-> Csr(i), issued |-> Issued(Csr(i), m)]
<1>2. /\ m # NoMaterial /\ registered # None /\ registered.ski = m.ski
      /\ UNCHANGED <<ca, registered>>
  BY DEF LocalInstant, caVars
<1>3. WholeMaterial(m) /\ m \in Material /\ ca[p] = Whole(registered.ski)
  BY <1>0, <1>2, LoadedWhole DEF IInv, TypeOK, CaInv
<1>4. /\ Csr(i) \in Request /\ Csr(i).key = i /\ i \in MKey
      /\ CsrVerifies(Csr(i)) = TRUE
  BY DEF Request, MKey, Csr, CsrVerifies
<1>5. row' = [row EXCEPT ![i] = r] /\ r \in Row /\ row \in [Id -> Row]
  BY <1>1, <1>3, <1>4 DEF Row, IInv, TypeOK
<1>6. /\ r.status = "approved" /\ r.csr = Csr(i)
      /\ r.issued.leaf.key = i /\ r.issued.leaf.signer = registered.ski
  <2>1. r.issued = Issued(Csr(i), NewMaterial(registered.ski))
    BY <1>2, <1>3 DEF WholeMaterial
  <2>2. Issued(Csr(i), NewMaterial(registered.ski)).leaf =
          [key |-> Csr(i).key, ski |-> Csr(i).key, signer |-> registered.ski]
    BY WhatIsIssued
  <2>3. r.issued.leaf = [key |-> i, ski |-> i, signer |-> registered.ski]
    BY <1>4, <2>1, <2>2
  <2> QED
    BY <2>3
<1> HIDE DEF r
<1>7. /\ Statuses[i] = "none" /\ Statuses' = [Statuses EXCEPT ![i] = "approved"]
      /\ Asked' = [Asked EXCEPT ![i] = [key |-> i, own |-> TRUE]]
      /\ Certificates' = [Certificates EXCEPT ![i] = [key |-> i, by |-> registered.ski]]
  <2>1. /\ Statuses' = [Statuses EXCEPT ![i] = r.status]
        /\ Asked' = [Asked EXCEPT ![i] =
             IF r.status = "none" THEN None ELSE [key |-> r.csr.key, own |-> CsrVerifies(r.csr)]]
        /\ Certificates' = [Certificates EXCEPT ![i] =
             IF r.status # "approved" THEN None
             ELSE [key |-> r.issued.leaf.key, by |-> r.issued.leaf.signer]]
    BY <1>5, RowBecomes
  <2> QED
    BY <1>1, <1>4, <1>6, <2>1 DEF Statuses
<1>8. Founded # None /\ Founded = registered.ski /\ Kept[Founder] = Founded
  BY <1>0, <1>2, <1>3, FounderSigns
<1>9. Kept' = Kept /\ Founded' = Founded /\ Founder' = Founder
  BY <1>2, KeptStays
<1>10. Organisation!CertifyAtOnce(i)
  BY <1>4, <1>7, <1>8, <1>9
     DEF Organisation!CertifyAtOnce, Organisation!Becomes, Organisation!Asks,
         Organisation!Certifies, Organisation!caVars,
         Kept, Founded, Founder, Statuses, Asked, Certificates
<1> QED
  BY <1>10

(* Whatever touches neither the CA nor a row is a stutter. *)
LEMMA Stutters ==
  ASSUME UNCHANGED <<ca, registered, row>>
  PROVE  UNCHANGED Organisation!authorityVars
BY KeptStays, RowsStay
   DEF Organisation!authorityVars, Kept, Founded, Founder, Statuses, Asked, Certificates

LEMMA AuthorityStep ==
  ASSUME IInv, IInv', CustodyInv, [Next]_vars
  PROVE  [Organisation!Next]_(Organisation!authorityVars)
<1>1. CASE RemoteEnroll
  <2>0. PICK i \in Id : \E csr \in {Csr(i), Tampered(i, None)} : Enrolls(i, csr)
    BY <1>1 DEF RemoteEnroll
  <2>1. PICK csr \in {Csr(i), Tampered(i, None)} : Enrolls(i, csr)
    BY <2>0
  <2>2. csr \in Request
    BY DEF Request, MKey
  <2> QED
    BY <1>1, <2>1, <2>2, EnrollRefines DEF RemoteEnroll, caVars, Organisation!Next
<1>2. CASE RejectElsewhere
  <2>1. PICK i \in Pending : row' = [row EXCEPT ![i] = [@ EXCEPT !.status = "rejected"]]
    BY <1>2 DEF RejectElsewhere
  <2> QED
    BY <1>2, <2>1, RejectRefines DEF RejectElsewhere, Pending, caVars, Organisation!Next
<1>3. ASSUME NEW p \in Admin, InitStep(p)
      PROVE  [Organisation!Next]_(Organisation!authorityVars)
  BY <1>3, InitRefines
<1>4. ASSUME NEW p \in Clerk, Decide(p)
      PROVE  [Organisation!Next]_(Organisation!authorityVars)
  <2>1. CASE Approve(p)
    BY <2>1, ApproveRefines DEF Organisation!Next
  <2>2. CASE Reject(p)
    <3>1. job[p].id \in Id
      BY <2>2 DEF Reject, IInv, JobInv, Decision, Deciding, TypeOK, Job
    <3> QED
      BY <2>2, <3>1, RejectRefines DEF Reject, Organisation!Next
  <2>3. CASE ~ Approve(p) /\ ~ Reject(p)
    BY <1>4, <2>3, Stutters DEF Decide, Choose, Resolve, Fetch, Confirm, JobFails, caVars
  <2> QED
    BY <2>1, <2>2, <2>3
<1>5. ASSUME NEW p \in Machine,
             LocalEnroll(p) \/ LocalInstant(p) \/ LocalSubmitted(p) \/ LocalRenew(p)
      PROVE  [Organisation!Next]_(Organisation!authorityVars)
  <2>1. CASE LocalEnroll(p)
    <3>1. PICK i \in Id : Enrolls(i, Csr(i))
      BY <2>1 DEF LocalEnroll
    <3>2. Csr(i) \in Request
      BY DEF Request, MKey
    <3> QED
      BY <2>1, <3>1, <3>2, EnrollRefines DEF LocalEnroll, caVars, Organisation!Next
  <2>2. CASE LocalInstant(p)
    BY <2>2, InstantRefines DEF Organisation!Next
  <2>3. CASE LocalSubmitted(p) \/ LocalRenew(p)
    BY <2>3, Stutters DEF LocalSubmitted, LocalRenew, caVars
  <2> QED
    BY <1>5, <2>1, <2>2, <2>3
<1>6. CASE UNCHANGED vars
  BY <1>6, Stutters DEF vars, caVars
<1> QED
  BY <1>1, <1>2, <1>3, <1>4, <1>5, <1>6 DEF Next

(* No two admins ever have the same CA, on disk or in memory, and whoever   *)
(* has the registered one registered it.                                   *)
THEOREM OwnedAlways == Spec => []Owned
<1>1. CustodyInv => Owned
  BY DEF CustodyInv
<1> QED
  BY <1>1, InvariantHolds, CustodyInit, CustodyStep, PTL DEF Spec

(* ImplementsAuthority: init and the inbox implement Authority, with any   *)
(* number of admins, CAs, enrollments and machines.                        *)
THEOREM ImplementsAuthorityAlways == Spec => ImplementsAuthority
<1>1. Init => Organisation!Init
  BY DEF Init, CaInit, Organisation!Init, LoadEntityCa, NoMaterial, NoRow
<1>2. IInv /\ IInv' /\ CustodyInv /\ [Next]_vars => [Organisation!Next]_(Organisation!authorityVars)
  BY AuthorityStep
<1>3. Spec => []CustodyInv
  BY InvariantHolds, CustodyInit, CustodyStep, PTL DEF Spec
<1> QED
  BY <1>1, <1>2, <1>3, InvariantHolds, PTL DEF Spec, ImplementsAuthority, Organisation!Spec
=============================================================================
