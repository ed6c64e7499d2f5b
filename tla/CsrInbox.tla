------------------------------- MODULE CsrInbox -------------------------------
(***************************************************************************)
(* The admin's inbox: machines enroll, admins look at the pending requests  *)
(* and approve or reject one by its number or its id                       *)
(* (packages/dp-cli/src/commands/csr.rs, admin.rs), and the leaf is signed *)
(* here, with the CA of the admin's directory (packages/dp-rust-sdk/src/   *)
(* admin.rs).  An admin's directory may be that of a machine as well: its  *)
(* files stand in for what the server does not show.                       *)
(***************************************************************************)
EXTENDS EntityCa, Integers, FiniteSets

CONSTANTS
  Id,       \* enrollment ids, in their sorted order; each is also the key pair
            \* of the machine that enrolled under it
  Renewed,  \* a key pair that replaces one of those
  Machine,  \* the admins whose directory is that of a machine as well
  Clerk     \* the admins who see to the inbox and whose commands are followed

ASSUME IdsAreSorted ==
  Id \subseteq Nat /\ IsFiniteSet(Id) /\ {None, Renewed} \cap Id = {} /\ None # Renewed

ASSUME ClerksAreAdmins == Machine \cup Clerk \subseteq Admin

VARIABLES
  row,    \* server: the enrollments
  local,  \* state.json and machine.csr in the directories of machines
  job     \* the admin's command: what it is about

vars == <<caVars, pc, material, row, local, job>>

inboxVars == <<row, local, job>>

MKey == Id \cup {Renewed}

Request == {Csr(k) : k \in MKey} \cup {Tampered(k, None) : k \in MKey}

Row == [status : {"none", "pending", "rejected", "approved"},
        csr : Request \cup {None},
        issued : {Issued(r, m) : r \in Request, m \in Material} \cup {None}]

NoRow == [status |-> "none", csr |-> None, issued |-> None]

(* The id of the last enrollment; the request and the SKI on disk. *)
Local == [id : Id \cup {None}, csr : Request \cup {None}, ski : MKey \cup {None}]

Job == [verb : {"approve", "reject"},
        at : 0 .. Cardinality(Id),       \* the number given, 0 for an id
        id : Id, meant : Id, yes : BOOLEAN,
        csr : Request \cup {None}, ski : MKey \cup {None}]   \* what was fetched

ASSUME NoneIsNoJob == None \notin Job

Deciding == {"resolve", "fetch", "confirm", "send"}

Pending == {i \in Id : row[i].status = "pending"}

(* csr list: numbered in the order of their ids. *)
Position(i) == Cardinality({j \in Pending : j <= i})

Init ==
  /\ CaInit
  /\ row = [i \in Id |-> NoRow]
  /\ local = [p \in Machine |-> [id |-> None, csr |-> None, ski |-> None]]
  /\ job = [p \in Clerk |-> None]

-----------------------------------------------------------------------------
(* Machines *)

Enrolls(i, csr) ==
  /\ row[i].status = "none"
  /\ row' = [row EXCEPT ![i] = [status |-> "pending", csr |-> csr, issued |-> None]]

(* A machine elsewhere; its request may not be its own. *)
RemoteEnroll ==
  /\ \E i \in Id : \E csr \in {Csr(i), Tampered(i, None)} : Enrolls(i, csr)
  /\ UNCHANGED <<caVars, pc, material, local, job>>

(* A directory is enrolled once, or again after a rejection (what a        *)
(* decommissioning removes is not told apart from a new directory).        *)
AllowsEnroll(p) ==
  local[p].csr # None => local[p].id # None /\ row[local[p].id].status = "rejected"

(* `register` in the admin's own directory: a new key, its SKI without an  *)
(* enrollment id, its request; then the server has it.                     *)
LocalEnroll(p) ==
  /\ AllowsEnroll(p)
  /\ \E i \in Id :
       /\ Enrolls(i, Csr(i))
       /\ local' = [local EXCEPT ![p] = [id |-> None, csr |-> Csr(i), ski |-> i]]
  /\ UNCHANGED <<caVars, pc, material, job>>

(* ... and its answer, which may also be lost, brings the id. *)
LocalSubmitted(p) ==
  /\ local[p].id = None
  /\ \E i \in Pending :
       row[i].csr = local[p].csr /\ local' = [local EXCEPT ![p].id = i]
  /\ UNCHANGED <<caVars, pc, material, row, job>>

(* `register --instant`: the leaf is signed at once with the CA that is    *)
(* there, past the inbox; the server takes it as it does an approval, and  *)
(* its answer may be lost.                                                 *)
LocalInstant(p) ==
  LET m == LoadEntityCa(p)
  IN /\ AllowsEnroll(p)
     /\ m # NoMaterial /\ registered # None /\ registered.ski = m.ski
     /\ \E i \in Id : \E id \in {i, None} :
          /\ row[i].status = "none"
          /\ row' = [row EXCEPT ![i] =
               [status |-> "approved", csr |-> Csr(i), issued |-> Issued(Csr(i), m)]]
          /\ local' = [local EXCEPT ![p] = [id |-> id, csr |-> Csr(i), ski |-> i]]
     /\ UNCHANGED <<caVars, pc, material, job>>

(* A renewal of the machine writes the request of its next key, then the   *)
(* SKI; the id stays that of the enrollment.                               *)
LocalRenew(p) ==
  /\ local[p].id # None /\ row[local[p].id].status = "approved"
  /\ IF local[p].csr = Csr(local[p].ski)
       THEN local' = [local EXCEPT ![p].csr = Csr(Renewed)]
       ELSE local' = [local EXCEPT ![p].ski = local[p].csr.key]
  /\ UNCHANGED <<caVars, pc, material, row, job>>

-----------------------------------------------------------------------------
(* csr approve, csr reject, admin machine approve and reject *)

(* A command that is over has no job. *)
Ends(p) == Returns(p) /\ job' = [job EXCEPT ![p] = None]

DecideNext(verb) == IF verb = "approve" THEN "fetch" ELSE "confirm"

(* The admin reads the list, means one row of it, and names it by its      *)
(* number there or by its id, with or without --yes.                       *)
Choose(p) ==
  /\ pc[p] = "idle"
  /\ \E i \in Pending, verb \in {"approve", "reject"}, yes, byIndex \in BOOLEAN :
       /\ job' = [job EXCEPT ![p] =
            [verb |-> verb, at |-> IF byIndex THEN Position(i) ELSE 0,
             id |-> i, meant |-> i, yes |-> yes, csr |-> None, ski |-> None]]
       /\ Goto(p, IF byIndex THEN "resolve" ELSE DecideNext(verb))
  /\ UNCHANGED <<caVars, material, row, local>>

(* Broken: a number past the end of the list is let through. *)
ResolveUnchecked(p) ==
  /\ pc[p] = "resolve"
  /\ job' = [job EXCEPT ![p].id =
       IF \E i \in Pending : Position(i) = job[p].at
         THEN CHOOSE i \in Pending : Position(i) = job[p].at ELSE None]
  /\ Goto(p, DecideNext(job[p].verb))
  /\ UNCHANGED <<caVars, material, row, local>>

(* load_selector: the list is fetched anew; a number past its end is an    *)
(* error (JobFails).                                                       *)
Resolve(p) ==
  /\ pc[p] = "resolve"
  /\ \E i \in Pending :
       Position(i) = job[p].at /\ job' = [job EXCEPT ![p].id = i, ![p].at = 0]
  /\ Goto(p, DecideNext(job[p].verb))
  /\ UNCHANGED <<caVars, material, row, local>>

(* Broken: whatever this directory holds is taken for the enrollment. *)
LocalItemUnchecked(p, i) == [csr |-> local[p].csr, ski |-> local[p].ski]

(* enrollment_from_local_store: only the enrollment made here. *)
LocalItem(p, i) ==
  IF p \in Machine /\ local[p].id = i THEN [csr |-> local[p].csr, ski |-> local[p].ski]
  ELSE [csr |-> None, ski |-> None]

(* What the admin may get to see of enrollment i: the server's row, whose  *)
(* request and SKI are optional and whose request is then looked for here; *)
(* or, when the server cannot be asked, only what is here.                 *)
Item(p, i) ==
  {[csr |-> c, ski |-> s] :
     c \in {row[i].csr, LocalItem(p, i).csr}, s \in {row[i].csr.key, None}}
  \cup {LocalItem(p, i)}

(* load_enrollment, require_entity_ca, and the print before the question. *)
Fetch(p) ==
  /\ pc[p] = "fetch"
  /\ \E item \in Item(p, job[p].id) :
       job' = [job EXCEPT ![p].csr = item.csr, ![p].ski = item.ski]
  /\ LoadEntityCa(p) # NoMaterial /\ Keeps(p, LoadEntityCa(p))
  /\ Goto(p, "confirm")
  /\ UNCHANGED <<caVars, row, local>>

(* Broken: the question does not say which row it is about. *)
ConfirmUnseen(p) ==
  /\ pc[p] = "confirm"
  /\ Goto(p, "send")
  /\ UNCHANGED <<caVars, material, row, local, job>>

(* The admin says yes to the id that is printed if it is the one meant. *)
Confirm(p) ==
  /\ pc[p] = "confirm"
  /\ job[p].yes \/ job[p].id = job[p].meant
  /\ Goto(p, "send")
  /\ UNCHANGED <<caVars, material, row, local, job>>

(* Broken: whoever signed the request, a leaf is made for its key. *)
ApproveUnverified(p) ==
  LET i == job[p].id
      csr == job[p].csr
  IN /\ pc[p] = "send" /\ job[p].verb = "approve"
     /\ csr # None /\ job[p].ski \in {None, csr.key}
     /\ row[i].status = "pending"
     /\ registered # None /\ registered.ski = material[p].ski
     /\ row' = [row EXCEPT ![i] =
          [status |-> "approved", csr |-> @.csr, issued |-> Issued(csr, material[p])]]
     /\ Ends(p)
     /\ UNCHANGED <<ca, registered, local>>

(* approve_enrollment, issue_machine_leaf; the server takes what is signed *)
(* with the CA it knows for a row that is pending.                         *)
Approve(p) ==
  LET i == job[p].id
      csr == job[p].csr
  IN /\ pc[p] = "send" /\ job[p].verb = "approve"
     /\ csr # None /\ CsrVerifies(csr) /\ job[p].ski \in {None, csr.key}
     /\ row[i].status = "pending"
     /\ registered # None /\ registered.ski = material[p].ski
     /\ row' = [row EXCEPT ![i] =
          [status |-> "approved", csr |-> @.csr, issued |-> Issued(csr, material[p])]]
     /\ Ends(p)
     /\ UNCHANGED <<ca, registered, local>>

Reject(p) ==
  /\ pc[p] = "send" /\ job[p].verb = "reject"
  /\ row[job[p].id].status = "pending"
  /\ row' = [row EXCEPT ![job[p].id] = [@ EXCEPT !.status = "rejected"]]
  /\ Ends(p)
  /\ UNCHANGED <<ca, registered, local>>

(* The command of an admin elsewhere, who needs no CA for it. *)
RejectElsewhere ==
  /\ \E i \in Pending : row' = [row EXCEPT ![i] = [@ EXCEPT !.status = "rejected"]]
  /\ UNCHANGED <<caVars, pc, material, local, job>>

(* The admin says no, a check above fails, or the server refuses. *)
JobFails(p) ==
  /\ pc[p] \in Deciding
  /\ Ends(p)
  /\ UNCHANGED <<ca, registered, row, local>>

Decide(p) ==
  Choose(p) \/ Resolve(p) \/ Fetch(p) \/ Confirm(p) \/ Approve(p) \/ Reject(p) \/ JobFails(p)

InitStep(p) == InitCommand(p) /\ UNCHANGED inboxVars

Next ==
  \/ RemoteEnroll \/ RejectElsewhere
  \/ \E p \in Admin : InitStep(p)
  \/ \E p \in Clerk : Decide(p)
  \/ \E p \in Machine : LocalEnroll(p) \/ LocalInstant(p) \/ LocalSubmitted(p) \/ LocalRenew(p)

Spec == Init /\ [][Next]_vars

-----------------------------------------------------------------------------
(* What Authority promises: of a directory, the CA that a command would    *)
(* load; of an enrollment, the key and signer of its request and its leaf. *)

Organisation == INSTANCE Authority WITH
  Key <- MKey,
  kept <- [p \in Admin |-> LoadEntityCa(p).ski],
  founded <- IF registered = None THEN None ELSE registered.ski,
  founder <- IF registered = None THEN None ELSE registered.by,
  status <- [i \in Id |-> row[i].status],
  asked <- [i \in Id |->
    IF row[i].status = "none" THEN None
    ELSE [key |-> row[i].csr.key, own |-> CsrVerifies(row[i].csr)]],
  certificate <- [i \in Id |->
    IF row[i].status # "approved" THEN None
    ELSE [key |-> row[i].issued.leaf.key, by |-> row[i].issued.leaf.signer]]

-----------------------------------------------------------------------------
(* Properties *)

TypeOK ==
  /\ CaTypeOK
  /\ pc \in [Admin -> {"idle"} \cup Initing \cup Deciding]
  /\ row \in [Id -> Row]
  /\ local \in [Machine -> Local]
  /\ job \in [Clerk -> Job \cup {None}]

(* A certificate is issued for the key that enrolled, whichever of the two  *)
(* sources the request came from: the directory's own files may meanwhile  *)
(* be of another enrollment or of a renewed key.                           *)
ApprovedKeyEnrolled ==
  \A i \in Id : row[i].status = "approved" => row[i].issued.leaf.key = row[i].csr.key

(* What an approval sends verifies at the machine and at the server: the   *)
(* leaf against the certificate that comes with it, the credential against *)
(* the CA that is registered; and the request was the machine's own.       *)
ApprovedVerifies ==
  \A i \in Id : row[i].status = "approved" =>
    LET issued == row[i].issued
    IN /\ CsrVerifies(row[i].csr)
       /\ issued.leaf.ski = issued.leaf.key
       /\ VerifiesAgainst(issued.leaf, issued.chain)
       /\ issued.chain = SelfSigned(registered.ski)
       /\ JwsVerifies(registered.ski, issued.signature,
            MachineCredential(issued.leaf.key, registered.ski))

(* Without --yes, the row that is decided is the one the admin meant, even *)
(* though the number given is looked up in a list that may have changed,   *)
(* and whatever happens between the question and the answer.               *)
ConfirmedIsMeant ==
  [][\A p \in Clerk, i \in Id :
       pc[p] = "send" /\ pc'[p] = "idle" /\ row'[i] # row[i]
         => job[p].yes \/ job[p].meant = i]_vars

(* init and the inbox implement Authority: through crashes, lost answers,   *)
(* repeated inits, a directory that is a machine's as well, and rows that  *)
(* change while an admin looks at them.                                    *)
ImplementsAuthority == Organisation!Spec
=============================================================================
