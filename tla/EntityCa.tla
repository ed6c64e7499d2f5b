------------------------------- MODULE EntityCa -------------------------------
(***************************************************************************)
(* How an organisation gets its certificate authority: `init` and `signup` *)
(* (packages/dp-cli/src/commands/org.rs, signup.rs) with the key material  *)
(* of packages/dp-rust-sdk/src/admin.rs.  Several admins, each with a state *)
(* directory, and the server, which registers one CA for the entity.       *)
(***************************************************************************)
EXTENDS Pki

CONSTANTS
  Admin,  \* admins, and the state directory of each
  Ca,     \* the key pairs of CAs
  None

ASSUME NoneIsNoCa == None \notin Ca \cup {SelfSigned(c) : c \in Ca}

VARIABLES
  ca,          \* admin/<entity>/: entity-ca.key, entity-ca.crt, entity-ca.json
  registered,  \* server: the CA of the entity, and how it came by it
  pc,          \* how far each admin's command is
  mode,        \* the CA of an init is "new", there "again", or the "server"'s
  material     \* EntityCaMaterial in memory

caVars == <<ca, registered, mode>>

(* The SKI and the private key are both of entity-ca.json. *)
Material == [ski : Ca, cert : {SelfSigned(c) : c \in Ca}]

NoMaterial == [ski |-> None, cert |-> None]

Files ==
  [key : Ca \cup {None}, cert : {SelfSigned(c) : c \in Ca} \cup {None}, meta : Ca \cup {None}]

Registration == [ski : Ca, by : Admin, ours : BOOLEAN]

ASSUME NoneIsNoRegistration == None \notin Registration

Initing ==
  {"ask_server", "save_key", "save_cert", "save_meta",
   "kickstart", "conflict", "kickstarted", "already_registered"}

CaInit ==
  /\ ca = [p \in Admin |-> [key |-> None, cert |-> None, meta |-> None]]
  /\ registered = None
  /\ pc = [p \in Admin |-> "idle"]
  /\ mode = [p \in Admin |-> "new"]
  /\ material = [p \in Admin |-> NoMaterial]

Goto(p, l) == pc' = [pc EXCEPT ![p] = l]

Keeps(p, m) == material' = [material EXCEPT ![p] = m]

(* The process is done with its command and forgets what it had in memory. *)
Returns(p) ==
  Goto(p, "idle") /\ Keeps(p, NoMaterial) /\ mode' = [mode EXCEPT ![p] = "new"]

-----------------------------------------------------------------------------
(* Key material *)

(* generate_ed25519: a key pair nobody else has. *)
Fresh ==
  { c \in Ca :
      /\ \A p \in Admin :
           /\ c \notin {ca[p].key, ca[p].meta, material[p].ski}
           /\ ca[p].cert # SelfSigned(c)
      /\ registered # None => registered.ski # c }

(* load_entity_ca: the metadata decide, and the certificate must be there. *)
LoadEntityCa(p) ==
  IF ca[p].meta = None \/ ca[p].cert = None THEN NoMaterial
  ELSE [ski |-> ca[p].meta, cert |-> ca[p].cert]

NewMaterial(c) == [ski |-> c, cert |-> SelfSigned(c)]

-----------------------------------------------------------------------------
(* init *)

Begins(p, m, l) ==
  /\ mode' = [mode EXCEPT ![p] = m]
  /\ Goto(p, l)
  /\ UNCHANGED <<ca, registered>>

(* The CA of an earlier init is there: it is registered once more. *)
InitAgain(p) ==
  /\ pc[p] = "idle"
  /\ LoadEntityCa(p) # NoMaterial /\ Keeps(p, LoadEntityCa(p))
  /\ Begins(p, "again", "kickstart")

(* Broken: there is a new CA whatever the directory holds. *)
InitNewAlways(p) ==
  /\ pc[p] = "idle"
  /\ \E c \in Fresh : Keeps(p, NewMaterial(c))
  /\ Begins(p, "new", "save_key")

(* prepare_client_keyed_kickstart: a key pair that never leaves here. *)
InitNew(p) ==
  /\ pc[p] = "idle" /\ ca[p].meta = None
  /\ \E c \in Fresh : Keeps(p, NewMaterial(c))
  /\ Begins(p, "new", "save_key")

(* init --server-keys *)
InitServerKeys(p) ==
  /\ pc[p] = "idle" /\ ca[p].meta = None
  /\ Begins(p, "server", "ask_server")
  /\ UNCHANGED material

(* The server generates the key pair and sends it in its answer. *)
KickstartServerKeys(p) ==
  /\ pc[p] = "ask_server" /\ registered = None
  /\ \E c \in Fresh :
       /\ Keeps(p, NewMaterial(c))
       /\ registered' = [ski |-> c, by |-> p, ours |-> FALSE]
  /\ Goto(p, "save_key")
  /\ UNCHANGED <<ca, mode>>

(* save_entity_ca: three files, one after the other, entity-ca.json last. *)
Saves(p, file, value) ==
  /\ ca' = [ca EXCEPT ![p] = [@ EXCEPT ![file] = value]]
  /\ UNCHANGED <<registered, mode, material>>

SaveKey(p) ==
  pc[p] = "save_key" /\ Saves(p, "key", material[p].ski) /\ Goto(p, "save_cert")

(* Broken: a certificate that is there stays. *)
SaveCertOnce(p) ==
  /\ pc[p] = "save_cert"
  /\ Saves(p, "cert", IF ca[p].cert = None THEN material[p].cert ELSE ca[p].cert)
  /\ Goto(p, "save_meta")

(* Broken: entity-ca.json before the certificate. *)
SaveCertLast(p) ==
  \/ /\ pc[p] = "save_cert" /\ ca[p].meta # material[p].ski
     /\ Saves(p, "meta", material[p].ski) /\ UNCHANGED pc
  \/ /\ pc[p] = "save_cert" /\ ca[p].meta = material[p].ski
     /\ Saves(p, "cert", material[p].cert) /\ Goto(p, "save_meta")

SaveCert(p) ==
  pc[p] = "save_cert" /\ Saves(p, "cert", material[p].cert) /\ Goto(p, "save_meta")

SaveMeta(p) ==
  /\ pc[p] = "save_meta" /\ Saves(p, "meta", material[p].ski)
  /\ Goto(p, IF mode[p] = "server" THEN "kickstarted" ELSE "kickstart")

(* The server registers the first CA of the entity; to the next, even if   *)
(* it is the same, it answers with a conflict.                             *)
Kickstart(p) ==
  /\ pc[p] = "kickstart"
  /\ \/ /\ registered = None
        /\ registered' = [ski |-> material[p].ski, by |-> p, ours |-> TRUE]
        /\ Goto(p, "kickstarted")
     \/ /\ registered # None
        /\ UNCHANGED registered /\ Goto(p, "conflict")
  /\ UNCHANGED <<ca, mode, material>>

(* Broken: a conflict is taken for a registration. *)
ConflictIgnored(p) ==
  /\ pc[p] = "conflict" /\ Goto(p, "kickstarted")
  /\ UNCHANGED <<ca, registered, mode, material>>

(* A conflict is an error for a new CA (InitFails) and success for one     *)
(* that was there.                                                         *)
Conflict(p) ==
  /\ pc[p] = "conflict" /\ mode[p] = "again"
  /\ Goto(p, "already_registered")
  /\ UNCHANGED <<ca, registered, mode, material>>

(* init prints what became of it. *)
InitReports(p) ==
  /\ pc[p] \in {"kickstarted", "already_registered"}
  /\ Returns(p)
  /\ UNCHANGED <<ca, registered>>

(* The process dies, a file is not written, or the server is not reached,  *)
(* refuses, or its answer is lost.                                         *)
InitFails(p) ==
  /\ pc[p] \in Initing
  /\ Returns(p)
  /\ UNCHANGED <<ca, registered>>

InitStarts(p) == InitAgain(p) \/ InitNew(p) \/ InitServerKeys(p)

InitGoesOn(p) ==
  \/ SaveKey(p) \/ SaveCert(p) \/ SaveMeta(p)
  \/ Kickstart(p) \/ KickstartServerKeys(p) \/ Conflict(p) \/ InitReports(p)

InitCommand(p) == InitStarts(p) \/ InitGoesOn(p) \/ InitFails(p)

-----------------------------------------------------------------------------
(* Properties *)

CaTypeOK ==
  /\ ca \in [Admin -> Files]
  /\ registered \in Registration \cup {None}
  /\ mode \in [Admin -> {"new", "again", "server"}]
  /\ material \in [Admin -> Material \cup {NoMaterial}]

(* The server never knows a CA whose private key is lost: wherever init    *)
(* dies and whatever answer goes missing, the directory it was registered  *)
(* from has the key, in entity-ca.json and entity-ca.key, and the          *)
(* certificate.  (Unless the server made the key: then its answer is the   *)
(* only copy.)                                                             *)
RegisteredKeyKept ==
  registered # None /\ registered.ours =>
    ca[registered.by] =
      [key |-> registered.ski, cert |-> SelfSigned(registered.ski), meta |-> registered.ski]

(* init never gets stuck on what an init before it left behind: it takes a *)
(* directory that has entity-ca.json for one that has a CA, so the other   *)
(* files are there, and of the same key, from the moment it appears.       *)
MetadataComplete ==
  \A p \in Admin : ca[p].meta # None =>
    ca[p] = [key |-> ca[p].meta, cert |-> SelfSigned(ca[p].meta), meta |-> ca[p].meta]

(* An init that reports a kickstart leaves the CA the server registered in *)
(* its directory, after crashes, retries, conflicts and for keys made by   *)
(* the server too.                                                         *)
KickstartedIsOurs ==
  \A p \in Admin : pc[p] = "kickstarted" =>
    registered # None /\ LoadEntityCa(p) = NewMaterial(registered.ski)
=============================================================================
