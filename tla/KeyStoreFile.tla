----------------------------- MODULE KeyStoreFile -----------------------------
(***************************************************************************)
(* FileKeyStore (packages/dp-rust-sdk/src/keystore.rs): processes that     *)
(* save, delete and wipe files in one state directory.  A save goes        *)
(* through a temporary file whose name is the key's with its extension     *)
(* replaced, so that machine.key, machine.csr and machine.crt share one.   *)
(*                                                                         *)
(* A process writes to the file it opened, whatever its name is by then.   *)
(***************************************************************************)
CONSTANTS
  Process,
  Key,
  TempName,
  Temp,     \* the temporary name of each key
  Value,    \* what is saved
  Absent, Zeroed,  \* no file; a file of zeros
  Empty, Torn,     \* a file just created; parts of several writes
  NoJob

Contents == [key : Key, value : Value]

(* Zeros, and behind them the rest of what was there. *)
Rests == [rest : Contents]

ASSUME KeysAndTemps ==
  /\ Temp \in [Key -> TempName]
  /\ Key \cap TempName = {}
  /\ (Key \cup TempName) \cap {"closed", "unnamed"} = {}
  /\ (Contents \cup Rests) \cap {Absent, Zeroed, Empty, Torn, NoJob} = {}
  /\ (Value \cup [rest : Value]) \cap {Absent, Zeroed, Empty, Torn} = {}
  /\ Value \cap [rest : Value] = {}
  /\ Absent \notin {Zeroed, Empty, Torn} /\ Zeroed \notin {Empty, Torn} /\ Empty # Torn

VARIABLES
  file,    \* what each name stands for
  pc,      \* how far each process is in save or secure_delete
  job,     \* the key it works on and what it saves or overwrites there
  open,    \* the name the file it has open has now
  crossed  \* history: the keys on which two operations met

vars == <<file, pc, job, open, crossed>>

Name == Key \cup TempName

Saving == {"write", "rename"}

Wiping == {"overwrite", "zero", "unlink"}

Init ==
  /\ file = [n \in Name |-> Absent]
  /\ pc = [p \in Process |-> "idle"]
  /\ job = [p \in Process |-> NoJob]
  /\ open = [p \in Process |-> "closed"]
  /\ crossed = {}

Goto(p, l) == pc' = [pc EXCEPT ![p] = l]

Return(p) == Goto(p, "idle") /\ job' = [job EXCEPT ![p] = NoJob]

Close(p) == open' = [open EXCEPT ![p] = "closed"]

(* The names the operation of q goes by. *)
Uses(q) ==
  CASE pc[q] \in Saving -> {job[q].key, Temp[job[q].key]}
    [] pc[q] \in Wiping -> {job[q].key}
    [] OTHER -> {}

(* An operation of p on these names begins: it meets the others on them. *)
Begins(p, k, names) ==
  LET met == { q \in Process \ {p} : Uses(q) \cap names # {} }
  IN crossed' = IF met = {} THEN crossed ELSE crossed \cup {k} \cup { job[q].key : q \in met }

-----------------------------------------------------------------------------
(* save *)

(* Broken: what a dead process left in the temporary file stays there. *)
SaveOpenAppends(p, k, v) ==
  /\ pc[p] = "idle"
  /\ job' = [job EXCEPT ![p] = [key |-> k, value |-> v]]
  /\ file' = [file EXCEPT ![Temp[k]] = IF @ = Absent THEN Empty ELSE @]
  /\ open' = [open EXCEPT ![p] = Temp[k]]
  /\ Goto(p, "write")
  /\ Begins(p, k, {k, Temp[k]})

(* The temporary file is created, or emptied. *)
SaveOpen(p, k, v) ==
  /\ pc[p] = "idle"
  /\ job' = [job EXCEPT ![p] = [key |-> k, value |-> v]]
  /\ file' = [file EXCEPT ![Temp[k]] = Empty]
  /\ open' = [open EXCEPT ![p] = Temp[k]]
  /\ Goto(p, "write")
  /\ Begins(p, k, {k, Temp[k]})

(* Written over something else, the longer of the two shows. *)
Written(old, new) == IF old \in {Empty, new} THEN {new} ELSE {new, Torn}

(* Broken: the file is still open when it is renamed. *)
SaveWriteStaysOpen(p) ==
  /\ pc[p] = "write"
  /\ IF open[p] \in Name
       THEN \E c \in Written(file[open[p]], job[p]) :
              file' = [file EXCEPT ![open[p]] = c]
       ELSE UNCHANGED file
  /\ Goto(p, "rename")
  /\ UNCHANGED <<job, open, crossed>>

SaveWrite(p) ==
  /\ pc[p] = "write"
  /\ IF open[p] \in Name
       THEN \E c \in Written(file[open[p]], job[p]) :
              file' = [file EXCEPT ![open[p]] = c]
       ELSE UNCHANGED file
  /\ Close(p) /\ Goto(p, "rename")
  /\ UNCHANGED <<job, crossed>>

(* Broken: the error of a write is not looked at. *)
SaveWriteFailsOn(p) ==
  /\ pc[p] = "write"
  /\ file' = IF open[p] \in Name THEN [file EXCEPT ![open[p]] = Torn] ELSE file
  /\ Close(p) /\ Goto(p, "rename")
  /\ UNCHANGED <<job, crossed>>

(* The process dies in the middle of the write, or the disk is full. *)
SaveWriteFails(p) ==
  /\ pc[p] = "write"
  /\ file' = IF open[p] \in Name THEN [file EXCEPT ![open[p]] = Torn] ELSE file
  /\ Close(p) /\ Return(p)
  /\ UNCHANGED crossed

(* Who had the file that loses its name open writes to no name any more. *)
Renamed(from, to) ==
  /\ file' = [file EXCEPT ![to] = file[from], ![from] = Absent]
  /\ open' = [q \in Process |-> IF open[q] = to THEN "unnamed"
                                ELSE IF open[q] = from THEN to ELSE open[q]]

(* Permissions are set and the file renamed, both by its temporary name. *)
SaveRename(p) ==
  /\ pc[p] = "rename"
  /\ file[Temp[job[p].key]] # Absent
  /\ Renamed(Temp[job[p].key], job[p].key)
  /\ Return(p)
  /\ UNCHANGED crossed

SaveRenameFails(p) ==
  /\ pc[p] = "rename"
  /\ file[Temp[job[p].key]] = Absent
  /\ Return(p)
  /\ UNCHANGED <<file, open, crossed>>

-----------------------------------------------------------------------------
(* secure_delete and delete *)

Remove(k) ==
  /\ file' = [file EXCEPT ![k] = Absent]
  /\ open' = [q \in Process |-> IF open[q] = k THEN "unnamed" ELSE open[q]]

(* exists and metadata: the length that will be overwritten.  Of a file    *)
(* that is not there nothing is left to do.                                *)
WipeBegin(p, k) ==
  /\ pc[p] = "idle" /\ file[k] # Absent
  /\ \E v \in Value : job' = [job EXCEPT ![p] =
       [key |-> k, value |-> IF file[k] \in Contents THEN file[k].value
                             ELSE IF file[k] \in Rests THEN file[k].rest.value
                             ELSE v]]
  /\ Goto(p, "overwrite")
  /\ Begins(p, k, {k})
  /\ UNCHANGED <<file, open>>

(* Broken: opened to be created where it is not there. *)
WipeOpenCreates(p) ==
  /\ pc[p] = "overwrite"
  /\ Goto(p, "zero") /\ open' = [open EXCEPT ![p] = job[p].key]
  /\ file' = [file EXCEPT ![job[p].key] = IF @ = Absent THEN Empty ELSE @]
  /\ UNCHANGED <<job, crossed>>

WipeOpen(p) ==
  /\ pc[p] = "overwrite"
  /\ IF file[job[p].key] = Absent
       THEN Return(p) /\ UNCHANGED open
       ELSE /\ Goto(p, "zero") /\ open' = [open EXCEPT ![p] = job[p].key]
            /\ UNCHANGED job
  /\ UNCHANGED <<file, crossed>>

(* What a wipe that met nobody finds in its file: what it measured, with   *)
(* zeros over nothing of it, some of it, or all.                           *)
Expected(p) == {job[p], [rest |-> job[p]], Zeroed}

(* The first zeros of a file, with more to come.  A process that dies here *)
(* or whose next write fails leaves the file as it is now.                 *)
WipeChunk(p) ==
  /\ pc[p] = "zero" /\ open[p] \in Name
  /\ file' = [file EXCEPT ![open[p]] =
       IF @ \in {job[p], [rest |-> job[p]]} THEN [rest |-> job[p]]
       ELSE IF @ = Zeroed THEN Zeroed ELSE Torn]
  /\ UNCHANGED <<pc, job, open, crossed>>

(* The last of them.  Zeros of another length than the file's leave the    *)
(* rest of it.                                                             *)
WipeZero(p) ==
  /\ pc[p] = "zero"
  /\ IF open[p] \in Name
       THEN \E c \in IF file[open[p]] \in Expected(p) THEN {Zeroed}
                     ELSE {Zeroed, Torn} \cup ({Empty} \cap {file[open[p]]}) :
              file' = [file EXCEPT ![open[p]] = c]
       ELSE UNCHANGED file
  /\ Close(p) /\ Goto(p, "unlink")
  /\ UNCHANGED <<job, crossed>>

WipeUnlink(p) ==
  /\ pc[p] = "unlink"
  /\ Remove(job[p].key)
  /\ Return(p)
  /\ UNCHANGED crossed

Delete(k) == file[k] # Absent /\ Remove(k) /\ UNCHANGED <<pc, job, crossed>>

-----------------------------------------------------------------------------
(* A process is killed, or an operation fails, between two of its steps. *)
Die(p) ==
  /\ pc[p] # "idle"
  /\ Return(p) /\ Close(p)
  /\ UNCHANGED <<file, crossed>>

Next ==
  \/ \E p \in Process :
       \/ \E k \in Key : WipeBegin(p, k) \/ \E v \in Value : SaveOpen(p, k, v)
       \/ SaveWrite(p) \/ SaveWriteFails(p) \/ SaveRename(p) \/ SaveRenameFails(p)
       \/ WipeOpen(p) \/ WipeChunk(p) \/ WipeZero(p) \/ WipeUnlink(p)
       \/ Die(p)
  \/ \E k \in Key : Delete(k)

Spec == Init /\ [][Next]_vars
-----------------------------------------------------------------------------
(* Properties *)

(* The variables are of the shapes above; a process has a job and, while   *)
(* it writes, a file open, exactly when it is in an operation.             *)
TypeOK ==
  /\ file \in [Name -> Contents \cup Rests \cup {Absent, Zeroed, Empty, Torn}]
  /\ pc \in [Process -> {"idle"} \cup Saving \cup Wiping]
  /\ job \in [Process -> Contents \cup {NoJob}]
  /\ open \in [Process -> Name \cup {"closed", "unnamed"}]
  /\ crossed \subseteq Key
  /\ \A p \in Process :
       /\ job[p] = NoJob <=> pc[p] = "idle"
       /\ open[p] = "closed" <=> pc[p] \notin {"write", "zero"}

(* What can be saved under a key. *)
Saved(k) == [key : {k}, value : Value]

(* A key on which no two operations met holds nothing, the whole of        *)
(* something that was saved under that key, or such a thing with zeros     *)
(* over some or all of it, where a secure_delete is at work or was cut     *)
(* short: no other key's contents, no half of a save and no empty file,    *)
(* though dead processes leave their temporary files behind and            *)
(* machine.key, .csr and .crt share theirs.                                *)
NothingTorn ==
  \A k \in Key \ crossed :
    file[k] \in {Absent, Zeroed} \cup Saved(k) \cup [rest : Saved(k)]

(* A save that nobody met finds its own contents in the temporary file     *)
(* when it comes to rename it.                                             *)
OwnTemporary ==
  \A p \in Process :
    pc[p] = "rename" /\ job[p].key \notin crossed => file[Temp[job[p].key]] = job[p]

(* What it means for a key to have c in its file. *)
Meaning(k, c) ==
  IF c \in Saved(k) THEN c.value
  ELSE IF c \in [rest : Saved(k)] THEN [rest |-> c.rest.value]
  ELSE c

Held == [k \in Key |-> Meaning(k, file[k])]

Requested(p) ==
  CASE pc[p] \in Saving -> [kind |-> "save", key |-> job[p].key, value |-> job[p].value]
    [] pc[p] \in Wiping -> [kind |-> "wipe", key |-> job[p].key]
    [] OTHER -> [kind |-> "none"]

Store ==
  INSTANCE AtomicStore WITH
    held <- Held,
    request <- [p \in Process |-> Requested(p)]

(* Where no two operations met, a save takes effect as a whole in the step *)
(* in which it succeeds, and one that fails or dies has changed nothing; a *)
(* wipe that fails or dies has put zeros in front of what was there, or    *)
(* over all of it, and done nothing else.                                  *)
ImplementsStore == Store!Spec
=============================================================================
