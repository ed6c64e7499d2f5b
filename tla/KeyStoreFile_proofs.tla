-------------------------- MODULE KeyStoreFile_proofs --------------------------
(* Theorems about KeyStoreFile, for every set of processes and of keys.   *)
EXTENDS KeyStoreFile, TLAPS

Own(k) == {Absent, Zeroed} \cup Saved(k) \cup [rest : Saved(k)]

(* An operation on a key that is not crossed is alone on its names. *)
Alone ==
  \A p \in Process : pc[p] # "idle" /\ job[p].key \notin crossed =>
    \A q \in Process \ {p} : Uses(q) \cap Uses(p) = {}

(* Where the file a process writes to may be. *)
Whereabouts ==
  \A p \in Process :
    /\ pc[p] = "write" => open[p] \in {Temp[job[p].key], "unnamed"} \cup crossed
    /\ pc[p] = "zero" => open[p] \in {job[p].key, "unnamed"}

(* What an operation on a key that is not crossed finds there. *)
Finds(p) ==
  /\ pc[p] = "write" => open[p] = Temp[job[p].key] /\ file[Temp[job[p].key]] = Empty
  /\ pc[p] = "rename" => file[Temp[job[p].key]] = job[p]
  /\ pc[p] = "overwrite" => file[job[p].key] \in Expected(p) \cup {Absent}
  /\ pc[p] = "zero" /\ open[p] = job[p].key => file[job[p].key] \in Expected(p)

Undisturbed ==
  \A p \in Process : pc[p] # "idle" /\ job[p].key \notin crossed => Finds(p)

Intact == \A k \in Key \ crossed : file[k] \in Own(k)

StoreInv == TypeOK /\ Alone /\ Whereabouts /\ Undisturbed /\ Intact

USE KeysAndTemps

(* What was saved, what zeros cut it down to, and the rest are different. *)
LEMMA Kinds ==
  ASSUME NEW k \in Key
  PROVE  /\ Saved(k) \subseteq Contents /\ [rest : Saved(k)] \subseteq Rests
         /\ Contents \cap Rests = {}
         /\ {Absent, Zeroed, Empty, Torn} \cap (Contents \cup Rests) = {}
<1>1. Saved(k) \subseteq Contents
  BY DEF Saved, Contents
<1>2. [rest : Saved(k)] \subseteq Rests
  BY <1>1 DEF Rests
<1>3. ASSUME NEW c \in Contents, c \in Rests PROVE FALSE
  <2>1. DOMAIN c = {"key", "value"}
    BY DEF Contents
  <2>2. DOMAIN c = {"rest"}
    BY <1>3 DEF Rests
  <2>3. QED
    BY <2>1, <2>2
<1>4. QED
  BY <1>1, <1>2, <1>3

(* What a file means, for the contents a key that is not crossed can have. *)
LEMMA Meanings ==
  ASSUME NEW k \in Key
  PROVE  /\ Meaning(k, Absent) = Absent /\ Meaning(k, Zeroed) = Zeroed
         /\ \A c \in Contents : c.key = k =>
              /\ c \in Saved(k) /\ [rest |-> c] \in [rest : Saved(k)]
              /\ Meaning(k, c) = c.value /\ c.value \in Value
              /\ Meaning(k, [rest |-> c]) = [rest |-> c.value]
<1>1. Meaning(k, Absent) = Absent /\ Meaning(k, Zeroed) = Zeroed
  BY Kinds DEF Meaning
<1>2. ASSUME NEW c \in Contents, c.key = k
      PROVE  c \in Saved(k) /\ [rest |-> c] \in [rest : Saved(k)] /\ c.value \in Value
  BY <1>2 DEF Contents, Saved
<1>3. ASSUME NEW c \in Contents, c.key = k
      PROVE  Meaning(k, c) = c.value /\ Meaning(k, [rest |-> c]) = [rest |-> c.value]
  <2>1. [rest |-> c] \notin Saved(k)
    BY <1>2, <1>3, Kinds
  <2>2. QED
    BY <1>2, <1>3, <2>1 DEF Meaning
<1>4. QED
  BY <1>1, <1>2, <1>3

LEMMA InitInv == Init => StoreInv
BY SMT DEF Init, StoreInv, TypeOK, Alone, Whereabouts, Undisturbed, Finds, Expected, Intact, Own, Name,
  Saving, Wiping

(* An operation begins: it is alone, or whatever it meets is crossed.      *)
LEMMA BeginAlone ==
  ASSUME TypeOK, Alone, NEW p \in Process, NEW k \in Key, pc[p] = "idle", NEW names,
         Begins(p, k, names), job'[p].key = k, Uses(p)' = names,
         \A q \in Process \ {p} : pc'[q] = pc[q] /\ job'[q] = job[q],
         pc' \in [Process -> {"idle"} \cup Saving \cup Wiping], pc'[p] # "idle"
  PROVE  Alone' /\ crossed \subseteq crossed' /\ crossed' \subseteq Key
<1>1. \A q \in Process \ {p} : Uses(q)' = Uses(q)
  BY DEF Uses
<1> DEFINE met == { q \in Process \ {p} : Uses(q) \cap names # {} }
<1>2. crossed \subseteq crossed' /\ crossed' \subseteq Key
  <2>1. \A q \in met : job[q].key \in Key
    BY DEF Uses, TypeOK, Contents, Saving, Wiping
  <2> QED  BY <2>1 DEF Begins, TypeOK
<1>3. ASSUME NEW r \in Process, pc'[r] # "idle", job'[r].key \notin crossed',
             NEW q \in Process \ {r}
      PROVE  Uses(q)' \cap Uses(r)' = {}
  <2>1. CASE r = p
    BY <2>1, <1>1, <1>3 DEF Begins
  <2>2. CASE r # p /\ q = p
    BY <2>2, <1>1, <1>3 DEF Begins
  <2>3. CASE r # p /\ q # p
    BY <2>3, <1>1, <1>2, <1>3 DEF Alone
  <2> QED  BY <2>1, <2>2, <2>3
<1> QED  BY <1>2, <1>3 DEF Alone

(* An operation goes on, or ends: nobody meets anybody anew.               *)
LEMMA GoOnAlone ==
  ASSUME Alone, UNCHANGED crossed, NEW p \in Process,
         Uses(p)' \in {Uses(p), {}}, pc'[p] # "idle" => job'[p] = job[p] /\ pc[p] # "idle",
         \A q \in Process \ {p} : pc'[q] = pc[q] /\ job'[q] = job[q]
  PROVE  Alone'
<1>1. \A q \in Process \ {p} : Uses(q)' = Uses(q)
  BY DEF Uses
<1> QED  BY <1>1 DEF Alone

(* One step of a process, or a delete, keeps the invariant.                *)
LEMMA StepInv ==
  ASSUME StoreInv, [Next]_vars
  PROVE  StoreInv'
<1> USE DEF Name, Saving, Wiping
<1>1. ASSUME NEW p \in Process, NEW k \in Key, NEW v \in Value, SaveOpen(p, k, v)
      PROVE  StoreInv'
  <2> USE <1>1
  <2>2. Alone' /\ crossed \subseteq crossed' /\ crossed' \subseteq Key
    <3>1. Uses(p)' = {k, Temp[k]}
      BY DEF SaveOpen, StoreInv, TypeOK, Goto, Uses
    <3> QED  BY <3>1, BeginAlone DEF SaveOpen, StoreInv, TypeOK, Goto
  <2>1. TypeOK'
    BY <2>2 DEF SaveOpen, StoreInv, TypeOK, Goto, Contents
  <2>3. \A q \in Process \ {p} : Uses(q)' = Uses(q)
    BY DEF SaveOpen, StoreInv, TypeOK, Goto, Uses
  <2>4. \A q \in Process \ {p} : pc[q] \in {"write", "rename"} /\ Temp[job[q].key] = Temp[k]
           => job[q].key \in crossed'
    <3> SUFFICES ASSUME NEW q \in Process \ {p}, pc[q] \in {"write", "rename"}, Temp[job[q].key] = Temp[k]
                 PROVE  job[q].key \in crossed'
      OBVIOUS
    <3> QED  BY DEF SaveOpen, Begins, Uses
  <2>5. Whereabouts'
    BY <2>2 DEF SaveOpen, StoreInv, TypeOK, Goto, Whereabouts
  <2>6. Undisturbed'
    BY <2>1, <2>2, <2>4 DEF SaveOpen, StoreInv, TypeOK, Goto, Undisturbed, Finds, Expected, Contents
  <2>7. Intact'
    BY <2>2 DEF SaveOpen, StoreInv, TypeOK, Intact
  <2> QED  BY <2>1, <2>2, <2>5, <2>6, <2>7 DEF StoreInv
<1>2. ASSUME NEW p \in Process, SaveWrite(p)  PROVE  StoreInv'
  <2> USE <1>2
  <2>1. TypeOK'
    BY DEF SaveWrite, StoreInv, TypeOK, Goto, Close, Written
  <2>2. Alone'
    BY GoOnAlone DEF SaveWrite, StoreInv, TypeOK, Goto, Uses
  <2>3. Whereabouts' /\ Intact'
    BY DEF SaveWrite, StoreInv, TypeOK, Goto, Close, Whereabouts, Undisturbed, Finds, Expected, Intact, Contents
  <2>4. Undisturbed'
    <3> SUFFICES ASSUME NEW q \in Process, pc'[q] # "idle", job'[q].key \notin crossed'
                 PROVE  Finds(q)'
      BY DEF Undisturbed, Finds, Expected
    <3>1. CASE q = p
      <4>1. /\ pc'[p] = "rename" /\ job' = job /\ job[p].key \in Key \ crossed
            /\ open[p] = Temp[job[p].key] /\ file[open[p]] = Empty
        BY <3>1 DEF SaveWrite, StoreInv, TypeOK, Goto, Undisturbed, Finds, Contents
      <4>2. file'[Temp[job[p].key]] = job[p]
        BY <4>1 DEF SaveWrite, StoreInv, TypeOK, Written
      <4> QED  BY <3>1, <4>1, <4>2 DEF Finds
    <3>2. CASE q # p
      <4>1. pc'[q] = pc[q] /\ job'[q] = job[q] /\ open'[q] = open[q] /\ job[q].key \in Key \ crossed
        BY <3>2 DEF SaveWrite, StoreInv, TypeOK, Goto, Return, Close, Contents
      <4>2. Uses(p) \cap Uses(q) = {}
        BY <4>1, <3>2 DEF StoreInv, Alone
      <4>3. pc[q] \in Saving => open[p] # Temp[job[q].key]
        BY <4>1, <4>2, ZenonT(60) DEF Uses, StoreInv, TypeOK, Whereabouts, Contents, SaveWrite
      <4>4. open[p] # job[q].key
        BY <4>1 DEF StoreInv, TypeOK, Whereabouts, Contents, SaveWrite
      <4> QED  BY <4>1, <4>3, <4>4 DEF SaveWrite, StoreInv, TypeOK, Undisturbed, Finds, Expected
    <3> QED  BY <3>1, <3>2
  <2> QED  BY <2>1, <2>2, <2>3, <2>4 DEF StoreInv
<1>3. ASSUME NEW p \in Process, SaveWriteFails(p)  PROVE  StoreInv'
  <2> USE <1>3
  <2>1. TypeOK'
    BY DEF SaveWriteFails, StoreInv, TypeOK, Goto, Close, Return
  <2>2. Alone'
    BY GoOnAlone DEF SaveWriteFails, StoreInv, TypeOK, Goto, Return, Uses
  <2>3. Whereabouts' /\ Intact'
    BY DEF SaveWriteFails, StoreInv, TypeOK, Goto, Close, Return, Whereabouts, Undisturbed, Finds, Expected, Intact, Contents
  <2>4. Undisturbed'
    <3> SUFFICES ASSUME NEW q \in Process, pc'[q] # "idle", job'[q].key \notin crossed'
                 PROVE  Finds(q)'
      BY DEF Undisturbed, Finds, Expected
    <3>1. CASE q = p
      BY <3>1 DEF SaveWriteFails, StoreInv, TypeOK, Goto, Return, Close, Undisturbed, Finds, Expected, Written, Contents
    <3>2. CASE q # p
      <4>1. pc'[q] = pc[q] /\ job'[q] = job[q] /\ open'[q] = open[q] /\ job[q].key \in Key \ crossed
        BY <3>2 DEF SaveWriteFails, StoreInv, TypeOK, Goto, Return, Close, Contents
      <4>2. Uses(p) \cap Uses(q) = {}
        BY <4>1, <3>2 DEF StoreInv, Alone
      <4>3. pc[q] \in Saving => open[p] # Temp[job[q].key]
        BY <4>1, <4>2, ZenonT(60) DEF Uses, StoreInv, TypeOK, Whereabouts, Contents, SaveWriteFails
      <4>4. open[p] # job[q].key
        BY <4>1 DEF StoreInv, TypeOK, Whereabouts, Contents, SaveWriteFails
      <4> QED  BY <4>1, <4>3, <4>4 DEF SaveWriteFails, StoreInv, TypeOK, Undisturbed, Finds, Expected
    <3> QED  BY <3>1, <3>2
  <2> QED  BY <2>1, <2>2, <2>3, <2>4 DEF StoreInv
<1>4. ASSUME NEW p \in Process, SaveRename(p)  PROVE  StoreInv'
  <2> USE <1>4
  <2>0. pc[p] = "rename" /\ job[p] \in Contents /\ job[p].key \in Key /\ Temp[job[p].key] \in TempName
    BY DEF SaveRename, StoreInv, TypeOK, Contents
  <2>1. TypeOK'
    BY <2>0 DEF SaveRename, StoreInv, TypeOK, Goto, Renamed, Return
  <2>2. Alone'
    BY GoOnAlone DEF SaveRename, StoreInv, TypeOK, Goto, Return, Uses
  <2>3. \A q \in Process \ {p} : pc[q] = "write" /\ open[q] = Temp[job[p].key] => job[p].key \in crossed
    <3> SUFFICES ASSUME NEW q \in Process \ {p}, pc[q] = "write", open[q] = Temp[job[p].key],
                        job[p].key \notin crossed
                 PROVE  FALSE
      OBVIOUS
    <3>1. Temp[job[q].key] = Temp[job[p].key]
      BY <2>0 DEF StoreInv, TypeOK, Whereabouts
    <3> QED  BY <2>0, <3>1 DEF StoreInv, Alone, Uses
  <2>4. Whereabouts'
    BY <2>0, <2>3 DEF SaveRename, StoreInv, TypeOK, Goto, Renamed, Return, Whereabouts, Contents
  <2>5. Intact'
    <3>1. job[p].key \notin crossed => file[Temp[job[p].key]] = job[p]
      BY <2>0 DEF StoreInv, Undisturbed, Finds
    <3>2. job[p] \in Own(job[p].key)
      BY <2>0 DEF Own, Saved, Contents
    <3>3. file'[job[p].key] = file[Temp[job[p].key]]
      BY <2>0 DEF SaveRename, Renamed, StoreInv, TypeOK
    <3>4. \A k \in Key \ {job[p].key} : file'[k] = file[k]
      BY <2>0 DEF SaveRename, Renamed, StoreInv, TypeOK
    <3> QED  BY <3>1, <3>2, <3>3, <3>4 DEF SaveRename, StoreInv, Intact
  <2>6. Undisturbed'
    <3> SUFFICES ASSUME NEW q \in Process, pc'[q] # "idle", job'[q].key \notin crossed'
                 PROVE  Finds(q)'
      BY DEF Undisturbed, Finds, Expected
    <3>1. q # p /\ pc'[q] = pc[q] /\ job'[q] = job[q] /\ job[q].key \in Key \ crossed
      BY DEF SaveRename, StoreInv, TypeOK, Goto, Return, Contents
    <3>2. Uses(p) \cap Uses(q) = {}
      BY <3>1 DEF StoreInv, Alone, SaveRename
    <3>3. Temp[job[p].key] \in Uses(p) /\ job[p].key \in Uses(p) /\ job[q].key \in Uses(q)
          /\ (pc[q] \in Saving => Temp[job[q].key] \in Uses(q))
      BY <2>0, <3>1 DEF Uses, StoreInv, TypeOK
    <3> QED  BY <2>0, <3>1, <3>2, <3>3 DEF SaveRename, StoreInv, TypeOK, Renamed, Undisturbed, Finds, Expected
  <2> QED  BY <2>1, <2>2, <2>4, <2>5, <2>6 DEF StoreInv
<1>5. ASSUME NEW p \in Process, SaveRenameFails(p) \/ Die(p)  PROVE  StoreInv'
  <2> USE <1>5
  <2>1. TypeOK'
    BY DEF SaveRenameFails, Die, StoreInv, TypeOK, Goto, Close, Return
  <2>2. Alone'
    BY GoOnAlone DEF SaveRenameFails, Die, StoreInv, TypeOK, Goto, Return, Uses
  <2>3. Whereabouts' /\ Intact' /\ Undisturbed'
    BY DEF SaveRenameFails, Die, StoreInv, TypeOK, Goto, Close, Return, Whereabouts, Undisturbed, Finds, Expected, Intact
  <2> QED  BY <2>1, <2>2, <2>3 DEF StoreInv
<1>6. ASSUME NEW p \in Process, NEW k \in Key, WipeBegin(p, k)  PROVE  StoreInv'
  <2> USE <1>6
  <2>0. job'[p].key = k /\ job'[p] \in Contents /\ \A q \in Process \ {p} : job'[q] = job[q]
    <3>1. PICK v \in Value : job' = [job EXCEPT ![p] =
            [key |-> k, value |-> IF file[k] \in Contents THEN file[k].value
                                  ELSE IF file[k] \in Rests THEN file[k].rest.value
                                  ELSE v]]
      BY DEF WipeBegin
    <3>2. file[k] \in Rests => file[k].rest \in Contents
      BY DEF Rests
    <3>3. job'[p].value \in Value /\ job'[p] = [key |-> k, value |-> job'[p].value]
      BY <3>1, <3>2 DEF StoreInv, TypeOK, Contents
    <3> QED  BY <3>1, <3>3 DEF StoreInv, TypeOK, Contents
  <2>1. TypeOK'
    BY <2>0 DEF WipeBegin, StoreInv, TypeOK, Goto, Contents, Begins, Uses
  <2>2. Alone' /\ crossed \subseteq crossed'
    <3>1. Uses(p)' = {k}
      BY <2>0 DEF WipeBegin, StoreInv, TypeOK, Goto, Uses
    <3> QED  BY <2>0, <2>1, <3>1, BeginAlone, ZenonT(60) DEF WipeBegin, StoreInv, TypeOK, Goto
  <2>3. Whereabouts' /\ Intact'
    BY <2>0, <2>2 DEF WipeBegin, StoreInv, TypeOK, Goto, Whereabouts, Intact
  <2>4. k \notin crossed => file[k] \in Expected(p)'
    <3> SUFFICES ASSUME k \notin crossed, file[k] # Zeroed  PROVE  file[k] \in {job'[p], [rest |-> job'[p]]}
      BY DEF Expected
    <3>0. file[k] \in Saved(k) \cup [rest : Saved(k)]
      BY DEF WipeBegin, StoreInv, Intact, Own
    <3>1. CASE file[k] \in Saved(k)
      <4>1. job'[p] = [key |-> k, value |-> file[k].value]
        BY <3>1, Kinds DEF WipeBegin, StoreInv, TypeOK
      <4> QED  BY <3>1, <4>1 DEF Saved
    <3>2. CASE file[k] \in [rest : Saved(k)]
      <4>1. file[k] \in Rests /\ file[k] \notin Contents
        BY <3>2, Kinds
      <4>2. job'[p] = [key |-> k, value |-> file[k].rest.value]
        BY <4>1 DEF WipeBegin, StoreInv, TypeOK
      <4>3. file[k].rest = job'[p] /\ file[k] = [rest |-> file[k].rest]
        BY <3>2, <4>2 DEF Saved
      <4> QED  BY <4>3
    <3> QED  BY <3>0, <3>1, <3>2
  <2>5. Undisturbed'
    BY <2>0, <2>2, <2>4 DEF WipeBegin, StoreInv, TypeOK, Goto, Undisturbed, Finds, Expected
  <2> QED  BY <2>1, <2>2, <2>3, <2>5 DEF StoreInv
<1>7. ASSUME NEW p \in Process, WipeOpen(p)  PROVE  StoreInv'
  <2> USE <1>7
  <2>1. TypeOK'
    BY DEF WipeOpen, StoreInv, TypeOK, Goto, Return, Contents
  <2>2. Alone'
    BY GoOnAlone DEF WipeOpen, StoreInv, TypeOK, Goto, Return, Uses
  <2>3. Whereabouts' /\ Intact' /\ Undisturbed'
    BY DEF WipeOpen, StoreInv, TypeOK, Goto, Return, Whereabouts, Undisturbed, Finds, Expected, Intact
  <2> QED  BY <2>1, <2>2, <2>3 DEF StoreInv
<1>12. ASSUME NEW p \in Process, WipeChunk(p)  PROVE  StoreInv'
  <2> USE <1>12
  <2>0. /\ open[p] = job[p].key /\ job[p].key \in Key /\ job[p] \in Contents
        /\ [rest |-> job[p]] \in Rests /\ UNCHANGED <<pc, job, open, crossed>>
    BY DEF WipeChunk, StoreInv, TypeOK, Whereabouts, Contents, Rests
  <2>1. TypeOK'
    BY <2>0 DEF WipeChunk, StoreInv, TypeOK
  <2>2. Alone'
    BY <2>0, GoOnAlone DEF WipeChunk, StoreInv, Uses
  <2>3. \A n \in Name \ {job[p].key} : file'[n] = file[n]
    BY <2>0 DEF WipeChunk, StoreInv, TypeOK
  <2>4. job[p].key \notin crossed =>
          /\ file[job[p].key] \in Expected(p)
          /\ file'[job[p].key] \in {[rest |-> job[p]], Zeroed}
    BY <2>0 DEF WipeChunk, StoreInv, TypeOK, Undisturbed, Finds, Expected
  <2>5. Whereabouts'
    BY <2>0 DEF StoreInv, Whereabouts
  <2>6. Intact'
    <3>1. [rest |-> job[p]] \in [rest : Saved(job[p].key)]
      BY <2>0 DEF Saved, Contents
    <3> QED  BY <2>0, <2>3, <2>4, <3>1 DEF StoreInv, Intact, Own
  <2>7. Undisturbed'
    <3> SUFFICES ASSUME NEW q \in Process, pc[q] # "idle", job[q].key \notin crossed
                 PROVE  Finds(q)'
      BY <2>0 DEF Undisturbed
    <3>1. Finds(q)
      BY DEF StoreInv, Undisturbed
    <3>2. CASE q = p
      BY <2>0, <2>4, <3>1, <3>2 DEF WipeChunk, Finds, Expected
    <3>3. CASE q # p
      <4>1. Uses(p) = {job[p].key} /\ job[q].key \in Uses(q) /\ job[q].key \in Key
        BY <2>0, <3>3 DEF WipeChunk, StoreInv, TypeOK, Uses, Contents
      <4>2. job[q].key # job[p].key
        BY <3>3, <4>1 DEF StoreInv, Alone
      <4>3. Temp[job[q].key] # job[p].key
        BY <2>0, <4>1
      <4> QED  BY <2>0, <2>3, <3>1, <4>1, <4>2, <4>3 DEF Finds, Expected
    <3> QED  BY <3>2, <3>3
  <2> QED  BY <2>1, <2>2, <2>5, <2>6, <2>7 DEF StoreInv
<1>8. ASSUME NEW p \in Process, WipeZero(p)  PROVE  StoreInv'
  <2> USE <1>8
  <2>0. job[p].key \in Key /\ open[p] \in {job[p].key, "unnamed"}
    BY DEF WipeZero, StoreInv, TypeOK, Whereabouts, Contents
  <2>1. TypeOK'
    BY <2>0 DEF WipeZero, StoreInv, TypeOK, Goto, Close
  <2>2. Alone'
    BY GoOnAlone DEF WipeZero, StoreInv, TypeOK, Goto, Uses
  <2>5. \A n \in Name \ {job[p].key} : file'[n] = file[n]
    BY <2>0 DEF WipeZero, StoreInv, TypeOK
  <2>6. job[p].key \notin crossed => file'[job[p].key] \in {file[job[p].key], Zeroed}
    BY <2>0 DEF WipeZero, StoreInv, TypeOK, Undisturbed, Finds
  <2>7. \A q \in Process \ {p} : pc'[q] = pc[q] /\ job'[q] = job[q] /\ open'[q] = open[q]
    BY DEF WipeZero, StoreInv, TypeOK, Goto, Close
  <2>3. Whereabouts' /\ Intact'
    <3>1. Whereabouts'
      BY DEF WipeZero, StoreInv, TypeOK, Goto, Close, Whereabouts
    <3>2. Intact'
      BY <2>0, <2>5, <2>6 DEF WipeZero, StoreInv, Intact, Own
    <3> QED  BY <3>1, <3>2
  <2>4. Undisturbed'
    <3> SUFFICES ASSUME NEW q \in Process, pc'[q] # "idle", job'[q].key \notin crossed'
                 PROVE  Finds(q)'
      BY DEF Undisturbed
    <3>1. CASE q = p
      BY <3>1 DEF WipeZero, StoreInv, TypeOK, Goto, Finds
    <3>2. CASE q # p
      <4>1. Uses(p) = {job[p].key} /\ job[q].key \in Uses(q) /\ job[q].key \in Key \ crossed
        BY <2>7, <3>2 DEF WipeZero, StoreInv, TypeOK, Uses, Contents
      <4>2. job[q].key # job[p].key
        BY <2>7, <3>2, <4>1 DEF StoreInv, Alone
      <4>3. Temp[job[q].key] # job[p].key
        BY <2>0, <4>1
      <4>4. Finds(q)
        BY <2>7, <3>2, <4>1 DEF StoreInv, Undisturbed
      <4> QED  BY <2>5, <2>7, <3>2, <4>1, <4>2, <4>3, <4>4 DEF Finds, Expected
    <3> QED  BY <3>1, <3>2
  <2> QED  BY <2>1, <2>2, <2>3, <2>4 DEF StoreInv
<1>9. ASSUME NEW p \in Process, WipeUnlink(p)  PROVE  StoreInv'
  <2> USE <1>9
  <2>0. job[p].key \in Key
    BY DEF WipeUnlink, StoreInv, TypeOK, Contents
  <2>1. TypeOK'
    BY <2>0 DEF WipeUnlink, StoreInv, TypeOK, Goto, Return, Remove
  <2>2. Alone'
    BY GoOnAlone DEF WipeUnlink, StoreInv, TypeOK, Goto, Return, Uses
  <2>3. Whereabouts' /\ Intact'
    BY <2>0 DEF WipeUnlink, StoreInv, TypeOK, Goto, Return, Remove, Whereabouts, Intact, Own
  <2>4. Undisturbed'
    BY <2>0 DEF WipeUnlink, StoreInv, TypeOK, Goto, Return, Remove, Undisturbed, Finds, Expected, Alone, Uses, Contents
  <2> QED  BY <2>1, <2>2, <2>3, <2>4 DEF StoreInv
<1>10. ASSUME NEW k \in Key, Delete(k)  PROVE  StoreInv'
  <2> USE <1>10
  <2>1. TypeOK' /\ Alone'
    <3>1. TypeOK'
      BY DEF Delete, Remove, StoreInv, TypeOK
    <3>2. \A q \in Process : Uses(q)' = Uses(q) /\ pc'[q] = pc[q] /\ job'[q] = job[q]
      BY DEF Delete, Uses
    <3>3. Alone'
      BY <3>2 DEF Delete, StoreInv, Alone
    <3> QED  BY <3>1, <3>3
  <2>2. \A n \in Name : file'[n] \in {file[n], Absent} /\ (n # k => file'[n] = file[n])
    BY DEF Delete, Remove, StoreInv, TypeOK
  <2>3. /\ UNCHANGED <<pc, job, crossed>>
        /\ \A q \in Process : open'[q] = IF open[q] = k THEN "unnamed" ELSE open[q]
    BY DEF Delete, Remove
  <2>4. Whereabouts' /\ Intact'
    BY <2>2, <2>3 DEF StoreInv, Whereabouts, Intact, Own
  <2>5. Undisturbed'
    <3> SUFFICES ASSUME NEW q \in Process, pc[q] # "idle", job[q].key \notin crossed
                 PROVE  Finds(q)'
      BY <2>3 DEF Undisturbed
    <3>1. Finds(q) /\ job[q].key \in Key /\ Temp[job[q].key] \in TempName
      BY DEF StoreInv, TypeOK, Undisturbed, Contents
    <3>2. Temp[job[q].key] # k
      BY <3>1
    <3>3. open'[q] = job[q].key => open[q] = job[q].key /\ job[q].key # k
      BY <2>3, <3>1
    <3>4. file'[Temp[job[q].key]] = file[Temp[job[q].key]]
      BY <2>2, <3>1, <3>2
    <3>5. file'[job[q].key] \in {file[job[q].key], Absent}
          /\ (job[q].key # k => file'[job[q].key] = file[job[q].key])
      BY <2>2, <3>1
    <3>6. open[q] = Temp[job[q].key] => open'[q] = open[q]
      BY <2>3, <3>2
    <3> QED  BY <2>3, <3>1, <3>3, <3>4, <3>5, <3>6 DEF Finds, Expected
  <2> QED  BY <2>1, <2>4, <2>5 DEF StoreInv
<1>11. ASSUME UNCHANGED vars  PROVE  StoreInv'
  <2> USE <1>11 DEF vars
  <2>1. TypeOK'
    BY DEF StoreInv, TypeOK
  <2>2. Alone'
    <3>1. \A q \in Process : Uses(q)' = Uses(q)
      BY DEF Uses
    <3> QED
      BY <3>1 DEF StoreInv, Alone
  <2>3. Whereabouts' /\ Intact' /\ Undisturbed'
    BY DEF StoreInv, Whereabouts, Intact, Own, Contents, Undisturbed, Finds, Expected, Uses
  <2> QED
    BY <2>1, <2>2, <2>3 DEF StoreInv
<1> QED
  BY <1>1, <1>2, <1>3, <1>4, <1>5, <1>6, <1>7, <1>8, <1>9, <1>10, <1>11, <1>12
  DEF Next

-----------------------------------------------------------------------------
(* Every step of a process is a step of the abstract store. *)
LEMMA StepStore ==
  ASSUME StoreInv, StoreInv', [Next]_vars
  PROVE  [Store!Next]_(Store!vars)
<1> USE DEF Saving, Wiping
<1>0. /\ job \in [Process -> Contents \cup {NoJob}]
      /\ \A p \in Process : pc[p] # "idle" =>
           job[p] \in Contents /\ job[p].key \in Key /\ job[p].value \in Value
  BY DEF StoreInv, TypeOK, Contents
<1>01. ASSUME NEW p \in Process, pc[p] = "write", open[p] \in Name
       PROVE  open[p] \notin Key \ crossed
  BY <1>0, <1>01 DEF StoreInv, Whereabouts
<1> DEFINE request == [p \in Process |-> Requested(p)]
<1>1. ASSUME NEW p \in Process, NEW k \in Key, NEW v \in Value, SaveOpen(p, k, v)
      PROVE  Store!Start(p)
  <2>1. request[p] = Store!NoRequest
    BY <1>1 DEF SaveOpen, Requested, Store!NoRequest
  <2>2. request' = [request EXCEPT ![p] = [kind |-> "save", key |-> k, value |-> v]]
    BY <1>1 DEF SaveOpen, Requested, Goto, StoreInv, TypeOK
  <2>3. Held' = Held
    BY <1>1 DEF SaveOpen, Held, StoreInv, TypeOK, Name
  <2>4. crossed' = crossed \cup crossed' /\ crossed' \in SUBSET Key
    BY <1>1 DEF SaveOpen, Begins, StoreInv, TypeOK
  <2> QED  BY <2>1, <2>2, <2>3, <2>4 DEF Store!Start, Store!Request
<1>2. ASSUME NEW p \in Process, NEW k \in Key, WipeBegin(p, k)
      PROVE  Store!Start(p)
  <2>1. request[p] = Store!NoRequest
    BY <1>2 DEF WipeBegin, Requested, Store!NoRequest
  <2>2. request' = [request EXCEPT ![p] = [kind |-> "wipe", key |-> k]]
    <3>1. job'[p].key = k /\ \A q \in Process \ {p} : job'[q] = job[q]
      BY <1>2, <1>0 DEF WipeBegin
    <3>2. pc' = [pc EXCEPT ![p] = "overwrite"] /\ pc \in [Process -> {"idle"} \cup Saving \cup Wiping]
      BY <1>2 DEF WipeBegin, Goto, StoreInv, TypeOK
    <3>3. Requested(p)' = [kind |-> "wipe", key |-> k]
      BY <3>1, <3>2 DEF Requested
    <3>4. \A q \in Process \ {p} : Requested(q)' = Requested(q)
      BY <3>1, <3>2 DEF Requested
    <3> QED  BY <3>3, <3>4
  <2>3. Held' = Held
    BY <1>2 DEF WipeBegin, Held
  <2>4. crossed' = crossed \cup crossed' /\ crossed' \in SUBSET Key
    BY <1>2 DEF WipeBegin, Begins, StoreInv, TypeOK
  <2> QED  BY <2>1, <2>2, <2>3, <2>4 DEF Store!Start, Store!Request
<1>3. ASSUME NEW p \in Process, SaveWrite(p)
      PROVE  Store!Meanwhile(p)
  <2>1. request[p] # Store!NoRequest /\ request' = request
    BY <1>3 DEF SaveWrite, Requested, Goto, StoreInv, TypeOK, Store!NoRequest
  <2>2. \A k \in Key \ crossed : Held'[k] = Held[k]
    <3>1. \A k \in Key \ crossed : file'[k] = file[k]
      BY <1>01, <1>3 DEF SaveWrite, StoreInv, TypeOK, Name
    <3> QED  BY <3>1 DEF Held
  <2> QED  BY <1>3, <2>1, <2>2 DEF SaveWrite, Store!Meanwhile, Store!Holds
<1>4. ASSUME NEW p \in Process, SaveWriteFails(p) \/ SaveRenameFails(p) \/ Die(p)
      PROVE  Store!GiveUp(p)
  <2>1. request[p] # Store!NoRequest
    BY <1>4 DEF SaveWriteFails, SaveRenameFails, Die, Requested, StoreInv, TypeOK, Store!NoRequest
  <2>2. request' = [request EXCEPT ![p] = Store!NoRequest]
    BY <1>4, ZenonT(60) DEF SaveWriteFails, SaveRenameFails, Die, Return, Requested, Goto, StoreInv, TypeOK, Store!NoRequest
  <2>3. \A k \in Key \ crossed : Held'[k] = Held[k]
    <3>1. \A k \in Key \ crossed : file'[k] = file[k]
      BY <1>01, <1>4 DEF SaveWriteFails, SaveRenameFails, Die, StoreInv, TypeOK, Name
    <3> QED  BY <3>1 DEF Held
  <2> QED
    BY <1>4, <2>1, <2>2, <2>3
    DEF SaveWriteFails, SaveRenameFails, Die, Store!GiveUp, Store!Holds, Store!Ends
<1>5. ASSUME NEW p \in Process, SaveRename(p)
      PROVE  Store!Save(p)
  <2>1. request[p] = [kind |-> "save", key |-> job[p].key, value |-> job[p].value]
    BY <1>5 DEF SaveRename, Requested
  <2>2. request' = [request EXCEPT ![p] = Store!NoRequest]
    BY <1>5 DEF SaveRename, Return, Requested, Goto, StoreInv, TypeOK, Store!NoRequest
  <2>3. file' = [file EXCEPT ![job[p].key] = file[Temp[job[p].key]], ![Temp[job[p].key]] = Absent]
    BY <1>5 DEF SaveRename, Renamed
  <2>4. Temp[job[p].key] \notin Key /\ job[p].key \in Key
    BY <1>5, <1>0 DEF SaveRename
  <2>5. job[p].key \notin crossed => file'[job[p].key] = job[p]
    BY <1>5, <2>3, <2>4 DEF SaveRename, StoreInv, TypeOK, Undisturbed, Finds, Expected, Name
  <2>6. job[p].key \notin crossed => Held'[job[p].key] = job[p].value
    <3>1. job[p] \in Contents /\ job[p].key \in Key
      BY <1>0, <1>5 DEF SaveRename
    <3>2. Meaning(job[p].key, job[p]) = job[p].value
      BY <3>1, Meanings
    <3> QED  BY <2>5, <3>1, <3>2 DEF Held
  <2>7. \A k \in Key \ {job[p].key} : Held'[k] = Held[k]
    BY <2>3, <2>4 DEF Held, StoreInv, TypeOK, Name
  <2>8. \A k \in Key \ crossed : Held'[k] = [Held EXCEPT ![job[p].key] = job[p].value][k]
    BY <2>6, <2>7 DEF Held
  <2> QED  BY <1>5, <2>1, <2>2, <2>8 DEF SaveRename, Store!Save, Store!Holds, Store!Ends
<1>6. ASSUME NEW p \in Process, WipeOpen(p)
      PROVE  Store!GiveUp(p) \/ Store!Meanwhile(p)
  <2>1. Held' = Held /\ request[p] # Store!NoRequest
    BY <1>6 DEF WipeOpen, Held, Requested, Store!NoRequest
  <2>2. CASE file[job[p].key] = Absent
    <3>1. request' = [request EXCEPT ![p] = Store!NoRequest]
      <4>1. pc' = [pc EXCEPT ![p] = "idle"] /\ pc \in [Process -> {"idle"} \cup Saving \cup Wiping]
        BY <1>6, <2>2 DEF WipeOpen, Return, Goto, StoreInv, TypeOK
      <4>2. \A q \in Process \ {p} : job'[q] = job[q]
        BY <1>0, <1>6, <2>2 DEF WipeOpen, Return
      <4> QED  BY <4>1, <4>2 DEF Requested, Store!NoRequest
    <3> QED  BY <1>6, <2>1, <3>1 DEF WipeOpen, Store!GiveUp, Store!Holds, Store!Ends
  <2>3. CASE file[job[p].key] # Absent
    <3>1. request' = request
      BY <1>6, <2>3 DEF WipeOpen, Requested, Goto, StoreInv, TypeOK
    <3> QED  BY <1>6, <2>1, <3>1 DEF WipeOpen, Store!Meanwhile, Store!Holds
  <2> QED  BY <2>2, <2>3
<1>7. ASSUME NEW p \in Process, WipeChunk(p) \/ WipeZero(p)
      PROVE  Store!Zero(p) \/ Store!Meanwhile(p)
  <2>1. request[p] = [kind |-> "wipe", key |-> job[p].key] /\ request' = request
    BY <1>7 DEF WipeChunk, WipeZero, Requested, Goto, StoreInv, TypeOK
  <2>2. CASE open[p] \in Name
    <3>1. open[p] = job[p].key /\ job[p].key \in Key /\ job[p] \in Contents
      BY <1>0, <1>7, <2>2 DEF WipeChunk, WipeZero, StoreInv, TypeOK, Whereabouts, Name
    <3>2. \A k \in Key \ {job[p].key} : file'[k] = file[k]
      BY <1>7, <3>1 DEF WipeChunk, WipeZero, StoreInv, TypeOK, Name
    <3>3. \A k \in Key \ {job[p].key} : Held'[k] = Held[k]
      BY <3>2 DEF Held
    <3>4. ASSUME job[p].key \notin crossed
          PROVE  /\ Held[job[p].key] # Absent
                 /\ Held'[job[p].key] \in {Store!Rest(Held[job[p].key]), Zeroed}
      <4>1. file[job[p].key] \in Expected(p)
        BY <1>7, <3>1, <3>4 DEF WipeChunk, WipeZero, StoreInv, Undisturbed, Finds
      <4>2. /\ file'[job[p].key] \in {[rest |-> job[p]], Zeroed}
            /\ file[job[p].key] = Zeroed => file'[job[p].key] = Zeroed
        BY <1>7, <3>1, <4>1 DEF WipeChunk, WipeZero, StoreInv, TypeOK, Name, Expected
      <4>3. Meaning(job[p].key, job[p]) = job[p].value /\ job[p].value \in Value
        BY <3>1, Meanings
      <4>4. Meaning(job[p].key, [rest |-> job[p]]) = [rest |-> job[p].value]
        BY <3>1, Meanings
      <4>5. Meaning(job[p].key, Zeroed) = Zeroed
        BY <3>1, Meanings
      <4>6. Store!Rest(job[p].value) = [rest |-> job[p].value]
            /\ Store!Rest([rest |-> job[p].value]) = [rest |-> job[p].value]
        BY <4>3 DEF Store!Rest
      <4>7. job[p].value # Absent /\ Zeroed # Absent /\ [rest |-> job[p].value] # Absent
        <5>1. [rest |-> job[p].value] # Absent
          BY <4>3
        <5> QED  BY <4>3, <5>1
      <4>8. Held[job[p].key] \in {job[p].value, [rest |-> job[p].value], Zeroed}
        BY <3>1, <4>1, <4>3, <4>4, <4>5 DEF Held, Expected
      <4>9. Held'[job[p].key] \in {[rest |-> job[p].value], Zeroed}
        BY <3>1, <4>2, <4>4, <4>5 DEF Held
      <4>10. Held[job[p].key] = Zeroed => Held'[job[p].key] = Zeroed
        <5>1. [rest |-> job[p].value] # Zeroed /\ job[p].value # Zeroed
          BY <4>3
        <5>2. Held[job[p].key] = Zeroed => file[job[p].key] = Zeroed
          BY <3>1, <4>1, <4>3, <4>4, <5>1 DEF Held, Expected
        <5> QED  BY <3>1, <4>2, <4>5, <5>2 DEF Held
      <4> QED  BY <4>6, <4>7, <4>8, <4>9, <4>10
    <3>5. \E z \in {Store!Rest(Held[job[p].key]), Zeroed} :
            \A k \in Key \ crossed : Held'[k] = [Held EXCEPT ![job[p].key] = z][k]
      <4>1. PICK z \in {Store!Rest(Held[job[p].key]), Zeroed} :
              job[p].key \notin crossed => Held'[job[p].key] = z
        BY <3>4
      <4> QED  BY <3>1, <3>3, <4>1 DEF Held
    <3>6. crossed' = crossed
      BY <1>7 DEF WipeChunk, WipeZero
    <3> QED  BY <2>1, <3>4, <3>5, <3>6 DEF Store!Zero, Store!Holds
  <2>3. CASE open[p] \notin Name
    BY <1>7, <2>1, <2>3 DEF WipeChunk, WipeZero, Held, Store!Meanwhile, Store!Holds, Store!NoRequest
  <2> QED  BY <2>2, <2>3
<1>8. ASSUME NEW p \in Process, WipeUnlink(p)
      PROVE  Store!Wiped(p)
  <2>1. request[p] = [kind |-> "wipe", key |-> job[p].key]
    BY <1>8 DEF WipeUnlink, Requested
  <2>2. request' = [request EXCEPT ![p] = Store!NoRequest]
    BY <1>8 DEF WipeUnlink, Return, Requested, Goto, StoreInv, TypeOK, Store!NoRequest
  <2>3. Held' = [Held EXCEPT ![job[p].key] = Absent]
    <3>1. job[p].key \in Key /\ file' = [file EXCEPT ![job[p].key] = Absent]
      BY <1>0, <1>8 DEF WipeUnlink, Remove
    <3>2. Meaning(job[p].key, Absent) = Absent
      BY <3>1, Meanings
    <3> QED  BY <3>1, <3>2 DEF Held, StoreInv, TypeOK, Name
  <2> QED  BY <1>8, <2>1, <2>2, <2>3 DEF WipeUnlink, Store!Wiped, Store!Holds, Store!Ends
<1>9. ASSUME NEW k \in Key, Delete(k)
      PROVE  Store!Delete(k)
  <2>1. Held' = [Held EXCEPT ![k] = Absent]
    <3>1. file' = [file EXCEPT ![k] = Absent]
      BY <1>9 DEF Delete, Remove
    <3>2. Meaning(k, Absent) = Absent
      BY Meanings
    <3> QED  BY <3>1, <3>2 DEF Held, StoreInv, TypeOK, Name
  <2>2. request' = request
    BY <1>9 DEF Delete, Requested
  <2> QED  BY <1>9, <2>1, <2>2 DEF Delete, Store!Delete, Store!Holds
<1>10. ASSUME UNCHANGED vars
       PROVE  UNCHANGED Store!vars
  BY <1>10 DEF vars, Store!vars, Held, Requested
<1> QED
  BY <1>1, <1>2, <1>3, <1>4, <1>5, <1>6, <1>7, <1>8, <1>9, <1>10 DEF Next, Store!Next

LEMMA InitStore == Init => Store!Init
BY Meanings DEF Init, Store!Init, Held, Requested, Store!NoRequest, Name, Saving, Wiping

THEOREM InvariantHolds == Spec => []StoreInv
<1>1. Init => StoreInv
  BY InitInv
<1>2. StoreInv /\ [Next]_vars => StoreInv'
  BY StepInv
<1> QED  BY <1>1, <1>2, PTL DEF Spec

(* Type correctness, and a process has a file open exactly while it writes *)
(* one.                                                                    *)
THEOREM StoreTyped == Spec => []TypeOK
<1>1. StoreInv => TypeOK
  BY DEF StoreInv
<1> QED  BY <1>1, InvariantHolds, PTL

(* FileKeyStore: a key on which no two operations met never holds a part   *)
(* of a save, an empty file, or what was saved under another key, and a    *)
(* wipe that is cut short leaves there zeros in front of what it held.     *)
THEOREM NothingTornAlways == Spec => []NothingTorn
<1>1. StoreInv => NothingTorn
  BY DEF StoreInv, Intact, Own, NothingTorn
<1> QED  BY <1>1, InvariantHolds, PTL

(* atomic_write renames its own contents unless another operation met it.  *)
THEOREM OwnTemporaryAlways == Spec => []OwnTemporary
<1>1. StoreInv => OwnTemporary
  BY DEF StoreInv, Undisturbed, Finds, Expected, OwnTemporary, Saving
<1> QED  BY <1>1, InvariantHolds, PTL

(* FileKeyStore implements the atomic store: where no two operations met,  *)
(* every save takes effect as a whole in the step it succeeds in, or not   *)
(* at all, and every write of a wipe only puts zeros in front of a value.  *)
THEOREM StoreImplemented == Spec => ImplementsStore
<1>1. StoreInv /\ StoreInv' /\ [Next]_vars => [Store!Next]_(Store!vars)
  BY StepStore
<1> QED  BY <1>1, InitStore, InvariantHolds, PTL DEF Spec, Store!Spec, ImplementsStore
=============================================================================
