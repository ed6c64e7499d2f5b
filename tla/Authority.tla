------------------------------- MODULE Authority -------------------------------
(***************************************************************************)
(* What an organisation's certificate authority promises, seen from        *)
(* outside: the CA each admin keeps, the one the organisation is founded   *)
(* on, and what became of each enrollment.  A CA is kept by one admin and  *)
(* never given up; the organisation is founded once; and a certificate is  *)
(* for the key that asked for it, from the CA of the organisation, in the  *)
(* hands of the admin who founded it.                                      *)
(***************************************************************************)
CONSTANTS Admin, Ca, Id, Key, None

VARIABLES
  kept,        \* the CA each admin keeps
  founded,     \* the CA of the organisation
  founder,     \* ... and the admin who registered it
  status,      \* what became of each enrollment
  asked,       \* the key it is for, and whether the request was its own
  certificate  \* the answer

caVars == <<kept, founded, founder>>

authorityVars == <<kept, founded, founder, status, asked, certificate>>

Init ==
  /\ kept = [p \in Admin |-> None]
  /\ founded = None /\ founder = None
  /\ status = [i \in Id |-> "none"]
  /\ asked = [i \in Id |-> None]
  /\ certificate = [i \in Id |-> None]

-----------------------------------------------------------------------------
(* The CA *)

KeptByOthers(p) == {kept[q] : q \in Admin \ {p}}

(* The CA of the organisation is for its founder to keep. *)
Keep(p) ==
  /\ kept[p] = None
  /\ \E c \in Ca \ KeptByOthers(p) :
       /\ founded = c => founder = p
       /\ kept' = [kept EXCEPT ![p] = c]
  /\ UNCHANGED <<founded, founder, status, asked, certificate>>

Found(p) ==
  /\ founded = None /\ founded' \in Ca \ KeptByOthers(p) /\ founder' = p
  /\ UNCHANGED <<kept, status, asked, certificate>>

-----------------------------------------------------------------------------
(* Enrollments *)

Becomes(i, s) == status' = [status EXCEPT ![i] = s] /\ UNCHANGED caVars

Asks(i, k, own) == asked' = [asked EXCEPT ![i] = [key |-> k, own |-> own]]

(* The founder has the CA at hand. *)
Certifies(i, k) ==
  /\ founded # None /\ kept[founder] = founded
  /\ certificate' = [certificate EXCEPT ![i] = [key |-> k, by |-> founded]]

(* A machine asks, with a request that is its own or is not. *)
Enroll(i) ==
  /\ status[i] = "none" /\ Becomes(i, "pending")
  /\ \E k \in Key, own \in BOOLEAN : Asks(i, k, own)
  /\ UNCHANGED certificate

Certify(i) ==
  /\ status[i] = "pending" /\ Becomes(i, "approved")
  /\ asked[i].own /\ Certifies(i, asked[i].key)
  /\ UNCHANGED asked

(* The founder's own machine need not ask. *)
CertifyAtOnce(i) ==
  /\ status[i] = "none" /\ Becomes(i, "approved")
  /\ \E k \in Key : Asks(i, k, TRUE) /\ Certifies(i, k)

Reject(i) ==
  /\ status[i] = "pending" /\ Becomes(i, "rejected")
  /\ UNCHANGED <<asked, certificate>>

-----------------------------------------------------------------------------
Next ==
  \/ \E p \in Admin : Keep(p) \/ Found(p)
  \/ \E i \in Id : Enroll(i) \/ Certify(i) \/ CertifyAtOnce(i) \/ Reject(i)

Spec == Init /\ [][Next]_authorityVars
=============================================================================
