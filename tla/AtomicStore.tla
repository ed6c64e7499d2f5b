------------------------------ MODULE AtomicStore ------------------------------
(***************************************************************************)
(* What a key store promises (trait KeyStore, keystore.rs): a key holds    *)
(* nothing or the value of one save, and a save takes effect as a whole,   *)
(* when it succeeds, or not at all.  A wipe is no such thing: it puts more *)
(* and more zeros over the value before it removes it, and can stop        *)
(* anywhere on the way.                                                    *)
(* FileKeyStore keeps the promise for the keys no two operations met on;   *)
(* for the others, in crossed, nothing is said.                            *)
(***************************************************************************)
CONSTANTS Process, Key, Value, Absent, Zeroed

VARIABLES
  held,     \* what each key holds
  request,  \* the operation each process is in, NoRequest if none
  crossed   \* the keys on which two operations met

vars == <<held, request, crossed>>

NoRequest == [kind |-> "none"]

Request ==
  [kind : {"save"}, key : Key, value : Value] \cup [kind : {"wipe"}, key : Key]

Init ==
  /\ held = [k \in Key |-> Absent]
  /\ request = [p \in Process |-> NoRequest]
  /\ crossed = {}

(* Whatever happens to the keys in crossed, what the others hold is this. *)
Holds(h) == \A k \in Key \ crossed : held'[k] = h[k]

Ends(p) == request' = [request EXCEPT ![p] = NoRequest] /\ UNCHANGED crossed

Start(p) ==
  /\ request[p] = NoRequest
  /\ \E r \in Request : request' = [request EXCEPT ![p] = r]
  /\ \E K \in SUBSET Key : crossed' = crossed \cup K
  /\ UNCHANGED held

Save(p) ==
  /\ request[p].kind = "save"
  /\ Holds([held EXCEPT ![request[p].key] = request[p].value])
  /\ Ends(p)

(* What zeros over the beginning of a value leave. *)
Rest(v) == IF v \in Value THEN [rest |-> v] ELSE v

Zero(p) ==
  /\ request[p].kind = "wipe"
  /\ request[p].key \in crossed \/ held[request[p].key] # Absent
  /\ \E z \in {Rest(held[request[p].key]), Zeroed} :
       Holds([held EXCEPT ![request[p].key] = z])
  /\ UNCHANGED <<request, crossed>>

Wiped(p) ==
  /\ request[p].kind = "wipe"
  /\ Holds([held EXCEPT ![request[p].key] = Absent])
  /\ Ends(p)

GiveUp(p) == request[p] # NoRequest /\ Holds(held) /\ Ends(p)

Meanwhile(p) == request[p] # NoRequest /\ Holds(held) /\ UNCHANGED <<request, crossed>>

Delete(k) == Holds([held EXCEPT ![k] = Absent]) /\ UNCHANGED <<request, crossed>>

Next ==
  \/ \E p \in Process :
       Start(p) \/ Save(p) \/ Zero(p) \/ Wiped(p) \/ GiveUp(p) \/ Meanwhile(p)
  \/ \E k \in Key : Delete(k)

Spec == Init /\ [][Next]_vars
=============================================================================
