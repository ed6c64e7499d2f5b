---------------------------------- MODULE Pki ----------------------------------
(***************************************************************************)
(* Certificate requests, certificates and signed credentials, as           *)
(* packages/dp-rust-mtls/src/lib.rs makes and checks them, without their   *)
(* encoding.  A key pair stands for itself and for its SKI, the thumbprint *)
(* of its public key; a signature for the key pair that made it.           *)
(***************************************************************************)

(* generate_key_and_csr, build_csr_from_private_pem: a request names its   *)
(* key and is signed with it.                                              *)
Csr(k) == [key |-> k, signer |-> k]

(* What happens to a request on its way, or in a file: another key's       *)
(* signature under it.                                                     *)
Tampered(k, other) == [key |-> k, signer |-> other]

(* verify_strict, before anything is issued. *)
CsrVerifies(csr) == csr.signer = csr.key

(* create_self_signed_ca *)
SelfSigned(k) == [key |-> k, ski |-> k, signer |-> k]

(* The leaf has the key of the request, and the SKI its caller trusts. *)
Leaf(csr, ski, ca) == [key |-> csr.key, ski |-> ski, signer |-> ca]

(* verify_ed25519_cert_against_issuer *)
VerifiesAgainst(cert, issuer) == cert.signer = issuer.key

(* compact_jws_sign, compact_jws_verify: the payload is compared first. *)
Jws(k, payload) == [signer |-> k, payload |-> payload]

JwsVerifies(k, jws, payload) == jws.payload = payload /\ jws.signer = k

(* unsigned_machine_credential, as far as it is about keys. *)
MachineCredential(ski, issuer) == [ski |-> ski, issuer |-> issuer]

(* issue_machine_leaf: leaf, chain and credential for a request; the       *)
(* certificate in the chain is the one in the directory, the leaf is       *)
(* signed with the private key.                                            *)
Issued(csr, ca) ==
  LET credential == MachineCredential(csr.key, ca.ski)
  IN [leaf |-> Leaf(csr, csr.key, ca.ski),
      chain |-> ca.cert,
      credential |-> credential,
      signature |-> Jws(ca.ski, credential),
      issuer |-> ca.ski]
=============================================================================
