---------------------------- MODULE MCKeyStoreFile ----------------------------
(* Small instances of KeyStoreFile for TLC. *)
EXTENDS KeyStoreFile, TLC

(* identity/machine.key and identity/machine.crt share a temporary name. *)
MCTemp == [k \in Key |-> "machine.tmp"]

Symmetry == Permutations(Process) \cup Permutations(Value)
=============================================================================
