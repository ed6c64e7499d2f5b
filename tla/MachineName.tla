----------------------------- MODULE MachineName -----------------------------
(***************************************************************************)
(* The names of machines and organisations: <machine><separator><entity>   *)
(* (packages/dp-rust-sdk/src/identity.rs), and the entity ids that signup  *)
(* makes (packages/dp-cli/src/commands/signup.rs).                         *)
(*                                                                         *)
(* Here a text is a sequence of characters, since what can go wrong is     *)
(* where it is cut.                                                        *)
(***************************************************************************)
EXTENDS Integers, SequencesExt, FiniteSetsExt

Text(characters, length) == UNION {[1 .. n -> characters] : n \in 0 .. length}

Upper == {"A", "B"}
NotAscii == {"~"}
NameCharacters == {"a", "b", "0", ".", "-"}

Occurs(at, piece, text) ==
  at + Len(piece) - 1 <= Len(text) /\ SubSeq(text, at, at + Len(piece) - 1) = piece

Within(text, piece) == \E at \in 1 .. Len(text) : Occurs(at, piece, text)

ValidMachineName(name, separator) ==
  name # <<>> /\ ~ Within(name, separator) /\ Range(name) \subseteq NameCharacters

ValidEntityId(entity, separator) ==
  /\ entity # <<>> /\ ~ Within(entity, separator)
  /\ Range(entity) \cap (Upper \cup NotAscii) = {}

Valid(identity) ==
  /\ identity.separator # <<>>
  /\ ValidMachineName(identity.name, identity.separator)
  /\ ValidEntityId(identity.entity, identity.separator)

AsStr(identity) == identity.name \o identity.separator \o identity.entity

(* Cut at the last separator; what is invalid then is an error: no result. *)
Parse(raw, separator) ==
  IF separator = <<>> \/ ~ Within(raw, separator) THEN {}
  ELSE LET at == Max({i \in 1 .. Len(raw) : Occurs(i, separator, raw)})
           identity == [name |-> SubSeq(raw, 1, at - 1), separator |-> separator,
                        entity |-> SubSeq(raw, at + Len(separator), Len(raw))]
       IN {i \in {identity} : Valid(i)}

(* issue_machine_leaf: the name a machine's permissions are for is cut from *)
(* the host of its enrollment, or is all of it; without a host it is the SKI. *)
PermittedName(hosts, ski, separator) ==
  CASE hosts = {} -> ski
    [] \E h \in hosts : Parse(h, separator) # {} ->
         (CHOOSE i \in UNION {Parse(h, separator) : h \in hosts} : TRUE).name
    [] OTHER -> CHOOSE h \in hosts : TRUE

Trim(text) ==
  LET kept == {i \in DOMAIN text : text[i] # " "}
  IN IF kept = {} THEN <<>> ELSE SubSeq(text, Min(kept), Max(kept))

Lowered(c) == CASE c = "A" -> "a" [] c = "B" -> "b" [] OTHER -> c

(* The separator is "--" here, whichever is used elsewhere.                *)
NormalizeEntityId(raw) ==
  LET kept == Trim(raw)
      id == [i \in DOMAIN kept |-> Lowered(kept[i])]
  IN {e \in {id} : e # <<>> /\ ~ Within(e, <<"-", "-">>) /\ Range(e) \cap NotAscii = {}}

(* resolve_signup: a personal organisation has the name of an address.     *)
ResolveSignup(kind, raw) ==
  {[entity |-> e, package |-> IF kind = "personal" THEN "personal" ELSE "enterprise"] :
     e \in {n \in NormalizeEntityId(raw) : kind = "personal" => "@" \in Range(n)}}
=============================================================================
