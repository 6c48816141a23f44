---------------------------- MODULE IdentityKeys ----------------------------
(***************************************************************************)
(* The key of an identity in the stores without composite keys: source,    *)
(* separator and reference in one string, a sequence of characters here.   *)
(* The separator is ":" in the local stores and "#" in DynamoDB.           *)
(***************************************************************************)
EXTENDS Sequences

(* Mutant of key: nothing between the two.                                 *)
keyUnseparated(source, reference, separator) == source \o reference

key(source, reference, separator) == source \o <<separator>> \o reference

=============================================================================
