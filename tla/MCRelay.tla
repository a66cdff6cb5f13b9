------------------------------ MODULE MCRelay -------------------------------
(* Instances of Relay for TLC. *)
EXTENDS Relay, TLC

(* Connections are alike, and so are contacts. *)
Symmetry == Permutations(Conn) \union Permutations(Contact)
=============================================================================
