----------------------------- MODULE MCPresence -----------------------------
(* Instances of Presence for TLC: every connection is the same user's.     *)
EXTENDS Presence

CONSTANTS u1

OneOwner == [c \in Conn |-> u1]
=============================================================================
