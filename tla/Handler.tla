------------------------------- MODULE Handler ------------------------------
(***************************************************************************)
(* What a connection's two goroutines owe each other, without sockets,     *)
(* frames, broker or Redis.  The parent serves, comes to its end and hands *)
(* over the close signal; only a child that still listens takes it, and    *)
(* only then is the connection cleaned up.  A child that ends by itself    *)
(* waits for the parent to notice, and the parent notices only between two *)
(* frames.  Presence has this as its child variable; Relay, which has the  *)
(* channels between the two in detail, implements it.                      *)
(***************************************************************************)

CONSTANT Conn

VARIABLES
  phase,   \* of the parent: none, serving, leaving or over
  aide     \* the child: none, up, waiting to be noticed, or done

vars == <<phase, aide>>

Init == phase = [c \in Conn |-> "none"] /\ aide = [c \in Conn |-> "none"]

Start(c) ==
  /\ phase[c] = "none"
  /\ phase' = [phase EXCEPT ![c] = "serving"]
  /\ aide' = [aide EXCEPT ![c] = "up"]

EndLoop(c) ==
  /\ phase[c] = "serving"
  /\ phase' = [phase EXCEPT ![c] = "leaving"]
  /\ UNCHANGED aide

ChildEnds(c) ==
  /\ phase[c] \in {"serving", "leaving"} /\ aide[c] = "up"
  /\ aide' = [aide EXCEPT ![c] = "waiting"]
  /\ UNCHANGED phase

Respawn(c) ==
  /\ phase[c] = "serving" /\ aide[c] = "waiting"
  /\ aide' = [aide EXCEPT ![c] = "up"]
  /\ UNCHANGED phase

SignalClose(c) ==
  /\ phase[c] = "leaving" /\ aide[c] = "up"
  /\ phase' = [phase EXCEPT ![c] = "over"]
  /\ aide' = [aide EXCEPT ![c] = "done"]

(* The process dies with its connections. *)
Crash(S) ==
  /\ phase' = [c \in Conn |-> IF c \in S THEN "over" ELSE phase[c]]
  /\ aide' = [c \in Conn |-> IF c \in S THEN "none" ELSE aide[c]]

Next ==
  \/ \E c \in Conn : Start(c) \/ EndLoop(c) \/ ChildEnds(c) \/ Respawn(c) \/ SignalClose(c)
  \/ \E S \in SUBSET Conn : Crash(S)

Spec == Init /\ [][Next]_vars
=============================================================================
