----------------------------- MODULE MCPipeline -----------------------------
(* Instances of Pipeline for TLC: two users who write to each other.       *)
EXTENDS Pipeline

CONSTANTS u1, u2, m1, m2

BothSenders  == [m \in Msg |-> IF m = m1 THEN u1 ELSE u2]
BothReceivers == [m \in Msg |-> IF m = m1 THEN u2 ELSE u1]
=============================================================================
