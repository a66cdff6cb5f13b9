----------------------------- MODULE MCRecovery -----------------------------
EXTENDS Recovery

(* All four channels and one death, or one channel of each connection and two. *)
AllOrTwice == {[slots |-> Slot, faults |-> 1],
               [slots |-> {"saveMsg", "sendMsg"}, faults |-> 2]}

=============================================================================
