-------------------------------- MODULE System ------------------------------
(***************************************************************************)
(* A conversation that is stored and paged while the services it goes      *)
(* through stop and start: rows are stored by a message service that       *)
(* consumes, pages given by one that serves, through a gateway that does.  *)
(***************************************************************************)
EXTENDS Startup, History

vars == <<startupVars, historyVars>>

TypeOK == StartupTypeOK /\ HistoryTypeOK

Init == StartupInit /\ HistoryInit

(* The message service stores what it consumes, and may end at it. *)
Consume ==
  /\ ms # "down" /\ SaveMsg
  /\ \/ UNCHANGED startupVars
     \/ MessagePanics

Page == ms = "serving" /\ gw = "serving" /\ GetMsgs /\ UNCHANGED startupVars

Process == (UserStep \/ MessageStep \/ GatewayStep) /\ UNCHANGED historyVars

Next == Consume \/ Page \/ Process

Spec == Init /\ [][Next]_vars

=============================================================================
