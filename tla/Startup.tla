------------------------------- MODULE Startup ------------------------------
(***************************************************************************)
(* The three services as processes that start, stop and start again.       *)
(*                                                                         *)
(* The user service keeps the RSA pair that signs and verifies tokens in   *)
(* two files of its container, made at its first start; every gateway      *)
(* fetches them once, when it starts.  The message service and the gateway *)
(* consume from RabbitMQ before they have all they consume with.           *)
(* A container may be started again, its files and host name kept, or      *)
(* replaced by a new one; nothing in the deployment mounts the files.      *)
(***************************************************************************)
EXTENDS Naturals

CONSTANTS
  None,           \* no file, no key
  Torn,           \* a file that is created and not yet written
  MaxKeys,        \* bound: pairs made
  MaxStops        \* bound: processes that stop

ASSUME StartupAssumption ==
  /\ MaxKeys \in Nat /\ MaxStops \in Nat
  /\ None \notin Nat /\ Torn \notin Nat /\ None # Torn

VARIABLES
  us,        \* the user service's main
  priv, pub, \* private.pem and public.pem: None, Torn, or the pair they are of
  held,      \* utils.PrivKey and utils.PubKey of the user service
  made,      \* how many pairs have been made
  ms,        \* the message service's main
  gw,        \* the gateway's main
  gwKey,     \* utils.PubKey of the gateway
  replaced,  \* history: the user service's container is another one than
             \* when the gateway fetched the keys
  roster,    \* Redis names the gateway's host as some user's
  stops

startupVars == <<us, priv, pub, held, made, ms, gw, gwKey, replaced, roster, stops>>
userVars    == <<us, priv, pub, held, made>>
gatewayVars == <<gw, gwKey, replaced, roster>>

Key == 1..MaxKeys

UserMain    == {"down", "public", "published", "private", "keys", "serving"}
MessageMain == {"down", "consuming", "serving"}
GatewayMain == {"down", "consuming", "keys", "serving"}

StartupTypeOK ==
  /\ us \in UserMain /\ ms \in MessageMain /\ gw \in GatewayMain
  /\ priv \in Key \union {None, Torn} /\ pub \in Key \union {None, Torn}
  /\ held \in [priv : Key \union {None}, pub : Key \union {None}]
  /\ made \in 0..MaxKeys
  /\ gwKey \in Key \union {None}
  /\ gw \in {"keys", "serving"} => gwKey \in Key
  /\ replaced \in BOOLEAN /\ roster \in BOOLEAN
  /\ stops \in 0..MaxStops

Forgotten == [priv |-> None, pub |-> None]

StartupInit ==
  /\ us = "down" /\ ms = "down" /\ gw = "down"
  /\ priv = None /\ pub = None /\ held = Forgotten /\ made = 0
  /\ gwKey = None /\ replaced = FALSE /\ roster = FALSE
  /\ stops = 0

Stop == stops < MaxStops /\ stops' = stops + 1

-----------------------------------------------------------------------------
(* The user service. *)

Generate ==
  /\ made < MaxKeys
  /\ made' = made + 1
  /\ held' = [priv |-> made + 1, pub |-> made + 1]
  /\ pub' = Torn /\ us' = "public"
  /\ UNCHANGED priv

(* Without a private.pem a pair is made and public.pem created; with one   *)
(* both are read, and a file that cannot be decoded ends the process: a    *)
(* torn private.pem in Fatalf, a torn public.pem in a nil dereference.     *)
UserStart ==
  /\ us = "down"
  /\ \/ priv = None /\ Generate
     \/ /\ priv \in Key /\ pub \in Key
        /\ held' = [priv |-> priv, pub |-> pub] /\ us' = "keys"
        /\ UNCHANGED <<priv, pub, made>>
  /\ UNCHANGED <<ms, gatewayVars, stops>>

(* Mutant: what Encode returns is not looked at. *)
EncodePublic_Unchecked ==
  /\ us = "public"
  /\ us' = "published" /\ pub' \in {Torn, held.pub}
  /\ UNCHANGED <<priv, held, made, ms, gatewayVars, stops>>

EncodePublic ==
  /\ us = "public"
  /\ us' = "published" /\ pub' = held.pub
  /\ UNCHANGED <<priv, held, made, ms, gatewayVars, stops>>

CreatePrivate ==
  /\ us = "published"
  /\ us' = "private" /\ priv' = Torn
  /\ UNCHANGED <<pub, held, made, ms, gatewayVars, stops>>

EncodePrivate ==
  /\ us = "private"
  /\ us' = "keys" /\ priv' = held.priv
  /\ UNCHANGED <<pub, held, made, ms, gatewayVars, stops>>

(* Postgres is reached, Redis is looked for when it is needed. *)
UserServe ==
  /\ us = "keys" /\ us' = "serving"
  /\ UNCHANGED <<priv, pub, held, made, ms, gatewayVars, stops>>

(* A failed step of the start, a crash, a stop. *)
UserStops ==
  /\ us # "down" /\ Stop
  /\ us' = "down" /\ held' = Forgotten
  /\ UNCHANGED <<priv, pub, made, ms, gatewayVars>>

(* A new container: the files are gone. *)
UserReplaced ==
  /\ Stop
  /\ us' = "down" /\ held' = Forgotten /\ priv' = None /\ pub' = None
  /\ replaced' = TRUE
  /\ UNCHANGED <<made, ms, gw, gwKey, roster>>

-----------------------------------------------------------------------------
(* The message service. *)

(* Postgres, then RabbitMQ and at once the consumption of q_save_msg. *)
MessageInitMq ==
  /\ ms = "down" /\ ms' = "consuming"
  /\ UNCHANGED <<userVars, gatewayVars, stops>>

MessageInitRedis ==
  /\ ms = "consuming" /\ ms' = "serving"
  /\ UNCHANGED <<userVars, gatewayVars, stops>>

(* A message that is saved before InitRedis has its host looked up through *)
(* a nil client.                                                           *)
MessagePanics ==
  /\ ms = "consuming" /\ Stop /\ ms' = "down"
  /\ UNCHANGED <<userVars, gatewayVars>>

MessageStops ==
  /\ ms # "down" /\ Stop /\ ms' = "down"
  /\ UNCHANGED <<userVars, gatewayVars>>

-----------------------------------------------------------------------------
(* The gateway. *)

(* The stubs connect when they are used; InitMq ends with the consumption  *)
(* of the queue that has the host's name.                                  *)
GatewayInitMq ==
  /\ gw = "down" /\ gw' = "consuming"
  /\ UNCHANGED <<userVars, ms, gwKey, replaced, roster, stops>>

(* Mutant: the gateway goes on without keys. *)
GetRSAKeys_Unchecked ==
  /\ gw = "consuming"
  /\ gw' = "keys"
  /\ gwKey' = (IF us = "serving" THEN pub ELSE None)
  /\ replaced' = FALSE
  /\ UNCHANGED <<userVars, ms, roster, stops>>

(* Mutant: the service listens before private.pem is written. *)
GetRSAKeys_Early ==
  /\ gw = "consuming"
  /\ us # "down" /\ pub \in Key
  /\ gw' = "keys" /\ gwKey' = pub
  /\ replaced' = FALSE
  /\ UNCHANGED <<userVars, ms, roster, stops>>

(* Both files are read anew for every caller. *)
KeysServed == us = "serving" /\ priv \in Key /\ pub \in Key

(* Without an answer, or with one it cannot parse, main ends. *)
GetRSAKeys ==
  /\ gw = "consuming" /\ KeysServed
  /\ gw' = "keys" /\ gwKey' = pub
  /\ replaced' = FALSE
  /\ UNCHANGED <<userVars, ms, roster, stops>>

(* InitRedis and the list of clients, then the routes. *)
GatewayServe ==
  /\ gw = "keys" /\ gw' = "serving"
  /\ UNCHANGED <<userVars, ms, gwKey, replaced, roster, stops>>

(* Users connect and leave, or their keys expire. *)
RosterChanges ==
  /\ roster' = ~roster
  /\ gw = "serving" \/ roster
  /\ UNCHANGED <<userVars, ms, gw, gwKey, replaced, stops>>

GatewayEnds ==
  gw' = "down" /\ gwKey' = None /\ UNCHANGED replaced

(* A delivery for a user of the gateway's former life finds no list. *)
GatewayPanics ==
  /\ gw \in {"consuming", "keys"} /\ roster /\ ms = "serving" /\ Stop
  /\ GatewayEnds
  /\ UNCHANGED <<userVars, ms, roster>>

GatewayStops ==
  /\ gw # "down" /\ Stop
  /\ GatewayEnds
  /\ UNCHANGED <<userVars, ms, roster>>

(* A new container has another host name, of which Redis knows nothing. *)
GatewayReplaced ==
  /\ Stop
  /\ GatewayEnds
  /\ roster' = FALSE
  /\ UNCHANGED <<userVars, ms>>

UserStep    == \/ UserStart \/ EncodePublic \/ CreatePrivate \/ EncodePrivate
               \/ UserServe \/ UserStops \/ UserReplaced
MessageStep == MessageInitMq \/ MessageInitRedis \/ MessageStops
GatewayStep == \/ GatewayInitMq \/ GetRSAKeys \/ GatewayServe \/ RosterChanges
               \/ GatewayPanics \/ GatewayStops \/ GatewayReplaced

-----------------------------------------------------------------------------
(* Properties *)

(* However often the user service stops between two writes, a written      *)
(* private.pem has its mate beside it, and the keys the service signs and  *)
(* verifies with are one pair: a start that reads the files is never lost  *)
(* to public.pem, whose nil block main.go:127 would dereference.           *)
FilesMatch ==
  /\ priv \in Key => pub = priv
  /\ held.priv = held.pub
  /\ us \in {"keys", "serving"} => priv = held.priv /\ priv \in Key

(* A gateway refuses the tokens the user service signs only if that        *)
(* service's container was replaced after the gateway fetched the keys:    *)
(* services that stop and start, in any order, do not part them.           *)
TokensVerify ==
  gw \in {"keys", "serving"} /\ us \in {"keys", "serving"} /\ gwKey # held.priv => replaced

=============================================================================
