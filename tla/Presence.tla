------------------------------ MODULE Presence ------------------------------
(***************************************************************************)
(* Who is connected, as the gateways, Redis and the subscribers of         *)
(* last-seen updates know it.                                              *)
(*                                                                         *)
(* A connection is checked against the gateway's list, added to it,        *)
(* written to Redis (status key, then host key) and announced; at its end  *)
(* the same four things are undone in the same order.  Each of these is a  *)
(* step of its own: handlers of the same user, at one gateway or at two,   *)
(* interleave between any two of them.  The handler of a connection hands  *)
(* its child goroutine a close signal before it cleans up and waits for    *)
(* the child to take it; module Relay has the two goroutines in detail.    *)
(***************************************************************************)
EXTENDS Naturals, FiniteSets

CONSTANTS
  Conn,      \* connections, each opened at most once
  User,
  Gateway,
  Owner,     \* Owner[c]: the user of connection c
  None,      \* no connection, gateway or host
  Online,    \* the status "Online"; any other status is a closing time
  Unknown,   \* no status key
  MaxFaults  \* bound: failures of Redis, broker, processes and children

ASSUME PresenceAssumption ==
  /\ Owner \in [Conn -> User]
  /\ None \notin Conn \union Gateway \union {Online, Unknown}
  /\ Online # Unknown /\ Online \notin Conn /\ Unknown \notin Conn
  /\ MaxFaults \in Nat

VARIABLES
  pc,         \* where the handler of a connection is
  at,         \* the gateway a connection came to
  open,       \* connections whose socket is not broken
  child,      \* the last-seen goroutine of a connection
  clients,    \* per gateway: ClientConns
  lstSn,      \* Redis <user>:lst-sn
  hstnm,      \* Redis <user>:hstnm
  announced,  \* the last status published on x_last_seen
  up,         \* gateways running
  unclean,    \* history: connections that met another of their user, or a fault
  broke,      \* history: connections whose child, ended by itself, was not robbed of
              \* its entry but of its subscription
  stale,      \* history: keys left behind by a crash or a failed write
  faults

vars == <<pc, at, open, child, clients, lstSn, hstnm, announced, up, unclean, broke, stale, faults>>
memory == <<at, open, child, clients, up, broke>>
redis  == <<lstSn, hstnm, stale>>

Fault == faults < MaxFaults /\ faults' = faults + 1

(* Between its check and its last announcement a handler is active. *)
Opening == {"checked", "added", "shown", "routed"}
Closing == {"unlisted", "stamped", "unrouted"}
Listing == {"added", "shown", "routed", "serving", "leaving"}
Active  == Opening \union {"serving", "leaving"} \union Closing

Others(c) == {d \in Conn \ {c} : Owner[d] = Owner[c] /\ pc[d] \in Active}

Init ==
  /\ pc = [c \in Conn |-> "idle"]
  /\ at = [c \in Conn |-> None]
  /\ open = {}
  /\ child = [c \in Conn |-> "none"]
  /\ clients = [g \in Gateway |-> [u \in User |-> None]]
  /\ lstSn = [u \in User |-> Unknown]
  /\ hstnm = [u \in User |-> None]
  /\ announced = [u \in User |-> Unknown]
  /\ up = Gateway
  /\ unclean = {} /\ broke = {} /\ stale = {}
  /\ faults = 0

-----------------------------------------------------------------------------
(* Handler.                                                                *)

(* A user who is on the gateway's list is refused. *)
Exists(c, g) ==
  /\ pc[c] = "idle"
  /\ g \in up
  /\ at' = [at EXCEPT ![c] = g]
  /\ IF clients[g][Owner[c]] # None
     THEN pc' = [pc EXCEPT ![c] = "refused"] /\ UNCHANGED <<open, unclean>>
     ELSE /\ pc' = [pc EXCEPT ![c] = "checked"]
          /\ open' = open \union {c}
          /\ unclean' = IF Others(c) = {} THEN unclean ELSE unclean \union {c} \union Others(c)
  /\ UNCHANGED <<child, clients, redis, announced, up, faults, broke>>

UpgradeFails(c) ==
  /\ pc[c] = "checked" /\ c \notin open
  /\ pc' = [pc EXCEPT ![c] = "refused"]
  /\ UNCHANGED <<memory, redis, announced, unclean, faults>>

AddConn(c) ==
  /\ pc[c] = "checked"
  /\ pc' = [pc EXCEPT ![c] = "added"]
  /\ clients' = [clients EXCEPT ![at[c]][Owner[c]] = c]
  /\ UNCHANGED <<at, open, child, redis, announced, up, unclean, faults, broke>>

(* SetUserOnline: two writes, the error of each logged and passed over. *)
SetLstSnOnline(c) ==
  /\ pc[c] = "added"
  /\ pc' = [pc EXCEPT ![c] = "shown"]
  /\ \/ /\ lstSn' = [lstSn EXCEPT ![Owner[c]] = Online]
        /\ stale' = stale \ {<<Owner[c], "lst-sn">>}
        /\ UNCHANGED <<unclean, faults>>
     \/ Fault /\ unclean' = unclean \union {c} /\ UNCHANGED <<lstSn, stale>>
  /\ UNCHANGED <<memory, hstnm, announced>>

(* SETNX: a key that outlived its gateway is kept. *)
SetHstnm_IfAbsent(c) ==
  /\ pc[c] = "shown"
  /\ pc' = [pc EXCEPT ![c] = "routed"]
  /\ hstnm' = [hstnm EXCEPT ![Owner[c]] = IF @ = None THEN at[c] ELSE @]
  /\ UNCHANGED <<memory, lstSn, stale, announced, unclean, faults>>

SetHstnm(c) ==
  /\ pc[c] = "shown"
  /\ pc' = [pc EXCEPT ![c] = "routed"]
  /\ \/ /\ hstnm' = [hstnm EXCEPT ![Owner[c]] = at[c]]
        /\ stale' = stale \ {<<Owner[c], "hstnm">>}
        /\ UNCHANGED <<unclean, faults>>
     \/ Fault /\ unclean' = unclean \union {c} /\ UNCHANGED <<hstnm, stale>>
  /\ UNCHANGED <<memory, lstSn, announced>>

(* PubLastSeen "Online", then the handler goroutine and its child start. *)
PubOnline(c) ==
  /\ pc[c] = "routed"
  /\ pc' = [pc EXCEPT ![c] = "serving"]
  /\ child' = [child EXCEPT ![c] = "up"]
  /\ \/ announced' = [announced EXCEPT ![Owner[c]] = Online] /\ UNCHANGED <<unclean, faults>>
     \/ Fault /\ unclean' = unclean \union {c} /\ UNCHANGED announced
  /\ UNCHANGED <<at, open, clients, redis, up, broke>>

-----------------------------------------------------------------------------
(* wsConnHandler and its child.                                            *)

SocketBreaks(c) ==
  /\ c \in open
  /\ open' = open \ {c}
  /\ UNCHANGED <<pc, at, child, clients, redis, announced, up, unclean, faults, broke>>

(* The read loop ends: ReadJSON fails, or a frame is refused, because of   *)
(* its fields or because its From is not listed (any more).                *)
EndLoop(c) ==
  /\ pc[c] = "serving"
  /\ pc' = [pc EXCEPT ![c] = "leaving"]
  /\ UNCHANGED <<memory, redis, announced, unclean, faults>>

(* wsPubSubHandler ends by itself, on an update for a user who is not      *)
(* listed or on a delivery it cannot read, and waits to tell its parent.   *)
ChildBreaks(c) ==
  /\ child[c] = "up"
  /\ IF clients[at[c]][Owner[c]] = None THEN UNCHANGED <<broke, faults>>
                                        ELSE Fault /\ broke' = broke \union {c}
  /\ child' = [child EXCEPT ![c] = "waiting"]
  /\ UNCHANGED <<pc, at, open, clients, redis, announced, up, unclean>>

(* The parent, back at the top of its loop, starts another. *)
ChildRespawns(c) ==
  /\ pc[c] = "serving"
  /\ child[c] = "waiting"
  /\ child' = [child EXCEPT ![c] = "up"]
  /\ broke' = broke \ {c}
  /\ UNCHANGED <<pc, at, open, clients, redis, announced, up, unclean, faults>>

(* The entry is left to whoever is still open. *)
DelConn_IfOpen(c) ==
  /\ pc[c] = "leaving"
  /\ child[c] = "up"
  /\ pc' = [pc EXCEPT ![c] = "unlisted"]
  /\ child' = [child EXCEPT ![c] = "done"]
  /\ clients' = IF c \in open THEN [clients EXCEPT ![at[c]][Owner[c]] = None] ELSE clients
  /\ UNCHANGED <<at, open, redis, announced, up, unclean, faults, broke>>

(* The child takes the close signal, the entry goes, whose ever it is. *)
DelConn(c) ==
  /\ pc[c] = "leaving"
  /\ child[c] = "up"
  /\ pc' = [pc EXCEPT ![c] = "unlisted"]
  /\ child' = [child EXCEPT ![c] = "done"]
  /\ clients' = [clients EXCEPT ![at[c]][Owner[c]] = None]
  /\ UNCHANGED <<at, open, redis, announced, up, unclean, faults, broke>>

(* The error of the first write returned. *)
SetLstSnOffline_Returns(c) ==
  /\ pc[c] = "unlisted"
  /\ \/ /\ pc' = [pc EXCEPT ![c] = "stamped"]
        /\ lstSn' = [lstSn EXCEPT ![Owner[c]] = c]
        /\ stale' = stale \ {<<Owner[c], "lst-sn">>}
        /\ UNCHANGED <<unclean, faults>>
     \/ /\ Fault
        /\ pc' = [pc EXCEPT ![c] = "unrouted"]
        /\ unclean' = unclean \union {c}
        /\ stale' = stale \union {<<Owner[c], "lst-sn">>}
        /\ UNCHANGED lstSn
  /\ UNCHANGED <<memory, hstnm, announced>>

(* Only the gateway that holds the route writes the time. *)
SetLstSnOffline_IfHost(c) ==
  /\ pc[c] = "unlisted"
  /\ pc' = [pc EXCEPT ![c] = "stamped"]
  /\ IF hstnm[Owner[c]] = at[c]
     THEN /\ lstSn' = [lstSn EXCEPT ![Owner[c]] = c]
          /\ stale' = stale \ {<<Owner[c], "lst-sn">>}
     ELSE UNCHANGED <<lstSn, stale>>
  /\ UNCHANGED <<memory, hstnm, announced, unclean, faults>>

(* No time was taken. *)
SetLstSnOffline_NoTime(c) ==
  /\ pc[c] = "unlisted"
  /\ pc' = [pc EXCEPT ![c] = "stamped"]
  /\ lstSn' = [lstSn EXCEPT ![Owner[c]] = None]
  /\ UNCHANGED <<memory, hstnm, stale, announced, unclean, faults>>

(* SetUserOffline: two writes, the error of each logged and passed over. *)
SetLstSnOffline(c) ==
  /\ pc[c] = "unlisted"
  /\ pc' = [pc EXCEPT ![c] = "stamped"]
  /\ \/ /\ lstSn' = [lstSn EXCEPT ![Owner[c]] = c]
        /\ stale' = stale \ {<<Owner[c], "lst-sn">>}
        /\ UNCHANGED <<unclean, faults>>
     \/ /\ Fault
        /\ unclean' = unclean \union {c}
        /\ stale' = stale \union {<<Owner[c], "lst-sn">>}
        /\ UNCHANGED lstSn
  /\ UNCHANGED <<memory, hstnm, announced>>

DelHstnm(c) ==
  /\ pc[c] = "stamped"
  /\ pc' = [pc EXCEPT ![c] = "unrouted"]
  /\ \/ /\ hstnm' = [hstnm EXCEPT ![Owner[c]] = None]
        /\ stale' = stale \ {<<Owner[c], "hstnm">>}
        /\ UNCHANGED <<unclean, faults>>
     \/ /\ Fault
        /\ unclean' = unclean \union {c}
        /\ stale' = stale \union {<<Owner[c], "hstnm">>}
        /\ UNCHANGED hstnm
  /\ UNCHANGED <<memory, lstSn, announced>>

(* A time of its own instead of the one stored. *)
PubOffline_SecondClock(c) ==
  /\ pc[c] = "unrouted"
  /\ pc' = [pc EXCEPT ![c] = "closed"]
  /\ announced' = [announced EXCEPT ![Owner[c]] = Unknown]
  /\ open' = open \ {c}
  /\ UNCHANGED <<at, child, clients, up, redis, unclean, faults, broke>>

(* PubLastSeen with the closing time, then the deferred conn.Close. *)
PubOffline(c) ==
  /\ pc[c] = "unrouted"
  /\ pc' = [pc EXCEPT ![c] = "closed"]
  /\ \/ announced' = [announced EXCEPT ![Owner[c]] = c] /\ UNCHANGED <<unclean, faults>>
     \/ Fault /\ unclean' = unclean \union {c} /\ UNCHANGED announced
  /\ open' = open \ {c}
  /\ UNCHANGED <<at, child, clients, up, redis, broke>>

-----------------------------------------------------------------------------
(* Around the handlers.                                                    *)

(* SetUserOnline's keys live 24 hours and are never refreshed. *)
LstSnExpires(u) ==
  /\ lstSn[u] = Online
  /\ Fault
  /\ lstSn' = [lstSn EXCEPT ![u] = Unknown]
  /\ unclean' = unclean \union {c \in Conn : Owner[c] = u /\ pc[c] \in Active}
  /\ stale' = stale \ {<<u, "lst-sn">>}
  /\ UNCHANGED <<pc, memory, hstnm, announced>>

HstnmExpires(u) ==
  /\ hstnm[u] # None
  /\ Fault
  /\ hstnm' = [hstnm EXCEPT ![u] = None]
  /\ unclean' = unclean \union {c \in Conn : Owner[c] = u /\ pc[c] \in Active}
  /\ stale' = stale \ {<<u, "hstnm">>}
  /\ UNCHANGED <<pc, memory, lstSn, announced>>

(* A gateway dies: its handlers are gone, the keys they wrote stay. *)
GatewayCrash(g) ==
  LET hit == {c \in Conn : at[c] = g /\ pc[c] \in Active} IN
  /\ g \in up
  /\ Fault
  /\ up' = up \ {g}
  /\ pc' = [c \in Conn |-> IF c \in hit THEN "closed" ELSE pc[c]]
  /\ child' = [c \in Conn |-> IF at[c] = g THEN "none" ELSE child[c]]
  /\ open' = open \ hit
  /\ clients' = [clients EXCEPT ![g] = [u \in User |-> None]]
  /\ unclean' = unclean \union hit
  /\ stale' = stale \union ({Owner[c] : c \in hit} \X {"lst-sn", "hstnm"})
  /\ UNCHANGED <<at, lstSn, hstnm, announced, broke>>

GatewayRestart(g) ==
  /\ g \notin up
  /\ up' = up \union {g}
  /\ UNCHANGED <<pc, at, open, child, clients, redis, announced, unclean, faults, broke>>

Arrive(c) ==
  \/ \E g \in Gateway : Exists(c, g)
  \/ UpgradeFails(c) \/ AddConn(c) \/ SetLstSnOnline(c) \/ SetHstnm(c) \/ PubOnline(c)

Leave(c) ==
  \/ SocketBreaks(c) \/ EndLoop(c)
  \/ DelConn(c) \/ SetLstSnOffline(c) \/ DelHstnm(c) \/ PubOffline(c)

Next ==
  \/ \E c \in Conn : Arrive(c) \/ Leave(c) \/ ChildBreaks(c) \/ ChildRespawns(c)
  \/ \E u \in User : LstSnExpires(u) \/ HstnmExpires(u)
  \/ \E g \in Gateway : GatewayCrash(g) \/ GatewayRestart(g)

Spec == Init /\ [][Next]_vars

-----------------------------------------------------------------------------
(* Properties.                                                             *)

(* Every variable has its type. *)
TypeOK ==
  /\ pc \in [Conn -> {"idle", "refused", "closed"} \union Active]
  /\ at \in [Conn -> Gateway \union {None}]
  /\ open \subseteq Conn
  /\ child \in [Conn -> {"none", "up", "waiting", "done"}]
  /\ clients \in [Gateway -> [User -> Conn \union {None}]]
  /\ lstSn \in [User -> Conn \union {Online, Unknown}]
  /\ hstnm \in [User -> Gateway \union {None}]
  /\ announced \in [User -> Conn \union {Online, Unknown}]
  /\ up \subseteq Gateway
  /\ unclean \subseteq Conn /\ broke \subseteq Conn
  /\ stale \subseteq User \X {"lst-sn", "hstnm"}
  /\ faults \in Nat

(* An entry of the list belongs to a handler that has not come to delete   *)
(* it and whose child will take the close signal first, however the        *)
(* handlers of a user overlap and whatever crashes.  The exception is one  *)
(* whose child waits (ws/websocket.go:251) after its subscription broke:   *)
(* unless that parent gets back to the top of its loop in time, nobody     *)
(* deletes the entry.  A child that ends because its entry is missing      *)
(* leaves none behind.                                                     *)
NoOrphanEntry ==
  \A g \in Gateway, u \in User :
    clients[g][u] # None =>
      LET c == clients[g][u] IN
        /\ Owner[c] = u /\ at[c] = g /\ pc[c] \in Listing
        /\ child[c] = "waiting" => c \in broke

(* A host key names a gateway where a handler of the user has yet to       *)
(* delete it, unless a crash or a failed delete left it behind.  Such a    *)
(* handler is not one that waits for its child in vain but for the two     *)
(* causes there are: the child's subscription broke, or another handler    *)
(* took the entry the child looks for.                                     *)
NoOrphanRoute ==
  \A u \in User :
    hstnm[u] # None /\ <<u, "hstnm">> \notin stale =>
      \E c \in Conn : /\ Owner[c] = u /\ at[c] = hstnm[u]
                      /\ pc[c] \in {"routed", "serving", "leaving", "unlisted", "stamped"}
                      /\ child[c] = "waiting" => c \in broke \/ clients[at[c]][u] # c

Handlers(u) == {c \in Conn : Owner[c] = u /\ pc[c] \in Active}

(* When the last handler of a user has ended, in whatever order his        *)
(* handlers ended, he is nowhere listed, has no route and is not shown as  *)
(* online, except through a key left behind.                               *)
QuietMeansOffline ==
  \A u \in User : Handlers(u) = {} =>
    /\ \A g \in Gateway : clients[g][u] = None
    /\ hstnm[u] = None \/ <<u, "hstnm">> \in stale
    /\ lstSn[u] # Online \/ <<u, "lst-sn">> \in stale

(* A connection that met no other one of its user and no failure of its    *)
(* own is listed, routed to and shown online for as long as it serves:     *)
(* nothing a predecessor left, in Redis or in the list, gets in its way.   *)
SoleSessionRoutable ==
  \A c \in Conn \ unclean : pc[c] = "serving" =>
    /\ clients[at[c]][Owner[c]] = c
    /\ hstnm[Owner[c]] = at[c]
    /\ lstSn[Owner[c]] = Online

(* What subscribers were told last and what a newcomer reads from Redis    *)
(* agree whenever no connection of the user is opening or closing, if his  *)
(* connections came one after the other and met no failure.                *)
StatusAgrees ==
  \A u \in User :
    /\ \A c \in Conn : Owner[c] = u => pc[c] \in {"idle", "refused", "serving", "closed"}
    /\ \A c \in unclean : Owner[c] # u
    => announced[u] = lstSn[u]

(* The handlers and children of the connections that came to serve. *)
Phase == [c \in Conn |-> CASE pc[c] \in {"idle", "refused"} \union Opening -> "none"
                          [] pc[c] \in {"serving", "leaving"} -> pc[c]
                          [] OTHER -> "over"]

Pair == INSTANCE Handler WITH phase <- Phase, aide <- child

(* Between start and clean-up a connection goes through what Handler says, *)
(* and Relay shows to be what its two goroutines do.                       *)
ImplementsHandler == Pair!Spec

(* "User already connected" (ws/websocket.go:32): a gateway that serves a  *)
(* user does not serve him on a second connection.                         *)
OneConnectionPerUser ==
  \A c, d \in Conn :
    pc[c] = "serving" /\ pc[d] = "serving" /\ Owner[c] = Owner[d] /\ at[c] = at[d] => c = d

=============================================================================
