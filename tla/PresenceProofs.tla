--------------------------- MODULE PresenceProofs ---------------------------
(* Proofs about module Presence. *)
EXTENDS Presence, TLAPS

-----------------------------------------------------------------------------
(* The inductive invariant: where each trace of a connection - entry,      *)
(* status key, host key - has a handler that will undo it, and what a      *)
(* handler that met nobody can rely on in each of its phases.              *)

Placed == \A c \in Conn : pc[c] # "idle" => at[c] \in Gateway

EntryHasHandler ==
  \A g \in Gateway, u \in User :
    clients[g][u] # None =>
      LET c == clients[g][u] IN Owner[c] = u /\ at[c] = g /\ pc[c] \in Listing

RouteHasHandler ==
  \A u \in User :
    hstnm[u] # None /\ <<u, "hstnm">> \notin stale =>
      \E c \in Conn : /\ Owner[c] = u /\ at[c] = hstnm[u]
                      /\ pc[c] \in {"routed", "serving", "leaving", "unlisted", "stamped"}

NoOrphanStatus ==
  \A u \in User :
    lstSn[u] = Online /\ <<u, "lst-sn">> \notin stale =>
      \E c \in Conn : Owner[c] = u /\ pc[c] \in {"shown", "routed", "serving", "leaving", "unlisted"}

StaleHasCause == \A k \in stale : \E c \in unclean : Owner[c] = k[1]

CleanIsAlone == \A c \in Conn \ unclean : pc[c] \in Active => Others(c) = {}

CleanListed ==
  \A c \in Conn \ unclean : pc[c] \in Listing => clients[at[c]][Owner[c]] = c

CleanShown ==
  \A c \in Conn \ unclean :
    /\ pc[c] \in {"shown", "routed", "serving", "leaving", "unlisted"} => lstSn[Owner[c]] = Online
    /\ pc[c] \in {"stamped", "unrouted"} => lstSn[Owner[c]] = c

CleanRouted ==
  \A c \in Conn \ unclean :
    pc[c] \in {"routed", "serving", "leaving", "unlisted", "stamped"} => hstnm[Owner[c]] = at[c]

(* Redis and the subscribers differ only between the write of a handler    *)
(* and its announcement.                                                   *)
Announced ==
  \A u \in User :
    /\ \A c \in unclean : Owner[c] # u
    /\ \A c \in Conn : Owner[c] = u => pc[c] \notin {"shown", "routed", "stamped", "unrouted"}
    => announced[u] = lstSn[u]

IInv ==
  /\ TypeOK
  /\ Placed
  /\ EntryHasHandler
  /\ RouteHasHandler
  /\ NoOrphanStatus
  /\ StaleHasCause
  /\ CleanIsAlone
  /\ CleanListed
  /\ CleanShown
  /\ CleanRouted
  /\ Announced

-----------------------------------------------------------------------------
(* A clean connection is the only active one of its user. *)
LEMMA Alone ==
  ASSUME CleanIsAlone, NEW c \in Conn, NEW d \in Conn, c \notin unclean,
         pc[c] \in Active, pc[d] \in Active, Owner[c] = Owner[d]
  PROVE  c = d
  BY DEF CleanIsAlone, Others

(* Each action keeps the inductive invariant. *)
LEMMA ExistsStep ==
  ASSUME IInv, NEW c \in Conn, NEW g \in Gateway, Exists(c, g)
  PROVE  IInv'
<1>. USE PresenceAssumption DEF IInv, TypeOK, Exists, redis, Active, Opening, Closing, Listing
<1>1. TypeOK'
  BY DEF Others
<1>2. Placed' /\ EntryHasHandler'
  BY DEF Placed, EntryHasHandler
<1>3. RouteHasHandler' /\ NoOrphanStatus' /\ StaleHasCause'
  BY DEF RouteHasHandler, NoOrphanStatus, StaleHasCause
<1>4. CleanIsAlone'
  BY DEF CleanIsAlone, Others
<1>5. CleanListed'
  BY Alone DEF Placed, CleanListed
<1>6. CleanShown' /\ CleanRouted'
  BY Alone DEF CleanShown, CleanRouted
<1>7. Announced'
  BY DEF Announced, CleanShown, NoOrphanStatus, StaleHasCause
<1>. QED
  BY <1>1, <1>2, <1>3, <1>4, <1>5, <1>6, <1>7

LEMMA UpgradeFailsStep ==
  ASSUME IInv, NEW c \in Conn, UpgradeFails(c)
  PROVE  IInv'
<1>. USE PresenceAssumption DEF IInv, TypeOK, UpgradeFails, memory, redis, Active, Opening, Closing, Listing
<1>1. TypeOK'
  OBVIOUS
<1>2. Placed' /\ EntryHasHandler'
  BY DEF Placed, EntryHasHandler
<1>3. RouteHasHandler' /\ NoOrphanStatus' /\ StaleHasCause'
  BY DEF RouteHasHandler, NoOrphanStatus, StaleHasCause
<1>4. CleanIsAlone'
  BY DEF CleanIsAlone, Others
<1>5. CleanListed'
  BY Alone DEF Placed, CleanListed
<1>6. CleanShown' /\ CleanRouted'
  BY Alone DEF CleanShown, CleanRouted
<1>7. Announced'
  BY DEF Announced, CleanShown, NoOrphanStatus, StaleHasCause
<1>. QED
  BY <1>1, <1>2, <1>3, <1>4, <1>5, <1>6, <1>7

LEMMA AddConnStep ==
  ASSUME IInv, NEW c \in Conn, AddConn(c)
  PROVE  IInv'
<1>. USE PresenceAssumption DEF IInv, TypeOK, AddConn, redis, Active, Opening, Closing, Listing
<1>1. TypeOK'
  OBVIOUS
<1>2. Placed' /\ EntryHasHandler'
  BY DEF Placed, EntryHasHandler
<1>3. RouteHasHandler' /\ NoOrphanStatus' /\ StaleHasCause'
  BY DEF RouteHasHandler, NoOrphanStatus, StaleHasCause
<1>4. CleanIsAlone'
  BY DEF CleanIsAlone, Others
<1>5. CleanListed'
  <2>. SUFFICES ASSUME NEW d \in Conn \ unclean, pc'[d] \in Listing
                PROVE  clients'[at[d]][Owner[d]] = d
    BY DEF CleanListed
  <2>. at[c] \in Gateway /\ at[d] \in Gateway
    BY DEF Placed
  <2>1. CASE Owner[d] = Owner[c]
    BY <2>1, Alone
  <2>2. CASE Owner[d] # Owner[c]
    BY <2>2 DEF CleanListed
  <2>. QED
    BY <2>1, <2>2
<1>6. CleanShown' /\ CleanRouted'
  BY Alone DEF CleanShown, CleanRouted
<1>7. Announced'
  BY DEF Announced, CleanShown, NoOrphanStatus, StaleHasCause
<1>. QED
  BY <1>1, <1>2, <1>3, <1>4, <1>5, <1>6, <1>7

LEMMA SetLstSnOnlineStep ==
  ASSUME IInv, NEW c \in Conn, SetLstSnOnline(c)
  PROVE  IInv'
<1>. USE PresenceAssumption DEF IInv, TypeOK, SetLstSnOnline, memory, Fault, Active, Opening, Closing, Listing
<1>1. TypeOK'
  OBVIOUS
<1>2. Placed' /\ EntryHasHandler'
  BY DEF Placed, EntryHasHandler
<1>3. RouteHasHandler' /\ NoOrphanStatus' /\ StaleHasCause'
  BY DEF RouteHasHandler, NoOrphanStatus, StaleHasCause
<1>4. CleanIsAlone'
  BY DEF CleanIsAlone, Others
<1>5. CleanListed'
  BY Alone DEF Placed, CleanListed
<1>6. CleanShown' /\ CleanRouted'
  <2>0. c \notin unclean' => pc'[c] = "shown" /\ lstSn'[Owner[c]] = Online
    OBVIOUS
  <2>1. ASSUME NEW d \in Conn \ unclean', d # c, Owner[d] = Owner[c]
        PROVE  pc'[d] \notin Active
    BY <2>1, Alone
  <2>2. ASSUME NEW d \in Conn \ unclean', Owner[d] # Owner[c]
        PROVE  pc'[d] = pc[d] /\ lstSn'[Owner[d]] = lstSn[Owner[d]]
    BY <2>2
  <2>3. CleanShown'
    BY <2>0, <2>1, <2>2 DEF CleanShown
  <2>4. CleanRouted'
    BY DEF CleanRouted
  <2>. QED
    BY <2>3, <2>4
<1>7. Announced'
  BY DEF Announced, CleanShown, NoOrphanStatus, StaleHasCause
<1>. QED
  BY <1>1, <1>2, <1>3, <1>4, <1>5, <1>6, <1>7

LEMMA SetHstnmStep ==
  ASSUME IInv, NEW c \in Conn, SetHstnm(c)
  PROVE  IInv'
<1>. USE PresenceAssumption DEF IInv, TypeOK, SetHstnm, memory, Fault, Active, Opening, Closing, Listing
<1>1. TypeOK'
  OBVIOUS
<1>2. Placed' /\ EntryHasHandler'
  BY DEF Placed, EntryHasHandler
<1>3. RouteHasHandler' /\ NoOrphanStatus' /\ StaleHasCause'
  BY DEF RouteHasHandler, NoOrphanStatus, StaleHasCause
<1>4. CleanIsAlone'
  BY DEF CleanIsAlone, Others
<1>5. CleanListed'
  BY Alone DEF Placed, CleanListed
<1>6. CleanShown' /\ CleanRouted'
  <2>0. c \notin unclean' => pc'[c] = "routed" /\ hstnm'[Owner[c]] = at[c]
    BY ZenonT(40)
  <2>1. ASSUME NEW d \in Conn \ unclean', d # c, Owner[d] = Owner[c]
        PROVE  pc'[d] \notin Active
    BY <2>1, Alone
  <2>2. ASSUME NEW d \in Conn \ unclean', Owner[d] # Owner[c]
        PROVE  pc'[d] = pc[d] /\ hstnm'[Owner[d]] = hstnm[Owner[d]]
    BY <2>2
  <2>3. CleanShown'
    BY DEF CleanShown
  <2>4. CleanRouted'
    BY <2>0, <2>1, <2>2 DEF CleanRouted
  <2>. QED
    BY <2>3, <2>4
<1>7. Announced'
  BY DEF Announced, CleanShown, NoOrphanStatus, StaleHasCause
<1>. QED
  BY <1>1, <1>2, <1>3, <1>4, <1>5, <1>6, <1>7

LEMMA PubOnlineStep ==
  ASSUME IInv, NEW c \in Conn, PubOnline(c)
  PROVE  IInv'
<1>. USE PresenceAssumption DEF IInv, TypeOK, PubOnline, redis, Fault, Active, Opening, Closing, Listing
<1>1. TypeOK'
  OBVIOUS
<1>2. Placed' /\ EntryHasHandler'
  BY DEF Placed, EntryHasHandler
<1>3. RouteHasHandler' /\ NoOrphanStatus' /\ StaleHasCause'
  BY DEF RouteHasHandler, NoOrphanStatus, StaleHasCause
<1>4. CleanIsAlone'
  BY DEF CleanIsAlone, Others
<1>5. CleanListed'
  BY Alone DEF Placed, CleanListed
<1>6. CleanShown' /\ CleanRouted'
  BY Alone DEF CleanShown, CleanRouted
<1>7. Announced'
  BY DEF Announced, CleanShown, NoOrphanStatus, StaleHasCause
<1>. QED
  BY <1>1, <1>2, <1>3, <1>4, <1>5, <1>6, <1>7

LEMMA EndLoopStep ==
  ASSUME IInv, NEW c \in Conn, EndLoop(c)
  PROVE  IInv'
<1>. USE PresenceAssumption DEF IInv, TypeOK, EndLoop, memory, redis, Active, Opening, Closing, Listing
<1>1. TypeOK'
  OBVIOUS
<1>2. Placed' /\ EntryHasHandler'
  BY DEF Placed, EntryHasHandler
<1>3. RouteHasHandler' /\ NoOrphanStatus' /\ StaleHasCause'
  BY DEF RouteHasHandler, NoOrphanStatus, StaleHasCause
<1>4. CleanIsAlone'
  BY DEF CleanIsAlone, Others
<1>5. CleanListed'
  BY Alone DEF Placed, CleanListed
<1>6. CleanShown' /\ CleanRouted'
  BY Alone DEF CleanShown, CleanRouted
<1>7. Announced'
  BY DEF Announced, CleanShown, NoOrphanStatus, StaleHasCause
<1>. QED
  BY <1>1, <1>2, <1>3, <1>4, <1>5, <1>6, <1>7

LEMMA DelConnStep ==
  ASSUME IInv, NEW c \in Conn, DelConn(c)
  PROVE  IInv'
<1>. USE PresenceAssumption DEF IInv, TypeOK, DelConn, redis, Active, Opening, Closing, Listing
<1>1. TypeOK'
  OBVIOUS
<1>2. Placed' /\ EntryHasHandler'
  BY DEF Placed, EntryHasHandler
<1>3. RouteHasHandler' /\ NoOrphanStatus' /\ StaleHasCause'
  BY DEF RouteHasHandler, NoOrphanStatus, StaleHasCause
<1>4. CleanIsAlone'
  BY DEF CleanIsAlone, Others
<1>5. CleanListed'
  BY Alone DEF Placed, CleanListed
<1>6. CleanShown' /\ CleanRouted'
  BY Alone DEF CleanShown, CleanRouted
<1>7. Announced'
  BY DEF Announced, CleanShown, NoOrphanStatus, StaleHasCause
<1>. QED
  BY <1>1, <1>2, <1>3, <1>4, <1>5, <1>6, <1>7

LEMMA SetLstSnOfflineStep ==
  ASSUME IInv, NEW c \in Conn, SetLstSnOffline(c)
  PROVE  IInv'
<1>. USE PresenceAssumption DEF IInv, TypeOK, SetLstSnOffline, memory, Fault, Active, Opening, Closing, Listing
<1>1. TypeOK'
  <2>1. <<Owner[c], "lst-sn">> \in User \X {"lst-sn", "hstnm"}
    OBVIOUS
  <2>2. stale' \subseteq User \X {"lst-sn", "hstnm"}
    BY <2>1
  <2>. QED
    BY <2>2
<1>2. Placed' /\ EntryHasHandler'
  BY DEF Placed, EntryHasHandler
<1>3. RouteHasHandler' /\ NoOrphanStatus' /\ StaleHasCause'
  BY DEF RouteHasHandler, NoOrphanStatus, StaleHasCause
<1>4. CleanIsAlone'
  BY DEF CleanIsAlone, Others
<1>5. CleanListed'
  BY Alone DEF Placed, CleanListed
<1>6. CleanShown' /\ CleanRouted'
  <2>0. c \notin unclean' => pc'[c] = "stamped" /\ lstSn'[Owner[c]] = c
    OBVIOUS
  <2>1. ASSUME NEW d \in Conn \ unclean', d # c, Owner[d] = Owner[c]
        PROVE  pc'[d] \notin Active
    BY <2>1, Alone
  <2>2. ASSUME NEW d \in Conn \ unclean', Owner[d] # Owner[c]
        PROVE  pc'[d] = pc[d] /\ lstSn'[Owner[d]] = lstSn[Owner[d]]
    BY <2>2
  <2>3. CleanShown'
    BY <2>0, <2>1, <2>2 DEF CleanShown
  <2>4. CleanRouted'
    BY DEF CleanRouted
  <2>. QED
    BY <2>3, <2>4
<1>7. Announced'
  BY DEF Announced, CleanShown, NoOrphanStatus, StaleHasCause
<1>. QED
  BY <1>1, <1>2, <1>3, <1>4, <1>5, <1>6, <1>7

LEMMA DelHstnmStep ==
  ASSUME IInv, NEW c \in Conn, DelHstnm(c)
  PROVE  IInv'
<1>. USE PresenceAssumption DEF IInv, TypeOK, DelHstnm, memory, Fault, Active, Opening, Closing, Listing
<1>1. TypeOK'
  <2>1. <<Owner[c], "hstnm">> \in User \X {"lst-sn", "hstnm"}
    OBVIOUS
  <2>2. stale' \subseteq User \X {"lst-sn", "hstnm"}
    BY <2>1
  <2>. QED
    BY <2>2
<1>2. Placed' /\ EntryHasHandler'
  BY DEF Placed, EntryHasHandler
<1>3. RouteHasHandler' /\ NoOrphanStatus' /\ StaleHasCause'
  BY DEF RouteHasHandler, NoOrphanStatus, StaleHasCause
<1>4. CleanIsAlone'
  BY DEF CleanIsAlone, Others
<1>5. CleanListed'
  BY Alone DEF Placed, CleanListed
<1>6. CleanShown' /\ CleanRouted'
  <2>1. ASSUME NEW d \in Conn \ unclean', d # c, Owner[d] = Owner[c]
        PROVE  pc'[d] \notin Active
    BY <2>1, Alone
  <2>2. ASSUME NEW d \in Conn \ unclean', Owner[d] # Owner[c]
        PROVE  pc'[d] = pc[d] /\ hstnm'[Owner[d]] = hstnm[Owner[d]]
    BY <2>2
  <2>3. CleanShown'
    BY DEF CleanShown
  <2>4. CleanRouted'
    BY <2>1, <2>2 DEF CleanRouted
  <2>. QED
    BY <2>3, <2>4
<1>7. Announced'
  BY DEF Announced, CleanShown, NoOrphanStatus, StaleHasCause
<1>. QED
  BY <1>1, <1>2, <1>3, <1>4, <1>5, <1>6, <1>7

LEMMA PubOfflineStep ==
  ASSUME IInv, NEW c \in Conn, PubOffline(c)
  PROVE  IInv'
<1>. USE PresenceAssumption DEF IInv, TypeOK, PubOffline, redis, Fault, Active, Opening, Closing, Listing
<1>1. TypeOK'
  OBVIOUS
<1>2. Placed' /\ EntryHasHandler'
  BY DEF Placed, EntryHasHandler
<1>3. RouteHasHandler' /\ NoOrphanStatus' /\ StaleHasCause'
  BY DEF RouteHasHandler, NoOrphanStatus, StaleHasCause
<1>4. CleanIsAlone'
  BY DEF CleanIsAlone, Others
<1>5. CleanListed'
  BY Alone DEF Placed, CleanListed
<1>6. CleanShown' /\ CleanRouted'
  BY Alone DEF CleanShown, CleanRouted
<1>7. Announced'
  BY DEF Announced, CleanShown, NoOrphanStatus, StaleHasCause
<1>. QED
  BY <1>1, <1>2, <1>3, <1>4, <1>5, <1>6, <1>7

LEMMA LstSnExpiresStep ==
  ASSUME IInv, NEW u \in User, LstSnExpires(u)
  PROVE  IInv'
<1>. USE PresenceAssumption DEF IInv, TypeOK, LstSnExpires, memory, Fault, Active, Opening, Closing, Listing
<1>1. TypeOK'
  OBVIOUS
<1>2. Placed' /\ EntryHasHandler'
  BY DEF Placed, EntryHasHandler
<1>3. RouteHasHandler' /\ NoOrphanStatus' /\ StaleHasCause'
  BY DEF RouteHasHandler, NoOrphanStatus, StaleHasCause
<1>4. CleanIsAlone'
  BY DEF CleanIsAlone, Others
<1>5. CleanListed'
  BY Alone DEF Placed, CleanListed
<1>6. CleanShown' /\ CleanRouted'
  BY Alone DEF CleanShown, CleanRouted
<1>7. Announced'
  <2>1. \E c \in unclean' : Owner[c] = u
    <3>1. CASE <<u, "lst-sn">> \in stale
      BY <3>1 DEF StaleHasCause
    <3>2. CASE <<u, "lst-sn">> \notin stale
      BY <3>2 DEF NoOrphanStatus
    <3>. QED
      BY <3>1, <3>2
  <2>. QED
    BY <2>1 DEF Announced
<1>. QED
  BY <1>1, <1>2, <1>3, <1>4, <1>5, <1>6, <1>7

LEMMA HstnmExpiresStep ==
  ASSUME IInv, NEW u \in User, HstnmExpires(u)
  PROVE  IInv'
<1>. USE PresenceAssumption DEF IInv, TypeOK, HstnmExpires, memory, Fault, Active, Opening, Closing, Listing
<1>1. TypeOK'
  OBVIOUS
<1>2. Placed' /\ EntryHasHandler'
  BY DEF Placed, EntryHasHandler
<1>3. RouteHasHandler' /\ NoOrphanStatus' /\ StaleHasCause'
  BY DEF RouteHasHandler, NoOrphanStatus, StaleHasCause
<1>4. CleanIsAlone'
  BY DEF CleanIsAlone, Others
<1>5. CleanListed'
  BY Alone DEF Placed, CleanListed
<1>6. CleanShown' /\ CleanRouted'
  BY Alone DEF CleanShown, CleanRouted
<1>7. Announced'
  BY DEF Announced, CleanShown, NoOrphanStatus, StaleHasCause
<1>. QED
  BY <1>1, <1>2, <1>3, <1>4, <1>5, <1>6, <1>7

LEMMA GatewayCrashStep ==
  ASSUME IInv, NEW g \in Gateway, GatewayCrash(g)
  PROVE  IInv'
<1>. USE PresenceAssumption DEF IInv, TypeOK, GatewayCrash, Fault, Active, Opening, Closing, Listing
<1>1. TypeOK'
  OBVIOUS
<1>2. Placed' /\ EntryHasHandler'
  BY DEF Placed, EntryHasHandler
<1>3. RouteHasHandler' /\ NoOrphanStatus' /\ StaleHasCause'
  BY DEF RouteHasHandler, NoOrphanStatus, StaleHasCause
<1>4. CleanIsAlone'
  BY DEF CleanIsAlone, Others
<1>5. CleanListed'
  BY Alone DEF Placed, CleanListed
<1>6. CleanShown' /\ CleanRouted'
  BY Alone DEF CleanShown, CleanRouted
<1>7. Announced'
  BY DEF Announced, CleanShown, NoOrphanStatus, StaleHasCause
<1>. QED
  BY <1>1, <1>2, <1>3, <1>4, <1>5, <1>6, <1>7

-----------------------------------------------------------------------------
(* Steps that leave every handler where it was. *)
LEMMA SideStep ==
  ASSUME IInv,
         \/ \E c \in Conn : SocketBreaks(c) \/ ChildBreaks(c) \/ ChildRespawns(c)
         \/ \E g \in Gateway : GatewayRestart(g)
         \/ UNCHANGED vars
  PROVE  IInv'
<1>1. TypeOK'
  BY DEF IInv, TypeOK, SocketBreaks, ChildBreaks, ChildRespawns, GatewayRestart, Fault, redis, vars
<1>2. UNCHANGED <<pc, at, clients, lstSn, hstnm, announced, unclean, stale>>
  BY DEF SocketBreaks, ChildBreaks, ChildRespawns, GatewayRestart, redis, vars
<1>. QED
  BY <1>1, <1>2 DEF IInv, Placed, EntryHasHandler, RouteHasHandler, NoOrphanStatus, StaleHasCause,
     CleanIsAlone, Others, CleanListed, CleanShown, CleanRouted, Announced

LEMMA InitHolds == Init => IInv
  BY PresenceAssumption DEF Init, IInv, TypeOK, Placed, EntryHasHandler, RouteHasHandler,
     NoOrphanStatus, StaleHasCause, CleanIsAlone, CleanListed, CleanShown, CleanRouted, Announced,
     Active, Opening, Closing, Listing

LEMMA NextHolds == IInv /\ [Next]_vars => IInv'
<1>. SUFFICES ASSUME IInv, [Next]_vars
              PROVE  IInv'
  OBVIOUS
<1>1. ASSUME NEW c \in Conn, Arrive(c)
      PROVE  IInv'
  BY <1>1, ExistsStep, UpgradeFailsStep, AddConnStep, SetLstSnOnlineStep, SetHstnmStep,
     PubOnlineStep DEF Arrive
<1>2. ASSUME NEW c \in Conn, Leave(c)
      PROVE  IInv'
  BY <1>2, SideStep, EndLoopStep, DelConnStep, SetLstSnOfflineStep, DelHstnmStep,
     PubOfflineStep DEF Leave
<1>3. ASSUME NEW u \in User, LstSnExpires(u) \/ HstnmExpires(u)
      PROVE  IInv'
  BY <1>3, LstSnExpiresStep, HstnmExpiresStep
<1>4. ASSUME NEW g \in Gateway, GatewayCrash(g)
      PROVE  IInv'
  BY <1>4, GatewayCrashStep
<1>. QED
  BY <1>1, <1>2, <1>3, <1>4, SideStep DEF Next

(* The inductive invariant holds in every state Handler, wsConnHandler and *)
(* the failures around them can reach.                                     *)
THEOREM Invariance == Spec => []IInv
  BY InitHolds, NextHolds, PTL DEF Spec

(* Every variable keeps its type. *)
THEOREM TypeCorrect == Spec => []TypeOK
  BY Invariance, PTL DEF IInv

(* After the last handler of a user has ended he is offline everywhere, in *)
(* whatever order the handlers ended.                                      *)
THEOREM QuietIsOffline == Spec => []QuietMeansOffline
<1>1. IInv => QuietMeansOffline
  BY DEF IInv, TypeOK, QuietMeansOffline, Handlers, EntryHasHandler, RouteHasHandler, NoOrphanStatus,
     Active, Opening, Closing, Listing
<1>. QED
  BY <1>1, Invariance, PTL

(* A connection that met no other of its user and no failure is listed,    *)
(* routed to and shown online while it serves.                             *)
THEOREM SoleIsRoutable == Spec => []SoleSessionRoutable
<1>1. IInv => SoleSessionRoutable
  BY DEF IInv, SoleSessionRoutable, CleanListed, CleanShown, CleanRouted, Listing
<1>. QED
  BY <1>1, Invariance, PTL

(* Without overlaps and failures, what subscribers were told last is what  *)
(* Redis holds.                                                            *)
THEOREM StatusesAgree == Spec => []StatusAgrees
<1>1. IInv => StatusAgrees
  BY DEF IInv, StatusAgrees, Announced
<1>. QED
  BY <1>1, Invariance, PTL

-----------------------------------------------------------------------------
(* Presence implements Handler as well.                                    *)

(* A child listens for as long as its connection serves. *)
ChildOK ==
  \A c \in Conn :
    /\ pc[c] \in {"idle", "refused"} \union Opening => child[c] = "none"
    /\ child[c] = "up" => pc[c] \in {"serving", "leaving"}

PairInv == TypeOK /\ ChildOK

LEMMA PairMoves ==
  ASSUME NEW c \in Conn, NEW p, \A d \in Conn \ {c} : pc'[d] = pc[d], Phase'[c] = p
  PROVE  Phase' = [Phase EXCEPT ![c] = p]
<1>1. \A d \in Conn \ {c} : Phase'[d] = Phase[d]
  BY DEF Phase
<1>2. Phase = [d \in Conn |-> Phase[d]] /\ Phase' = [d \in Conn |-> Phase'[d]]
  BY DEF Phase
<1>3. [Phase EXCEPT ![c] = p] = [d \in Conn |-> IF d = c THEN p ELSE Phase[d]]
  BY <1>2
<1> QED
  BY <1>1, <1>2, <1>3

(* What a step makes of the place of one handler. *)
LEMMA Advance ==
  ASSUME TypeOK, NEW c \in Conn, NEW p, pc' = [pc EXCEPT ![c] = p]
  PROVE  pc'[c] = p /\ \A d \in Conn \ {c} : pc'[d] = pc[d]
  BY DEF TypeOK

LEMMA CrashPairs ==
  ASSUME PairInv, TypeOK', NEW g \in Gateway, GatewayCrash(g)
  PROVE  ChildOK' /\ Pair!Next
<1> DEFINE S == {c \in Conn : at[c] = g /\ pc[c] \notin {"idle", "refused"}}
           hit == {c \in Conn : at[c] = g /\ pc[c] \in Active}
<1>1. /\ pc' = [c \in Conn |-> IF c \in hit THEN "closed" ELSE pc[c]]
      /\ child' = [c \in Conn |-> IF at[c] = g THEN "none" ELSE child[c]]
  BY DEF GatewayCrash
<1>2. \A c \in Conn : /\ pc'[c] = IF c \in hit THEN "closed" ELSE pc[c]
                     /\ child'[c] = IF at[c] = g THEN "none" ELSE child[c]
  BY <1>1
<1>3. ChildOK'
  BY <1>2 DEF PairInv, ChildOK, Active, Opening
<1>4. \A c \in Conn : Phase'[c] = IF c \in S THEN "over" ELSE Phase[c]
  BY <1>2 DEF Phase, PairInv, TypeOK, Active, Opening, Closing
<1>5. \A c \in Conn : child'[c] = IF c \in S THEN "none" ELSE child[c]
  BY <1>2 DEF PairInv, ChildOK
<1>6. Phase' = [c \in Conn |-> Phase'[c]] /\ child' = [c \in Conn |-> child'[c]]
  BY DEF Phase, TypeOK
<1>7. S \in SUBSET Conn
  OBVIOUS
<1> HIDE DEF S
<1>8. Phase' = [c \in Conn |-> IF c \in S THEN "over" ELSE Phase[c]]
  BY <1>4, <1>6
<1>9. child' = [c \in Conn |-> IF c \in S THEN "none" ELSE child[c]]
  BY <1>5, <1>6
<1>10. Pair!Crash(S)
  BY <1>8, <1>9 DEF Pair!Crash
<1> QED
  BY <1>3, <1>7, <1>10 DEF Pair!Next

(* Before a connection serves, and once it is over, nothing moves. *)
LEMMA Outside ==
  ASSUME PairInv, NEW c \in Conn, NEW p,
         pc' = [pc EXCEPT ![c] = p], UNCHANGED child,
         \/ pc[c] \in {"idle", "refused"} \union Opening /\ p \in {"refused"} \union Opening
         \/ pc[c] \in Closing /\ p \in Closing \union {"closed"}
  PROVE  ChildOK' /\ UNCHANGED Pair!vars
<1>1. pc'[c] = p /\ \A d \in Conn \ {c} : pc'[d] = pc[d]
  BY Advance DEF PairInv
<1>2. ChildOK'
  BY <1>1 DEF PairInv, ChildOK, Opening, Closing
<1>3. Phase'[c] = Phase[c]
  BY <1>1 DEF Phase, Opening, Closing
<1>4. [Phase EXCEPT ![c] = Phase[c]] = Phase
  BY DEF Phase
<1>5. Phase' = Phase
  BY <1>1, <1>3, <1>4, PairMoves
<1> QED
  BY <1>2, <1>5 DEF Pair!vars

LEMMA OutsideSteps ==
  ASSUME PairInv, NEW c \in Conn,
         \/ \E g \in Gateway : Exists(c, g)
         \/ UpgradeFails(c) \/ AddConn(c) \/ SetLstSnOnline(c) \/ SetHstnm(c)
         \/ SetLstSnOffline(c) \/ DelHstnm(c) \/ PubOffline(c)
  PROVE  ChildOK' /\ UNCHANGED Pair!vars
<1>1. \E p : /\ pc' = [pc EXCEPT ![c] = p] /\ UNCHANGED child
             /\ \/ pc[c] \in {"idle", "refused"} \union Opening /\ p \in {"refused"} \union Opening
                \/ pc[c] \in Closing /\ p \in Closing \union {"closed"}
  BY DEF Exists, UpgradeFails, AddConn, SetLstSnOnline, SetHstnm, SetLstSnOffline, DelHstnm, PubOffline,
         memory, Opening, Closing
<1> QED
  BY <1>1, Outside

LEMMA PairSteps ==
  ASSUME PairInv, NEW c \in Conn, PubOnline(c) \/ EndLoop(c) \/ ChildBreaks(c) \/ ChildRespawns(c) \/ DelConn(c)
  PROVE  ChildOK' /\ Pair!Next
<1>1. child \in [Conn -> {"none", "up", "waiting", "done"}] /\ pc \in [Conn -> {"idle", "refused", "closed"} \union Active]
  BY DEF PairInv, TypeOK
<1>2. CASE PubOnline(c)
  <2>1. pc[c] = "routed" /\ pc'[c] = "serving" /\ \A d \in Conn \ {c} : pc'[d] = pc[d]
    BY <1>2, Advance DEF PubOnline, PairInv
  <2>2. child' = [child EXCEPT ![c] = "up"]
    BY <1>2 DEF PubOnline
  <2>3. Phase[c] = "none" /\ Phase'[c] = "serving"
    BY <2>1 DEF Phase, Opening
  <2>4. ChildOK'
    BY <1>1, <2>1, <2>2 DEF PairInv, ChildOK, Opening
  <2>5. Pair!Start(c)
    BY <2>1, <2>2, <2>3, PairMoves DEF Pair!Start
  <2> QED
    BY <2>4, <2>5 DEF Pair!Next
<1>3. CASE EndLoop(c)
  <2>1. /\ pc[c] = "serving" /\ pc'[c] = "leaving" /\ \A d \in Conn \ {c} : pc'[d] = pc[d]
        /\ child' = child
    BY <1>3, Advance DEF EndLoop, PairInv, memory
  <2>2. Phase[c] = "serving" /\ Phase'[c] = "leaving"
    BY <2>1 DEF Phase, Opening
  <2>3. ChildOK'
    BY <2>1 DEF PairInv, ChildOK, Opening
  <2>4. Pair!EndLoop(c)
    BY <2>1, <2>2, PairMoves DEF Pair!EndLoop
  <2> QED
    BY <2>3, <2>4 DEF Pair!Next
<1>4. CASE ChildBreaks(c)
  <2>1. child[c] = "up" /\ child' = [child EXCEPT ![c] = "waiting"] /\ pc' = pc
    BY <1>4 DEF ChildBreaks
  <2>2. Phase[c] \in {"serving", "leaving"} /\ Phase' = Phase
    BY <2>1 DEF Phase, PairInv, ChildOK, Opening
  <2>3. ChildOK'
    BY <1>1, <2>1 DEF PairInv, ChildOK, Opening
  <2>4. Pair!ChildEnds(c)
    BY <2>1, <2>2 DEF Pair!ChildEnds
  <2> QED
    BY <2>3, <2>4 DEF Pair!Next
<1>5. CASE ChildRespawns(c)
  <2>1. pc[c] = "serving" /\ child[c] = "waiting" /\ child' = [child EXCEPT ![c] = "up"] /\ pc' = pc
    BY <1>5 DEF ChildRespawns
  <2>2. Phase[c] = "serving" /\ Phase' = Phase
    BY <2>1 DEF Phase, Opening
  <2>3. ChildOK'
    BY <1>1, <2>1 DEF PairInv, ChildOK, Opening
  <2>4. Pair!Respawn(c)
    BY <2>1, <2>2 DEF Pair!Respawn
  <2> QED
    BY <2>3, <2>4 DEF Pair!Next
<1>6. CASE DelConn(c)
  <2>1. /\ pc[c] = "leaving" /\ pc'[c] = "unlisted" /\ \A d \in Conn \ {c} : pc'[d] = pc[d]
        /\ child[c] = "up" /\ child' = [child EXCEPT ![c] = "done"]
    BY <1>6, Advance DEF DelConn, PairInv
  <2>2. Phase[c] = "leaving" /\ Phase'[c] = "over"
    BY <2>1 DEF Phase, Opening
  <2>3. ChildOK'
    BY <1>1, <2>1 DEF PairInv, ChildOK, Opening
  <2>4. Pair!SignalClose(c)
    BY <2>1, <2>2, PairMoves DEF Pair!SignalClose
  <2> QED
    BY <2>3, <2>4 DEF Pair!Next
<1> QED
  BY <1>2, <1>3, <1>4, <1>5, <1>6

LEMMA PairInit == Init => Pair!Init /\ ChildOK
<1> SUFFICES ASSUME Init PROVE Pair!Init /\ ChildOK
  OBVIOUS
<1>1. \A c \in Conn : pc[c] = "idle" /\ child[c] = "none"
  BY DEF Init
<1>2. Phase = [c \in Conn |-> "none"]
  BY <1>1 DEF Phase
<1> QED
  BY <1>1, <1>2 DEF Init, Pair!Init, ChildOK

LEMMA PairStep == TypeOK /\ TypeOK' /\ ChildOK /\ [Next]_vars => ChildOK' /\ [Pair!Next]_(Pair!vars)
<1> SUFFICES ASSUME PairInv, TypeOK', [Next]_vars PROVE ChildOK' /\ [Pair!Next]_(Pair!vars)
  BY DEF PairInv
<1>1. CASE UNCHANGED <<pc, child>>
  BY <1>1 DEF PairInv, ChildOK, Pair!vars, Phase
<1>2. CASE UNCHANGED vars
  BY <1>1, <1>2 DEF vars
<1>3. CASE \E g \in Gateway : GatewayCrash(g)
  BY <1>3, CrashPairs
<1>4. CASE \/ \E c \in Conn : SocketBreaks(c)
           \/ \E u \in User : LstSnExpires(u) \/ HstnmExpires(u)
           \/ \E g \in Gateway : GatewayRestart(g)
  BY <1>1, <1>4 DEF SocketBreaks, LstSnExpires, HstnmExpires, GatewayRestart, memory
<1>5. CASE \E c \in Conn : \/ \E g \in Gateway : Exists(c, g)
                          \/ UpgradeFails(c) \/ AddConn(c) \/ SetLstSnOnline(c) \/ SetHstnm(c)
                          \/ SetLstSnOffline(c) \/ DelHstnm(c) \/ PubOffline(c)
  BY <1>5, OutsideSteps
<1>6. CASE \E c \in Conn : PubOnline(c) \/ EndLoop(c) \/ ChildBreaks(c) \/ ChildRespawns(c) \/ DelConn(c)
  BY <1>6, PairSteps
<1> QED
  BY <1>2, <1>3, <1>4, <1>5, <1>6 DEF Next, Arrive, Leave

(* The handlers of all users at all gateways, crashes included, treat      *)
(* their children as Handler says; RelayImplementsHandler is its other     *)
(* half.                                                                   *)
THEOREM PresenceImplementsHandler == Spec => ImplementsHandler
  BY PairInit, PairStep, TypeCorrect, PTL DEF Spec, ImplementsHandler, Pair!Spec

-----------------------------------------------------------------------------
(* Why a child waits to tell its parent. *)

WaitsForCause ==
  \A c \in Conn : child[c] = "waiting" => c \in broke \/ clients[at[c]][Owner[c]] # c

(* A child that ended stays apart from the list: its connection never gets *)
(* an entry again.                                                         *)
LEMMA ArriveWaits ==
  ASSUME TypeOK, ChildOK, WaitsForCause, NEW c \in Conn, Arrive(c)
  PROVE  WaitsForCause'
<1> USE PresenceAssumption DEF TypeOK, memory, redis
<1>1. UNCHANGED broke
  BY DEF Arrive, Exists, UpgradeFails, AddConn, SetLstSnOnline, SetHstnm, PubOnline
<1>2. CASE \E g \in Gateway : Exists(c, g)
  <2>1. child[c] = "none" /\ UNCHANGED <<child, clients>> /\ \A d \in Conn \ {c} : at'[d] = at[d]
    BY <1>2 DEF Exists, ChildOK
  <2> QED
    BY <1>1, <2>1 DEF WaitsForCause
<1>3. CASE AddConn(c)
  <2>1. child[c] = "none" /\ UNCHANGED <<child, at>>
    BY <1>3 DEF AddConn, ChildOK, Opening
  <2>2. ASSUME NEW d \in Conn, d # c, clients[at[d]][Owner[d]] # d
        PROVE  clients'[at[d]][Owner[d]] # d
    BY <1>3, <2>2 DEF AddConn
  <2> QED
    BY <1>1, <2>1, <2>2 DEF WaitsForCause
<1>4. CASE PubOnline(c)
  <2>1. child' = [child EXCEPT ![c] = "up"] /\ UNCHANGED <<clients, at>>
    BY <1>4 DEF PubOnline
  <2>2. child'[c] = "up" /\ \A d \in Conn \ {c} : child'[d] = child[d]
    BY <2>1
  <2> QED
    BY <1>1, <2>1, <2>2 DEF WaitsForCause
<1>5. CASE UpgradeFails(c) \/ SetLstSnOnline(c) \/ SetHstnm(c)
  <2>1. UNCHANGED <<child, clients, at>>
    BY <1>5 DEF UpgradeFails, SetLstSnOnline, SetHstnm
  <2> QED
    BY <1>1, <2>1 DEF WaitsForCause
<1> QED
  BY <1>2, <1>3, <1>4, <1>5 DEF Arrive

LEMMA OthersWait ==
  ASSUME TypeOK, WaitsForCause, [Next]_vars, \A c \in Conn : ~Arrive(c)
  PROVE  WaitsForCause'
<1> USE PresenceAssumption DEF TypeOK, memory, redis
<1>1. ASSUME NEW c \in Conn, ChildBreaks(c)
      PROVE  WaitsForCause'
  <2>1. \A d \in Conn \ {c} : child'[d] = child[d]
    BY <1>1 DEF ChildBreaks
  <2>2. UNCHANGED <<at, clients>> /\ broke \subseteq broke'
    BY <1>1 DEF ChildBreaks
  <2>3. c \in broke' \/ clients[at[c]][Owner[c]] = None
    BY <1>1 DEF ChildBreaks
  <2> QED
    BY <2>1, <2>2, <2>3 DEF WaitsForCause
<1>2. ASSUME NEW c \in Conn, ChildRespawns(c)
      PROVE  WaitsForCause'
  <2>1. child'[c] = "up" /\ \A d \in Conn \ {c} : child'[d] = child[d]
    BY <1>2 DEF ChildRespawns
  <2>2. UNCHANGED <<at, clients>> /\ broke' = broke \ {c}
    BY <1>2 DEF ChildRespawns
  <2> QED
    BY <2>1, <2>2 DEF WaitsForCause
<1>3. ASSUME NEW c \in Conn, DelConn(c)
      PROVE  WaitsForCause'
  <2>1. child'[c] = "done" /\ \A d \in Conn \ {c} : child'[d] = child[d]
    BY <1>3 DEF DelConn
  <2>2. /\ UNCHANGED <<at, broke>>
        /\ \A d \in Conn : clients'[at[d]][Owner[d]] = clients[at[d]][Owner[d]] \/ clients'[at[d]][Owner[d]] = None
    BY <1>3 DEF DelConn
  <2> QED
    BY <2>1, <2>2 DEF WaitsForCause
<1>4. ASSUME NEW g \in Gateway, GatewayCrash(g)
      PROVE  WaitsForCause'
  <2>1. /\ UNCHANGED <<at, broke>>
        /\ \A d \in Conn : child'[d] = IF at[d] = g THEN "none" ELSE child[d]
        /\ clients' = [clients EXCEPT ![g] = [u \in User |-> None]]
    BY <1>4 DEF GatewayCrash
  <2>2. ASSUME NEW d \in Conn, at[d] # g
        PROVE  clients'[at[d]] = clients[at[d]]
    BY <2>1, <2>2
  <2> QED
    BY <2>1, <2>2 DEF WaitsForCause
<1>5. CASE UNCHANGED <<child, at, clients, broke>>
  BY <1>5 DEF WaitsForCause
<1>6. CASE \/ \E c \in Conn : \/ SocketBreaks(c) \/ EndLoop(c)
                             \/ SetLstSnOffline(c) \/ DelHstnm(c) \/ PubOffline(c)
           \/ \E u \in User : LstSnExpires(u) \/ HstnmExpires(u)
           \/ \E g \in Gateway : GatewayRestart(g)
           \/ UNCHANGED vars
  BY <1>5, <1>6 DEF SocketBreaks, EndLoop, SetLstSnOffline, DelHstnm, PubOffline, LstSnExpires, HstnmExpires,
     GatewayRestart, vars
<1> QED
  BY <1>1, <1>2, <1>3, <1>4, <1>6 DEF Next, Leave

(* A child waits after its subscription broke or its entry was taken. *)
LEMMA WaitingHasCause == Spec => []WaitsForCause
<1>1. Init => WaitsForCause /\ ChildOK
  BY DEF Init, WaitsForCause, ChildOK
<1>2. TypeOK /\ ChildOK /\ WaitsForCause /\ [Next]_vars => WaitsForCause'
  BY ArriveWaits, OthersWait
<1> QED
  BY <1>1, <1>2, PairStep, TypeCorrect, PTL DEF Spec

(* An entry has a handler that deletes it once its child took the close    *)
(* signal; only if that child's subscription broke may it wait in vain.    *)
THEOREM EntriesOwned == Spec => []NoOrphanEntry
<1>1. IInv /\ WaitsForCause => NoOrphanEntry
  <2> SUFFICES ASSUME IInv, WaitsForCause, NEW g \in Gateway, NEW u \in User, clients[g][u] # None
               PROVE  LET c == clients[g][u] IN
                        /\ Owner[c] = u /\ at[c] = g /\ pc[c] \in Listing
                        /\ child[c] = "waiting" => c \in broke
    BY DEF NoOrphanEntry
  <2>1. clients[g][u] \in Conn
    BY DEF IInv, TypeOK
  <2>2. Owner[clients[g][u]] = u /\ at[clients[g][u]] = g /\ pc[clients[g][u]] \in Listing
    BY DEF IInv, EntryHasHandler
  <2> QED
    BY <2>1, <2>2 DEF WaitsForCause
<1> QED
  BY <1>1, Invariance, WaitingHasCause, PTL

(* A host key has such a handler too, unless a crash or a failed delete    *)
(* left it; and that handler waits in vain only if the subscription broke  *)
(* or another handler of the user took the entry.                          *)
THEOREM RoutesOwned == Spec => []NoOrphanRoute
<1>1. IInv /\ WaitsForCause => NoOrphanRoute
  BY DEF IInv, RouteHasHandler, WaitsForCause, NoOrphanRoute
<1> QED
  BY <1>1, Invariance, WaitingHasCause, PTL
=============================================================================
