--------------------------- MODULE PipelineProofs ---------------------------
(* Theorems about Pipeline, for every set of users, gateways and messages, *)
(* every prefetch window and every number of failures and sessions.        *)
EXTENDS Pipeline, FiniteSetTheorems, TLAPS

USE DEF Session

LEMMA InitTypeOK == Init => TypeOK
  BY ConstantsAssumption DEF Init, TypeOK, Row

(* The sessions' steps keep the types. *)
LEMMA SessionTypeOK == TypeOK /\ SessionStep => TypeOK'
<1> SUFFICES ASSUME TypeOK, SessionStep PROVE TypeOK'
  OBVIOUS
<1> USE ConstantsAssumption
<1>1. ASSUME NEW s \in Session, Connect(s) PROVE TypeOK'
  BY <1>1 DEF TypeOK, Connect, clientVars, saveVars, sendVars
<1>2. ASSUME NEW s \in Session, SetUserOnline(s) PROVE TypeOK'
  BY SMTT(20), <1>2 DEF TypeOK, SetUserOnline, Fault, clientVars, saveVars, sendVars
<1>3. ASSUME NEW s \in Session, SocketDies(s) PROVE TypeOK'
  <2>1. \A h \in Held : [h EXCEPT !.live = FALSE] \in Held
    BY DEF Held
  <2>2. held' \subseteq Held
    BY <1>3, <2>1 DEF TypeOK, SocketDies
  <2> QED
    BY <1>3, <2>2 DEF TypeOK, SocketDies, clientVars, saveVars
<1>4. ASSUME NEW s \in Session, DelConn(s) PROVE TypeOK'
  BY <1>4 DEF TypeOK, DelConn, clientVars, saveVars, sendVars
<1>5. ASSUME NEW s \in Session, SetUserOffline(s) PROVE TypeOK'
  <2>1. leaving' \in [Session -> Nat]
    BY <1>5 DEF TypeOK, SetUserOffline
  <2>2. faults' \in Nat /\ hstnm' \in [User -> Gateway \union {None}]
    BY <1>5 DEF TypeOK, SetUserOffline, Fault
  <2> QED
    BY <1>5, <2>1, <2>2 DEF TypeOK, SetUserOffline, clientVars, saveVars, sendVars
<1>6. ASSUME NEW u \in User, HostExpires(u) PROVE TypeOK'
  BY <1>6 DEF TypeOK, HostExpires, Fault, clientVars, saveVars, sendVars
<1>7. ASSUME NEW g \in Gateway, GatewayCrash(g) PROVE TypeOK'
  BY <1>7 DEF TypeOK, GatewayCrash, Fault, clientVars, saveVars, sendVars
<1>8. ASSUME NEW g \in Gateway, GatewayRestart(g) PROVE TypeOK'
  BY <1>8 DEF TypeOK, GatewayRestart, clientVars, saveVars, sendVars
<1> QED
  BY <1>1, <1>2, <1>3, <1>4, <1>5, <1>6, <1>7, <1>8 DEF SessionStep

(* The wires and bodies the actions build are WsMsg records. *)
LEMMA BodyTypes ==
  /\ \A m \in Msg : MsgBody(m) \in WsMsg
  /\ \A u \in User, v \in User, i \in Nat, st \in {"read", "del"} : StatusBody(u, v, i, st) \in WsMsg
  /\ \A b \in WsMsg : StatusWire(b) \in WsMsg /\ SaveErrWire(b) \in WsMsg /\ Addressee(b) \in User
  BY ConstantsAssumption DEF MsgBody, StatusBody, StatusWire, SaveErrWire, Addressee, WsMsg, Status

(* Reading, publishing and the gateway's own notices keep the types. *)
LEMMA ClientTypeOK == TypeOK /\ ClientStep => TypeOK'
<1> SUFFICES ASSUME TypeOK, ClientStep PROVE TypeOK'
  OBVIOUS
<1>1. ASSUME NEW m \in Msg, ClientSend(m) PROVE TypeOK'
  <2>1. PICK s \in serving : toPublish' = toPublish \union {[gw |-> s[2], body |-> MsgBody(m)]}
    BY <1>1 DEF ClientSend
  <2>2. [gw |-> s[2], body |-> MsgBody(m)] \in Published
    BY <2>1, BodyTypes DEF TypeOK, Published
  <2> QED
    BY <1>1, <2>1, <2>2 DEF TypeOK, ClientSend, sessionVars, sendVars
<1>2. ASSUME NEW u \in User, NEW i \in DOMAIN db, NEW st \in {"read", "del"}, ClientMark(u, i, st)
      PROVE TypeOK'
  <2> DEFINE peer(n) == IF n.wire.type = "delivery" THEN n.wire.from ELSE n.wire.to
             p(s, n) == [gw |-> s[2], body |-> StatusBody(u, peer(n), i, st)]
  <2>1. PICK s \in serving, n \in inbox : toPublish' = toPublish \union {p(s, n)}
    BY <1>2 DEF ClientMark
  <2>2. i \in Nat
    BY DEF TypeOK
  <2>3. peer(n) \in User
    BY DEF TypeOK, WsMsg
  <2>4. p(s, n) \in Published
    BY <2>2, <2>3, BodyTypes DEF TypeOK, Published
  <2>5. marked' \subseteq User \X Nat \X {"read", "del"}
    BY <1>2, <2>2 DEF TypeOK, ClientMark
  <2> QED
    BY <1>2, <2>1, <2>4, <2>5 DEF TypeOK, ClientMark, sessionVars, sendVars
<1> QED
  BY <1>1, <1>2 DEF ClientStep

(* Every body in the broker's or the service's hands was accepted, so it   *)
(* has the shape of what a client sent.                                    *)
LEMMA SavingOK ==
  ASSUME TypeOK, BodiesOK, OnlyAccepted
  PROVE  \A b \in Queued : b \in WsMsg /\ b \in accepted /\ (MsgBodyOK(b) \/ StatusBodyOK(b))
  BY DEF TypeOK, BodiesOK, OnlyAccepted

(* The row a body becomes and the id it gets. *)
LEMMA SaveTypes ==
  ASSUME TypeOK, BodiesOK, OnlyAccepted, NEW b \in saving,
         InsertMessage(b) \/ UpdateMessageStatus(b)
  PROVE  /\ db' \in Seq(Row)
         /\ applied' \subseteq Nat \X Status
         /\ [body |-> b, id |-> RowId(b)] \in [body : WsMsg, id : Nat]
<1>1. b \in WsMsg /\ (MsgBodyOK(b) \/ StatusBodyOK(b))
  BY SavingOK DEF Queued
<1>2. db \in Seq(Row) /\ applied \subseteq Nat \X Status
  BY DEF TypeOK
<1>3. CASE InsertMessage(b)
  <2>1. MsgBodyOK(b)
    BY <1>1, <1>3 DEF InsertMessage, StatusBodyOK
  <2>2. NewRow(b) \in Row
    BY <1>1, <2>1 DEF MsgBodyOK, NewRow, Row, WsMsg
  <2> QED
    BY <1>1, <1>2, <1>3, <2>2 DEF InsertMessage, RowId, WsMsg
<1>4. CASE UpdateMessageStatus(b)
  <2>1. StatusBodyOK(b)
    BY <1>1, <1>4 DEF UpdateMessageStatus, MsgBodyOK
  <2>2. [db[b.id] EXCEPT !.status = b.status] \in Row
    <3>1. db[b.id] \in Row /\ b.status \in {"read", "del"}
      BY <1>2, <2>1 DEF StatusBodyOK
    <3> QED
      BY <3>1 DEF Row
  <2>3. db' = [db EXCEPT ![b.id] = [db[b.id] EXCEPT !.status = b.status]]
    BY <1>4 DEF UpdateMessageStatus
  <2>4. db' \in Seq(Row)
    BY <1>2, <2>1, <2>2, <2>3 DEF StatusBodyOK
  <2> QED
    BY <1>1, <1>2, <1>4, <2>4 DEF UpdateMessageStatus, RowId, WsMsg
<1> QED
  BY <1>3, <1>4

(* Storing, acknowledging and routing keep the types. *)
LEMMA SaveTypeOK == TypeOK /\ BodiesOK /\ OnlyAccepted /\ SaveStep => TypeOK'
<1> SUFFICES ASSUME TypeOK, BodiesOK, OnlyAccepted, SaveStep PROVE TypeOK'
  OBVIOUS
<1>1. ASSUME NEW p \in toPublish, PublishMsg(p) PROVE TypeOK'
  BY <1>1 DEF TypeOK, PublishMsg, Published, sessionVars, clientVars, sendVars
<1>2. ASSUME NEW p \in toPublish, PublishMsgFails(p) PROVE TypeOK'
  <2> DEFINE h == [gw |-> p.gw, wire |-> SaveErrWire(p.body),
                   live |-> <<p.body.from, p.gw>> \in live, src |-> "local"]
  <2>1. p.gw \in Gateway /\ SaveErrWire(p.body) \in WsMsg
    BY BodyTypes DEF TypeOK, Published
  <2>2. h \in Held
    BY <2>1 DEF Held
  <2>3. held' \subseteq Held
    BY <1>2, <2>2 DEF TypeOK, PublishMsgFails
  <2>4. toPublish' \subseteq Published /\ faults' \in Nat
    BY <1>2 DEF TypeOK, PublishMsgFails, Fault
  <2> QED
    BY <1>2, <2>3, <2>4 DEF TypeOK, PublishMsgFails, sessionVars, clientVars
<1>3. ASSUME NEW p \in toPublish, PublishMsgLost(p) PROVE TypeOK'
  BY <1>3 DEF TypeOK, PublishMsgLost, Fault, sessionVars, clientVars, sendVars
<1>4. ASSUME NEW b \in qSave, Deliver(b) PROVE TypeOK'
  BY <1>4 DEF TypeOK, Deliver, sessionVars, clientVars, sendVars
<1>5. ASSUME NEW b \in saving, Save(b) PROVE TypeOK'
  BY <1>5, SaveTypes DEF TypeOK, Save, sessionVars, clientVars, sendVars
<1>6. ASSUME NEW b \in saving, SaveFails(b) PROVE TypeOK'
  BY <1>6 DEF TypeOK, SaveFails, Fault, sessionVars, clientVars, sendVars
<1>7. ASSUME NEW b \in saving, SaveReplyLost(b) PROVE TypeOK'
  BY <1>7, SaveTypes DEF TypeOK, SaveReplyLost, Fault, sessionVars, clientVars, sendVars
<1>8. ASSUME NEW d \in done, Acknowledge(d) PROVE TypeOK'
  <2>1. d.body \in WsMsg /\ d.id \in Nat
    BY DEF TypeOK
  <2>2. DeliveryWire(d.id, d.body) \in WsMsg /\ SavedWire(d.id, d.body, d.body.uuid) \in WsMsg
    BY <2>1 DEF DeliveryWire, SavedWire, WsMsg, Status
  <2>3. RoutingJobs(d) \subseteq Job
    <3>1. d.body.to \in User /\ d.body.from \in User /\ StatusWire(d.body) \in WsMsg
      BY <2>1, BodyTypes DEF WsMsg
    <3> QED
      BY <2>2, <3>1 DEF RoutingJobs, Job
  <2>4. qSave' \subseteq WsMsg /\ faults' \in Nat
    BY <1>8, <2>1 DEF TypeOK, Acknowledge, Fault
  <2> QED
    BY <1>8, <2>3, <2>4 DEF TypeOK, Acknowledge, sessionVars, clientVars
<1>9. CASE ServiceCrash
  BY <1>9 DEF TypeOK, ServiceCrash, Fault, sessionVars, clientVars
<1> QED
  BY <1>1, <1>2, <1>3, <1>4, <1>5, <1>6, <1>7, <1>8, <1>9 DEF SaveStep

(* Routing to a gateway and writing to a socket keep the types. *)
LEMMA SendTypeOK == TypeOK /\ SendStep => TypeOK'
<1> SUFFICES ASSUME TypeOK, SendStep PROVE TypeOK'
  OBVIOUS
<1>1. ASSUME NEW j \in jobs, GetUserHost(j) PROVE TypeOK'
  <2>1. [j EXCEPT !.host = hstnm[j.key]] \in Job
    BY <1>1 DEF TypeOK, Job
  <2>2. jobs' \subseteq Job
    BY <1>1, <2>1 DEF TypeOK, GetUserHost
  <2> QED
    BY <1>1, <2>2 DEF TypeOK, GetUserHost, sessionVars, clientVars, saveVars
<1>2. ASSUME NEW j \in jobs, HostUnknown(j) PROVE TypeOK'
  BY <1>2 DEF TypeOK, HostUnknown, Fault, sessionVars, clientVars, saveVars
<1>3. ASSUME NEW j \in jobs, PublishSend(j) PROVE TypeOK'
  <2>1. [gw |-> j.host, wire |-> j.wire] \in Wired
    BY <1>3 DEF TypeOK, PublishSend, Job, Wired
  <2>2. qSend' \subseteq Wired /\ faults' \in Nat
    BY <1>3, <2>1 DEF TypeOK, PublishSend, Fault
  <2> QED
    BY <1>3, <2>2 DEF TypeOK, PublishSend, sessionVars, clientVars, saveVars
<1>4. ASSUME NEW d \in qSend, ConsumeMsg(d) PROVE TypeOK'
  <2>1. d \in Wired
    BY DEF TypeOK
  <2>2. [gw |-> d.gw, wire |-> d.wire, live |-> <<Addressee(d.wire), d.gw>> \in live, src |-> "queue"] \in Held
    BY <2>1 DEF Wired, Held
  <2>3. held' \subseteq Held /\ unacked' \subseteq Wired
    BY <1>4, <2>1, <2>2 DEF TypeOK, ConsumeMsg
  <2> QED
    BY <1>4, <2>3 DEF TypeOK, ConsumeMsg, sessionVars, clientVars, saveVars
<1>5. ASSUME NEW h \in held, WriteJSON(h) PROVE TypeOK'
  <2>1. [user |-> Addressee(h.wire), wire |-> h.wire] \in [user : User, wire : WsMsg]
    BY BodyTypes DEF TypeOK, Held
  <2> QED
    BY <1>5, <2>1 DEF TypeOK, WriteJSON, sessionVars, clientVars, saveVars
<1>6. ASSUME NEW h \in held, WriteFails(h) PROVE TypeOK'
  <2>1. [gw |-> h.gw, wire |-> h.wire] \in Wired
    BY DEF TypeOK, Held, Wired
  <2> QED
    BY <1>6, <2>1 DEF TypeOK, WriteFails, sessionVars, clientVars, saveVars
<1> QED
  BY <1>1, <1>2, <1>3, <1>4, <1>5, <1>6 DEF SendStep

LEMMA NextTypeOK == TypeOK /\ BodiesOK /\ OnlyAccepted /\ [Next]_vars => TypeOK'
<1> SUFFICES ASSUME TypeOK, BodiesOK, OnlyAccepted, [Next]_vars PROVE TypeOK'
  OBVIOUS
<1>1. CASE UNCHANGED vars
  BY <1>1 DEF TypeOK, vars, sessionVars, clientVars, saveVars, sendVars
<1> QED
  BY <1>1, SessionTypeOK, ClientTypeOK, SaveTypeOK, SendTypeOK DEF Next

-----------------------------------------------------------------------------
(* Most steps only move wires and bodies between the places of the path.   *)

Core == BodiesOK /\ OnlyAccepted /\ DoneInTable /\ SentOnce /\ WiresOK /\ InboxOK
          /\ AcceptedNotLost /\ RoutedToAddressee

Quiet ==
  /\ sent' = sent /\ accepted' = accepted /\ db' = db /\ applied' = applied
  /\ toPublish' \subseteq toPublish
  /\ Queued' \subseteq Queued
  /\ done' \subseteq done
  /\ qSave \union saving \subseteq qSave' \union saving'
  /\ \A j \in jobs' : \E k \in jobs : k.key = j.key /\ k.wire = j.wire
  /\ InTransit' \subseteq InTransit
  /\ inbox \subseteq inbox'
  /\ \A n \in inbox' : n \in inbox \/ n.user = Addressee(n.wire)

LEMMA QuietCore ==
  ASSUME Core, Quiet
  PROVE  Core'
<1> USE DEF Quiet
<1>1. BodiesOK'
  BY DEF Core, BodiesOK, MsgBodyOK, StatusBodyOK, Justified
<1>2. OnlyAccepted'
  BY DEF Core, OnlyAccepted
<1>3. DoneInTable'
  BY DEF Core, DoneInTable
<1>4. SentOnce'
  BY DEF Core, SentOnce
<1>5. WiresOK'
  BY DEF Core, WiresOK, WireOK
<1>6. InboxOK'
  BY DEF Core, InboxOK
<1>7. AcceptedNotLost'
  BY DEF Core, AcceptedNotLost, Recorded
<1>8. RoutedToAddressee'
  BY DEF Core, RoutedToAddressee
<1> QED
  BY <1>1, <1>2, <1>3, <1>4, <1>5, <1>6, <1>7, <1>8 DEF Core

LEMMA SessionCore == TypeOK /\ Core /\ SessionStep => Core'
<1> SUFFICES ASSUME TypeOK, Core, SessionStep PROVE Core'
  OBVIOUS
<1>1. ASSUME NEW s \in Session, SocketDies(s) PROVE Quiet
  <2> DEFINE S(h) == IF <<Addressee(h.wire), h.gw>> = s THEN [h EXCEPT !.live = FALSE] ELSE h
  <2>a. held' = {S(h) : h \in held} /\ \A h \in held : S(h).wire = h.wire
    BY <1>1 DEF TypeOK, Held, SocketDies
  <2> HIDE DEF S
  <2>1. {h.wire : h \in held'} = {h.wire : h \in held}
    BY <2>a
  <2>2. InTransit' = InTransit
    BY <1>1, <2>1 DEF SocketDies, InTransit
  <2> QED
    BY <1>1, <2>2 DEF Quiet, SocketDies, Queued, clientVars, saveVars
<1>2. ASSUME NEW g \in Gateway, GatewayCrash(g) PROVE Quiet
  <2>1. InTransit' \subseteq InTransit
    BY <1>2 DEF GatewayCrash, InTransit
  <2> QED
    BY <1>2, <2>1 DEF Quiet, GatewayCrash, Queued, clientVars
<1>3. ASSUME UNCHANGED <<clientVars, saveVars, sendVars>> PROVE Quiet
  BY <1>3 DEF Quiet, Queued, InTransit, clientVars, saveVars, sendVars
<1>4. Quiet
  BY <1>1, <1>2, <1>3 DEF SessionStep, Connect, SetUserOnline, DelConn, SetUserOffline,
     HostExpires, GatewayRestart
<1> QED
  BY <1>4, QuietCore

LEMMA SendCore == TypeOK /\ Core /\ SendStep => Core'
<1> SUFFICES ASSUME TypeOK, Core, SendStep PROVE Core'
  OBVIOUS
<1>1. ASSUME NEW j \in jobs, GetUserHost(j) PROVE Quiet
  <2> DEFINE k == [j EXCEPT !.host = hstnm[j.key]]
  <2>1. k.key = j.key /\ k.wire = j.wire /\ jobs' = (jobs \ {j}) \union {k}
    BY <1>1 DEF TypeOK, Job, GetUserHost
  <2> HIDE DEF k
  <2>2. InTransit' \subseteq InTransit
    BY <1>1, <2>1 DEF GetUserHost, InTransit
  <2> QED
    BY <1>1, <2>1, <2>2 DEF Quiet, GetUserHost, Queued, clientVars, saveVars
<1>2. ASSUME NEW j \in jobs, HostUnknown(j) PROVE Quiet
  <2>1. InTransit' \subseteq InTransit
    BY <1>2 DEF HostUnknown, InTransit
  <2> QED
    BY <1>2, <2>1 DEF Quiet, HostUnknown, Queued, clientVars, saveVars
<1>3. ASSUME NEW j \in jobs, PublishSend(j) PROVE Quiet
  <2>1. {d.wire : d \in qSend'} \subseteq {d.wire : d \in qSend} \union {j.wire}
    BY <1>3 DEF PublishSend
  <2>2. InTransit' \subseteq InTransit
    BY <1>3, <2>1 DEF PublishSend, InTransit
  <2> QED
    BY <1>3, <2>2 DEF Quiet, PublishSend, Queued, clientVars, saveVars
<1>4. ASSUME NEW d \in qSend, ConsumeMsg(d) PROVE Quiet
  <2>1. {h.wire : h \in held'} \subseteq {h.wire : h \in held} \union {d.wire}
    BY <1>4 DEF ConsumeMsg
  <2>2. unacked' \subseteq unacked \union {d}
    BY <1>4 DEF ConsumeMsg
  <2>3. InTransit' \subseteq InTransit
    BY <1>4, <2>1, <2>2 DEF ConsumeMsg, InTransit
  <2> QED
    BY <1>4, <2>3 DEF Quiet, ConsumeMsg, Queued, clientVars, saveVars
<1>5. ASSUME NEW h \in held, WriteJSON(h) PROVE Quiet
  <2>1. {n.wire : n \in inbox'} \subseteq {n.wire : n \in inbox} \union {h.wire}
    BY <1>5 DEF WriteJSON
  <2>2. InTransit' \subseteq InTransit
    BY <1>5, <2>1 DEF WriteJSON, InTransit
  <2> QED
    BY <1>5, <2>2 DEF Quiet, WriteJSON, Queued, clientVars, saveVars
<1>6. ASSUME NEW h \in held, WriteFails(h) PROVE Quiet
  <2>1. {d.wire : d \in qSend'} \subseteq {d.wire : d \in qSend} \union {h.wire}
    BY <1>6 DEF WriteFails
  <2>2. InTransit' \subseteq InTransit
    BY <1>6, <2>1 DEF WriteFails, InTransit
  <2> QED
    BY <1>6, <2>2 DEF Quiet, WriteFails, Queued, clientVars, saveVars
<1>7. Quiet
  BY <1>1, <1>2, <1>3, <1>4, <1>5, <1>6 DEF SendStep
<1> QED
  BY <1>7, QuietCore

-----------------------------------------------------------------------------
(* The steps that create a body, a row or a wire, one by one.              *)

(* What a client may send next is new: nobody holds its message yet.       *)
LEMMA ClientCore == TypeOK /\ Core /\ ClientStep => Core'
<1> SUFFICES ASSUME TypeOK, Core, ClientStep PROVE Core'
  OBVIOUS
<1>1. ASSUME NEW m \in Msg, ClientSend(m) PROVE Core'
  <2> USE DEF Core
  <2>1. PICK g : toPublish' = toPublish \union {[gw |-> g, body |-> MsgBody(m)]}
    BY <1>1 DEF ClientSend
  <2>2. /\ m \notin sent /\ sent' = sent \union {m}
        /\ UNCHANGED <<accepted, qSave, saving, done, db, applied, sendVars>>
    BY <1>1 DEF ClientSend
  <2>3. MsgBody(m).type = "msg" /\ MsgBody(m).text = m
    BY DEF MsgBody
  <2>4. InTransit' = InTransit /\ Queued' = Queued
    BY <2>2 DEF InTransit, Queued, sendVars
  <2>5. BodiesOK'
    <3>1. MsgBodyOK(MsgBody(m)) /\ Justified(MsgBody(m))'
      BY <2>3 DEF MsgBodyOK, Justified
    <3> QED
      BY <2>1, <2>2, <3>1 DEF BodiesOK, MsgBodyOK, StatusBodyOK, Justified, sendVars
  <2>6. SentOnce'
    <3>1. \A b \in accepted \union {p.body : p \in toPublish} : b.type = "msg" => b.text # m
      BY <2>2 DEF SentOnce
    <3>2. MsgBody(m) \notin accepted \union {p.body : p \in toPublish}
      BY <2>3, <3>1
    <3>3. \A w \in InTransit : w.type = "msg_status" /\ w.status = "save_err" /\ w.uuid # None
            => w.uuid # m /\ MsgBody(w.uuid) # MsgBody(m)
      BY <2>2, <2>3 DEF SentOnce, MsgBody
    <3> HIDE DEF Core
    <3> QED
      BY <2>1, <2>2, <2>3, <2>4, <3>2, <3>3 DEF SentOnce, Core
  <2>7. OnlyAccepted' /\ DoneInTable' /\ AcceptedNotLost'
    BY <2>2, <2>4 DEF OnlyAccepted, DoneInTable, AcceptedNotLost, Recorded
  <2>8. WiresOK' /\ InboxOK' /\ RoutedToAddressee'
    BY <2>2, <2>4 DEF WiresOK, WireOK, InboxOK, RoutedToAddressee, sendVars
  <2> QED
    BY <2>5, <2>6, <2>7, <2>8
<1>2. ASSUME NEW u \in User, NEW i \in DOMAIN db, NEW st \in {"read", "del"}, ClientMark(u, i, st)
      PROVE Core'
  <2> USE DEF Core
  <2> DEFINE peer(n) == IF n.wire.type = "delivery" THEN n.wire.from ELSE n.wire.to
  <2>1. PICK s \in serving, n \in inbox :
          /\ n.user = u /\ n.wire.id = i
          /\ \/ n.wire.type = "delivery"
             \/ n.wire.status = "saved" /\ st = "del"
          /\ toPublish' = toPublish \union {[gw |-> s[2], body |-> StatusBody(u, peer(n), i, st)]}
    BY <1>2 DEF ClientMark
  <2> DEFINE b == StatusBody(u, peer(n), i, st)
  <2>2. UNCHANGED <<sent, accepted, qSave, saving, done, db, applied, sendVars>>
    BY <1>2 DEF ClientMark
  <2>3. /\ b.type = "msg_status" /\ b.uuid = None /\ b.text = None
        /\ b.id = i /\ b.status = st /\ b.from = u /\ b.to = peer(n)
    BY DEF StatusBody
  <2>4. InTransit' = InTransit /\ Queued' = Queued
    BY <2>2 DEF InTransit, Queued, sendVars
  <2>5. WireOK(n.wire) /\ n.user = Addressee(n.wire)
    BY DEF WiresOK, InTransit, InboxOK
  <2>6. StatusBodyOK(b) /\ Justified(b)
    <3>1. CASE n.wire.type = "delivery"
      <4>1. n.wire.to = db[i].to /\ n.wire.from = db[i].from /\ u = n.wire.to
        BY <2>1, <2>5, <3>1 DEF WireOK, DeliveryWire, Addressee
      <4> QED
        BY <2>1, <2>3, <3>1, <4>1 DEF StatusBodyOK, Justified
    <3>2. CASE n.wire.type # "delivery"
      <4>1. n.wire.type = "msg_status" /\ n.wire.status = "saved" /\ st = "del"
        BY <2>1, <2>5, <3>2 DEF WireOK
      <4>2. n.wire.to = db[i].to /\ n.wire.from = db[i].from /\ u = n.wire.from
        BY <2>1, <2>5, <3>2, <4>1 DEF WireOK, SavedWire, Addressee
      <4> QED
        BY <2>1, <2>3, <3>2, <4>1, <4>2 DEF StatusBodyOK, Justified
    <3> QED
      BY <3>1, <3>2
  <2> HIDE DEF b
  <2>7. toPublish' = toPublish \union {[gw |-> s[2], body |-> b]}
    BY <2>1 DEF b
  <2>8. BodiesOK'
    BY <2>2, <2>6, <2>7 DEF BodiesOK, MsgBodyOK, StatusBodyOK, Justified, sendVars
  <2>9. SentOnce'
    <3>1. \A c \in Msg : MsgBody(c) # b
      BY <2>3 DEF MsgBody
    <3>2. \A w \in InTransit : w.type = "msg_status" /\ w.status = "save_err" /\ w.uuid # None
            => w.uuid \in Msg
      BY DEF SentOnce, TypeOK
    <3> QED
      BY <2>2, <2>3, <2>4, <2>7, <3>1, <3>2 DEF SentOnce
  <2>10. OnlyAccepted' /\ DoneInTable' /\ AcceptedNotLost'
    BY <2>2, <2>4 DEF OnlyAccepted, DoneInTable, AcceptedNotLost, Recorded
  <2>11. WiresOK' /\ InboxOK' /\ RoutedToAddressee'
    BY <2>2, <2>4 DEF WiresOK, WireOK, InboxOK, RoutedToAddressee, sendVars
  <2> QED
    BY <2>8, <2>9, <2>10, <2>11
<1> QED
  BY <1>1, <1>2 DEF ClientStep

(* A stored body extends the table or changes one status, nothing else.    *)
LEMMA TableGrows ==
  ASSUME TypeOK, BodiesOK, OnlyAccepted, NEW b \in saving,
         InsertMessage(b) \/ UpdateMessageStatus(b)
  PROVE  /\ DOMAIN db \subseteq DOMAIN db'
         /\ \A i \in DOMAIN db : /\ db'[i].text = db[i].text
                                 /\ db'[i].from = db[i].from
                                 /\ db'[i].to = db[i].to
         /\ \A i \in DOMAIN db' \ DOMAIN db : b.type = "msg" /\ db'[i] = NewRow(b)
         /\ applied \subseteq applied'
         /\ b.type = "msg" => RowId(b) \in DOMAIN db' /\ db'[RowId(b)] = NewRow(b) /\ applied' = applied
         /\ b.type = "msg_status" => applied' = applied \union {<<b.id, b.status>>}
<1>1. db \in Seq(Row) /\ b \in WsMsg /\ (MsgBodyOK(b) \/ StatusBodyOK(b))
  BY SavingOK DEF Queued, TypeOK
<1>2. CASE InsertMessage(b)
  <2>1. Len(db) \in Nat /\ DOMAIN db = 1 .. Len(db)
    BY <1>1
  <2>2. db' = Append(db, NewRow(b)) /\ applied' = applied /\ b.type = "msg"
    BY <1>2 DEF InsertMessage
  <2>3. DOMAIN db' = 1 .. Len(db) + 1
    BY <1>1, <2>1, <2>2
  <2>4. \A i \in DOMAIN db : db'[i] = db[i]
    BY <1>1, <2>1, <2>2
  <2>5. db'[Len(db) + 1] = NewRow(b)
    BY <1>1, <2>1, <2>2
  <2>6. DOMAIN db \subseteq DOMAIN db' /\ \A i \in DOMAIN db' \ DOMAIN db : i = Len(db) + 1
    BY <2>1, <2>3
  <2> QED
    BY <2>1, <2>2, <2>3, <2>4, <2>5, <2>6 DEF RowId
<1>3. CASE UpdateMessageStatus(b)
  <2>1. /\ db' = [db EXCEPT ![b.id].status = b.status] /\ b.type = "msg_status"
        /\ applied' = applied \union {<<b.id, b.status>>}
    BY <1>3 DEF UpdateMessageStatus
  <2>2. \A i \in DOMAIN db : db[i] \in Row
    BY <1>1
  <2>3. DOMAIN db' = DOMAIN db
    BY <2>1
  <2>4. \A i \in DOMAIN db : db'[i] = IF i = b.id THEN [db[i] EXCEPT !.status = b.status] ELSE db[i]
    BY <2>1
  <2>5. \A i \in DOMAIN db : /\ db'[i].text = db[i].text
                            /\ db'[i].from = db[i].from
                            /\ db'[i].to = db[i].to
    BY <2>2, <2>4 DEF Row
  <2> QED
    BY <2>1, <2>3, <2>5
<1> QED
  BY <1>2, <1>3

(* Save and SaveReplyLost: the row is there, and the body is done or back  *)
(* in the queue.                                                           *)
LEMMA StoreCore ==
  ASSUME TypeOK, Core, NEW b \in saving,
         InsertMessage(b) \/ UpdateMessageStatus(b),
         UNCHANGED <<sent, toPublish, accepted, sendVars>>,
         Queued' \subseteq Queued,
         (qSave \union saving) \ {b} \subseteq qSave' \union saving',
         done' \subseteq done \union {[body |-> b, id |-> RowId(b)]}
  PROVE  Core'
<1> USE DEF Core
<1>1. /\ b \in WsMsg /\ b \in accepted /\ (MsgBodyOK(b) \/ StatusBodyOK(b))
      /\ b.type \in {"msg", "msg_status"}
  BY SavingOK DEF Queued, MsgBodyOK, StatusBodyOK
<1>2. /\ DOMAIN db \subseteq DOMAIN db'
      /\ \A i \in DOMAIN db : /\ db'[i].text = db[i].text
                              /\ db'[i].from = db[i].from
                              /\ db'[i].to = db[i].to
      /\ \A i \in DOMAIN db' \ DOMAIN db : b.type = "msg" /\ db'[i] = NewRow(b)
      /\ applied \subseteq applied'
      /\ b.type = "msg" => RowId(b) \in DOMAIN db' /\ db'[RowId(b)] = NewRow(b) /\ applied' = applied
      /\ b.type = "msg_status" => applied' = applied \union {<<b.id, b.status>>}
  BY TableGrows
<1>3. InTransit' = InTransit /\ inbox' = inbox /\ jobs' = jobs
  BY DEF InTransit, sendVars
<1>4. BodiesOK'
  BY <1>2, <1>3 DEF BodiesOK, MsgBodyOK, StatusBodyOK, Justified
<1>5. OnlyAccepted'
  <2>1. \A i \in DOMAIN db' : /\ MsgBody(db'[i].text) \in accepted
                             /\ db'[i].from = MsgBody(db'[i].text).from
                             /\ db'[i].to = MsgBody(db'[i].text).to
    <3>1. CASE b.type = "msg"
      <4>1. NewRow(b).text = b.text /\ NewRow(b).from = b.from /\ NewRow(b).to = b.to
        BY DEF NewRow
      <4>2. b = MsgBody(b.text)
        BY <1>1, <3>1 DEF MsgBodyOK, StatusBodyOK
      <4> QED
        BY <1>1, <1>2, <4>1, <4>2 DEF OnlyAccepted
    <3>2. CASE b.type = "msg_status"
      BY <1>2, <3>2 DEF OnlyAccepted
    <3> QED
      BY <1>1, <3>1, <3>2
  <2>2. \A a \in applied' : \E c \in accepted : c.type = "msg_status" /\ a = <<c.id, c.status>>
    BY <1>1, <1>2 DEF OnlyAccepted
  <2> QED
    BY <2>1, <2>2 DEF OnlyAccepted
<1>6. DoneInTable'
  <2> DEFINE ok(d) == \/ d.body.type = "msg" /\ d.id \in DOMAIN db /\ db[d.id].text = d.body.text
                      \/ /\ d.body.type = "msg_status" /\ d.id = d.body.id
                         /\ <<d.id, d.body.status>> \in applied
  <2>1. ASSUME NEW d \in done PROVE ok(d)'
    <3>1. ok(d)
      BY DEF DoneInTable
    <3> QED
      BY <1>2, <3>1
  <2>2. ASSUME NEW d, d.body = b, d.id = RowId(b) PROVE ok(d)'
    <3>1. CASE b.type = "msg"
      BY <1>2, <2>2, <3>1 DEF NewRow
    <3>2. CASE b.type = "msg_status"
      BY <1>2, <2>2, <3>2 DEF RowId
    <3> QED
      BY <1>1, <3>1, <3>2
  <2> HIDE DEF ok
  <2>3. \A d \in done' : ok(d)'
    BY <2>1, <2>2
  <2> QED
    BY <2>3 DEF ok, DoneInTable
<1>7. SentOnce'
  BY <1>3 DEF SentOnce
<1>8. WiresOK'
  BY <1>2, <1>3 DEF WiresOK, WireOK, DeliveryWire, SavedWire
<1>9. InboxOK' /\ RoutedToAddressee'
  BY <1>3 DEF InboxOK, RoutedToAddressee
<1>10. AcceptedNotLost'
  <2>1. \A c \in accepted : Recorded(c) => Recorded(c)'
    BY <1>2 DEF Recorded
  <2>2. Recorded(b)'
    BY <1>1, <1>2 DEF Recorded, NewRow
  <2> QED
    BY <2>1, <2>2 DEF AcceptedNotLost
<1> QED
  BY <1>4, <1>5, <1>6, <1>7, <1>8, <1>9, <1>10

(* The wires of an acknowledged body are true of its row and keyed by      *)
(* their addressee.                                                        *)
LEMMA JobsOK ==
  ASSUME TypeOK, Core, NEW d \in done
  PROVE  \A j \in RoutingJobs(d) :
           /\ j.key = Addressee(j.wire)
           /\ WireOK(j.wire)
           /\ j.wire.status # "save_err"
<1> USE DEF Core
<1>1. /\ d.body \in Queued
      /\ d.body \in accepted /\ (MsgBodyOK(d.body) \/ StatusBodyOK(d.body))
  BY SavingOK DEF Queued
<1>2. CASE d.body.type = "msg"
  <2>1. /\ d.id \in DOMAIN db /\ db[d.id].text = d.body.text
        /\ MsgBody(d.body.text) = d.body /\ d.body.uuid = d.body.text
    <3>1. d.body = MsgBody(d.body.text)
      BY <1>1, <1>2 DEF MsgBodyOK, StatusBodyOK
    <3>2. MsgBody(d.body.text).uuid = d.body.text
      BY DEF MsgBody
    <3>3. d.body.uuid = d.body.text
      BY <3>1, <3>2
    <3> QED
      BY <1>2, <3>1, <3>3 DEF DoneInTable
  <2>2. db[d.id].from = d.body.from /\ db[d.id].to = d.body.to
    BY <2>1 DEF OnlyAccepted
  <2> DEFINE w == DeliveryWire(d.id, d.body)
             v == SavedWire(d.id, d.body, d.body.uuid)
  <2>3. w = DeliveryWire(d.id, db[d.id]) /\ v = SavedWire(d.id, db[d.id], db[d.id].text)
    BY <2>1, <2>2 DEF DeliveryWire, SavedWire
  <2>4. /\ w.type = "delivery" /\ w.id = d.id /\ w.status = "none" /\ w.to = d.body.to
        /\ v.type = "msg_status" /\ v.id = d.id /\ v.status = "saved" /\ v.from = d.body.from
    BY DEF DeliveryWire, SavedWire
  <2>5. RoutingJobs(d) = {[key |-> d.body.to, wire |-> w, host |-> None],
                          [key |-> d.body.from, wire |-> v, host |-> None]}
    BY <1>2 DEF RoutingJobs
  <2> HIDE DEF w, v
  <2>6. WireOK(w) /\ WireOK(v)
    BY <2>1, <2>3, <2>4 DEF WireOK
  <2>7. Addressee(w) = d.body.to /\ Addressee(v) = d.body.from
    BY <2>4 DEF Addressee
  <2> QED
    BY <2>4, <2>5, <2>6, <2>7
<1>3. CASE d.body.type = "msg_status"
  <2>1. d.id = d.body.id /\ <<d.id, d.body.status>> \in applied /\ d.body.status \in {"read", "del"}
    BY <1>1, <1>3 DEF DoneInTable, MsgBodyOK, StatusBodyOK
  <2> DEFINE w == StatusWire(d.body)
  <2>2. /\ w.type = "msg_status" /\ w.id = d.body.id /\ w.status = d.body.status
        /\ w.from = d.body.to
    BY <1>1, <1>3 DEF StatusWire, WsMsg, TypeOK
  <2>3. RoutingJobs(d) = {[key |-> d.body.to, wire |-> w, host |-> None]}
    BY <1>3 DEF RoutingJobs
  <2>4. WireOK(w)
    BY <1>1, <1>3, <2>1, <2>2 DEF WireOK
  <2> HIDE DEF w
  <2>5. Addressee(w) = d.body.to
    BY <2>2 DEF Addressee
  <2> QED
    BY <2>1, <2>2, <2>3, <2>4, <2>5
<1> QED
  BY <1>1, <1>2, <1>3 DEF MsgBodyOK, StatusBodyOK

LEMMA AcknowledgeCore == ASSUME TypeOK, Core, NEW d \in done, Acknowledge(d) PROVE Core'
<1> USE DEF Core
<1>1. /\ UNCHANGED <<sent, toPublish, accepted, saving, db, applied, qSend, held, unacked, inbox>>
      /\ done' \subseteq done /\ jobs' = jobs \union RoutingJobs(d)
      /\ qSave \subseteq qSave' /\ qSave' \subseteq qSave \union {d.body}
  BY DEF Acknowledge, sessionVars, clientVars
<1>2. Queued' \subseteq Queued
  BY <1>1 DEF Queued
<1>3. InTransit' \subseteq InTransit \union {j.wire : j \in RoutingJobs(d)}
  BY <1>1 DEF InTransit
<1>4. \A j \in RoutingJobs(d) :
        j.key = Addressee(j.wire) /\ WireOK(j.wire) /\ j.wire.status # "save_err"
  BY JobsOK
<1>5. BodiesOK'
  BY <1>1 DEF BodiesOK, MsgBodyOK, StatusBodyOK, Justified
<1>6. OnlyAccepted' /\ DoneInTable' /\ InboxOK'
  BY <1>1, <1>2 DEF OnlyAccepted, DoneInTable, InboxOK
<1>7. SentOnce'
  BY <1>1, <1>3, <1>4 DEF SentOnce
<1>8. WiresOK'
  <2>1. \A w : WireOK(w) => WireOK(w)'
    BY <1>1 DEF WireOK
  <2> QED
    BY <1>3, <1>4, <2>1 DEF WiresOK
<1>9. AcceptedNotLost' /\ RoutedToAddressee'
  BY <1>1, <1>4 DEF AcceptedNotLost, Recorded, RoutedToAddressee
<1> QED
  BY <1>5, <1>6, <1>7, <1>8, <1>9

LEMMA PublishCore == ASSUME TypeOK, Core, NEW p \in toPublish, PublishMsg(p) PROVE Core'
<1> USE DEF Core
<1>1. /\ UNCHANGED <<sent, saving, done, db, applied, jobs, qSend, held, unacked, inbox>>
      /\ toPublish' = toPublish \ {p}
      /\ accepted' = accepted \union {p.body} /\ qSave' = qSave \union {p.body}
  BY DEF PublishMsg, clientVars, sendVars
<1>2. InTransit' = InTransit
  BY <1>1 DEF InTransit
<1>3. p.body \in WsMsg /\ (MsgBodyOK(p.body) \/ StatusBodyOK(p.body)) /\ Justified(p.body)
  BY DEF BodiesOK, TypeOK, Published
<1>4. BodiesOK'
  BY <1>1 DEF BodiesOK, MsgBodyOK, StatusBodyOK, Justified
<1>5. OnlyAccepted'
  BY <1>1 DEF OnlyAccepted, Queued
<1>6. SentOnce'
  <2>1. \A q \in toPublish' : q.body.type = "msg" => q.body # p.body
    BY <1>1 DEF SentOnce
  <2>2. \A b \in accepted' : b.type = "msg" => b.text \in sent
    BY <1>1, <1>3 DEF SentOnce
  <2>3. accepted' \union {q.body : q \in toPublish'} \subseteq accepted \union {q.body : q \in toPublish}
    BY <1>1
  <2> QED
    BY <1>1, <1>2, <2>1, <2>2, <2>3 DEF SentOnce
<1>7. DoneInTable' /\ InboxOK' /\ RoutedToAddressee'
  BY <1>1 DEF DoneInTable, InboxOK, RoutedToAddressee
<1>8. WiresOK'
  BY <1>1, <1>2 DEF WiresOK, WireOK
<1>9. AcceptedNotLost'
  BY <1>1 DEF AcceptedNotLost, Recorded
<1> QED
  BY <1>4, <1>5, <1>6, <1>7, <1>8, <1>9

LEMMA PublishFailsCore == ASSUME TypeOK, Core, NEW p \in toPublish, PublishMsgFails(p) PROVE Core'
<1> USE DEF Core
<1> DEFINE w == SaveErrWire(p.body)
<1>1. /\ UNCHANGED <<sent, accepted, qSave, saving, done, db, applied, jobs, qSend, unacked, inbox>>
      /\ toPublish' = toPublish \ {p}
      /\ {h.wire : h \in held'} \subseteq {h.wire : h \in held} \union {w}
  BY DEF PublishMsgFails, clientVars
<1>2. InTransit' \subseteq InTransit \union {w}
  BY <1>1 DEF InTransit
<1>3. p.body \in WsMsg /\ (MsgBodyOK(p.body) \/ StatusBodyOK(p.body))
  BY DEF BodiesOK, TypeOK, Published
<1>4. /\ w.type = "msg_status" /\ w.status = "save_err" /\ w.uuid = p.body.uuid
      /\ w.from = p.body.from
  BY <1>3 DEF SaveErrWire, WsMsg
<1> HIDE DEF w
<1>5. BodiesOK'
  BY <1>1 DEF BodiesOK, MsgBodyOK, StatusBodyOK, Justified
<1>6. OnlyAccepted' /\ DoneInTable' /\ InboxOK' /\ RoutedToAddressee'
  BY <1>1 DEF OnlyAccepted, Queued, DoneInTable, InboxOK, RoutedToAddressee
<1>7. SentOnce'
  <2>1. {q.body : q \in toPublish'} \subseteq {q.body : q \in toPublish}
    BY <1>1
  <2>2. ASSUME w.uuid # None
        PROVE  w.uuid \in sent /\ MsgBody(w.uuid) \notin accepted' \union {q.body : q \in toPublish'}
    <3>1. p.body.type = "msg" /\ p.body = MsgBody(w.uuid) /\ p.body.text = w.uuid
      BY <1>3, <1>4, <2>2 DEF MsgBodyOK, StatusBodyOK, MsgBody
    <3> QED
      BY <1>1, <3>1 DEF SentOnce
  <2> QED
    BY <1>1, <1>2, <2>1, <2>2 DEF SentOnce
<1>8. WiresOK'
  <2>1. w.uuid # None => w.from = Sender[w.uuid]
    BY <1>3, <1>4 DEF MsgBodyOK, StatusBodyOK, MsgBody
  <2> QED
    BY <1>1, <1>2, <1>4, <2>1 DEF WiresOK, WireOK
<1>9. AcceptedNotLost'
  BY <1>1 DEF AcceptedNotLost, Recorded
<1> QED
  BY <1>5, <1>6, <1>7, <1>8, <1>9

LEMMA SaveCore == TypeOK /\ Core /\ SaveStep => Core'
<1> SUFFICES ASSUME TypeOK, Core, SaveStep PROVE Core'
  OBVIOUS
<1>1. ASSUME NEW p \in toPublish, PublishMsgLost(p) PROVE Core'
  <2>1. Quiet
    BY <1>1 DEF Quiet, PublishMsgLost, Queued, InTransit, clientVars, sendVars
  <2> QED
    BY <2>1, QuietCore
<1>2. ASSUME NEW b \in qSave, Deliver(b) PROVE Core'
  <2>1. Quiet
    BY <1>2 DEF Quiet, Deliver, Queued, InTransit, clientVars, sendVars
  <2> QED
    BY <2>1, QuietCore
<1>3. ASSUME NEW b \in saving, Save(b) PROVE Core'
  <2>1. Queued' \subseteq Queued
    BY <1>3 DEF Save, Queued
  <2> QED
    BY <1>3, <2>1, StoreCore DEF Save, clientVars
<1>4. ASSUME NEW b \in saving, SaveFails(b) PROVE Core'
  <2>1. Quiet
    BY <1>4 DEF Quiet, SaveFails, Queued, InTransit, clientVars, sendVars
  <2> QED
    BY <2>1, QuietCore
<1>5. ASSUME NEW b \in saving, SaveReplyLost(b) PROVE Core'
  <2>1. Queued' \subseteq Queued
    BY <1>5 DEF SaveReplyLost, Queued
  <2> QED
    BY <1>5, <2>1, StoreCore DEF SaveReplyLost, clientVars
<1>6. CASE ServiceCrash
  <2>1. InTransit' \subseteq InTransit
    BY <1>6 DEF ServiceCrash, InTransit
  <2>2. Quiet
    BY <1>6, <2>1 DEF Quiet, ServiceCrash, Queued, clientVars
  <2> QED
    BY <2>2, QuietCore
<1> QED
  BY <1>1, <1>2, <1>3, <1>4, <1>5, <1>6, PublishCore, PublishFailsCore, AcknowledgeCore DEF SaveStep

-----------------------------------------------------------------------------
LEMMA InitIInv == Init => IInv
<1> SUFFICES ASSUME Init PROVE IInv
  OBVIOUS
<1>1. TypeOK
  BY InitTypeOK
<1>2. InTransit = {} /\ Queued = {} /\ DOMAIN db = {}
  BY DEF Init, InTransit, Queued
<1> QED
  BY <1>1, <1>2 DEF Init, IInv, BodiesOK, OnlyAccepted, DoneInTable, SentOnce, WiresOK, InboxOK,
     AcceptedNotLost, RoutedToAddressee

LEMMA NextIInv == IInv /\ [Next]_vars => IInv'
<1> SUFFICES ASSUME IInv, [Next]_vars PROVE IInv'
  OBVIOUS
<1>1. TypeOK /\ Core
  BY DEF IInv, Core
<1>2. TypeOK'
  BY <1>1, NextTypeOK DEF Core
<1>3. CASE UNCHANGED vars
  <2>1. Quiet
    BY <1>3 DEF Quiet, Queued, InTransit, vars, clientVars, saveVars, sendVars
  <2>2. Core'
    BY <1>1, <2>1, QuietCore
  <2> QED
    BY <1>2, <2>2 DEF IInv, Core
<1>4. CASE Next
  <2>1. Core'
    BY <1>1, <1>4, SessionCore, ClientCore, SaveCore, SendCore DEF Next
  <2> QED
    BY <1>2, <2>1 DEF IInv, Core
<1> QED
  BY <1>3, <1>4

(* The inductive invariant holds of every behaviour. *)
THEOREM Invariance == Spec => []IInv
  BY InitIInv, NextIInv, PTL DEF Spec

(* Every variable keeps its type. *)
THEOREM TypeCorrect == Spec => []TypeOK
<1>1. IInv => TypeOK
  BY DEF IInv
<1> QED
  BY <1>1, Invariance, PTL

(* No message or status the broker took on q_save_msg is lost before the   *)
(* table holds its effect, however often the message service fails.        *)
THEOREM NothingLost == Spec => []AcceptedNotLost
<1>1. IInv => AcceptedNotLost
  BY DEF IInv
<1> QED
  BY <1>1, Invariance, PTL

(* Whatever is on its way to a user, or was written to him, is true of the *)
(* table, a save_err notice is about a message that is not stored, and the *)
(* two services agree on whom a wire is for.                               *)
THEOREM WiresTrue == Spec => []WiresTruthful
<1>1. ASSUME IInv PROVE WiresTruthful
  <2> USE DEF IInv
  <2> SUFFICES ASSUME NEW w \in InTransit PROVE WireTruthful(w)
    BY <1>1 DEF WiresTruthful
  <2>1. WireOK(w)
    BY <1>1 DEF WiresOK
  <2>2. CASE w.type = "delivery"
    <3>1. w.id \in DOMAIN db /\ w = DeliveryWire(w.id, db[w.id])
      BY <2>1, <2>2 DEF WireOK
    <3>2. w.status = "none"
      BY <3>1 DEF DeliveryWire
    <3> QED
      BY <2>2, <3>1, <3>2 DEF WireTruthful
  <2>3. CASE w.type = "msg_status" /\ w.status = "saved"
    BY <2>1, <2>3 DEF WireOK, WireTruthful
  <2>4. CASE w.type = "msg_status" /\ w.status = "save_err"
    <3>1. ASSUME w.uuid # None, NEW i \in DOMAIN db, db[i].text = w.uuid PROVE FALSE
      BY <1>1, <2>4, <3>1 DEF SentOnce, OnlyAccepted
    <3> QED
      BY <2>4, <3>1 DEF WireTruthful
  <2>5. CASE w.type = "msg_status" /\ w.status \in {"read", "del"}
    <3>1. PICK b \in accepted : b.type = "msg_status" /\ w = StatusWire(b)
      BY <2>1, <2>5 DEF WireOK
    <3>2. StatusBodyOK(b) /\ b \in WsMsg
      BY <1>1, <3>1 DEF BodiesOK, MsgBodyOK, TypeOK
    <3>3. w.id = b.id /\ w.from = b.to /\ w.to = b.from
      BY <3>1, <3>2 DEF StatusWire, WsMsg
    <3>4. {w.from, w.to} = {db[w.id].from, db[w.id].to}
      BY <3>2, <3>3 DEF StatusBodyOK
    <3> QED
      BY <2>1, <2>5, <3>4 DEF WireOK, WireTruthful
  <2> QED
    BY <2>1, <2>2, <2>3, <2>4, <2>5 DEF WireOK
<1> QED
  BY <1>1, Invariance, PTL

-----------------------------------------------------------------------------
(* A second row costs a fault, and a row's wires are written at most once. *)

(* A message's body is in one hand of the broker and the service at a time *)
(* and while it is not acknowledged it still counts for one row.           *)

HandledOnce ==
  /\ \A b \in qSave \intersect saving : b.type # "msg"
  /\ \A d \in done : d.body.type = "msg" =>
       /\ d.body \notin qSave \union saving
       /\ \A e \in done : e.body = d.body => e = d

Pending(m) == IF MsgBody(m) \in qSave \union saving THEN 1 ELSE 0

CopiesBounded == \A m \in Msg : Cardinality(CopiesOf(m)) + Pending(m) <= 1 + faults

LEMMA CopiesFinite ==
  ASSUME db \in Seq(Row), NEW m
  PROVE  IsFiniteSet(CopiesOf(m)) /\ Cardinality(CopiesOf(m)) \in Nat
<1>1. DOMAIN db = 1 .. Len(db) /\ Len(db) \in Nat
  OBVIOUS
<1>2. IsFiniteSet(1 .. Len(db))
  BY <1>1, FS_Interval
<1>3. CopiesOf(m) \subseteq 1 .. Len(db)
  BY <1>1 DEF CopiesOf
<1> QED
  BY <1>2, <1>3, FS_Subset, FS_CardinalityType

(* A stored body adds a copy of its own message only. *)
LEMMA StoreCopies ==
  ASSUME TypeOK, Core, NEW b \in saving,
         InsertMessage(b) \/ UpdateMessageStatus(b), NEW m \in Msg
  PROVE  /\ Cardinality(CopiesOf(m)') \in Nat
         /\ Cardinality(CopiesOf(m)') <= Cardinality(CopiesOf(m)) + 1
         /\ b # MsgBody(m) => Cardinality(CopiesOf(m)') = Cardinality(CopiesOf(m))
<1>1. db \in Seq(Row) /\ b \in WsMsg /\ (MsgBodyOK(b) \/ StatusBodyOK(b)) /\ BodiesOK /\ OnlyAccepted
  BY SavingOK DEF Queued, TypeOK, Core
<1>2. IsFiniteSet(CopiesOf(m)) /\ Cardinality(CopiesOf(m)) \in Nat
  BY <1>1, CopiesFinite
<1>3. CASE InsertMessage(b)
  <2>1. Len(db) \in Nat /\ DOMAIN db = 1 .. Len(db) /\ b.type = "msg" /\ db' = Append(db, NewRow(b))
    BY <1>1, <1>3 DEF InsertMessage
  <2>2. DOMAIN db' = 1 .. Len(db) + 1 /\ db'[Len(db) + 1] = NewRow(b)
        /\ \A i \in DOMAIN db : db'[i] = db[i]
    BY <1>1, <2>1
  <2>3. NewRow(b).text = b.text
    BY DEF NewRow
  <2>4. CASE b.text = m
    <3>1. CopiesOf(m)' = CopiesOf(m) \union {Len(db) + 1}
      BY <2>1, <2>2, <2>3, <2>4 DEF CopiesOf
    <3>2. b = MsgBody(m)
      BY <1>1, <2>1, <2>4 DEF MsgBodyOK, StatusBodyOK
    <3>3. Len(db) + 1 \notin CopiesOf(m)
      BY <2>1 DEF CopiesOf
    <3>4. Cardinality(CopiesOf(m) \union {Len(db) + 1}) = Cardinality(CopiesOf(m)) + 1
      BY <1>2, <3>3, FS_AddElement
    <3> QED
      BY <1>2, <3>1, <3>2, <3>4
  <2>5. CASE b.text # m
    <3>1. CopiesOf(m)' = CopiesOf(m)
      BY <2>1, <2>2, <2>3, <2>5 DEF CopiesOf
    <3> QED
      BY <1>2, <3>1
  <2> QED
    BY <2>4, <2>5
<1>4. CASE UpdateMessageStatus(b)
  <2>1. b.type = "msg_status" /\ DOMAIN db' = DOMAIN db
    BY <1>1, <1>4 DEF UpdateMessageStatus
  <2>2. \A i \in DOMAIN db : db'[i].text = db[i].text
    BY <1>1, TableGrows
  <2>3. CopiesOf(m)' = CopiesOf(m)
    BY <2>1, <2>2 DEF CopiesOf
  <2> QED
    BY <1>2, <2>3
<1> QED
  BY <1>3, <1>4

(* Steps that leave the broker's queue, the service and the table alone. *)
LEMMA ElsewhereCopies ==
  ASSUME TypeOK, HandledOnce, CopiesBounded, UNCHANGED <<qSave, saving, done, db>>,
         faults' \in {faults, faults + 1}
  PROVE  HandledOnce' /\ CopiesBounded'
<1>1. HandledOnce'
  BY DEF HandledOnce
<1>2. ASSUME NEW m \in Msg PROVE (Cardinality(CopiesOf(m)) + Pending(m) <= 1 + faults)'
  <2>1. CopiesOf(m)' = CopiesOf(m) /\ Pending(m)' = Pending(m)
    BY DEF CopiesOf, Pending
  <2>2. Cardinality(CopiesOf(m)) \in Nat /\ faults \in Nat /\ Pending(m) \in {0, 1}
    BY CopiesFinite DEF TypeOK, Pending
  <2>3. Cardinality(CopiesOf(m)) + Pending(m) <= 1 + faults
    BY DEF CopiesBounded
  <2> QED
    BY <2>1, <2>2, <2>3
<1> QED
  BY <1>1, <1>2 DEF CopiesBounded

LEMMA PublishCopies ==
  ASSUME TypeOK, Core, HandledOnce, CopiesBounded, NEW p \in toPublish, PublishMsg(p)
  PROVE  HandledOnce' /\ CopiesBounded'
<1> USE DEF Core
<1>1. qSave' = qSave \union {p.body} /\ UNCHANGED <<saving, done, db, faults>>
  BY DEF PublishMsg
<1>2. p.body.type = "msg" => p.body \notin accepted
  BY DEF SentOnce
<1>3. p.body.type = "msg" => p.body \notin Queued
  BY <1>2 DEF OnlyAccepted
<1>4. HandledOnce'
  BY <1>1, <1>3 DEF HandledOnce, Queued
<1>5. ASSUME NEW m \in Msg PROVE (Cardinality(CopiesOf(m)) + Pending(m) <= 1 + faults)'
  <2>1. CopiesOf(m)' = CopiesOf(m)
    BY <1>1 DEF CopiesOf
  <2>2. Cardinality(CopiesOf(m)) \in Nat /\ faults \in Nat
    BY CopiesFinite DEF TypeOK
  <2>3. Cardinality(CopiesOf(m)) + Pending(m) <= 1 + faults
    BY DEF CopiesBounded
  <2>4. CASE p.body = MsgBody(m)
    <3>1. MsgBody(m) \notin accepted
      BY <1>2, <2>4 DEF MsgBody
    <3>2. CopiesOf(m) = {}
      BY <3>1 DEF OnlyAccepted, CopiesOf
    <3>3. Cardinality(CopiesOf(m)') = 0 /\ Pending(m)' \in {0, 1}
      BY <2>1, <3>2, FS_EmptySet DEF Pending
    <3> QED
      BY <1>1, <2>2, <3>3
  <2>5. CASE p.body # MsgBody(m)
    <3>1. Pending(m)' = Pending(m)
      BY <1>1, <2>5 DEF Pending
    <3> QED
      BY <1>1, <2>1, <2>3, <3>1
  <2> QED
    BY <2>4, <2>5
<1> QED
  BY <1>4, <1>5 DEF CopiesBounded

(* A body changes hands, or comes back by a fault; no row is written. *)
LEMMA MoveCopies ==
  ASSUME TypeOK, CopiesBounded, db' = db,
         \/ qSave' \union saving' = qSave \union saving /\ faults' \in {faults, faults + 1}
         \/ faults' = faults + 1
  PROVE  CopiesBounded'
<1> SUFFICES ASSUME NEW m \in Msg PROVE (Cardinality(CopiesOf(m)) + Pending(m) <= 1 + faults)'
  BY DEF CopiesBounded
<1>1. CopiesOf(m)' = CopiesOf(m)
  BY DEF CopiesOf
<1>2. Cardinality(CopiesOf(m)) \in Nat /\ faults \in Nat /\ Pending(m) \in {0, 1} /\ Pending(m)' \in {0, 1}
  BY CopiesFinite DEF TypeOK, Pending
<1>3. Cardinality(CopiesOf(m)) + Pending(m) <= 1 + faults
  BY DEF CopiesBounded
<1>4. \/ Pending(m)' = Pending(m) /\ faults' \in {faults, faults + 1}
      \/ faults' = faults + 1
  BY DEF Pending
<1> QED
  BY <1>1, <1>2, <1>3, <1>4

(* The service's steps: a row is written when the body leaves, or comes    *)
(* back by a fault.                                                        *)
LEMMA SaveCopies ==
  ASSUME TypeOK, Core, HandledOnce, CopiesBounded, SaveStep
  PROVE  HandledOnce' /\ CopiesBounded'
<1> USE DEF Core
<1>0. faults \in Nat /\ db \in Seq(Row)
  BY DEF TypeOK
<1>1. ASSUME NEW p \in toPublish, PublishMsgFails(p) \/ PublishMsgLost(p)
      PROVE  HandledOnce' /\ CopiesBounded'
  BY <1>1, ElsewhereCopies DEF PublishMsgFails, PublishMsgLost, Fault
<1>2. ASSUME NEW b \in qSave, Deliver(b) PROVE HandledOnce' /\ CopiesBounded'
  <2>1. HandledOnce'
    BY <1>2 DEF Deliver, HandledOnce
  <2>2. qSave' \union saving' = qSave \union saving /\ db' = db /\ faults' = faults
    BY <1>2 DEF Deliver
  <2> QED
    BY <2>1, <2>2, MoveCopies
<1>3. ASSUME NEW b \in saving, SaveFails(b) PROVE HandledOnce' /\ CopiesBounded'
  <2>1. HandledOnce'
    BY <1>3 DEF SaveFails, HandledOnce
  <2>2. qSave' \union saving' = qSave \union saving /\ db' = db /\ faults' \in {faults, faults + 1}
    BY <1>3 DEF SaveFails, Fault
  <2> QED
    BY <2>1, <2>2, MoveCopies
<1>4. ASSUME NEW b \in saving, Save(b) PROVE HandledOnce' /\ CopiesBounded'
  <2>1. /\ qSave' = qSave /\ saving' = saving \ {b} /\ faults' = faults
        /\ done' = done \union {[body |-> b, id |-> RowId(b)]}
    BY <1>4 DEF Save
  <2>2. InsertMessage(b) \/ UpdateMessageStatus(b)
    BY <1>4 DEF Save
  <2>3. HandledOnce'
    BY <2>1 DEF HandledOnce
  <2>4. ASSUME NEW m \in Msg PROVE (Cardinality(CopiesOf(m)) + Pending(m) <= 1 + faults)'
    <3>1. /\ Cardinality(CopiesOf(m)') \in Nat /\ Cardinality(CopiesOf(m)) \in Nat
          /\ Cardinality(CopiesOf(m)') <= Cardinality(CopiesOf(m)) + 1
          /\ b # MsgBody(m) => Cardinality(CopiesOf(m)') = Cardinality(CopiesOf(m))
      BY <1>0, <2>2, StoreCopies, CopiesFinite
    <3>2. Cardinality(CopiesOf(m)) + Pending(m) <= 1 + faults
      BY DEF CopiesBounded
    <3>3. CASE b = MsgBody(m)
      <4>1. Pending(m) = 1
        BY <3>3 DEF Pending
      <4>2. b \notin qSave
        BY <3>3 DEF HandledOnce, MsgBody
      <4>3. Pending(m)' = 0
        BY <2>1, <3>3, <4>2 DEF Pending
      <4> QED
        BY <1>0, <2>1, <3>1, <3>2, <4>1, <4>3
    <3>4. CASE b # MsgBody(m)
      <4>1. Pending(m)' = Pending(m)
        BY <2>1, <3>4 DEF Pending
      <4> QED
        BY <2>1, <3>1, <3>2, <3>4, <4>1
    <3> QED
      BY <3>3, <3>4
  <2> QED
    BY <2>3, <2>4 DEF CopiesBounded
<1>5. ASSUME NEW b \in saving, SaveReplyLost(b) PROVE HandledOnce' /\ CopiesBounded'
  <2>1. /\ qSave' = qSave \union {b} /\ saving' = saving \ {b} /\ faults' = faults + 1
        /\ done' = done
    BY <1>5 DEF SaveReplyLost, Fault
  <2>2. InsertMessage(b) \/ UpdateMessageStatus(b)
    BY <1>5 DEF SaveReplyLost
  <2>3. HandledOnce'
    BY <2>1 DEF HandledOnce
  <2>4. ASSUME NEW m \in Msg PROVE (Cardinality(CopiesOf(m)) + Pending(m) <= 1 + faults)'
    <3>1. /\ Cardinality(CopiesOf(m)') \in Nat /\ Cardinality(CopiesOf(m)) \in Nat
          /\ Cardinality(CopiesOf(m)') <= Cardinality(CopiesOf(m)) + 1
      BY <1>0, <2>2, StoreCopies, CopiesFinite
    <3>2. Cardinality(CopiesOf(m)) + Pending(m) <= 1 + faults
      BY DEF CopiesBounded
    <3>3. Pending(m)' = Pending(m) /\ Pending(m) \in {0, 1}
      BY <2>1 DEF Pending
    <3> QED
      BY <1>0, <2>1, <3>1, <3>2, <3>3
  <2> QED
    BY <2>3, <2>4 DEF CopiesBounded
<1>6. ASSUME NEW d \in done, Acknowledge(d) PROVE HandledOnce' /\ CopiesBounded'
  <2>1. /\ done' = done \ {d} /\ saving' = saving /\ db' = db
        /\ \/ qSave' = qSave /\ faults' = faults
           \/ qSave' = qSave \union {d.body} /\ faults' = faults + 1
    BY <1>6 DEF Acknowledge, Fault
  <2>2. HandledOnce'
    BY <2>1 DEF HandledOnce
  <2> QED
    BY <2>1, <2>2, MoveCopies
<1>7. CASE ServiceCrash
  <2>1. db' = db /\ saving' = {} /\ done' = {} /\ faults' = faults + 1
    BY <1>7 DEF ServiceCrash, Fault
  <2>2. HandledOnce'
    BY <2>1 DEF HandledOnce
  <2> QED
    BY <2>1, <2>2, MoveCopies
<1> QED
  BY <1>1, <1>2, <1>3, <1>4, <1>5, <1>6, <1>7, PublishCopies DEF SaveStep

LEMMA NextCopies ==
  ASSUME TypeOK, Core, HandledOnce, CopiesBounded, [Next]_vars
  PROVE  HandledOnce' /\ CopiesBounded'
<1>1. CASE UNCHANGED vars
  BY <1>1, ElsewhereCopies DEF vars, saveVars
<1>2. CASE SessionStep
  <2>1. UNCHANGED <<qSave, saving, done, db>> /\ faults' \in {faults, faults + 1}
    BY <1>2 DEF SessionStep, Connect, SetUserOnline, SocketDies, DelConn, SetUserOffline,
       HostExpires, GatewayCrash, GatewayRestart, Fault, saveVars
  <2> QED
    BY <2>1, ElsewhereCopies
<1>3. CASE ClientStep
  <2>1. UNCHANGED <<qSave, saving, done, db>> /\ faults' \in {faults, faults + 1}
    BY <1>3 DEF ClientStep, ClientSend, ClientMark
  <2> QED
    BY <2>1, ElsewhereCopies
<1>4. CASE SendStep
  <2>1. UNCHANGED <<qSave, saving, done, db>> /\ faults' \in {faults, faults + 1}
    BY <1>4 DEF SendStep, GetUserHost, HostUnknown, PublishSend, ConsumeMsg, WriteJSON, WriteFails,
       Fault, saveVars
  <2> QED
    BY <2>1, ElsewhereCopies
<1> QED
  BY <1>1, <1>2, <1>3, <1>4, SaveCopies DEF Next

(* Nothing but a lost reply, a lost acknowledgement or a crash between the *)
(* insert and the ack stores a message again.                              *)
THEOREM DuplicatesCost == Spec => []DuplicateNeedsFault
<1> DEFINE Inv == IInv /\ HandledOnce /\ CopiesBounded
<1>1. Init => Inv
  <2> SUFFICES ASSUME Init PROVE HandledOnce /\ CopiesBounded
    BY InitIInv
  <2>1. HandledOnce /\ faults = 0
    BY DEF Init, HandledOnce
  <2>2. ASSUME NEW m \in Msg PROVE Cardinality(CopiesOf(m)) + Pending(m) <= 1 + faults
    <3>1. CopiesOf(m) = {} /\ Pending(m) = 0
      BY DEF Init, CopiesOf, Pending
    <3>2. Cardinality(CopiesOf(m)) = 0
      BY <3>1, FS_EmptySet
    <3> QED
      BY <2>1, <3>1, <3>2
  <2> QED
    BY <2>1, <2>2 DEF CopiesBounded
<1>2. Inv /\ [Next]_vars => Inv'
  BY NextIInv, NextCopies DEF IInv, Core
<1>3. Inv => DuplicateNeedsFault
  <2> SUFFICES ASSUME Inv, NEW m \in Msg PROVE Cardinality(CopiesOf(m)) <= 1 + faults
    BY DEF DuplicateNeedsFault
  <2>1. Cardinality(CopiesOf(m)) \in Nat /\ faults \in Nat /\ Pending(m) \in {0, 1}
    BY CopiesFinite DEF IInv, TypeOK, Pending
  <2>2. Cardinality(CopiesOf(m)) + Pending(m) <= 1 + faults
    BY DEF CopiesBounded
  <2> QED
    BY <2>1, <2>2
<1> QED
  BY <1>1, <1>2, <1>3, PTL DEF Spec

-----------------------------------------------------------------------------
(* A delivery or a saved notice is carried by one goroutine, queue entry or *)
(* inbox at a time, and by none before its row's body is acknowledged.     *)

RowWire(w) == w.type = "delivery" \/ w.status = "saved"

Carrier(w) ==
  {<<"job", j>> : j \in {k \in jobs : k.wire = w}}
    \union {<<"queue", d>> : d \in {e \in qSend : e.wire = w}}
    \union {<<"write", h>> : h \in {k \in held : k.wire = w}}
    \union {<<"stuck", d>> : d \in {e \in unacked : e.wire = w}}
    \union {<<"inbox", n>> : n \in {k \in inbox : k.wire = w}}

Alone(w) == \A p, q \in Carrier(w) : p = q

CarriedOnce ==
  /\ \A w \in WsMsg : RowWire(w) => Alone(w)
  /\ \A d \in done : d.body.type = "msg" =>
       \A w \in WsMsg : RowWire(w) /\ w.id = d.id => Carrier(w) = {}

(* What a step may do to the carriers of a wire. *)
Passes(w) ==
  \/ Carrier(w)' \subseteq Carrier(w)
  \/ \E p \in Carrier(w) : \E q : Carrier(w)' \subseteq (Carrier(w) \ {p}) \union {q}

LEMMA PassesKeep ==
  ASSUME CarriedOnce, done' \subseteq done, \A w \in WsMsg : RowWire(w) => Passes(w)
  PROVE  CarriedOnce'
<1>1. ASSUME NEW w \in WsMsg, RowWire(w)
      PROVE  Alone(w)' /\ (Carrier(w) = {} => Carrier(w)' = {})
  BY <1>1 DEF CarriedOnce, Alone, Passes
<1> QED
  BY <1>1 DEF CarriedOnce, RowWire

LEMMA Carried == \A w : Carrier(w) # {} <=> w \in InTransit
<1> SUFFICES ASSUME NEW w PROVE Carrier(w) # {} <=> w \in InTransit
  OBVIOUS
<1>1. ASSUME NEW p \in Carrier(w) PROVE w \in InTransit
  BY DEF Carrier, InTransit
<1>2. ASSUME NEW j \in jobs, j.wire = w PROVE <<"job", j>> \in Carrier(w)
  BY <1>2 DEF Carrier
<1>3. ASSUME NEW d \in qSend, d.wire = w PROVE <<"queue", d>> \in Carrier(w)
  BY <1>3 DEF Carrier
<1>4. ASSUME NEW h \in held, h.wire = w PROVE <<"write", h>> \in Carrier(w)
  BY <1>4 DEF Carrier
<1>5. ASSUME NEW d \in unacked, d.wire = w PROVE <<"stuck", d>> \in Carrier(w)
  BY <1>5 DEF Carrier
<1>6. ASSUME NEW n \in inbox, n.wire = w PROVE <<"inbox", n>> \in Carrier(w)
  BY <1>6 DEF Carrier
<1>7. w \in InTransit => Carrier(w) # {}
  BY <1>2, <1>3, <1>4, <1>5, <1>6 DEF InTransit
<1> QED
  BY <1>1, <1>7

(* Steps that only take carriers away. *)
LEMMA FewerCarriers ==
  ASSUME CarriedOnce, done' \subseteq done, jobs' \subseteq jobs, qSend' \subseteq qSend,
         held' \subseteq held, unacked' \subseteq unacked, inbox' \subseteq inbox
  PROVE  CarriedOnce'
<1>1. \A w : Carrier(w)' \subseteq Carrier(w)
  BY DEF Carrier
<1> QED
  BY <1>1, PassesKeep DEF Passes

LEMMA SocketDiesOnce ==
  ASSUME TypeOK, CarriedOnce, NEW s \in Session, SocketDies(s)
  PROVE  CarriedOnce'
<1> DEFINE S(h) == IF <<Addressee(h.wire), h.gw>> = s THEN [h EXCEPT !.live = FALSE] ELSE h
<1>1. held' = {S(h) : h \in held} /\ \A h \in held : S(h).wire = h.wire
  BY DEF TypeOK, Held, SocketDies
<1>2. UNCHANGED <<jobs, qSend, unacked, inbox, done>>
  BY DEF SocketDies, saveVars
<1> HIDE DEF S
<1>3. ASSUME NEW w \in WsMsg, RowWire(w) PROVE Passes(w)
  <2>1. Alone(w)
    BY <1>3 DEF CarriedOnce
  <2>2. CASE \E h \in held : h.wire = w
    <3>1. PICK h \in held : h.wire = w
      BY <2>2
    <3>2. <<"write", h>> \in Carrier(w)
      BY <3>1 DEF Carrier
    <3>3. Carrier(w) = {<<"write", h>>}
      BY <2>1, <3>2 DEF Alone
    <3>4. \A k \in held : k.wire = w => k = h
      <4>1. ASSUME NEW k \in held, k.wire = w PROVE k = h
        <5>1. <<"write", k>> \in Carrier(w)
          BY <4>1 DEF Carrier
        <5> QED
          BY <3>3, <5>1
      <4> QED
        BY <4>1
    <3>5. \A k \in held' : k.wire = w => k = S(h)
      BY <1>1, <3>4
    <3>6. Carrier(w)' \subseteq (Carrier(w) \ {<<"write", h>>}) \union {<<"write", S(h)>>}
      BY <1>2, <3>5 DEF Carrier
    <3> QED
      BY <3>2, <3>6 DEF Passes
  <2>3. CASE ~ \E h \in held : h.wire = w
    <3>1. ~ \E h \in held' : h.wire = w
      BY <1>1, <2>3
    <3>2. Carrier(w)' \subseteq Carrier(w)
      BY <1>2, <3>1 DEF Carrier
    <3> QED
      BY <3>2 DEF Passes
  <2> QED
    BY <2>2, <2>3
<1> QED
  BY <1>2, <1>3, PassesKeep

LEMMA SessionOnce ==
  ASSUME TypeOK, CarriedOnce, SessionStep
  PROVE  CarriedOnce'
<1>1. ASSUME NEW g \in Gateway, GatewayCrash(g) PROVE CarriedOnce'
  BY <1>1, FewerCarriers DEF GatewayCrash
<1>2. ASSUME UNCHANGED <<saveVars, sendVars>> PROVE CarriedOnce'
  BY <1>2, FewerCarriers DEF saveVars, sendVars
<1> QED
  BY <1>1, <1>2, SocketDiesOnce DEF SessionStep, Connect, SetUserOnline, DelConn, SetUserOffline,
     HostExpires, GatewayRestart

(* A step of the way out passes a wire from one carrier to the next. *)
LEMMA SendOnce ==
  ASSUME TypeOK, CarriedOnce, SendStep
  PROVE  CarriedOnce'
<1>1. ASSUME NEW j \in jobs, GetUserHost(j) PROVE CarriedOnce'
  <2> DEFINE k == [j EXCEPT !.host = hstnm[j.key]]
  <2>1. k.wire = j.wire /\ jobs' = (jobs \ {j}) \union {k}
    BY <1>1 DEF TypeOK, Job, GetUserHost
  <2>2. UNCHANGED <<qSend, held, unacked, inbox, done>>
    BY <1>1 DEF GetUserHost, saveVars
  <2> HIDE DEF k
  <2>3. ASSUME NEW w \in WsMsg PROVE Passes(w)
    <3>1. CASE w = j.wire
      <4>1. <<"job", j>> \in Carrier(w)
        BY <3>1 DEF Carrier
      <4>2. Carrier(w)' \subseteq (Carrier(w) \ {<<"job", j>>}) \union {<<"job", k>>}
        BY <2>1, <2>2, <3>1 DEF Carrier
      <4> QED
        BY <4>1, <4>2 DEF Passes
    <3>2. CASE w # j.wire
      BY <2>1, <2>2, <3>2 DEF Carrier, Passes
    <3> QED
      BY <3>1, <3>2
  <2> QED
    BY <2>2, <2>3, PassesKeep
<1>2. ASSUME NEW j \in jobs, HostUnknown(j) PROVE CarriedOnce'
  BY <1>2, FewerCarriers DEF HostUnknown, saveVars
<1>3. ASSUME NEW j \in jobs, PublishSend(j) PROVE CarriedOnce'
  <2> DEFINE d == [gw |-> j.host, wire |-> j.wire]
  <2>1. d.wire = j.wire /\ jobs' = jobs \ {j} /\ qSend' \subseteq qSend \union {d}
    BY <1>3 DEF PublishSend
  <2>2. UNCHANGED <<held, unacked, inbox, done>>
    BY <1>3 DEF PublishSend, saveVars
  <2> HIDE DEF d
  <2>3. ASSUME NEW w \in WsMsg PROVE Passes(w)
    <3>1. CASE w = j.wire
      <4>1. <<"job", j>> \in Carrier(w)
        BY <3>1 DEF Carrier
      <4>2. Carrier(w)' \subseteq (Carrier(w) \ {<<"job", j>>}) \union {<<"queue", d>>}
        BY <2>1, <2>2, <3>1 DEF Carrier
      <4> QED
        BY <4>1, <4>2 DEF Passes
    <3>2. CASE w # j.wire
      BY <2>1, <2>2, <3>2 DEF Carrier, Passes
    <3> QED
      BY <3>1, <3>2
  <2> QED
    BY <2>2, <2>3, PassesKeep
<1>4. ASSUME NEW d \in qSend, ConsumeMsg(d) PROVE CarriedOnce'
  <2> DEFINE h == [gw |-> d.gw, wire |-> d.wire, live |-> <<Addressee(d.wire), d.gw>> \in live, src |-> "queue"]
  <2>1. /\ h.wire = d.wire /\ qSend' = qSend \ {d}
        /\ \/ held' = held \union {h} /\ unacked' = unacked
           \/ held' = held /\ unacked' = unacked \union {d}
    BY <1>4 DEF ConsumeMsg
  <2>2. UNCHANGED <<jobs, inbox, done>>
    BY <1>4 DEF ConsumeMsg, saveVars
  <2> HIDE DEF h
  <2>3. ASSUME NEW w \in WsMsg PROVE Passes(w)
    <3>1. CASE w = d.wire
      <4>1. <<"queue", d>> \in Carrier(w)
        BY <3>1 DEF Carrier
      <4>2. \/ Carrier(w)' \subseteq (Carrier(w) \ {<<"queue", d>>}) \union {<<"write", h>>}
            \/ Carrier(w)' \subseteq (Carrier(w) \ {<<"queue", d>>}) \union {<<"stuck", d>>}
        BY <2>1, <2>2, <3>1 DEF Carrier
      <4> QED
        BY <4>1, <4>2 DEF Passes
    <3>2. CASE w # d.wire
      BY <2>1, <2>2, <3>2 DEF Carrier, Passes
    <3> QED
      BY <3>1, <3>2
  <2> QED
    BY <2>2, <2>3, PassesKeep
<1>5. ASSUME NEW h \in held, WriteJSON(h) PROVE CarriedOnce'
  <2> DEFINE n == [user |-> Addressee(h.wire), wire |-> h.wire]
  <2>1. n.wire = h.wire /\ held' = held \ {h} /\ inbox' = inbox \union {n}
    BY <1>5 DEF WriteJSON
  <2>2. UNCHANGED <<jobs, qSend, unacked, done>>
    BY <1>5 DEF WriteJSON, saveVars
  <2> HIDE DEF n
  <2>3. ASSUME NEW w \in WsMsg PROVE Passes(w)
    <3>1. CASE w = h.wire
      <4>1. <<"write", h>> \in Carrier(w)
        BY <3>1 DEF Carrier
      <4>2. Carrier(w)' \subseteq (Carrier(w) \ {<<"write", h>>}) \union {<<"inbox", n>>}
        BY <2>1, <2>2, <3>1 DEF Carrier
      <4> QED
        BY <4>1, <4>2 DEF Passes
    <3>2. CASE w # h.wire
      BY <2>1, <2>2, <3>2 DEF Carrier, Passes
    <3> QED
      BY <3>1, <3>2
  <2> QED
    BY <2>2, <2>3, PassesKeep
<1>6. ASSUME NEW h \in held, WriteFails(h) PROVE CarriedOnce'
  <2> DEFINE d == [gw |-> h.gw, wire |-> h.wire]
  <2>1. d.wire = h.wire /\ held' = held \ {h} /\ qSend' \subseteq qSend \union {d}
    BY <1>6 DEF WriteFails
  <2>2. UNCHANGED <<jobs, unacked, inbox, done>>
    BY <1>6 DEF WriteFails, saveVars
  <2> HIDE DEF d
  <2>3. ASSUME NEW w \in WsMsg PROVE Passes(w)
    <3>1. CASE w = h.wire
      <4>1. <<"write", h>> \in Carrier(w)
        BY <3>1 DEF Carrier
      <4>2. Carrier(w)' \subseteq (Carrier(w) \ {<<"write", h>>}) \union {<<"queue", d>>}
        BY <2>1, <2>2, <3>1 DEF Carrier
      <4> QED
        BY <4>1, <4>2 DEF Passes
    <3>2. CASE w # h.wire
      BY <2>1, <2>2, <3>2 DEF Carrier, Passes
    <3> QED
      BY <3>1, <3>2
  <2> QED
    BY <2>2, <2>3, PassesKeep
<1> QED
  BY <1>1, <1>2, <1>3, <1>4, <1>5, <1>6 DEF SendStep

(* The ids of rows in transit are ids of the table. *)
LEMMA RowIds ==
  ASSUME TypeOK, Core, NEW w \in WsMsg, RowWire(w), Carrier(w) # {}
  PROVE  w.id \in DOMAIN db
<1>1. WireOK(w)
  BY Carried DEF Core, WiresOK
<1> QED
  BY <1>1 DEF WireOK, RowWire

(* Two deliveries that wait for their ack have written different rows. *)
LEMMA DoneIds ==
  ASSUME TypeOK, Core, NEW d \in done, NEW e \in done,
         d.body.type = "msg", e.body.type = "msg", d.id = e.id
  PROVE  d = e
<1> USE DEF Core
<1>1. d.body \in Queued /\ e.body \in Queued
  BY DEF Queued
<1>2. d.body.text = e.body.text
  BY DEF DoneInTable
<1>3. d.body = MsgBody(d.body.text) /\ e.body = MsgBody(e.body.text)
  BY <1>1, SavingOK DEF MsgBodyOK, StatusBodyOK
<1>4. d.body = e.body
  BY <1>2, <1>3
<1>5. d \in [body : WsMsg, id : Nat] /\ e \in [body : WsMsg, id : Nat]
  BY DEF TypeOK
<1>6. d = [body |-> d.body, id |-> d.id] /\ e = [body |-> e.body, id |-> e.id]
  BY <1>5
<1> QED
  BY <1>4, <1>6

(* The first carriers of a row's two wires are the jobs its body starts.   *)
LEMMA AcknowledgeOnce ==
  ASSUME TypeOK, Core, CarriedOnce, NEW d \in done, Acknowledge(d)
  PROVE  CarriedOnce'
<1>1. /\ done' = done \ {d} /\ jobs' = jobs \union RoutingJobs(d)
      /\ UNCHANGED <<qSend, held, unacked, inbox>>
  BY DEF Acknowledge
<1>2. d.body \in WsMsg /\ (MsgBodyOK(d.body) \/ StatusBodyOK(d.body))
  BY SavingOK DEF Core, Queued
<1>3. CASE d.body.type = "msg"
  <2> DEFINE x == DeliveryWire(d.id, d.body)
             y == SavedWire(d.id, d.body, d.body.uuid)
             j == [key |-> d.body.to, wire |-> x, host |-> None]
             k == [key |-> d.body.from, wire |-> y, host |-> None]
  <2>1. /\ x.type = "delivery" /\ y.type = "msg_status" /\ x.id = d.id /\ y.id = d.id
        /\ j.wire = x /\ k.wire = y /\ RoutingJobs(d) = {j, k}
    BY <1>3 DEF DeliveryWire, SavedWire, RoutingJobs
  <2>2. y.status = "saved"
    BY DEF SavedWire
  <2> HIDE DEF x, y, j, k
  <2>3. ASSUME NEW w \in WsMsg, RowWire(w)
        PROVE  /\ Alone(w)'
               /\ w.id # d.id => Carrier(w)' = Carrier(w)
    <3>1. CASE w = x
      <4>1. Carrier(w) = {}
        BY <1>3, <2>1, <2>3, <3>1 DEF CarriedOnce
      <4>2. Carrier(w)' \subseteq Carrier(w) \union {<<"job", j>>}
        BY <1>1, <2>1, <3>1 DEF Carrier
      <4> QED
        BY <2>1, <3>1, <4>1, <4>2 DEF Alone
    <3>2. CASE w = y
      <4>1. Carrier(w) = {}
        BY <1>3, <2>1, <2>3, <3>2 DEF CarriedOnce
      <4>2. Carrier(w)' \subseteq Carrier(w) \union {<<"job", k>>}
        BY <1>1, <2>1, <3>2 DEF Carrier
      <4> QED
        BY <2>1, <3>2, <4>1, <4>2 DEF Alone
    <3>3. CASE w # x /\ w # y
      <4>1. Carrier(w)' = Carrier(w)
        BY <1>1, <2>1, <3>3 DEF Carrier
      <4> QED
        BY <2>3, <4>1 DEF CarriedOnce, Alone
    <3> QED
      BY <3>1, <3>2, <3>3
  <2>4. \A e \in done' : e.body.type = "msg" => e.id # d.id
    BY <1>1, <1>3, DoneIds
  <2> QED
    BY <1>1, <2>3, <2>4 DEF CarriedOnce, RowWire
<1>4. CASE d.body.type = "msg_status"
  <2>1. d.body.status \in {"read", "del"}
    BY <1>2, <1>4 DEF MsgBodyOK, StatusBodyOK
  <2>2. ~ RowWire(StatusWire(d.body))
    BY <1>2, <1>4, <2>1 DEF StatusWire, WsMsg, RowWire
  <2>3. \A j \in RoutingJobs(d) : ~ RowWire(j.wire)
    BY <1>4, <2>2 DEF RoutingJobs
  <2>4. ASSUME NEW w \in WsMsg, RowWire(w) PROVE Carrier(w)' \subseteq Carrier(w)
    BY <1>1, <2>3, <2>4 DEF Carrier
  <2> QED
    BY <1>1, <2>4, PassesKeep DEF Passes
<1> QED
  BY <1>2, <1>3, <1>4 DEF MsgBodyOK, StatusBodyOK

LEMMA SaveOnce ==
  ASSUME TypeOK, Core, CarriedOnce, SaveStep
  PROVE  CarriedOnce'
<1>1. ASSUME NEW p \in toPublish, PublishMsgFails(p) PROVE CarriedOnce'
  <2> DEFINE h == [gw |-> p.gw, wire |-> SaveErrWire(p.body),
                   live |-> <<p.body.from, p.gw>> \in live, src |-> "local"]
  <2>1. /\ held' \subseteq held \union {h} /\ h.wire = SaveErrWire(p.body)
        /\ UNCHANGED <<jobs, qSend, unacked, inbox, done>>
    BY <1>1 DEF PublishMsgFails
  <2>2. ~ RowWire(h.wire)
    <3>1. p.body \in WsMsg
      BY DEF TypeOK, Published
    <3> QED
      BY <2>1, <3>1 DEF SaveErrWire, WsMsg, RowWire
  <2> HIDE DEF h
  <2>3. ASSUME NEW w \in WsMsg, RowWire(w) PROVE Carrier(w)' \subseteq Carrier(w)
    BY <2>1, <2>2, <2>3 DEF Carrier
  <2> QED
    BY <2>1, <2>3, PassesKeep DEF Passes
<1>2. ASSUME UNCHANGED <<sendVars, done>> PROVE CarriedOnce'
  BY <1>2, FewerCarriers DEF sendVars
<1>3. ASSUME NEW b \in saving, Save(b) PROVE CarriedOnce'
  <2>1. /\ done' = done \union {[body |-> b, id |-> RowId(b)]}
        /\ UNCHANGED <<jobs, qSend, held, unacked, inbox>>
    BY <1>3 DEF Save, sendVars
  <2>2. \A w : Carrier(w)' = Carrier(w)
    BY <2>1 DEF Carrier
  <2>3. ASSUME b.type = "msg", NEW w \in WsMsg, RowWire(w), w.id = RowId(b) PROVE Carrier(w) = {}
    <3>1. RowId(b) = Len(db) + 1 /\ RowId(b) \notin DOMAIN db
      BY <2>3 DEF RowId, TypeOK
    <3> QED
      BY <2>3, <3>1, RowIds
  <2> QED
    BY <2>1, <2>2, <2>3 DEF CarriedOnce, Alone, RowWire
<1>4. CASE ServiceCrash
  BY <1>4, FewerCarriers DEF ServiceCrash
<1> QED
  BY <1>1, <1>2, <1>3, <1>4, AcknowledgeOnce DEF SaveStep, PublishMsg, PublishMsgLost, Deliver,
     SaveFails, SaveReplyLost

LEMMA NextOnce ==
  ASSUME TypeOK, Core, CarriedOnce, [Next]_vars
  PROVE  CarriedOnce'
<1>1. ASSUME UNCHANGED <<sendVars, done>> PROVE CarriedOnce'
  BY <1>1, FewerCarriers DEF sendVars
<1>2. CASE ClientStep
  BY <1>1, <1>2 DEF ClientStep, ClientSend, ClientMark
<1> QED
  BY <1>1, <1>2, SessionOnce, SaveOnce, SendOnce DEF Next, vars, saveVars

(* A row is delivered, and confirmed, at most once, through every requeued *)
(* write: its wire is in one place, and stays in the inbox.                *)
THEOREM NoSecondWrite == Spec => []WrittenOnce
<1>1. Init => CarriedOnce
  BY DEF Init, CarriedOnce, Alone, Carrier
<1>2. IInv /\ CarriedOnce /\ [Next]_vars => CarriedOnce'
  BY NextOnce DEF IInv, Core
<1>3. ASSUME IInv, CarriedOnce PROVE WrittenOnce
  <2> SUFFICES ASSUME NEW w \in InTransit, RowWire(w) PROVE Cardinality(Places(w)) = 1
    BY DEF WrittenOnce, RowWire
  <2>1. w \in WsMsg
    BY <1>3 DEF IInv, TypeOK, InTransit, Job, Wired, Held
  <2>2. Alone(w) /\ Carrier(w) # {}
    BY <1>3, <2>1, Carried DEF CarriedOnce
  <2> DEFINE place(p) == IF p[1] = "job" THEN <<p[1], p[2].key>>
                         ELSE IF p[1] = "inbox" THEN <<p[1], p[2].user>>
                         ELSE <<p[1], p[2].gw>>
  <2>3. \A x \in Places(w) : \E p \in Carrier(w) : x = place(p)
    <3>1. ASSUME NEW x, NEW j \in jobs, j.wire = w, x = <<"job", j.key>>
          PROVE  <<"job", j>> \in Carrier(w) /\ x = place(<<"job", j>>)
      BY <3>1 DEF Carrier
    <3>2. ASSUME NEW x, NEW d \in qSend, d.wire = w, x = <<"queue", d.gw>>
          PROVE  <<"queue", d>> \in Carrier(w) /\ x = place(<<"queue", d>>)
      BY <3>2 DEF Carrier
    <3>3. ASSUME NEW x, NEW h \in held, h.wire = w, x = <<"write", h.gw>>
          PROVE  <<"write", h>> \in Carrier(w) /\ x = place(<<"write", h>>)
      BY <3>3 DEF Carrier
    <3>4. ASSUME NEW x, NEW d \in unacked, d.wire = w, x = <<"stuck", d.gw>>
          PROVE  <<"stuck", d>> \in Carrier(w) /\ x = place(<<"stuck", d>>)
      BY <3>4 DEF Carrier
    <3>5. ASSUME NEW x, NEW n \in inbox, n.wire = w, x = <<"inbox", n.user>>
          PROVE  <<"inbox", n>> \in Carrier(w) /\ x = place(<<"inbox", n>>)
      BY <3>5 DEF Carrier
    <3> HIDE DEF place
    <3> QED
      BY ZenonT(40), <3>1, <3>2, <3>3, <3>4, <3>5 DEF Places
  <2>4. Places(w) # {}
    <3>1. \/ \E j \in jobs : j.wire = w
          \/ \E d \in qSend : d.wire = w
          \/ \E h \in held : h.wire = w
          \/ \E d \in unacked : d.wire = w
          \/ \E n \in inbox : n.wire = w
      BY DEF InTransit
    <3> QED
      BY <3>1 DEF Places
  <2>5. PICK x : Places(w) = {x}
    <3> HIDE DEF place
    <3>1. \A x, y \in Places(w) : x = y
      BY <2>2, <2>3 DEF Alone
    <3> QED
      BY <2>4, <3>1
  <2> QED
    BY <2>5, FS_Singleton
<1> QED
  BY <1>1, <1>2, <1>3, Invariance, PTL DEF Spec

-----------------------------------------------------------------------------
(* Pipeline implements MessageLog: seven of its actions are steps of the   *)
(* abstract log, all others leave what the log speaks about alone.         *)

(* The abstract log, position by position. *)
AbstractRow(r) == [text |-> r.text, status |-> r.status]
AbstractLog    == [i \in DOMAIN db |-> AbstractRow(db[i])]
Refused   == {<<n.user, n.wire.uuid>> : n \in {k \in inbox : k.wire.status = "save_err" /\ k.wire.uuid # None}}
Delivered == {<<n.user, n.wire.id>> : n \in {k \in inbox : k.wire.type = "delivery"}}
Confirmed == {<<n.user, n.wire.uuid, n.wire.id>> : n \in {k \in inbox : k.wire.status = "saved"}}
Marks     == {<<b.from, b.id, b.status>> : b \in {c \in accepted : c.type = "msg_status"}}
Seen      == {<<n.user, n.wire.id, n.wire.status>> : n \in {k \in inbox : k.wire.status \in {"read", "del"}}}

LEMMA Mapping ==
  Log!vars = <<Texts(accepted), Refused, AbstractLog, Delivered, Confirmed, Marks, applied, Seen>>
  BY DEF Log!vars, Refused, AbstractLog, AbstractRow, Delivered, Confirmed, Marks, Seen

LEMMA Invisible ==
  ASSUME UNCHANGED <<accepted, db, applied, inbox>>
  PROVE  UNCHANGED Log!vars
  BY DEF Log!vars, Texts

LEMMA LogRows ==
  ASSUME IInv
  PROVE  /\ db \in Seq(Row)
         /\ \A i \in DOMAIN db : /\ i \in Nat /\ db[i] \in Row /\ db[i].text \in Msg
                                 /\ db[i].from = Sender[db[i].text]
                                 /\ db[i].to = Receiver[db[i].text]
<1>1. db \in Seq(Row)
  BY DEF IInv, TypeOK
<1>2. \A i \in DOMAIN db : i \in Nat /\ db[i] \in Row
  BY <1>1
<1>3. \A m : MsgBody(m).from = Sender[m] /\ MsgBody(m).to = Receiver[m]
  BY DEF MsgBody
<1> QED
  BY <1>1, <1>2, <1>3 DEF IInv, OnlyAccepted, Row

(* PublishMsg: a message is accepted, a status request is taken. *)
LEMMA PublishRefines ==
  ASSUME IInv, NEW p \in toPublish, PublishMsg(p)
  PROVE  [Log!Next]_(Log!vars)
<1> DEFINE b == p.body
<1>1. /\ UNCHANGED <<db, applied, inbox>>
      /\ accepted' = accepted \union {b}
  BY DEF PublishMsg, sendVars
<1>2. (MsgBodyOK(b) \/ StatusBodyOK(b)) /\ Justified(b) /\ b \in WsMsg
  BY DEF IInv, BodiesOK, TypeOK, Published
<1>3. CASE b.type = "msg"
  <2>1. b.text \in Msg /\ b = MsgBody(b.text)
    BY <1>2, <1>3 DEF MsgBodyOK, StatusBodyOK
  <2>2. <<Sender[b.text], b.text>> \notin Refused
    <3> SUFFICES ASSUME NEW n \in inbox, n.wire.status = "save_err", n.wire.uuid # None,
                        n.wire.uuid = b.text
                 PROVE  FALSE
      BY DEF Refused
    <3>1. n.wire \in InTransit
      BY DEF InTransit
    <3>2. n.wire.type = "msg_status"
      <4>1. WireOK(n.wire)
        BY <3>1 DEF IInv, WiresOK
      <4>2. \A i : DeliveryWire(i, db[i]).status = "none"
        BY DEF DeliveryWire
      <4> QED
        BY <4>1, <4>2 DEF WireOK
    <3> QED
      BY <2>1, <3>1, <3>2 DEF IInv, SentOnce
  <2>3. Texts(accepted)' = Texts(accepted) \union {b.text}
    BY <1>1, <1>3 DEF Texts
  <2>4. UNCHANGED <<Refused, AbstractLog, Delivered, Confirmed, Marks, applied, Seen>>
    BY <1>1, <1>3 DEF Refused, AbstractLog, Delivered, Confirmed, Marks, Seen
  <2>5. Log!Accept(b.text)
    BY <2>2, <2>3, <2>4 DEF Log!Accept, Refused, AbstractLog, AbstractRow, Delivered, Confirmed, Marks, Seen
  <2> QED
    BY <2>1, <2>5 DEF Log!Next
<1>4. CASE b.type = "msg_status"
  <2>1. /\ b.id \in DOMAIN db /\ b.status \in {"read", "del"} /\ b.from \in User
    BY <1>2, <1>4 DEF MsgBodyOK, StatusBodyOK, WsMsg
  <2>2. PICK n \in inbox :
          /\ n.user = b.from /\ n.wire.id = b.id
          /\ \/ n.wire.type = "delivery"
             \/ n.wire.type = "msg_status" /\ n.wire.status = "saved" /\ b.status = "del"
    BY <1>2, <1>4 DEF Justified
  <2>3. \/ <<b.from, b.id>> \in Delivered
        \/ <<b.from, AbstractLog[b.id].text, b.id>> \in Confirmed /\ b.status = "del"
    <3>1. CASE n.wire.type = "delivery"
      BY <2>2, <3>1 DEF Delivered
    <3>2. CASE n.wire.type = "msg_status" /\ n.wire.status = "saved" /\ b.status = "del"
      <4>1. n.wire = SavedWire(n.wire.id, db[n.wire.id], db[n.wire.id].text)
        BY <3>2 DEF IInv, WiresOK, WireOK, InTransit
      <4>2. n.wire.uuid = db[b.id].text
        BY <2>2, <4>1 DEF SavedWire
      <4>3. AbstractLog[b.id].text = db[b.id].text
        BY <2>1 DEF AbstractLog, AbstractRow
      <4> QED
        BY <2>2, <3>2, <4>2, <4>3 DEF Confirmed
    <3> QED
      BY <2>2, <3>1, <3>2
  <2>4. Marks' = Marks \union {<<b.from, b.id, b.status>>}
    BY <1>1, <1>4 DEF Marks
  <2>5. Texts(accepted)' = Texts(accepted)
    BY <1>1, <1>4 DEF Texts
  <2>6. UNCHANGED <<Refused, AbstractLog, Delivered, Confirmed, applied, Seen>>
    BY <1>1 DEF Refused, AbstractLog, Delivered, Confirmed, Seen
  <2>7. Log!Mark(b.from, b.id, b.status)
    BY <2>1, <2>3, <2>4, <2>5, <2>6
       DEF Log!Mark, Refused, AbstractLog, AbstractRow, Delivered, Confirmed, Marks, Seen
  <2>8. b.id \in DOMAIN AbstractLog
    BY <2>1 DEF AbstractLog
  <2> QED
    BY <2>1, <2>7, <2>8 DEF Log!Next, AbstractLog, AbstractRow
<1> QED
  BY <1>2, <1>3, <1>4 DEF MsgBodyOK, StatusBodyOK

(* InsertMessage stores, UpdateMessageStatus changes a status. *)
LEMMA StoreRefines ==
  ASSUME IInv, NEW b \in saving, InsertMessage(b) \/ UpdateMessageStatus(b),
         UNCHANGED <<accepted, inbox>>
  PROVE  [Log!Next]_(Log!vars)
<1>1. b \in accepted /\ b \in WsMsg /\ (MsgBodyOK(b) \/ StatusBodyOK(b))
  BY SavingOK DEF IInv, Queued
<1>2. UNCHANGED <<Texts(accepted), Refused, Delivered, Confirmed, Marks, Seen>>
  BY DEF Texts, Refused, Delivered, Confirmed, Marks, Seen
<1>3. db \in Seq(Row) /\ Len(db) \in Nat /\ DOMAIN db = 1 .. Len(db)
  BY LogRows
<1>4. CASE InsertMessage(b)
  <2>1. b.type = "msg" /\ db' = Append(db, NewRow(b)) /\ applied' = applied
    BY <1>4 DEF InsertMessage
  <2>2. b.text \in Msg /\ b.text \in Texts(accepted)
    BY <1>1, <2>1 DEF MsgBodyOK, StatusBodyOK, Texts
  <2> DEFINE e == [text |-> b.text, status |-> "saved"]
  <2>3. AbstractLog' = Append(AbstractLog, e)
    <3>1. DOMAIN AbstractLog = 1 .. Len(db) /\ AbstractLog \in Seq({AbstractRow(db[i]) : i \in DOMAIN db})
      BY <1>3 DEF AbstractLog
    <3>2. Len(AbstractLog) = Len(db)
      BY <1>3, <3>1
    <3>3. DOMAIN db' = 1 .. Len(db) + 1
      BY <1>3, <2>1
    <3>4. \A i \in 1 .. Len(db) + 1 : db'[i] = IF i = Len(db) + 1 THEN NewRow(b) ELSE db[i]
      BY <1>3, <2>1
    <3>5. AbstractRow(NewRow(b)) = e
      BY DEF AbstractRow, NewRow
    <3>6. AbstractLog' = [i \in 1 .. Len(db) + 1 |-> IF i = Len(db) + 1 THEN e ELSE AbstractRow(db[i])]
      BY <3>3, <3>4, <3>5 DEF AbstractLog, AbstractRow
    <3>7. Append(AbstractLog, e) = [i \in 1 .. Len(db) + 1 |-> IF i = Len(db) + 1 THEN e ELSE AbstractLog[i]]
      BY <1>3, <3>1, <3>2
    <3> QED
      BY <1>3, <3>6, <3>7 DEF AbstractLog
  <2>4. Log!Store(b.text)
    BY <1>2, <2>1, <2>2, <2>3
       DEF Log!Store, Refused, AbstractLog, AbstractRow, Delivered, Confirmed, Marks, Seen
  <2> QED
    BY <2>2, <2>4 DEF Log!Next
<1>5. CASE UpdateMessageStatus(b)
  <2>1. /\ b.type = "msg_status" /\ applied' = applied \union {<<b.id, b.status>>}
        /\ db' = [db EXCEPT ![b.id].status = b.status]
    BY <1>5 DEF UpdateMessageStatus
  <2>2. b.id \in DOMAIN db /\ b.status \in {"read", "del"} /\ b.from \in User
    BY <1>1, <2>1 DEF MsgBodyOK, StatusBodyOK, WsMsg
  <2>3. <<b.from, b.id, b.status>> \in Marks
    BY <1>1, <2>1 DEF Marks
  <2>4. AbstractLog' = [AbstractLog EXCEPT ![b.id].status = b.status]
    <3>1. DOMAIN db' = DOMAIN db /\ DOMAIN AbstractLog = DOMAIN db
      BY <2>1 DEF AbstractLog
    <3>2. \A i \in DOMAIN db : AbstractRow(db'[i]) =
            IF i = b.id THEN [AbstractLog[i] EXCEPT !.status = b.status] ELSE AbstractLog[i]
      <4> SUFFICES ASSUME NEW i \in DOMAIN db
                   PROVE  AbstractRow(db'[i]) = IF i = b.id THEN [AbstractLog[i] EXCEPT !.status = b.status]
                                                ELSE AbstractLog[i]
        OBVIOUS
      <4>1. AbstractLog[i] = AbstractRow(db[i])
        BY DEF AbstractLog
      <4>2. db[i] \in Row
        BY <1>3
      <4>3. db'[i] = IF i = b.id THEN [db[i] EXCEPT !.status = b.status] ELSE db[i]
        BY <2>1
      <4>4. [db[i] EXCEPT !.status = b.status].text = db[i].text
            /\ [db[i] EXCEPT !.status = b.status].status = b.status
        BY <4>2 DEF Row
      <4>5. [AbstractRow(db[i]) EXCEPT !.status = b.status] = [text |-> db[i].text, status |-> b.status]
        BY DEF AbstractRow
      <4> QED
        BY <4>1, <4>3, <4>4, <4>5 DEF AbstractRow
    <3> QED
      BY <2>2, <3>1, <3>2 DEF AbstractLog
  <2>5. Log!Change(b.from, b.id, b.status)
    BY <1>2, <2>1, <2>3, <2>4
       DEF Log!Change, Refused, AbstractLog, AbstractRow, Delivered, Confirmed, Marks, Seen
  <2>6. b.id \in DOMAIN AbstractLog
    BY <2>2 DEF AbstractLog
  <2> QED
    BY <2>2, <2>5, <2>6 DEF Log!Next, AbstractLog, AbstractRow
<1> QED
  BY <1>4, <1>5

(* A write shows its user one fact of the log, or a refused status request *)
(* the log does not speak about.                                           *)
LEMMA WriteRefines ==
  ASSUME IInv, NEW h \in held, WriteJSON(h)
  PROVE  [Log!Next]_(Log!vars)
<1> DEFINE w == h.wire
           n == [user |-> Addressee(w), wire |-> w]
<1>1. /\ UNCHANGED <<accepted, db, applied>>
      /\ inbox' = inbox \union {n}
  BY DEF WriteJSON, saveVars
<1>2. WireOK(w) /\ w \in InTransit
  BY DEF IInv, WiresOK, InTransit
<1>3. n.user = Addressee(w) /\ n.wire = w
  OBVIOUS
<1> HIDE DEF n
<1>4. UNCHANGED <<Texts(accepted), AbstractLog, Marks, applied>>
  BY <1>1 DEF Texts, AbstractLog, AbstractRow, Marks
<1>5. CASE w.type = "delivery"
  <2>1. w.id \in DOMAIN db /\ w.to = db[w.id].to /\ w.status = "none"
    BY <1>2, <1>5 DEF WireOK, DeliveryWire
  <2>2. n.user = Receiver[AbstractLog[w.id].text]
    BY <1>3, <1>5, <2>1, LogRows DEF Addressee, AbstractLog, AbstractRow
  <2>3. Delivered' = Delivered \union {<<n.user, w.id>>}
    BY <1>1, <1>3, <1>5 DEF Delivered
  <2>4. UNCHANGED <<Refused, Confirmed, Seen>>
    BY <1>1, <1>3, <2>1 DEF Refused, Confirmed, Seen
  <2>5. Log!ShowMessage(w.id)
    BY <1>4, <2>2, <2>3, <2>4
       DEF Log!ShowMessage, Log!Reader, Refused, AbstractLog, AbstractRow, Delivered, Confirmed, Marks, Seen
  <2>6. w.id \in DOMAIN AbstractLog
    BY <2>1 DEF AbstractLog
  <2> QED
    BY <2>5, <2>6 DEF Log!Next, AbstractLog, AbstractRow
<1>6. CASE w.type = "msg_status" /\ w.status = "saved"
  <2>1. w.id \in DOMAIN db /\ w.from = db[w.id].from /\ w.uuid = db[w.id].text
    BY <1>2, <1>6 DEF WireOK, SavedWire
  <2>2. n.user = Sender[AbstractLog[w.id].text] /\ w.uuid = AbstractLog[w.id].text
    BY <1>3, <1>6, <2>1, LogRows DEF Addressee, AbstractLog, AbstractRow
  <2>3. Confirmed' = Confirmed \union {<<n.user, w.uuid, w.id>>}
    BY <1>1, <1>3, <1>6 DEF Confirmed
  <2>4. UNCHANGED <<Refused, Delivered, Seen>>
    BY <1>1, <1>3, <1>6 DEF Refused, Delivered, Seen
  <2>5. Log!Confirm(w.id)
    BY <1>4, <2>2, <2>3, <2>4
       DEF Log!Confirm, Log!Author, Refused, AbstractLog, AbstractRow, Delivered, Confirmed, Marks, Seen
  <2>6. w.id \in DOMAIN AbstractLog
    BY <2>1 DEF AbstractLog
  <2> QED
    BY <2>5, <2>6 DEF Log!Next, AbstractLog, AbstractRow
<1>7. CASE w.type = "msg_status" /\ w.status = "save_err"
  <2>1. UNCHANGED <<Delivered, Confirmed, Seen>>
    BY <1>1, <1>3, <1>7 DEF Delivered, Confirmed, Seen
  <2>2. CASE w.uuid = None
    <3>1. Refused' = Refused
      BY <1>1, <1>3, <2>2 DEF Refused
    <3> QED
      BY <1>4, <2>1, <3>1 DEF Log!vars, Refused, AbstractLog, AbstractRow, Delivered, Confirmed, Marks, Seen
  <2>3. CASE w.uuid # None
    <3>1. n.user = Sender[w.uuid]
      BY <1>2, <1>3, <1>7, <2>3 DEF WireOK, Addressee
    <3>2. w.uuid \in Msg /\ MsgBody(w.uuid) \notin accepted
      BY <1>2, <1>7, <2>3 DEF IInv, SentOnce, TypeOK
    <3>3. w.uuid \notin Texts(accepted)
      <4> SUFFICES ASSUME NEW b \in accepted, b.type = "msg", b.text = w.uuid PROVE FALSE
        BY DEF Texts
      <4>1. b = MsgBody(w.uuid)
        BY DEF IInv, BodiesOK, MsgBodyOK, StatusBodyOK
      <4> QED
        BY <3>2, <4>1
    <3>4. Refused' = Refused \union {<<n.user, w.uuid>>}
      BY <1>1, <1>3, <1>7, <2>3 DEF Refused
    <3>5. Log!Refuse(w.uuid)
      BY <1>4, <2>1, <3>1, <3>3, <3>4
         DEF Log!Refuse, Refused, AbstractLog, AbstractRow, Delivered, Confirmed, Marks, Seen
    <3> QED
      BY <3>2, <3>5 DEF Log!Next
  <2> QED
    BY <2>2, <2>3
<1>8. CASE w.type = "msg_status" /\ w.status \in {"read", "del"}
  <2>1. PICK b \in accepted : b.type = "msg_status" /\ w = StatusWire(b)
    BY <1>2, <1>8 DEF WireOK
  <2>2. StatusBodyOK(b) /\ b \in WsMsg
    BY <2>1 DEF IInv, BodiesOK, MsgBodyOK, TypeOK
  <2>3. w.id = b.id /\ w.status = b.status /\ w.from = b.to
    BY <2>1, <2>2 DEF StatusWire, WsMsg
  <2>4. /\ b.id \in DOMAIN db /\ b.from \in User
        /\ <<b.from, b.id, b.status>> \in Marks /\ <<b.id, b.status>> \in applied
    BY <1>2, <1>8, <2>1, <2>2, <2>3 DEF WireOK, StatusBodyOK, WsMsg, Marks
  <2>5. n.user = IF b.from = Sender[AbstractLog[b.id].text] THEN Receiver[AbstractLog[b.id].text]
                 ELSE Sender[AbstractLog[b.id].text]
    <3>1. n.user = b.to
      BY <1>3, <1>8, <2>3 DEF Addressee
    <3>2. /\ db[b.id].from = Sender[AbstractLog[b.id].text]
          /\ db[b.id].to = Receiver[AbstractLog[b.id].text]
      BY <2>4, LogRows DEF AbstractLog, AbstractRow
    <3> QED
      BY <2>2, <3>1, <3>2 DEF StatusBodyOK
  <2>6. Seen' = Seen \union {<<n.user, b.id, b.status>>}
    BY <1>1, <1>3, <1>8, <2>3 DEF Seen
  <2>7. UNCHANGED <<Refused, Delivered, Confirmed>>
    BY <1>1, <1>3, <1>8 DEF Refused, Delivered, Confirmed
  <2>8. Log!ShowStatus(b.from, b.id, b.status)
    BY <1>4, <2>4, <2>5, <2>6, <2>7
       DEF Log!ShowStatus, Log!Peer, Log!Author, Log!Reader, Refused, AbstractLog, AbstractRow,
           Delivered, Confirmed, Marks, Seen
  <2>9. b.id \in DOMAIN AbstractLog /\ b.status \in {"read", "del"}
    BY <2>2, <2>4 DEF AbstractLog, StatusBodyOK
  <2> QED
    BY <2>4, <2>8, <2>9 DEF Log!Next, AbstractLog, AbstractRow
<1> QED
  BY <1>2, <1>5, <1>6, <1>7, <1>8 DEF WireOK

LEMMA InitRefines == Init => Log!Init
<1> SUFFICES ASSUME Init PROVE Log!Init
  OBVIOUS
<1>1. DOMAIN db = {} /\ db = <<>>
  BY DEF Init
<1>2. [i \in DOMAIN db |-> [text |-> db[i].text, status |-> db[i].status]] = <<>>
  BY <1>1
<1> QED
  BY <1>1, <1>2 DEF Init, Log!Init, Texts

LEMMA NextRefines == IInv /\ [Next]_vars => [Log!Next]_(Log!vars)
<1> SUFFICES ASSUME IInv, [Next]_vars PROVE [Log!Next]_(Log!vars)
  OBVIOUS
<1>1. ASSUME UNCHANGED <<accepted, db, applied, inbox>> PROVE [Log!Next]_(Log!vars)
  BY <1>1, Invisible
<1>2. CASE UNCHANGED vars
  BY <1>1, <1>2 DEF vars, saveVars, sendVars
<1>3. CASE SessionStep
  BY <1>1, <1>3 DEF SessionStep, Connect, SetUserOnline, SocketDies, DelConn, SetUserOffline,
     HostExpires, GatewayCrash, GatewayRestart, saveVars, sendVars
<1>4. CASE ClientStep
  BY <1>1, <1>4 DEF ClientStep, ClientSend, ClientMark, sendVars
<1>5. CASE SaveStep
  <2>1. ASSUME NEW p \in toPublish, PublishMsg(p) \/ PublishMsgFails(p) \/ PublishMsgLost(p)
        PROVE  [Log!Next]_(Log!vars)
    BY <1>1, <2>1, PublishRefines DEF PublishMsgFails, PublishMsgLost, sendVars
  <2>2. ASSUME NEW b \in saving, Save(b) \/ SaveReplyLost(b)
        PROVE  [Log!Next]_(Log!vars)
    BY <2>2, StoreRefines DEF Save, SaveReplyLost, sendVars
  <2>3. ASSUME \/ \E b \in qSave : Deliver(b)
               \/ \E b \in saving : SaveFails(b)
               \/ \E d \in done : Acknowledge(d)
               \/ ServiceCrash
        PROVE  [Log!Next]_(Log!vars)
    BY <1>1, <2>3 DEF Deliver, SaveFails, Acknowledge, ServiceCrash, sendVars
  <2> QED
    BY <1>5, <2>1, <2>2, <2>3 DEF SaveStep
<1>6. CASE SendStep
  <2>1. ASSUME NEW h \in held, WriteJSON(h) PROVE [Log!Next]_(Log!vars)
    BY <2>1, WriteRefines
  <2>2. ASSUME \/ \E j \in jobs : GetUserHost(j) \/ HostUnknown(j) \/ PublishSend(j)
               \/ \E d \in qSend : ConsumeMsg(d)
               \/ \E h \in held : WriteFails(h)
        PROVE  [Log!Next]_(Log!vars)
    BY <1>1, <2>2 DEF GetUserHost, HostUnknown, PublishSend, ConsumeMsg, WriteFails, saveVars
  <2> QED
    BY <1>6, <2>1, <2>2 DEF SendStep
<1> QED
  BY <1>2, <1>3, <1>4, <1>5, <1>6 DEF Next

(* The message path keeps the promise of MessageLog.                       *)
THEOREM Refinement == Spec => ImplementsLog
  BY InitRefines, NextRefines, Invariance, PTL DEF Spec, ImplementsLog, Log!Spec

(* So the message path keeps what the log promises: nobody is shown a      *)
(* message that is not to him or not stored, told that a message is lost   *)
(* that is stored, or that one was read that was not shown - through all   *)
(* requeues of saveMsg.go and sendMsg.go, crashes and faults.              *)
THEOREM PromiseKept == Spec => []Log!Promise
  BY Refinement, Log!Promised, PTL DEF ImplementsLog

(* No id that InsertMessage returned ever becomes another message's.       *)
THEOREM IdsNeverReused == Spec => Log!IdsStay
  BY Refinement, Log!IdsForGood, PTL DEF ImplementsLog
=============================================================================
