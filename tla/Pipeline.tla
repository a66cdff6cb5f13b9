------------------------------ MODULE Pipeline ------------------------------
(***************************************************************************)
(* The message path of mumbleBE.                                           *)
(*                                                                         *)
(*   client --ws--> gateway --x_save_msg--> message service --> Postgres   *)
(*   client <--ws-- gateway <--x_send_msg-- message service <-- Redis      *)
(*                                                                         *)
(* A gateway hands every frame it reads to a goroutine that publishes it   *)
(* on the durable queue q_save_msg.  The message service takes a delivery, *)
(* writes the row, acknowledges, and starts goroutines that look the       *)
(* user's gateway up in Redis and publish to that gateway's own queue.     *)
(* The gateway looks the connection up in its list and writes to it.       *)
(*                                                                         *)
(* Every goroutine runs on its own, so each queue and each set of          *)
(* goroutines is a set; a record stands for one goroutine or one broker    *)
(* delivery.  A session is a pair <<user, gateway>>: the gateways check    *)
(* their own list only, so a user may be connected to several gateways;    *)
(* two overlapping connections to ONE gateway are left to module Presence. *)
(***************************************************************************)
EXTENDS Naturals, Sequences, FiniteSets

CONSTANTS
  User,         \* user ids
  Gateway,      \* hostnames of the gateway containers
  Msg,          \* what clients send: a message uuid and its text
  Sender,       \* Sender[m]: the From of m
  Receiver,     \* Receiver[m]: the To of m
  None,         \* an absent host, uuid or text
  Prefetch,     \* Qos of q_save_msg (2000 in the code)
  MaxFaults,    \* bound: failures of broker, database, Redis and processes
  MaxSessions,  \* bound: websocket connections ever opened
  MaxMarks      \* bound: status updates ever sent by clients

ASSUME ConstantsAssumption ==
  /\ Sender \in [Msg -> User]
  /\ Receiver \in [Msg -> User]
  /\ None \notin Gateway
  /\ None \notin Msg
  /\ Prefetch \in Nat \ {0}
  /\ MaxFaults \in Nat
  /\ MaxSessions \in Nat
  /\ MaxMarks \in Nat

VARIABLES
  listed,     \* sessions in the gateways' ClientConns maps
  serving,    \* sessions whose wsConnHandler reads frames
  live,       \* sessions whose socket still takes writes
  leaving,    \* per session: handlers past DelConn, before SetUserOffline
  hstnm,      \* Redis: the gateway a user was last announced at
  up,         \* gateways running
  sessions,   \* connections opened so far
  sent,       \* messages clients have sent
  marked,     \* status updates <<user, row id, status>> clients have sent
  toPublish,  \* gateway goroutines about to call PublishMsg
  accepted,   \* history: bodies the broker took on q_save_msg
  qSave,      \* ready deliveries of q_save_msg
  saving,     \* delivered to the message service, not yet in the database
  done,       \* in the database, not yet acknowledged
  db,         \* table message; the row id is the position
  applied,    \* history: <<row id, status>> updates the table has seen
  jobs,       \* message-service goroutines that route a wire to a user
  qSend,      \* ready deliveries of the gateways' q_send_msg_<hostname>
  held,       \* ExistsAndSendMsg between its lookup and its write
  unacked,    \* deliveries a gateway will neither ack nor nack
  inbox,      \* what was written to users' sockets
  faults      \* failures so far

sessionVars == <<listed, serving, live, leaving, hstnm, up, sessions>>
clientVars  == <<sent, marked>>
saveVars    == <<toPublish, accepted, qSave, saving, done, db, applied>>
sendVars    == <<jobs, qSend, held, unacked, inbox>>
vars        == <<sessionVars, clientVars, saveVars, sendVars, faults>>

Session == User \X Gateway
Status  == {"none", "saved", "read", "del", "save_err"}

(* types.WsMsg: the one record that travels on the sockets and the queues. *)
WsMsg == [type : {"msg", "msg_status", "delivery"}, uuid : Msg \union {None},
          text : Msg \union {None}, id : Nat, status : Status,
          from : User, to : User]

(* Bodies published on x_save_msg. *)
MsgBody(m) ==
  [type |-> "msg", uuid |-> m, text |-> m, id |-> 0, status |-> "none",
   from |-> Sender[m], to |-> Receiver[m]]

StatusBody(u, peer, i, s) ==
  [type |-> "msg_status", uuid |-> None, text |-> None, id |-> i, status |-> s,
   from |-> u, to |-> peer]

(* Bodies published on x_send_msg, and the gateway's own save_err notice. *)
DeliveryWire(i, row) ==
  [type |-> "delivery", uuid |-> None, text |-> row.text, id |-> i,
   status |-> "none", from |-> row.from, to |-> row.to]

SavedWire(i, row, uuid) ==
  [type |-> "msg_status", uuid |-> uuid, text |-> None, id |-> i,
   status |-> "saved", from |-> row.from, to |-> row.to]

StatusWire_Unswapped(b) == b
StatusWire(b) == [b EXCEPT !.from = b.to, !.to = b.from]

SaveErrWire(b) ==
  [b EXCEPT !.type = "msg_status", !.status = "save_err", !.text = None]

(* The sender of a delivery instead of its receiver. *)
Addressee_Sender(w) == w.from

(* consumeMsg: whose connection a gateway looks up for a wire. *)
Addressee(w) == IF w.type = "delivery" THEN w.to ELSE w.from

NewRow_ClientStatus(b) == [from |-> b.from, to |-> b.to, text |-> b.text, status |-> b.status]
NewRow(b) == [from |-> b.from, to |-> b.to, text |-> b.text, status |-> "saved"]

Fault == faults < MaxFaults /\ faults' = faults + 1

Init ==
  /\ listed = {} /\ serving = {} /\ live = {}
  /\ leaving = [s \in Session |-> 0]
  /\ hstnm = [u \in User |-> None]
  /\ up = Gateway
  /\ sessions = 0
  /\ sent = {} /\ marked = {}
  /\ toPublish = {} /\ accepted = {} /\ qSave = {} /\ saving = {} /\ done = {}
  /\ db = <<>>
  /\ applied = {}
  /\ jobs = {} /\ qSend = {} /\ held = {} /\ unacked = {} /\ inbox = {}
  /\ faults = 0

-----------------------------------------------------------------------------
(* Sessions, as far as message routing depends on them.                    *)

(* Handler: upgrade and AddConn, on a gateway that does not list the user. *)
Connect(s) ==
  /\ s \notin listed
  /\ s[2] \in up
  /\ sessions < MaxSessions
  /\ sessions' = sessions + 1
  /\ listed' = listed \union {s}
  /\ live' = live \union {s}
  /\ UNCHANGED <<serving, leaving, hstnm, up, clientVars, saveVars, sendVars, faults>>

(* Handler: SetUserOnline, then the handler goroutine starts reading; a    *)
(* Redis error is logged and the session goes on without a route.          *)
SetUserOnline(s) ==
  /\ s \in listed \ serving
  /\ serving' = serving \union {s}
  /\ \/ hstnm' = [hstnm EXCEPT ![s[1]] = s[2]] /\ UNCHANGED faults
     \/ UNCHANGED hstnm /\ Fault
  /\ UNCHANGED <<listed, live, leaving, up, sessions, clientVars, saveVars, sendVars>>

(* The websocket breaks: writes that already hold its conn pointer fail.   *)
SocketDies(s) ==
  /\ s \in live
  /\ live' = live \ {s}
  /\ held' = {IF <<Addressee(h.wire), h.gw>> = s THEN [h EXCEPT !.live = FALSE] ELSE h : h \in held}
  /\ UNCHANGED <<listed, serving, leaving, hstnm, up, sessions, clientVars, saveVars,
                 jobs, qSend, unacked, inbox, faults>>

(* wsConnHandler: ReadJSON fails, the loop ends and the entry is deleted.  *)
DelConn(s) ==
  /\ s \in serving \ live
  /\ listed' = listed \ {s}
  /\ serving' = serving \ {s}
  /\ leaving' = [leaving EXCEPT ![s] = @ + 1]
  /\ UNCHANGED <<live, hstnm, up, sessions, clientVars, saveVars, sendVars, faults>>

(* SetUserOffline: deletes the user's host key, whoever wrote it last.     *)
SetUserOffline(s) ==
  /\ leaving[s] > 0
  /\ leaving' = [leaving EXCEPT ![s] = @ - 1]
  /\ \/ hstnm' = [hstnm EXCEPT ![s[1]] = None] /\ UNCHANGED faults
     \/ UNCHANGED hstnm /\ Fault
  /\ UNCHANGED <<listed, serving, live, up, sessions, clientVars, saveVars, sendVars>>

(* The host key has a time to live of 24 hours and is never refreshed.     *)
HostExpires(u) ==
  /\ hstnm[u] # None
  /\ hstnm' = [hstnm EXCEPT ![u] = None]
  /\ Fault
  /\ UNCHANGED <<listed, serving, live, leaving, up, sessions, clientVars, saveVars, sendVars>>

(* A gateway process dies with its goroutines; its exclusive auto-delete   *)
(* queue goes with its connection, the host keys in Redis stay.            *)
GatewayCrash(g) ==
  /\ g \in up
  /\ Fault
  /\ up' = up \ {g}
  /\ listed' = {s \in listed : s[2] # g}
  /\ serving' = {s \in serving : s[2] # g}
  /\ live' = {s \in live : s[2] # g}
  /\ leaving' = [s \in Session |-> IF s[2] = g THEN 0 ELSE leaving[s]]
  /\ toPublish' = {p \in toPublish : p.gw # g}
  /\ qSend' = {d \in qSend : d.gw # g}
  /\ held' = {h \in held : h.gw # g}
  /\ unacked' = {d \in unacked : d.gw # g}
  /\ UNCHANGED <<hstnm, sessions, clientVars, accepted, qSave, saving, done, db,
                 applied, jobs, inbox>>

GatewayRestart(g) ==
  /\ g \notin up
  /\ up' = up \union {g}
  /\ UNCHANGED <<listed, serving, live, leaving, hstnm, sessions, clientVars, saveVars,
                 sendVars, faults>>

-----------------------------------------------------------------------------
(* Gateway, inbound: a frame read from a socket becomes a PublishMsg        *)
(* goroutine.                                                              *)

ClientSend(m) ==
  LET u == Sender[m] IN
  /\ m \notin sent
  /\ sent' = sent \union {m}
  /\ \E s \in serving \intersect live :
       /\ s[1] = u
       /\ toPublish' = toPublish \union {[gw |-> s[2], body |-> MsgBody(m)]}
  /\ UNCHANGED <<sessionVars, marked, accepted, qSave, saving, done, db, applied,
                 sendVars, faults>>

(* A client marks a message it was shown: its receiver as read or deleted, *)
(* its author, who knows the id from the saved notice, as deleted.         *)
ClientMark(u, i, st) ==
  /\ <<u, i, st>> \notin marked
  /\ Cardinality(marked) < MaxMarks
  /\ marked' = marked \union {<<u, i, st>>}
  /\ \E s \in serving \intersect live, n \in inbox :
       /\ s[1] = u /\ n.user = u /\ n.wire.id = i
       /\ \/ n.wire.type = "delivery" /\ st \in {"read", "del"}
          \/ n.wire.status = "saved" /\ st = "del"
       /\ LET peer == IF n.wire.type = "delivery" THEN n.wire.from ELSE n.wire.to IN
          toPublish' = toPublish \union {[gw |-> s[2], body |-> StatusBody(u, peer, i, st)]}
  /\ UNCHANGED <<sessionVars, sent, accepted, qSave, saving, done, db, applied,
                 sendVars, faults>>

PublishMsg(p) ==
  /\ p \in toPublish
  /\ toPublish' = toPublish \ {p}
  /\ accepted' = accepted \union {p.body}
  /\ qSave' = qSave \union {p.body}
  /\ UNCHANGED <<sessionVars, clientVars, saving, done, db, applied, sendVars, faults>>

(* The notice goes out and the publish is retried behind it. *)
PublishMsgFails_Retried(p) ==
  LET s == <<p.body.from, p.gw>>
      h == [gw |-> p.gw, wire |-> SaveErrWire(p.body), live |-> s \in live, src |-> "local"] IN
  /\ p \in toPublish
  /\ Fault
  /\ held' = IF s \in listed THEN held \union {h} ELSE held
  /\ UNCHANGED <<sessionVars, clientVars, toPublish, accepted, qSave, saving, done, db, applied,
                 jobs, qSend, unacked, inbox>>

(* Publish returns an error: the goroutine looks its sender up and, if it  *)
(* is still listed, goes on to write a save_err notice.                    *)
PublishMsgFails(p) ==
  LET s == <<p.body.from, p.gw>>
      h == [gw |-> p.gw, wire |-> SaveErrWire(p.body), live |-> s \in live, src |-> "local"] IN
  /\ p \in toPublish
  /\ Fault
  /\ toPublish' = toPublish \ {p}
  /\ held' = IF s \in listed THEN held \union {h} ELSE held
  /\ UNCHANGED <<sessionVars, clientVars, accepted, qSave, saving, done, db, applied,
                 jobs, qSend, unacked, inbox>>

(* Publisher confirms are off: a frame lost with the connection goes       *)
(* unnoticed.                                                              *)
PublishMsgLost(p) ==
  /\ p \in toPublish
  /\ Fault
  /\ toPublish' = toPublish \ {p}
  /\ UNCHANGED <<sessionVars, clientVars, accepted, qSave, saving, done, db, applied, sendVars>>

-----------------------------------------------------------------------------
(* Message service: consumeMsgsToSave.                                     *)

Deliver_ShortWindow(b) ==
  /\ b \in qSave
  /\ Cardinality(saving) + Cardinality(done) < Prefetch - 1
  /\ qSave' = qSave \ {b}
  /\ saving' = saving \union {b}
  /\ UNCHANGED <<sessionVars, clientVars, toPublish, accepted, done, db, applied,
                 sendVars, faults>>

Deliver(b) ==
  /\ b \in qSave
  /\ Cardinality(saving) + Cardinality(done) < Prefetch
  /\ qSave' = qSave \ {b}
  /\ saving' = saving \union {b}
  /\ UNCHANGED <<sessionVars, clientVars, toPublish, accepted, done, db, applied,
                 sendVars, faults>>

InsertMessage(b) ==
  /\ b.type = "msg"
  /\ db' = Append(db, NewRow(b))
  /\ UNCHANGED applied

UpdateMessageStatus(b) ==
  /\ b.type = "msg_status"
  /\ b.id \in DOMAIN db
  /\ db' = [db EXCEPT ![b.id].status = b.status]
  /\ applied' = applied \union {<<b.id, b.status>>}

RowId(b) == IF b.type = "msg" THEN Len(db) + 1 ELSE b.id

Save(b) ==
  /\ b \in saving
  /\ InsertMessage(b) \/ UpdateMessageStatus(b)
  /\ saving' = saving \ {b}
  /\ done' = done \union {[body |-> b, id |-> RowId(b)]}
  /\ UNCHANGED <<sessionVars, clientVars, toPublish, accepted, qSave, sendVars, faults>>

(* Nack without requeue. *)
SaveFails_Dropped(b) ==
  /\ b \in saving
  /\ IF b.type = "msg_status" /\ b.id \notin DOMAIN db THEN UNCHANGED faults ELSE Fault
  /\ saving' = saving \ {b}
  /\ UNCHANGED <<sessionVars, clientVars, toPublish, accepted, qSave, done, db, applied, sendVars>>

(* The statement fails (an update also when it hits no row): Nack, requeue. *)
SaveFails(b) ==
  /\ b \in saving
  /\ IF b.type = "msg_status" /\ b.id \notin DOMAIN db THEN UNCHANGED faults ELSE Fault
  /\ saving' = saving \ {b}
  /\ qSave' = qSave \union {b}
  /\ UNCHANGED <<sessionVars, clientVars, toPublish, accepted, done, db, applied, sendVars>>

(* Postgres commits but the reply is lost: the service sees an error.      *)
SaveReplyLost(b) ==
  /\ b \in saving
  /\ InsertMessage(b) \/ UpdateMessageStatus(b)
  /\ Fault
  /\ saving' = saving \ {b}
  /\ qSave' = qSave \union {b}
  /\ UNCHANGED <<sessionVars, clientVars, toPublish, accepted, done, sendVars>>

(* The latest id of the table instead of the one RETURNING gave. *)
RoutingJobs_LatestId(d) ==
  IF d.body.type = "msg"
  THEN {[key |-> d.body.to,   wire |-> DeliveryWire(Len(db), d.body),             host |-> None],
        [key |-> d.body.from, wire |-> SavedWire(Len(db), d.body, d.body.uuid), host |-> None]}
  ELSE {[key |-> d.body.to, wire |-> StatusWire(d.body), host |-> None]}

(* The goroutines an acknowledged delivery starts. *)
RoutingJobs(d) ==
  IF d.body.type = "msg"
  THEN {[key |-> d.body.to,   wire |-> DeliveryWire(d.id, d.body),             host |-> None],
        [key |-> d.body.from, wire |-> SavedWire(d.id, d.body, d.body.uuid), host |-> None]}
  ELSE {[key |-> d.body.to, wire |-> StatusWire(d.body), host |-> None]}

(* Nack where Ack was meant. *)
Acknowledge_Nacked(d) ==
  /\ d \in done
  /\ done' = done \ {d}
  /\ jobs' = jobs \union RoutingJobs(d)
  /\ qSave' = qSave \union {d.body}
  /\ UNCHANGED <<sessionVars, clientVars, toPublish, accepted, saving, db, applied,
                 qSend, held, unacked, inbox, faults>>

(* Ack, then the routing goroutines; the ack itself may not reach the      *)
(* broker, which then redelivers.                                          *)
Acknowledge(d) ==
  /\ d \in done
  /\ done' = done \ {d}
  /\ jobs' = jobs \union RoutingJobs(d)
  /\ \/ UNCHANGED <<qSave, faults>>
     \/ Fault /\ qSave' = qSave \union {d.body}
  /\ UNCHANGED <<sessionVars, clientVars, toPublish, accepted, saving, db, applied,
                 qSend, held, unacked, inbox>>

(* The service dies: unacknowledged deliveries return, goroutines vanish.  *)
ServiceCrash ==
  /\ saving \union done \union jobs # {}
  /\ Fault
  /\ qSave' = qSave \union saving \union {d.body : d \in done}
  /\ saving' = {} /\ done' = {} /\ jobs' = {}
  /\ UNCHANGED <<sessionVars, clientVars, toPublish, accepted, db, applied,
                 qSend, held, unacked, inbox>>

GetUserHost(j) ==
  /\ j \in jobs
  /\ j.host = None
  /\ hstnm[j.key] # None
  /\ jobs' = (jobs \ {j}) \union {[j EXCEPT !.host = hstnm[j.key]]}
  /\ UNCHANGED <<sessionVars, clientVars, saveVars, qSend, held, unacked, inbox, faults>>

(* No host key, or Redis fails: the goroutine ends, the wire is dropped.   *)
HostUnknown(j) ==
  /\ j \in jobs
  /\ j.host = None
  /\ IF hstnm[j.key] = None THEN UNCHANGED faults ELSE Fault
  /\ jobs' = jobs \ {j}
  /\ UNCHANGED <<sessionVars, clientVars, saveVars, qSend, held, unacked, inbox>>

(* Publish to x_send_msg with the host as routing key, not mandatory: with *)
(* no queue bound to the key the broker drops the message.                 *)
PublishSend(j) ==
  /\ j \in jobs
  /\ j.host # None
  /\ jobs' = jobs \ {j}
  /\ \/ /\ qSend' = IF j.host \in up THEN qSend \union {[gw |-> j.host, wire |-> j.wire]} ELSE qSend
        /\ UNCHANGED faults
     \/ Fault /\ UNCHANGED qSend
  /\ UNCHANGED <<sessionVars, clientVars, saveVars, held, unacked, inbox>>

-----------------------------------------------------------------------------
(* Gateway, outbound: consumeMsg and ExistsAndSendMsg.                     *)

(* Look the addressee up; a user who is not listed leaves the delivery     *)
(* neither acked nor nacked.                                               *)
ConsumeMsg(d) ==
  LET s == <<Addressee(d.wire), d.gw>> IN
  /\ d \in qSend
  /\ qSend' = qSend \ {d}
  /\ IF s \in listed
     THEN /\ held' = held \union {[gw |-> d.gw, wire |-> d.wire, live |-> s \in live, src |-> "queue"]}
          /\ UNCHANGED unacked
     ELSE /\ unacked' = unacked \union {d}
          /\ UNCHANGED held
  /\ UNCHANGED <<sessionVars, clientVars, saveVars, jobs, inbox, faults>>

(* Nack after a write that succeeded. *)
WriteJSON_Requeued(h) ==
  /\ h \in held
  /\ h.live
  /\ held' = held \ {h}
  /\ inbox' = inbox \union {[user |-> Addressee(h.wire), wire |-> h.wire]}
  /\ qSend' = IF h.src = "queue" THEN qSend \union {[gw |-> h.gw, wire |-> h.wire]} ELSE qSend
  /\ UNCHANGED <<sessionVars, clientVars, saveVars, jobs, unacked, faults>>

WriteJSON(h) ==
  /\ h \in held
  /\ h.live
  /\ held' = held \ {h}
  /\ inbox' = inbox \union {[user |-> Addressee(h.wire), wire |-> h.wire]}
  /\ UNCHANGED <<sessionVars, clientVars, saveVars, jobs, qSend, unacked, faults>>

(* The write fails: a queue delivery is nacked and requeued, the error of  *)
(* a local save_err notice is ignored.                                     *)
WriteFails(h) ==
  /\ h \in held
  /\ ~h.live
  /\ held' = held \ {h}
  /\ qSend' = IF h.src = "queue" THEN qSend \union {[gw |-> h.gw, wire |-> h.wire]} ELSE qSend
  /\ UNCHANGED <<sessionVars, clientVars, saveVars, jobs, unacked, inbox, faults>>

-----------------------------------------------------------------------------
SessionStep ==
  \/ \E s \in Session :
       Connect(s) \/ SetUserOnline(s) \/ SocketDies(s) \/ DelConn(s) \/ SetUserOffline(s)
  \/ \E u \in User : HostExpires(u)
  \/ \E g \in Gateway : GatewayCrash(g) \/ GatewayRestart(g)

ClientStep ==
  \/ \E m \in Msg : ClientSend(m)
  \/ \E u \in User, i \in DOMAIN db, st \in {"read", "del"} : ClientMark(u, i, st)

SaveStep ==
  \/ \E p \in toPublish : PublishMsg(p) \/ PublishMsgFails(p) \/ PublishMsgLost(p)
  \/ \E b \in qSave : Deliver(b)
  \/ \E b \in saving : Save(b) \/ SaveFails(b) \/ SaveReplyLost(b)
  \/ \E d \in done : Acknowledge(d)
  \/ ServiceCrash

SendStep ==
  \/ \E j \in jobs : GetUserHost(j) \/ HostUnknown(j) \/ PublishSend(j)
  \/ \E d \in qSend : ConsumeMsg(d)
  \/ \E h \in held : WriteJSON(h) \/ WriteFails(h)

Next == SessionStep \/ ClientStep \/ SaveStep \/ SendStep

Spec == Init /\ [][Next]_vars

(* A goroutine that was started runs on, the broker hands out a ready      *)
(* delivery whenever the prefetch window lets it, and the database answers *)
(* in the end: Deliver and Save may be set back by Nacks and crashes, so   *)
(* they get strong fairness.                                               *)
Fairness ==
  /\ \A m \in Msg, g \in Gateway :
       WF_vars(\E p \in toPublish : p.gw = g /\ p.body.uuid = m /\ PublishMsg(p))
  /\ \A m \in Msg :
       /\ SF_vars(\E b \in qSave : b.uuid = m /\ Deliver(b))
       /\ SF_vars(\E b \in saving : b.uuid = m /\ Save(b))
       /\ WF_vars(\E d \in done : d.body.uuid = m /\ Acknowledge(d))
       /\ WF_vars(\E j \in jobs : j.wire.text = m /\ (GetUserHost(j) \/ HostUnknown(j) \/ PublishSend(j)))
       /\ WF_vars(\E d \in qSend : d.wire.text = m /\ ConsumeMsg(d))
       /\ WF_vars(\E h \in held : h.wire.text = m /\ (WriteJSON(h) \/ WriteFails(h)))

FairSpec == Spec /\ Fairness

-----------------------------------------------------------------------------
(* Properties.                                                             *)

Row       == [from : User, to : User, text : Msg, status : {"saved", "read", "del"}]
Published == [gw : Gateway, body : WsMsg]
Wired     == [gw : Gateway, wire : WsMsg]
Held      == [gw : Gateway, wire : WsMsg, live : BOOLEAN, src : {"queue", "local"}]
Job       == [key : User, wire : WsMsg, host : Gateway \union {None}]

(* Every variable has its type. *)
TypeOK ==
  /\ listed \subseteq Session /\ serving \subseteq Session /\ live \subseteq Session
  /\ leaving \in [Session -> Nat]
  /\ hstnm \in [User -> Gateway \union {None}]
  /\ up \subseteq Gateway
  /\ sessions \in Nat
  /\ sent \subseteq Msg
  /\ marked \subseteq User \X Nat \X {"read", "del"}
  /\ toPublish \subseteq Published
  /\ accepted \subseteq WsMsg /\ qSave \subseteq WsMsg /\ saving \subseteq WsMsg
  /\ done \subseteq [body : WsMsg, id : Nat]
  /\ db \in Seq(Row)
  /\ applied \subseteq Nat \X Status
  /\ jobs \subseteq Job
  /\ qSend \subseteq Wired /\ unacked \subseteq Wired
  /\ held \subseteq Held
  /\ inbox \subseteq [user : User, wire : WsMsg]
  /\ faults \in Nat

Recorded(b) ==
  \/ b.type = "msg" /\ \E i \in DOMAIN db : db[i].text = b.text
  \/ b.type = "msg_status" /\ <<b.id, b.status>> \in applied

(* No body the broker took on q_save_msg is ever lost: until the table     *)
(* holds its effect it is ready or delivered, through every Nack, lost     *)
(* reply, lost ack and crash of the service (saveMsg.go acks only after    *)
(* the statement succeeded).                                               *)
AcceptedNotLost ==
  \A b \in accepted : b \in qSave \union saving \/ Recorded(b)

CopiesOf(m) == {i \in DOMAIN db : db[i].text = m}

(* A message gets a second row only through a fault: nothing but a lost    *)
(* reply, a lost ack or a crash between insert and ack stores it again.    *)
DuplicateNeedsFault ==
  \A m \in Msg : Cardinality(CopiesOf(m)) <= 1 + faults

(* The wires on their way to a user or at him. *)
InTransit ==
  {j.wire : j \in jobs} \union {d.wire : d \in qSend \union unacked}
    \union {h.wire : h \in held} \union {n.wire : n \in inbox}

WireTruthful(w) ==
  CASE w.type = "delivery" -> w.id \in DOMAIN db /\ w = DeliveryWire(w.id, db[w.id])
    [] w.status = "saved"  -> w.id \in DOMAIN db /\ w = SavedWire(w.id, db[w.id], db[w.id].text)
    [] w.status = "save_err" -> w.uuid # None => ~ \E i \in DOMAIN db : db[i].text = w.uuid
    [] OTHER -> /\ <<w.id, w.status>> \in applied
                /\ {w.from, w.to} = {db[w.id].from, db[w.id].to}

(* The two services agree on who a wire is for: the user whose host the    *)
(* message service looked up is the one the gateway looks up in its list.  *)
RoutedToAddressee == \A j \in jobs : j.key = Addressee(j.wire)

(* Whatever is on its way to a user is true of the table: a delivery and a *)
(* saved notice carry the id of the very row that holds their text and     *)
(* uuid, a status notice one that was applied, and a save_err notice is    *)
(* about a message that no row holds, then or later.  It goes to the       *)
(* gateway of the user that gateway will look up.                          *)
WiresTruthful == (\A w \in InTransit : WireTruthful(w)) /\ RoutedToAddressee

Places(w) ==
  {<<"job", j.key>> : j \in {k \in jobs : k.wire = w}}
    \union {<<"queue", d.gw>> : d \in {e \in qSend : e.wire = w}}
    \union {<<"write", h.gw>> : h \in {k \in held : k.wire = w}}
    \union {<<"stuck", d.gw>> : d \in {e \in unacked : e.wire = w}}
    \union {<<"inbox", n.user>> : n \in {k \in inbox : k.wire = w}}

(* A row is delivered, and confirmed, at most once: its wire is never in   *)
(* two places, requeueing a failed write included, and nothing follows it  *)
(* after it has been written to a socket.                                  *)
WrittenOnce ==
  \A w \in InTransit : w.type = "delivery" \/ w.status = "saved" => Cardinality(Places(w)) = 1

(* The promise of the whole path. *)
Texts(B) == {b.text : b \in {c \in B : c.type = "msg"}}

Log == INSTANCE MessageLog WITH
  accepted  <- Texts(accepted),
  refused   <- {<<n.user, n.wire.uuid>> : n \in {k \in inbox : k.wire.status = "save_err" /\ k.wire.uuid # None}},
  log       <- [i \in DOMAIN db |-> [text |-> db[i].text, status |-> db[i].status]],
  delivered <- {<<n.user, n.wire.id>> : n \in {k \in inbox : k.wire.type = "delivery"}},
  confirmed <- {<<n.user, n.wire.uuid, n.wire.id>> : n \in {k \in inbox : k.wire.status = "saved"}},
  marks     <- {<<b.from, b.id, b.status>> : b \in {c \in accepted : c.type = "msg_status"}},
  changed   <- applied,
  seen      <- {<<n.user, n.wire.id, n.wire.status>> : n \in {k \in inbox : k.wire.status \in {"read", "del"}}}

(* Every step of the path is a step of the abstract log or invisible.      *)
ImplementsLog == Log!Spec

(* A message the broker took is stored in the end: the prefetch window is  *)
(* never filled for good and no requeue starves it.                        *)
AcceptedEventuallyStored ==
  \A m \in Msg : (MsgBody(m) \in accepted) ~> (\E i \in DOMAIN db : db[i].text = m)

Reachable(s) == s \in serving \intersect live /\ hstnm[s[1]] = s[2]
DeliveredTo(u, m) == \E n \in inbox : n.user = u /\ n.wire.type = "delivery" /\ n.wire.text = m

(* A message still in the queue while its receiver serves at the gateway   *)
(* Redis names reaches him, unless that connection or its route changes or *)
(* something fails on the way.                                             *)
ReachableGetsMessage ==
  \A m \in Msg, g \in Gateway, k \in 0..MaxFaults :
    LET u == Receiver[m] IN
    (MsgBody(m) \in qSave /\ Reachable(<<u, g>>) /\ faults = k)
      ~> (DeliveredTo(u, m) \/ ~Reachable(<<u, g>>) \/ faults # k)

-----------------------------------------------------------------------------
(* The inductive invariant behind the theorems of PipelineProofs.          *)

Queued == qSave \union saving \union {d.body : d \in done}

(* A body is what a client's frame was turned into: a message nobody has   *)
(* changed, or a status for a row between the same two users.              *)
MsgBodyOK(b) == b.type = "msg" /\ b.text \in Msg /\ b = MsgBody(b.text)

StatusBodyOK(b) ==
  /\ b.type = "msg_status" /\ b.uuid = None /\ b.text = None
  /\ b.id \in DOMAIN db
  /\ b.status \in {"read", "del"}
  /\ \/ b.from = db[b.id].from /\ b.to = db[b.id].to
     \/ b.from = db[b.id].to /\ b.to = db[b.id].from

(* A status is only given to what its sender was shown. *)
Justified(b) ==
  b.type = "msg_status" =>
    \E n \in inbox :
      /\ n.user = b.from /\ n.wire.id = b.id
      /\ \/ n.wire.type = "delivery"
         \/ n.wire.type = "msg_status" /\ n.wire.status = "saved" /\ b.status = "del"

BodiesOK ==
  \A b \in accepted \union {p.body : p \in toPublish} :
    (MsgBodyOK(b) \/ StatusBodyOK(b)) /\ Justified(b)

(* Only what the broker took reaches the service and the table. *)
OnlyAccepted ==
  /\ Queued \subseteq accepted
  /\ \A i \in DOMAIN db : LET b == MsgBody(db[i].text) IN
       b \in accepted /\ db[i].from = b.from /\ db[i].to = b.to
  /\ \A a \in applied : \E b \in accepted : b.type = "msg_status" /\ a = <<b.id, b.status>>

DoneInTable ==
  \A d \in done :
    \/ d.body.type = "msg" /\ d.id \in DOMAIN db /\ db[d.id].text = d.body.text
    \/ d.body.type = "msg_status" /\ d.id = d.body.id /\ <<d.id, d.body.status>> \in applied

(* A message is in one goroutine's hands, or with the broker, or refused.  *)
SentOnce ==
  /\ \A p \in toPublish : p.body.type = "msg" =>
       /\ p.body.text \in sent
       /\ p.body \notin accepted
       /\ \A q \in toPublish : q.body = p.body => q = p
  /\ \A b \in accepted : b.type = "msg" => b.text \in sent
  /\ \A w \in InTransit : w.type = "msg_status" /\ w.status = "save_err" /\ w.uuid # None =>
       /\ w.uuid \in sent
       /\ MsgBody(w.uuid) \notin accepted \union {p.body : p \in toPublish}

WireOK(w) ==
  \/ w.type = "delivery" /\ w.id \in DOMAIN db /\ w = DeliveryWire(w.id, db[w.id])
  \/ /\ w.type = "msg_status"
     /\ \/ /\ w.status = "saved"
           /\ w.id \in DOMAIN db /\ w = SavedWire(w.id, db[w.id], db[w.id].text)
        \/ w.status = "save_err" /\ (w.uuid # None => w.from = Sender[w.uuid])
        \/ /\ w.status \in {"read", "del"}
           /\ <<w.id, w.status>> \in applied
           /\ \E b \in accepted : b.type = "msg_status" /\ w = StatusWire(b)

WiresOK == \A w \in InTransit : WireOK(w)

InboxOK == \A n \in inbox : n.user = Addressee(n.wire)

IInv ==
  /\ TypeOK
  /\ BodiesOK
  /\ OnlyAccepted
  /\ DoneInTable
  /\ SentOnce
  /\ WiresOK
  /\ InboxOK
  /\ AcceptedNotLost
  /\ RoutedToAddressee
=============================================================================
