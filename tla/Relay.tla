-------------------------------- MODULE Relay -------------------------------
(***************************************************************************)
(* How a connected user is kept informed of a contact's status.            *)
(*                                                                         *)
(* A connection has two goroutines: the parent, wsConnHandler, reads the   *)
(* socket and answers get_lst_sn from Redis; the child, wsPubSubHandler,   *)
(* owns the subscription to the contact's updates.  The parent hands over  *)
(* contacts through a channel of capacity one and the close signal through *)
(* an unbuffered one; the child, when it ends, tells the parent through a  *)
(* third, unbuffered too.  Queue and consumer tag on the broker are named  *)
(* after the user, so all connections of a user share them, and a child    *)
(* that ends leaves a goroutine behind that cancels whatever consumer has  *)
(* that tag when it runs.                                                  *)
(*                                                                         *)
(* One user at one gateway.  A handshake looks up the user's entry and     *)
(* adds its own in two lock sections, so connections may overlap; they     *)
(* then share the entry as well, and the history variable met records      *)
(* whom that befell.                                                       *)
(***************************************************************************)
EXTENDS Naturals, Sequences, FiniteSets

CONSTANTS
  Conn,        \* the user's connections, each opened at most once
  Contact,     \* the users he may ask about
  None,
  MaxAsks,     \* bound: get_lst_sn frames
  MaxUpdates,  \* bound: status changes of a contact
  MaxFaults    \* bound: broker channels that die, calls that fail

ASSUME RelayAssumption ==
  /\ None \notin Conn \union Contact
  /\ MaxAsks \in Nat /\ MaxUpdates \in Nat /\ MaxFaults \in Nat

VARIABLES
  parent,    \* where wsConnHandler is
  to,        \* To of the get_lst_sn frame in hand
  reply,     \* what GetUserStatus returned
  buffer,    \* contactIdChan
  child,     \* where wsPubSubHandler is
  contact,   \* its globalContactId
  chan,      \* whether its lastSeenChan is more than nil
  update,    \* the delivery it has in hand
  cancels,   \* detached goroutines about to cancel the user's consumer
  listed,    \* the user's entry in ClientConns
  open,      \* connections whose socket is not broken
  screen,    \* the last status written to a connection
  consumer,  \* whose channel the user's queue is consumed into
  bindings,  \* contacts the user's queue is bound to
  feed,      \* what is in lastSeenChan
  status,    \* Redis: version of a contact's status
  told,      \* the version last published
  hit,       \* history: connections whose subscription failed or was cancelled
             \* by another goroutine, and not renewed since
  failed,    \* history: contacts to whom the queue stayed bound though Consume failed
  met,       \* history: connections that were added, or running, beside another
  asks,
  faults

parentVars == <<parent, to, reply>>
childVars  == <<child, contact, chan, update>>
brokerVars == <<consumer, bindings, feed>>
statusVars == <<status, told>>
vars == <<parentVars, buffer, childVars, cancels, listed, open, screen, brokerVars, statusVars,
          hit, failed, met, asks, faults>>

Update == [about : Contact, ver : 0..MaxUpdates]

Fault == faults < MaxFaults /\ faults' = faults + 1

(* Where a parent is between the child's start and the close signal. *)
Running == {"top", "reading", "replying", "handing", "signal"}

(* Connections whose handler has not come to the end of its clean-up. *)
Connected == {c \in Conn : parent[c] \in Running \union {"leaving"}}

Init ==
  /\ parent = [c \in Conn |-> "idle"]
  /\ to = [c \in Conn |-> None] /\ reply = [c \in Conn |-> None]
  /\ buffer = [c \in Conn |-> None]
  /\ child = [c \in Conn |-> "none"]
  /\ contact = [c \in Conn |-> None]
  /\ chan = [c \in Conn |-> FALSE]
  /\ update = [c \in Conn |-> None]
  /\ cancels = 0
  /\ listed = None /\ open = {} /\ screen = [c \in Conn |-> None]
  /\ consumer = None /\ bindings = {}
  /\ feed = [c \in Conn |-> <<>>]
  /\ status = [x \in Contact |-> 0] /\ told = [x \in Contact |-> 0]
  /\ hit = {} /\ failed = {} /\ met = {} /\ asks = 0 /\ faults = 0

-----------------------------------------------------------------------------
(* The parent.                                                             *)

(* The handshake that finds no entry; a refused one changes nothing. *)
Exists(c) ==
  /\ parent[c] = "idle"
  /\ listed = None
  /\ parent' = [parent EXCEPT ![c] = "checked"]
  /\ UNCHANGED <<to, reply, buffer, childVars, cancels, listed, open, screen, brokerVars,
                 statusVars, hit, asks, faults, failed, met>>

(* After the upgrade, without another look, and then the goroutines start. *)
AddConn(c) ==
  /\ parent[c] = "checked"
  /\ parent' = [parent EXCEPT ![c] = "top"]
  /\ child' = [child EXCEPT ![c] = "loop"]
  /\ listed' = c
  /\ open' = open \union {c}
  /\ met' = IF Connected = {} THEN met ELSE met \union Connected \union {c}
  /\ UNCHANGED <<to, reply, buffer, contact, chan, update, cancels, screen, brokerVars,
                 statusVars, hit, failed, asks, faults>>

SocketBreaks(c) ==
  /\ c \in open
  /\ open' = open \ {c}
  /\ UNCHANGED <<parentVars, buffer, childVars, cancels, listed, screen, brokerVars, statusVars,
                 hit, asks, faults, failed, met>>

(* The top of the loop: a child that waits is replaced, else ReadJSON. *)
Respawn(c) ==
  /\ parent[c] = "top"
  /\ child[c] = "waiting"
  /\ child' = [child EXCEPT ![c] = "loop"]
  /\ contact' = [contact EXCEPT ![c] = None]
  /\ UNCHANGED <<parentVars, buffer, chan, update, cancels, listed, open, screen, brokerVars,
                 statusVars, hit, asks, faults, failed, met>>

ReadJSON(c) ==
  /\ parent[c] = "top"
  /\ child[c] # "waiting"
  /\ parent' = [parent EXCEPT ![c] = "reading"]
  /\ UNCHANGED <<to, reply, buffer, childVars, cancels, listed, open, screen, brokerVars,
                 statusVars, hit, asks, faults, failed, met>>

(* The read fails or the frame is refused, as one is whose sender has no   *)
(* entry in ClientConns.                                                    *)
EndLoop(c) ==
  /\ parent[c] = "reading"
  /\ parent' = [parent EXCEPT ![c] = "signal"]
  /\ UNCHANGED <<to, reply, buffer, childVars, cancels, listed, open, screen, brokerVars,
                 statusVars, hit, asks, faults, failed, met>>

(* A message or status frame, of which module Pipeline speaks. *)
OtherFrame(c) ==
  /\ parent[c] = "reading"
  /\ c \in open /\ listed # None
  /\ parent' = [parent EXCEPT ![c] = "top"]
  /\ UNCHANGED <<to, reply, buffer, childVars, cancels, listed, open, screen, brokerVars,
                 statusVars, hit, asks, faults, failed, met>>

(* A failed GetUserStatus is answered with an empty status. *)
GetLastSeen_Empty(c, x) ==
  /\ parent[c] = "reading"
  /\ c \in open /\ listed # None
  /\ asks < MaxAsks
  /\ asks' = asks + 1
  /\ to' = [to EXCEPT ![c] = x]
  /\ parent' = [parent EXCEPT ![c] = "replying"]
  /\ \/ reply' = [reply EXCEPT ![c] = [about |-> x, ver |-> status[x]]] /\ UNCHANGED faults
     \/ reply' = [reply EXCEPT ![c] = [about |-> x, ver |-> None]] /\ Fault
  /\ UNCHANGED <<buffer, childVars, cancels, listed, open, screen, brokerVars, statusVars, hit,
                 failed, met>>

(* get_lst_sn: GetUserStatus answers or fails. *)
GetLastSeen(c, x) ==
  /\ parent[c] = "reading"
  /\ c \in open /\ listed # None
  /\ asks < MaxAsks
  /\ asks' = asks + 1
  /\ to' = [to EXCEPT ![c] = x]
  /\ \/ /\ parent' = [parent EXCEPT ![c] = "replying"]
        /\ reply' = [reply EXCEPT ![c] = [about |-> x, ver |-> status[x]]]
        /\ UNCHANGED faults
     \/ /\ parent' = [parent EXCEPT ![c] = "handing"]
        /\ Fault
        /\ UNCHANGED reply
  /\ UNCHANGED <<buffer, childVars, cancels, listed, open, screen, brokerVars, statusVars, hit,
                 failed, met>>

Reply(c) ==
  /\ parent[c] = "replying"
  /\ parent' = [parent EXCEPT ![c] = "handing"]
  /\ screen' = IF c \in open THEN [screen EXCEPT ![c] = reply[c]] ELSE screen
  /\ reply' = [reply EXCEPT ![c] = None]
  /\ UNCHANGED <<to, buffer, childVars, cancels, listed, open, brokerVars, statusVars, hit, asks,
                 faults, failed, met>>

(* The contact is dropped while the last one is still there. *)
Hand_Drops(c) ==
  /\ parent[c] = "handing"
  /\ buffer' = IF buffer[c] = None THEN [buffer EXCEPT ![c] = to[c]] ELSE buffer
  /\ to' = [to EXCEPT ![c] = None]
  /\ parent' = [parent EXCEPT ![c] = "top"]
  /\ UNCHANGED <<reply, childVars, cancels, listed, open, screen, brokerVars, statusVars, hit,
                 asks, faults, failed, met>>

(* contactIdChan <- To: blocks while the last one is still there. *)
Hand(c) ==
  /\ parent[c] = "handing"
  /\ buffer[c] = None
  /\ buffer' = [buffer EXCEPT ![c] = to[c]]
  /\ to' = [to EXCEPT ![c] = None]
  /\ parent' = [parent EXCEPT ![c] = "top"]
  /\ UNCHANGED <<reply, childVars, cancels, listed, open, screen, brokerVars, statusVars, hit,
                 asks, faults, failed, met>>

(* closeChildChan in a select with a default: the parent does not wait. *)
SignalClose_NoWait(c) ==
  /\ parent[c] = "signal"
  /\ child' = IF child[c] = "loop" THEN [child EXCEPT ![c] = "ending"] ELSE child
  /\ parent' = [parent EXCEPT ![c] = "leaving"]
  /\ UNCHANGED <<to, reply, buffer, contact, chan, update, cancels, listed, open, screen,
                 brokerVars, statusVars, hit, asks, faults, failed, met>>

(* closeChildChan <- true: parent and child meet. *)
SignalClose(c) ==
  /\ parent[c] = "signal"
  /\ child[c] = "loop"
  /\ child' = [child EXCEPT ![c] = "ending"]
  /\ parent' = [parent EXCEPT ![c] = "leaving"]
  /\ UNCHANGED <<to, reply, buffer, contact, chan, update, cancels, listed, open, screen,
                 brokerVars, statusVars, hit, asks, faults, failed, met>>

(* DelConn takes the user's entry, whose connection it may be, and the     *)
(* socket is closed.                                                       *)
DelConn(c) ==
  /\ parent[c] = "leaving"
  /\ parent' = [parent EXCEPT ![c] = "closed"]
  /\ listed' = None
  /\ open' = open \ {c}
  /\ UNCHANGED <<to, reply, buffer, childVars, cancels, screen, brokerVars, statusVars, hit, asks,
                 faults, failed, met>>

-----------------------------------------------------------------------------
(* The child.                                                              *)

(* Children that still rely on the current consumer. *)
Robbed == {c \in {consumer} \ {None} : child[c] \in {"loop", "sending"} /\ chan[c]}

(* CancelSubToLastSeen: the auto-delete queue goes with its consumer.  A   *)
(* queue that never had one stays with its bindings.                       *)
Cancelled == consumer' = None /\ bindings' = IF consumer = None THEN bindings ELSE {}

(* The subscription is kept and another binding added to its queue. *)
TakeContact_Rebinds(c) ==
  /\ child[c] = "loop"
  /\ buffer[c] # None
  /\ buffer' = [buffer EXCEPT ![c] = None]
  /\ contact' = [contact EXCEPT ![c] = buffer[c]]
  /\ IF consumer = c
     THEN bindings' = bindings \union {buffer[c]} /\ UNCHANGED <<child, consumer, hit>>
     ELSE /\ child' = [child EXCEPT ![c] = "switch"]
          /\ Cancelled /\ hit' = hit \union (Robbed \ {c})
  /\ UNCHANGED <<parentVars, chan, update, cancels, listed, open, screen, feed, statusVars, asks,
                 faults, failed, met>>

(* A contact other than the current one: cancel, then subscribe afresh. *)
TakeContact(c) ==
  /\ child[c] = "loop"
  /\ buffer[c] # None
  /\ buffer' = [buffer EXCEPT ![c] = None]
  /\ IF buffer[c] = contact[c]
     THEN UNCHANGED <<child, contact, consumer, bindings, hit>>
     ELSE /\ contact' = [contact EXCEPT ![c] = buffer[c]]
          /\ child' = [child EXCEPT ![c] = "switch"]
          /\ Cancelled /\ hit' = hit \union (Robbed \ {c})
  /\ UNCHANGED <<parentVars, chan, update, cancels, listed, open, screen, feed, statusVars, asks,
                 faults, failed, met>>

(* SubToLastSeenQ failed: the child goes on with a nil channel. *)
Unsubscribed(c) ==
  /\ child' = [child EXCEPT ![c] = "loop"]
  /\ chan' = [chan EXCEPT ![c] = FALSE]
  /\ feed' = [feed EXCEPT ![c] = <<>>]

(* SubToLastSeenQ declares the user's queue and binds it, without waiting  *)
(* for the broker's word.                                                  *)
Bind(c) ==
  /\ child[c] = "switch"
  /\ \/ /\ child' = [child EXCEPT ![c] = "bound"]
        /\ bindings' = bindings \union {contact[c]}
        /\ UNCHANGED <<chan, feed, hit, faults>>
     \/ Fault /\ Unsubscribed(c) /\ hit' = hit \union {c} /\ UNCHANGED bindings
  /\ UNCHANGED <<parentVars, buffer, contact, update, cancels, listed, open, screen, consumer,
                 statusVars, failed, asks, met>>

Subscribed(c) ==
  /\ consumer = None /\ bindings # {}
  /\ child' = [child EXCEPT ![c] = "loop"]
  /\ consumer' = c
  /\ chan' = [chan EXCEPT ![c] = TRUE]
  /\ feed' = [feed EXCEPT ![c] = <<>>]
  /\ hit' = hit \ {c}
  /\ UNCHANGED <<bindings, failed, faults>>

(* Consume failed and the old channel is kept. *)
Consume_KeepsChan(c) ==
  /\ child[c] = "bound"
  /\ \/ Subscribed(c)
     \/ /\ Fault
        /\ child' = [child EXCEPT ![c] = "loop"]
        /\ hit' = hit \union {c} /\ failed' = failed \union {contact[c]}
        /\ UNCHANGED <<chan, feed, consumer, bindings>>
  /\ UNCHANGED <<parentVars, buffer, contact, update, cancels, listed, open, screen, statusVars,
                 asks, met>>

(* Consume, exclusively.  The tag of a living consumer is an error that    *)
(* closes the connection, a queue that has gone one that closes the        *)
(* channel; any other error leaves the queue bound.                        *)
Consume(c) ==
  /\ child[c] = "bound"
  /\ \/ Subscribed(c)
     \/ /\ Unsubscribed(c)
        /\ hit' = hit \union {c} \union Robbed
        /\ consumer' = None
        /\ \/ /\ consumer # None \/ bindings = {}
              /\ bindings' = {} /\ UNCHANGED <<failed, faults>>
           \/ /\ consumer = None /\ Fault
              /\ failed' = failed \union {contact[c]} /\ UNCHANGED bindings
  /\ UNCHANGED <<parentVars, buffer, contact, update, cancels, listed, open, screen, statusVars,
                 asks, met>>

TakeUpdate(c) ==
  /\ child[c] = "loop"
  /\ chan[c]
  /\ feed[c] # <<>>
  /\ update' = [update EXCEPT ![c] = Head(feed[c])]
  /\ feed' = [feed EXCEPT ![c] = Tail(@)]
  /\ child' = [child EXCEPT ![c] = "sending"]
  /\ UNCHANGED <<parentVars, buffer, contact, chan, cancels, listed, open, screen, consumer,
                 bindings, statusVars, hit, asks, faults, failed, met>>

(* A closed channel yields a delivery without a body: the child gives up.  *)
ChanClosed(c) ==
  /\ child[c] = "loop"
  /\ chan[c]
  /\ feed[c] = <<>>
  /\ consumer # c
  /\ child' = [child EXCEPT ![c] = "ending"]
  /\ UNCHANGED <<parentVars, buffer, contact, chan, update, cancels, listed, open, screen,
                 brokerVars, statusVars, hit, asks, faults, failed, met>>

(* The write of one update fails and the child gives up. *)
SendLastSeen_GivesUp(c) ==
  /\ child[c] = "sending"
  /\ update' = [update EXCEPT ![c] = None]
  /\ IF listed \in open
     THEN screen' = [screen EXCEPT ![listed] = update[c]] /\ child' = [child EXCEPT ![c] = "loop"]
     ELSE child' = [child EXCEPT ![c] = "ending"] /\ UNCHANGED screen
  /\ UNCHANGED <<parentVars, buffer, contact, chan, cancels, listed, open, brokerVars, statusVars,
                 hit, asks, faults, failed, met>>

(* A write to a broken socket never returns. *)
SendLastSeen_Blocks(c) ==
  /\ child[c] = "sending"
  /\ listed \in open
  /\ update' = [update EXCEPT ![c] = None]
  /\ child' = [child EXCEPT ![c] = "loop"]
  /\ screen' = [screen EXCEPT ![listed] = update[c]]
  /\ UNCHANGED <<parentVars, buffer, contact, chan, cancels, listed, open, brokerVars, statusVars,
                 hit, asks, faults, failed, met>>

(* An update is not written after an answer of the parent's. *)
SendLastSeen_Skips(c) ==
  /\ child[c] = "sending"
  /\ update' = [update EXCEPT ![c] = None]
  /\ child' = [child EXCEPT ![c] = "loop"]
  /\ screen' = IF listed \in open /\ screen[listed] = None THEN [screen EXCEPT ![listed] = update[c]] ELSE screen
  /\ UNCHANGED <<parentVars, buffer, contact, chan, cancels, listed, open, brokerVars, statusVars,
                 hit, asks, faults, failed, met>>

(* ExistsAndSendLastSeen: to the user's entry; a write error is logged, a  *)
(* missing entry ends the child.                                           *)
SendLastSeen(c) ==
  /\ child[c] = "sending"
  /\ update' = [update EXCEPT ![c] = None]
  /\ IF listed = None
     THEN child' = [child EXCEPT ![c] = "ending"] /\ UNCHANGED screen
     ELSE /\ child' = [child EXCEPT ![c] = "loop"]
          /\ screen' = IF listed \in open THEN [screen EXCEPT ![listed] = update[c]] ELSE screen
  /\ UNCHANGED <<parentVars, buffer, contact, chan, cancels, listed, open, brokerVars, statusVars,
                 hit, asks, faults, failed, met>>

(* The cancel is left to a goroutine, the child waits to tell its parent:  *)
(* closeParentChan <- true.                                                *)
EndChild(c) ==
  /\ child[c] = "ending"
  /\ child' = [child EXCEPT ![c] = "waiting"]
  /\ chan' = [chan EXCEPT ![c] = FALSE]
  /\ feed' = [feed EXCEPT ![c] = <<>>]
  /\ cancels' = cancels + 1
  /\ UNCHANGED <<parentVars, buffer, contact, update, listed, open, screen, consumer, bindings,
                 statusVars, hit, asks, faults, failed, met>>

-----------------------------------------------------------------------------
(* Broker and contacts.                                                    *)

CancelLater ==
  /\ cancels > 0
  /\ cancels' = cancels - 1
  /\ Cancelled /\ hit' = hit \union Robbed
  /\ UNCHANGED <<parentVars, buffer, childVars, listed, open, screen, feed, statusVars, asks,
                 faults, failed, met>>

(* The gateway's consuming channel dies with its consumers, or the         *)
(* connection with its exclusive queues.                                   *)
ChannelDies ==
  /\ consumer # None \/ bindings # {}
  /\ Fault
  /\ hit' = hit \union Robbed
  /\ consumer' = None /\ bindings' = {}
  /\ UNCHANGED <<parentVars, buffer, childVars, cancels, listed, open, screen, feed, statusVars,
                 asks, failed, met>>

(* A contact comes or goes: SetUserOnline/SetUserOffline, then PubLastSeen. *)
SetStatus(x) ==
  /\ told[x] = status[x]
  /\ status[x] < MaxUpdates
  /\ status' = [status EXCEPT ![x] = @ + 1]
  /\ UNCHANGED <<parentVars, buffer, childVars, cancels, listed, open, screen, brokerVars, told,
                 hit, asks, faults, failed, met>>

PubLastSeen(x) ==
  /\ told[x] < status[x]
  /\ told' = [told EXCEPT ![x] = status[x]]
  /\ feed' = [c \in Conn |-> IF consumer = c /\ chan[c] /\ x \in bindings
                             THEN Append(feed[c], [about |-> x, ver |-> status[x]])
                             ELSE feed[c]]
  /\ UNCHANGED <<parentVars, buffer, childVars, cancels, listed, open, screen, consumer, bindings,
                 status, hit, asks, faults, failed, met>>

ParentStep(c) ==
  \/ Exists(c) \/ AddConn(c) \/ Respawn(c) \/ ReadJSON(c) \/ EndLoop(c) \/ OtherFrame(c)
  \/ \E x \in Contact : GetLastSeen(c, x)
  \/ Reply(c) \/ Hand(c) \/ SignalClose(c) \/ DelConn(c)

ChildStep(c) ==
  \/ TakeContact(c) \/ Bind(c) \/ Consume(c) \/ TakeUpdate(c) \/ ChanClosed(c)
  \/ SendLastSeen(c) \/ EndChild(c)

Next ==
  \/ \E c \in Conn : SocketBreaks(c) \/ ParentStep(c) \/ ChildStep(c)
  \/ CancelLater \/ ChannelDies
  \/ \E x \in Contact : SetStatus(x) \/ PubLastSeen(x)

Spec == Init /\ [][Next]_vars

(* Goroutines run on: a read of a broken socket fails, a send on a channel *)
(* happens once it can, a ready case of a select is taken in the end.      *)
Fairness ==
  /\ \A c \in Conn :
       /\ WF_vars(Respawn(c) \/ ReadJSON(c))
       /\ WF_vars(c \notin open /\ EndLoop(c))
       /\ WF_vars(Reply(c)) /\ WF_vars(Hand(c))
       /\ WF_vars(SignalClose(c)) /\ WF_vars(DelConn(c))
       /\ WF_vars(TakeContact(c)) /\ WF_vars(Bind(c)) /\ WF_vars(Consume(c))
       /\ WF_vars(TakeUpdate(c)) /\ WF_vars(ChanClosed(c))
       /\ WF_vars(SendLastSeen(c)) /\ WF_vars(EndChild(c))
  /\ WF_vars(CancelLater)

FairSpec == Spec /\ Fairness

-----------------------------------------------------------------------------
(* Properties.                                                             *)

(* Every variable has its type. *)
TypeOK ==
  /\ parent \in [Conn -> Running \union {"idle", "checked", "leaving", "closed"}]
  /\ to \in [Conn -> Contact \union {None}]
  /\ reply \in [Conn -> Update \union {None}]
  /\ buffer \in [Conn -> Contact \union {None}]
  /\ child \in [Conn -> {"none", "loop", "switch", "bound", "sending", "ending", "waiting"}]
  /\ contact \in [Conn -> Contact \union {None}]
  /\ chan \in [Conn -> BOOLEAN]
  /\ update \in [Conn -> Update \union {None}]
  /\ cancels \in Nat
  /\ listed \in Conn \union {None}
  /\ open \subseteq Conn
  /\ screen \in [Conn -> Update \union {None}]
  /\ consumer \in Conn \union {None}
  /\ bindings \subseteq Contact
  /\ feed \in [Conn -> Seq(Update)]
  /\ status \in [Contact -> 0..MaxUpdates] /\ told \in [Contact -> 0..MaxUpdates]
  /\ hit \subseteq Conn /\ failed \subseteq Contact /\ met \subseteq Conn
  /\ asks \in Nat /\ faults \in Nat

(* The user's queue is consumed exclusively.  Successive connections never *)
(* want it together: whoever declares and binds it finds no consumer until *)
(* his own.  Connections that overlapped have no such promise.             *)
QueueFree == \A c \in Conn \ met : child[c] \in {"switch", "bound"} => consumer = None

(* A child that follows a contact, whoever it overlaps with, has the only  *)
(* subscription, unless its own call failed or another goroutine or the    *)
(* broker took it away; and if its connection met no other the queue is    *)
(* bound to this contact, and beside him only to those whom a failed       *)
(* Consume left bound.                                                     *)
SubscriptionLives ==
  \A c \in Conn \ hit :
    child[c] \in {"loop", "sending"} /\ contact[c] # None =>
      /\ chan[c] /\ consumer = c
      /\ c \notin met => contact[c] \in bindings /\ bindings \subseteq {contact[c]} \union failed

(* Once the child has changed to a contact nothing about an earlier one    *)
(* can be read from its channel, updates in flight at the change included  *)
(* (the resubscription before the next select, ws/websocket.go:215), but   *)
(* what the exceptions above let into it.                                  *)
FeedMatches ==
  \A c \in Conn \ met :
    /\ child[c] \in {"loop", "sending"} =>
         \A i \in DOMAIN feed[c] : feed[c][i].about \in {contact[c]} \union failed
    /\ child[c] = "sending" => update[c].about \in {contact[c]} \union failed

(* A child never ends by itself, and so parent and child never wait for    *)
(* each other, unless its subscription was taken away or its connection    *)
(* overlapped with another, which deletes its entry.                       *)
ChildEndsOnlyIfHit ==
  \A c \in Conn :
    child[c] \in {"ending", "waiting"} /\ parent[c] \notin {"leaving", "closed"} => c \in hit \union met

(* A connection whose socket broke is cleaned up, also when its parent is  *)
(* waiting to hand over a contact, unless its child ended before.          *)
SessionEnds ==
  \A c \in Conn :
    (c \in Connected /\ c \notin open) ~> (parent[c] = "closed" \/ child[c] = "waiting")

(* A contact the user asked about becomes the one his child follows, if    *)
(* the connection lasts and the child does not end.                        *)
AskFollowed ==
  \A c \in Conn, x \in Contact :
    (parent[c] = "handing" /\ to[c] = x) ~>
      (contact[c] = x \/ parent[c] \in {"signal", "leaving", "closed"} \/ child[c] = "waiting")

(* An update that reached the child's channel reaches the user, unless he  *)
(* turns to another contact, the socket breaks or the child ends.          *)
UpdateShown ==
  \A c \in Conn, m \in Update :
    (child[c] = "loop" /\ \E i \in DOMAIN feed[c] : feed[c][i] = m) ~>
      (\/ screen[c] = m
       \/ contact[c] # m.about \/ c \notin open \/ child[c] \in {"ending", "waiting"})

(* What Presence takes the two goroutines of a connection to be: over is a *)
(* connection whose child has taken the close signal.                      *)
Signalled(c) == parent[c] \in {"leaving", "closed"}

Phase == [c \in Conn |-> CASE parent[c] \in {"idle", "checked"} -> "none"
                          [] parent[c] = "signal" -> "leaving"
                          [] Signalled(c) -> "over"
                          [] OTHER -> "serving"]
Aide  == [c \in Conn |-> IF child[c] = "none" THEN "none"
                         ELSE IF Signalled(c) THEN "done"
                         ELSE IF child[c] \in {"ending", "waiting"} THEN "waiting" ELSE "up"]

Pair == INSTANCE Handler WITH phase <- Phase, aide <- Aide

(* Every step of parent, child and broker is a step of the pair or none.   *)
ImplementsHandler == Pair!Spec

(* A parent that hands over its close signal and a child that ended by     *)
(* itself wait for each other (ws/websocket.go:171 and 251).               *)
Deadlocked(c) == parent[c] = "signal" /\ child[c] = "waiting"

(* If it is listed and nobody is left who would delete the entry... *)
Refused(c) ==
  Deadlocked(c) /\ listed = c /\ \A d \in Conn : parent[d] \in {"idle", "closed"} \/ Deadlocked(d)

(* They wait for good, and then the user stays listed: whatever he, his    *)
(* contacts and the broker do, he is told that he is already connected.    *)
RefusedForGood ==
  [][\A c \in Conn : (Deadlocked(c) => Deadlocked(c)') /\ (Refused(c) => Refused(c)')]_vars

(* "User already connected" (ws/websocket.go:32): nobody is refused for    *)
(* good because of a connection whose socket is broken.                    *)
RefusalEnds ==
  \A c \in Conn : (listed = c /\ c \notin open) ~> (listed # c)
=============================================================================
