---------------------------- MODULE RelayProofs -----------------------------
(* Proofs about module Relay. *)
EXTENDS Relay, TLAPS

-----------------------------------------------------------------------------
(* The inductive invariant: a child between select and select belongs to a *)
(* parent that runs; a connection that met no other is the listed one and  *)
(* the only one; and what the queue is bound to for a living child is his  *)
(* contact, a child's that is about to consume, or left by a failure.      *)

Alive == {"loop", "switch", "bound", "sending"}

Lives ==
  \A c \in Conn :
    /\ child[c] \in Alive => parent[c] \in Running
    /\ parent[c] \in {"idle", "checked"} => child[c] = "none"
    /\ parent[c] \in Running \union {"leaving"} => child[c] # "none"

Apart ==
  \A c \in Conn \ met :
    parent[c] \in Running \union {"leaving"} =>
      /\ listed = c
      /\ \A d \in Conn : parent[d] \in Running \union {"leaving"} => d = c

NoChannel ==
  \A c \in Conn :
    /\ child[c] \in {"none", "waiting"} \/ contact[c] = None => ~chan[c]
    /\ ~chan[c] => feed[c] = <<>>
    /\ child[c] = "none" => contact[c] = None
    /\ child[c] \in {"switch", "bound"} => contact[c] # None

Leftover ==
  \A x \in bindings :
    consumer # None \/ x \in failed \/ \E d \in Conn : child[d] = "bound" /\ contact[d] = x

ConsumerBound ==
  \A c \in Conn \ met :
    consumer = c /\ chan[c] /\ child[c] \in {"loop", "sending"} =>
      bindings \subseteq {contact[c]} \union failed

Joined ==
  \A c \in Conn \ met : child[c] = "bound" => contact[c] \in bindings \/ bindings = {}

IInv ==
  /\ TypeOK
  /\ Lives
  /\ Apart
  /\ NoChannel
  /\ Leftover
  /\ ConsumerBound
  /\ Joined
  /\ QueueFree
  /\ SubscriptionLives
  /\ FeedMatches
  /\ ChildEndsOnlyIfHit

(* The child of a connection that met no other is the only living one. *)
LEMMA OneChild ==
  ASSUME Lives, Apart, NEW c \in Conn \ met, NEW d \in Conn, child[c] \in Alive, child[d] \in Alive
  PROVE  c = d
  BY DEF Lives, Apart

LEMMA UpdatesInOrder ==
  ASSUME NEW s \in Seq(Update)
  PROVE  /\ <<>> \in Seq(Update)
         /\ \A m \in Update : Append(s, m) \in Seq(Update)
         /\ \A m \in Update : \A i \in DOMAIN Append(s, m) :
              (i \in DOMAIN s /\ Append(s, m)[i] = s[i]) \/ Append(s, m)[i] = m
         /\ s # <<>> => /\ Head(s) \in Update /\ Tail(s) \in Seq(Update)
                        /\ 1 \in DOMAIN s /\ Head(s) = s[1]
                        /\ \A i \in DOMAIN Tail(s) : i + 1 \in DOMAIN s /\ Tail(s)[i] = s[i + 1]
  OBVIOUS

LEMMA FeedCleared ==
  ASSUME feed \in [Conn -> Seq(Update)], NEW c \in Conn,
         feed' = feed \/ feed' = [feed EXCEPT ![c] = <<>>]
  PROVE  feed' \in [Conn -> Seq(Update)]
<1>1. <<>> \in Seq(Update)
  OBVIOUS
<1> QED
  BY <1>1

(* A parent that goes from one place of its loop to another, and touches   *)
(* neither child nor broker, leaves the rest of the invariant alone.       *)
LEMMA ParentMoves ==
  ASSUME IInv, TypeOK', NEW c \in Conn, NEW p \in Running,
         parent[c] \in Running, parent' = [parent EXCEPT ![c] = p],
         UNCHANGED <<childVars, brokerVars, listed, hit, failed, met>>
  PROVE  IInv'
<1>. USE DEF childVars, brokerVars
<1>1. parent \in [Conn -> Running \union {"idle", "checked", "leaving", "closed"}]
  BY DEF IInv, TypeOK
<1>2. \A d \in Conn : parent'[d] = parent[d] \/ (parent'[d] \in Running /\ parent[d] \in Running)
  BY <1>1
<1>3. Lives' /\ Apart'
  BY <1>2 DEF IInv, Lives, Apart, Running, Alive
<1>4. ChildEndsOnlyIfHit'
  BY <1>2 DEF IInv, ChildEndsOnlyIfHit, Running
<1>. QED
  BY <1>3, <1>4 DEF IInv, NoChannel, Leftover, ConsumerBound, Joined, QueueFree, SubscriptionLives, FeedMatches

(* Each action keeps the inductive invariant. *)
LEMMA ExistsStep ==
  ASSUME IInv, NEW c \in Conn, Exists(c)
  PROVE  IInv'
<1>. USE RelayAssumption DEF IInv, TypeOK, Exists, parentVars, childVars, brokerVars, statusVars, Running, Alive, Update
<1>1. TypeOK'
  OBVIOUS
<1>2. Lives'
  BY DEF Lives
<1>3. Apart'
  BY DEF Apart
<1>4. NoChannel'
  BY DEF NoChannel, Lives
<1>5. Leftover'
  BY DEF Leftover, NoChannel
<1>6. ConsumerBound'
  BY DEF ConsumerBound, NoChannel, Lives, Apart, QueueFree, Leftover
<1>7. Joined'
  BY DEF Joined, Lives, Apart, QueueFree, NoChannel
<1>8. QueueFree'
  BY DEF QueueFree, Lives, Apart
<1>9. SubscriptionLives'
  BY DEF SubscriptionLives, Lives, Apart, NoChannel, QueueFree
<1>10. FeedMatches'
  BY DEF FeedMatches, Lives, Apart, NoChannel, ConsumerBound, QueueFree
<1>11. ChildEndsOnlyIfHit'
  BY DEF ChildEndsOnlyIfHit, Lives, Apart, NoChannel, SubscriptionLives
<1>. QED
  BY <1>1, <1>2, <1>3, <1>4, <1>5, <1>6, <1>7, <1>8, <1>9, <1>10, <1>11

LEMMA AddConnStep ==
  ASSUME IInv, NEW c \in Conn, AddConn(c)
  PROVE  IInv'
<1>. USE RelayAssumption DEF IInv, TypeOK, AddConn, Connected, parentVars, childVars, brokerVars, statusVars, Running, Alive, Update
<1>1. TypeOK'
  OBVIOUS
<1>2. Lives'
  BY DEF Lives
<1>3. Apart'
  BY DEF Apart
<1>4. NoChannel'
  BY DEF NoChannel, Lives
<1>5. Leftover'
  <2>1. \A d \in Conn : child[d] = "bound" => child'[d] = "bound" /\ contact'[d] = contact[d]
    BY DEF Lives
  <2>2. \A x \in bindings' : x \in bindings /\ (consumer # None => consumer' # None \/ bindings' = {})
    OBVIOUS
  <2> QED
    BY <2>1, <2>2 DEF Leftover
<1>6. ConsumerBound'
  BY DEF ConsumerBound, NoChannel, Lives, Apart, QueueFree, Leftover
<1>7. Joined'
  BY DEF Joined, Lives, Apart, QueueFree, NoChannel
<1>8. QueueFree'
  BY DEF QueueFree, Lives, Apart
<1>9. SubscriptionLives'
  BY DEF SubscriptionLives, Lives, Apart, NoChannel, QueueFree
<1>10. FeedMatches'
  BY DEF FeedMatches, Lives, Apart, NoChannel, ConsumerBound, QueueFree
<1>11. ChildEndsOnlyIfHit'
  BY DEF ChildEndsOnlyIfHit, Lives, Apart, NoChannel, SubscriptionLives
<1>. QED
  BY <1>1, <1>2, <1>3, <1>4, <1>5, <1>6, <1>7, <1>8, <1>9, <1>10, <1>11

LEMMA RespawnStep ==
  ASSUME IInv, NEW c \in Conn, Respawn(c)
  PROVE  IInv'
<1>. USE RelayAssumption DEF IInv, TypeOK, Respawn, parentVars, childVars, brokerVars, statusVars, Running, Alive, Update
<1>1. TypeOK'
  OBVIOUS
<1>2. Lives'
  BY DEF Lives
<1>3. Apart'
  BY DEF Apart
<1>4. NoChannel'
  BY DEF NoChannel, Lives
<1>5. Leftover'
  BY DEF Leftover, NoChannel
<1>6. ConsumerBound'
  BY DEF ConsumerBound, NoChannel, Lives, Apart, QueueFree, Leftover
<1>7. Joined'
  BY DEF Joined, Lives, Apart, QueueFree, NoChannel
<1>8. QueueFree'
  BY DEF QueueFree, Lives, Apart
<1>9. SubscriptionLives'
  BY DEF SubscriptionLives, Lives, Apart, NoChannel, QueueFree
<1>10. FeedMatches'
  BY DEF FeedMatches, Lives, Apart, NoChannel, ConsumerBound, QueueFree
<1>11. ChildEndsOnlyIfHit'
  BY DEF ChildEndsOnlyIfHit, Lives, Apart, NoChannel, SubscriptionLives
<1>. QED
  BY <1>1, <1>2, <1>3, <1>4, <1>5, <1>6, <1>7, <1>8, <1>9, <1>10, <1>11

LEMMA GetLastSeenStep ==
  ASSUME IInv, NEW c \in Conn, NEW x \in Contact, GetLastSeen(c, x)
  PROVE  IInv'
<1>1. PICK p \in {"replying", "handing"} : parent' = [parent EXCEPT ![c] = p]
  BY DEF GetLastSeen
<1>2. /\ parent[c] = "reading"
      /\ to' = [to EXCEPT ![c] = x] /\ asks' = asks + 1
      /\ reply' \in {reply, [reply EXCEPT ![c] = [about |-> x, ver |-> status[x]]]}
      /\ faults' \in {faults, faults + 1}
  BY DEF GetLastSeen, Fault
<1>3. /\ UNCHANGED <<childVars, brokerVars, listed, hit, failed, met>>
      /\ UNCHANGED <<buffer, cancels, open, screen, statusVars>>
  BY DEF GetLastSeen
<1>4. TypeOK
  BY DEF IInv
<1>5. TypeOK'
  <2>1. [about |-> x, ver |-> status[x]] \in Update
    BY <1>4 DEF TypeOK, Update
  <2>2. /\ parent' \in [Conn -> Running \union {"idle", "checked", "leaving", "closed"}]
        /\ to' \in [Conn -> Contact \union {None}]
        /\ asks' \in Nat /\ faults' \in Nat
    BY <1>1, <1>2, <1>4 DEF TypeOK, Running
  <2>3. reply' \in [Conn -> Update \union {None}]
    BY <1>2, <1>4, <2>1 DEF TypeOK
  <2>. QED
    BY <1>3, <1>4, <2>2, <2>3 DEF TypeOK, childVars, brokerVars, statusVars
<1>. QED
  BY <1>1, <1>2, <1>3, <1>5, ParentMoves DEF Running

LEMMA SignalCloseStep ==
  ASSUME IInv, NEW c \in Conn, SignalClose(c)
  PROVE  IInv'
<1>. USE RelayAssumption DEF IInv, TypeOK, SignalClose, parentVars, childVars, brokerVars, statusVars, Running, Alive, Update
<1>1. TypeOK'
  OBVIOUS
<1>2. Lives'
  BY DEF Lives
<1>3. Apart'
  BY DEF Apart
<1>4. NoChannel'
  BY DEF NoChannel, Lives
<1>5. Leftover'
  BY DEF Leftover, NoChannel
<1>6. ConsumerBound'
  BY DEF ConsumerBound, NoChannel, Lives, Apart, QueueFree, Leftover
<1>7. Joined'
  BY DEF Joined, Lives, Apart, QueueFree, NoChannel
<1>8. QueueFree'
  BY DEF QueueFree, Lives, Apart
<1>9. SubscriptionLives'
  BY DEF SubscriptionLives, Lives, Apart, NoChannel, QueueFree
<1>10. FeedMatches'
  BY DEF FeedMatches, Lives, Apart, NoChannel, ConsumerBound, QueueFree
<1>11. ChildEndsOnlyIfHit'
  BY DEF ChildEndsOnlyIfHit, Lives, Apart, NoChannel, SubscriptionLives
<1>. QED
  BY <1>1, <1>2, <1>3, <1>4, <1>5, <1>6, <1>7, <1>8, <1>9, <1>10, <1>11

LEMMA DelConnStep ==
  ASSUME IInv, NEW c \in Conn, DelConn(c)
  PROVE  IInv'
<1>. USE RelayAssumption DEF IInv, TypeOK, DelConn, parentVars, childVars, brokerVars, statusVars, Running, Alive, Update
<1>1. TypeOK'
  OBVIOUS
<1>2. Lives'
  BY DEF Lives
<1>3. Apart'
  BY DEF Apart
<1>4. NoChannel'
  BY DEF NoChannel, Lives
<1>5. Leftover'
  BY DEF Leftover, NoChannel
<1>6. ConsumerBound'
  BY DEF ConsumerBound, NoChannel, Lives, Apart, QueueFree, Leftover
<1>7. Joined'
  BY DEF Joined, Lives, Apart, QueueFree, NoChannel
<1>8. QueueFree'
  BY DEF QueueFree, Lives, Apart
<1>9. SubscriptionLives'
  BY DEF SubscriptionLives, Lives, Apart, NoChannel, QueueFree
<1>10. FeedMatches'
  BY DEF FeedMatches, Lives, Apart, NoChannel, ConsumerBound, QueueFree
<1>11. ChildEndsOnlyIfHit'
  BY DEF ChildEndsOnlyIfHit, Lives, Apart, NoChannel, SubscriptionLives
<1>. QED
  BY <1>1, <1>2, <1>3, <1>4, <1>5, <1>6, <1>7, <1>8, <1>9, <1>10, <1>11

LEMMA TakeContactStep ==
  ASSUME IInv, NEW c \in Conn, TakeContact(c)
  PROVE  IInv'
<1>. USE RelayAssumption DEF IInv, TypeOK, TakeContact, Cancelled, Robbed, parentVars, childVars, brokerVars, statusVars, Running, Alive, Update
<1>1. TypeOK'
  <2>1. child' \in [Conn -> {"none", "loop", "switch", "bound", "sending", "ending", "waiting"}] /\ contact' \in [Conn -> Contact \union {None}]
    OBVIOUS
  <2>2. bindings' \subseteq Contact /\ consumer' \in Conn \union {None} /\ hit' \subseteq Conn
    OBVIOUS
  <2>3. buffer' \in [Conn -> Contact \union {None}]
    OBVIOUS
  <2> QED
    BY <2>1, <2>2, <2>3
<1>2. Lives'
  BY DEF Lives
<1>3. Apart'
  BY DEF Apart
<1>4. NoChannel'
  BY DEF NoChannel, Lives
<1>5. Leftover'
  <2>1. \A d \in Conn : child[d] = "bound" => child'[d] = "bound" /\ contact'[d] = contact[d]
    BY DEF Lives
  <2>2. \A x \in bindings' : x \in bindings /\ (consumer # None => consumer' # None \/ bindings' = {})
    OBVIOUS
  <2> QED
    BY <2>1, <2>2 DEF Leftover
<1>6. ConsumerBound'
  BY DEF ConsumerBound, NoChannel, Lives, Apart, QueueFree, Leftover
<1>7. Joined'
  BY DEF Joined, Lives, Apart, QueueFree, NoChannel
<1>8. QueueFree'
  BY DEF QueueFree, Lives, Apart
<1>9. SubscriptionLives'
  BY DEF SubscriptionLives, Lives, Apart, NoChannel, QueueFree
<1>10. FeedMatches'
  <2>1. \A d \in Conn : child'[d] \in {"loop", "sending"} => child'[d] = child[d] /\ contact'[d] = contact[d]
    OBVIOUS
  <2>2. UNCHANGED <<feed, update, failed, met>>
    OBVIOUS
  <2> QED
    BY <2>1, <2>2 DEF FeedMatches
<1>11. ChildEndsOnlyIfHit'
  BY DEF ChildEndsOnlyIfHit, Lives, Apart, NoChannel, SubscriptionLives
<1>. QED
  BY <1>1, <1>2, <1>3, <1>4, <1>5, <1>6, <1>7, <1>8, <1>9, <1>10, <1>11

LEMMA BindStep ==
  ASSUME IInv, NEW c \in Conn, Bind(c)
  PROVE  IInv'
<1>. USE RelayAssumption DEF IInv, TypeOK, Bind, Unsubscribed, Fault, parentVars, childVars, brokerVars, statusVars, Running, Alive, Update
<1>1. TypeOK'
  <2>1. child' \in [Conn -> {"none", "loop", "switch", "bound", "sending", "ending", "waiting"}] /\ chan' \in [Conn -> BOOLEAN]
    OBVIOUS
  <2>2. feed' \in [Conn -> Seq(Update)]
    <3>1. feed' = feed \/ feed' = [feed EXCEPT ![c] = <<>>]
      OBVIOUS
    <3> QED
      BY <3>1, FeedCleared
  <2>3. bindings' \subseteq Contact
    BY DEF NoChannel
  <2>4. faults' \in Nat /\ hit' \subseteq Conn
    OBVIOUS
  <2> QED
    BY <2>1, <2>2, <2>3, <2>4
<1>2. Lives'
  BY DEF Lives
<1>3. Apart'
  BY DEF Apart
<1>4. NoChannel'
  <2>1. \/ child'[c] = "bound" /\ UNCHANGED <<chan, feed>>
        \/ child'[c] = "loop" /\ ~chan'[c] /\ feed'[c] = <<>>
    OBVIOUS
  <2>2. \A d \in Conn \ {c} : child'[d] = child[d] /\ chan'[d] = chan[d] /\ feed'[d] = feed[d]
    OBVIOUS
  <2>3. child[c] = "switch" /\ contact' = contact
    OBVIOUS
  <2>4. contact[c] # None /\ (~chan[c] => feed[c] = <<>>)
    BY <2>3 DEF NoChannel
  <2>5. NoChannel
    OBVIOUS
  <2> HIDE DEF IInv, TypeOK, Bind
  <2> QED
    BY <2>1, <2>2, <2>3, <2>4, <2>5 DEF NoChannel
<1>5. Leftover'
  BY DEF Leftover, NoChannel
<1>6. ConsumerBound'
  <2>1. ASSUME NEW d \in Conn \ met, child[d] \in Alive
        PROVE  d = c
    BY <2>1, OneChild
  <2> QED
    BY <2>1 DEF ConsumerBound
<1>7. Joined'
  <2>1. ASSUME NEW d \in Conn \ met, child[d] \in Alive
        PROVE  d = c
    BY <2>1, OneChild
  <2> QED
    BY <2>1 DEF Joined
<1>8. QueueFree'
  BY DEF QueueFree, Lives, Apart
<1>9. SubscriptionLives'
  <2>1. ASSUME NEW d \in Conn \ met, child[d] \in Alive
        PROVE  d = c
    BY <2>1, OneChild
  <2>2. ASSUME NEW d \in Conn, d # c
        PROVE  child'[d] = child[d] /\ contact'[d] = contact[d] /\ chan'[d] = chan[d]
    BY <2>2
  <2>3. child'[c] = "bound" \/ c \in hit'
    OBVIOUS
  <2>4. hit \subseteq hit' /\ UNCHANGED <<consumer, failed, met>>
    OBVIOUS
  <2> QED
    BY <2>1, <2>2, <2>3, <2>4 DEF SubscriptionLives
<1>10. FeedMatches'
  <2>1. ASSUME NEW d \in Conn \ met, child[d] \in Alive
        PROVE  d = c
    BY <2>1, OneChild
  <2>2. child'[c] = "bound" \/ (child'[c] = "loop" /\ feed'[c] = <<>>)
    OBVIOUS
  <2> QED
    BY <2>1, <2>2 DEF FeedMatches
<1>11. ChildEndsOnlyIfHit'
  BY DEF ChildEndsOnlyIfHit, Lives, Apart, NoChannel, SubscriptionLives
<1>. QED
  BY <1>1, <1>2, <1>3, <1>4, <1>5, <1>6, <1>7, <1>8, <1>9, <1>10, <1>11

LEMMA ConsumeStep ==
  ASSUME IInv, NEW c \in Conn, Consume(c)
  PROVE  IInv'
<1>. USE RelayAssumption DEF IInv, TypeOK, Consume, Subscribed, Unsubscribed, Robbed, Fault, parentVars, childVars, brokerVars, statusVars, Running, Alive, Update
<1>1. TypeOK'
  <2>1. child' = [child EXCEPT ![c] = "loop"] /\ \E b \in BOOLEAN : chan' = [chan EXCEPT ![c] = b]
    OBVIOUS
  <2>2. feed' \in [Conn -> Seq(Update)]
    <3>1. feed' = [feed EXCEPT ![c] = <<>>]
      OBVIOUS
    <3> QED
      BY <3>1, FeedCleared
  <2>3. bindings' \subseteq Contact /\ failed' \subseteq Contact /\ consumer' \in Conn \union {None}
    BY DEF NoChannel
  <2>4. faults' \in {faults, faults + 1} /\ hit' \subseteq hit \union {c} \union Robbed
    OBVIOUS
  <2>5. faults' \in Nat /\ hit' \subseteq Conn
    <3>1. Robbed \subseteq Conn /\ hit \subseteq Conn /\ faults \in Nat
      OBVIOUS
    <3> HIDE DEF Robbed, IInv, TypeOK, Consume
    <3> QED
      BY <2>4, <3>1
  <2>6. child' \in [Conn -> {"none", "loop", "switch", "bound", "sending", "ending", "waiting"}] /\ chan' \in [Conn -> BOOLEAN]
    BY <2>1
  <2> QED
    BY <2>2, <2>3, <2>5, <2>6
<1>2. Lives'
  BY DEF Lives
<1>3. Apart'
  BY DEF Apart
<1>4. NoChannel'
  BY DEF NoChannel, Lives
<1>5. Leftover'
  <2>1. CASE consumer' # None \/ bindings' = {}
    BY <2>1 DEF Leftover
  <2>2. CASE consumer = None /\ bindings' = bindings /\ failed' = failed \union {contact[c]}
    <3>1. \A d \in Conn : child[d] = "bound" /\ d # c => child'[d] = "bound" /\ contact'[d] = contact[d]
      OBVIOUS
    <3> QED
      BY <2>2, <3>1 DEF Leftover
  <2> QED
    BY <2>1, <2>2
<1>6. ConsumerBound'
  <2>1. ASSUME NEW d \in Conn \ met, child[d] \in Alive
        PROVE  d = c
    BY <2>1, OneChild
  <2>2. ASSUME c \notin met, consumer = None, NEW x \in bindings
        PROVE  x \in {contact[c]} \union failed
    BY <2>2, OneChild DEF Leftover
  <2>3. ASSUME consumer' = c, c \notin met
        PROVE  bindings' \subseteq {contact'[c]} \union failed'
    BY <2>2, <2>3
  <2>4. consumer' \in {c, None}
    OBVIOUS
  <2> QED
    BY <2>3, <2>4 DEF ConsumerBound
<1>7. Joined'
  <2>1. ASSUME NEW d \in Conn \ met, child[d] \in Alive
        PROVE  d = c
    BY <2>1, OneChild
  <2> QED
    BY <2>1 DEF Joined
<1>8. QueueFree'
  <2>1. ASSUME NEW d \in Conn \ met, child[d] \in Alive
        PROVE  d = c
    BY <2>1, OneChild
  <2> QED
    BY <2>1 DEF QueueFree
<1>9. SubscriptionLives'
  <2>1. ASSUME NEW d \in Conn \ met, child[d] \in Alive
        PROVE  d = c
    BY <2>1, OneChild
  <2>2. CASE Subscribed(c)
    <3>1. \A d \in Conn \ {c} : d \notin hit /\ child[d] \in {"loop", "sending"} => contact[d] = None
      BY <2>2 DEF SubscriptionLives
    <3>2. c \notin met => contact[c] \in bindings /\ bindings \subseteq {contact[c]} \union failed
      BY <2>2, OneChild DEF Joined, Leftover
    <3> QED
      BY <2>2, <3>1, <3>2 DEF SubscriptionLives
  <2>3. CASE Unsubscribed(c) /\ hit' = hit \union {c} \union Robbed /\ consumer' = None
    <3>1. \A d \in Conn \ {c} : d \notin hit' /\ child'[d] \in {"loop", "sending"} => contact'[d] = None
      BY <2>3 DEF SubscriptionLives
    <3> QED
      BY <2>3, <3>1 DEF SubscriptionLives
  <2> QED
    BY <2>2, <2>3
<1>10. FeedMatches'
  <2>1. ASSUME NEW d \in Conn \ met, child[d] \in Alive
        PROVE  d = c
    BY <2>1, OneChild
  <2>2. child'[c] = "loop" /\ feed'[c] = <<>>
    OBVIOUS
  <2> QED
    BY <2>1, <2>2 DEF FeedMatches
<1>11. ChildEndsOnlyIfHit'
  BY DEF ChildEndsOnlyIfHit, Lives, Apart, NoChannel, SubscriptionLives
<1>. QED
  BY <1>1, <1>2, <1>3, <1>4, <1>5, <1>6, <1>7, <1>8, <1>9, <1>10, <1>11

LEMMA TakeUpdateStep ==
  ASSUME IInv, NEW c \in Conn, TakeUpdate(c)
  PROVE  IInv'
<1>. USE RelayAssumption DEF IInv, TypeOK, TakeUpdate, parentVars, childVars, brokerVars, statusVars, Running, Alive, Update
<1>1. TypeOK'
  <2>1. feed' \in [Conn -> Seq(Update)] /\ update' \in [Conn -> Update \union {None}]
    BY UpdatesInOrder
  <2> QED
    BY <2>1
<1>2. Lives'
  BY DEF Lives
<1>3. Apart'
  BY DEF Apart
<1>4. NoChannel'
  BY DEF NoChannel, Lives
<1>5. Leftover'
  BY DEF Leftover, NoChannel
<1>6. ConsumerBound'
  BY DEF ConsumerBound, NoChannel, Lives, Apart, QueueFree, Leftover
<1>7. Joined'
  BY DEF Joined, Lives, Apart, QueueFree, NoChannel
<1>8. QueueFree'
  BY DEF QueueFree, Lives, Apart
<1>9. SubscriptionLives'
  BY DEF SubscriptionLives, Lives, Apart, NoChannel, QueueFree
<1>10. FeedMatches'
  <2>1. ASSUME NEW d \in Conn \ met, child[d] \in Alive
        PROVE  d = c
    BY <2>1, OneChild
  <2>2. ASSUME c \notin met
        PROVE  /\ update'[c].about \in {contact[c]} \union failed
               /\ \A i \in DOMAIN feed'[c] : feed'[c][i].about \in {contact[c]} \union failed
    <3>1. feed[c] \in Seq(Update) /\ feed[c] # <<>>
      OBVIOUS
    <3>2. \A i \in DOMAIN feed[c] : feed[c][i].about \in {contact[c]} \union failed
      BY <2>2 DEF FeedMatches
    <3>3. update'[c] = feed[c][1] /\ 1 \in DOMAIN feed[c]
      BY <3>1, UpdatesInOrder
    <3>4. feed'[c] = Tail(feed[c])
      OBVIOUS
    <3>5. \A i \in DOMAIN feed'[c] : i + 1 \in DOMAIN feed[c] /\ feed'[c][i] = feed[c][i + 1]
      BY <3>1, <3>4, UpdatesInOrder
    <3> QED
      BY <3>2, <3>3, <3>5
  <2>3. \A d \in Conn \ met : child'[d] \in {"loop", "sending"} => d = c
    BY <2>1
  <2>4. UNCHANGED <<contact, failed, met>> /\ c \in Conn
    OBVIOUS
  <2> HIDE DEF IInv, TypeOK, TakeUpdate
  <2> QED
    BY <2>2, <2>3, <2>4 DEF FeedMatches
<1>11. ChildEndsOnlyIfHit'
  BY DEF ChildEndsOnlyIfHit, Lives, Apart, NoChannel, SubscriptionLives
<1>. QED
  BY <1>1, <1>2, <1>3, <1>4, <1>5, <1>6, <1>7, <1>8, <1>9, <1>10, <1>11

LEMMA ChanClosedStep ==
  ASSUME IInv, NEW c \in Conn, ChanClosed(c)
  PROVE  IInv'
<1>. USE RelayAssumption DEF IInv, TypeOK, ChanClosed, parentVars, childVars, brokerVars, statusVars, Running, Alive, Update
<1>1. TypeOK'
  OBVIOUS
<1>2. Lives'
  BY DEF Lives
<1>3. Apart'
  BY DEF Apart
<1>4. NoChannel'
  BY DEF NoChannel, Lives
<1>5. Leftover'
  BY DEF Leftover, NoChannel
<1>6. ConsumerBound'
  BY DEF ConsumerBound, NoChannel, Lives, Apart, QueueFree, Leftover
<1>7. Joined'
  BY DEF Joined, Lives, Apart, QueueFree, NoChannel
<1>8. QueueFree'
  BY DEF QueueFree, Lives, Apart
<1>9. SubscriptionLives'
  BY DEF SubscriptionLives, Lives, Apart, NoChannel, QueueFree
<1>10. FeedMatches'
  BY DEF FeedMatches, Lives, Apart, NoChannel, ConsumerBound, QueueFree
<1>11. ChildEndsOnlyIfHit'
  BY DEF ChildEndsOnlyIfHit, Lives, Apart, NoChannel, SubscriptionLives
<1>. QED
  BY <1>1, <1>2, <1>3, <1>4, <1>5, <1>6, <1>7, <1>8, <1>9, <1>10, <1>11

LEMMA SendLastSeenStep ==
  ASSUME IInv, NEW c \in Conn, SendLastSeen(c)
  PROVE  IInv'
<1>. USE RelayAssumption DEF IInv, TypeOK, SendLastSeen, parentVars, childVars, brokerVars, statusVars, Running, Alive, Update
<1>1. TypeOK'
  OBVIOUS
<1>2. Lives'
  BY DEF Lives
<1>3. Apart'
  BY DEF Apart
<1>4. NoChannel'
  BY DEF NoChannel, Lives
<1>5. Leftover'
  BY DEF Leftover, NoChannel
<1>6. ConsumerBound'
  BY DEF ConsumerBound, NoChannel, Lives, Apart, QueueFree, Leftover
<1>7. Joined'
  <2>1. \A d \in Conn : child'[d] = "bound" => child[d] = "bound"
    OBVIOUS
  <2> QED
    BY <2>1 DEF Joined
<1>8. QueueFree'
  BY DEF QueueFree, Lives, Apart
<1>9. SubscriptionLives'
  BY DEF SubscriptionLives, Lives, Apart, NoChannel, QueueFree
<1>10. FeedMatches'
  BY DEF FeedMatches, Lives, Apart, NoChannel, ConsumerBound, QueueFree
<1>11. ChildEndsOnlyIfHit'
  <2>1. c \in met \/ listed = c
    BY DEF Lives, Apart
  <2> QED
    BY <2>1 DEF ChildEndsOnlyIfHit
<1>. QED
  BY <1>1, <1>2, <1>3, <1>4, <1>5, <1>6, <1>7, <1>8, <1>9, <1>10, <1>11

LEMMA EndChildStep ==
  ASSUME IInv, NEW c \in Conn, EndChild(c)
  PROVE  IInv'
<1>. USE RelayAssumption DEF IInv, TypeOK, EndChild, parentVars, childVars, brokerVars, statusVars, Running, Alive, Update
<1>1. TypeOK'
  <2>1. feed' \in [Conn -> Seq(Update)]
    BY UpdatesInOrder
  <2>2. child' \in [Conn -> {"none", "loop", "switch", "bound", "sending", "ending", "waiting"}] /\ chan' \in [Conn -> BOOLEAN]
    OBVIOUS
  <2>3. cancels' \in Nat
    OBVIOUS
  <2> QED
    BY <2>1, <2>2, <2>3
<1>2. Lives'
  BY DEF Lives
<1>3. Apart'
  BY DEF Apart
<1>4. NoChannel'
  BY DEF NoChannel, Lives
<1>5. Leftover'
  BY DEF Leftover, NoChannel
<1>6. ConsumerBound'
  BY DEF ConsumerBound, NoChannel, Lives, Apart, QueueFree, Leftover
<1>7. Joined'
  BY DEF Joined, Lives, Apart, QueueFree, NoChannel
<1>8. QueueFree'
  BY DEF QueueFree, Lives, Apart
<1>9. SubscriptionLives'
  BY DEF SubscriptionLives, Lives, Apart, NoChannel, QueueFree
<1>10. FeedMatches'
  BY DEF FeedMatches, Lives, Apart, NoChannel, ConsumerBound, QueueFree
<1>11. ChildEndsOnlyIfHit'
  BY DEF ChildEndsOnlyIfHit, Lives, Apart, NoChannel, SubscriptionLives
<1>. QED
  BY <1>1, <1>2, <1>3, <1>4, <1>5, <1>6, <1>7, <1>8, <1>9, <1>10, <1>11

LEMMA CancelLaterStep ==
  ASSUME IInv, CancelLater
  PROVE  IInv'
<1>. USE RelayAssumption DEF IInv, TypeOK, CancelLater, Cancelled, Robbed, parentVars, childVars, brokerVars, statusVars, Running, Alive, Update
<1>1. TypeOK'
  <2>1. hit' \subseteq Conn /\ consumer' \in Conn \union {None} /\ bindings' \subseteq Contact
    OBVIOUS
  <2>2. cancels' \in Nat
    OBVIOUS
  <2> QED
    BY <2>1, <2>2
<1>2. Lives'
  BY DEF Lives
<1>3. Apart'
  BY DEF Apart
<1>4. NoChannel'
  BY DEF NoChannel, Lives
<1>5. Leftover'
  BY DEF Leftover, NoChannel
<1>6. ConsumerBound'
  BY DEF ConsumerBound, NoChannel, Lives, Apart, QueueFree, Leftover
<1>7. Joined'
  BY DEF Joined, Lives, Apart, QueueFree, NoChannel
<1>8. QueueFree'
  BY DEF QueueFree, Lives, Apart
<1>9. SubscriptionLives'
  BY DEF SubscriptionLives, Lives, Apart, NoChannel, QueueFree
<1>10. FeedMatches'
  <2>1. UNCHANGED <<feed, update, child, contact, failed, met>>
    OBVIOUS
  <2> QED
    BY <2>1 DEF FeedMatches
<1>11. ChildEndsOnlyIfHit'
  BY DEF ChildEndsOnlyIfHit, Lives, Apart, NoChannel, SubscriptionLives
<1>. QED
  BY <1>1, <1>2, <1>3, <1>4, <1>5, <1>6, <1>7, <1>8, <1>9, <1>10, <1>11

LEMMA ChannelDiesStep ==
  ASSUME IInv, ChannelDies
  PROVE  IInv'
<1>. USE RelayAssumption DEF IInv, TypeOK, ChannelDies, Robbed, Fault, parentVars, childVars, brokerVars, statusVars, Running, Alive, Update
<1>1. TypeOK'
  <2>1. hit' \subseteq Conn /\ consumer' \in Conn \union {None} /\ bindings' \subseteq Contact
    OBVIOUS
  <2>2. faults' \in Nat
    OBVIOUS
  <2> QED
    BY <2>1, <2>2
<1>2. Lives'
  BY DEF Lives
<1>3. Apart'
  BY DEF Apart
<1>4. NoChannel'
  BY DEF NoChannel, Lives
<1>5. Leftover'
  BY DEF Leftover, NoChannel
<1>6. ConsumerBound'
  BY DEF ConsumerBound, NoChannel, Lives, Apart, QueueFree, Leftover
<1>7. Joined'
  BY DEF Joined, Lives, Apart, QueueFree, NoChannel
<1>8. QueueFree'
  BY DEF QueueFree, Lives, Apart
<1>9. SubscriptionLives'
  BY DEF SubscriptionLives, Lives, Apart, NoChannel, QueueFree
<1>10. FeedMatches'
  <2>1. UNCHANGED <<feed, update, child, contact, failed, met>>
    OBVIOUS
  <2> QED
    BY <2>1 DEF FeedMatches
<1>11. ChildEndsOnlyIfHit'
  BY DEF ChildEndsOnlyIfHit, Lives, Apart, NoChannel, SubscriptionLives
<1>. QED
  BY <1>1, <1>2, <1>3, <1>4, <1>5, <1>6, <1>7, <1>8, <1>9, <1>10, <1>11

LEMMA PubLastSeenStep ==
  ASSUME IInv, NEW x \in Contact, PubLastSeen(x)
  PROVE  IInv'
<1>. USE RelayAssumption DEF IInv, TypeOK, PubLastSeen, parentVars, childVars, brokerVars, statusVars, Running, Alive, Update
<1>1. TypeOK'
  <2>1. [about |-> x, ver |-> status[x]] \in Update
    OBVIOUS
  <2>2. feed' \in [Conn -> Seq(Update)]
    BY <2>1, UpdatesInOrder
  <2> QED
    BY <2>2
<1>2. Lives'
  BY DEF Lives
<1>3. Apart'
  BY DEF Apart
<1>4. NoChannel'
  BY DEF NoChannel, Lives
<1>5. Leftover'
  BY DEF Leftover, NoChannel
<1>6. ConsumerBound'
  BY DEF ConsumerBound, NoChannel, Lives, Apart, QueueFree, Leftover
<1>7. Joined'
  BY DEF Joined, Lives, Apart, QueueFree, NoChannel
<1>8. QueueFree'
  BY DEF QueueFree, Lives, Apart
<1>9. SubscriptionLives'
  BY DEF SubscriptionLives, Lives, Apart, NoChannel, QueueFree
<1>10. FeedMatches'
  <2>1. ASSUME NEW d \in Conn \ met, child[d] \in {"loop", "sending"}, NEW i \in DOMAIN feed'[d]
        PROVE  feed'[d][i].about \in {contact[d]} \union failed
    <3>1. \A j \in DOMAIN feed[d] : feed[d][j].about \in {contact[d]} \union failed
      BY <2>1 DEF FeedMatches
    <3>2. CASE feed'[d] = feed[d]
      BY <2>1, <3>1, <3>2
    <3>3. CASE /\ consumer = d /\ chan[d] /\ x \in bindings
               /\ feed'[d] = Append(feed[d], [about |-> x, ver |-> status[x]])
      <4>1. x \in {contact[d]} \union failed
        BY <2>1, <3>3 DEF ConsumerBound
      <4>2. feed[d] \in Seq(Update) /\ [about |-> x, ver |-> status[x]] \in Update
        OBVIOUS
      <4>3. (i \in DOMAIN feed[d] /\ feed'[d][i] = feed[d][i]) \/ feed'[d][i] = [about |-> x, ver |-> status[x]]
        BY <2>1, <3>3, <4>2, UpdatesInOrder
      <4> QED
        BY <3>1, <4>1, <4>3
    <3> QED
      BY <3>2, <3>3
  <2>2. UNCHANGED <<child, contact, update, failed, met>>
    OBVIOUS
  <2> QED
    BY <2>1, <2>2 DEF FeedMatches
<1>11. ChildEndsOnlyIfHit'
  BY DEF ChildEndsOnlyIfHit, Lives, Apart, NoChannel, SubscriptionLives
<1>. QED
  BY <1>1, <1>2, <1>3, <1>4, <1>5, <1>6, <1>7, <1>8, <1>9, <1>10, <1>11

-----------------------------------------------------------------------------
(* Steps of the parent and of the contacts that do not touch a channel.    *)
LEMMA ParentSideStep ==
  ASSUME IInv, NEW c \in Conn, ReadJSON(c) \/ EndLoop(c) \/ OtherFrame(c) \/ Reply(c) \/ Hand(c)
  PROVE  IInv'
<1>1. TypeOK
  BY DEF IInv
<1>2. PICK p \in Running : parent[c] \in Running /\ parent' = [parent EXCEPT ![c] = p]
  BY DEF ReadJSON, EndLoop, OtherFrame, Reply, Hand, Running
<1>3. /\ UNCHANGED <<childVars, brokerVars, listed, hit, failed, met>>
      /\ UNCHANGED <<cancels, open, statusVars, asks, faults>>
  BY DEF ReadJSON, EndLoop, OtherFrame, Reply, Hand
<1>4. TypeOK'
  <2>1. parent' \in [Conn -> Running \union {"idle", "checked", "leaving", "closed"}]
    BY <1>1, <1>2 DEF TypeOK, Running
  <2>2. /\ to' \in {to, [to EXCEPT ![c] = None]}
        /\ buffer' \in {buffer, [buffer EXCEPT ![c] = to[c]]}
        /\ reply' \in {reply, [reply EXCEPT ![c] = None]}
        /\ screen' \in {screen, [screen EXCEPT ![c] = reply[c]]}
    BY DEF ReadJSON, EndLoop, OtherFrame, Reply, Hand, parentVars
  <2>3. to' \in [Conn -> Contact \union {None}] /\ buffer' \in [Conn -> Contact \union {None}]
    BY <1>1, <2>2 DEF TypeOK
  <2>4. reply' \in [Conn -> Update \union {None}] /\ screen' \in [Conn -> Update \union {None}]
    BY <1>1, <2>2 DEF TypeOK
  <2>. QED
    BY <1>1, <1>3, <2>1, <2>3, <2>4 DEF TypeOK, childVars, brokerVars, statusVars
<1>. QED
  BY <1>2, <1>3, <1>4, ParentMoves

LEMMA SideStep ==
  ASSUME IInv,
         \/ \E c \in Conn : SocketBreaks(c)
         \/ \E x \in Contact : SetStatus(x)
         \/ UNCHANGED vars
  PROVE  IInv'
<1>. USE DEF SocketBreaks, SetStatus, vars, parentVars, childVars, brokerVars, statusVars
<1>1. UNCHANGED <<parent, childVars, brokerVars, listed, hit, failed, met>>
  OBVIOUS
<1>2. UNCHANGED <<to, reply, buffer, cancels, screen, told, asks, faults>>
  OBVIOUS
<1>3. TypeOK
  BY DEF IInv
<1>4. open' \subseteq Conn
  BY <1>3 DEF TypeOK
<1>5. status' \in [Contact -> 0..MaxUpdates]
  <2>1. CASE UNCHANGED status
    BY <1>3, <2>1 DEF TypeOK
  <2>2. ASSUME NEW x \in Contact, SetStatus(x)
        PROVE  status' \in [Contact -> 0..MaxUpdates]
    <3>1. status[x] + 1 \in 0..MaxUpdates
      BY <1>3, <2>2, RelayAssumption DEF TypeOK
    <3>. QED
      BY <1>3, <2>2, <3>1 DEF TypeOK
  <2>. QED
    BY <2>1, <2>2
<1>6. TypeOK'
  BY <1>1, <1>2, <1>3, <1>4, <1>5 DEF TypeOK
<1>. QED
  BY <1>1, <1>6 DEF IInv, Lives, Apart, NoChannel, Leftover, ConsumerBound, Joined, QueueFree, SubscriptionLives,
     FeedMatches, ChildEndsOnlyIfHit

LEMMA InitHolds == Init => IInv
<1>. SUFFICES ASSUME Init
              PROVE  IInv
  OBVIOUS
<1>1. TypeOK
  BY RelayAssumption DEF Init, TypeOK
<1>. QED
  BY <1>1, RelayAssumption DEF Init, IInv, Lives, Apart, NoChannel, Leftover, ConsumerBound, Joined, QueueFree,
     SubscriptionLives, FeedMatches, ChildEndsOnlyIfHit, Running, Alive

LEMMA NextHolds == IInv /\ [Next]_vars => IInv'
<1>. SUFFICES ASSUME IInv, [Next]_vars
              PROVE  IInv'
  OBVIOUS
<1>1. ASSUME NEW c \in Conn, ParentStep(c)
      PROVE  IInv'
  BY <1>1, ParentSideStep, ExistsStep, AddConnStep, RespawnStep, GetLastSeenStep, SignalCloseStep, DelConnStep
     DEF ParentStep
<1>2. ASSUME NEW c \in Conn, ChildStep(c)
      PROVE  IInv'
  BY <1>2, TakeContactStep, BindStep, ConsumeStep, TakeUpdateStep, ChanClosedStep, SendLastSeenStep,
     EndChildStep DEF ChildStep
<1>. QED
  BY <1>1, <1>2, SideStep, CancelLaterStep, ChannelDiesStep, PubLastSeenStep DEF Next

(* The inductive invariant holds whatever parent, child, the goroutines    *)
(* that cancel late and the broker do.                                     *)
THEOREM Invariance == Spec => []IInv
  BY InitHolds, NextHolds, PTL DEF Spec

(* Every variable keeps its type. *)
THEOREM TypeCorrect == Spec => []TypeOK
  BY Invariance, PTL DEF IInv

(* SubToLastSeenQ never meets another consumer of the user's queue. *)
THEOREM NeverRefused == Spec => []QueueFree
  BY Invariance, PTL DEF IInv

(* A child that follows a contact has the only subscription, to him alone, *)
(* unless it was taken away.                                               *)
THEOREM Subscribes == Spec => []SubscriptionLives
  BY Invariance, PTL DEF IInv

(* Nothing about an earlier contact is read from the channel.              *)
THEOREM FollowsOne == Spec => []FeedMatches
  BY Invariance, PTL DEF IInv

(* Parent and child wait for each other only after a subscription was      *)
(* taken away.                                                             *)
THEOREM NoSpontaneousEnd == Spec => []ChildEndsOnlyIfHit
  BY Invariance, PTL DEF IInv

-----------------------------------------------------------------------------
(* Relay implements Handler: five of its actions are steps of the pair.    *)

Serving == {"top", "reading", "replying", "handing"}

(* Only what a step does to one connection's goroutines matters. *)
LEMMA PairMoves ==
  ASSUME NEW c \in Conn, NEW p, NEW k,
         \A d \in Conn \ {c} : parent'[d] = parent[d] /\ child'[d] = child[d],
         Phase'[c] = p, Aide'[c] = k
  PROVE  Phase' = [Phase EXCEPT ![c] = p] /\ Aide' = [Aide EXCEPT ![c] = k]
<1>1. \A d \in Conn \ {c} : Phase'[d] = Phase[d] /\ Aide'[d] = Aide[d]
  BY DEF Phase, Aide, Signalled
<1>2. /\ Phase = [d \in Conn |-> Phase[d]] /\ Phase' = [d \in Conn |-> Phase'[d]]
      /\ Aide = [d \in Conn |-> Aide[d]] /\ Aide' = [d \in Conn |-> Aide'[d]]
  BY DEF Phase, Aide
<1>3. [Phase EXCEPT ![c] = p] = [d \in Conn |-> IF d = c THEN p ELSE Phase[d]]
  BY <1>2
<1>4. [Aide EXCEPT ![c] = k] = [d \in Conn |-> IF d = c THEN k ELSE Aide[d]]
  BY <1>2
<1> QED
  BY <1>1, <1>2, <1>3, <1>4

LEMMA PairRests ==
  ASSUME NEW c \in Conn,
         \A d \in Conn \ {c} : parent'[d] = parent[d] /\ child'[d] = child[d],
         Phase'[c] = Phase[c], Aide'[c] = Aide[c]
  PROVE  UNCHANGED Pair!vars
<1>1. Phase' = [Phase EXCEPT ![c] = Phase[c]] /\ Aide' = [Aide EXCEPT ![c] = Aide[c]]
  BY PairMoves
<1>2. /\ [Phase EXCEPT ![c] = Phase[c]] = Phase /\ [Aide EXCEPT ![c] = Aide[c]] = Aide
  BY DEF Phase, Aide
<1> QED
  BY <1>1, <1>2 DEF Pair!vars

LEMMA ParentImplements ==
  ASSUME IInv, NEW c \in Conn, ParentStep(c)
  PROVE  [Pair!Next]_(Pair!vars)
<1>1. /\ parent \in [Conn -> Running \union {"idle", "checked", "leaving", "closed"}]
      /\ child \in [Conn -> {"none", "loop", "switch", "bound", "sending", "ending", "waiting"}]
  BY DEF IInv, TypeOK
<1>2. CASE AddConn(c)
  <2>1. /\ parent[c] = "checked" /\ parent'[c] = "top" /\ child'[c] = "loop"
        /\ \A d \in Conn \ {c} : parent'[d] = parent[d] /\ child'[d] = child[d]
    BY <1>1, <1>2 DEF AddConn
  <2>2. Phase[c] = "none" /\ Phase'[c] = "serving" /\ Aide'[c] = "up"
    BY <2>1 DEF Phase, Aide, Signalled
  <2> QED
    BY <2>1, <2>2, PairMoves DEF Pair!Next, Pair!Start
<1>8. CASE Exists(c)
  <2>1. /\ parent[c] = "idle" /\ parent'[c] = "checked" /\ child' = child
        /\ \A d \in Conn \ {c} : parent'[d] = parent[d] /\ child'[d] = child[d]
    BY <1>1, <1>8 DEF Exists, childVars
  <2>2. Phase'[c] = Phase[c] /\ Aide'[c] = Aide[c]
    BY <2>1 DEF Phase, Aide, Signalled
  <2> QED
    BY <2>1, <2>2, PairRests
<1>3. CASE Respawn(c)
  <2>1. /\ parent[c] = "top" /\ child[c] = "waiting" /\ parent'[c] = "top" /\ child'[c] = "loop"
        /\ \A d \in Conn \ {c} : parent'[d] = parent[d] /\ child'[d] = child[d]
    BY <1>1, <1>3 DEF Respawn, parentVars
  <2>2. Phase[c] = "serving" /\ Aide[c] = "waiting" /\ Phase'[c] = "serving" /\ Aide'[c] = "up"
    BY <2>1 DEF Phase, Aide, Signalled
  <2>3. [Phase EXCEPT ![c] = "serving"] = Phase
    BY <2>2 DEF Phase
  <2> QED
    BY <2>1, <2>2, <2>3, PairMoves DEF Pair!Next, Pair!Respawn
<1>4. CASE EndLoop(c)
  <2>1. /\ parent[c] = "reading" /\ parent'[c] = "signal" /\ child' = child
        /\ \A d \in Conn \ {c} : parent'[d] = parent[d] /\ child'[d] = child[d]
    BY <1>1, <1>4 DEF EndLoop, childVars
  <2>2. Phase[c] = "serving" /\ Phase'[c] = "leaving" /\ Aide'[c] = Aide[c]
    BY <2>1 DEF Phase, Aide, Signalled
  <2>3. [Aide EXCEPT ![c] = Aide[c]] = Aide
    BY DEF Aide
  <2> QED
    BY <2>1, <2>2, <2>3, PairMoves DEF Pair!Next, Pair!EndLoop
<1>5. CASE SignalClose(c)
  <2>1. /\ parent[c] = "signal" /\ child[c] = "loop" /\ parent'[c] = "leaving" /\ child'[c] = "ending"
        /\ \A d \in Conn \ {c} : parent'[d] = parent[d] /\ child'[d] = child[d]
    BY <1>1, <1>5 DEF SignalClose
  <2>2. Phase[c] = "leaving" /\ Aide[c] = "up" /\ Phase'[c] = "over" /\ Aide'[c] = "done"
    BY <2>1 DEF Phase, Aide, Signalled
  <2> QED
    BY <2>1, <2>2, PairMoves DEF Pair!Next, Pair!SignalClose
<1>6. CASE DelConn(c)
  <2>1. /\ parent[c] = "leaving" /\ parent'[c] = "closed" /\ child' = child
        /\ \A d \in Conn \ {c} : parent'[d] = parent[d] /\ child'[d] = child[d]
    BY <1>1, <1>6 DEF DelConn, childVars
  <2>2. Phase'[c] = Phase[c] /\ Aide'[c] = Aide[c]
    BY <2>1 DEF Phase, Aide, Signalled
  <2> QED
    BY <2>1, <2>2, PairRests
<1>7. CASE \/ ReadJSON(c) \/ OtherFrame(c) \/ \E x \in Contact : GetLastSeen(c, x)
           \/ Reply(c) \/ Hand(c)
  <2>1. /\ parent[c] \in Serving /\ child' = child
        /\ \E p \in Serving : parent' = [parent EXCEPT ![c] = p]
    BY <1>7 DEF ReadJSON, OtherFrame, GetLastSeen, Reply, Hand, childVars, Serving
  <2>2. /\ parent'[c] \in Serving
        /\ \A d \in Conn \ {c} : parent'[d] = parent[d] /\ child'[d] = child[d]
    BY <1>1, <2>1
  <2>3. Phase'[c] = Phase[c] /\ Aide'[c] = Aide[c]
    BY <2>1, <2>2 DEF Phase, Aide, Signalled, Serving
  <2> QED
    BY <2>2, <2>3, PairRests
<1> QED
  BY <1>2, <1>3, <1>4, <1>5, <1>6, <1>7, <1>8 DEF ParentStep

LEMMA ChildImplements ==
  ASSUME IInv, NEW c \in Conn, ChildStep(c)
  PROVE  [Pair!Next]_(Pair!vars)
<1>1. /\ child \in [Conn -> {"none", "loop", "switch", "bound", "sending", "ending", "waiting"}]
      /\ child[c] \in Alive => parent[c] \in Running
      /\ UNCHANGED parent
  BY DEF IInv, TypeOK, Lives, ChildStep, TakeContact, Bind, Consume, Subscribed, Unsubscribed, TakeUpdate, ChanClosed,
         SendLastSeen, EndChild, parentVars
<1>2. \E k : child' = [child EXCEPT ![c] = k]
  <2>1. child = [child EXCEPT ![c] = child[c]]
    BY <1>1
  <2> QED
    BY <2>1 DEF ChildStep, TakeContact, Bind, Consume, Subscribed, Unsubscribed, TakeUpdate, ChanClosed, SendLastSeen, EndChild
<1>3. \A d \in Conn \ {c} : parent'[d] = parent[d] /\ child'[d] = child[d]
  BY <1>1, <1>2
<1>4. CASE child[c] \in Alive /\ child'[c] \in Alive
  <2>1. Phase'[c] = Phase[c] /\ Aide'[c] = Aide[c]
    BY <1>1, <1>4 DEF Phase, Aide, Signalled, Alive
  <2> QED
    BY <1>3, <2>1, PairRests
<1>5. CASE child[c] \in Alive /\ child'[c] = "ending"
  <2>1. Phase[c] \in {"serving", "leaving"} /\ Aide[c] = "up" /\ Phase'[c] = Phase[c] /\ Aide'[c] = "waiting"
    BY <1>1, <1>5 DEF Phase, Aide, Signalled, Alive, Running
  <2>2. [Phase EXCEPT ![c] = Phase[c]] = Phase
    BY DEF Phase
  <2> QED
    BY <1>3, <2>1, <2>2, PairMoves DEF Pair!Next, Pair!ChildEnds
<1>6. CASE child[c] = "ending" /\ child'[c] = "waiting"
  <2>1. Phase'[c] = Phase[c] /\ Aide'[c] = Aide[c]
    BY <1>1, <1>6 DEF Phase, Aide, Signalled
  <2> QED
    BY <1>3, <2>1, PairRests
<1>7. \/ child[c] \in Alive /\ child'[c] \in Alive \union {"ending"}
      \/ child[c] = "ending" /\ child'[c] = "waiting"
  BY <1>1 DEF ChildStep, TakeContact, Bind, Consume, Subscribed, Unsubscribed, TakeUpdate, ChanClosed, SendLastSeen, EndChild, Alive
<1> QED
  BY <1>4, <1>5, <1>6, <1>7

(* The goroutines of a connection in ws/websocket.go, with their channels, *)
(* the broker's and the cancels left behind, do to one another only what   *)
(* Handler lets them, of which Presence has the handlers in detail.        *)
THEOREM RelayImplementsHandler == Spec => ImplementsHandler
<1>1. Init => Pair!Init
  <2> SUFFICES ASSUME Init PROVE Pair!Init
    OBVIOUS
  <2>1. \A c \in Conn : parent[c] = "idle" /\ child[c] = "none"
    BY DEF Init
  <2>2. \A c \in Conn : Phase[c] = "none" /\ Aide[c] = "none"
    <3> SUFFICES ASSUME NEW c \in Conn PROVE Phase[c] = "none" /\ Aide[c] = "none"
      OBVIOUS
    <3> QED
      BY <2>1 DEF Phase, Aide, Signalled
  <2>3. Phase = [c \in Conn |-> Phase[c]] /\ Aide = [c \in Conn |-> Aide[c]]
    BY DEF Phase, Aide
  <2> QED
    BY <2>2, <2>3 DEF Pair!Init
<1>2. IInv /\ [Next]_vars => [Pair!Next]_(Pair!vars)
  <2> SUFFICES ASSUME IInv, [Next]_vars PROVE [Pair!Next]_(Pair!vars)
    OBVIOUS
  <2>1. CASE \E c \in Conn : ParentStep(c) \/ ChildStep(c)
    BY <2>1, ParentImplements, ChildImplements
  <2>2. CASE UNCHANGED <<parent, child>>
    BY <2>2 DEF Pair!vars, Phase, Aide, Signalled
  <2>3. CASE \/ \E c \in Conn : SocketBreaks(c)
             \/ CancelLater \/ ChannelDies
             \/ \E x \in Contact : SetStatus(x) \/ PubLastSeen(x)
    BY <2>2, <2>3 DEF SocketBreaks, CancelLater, ChannelDies, SetStatus, PubLastSeen, parentVars, childVars
  <2>4. CASE UNCHANGED vars
    BY <2>2, <2>4 DEF vars, parentVars, childVars
  <2> QED
    BY <2>1, <2>3, <2>4 DEF Next
<1> QED
  BY <1>1, <1>2, Invariance, PTL DEF Spec, ImplementsHandler, Pair!Spec

-----------------------------------------------------------------------------
(* Two goroutines that wait for each other. *)

LEMMA StaysDeadlocked ==
  ASSUME IInv, [Next]_vars, NEW c \in Conn, Deadlocked(c)
  PROVE  Deadlocked(c)'
<1>1. /\ parent \in [Conn -> Running \union {"idle", "checked", "leaving", "closed"}]
      /\ child \in [Conn -> {"none", "loop", "switch", "bound", "sending", "ending", "waiting"}]
      /\ parent[c] = "signal" /\ child[c] = "waiting"
  BY DEF IInv, TypeOK, Deadlocked
<1>2. ASSUME NEW d \in Conn, ParentStep(d)
      PROVE  parent'[c] = "signal" /\ child'[c] = "waiting"
  BY <1>1, <1>2 DEF ParentStep, Exists, AddConn, Respawn, ReadJSON, EndLoop, OtherFrame, GetLastSeen, Reply, Hand,
     SignalClose, DelConn, childVars, parentVars
<1>3. ASSUME NEW d \in Conn, ChildStep(d)
      PROVE  parent'[c] = "signal" /\ child'[c] = "waiting"
  BY <1>1, <1>3 DEF ChildStep, TakeContact, Bind, Consume, Subscribed, Unsubscribed, TakeUpdate, ChanClosed,
     SendLastSeen, EndChild, parentVars
<1>4. CASE UNCHANGED <<parent, child>>
  BY <1>1, <1>4 DEF Deadlocked
<1>5. CASE \/ \E d \in Conn : SocketBreaks(d)
           \/ CancelLater \/ ChannelDies
           \/ \E x \in Contact : SetStatus(x) \/ PubLastSeen(x)
           \/ UNCHANGED vars
  BY <1>4, <1>5 DEF SocketBreaks, CancelLater, ChannelDies, SetStatus, PubLastSeen, parentVars, childVars, vars
<1> QED
  BY <1>2, <1>3, <1>5 DEF Next, Deadlocked

(* The parents of a refused user have not begun, are closed, or wait. *)
LEMMA StaysRefused ==
  ASSUME IInv, [Next]_vars, NEW c \in Conn, Refused(c)
  PROVE  Refused(c)'
<1>1. /\ parent \in [Conn -> Running \union {"idle", "checked", "leaving", "closed"}]
      /\ listed = c /\ listed # None /\ Deadlocked(c)
      /\ \A d \in Conn : parent[d] \in {"idle", "closed"} \/ Deadlocked(d)
  BY RelayAssumption DEF IInv, TypeOK, Refused
<1>2. Deadlocked(c)' /\ \A d \in Conn : Deadlocked(d) => Deadlocked(d)'
  BY <1>1, StaysDeadlocked
<1>3. ASSUME NEW d \in Conn, ParentStep(d)
      PROVE  FALSE
  <2>1. ~Exists(d)
    BY <1>1 DEF Exists
  <2>2. parent[d] # "idle" /\ parent[d] # "closed"
    BY <1>3, <2>1 DEF ParentStep, AddConn, Respawn, ReadJSON, EndLoop, OtherFrame, GetLastSeen, Reply, Hand,
       SignalClose, DelConn
  <2>3. parent[d] = "signal" /\ child[d] = "waiting"
    BY <1>1, <2>2 DEF Deadlocked
  <2> QED
    BY <1>3, <2>1, <2>3 DEF ParentStep, AddConn, Respawn, ReadJSON, EndLoop, OtherFrame, GetLastSeen, Reply, Hand,
       SignalClose, DelConn
<1>4. UNCHANGED <<parent, listed>>
  BY <1>3 DEF Next, ChildStep, TakeContact, Bind, Consume, TakeUpdate, ChanClosed, SendLastSeen, EndChild,
     SocketBreaks, CancelLater, ChannelDies, SetStatus, PubLastSeen, parentVars, vars
<1> QED
  BY <1>1, <1>2, <1>4 DEF Refused

(* Parent and child of a connection that wait for each other               *)
(* (ws/websocket.go:171 and 251) do so until the gateway restarts, and if  *)
(* it is listed and no other handler is left, so long the user is refused  *)
(* (32).                                                                   *)
THEOREM DeadlockRefuses == Spec => RefusedForGood
<1>1. IInv /\ [Next]_vars
        => [\A c \in Conn : (Deadlocked(c) => Deadlocked(c)') /\ (Refused(c) => Refused(c)')]_vars
  BY StaysDeadlocked, StaysRefused
<1> QED
  BY <1>1, Invariance, PTL DEF Spec, RefusedForGood
=============================================================================
