----------------------------- MODULE MessageLog -----------------------------
(***************************************************************************)
(* What the message path of mumbleBE promises its users, without queues,   *)
(* goroutines, processes or Redis: one log of messages that only grows,    *)
(* and the four things a user may be shown about it - a message addressed  *)
(* to him, the confirmation that his own was stored, that it was refused,  *)
(* and a status his peer gave to a message of theirs.  Pipeline implements *)
(* it.                                                                     *)
(***************************************************************************)
EXTENDS Naturals, Sequences, TLAPS

CONSTANTS User, Msg, Sender, Receiver

VARIABLES
  accepted,   \* messages the system has taken
  refused,    \* <<user, m>>: users told that their message was not taken
  log,        \* the stored messages; an id is a position
  delivered,  \* <<user, id>>: messages shown to users
  confirmed,  \* <<user, m, id>>: users told that m is stored as id
  marks,      \* <<user, id, status>>: status requests the system has taken
  changed,    \* <<id, status>>: statuses a stored message has had
  seen        \* <<user, id, status>>: status changes shown to users

vars == <<accepted, refused, log, delivered, confirmed, marks, changed, seen>>

Author(i)   == Sender[log[i].text]
Reader(i)   == Receiver[log[i].text]
Peer(u, i)  == IF u = Author(i) THEN Reader(i) ELSE Author(i)
Stored(m)   == \E i \in DOMAIN log : log[i].text = m

Init ==
  /\ accepted = {} /\ refused = {} /\ log = <<>>
  /\ delivered = {} /\ confirmed = {} /\ marks = {} /\ changed = {} /\ seen = {}

Accept(m) ==
  /\ <<Sender[m], m>> \notin refused
  /\ accepted' = accepted \union {m}
  /\ UNCHANGED <<refused, log, delivered, confirmed, marks, changed, seen>>

Refuse(m) ==
  /\ m \notin accepted
  /\ refused' = refused \union {<<Sender[m], m>>}
  /\ UNCHANGED <<accepted, log, delivered, confirmed, marks, changed, seen>>

(* A redelivered message is stored once more, under another id. *)
Store(m) ==
  /\ m \in accepted
  /\ log' = Append(log, [text |-> m, status |-> "saved"])
  /\ UNCHANGED <<accepted, refused, delivered, confirmed, marks, changed, seen>>

ShowMessage(i) ==
  /\ delivered' = delivered \union {<<Reader(i), i>>}
  /\ UNCHANGED <<accepted, refused, log, confirmed, marks, changed, seen>>

Confirm(i) ==
  /\ confirmed' = confirmed \union {<<Author(i), log[i].text, i>>}
  /\ UNCHANGED <<accepted, refused, log, delivered, marks, changed, seen>>

(* Only a message that was shown can be marked: by its reader as read or   *)
(* deleted, by its author as deleted.                                      *)
Mark(u, i, st) ==
  /\ \/ <<u, i>> \in delivered /\ st \in {"read", "del"}
     \/ <<u, log[i].text, i>> \in confirmed /\ st = "del"
  /\ marks' = marks \union {<<u, i, st>>}
  /\ UNCHANGED <<accepted, refused, log, delivered, confirmed, changed, seen>>

Change(u, i, st) ==
  /\ <<u, i, st>> \in marks
  /\ log' = [log EXCEPT ![i].status = st]
  /\ changed' = changed \union {<<i, st>>}
  /\ UNCHANGED <<accepted, refused, delivered, confirmed, marks, seen>>

ShowStatus(u, i, st) ==
  /\ <<u, i, st>> \in marks
  /\ <<i, st>> \in changed
  /\ seen' = seen \union {<<Peer(u, i), i, st>>}
  /\ UNCHANGED <<accepted, refused, log, delivered, confirmed, marks, changed>>

Next ==
  \/ \E m \in Msg : Accept(m) \/ Refuse(m) \/ Store(m)
  \/ \E i \in DOMAIN log : ShowMessage(i) \/ Confirm(i)
  \/ \E u \in User, i \in DOMAIN log, st \in {"read", "del"} :
       Mark(u, i, st) \/ Change(u, i, st) \/ ShowStatus(u, i, st)

Spec == Init /\ [][Next]_vars

-----------------------------------------------------------------------------
(* What users can count on. *)

(* A user is shown messages to him only, and told of the storing of his    *)
(* own only, under the id that is theirs for good.                         *)
ShownRight ==
  /\ \A d \in delivered : d[2] \in DOMAIN log /\ d[1] = Reader(d[2])
  /\ \A c \in confirmed : c[3] \in DOMAIN log /\ c[1] = Author(c[3]) /\ c[2] = log[c[3]].text

(* A message its author was told is lost is not stored, then or later. *)
RefusedForGood == \A m \in Msg : <<Sender[m], m>> \in refused => ~Stored(m)

(* A message that shows as read, in the log or to a user, was shown to its *)
(* reader; a status other than saved is one somebody it concerns asked for.*)
StatusEarned ==
  /\ \A i \in DOMAIN log :
       log[i].status # "saved" =>
         \E k \in marks : k[1] \in {Author(i), Reader(i)} /\ k[2] = i /\ k[3] = log[i].status
  /\ \A i \in DOMAIN log :
       log[i].status = "read" \/ (\E s \in seen : s[2] = i /\ s[3] = "read") =>
         <<Reader(i), i>> \in delivered

Promise == ShownRight /\ RefusedForGood /\ StatusEarned

(* An id once given stays with its message. *)
IdsKept == \A i \in DOMAIN log : i \in DOMAIN log' /\ log'[i].text = log[i].text
IdsStay == [][IdsKept]_vars

-----------------------------------------------------------------------------
(* The promise is inductive with what the log was made of: accepted        *)
(* messages, none of them refused, and marks of those it concerns.         *)

Entry == [text : Msg, status : {"saved", "read", "del"}]
LogTypes == log \in Seq(Entry)

Made ==
  /\ \A i \in DOMAIN log : log[i].text \in accepted
  /\ \A m \in Msg : <<Sender[m], m>> \in refused => m \notin accepted
  /\ \A k \in marks : /\ k[2] \in DOMAIN log /\ k[1] \in {Author(k[2]), Reader(k[2])}
                      /\ k[3] = "read" => <<Reader(k[2]), k[2]>> \in delivered
  /\ \A s \in seen : s[2] \in DOMAIN log /\ (s[3] = "read" => <<Reader(s[2]), s[2]>> \in delivered)

LogInv == LogTypes /\ Made /\ Promise

LEMMA Appending ==
  ASSUME LogTypes, NEW m \in Msg, log' = Append(log, [text |-> m, status |-> "saved"])
  PROVE  /\ LogTypes' /\ IdsKept
         /\ \A i \in DOMAIN log : log'[i] = log[i]
         /\ \A i \in DOMAIN log' \ DOMAIN log : log'[i].text = m /\ log'[i].status = "saved"
<1>1. PICK r : r = [text |-> m, status |-> "saved"]
  OBVIOUS
<1>2. r \in Entry /\ r.text = m /\ r.status = "saved"
  BY <1>1 DEF Entry
<1>3. log' = Append(log, r)
  BY <1>1
<1> QED
  BY <1>2, <1>3 DEF LogTypes, IdsKept

LEMMA Entries ==
  ASSUME LogTypes, NEW n \in DOMAIN log
  PROVE  log[n] \in Entry
  BY DEF LogTypes

LEMMA Changed ==
  ASSUME LogTypes, NEW n \in DOMAIN log, NEW r \in Entry,
         r.text = log[n].text, log' = [log EXCEPT ![n] = r]
  PROVE  /\ LogTypes' /\ IdsKept /\ DOMAIN log' = DOMAIN log
         /\ \A i \in DOMAIN log : log'[i].status = IF i = n THEN r.status ELSE log[i].status
  BY DEF LogTypes, IdsKept

LEMMA Replacing ==
  ASSUME LogTypes, NEW n \in DOMAIN log, NEW r, NEW st \in {"read", "del"},
         r = [log[n] EXCEPT !.status = st]
  PROVE  r \in Entry /\ r.text = log[n].text /\ r.status = st
<1>1. PICK k : k = log[n]
  OBVIOUS
<1>2. k \in Entry
  BY <1>1, Entries
<1>3. r = [k EXCEPT !.status = st]
  BY <1>1
<1> QED
  BY <1>1, <1>2, <1>3 DEF Entry

LEMMA Changing ==
  ASSUME LogTypes, NEW n \in DOMAIN log, NEW st \in {"read", "del"}, log' = [log EXCEPT ![n].status = st]
  PROVE  /\ LogTypes' /\ IdsKept /\ DOMAIN log' = DOMAIN log
         /\ \A i \in DOMAIN log : log'[i].status = IF i = n THEN st ELSE log[i].status
<1>1. PICK r : r = [log[n] EXCEPT !.status = st]
  OBVIOUS
<1>2. r \in Entry /\ r.text = log[n].text /\ r.status = st
  BY <1>1, Replacing
<1>3. log' = [log EXCEPT ![n] = r]
  BY <1>1
<1> HIDE <1>1
<1> QED
  BY <1>2, <1>3, Changed

(* Every step keeps what an id stands for. *)
LEMMA Keeps ==
  ASSUME LogTypes, [Next]_vars
  PROVE  LogTypes' /\ IdsKept
<1>1. CASE \E m \in Msg : Store(m)
  BY <1>1, Appending DEF Store
<1>2. CASE \E u \in User, i \in DOMAIN log, st \in {"read", "del"} : Change(u, i, st)
  BY <1>2, Changing DEF Change
<1>3. CASE log' = log
  BY <1>3 DEF LogTypes, IdsKept
<1> QED
  BY <1>1, <1>2, <1>3 DEF Next, Accept, Refuse, ShowMessage, Confirm, Mark, ShowStatus, vars

LEMMA MadeStep ==
  ASSUME LogInv, [Next]_vars
  PROVE  Made'
<1> USE DEF LogInv
<1>1. IdsKept
  BY Keeps
<1>2. \A i \in DOMAIN log : Author(i)' = Author(i) /\ Reader(i)' = Reader(i)
  BY <1>1 DEF IdsKept, Author, Reader
<1>3. accepted \subseteq accepted' /\ delivered \subseteq delivered'
  BY DEF Next, Accept, Refuse, Store, ShowMessage, Confirm, Mark, Change, ShowStatus, vars
<1>4. \A i \in DOMAIN log' : log'[i].text \in accepted'
  <2>1. CASE \E m \in Msg : Store(m)
    BY <2>1, <1>1, Appending DEF Store, Made, IdsKept
  <2>2. CASE DOMAIN log' = DOMAIN log
    BY <2>2, <1>1, <1>3 DEF Made, IdsKept
  <2>3. CASE \E u \in User, i \in DOMAIN log, st \in {"read", "del"} : Change(u, i, st)
    BY <2>2, <2>3, Changing DEF Change
  <2> QED
    BY <2>1, <2>2, <2>3 DEF Next, Accept, Refuse, ShowMessage, Confirm, Mark, ShowStatus, vars
<1>5. \A m \in Msg : <<Sender[m], m>> \in refused' => m \notin accepted'
  <2>1. CASE \E m \in Msg : Accept(m)
    BY <2>1 DEF Accept, Made
  <2>2. CASE \E m \in Msg : Refuse(m)
    BY <2>2 DEF Refuse, Made
  <2>3. CASE UNCHANGED <<accepted, refused>>
    BY <2>3 DEF Made
  <2> QED
    BY <2>1, <2>2, <2>3 DEF Next, Store, ShowMessage, Confirm, Mark, Change, ShowStatus, vars
<1>6. ASSUME NEW k \in marks'
      PROVE  /\ k[2] \in DOMAIN log' /\ k[1] \in {Author(k[2])', Reader(k[2])'}
             /\ k[3] = "read" => <<Reader(k[2])', k[2]>> \in delivered'
  <2>1. CASE k \in marks
    BY <1>1, <1>2, <1>3, <2>1 DEF Made, IdsKept
  <2>2. CASE k \notin marks
    <3>1. PICK u \in User, i \in DOMAIN log, st \in {"read", "del"} : Mark(u, i, st)
      BY <2>2 DEF Next, Accept, Refuse, Store, ShowMessage, Confirm, Change, ShowStatus, vars
    <3>2. k[1] = u /\ k[2] = i /\ k[3] = st
      BY <2>2, <3>1 DEF Mark
    <3>3. \/ <<u, i>> \in delivered
          \/ <<u, log[i].text, i>> \in confirmed /\ st = "del"
      BY <3>1 DEF Mark
    <3>4. CASE <<u, i>> \in delivered
      <4>1. u = Reader(i)
        BY <3>4 DEF Promise, ShownRight
      <4> QED
        BY <1>1, <1>2, <1>3, <3>2, <3>4, <4>1 DEF IdsKept
    <3>5. CASE <<u, log[i].text, i>> \in confirmed /\ st = "del"
      <4>1. u = Author(i)
        BY <3>5 DEF Promise, ShownRight
      <4> QED
        BY <1>1, <1>2, <3>2, <3>5, <4>1 DEF IdsKept
    <3> QED
      BY <3>3, <3>4, <3>5
  <2> QED
    BY <2>1, <2>2
<1>7. ASSUME NEW s \in seen'
      PROVE  s[2] \in DOMAIN log' /\ (s[3] = "read" => <<Reader(s[2])', s[2]>> \in delivered')
  <2>1. CASE s \in seen
    BY <1>1, <1>2, <1>3, <2>1 DEF Made, IdsKept
  <2>2. CASE s \notin seen
    <3>1. PICK u \in User, i \in DOMAIN log, st \in {"read", "del"} : ShowStatus(u, i, st)
      BY <2>2 DEF Next, Accept, Refuse, Store, ShowMessage, Confirm, Mark, Change, vars
    <3>2. s[2] = i /\ s[3] = st /\ <<u, i, st>> \in marks
      BY <2>2, <3>1 DEF ShowStatus
    <3>3. s[3] = "read" => <<Reader(i), i>> \in delivered
      BY <3>2 DEF Made
    <3> QED
      BY <1>1, <1>2, <1>3, <3>2, <3>3 DEF IdsKept
  <2> QED
    BY <2>1, <2>2
<1> QED
  BY <1>4, <1>5, <1>6, <1>7 DEF Made, Author, Reader

LEMMA PromiseStep ==
  ASSUME LogInv, [Next]_vars
  PROVE  Promise'
<1> USE DEF LogInv
<1>1. IdsKept /\ Made'
  BY Keeps, MadeStep
<1>2. \A i \in DOMAIN log : Author(i)' = Author(i) /\ Reader(i)' = Reader(i)
  BY <1>1 DEF IdsKept, Author, Reader
<1>3. delivered \subseteq delivered' /\ marks \subseteq marks'
  BY DEF Next, Accept, Refuse, Store, ShowMessage, Confirm, Mark, Change, ShowStatus, vars
<1>4. ShownRight'
  <2>1. ASSUME NEW d \in delivered' PROVE d[2] \in DOMAIN log' /\ d[1] = Reader(d[2])'
    <3>1. d \in delivered \/ \E i \in DOMAIN log : d = <<Reader(i), i>>
      BY DEF Next, Accept, Refuse, Store, ShowMessage, Confirm, Mark, Change, ShowStatus, vars
    <3>2. d[2] \in DOMAIN log /\ d[1] = Reader(d[2])
      BY <3>1 DEF Promise, ShownRight
    <3> QED
      BY <1>1, <1>2, <3>2 DEF IdsKept
  <2>2. ASSUME NEW c \in confirmed'
        PROVE  c[3] \in DOMAIN log' /\ c[1] = Author(c[3])' /\ c[2] = log'[c[3]].text
    <3>1. c \in confirmed \/ \E i \in DOMAIN log : c = <<Author(i), log[i].text, i>>
      BY DEF Next, Accept, Refuse, Store, ShowMessage, Confirm, Mark, Change, ShowStatus, vars
    <3>2. c[3] \in DOMAIN log /\ c[1] = Author(c[3]) /\ c[2] = log[c[3]].text
      BY <3>1 DEF Promise, ShownRight
    <3> QED
      BY <1>1, <1>2, <3>2 DEF IdsKept
  <2> QED
    BY <2>1, <2>2 DEF ShownRight, Author, Reader
<1>5. RefusedForGood'
  BY <1>1 DEF RefusedForGood, Stored, Made
<1>6. StatusEarned'
  <2>1. ASSUME NEW i \in DOMAIN log', log'[i].status # "saved"
        PROVE  \E k \in marks' : k[1] \in {Author(i)', Reader(i)'} /\ k[2] = i /\ k[3] = log'[i].status
    <3>1. CASE i \in DOMAIN log /\ log'[i].status = log[i].status
      BY <1>2, <1>3, <2>1, <3>1 DEF Promise, StatusEarned
    <3>2. CASE ~(i \in DOMAIN log /\ log'[i].status = log[i].status)
      <4>1. ASSUME NEW m \in Msg, Store(m) PROVE FALSE
        BY <2>1, <3>2, <4>1, Appending DEF Store
      <4>2. PICK u \in User, n \in DOMAIN log, st \in {"read", "del"} : Change(u, n, st)
        BY <3>2, <4>1 DEF Next, Accept, Refuse, ShowMessage, Confirm, Mark, ShowStatus, vars
      <4>3. i = n /\ i \in DOMAIN log /\ log'[i].status = st
        BY <3>2, <4>2, Changing DEF Change
      <4>4. <<u, i, st>> \in marks /\ u \in {Author(i), Reader(i)}
        BY <4>2, <4>3 DEF Change, Made
      <4> QED
        BY <1>2, <1>3, <4>3, <4>4
    <3> QED
      BY <3>1, <3>2
  <2>2. ASSUME NEW i \in DOMAIN log', log'[i].status = "read" \/ (\E s \in seen' : s[2] = i /\ s[3] = "read")
        PROVE  <<Reader(i)', i>> \in delivered'
    <3>1. CASE log'[i].status = "read"
      <4>1. PICK k \in marks' : k[2] = i /\ k[3] = "read"
        BY <2>1, <3>1
      <4> QED
        BY <1>1, <4>1 DEF Made, Reader
    <3>2. CASE \E s \in seen' : s[2] = i /\ s[3] = "read"
      BY <1>1, <3>2 DEF Made, Reader
    <3> QED
      BY <2>2, <3>1, <3>2
  <2> QED
    BY <2>1, <2>2 DEF StatusEarned, Author, Reader
<1> QED
  BY <1>4, <1>5, <1>6 DEF Promise

(* Whatever order messages, notices and marks come in, nobody is shown     *)
(* anything untrue of the log (the message path, from ws/websocket.go to   *)
(* rbmq/saveMsg.go and back).                                              *)
THEOREM Promised == Spec => []Promise
<1>1. Init => LogInv
  BY DEF Init, LogInv, LogTypes, Made, Promise, ShownRight, RefusedForGood, Stored, StatusEarned
<1>2. LogInv /\ [Next]_vars => LogInv'
  BY Keeps, MadeStep, PromiseStep DEF LogInv
<1>3. LogInv => Promise
  BY DEF LogInv
<1> QED
  BY <1>1, <1>2, <1>3, PTL DEF Spec

(* An id a user was told of (RETURNING message_id, db/insert.go) is never  *)
(* another message's.                                                      *)
THEOREM IdsForGood == Spec => IdsStay
<1>1. Init => LogTypes
  BY DEF Init, LogTypes
<1>2. LogTypes /\ [Next]_vars => LogTypes'
  BY Keeps
<1>3. LogTypes /\ [Next]_vars => [IdsKept]_vars
  BY Keeps
<1> QED
  BY <1>1, <1>2, <1>3, PTL DEF Spec, IdsStay
=============================================================================
