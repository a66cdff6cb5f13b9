------------------------------- MODULE Recovery ------------------------------
(***************************************************************************)
(* The gateway's two RabbitMQ connections, the four channels kept on them, *)
(* and the four goroutines that open them again.  A connection that dies   *)
(* tells its own notification channel first and the ones of its AMQP       *)
(* channels after, one at a time, and each message waits for its reader:   *)
(* amqp091-go, which is external, does this with the connection locked.    *)
(* The broker may also close one channel of a connection that lives.       *)
(* The goroutines read the package's variables without a lock.             *)
(*                                                                         *)
(* The three statements that follow Channel() in the four init functions   *)
(* are one step, and so are the three calls of initSendMsgQ, which the     *)
(* broker answers or does not.  The ready flags of the channels guard      *)
(* publications only and are left out.                                     *)
(***************************************************************************)
EXTENDS Naturals, Sequences

CONSTANTS
  Instances,      \* the slots that are kept, and a bound: deaths and closings
  MaxRefusals     \* bound: Dials that fail

Side == {"pub", "con"}
Slot == {"lastSeenPub", "saveMsg", "lastSeenCon", "sendMsg"}
SideOf == [sl \in Slot |-> IF sl \in {"lastSeenPub", "saveMsg"} THEN "pub" ELSE "con"]
SlotsOn == [s \in Side |-> {sl \in Slot : SideOf[sl] = s}]

Watcher == {"reconnSaveMsg", "reconnSendMsg", "reconnLastSeenCh"}
Goroutine == Watcher \union {"reconnConns"}
Watched == [w \in Watcher |-> IF w = "reconnSaveMsg" THEN {"saveMsg"}
                              ELSE IF w = "reconnSendMsg" THEN {"sendMsg"}
                              ELSE {"lastSeenPub", "lastSeenCon"}]

ASSUME RecoveryAssumption ==
  /\ \A x \in Instances : /\ {"saveMsg", "sendMsg"} \subseteq x.slots /\ x.slots \subseteq Slot
                          /\ x.faults \in Nat
  /\ MaxRefusals \in Nat

VARIABLES
  life,     \* per side, its connections so far: up, dead, or told, whose death has been read
  conn,     \* client.publishConn and consumeConn: which connection, 0 is nil
  note,     \* notifyPubConnClose and notifyConConnClose: of which connection
  ready,    \* client.isPubReady and isConReady
  chans,    \* per slot, its AMQP channels so far
  ch,       \* publishCh or consumeCh of the slot: which channel, 0 is nil
  chNote,   \* notifyPubChClose or notifyConChClose of the slot
  watch,    \* the notification a select waits on, 0 outside of it
  job,      \* what each goroutine is at
  holder,   \* the broker: the sendMsg channel that consumes the host's queue
  kept,     \* the broker has not noticed that the queue's connection died
  lost,     \* history: the error of a call erased a channel of a later connection
  denied,   \* history: the broker refused a Consume
  panicked, \* a goroutine dereferenced nil: the process ended
  faults,   \* connections that may yet die and channels the broker may yet close
  refusals

vars == <<life, conn, note, ready, chans, ch, chNote, watch, job, holder, kept,
          lost, denied, panicked, faults, refusals>>
fields == <<life, conn, note, ready, faults, refusals>>
broker == <<holder, kept>>

(* at: sleep, select, dial, check, channel, blocked, opening, queue or     *)
(* consuming; the slot and, from a call on, the connection or channel;     *)
(* the slots still to be initialised.                                      *)
Doing(at, sl, n, rest) == [at |-> at, slot |-> sl, n |-> n, rest |-> rest]
Asleep == Doing("sleep", "none", 0, <<>>)

Place == {"sleep", "select", "dial", "check", "channel", "blocked", "opening", "queue", "consuming"}
Job == [at : Place, slot : Slot \union {"none"}, n : Nat, rest : Seq(Slot)]

AmqpChannel == [conn : Nat \ {0}, noted : BOOLEAN, st : {"opening", "open", "jammed", "closing", "shut"}]

Kept(sl) == chans[sl] # <<>>

RecoveryTypeOK ==
  /\ life \in [Side -> Seq({"up", "dead", "told"})]
  /\ conn \in [Side -> Nat] /\ note \in [Side -> Nat] /\ ready \in [Side -> BOOLEAN]
  /\ \A s \in Side : /\ conn[s] <= Len(life[s]) /\ note[s] <= Len(life[s])
                     /\ ready[s] => conn[s] = Len(life[s])
                     /\ \A i \in 1..(Len(life[s]) - 1) : life[s][i] = "told"
  /\ chans \in [Slot -> Seq(AmqpChannel)]
  /\ ch \in [Slot -> Nat] /\ chNote \in [Slot -> Nat] /\ watch \in [Slot -> Nat]
  /\ \A sl \in Slot : /\ ch[sl] <= Len(chans[sl])
                      /\ chNote[sl] <= Len(chans[sl])
                      /\ chNote[sl] # 0 => chans[sl][chNote[sl]].noted
                      /\ watch[sl] <= Len(chans[sl])
                      /\ \A i \in DOMAIN chans[sl] : chans[sl][i].conn <= Len(life[SideOf[sl]])
  /\ job \in [Goroutine -> Job]
  /\ \A w \in Watcher : \A sl \in Watched[w] :
       watch[sl] # 0 <=> Kept(sl) /\ job[w].at = "select"
  /\ holder \in 0..Len(chans["sendMsg"])
  /\ kept \in BOOLEAN /\ lost \in BOOLEAN /\ denied \in BOOLEAN /\ panicked \in BOOLEAN
  /\ faults \in Nat /\ refusals \in 0..MaxRefusals

Open(c) == [conn |-> c, noted |-> TRUE, st |-> "open"]

(* saveMsg.go:66 opens a second channel and leaves it without NotifyClose. *)
Twice == <<Open(1), [conn |-> 1, noted |-> FALSE, st |-> "open"]>>

(* InitMq has returned. *)
Init ==
  /\ life = [s \in Side |-> <<"up">>]
  /\ conn = [s \in Side |-> 1] /\ note = [s \in Side |-> 1] /\ ready = [s \in Side |-> TRUE]
  /\ \E x \in Instances :
       /\ chans = [sl \in Slot |-> IF sl \notin x.slots THEN <<>>
                                  ELSE IF sl = "saveMsg" THEN Twice ELSE <<Open(1)>>]
       /\ faults = x.faults
  /\ ch = [sl \in Slot |-> Len(chans[sl])] /\ chNote = [sl \in Slot |-> IF Kept(sl) THEN 1 ELSE 0]
  /\ watch = [sl \in Slot |-> 0]
  /\ job = [g \in Goroutine |-> Asleep]
  /\ holder = 1 /\ kept = FALSE /\ lost = FALSE /\ denied = FALSE /\ panicked = FALSE
  /\ refusals = 0

-----------------------------------------------------------------------------
(* amqp091-go and the broker. *)

On(sl, c) == {i \in DOMAIN chans[sl] : chans[sl][i].conn = c}

(* The goroutine that reads a connection is held by the notification of a  *)
(* channel the broker closed: nothing that arrives is read any more.       *)
Jammed(s, c) == \E sl \in SlotsOn[s] : \E i \in On(sl, c) : chans[sl][i].st = "jammed"
Answers(s, c) == life[s][c] = "up" /\ ~Jammed(s, c)
Gone(s, c) == life[s][c] = "told" /\ \A sl \in SlotsOn[s] : \A i \in On(sl, c) : chans[sl][i].st = "shut"

ConnDies(s) ==
  /\ faults > 0 /\ life[s][Len(life[s])] = "up"
  /\ faults' = faults - 1
  /\ life' = [life EXCEPT ![s][Len(life[s])] = "dead"]
  /\ IF s = "con"
     THEN holder' = 0 /\ kept' \in {FALSE, kept \/ holder # 0}
     ELSE UNCHANGED <<holder, kept>>
  /\ UNCHANGED <<conn, note, ready, chans, ch, chNote, watch, job, lost, denied, panicked, refusals>>

BrokerNotices ==
  /\ kept /\ kept' = FALSE
  /\ UNCHANGED <<fields, chans, ch, chNote, watch, job, holder, lost, denied, panicked>>

(* Channel i of the slot gets into another state. *)
Moves(sl, i, st) == chans' = [chans EXCEPT ![sl][i].st = st]

(* A channel without NotifyClose is shut and nobody told. *)
ChannelCloses(sl) ==
  /\ faults > 0
  /\ \E i \in DOMAIN chans[sl] :
       /\ chans[sl][i].st = "open" /\ Answers(SideOf[sl], chans[sl][i].conn)
       /\ Moves(sl, i, IF chans[sl][i].noted THEN "jammed" ELSE "shut")
       /\ holder' = (IF sl = "sendMsg" /\ holder = i THEN 0 ELSE holder)
  /\ faults' = faults - 1
  /\ UNCHANGED <<life, conn, note, ready, ch, chNote, watch, job, kept, lost, denied, panicked, refusals>>

(* The shutdown goes on to a channel of the connection. *)
ShutChannel(s, c) ==
  /\ life[s][c] = "told"
  /\ \A sl \in SlotsOn[s] : \A i \in On(sl, c) : chans[sl][i].st # "closing"
  /\ \E sl \in SlotsOn[s] : \E i \in On(sl, c) :
       /\ chans[sl][i].st # "shut"
       /\ Moves(sl, i, IF chans[sl][i].noted THEN "closing" ELSE "shut")
  /\ UNCHANGED <<fields, ch, chNote, watch, job, broker, lost, denied, panicked>>

-----------------------------------------------------------------------------
(* What the goroutines have in common: init...Pub and init...Con. *)

Returned(j) == IF j.rest = <<>> THEN Asleep ELSE Doing("check", Head(j.rest), 0, Tail(j.rest))
Becomes(g, j) == job' = [job EXCEPT ![g] = j]
GoesTo(g, at, n) == Becomes(g, Doing(at, job[g].slot, n, job[g].rest))
At(g, at) == job[g].at = at

Check(g) ==
  /\ At(g, "check")
  /\ IF ready[SideOf[job[g].slot]] THEN GoesTo(g, "channel", 0) ELSE Becomes(g, Returned(job[g]))
  /\ UNCHANGED <<fields, chans, ch, chNote, watch, broker, lost, denied, panicked>>

(* Channel() on the connection that is the current one by now: it gets a   *)
(* number, waits for the lock of a connection that is shutting down, or    *)
(* panics on the nil a failed Dial left.                                   *)
Channel(g) ==
  /\ At(g, "channel")
  /\ LET sl == job[g].slot   s == SideOf[sl] IN
     \/ /\ conn[s] = 0 /\ panicked' = TRUE
        /\ UNCHANGED <<chans, job>>
     \/ /\ conn[s] # 0 /\ life[s][conn[s]] = "up"
        /\ chans' = [chans EXCEPT ![sl] = Append(@, [conn |-> conn[s], noted |-> FALSE, st |-> "opening"])]
        /\ GoesTo(g, "opening", Len(chans[sl]) + 1)
        /\ UNCHANGED panicked
     \/ /\ conn[s] # 0 /\ life[s][conn[s]] # "up"
        /\ GoesTo(g, "blocked", conn[s])
        /\ UNCHANGED <<chans, panicked>>
  /\ UNCHANGED <<fields, ch, chNote, watch, broker, lost, denied>>

(* Its error leaves nil in the variable, whoever has set it meanwhile. *)
ChannelFails(g) ==
  /\ LET sl == job[g].slot   n == job[g].n
         c == IF At(g, "blocked") THEN n ELSE chans[sl][n].conn IN
     /\ \/ At(g, "blocked") /\ Gone(SideOf[sl], c)
        \/ At(g, "opening") /\ chans[sl][n].st = "shut"
     /\ ch' = [ch EXCEPT ![sl] = 0]
     /\ lost' = (lost \/ (ch[sl] # 0 /\ chans[sl][ch[sl]].conn > c))
  /\ Becomes(g, Returned(job[g]))
  /\ UNCHANGED <<fields, chans, chNote, watch, broker, denied, panicked>>

(* Mutant: reconnConns calls initSendMsgCon(false). *)
Opened_NoQueue(g) ==
  /\ At(g, "opening")
  /\ LET sl == job[g].slot   n == job[g].n IN
     /\ chans[sl][n].st = "opening" /\ Answers(SideOf[sl], chans[sl][n].conn)
     /\ chans' = [chans EXCEPT ![sl][n] = Open(@.conn)]
     /\ ch' = [ch EXCEPT ![sl] = n] /\ chNote' = [chNote EXCEPT ![sl] = n]
     /\ IF sl = "sendMsg" /\ g # "reconnConns" THEN GoesTo(g, "queue", n) ELSE Becomes(g, Returned(job[g]))
  /\ UNCHANGED <<fields, watch, broker, lost, denied, panicked>>

(* Mutant: the notification channel is made and not registered. *)
Opened_Deaf(g) ==
  /\ At(g, "opening")
  /\ LET sl == job[g].slot   n == job[g].n IN
     /\ chans[sl][n].st = "opening" /\ Answers(SideOf[sl], chans[sl][n].conn)
     /\ Moves(sl, n, "open")
     /\ ch' = [ch EXCEPT ![sl] = n] /\ chNote' = [chNote EXCEPT ![sl] = n]
     /\ IF sl = "sendMsg" THEN GoesTo(g, "queue", n) ELSE Becomes(g, Returned(job[g]))
  /\ UNCHANGED <<fields, watch, broker, lost, denied, panicked>>

(* The channel is opened, kept and watched; sendMsg's goes on to its queue. *)
Opened(g) ==
  /\ At(g, "opening")
  /\ LET sl == job[g].slot   n == job[g].n IN
     /\ chans[sl][n].st = "opening" /\ Answers(SideOf[sl], chans[sl][n].conn)
     /\ chans' = [chans EXCEPT ![sl][n] = Open(@.conn)]
     /\ ch' = [ch EXCEPT ![sl] = n] /\ chNote' = [chNote EXCEPT ![sl] = n]
     /\ IF sl = "sendMsg" THEN GoesTo(g, "queue", n) ELSE Becomes(g, Returned(job[g]))
  /\ UNCHANGED <<fields, watch, broker, lost, denied, panicked>>

(* initSendMsgQ uses whichever channel the variable holds by now. *)
InitSendMsgQ(g) ==
  /\ At(g, "queue")
  /\ IF ch["sendMsg"] = 0
     THEN panicked' = TRUE /\ UNCHANGED job
     ELSE GoesTo(g, "consuming", ch["sendMsg"]) /\ UNCHANGED panicked
  /\ UNCHANGED <<fields, chans, ch, chNote, watch, broker, lost, denied>>

(* The queue is this channel's, or the broker closes the channel: the      *)
(* queue is another connection's, or has its one consumer.                 *)
Consume(g) ==
  /\ At(g, "consuming")
  /\ LET n == job[g].n IN
     /\ chans["sendMsg"][n].st = "open" /\ Answers("con", chans["sendMsg"][n].conn)
     /\ IF kept \/ holder # 0
        THEN /\ Moves("sendMsg", n, "jammed")
             /\ holder' = (IF holder = n THEN 0 ELSE holder)
             /\ denied' = TRUE
             /\ UNCHANGED job
        ELSE /\ holder' = n /\ Becomes(g, Returned(job[g]))
             /\ UNCHANGED <<chans, denied>>
  /\ UNCHANGED <<fields, ch, chNote, watch, kept, lost, panicked>>

ConsumeFails(g) ==
  /\ At(g, "consuming") /\ chans["sendMsg"][job[g].n].st = "shut"
  /\ Becomes(g, Returned(job[g]))
  /\ UNCHANGED <<fields, chans, ch, chNote, watch, broker, lost, denied, panicked>>

Call(g) == \/ Check(g) \/ Channel(g) \/ ChannelFails(g) \/ Opened(g)
           \/ InitSendMsgQ(g) \/ Consume(g) \/ ConsumeFails(g)

-----------------------------------------------------------------------------
(* reconnConns *)

(* Mutant: reconnConns leaves the last seen channels to their watcher. *)
Reinit_OneSlot(s) == IF s = "pub" THEN <<"saveMsg">> ELSE <<"sendMsg">>

(* The slots of a new connection, in the order of their init functions. *)
Reinit(s) ==
  LET first  == IF s = "pub" THEN "lastSeenPub" ELSE "lastSeenCon"
      second == IF s = "pub" THEN "saveMsg" ELSE "sendMsg" IN
  IF Kept(first) THEN <<first, second>> ELSE <<second>>

(* A notification that was read is closed after and can be read again. *)
ConnNotice(s) ==
  LET g == "reconnConns" IN
  /\ At(g, "sleep") /\ note[s] # 0 /\ life[s][note[s]] # "up"
  /\ life' = [life EXCEPT ![s][note[s]] = "told"]
  /\ Becomes(g, Doing("dial", Head(Reinit(s)), 0, Tail(Reinit(s))))
  /\ UNCHANGED <<conn, note, ready, chans, ch, chNote, watch, broker, lost, denied, panicked, faults, refusals>>

StopUse ==
  LET s == SideOf[job["reconnConns"].slot] IN
  /\ At("reconnConns", "dial") /\ ready[s]
  /\ ready' = [ready EXCEPT ![s] = FALSE]
  /\ UNCHANGED <<life, conn, note, chans, ch, chNote, watch, job, broker, lost, denied, panicked, faults, refusals>>

(* Mutant: the notification channel is made before Dial. *)
DialFails_NewNote ==
  LET s == SideOf[job["reconnConns"].slot] IN
  /\ At("reconnConns", "dial") /\ ~ready[s] /\ refusals < MaxRefusals
  /\ refusals' = refusals + 1
  /\ conn' = [conn EXCEPT ![s] = 0] /\ note' = [note EXCEPT ![s] = 0]
  /\ Becomes("reconnConns", Asleep)
  /\ UNCHANGED <<life, ready, chans, ch, chNote, watch, broker, lost, denied, panicked, faults>>

(* Dial: the connection is nil when it fails, and its notification still   *)
(* the old connection's.                                                   *)
DialFails ==
  LET s == SideOf[job["reconnConns"].slot] IN
  /\ At("reconnConns", "dial") /\ ~ready[s] /\ refusals < MaxRefusals
  /\ refusals' = refusals + 1
  /\ conn' = [conn EXCEPT ![s] = 0]
  /\ Becomes("reconnConns", Asleep)
  /\ UNCHANGED <<life, note, ready, chans, ch, chNote, watch, broker, lost, denied, panicked, faults>>

Dialed ==
  LET s == SideOf[job["reconnConns"].slot]   c == Len(life[s]) + 1 IN
  /\ At("reconnConns", "dial") /\ ~ready[s]
  /\ life' = [life EXCEPT ![s] = Append(@, "up")]
  /\ conn' = [conn EXCEPT ![s] = c] /\ note' = [note EXCEPT ![s] = c]
  /\ ready' = [ready EXCEPT ![s] = TRUE]
  /\ GoesTo("reconnConns", "check", 0)
  /\ UNCHANGED <<chans, ch, chNote, watch, broker, lost, denied, panicked, faults, refusals>>

ReconnConns == (\E s \in Side : ConnNotice(s)) \/ StopUse \/ DialFails \/ Dialed \/ Call("reconnConns")

-----------------------------------------------------------------------------
(* reconnSaveMsg, reconnSendMsg and reconnLastSeenCh *)

(* The variables are read when the select begins. *)
Select(w) ==
  /\ At(w, "sleep") /\ \E sl \in Watched[w] : Kept(sl)
  /\ watch' = [sl \in Slot |-> IF sl \in Watched[w] THEN chNote[sl] ELSE watch[sl]]
  /\ Becomes(w, Doing("select", "none", 0, <<>>))
  /\ UNCHANGED <<fields, chans, ch, chNote, broker, lost, denied, panicked>>

Notice(w) ==
  /\ At(w, "select")
  /\ \E sl \in Watched[w] :
       /\ watch[sl] # 0 /\ chans[sl][watch[sl]].st \in {"jammed", "closing", "shut"}
       /\ Moves(sl, watch[sl], "shut")
       /\ Becomes(w, Doing("check", sl, 0, <<>>))
  /\ watch' = [sl \in Slot |-> IF sl \in Watched[w] THEN 0 ELSE watch[sl]]
  /\ UNCHANGED <<fields, ch, chNote, broker, lost, denied, panicked>>

Watch(w) == Select(w) \/ Notice(w) \/ Call(w)

-----------------------------------------------------------------------------

Shutdown == \E s \in Side : \E c \in DOMAIN life[s] : ShutChannel(s, c)

Next ==
  /\ ~panicked
  /\ \/ \E s \in Side : ConnDies(s)
     \/ \E sl \in Slot : ChannelCloses(sl)
     \/ BrokerNotices \/ Shutdown \/ ReconnConns
     \/ \E w \in Watcher : Watch(w)

(* Goroutines that can go on do, and so do the library and the broker. *)
Spec == /\ Init /\ [][Next]_vars
        /\ WF_vars(~panicked /\ ReconnConns)
        /\ \A w \in Watcher : WF_vars(~panicked /\ Watch(w))
        /\ WF_vars(~panicked /\ Shutdown) /\ WF_vars(~panicked /\ BrokerNotices)

-----------------------------------------------------------------------------
(* Properties *)

(* reconnConns is inside a call that nothing will answer any more. *)
Stuck ==
  LET j == job["reconnConns"] IN
  \/ j.at = "blocked"
  \/ j.at = "opening" /\ ~Answers(SideOf[j.slot], chans[j.slot][j.n].conn)
  \/ j.at = "consuming" /\ ~Answers("con", chans["sendMsg"][j.n].conn)

(* A connection that dies is replaced however often that happens, whatever *)
(* Dials fail, with two exceptions: reconnConns stays for ever in a call   *)
(* on a connection whose death only it would read, or a watcher found nil. *)
ConnectionBack ==
  \A s \in Side : <>[](life[s][Len(life[s])] = "up") \/ <>[]Stuck \/ <>[]panicked

(* The slot's variable holds a channel of a connection in use. *)
InUse(sl) ==
  /\ ch[sl] # 0
  /\ chans[sl][ch[sl]].st = "open" /\ Answers(SideOf[sl], chans[sl][ch[sl]].conn)

Consumed == holder # 0 /\ Answers("con", chans["sendMsg"][holder].conn)

Latest(s) == life[s][Len(life[s])]

(* The slot's watcher waits for the end of this channel, or is about to. *)
Listened(sl, i) ==
  \E w \in Watcher : /\ sl \in Watched[w]
                     /\ \/ At(w, "sleep") /\ chNote[sl] = i
                        \/ At(w, "select") /\ watch[sl] = i

(* The channel in use was closed, and NotifyClose never called on it. *)
Unnoticed(sl) ==
  ch[sl] # 0 /\ chans[sl][ch[sl]].st = "shut" /\ ~chans[sl][ch[sl]].noted

(* The broker has closed a channel and no goroutine hears of it: it has no *)
(* NotifyClose, or its watcher is in a call or waits for another channel,  *)
(* and the connection is held by the notification.                         *)
Deaf ==
  \E s \in Side : \E sl \in SlotsOn[s] :
    \/ Unnoticed(sl)
    \/ \E i \in On(sl, Len(life[s])) : chans[sl][i].st = "jammed" /\ ~Listened(sl, i)

(* In the end all channels are open again and the host's queue consumed,   *)
(* whether a channel was closed or a whole connection died, unless a       *)
(* goroutine erased what another had opened, the broker refused a second   *)
(* consumer, nobody ever hears of the closing, or the connections did not  *)
(* come back.                                                              *)
ChannelsBack ==
  \/ <>[](Consumed /\ \A sl \in Slot : Kept(sl) => InUse(sl))
  \/ <>[]Stuck \/ <>[]panicked \/ <>[]Deaf \/ <>(lost \/ denied)

(* A goroutine is about to open the slot's channel on the latest           *)
(* connection, or to consume the host's queue from it.                     *)
Attended(sl) ==
  LET j == job["reconnConns"] IN
  \/ j.slot = sl \/ j.rest = <<sl>>
  \/ \E w \in Watcher :
       /\ job[w].slot = sl
       /\ \/ job[w].at \in {"check", "channel", "queue"}
          \/ At(w, "opening") /\ chans[sl][job[w].n].conn = Len(life[SideOf[sl]])
          \/ At(w, "consuming") /\ job[w].n = ch["sendMsg"]

(* The same at every moment, for each slot of a connection that is up and  *)
(* answers: its channel is open and in use, and the host's queue consumed, *)
(* or a goroutine is about to see to it.  Excepted are a channel that was  *)
(* closed and had no NotifyClose, and what follows when an error erased a  *)
(* channel or the broker refused a Consume.                                *)
NothingForgotten ==
  \A s \in Side : Answers(s, Len(life[s])) =>
    \A sl \in SlotsOn[s] : Kept(sl) =>
      \/ InUse(sl) /\ (sl = "sendMsg" => Consumed)
      \/ Attended(sl) \/ Unnoticed(sl) \/ lost \/ denied

(* The death of the connection has caught reconnConns in Channel(). *)
Hung ==
  LET j == job["reconnConns"] IN
  \/ j.at = "blocked"
  \/ j.at = "opening" /\ life[SideOf[j.slot]][chans[j.slot][j.n].conn] # "up"

(* It never gets out: the call is answered when the channels are told, and *)
(* they are told when reconnConns has read that the connection died.       *)
HungForGood == [][Hung => UNCHANGED job["reconnConns"]]_vars

=============================================================================
