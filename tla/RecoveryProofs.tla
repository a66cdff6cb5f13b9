---------------------------- MODULE RecoveryProofs ---------------------------
(***************************************************************************)
(* Theorems about Recovery, for every set of instances, every number of    *)
(* connections that die, channels that are closed and Dials that fail.     *)
(***************************************************************************)
EXTENDS Recovery, TLAPS

(* The slot's goroutine is at work on a channel. *)
Busy(w) == job[w].at \notin {"sleep", "select"}

(* The latest connection of a side is the one whose end reconnConns will   *)
(* read, and the one in use unless it was seen to be dead.                 *)
ConnsOK ==
  \A s \in Side :
    /\ life[s] # <<>>
    /\ note[s] = Len(life[s])
    /\ conn[s] \in {0, Len(life[s])}
    /\ ~ready[s] => Latest(s) = "told"

(* Each slot in use has had a notification channel. *)
NotesOK == \A sl \in Slot : Kept(sl) => chNote[sl] # 0

(* From Dial on reconnConns is at one side, on a connection whose end it   *)
(* cannot have read.                                                       *)
ReconnOK ==
  LET j == job["reconnConns"] IN
  /\ j.at # "select"
  /\ j.at = "sleep" => j.slot = "none" /\ j.rest = <<>>
  /\ j.at # "sleep" =>
       /\ j.slot \in Slot /\ Kept(j.slot)
       /\ \/ j.rest = <<>>
          \/ j.slot = "lastSeenPub" /\ j.rest = <<"saveMsg">>
          \/ j.slot = "lastSeenCon" /\ j.rest = <<"sendMsg">>
  /\ j.at = "dial" =>
       /\ Latest(SideOf[j.slot]) = "told"
       /\ \A sl \in SlotsOn[SideOf[j.slot]] : Kept(sl) => sl = j.slot \/ j.rest = <<sl>>
  /\ j.at \notin {"sleep", "dial"} => ready[SideOf[j.slot]] /\ Latest(SideOf[j.slot]) # "told"
  /\ j.at = "blocked" => j.n = Len(life[SideOf[j.slot]]) /\ Latest(SideOf[j.slot]) = "dead"
  /\ j.at = "opening" =>
       /\ j.n \in DOMAIN chans[j.slot]
       /\ chans[j.slot][j.n].conn = Len(life[SideOf[j.slot]])
       /\ chans[j.slot][j.n].st = "opening" /\ ~chans[j.slot][j.n].noted
  /\ j.at \in {"queue", "consuming"} => j.slot = "sendMsg"
  /\ j.at = "consuming" => j.n \in DOMAIN chans["sendMsg"]

WatchersOK ==
  \A w \in Watcher :
    /\ job[w].at # "dial"
    /\ job[w].rest = <<>>
    /\ ~Busy(w) => job[w].slot = "none"
    /\ Busy(w) => job[w].slot \in Watched[w] /\ Kept(job[w].slot)
    /\ job[w].at = "blocked" => job[w].n \in DOMAIN life[SideOf[job[w].slot]]
    /\ job[w].at = "opening" =>
         /\ job[w].n \in DOMAIN chans[job[w].slot]
         /\ LET k == chans[job[w].slot][job[w].n] IN
            /\ ~k.noted
            /\ \/ k.st = "opening"
               \/ k.st = "shut" /\ life[SideOf[job[w].slot]][k.conn] = "told"
    /\ job[w].at \in {"queue", "consuming"} => job[w].slot = "sendMsg"
    /\ job[w].at = "consuming" => job[w].n \in DOMAIN chans["sendMsg"]

(* A channel that is being opened is so by one goroutine. *)
OpenersApart ==
  \A g, h \in Goroutine :
    job[g].at = "opening" /\ job[h].at = "opening" /\ job[g].slot = job[h].slot /\ job[g].n = job[h].n
      => g = h

(* The goroutine opens the slot's channel on the latest connection, or has *)
(* yet to do so.                                                           *)
Opens(g, sl) ==
  \/ job[g].rest = <<sl>>
  \/ job[g].slot = sl /\ job[g].at \in {"check", "channel"}
  \/ /\ job[g].slot = sl /\ job[g].at = "opening"
     /\ chans[sl][job[g].n].conn = Len(life[SideOf[sl]])

(* The slot's channel belongs to the latest connection. *)
Fresh(sl) == ch[sl] # 0 /\ chans[sl][ch[sl]].conn = Len(life[SideOf[sl]])
OpenNow(sl) == Fresh(sl) /\ chans[sl][ch[sl]].st = "open"

(* It is open, or the broker has closed it and nobody has read that. *)
Held(sl) ==
  /\ Fresh(sl)
  /\ \/ chans[sl][ch[sl]].st \in {"open", "jammed"}
     \/ Unnoticed(sl)

(* A slot of a connection that is up has such a channel, or a goroutine    *)
(* that will open one.                                                     *)
SlotsOK ==
  \A sl \in Slot :
    Kept(sl) /\ Latest(SideOf[sl]) = "up" =>
      lost \/ Held(sl) \/ \E g \in Goroutine : Opens(g, sl)

(* The goroutine is about to consume the host's queue from the channel. *)
Consumes(g) == job[g].at = "queue" \/ (job[g].at = "consuming" /\ job[g].n = ch["sendMsg"])

ConsumerOK ==
  Latest("con") = "up" /\ OpenNow("sendMsg") =>
    denied \/ holder = ch["sendMsg"] \/ \E g \in Goroutine : Consumes(g)

IInv ==
  /\ RecoveryTypeOK /\ ConnsOK /\ ReconnOK /\ WatchersOK /\ OpenersApart
  /\ Kept("saveMsg") /\ Kept("sendMsg")
  /\ NotesOK /\ SlotsOK /\ ConsumerOK

-----------------------------------------------------------------------------
(* What the steps do to the channels. *)

State == {"opening", "open", "jammed", "closing", "shut"}

LEMMA ChannelTypes ==
  ASSUME RecoveryTypeOK
  PROVE  /\ chans \in [Slot -> Seq(AmqpChannel)]
         /\ \A sl \in Slot : \A i \in DOMAIN chans[sl] :
              /\ chans[sl][i] \in AmqpChannel
              /\ chans[sl][i].noted \in BOOLEAN /\ chans[sl][i].st \in State
              /\ chans[sl][i].conn \in Nat \ {0}
<1>1. chans \in [Slot -> Seq(AmqpChannel)]
  BY DEF RecoveryTypeOK
<1>2. \A sl \in Slot : \A i \in DOMAIN chans[sl] : chans[sl][i] \in AmqpChannel
  BY <1>1
<1> QED
  BY <1>1, <1>2 DEF AmqpChannel, State

(* Channel i of the slot becomes c. *)
LEMMA Replaced ==
  ASSUME chans \in [Slot -> Seq(AmqpChannel)], NEW sl \in Slot, NEW i \in DOMAIN chans[sl],
         NEW c \in AmqpChannel, chans' = [chans EXCEPT ![sl] = [chans[sl] EXCEPT ![i] = c]]
  PROVE  /\ chans' \in [Slot -> Seq(AmqpChannel)]
         /\ \A k \in Slot : Len(chans'[k]) = Len(chans[k]) /\ DOMAIN chans'[k] = DOMAIN chans[k]
         /\ \A k \in Slot : \A j \in DOMAIN chans[k] :
              chans'[k][j] = IF k = sl /\ j = i THEN c ELSE chans[k][j]
<1>1. PICK q : q = [chans[sl] EXCEPT ![i] = c]
  OBVIOUS
<1>2. /\ q \in Seq(AmqpChannel) /\ Len(q) = Len(chans[sl]) /\ DOMAIN q = DOMAIN chans[sl]
      /\ \A j \in DOMAIN chans[sl] : q[j] = IF j = i THEN c ELSE chans[sl][j]
  BY <1>1
<1>3. \A k \in Slot : chans'[k] = IF k = sl THEN q ELSE chans[k]
  BY <1>1
<1>4. chans' \in [Slot -> Seq(AmqpChannel)]
  BY <1>1, <1>2
<1> QED
  BY <1>2, <1>3, <1>4

(* It gets another state. *)
Moved(k, v) == [k EXCEPT !.st = v]

LEMMA MovedTo ==
  ASSUME NEW k \in AmqpChannel, NEW v \in State
  PROVE  /\ Moved(k, v) \in AmqpChannel
         /\ Moved(k, v).conn = k.conn /\ Moved(k, v).noted = k.noted /\ Moved(k, v).st = v
  BY DEF Moved, AmqpChannel, State

LEMMA Restated ==
  ASSUME RecoveryTypeOK, NEW sl \in Slot, NEW i \in DOMAIN chans[sl], NEW v \in State,
         Moves(sl, i, v)
  PROVE  /\ chans' \in [Slot -> Seq(AmqpChannel)]
         /\ \A k \in Slot : Len(chans'[k]) = Len(chans[k]) /\ DOMAIN chans'[k] = DOMAIN chans[k]
         /\ \A k \in Slot : \A j \in DOMAIN chans[k] :
              /\ chans'[k][j].conn = chans[k][j].conn
              /\ chans'[k][j].noted = chans[k][j].noted
              /\ chans'[k][j].st = IF k = sl /\ j = i THEN v ELSE chans[k][j].st
<1> DEFINE c == Moved(chans[sl][i], v)
<1>2. c \in AmqpChannel /\ c.conn = chans[sl][i].conn /\ c.noted = chans[sl][i].noted /\ c.st = v
  BY ChannelTypes, MovedTo
<1>3. chans' = [chans EXCEPT ![sl] = [chans[sl] EXCEPT ![i] = c]]
  BY DEF Moves, Moved
<1> HIDE DEF c
<1>4. /\ chans' \in [Slot -> Seq(AmqpChannel)]
      /\ \A k \in Slot : Len(chans'[k]) = Len(chans[k]) /\ DOMAIN chans'[k] = DOMAIN chans[k]
      /\ \A k \in Slot : \A j \in DOMAIN chans[k] :
           chans'[k][j] = IF k = sl /\ j = i THEN c ELSE chans[k][j]
  BY <1>2, <1>3, ChannelTypes, Replaced
<1> QED
  BY <1>2, <1>4

(* It is opened, and watched. *)
LEMMA OpenedNow ==
  ASSUME RecoveryTypeOK, NEW sl \in Slot, NEW n \in DOMAIN chans[sl],
         chans' = [chans EXCEPT ![sl][n] = Open(@.conn)]
  PROVE  /\ chans' \in [Slot -> Seq(AmqpChannel)]
         /\ \A k \in Slot : Len(chans'[k]) = Len(chans[k]) /\ DOMAIN chans'[k] = DOMAIN chans[k]
         /\ \A k \in Slot : \A j \in DOMAIN chans[k] :
              /\ chans'[k][j].conn = chans[k][j].conn
              /\ ~(k = sl /\ j = n) => chans'[k][j] = chans[k][j]
         /\ chans'[sl][n].noted /\ chans'[sl][n].st = "open"
<1>1. PICK c : c = Open(chans[sl][n].conn)
  OBVIOUS
<1>2. c \in AmqpChannel /\ c.conn = chans[sl][n].conn /\ c.noted = TRUE /\ c.st = "open"
  BY <1>1, ChannelTypes DEF AmqpChannel, Open
<1>3. chans' = [chans EXCEPT ![sl] = [chans[sl] EXCEPT ![n] = c]]
  BY <1>1
<1>4. /\ chans' \in [Slot -> Seq(AmqpChannel)]
      /\ \A k \in Slot : Len(chans'[k]) = Len(chans[k]) /\ DOMAIN chans'[k] = DOMAIN chans[k]
      /\ \A k \in Slot : \A j \in DOMAIN chans[k] :
           chans'[k][j] = IF k = sl /\ j = n THEN c ELSE chans[k][j]
  BY <1>2, <1>3, ChannelTypes, Replaced
<1> QED
  BY <1>2, <1>4

(* The slot gets a channel more. *)
LEMMA Appended ==
  ASSUME RecoveryTypeOK, NEW sl \in Slot, NEW c \in AmqpChannel,
         chans' = [chans EXCEPT ![sl] = Append(@, c)]
  PROVE  /\ chans' \in [Slot -> Seq(AmqpChannel)]
         /\ \A k \in Slot : Len(chans'[k]) = IF k = sl THEN Len(chans[k]) + 1 ELSE Len(chans[k])
         /\ \A k \in Slot : \A j \in DOMAIN chans[k] : j \in DOMAIN chans'[k] /\ chans'[k][j] = chans[k][j]
         /\ chans'[sl][Len(chans[sl]) + 1] = c
  BY ChannelTypes

LEMMA Sides ==
  /\ SideOf["lastSeenPub"] = "pub" /\ SideOf["saveMsg"] = "pub"
  /\ SideOf["lastSeenCon"] = "con" /\ SideOf["sendMsg"] = "con"
  /\ \A sl \in Slot : SideOf[sl] \in Side
  /\ SlotsOn["pub"] = {"lastSeenPub", "saveMsg"} /\ SlotsOn["con"] = {"lastSeenCon", "sendMsg"}
  /\ \A s \in Side : SlotsOn[s] = {sl \in Slot : SideOf[sl] = s}
<1>1. /\ SideOf["lastSeenPub"] = "pub" /\ SideOf["saveMsg"] = "pub"
      /\ SideOf["lastSeenCon"] = "con" /\ SideOf["sendMsg"] = "con"
      /\ \A sl \in Slot : SideOf[sl] \in Side
  BY DEF SideOf, Slot, Side
<1>2. \A s \in Side : SlotsOn[s] = {sl \in Slot : SideOf[sl] = s}
  BY DEF SlotsOn
<1> QED
  BY <1>1, <1>2 DEF Slot, Side

LEMMA Watchers ==
  /\ Watched["reconnSaveMsg"] = {"saveMsg"}
  /\ Watched["reconnSendMsg"] = {"sendMsg"}
  /\ Watched["reconnLastSeenCh"] = {"lastSeenPub", "lastSeenCon"}
  /\ \A w \in Watcher : Watched[w] \subseteq Slot
  BY DEF Watched, Watcher, Slot

(* The parts of the type invariant. *)
ConnTypes ==
  /\ life \in [Side -> Seq({"up", "dead", "told"})]
  /\ conn \in [Side -> Nat] /\ note \in [Side -> Nat] /\ ready \in [Side -> BOOLEAN]
  /\ \A s \in Side : /\ conn[s] <= Len(life[s]) /\ note[s] <= Len(life[s])
                     /\ ready[s] => conn[s] = Len(life[s])
                     /\ \A i \in 1..(Len(life[s]) - 1) : life[s][i] = "told"

ChanTypes ==
  /\ chans \in [Slot -> Seq(AmqpChannel)]
  /\ ch \in [Slot -> Nat] /\ chNote \in [Slot -> Nat] /\ watch \in [Slot -> Nat]
  /\ \A sl \in Slot : /\ ch[sl] <= Len(chans[sl])
                      /\ chNote[sl] <= Len(chans[sl])
                      /\ chNote[sl] # 0 => chans[sl][chNote[sl]].noted
                      /\ watch[sl] <= Len(chans[sl])
                      /\ \A i \in DOMAIN chans[sl] : chans[sl][i].conn <= Len(life[SideOf[sl]])

JobTypes ==
  /\ job \in [Goroutine -> Job]
  /\ \A w \in Watcher : \A sl \in Watched[w] :
       watch[sl] # 0 <=> Kept(sl) /\ job[w].at = "select"

RestTypes ==
  /\ holder \in 0..Len(chans["sendMsg"])
  /\ kept \in BOOLEAN /\ lost \in BOOLEAN /\ denied \in BOOLEAN /\ panicked \in BOOLEAN
  /\ faults \in Nat /\ refusals \in 0..MaxRefusals

LEMMA TypeParts == RecoveryTypeOK <=> ConnTypes /\ ChanTypes /\ JobTypes /\ RestTypes
  BY Zenon DEF RecoveryTypeOK, ConnTypes, ChanTypes, JobTypes, RestTypes

LEMMA TypesThen == ConnTypes' /\ ChanTypes' /\ JobTypes' /\ RestTypes' => RecoveryTypeOK'
  BY Zenon DEF RecoveryTypeOK, ConnTypes, ChanTypes, JobTypes, RestTypes

(* Goroutine g goes on. *)
LEMMA Became ==
  ASSUME RecoveryTypeOK, NEW g \in Goroutine, NEW j \in Job, Becomes(g, j)
  PROVE  job' \in [Goroutine -> Job] /\ job'[g] = j /\ \A h \in Goroutine \ {g} : job'[h] = job[h]
  BY DEF RecoveryTypeOK, Becomes

LEMMA Went ==
  ASSUME RecoveryTypeOK, NEW g \in Goroutine, NEW at \in Place, NEW n \in Nat, GoesTo(g, at, n)
  PROVE  /\ job' \in [Goroutine -> Job] /\ \A h \in Goroutine \ {g} : job'[h] = job[h]
         /\ job'[g].at = at /\ job'[g].slot = job[g].slot /\ job'[g].n = n /\ job'[g].rest = job[g].rest
<1> DEFINE j == Doing(at, job[g].slot, n, job[g].rest)
<1>1. j \in Job /\ j.at = at /\ j.slot = job[g].slot /\ j.n = n /\ j.rest = job[g].rest
  <2>1. job[g] \in Job
    BY DEF RecoveryTypeOK
  <2> QED
    BY <2>1 DEF Doing, Job
<1>2. Becomes(g, j)
  BY DEF GoesTo
<1> HIDE DEF j
<1> QED
  BY <1>1, <1>2, Became

(* A call returns: a watcher sleeps, reconnConns goes on to its next slot. *)
LEMMA CameBack ==
  ASSUME RecoveryTypeOK, ReconnOK, WatchersOK, NEW g \in Goroutine, Becomes(g, Returned(job[g])),
         job[g].at \notin {"sleep", "select"}
  PROVE  /\ job' \in [Goroutine -> Job] /\ \A h \in Goroutine \ {g} : job'[h] = job[h]
         /\ job'[g].rest = <<>> /\ job'[g].n = 0
         /\ \/ job[g].rest = <<>> /\ job'[g].at = "sleep" /\ job'[g].slot = "none"
            \/ /\ g = "reconnConns" /\ job'[g].at = "check" /\ job[g].rest = <<job'[g].slot>>
               /\ job'[g].slot \in {"saveMsg", "sendMsg"} /\ SideOf[job'[g].slot] = SideOf[job[g].slot]
<1>1. CASE job[g].rest = <<>>
  <2>1. Asleep \in Job /\ Asleep.at = "sleep" /\ Asleep.slot = "none" /\ Asleep.n = 0 /\ Asleep.rest = <<>>
    BY DEF Asleep, Doing, Job, Place
  <2>2. Becomes(g, Asleep)
    BY <1>1 DEF Returned
  <2> HIDE DEF Asleep
  <2> QED
    BY <1>1, <2>1, <2>2, Became
<1>2. CASE job[g].rest # <<>>
  <2>1. g = "reconnConns" /\ \E x \in {"saveMsg", "sendMsg"} : job[g].rest = <<x>> /\ SideOf[x] = SideOf[job[g].slot]
    BY <1>2, Sides DEF ReconnOK, WatchersOK, Goroutine
  <2>2. PICK x \in {"saveMsg", "sendMsg"} : job[g].rest = <<x>> /\ SideOf[x] = SideOf[job[g].slot]
    BY <2>1
  <2> DEFINE j == Doing("check", x, 0, <<>>)
  <2>3. j \in Job /\ j.at = "check" /\ j.slot = x /\ j.n = 0 /\ j.rest = <<>>
    BY DEF Doing, Job, Place, Slot
  <2>4. Becomes(g, j)
    <3>1. Head(<<x>>) = x /\ Tail(<<x>>) = <<>>
      OBVIOUS
    <3> QED
      BY <2>2, <3>1 DEF Returned
  <2> HIDE DEF j
  <2> QED
    BY <2>1, <2>2, <2>3, <2>4, Became
<1> QED
  BY <1>1, <1>2

-----------------------------------------------------------------------------
(* The initial states. *)

LEMMA InitIInv == Init => IInv
<1> SUFFICES ASSUME Init PROVE IInv
  OBVIOUS
<1>1. PICK x \in Instances :
        /\ chans = [sl \in Slot |-> IF sl \notin x.slots THEN <<>>
                                   ELSE IF sl = "saveMsg" THEN Twice ELSE <<Open(1)>>]
        /\ faults = x.faults
  BY DEF Init
<1>2. "saveMsg" \in x.slots /\ "sendMsg" \in x.slots /\ x.faults \in Nat /\ MaxRefusals \in Nat
  BY RecoveryAssumption
<1>3. PICK first, second :
        /\ Open(1) = first /\ Twice = <<first, second>>
        /\ first \in AmqpChannel /\ second \in AmqpChannel
        /\ first.conn = 1 /\ first.st = "open" /\ first.noted
        /\ second.conn = 1 /\ second.st = "open"
  <2> DEFINE f == [conn |-> 1, noted |-> TRUE, st |-> "open"]
             k == [conn |-> 1, noted |-> FALSE, st |-> "open"]
  <2>1. f \in AmqpChannel /\ k \in AmqpChannel /\ f.conn = 1 /\ f.st = "open" /\ f.noted
        /\ k.conn = 1 /\ k.st = "open"
    BY DEF AmqpChannel
  <2>2. Open(1) = f /\ Twice = <<f, k>>
    BY DEF Open, Twice
  <2> QED
    BY <2>1, <2>2
<1>4. /\ \A sl \in Slot : chans[sl] \in {<<>>, <<first>>, <<first, second>>}
      /\ chans["sendMsg"] = <<first>> /\ chans["saveMsg"] = <<first, second>>
      /\ \A sl \in Slot \ {"saveMsg"} : chans[sl] \in {<<>>, <<first>>}
      /\ DOMAIN chans = Slot
  BY <1>1, <1>2, <1>3 DEF Slot
<1>5. chans \in [Slot -> Seq(AmqpChannel)]
  <2>1. <<>> \in Seq(AmqpChannel) /\ <<first>> \in Seq(AmqpChannel) /\ <<first, second>> \in Seq(AmqpChannel)
    BY <1>3
  <2>3. \A sl \in Slot : chans[sl] \in Seq(AmqpChannel)
    BY <1>4, <2>1
  <2>2. chans = [sl \in Slot |-> chans[sl]]
    BY <1>1
  <2> QED
    BY <2>2, <2>3
<1>6. \A sl \in Slot : \A i \in DOMAIN chans[sl] :
        chans[sl][i].conn = 1 /\ chans[sl][i].st = "open" /\ chans[sl][1].noted
  <2> SUFFICES ASSUME NEW sl \in Slot, NEW i \in DOMAIN chans[sl]
               PROVE  chans[sl][i].conn = 1 /\ chans[sl][i].st = "open" /\ chans[sl][1].noted
    OBVIOUS
  <2>1. chans[sl] \in {<<first>>, <<first, second>>}
    BY <1>4
  <2>2. chans[sl] = <<first>> => i = 1 /\ chans[sl][1] = first
    OBVIOUS
  <2>3. chans[sl] = <<first, second>> => i \in {1, 2} /\ chans[sl][1] = first /\ chans[sl][2] = second
    OBVIOUS
  <2> QED
    BY <1>3, <2>1, <2>2, <2>3
<1>7. Kept("saveMsg") /\ Kept("sendMsg")
  BY <1>4 DEF Kept
<1>8. /\ \A s \in Side : Len(life[s]) = 1 /\ life[s][1] = "up" /\ life[s] # <<>>
      /\ \A s \in Side : conn[s] = 1 /\ note[s] = 1 /\ ready[s] = TRUE
      /\ \A g \in Goroutine : job[g] = Asleep
      /\ \A sl \in Slot : ch[sl] = Len(chans[sl]) /\ watch[sl] = 0
                          /\ chNote[sl] = IF chans[sl] # <<>> THEN 1 ELSE 0
      /\ holder = 1 /\ kept = FALSE /\ lost = FALSE /\ denied = FALSE /\ panicked = FALSE /\ refusals = 0
  BY DEF Init, Kept
<1>9. /\ Asleep.at = "sleep" /\ Asleep.slot = "none" /\ Asleep.rest = <<>> /\ Asleep.n = 0
      /\ Asleep \in Job
  BY DEF Asleep, Doing, Job, Place
<1>10. RecoveryTypeOK
  <2>1. life \in [Side -> Seq({"up", "dead", "told"})]
    BY DEF Init
  <2>2. conn \in [Side -> Nat] /\ note \in [Side -> Nat] /\ ready \in [Side -> BOOLEAN]
    BY DEF Init
  <2>3. /\ ch \in [Slot -> Nat] /\ chNote \in [Slot -> Nat] /\ watch \in [Slot -> Nat]
        /\ job \in [Goroutine -> Job]
    BY <1>5, <1>9 DEF Init
  <2>4. \A s \in Side : /\ conn[s] <= Len(life[s]) /\ note[s] <= Len(life[s])
                        /\ ready[s] => conn[s] = Len(life[s])
                        /\ \A i \in 1..(Len(life[s]) - 1) : life[s][i] = "told"
    <3> SUFFICES ASSUME NEW s \in Side
                 PROVE  /\ conn[s] <= Len(life[s]) /\ note[s] <= Len(life[s])
                        /\ ready[s] => conn[s] = Len(life[s])
                        /\ \A i \in 1..(Len(life[s]) - 1) : life[s][i] = "told"
      OBVIOUS
    <3>1. Len(life[s]) = 1 /\ conn[s] = 1 /\ note[s] = 1
      BY <1>8
    <3>2. 1..(Len(life[s]) - 1) = {}
      BY <3>1
    <3> QED
      BY <3>1, <3>2
  <2>5. \A sl \in Slot : /\ ch[sl] <= Len(chans[sl])
                         /\ chNote[sl] <= Len(chans[sl])
                         /\ chNote[sl] # 0 => chans[sl][chNote[sl]].noted
                         /\ watch[sl] <= Len(chans[sl])
                         /\ \A i \in DOMAIN chans[sl] : chans[sl][i].conn <= Len(life[SideOf[sl]])
    <3> SUFFICES ASSUME NEW sl \in Slot
                 PROVE /\ ch[sl] <= Len(chans[sl])
                       /\ chNote[sl] <= Len(chans[sl])
                       /\ chNote[sl] # 0 => chans[sl][chNote[sl]].noted
                       /\ watch[sl] <= Len(chans[sl])
                       /\ \A i \in DOMAIN chans[sl] : chans[sl][i].conn <= Len(life[SideOf[sl]])
      OBVIOUS
    <3>1. Len(chans[sl]) \in Nat /\ DOMAIN chans[sl] = 1..Len(chans[sl])
      BY <1>5
    <3>2. chans[sl] # <<>> => 1 \in DOMAIN chans[sl]
      BY <1>5
    <3>3. Len(life[SideOf[sl]]) = 1
      BY <1>8, Sides
    <3> QED
      BY <1>6, <1>8, <3>1, <3>2, <3>3
  <2>6. \A w \in Watcher : \A sl \in Watched[w] :
          watch[sl] # 0 <=> Kept(sl) /\ job[w].at = "select"
    BY <1>8, <1>9, Watchers DEF Goroutine
  <2>7. holder \in 0..Len(chans["sendMsg"])
    <3>1. Len(chans["sendMsg"]) = 1
      BY <1>4
    <3> QED
      BY <1>8, <3>1
  <2>8. /\ kept \in BOOLEAN /\ lost \in BOOLEAN /\ denied \in BOOLEAN /\ panicked \in BOOLEAN
        /\ faults \in Nat /\ refusals \in 0..MaxRefusals
    <3>1. faults = x.faults
      BY <1>1
    <3>2. kept \in BOOLEAN /\ lost \in BOOLEAN /\ denied \in BOOLEAN /\ panicked \in BOOLEAN
      BY <1>8, Zenon
    <3>3. refusals \in 0..MaxRefusals
      BY <1>2, <1>8
    <3> QED
      BY <1>2, <3>1, <3>2, <3>3, Zenon
  <2> QED
    BY <1>5, <2>1, <2>2, <2>3, <2>4, <2>5, <2>6, <2>7, <2>8 DEF RecoveryTypeOK
<1>11. ConnsOK
  BY <1>8 DEF ConnsOK, Latest
<1>13. ReconnOK /\ WatchersOK /\ OpenersApart
  BY <1>8, <1>9 DEF ReconnOK, WatchersOK, OpenersApart, Goroutine, Busy
<1>17. NotesOK
  BY <1>8 DEF NotesOK, Kept
<1>16. SlotsOK /\ ConsumerOK
  <2>1. ConsumerOK
    BY <1>4, <1>8 DEF ConsumerOK, Slot
  <2> SUFFICES ASSUME NEW sl \in Slot, Kept(sl) PROVE Held(sl)
    BY <2>1 DEF SlotsOK
  <2>2. ch[sl] # 0 /\ ch[sl] \in DOMAIN chans[sl]
    BY <1>5, <1>8 DEF Kept
  <2>3. Len(life[SideOf[sl]]) = 1
    BY <1>8, Sides
  <2> QED
    BY <1>6, <2>2, <2>3 DEF Held, Fresh
<1> QED
  BY <1>7, <1>10, <1>11, <1>13, <1>16, <1>17 DEF IInv

-----------------------------------------------------------------------------
(* Steps that leave the connections and the channels as they are. *)

LEMMA SameConns ==
  ASSUME IInv, UNCHANGED fields
  PROVE  ConnTypes' /\ ConnsOK' /\ \A s \in Side : Latest(s)' = Latest(s)
  BY TypeParts DEF IInv, fields, ConnTypes, ConnsOK, Latest

LEMMA SameChans ==
  ASSUME IInv, UNCHANGED chans
  PROVE  /\ Kept("saveMsg")' /\ Kept("sendMsg")'
         /\ \A sl \in Slot : Kept(sl)' <=> Kept(sl)
  BY DEF IInv, Kept

LEMMA SameRest ==
  ASSUME IInv, UNCHANGED <<chans, holder, kept, faults, refusals>>,
         UNCHANGED denied, UNCHANGED lost \/ lost' \in BOOLEAN, UNCHANGED panicked \/ panicked' = TRUE
  PROVE  RestTypes'
<1>1. RestTypes
  BY TypeParts DEF IInv
<1>2. holder' \in 0..Len(chans'["sendMsg"])
  BY <1>1 DEF RestTypes
<1>3. kept' \in BOOLEAN /\ lost' \in BOOLEAN /\ denied' \in BOOLEAN /\ panicked' \in BOOLEAN
  BY <1>1, Zenon DEF RestTypes
<1>4. faults' \in Nat /\ refusals' \in 0..MaxRefusals
  BY <1>1 DEF RestTypes
<1> QED
  BY <1>2, <1>3, <1>4, Zenon DEF RestTypes

(* Where goroutine g is after a step that changes nothing else but, at     *)
(* most, that its slot holds no channel any more.                          *)
LEMMA CallTypes ==
  ASSUME IInv, NEW g \in Goroutine, UNCHANGED <<fields, chans, chNote, watch, broker>>,
         ch' \in {ch, [ch EXCEPT ![job[g].slot] = 0]},
         UNCHANGED denied, UNCHANGED lost \/ lost' \in BOOLEAN, UNCHANGED panicked \/ panicked' = TRUE,
         job' \in [Goroutine -> Job], \A h \in Goroutine \ {g} : job'[h] = job[h],
         job[g].at # "select", job'[g].at # "select"
  PROVE  /\ RecoveryTypeOK' /\ ConnsOK' /\ Kept("saveMsg")' /\ Kept("sendMsg")' /\ NotesOK'
         /\ \A s \in Side : Latest(s)' = Latest(s)
         /\ \A sl \in Slot : Latest(SideOf[sl])' = Latest(SideOf[sl]) /\ (Kept(sl)' <=> Kept(sl))
<1>1. /\ UNCHANGED <<life, conn, note, ready, chans, chNote, watch, holder, kept, faults, refusals>>
      /\ ch' \in [Slot -> Nat] /\ \A sl \in Slot : ch'[sl] \in {ch[sl], 0}
  <2>1. ch \in [Slot -> Nat]
    BY TypeParts DEF IInv, ChanTypes
  <2> QED
    BY <2>1 DEF fields, broker
<1>2. JobTypes'
  BY <1>1, TypeParts DEF IInv, JobTypes, Kept, Goroutine
<1>3. ChanTypes'
  <2>1. \A sl \in Slot : ch'[sl] <= Len(chans[sl])
    <3>1. \A sl \in Slot : Len(chans[sl]) \in Nat /\ ch[sl] <= Len(chans[sl])
      BY TypeParts DEF IInv, ChanTypes
    <3> QED
      BY <1>1, <3>1
  <2> QED
    BY <1>1, <2>1, TypeParts DEF IInv, ChanTypes
<1>4. RestTypes'
  <2>1. UNCHANGED <<chans, holder, kept, faults, refusals>>
    BY <1>1
  <2> QED
    BY <2>1, SameRest, Zenon
<1>5. ConnTypes' /\ ConnsOK' /\ \A s \in Side : Latest(s)' = Latest(s)
  BY <1>1, SameConns
<1>6. RecoveryTypeOK'
  BY <1>2, <1>3, <1>4, <1>5, TypesThen
<1>7. NotesOK'
  BY <1>1 DEF IInv, NotesOK, Kept
<1> QED
  BY <1>1, <1>5, <1>6, <1>7, SameChans, Sides

(* Where a goroutine that opens channels is. *)
LEMMA AtWork ==
  ASSUME IInv, NEW g \in Goroutine, job[g].at \notin {"sleep", "select"}
  PROVE  /\ job[g].slot \in Slot /\ Kept(job[g].slot) /\ SideOf[job[g].slot] \in Side
         /\ g = "reconnSendMsg" => job[g].slot = "sendMsg" /\ SideOf[job[g].slot] = "con"
         /\ g # "reconnConns" => g \in Watcher /\ job[g].slot \in Watched[g] /\ job[g].rest = <<>>
  BY ZenonT(40), Sides, Watchers DEF IInv, ReconnOK, WatchersOK, Busy, Goroutine, Watcher

(* A goroutine that waits for the number of a channel knows it. *)
LEMMA OpenersKnown ==
  ASSUME IInv, NEW g \in Goroutine, job[g].at = "opening"
  PROVE  job[g].slot \in Slot /\ job[g].n \in DOMAIN chans[job[g].slot]
<1>1. job[g].slot \in Slot
  BY AtWork
<1> QED
  BY <1>1 DEF IInv, ReconnOK, WatchersOK, Goroutine

(* Of the goroutines only g moves, and what it was to do for a slot it is  *)
(* still to do, or it is done.                                             *)
LEMMA SlotsStay ==
  ASSUME IInv, NEW g \in Goroutine, UNCHANGED life,
         \A h \in Goroutine \ {g} : job'[h] = job[h],
         \A sl \in Slot : Kept(sl)' <=> Kept(sl),
         \A sl \in Slot : \A i \in DOMAIN chans[sl] : chans'[sl][i].conn = chans[sl][i].conn,
         lost => lost',
         \A sl \in Slot : Kept(sl) /\ Latest(SideOf[sl]) = "up" /\ (Opens(g, sl) \/ Held(sl))
                           => lost' \/ Opens(g, sl)' \/ Held(sl)'
  PROVE  SlotsOK'
<1> SUFFICES ASSUME NEW sl \in Slot, Kept(sl)', Latest(SideOf[sl])' = "up", ~lost', ~Held(sl)'
             PROVE  \E h \in Goroutine : Opens(h, sl)'
  BY DEF SlotsOK
<1>1. Kept(sl) /\ Latest(SideOf[sl]) = "up" /\ ~lost
  BY DEF Latest
<1>2. CASE Held(sl)
  BY <1>1, <1>2
<1>3. CASE ~Held(sl)
  <2>1. PICK h \in Goroutine : Opens(h, sl)
    BY <1>1, <1>3 DEF IInv, SlotsOK
  <2>2. CASE h = g
    BY <1>1, <2>1, <2>2
  <2>3. CASE h # g
    <3>1. job'[h] = job[h]
      BY <2>3
    <3>2. job[h].at = "opening" /\ job[h].slot = sl =>
            chans'[sl][job[h].n].conn = chans[sl][job[h].n].conn
      BY OpenersKnown
    <3> QED
      BY <2>1, <3>1, <3>2 DEF Opens
  <2> QED
    BY <2>2, <2>3
<1> QED
  BY <1>2, <1>3

LEMMA ConsumerStays ==
  ASSUME IInv, NEW g \in Goroutine, UNCHANGED life,
         \A h \in Goroutine \ {g} : job'[h] = job[h],
         denied => denied',
         OpenNow("sendMsg")' /\ Latest("con") = "up" =>
           /\ OpenNow("sendMsg") /\ ch'["sendMsg"] = ch["sendMsg"]
           /\ Consumes(g) \/ holder = ch["sendMsg"]
                => denied' \/ Consumes(g)' \/ holder' = ch["sendMsg"]
  PROVE  ConsumerOK'
<1> SUFFICES ASSUME Latest("con")' = "up", OpenNow("sendMsg")', ~denied', holder' # ch'["sendMsg"]
             PROVE  \E h \in Goroutine : Consumes(h)'
  BY DEF ConsumerOK
<1>1. /\ Latest("con") = "up" /\ OpenNow("sendMsg") /\ ch'["sendMsg"] = ch["sendMsg"] /\ ~denied
      /\ Consumes(g) \/ holder = ch["sendMsg"] => Consumes(g)'
  BY DEF Latest
<1>2. CASE holder = ch["sendMsg"]
  BY <1>1, <1>2
<1>3. CASE holder # ch["sendMsg"]
  <2>1. PICK h \in Goroutine : Consumes(h)
    BY <1>1, <1>3 DEF IInv, ConsumerOK
  <2>2. CASE h = g
    BY <1>1, <2>1, <2>2
  <2>3. CASE h # g
    <3>1. job'[h] = job[h]
      BY <2>3
    <3> QED
      BY <1>1, <2>1, <3>1 DEF Consumes
  <2> QED
    BY <2>2, <2>3
<1> QED
  BY <1>2, <1>3

(* The slots' channels are the same ones. *)
LEMMA SameSlots ==
  ASSUME UNCHANGED <<life, chans, ch>>
  PROVE  \A sl \in Slot : /\ (Fresh(sl)' <=> Fresh(sl)) /\ (OpenNow(sl)' <=> OpenNow(sl))
                          /\ (Held(sl)' <=> Held(sl))
  BY DEF Fresh, OpenNow, Held, Unnoticed

LEMMA CheckStep ==
  ASSUME IInv, NEW g \in Goroutine, Check(g)
  PROVE  IInv'
<1> USE DEF IInv
<1>1. /\ job[g].at = "check" /\ UNCHANGED <<fields, chans, ch, chNote, watch, broker>> /\ UNCHANGED <<lost, denied, panicked>>
      /\ UNCHANGED <<life, ready, chans, ch, holder>>
      /\ job[g].slot \in Slot
  BY DEF Check, At, fields, broker, ReconnOK, WatchersOK, Busy, Goroutine, Watched, Watcher, Slot
<1>2. /\ job' \in [Goroutine -> Job] /\ \A h \in Goroutine \ {g} : job'[h] = job[h]
      /\ \/ /\ job'[g].at = "channel" /\ job'[g].slot = job[g].slot /\ job'[g].rest = job[g].rest
            /\ ready[SideOf[job[g].slot]]
         \/ /\ g \in Watcher /\ ~ready[SideOf[job[g].slot]]
            /\ job'[g].at = "sleep" /\ job'[g].slot = "none" /\ job'[g].rest = <<>>
  <2>1. CASE ready[SideOf[job[g].slot]]
    <3>1. GoesTo(g, "channel", 0)
      BY <2>1 DEF Check
    <3> QED
      BY <2>1, <3>1, Went DEF Place
  <2>2. CASE ~ready[SideOf[job[g].slot]]
    <3>1. Becomes(g, Returned(job[g])) /\ g \in Watcher
      BY <1>1, <2>2 DEF Check, ReconnOK, Goroutine
    <3> QED
      BY <1>1, <2>2, <3>1, CameBack DEF Watcher
  <2> QED
    BY <2>1, <2>2
<1>3. /\ RecoveryTypeOK' /\ ConnsOK' /\ Kept("saveMsg")' /\ Kept("sendMsg")' /\ NotesOK'
      /\ \A sl \in Slot : Latest(SideOf[sl])' = Latest(SideOf[sl]) /\ (Kept(sl)' <=> Kept(sl))
  BY <1>1, <1>2, CallTypes
<1>4. ReconnOK'
  BY <1>1, <1>2 DEF ReconnOK, Latest, Kept, Goroutine, Watcher
<1>5. WatchersOK'
  <2> SUFFICES ASSUME NEW w \in Watcher PROVE WatchersOK!(w)'
    BY DEF WatchersOK
  <2>1. w \in Goroutine
    BY DEF Goroutine
  <2>2. CASE w # g
    BY <1>1, <1>2, <2>1, <2>2 DEF WatchersOK, Kept, Busy
  <2>3. CASE w = g
    BY <1>1, <1>2, <2>1, <2>3 DEF WatchersOK, Kept, Busy
  <2> QED
    BY <2>2, <2>3
<1>6. OpenersApart'
  BY <1>1, <1>2 DEF OpenersApart
<1>7. ~ready[SideOf[job[g].slot]] => Latest(SideOf[job[g].slot]) = "told"
  BY <1>1, Sides DEF ConnsOK
<1>8. \A sl \in Slot : Latest(SideOf[sl]) = "up" /\ Opens(g, sl) => Opens(g, sl)'
  BY <1>1, <1>2, <1>7 DEF Opens, WatchersOK
<1>9. SlotsOK'
  BY <1>1, <1>2, <1>3, <1>8, SameSlots, SlotsStay
<1>10. ConsumerOK'
  <2>1. ~Consumes(g)
    BY <1>1 DEF Consumes
  <2> QED
    BY <1>1, <1>2, <2>1, SameSlots, ConsumerStays DEF Slot
<1> QED
  BY <1>3, <1>4, <1>5, <1>6, <1>9, <1>10

LEMMA InitSendMsgQStep ==
  ASSUME IInv, NEW g \in Goroutine, InitSendMsgQ(g)
  PROVE  IInv'
<1> USE DEF IInv
<1>1. /\ job[g].at = "queue" /\ UNCHANGED <<fields, chans, ch, chNote, watch, broker>> /\ UNCHANGED <<lost, denied>>
      /\ UNCHANGED <<life, ready, chans, ch, holder>>
      /\ job[g].slot = "sendMsg"
      /\ UNCHANGED panicked \/ panicked' = TRUE
  BY DEF InitSendMsgQ, At, fields, broker, ReconnOK, WatchersOK, Goroutine
<1>2. /\ job' \in [Goroutine -> Job] /\ \A h \in Goroutine \ {g} : job'[h] = job[h]
      /\ job'[g].at \in {"queue", "consuming"} /\ job'[g].slot = job[g].slot /\ job'[g].rest = job[g].rest
      /\ job'[g].at = "consuming" => job'[g].n = ch["sendMsg"] /\ job'[g].n # 0
  <2>1. CASE ch["sendMsg"] = 0
    BY <1>1, <2>1, TypeParts DEF InitSendMsgQ, JobTypes
  <2>2. CASE ch["sendMsg"] # 0
    <3>1. GoesTo(g, "consuming", ch["sendMsg"])
      BY <2>2 DEF InitSendMsgQ
    <3>2. ch["sendMsg"] \in Nat
      BY TypeParts DEF ChanTypes, Slot
    <3> QED
      BY <2>2, <3>1, <3>2, Went DEF Place
  <2> QED
    BY <2>1, <2>2
<1>3. /\ RecoveryTypeOK' /\ ConnsOK' /\ Kept("saveMsg")' /\ Kept("sendMsg")' /\ NotesOK'
      /\ \A sl \in Slot : Latest(SideOf[sl])' = Latest(SideOf[sl]) /\ (Kept(sl)' <=> Kept(sl))
  BY <1>1, <1>2, CallTypes
<1>4. job'[g].at = "consuming" => job'[g].n \in DOMAIN chans["sendMsg"]
  BY <1>2, TypeParts DEF ChanTypes, Slot
<1>5. ReconnOK'
  BY <1>1, <1>2, <1>4 DEF ReconnOK, Latest, Kept, Goroutine, Watcher
<1>6. WatchersOK'
  <2> SUFFICES ASSUME NEW w \in Watcher PROVE WatchersOK!(w)'
    BY DEF WatchersOK
  <2>1. w \in Goroutine
    BY DEF Goroutine
  <2>2. CASE w # g
    <3>1. job'[w] = job[w] /\ WatchersOK!(w)
      BY <1>2, <2>1, <2>2 DEF WatchersOK
    <3>2. chans' = chans /\ life' = life
      BY <1>1
    <3> QED
      BY <3>1, <3>2 DEF Kept, Busy
  <2>3. CASE w = g
    BY <1>1, <1>2, <1>4, <2>1, <2>3 DEF WatchersOK, Kept, Busy
  <2> QED
    BY <2>2, <2>3
<1>7. OpenersApart'
  BY <1>1, <1>2 DEF OpenersApart
<1>8. job[g].rest = <<>>
  BY <1>1 DEF ReconnOK, WatchersOK, Goroutine, Slot
<1>9. SlotsOK'
  <2>1. \A sl \in Slot : ~Opens(g, sl)
    BY <1>1, <1>8 DEF Opens
  <2> QED
    BY <1>1, <1>2, <1>3, <2>1, SameSlots, SlotsStay
<1>10. ConsumerOK'
  <2>1. Consumes(g)'
    BY <1>1, <1>2 DEF Consumes
  <2> QED
    BY <1>1, <1>2, <2>1, SameSlots, ConsumerStays DEF Slot
<1> QED
  BY <1>3, <1>5, <1>6, <1>7, <1>9, <1>10

LEMMA ConsumeFailsStep ==
  ASSUME IInv, NEW g \in Goroutine, ConsumeFails(g)
  PROVE  IInv'
<1> USE DEF IInv
<1>1. /\ job[g].at = "consuming" /\ UNCHANGED <<fields, chans, ch, chNote, watch, broker>> /\ UNCHANGED <<lost, denied, panicked>>
      /\ UNCHANGED <<life, ready, chans, ch, holder>>
      /\ job[g].slot = "sendMsg" /\ job[g].rest = <<>>
      /\ chans["sendMsg"][job[g].n].st = "shut"
  BY DEF ConsumeFails, At, fields, broker, ReconnOK, WatchersOK, Goroutine
<1>2. /\ job' \in [Goroutine -> Job] /\ \A h \in Goroutine \ {g} : job'[h] = job[h]
      /\ job'[g].at = "sleep" /\ job'[g].slot = "none" /\ job'[g].rest = <<>>
  BY SMTT(20), <1>1, CameBack DEF ConsumeFails
<1>3. /\ RecoveryTypeOK' /\ ConnsOK' /\ Kept("saveMsg")' /\ Kept("sendMsg")' /\ NotesOK'
      /\ \A sl \in Slot : Latest(SideOf[sl])' = Latest(SideOf[sl]) /\ (Kept(sl)' <=> Kept(sl))
  BY <1>1, <1>2, CallTypes
<1>4. ReconnOK'
  BY <1>1, <1>2 DEF ReconnOK, Latest, Kept, Goroutine, Watcher
<1>5. WatchersOK'
  <2> SUFFICES ASSUME NEW w \in Watcher PROVE WatchersOK!(w)'
    BY DEF WatchersOK
  <2>1. w \in Goroutine
    BY DEF Goroutine
  <2>2. CASE w # g
    BY <1>1, <1>2, <2>1, <2>2 DEF WatchersOK, Kept, Busy
  <2>3. CASE w = g
    BY <1>1, <1>2, <2>1, <2>3 DEF WatchersOK, Kept, Busy
  <2> QED
    BY <2>2, <2>3
<1>6. OpenersApart'
  BY <1>1, <1>2 DEF OpenersApart
<1>7. SlotsOK'
  <2>1. \A sl \in Slot : ~Opens(g, sl)
    BY <1>1 DEF Opens
  <2> QED
    BY <1>1, <1>2, <1>3, <2>1, SameSlots, SlotsStay
<1>8. ConsumerOK'
  <2>1. OpenNow("sendMsg") => ~Consumes(g)
    BY <1>1 DEF Consumes, OpenNow
  <2> QED
    BY <1>1, <1>2, <2>1, SameSlots, ConsumerStays DEF Slot
<1> QED
  BY <1>3, <1>4, <1>5, <1>6, <1>7, <1>8

(* The death of a connection that reconnConns opens something on has not   *)
(* been read, so no call of reconnConns ends with an error.                *)
LEMMA OnlyWatchersFail ==
  ASSUME IInv, NEW g \in Goroutine, ChannelFails(g)
  PROVE  g \in Watcher
<1> SUFFICES ASSUME g = "reconnConns" PROVE FALSE
  BY DEF Goroutine
<1> USE DEF IInv
<1>1. CASE job[g].at = "blocked"
  BY <1>1 DEF ChannelFails, At, ReconnOK, Gone, Latest
<1>2. CASE job[g].at = "opening"
  BY <1>2 DEF ChannelFails, At, ReconnOK
<1> QED
  BY <1>1, <1>2 DEF ChannelFails, At

LEMMA ChannelFailsStep ==
  ASSUME IInv, NEW g \in Goroutine, ChannelFails(g)
  PROVE  IInv'
<1> USE DEF IInv
<1> DEFINE sl == job[g].slot
           c == IF At(g, "blocked") THEN job[g].n ELSE chans[sl][job[g].n].conn
<1>1. /\ g \in Watcher /\ job[g].at \in {"blocked", "opening"} /\ sl \in Slot /\ sl \in Watched[g]
      /\ UNCHANGED <<fields, chans, chNote, watch, broker>> /\ UNCHANGED <<denied, panicked>>
      /\ UNCHANGED <<life, ready, chans, holder>>
      /\ job[g].rest = <<>>
  BY OnlyWatchersFail, Watchers DEF ChannelFails, At, fields, broker, WatchersOK, Busy
<1>2. /\ ch' = [ch EXCEPT ![sl] = 0]
      /\ lost' = (lost \/ (ch[sl] # 0 /\ chans[sl][ch[sl]].conn > c))
      /\ Becomes(g, Returned(job[g]))
  BY DEF ChannelFails
<1>3. c \in Nat /\ c <= Len(life[SideOf[sl]]) /\ life[SideOf[sl]][c] = "told"
  <2>1. CASE job[g].at = "blocked"
    <3>1. c = job[g].n /\ c \in DOMAIN life[SideOf[sl]] /\ SideOf[sl] \in Side
      BY <1>1, <2>1, Sides DEF At, WatchersOK
    <3>2. Gone(SideOf[sl], c)
      BY <2>1 DEF ChannelFails, At
    <3> QED
      <4>1. life[SideOf[sl]] \in Seq({"up", "dead", "told"}) /\ life[SideOf[sl]][c] = "told"
        BY <3>1, <3>2, TypeParts DEF ConnTypes, Gone
      <4> HIDE DEF c
      <4> QED
        BY <3>1, <4>1
  <2>2. CASE job[g].at = "opening"
    <3>1. /\ c = chans[sl][job[g].n].conn /\ job[g].n \in DOMAIN chans[sl]
          /\ chans[sl][job[g].n].st = "shut"
      BY <1>1, <2>2 DEF At, WatchersOK, ChannelFails
    <3>2. c \in Nat /\ c <= Len(life[SideOf[sl]])
      BY <1>1, <3>1, TypeParts, ChannelTypes DEF ChanTypes
    <3> QED
      BY <1>1, <2>2, <3>1, <3>2 DEF WatchersOK
  <2> QED
    BY <1>1, <2>1, <2>2
<1>4. Fresh(sl) => lost' = TRUE \/ Latest(SideOf[sl]) = "told"
  <2>1. Len(life[SideOf[sl]]) \in Nat
    BY <1>1, Sides, TypeParts DEF ConnTypes
  <2>2. CASE c = Len(life[SideOf[sl]])
    BY <1>3, <2>2 DEF Latest
  <2>3. CASE c # Len(life[SideOf[sl]])
    <3>1. c < Len(life[SideOf[sl]])
      BY <1>3, <2>1, <2>3
    <3> HIDE DEF c
    <3> QED
      BY <1>2, <3>1 DEF Fresh
  <2> QED
    BY <2>2, <2>3
<1>5. /\ ch' \in [Slot -> Nat] /\ ch'[sl] = 0 /\ \A k \in Slot \ {sl} : ch'[k] = ch[k]
      /\ lost' \in BOOLEAN /\ (lost => lost')
  <2>1. ch \in [Slot -> Nat] /\ lost \in BOOLEAN
    BY TypeParts DEF ChanTypes, RestTypes
  <2>2. lost' \in BOOLEAN /\ (lost => lost')
    BY <1>2, <2>1, Zenon
  <2> QED
    BY <1>1, <1>2, <2>1, <2>2
<1>6. /\ job' \in [Goroutine -> Job] /\ \A h \in Goroutine \ {g} : job'[h] = job[h]
      /\ job'[g].at = "sleep" /\ job'[g].slot = "none" /\ job'[g].rest = <<>>
  <2>1. Becomes(g, Returned(job[g])) /\ job[g].at \notin {"sleep", "select"} /\ job[g].rest = <<>>
    BY <1>1, <1>2
  <2>2. g # "reconnConns"
    BY <1>1 DEF Watcher
  <2> QED
    BY <2>1, <2>2, CameBack
<1>7. /\ RecoveryTypeOK' /\ ConnsOK' /\ Kept("saveMsg")' /\ Kept("sendMsg")' /\ NotesOK'
      /\ \A k \in Slot : Latest(SideOf[k])' = Latest(SideOf[k]) /\ (Kept(k)' <=> Kept(k))
  <2>1. UNCHANGED lost \/ lost' \in BOOLEAN
    BY <1>5, Zenon
  <2>2. ch' \in {ch, [ch EXCEPT ![job[g].slot] = 0]}
    BY <1>2
  <2>3. job[g].at # "select" /\ job'[g].at # "select"
    BY <1>1, <1>6
  <2> QED
    BY <1>1, <1>6, <2>1, <2>2, <2>3, CallTypes
<1> HIDE DEF c
<1>8. ReconnOK'
  BY <1>1, <1>6 DEF ReconnOK, Latest, Kept, Goroutine, Watcher
<1>9. WatchersOK'
  <2> SUFFICES ASSUME NEW w \in Watcher PROVE WatchersOK!(w)'
    BY DEF WatchersOK
  <2>1. w \in Goroutine
    BY DEF Goroutine
  <2>2. CASE w # g
    BY <1>1, <1>6, <2>1, <2>2 DEF WatchersOK, Kept, Busy
  <2>3. CASE w = g
    BY <1>1, <1>6, <2>1, <2>3 DEF WatchersOK, Kept, Busy
  <2> QED
    BY <2>2, <2>3
<1>10. OpenersApart'
  BY <1>1, <1>6 DEF OpenersApart
<1>11. \A k \in Slot \ {sl} : (OpenNow(k)' <=> OpenNow(k)) /\ (Held(k)' <=> Held(k))
  BY <1>1, <1>5 DEF OpenNow, Fresh, Held, Unnoticed
<1>12. SlotsOK'
  <2>1. \A k \in Slot : Opens(g, k) => k = sl
    BY <1>1 DEF Opens
  <2>2. Opens(g, sl) => Latest(SideOf[sl]) = "told"
    BY <1>1, <1>3 DEF Opens, Latest, At, c
  <2>3. Held(sl) => lost' \/ Latest(SideOf[sl]) = "told"
    BY <1>4, Zenon DEF Held
  <2>4. \A k \in Slot : Kept(k) /\ Latest(SideOf[k]) = "up" /\ (Opens(g, k) \/ Held(k))
                        => lost' \/ Opens(g, k)' \/ Held(k)'
    BY <1>11, <2>1, <2>2, <2>3
  <2> QED
    BY <1>1, <1>5, <1>6, <1>7, <2>4, SlotsStay
<1>13. ConsumerOK'
  <2>1. OpenNow("sendMsg")' => sl # "sendMsg"
    BY <1>5 DEF OpenNow, Fresh
  <2>2. sl # "sendMsg" => (OpenNow("sendMsg")' <=> OpenNow("sendMsg")) /\ ch'["sendMsg"] = ch["sendMsg"]
    BY <1>5, <1>11 DEF Slot
  <2>3. ~Consumes(g)
    BY <1>1 DEF Consumes
  <2>4. holder' = holder /\ denied' = denied /\ life' = life
    BY <1>1
  <2> QED
    BY <1>6, <2>1, <2>2, <2>3, <2>4, ConsumerStays
<1> QED
  BY <1>7, <1>8, <1>9, <1>10, <1>12, <1>13

-----------------------------------------------------------------------------
(* Channel(): nil, a connection that is shutting down, or a number. *)

LEMMA ChannelPanics ==
  ASSUME IInv, NEW g \in Goroutine, Channel(g), UNCHANGED <<chans, job>>, panicked' = TRUE
  PROVE  IInv'
<1> USE DEF IInv
<1>1. /\ UNCHANGED <<fields, chans, ch, chNote, watch, broker>> /\ UNCHANGED <<lost, denied>>
      /\ UNCHANGED <<life, ready, chans, ch, holder, job>> /\ job[g].at = "channel"
  BY DEF Channel, At, fields, broker
<1>2. /\ RecoveryTypeOK' /\ ConnsOK' /\ Kept("saveMsg")' /\ Kept("sendMsg")' /\ NotesOK'
      /\ \A sl \in Slot : Latest(SideOf[sl])' = Latest(SideOf[sl]) /\ (Kept(sl)' <=> Kept(sl))
  <2>1. job' \in [Goroutine -> Job] /\ job' = job
    BY <1>1, TypeParts DEF JobTypes
  <2> QED
    BY <1>1, <2>1, CallTypes
<1>3. ReconnOK' /\ WatchersOK' /\ OpenersApart'
  BY ZenonT(40), <1>1 DEF ReconnOK, WatchersOK, OpenersApart, Kept, Latest, Busy
<1>4. /\ \A h \in Goroutine : \A k \in Slot : Opens(h, k)' <=> Opens(h, k)
      /\ \A h \in Goroutine : Consumes(h)' <=> Consumes(h)
  BY <1>1 DEF Opens, Consumes
<1>5. SlotsOK' /\ ConsumerOK'
  <2>1. \A k \in Slot : (OpenNow(k)' <=> OpenNow(k)) /\ (Held(k)' <=> Held(k))
    BY <1>1, SameSlots
  <2>2. Latest("con")' = Latest("con") /\ holder' = holder /\ ch' = ch /\ denied' = denied /\ lost' = lost
    BY <1>1 DEF Latest
  <2>3. SlotsOK'
    BY <1>2, <1>4, <2>1, <2>2 DEF SlotsOK
  <2>4. ConsumerOK'
    BY <1>4, <2>1, <2>2 DEF ConsumerOK, Slot
  <2> QED
    BY <2>3, <2>4
<1> QED
  BY <1>2, <1>3, <1>5

LEMMA ChannelBlocks ==
  ASSUME IInv, NEW g \in Goroutine, job[g].at = "channel",
         GoesTo(g, "blocked", conn[SideOf[job[g].slot]]),
         conn[SideOf[job[g].slot]] # 0, life[SideOf[job[g].slot]][conn[SideOf[job[g].slot]]] # "up",
         UNCHANGED <<fields, chans, ch, chNote, watch, broker, lost, denied, panicked>>
  PROVE  IInv'
<1> USE DEF IInv
<1> DEFINE sl == job[g].slot
           n == conn[SideOf[sl]]
<1>1. /\ UNCHANGED <<fields, chans, ch, chNote, watch, broker>> /\ UNCHANGED <<lost, denied, panicked>>
      /\ UNCHANGED <<life, ready, chans, ch, holder>>
      /\ sl \in Slot /\ Kept(sl) /\ SideOf[sl] \in Side
      /\ g = "reconnSendMsg" => sl = "sendMsg"
      /\ g # "reconnConns" => g \in Watcher /\ sl \in Watched[g]
  BY AtWork DEF fields, broker
<1>2. /\ n = Len(life[SideOf[sl]]) /\ n \in Nat /\ n \in DOMAIN life[SideOf[sl]]
      /\ Latest(SideOf[sl]) # "up"
  <2>1. life[SideOf[sl]] \in Seq({"up", "dead", "told"}) /\ n \in Nat
    BY <1>1, TypeParts DEF ConnTypes
  <2>2. n = Len(life[SideOf[sl]])
    BY <1>1 DEF ConnsOK
  <2> QED
    BY <2>1, <2>2 DEF Latest
<1>3. g = "reconnConns" => Latest(SideOf[sl]) = "dead"
  <2>1. Latest(SideOf[sl]) \in {"up", "dead", "told"}
    <3>1. life[SideOf[sl]] \in Seq({"up", "dead", "told"})
      BY <1>1, TypeParts DEF ConnTypes
    <3> QED
      BY <1>2, <3>1 DEF Latest
  <2> QED
    BY <1>2, <2>1 DEF ReconnOK
<1>4. /\ job' \in [Goroutine -> Job] /\ \A h \in Goroutine \ {g} : job'[h] = job[h]
      /\ job'[g].at = "blocked" /\ job'[g].slot = sl /\ job'[g].n = n /\ job'[g].rest = job[g].rest
  BY <1>2, Went DEF Place
<1>5. /\ RecoveryTypeOK' /\ ConnsOK' /\ Kept("saveMsg")' /\ Kept("sendMsg")' /\ NotesOK'
      /\ \A k \in Slot : Latest(SideOf[k])' = Latest(SideOf[k]) /\ (Kept(k)' <=> Kept(k))
  BY <1>1, <1>4, CallTypes
<1>6. ReconnOK'
  <2>1. CASE g # "reconnConns"
    <3>1. job'["reconnConns"] = job["reconnConns"]
      BY <1>4, <2>1 DEF Goroutine
    <3>2. life' = life /\ ready' = ready /\ chans' = chans
      BY <1>1
    <3>3. \A k : Kept(k)' <=> Kept(k)
      BY <3>2 DEF Kept
    <3>4. ReconnOK
      OBVIOUS
    <3> HIDE DEF IInv
    <3> QED
      BY <3>1, <3>2, <3>3, <3>4, Zenon DEF ReconnOK, Latest
  <2>2. CASE g = "reconnConns"
    <3>1. job["reconnConns"].rest = job'["reconnConns"].rest /\ job["reconnConns"].at = "channel"
      BY <1>4, <2>2 DEF Channel, At
    <3>2. ready[SideOf[sl]]
      BY <2>2, <3>1 DEF ReconnOK
    <3> QED
      BY <1>1, <1>2, <1>3, <1>4, <1>5, <2>2, <3>1, <3>2 DEF ReconnOK, Latest
  <2> QED
    BY <2>1, <2>2
<1>7. WatchersOK'
  <2> SUFFICES ASSUME NEW w \in Watcher PROVE WatchersOK!(w)'
    BY DEF WatchersOK
  <2>1. w \in Goroutine
    BY DEF Goroutine
  <2>2. CASE w # g
    BY ZenonT(40), <1>1, <1>4, <2>1, <2>2 DEF WatchersOK, Kept, Busy
  <2>3. CASE w = g
    BY <1>1, <1>2, <1>4, <2>1, <2>3 DEF WatchersOK, Kept, Busy
  <2> QED
    BY <2>2, <2>3
<1>8. OpenersApart'
  BY <1>1, <1>4 DEF OpenersApart
<1>9. SlotsOK'
  <2>1. \A k \in Slot : Latest(SideOf[k]) = "up" /\ Opens(g, k) => Opens(g, k)'
    BY <1>2, <1>4 DEF Opens
  <2> QED
    BY <1>1, <1>4, <1>5, <2>1, SameSlots, SlotsStay
<1>10. ConsumerOK'
  <2>1. ~Consumes(g)
    BY DEF Consumes
  <2> QED
    BY <1>1, <1>4, <2>1, SameSlots, ConsumerStays DEF Slot
<1> QED
  BY <1>5, <1>6, <1>7, <1>8, <1>9, <1>10

LEMMA ChannelNumbered ==
  ASSUME IInv, NEW g \in Goroutine, job[g].at = "channel",
         GoesTo(g, "opening", Len(chans[job[g].slot]) + 1),
         conn[SideOf[job[g].slot]] # 0, life[SideOf[job[g].slot]][conn[SideOf[job[g].slot]]] = "up",
         chans' = [chans EXCEPT ![job[g].slot] =
                     Append(@, [conn |-> conn[SideOf[job[g].slot]], noted |-> FALSE, st |-> "opening"])],
         UNCHANGED <<fields, ch, chNote, watch, broker, lost, denied, panicked>>
  PROVE  IInv'
<1> USE DEF IInv
<1> DEFINE sl == job[g].slot
           s == SideOf[sl]
           n == Len(chans[sl]) + 1
           c == [conn |-> conn[s], noted |-> FALSE, st |-> "opening"]
<1>1. /\ UNCHANGED <<life, conn, note, ready, ch, chNote, watch, holder, kept, lost, denied, panicked, faults, refusals>>
      /\ sl \in Slot /\ Kept(sl) /\ s \in Side
      /\ g = "reconnSendMsg" => sl = "sendMsg"
      /\ g # "reconnConns" => g \in Watcher /\ sl \in Watched[g]
  BY AtWork DEF fields, broker
<1>2. conn[s] = Len(life[s]) /\ conn[s] \in Nat \ {0}
  BY <1>1, TypeParts DEF ConnsOK, ConnTypes
<1>3. c \in AmqpChannel /\ c.conn = Len(life[s]) /\ c.noted = FALSE /\ c.st = "opening"
  BY <1>2 DEF AmqpChannel
<1> HIDE DEF c
<1>4. /\ chans' \in [Slot -> Seq(AmqpChannel)]
      /\ \A k \in Slot : Len(chans'[k]) = IF k = sl THEN Len(chans[k]) + 1 ELSE Len(chans[k])
      /\ \A k \in Slot : \A j \in DOMAIN chans[k] : j \in DOMAIN chans'[k] /\ chans'[k][j] = chans[k][j]
      /\ chans'[sl][n] = c
  <2>1. chans' = [chans EXCEPT ![sl] = Append(@, c)]
    BY DEF c
  <2> QED
    BY <1>1, <1>3, <2>1, Appended
<1>5. /\ \A k \in Slot : Len(chans[k]) \in Nat /\ DOMAIN chans[k] = 1..Len(chans[k]) /\ DOMAIN chans'[k] = 1..Len(chans'[k])
      /\ \A k \in Slot \ {sl} : Len(chans'[k]) = Len(chans[k]) /\ DOMAIN chans'[k] = DOMAIN chans[k]
      /\ Len(chans'[sl]) = n /\ n \in DOMAIN chans'[sl] /\ n \in Nat /\ n \notin DOMAIN chans[sl]
      /\ \A j \in DOMAIN chans'[sl] : j \in DOMAIN chans[sl] \/ j = n
      /\ \A k \in Slot : Kept(k)' <=> Kept(k)
  <2>1. \A k \in Slot : Len(chans[k]) \in Nat /\ DOMAIN chans[k] = 1..Len(chans[k]) /\ DOMAIN chans'[k] = 1..Len(chans'[k])
    BY <1>4, TypeParts DEF ChanTypes
  <2>2. \A k \in Slot \ {sl} : Len(chans'[k]) = Len(chans[k])
    BY <1>4
  <2>3. Len(chans'[sl]) = n
    BY <1>1, <1>4
  <2>4. \A k \in Slot : (chans[k] = <<>> <=> Len(chans[k]) = 0) /\ (chans'[k] = <<>> <=> Len(chans'[k]) = 0)
    <3>1. \A q \in Seq(AmqpChannel) : q = <<>> <=> Len(q) = 0
      OBVIOUS
    <3>2. \A k \in Slot : chans[k] \in Seq(AmqpChannel) /\ chans'[k] \in Seq(AmqpChannel)
      BY <1>4, TypeParts DEF ChanTypes
    <3> QED
      BY <3>1, <3>2
  <2>5. \A k \in Slot : Kept(k)' <=> Kept(k)
    <3>1. \A k \in Slot \ {sl} : Kept(k)' <=> Kept(k)
      BY <2>2, <2>4 DEF Kept
    <3>2. Kept(sl) /\ chans'[sl] # <<>>
      <4>1. Len(chans'[sl]) # 0
        BY <1>1, <2>1, <2>3
      <4> QED
        BY <1>1, <2>4, <4>1
    <3> QED
      BY <3>1, <3>2 DEF Kept
  <2> QED
    BY <1>1, <2>1, <2>2, <2>3, <2>5
<1>6. /\ job' \in [Goroutine -> Job] /\ \A h \in Goroutine \ {g} : job'[h] = job[h]
      /\ job'[g].at = "opening" /\ job'[g].slot = sl /\ job'[g].n = n /\ job'[g].rest = job[g].rest
  BY <1>5, Went DEF Place
<1> HIDE DEF s
<1>7. RecoveryTypeOK'
  <2>1. ConnTypes'
    BY <1>1, TypeParts DEF ConnTypes
  <2>2. ChanTypes'
    <3> SUFFICES ASSUME NEW k \in Slot PROVE ChanTypes!3!(k)'
      BY <1>1, <1>4, TypeParts DEF ChanTypes
    <3>1. Len(chans[k]) <= Len(chans'[k])
      BY <1>4, <1>5
    <3>2. /\ ch'[k] <= Len(chans'[k]) /\ chNote'[k] <= Len(chans'[k]) /\ watch'[k] <= Len(chans'[k])
      BY <1>1, <1>5, <3>1, TypeParts DEF ChanTypes
    <3>3. chNote'[k] # 0 => chans'[k][chNote'[k]].noted
      <4>1. chNote[k] # 0 => chNote[k] \in DOMAIN chans[k] /\ chans[k][chNote[k]].noted
        BY <1>5, TypeParts DEF ChanTypes
      <4>2. chNote' = chNote
        BY <1>1
      <4>3. chNote[k] # 0 => chans'[k][chNote[k]] = chans[k][chNote[k]]
        BY <1>4, <4>1
      <4> QED
        BY <4>1, <4>2, <4>3
    <3>4. \A i \in DOMAIN chans'[k] : chans'[k][i].conn <= Len(life'[SideOf[k]])
      <4>1. c.conn <= Len(life[s])
        BY <1>2, <1>3
      <4>2. \A i \in DOMAIN chans[k] : chans'[k][i].conn <= Len(life[SideOf[k]])
        BY <1>4, TypeParts DEF ChanTypes
      <4>3. CASE k = sl
        BY <1>1, <1>4, <1>5, <4>1, <4>2, <4>3 DEF s
      <4>4. CASE k # sl
        BY <1>1, <1>5, <4>2, <4>4
      <4> QED
        BY <4>3, <4>4
    <3> QED
      BY <3>2, <3>3, <3>4
  <2>3. JobTypes'
    BY <1>1, <1>5, <1>6, TypeParts, Watchers DEF JobTypes, Goroutine
  <2>4. RestTypes'
    <3>1. holder' \in 0..Len(chans'["sendMsg"])
      <4>1. Len(chans["sendMsg"]) <= Len(chans'["sendMsg"])
        <5>1. "sendMsg" \in Slot
          BY DEF Slot
        <5>2. PICK x : x = Len(chans["sendMsg"])
          OBVIOUS
        <5>3. x \in Nat /\ Len(chans'["sendMsg"]) = IF "sendMsg" = sl THEN x + 1 ELSE x
          BY <1>4, <1>5, <5>1, <5>2
        <5> QED
          BY <5>2, <5>3
      <4>2. Len(chans["sendMsg"]) \in Nat /\ Len(chans'["sendMsg"]) \in Nat
        BY <1>4, <1>5, TypeParts DEF ChanTypes, Slot
      <4>3. holder \in 0..Len(chans["sendMsg"]) /\ holder' = holder
        BY <1>1, TypeParts DEF RestTypes
      <4> QED
        BY <4>1, <4>2, <4>3
    <3>2. kept' \in BOOLEAN /\ lost' \in BOOLEAN /\ denied' \in BOOLEAN /\ panicked' \in BOOLEAN
      <4>1. kept \in BOOLEAN /\ lost \in BOOLEAN /\ denied \in BOOLEAN /\ panicked \in BOOLEAN
        BY TypeParts DEF RestTypes
      <4>2. kept' = kept /\ lost' = lost /\ denied' = denied /\ panicked' = panicked
        BY <1>1
      <4> QED
        BY <4>1, <4>2, Zenon
    <3>3. faults' \in Nat /\ refusals' \in 0..MaxRefusals
      BY <1>1, TypeParts DEF RestTypes
    <3> QED
      BY <3>1, <3>2, <3>3, Zenon DEF RestTypes
  <2> QED
    BY <2>1, <2>2, <2>3, <2>4, TypesThen
<1>8. ConnsOK' /\ NotesOK'
  BY <1>1, <1>5 DEF ConnsOK, Latest, NotesOK
<1>10. ReconnOK'
  <2>1. CASE g = "reconnConns"
    BY ZenonT(40), <1>1, <1>3, <1>4, <1>5, <1>6, <2>1 DEF ReconnOK, Latest, s
  <2>2. CASE g # "reconnConns"
    <3>1. job'["reconnConns"] = job["reconnConns"]
      BY <1>6, <2>2 DEF Goroutine
    <3>2. \A k \in Slot : Kept(k)' <=> Kept(k)
      BY <1>5
    <3>3. LET j == job["reconnConns"] IN
          j.at = "opening" => j.n \in DOMAIN chans'[j.slot] /\ chans'[j.slot][j.n] = chans[j.slot][j.n]
      BY <1>4 DEF ReconnOK
    <3>4. LET j == job["reconnConns"] IN j.at = "consuming" => j.n \in DOMAIN chans'["sendMsg"]
      BY <1>4 DEF ReconnOK, Slot
    <3>5. LET j == job["reconnConns"] IN
          j.at = "dial" => \A k \in SlotsOn[SideOf[j.slot]] : Kept(k)' => Kept(k)
      BY <3>2, Sides DEF ReconnOK
    <3> QED
      BY <1>1, <3>1, <3>2, <3>3, <3>4, <3>5 DEF ReconnOK, Latest
  <2> QED
    BY <2>1, <2>2
<1>11. WatchersOK'
  <2> SUFFICES ASSUME NEW w \in Watcher PROVE WatchersOK!(w)'
    BY DEF WatchersOK
  <2>1. w \in Goroutine
    BY DEF Goroutine
  <2>2. CASE w # g
    <3>1. job'[w] = job[w]
      BY <1>6, <2>1, <2>2
    <3>2. Busy(w) => job[w].slot \in Slot
      BY Watchers DEF WatchersOK
    <3>3. \A k \in Slot : Kept(k)' <=> Kept(k)
      BY <1>5
    <3>4. LET j == job[w] IN
          j.at = "opening" => j.n \in DOMAIN chans'[j.slot] /\ chans'[j.slot][j.n] = chans[j.slot][j.n]
      BY <1>4, <3>2 DEF WatchersOK, Busy
    <3>5. LET j == job[w] IN j.at = "consuming" => j.n \in DOMAIN chans'["sendMsg"]
      BY <1>4 DEF WatchersOK, Slot
    <3> QED
      BY ZenonT(40), <1>1, <3>1, <3>2, <3>3, <3>4, <3>5 DEF WatchersOK, Busy
  <2>3. CASE w = g
    BY <1>1, <1>3, <1>4, <1>5, <1>6, <2>1, <2>3 DEF WatchersOK, Busy
  <2> QED
    BY <2>2, <2>3
<1>12. OpenersApart'
  <2>1. \A h \in Goroutine : job[h].at = "opening" /\ job[h].slot = sl => job[h].n \in DOMAIN chans[sl]
    BY DEF ReconnOK, WatchersOK, Goroutine
  <2> QED
    BY <1>5, <1>6, <2>1 DEF OpenersApart
<1>13. \A k \in Slot : /\ (OpenNow(k)' <=> OpenNow(k))
                       /\ (Held(k)' <=> Held(k))
  <2>1. \A k \in Slot : ch[k] # 0 => ch[k] \in DOMAIN chans[k]
    BY <1>5, TypeParts DEF ChanTypes
  <2>2. \A k \in Slot : ch[k] # 0 => chans'[k][ch[k]] = chans[k][ch[k]]
    BY <1>4, <2>1
  <2> QED
    BY <1>1, <2>2 DEF OpenNow, Fresh, Held, Unnoticed
<1>14. SlotsOK'
  <2>1. Opens(g, sl)'
    BY <1>1, <1>3, <1>4, <1>6 DEF Opens, s
  <2>2. \A k \in Slot : Opens(g, k) => Opens(g, k)'
    BY <1>6, <2>1 DEF Opens
  <2>3. \A k \in Slot : \A i \in DOMAIN chans[k] : chans'[k][i].conn = chans[k][i].conn
    BY <1>4
  <2> QED
    BY <1>1, <1>5, <1>6, <1>13, <2>2, <2>3, SlotsStay
<1>15. ConsumerOK'
  <2>1. ~Consumes(g)
    BY DEF Consumes
  <2> QED
    BY <1>1, <1>6, <1>13, <2>1, ConsumerStays DEF Slot
<1> QED
  BY <1>5, <1>7, <1>8, <1>10, <1>11, <1>12, <1>14, <1>15 DEF Slot

LEMMA ChannelStep ==
  ASSUME IInv, NEW g \in Goroutine, Channel(g)
  PROVE  IInv'
<1> DEFINE sl == job[g].slot
           s == SideOf[sl]
<1>1. job[g].at = "channel" /\ UNCHANGED <<fields, ch, chNote, watch, broker, lost, denied>>
  BY DEF Channel, At
<1>2. CASE conn[s] = 0
  BY <1>2, ChannelPanics DEF Channel
<1>3. CASE conn[s] # 0 /\ life[s][conn[s]] = "up"
  <2>1. /\ chans' = [chans EXCEPT ![sl] = Append(@, [conn |-> conn[s], noted |-> FALSE, st |-> "opening"])]
        /\ GoesTo(g, "opening", Len(chans[sl]) + 1) /\ UNCHANGED panicked
    BY <1>3 DEF Channel
  <2> QED
    BY <1>1, <1>3, <2>1, ChannelNumbered
<1>4. CASE conn[s] # 0 /\ life[s][conn[s]] # "up"
  <2>1. GoesTo(g, "blocked", conn[s]) /\ UNCHANGED <<chans, panicked>>
    BY <1>4 DEF Channel
  <2> QED
    BY <1>1, <1>4, <2>1, ChannelBlocks
<1> QED
  BY <1>2, <1>3, <1>4

-----------------------------------------------------------------------------
(* Steps that change a channel. *)

LEMMA Reshaped ==
  ASSUME IInv, UNCHANGED life, chans' \in [Slot -> Seq(AmqpChannel)],
         \A k \in Slot : Len(chans'[k]) = Len(chans[k]) /\ DOMAIN chans'[k] = DOMAIN chans[k],
         \A k \in Slot : \A j \in DOMAIN chans[k] : chans'[k][j].conn = chans[k][j].conn
  PROVE  /\ \A k \in Slot : (Kept(k)' <=> Kept(k)) /\ Latest(SideOf[k])' = Latest(SideOf[k])
         /\ \A s \in Side : Latest(s)' = Latest(s)
         /\ Kept("saveMsg")' /\ Kept("sendMsg")'
<1>1. \A k \in Slot : Kept(k)' <=> Kept(k)
  <2>1. \A q \in Seq(AmqpChannel) : q = <<>> <=> Len(q) = 0
    OBVIOUS
  <2>2. \A k \in Slot : chans[k] \in Seq(AmqpChannel) /\ chans'[k] \in Seq(AmqpChannel)
    BY TypeParts DEF IInv, ChanTypes
  <2> QED
    BY <2>1, <2>2 DEF Kept
<1>2. Kept("saveMsg")' /\ Kept("sendMsg")'
  BY <1>1 DEF IInv, Slot
<1> QED
  BY <1>1, <1>2 DEF Latest

LEMMA ReshapedTypes ==
  ASSUME IInv, UNCHANGED fields, UNCHANGED <<lost, panicked>>, denied' \in BOOLEAN, chans' \in [Slot -> Seq(AmqpChannel)],
         \A k \in Slot : Len(chans'[k]) = Len(chans[k]) /\ DOMAIN chans'[k] = DOMAIN chans[k],
         \A k \in Slot : \A j \in DOMAIN chans[k] : chans'[k][j].conn = chans[k][j].conn,
         ch' \in [Slot -> Nat], chNote' \in [Slot -> Nat], watch' \in [Slot -> Nat],
         \A k \in Slot : ch'[k] <= Len(chans[k]) /\ chNote'[k] <= Len(chans[k]) /\ watch'[k] <= Len(chans[k]),
         \A k \in Slot : chNote'[k] # 0 => chans'[k][chNote'[k]].noted,
         holder' \in 0..Len(chans["sendMsg"]), kept' \in BOOLEAN, JobTypes'
  PROVE  RecoveryTypeOK' /\ ConnsOK'
<1>1. ConnTypes' /\ ConnsOK'
  BY SameConns
<1>2. ChanTypes'
  <2>1. \A k \in Slot : \A i \in DOMAIN chans'[k] : chans'[k][i].conn <= Len(life'[SideOf[k]])
    <3>1. \A k \in Slot : \A i \in DOMAIN chans[k] : chans[k][i].conn <= Len(life[SideOf[k]])
      BY TypeParts DEF IInv, ChanTypes
    <3>2. life' = life
      BY DEF fields
    <3> QED
      BY <3>1, <3>2
  <2> QED
    BY <2>1 DEF ChanTypes
<1>3. RestTypes'
  <2>1. holder' \in 0..Len(chans'["sendMsg"])
    BY DEF Slot
  <2>2. kept' \in BOOLEAN /\ lost' \in BOOLEAN /\ denied' \in BOOLEAN /\ panicked' \in BOOLEAN
    <3>1. lost \in BOOLEAN /\ panicked \in BOOLEAN
      BY TypeParts DEF IInv, RestTypes
    <3>2. lost' = lost /\ panicked' = panicked
      OBVIOUS
    <3> QED
      BY <3>1, <3>2, Zenon
  <2>3. faults' \in Nat /\ refusals' \in 0..MaxRefusals
    BY TypeParts DEF IInv, RestTypes, fields
  <2> QED
    BY <2>1, <2>2, <2>3, Zenon DEF RestTypes
<1> QED
  BY <1>1, <1>2, <1>3, TypesThen

LEMMA ShutChannelStep ==
  ASSUME IInv, NEW s \in Side, NEW c \in DOMAIN life[s], ShutChannel(s, c)
  PROVE  IInv'
<1> USE DEF IInv
<1>1. /\ UNCHANGED fields /\ UNCHANGED <<lost, denied, panicked>>
      /\ UNCHANGED <<life, ready, ch, chNote, watch, job, holder, kept, lost, denied, panicked>>
      /\ life[s][c] = "told"
  BY DEF ShutChannel, fields, broker
<1>a. PICK sl \in SlotsOn[s] : \E i \in On(sl, c) :
        /\ chans[sl][i].st \notin {"shut", "closing"}
        /\ Moves(sl, i, IF chans[sl][i].noted THEN "closing" ELSE "shut")
  BY DEF ShutChannel
<1>2. PICK i \in On(sl, c) :
        /\ chans[sl][i].st \notin {"shut", "closing"}
        /\ Moves(sl, i, IF chans[sl][i].noted THEN "closing" ELSE "shut")
  BY <1>a
<1>3. /\ sl \in Slot /\ SideOf[sl] = s /\ i \in DOMAIN chans[sl] /\ chans[sl][i].conn = c
  BY Sides DEF On
<1>4. PICK v \in {"closing", "shut"} : /\ v = IF chans[sl][i].noted THEN "closing" ELSE "shut"
  OBVIOUS
<1>5. /\ chans' \in [Slot -> Seq(AmqpChannel)]
      /\ \A k \in Slot : Len(chans'[k]) = Len(chans[k]) /\ DOMAIN chans'[k] = DOMAIN chans[k]
      /\ \A k \in Slot : \A j \in DOMAIN chans[k] :
           /\ chans'[k][j].conn = chans[k][j].conn
           /\ chans'[k][j].noted = chans[k][j].noted
           /\ chans'[k][j].st = IF k = sl /\ j = i THEN v ELSE chans[k][j].st
  <2>1. Moves(sl, i, v)
    BY <1>2, <1>4
  <2>2. v \in State /\ sl \in Slot /\ i \in DOMAIN chans[sl]
    BY <1>3 DEF State
  <2> QED
    BY <2>1, <2>2, Restated
<1>6. /\ \A k \in Slot : (Kept(k)' <=> Kept(k)) /\ Latest(SideOf[k])' = Latest(SideOf[k])
      /\ Kept("saveMsg")' /\ Kept("sendMsg")'
  BY <1>1, <1>5, Reshaped
<1>7. RecoveryTypeOK' /\ ConnsOK'
  <2>1. JobTypes'
    BY <1>1, <1>6, TypeParts, Watchers DEF JobTypes
  <2>2. /\ ch' \in [Slot -> Nat] /\ chNote' \in [Slot -> Nat] /\ watch' \in [Slot -> Nat]
        /\ \A k \in Slot : ch'[k] <= Len(chans[k]) /\ chNote'[k] <= Len(chans[k]) /\ watch'[k] <= Len(chans[k])
        /\ holder' \in 0..Len(chans["sendMsg"])
    BY <1>1, TypeParts DEF ChanTypes, RestTypes
  <2>3. kept' \in BOOLEAN /\ denied' \in BOOLEAN
    <3>1. kept \in BOOLEAN /\ kept' = kept /\ denied \in BOOLEAN /\ denied' = denied
      BY <1>1, TypeParts DEF RestTypes
    <3> QED
      BY <3>1, Zenon
  <2>4. \A k \in Slot : chNote'[k] # 0 => chans'[k][chNote'[k]].noted
    <3> SUFFICES ASSUME NEW k \in Slot, chNote[k] # 0 PROVE chans'[k][chNote[k]].noted
      BY <1>1
    <3>1. chNote[k] \in DOMAIN chans[k] /\ chans[k][chNote[k]].noted
      BY TypeParts DEF ChanTypes
    <3> QED
      BY <1>5, <3>1
  <2> QED
    BY <1>1, <1>5, <2>1, <2>2, <2>3, <2>4, ReshapedTypes
<1>8. NotesOK'
  BY <1>1, <1>5, <1>6 DEF NotesOK
(* The channels of the latest connection, unless its death was read, stay. *)
<1>9. \A k \in Slot : \A j \in DOMAIN chans[k] :
        chans[k][j].conn = Len(life[SideOf[k]]) /\ Latest(SideOf[k]) # "told" => chans'[k][j].st = chans[k][j].st
  BY <1>1, <1>3, <1>5 DEF Latest
<1>10. ReconnOK'
  <2> DEFINE j == job["reconnConns"]
  <2>1. j.at = "opening" =>
          /\ j.n \in DOMAIN chans'[j.slot] /\ chans'[j.slot][j.n].conn = chans[j.slot][j.n].conn
          /\ chans'[j.slot][j.n].noted = chans[j.slot][j.n].noted /\ chans'[j.slot][j.n].st = "opening"
    BY <1>5, <1>9 DEF ReconnOK
  <2>2. j.at = "consuming" => j.n \in DOMAIN chans'["sendMsg"]
    BY <1>5 DEF ReconnOK, Slot
  <2>3. j.at = "dial" => \A k \in SlotsOn[SideOf[j.slot]] : Kept(k)' => Kept(k)
    BY <1>6, Sides DEF ReconnOK
  <2> QED
    BY <1>1, <1>6, <2>1, <2>2, <2>3 DEF ReconnOK, Latest
<1>11. WatchersOK'
  <2> SUFFICES ASSUME NEW w \in Watcher PROVE WatchersOK!(w)'
    BY DEF WatchersOK
  <2> DEFINE j == job[w]
  <2>1. Busy(w) => j.slot \in Slot
    BY Watchers DEF WatchersOK
  <2>2. j.at = "opening" =>
          /\ j.n \in DOMAIN chans'[j.slot]
          /\ ~chans'[j.slot][j.n].noted
          /\ \/ chans'[j.slot][j.n].st = "opening"
             \/ chans'[j.slot][j.n].st = "shut" /\ life[SideOf[j.slot]][chans'[j.slot][j.n].conn] = "told"
    BY <1>1, <1>3, <1>4, <1>5, <2>1 DEF WatchersOK, Busy
  <2>3. j.at = "consuming" => j.n \in DOMAIN chans'["sendMsg"]
    BY <1>5 DEF WatchersOK, Slot
  <2> QED
    BY <1>1, <1>6, <2>1, <2>2, <2>3 DEF WatchersOK, Busy
<1>12. OpenersApart'
  BY <1>1 DEF OpenersApart
<1>13. /\ \A k \in Slot : Latest(SideOf[k]) # "told" /\ Held(k) => Held(k)'
       /\ Latest("con") # "told" => (OpenNow("sendMsg")' <=> OpenNow("sendMsg"))
  <2>1. \A k \in Slot : ch[k] # 0 => ch[k] \in DOMAIN chans[k]
    BY TypeParts DEF ChanTypes
  <2>2. \A k \in Slot : (Fresh(k)' <=> Fresh(k))
    BY <1>1, <1>5, <2>1 DEF Fresh
  <2>3. \A k \in Slot : Latest(SideOf[k]) # "told" /\ Fresh(k) =>
          /\ chans'[k][ch[k]].st = chans[k][ch[k]].st
          /\ chans'[k][ch[k]].noted = chans[k][ch[k]].noted
    BY <1>5, <1>9, <2>1 DEF Fresh
  <2>4. "sendMsg" \in Slot /\ SideOf["sendMsg"] = "con"
    BY Sides DEF Slot
  <2>5. \A k \in Slot : Latest(SideOf[k]) # "told" /\ Held(k) => Held(k)'
    BY <1>1, <2>2, <2>3 DEF Held, Unnoticed
  <2> QED
    BY <1>1, <2>2, <2>3, <2>4, <2>5 DEF OpenNow
<1>14. \A h \in Goroutine : \A k \in Slot : Opens(h, k) => Opens(h, k)'
  <2> SUFFICES ASSUME NEW h \in Goroutine, NEW k \in Slot, Opens(h, k) PROVE Opens(h, k)'
    OBVIOUS
  <2>1. job[h].at = "opening" /\ job[h].slot = k =>
          chans'[k][job[h].n].conn = chans[k][job[h].n].conn
    BY <1>5, OpenersKnown
  <2> QED
    BY <1>1, <2>1 DEF Opens
<1>15. SlotsOK'
  BY <1>1, <1>6, <1>13, <1>14 DEF SlotsOK
<1>16. ConsumerOK'
  <2>1. \A h \in Goroutine : Consumes(h)' <=> Consumes(h)
    BY <1>1 DEF Consumes
  <2>2. Latest("con")' = Latest("con")
    BY <1>1 DEF Latest
  <2> QED
    BY <1>1, <1>13, <2>1, <2>2 DEF ConsumerOK
<1> QED
  BY <1>6, <1>7, <1>8, <1>10, <1>11, <1>12, <1>15, <1>16

LEMMA NoticeStep ==
  ASSUME IInv, NEW w \in Watcher, Notice(w)
  PROVE  IInv'
<1> USE DEF IInv
<1>1. /\ job[w].at = "select" /\ UNCHANGED fields /\ UNCHANGED <<lost, denied, panicked>>
      /\ UNCHANGED <<life, ready, ch, chNote, holder, kept, lost, denied, panicked>>
      /\ watch' = [sl \in Slot |-> IF sl \in Watched[w] THEN 0 ELSE watch[sl]]
      /\ w \in Goroutine
  BY DEF Notice, At, fields, broker, Goroutine
<1>2. PICK sl \in Watched[w] :
        /\ watch[sl] # 0 /\ chans[sl][watch[sl]].st \in {"jammed", "closing", "shut"}
        /\ Moves(sl, watch[sl], "shut")
        /\ Becomes(w, Doing("check", sl, 0, <<>>))
  BY DEF Notice
<1>3. PICK i : i = watch[sl]
  OBVIOUS
<1>4. sl \in Slot /\ i \in DOMAIN chans[sl] /\ chans[sl][i].st \in {"jammed", "closing", "shut"} /\ Kept(sl)
  <2>1. sl \in Slot
    BY Watchers
  <2>2. watch[sl] \in Nat /\ watch[sl] <= Len(chans[sl]) /\ chans[sl] \in Seq(AmqpChannel)
    BY <2>1, TypeParts DEF ChanTypes
  <2>3. Kept(sl)
    BY <1>2, TypeParts DEF JobTypes
  <2> QED
    BY <1>2, <1>3, <2>1, <2>2, <2>3
<1>5. /\ chans' \in [Slot -> Seq(AmqpChannel)]
      /\ \A k \in Slot : Len(chans'[k]) = Len(chans[k]) /\ DOMAIN chans'[k] = DOMAIN chans[k]
      /\ \A k \in Slot : \A j \in DOMAIN chans[k] :
           /\ chans'[k][j].conn = chans[k][j].conn
           /\ chans'[k][j].noted = chans[k][j].noted
           /\ chans'[k][j].st = IF k = sl /\ j = i THEN "shut" ELSE chans[k][j].st
  <2>1. Moves(sl, i, "shut") /\ "shut" \in State
    BY <1>2, <1>3 DEF State
  <2> QED
    BY <1>4, <2>1, Restated
<1>6. /\ job' \in [Goroutine -> Job] /\ \A h \in Goroutine \ {w} : job'[h] = job[h]
      /\ job'[w].at = "check" /\ job'[w].slot = sl /\ job'[w].rest = <<>>
  <2> DEFINE j == Doing("check", sl, 0, <<>>)
  <2>1. j \in Job /\ j.at = "check" /\ j.slot = sl /\ j.rest = <<>>
    BY <1>4 DEF Doing, Job, Place
  <2>2. Becomes(w, j)
    BY <1>2
  <2> HIDE DEF j
  <2> QED
    BY <1>1, <2>1, <2>2, Became
<1>7. /\ \A k \in Slot : (Kept(k)' <=> Kept(k)) /\ Latest(SideOf[k])' = Latest(SideOf[k])
      /\ Kept("saveMsg")' /\ Kept("sendMsg")'
  BY <1>1, <1>5, Reshaped
<1>8. RecoveryTypeOK' /\ ConnsOK'
  <2>1. JobTypes'
    <3> SUFFICES ASSUME NEW u \in Watcher, NEW k \in Watched[u]
                 PROVE  watch'[k] # 0 <=> Kept(k)' /\ job'[u].at = "select"
      BY <1>6 DEF JobTypes
    <3>1. k \in Slot
      BY Watchers
    <3>2. CASE u = w
      BY <1>1, <1>6, <3>1, <3>2
    <3>3. CASE u # w
      <4>1. k \notin Watched[w]
        BY <3>3, Watchers DEF Watcher
      <4>2. job'[u] = job[u]
        BY <1>6, <3>3 DEF Goroutine
      <4> QED
        BY <1>1, <1>7, <3>1, <4>1, <4>2, TypeParts DEF JobTypes
    <3> QED
      BY <3>2, <3>3
  <2>2. /\ ch' \in [Slot -> Nat] /\ chNote' \in [Slot -> Nat] /\ watch' \in [Slot -> Nat]
        /\ \A k \in Slot : ch'[k] <= Len(chans[k]) /\ chNote'[k] <= Len(chans[k]) /\ watch'[k] <= Len(chans[k])
        /\ holder' \in 0..Len(chans["sendMsg"])
    <3>1. \A k \in Slot : Len(chans[k]) \in Nat
      BY TypeParts DEF ChanTypes
    <3> QED
      BY <1>1, <3>1, TypeParts DEF ChanTypes, RestTypes
  <2>3. kept' \in BOOLEAN /\ denied' \in BOOLEAN
    <3>1. kept \in BOOLEAN /\ kept' = kept /\ denied \in BOOLEAN /\ denied' = denied
      BY <1>1, TypeParts DEF RestTypes
    <3> QED
      BY <3>1, Zenon
  <2>4. \A k \in Slot : chNote'[k] # 0 => chans'[k][chNote'[k]].noted
    <3> SUFFICES ASSUME NEW k \in Slot, chNote[k] # 0 PROVE chans'[k][chNote[k]].noted
      BY <1>1
    <3>1. chNote[k] \in DOMAIN chans[k] /\ chans[k][chNote[k]].noted
      BY TypeParts DEF ChanTypes
    <3> QED
      BY <1>5, <3>1
  <2> QED
    BY <1>1, <1>5, <2>1, <2>2, <2>3, <2>4, ReshapedTypes
<1>9. NotesOK'
  BY <1>1, <1>5, <1>7 DEF NotesOK
<1>10. job'["reconnConns"] = job["reconnConns"]
  BY <1>6 DEF Goroutine, Watcher
<1>11. ReconnOK'
  <2> DEFINE j == job["reconnConns"]
  <2>1. j.at = "opening" =>
          /\ j.n \in DOMAIN chans'[j.slot] /\ chans'[j.slot][j.n].conn = chans[j.slot][j.n].conn
          /\ chans'[j.slot][j.n].noted = chans[j.slot][j.n].noted /\ chans'[j.slot][j.n].st = "opening"
    BY <1>4, <1>5 DEF ReconnOK
  <2>2. j.at = "consuming" => j.n \in DOMAIN chans'["sendMsg"]
    BY <1>5 DEF ReconnOK, Slot
  <2>3. j.at = "dial" => \A k \in SlotsOn[SideOf[j.slot]] : Kept(k)' => Kept(k)
    BY <1>7, Sides DEF ReconnOK
  <2> QED
    BY <1>1, <1>7, <1>10, <2>1, <2>2, <2>3 DEF ReconnOK, Latest
<1>12. WatchersOK'
  <2> SUFFICES ASSUME NEW u \in Watcher PROVE WatchersOK!(u)'
    BY DEF WatchersOK
  <2>1. CASE u = w
    BY <1>4, <1>6, <1>7, <2>1 DEF Busy
  <2>2. CASE u # w
    <3> DEFINE j == job[u]
    <3>1. Busy(u) => j.slot \in Slot
      BY Watchers DEF WatchersOK
    <3>2. j.at = "opening" =>
            /\ j.n \in DOMAIN chans'[j.slot]
            /\ ~chans'[j.slot][j.n].noted
            /\ \/ chans'[j.slot][j.n].st = "opening"
               \/ chans'[j.slot][j.n].st = "shut" /\ life[SideOf[j.slot]][chans'[j.slot][j.n].conn] = "told"
      BY <1>1, <1>4, <1>5, <3>1 DEF WatchersOK, Busy
    <3>3. j.at = "consuming" => j.n \in DOMAIN chans'["sendMsg"]
      BY <1>5 DEF WatchersOK, Slot
    <3>4. job'[u] = job[u]
      BY <1>6, <2>2 DEF Goroutine
    <3> QED
      BY <1>1, <1>7, <3>1, <3>2, <3>3, <3>4 DEF WatchersOK, Busy
  <2> QED
    BY <2>1, <2>2
<1>13. OpenersApart'
  BY <1>1, <1>6 DEF OpenersApart
<1>14. /\ \A k \in Slot : Held(k) => k = sl \/ Held(k)'
       /\ OpenNow("sendMsg")' => OpenNow("sendMsg")
  <2>1. \A k \in Slot : ch[k] # 0 => ch[k] \in DOMAIN chans[k]
    BY TypeParts DEF ChanTypes
  <2>2. \A k \in Slot : (Fresh(k)' <=> Fresh(k))
    BY <1>1, <1>5, <2>1 DEF Fresh
  <2>3. \A k \in Slot : ch[k] # 0 => /\ chans'[k][ch[k]].st = IF k = sl /\ ch[k] = i THEN "shut" ELSE chans[k][ch[k]].st
                                     /\ chans'[k][ch[k]].noted = chans[k][ch[k]].noted
    BY <1>5, <2>1
  <2>4. \A k \in Slot : Held(k) => k = sl \/ Held(k)'
    BY <1>1, <2>2, <2>3 DEF Held, Unnoticed, Fresh
  <2> QED
    BY <1>1, <2>2, <2>3, <2>4 DEF OpenNow, Fresh, Slot
<1>15. Opens(w, sl)' /\ \A k \in Slot : ~Opens(w, k)
  BY <1>1, <1>6 DEF Opens, WatchersOK
<1>16. SlotsOK'
  <2>1. \A k \in Slot : \A j \in DOMAIN chans[k] : chans'[k][j].conn = chans[k][j].conn
    BY <1>5
  <2> QED
    BY <1>1, <1>6, <1>7, <1>14, <1>15, <2>1, SlotsStay
<1>17. ConsumerOK'
  <2>1. ~Consumes(w)
    BY <1>1 DEF Consumes
  <2> QED
    BY <1>1, <1>6, <1>14, <2>1, ConsumerStays
<1> QED
  BY <1>7, <1>8, <1>9, <1>11, <1>12, <1>13, <1>16, <1>17

LEMMA SelectStep ==
  ASSUME IInv, NEW w \in Watcher, Select(w)
  PROVE  IInv'
<1> USE DEF IInv
<1>1. /\ job[w].at = "sleep" /\ UNCHANGED fields /\ UNCHANGED <<lost, denied, panicked>>
      /\ UNCHANGED <<life, ready, chans, ch, chNote, holder, kept, lost, denied, panicked, faults, refusals>>
      /\ watch' = [sl \in Slot |-> IF sl \in Watched[w] THEN chNote[sl] ELSE watch[sl]]
      /\ w \in Goroutine
  BY DEF Select, At, fields, broker, Goroutine
<1>2. /\ job' \in [Goroutine -> Job] /\ \A h \in Goroutine \ {w} : job'[h] = job[h]
      /\ job'[w].at = "select" /\ job'[w].slot = "none" /\ job'[w].rest = <<>>
  <2> DEFINE j == Doing("select", "none", 0, <<>>)
  <2>1. j \in Job /\ j.at = "select" /\ j.slot = "none" /\ j.rest = <<>>
    BY DEF Doing, Job, Place
  <2>2. Becomes(w, j)
    BY DEF Select
  <2> HIDE DEF j
  <2> QED
    BY <1>1, <2>1, <2>2, Became
<1>3. /\ \A k \in Slot : (Kept(k)' <=> Kept(k)) /\ Latest(SideOf[k])' = Latest(SideOf[k])
      /\ Kept("saveMsg")' /\ Kept("sendMsg")'
  BY <1>1, SameChans DEF Latest
<1>4. RecoveryTypeOK' /\ ConnsOK'
  <2>1. JobTypes'
    <3> SUFFICES ASSUME NEW u \in Watcher, NEW k \in Watched[u]
                 PROVE  watch'[k] # 0 <=> Kept(k)' /\ job'[u].at = "select"
      BY <1>2 DEF JobTypes
    <3>1. k \in Slot
      BY Watchers
    <3>2. CASE u = w
      <4>1. chNote[k] # 0 <=> Kept(k)
        BY <3>1, TypeParts DEF NotesOK, ChanTypes, Kept
      <4> QED
        BY <1>1, <1>2, <1>3, <3>1, <3>2, <4>1
    <3>3. CASE u # w
      <4>1. k \notin Watched[w]
        BY <3>3, Watchers DEF Watcher
      <4>2. job'[u] = job[u]
        BY <1>2, <3>3 DEF Goroutine
      <4> QED
        BY <1>1, <1>3, <3>1, <4>1, <4>2, TypeParts DEF JobTypes
    <3> QED
      BY <3>2, <3>3
  <2>2. ChanTypes'
    BY <1>1, TypeParts DEF ChanTypes
  <2>3. RestTypes'
    <3>1. UNCHANGED <<chans, holder, kept, faults, refusals>> /\ UNCHANGED lost /\ UNCHANGED denied /\ UNCHANGED panicked
      BY <1>1
    <3> QED
      BY <3>1, SameRest, Zenon
  <2>4. ConnTypes' /\ ConnsOK'
    BY <1>1, SameConns
  <2> QED
    BY <2>1, <2>2, <2>3, <2>4, TypesThen
<1>5. NotesOK'
  BY <1>1, <1>3 DEF NotesOK
<1>6. job'["reconnConns"] = job["reconnConns"]
  BY <1>1, <1>2 DEF Goroutine, Watcher
<1>7. ReconnOK'
  BY <1>1, <1>6 DEF ReconnOK, Latest, Kept
<1>8. WatchersOK'
  <2> SUFFICES ASSUME NEW u \in Watcher PROVE WatchersOK!(u)'
    BY DEF WatchersOK
  <2>1. CASE u = w
    BY <1>2, <2>1 DEF Busy
  <2>2. CASE u # w
    <3>1. job'[u] = job[u]
      BY <1>2, <2>2 DEF Goroutine
    <3> QED
      BY <1>1, <3>1 DEF WatchersOK, Busy, Kept
  <2> QED
    BY <2>1, <2>2
<1>9. OpenersApart'
  BY <1>2 DEF OpenersApart
<1>10. SlotsOK'
  <2>1. \A k \in Slot : ~Opens(w, k)
    BY <1>1 DEF Opens, WatchersOK
  <2> QED
    BY <1>1, <1>2, <1>3, <2>1, SameSlots, SlotsStay
<1>11. ConsumerOK'
  <2>1. ~Consumes(w)
    BY <1>1 DEF Consumes
  <2> QED
    BY <1>1, <1>2, <2>1, SameSlots, ConsumerStays DEF Slot
<1> QED
  BY <1>3, <1>4, <1>5, <1>7, <1>8, <1>9, <1>10, <1>11

LEMMA OpenedStep ==
  ASSUME IInv, NEW g \in Goroutine, Opened(g)
  PROVE  IInv'
<1> USE DEF IInv
<1>1. PICK sl, n : sl = job[g].slot /\ n = job[g].n
  OBVIOUS
<1>2. /\ job[g].at = "opening" /\ UNCHANGED fields /\ UNCHANGED <<lost, denied, panicked>>
      /\ UNCHANGED <<life, ready, watch, holder, kept, lost, denied, panicked>>
      /\ chans[sl][n].st = "opening" /\ Answers(SideOf[sl], chans[sl][n].conn)
      /\ chans' = [chans EXCEPT ![sl][n] = Open(@.conn)]
      /\ ch' = [ch EXCEPT ![sl] = n] /\ chNote' = [chNote EXCEPT ![sl] = n]
      /\ IF sl = "sendMsg" THEN GoesTo(g, "queue", n) ELSE Becomes(g, Returned(job[g]))
  BY <1>1 DEF Opened, At, fields, broker
<1>3. /\ sl \in Slot /\ Kept(sl) /\ SideOf[sl] \in Side
      /\ g = "reconnSendMsg" => sl = "sendMsg" /\ SideOf[sl] = "con"
      /\ g # "reconnConns" => g \in Watcher /\ sl \in Watched[g] /\ job[g].rest = <<>>
  BY <1>1, <1>2, AtWork
<1>4. n \in DOMAIN chans[sl] /\ n \in Nat /\ n # 0 /\ n <= Len(chans[sl])
  <2>1. n \in DOMAIN chans[sl]
    BY <1>1, <1>2, <1>3 DEF ReconnOK, WatchersOK, Goroutine
  <2>2. chans[sl] \in Seq(AmqpChannel)
    BY <1>3, TypeParts DEF ChanTypes
  <2> QED
    BY <2>1, <2>2
<1>5. chans[sl][n].conn = Len(life[SideOf[sl]]) /\ Latest(SideOf[sl]) = "up"
  <2>1. chans[sl][n].conn \in Nat \ {0} /\ chans[sl][n].conn <= Len(life[SideOf[sl]])
    BY <1>3, <1>4, TypeParts, ChannelTypes DEF ChanTypes
  <2>2. Len(life[SideOf[sl]]) \in Nat /\ \A k \in 1..(Len(life[SideOf[sl]]) - 1) : life[SideOf[sl]][k] = "told"
    BY <1>3, TypeParts DEF ConnTypes
  <2>3. life[SideOf[sl]][chans[sl][n].conn] = "up"
    BY <1>2 DEF Answers
  <2>4. chans[sl][n].conn = Len(life[SideOf[sl]])
    BY <2>1, <2>2, <2>3
  <2> QED
    BY <2>3, <2>4 DEF Latest
<1>6. /\ chans' \in [Slot -> Seq(AmqpChannel)]
      /\ \A k \in Slot : Len(chans'[k]) = Len(chans[k]) /\ DOMAIN chans'[k] = DOMAIN chans[k]
      /\ \A k \in Slot : \A j \in DOMAIN chans[k] :
           /\ chans'[k][j].conn = chans[k][j].conn
           /\ ~(k = sl /\ j = n) => chans'[k][j] = chans[k][j]
      /\ chans'[sl][n].noted /\ chans'[sl][n].st = "open"
  <2>1. chans' = [chans EXCEPT ![sl][n] = Open(@.conn)]
    BY <1>2
  <2> QED
    BY <1>3, <1>4, <2>1, OpenedNow
<1>7. /\ ch' \in [Slot -> Nat] /\ ch'[sl] = n /\ \A k \in Slot \ {sl} : ch'[k] = ch[k]
      /\ chNote' \in [Slot -> Nat] /\ chNote'[sl] = n /\ \A k \in Slot \ {sl} : chNote'[k] = chNote[k]
  <2>1. ch \in [Slot -> Nat] /\ chNote \in [Slot -> Nat]
    BY TypeParts DEF ChanTypes
  <2>2. ch' = [ch EXCEPT ![sl] = n] /\ chNote' = [chNote EXCEPT ![sl] = n]
    BY <1>2
  <2> QED
    BY <1>3, <1>4, <2>1, <2>2
<1>8. /\ job' \in [Goroutine -> Job] /\ \A h \in Goroutine \ {g} : job'[h] = job[h]
      /\ \/ /\ sl = "sendMsg" /\ job'[g].at = "queue" /\ job'[g].slot = sl /\ job'[g].rest = job[g].rest
         \/ /\ sl # "sendMsg" /\ job[g].rest = <<>>
            /\ job'[g].at = "sleep" /\ job'[g].slot = "none" /\ job'[g].rest = <<>>
         \/ /\ sl # "sendMsg" /\ g = "reconnConns" /\ job'[g].at = "check" /\ job[g].rest = <<job'[g].slot>>
            /\ job'[g].slot \in {"saveMsg", "sendMsg"} /\ SideOf[job'[g].slot] = SideOf[sl]
            /\ job'[g].rest = <<>>
  <2>1. CASE sl = "sendMsg"
    <3>1. GoesTo(g, "queue", n)
      BY <1>2, <2>1
    <3> QED
      BY <1>1, <1>4, <2>1, <3>1, Went DEF Place
  <2>2. CASE sl # "sendMsg"
    <3>1. Becomes(g, Returned(job[g])) /\ job[g].at \notin {"sleep", "select"}
      BY <1>2, <2>2
    <3> QED
      BY <1>1, <2>2, <3>1, CameBack
  <2> QED
    BY <2>1, <2>2
<1>9. /\ \A k \in Slot : (Kept(k)' <=> Kept(k)) /\ Latest(SideOf[k])' = Latest(SideOf[k])
      /\ Kept("saveMsg")' /\ Kept("sendMsg")'
  BY <1>2, <1>6, Reshaped
<1>10. RecoveryTypeOK' /\ ConnsOK'
  <2>1. JobTypes'
    <3>1. job[g].at # "select" /\ job'[g].at # "select"
      BY <1>2, <1>8
    <3> QED
      BY <1>2, <1>8, <1>9, <3>1, TypeParts, Watchers DEF JobTypes, Goroutine
  <2>2. /\ watch' \in [Slot -> Nat] /\ holder' \in 0..Len(chans["sendMsg"])
        /\ \A k \in Slot : watch'[k] <= Len(chans[k])
    BY <1>2, TypeParts DEF ChanTypes, RestTypes
  <2>3. \A k \in Slot : ch'[k] <= Len(chans[k]) /\ chNote'[k] <= Len(chans[k])
    <3> SUFFICES ASSUME NEW k \in Slot PROVE ch'[k] <= Len(chans[k]) /\ chNote'[k] <= Len(chans[k])
      OBVIOUS
    <3>1. CASE k = sl
      BY <1>4, <1>7, <3>1
    <3>2. CASE k # sl
      BY <1>7, <3>2, TypeParts DEF ChanTypes
    <3> QED
      BY <3>1, <3>2
  <2>4. kept' \in BOOLEAN /\ denied' \in BOOLEAN
    <3>1. kept \in BOOLEAN /\ kept' = kept /\ denied \in BOOLEAN /\ denied' = denied
      BY <1>2, TypeParts DEF RestTypes
    <3> QED
      BY <3>1, Zenon
  <2>5. \A k \in Slot : chNote'[k] # 0 => chans'[k][chNote'[k]].noted
    <3> SUFFICES ASSUME NEW k \in Slot, chNote'[k] # 0 PROVE chans'[k][chNote'[k]].noted
      OBVIOUS
    <3>1. CASE k = sl
      BY <1>6, <1>7, <3>1
    <3>2. CASE k # sl
      <4>1. chNote'[k] = chNote[k]
        BY <1>7, <3>2
      <4>2. chNote[k] \in DOMAIN chans[k] /\ chans[k][chNote[k]].noted
        BY <4>1, TypeParts DEF ChanTypes
      <4> QED
        BY <1>6, <3>2, <4>1, <4>2
    <3> QED
      BY <3>1, <3>2
  <2> QED
    BY <1>2, <1>6, <1>7, <2>1, <2>2, <2>3, <2>4, <2>5, ReshapedTypes
<1>12. NotesOK'
  BY <1>4, <1>7, <1>9 DEF NotesOK
(* No other goroutine is opening this channel. *)
<1>13. \A h \in Goroutine \ {g} : job[h].at = "opening" =>
         /\ job[h].slot \in Slot /\ job[h].n \in DOMAIN chans[job[h].slot]
         /\ chans'[job[h].slot][job[h].n] = chans[job[h].slot][job[h].n]
  <2> SUFFICES ASSUME NEW h \in Goroutine \ {g}, job[h].at = "opening"
               PROVE  /\ job[h].slot \in Slot /\ job[h].n \in DOMAIN chans[job[h].slot]
                      /\ chans'[job[h].slot][job[h].n] = chans[job[h].slot][job[h].n]
    OBVIOUS
  <2>1. job[h].slot \in Slot
    BY AtWork
  <2>2. job[h].n \in DOMAIN chans[job[h].slot]
    BY DEF ReconnOK, WatchersOK, Goroutine
  <2>3. ~(job[h].slot = sl /\ job[h].n = n)
    BY <1>1, <1>2 DEF OpenersApart
  <2> QED
    BY <1>6, <2>1, <2>2, <2>3
<1>14. ReconnOK'
  <2>1. CASE g = "reconnConns"
    BY <1>1, <1>2, <1>3, <1>8, <1>9, <2>1 DEF ReconnOK, Latest, Slot
  <2>2. CASE g # "reconnConns"
    <3> DEFINE j == job["reconnConns"]
    <3>1. job'["reconnConns"] = j
      BY <1>8, <2>2 DEF Goroutine
    <3>2. j.at = "opening" => /\ j.n \in DOMAIN chans'[j.slot]
                              /\ chans'[j.slot][j.n] = chans[j.slot][j.n]
      BY <1>6, <1>13, <2>2 DEF Goroutine
    <3>3. j.at = "consuming" => j.n \in DOMAIN chans'["sendMsg"]
      BY <1>6 DEF ReconnOK, Slot
    <3>4. j.at = "dial" => \A k \in SlotsOn[SideOf[j.slot]] : Kept(k)' => Kept(k)
      BY <1>9, Sides DEF ReconnOK
    <3> QED
      BY <1>2, <1>9, <3>1, <3>2, <3>3, <3>4 DEF ReconnOK, Latest
  <2> QED
    BY <2>1, <2>2
<1>15. WatchersOK'
  <2> SUFFICES ASSUME NEW w \in Watcher PROVE WatchersOK!(w)'
    BY DEF WatchersOK
  <2>1. CASE w = g
    <3>1. w # "reconnConns"
      BY DEF Watcher
    <3> QED
      BY <1>2, <1>3, <1>8, <1>9, <2>1, <3>1 DEF Busy
  <2>2. CASE w # g
    <3> DEFINE j == job[w]
    <3>1. Busy(w) => j.slot \in Slot
      BY Watchers DEF WatchersOK
    <3>2. j.at = "opening" => j.n \in DOMAIN chans'[j.slot] /\ chans'[j.slot][j.n] = chans[j.slot][j.n]
      BY <1>6, <1>13, <2>2 DEF Goroutine
    <3>3. j.at = "consuming" => j.n \in DOMAIN chans'["sendMsg"]
      BY <1>6 DEF WatchersOK, Slot
    <3>4. job'[w] = job[w]
      BY <1>8, <2>2 DEF Goroutine
    <3> QED
      BY <1>2, <1>9, <3>1, <3>2, <3>3, <3>4 DEF WatchersOK, Busy
  <2> QED
    BY <2>1, <2>2
<1>16. OpenersApart'
  BY <1>8 DEF OpenersApart
<1>17. /\ Held(sl)'
       /\ \A k \in Slot \ {sl} : (OpenNow(k)' <=> OpenNow(k)) /\ (Held(k)' <=> Held(k))
  <2>1. \A k \in Slot \ {sl} : ch[k] # 0 => ch[k] \in DOMAIN chans[k]
    BY TypeParts DEF ChanTypes
  <2>2. \A k \in Slot \ {sl} : ch[k] # 0 => chans'[k][ch[k]] = chans[k][ch[k]]
    BY <1>6, <2>1
  <2>3. \A k \in Slot \ {sl} : (OpenNow(k)' <=> OpenNow(k)) /\ (Held(k)' <=> Held(k))
    BY <1>2, <1>7, <2>2 DEF OpenNow, Fresh, Held, Unnoticed
  <2>4. ch'[sl] = n /\ n # 0 /\ chans'[sl][n].st = "open" /\ chans'[sl][n].conn = Len(life'[SideOf[sl]])
    BY <1>2, <1>3, <1>4, <1>5, <1>6, <1>7
  <2> QED
    BY <2>3, <2>4 DEF Held, Fresh
<1>18. SlotsOK'
  <2>1. \A k \in Slot \ {sl} : Opens(g, k) => Opens(g, k)'
    <3> SUFFICES ASSUME NEW k \in Slot \ {sl}, Opens(g, k) PROVE Opens(g, k)'
      OBVIOUS
    <3>1. job[g].rest = <<k>>
      BY <1>1, <1>2 DEF Opens
    <3>2. <<k>> # <<>>
      OBVIOUS
    <3>3. \A x : <<x>> = <<k>> => x = k
      OBVIOUS
    <3> QED
      BY <1>8, <3>1, <3>2, <3>3 DEF Opens
  <2>2. \A k \in Slot : \A i \in DOMAIN chans[k] : chans'[k][i].conn = chans[k][i].conn
    BY <1>6
  <2>3. \A k \in Slot : Opens(g, k) \/ Held(k) => Opens(g, k)' \/ Held(k)'
    BY <1>17, <2>1
  <2> QED
    BY <1>2, <1>8, <1>9, <2>2, <2>3, SlotsStay
<1>19. ConsumerOK'
  <2>1. CASE sl = "sendMsg"
    BY <1>8, <2>1 DEF ConsumerOK, Consumes
  <2>2. CASE sl # "sendMsg"
    <3>1. ~Consumes(g) /\ "sendMsg" \in Slot \ {sl}
      BY <1>2, <2>2 DEF Consumes, Slot
    <3> QED
      BY <1>2, <1>7, <1>8, <1>17, <3>1, ConsumerStays
  <2> QED
    BY <2>1, <2>2
<1> QED
  BY <1>9, <1>10, <1>12, <1>14, <1>15, <1>16, <1>18, <1>19

-----------------------------------------------------------------------------
(* The broker answers the consuming of the host's queue. *)

LEMMA Consuming ==
  ASSUME IInv, NEW g \in Goroutine, Consume(g)
  PROVE  /\ job[g].at = "consuming" /\ g \in {"reconnConns", "reconnSendMsg"}
         /\ job[g].slot = "sendMsg" /\ job[g].rest = <<>>
         /\ job[g].n \in DOMAIN chans["sendMsg"] /\ job[g].n \in 1..Len(chans["sendMsg"])
         /\ chans["sendMsg"][job[g].n].st = "open"
         /\ chans["sendMsg"][job[g].n].conn = Len(life["con"]) /\ Latest("con") = "up"
<1> USE DEF IInv
<1> DEFINE n == job[g].n
<1>1. /\ job[g].at = "consuming" /\ chans["sendMsg"][n].st = "open"
      /\ life["con"][chans["sendMsg"][n].conn] = "up"
  BY DEF Consume, At, Answers
<1>2. job[g].slot = "sendMsg" /\ job[g].rest = <<>> /\ n \in DOMAIN chans["sendMsg"]
  BY <1>1 DEF ReconnOK, WatchersOK, Goroutine
<1>3. g \in {"reconnConns", "reconnSendMsg"}
  BY <1>1, <1>2, AtWork, Watchers DEF Watcher
<1>4. "sendMsg" \in Slot /\ SideOf["sendMsg"] = "con" /\ "con" \in Side
  BY Sides DEF Slot, Side
<1>5. chans["sendMsg"][n].conn \in Nat \ {0} /\ chans["sendMsg"][n].conn <= Len(life["con"])
  BY <1>2, <1>4, TypeParts, ChannelTypes DEF ChanTypes
<1>6. Len(life["con"]) \in Nat /\ \A k \in 1..(Len(life["con"]) - 1) : life["con"][k] = "told"
  BY <1>4, TypeParts DEF ConnTypes
<1>7. chans["sendMsg"][n].conn = Len(life["con"])
  BY <1>1, <1>5, <1>6
<1>8. n \in 1..Len(chans["sendMsg"])
  <2>1. chans["sendMsg"] \in Seq(AmqpChannel)
    BY <1>4, TypeParts DEF ChanTypes
  <2> QED
    BY <1>2, <2>1
<1> QED
  BY <1>1, <1>2, <1>3, <1>7, <1>8 DEF Latest

(* The broker closes an open channel: a refused Consume or on its own.     *)
LEMMA BrokerCloses ==
  ASSUME IInv, NEW sl \in Slot, NEW i \in DOMAIN chans[sl], NEW v \in {"jammed", "shut"},
         chans[sl][i].st = "open", v = "shut" => ~chans[sl][i].noted, Moves(sl, i, v),
         UNCHANGED <<life, conn, note, ready, ch, chNote, watch, job, refusals>>,
         UNCHANGED kept, UNCHANGED lost, UNCHANGED panicked, faults' \in Nat,
         denied' \in BOOLEAN, denied => denied', holder' \in {0, holder},
         OpenNow("sendMsg")' /\ holder = ch["sendMsg"] => denied' \/ holder' = holder
  PROVE  IInv'
<1> USE DEF IInv
<1>1. /\ chans' \in [Slot -> Seq(AmqpChannel)]
      /\ \A k \in Slot : Len(chans'[k]) = Len(chans[k]) /\ DOMAIN chans'[k] = DOMAIN chans[k]
      /\ \A k \in Slot : \A j \in DOMAIN chans[k] :
           /\ chans'[k][j].conn = chans[k][j].conn
           /\ chans'[k][j].noted = chans[k][j].noted
           /\ chans'[k][j].st = IF k = sl /\ j = i THEN v ELSE chans[k][j].st
  BY Restated DEF State
<1>2. /\ \A k \in Slot : (Kept(k)' <=> Kept(k)) /\ Latest(SideOf[k])' = Latest(SideOf[k])
      /\ Kept("saveMsg")' /\ Kept("sendMsg")'
  BY <1>1, Reshaped
<1>3. RecoveryTypeOK' /\ ConnsOK' /\ NotesOK'
  <2>1. ConnTypes' /\ ConnsOK'
    BY TypeParts DEF ConnTypes, ConnsOK, Latest
  <2>2. ChanTypes'
    <3>1. \A k \in Slot : \A j \in DOMAIN chans'[k] : chans'[k][j].conn <= Len(life'[SideOf[k]])
      BY <1>1, TypeParts DEF ChanTypes
    <3>2. \A k \in Slot : chNote'[k] # 0 => chans'[k][chNote'[k]].noted
      <4> SUFFICES ASSUME NEW k \in Slot, chNote[k] # 0 PROVE chans'[k][chNote[k]].noted
        OBVIOUS
      <4>1. chNote[k] \in DOMAIN chans[k] /\ chans[k][chNote[k]].noted
        BY TypeParts DEF ChanTypes
      <4> QED
        BY <1>1, <4>1
    <3> QED
      BY <1>1, <3>1, <3>2, TypeParts DEF ChanTypes
  <2>3. JobTypes'
    BY <1>2, TypeParts, Watchers DEF JobTypes
  <2>4. RestTypes'
    <3>1. holder' \in 0..Len(chans'["sendMsg"])
      <4>1. holder \in 0..Len(chans["sendMsg"]) /\ Len(chans["sendMsg"]) \in Nat
        BY TypeParts DEF RestTypes, ChanTypes, Slot
      <4> QED
        BY <1>1, <4>1 DEF Slot
    <3>2. kept' \in BOOLEAN /\ lost' \in BOOLEAN /\ denied' \in BOOLEAN /\ panicked' \in BOOLEAN
      BY TypeParts, Zenon DEF RestTypes
    <3>3. faults' \in Nat /\ refusals' \in 0..MaxRefusals
      BY TypeParts DEF RestTypes
    <3> QED
      BY <3>1, <3>2, <3>3, Zenon DEF RestTypes
  <2>5. NotesOK'
    BY <1>2 DEF NotesOK
  <2> QED
    BY <2>1, <2>2, <2>3, <2>4, <2>5, TypesThen
<1>4. ReconnOK'
  <2> DEFINE j == job["reconnConns"]
  <2>1. j.at = "opening" =>
          /\ j.n \in DOMAIN chans'[j.slot] /\ chans'[j.slot][j.n].conn = chans[j.slot][j.n].conn
          /\ chans'[j.slot][j.n].noted = chans[j.slot][j.n].noted /\ chans'[j.slot][j.n].st = "opening"
    BY <1>1 DEF ReconnOK
  <2>2. j.at = "consuming" => j.n \in DOMAIN chans'["sendMsg"]
    BY <1>1 DEF ReconnOK, Slot
  <2>3. j.at = "dial" => \A k \in SlotsOn[SideOf[j.slot]] : Kept(k)' => Kept(k)
    BY <1>2, Sides DEF ReconnOK
  <2> QED
    BY <1>2, <2>1, <2>2, <2>3 DEF ReconnOK, Latest
<1>5. WatchersOK'
  <2> SUFFICES ASSUME NEW w \in Watcher PROVE WatchersOK!(w)'
    BY DEF WatchersOK
  <2> DEFINE j == job[w]
  <2>1. Busy(w) => j.slot \in Slot
    BY Watchers DEF WatchersOK
  <2>2. j.at = "opening" =>
          /\ j.n \in DOMAIN chans'[j.slot]
          /\ ~chans'[j.slot][j.n].noted
          /\ \/ chans'[j.slot][j.n].st = "opening"
             \/ chans'[j.slot][j.n].st = "shut" /\ life[SideOf[j.slot]][chans'[j.slot][j.n].conn] = "told"
    BY ZenonT(40), <1>1, <2>1 DEF WatchersOK, Busy
  <2>3. j.at = "consuming" => j.n \in DOMAIN chans'["sendMsg"]
    BY <1>1 DEF WatchersOK, Slot
  <2> QED
    BY <1>2, <2>1, <2>2, <2>3 DEF WatchersOK, Busy
<1>6. OpenersApart'
  BY DEF OpenersApart
<1>7. /\ \A k \in Slot : Held(k) => Held(k)'
      /\ OpenNow("sendMsg")' => OpenNow("sendMsg")
  <2>1. \A k \in Slot : ch[k] # 0 => ch[k] \in DOMAIN chans[k]
    BY TypeParts DEF ChanTypes
  <2>2. \A k \in Slot : Fresh(k)' <=> Fresh(k)
    BY <1>1, <2>1 DEF Fresh
  <2>3. \A k \in Slot : Held(k) => Held(k)'
    BY <1>1, <2>1, <2>2 DEF Held, Unnoticed, Fresh
  <2>4. OpenNow("sendMsg")' => OpenNow("sendMsg")
    BY <1>1, <2>1, <2>2 DEF OpenNow, Fresh, Slot
  <2> QED
    BY <2>3, <2>4
<1>8. \A h \in Goroutine : \A k \in Slot : Opens(h, k) => Opens(h, k)'
  <2> SUFFICES ASSUME NEW h \in Goroutine, NEW k \in Slot, Opens(h, k) PROVE Opens(h, k)'
    OBVIOUS
  <2>1. job[h].at = "opening" /\ job[h].slot = k =>
          chans'[k][job[h].n].conn = chans[k][job[h].n].conn
    BY <1>1, OpenersKnown
  <2> QED
    BY <2>1 DEF Opens
<1>9. SlotsOK'
  BY <1>2, <1>7, <1>8 DEF SlotsOK
<1>10. ConsumerOK'
  <2>1. \A h \in Goroutine : Consumes(h)' <=> Consumes(h)
    BY DEF Consumes
  <2>2. Latest("con")' = Latest("con")
    BY DEF Latest
  <2> QED
    BY <1>7, <2>1, <2>2 DEF ConsumerOK
<1> QED
  BY <1>2, <1>3, <1>4, <1>5, <1>6, <1>9, <1>10

LEMMA ChannelClosesStep ==
  ASSUME IInv, NEW sl \in Slot, ChannelCloses(sl)
  PROVE  IInv'
<1>1. PICK i \in DOMAIN chans[sl] :
        /\ chans[sl][i].st = "open"
        /\ Moves(sl, i, IF chans[sl][i].noted THEN "jammed" ELSE "shut")
        /\ holder' = (IF sl = "sendMsg" /\ holder = i THEN 0 ELSE holder)
  BY DEF ChannelCloses
<1>2. PICK v \in {"jammed", "shut"} : v = IF chans[sl][i].noted THEN "jammed" ELSE "shut"
  OBVIOUS
<1>3. /\ UNCHANGED <<life, conn, note, ready, ch, chNote, watch, job, refusals>>
      /\ UNCHANGED kept /\ UNCHANGED lost /\ UNCHANGED panicked /\ UNCHANGED denied
      /\ faults' \in Nat /\ denied \in BOOLEAN
  BY TypeParts DEF ChannelCloses, IInv, RestTypes
<1>4. denied' \in BOOLEAN /\ (denied => denied')
  BY <1>3, Zenon
<1>5. OpenNow("sendMsg")' /\ holder = ch["sendMsg"] => holder' = holder
  <2> SUFFICES ASSUME OpenNow("sendMsg")', holder = ch["sendMsg"], sl = "sendMsg", holder = i PROVE FALSE
    BY <1>1
  <2>1. chans'["sendMsg"][i].st = "open"
    BY <1>3 DEF OpenNow
  <2>2. chans'[sl][i].st = v
    BY <1>1, <1>2, Restated DEF IInv, State
  <2> QED
    BY <2>1, <2>2
<1>6. Moves(sl, i, v) /\ holder' \in {0, holder} /\ (v = "shut" => ~chans[sl][i].noted)
  BY <1>1, <1>2
<1> QED
  BY <1>1, <1>3, <1>4, <1>5, <1>6, BrokerCloses

(* The queue is this channel's. *)
LEMMA ConsumeTakes ==
  ASSUME IInv, NEW g \in Goroutine, Consume(g), holder' = job[g].n, Becomes(g, Returned(job[g])), UNCHANGED chans,
         holder = 0, UNCHANGED denied
  PROVE  IInv'
<1> USE DEF IInv
<1>1. PICK n : n = job[g].n
  OBVIOUS
<1>2. /\ job[g].at = "consuming" /\ g \in {"reconnConns", "reconnSendMsg"}
      /\ job[g].slot = "sendMsg" /\ job[g].rest = <<>>
      /\ n \in DOMAIN chans["sendMsg"] /\ n \in 1..Len(chans["sendMsg"])
      /\ chans["sendMsg"][n].st = "open" /\ Latest("con") = "up"
  BY <1>1, Consuming
<1>3. /\ UNCHANGED fields
      /\ UNCHANGED <<life, ready, chans, ch, chNote, watch, kept, lost, denied, panicked>>
      /\ holder' = n
  BY <1>1 DEF Consume, fields
<1>4. /\ job' \in [Goroutine -> Job] /\ \A h \in Goroutine \ {g} : job'[h] = job[h]
      /\ job'[g].at = "sleep" /\ job'[g].slot = "none" /\ job'[g].rest = <<>>
  <2>1. job[g].at \notin {"sleep", "select"} /\ Becomes(g, Returned(job[g]))
    BY <1>2
  <2> QED
    BY <1>2, <2>1, CameBack
<1>5. /\ \A k \in Slot : (Kept(k)' <=> Kept(k)) /\ Latest(SideOf[k])' = Latest(SideOf[k])
      /\ Kept("saveMsg")' /\ Kept("sendMsg")'
  BY <1>3, SameChans DEF Latest
<1>6. RecoveryTypeOK' /\ ConnsOK'
  <2>1. JobTypes'
    <3>1. job[g].at # "select" /\ job'[g].at # "select"
      BY <1>2, <1>4
    <3> QED
      BY <1>3, <1>4, <1>5, <3>1, TypeParts, Watchers DEF JobTypes, Goroutine
  <2>2. ChanTypes'
    BY <1>3, TypeParts DEF ChanTypes
  <2>3. RestTypes'
    <3>1. holder' \in 0..Len(chans'["sendMsg"])
      BY <1>2, <1>3
    <3>2. kept' \in BOOLEAN /\ lost' \in BOOLEAN /\ denied' \in BOOLEAN /\ panicked' \in BOOLEAN
      <4>1. kept \in BOOLEAN /\ lost \in BOOLEAN /\ denied \in BOOLEAN /\ panicked \in BOOLEAN
        BY TypeParts DEF RestTypes
      <4>2. kept' = kept /\ lost' = lost /\ denied' = denied /\ panicked' = panicked
        BY <1>3
      <4> QED
        BY <4>1, <4>2, Zenon
    <3>3. faults' \in Nat /\ refusals' \in 0..MaxRefusals
      BY <1>3, TypeParts DEF RestTypes, fields
    <3> QED
      BY <3>1, <3>2, <3>3, Zenon DEF RestTypes
  <2>4. ConnTypes' /\ ConnsOK'
    BY <1>3, SameConns
  <2> QED
    BY <2>1, <2>2, <2>3, <2>4, TypesThen
<1>7. NotesOK'
  BY <1>3, <1>5 DEF NotesOK
<1>8. ReconnOK'
  BY <1>2, <1>3, <1>4 DEF ReconnOK, Latest, Kept, Goroutine
<1>9. WatchersOK'
  <2> SUFFICES ASSUME NEW w \in Watcher PROVE WatchersOK!(w)'
    BY DEF WatchersOK
  <2>1. CASE w = g
    BY <1>4, <2>1 DEF Busy
  <2>2. CASE w # g
    <3>1. job'[w] = job[w]
      BY <1>4, <2>2 DEF Goroutine
    <3> QED
      BY <1>3, <3>1 DEF WatchersOK, Busy, Kept
  <2> QED
    BY <2>1, <2>2
<1>10. OpenersApart'
  BY <1>4 DEF OpenersApart
<1>11. SlotsOK'
  <2>1. \A k \in Slot : ~Opens(g, k)
    BY <1>2 DEF Opens
  <2> QED
    BY <1>3, <1>4, <1>5, <2>1, SameSlots, SlotsStay
<1>12. ConsumerOK'
  <2>1. OpenNow("sendMsg")' => OpenNow("sendMsg") /\ ch["sendMsg"] # holder
    BY <1>3, SameSlots DEF OpenNow, Fresh, Slot
  <2>2. Consumes(g) => holder' = ch["sendMsg"]
    BY <1>1, <1>2, <1>3 DEF Consumes
  <2> QED
    BY <1>3, <1>4, <2>1, <2>2, ConsumerStays
<1> QED
  BY <1>5, <1>6, <1>7, <1>8, <1>9, <1>10, <1>11, <1>12

LEMMA ConsumeStep ==
  ASSUME IInv, NEW g \in Goroutine, Consume(g)
  PROVE  IInv'
<1>1. CASE kept \/ holder # 0
  <2>1. /\ Moves("sendMsg", job[g].n, "jammed") /\ UNCHANGED job /\ holder' \in {0, holder}
        /\ denied' = TRUE /\ UNCHANGED fields /\ UNCHANGED <<ch, chNote, watch>>
        /\ UNCHANGED kept /\ UNCHANGED lost /\ UNCHANGED panicked
    BY <1>1 DEF Consume
  <2>2. /\ "sendMsg" \in Slot /\ job[g].n \in DOMAIN chans["sendMsg"] /\ chans["sendMsg"][job[g].n].st = "open"
    BY Consuming DEF Slot
  <2>3. UNCHANGED <<life, conn, note, ready, ch, chNote, watch, job, refusals>> /\ faults' \in Nat
    BY <2>1, TypeParts DEF fields, IInv, RestTypes
  <2>4. denied' \in BOOLEAN /\ (denied => denied') /\ denied'
    BY <2>1, Zenon
  <2> QED
    BY <2>1, <2>2, <2>3, <2>4, BrokerCloses
<1>2. CASE ~(kept \/ holder # 0)
  <2>1. holder' = job[g].n /\ Becomes(g, Returned(job[g])) /\ UNCHANGED chans /\ holder = 0 /\ UNCHANGED denied
    BY <1>2 DEF Consume
  <2> QED
    BY <2>1, ConsumeTakes
<1> QED
  BY <1>1, <1>2

-----------------------------------------------------------------------------
(* Steps of the connections. *)

LEMMA Unmoved ==
  ASSUME SlotsOK, ConsumerOK, UNCHANGED <<life, chans, ch, job, holder>>, UNCHANGED lost, UNCHANGED denied
  PROVE  SlotsOK' /\ ConsumerOK'
<1>1. /\ \A sl \in Slot : (OpenNow(sl)' <=> OpenNow(sl)) /\ (Held(sl)' <=> Held(sl)) /\ (Kept(sl)' <=> Kept(sl))
      /\ \A g \in Goroutine : \A sl \in Slot : Opens(g, sl)' <=> Opens(g, sl)
      /\ \A g \in Goroutine : Consumes(g)' <=> Consumes(g)
      /\ \A s : Latest(s)' = Latest(s)
  BY SameSlots DEF Opens, Consumes, Kept, Latest
<1>2. SlotsOK'
  BY <1>1 DEF SlotsOK
<1>3. ConsumerOK'
  BY <1>1 DEF ConsumerOK, Slot
<1> QED
  BY <1>2, <1>3

LEMMA BrokerNoticesStep ==
  ASSUME IInv, BrokerNotices
  PROVE  IInv'
<1> USE DEF IInv
<1>1. /\ UNCHANGED <<life, conn, note, ready, chans, ch, chNote, watch, job, holder, lost, denied, panicked, faults, refusals>>
      /\ UNCHANGED fields /\ kept' = FALSE
  BY DEF BrokerNotices, fields
<1>2. RecoveryTypeOK'
  <2>1. ConnTypes' /\ ChanTypes' /\ JobTypes'
    BY <1>1, TypeParts DEF ConnTypes, ChanTypes, JobTypes, Kept
  <2>2. RestTypes'
    <3>1. kept' \in BOOLEAN /\ lost' \in BOOLEAN /\ denied' \in BOOLEAN /\ panicked' \in BOOLEAN
      <4>1. lost \in BOOLEAN /\ denied \in BOOLEAN /\ panicked \in BOOLEAN
        BY TypeParts DEF RestTypes
      <4>2. kept' = FALSE /\ lost' = lost /\ denied' = denied /\ panicked' = panicked
        BY <1>1
      <4> QED
        BY <4>1, <4>2, Zenon
    <3>2. /\ holder' \in 0..Len(chans'["sendMsg"])
          /\ faults' \in Nat /\ refusals' \in 0..MaxRefusals
      BY <1>1, TypeParts DEF RestTypes
    <3> QED
      BY <3>1, <3>2, Zenon DEF RestTypes
  <2> QED
    BY <2>1, <2>2, TypesThen
<1>3. ConnsOK' /\ NotesOK' /\ Kept("saveMsg")' /\ Kept("sendMsg")'
  BY <1>1 DEF ConnsOK, NotesOK, Kept, Latest
<1>4. ReconnOK' /\ WatchersOK' /\ OpenersApart'
  BY <1>1 DEF ReconnOK, WatchersOK, OpenersApart, Kept, Latest, Busy
<1>5. SlotsOK' /\ ConsumerOK'
  BY <1>1, Unmoved
<1> QED
  BY <1>2, <1>3, <1>4, <1>5

LEMMA StopUseStep ==
  ASSUME IInv, StopUse
  PROVE  IInv'
<1> USE DEF IInv
<1> DEFINE s == SideOf[job["reconnConns"].slot]
<1>1. /\ UNCHANGED <<life, conn, note, chans, ch, chNote, watch, job, holder, kept, lost, denied, panicked, faults, refusals>>
      /\ job["reconnConns"].at = "dial" /\ ready' = [ready EXCEPT ![s] = FALSE]
      /\ s \in Side /\ Latest(s) = "told"
  BY Sides DEF StopUse, At, broker, ReconnOK
<1>2. ready' \in [Side -> BOOLEAN] /\ ~ready'[s] /\ \A t \in Side \ {s} : ready'[t] = ready[t]
  <2>1. ready \in [Side -> BOOLEAN]
    BY TypeParts DEF ConnTypes
  <2> QED
    BY <1>1, <2>1
<1> HIDE DEF s
<1>3. RecoveryTypeOK'
  <2>1. ConnTypes'
    BY <1>1, <1>2, TypeParts DEF ConnTypes
  <2>2. ChanTypes' /\ JobTypes'
    BY <1>1, TypeParts DEF ChanTypes, JobTypes, Kept
  <2>3. RestTypes'
    <3>1. UNCHANGED <<chans, holder, kept, faults, refusals>> /\ UNCHANGED lost /\ UNCHANGED denied /\ UNCHANGED panicked
      BY <1>1
    <3> QED
      BY <3>1, SameRest, Zenon
  <2> QED
    BY <2>1, <2>2, <2>3, TypesThen
<1>4. ConnsOK'
  BY <1>1, <1>2 DEF ConnsOK, Latest
<1>5. NotesOK' /\ Kept("saveMsg")' /\ Kept("sendMsg")'
  BY <1>1 DEF NotesOK, Kept
<1>6. ReconnOK'
  BY <1>1 DEF ReconnOK, Latest, Kept
<1>7. WatchersOK' /\ OpenersApart'
  BY <1>1 DEF WatchersOK, OpenersApart, Kept, Busy
<1>8. SlotsOK' /\ ConsumerOK'
  BY <1>1, Unmoved
<1> QED
  BY <1>3, <1>4, <1>5, <1>6, <1>7, <1>8

LEMMA DialFailsStep ==
  ASSUME IInv, DialFails
  PROVE  IInv'
<1> USE DEF IInv
<1> DEFINE s == SideOf[job["reconnConns"].slot]
<1>1. /\ UNCHANGED <<life, note, ready, chans, ch, chNote, watch, holder, kept, lost, denied, panicked, faults>>
      /\ job["reconnConns"].at = "dial" /\ ~ready[s]
      /\ refusals' \in 0..MaxRefusals
      /\ s \in Side /\ Latest(s) = "told"
      /\ \A sl \in SlotsOn[s] : Kept(sl) => sl = job["reconnConns"].slot \/ job["reconnConns"].rest = <<sl>>
  <2>1. refusals' \in 0..MaxRefusals
    BY TypeParts, RecoveryAssumption DEF DialFails, RestTypes
  <2> QED
    BY <2>1, Sides DEF DialFails, At, broker, ReconnOK
<1>2. conn' \in [Side -> Nat] /\ conn'[s] = 0 /\ \A t \in Side \ {s} : conn'[t] = conn[t]
  <2>1. conn \in [Side -> Nat]
    BY TypeParts DEF ConnTypes
  <2> QED
    BY <1>1, <2>1 DEF DialFails
<1>3. /\ job' \in [Goroutine -> Job] /\ \A h \in Goroutine \ {"reconnConns"} : job'[h] = job[h]
      /\ job'["reconnConns"].at = "sleep" /\ job'["reconnConns"].slot = "none" /\ job'["reconnConns"].rest = <<>>
  <2>1. Asleep \in Job /\ Asleep.at = "sleep" /\ Asleep.slot = "none" /\ Asleep.rest = <<>>
    BY DEF Asleep, Doing, Job, Place
  <2>2. Becomes("reconnConns", Asleep)
    BY DEF DialFails
  <2> HIDE DEF Asleep
  <2> QED
    BY <2>1, <2>2, Became DEF Goroutine
<1>4. job'["reconnSendMsg"] = job["reconnSendMsg"] /\ \A w \in Watcher : job'[w] = job[w]
  BY <1>3 DEF Goroutine, Watcher
<1>5. RecoveryTypeOK'
  <2>1. ConnTypes'
    <3>1. \A t \in Side : Len(life[t]) \in Nat
      BY TypeParts DEF ConnTypes
    <3>2. \A t \in Side : conn'[t] <= Len(life[t]) /\ (ready[t] => conn'[t] = Len(life[t]))
      <4> SUFFICES ASSUME NEW t \in Side
                   PROVE  conn'[t] <= Len(life[t]) /\ (ready[t] => conn'[t] = Len(life[t]))
        OBVIOUS
      <4>1. CASE t = s
        BY <1>1, <1>2, <3>1, <4>1
      <4>2. CASE t # s
        BY <1>2, <4>2, TypeParts DEF ConnTypes
      <4> QED
        BY <4>1, <4>2
    <3> QED
      BY <1>1, <1>2, <3>2, TypeParts DEF ConnTypes
  <2>2. ChanTypes'
    BY <1>1, TypeParts DEF ChanTypes
  <2>3. JobTypes'
    BY <1>1, <1>3, <1>4, TypeParts DEF JobTypes, Kept
  <2>4. RestTypes'
    <3>1. holder' \in 0..Len(chans'["sendMsg"]) /\ faults' \in Nat
      BY <1>1, TypeParts DEF RestTypes
    <3>2. kept' \in BOOLEAN /\ lost' \in BOOLEAN /\ denied' \in BOOLEAN /\ panicked' \in BOOLEAN
      <4>1. kept \in BOOLEAN /\ lost \in BOOLEAN /\ denied \in BOOLEAN /\ panicked \in BOOLEAN
        BY TypeParts DEF RestTypes
      <4>2. kept' = kept /\ lost' = lost /\ denied' = denied /\ panicked' = panicked
        BY <1>1
      <4> QED
        BY <4>1, <4>2, Zenon
    <3> QED
      BY <1>1, <3>1, <3>2, Zenon DEF RestTypes
  <2> QED
    BY <2>1, <2>2, <2>3, <2>4, TypesThen
<1>6. ConnsOK'
  BY <1>1, <1>2 DEF ConnsOK, Latest
<1>7. /\ Kept("saveMsg")' /\ Kept("sendMsg")'
      /\ \A sl \in Slot : (Kept(sl)' <=> Kept(sl)) /\ Latest(SideOf[sl])' = Latest(SideOf[sl])
  BY <1>1, SameChans DEF Latest
<1>8. NotesOK'
  BY <1>1, <1>7 DEF NotesOK
<1>9. ReconnOK'
  BY <1>3 DEF ReconnOK
<1>10. WatchersOK'
  <2> SUFFICES ASSUME NEW w \in Watcher PROVE WatchersOK!(w)'
    BY DEF WatchersOK
  <2>1. job'[w] = job[w] /\ WatchersOK!(w) /\ (\A sl \in Slot : Kept(sl)' <=> Kept(sl))
    BY <1>4, <1>7 DEF WatchersOK
  <2>2. chans' = chans /\ life' = life
    BY <1>1
  <2> QED
    BY <2>1, <2>2 DEF Kept, Busy
<1>11. OpenersApart'
  BY <1>3 DEF OpenersApart
<1>12. SlotsOK'
  <2>1. \A k \in Slot : Opens("reconnConns", k) => Latest(SideOf[k]) = "told"
    <3> SUFFICES ASSUME NEW k \in Slot, job["reconnConns"].rest = <<k>> PROVE SideOf[k] = s
      BY <1>1 DEF Opens
    <3>1. <<k>> # <<>> /\ \A x : <<x>> = <<k>> => x = k
      OBVIOUS
    <3> QED
      BY <1>1, <3>1, Sides DEF ReconnOK
  <2>2. "reconnConns" \in Goroutine
    BY DEF Goroutine
  <2> QED
    BY <1>1, <1>3, <1>7, <2>1, <2>2, SameSlots, SlotsStay
<1>13. ConsumerOK'
  <2>1. ~Consumes("reconnConns") /\ "reconnConns" \in Goroutine
    BY <1>1 DEF Consumes, Goroutine
  <2> QED
    BY <1>1, <1>3, <2>1, SameSlots, ConsumerStays DEF Slot
<1> QED
  BY <1>5, <1>6, <1>7, <1>8, <1>9, <1>10, <1>11, <1>12, <1>13

(* A connection ends, or reconnConns reads that it has. *)
LEMMA Ended ==
  ASSUME RecoveryTypeOK, NEW s \in Side, NEW n \in DOMAIN life[s], NEW v \in {"dead", "told"},
         life' = [life EXCEPT ![s][n] = v]
  PROVE  /\ life' \in [Side -> Seq({"up", "dead", "told"})]
         /\ \A t \in Side : Len(life'[t]) = Len(life[t]) /\ DOMAIN life'[t] = DOMAIN life[t]
         /\ \A t \in Side : \A k \in DOMAIN life[t] :
              life'[t][k] = IF t = s /\ k = n THEN v ELSE life[t][k]
<1>1. life \in [Side -> Seq({"up", "dead", "told"})]
  BY TypeParts DEF ConnTypes
<1>2. PICK q : q = [life[s] EXCEPT ![n] = v]
  OBVIOUS
<1>3. /\ q \in Seq({"up", "dead", "told"}) /\ Len(q) = Len(life[s]) /\ DOMAIN q = DOMAIN life[s]
      /\ \A k \in DOMAIN life[s] : q[k] = IF k = n THEN v ELSE life[s][k]
  BY <1>1, <1>2
<1>4. /\ \A t \in Side : life'[t] = IF t = s THEN q ELSE life[t]
      /\ life' \in [Side -> Seq({"up", "dead", "told"})]
  BY <1>1, <1>2, <1>3
<1> QED
  BY <1>3, <1>4

LEMMA ConnDiesStep ==
  ASSUME IInv, NEW s \in Side, ConnDies(s)
  PROVE  IInv'
<1> USE DEF IInv
<1>1. PICK n : n = Len(life[s])
  OBVIOUS
<1>2. /\ UNCHANGED <<conn, note, ready, chans, ch, chNote, watch, job, lost, denied, panicked, refusals>>
      /\ faults' \in Nat /\ life[s][n] = "up" /\ n \in DOMAIN life[s] /\ n \in Nat \ {0}
      /\ life' = [life EXCEPT ![s][n] = "dead"]
  <2>1. life[s] # <<>> /\ life[s] \in Seq({"up", "dead", "told"})
    BY TypeParts DEF ConnTypes, ConnsOK
  <2>2. n \in DOMAIN life[s] /\ n \in Nat \ {0}
    BY <1>1, <2>1
  <2>3. faults' \in Nat
    BY TypeParts DEF ConnDies, RestTypes
  <2> QED
    BY <1>1, <2>2, <2>3 DEF ConnDies
<1>3. /\ s # "con" => holder' = holder /\ kept' = kept
      /\ holder' \in {0, holder} /\ kept' \in BOOLEAN
  <2>1. kept \in BOOLEAN
    BY TypeParts DEF RestTypes
  <2>2. CASE s = "con"
    <3>1. kept' = FALSE \/ kept' = (kept \/ holder # 0)
      BY <2>2 DEF ConnDies
    <3>2. holder' = 0
      BY <2>2 DEF ConnDies
    <3>3. kept' \in BOOLEAN
      BY <2>1, <3>1, Zenon
    <3> QED
      BY <2>2, <3>2, <3>3, Zenon
  <2>3. CASE s # "con"
    <3>1. kept' = kept /\ holder' = holder
      BY <2>3 DEF ConnDies
    <3> QED
      BY <2>1, <2>3, <3>1, Zenon
  <2> QED
    BY <2>2, <2>3, Zenon
<1>4. /\ life' \in [Side -> Seq({"up", "dead", "told"})]
      /\ \A t \in Side : Len(life'[t]) = Len(life[t]) /\ DOMAIN life'[t] = DOMAIN life[t]
      /\ \A t \in Side : \A k \in DOMAIN life[t] :
           life'[t][k] = IF t = s /\ k = n THEN "dead" ELSE life[t][k]
  BY <1>2, Ended
<1>5. /\ \A t \in Side : life[t] # <<>> /\ Len(life[t]) \in DOMAIN life[t] /\ DOMAIN life[t] = 1..Len(life[t])
      /\ \A t \in Side : Latest(t)' = IF t = s THEN "dead" ELSE Latest(t)
      /\ Latest(s) = "up"
  <2>1. \A t \in Side : life[t] # <<>> /\ life[t] \in Seq({"up", "dead", "told"})
    BY TypeParts DEF ConnTypes, ConnsOK
  <2>2. \A t \in Side : Len(life[t]) \in DOMAIN life[t] /\ DOMAIN life[t] = 1..Len(life[t])
    BY <2>1
  <2> QED
    BY <1>1, <1>2, <1>4, <2>1, <2>2 DEF Latest
<1>6. \A t \in Side : \A k \in DOMAIN life[t] : life[t][k] = "told" <=> life'[t][k] = "told"
  BY <1>2, <1>4
<1>7. \A sl \in Slot : /\ SideOf[sl] \in Side /\ Len(life'[SideOf[sl]]) = Len(life[SideOf[sl]])
                       /\ Latest(SideOf[sl])' = IF SideOf[sl] = s THEN "dead" ELSE Latest(SideOf[sl])
  BY <1>4, <1>5, Sides
<1>8. RecoveryTypeOK'
  <2>1. ConnTypes'
    <3>1. \A t \in Side : \A i \in 1..(Len(life'[t]) - 1) : life'[t][i] = "told"
      <4> SUFFICES ASSUME NEW t \in Side, NEW i \in 1..(Len(life[t]) - 1) PROVE life'[t][i] = "told"
        BY <1>4
      <4>1. life[t][i] = "told"
        BY TypeParts DEF ConnTypes
      <4>2. i \in DOMAIN life[t]
        BY <1>5
      <4> QED
        BY <1>6, <4>1, <4>2
    <3> QED
      BY <1>2, <1>4, <3>1, TypeParts DEF ConnTypes
  <2>2. ChanTypes'
    BY <1>2, <1>7, TypeParts DEF ChanTypes
  <2>3. JobTypes'
    BY <1>2, TypeParts DEF JobTypes, Kept
  <2>4. RestTypes'
    <3>1. holder' \in 0..Len(chans'["sendMsg"]) /\ refusals' \in 0..MaxRefusals
      <4>1. holder \in 0..Len(chans["sendMsg"]) /\ Len(chans["sendMsg"]) \in Nat
        BY TypeParts DEF RestTypes, ChanTypes, Slot
      <4>2. refusals' \in 0..MaxRefusals
        BY <1>2, TypeParts DEF RestTypes
      <4> QED
        BY <1>2, <1>3, <4>1, <4>2
    <3>2. kept' \in BOOLEAN /\ lost' \in BOOLEAN /\ denied' \in BOOLEAN /\ panicked' \in BOOLEAN
      <4>1. lost \in BOOLEAN /\ denied \in BOOLEAN /\ panicked \in BOOLEAN
        BY TypeParts DEF RestTypes
      <4>2. lost' = lost /\ denied' = denied /\ panicked' = panicked
        BY <1>2
      <4> QED
        BY <1>3, <4>1, <4>2, Zenon
    <3> QED
      BY <1>2, <3>1, <3>2, Zenon DEF RestTypes
  <2> QED
    BY <2>1, <2>2, <2>3, <2>4, TypesThen
<1>9. ConnsOK'
  <2>1. \A t \in Side : life'[t] # <<>>
    <3>1. \A q \in Seq({"up", "dead", "told"}) : q = <<>> <=> Len(q) = 0
      OBVIOUS
    <3>2. \A t \in Side : life[t] \in Seq({"up", "dead", "told"}) /\ life'[t] \in Seq({"up", "dead", "told"})
      BY <1>4, TypeParts DEF ConnTypes
    <3> QED
      BY <1>4, <1>5, <3>1, <3>2
  <2> QED
    BY <1>2, <1>4, <1>5, <2>1 DEF ConnsOK
<1>10. /\ NotesOK' /\ Kept("saveMsg")' /\ Kept("sendMsg")'
  BY <1>2, <1>4 DEF NotesOK, Kept
<1>11. ReconnOK'
  <2> DEFINE j == job["reconnConns"]
  <2>1. j.at # "sleep" => SideOf[j.slot] \in Side
    BY Sides DEF ReconnOK
  <2>2. j.at = "dial" => SideOf[j.slot] # s
    BY <1>5 DEF ReconnOK
  <2>3. j.at = "blocked" => SideOf[j.slot] # s
    BY <1>5 DEF ReconnOK
  <2> QED
    BY <1>2, <1>4, <1>5, <2>1, <2>2, <2>3 DEF ReconnOK, Kept
<1>12. WatchersOK'
  <2> SUFFICES ASSUME NEW w \in Watcher PROVE WatchersOK!(w)'
    BY DEF WatchersOK
  <2> DEFINE j == job[w]
  <2>1. Busy(w) => j.slot \in Slot /\ SideOf[j.slot] \in Side
    BY Watchers, Sides DEF WatchersOK
  <2>2. j.at = "opening" => chans[j.slot][j.n].conn \in DOMAIN life[SideOf[j.slot]]
    <3> SUFFICES ASSUME j.at = "opening" PROVE chans[j.slot][j.n].conn \in DOMAIN life[SideOf[j.slot]]
      OBVIOUS
    <3>1. j.slot \in Slot /\ SideOf[j.slot] \in Side /\ j.n \in DOMAIN chans[j.slot]
      BY <2>1 DEF WatchersOK, Busy
    <3>2. chans[j.slot][j.n].conn \in Nat \ {0} /\ chans[j.slot][j.n].conn <= Len(life[SideOf[j.slot]])
      BY <3>1, TypeParts, ChannelTypes DEF ChanTypes
    <3>3. Len(life[SideOf[j.slot]]) \in Nat
      BY <3>1, TypeParts DEF ConnTypes
    <3> QED
      BY <1>5, <3>1, <3>2, <3>3
  <2> QED
    <3>1. job' = job /\ chans' = chans
      BY <1>2
    <3>2. j.at = "blocked" => j.n \in DOMAIN life'[SideOf[j.slot]]
      BY <1>4, <2>1 DEF WatchersOK, Busy
    <3>3. j.at = "opening" =>
            (life[SideOf[j.slot]][chans[j.slot][j.n].conn] = "told"
               => life'[SideOf[j.slot]][chans[j.slot][j.n].conn] = "told")
      BY <1>6, <2>1, <2>2 DEF Busy
    <3>4. \A k \in Slot : Kept(k)' <=> Kept(k)
      BY <3>1 DEF Kept
    <3> QED
      BY <2>1, <3>1, <3>2, <3>3, <3>4 DEF WatchersOK, Busy
<1>13. OpenersApart'
  BY <1>2 DEF OpenersApart
<1>14. \A sl \in Slot : /\ OpenNow(sl)' <=> OpenNow(sl)
                        /\ Held(sl)' <=> Held(sl)
                        /\ \A h \in Goroutine : Opens(h, sl)' <=> Opens(h, sl)
  BY <1>2, <1>7 DEF OpenNow, Held, Unnoticed, Fresh, Opens
<1>15. SlotsOK'
  <2> SUFFICES ASSUME NEW sl \in Slot, Kept(sl), Latest(SideOf[sl])' = "up", ~lost
               PROVE  Held(sl)' \/ \E h \in Goroutine : Opens(h, sl)'
    BY <1>2 DEF SlotsOK, Kept
  <2>1. Latest(SideOf[sl]) = "up"
    BY <1>7
  <2>2. Held(sl) \/ \E h \in Goroutine : Opens(h, sl)
    BY <2>1 DEF SlotsOK
  <2> QED
    BY <1>14, <2>2
<1>16. ConsumerOK'
  <2>1. Latest("con")' = "up" => Latest("con") = "up" /\ s # "con"
    BY <1>5 DEF Side
  <2>2. \A h \in Goroutine : Consumes(h)' <=> Consumes(h)
    BY <1>2 DEF Consumes
  <2> SUFFICES ASSUME Latest("con")' = "up", OpenNow("sendMsg")', ~denied, holder' # ch["sendMsg"]
               PROVE  \E h \in Goroutine : Consumes(h)'
    BY <1>2 DEF ConsumerOK
  <2>3. Latest("con") = "up" /\ OpenNow("sendMsg") /\ holder # ch["sendMsg"]
    BY <1>3, <1>14, <2>1 DEF Slot
  <2>4. \E h \in Goroutine : Consumes(h)
    BY <2>3 DEF ConsumerOK
  <2> QED
    BY <2>2, <2>4
<1> QED
  BY <1>8, <1>9, <1>10, <1>11, <1>12, <1>13, <1>15, <1>16

LEMMA ConnNoticeStep ==
  ASSUME IInv, NEW s \in Side, ConnNotice(s)
  PROVE  IInv'
<1> USE DEF IInv
<1>1. PICK n : n = note[s]
  OBVIOUS
<1>2. /\ UNCHANGED <<conn, note, ready, chans, ch, chNote, watch, holder, kept, lost, denied, panicked, faults, refusals>>
      /\ job["reconnConns"].at = "sleep" /\ life[s][n] # "up"
      /\ n = Len(life[s]) /\ n \in DOMAIN life[s]
      /\ life' = [life EXCEPT ![s][n] = "told"]
  <2>1. n = Len(life[s]) /\ life[s] # <<>> /\ life[s] \in Seq({"up", "dead", "told"})
    BY <1>1, TypeParts DEF ConnTypes, ConnsOK
  <2> QED
    BY <1>1, <2>1 DEF ConnNotice, At, broker
<1>3. PICK sl \in Slot :
        /\ SideOf[sl] = s /\ Kept(sl)
        /\ \E rest \in Seq(Slot) :
             /\ Becomes("reconnConns", Doing("dial", sl, 0, rest))
             /\ \/ rest = <<>>
                \/ sl = "lastSeenPub" /\ rest = <<"saveMsg">>
                \/ sl = "lastSeenCon" /\ rest = <<"sendMsg">>
             /\ \A k \in SlotsOn[s] : Kept(k) => k = sl \/ rest = <<k>>
  <2> DEFINE first  == IF s = "pub" THEN "lastSeenPub" ELSE "lastSeenCon"
             second == IF s = "pub" THEN "saveMsg" ELSE "sendMsg"
  <2>1. /\ first \in Slot /\ second \in Slot /\ SideOf[first] = s /\ SideOf[second] = s /\ Kept(second)
        /\ SlotsOn[s] = {first, second}
        /\ \/ first = "lastSeenPub" /\ second = "saveMsg"
           \/ first = "lastSeenCon" /\ second = "sendMsg"
    BY Sides DEF Side, Slot
  <2>2. Becomes("reconnConns", Doing("dial", Head(Reinit(s)), 0, Tail(Reinit(s))))
    BY DEF ConnNotice
  <2>3. CASE Kept(first)
    <3>1. Reinit(s) = <<first, second>>
      BY <2>3 DEF Reinit
    <3> HIDE DEF first, second
    <3>2. Head(Reinit(s)) = first /\ Tail(Reinit(s)) = <<second>> /\ <<second>> \in Seq(Slot)
      BY <2>1, <3>1
    <3>3. Becomes("reconnConns", Doing("dial", first, 0, <<second>>))
      BY <2>2, <3>2
    <3> QED
      BY <2>1, <2>3, <3>2, <3>3
  <2>4. CASE ~Kept(first)
    <3>1. Reinit(s) = <<second>>
      BY <2>4 DEF Reinit
    <3> HIDE DEF first, second
    <3>2. Head(Reinit(s)) = second /\ Tail(Reinit(s)) = <<>> /\ <<>> \in Seq(Slot)
      BY <2>1, <3>1
    <3>3. Becomes("reconnConns", Doing("dial", second, 0, <<>>))
      BY <2>2, <3>2
    <3> QED
      BY <2>1, <2>4, <3>2, <3>3
  <2> QED
    BY <2>3, <2>4
<1>4. /\ job' \in [Goroutine -> Job] /\ \A h \in Goroutine \ {"reconnConns"} : job'[h] = job[h]
      /\ job'["reconnConns"].at = "dial" /\ job'["reconnConns"].slot = sl
      /\ \/ job'["reconnConns"].rest = <<>>
         \/ sl = "lastSeenPub" /\ job'["reconnConns"].rest = <<"saveMsg">>
         \/ sl = "lastSeenCon" /\ job'["reconnConns"].rest = <<"sendMsg">>
      /\ \A k \in SlotsOn[s] : Kept(k) => k = sl \/ job'["reconnConns"].rest = <<k>>
  <2>1. PICK rest \in Seq(Slot) :
          /\ Becomes("reconnConns", Doing("dial", sl, 0, rest))
          /\ \/ rest = <<>>
             \/ sl = "lastSeenPub" /\ rest = <<"saveMsg">>
             \/ sl = "lastSeenCon" /\ rest = <<"sendMsg">>
          /\ \A k \in SlotsOn[s] : Kept(k) => k = sl \/ rest = <<k>>
    BY <1>3
  <2> DEFINE j == Doing("dial", sl, 0, rest)
  <2>2. j \in Job /\ j.at = "dial" /\ j.slot = sl /\ j.rest = rest
    BY DEF Doing, Job, Place
  <2>3. Becomes("reconnConns", j)
    BY <2>1
  <2> HIDE DEF j
  <2>4. /\ job' \in [Goroutine -> Job] /\ job'["reconnConns"] = j
        /\ \A h \in Goroutine \ {"reconnConns"} : job'[h] = job[h]
    BY <2>2, <2>3, Became DEF Goroutine
  <2> QED
    BY <2>1, <2>2, <2>4
<1>5. job'["reconnSendMsg"] = job["reconnSendMsg"] /\ \A w \in Watcher : job'[w] = job[w]
  BY <1>4 DEF Goroutine, Watcher
<1>6. /\ life' \in [Side -> Seq({"up", "dead", "told"})]
      /\ \A t \in Side : Len(life'[t]) = Len(life[t]) /\ DOMAIN life'[t] = DOMAIN life[t]
      /\ \A t \in Side : \A k \in DOMAIN life[t] :
           life'[t][k] = IF t = s /\ k = n THEN "told" ELSE life[t][k]
  BY <1>2, Ended
<1>7. /\ \A t \in Side : life[t] # <<>> /\ Len(life[t]) \in DOMAIN life[t] /\ DOMAIN life[t] = 1..Len(life[t])
      /\ \A t \in Side : Latest(t)' = IF t = s THEN "told" ELSE Latest(t)
  <2>1. \A t \in Side : life[t] # <<>> /\ life[t] \in Seq({"up", "dead", "told"})
    BY TypeParts DEF ConnTypes, ConnsOK
  <2>2. \A t \in Side : Len(life[t]) \in DOMAIN life[t] /\ DOMAIN life[t] = 1..Len(life[t])
    BY <2>1
  <2> QED
    BY <1>2, <1>6, <2>1, <2>2 DEF Latest
<1>8. \A t \in Side : \A k \in DOMAIN life[t] : life[t][k] = "told" => life'[t][k] = "told"
  BY <1>6
<1>9. \A k \in Slot : /\ SideOf[k] \in Side /\ Len(life'[SideOf[k]]) = Len(life[SideOf[k]])
                      /\ Latest(SideOf[k])' = IF SideOf[k] = s THEN "told" ELSE Latest(SideOf[k])
  BY <1>6, <1>7, Sides
<1>10. RecoveryTypeOK'
  <2>1. ConnTypes'
    <3>1. \A t \in Side : \A i \in 1..(Len(life'[t]) - 1) : life'[t][i] = "told"
      <4> SUFFICES ASSUME NEW t \in Side, NEW i \in 1..(Len(life[t]) - 1) PROVE life'[t][i] = "told"
        BY <1>6
      <4>1. life[t][i] = "told"
        BY TypeParts DEF ConnTypes
      <4>2. i \in DOMAIN life[t]
        BY <1>7
      <4> QED
        BY <1>8, <4>1, <4>2
    <3> QED
      BY <1>2, <1>6, <3>1, TypeParts DEF ConnTypes
  <2>2. ChanTypes'
    BY <1>2, <1>9, TypeParts DEF ChanTypes
  <2>3. JobTypes'
    BY <1>2, <1>4, <1>5, TypeParts DEF JobTypes, Kept
  <2>4. RestTypes'
    <3>1. UNCHANGED <<chans, holder, kept, faults, refusals>> /\ UNCHANGED lost /\ UNCHANGED denied /\ UNCHANGED panicked
      BY <1>2
    <3> QED
      BY <3>1, SameRest, Zenon
  <2> QED
    BY <2>1, <2>2, <2>3, <2>4, TypesThen
<1>11. ConnsOK'
  <2>1. \A t \in Side : life'[t] # <<>>
    <3>1. \A q \in Seq({"up", "dead", "told"}) : q = <<>> <=> Len(q) = 0
      OBVIOUS
    <3>2. \A t \in Side : life[t] \in Seq({"up", "dead", "told"}) /\ life'[t] \in Seq({"up", "dead", "told"})
      BY <1>6, TypeParts DEF ConnTypes
    <3> QED
      BY <1>6, <1>7, <3>1, <3>2
  <2> QED
    BY <1>2, <1>6, <1>7, <2>1 DEF ConnsOK
<1>12. /\ NotesOK' /\ Kept("saveMsg")' /\ Kept("sendMsg")'
  BY <1>2, <1>6 DEF NotesOK, Kept
<1>13. ReconnOK'
  <2>1. \A k \in Slot : Kept(k)' <=> Kept(k)
    BY <1>2 DEF Kept
  <2> QED
    BY <1>3, <1>4, <1>9, <2>1, Sides DEF ReconnOK
<1>14. WatchersOK'
  <2> SUFFICES ASSUME NEW w \in Watcher PROVE WatchersOK!(w)'
    BY DEF WatchersOK
  <2> DEFINE j == job[w]
  <2>1. Busy(w) => j.slot \in Slot /\ SideOf[j.slot] \in Side
    BY Watchers, Sides DEF WatchersOK
  <2>2. j.at = "opening" => chans[j.slot][j.n].conn \in DOMAIN life[SideOf[j.slot]]
    <3> SUFFICES ASSUME j.at = "opening" PROVE chans[j.slot][j.n].conn \in DOMAIN life[SideOf[j.slot]]
      OBVIOUS
    <3>1. j.slot \in Slot /\ SideOf[j.slot] \in Side /\ j.n \in DOMAIN chans[j.slot]
      BY <2>1 DEF WatchersOK, Busy
    <3>2. chans[j.slot][j.n].conn \in Nat \ {0} /\ chans[j.slot][j.n].conn <= Len(life[SideOf[j.slot]])
      BY <3>1, TypeParts, ChannelTypes DEF ChanTypes
    <3>3. Len(life[SideOf[j.slot]]) \in Nat
      BY <3>1, TypeParts DEF ConnTypes
    <3> QED
      BY <1>7, <3>1, <3>2, <3>3
  <2>3. job'[w] = job[w] /\ chans' = chans
    BY <1>2, <1>5
  <2>4. \A t \in Side : DOMAIN life'[t] = DOMAIN life[t]
    BY <1>6
  <2>5. CASE j.at # "opening"
    BY <2>1, <2>3, <2>4, <2>5 DEF WatchersOK, Busy, Kept
  <2>6. CASE j.at = "opening"
    <3>1. Busy(w)
      BY <2>6 DEF Busy
    <3>2. /\ j.rest = <<>> /\ j.slot \in Watched[w] /\ Kept(j.slot)
          /\ j.n \in DOMAIN chans[j.slot] /\ ~chans[j.slot][j.n].noted
          /\ \/ chans[j.slot][j.n].st = "opening"
             \/ chans[j.slot][j.n].st = "shut" /\ life[SideOf[j.slot]][chans[j.slot][j.n].conn] = "told"
      BY <2>6, <3>1 DEF WatchersOK
    <3>3. life[SideOf[j.slot]][chans[j.slot][j.n].conn] = "told"
            => life'[SideOf[j.slot]][chans[j.slot][j.n].conn] = "told"
      BY <1>8, <2>1, <2>2, <2>6, <3>1
    <3> QED
      BY <2>3, <2>6, <3>2, <3>3 DEF Busy, Kept
  <2> QED
    BY <2>5, <2>6
<1>15. OpenersApart'
  BY <1>4 DEF OpenersApart
<1>16. job["reconnConns"].slot = "none" /\ job["reconnConns"].rest = <<>>
  BY <1>2 DEF ReconnOK
<1>17. /\ \A k \in Slot : /\ OpenNow(k)' <=> OpenNow(k)
                          /\ Held(k)' <=> Held(k)
                          /\ \A h \in Goroutine : Opens(h, k) => Opens(h, k)'
       /\ \A h \in Goroutine : Consumes(h) => Consumes(h)'
  <2>1. \A k \in Slot : (OpenNow(k)' <=> OpenNow(k)) /\ (Held(k)' <=> Held(k))
    BY <1>2, <1>9 DEF OpenNow, Held, Unnoticed, Fresh
  <2>2. ~Consumes("reconnConns") /\ \A k \in Slot : ~Opens("reconnConns", k)
    BY <1>2, <1>16 DEF Consumes, Opens
  <2>3. \A h \in Goroutine \ {"reconnConns"} : Consumes(h) => Consumes(h)'
    BY <1>2, <1>4 DEF Consumes
  <2>4. \A h \in Goroutine \ {"reconnConns"} : \A k \in Slot : Opens(h, k) => Opens(h, k)'
    BY <1>2, <1>4, <1>9 DEF Opens
  <2>5. \A h \in Goroutine : Consumes(h) => Consumes(h)'
    BY <2>2, <2>3
  <2>6. \A k \in Slot : \A h \in Goroutine : Opens(h, k) => Opens(h, k)'
    BY <2>2, <2>4
  <2> QED
    BY <2>1, <2>5, <2>6, Zenon
<1>18. SlotsOK'
  <2> SUFFICES ASSUME NEW k \in Slot, Kept(k), Latest(SideOf[k])' = "up", ~lost
               PROVE  Held(k)' \/ \E h \in Goroutine : Opens(h, k)'
    BY <1>2 DEF SlotsOK, Kept
  <2>1. Latest(SideOf[k]) = "up"
    BY <1>9
  <2>2. Held(k) \/ \E h \in Goroutine : Opens(h, k)
    BY <2>1 DEF SlotsOK
  <2> QED
    BY <1>17, <2>2
<1>19. ConsumerOK'
  <2> SUFFICES ASSUME Latest("con")' = "up", OpenNow("sendMsg")', ~denied, holder # ch["sendMsg"]
               PROVE  \E h \in Goroutine : Consumes(h)'
    BY <1>2 DEF ConsumerOK
  <2>1. Latest("con") = "up"
    BY <1>7 DEF Side
  <2>2. OpenNow("sendMsg")
    BY <1>17 DEF Slot
  <2>3. \E h \in Goroutine : Consumes(h)
    BY <2>1, <2>2 DEF ConsumerOK
  <2> QED
    BY <1>17, <2>3
<1> QED
  BY <1>10, <1>11, <1>12, <1>13, <1>14, <1>15, <1>18, <1>19

LEMMA DialedStep ==
  ASSUME IInv, Dialed
  PROVE  IInv'
<1> USE DEF IInv
<1>1. PICK s, c : s = SideOf[job["reconnConns"].slot] /\ c = Len(life[s]) + 1
  OBVIOUS
<1>2. /\ UNCHANGED <<chans, ch, chNote, watch, holder, kept, lost, denied, panicked, faults, refusals>>
      /\ job["reconnConns"].at = "dial" /\ s \in Side /\ Latest(s) = "told"
      /\ job["reconnConns"].slot \in Slot
      /\ \A sl \in SlotsOn[s] : Kept(sl) => sl = job["reconnConns"].slot \/ job["reconnConns"].rest = <<sl>>
  BY <1>1, Sides DEF Dialed, At, broker, ReconnOK
<1>3. /\ life' = [life EXCEPT ![s] = Append(@, "up")]
      /\ conn' = [conn EXCEPT ![s] = c] /\ note' = [note EXCEPT ![s] = c]
      /\ ready' = [ready EXCEPT ![s] = TRUE]
      /\ GoesTo("reconnConns", "check", 0)
  BY <1>1 DEF Dialed
<1>4. life[s] \in Seq({"up", "dead", "told"}) /\ Len(life[s]) \in Nat /\ c \in Nat \ {0}
  BY <1>1, <1>2, TypeParts DEF ConnTypes
<1>5. /\ life' \in [Side -> Seq({"up", "dead", "told"})]
      /\ \A t \in Side \ {s} : life'[t] = life[t]
      /\ Len(life'[s]) = c /\ life'[s][c] = "up" /\ \A k \in DOMAIN life[s] : life'[s][k] = life[s][k]
      /\ DOMAIN life[s] = 1..(c - 1) /\ DOMAIN life'[s] = 1..c
  <2>1. life \in [Side -> Seq({"up", "dead", "told"})]
    BY TypeParts DEF ConnTypes
  <2>2. PICK q : q = Append(life[s], "up")
    OBVIOUS
  <2>3. /\ q \in Seq({"up", "dead", "told"}) /\ Len(q) = c /\ q[c] = "up"
        /\ \A k \in DOMAIN life[s] : q[k] = life[s][k]
        /\ DOMAIN life[s] = 1..(c - 1) /\ DOMAIN q = 1..c
    BY <1>1, <1>4, <2>2
  <2>4. life' = [life EXCEPT ![s] = q]
    BY <1>3, <2>2
  <2> QED
    BY <1>2, <2>1, <2>3, <2>4
<1>6. /\ conn' \in [Side -> Nat] /\ note' \in [Side -> Nat] /\ ready' \in [Side -> BOOLEAN]
      /\ conn'[s] = c /\ note'[s] = c /\ ready'[s] = TRUE
      /\ \A t \in Side \ {s} : conn'[t] = conn[t] /\ note'[t] = note[t] /\ ready'[t] = ready[t]
  <2>1. conn \in [Side -> Nat] /\ note \in [Side -> Nat] /\ ready \in [Side -> BOOLEAN]
    BY TypeParts DEF ConnTypes
  <2> QED
    BY <1>2, <1>3, <1>4, <2>1
<1>7. /\ job' \in [Goroutine -> Job] /\ \A h \in Goroutine \ {"reconnConns"} : job'[h] = job[h]
      /\ job'["reconnConns"].at = "check" /\ job'["reconnConns"].slot = job["reconnConns"].slot
      /\ job'["reconnConns"].rest = job["reconnConns"].rest
  BY <1>3, Went DEF Place, Goroutine
<1>8. job'["reconnSendMsg"] = job["reconnSendMsg"] /\ \A w \in Watcher : job'[w] = job[w]
  BY <1>7 DEF Goroutine, Watcher
<1>9. /\ Latest(s)' = "up"
      /\ \A t \in Side \ {s} : Latest(t)' = Latest(t) /\ Len(life'[t]) = Len(life[t])
      /\ \A t \in Side : Len(life[t]) \in Nat /\ Len(life[t]) <= Len(life'[t])
  <2>1. Latest(s)' = "up"
    BY <1>5 DEF Latest
  <2>2. \A t \in Side \ {s} : Latest(t)' = Latest(t) /\ Len(life'[t]) = Len(life[t])
    BY <1>5 DEF Latest
  <2>3. \A t \in Side : Len(life[t]) \in Nat /\ Len(life[t]) <= Len(life'[t])
    <3>1. \A t \in Side : Len(life[t]) \in Nat
      BY TypeParts DEF ConnTypes
    <3>2. Len(life[s]) <= Len(life'[s])
      BY <1>1, <1>4, <1>5
    <3> QED
      BY <2>2, <3>1, <3>2
  <2> QED
    BY <2>1, <2>2, <2>3
<1>10. RecoveryTypeOK'
  <2>1. ConnTypes'
    <3> SUFFICES ASSUME NEW t \in Side
                 PROVE  /\ conn'[t] <= Len(life'[t]) /\ note'[t] <= Len(life'[t])
                        /\ ready'[t] => conn'[t] = Len(life'[t])
                        /\ \A i \in 1..(Len(life'[t]) - 1) : life'[t][i] = "told"
      BY <1>5, <1>6 DEF ConnTypes
    <3>1. CASE t # s
      BY <1>5, <1>6, <3>1, TypeParts DEF ConnTypes
    <3>2. CASE t = s
      <4>1. conn'[t] <= Len(life'[t]) /\ note'[t] <= Len(life'[t]) /\ (ready'[t] => conn'[t] = Len(life'[t]))
        BY <1>4, <1>5, <1>6, <3>2
      <4>2. \A i \in 1..(c - 1) : life[s][i] = "told"
        <5> SUFFICES ASSUME NEW i \in 1..(c - 1) PROVE life[s][i] = "told"
          OBVIOUS
        <5>1. CASE i = Len(life[s])
          BY <1>2, <5>1 DEF Latest
        <5>2. CASE i # Len(life[s])
          <6>1. i \in 1..(Len(life[s]) - 1)
            BY <1>1, <1>4, <5>2
          <6> QED
            BY <1>2, <6>1, TypeParts DEF ConnTypes
        <5> QED
          BY <5>1, <5>2
      <4>3. \A i \in 1..(Len(life'[t]) - 1) : life'[t][i] = "told"
        BY <1>5, <3>2, <4>2
      <4> QED
        BY <4>1, <4>3
    <3> QED
      BY <3>1, <3>2
  <2>2. ChanTypes'
    <3>1. \A k \in Slot : \A i \in DOMAIN chans[k] : chans[k][i].conn <= Len(life'[SideOf[k]])
      <4> SUFFICES ASSUME NEW k \in Slot, NEW i \in DOMAIN chans[k]
                   PROVE  chans[k][i].conn <= Len(life'[SideOf[k]])
        OBVIOUS
      <4>1. chans[k][i].conn \in Nat /\ chans[k][i].conn <= Len(life[SideOf[k]]) /\ SideOf[k] \in Side
        BY TypeParts, ChannelTypes, Sides DEF ChanTypes
      <4>2. Len(life[SideOf[k]]) \in Nat /\ Len(life[SideOf[k]]) <= Len(life'[SideOf[k]])
        BY <1>9, <4>1
      <4>3. Len(life'[SideOf[k]]) \in Nat
        BY <1>5, <4>1
      <4> QED
        BY <4>1, <4>2, <4>3
    <3> QED
      BY <1>2, <3>1, TypeParts DEF ChanTypes
  <2>3. JobTypes'
    BY <1>2, <1>7, <1>8, TypeParts DEF JobTypes, Kept
  <2>4. RestTypes'
    <3>1. UNCHANGED <<chans, holder, kept, faults, refusals>> /\ UNCHANGED lost /\ UNCHANGED denied /\ UNCHANGED panicked
      BY <1>2
    <3> QED
      BY <3>1, SameRest, Zenon
  <2> QED
    BY <2>1, <2>2, <2>3, <2>4, TypesThen
<1>11. ConnsOK'
  <2> SUFFICES ASSUME NEW t \in Side PROVE ConnsOK!(t)'
    BY DEF ConnsOK
  <2>1. CASE t = s
    <3>1. \A q \in Seq({"up", "dead", "told"}) : Len(q) # 0 => q # <<>>
      OBVIOUS
    <3>2. life'[s] # <<>>
      BY <1>2, <1>4, <1>5, <3>1
    <3> QED
      BY <1>5, <1>6, <2>1, <3>2
  <2>2. CASE t # s
    BY <1>5, <1>6, <2>2 DEF ConnsOK, Latest
  <2> QED
    BY <2>1, <2>2
<1>12. /\ NotesOK' /\ Kept("saveMsg")' /\ Kept("sendMsg")'
       /\ \A k \in Slot : Kept(k)' <=> Kept(k)
  BY <1>2 DEF NotesOK, Kept
<1>13. ReconnOK'
  <2>1. PICK sl, rest : sl = job["reconnConns"].slot /\ rest = job["reconnConns"].rest
    OBVIOUS
  <2>2. /\ sl \in Slot /\ SideOf[sl] = s /\ Kept(sl)
        /\ \/ rest = <<>>
           \/ sl = "lastSeenPub" /\ rest = <<"saveMsg">>
           \/ sl = "lastSeenCon" /\ rest = <<"sendMsg">>
    BY <1>1, <1>2, <2>1 DEF ReconnOK
  <2>3. Kept(sl)'
    BY <1>12, <2>2
  <2>4. ready'[SideOf[sl]] /\ Latest(s)' = "up"
    BY <1>6, <1>9, <2>2
  <2>5. job'["reconnConns"].at = "check" /\ job'["reconnConns"].slot = sl /\ job'["reconnConns"].rest = rest
    BY <1>7, <2>1
  <2>6. Latest(SideOf[job["reconnConns"].slot])' = "up"
    BY <2>2, <2>4, <2>5
  <2> QED
    BY <2>2, <2>3, <2>4, <2>5, <2>6 DEF ReconnOK
<1>14. WatchersOK'
  <2> SUFFICES ASSUME NEW w \in Watcher PROVE WatchersOK!(w)'
    BY DEF WatchersOK
  <2> DEFINE j == job[w]
  <2>1. Busy(w) => j.slot \in Slot /\ SideOf[j.slot] \in Side
    BY Watchers, Sides DEF WatchersOK
  <2>2. \A t \in Side : \A k \in DOMAIN life[t] : k \in DOMAIN life'[t] /\ life'[t][k] = life[t][k]
    <3>1. \A k \in 1..(c - 1) : k \in 1..c
      BY <1>4
    <3>2. \A k \in DOMAIN life[s] : k \in DOMAIN life'[s] /\ life'[s][k] = life[s][k]
      BY <1>5, <3>1
    <3> QED
      BY <1>5, <3>2
  <2>3. j.at = "opening" => chans[j.slot][j.n].conn \in DOMAIN life[SideOf[j.slot]]
    <3> SUFFICES ASSUME j.at = "opening" PROVE chans[j.slot][j.n].conn \in DOMAIN life[SideOf[j.slot]]
      OBVIOUS
    <3>1. j.slot \in Slot /\ SideOf[j.slot] \in Side /\ j.n \in DOMAIN chans[j.slot]
      BY <2>1 DEF WatchersOK, Busy
    <3>2. chans[j.slot][j.n].conn \in Nat \ {0} /\ chans[j.slot][j.n].conn <= Len(life[SideOf[j.slot]])
      BY <3>1, TypeParts, ChannelTypes DEF ChanTypes
    <3>3. life[SideOf[j.slot]] \in Seq({"up", "dead", "told"})
      BY <3>1, TypeParts DEF ConnTypes
    <3> QED
      BY <3>2, <3>3
  <2>4. job'[w] = job[w]
    BY <1>8
  <2> QED
    BY ZenonT(40), <1>2, <1>12, <2>1, <2>2, <2>3, <2>4 DEF WatchersOK, Busy
<1>15. OpenersApart'
  BY <1>7 DEF OpenersApart
<1>16. SlotsOK'
  <2> SUFFICES ASSUME NEW k \in Slot, Kept(k), Latest(SideOf[k])' = "up"
               PROVE  lost' \/ Held(k)' \/ \E h \in Goroutine : Opens(h, k)'
    BY <1>12 DEF SlotsOK
  <2>1. CASE SideOf[k] = s
    <3>1. k \in SlotsOn[s]
      BY <1>2, <2>1, Sides
    <3>2. Opens("reconnConns", k)'
      BY <1>2, <1>7, <3>1 DEF Opens
    <3> QED
      BY <3>2 DEF Goroutine
  <2>2. CASE SideOf[k] # s
    <3>1. Latest(SideOf[k]) = "up" /\ Len(life'[SideOf[k]]) = Len(life[SideOf[k]])
      BY <1>9, <2>2, Sides
    <3>2. Held(k)' <=> Held(k)
      BY <1>2, <3>1 DEF Held, Unnoticed, Fresh
    <3>3. \A h \in Goroutine : Opens(h, k) => Opens(h, k)'
      <4>1. \A h \in Goroutine \ {"reconnConns"} : Opens(h, k) => Opens(h, k)'
        BY <1>2, <1>7, <3>1 DEF Opens
      <4>2. Opens("reconnConns", k) => Opens("reconnConns", k)'
        BY <1>2, <1>7 DEF Opens
      <4> QED
        BY <4>1, <4>2
    <3> QED
      BY <1>2, <3>1, <3>2, <3>3 DEF SlotsOK
  <2> QED
    BY <2>1, <2>2
(* No channel is of the new connection yet. *)
<1>17. ConsumerOK'
  <2>1. CASE s = "con"
    <3>1. ch["sendMsg"] # 0 => chans["sendMsg"][ch["sendMsg"]].conn # c
      <4> SUFFICES ASSUME ch["sendMsg"] # 0 PROVE chans["sendMsg"][ch["sendMsg"]].conn # c
        OBVIOUS
      <4>1. "sendMsg" \in Slot /\ SideOf["sendMsg"] = s /\ ch["sendMsg"] \in DOMAIN chans["sendMsg"]
        BY <2>1, Sides, TypeParts DEF Slot, ChanTypes
      <4>2. /\ chans["sendMsg"][ch["sendMsg"]].conn \in Nat
            /\ chans["sendMsg"][ch["sendMsg"]].conn <= Len(life[s])
        BY <4>1, TypeParts, ChannelTypes DEF ChanTypes
      <4> QED
        BY <1>1, <1>4, <4>2
    <3>2. ~OpenNow("sendMsg")'
      BY <1>2, <1>5, <2>1, <3>1, Sides DEF OpenNow, Fresh
    <3> QED
      BY <3>2 DEF ConsumerOK
  <2>2. CASE s # "con"
    <3>1. Latest("con")' = Latest("con") /\ Len(life'["con"]) = Len(life["con"])
      BY <1>9, <2>2 DEF Side
    <3>2. OpenNow("sendMsg")' <=> OpenNow("sendMsg")
      BY <1>2, <3>1, Sides DEF OpenNow, Fresh
    <3>3. \A h \in Goroutine : Consumes(h) => Consumes(h)'
      BY <1>2, <1>7 DEF Consumes
    <3> QED
      BY <1>2, <3>1, <3>2, <3>3 DEF ConsumerOK
  <2> QED
    BY <2>1, <2>2
<1> QED
  BY <1>10, <1>11, <1>12, <1>13, <1>14, <1>15, <1>16, <1>17

-----------------------------------------------------------------------------

LEMMA CallStep ==
  ASSUME IInv, NEW g \in Goroutine, Call(g)
  PROVE  IInv'
BY CheckStep, ChannelStep, ChannelFailsStep, OpenedStep, InitSendMsgQStep, ConsumeStep, ConsumeFailsStep
   DEF Call

LEMMA Stutter ==
  ASSUME IInv, UNCHANGED vars
  PROVE  IInv'
<1> USE DEF IInv
<1>1. /\ life' = life /\ conn' = conn /\ note' = note /\ ready' = ready /\ chans' = chans
      /\ ch' = ch /\ chNote' = chNote /\ watch' = watch /\ job' = job /\ holder' = holder
      /\ faults' = faults /\ refusals' = refusals
      /\ UNCHANGED kept /\ UNCHANGED lost /\ UNCHANGED denied /\ UNCHANGED panicked
  BY DEF vars
<1>2. RecoveryTypeOK'
  <2>1. ConnTypes' /\ ChanTypes' /\ JobTypes'
    BY <1>1, TypeParts DEF ConnTypes, ChanTypes, JobTypes, Kept
  <2>2. RestTypes'
    <3>1. UNCHANGED <<chans, holder, kept, faults, refusals>> /\ UNCHANGED lost /\ UNCHANGED denied /\ UNCHANGED panicked
      BY <1>1
    <3> QED
      BY <3>1, SameRest, Zenon
  <2> QED
    BY <2>1, <2>2, TypesThen
<1>3. ConnsOK' /\ NotesOK' /\ Kept("saveMsg")' /\ Kept("sendMsg")' /\ OpenersApart'
  BY <1>1 DEF ConnsOK, Latest, NotesOK, Kept, OpenersApart
<1>4. ReconnOK'
  BY <1>1 DEF ReconnOK, Latest, Kept
<1>5. WatchersOK'
  BY <1>1 DEF WatchersOK, Busy, Kept
<1>6. SlotsOK' /\ ConsumerOK'
  BY <1>1, Unmoved
<1> QED
  BY <1>2, <1>3, <1>4, <1>5, <1>6

(* Every step preserves the invariant. *)
LEMMA Inductive == IInv /\ [Next]_vars => IInv'
<1> SUFFICES ASSUME IInv, [Next]_vars PROVE IInv'
  OBVIOUS
<1>1. CASE \E s \in Side : ConnDies(s)
  BY <1>1, ConnDiesStep
<1>2. CASE BrokerNotices
  BY <1>2, BrokerNoticesStep
<1>3. CASE Shutdown
  BY <1>3, ShutChannelStep DEF Shutdown
<1>4. CASE ReconnConns
  <2>1. "reconnConns" \in Goroutine
    BY DEF Goroutine
  <2> QED
    BY <1>4, <2>1, ConnNoticeStep, StopUseStep, DialFailsStep, DialedStep, CallStep DEF ReconnConns
<1>5. CASE \E w \in Watcher : Watch(w)
  <2>1. \A w \in Watcher : w \in Goroutine
    BY DEF Goroutine
  <2> QED
    BY <1>5, <2>1, SelectStep, NoticeStep, CallStep DEF Watch
<1>6. CASE \E sl \in Slot : ChannelCloses(sl)
  BY <1>6, ChannelClosesStep
<1>7. CASE UNCHANGED vars
  BY <1>7, Stutter
<1> QED
  BY <1>1, <1>2, <1>3, <1>4, <1>5, <1>6, <1>7 DEF Next

(* A slot whose channel is held is in use, for the connection answers: its *)
(* channel is not jammed.                                                  *)
LEMMA Remembered == IInv => NothingForgotten
<1> SUFFICES ASSUME IInv, NEW s \in Side, Answers(s, Len(life[s])), NEW sl \in SlotsOn[s], Kept(sl),
                    ~Attended(sl), ~Unnoticed(sl), ~lost, ~denied
             PROVE  InUse(sl) /\ (sl = "sendMsg" => Consumed)
  BY DEF NothingForgotten
<1> USE DEF IInv
<1>1. sl \in Slot /\ SideOf[sl] = s /\ Latest(s) = "up"
  BY Sides DEF Answers, Latest
<1>2. ~\E g \in Goroutine : Opens(g, sl)
  <2> SUFFICES ASSUME NEW g \in Goroutine, Opens(g, sl) PROVE Attended(sl)
    OBVIOUS
  <2>1. CASE g = "reconnConns"
    BY <2>1 DEF Opens, Attended
  <2>2. CASE g # "reconnConns"
    <3>1. g \in Watcher
      BY <2>2 DEF Goroutine
    <3>2. job[g].rest = <<>> /\ <<>> # <<sl>>
      BY <3>1 DEF WatchersOK
    <3> QED
      BY <3>1, <3>2 DEF Opens, Attended, At
  <2> QED
    BY <2>1, <2>2
<1>3. Held(sl)
  BY <1>1, <1>2 DEF SlotsOK
<1>4. ch[sl] # 0 /\ ch[sl] \in DOMAIN chans[sl] /\ chans[sl][ch[sl]].conn = Len(life[s])
  BY <1>1, <1>3, TypeParts DEF Held, Fresh, ChanTypes
<1>5. chans[sl][ch[sl]].st # "jammed"
  BY <1>4 DEF Answers, Jammed, On
<1>6. OpenNow(sl)
  BY <1>3, <1>5 DEF Held, OpenNow
<1>7. InUse(sl)
  BY <1>1, <1>4, <1>6 DEF InUse, OpenNow
<1>8. ASSUME sl = "sendMsg" PROVE Consumed
  <2>1. ~\E g \in Goroutine : Consumes(g)
    <3> SUFFICES ASSUME NEW g \in Goroutine, Consumes(g) PROVE Attended("sendMsg")
      BY <1>8
    <3>1. job[g].at \in {"queue", "consuming"} /\ job[g].slot = "sendMsg"
      BY DEF Consumes, ReconnOK, WatchersOK, Goroutine
    <3> QED
      BY <3>1 DEF Consumes, Attended, At, Goroutine
  <2>2. holder = ch["sendMsg"]
    BY <1>1, <1>6, <1>8, <2>1, Sides DEF ConsumerOK
  <2> QED
    BY <1>1, <1>4, <1>8, <2>2, Sides DEF Consumed
<1> QED
  BY <1>7, <1>8

LEMMA OnesOwnJob ==
  ASSUME RecoveryTypeOK, NEW w \in Watcher, Watch(w)
  PROVE  job'["reconnConns"] = job["reconnConns"]
<1>1. job \in [Goroutine -> Job] /\ "reconnConns" \in Goroutine /\ w # "reconnConns"
  BY DEF RecoveryTypeOK, Goroutine, Watcher
<1>2. job' = job \/ \E j : Becomes(w, j)
  BY DEF Watch, Select, Notice, Call, Check, Channel, ChannelFails, Opened, InitSendMsgQ, Consume,
         ConsumeFails, GoesTo
<1>3. CASE \E j : Becomes(w, j)
  BY <1>1, <1>3 DEF Becomes
<1> QED
  BY <1>2, <1>3

LEMMA StaysHung ==
  ASSUME IInv, Next, Hung
  PROVE  job'["reconnConns"] = job["reconnConns"]
<1> USE DEF IInv
<1>1. /\ job["reconnConns"].at \in {"blocked", "opening"}
      /\ job["reconnConns"].at = "opening" =>
           life[SideOf[job["reconnConns"].slot]][chans[job["reconnConns"].slot][job["reconnConns"].n].conn] # "up"
  BY DEF Hung
<1>2. CASE (\E s \in Side : ConnDies(s)) \/ (\E sl \in Slot : ChannelCloses(sl)) \/ BrokerNotices \/ Shutdown
  BY <1>2 DEF ConnDies, ChannelCloses, BrokerNotices, Shutdown, ShutChannel
<1>3. CASE ReconnConns
  <2>1. ~Check("reconnConns") /\ ~Channel("reconnConns") /\ ~InitSendMsgQ("reconnConns")
    BY <1>1 DEF Check, Channel, InitSendMsgQ, At
  <2>2. ~Consume("reconnConns") /\ ~ConsumeFails("reconnConns")
    BY <1>1 DEF Consume, ConsumeFails, At
  <2>3. ~ChannelFails("reconnConns")
    BY OnlyWatchersFail DEF Goroutine, Watcher
  <2>4. ~Opened("reconnConns")
    BY <1>1 DEF Opened, At, Answers
  <2>5. ~DialFails /\ ~Dialed /\ ~StopUse /\ \A s \in Side : ~ConnNotice(s)
    BY <1>1 DEF DialFails, Dialed, StopUse, ConnNotice, At
  <2> QED
    BY <1>3, <2>1, <2>2, <2>3, <2>4, <2>5 DEF ReconnConns, Call
<1>4. CASE \E w \in Watcher : Watch(w)
  BY <1>4, OnesOwnJob
<1> QED
  BY <1>2, <1>3, <1>4 DEF Next

-----------------------------------------------------------------------------

(* Whatever dies, is closed, dials or opens a channel, the inductive       *)
(* invariant of the recovery in rbmq/ holds in every reachable state.      *)
THEOREM Recovering == Spec => []IInv
BY InitIInv, Inductive, PTL DEF Spec

(* The gateway's variables keep their types: a flag that says a connection *)
(* is ready goes with the connection the variable holds, all connections   *)
(* but the latest are known to have ended, and a goroutine waits on the    *)
(* notifications of its own slots only (rbmq/conn.go, saveMsg.go,          *)
(* sendMsg.go, lastSeen.go of the gateway).                                *)
THEOREM RecoveryTypes == Spec => []RecoveryTypeOK
<1>1. IInv => RecoveryTypeOK
  BY DEF IInv
<1> QED
  BY <1>1, Recovering, PTL

(* On a connection that is up and answers every channel is in use and the  *)
(* host's queue consumed, or a goroutine is about to see to it, however    *)
(* the death of connections, the closing of channels and the four reconn   *)
(* goroutines of rbmq/ interleave.  What is forgotten is named: a channel  *)
(* that was closed and had no NotifyClose (saveMsg.go:66 of the gateway),  *)
(* and what follows when an error erased another goroutine's channel or    *)
(* the broker refused a Consume.                                           *)
THEOREM NothingIsForgotten == Spec => []NothingForgotten
BY Recovering, Remembered, PTL

(* reconnConns, once the death of a connection has caught it in Channel()  *)
(* (rbmq/lastSeen.go:68 and 90, saveMsg.go:50, sendMsg.go:71), makes no    *)
(* step any more: neither the library's shutdown nor a watcher frees it.   *)
THEOREM HangsForGood == Spec => HungForGood
<1>1. IInv /\ [Next]_vars => [Hung => UNCHANGED job["reconnConns"]]_vars
  BY StaysHung
<1> QED
  BY <1>1, Recovering, PTL DEF Spec, HungForGood
=============================================================================
