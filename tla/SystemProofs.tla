---------------------------- MODULE SystemProofs ----------------------------
(***************************************************************************)
(* Proofs about the starts of the services and the paging of a             *)
(* conversation, for any bounds and any length of a page.                  *)
(***************************************************************************)
EXTENDS System, TLAPS

(* How far a first start has come, and what the files hold by then. *)
Progress ==
  /\ us = "public" => priv = None
  /\ us = "published" => priv = None /\ pub = held.pub
  /\ us = "private" => priv = Torn /\ pub = held.pub
  /\ us # "down" => held.pub \in Key

(* A gateway's key is the service's until that is replaced. *)
KeyKept == gw \in {"keys", "serving"} /\ ~replaced => gwKey = priv /\ priv \in Key

StartupInv == StartupTypeOK /\ Progress /\ FilesMatch /\ KeyKept

(* What was there when the conversation was opened is still there, and all *)
(* of it that stands before the next page has been got.                    *)
HistoryInv ==
  /\ HistoryTypeOK
  /\ \A i \in DOMAIN table : table[i] \in 1..Len(table)
  /\ opened \subseteq Rows(table)
  /\ \A i \in DOMAIN table : i <= skip /\ table[i] \in opened => table[i] \in loaded
  /\ NoGap

IInv == StartupInv /\ HistoryInv

-----------------------------------------------------------------------------
(* Startup *)

LEMMA StartupInitially == ASSUME StartupInit PROVE StartupInv
<1>1. StartupTypeOK
  <2>1. replaced \in BOOLEAN /\ roster \in BOOLEAN
    BY Zenon DEF StartupInit
  <2>2. QED
    BY <2>1, StartupAssumption DEF StartupInit, StartupTypeOK, UserMain, MessageMain, GatewayMain,
         Key, Forgotten
<1>2. Progress /\ FilesMatch /\ KeyKept
  BY StartupAssumption DEF StartupInit, Progress, FilesMatch, KeyKept, Key, Forgotten
<1>3. QED BY <1>1, <1>2 DEF StartupInv

(* A step of the user service's main. *)
LEMMA UserSteps == ASSUME StartupInv, UserStep PROVE StartupInv'
<1> USE StartupAssumption DEF StartupInv, StartupTypeOK, Progress, FilesMatch, KeyKept,
      UserMain, MessageMain, GatewayMain, Key, gatewayVars
<1>1. CASE UserStart
  BY <1>1 DEF UserStart, Generate
<1>2. CASE EncodePublic
  BY <1>2 DEF EncodePublic
<1>3. CASE CreatePrivate
  BY <1>3 DEF CreatePrivate
<1>4. CASE EncodePrivate
  BY <1>4 DEF EncodePrivate
<1>5. CASE UserServe
  BY <1>5 DEF UserServe
<1>6. CASE UserStops
  BY <1>6 DEF UserStops, Stop, Forgotten
<1>7. CASE UserReplaced
  BY <1>7 DEF UserReplaced, Stop, Forgotten
<1>8. QED BY <1>1, <1>2, <1>3, <1>4, <1>5, <1>6, <1>7 DEF UserStep

(* The message service touches no file. *)
LEMMA MessageSteps == ASSUME StartupInv, MessageStep \/ MessagePanics PROVE StartupInv'
<1> USE StartupAssumption DEF StartupInv, StartupTypeOK, Progress, FilesMatch, KeyKept,
      UserMain, MessageMain, GatewayMain, Key, gatewayVars, userVars
<1>1. CASE MessageInitMq
  BY <1>1 DEF MessageInitMq
<1>2. CASE MessageInitRedis
  BY <1>2 DEF MessageInitRedis
<1>3. CASE MessagePanics
  BY <1>3 DEF MessagePanics, Stop
<1>4. CASE MessageStops
  BY <1>4 DEF MessageStops, Stop
<1>5. QED BY <1>1, <1>2, <1>3, <1>4 DEF MessageStep

(* The gateway takes its key from a service that serves. *)
LEMMA GatewaySteps == ASSUME StartupInv, GatewayStep PROVE StartupInv'
<1> USE StartupAssumption DEF StartupInv, StartupTypeOK, Progress, FilesMatch, KeyKept,
      UserMain, MessageMain, GatewayMain, Key, userVars
<1>1. CASE GatewayInitMq
  BY <1>1 DEF GatewayInitMq
<1>2. CASE GetRSAKeys
  BY <1>2 DEF GetRSAKeys, KeysServed
<1>3. CASE GatewayServe
  BY <1>3 DEF GatewayServe
<1>4. CASE RosterChanges
  BY <1>4 DEF RosterChanges
<1>5. CASE GatewayPanics
  BY <1>5 DEF GatewayPanics, GatewayEnds, Stop
<1>6. CASE GatewayStops
  BY <1>6 DEF GatewayStops, GatewayEnds, Stop
<1>7. CASE GatewayReplaced
  <2>1. replaced' \in BOOLEAN /\ roster' \in BOOLEAN
    BY <1>7, Zenon DEF GatewayReplaced, GatewayEnds
  <2>2. QED
    BY <1>7, <2>1 DEF GatewayReplaced, GatewayEnds, Stop
<1>8. QED BY <1>1, <1>2, <1>3, <1>4, <1>5, <1>6, <1>7 DEF GatewayStep

LEMMA StartupStutters == ASSUME StartupInv, UNCHANGED startupVars PROVE StartupInv'
BY DEF StartupInv, StartupTypeOK, Progress, FilesMatch, KeyKept, startupVars, Key

-----------------------------------------------------------------------------
(* History *)

(* A row put into a sequence leaves the others in their order. *)
LEMMA InsertRows ==
  ASSUME NEW s \in Seq(Row), NEW k \in 1..(Len(s) + 1), NEW x
  PROVE  LET t == Insert(s, k, x) IN
         /\ DOMAIN t = 1..(Len(s) + 1)
         /\ \A i \in DOMAIN s : t[IF i < k THEN i ELSE i + 1] = s[i]
         /\ t[k] = x
         /\ \A i \in DOMAIN t : i < k => t[i] = s[i]
         /\ \A i \in DOMAIN t : i > k => t[i] = s[i - 1] /\ i - 1 \in DOMAIN s
BY DEF Insert

(* The beginning of a page is the rows at its places in the table. *)
LEMMA PageRows ==
  ASSUME NEW s \in Seq(Row), NEW o \in Nat, NEW l \in Nat, l <= Len(s),
         NEW n \in 0..Len(SubSeq(s, o + 1, l))
  PROVE  /\ o < l => Len(SubSeq(s, o + 1, l)) = l - o
         /\ o >= l => Len(SubSeq(s, o + 1, l)) = 0
         /\ \A i \in (o + 1)..(o + n) :
              i \in DOMAIN s /\ s[i] \in Rows(SubSeq(SubSeq(s, o + 1, l), 1, n))
         /\ Rows(SubSeq(SubSeq(s, o + 1, l), 1, n)) \subseteq Row
<1> DEFINE p == SubSeq(s, o + 1, l)
<1>1. /\ o < l => Len(p) = l - o
      /\ o >= l => Len(p) = 0
      /\ p \in Seq(Row)
      /\ \A j \in 1..Len(p) : p[j] = s[o + j]
  OBVIOUS
<1> HIDE DEF p
<1> DEFINE q == SubSeq(p, 1, n)
<1>2. q \in Seq(Row) /\ Len(q) = n /\ \A j \in 1..n : q[j] = p[j]
  BY <1>1
<1> HIDE DEF q
<1>3. ASSUME NEW i \in (o + 1)..(o + n)
      PROVE  i \in DOMAIN s /\ s[i] \in Rows(q)
  <2>1. i - o \in 1..n /\ n <= Len(p) /\ n \in Nat
    BY <1>1 DEF p
  <2>2. o < l /\ Len(p) = l - o /\ i <= l
    BY <2>1, <1>1
  <2>3. p[i - o] = s[i] /\ q[i - o] = s[i] /\ i - o \in DOMAIN q
    BY <2>1, <1>1, <1>2
  <2>4. QED BY <2>2, <2>3 DEF Rows
<1>4. Rows(q) \subseteq Row
  BY <1>2 DEF Rows
<1>5. QED BY <1>1, <1>3, <1>4 DEF p, q

LEMMA LowestBounds ==
  ASSUME NEW a \in Nat, NEW b \in Nat
  PROVE  Lowest(a, b) \in Nat /\ Lowest(a, b) <= b /\ (Lowest(a, b) < b => Lowest(a, b) = a)
BY DEF Lowest

LEMMA HistoryInitially == ASSUME HistoryInit PROVE HistoryInv
<1>1. PICK n \in 0..MaxRows : table = [i \in 1..n |-> i] /\ opened = 1..n
  BY DEF HistoryInit
<1>2. table \in Seq(Row) /\ DOMAIN table = 1..n /\ \A i \in 1..n : table[i] = i
  BY <1>1, HistoryAssumption DEF Row
<1>3. ended = FALSE /\ cut = FALSE /\ skip = 0 /\ loaded = {}
  BY DEF HistoryInit
<1>4. ended \in BOOLEAN /\ cut \in BOOLEAN
  BY <1>3, Zenon
<1>5. opened \subseteq Rows(table) /\ opened \subseteq Row
  BY <1>1, <1>2, HistoryAssumption DEF Rows, Row
<1>6. QED BY <1>2, <1>3, <1>4, <1>5 DEF HistoryInv, HistoryTypeOK, NoGap

(* A row that is stored pushes those behind it one place on: none comes to *)
(* stand before the next page that did not before, but itself.             *)
LEMMA SaveMsgKeeps == ASSUME HistoryInv, SaveMsg PROVE HistoryInv'
<1> DEFINE x == Len(table) + 1
<1>1. table \in Seq(Row) /\ Len(table) \in Nat /\ DOMAIN table = 1..Len(table)
  BY DEF HistoryInv, HistoryTypeOK
<1>2. Len(table) < MaxRows /\ UNCHANGED <<opened, loaded, skip, ended, cut>>
  BY DEF SaveMsg
<1>3. PICK k \in 1..(Len(table) + 1) : table' = Insert(table, k, x)
  BY DEF SaveMsg
<1> DEFINE t == Insert(table, k, x)
<1>4. /\ DOMAIN t = 1..x /\ t[k] = x
      /\ \A i \in DOMAIN table : t[IF i < k THEN i ELSE i + 1] = table[i]
      /\ \A i \in DOMAIN t : i < k => t[i] = table[i] /\ i \in DOMAIN table
      /\ \A i \in DOMAIN t : i > k => t[i] = table[i - 1] /\ i - 1 \in DOMAIN table
  BY <1>1, <1>3, InsertRows
<1>5. table' = t BY <1>3
<1>6. k \in DOMAIN t /\ x \in Nat /\ k \in 1..x BY <1>1, <1>4
<1> HIDE DEF t
<1>7. \A i \in DOMAIN t : t[i] \in 1..x /\ (i # k => t[i] \in 1..Len(table))
  <2> SUFFICES ASSUME NEW i \in DOMAIN t PROVE t[i] \in 1..x /\ (i # k => t[i] \in 1..Len(table))
    OBVIOUS
  <2>1. i = k \/ i < k \/ i > k BY <1>4, <1>6
  <2>2. \A j \in DOMAIN table : table[j] \in 1..Len(table) BY DEF HistoryInv
  <2>3. CASE i = k BY <2>3, <1>4, <1>6
  <2>4. CASE i < k BY <2>4, <2>2, <1>4, <1>1
  <2>5. CASE i > k BY <2>5, <2>2, <1>4, <1>1
  <2>6. QED BY <2>1, <2>3, <2>4, <2>5
<1>8. x \in 1..MaxRows BY <1>1, <1>2, HistoryAssumption
<1>9. t \in Seq(Row) /\ Len(t) = x
  <2>1. t = [i \in 1..x |-> t[i]] BY <1>4 DEF t, Insert
  <2>2. \A i \in 1..x : t[i] \in Row
    <3>1. x <= MaxRows /\ MaxRows \in Nat BY <1>8, HistoryAssumption
    <3> HIDE DEF x
    <3>2. QED BY <3>1, <1>6, <1>7, <1>4 DEF Row
  <2>3. QED BY <2>1, <2>2, <1>6
<1>10. \A i, j \in DOMAIN t : t[i] = t[j] => i = j
  <2> SUFFICES ASSUME NEW i \in DOMAIN t, NEW j \in DOMAIN t, t[i] = t[j] PROVE i = j
    OBVIOUS
  <2>1. \A a, b \in DOMAIN table : table[a] = table[b] => a = b
    BY DEF HistoryInv, HistoryTypeOK
  <2>2. i = k <=> j = k
    BY <1>4, <1>7, <1>1
  <2>3. CASE i = k BY <2>2, <2>3
  <2>4. CASE i # k
    <3>1. i \in 1..x /\ j \in 1..x /\ j # k BY <2>2, <2>4, <1>4
    <3>2. CASE i < k /\ j < k BY <3>2, <2>1, <1>4
    <3>3. CASE i < k /\ j > k
      <4>1. table[i] = table[j - 1] /\ i \in DOMAIN table /\ j - 1 \in DOMAIN table BY <3>3, <1>4
      <4>2. i = j - 1 BY <4>1, <2>1
      <4>3. QED BY <4>2, <3>3, <3>1, <1>6
    <3>4. CASE i > k /\ j < k
      <4>1. table[j] = table[i - 1] /\ j \in DOMAIN table /\ i - 1 \in DOMAIN table BY <3>4, <1>4
      <4>2. j = i - 1 BY <4>1, <2>1
      <4>3. QED BY <4>2, <3>4, <3>1, <1>6
    <3>5. CASE i > k /\ j > k
      <4>1. table[i - 1] = table[j - 1] /\ i - 1 \in DOMAIN table /\ j - 1 \in DOMAIN table BY <3>5, <1>4
      <4>2. i - 1 = j - 1 BY <4>1, <2>1
      <4>3. QED BY <4>2, <3>1
    <3>6. QED BY <3>1, <3>2, <3>3, <3>4, <3>5, <2>4, <1>6
  <2>5. QED BY <2>3, <2>4
<1>11. Rows(table) \subseteq Rows(t)
  <2> SUFFICES ASSUME NEW i \in DOMAIN table PROVE table[i] \in Rows(t)
    BY DEF Rows
  <2>1. t[IF i < k THEN i ELSE i + 1] = table[i] BY <1>4
  <2>2. (IF i < k THEN i ELSE i + 1) \in DOMAIN t BY <1>1, <1>4
  <2>3. QED BY <2>1, <2>2 DEF Rows
<1>12. ASSUME NEW i \in DOMAIN t, i <= skip, t[i] \in opened PROVE t[i] \in loaded
  <2>1. opened \subseteq Rows(table) /\ skip \in Nat
        /\ \A j \in DOMAIN table : j <= skip /\ table[j] \in opened => table[j] \in loaded
    BY DEF HistoryInv, HistoryTypeOK
  <2>2. i # k
    <3>1. \A j \in DOMAIN table : table[j] # x
      BY <1>1 DEF HistoryInv
    <3>2. x \notin opened BY <3>1, <2>1 DEF Rows
    <3>3. QED BY <3>2, <1>12, <1>4
  <2>3. CASE i < k BY <2>3, <2>1, <1>4, <1>12
  <2>4. CASE i > k
    <3>1. t[i] = table[i - 1] /\ i - 1 \in DOMAIN table BY <2>4, <1>4
    <3>2. i - 1 <= skip BY <1>12, <2>1, <1>4, <1>6
    <3>3. QED BY <3>1, <3>2, <2>1, <1>12
  <2>5. QED BY <2>2, <2>3, <2>4, <1>4, <1>6
<1>13. HistoryTypeOK'
  BY <1>2, <1>5, <1>9, <1>10 DEF HistoryInv, HistoryTypeOK
<1>14. opened' \subseteq Rows(table')
  BY <1>2, <1>5, <1>11 DEF HistoryInv
<1>15. \A i \in DOMAIN table' : table'[i] \in 1..Len(table')
  BY <1>5, <1>7, <1>9
<1>16. \A i \in DOMAIN table' : i <= skip' /\ table'[i] \in opened' => table'[i] \in loaded'
  BY <1>2, <1>5, <1>12
<1>17. NoGap'
  BY <1>2, Zenon DEF HistoryInv, NoGap
<1>18. QED
  <2>1. (Rows(table))' = Rows(table')
    BY DEF Rows
  <2>2. QED BY <2>1, <1>13, <1>14, <1>15, <1>16, <1>17 DEF HistoryInv

(* A page adds what it brings to what has been got; an empty one that was  *)
(* not cut short is asked for when all there is has been got.              *)
LEMMA GetMsgsKeeps == ASSUME HistoryInv, GetMsgs PROVE HistoryInv'
<1>1. table \in Seq(Row) /\ Len(table) \in Nat /\ DOMAIN table = 1..Len(table) /\ skip \in Nat
  BY DEF HistoryInv, HistoryTypeOK
<1>a. skip + Limit \in Nat
  BY <1>1, HistoryAssumption
<1> DEFINE Edge(e) == /\ e = Lowest(skip + Limit, Len(table))
                      /\ e <= Len(table)
                      /\ e < Len(table) => e = skip + Limit
<1>e. \E e \in Nat : Edge(e)
  BY <1>a, <1>1, LowestBounds
<1>2. PICK l \in Nat : Edge(l)
  BY <1>e
<1> DEFINE page == SubSeq(table, skip + 1, l)
<1>p. SelectMsgs(skip) = page
  BY <1>2 DEF SelectMsgs
<1>b. l \in Nat /\ l <= Len(table)
  BY <1>2
<1>3. PICK n \in 0..Len(page) :
        /\ loaded' = loaded \union Rows(SubSeq(page, 1, n))
        /\ skip' = skip + n
        /\ ended' = (n = 0)
        /\ cut' = (cut \/ n < Len(page))
  BY <1>p DEF GetMsgs
<1>4. UNCHANGED <<table, opened>>
  BY DEF GetMsgs
<1> DEFINE got == Rows(SubSeq(page, 1, n))
<1>5. /\ skip < l => Len(page) = l - skip
      /\ skip >= l => Len(page) = 0
      /\ \A i \in (skip + 1)..(skip + n) : i \in DOMAIN table /\ table[i] \in got
      /\ got \subseteq Row
  BY <1>1, <1>b, PageRows
<1>6. Len(page) \in Nat /\ n \in Nat /\ n <= Len(page)
  BY <1>5, <1>1, <1>2
<1> HIDE DEF page, got
<1>7. loaded' = loaded \union got
  BY <1>3 DEF got
<1>8. \A i \in DOMAIN table : i <= skip' /\ table[i] \in opened => table[i] \in loaded'
  <2> SUFFICES ASSUME NEW i \in DOMAIN table, i <= skip', table[i] \in opened
               PROVE  table[i] \in loaded'
    OBVIOUS
  <2>1. CASE i <= skip
    BY <2>1, <1>7 DEF HistoryInv
  <2>2. CASE i > skip
    <3>1. i \in (skip + 1)..(skip + n) BY <2>2, <1>1, <1>3, <1>6
    <3>2. QED BY <3>1, <1>5, <1>7
  <2>3. QED BY <2>1, <2>2, <1>1
<1>9. ended' /\ ~cut' => opened \subseteq loaded'
  <2> SUFFICES ASSUME n = 0, ~(n < Len(page)) PROVE opened \subseteq loaded'
    BY <1>3, Zenon
  <2>1. skip >= l
    BY <1>5, <1>6, <1>1, <1>2
  <2>2. l = Len(table)
    <3>1. Limit \in Nat /\ Limit > 0 BY HistoryAssumption
    <3>2. l # skip + Limit BY <3>1, <2>1, <1>1, <1>2
    <3>3. ~(l < Len(table)) BY <3>2, <1>2
    <3>4. l \in Nat /\ l <= Len(table) /\ Len(table) \in Nat BY <1>1, <1>b
    <3>5. QED BY <3>3, <3>4
  <2>3. \A i \in DOMAIN table : i <= skip
    BY <2>1, <2>2, <1>1
  <2>4. \A i \in DOMAIN table : table[i] \in opened => table[i] \in loaded
    BY <2>3 DEF HistoryInv
  <2>5. opened \subseteq Rows(table)
    BY DEF HistoryInv
  <2>6. QED BY <2>4, <2>5, <1>7 DEF Rows
<1>10. HistoryTypeOK'
  <2>1. ended' \in BOOLEAN /\ cut' \in BOOLEAN
    BY <1>3, Zenon
  <2>2. QED BY <2>1, <1>1, <1>3, <1>4, <1>5, <1>6, <1>7 DEF HistoryInv, HistoryTypeOK
<1>11. NoGap'
  BY <1>9, <1>4, Zenon DEF NoGap
<1>12. (Rows(table))' = Rows(table)
  BY <1>4 DEF Rows
<1>13. QED BY <1>4, <1>8, <1>10, <1>11, <1>12 DEF HistoryInv

LEMMA HistoryStutters == ASSUME HistoryInv, UNCHANGED historyVars PROVE HistoryInv'
<1>1. UNCHANGED <<table, opened, loaded, skip>> /\ (NoGap' <=> NoGap) /\ (Rows(table))' = Rows(table)
  BY DEF historyVars, NoGap, Rows
<1>2. ended' \in BOOLEAN /\ cut' \in BOOLEAN
  BY Zenon DEF historyVars, HistoryInv, HistoryTypeOK
<1>3. QED BY <1>1, <1>2 DEF HistoryInv, HistoryTypeOK

-----------------------------------------------------------------------------
(* The system *)

(* The inductive invariant holds in every state: for any bounds and pages. *)
THEOREM SystemInvariant == Spec => []IInv
<1>1. Init => IInv
  BY StartupInitially, HistoryInitially DEF Init, IInv
<1>2. IInv /\ [Next]_vars => IInv'
  <2> SUFFICES ASSUME IInv, [Next]_vars PROVE IInv'
    OBVIOUS
  <2>1. CASE Consume
    <3>1. HistoryInv' BY <2>1, SaveMsgKeeps DEF Consume, IInv
    <3>2. StartupInv' BY <2>1, MessageSteps, StartupStutters DEF Consume, IInv
    <3>3. QED BY <3>1, <3>2 DEF IInv
  <2>2. CASE Page
    <3>1. HistoryInv' BY <2>2, GetMsgsKeeps DEF Page, IInv
    <3>2. StartupInv' BY <2>2, StartupStutters DEF Page, IInv
    <3>3. QED BY <3>1, <3>2 DEF IInv
  <2>3. CASE Process
    <3>1. HistoryInv' BY <2>3, HistoryStutters DEF Process, IInv
    <3>2. StartupInv' BY <2>3, UserSteps, MessageSteps, GatewaySteps DEF Process, IInv
    <3>3. QED BY <3>1, <3>2 DEF IInv
  <2>4. CASE UNCHANGED vars
    <3>1. UNCHANGED startupVars /\ UNCHANGED historyVars BY <2>4 DEF vars
    <3>2. QED BY <3>1, StartupStutters, HistoryStutters DEF IInv
  <2>5. QED BY <2>1, <2>2, <2>3, <2>4 DEF Next
<1>3. QED BY <1>1, <1>2, PTL DEF Spec

(* Every variable keeps its type; a gateway that got as far has a key. *)
THEOREM SystemTypes == Spec => []TypeOK
<1>1. IInv => TypeOK
  BY DEF IInv, StartupInv, HistoryInv, TypeOK
<1>2. QED BY <1>1, SystemInvariant, PTL

(* The key files of the user service are one pair, wherever it stopped. *)
THEOREM PairWhole == Spec => []FilesMatch
<1>1. IInv => FilesMatch
  BY DEF IInv, StartupInv
<1>2. QED BY <1>1, SystemInvariant, PTL

(* Only a new container of the user service parts its key from a gateway's. *)
THEOREM GatewayVerifies == Spec => []TokensVerify
<1>1. IInv => TokensVerify
  BY DEF IInv, StartupInv, FilesMatch, KeyKept, TokensVerify
<1>2. QED BY <1>1, SystemInvariant, PTL

(* Paging to the end leaves nothing out that was there at the beginning. *)
THEOREM PagesWhole == Spec => []NoGap
<1>1. IInv => NoGap
  BY DEF IInv, HistoryInv
<1>2. QED BY <1>1, SystemInvariant, PTL

=============================================================================
