------------------------------- MODULE History ------------------------------
(***************************************************************************)
(* The messages of a conversation, paged by a client while the message     *)
(* service stores new ones.  A page is the rows from an offset on, newest  *)
(* first.  A row's time is a default of the table, which is not in the     *)
(* repository: rows may become visible in another order than their times,  *)
(* and no two of them have the same.  Nor is the client: it asks for what  *)
(* follows the rows it has got.                                            *)
(***************************************************************************)
EXTENDS Naturals, Sequences, FiniteSets

CONSTANTS
  Limit,          \* the rows of a page, 20
  MaxRows         \* bound: messages of the conversation

ASSUME HistoryAssumption == Limit \in Nat \ {0} /\ MaxRows \in Nat

VARIABLES
  table,     \* the rows of the conversation, newest first
  opened,    \* the rows there were when the client opened the conversation
  loaded,    \* the rows the client has got
  skip,      \* how many rows it has got, counting a row each time
  ended,     \* it has got an empty page
  cut        \* history: a page was cut short

historyVars == <<table, opened, loaded, skip, ended, cut>>

Row == 1..MaxRows
Rows(s) == {s[i] : i \in DOMAIN s}

HistoryTypeOK ==
  /\ table \in Seq(Row) /\ \A i, j \in DOMAIN table : table[i] = table[j] => i = j
  /\ opened \subseteq Row /\ loaded \subseteq Row
  /\ skip \in Nat
  /\ ended \in BOOLEAN /\ cut \in BOOLEAN

(* The conversation is opened with any number of messages in it. *)
HistoryInit ==
  /\ \E n \in 0..MaxRows : table = [i \in 1..n |-> i] /\ opened = 1..n
  /\ loaded = {} /\ skip = 0
  /\ ended = FALSE /\ cut = FALSE

Lowest(a, b) == IF a < b THEN a ELSE b

(* Mutant: the offset skips one row too many on every page but the first. *)
SelectMsgs_Skips(offset) ==
  SubSeq(table, offset + (IF offset = 0 THEN 1 ELSE 2), Lowest(offset + Limit + 1, Len(table)))

(* ORDER BY time DESC OFFSET skip LIMIT 20 *)
SelectMsgs(offset) == SubSeq(table, offset + 1, Lowest(offset + Limit, Len(table)))

Insert(s, k, x) == [i \in 1..(Len(s) + 1) |-> IF i < k THEN s[i] ELSE IF i = k THEN x ELSE s[i - 1]]

(* The message service stores a message: it may be older than others. *)
SaveMsg ==
  /\ Len(table) < MaxRows
  /\ \E k \in 1..(Len(table) + 1) : table' = Insert(table, k, Len(table) + 1)
  /\ UNCHANGED <<opened, loaded, skip, ended, cut>>

(* The page, or its beginning: an error while rows are read is not looked  *)
(* at.  A request refused for its parameters, or answered 500, loads none  *)
(* and is not a step.                                                      *)
GetMsgs ==
  /\ ~ended
  /\ LET page == SelectMsgs(skip) IN
     \E n \in 0..Len(page) :
       /\ loaded' = loaded \union Rows(SubSeq(page, 1, n))
       /\ skip' = skip + n
       /\ ended' = (n = 0)
       /\ cut' = (cut \/ n < Len(page))
  /\ UNCHANGED <<table, opened>>

(* Whoever pages to the end has got every message there was when he opened *)
(* the conversation, however many are stored meanwhile and wherever their  *)
(* times put them, unless a page was cut short by an error nobody saw.     *)
NoGap == ended /\ ~cut => opened \subseteq loaded

=============================================================================
