------------------------------ MODULE Accounts ------------------------------
(***************************************************************************)
(* Registration, passwords, profile pictures and contacts: the gateway's   *)
(* HTTP handlers and the handlers of the user service over its Postgres    *)
(* tables.  A service handler reads and writes in statements of its own,   *)
(* without a transaction, and goes on when its caller has given up.        *)
(*                                                                         *)
(* Three facts shape the model.  A handler that returns a nil message with *)
(* a nil error has it refused by the gRPC marshaller, so that its caller   *)
(* sees Internal after the change was made.  The gateway's middleware      *)
(* stores the user id as int64 and four handlers expect float64: they      *)
(* answer 500 and call nobody, and the service's handlers behind them are  *)
(* reached by other gRPC clients only.  Two SQL statements do not parse:   *)
(* contacts are never inserted and a search always fails.                  *)
(***************************************************************************)
EXTENDS Http, Sequences

CONSTANTS
  Email,
  Matching,       \* the addresses EmailValRegEx matches
  Password,
  Strong,         \* the passwords ValidPassword accepts
  Req,            \* bound: calls in progress at a time
  None,
  MaxWrites,      \* bound: rows inserted and passwords changed
  MaxLapses       \* bound: failed statements and calls given up

ASSUME AccountsAssumption ==
  /\ Matching \subseteq Email /\ Strong \subseteq Password
  /\ MaxWrites \in Nat /\ MaxLapses \in Nat
  /\ None \notin Email \union Password

VARIABLES
  users,     \* the table, in the order of its rows: user_id is the position
  request,   \* the calls in progress
  answer,    \* what the last step answered a caller, None if it answered none
  writes,    \* rows inserted and passwords changed
  lapses

vars == <<users, request, answer, writes, lapses>>

Id == 1..(MaxWrites + 1)

(* A row.  past is history: all its passwords, the current one last;       *)
(* mark is history: the number of rows when its address was looked up.     *)
User == [email : Email, past : Seq(Password), mark : Nat]

AccountOp == {"register", "password", "picture", "contact", "search", "contacts"}

Request == [op : AccountOp,
            at : {"read", "write", "reply"},
            heard : BOOLEAN,                   \* the caller still waits
            id : Id \union {None},
            email : Email \union {None}, old : Password \union {None},
            pwd : Password \union {None},
            code : Code,
            mark : Nat,                        \* history: rows at the look-up, or
                                               \* passwords of the row at the call
            changed : BOOLEAN]                 \* history: it has changed the table

Response == [op : AccountOp, status : Status, changed : BOOLEAN]

TypeOK ==
  /\ users \in Seq(User) /\ \A i \in DOMAIN users : users[i].past # <<>>
  /\ request \in [Req -> Request \union {None}]
  /\ answer \in Response \union {None}
  /\ writes \in 0..MaxWrites /\ Len(users) <= writes
  /\ lapses \in 0..MaxLapses

Init ==
  /\ users = <<>>
  /\ request = [r \in Req |-> None]
  /\ answer = None
  /\ writes = 0 /\ lapses = 0

Lapse == lapses < MaxLapses /\ lapses' = lapses + 1
Write == writes < MaxWrites /\ writes' = writes + 1

ValidEmail(e)    == e \in Matching
ValidPassword(p) == p \in Strong

Current(i) == users[i].past[Len(users[i].past)]

(* Mutant: a hash the row had before is good enough. *)
AuthPassword_Stale(i, p) == \E k \in DOMAIN users[i].past : users[i].past[k] = p

AuthPassword(i, p) == Current(i) = p

UserExistsByEmail(e) == \E i \in DOMAIN users : users[i].email = e

(* The methods whose handler returns a nil message. *)
NilReply == {"register", "password", "picture", "contact"}

Sent(op, code) == IF op \in NilReply /\ code = "OK" THEN "Internal" ELSE code

Unanswered == answer' = None
Respond(op, status, changed) == answer' = [op |-> op, status |-> status, changed |-> changed]

Place(r, c) == request' = [request EXCEPT ![r] = c]
In(r, op, at) == request[r] # None /\ request[r].op = op /\ request[r].at = at

Blank(op) == [op |-> op, at |-> "read", heard |-> TRUE, id |-> None, email |-> None,
              old |-> None, pwd |-> None, code |-> "OK", mark |-> 0, changed |-> FALSE]

(* The service's handler returns, to a caller or to nobody. *)
Finish(r, code, changed) ==
  Place(r, IF request[r].heard
           THEN LET op == request[r].op IN
                [Blank(op) EXCEPT !.at = "reply", !.code = Sent(op, code), !.changed = changed]
           ELSE None)

-----------------------------------------------------------------------------
(* The gateway's handlers, up to the call of the user service. *)

(* What becomes of the picture of a form: of another type, over 2 MB, cut  *)
(* off, or good.                                                           *)
ValidFile(file) ==
  CASE file = "otherType" -> 422
    [] file = "tooLarge"  -> 413
    [] file = "cutOff"    -> 500
    [] OTHER               -> 200

(* The parts come in order: name, email, password, and the picture if any. *)
(* The name is checked here as it is in the service.                       *)
RegisterUser(r) ==
  /\ request[r] = None
  /\ \/ \E status \in {400, 500} \union {ValidFile(f) : f \in {"otherType", "tooLarge", "cutOff"}} :
          Respond("register", status, FALSE)
        /\ UNCHANGED request
     \/ \E e \in Email, p \in Password : Place(r, [Blank("register") EXCEPT !.email = e, !.pwd = p])
        /\ Unanswered
  /\ UNCHANGED <<users, writes, lapses>>

(* A form of another type, without the field, with a bad picture, or good: *)
(* the id in the claims is not the float64 the handler asks for.           *)
ChangeDP ==
  /\ \E status \in {400, 500, ValidFile("otherType"), ValidFile("tooLarge"), ValidFile("good")} \ {200} :
       Respond("picture", status, FALSE)
  /\ UNCHANGED <<users, request, writes, lapses>>

(* The same in the other three; the first two look at the request before. *)
ChangePassword ==
  /\ \E status \in {400, 500} : Respond("password", status, FALSE)
  /\ UNCHANGED <<users, request, writes, lapses>>

SearchUser ==
  /\ \E status \in {400, 500} : Respond("search", status, FALSE)
  /\ UNCHANGED <<users, request, writes, lapses>>

AddContact ==
  /\ Respond("contact", 500, FALSE)
  /\ UNCHANGED <<users, request, writes, lapses>>

GetContacts(r) ==
  /\ request[r] = None
  /\ Place(r, Blank("contacts"))
  /\ Unanswered
  /\ UNCHANGED <<users, writes, lapses>>

(* Another client of the service: the methods behind the handlers above. *)
OtherClient(r, i) ==
  /\ request[r] = None
  /\ \/ \E old \in Password, new \in Password :
          Place(r, [Blank("password") EXCEPT !.id = i, !.old = old, !.pwd = new,
                      !.mark = IF i \in DOMAIN users THEN Len(users[i].past) ELSE 0])
     \/ Place(r, [Blank("picture") EXCEPT !.id = i])
     \/ \E op \in {"contact", "search"} : Place(r, Blank(op))
  /\ Unanswered
  /\ UNCHANGED <<users, writes, lapses>>

-----------------------------------------------------------------------------
(* The user service. *)

(* A statement fails: nothing was changed. *)
Fails(r) == Finish(r, "Internal", FALSE) /\ Lapse

(* Mutant: the address is not looked up. *)
CheckRegistration_NoLookup(r) ==
  /\ In(r, "register", "read")
  /\ LET c == request[r] IN
     IF ValidEmail(c.email) /\ ValidPassword(c.pwd)
     THEN Place(r, [c EXCEPT !.at = "write", !.mark = Len(users)])
     ELSE Finish(r, "InvalidArgument", FALSE)
  /\ Unanswered
  /\ UNCHANGED <<users, writes, lapses>>

CheckRegistration(r) ==
  /\ In(r, "register", "read")
  /\ LET c == request[r] IN
     \/ ~ValidEmail(c.email) /\ Finish(r, "InvalidArgument", FALSE) /\ UNCHANGED lapses
     \/ ValidEmail(c.email) /\ Fails(r)
     \/ /\ ValidEmail(c.email) /\ UNCHANGED lapses
        /\ IF UserExistsByEmail(c.email) THEN Finish(r, "AlreadyExists", FALSE)
           ELSE IF ~ValidPassword(c.pwd) THEN Finish(r, "InvalidArgument", FALSE)
           ELSE Place(r, [c EXCEPT !.at = "write", !.mark = Len(users)])
  /\ Unanswered
  /\ UNCHANGED <<users, writes>>

(* Mutant: a failure of HashPassword goes unseen, the row gets no hash. *)
InsertUser_NoHash(r) ==
  /\ In(r, "register", "write")
  /\ LET c == request[r] IN
     /\ Write /\ users' = Append(users, [email |-> c.email, past |-> <<>>, mark |-> c.mark])
     /\ Finish(r, "OK", TRUE)
  /\ Unanswered
  /\ UNCHANGED lapses

(* Mutant: the insert's error is taken for a duplicate. *)
InsertUser_Conflict(r) ==
  /\ In(r, "register", "write")
  /\ LET c == request[r] IN
     /\ Write /\ users' = Append(users, [email |-> c.email, past |-> <<c.pwd>>, mark |-> c.mark])
     /\ \/ Finish(r, "OK", TRUE) /\ UNCHANGED lapses
        \/ Finish(r, "AlreadyExists", TRUE) /\ Lapse
  /\ Unanswered

(* An insert that fails may have been made. *)
InsertUser(r) ==
  /\ In(r, "register", "write")
  /\ LET c == request[r] IN
     \/ /\ Write /\ users' = Append(users, [email |-> c.email, past |-> <<c.pwd>>, mark |-> c.mark])
        /\ \/ Finish(r, "OK", TRUE) /\ UNCHANGED lapses
           \/ Finish(r, "Internal", TRUE) /\ Lapse
     \/ Fails(r) /\ UNCHANGED <<users, writes>>
  /\ Unanswered

(* ChangePwd: the row, its hash, then the new password. *)
SelectUserById(r) ==
  /\ In(r, "password", "read")
  /\ LET c == request[r] IN
     \/ Fails(r)
     \/ /\ IF c.id \notin DOMAIN users THEN Finish(r, "NotFound", FALSE)
           ELSE IF ~AuthPassword(c.id, c.old) THEN Finish(r, "Unauthenticated", FALSE)
           ELSE IF ~ValidPassword(c.pwd) THEN Finish(r, "InvalidArgument", FALSE)
           ELSE Place(r, [c EXCEPT !.at = "write"])
        /\ UNCHANGED lapses
  /\ Unanswered
  /\ UNCHANGED <<users, writes>>

UpdateUserPwd(r) ==
  /\ In(r, "password", "write")
  /\ LET c == request[r] IN
     \/ /\ Write /\ users' = [users EXCEPT ![c.id].past = Append(@, c.pwd)]
        /\ \/ Finish(r, "OK", TRUE) /\ UNCHANGED lapses
           \/ Finish(r, "Internal", TRUE) /\ Lapse
     \/ Fails(r) /\ UNCHANGED <<users, writes>>
  /\ Unanswered

(* The row's picture, of which the model keeps only that it has changed.   *)
(* An update of no row is an error of its own, not ErrNoRows.              *)
UpdateUserDp(r) ==
  /\ In(r, "picture", "read")
  /\ LET c == request[r] IN
     \/ c.id \in DOMAIN users /\ Finish(r, "OK", TRUE) /\ UNCHANGED lapses
     \/ c.id \in DOMAIN users /\ Finish(r, "Internal", TRUE) /\ Lapse
     \/ c.id \notin DOMAIN users /\ Finish(r, "Internal", FALSE) /\ UNCHANGED lapses
     \/ Fails(r)
  /\ Unanswered
  /\ UNCHANGED <<users, writes>>

(* INSERT ... VALUES ... WHERE is not SQL. *)
InsertContact(r) ==
  /\ In(r, "contact", "read")
  /\ Finish(r, "Internal", FALSE) /\ Unanswered
  /\ UNCHANGED <<users, writes, lapses>>

(* Nor is a comma before FROM: ContactExists is never asked. *)
SelectUserByEmailSearch(r) ==
  /\ In(r, "search", "read")
  /\ Finish(r, "Internal", FALSE) /\ Unanswered
  /\ UNCHANGED <<users, writes, lapses>>

(* An error while the rows are read is not looked at: what was read is     *)
(* returned as if it were all.                                             *)
SelectContacts(r) ==
  /\ In(r, "contacts", "read")
  /\ \/ Finish(r, "OK", FALSE) /\ UNCHANGED lapses
     \/ \E code \in {"OK", "Internal"} : Finish(r, code, FALSE) /\ Lapse
  /\ Unanswered
  /\ UNCHANGED <<users, writes>>

-----------------------------------------------------------------------------
(* The caller has its answer, in HTTP's terms.  The picture of a           *)
(* registration would be uploaded after an OK, which no registration gets. *)

Reply(r) ==
  LET c == request[r] IN
  /\ c # None /\ c.at = "reply"
  /\ Respond(c.op, MapGrpcErrors(c.code), c.changed)
  /\ Place(r, None)
  /\ UNCHANGED <<users, writes, lapses>>

(* After ten seconds the caller has its answer; the service goes on. *)
GiveUp(r) ==
  LET c == request[r] IN
  /\ c # None /\ c.at # "reply" /\ c.heard /\ Lapse
  /\ Respond(c.op, MapGrpcErrors("DeadlineExceeded"), FALSE)
  /\ Place(r, [c EXCEPT !.heard = FALSE])
  /\ UNCHANGED <<users, writes>>

Next ==
  \/ \E r \in Req : \/ RegisterUser(r) \/ CheckRegistration(r) \/ InsertUser(r)
                    \/ SelectUserById(r) \/ UpdateUserPwd(r) \/ UpdateUserDp(r)
                    \/ InsertContact(r) \/ SelectUserByEmailSearch(r) \/ SelectContacts(r)
                    \/ Reply(r) \/ GiveUp(r)
                    \/ GetContacts(r) \/ \E i \in 1..(Len(users) + 1) : OtherClient(r, i)
  \/ ChangeDP \/ ChangePassword \/ SearchUser \/ AddContact

Spec == Init /\ [][Next]_vars

-----------------------------------------------------------------------------
(* Properties *)

(* Two rows have one address only if their registrations overlapped: the   *)
(* later row's address was looked up before the earlier row was inserted.  *)
(* The handler (post.go) checks and inserts in two statements; whether a   *)
(* constraint of the table stops the second insert is not in the           *)
(* repository.                                                             *)
DuplicateNeedsOverlap ==
  \A i, j \in DOMAIN users : i < j /\ users[i].email = users[j].email => users[j].mark < i

(* A password is changed only by a call of ChangePwd that was given a      *)
(* password the row has had since that call was made: one that was         *)
(* replaced before opens nothing, though one replaced while the call is    *)
(* under way still does.                                                   *)
PasswordFromHolder ==
  [][\A i \in DOMAIN users : users'[i].past # users[i].past =>
       \E r \in Req :
         /\ In(r, "password", "write") /\ request[r].id = i
         /\ users'[i].past = Append(users[i].past, request[r].pwd)
         /\ \E k \in request[r].mark..Len(users[i].past) :
              k \in DOMAIN users[i].past /\ users[i].past[k] = request[r].old]_vars

(* A request that is refused for a reason of its own, any 4xx but the      *)
(* timeout's 408, has changed nothing: what was changed is never answered  *)
(* "already exists", "not found" or "invalid".                             *)
RefusedUnchanged ==
  answer # None /\ answer.status \in {400, 401, 403, 404, 409, 413, 422} => ~answer.changed

=============================================================================
