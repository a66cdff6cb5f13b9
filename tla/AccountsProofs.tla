--------------------------- MODULE AccountsProofs ---------------------------
(* Theorems about Accounts, for every set of addresses, passwords and      *)
(* calls, every number of rows and of failures.                            *)
EXTENDS Accounts, TLAPS

(* What a call in progress may rely on: its arguments, that the address it *)
(* looked up was not in the rows it saw, that the password it was given is *)
(* one the row had after the call, and an answer that hides no change.     *)
RequestOK(c) ==
  /\ c.op = "register" /\ c.at \in {"read", "write"} => c.email \in Email /\ c.pwd \in Password
  /\ c.op = "register" /\ c.at = "write" =>
       /\ c.mark <= Len(users)
       /\ \A i \in DOMAIN users : users[i].email = c.email => c.mark < i
  /\ c.op = "password" /\ c.at \in {"read", "write"} =>
       /\ c.pwd \in Password
       /\ IF c.id \in DOMAIN users THEN c.mark <= Len(users[c.id].past) ELSE c.mark = 0
  /\ c.op = "password" /\ c.at = "write" =>
       /\ c.id \in DOMAIN users
       /\ \E k \in c.mark..Len(users[c.id].past) :
            k \in DOMAIN users[c.id].past /\ users[c.id].past[k] = c.old
  /\ c.changed => c.at = "reply" /\ c.code \in {"OK", "Internal"}

RequestsOK == \A r \in Req : request[r] # None => RequestOK(request[r])

Inv == TypeOK /\ RequestsOK /\ DuplicateNeedsOverlap /\ RefusedUnchanged

(* Rows are added at the end, and passwords at the end of a row's. *)
Grows ==
  /\ DOMAIN users \subseteq DOMAIN users' /\ Len(users) <= Len(users')
  /\ \A i \in DOMAIN users : /\ users'[i].email = users[i].email
                            /\ users'[i].mark = users[i].mark
                            /\ Len(users[i].past) <= Len(users'[i].past)
                            /\ DOMAIN users[i].past \subseteq DOMAIN users'[i].past
                            /\ \A k \in DOMAIN users[i].past : users'[i].past[k] = users[i].past[k]
  /\ \A i \in DOMAIN users' \ DOMAIN users : Len(users) < i

LEMMA Same == TypeOK /\ users' = users => Grows
  BY DEF TypeOK, User, Grows

(* A call that does not move keeps what it relies on. *)
LEMMA Kept ==
  ASSUME TypeOK, Grows, NEW c \in Request, RequestOK(c),
         users' \in Seq(User)
  PROVE  RequestOK(c)'
<1>1. /\ users \in Seq(User) /\ Len(users) \in Nat /\ Len(users') \in Nat /\ c.mark \in Nat
      /\ DOMAIN users = 1..Len(users) /\ DOMAIN users' = 1..Len(users')
  BY DEF TypeOK, Request
<1>0. \A u \in User : u.past \in Seq(Password)
  BY DEF User
<1>2. \A i \in DOMAIN users' : users'[i].past \in Seq(Password)
  BY <1>0
<1>3. \A i \in DOMAIN users : users[i].past \in Seq(Password)
  BY <1>0, <1>1
<1>4. ASSUME NEW i \in DOMAIN users
      PROVE  /\ Len(users[i].past) \in Nat /\ Len(users'[i].past) \in Nat
             /\ Len(users[i].past) <= Len(users'[i].past)
             /\ DOMAIN users[i].past = 1..Len(users[i].past)
             /\ DOMAIN users'[i].past = 1..Len(users'[i].past)
             /\ \A k \in DOMAIN users[i].past : users'[i].past[k] = users[i].past[k]
  <2>1. i \in DOMAIN users' /\ users[i].past \in Seq(Password) /\ users'[i].past \in Seq(Password)
    BY <1>2, <1>3 DEF Grows
  <2> QED
    BY <2>1 DEF Grows
<1>5. c.op = "register" /\ c.at = "write" =>
       /\ c.mark <= Len(users')
       /\ \A i \in DOMAIN users' : users'[i].email = c.email => c.mark < i
  BY <1>1 DEF RequestOK, Grows
<1>6. c.op = "password" /\ c.at \in {"read", "write"} =>
       IF c.id \in DOMAIN users' THEN c.mark <= Len(users'[c.id].past) ELSE c.mark = 0
  <2>1. \A i \in DOMAIN users' : Len(users'[i].past) \in Nat
    BY <1>2
  <2> QED
    BY <1>1, <1>4, <2>1 DEF RequestOK, Grows
<1>7. c.op = "password" /\ c.at = "write" =>
       /\ c.id \in DOMAIN users'
       /\ \E k \in c.mark..Len(users'[c.id].past) :
            k \in DOMAIN users'[c.id].past /\ users'[c.id].past[k] = c.old
  <2> SUFFICES ASSUME c.op = "password", c.at = "write"
               PROVE  /\ c.id \in DOMAIN users'
                      /\ \E k \in c.mark..Len(users'[c.id].past) :
                           k \in DOMAIN users'[c.id].past /\ users'[c.id].past[k] = c.old
    OBVIOUS
  <2>1. c.id \in DOMAIN users /\ c.id \in DOMAIN users'
    BY DEF RequestOK, Grows
  <2>2. PICK k \in c.mark..Len(users[c.id].past) :
          k \in DOMAIN users[c.id].past /\ users[c.id].past[k] = c.old
    BY DEF RequestOK
  <2>3. k \in c.mark..Len(users'[c.id].past) /\ k \in DOMAIN users'[c.id].past
    BY <1>1, <1>4, <2>1, <2>2
  <2> QED
    BY <1>4, <2>1, <2>2, <2>3
<1> QED
  BY <1>5, <1>6, <1>7 DEF RequestOK

(* One call moves, the others keep what they rely on. *)
LEMMA Moves ==
  ASSUME TypeOK, RequestsOK, Grows, users' \in Seq(User), NEW r \in Req, NEW c, Place(r, c),
         c # None => c \in Request /\ RequestOK(c)'
  PROVE  request' \in [Req -> Request \union {None}] /\ RequestsOK'
<1>1. request' = [request EXCEPT ![r] = c] /\ request \in [Req -> Request \union {None}]
  BY DEF Place, TypeOK
<1>2. request' \in [Req -> Request \union {None}]
  BY <1>1
<1>3. ASSUME NEW s \in Req, NEW d, d = request'[s], d # None PROVE RequestOK(d)'
  <2>1. CASE s = r
    BY <1>1, <1>3, <2>1
  <2>2. CASE s # r
    <3>1. d = request[s] /\ d \in Request /\ RequestOK(d)
      BY <1>1, <1>3, <2>2 DEF RequestsOK
    <3> QED
      BY <3>1, Kept
  <2> QED
    BY <2>1, <2>2
<1> QED
  BY <1>2, <1>3 DEF RequestsOK

LEMMA BlankOK ==
  ASSUME NEW op \in AccountOp
  PROVE  /\ Blank(op) \in Request /\ Blank(op).op = op /\ Blank(op).at = "read"
         /\ Blank(op).changed = FALSE
  BY DEF Blank, Request, Code

(* A handler of the service returns: what it changed is not denied. *)
LEMMA Finishes ==
  ASSUME TypeOK, RequestsOK, Grows, users' \in Seq(User), NEW r \in Req, request[r] # None,
         NEW code \in Code, NEW changed \in BOOLEAN, changed => code \in {"OK", "Internal"},
         Finish(r, code, changed)
  PROVE  request' \in [Req -> Request \union {None}] /\ RequestsOK'
<1>1. PICK op, heard : op = request[r].op /\ heard = request[r].heard
  OBVIOUS
<1>2. op \in AccountOp
  BY <1>1 DEF TypeOK, Request
<1>3. Sent(op, code) \in Code /\ (code \in {"OK", "Internal"} => Sent(op, code) \in {"OK", "Internal"})
  BY DEF Sent, Code
<1>4. PICK c : c = [Blank(op) EXCEPT !.at = "reply", !.code = Sent(op, code), !.changed = changed]
  OBVIOUS
<1>5. c \in Request /\ c.at = "reply" /\ c.code = Sent(op, code) /\ c.changed = changed
  BY <1>2, <1>3, <1>4 DEF Blank, Request
<1>6. RequestOK(c)'
  BY <1>3, <1>5 DEF RequestOK
<1>7. CASE heard
  <2>1. Place(r, c)
    BY <1>1, <1>4, <1>7 DEF Finish
  <2> QED
    BY <1>5, <1>6, <2>1, Moves
<1>8. CASE ~heard
  <2>1. Place(r, None)
    BY <1>1, <1>8 DEF Finish
  <2> QED
    BY <2>1, Moves
<1> QED
  BY <1>7, <1>8

(* Steps that leave the table alone. *)
LEMMA IdleInv ==
  ASSUME Inv, UNCHANGED <<users, writes>>, lapses' = lapses \/ Lapse,
         request' \in [Req -> Request \union {None}], RequestsOK',
         \/ Unanswered
         \/ answer' \in Response /\ (answer'.changed => answer'.status \in {200, 500})
  PROVE  Inv'
<1>1. lapses' \in 0..MaxLapses
  BY AccountsAssumption DEF Inv, TypeOK, Lapse
<1>2. answer' \in Response \union {None} /\ RefusedUnchanged'
  BY DEF Unanswered, RefusedUnchanged, Response
<1>3. TypeOK'
  BY <1>1, <1>2 DEF Inv, TypeOK
<1>4. DuplicateNeedsOverlap'
  BY DEF Inv, DuplicateNeedsOverlap
<1> QED
  BY <1>2, <1>3, <1>4 DEF Inv

(* The gateway's handlers that call nobody. *)
LEMMA Refusals ==
  ASSUME Inv, NEW op \in AccountOp, NEW status \in Status, Respond(op, status, FALSE),
         UNCHANGED <<users, request, writes, lapses>>
  PROVE  Inv'
<1>1. answer' \in Response /\ ~answer'.changed
  BY DEF Respond, Response
<1>2. request' \in [Req -> Request \union {None}] /\ RequestsOK'
  BY DEF Inv, TypeOK, RequestsOK, RequestOK
<1> QED
  BY <1>1, <1>2, IdleInv

LEMMA FileStatus == \A file : ValidFile(file) \in Status
  BY DEF ValidFile, Status

LEMMA HandlerInv ==
  ASSUME Inv, ChangeDP \/ ChangePassword \/ SearchUser \/ AddContact
  PROVE  Inv'
<1>1. 400 \in Status /\ 500 \in Status /\ {"picture", "password", "search", "contact"} \subseteq AccountOp
  BY DEF Status, AccountOp
<1>2. CASE ChangeDP
  <2>1. PICK status \in {400, 500, ValidFile("otherType"), ValidFile("tooLarge"), ValidFile("good")} :
          Respond("picture", status, FALSE)
    BY <1>2 DEF ChangeDP
  <2>2. status \in Status
    BY <1>1, <2>1, FileStatus
  <2> QED
    BY <1>1, <1>2, <2>1, <2>2, Refusals DEF ChangeDP
<1>3. CASE ChangePassword
  <2>1. PICK status \in {400, 500} : Respond("password", status, FALSE)
    BY <1>1, <1>3 DEF ChangePassword
  <2>2. status \in Status /\ "password" \in AccountOp
    BY <1>1, <2>1
  <2>3. UNCHANGED <<users, request, writes, lapses>>
    BY <1>3 DEF ChangePassword
  <2> QED
    BY <2>1, <2>2, <2>3, Refusals
<1>4. CASE SearchUser
  <2>1. PICK status \in {400, 500} : Respond("search", status, FALSE)
    BY <1>1, <1>4 DEF SearchUser
  <2>2. status \in Status /\ "search" \in AccountOp
    BY <1>1, <2>1
  <2>3. UNCHANGED <<users, request, writes, lapses>>
    BY <1>4 DEF SearchUser
  <2> QED
    BY <2>1, <2>2, <2>3, Refusals
<1>5. CASE AddContact
  BY <1>1, <1>5, Refusals DEF AddContact
<1> QED
  BY <1>2, <1>3, <1>4, <1>5

(* A call is placed. *)
LEMMA CallInv ==
  ASSUME Inv, NEW r \in Req, NEW c \in Request, RequestOK(c)', Place(r, c), Unanswered,
         UNCHANGED <<users, writes, lapses>>
  PROVE  Inv'
<1>1. TypeOK /\ RequestsOK /\ Grows /\ users' \in Seq(User)
  BY Same DEF Inv, TypeOK
<1>2. request' \in [Req -> Request \union {None}] /\ RequestsOK'
  BY <1>1, Moves
<1> QED
  BY <1>2, IdleInv

LEMMA RegisterUserInv == ASSUME Inv, NEW r \in Req, RegisterUser(r) PROVE Inv'
<1>1. ASSUME NEW status \in {400, 500} \union {ValidFile(f) : f \in {"otherType", "tooLarge", "cutOff"}},
             Respond("register", status, FALSE), UNCHANGED <<users, request, writes, lapses>>
      PROVE  Inv'
  <2>1. status \in Status /\ "register" \in AccountOp
    <3>1. 400 \in Status /\ 500 \in Status /\ "register" \in AccountOp
      BY DEF Status, AccountOp
    <3> QED
      BY <3>1, FileStatus
  <2> QED
    BY <1>1, <2>1, Refusals
<1>2. ASSUME NEW e \in Email, NEW p \in Password,
             Place(r, [Blank("register") EXCEPT !.email = e, !.pwd = p]), Unanswered,
             UNCHANGED <<users, writes, lapses>>
      PROVE  Inv'
  <2>1. PICK c : c = [Blank("register") EXCEPT !.email = e, !.pwd = p]
    OBVIOUS
  <2>2. /\ c \in Request /\ c.op = "register" /\ c.at = "read" /\ c.email = e /\ c.pwd = p
        /\ c.changed = FALSE
    BY <2>1 DEF Blank, Request, AccountOp, Code
  <2>3. RequestOK(c)'
    BY <2>2 DEF RequestOK
  <2> QED
    BY <1>2, <2>1, <2>2, <2>3, CallInv
<1> QED
  BY <1>1, <1>2 DEF RegisterUser

LEMMA GetContactsInv == ASSUME Inv, NEW r \in Req, GetContacts(r) PROVE Inv'
<1>1. PICK c : c = Blank("contacts")
  OBVIOUS
<1>2. c \in Request /\ c.op = "contacts" /\ c.changed = FALSE
  BY <1>1 DEF Blank, Request, AccountOp, Code
<1>3. RequestOK(c)'
  BY <1>2 DEF RequestOK
<1> QED
  BY <1>1, <1>2, <1>3, CallInv DEF GetContacts

LEMMA OtherClientInv ==
  ASSUME Inv, NEW r \in Req, NEW i \in 1..(Len(users) + 1), OtherClient(r, i)
  PROVE  Inv'
<1>1. users \in Seq(User) /\ Len(users) \in Nat /\ Len(users) <= MaxWrites /\ MaxWrites \in Nat
  BY AccountsAssumption DEF Inv, TypeOK
<1>2. i \in Id /\ i \in Nat
  BY <1>1 DEF Id
<1>3. users' = users /\ Unanswered /\ UNCHANGED <<users, writes, lapses>>
  BY DEF OtherClient
<1>4. ASSUME NEW old \in Password, NEW new \in Password,
             Place(r, [Blank("password") EXCEPT !.id = i, !.old = old, !.pwd = new,
                         !.mark = IF i \in DOMAIN users THEN Len(users[i].past) ELSE 0])
      PROVE  Inv'
  <2>1. PICK n : n = IF i \in DOMAIN users THEN Len(users[i].past) ELSE 0
    OBVIOUS
  <2>2. n \in Nat
    <3>1. \A u \in User : Len(u.past) \in Nat
      BY DEF User
    <3> QED
      BY <1>1, <2>1, <3>1
  <2>3. PICK c : c = [Blank("password") EXCEPT !.id = i, !.old = old, !.pwd = new, !.mark = n]
    OBVIOUS
  <2>4. /\ c \in Request /\ c.op = "password" /\ c.at = "read" /\ c.id = i /\ c.pwd = new
        /\ c.mark = n /\ c.changed = FALSE
    BY <1>2, <2>2, <2>3 DEF Blank, Request, AccountOp, Code
  <2>5. RequestOK(c)'
    BY <1>3, <2>1, <2>2, <2>4 DEF RequestOK
  <2> QED
    BY <1>3, <1>4, <2>1, <2>3, <2>4, <2>5, CallInv
<1>5. CASE Place(r, [Blank("picture") EXCEPT !.id = i])
  <2>1. PICK c : c = [Blank("picture") EXCEPT !.id = i]
    OBVIOUS
  <2>2. c \in Request /\ c.op = "picture" /\ c.changed = FALSE
    BY <1>2, <2>1 DEF Blank, Request, AccountOp, Code
  <2>3. RequestOK(c)'
    BY <2>2 DEF RequestOK
  <2> QED
    BY <1>3, <1>5, <2>1, <2>2, <2>3, CallInv
<1>6. ASSUME NEW op \in {"contact", "search"}, Place(r, Blank(op)) PROVE Inv'
  <2>1. PICK c : c = Blank(op)
    OBVIOUS
  <2>2. c \in Request /\ c.op = op /\ c.changed = FALSE
    BY <2>1 DEF Blank, Request, AccountOp, Code
  <2>3. RequestOK(c)'
    BY <2>2 DEF RequestOK
  <2> QED
    BY <1>3, <1>6, <2>1, <2>2, <2>3, CallInv
<1> QED
  BY <1>4, <1>5, <1>6 DEF OtherClient

(* A handler of the service returns and the table stays as it was. *)
LEMMA ReturnInv ==
  ASSUME Inv, NEW r \in Req, request[r] # None, NEW code \in Code, NEW changed \in BOOLEAN,
         changed => code \in {"OK", "Internal"}, Finish(r, code, changed),
         UNCHANGED <<users, writes>>, lapses' = lapses \/ Lapse, Unanswered
  PROVE  Inv'
<1>1. TypeOK /\ RequestsOK /\ Grows /\ users' \in Seq(User)
  BY Same DEF Inv, TypeOK
<1>2. request' \in [Req -> Request \union {None}] /\ RequestsOK'
  BY <1>1, Finishes
<1> QED
  BY <1>2, IdleInv

LEMMA FailsInv ==
  ASSUME Inv, NEW r \in Req, request[r] # None, Fails(r), UNCHANGED <<users, writes>>, Unanswered
  PROVE  Inv'
<1>1. "Internal" \in Code /\ FALSE \in BOOLEAN
  BY DEF Code
<1> QED
  BY <1>1, ReturnInv DEF Fails

(* The address is in none of the rows the handler saw. *)
LEMMA CheckRegistrationInv == ASSUME Inv, NEW r \in Req, CheckRegistration(r) PROVE Inv'
<1>1. PICK c : c = request[r]
  OBVIOUS
<1>2. /\ c # None /\ c.op = "register" /\ c.at = "read" /\ Unanswered /\ UNCHANGED <<users, writes>>
      /\ c \in Request /\ RequestOK(c)
  BY <1>1 DEF CheckRegistration, In, Inv, TypeOK, RequestsOK
<1>3. {"InvalidArgument", "AlreadyExists"} \subseteq Code
  BY DEF Code
<1>4. ASSUME NEW code \in {"InvalidArgument", "AlreadyExists"}, Finish(r, code, FALSE), lapses' = lapses
      PROVE  Inv'
  BY <1>1, <1>2, <1>3, <1>4, ReturnInv
<1>5. ASSUME Fails(r) PROVE Inv'
  BY <1>1, <1>2, <1>5, FailsInv
<1>6. ASSUME ~UserExistsByEmail(c.email), lapses' = lapses,
             Place(r, [c EXCEPT !.at = "write", !.mark = Len(users)])
      PROVE  Inv'
  <2>1. Len(users) \in Nat /\ DOMAIN users = 1..Len(users) /\ users' = users
    BY <1>2 DEF Inv, TypeOK
  <2>2. PICK d : d = [c EXCEPT !.at = "write", !.mark = Len(users)]
    OBVIOUS
  <2>3. /\ d \in Request /\ d.op = "register" /\ d.at = "write" /\ d.email = c.email /\ d.pwd = c.pwd
        /\ d.mark = Len(users) /\ d.changed = c.changed
    BY <1>2, <2>1, <2>2 DEF Request
  <2>4. \A i \in DOMAIN users : users[i].email # d.email
    BY <1>6, <2>3 DEF UserExistsByEmail
  <2>5. RequestOK(d)'
    BY <1>2, <2>1, <2>3, <2>4 DEF RequestOK
  <2> QED
    BY <1>2, <1>6, <2>2, <2>3, <2>5, CallInv
<1> QED
  BY <1>1, <1>4, <1>5, <1>6 DEF CheckRegistration

(* The row's current password is the one the caller gave. *)
LEMMA SelectUserByIdInv == ASSUME Inv, NEW r \in Req, SelectUserById(r) PROVE Inv'
<1>1. PICK c : c = request[r]
  OBVIOUS
<1>2. /\ c # None /\ c.op = "password" /\ c.at = "read" /\ Unanswered /\ UNCHANGED <<users, writes>>
      /\ c \in Request /\ RequestOK(c)
  BY <1>1 DEF SelectUserById, In, Inv, TypeOK, RequestsOK
<1>3. {"NotFound", "InvalidArgument", "Unauthenticated"} \subseteq Code
  BY DEF Code
<1>4. ASSUME NEW code \in {"NotFound", "InvalidArgument", "Unauthenticated"}, Finish(r, code, FALSE),
             lapses' = lapses
      PROVE  Inv'
  BY <1>1, <1>2, <1>3, <1>4, ReturnInv
<1>5. ASSUME Fails(r) PROVE Inv'
  BY <1>1, <1>2, <1>5, FailsInv
<1>6. ASSUME c.id \in DOMAIN users, AuthPassword(c.id, c.old), lapses' = lapses,
             Place(r, [c EXCEPT !.at = "write"])
      PROVE  Inv'
  <2>1. users' = users /\ users[c.id] \in User /\ users[c.id].past # <<>> /\ c.mark \in Nat
    BY <1>2, <1>6 DEF Inv, TypeOK, Request
  <2>2. PICK past : past = users[c.id].past
    OBVIOUS
  <2>3. past \in Seq(Password) /\ Len(past) \in DOMAIN past /\ past[Len(past)] = c.old
    BY <1>6, <2>1, <2>2 DEF User, AuthPassword, Current
  <2>4. PICK d : d = [c EXCEPT !.at = "write"]
    OBVIOUS
  <2>5. /\ d \in Request /\ d.op = "password" /\ d.at = "write" /\ d.id = c.id /\ d.old = c.old
        /\ d.pwd = c.pwd /\ d.mark = c.mark /\ d.changed = c.changed
    BY <1>2, <2>4 DEF Request
  <2>6. d.mark <= Len(past)
    BY <1>2, <1>6, <2>2, <2>5 DEF RequestOK
  <2>7. Len(past) \in d.mark..Len(past)
    BY <2>1, <2>3, <2>5, <2>6
  <2>8. RequestOK(d)'
    BY <1>2, <1>6, <2>1, <2>2, <2>3, <2>5, <2>6, <2>7 DEF RequestOK
  <2> QED
    BY <1>2, <1>6, <2>4, <2>5, <2>8, CallInv
<1> QED
  BY <1>1, <1>4, <1>5, <1>6 DEF SelectUserById

LEMMA UpdateUserDpInv == ASSUME Inv, NEW r \in Req, UpdateUserDp(r) PROVE Inv'
<1>1. "OK" \in Code /\ "Internal" \in Code
  BY DEF Code
<1>2. request[r] # None /\ Unanswered /\ UNCHANGED <<users, writes>>
  BY DEF UpdateUserDp, In
<1>3. ASSUME NEW code \in {"OK", "Internal"}, NEW changed \in BOOLEAN, Finish(r, code, changed),
             lapses' = lapses \/ Lapse
      PROVE  Inv'
  BY <1>1, <1>2, <1>3, ReturnInv
<1>4. ASSUME Fails(r) PROVE Inv'
  BY <1>2, <1>4, FailsInv
<1> QED
  BY <1>3, <1>4 DEF UpdateUserDp

(* The three methods that change nothing. *)
LEMMA ReadersInv ==
  ASSUME Inv, NEW r \in Req, InsertContact(r) \/ SelectUserByEmailSearch(r) \/ SelectContacts(r)
  PROVE  Inv'
<1>1. "OK" \in Code /\ "Internal" \in Code
  BY DEF Code
<1>2. request[r] # None /\ Unanswered /\ UNCHANGED <<users, writes>>
  BY DEF InsertContact, SelectUserByEmailSearch, SelectContacts, In
<1>3. ASSUME NEW code \in {"OK", "Internal"}, Finish(r, code, FALSE), lapses' = lapses \/ Lapse
      PROVE  Inv'
  BY <1>1, <1>2, <1>3, ReturnInv
<1> QED
  BY <1>3 DEF InsertContact, SelectUserByEmailSearch, SelectContacts

(* The table changes and the handler returns. *)
LEMMA WriteInv ==
  ASSUME Inv, Grows, users' \in Seq(User), \A i \in DOMAIN users' : users'[i].past # <<>>,
         Len(users') <= Len(users) + 1, Write, lapses' = lapses \/ Lapse, Unanswered,
         DuplicateNeedsOverlap', NEW r \in Req, request[r] # None,
         NEW code \in {"OK", "Internal"}, Finish(r, code, TRUE)
  PROVE  Inv'
<1>1. lapses' \in 0..MaxLapses /\ writes' \in 0..MaxWrites /\ Len(users') <= writes'
  BY AccountsAssumption DEF Inv, TypeOK, Lapse, Write
<1>2. answer' = None /\ RefusedUnchanged'
  BY DEF Unanswered, RefusedUnchanged
<1>3. request' \in [Req -> Request \union {None}] /\ RequestsOK'
  <2>1. code \in Code
    BY DEF Code
  <2> QED
    BY <2>1, Finishes DEF Inv
<1>4. TypeOK'
  BY <1>1, <1>2, <1>3 DEF TypeOK
<1> QED
  BY <1>2, <1>3, <1>4 DEF Inv

(* The new row comes after every row that was there at the look-up.        *)
LEMMA InsertUserInv == ASSUME Inv, NEW r \in Req, InsertUser(r) PROVE Inv'
<1>1. PICK c : c = request[r]
  OBVIOUS
<1>2. c # None /\ c.op = "register" /\ c.at = "write" /\ Unanswered /\ c \in Request /\ RequestOK(c)
  BY <1>1 DEF InsertUser, In, Inv, TypeOK, RequestsOK
<1>3. CASE Fails(r) /\ UNCHANGED <<users, writes>>
  BY <1>1, <1>2, <1>3, FailsInv
<1>4. ASSUME NEW code \in {"OK", "Internal"}, Finish(r, code, TRUE), lapses' = lapses \/ Lapse, Write,
             users' = Append(users, [email |-> c.email, past |-> <<c.pwd>>, mark |-> c.mark])
      PROVE  Inv'
  <2>1. PICK u : u = [email |-> c.email, past |-> <<c.pwd>>, mark |-> c.mark]
    OBVIOUS
  <2>2. c.email \in Email /\ c.pwd \in Password /\ c.mark \in Nat
    BY <1>2 DEF RequestOK, Request
  <2>3. u \in User /\ u.email = c.email /\ u.mark = c.mark /\ u.past # <<>>
    BY <2>1, <2>2 DEF User
  <2>4. users \in Seq(User) /\ Len(users) \in Nat /\ DOMAIN users = 1..Len(users)
    BY DEF Inv, TypeOK
  <2>5. /\ users' \in Seq(User) /\ Len(users') = Len(users) + 1 /\ DOMAIN users' = 1..(Len(users) + 1)
        /\ users'[Len(users) + 1] = u /\ \A i \in DOMAIN users : users'[i] = users[i]
    BY <1>4, <2>1, <2>3, <2>4
  <2>6. Grows
    <3>1. \A v \in User : Len(v.past) <= Len(v.past)
      BY DEF User
    <3> QED
      BY <2>4, <2>5, <3>1 DEF Grows
  <2>7. \A i \in DOMAIN users' : users'[i].past # <<>>
    BY <2>3, <2>4, <2>5 DEF Inv, TypeOK
  <2>8. DuplicateNeedsOverlap'
    <3>1. \A i \in DOMAIN users : users[i].email = c.email => c.mark < i
      BY <1>2 DEF RequestOK
    <3> QED
      BY <2>3, <2>4, <2>5, <3>1 DEF Inv, DuplicateNeedsOverlap
  <2>9. Len(users') <= Len(users) + 1
    BY <2>4, <2>5
  <2> QED
    BY <1>1, <1>2, <1>4, <2>5, <2>6, <2>7, <2>8, <2>9, WriteInv
<1> QED
  BY <1>1, <1>3, <1>4 DEF InsertUser

(* What an update does to the passwords of a row. *)
LEMMA UpdatedPwd ==
  ASSUME Inv, NEW i \in DOMAIN users, NEW p \in Password,
         users' = [users EXCEPT ![i].past = Append(@, p)]
  PROVE  /\ Grows /\ users' \in Seq(User) /\ Len(users') = Len(users)
         /\ \A k \in DOMAIN users' : users'[k].past # <<>>
         /\ DuplicateNeedsOverlap'
<1>1. users \in Seq(User) /\ Len(users) \in Nat /\ DOMAIN users = 1..Len(users) /\ users[i] \in User
  BY DEF Inv, TypeOK
<1>2. PICK past : past = users[i].past
  OBVIOUS
<1>3. past \in Seq(Password)
  BY <1>1, <1>2 DEF User
<1>4. /\ Append(past, p) \in Seq(Password) /\ Append(past, p) # <<>>
      /\ Len(past) <= Len(Append(past, p)) /\ DOMAIN past \subseteq DOMAIN Append(past, p)
      /\ \A k \in DOMAIN past : Append(past, p)[k] = past[k]
  BY <1>3
<1>5. PICK u : u = [users[i] EXCEPT !.past = Append(past, p)]
  OBVIOUS
<1>6. u \in User /\ u.email = users[i].email /\ u.mark = users[i].mark /\ u.past = Append(past, p)
  BY <1>1, <1>4, <1>5 DEF User
<1>7. users' = [users EXCEPT ![i] = u]
  BY <1>2, <1>5
<1>8. /\ users' \in Seq(User) /\ Len(users') = Len(users) /\ DOMAIN users' = DOMAIN users
      /\ users'[i] = u /\ \A k \in DOMAIN users \ {i} : users'[k] = users[k]
  <2>1. /\ DOMAIN users' = DOMAIN users /\ users'[i] = u
        /\ \A k \in DOMAIN users \ {i} : users'[k] = users[k]
    BY <1>1, <1>7
  <2>2. [users EXCEPT ![i] = u] \in Seq(User)
    BY <1>1, <1>6
  <2>3. users' \in Seq(User)
    BY <1>7, <2>2
  <2>4. Len(users') = Len(users)
    BY <1>1, <2>1, <2>3
  <2> QED
    BY <2>1, <2>3, <2>4
<1>9. Grows
  <2>1. \A v \in User : Len(v.past) <= Len(v.past)
    BY DEF User
  <2> QED
    BY <1>1, <1>2, <1>4, <1>6, <1>8, <2>1 DEF Grows
<1>10. \A k \in DOMAIN users' : users'[k].past # <<>>
  BY <1>4, <1>6, <1>8 DEF Inv, TypeOK
<1>11. DuplicateNeedsOverlap'
  BY <1>1, <1>6, <1>8 DEF Inv, DuplicateNeedsOverlap
<1> QED
  BY <1>8, <1>9, <1>10, <1>11

LEMMA UpdateUserPwdInv == ASSUME Inv, NEW r \in Req, UpdateUserPwd(r) PROVE Inv'
<1>1. PICK c : c = request[r]
  OBVIOUS
<1>2. c # None /\ c.op = "password" /\ c.at = "write" /\ Unanswered /\ c \in Request /\ RequestOK(c)
  BY <1>1 DEF UpdateUserPwd, In, Inv, TypeOK, RequestsOK
<1>3. CASE Fails(r) /\ UNCHANGED <<users, writes>>
  BY <1>1, <1>2, <1>3, FailsInv
<1>4. ASSUME NEW code \in {"OK", "Internal"}, Finish(r, code, TRUE), lapses' = lapses \/ Lapse, Write,
             users' = [users EXCEPT ![c.id].past = Append(@, c.pwd)]
      PROVE  Inv'
  <2>1. c.id \in DOMAIN users /\ c.pwd \in Password
    BY <1>2 DEF RequestOK
  <2>2. /\ Grows /\ users' \in Seq(User) /\ Len(users') = Len(users)
        /\ \A k \in DOMAIN users' : users'[k].past # <<>>
        /\ DuplicateNeedsOverlap'
    BY <1>4, <2>1, UpdatedPwd
  <2>3. Len(users') <= Len(users) + 1
    BY <2>2 DEF Inv, TypeOK
  <2> QED
    BY <1>1, <1>2, <1>4, <2>2, <2>3, WriteInv
<1> QED
  BY <1>1, <1>3, <1>4 DEF UpdateUserPwd

(* The answer is what the handler returned, and denies no change. *)
LEMMA ReplyInv == ASSUME Inv, NEW r \in Req, Reply(r) PROVE Inv'
<1>1. PICK c : c = request[r]
  OBVIOUS
<1>2. c # None /\ c \in Request /\ RequestOK(c)
  BY <1>1 DEF Reply, Inv, TypeOK, RequestsOK
<1>3. /\ MapGrpcErrors(c.code) \in Status
      /\ c.code \in {"OK", "Internal"} => MapGrpcErrors(c.code) \in {200, 500}
  BY DEF MapGrpcErrors, Status
<1>4. answer' = [op |-> c.op, status |-> MapGrpcErrors(c.code), changed |-> c.changed]
  BY <1>1 DEF Reply, Respond
<1>5. answer' \in Response /\ (answer'.changed => answer'.status \in {200, 500})
  BY <1>2, <1>3, <1>4 DEF Response, Request, RequestOK
<1>6. Place(r, None) /\ UNCHANGED <<users, writes, lapses>>
  BY DEF Reply
<1>7. request' \in [Req -> Request \union {None}] /\ RequestsOK'
  <2>1. TypeOK /\ RequestsOK /\ Grows /\ users' \in Seq(User)
    BY <1>6, Same DEF Inv, TypeOK
  <2> QED
    BY <1>6, <2>1, Moves
<1> QED
  BY <1>5, <1>6, <1>7, IdleInv

LEMMA GiveUpInv == ASSUME Inv, NEW r \in Req, GiveUp(r) PROVE Inv'
<1>1. PICK c : c = request[r]
  OBVIOUS
<1>2. c # None /\ c \in Request /\ RequestOK(c)
  BY <1>1 DEF GiveUp, Inv, TypeOK, RequestsOK
<1>3. MapGrpcErrors("DeadlineExceeded") \in Status
  BY DEF MapGrpcErrors, Status
<1>4. answer' = [op |-> c.op, status |-> MapGrpcErrors("DeadlineExceeded"), changed |-> FALSE]
  BY <1>1 DEF GiveUp, Respond
<1>5. answer' \in Response /\ (answer'.changed => answer'.status \in {200, 500})
  BY <1>2, <1>3, <1>4 DEF Response, Request
<1>6. PICK d : d = [c EXCEPT !.heard = FALSE]
  OBVIOUS
<1>7. Place(r, d) /\ UNCHANGED <<users, writes>> /\ Lapse
  BY <1>1, <1>6 DEF GiveUp
<1>8. /\ d \in Request /\ d.op = c.op /\ d.at = c.at /\ d.email = c.email /\ d.pwd = c.pwd
      /\ d.id = c.id /\ d.old = c.old /\ d.mark = c.mark /\ d.code = c.code /\ d.changed = c.changed
  BY <1>2, <1>6 DEF Request
<1>9. RequestOK(d)'
  BY <1>2, <1>7, <1>8 DEF RequestOK
<1>10. request' \in [Req -> Request \union {None}] /\ RequestsOK'
  <2>1. TypeOK /\ RequestsOK /\ Grows /\ users' \in Seq(User)
    BY <1>7, Same DEF Inv, TypeOK
  <2> QED
    BY <1>7, <1>8, <1>9, <2>1, Moves
<1> QED
  BY <1>5, <1>7, <1>10, IdleInv

-----------------------------------------------------------------------------
LEMMA InitInv == Init => Inv
<1> SUFFICES ASSUME Init PROVE Inv
  OBVIOUS
<1>1. TypeOK
  BY AccountsAssumption DEF Init, TypeOK
<1> QED
  BY <1>1 DEF Init, Inv, RequestsOK, DuplicateNeedsOverlap, RefusedUnchanged

LEMMA NextInv == Inv /\ [Next]_vars => Inv'
<1> SUFFICES ASSUME Inv, [Next]_vars PROVE Inv'
  OBVIOUS
<1>1. CASE UNCHANGED vars
  BY <1>1 DEF vars, Inv, TypeOK, RequestsOK, RequestOK, DuplicateNeedsOverlap, RefusedUnchanged
<1>2. CASE Next
  BY <1>2, RegisterUserInv, CheckRegistrationInv, InsertUserInv, SelectUserByIdInv, UpdateUserPwdInv,
     UpdateUserDpInv, ReadersInv, ReplyInv, GiveUpInv, GetContactsInv, OtherClientInv, HandlerInv
     DEF Next
<1> QED
  BY <1>1, <1>2

THEOREM AccountsInvariance == Spec => []Inv
  BY InitInv, NextInv, PTL DEF Spec

(* Every variable of Accounts keeps its type. *)
THEOREM AccountsTypes == Spec => []TypeOK
<1>1. Inv => TypeOK
  BY DEF Inv
<1> QED
  BY <1>1, AccountsInvariance, PTL

(* Two rows have one address only if their registrations overlapped. *)
THEOREM DuplicatesOverlap == Spec => []DuplicateNeedsOverlap
<1>1. Inv => DuplicateNeedsOverlap
  BY DEF Inv
<1> QED
  BY <1>1, AccountsInvariance, PTL

(* What was changed is never answered with a refusal. *)
THEOREM RefusalsChangeNothing == Spec => []RefusedUnchanged
<1>1. Inv => RefusedUnchanged
  BY DEF Inv
<1> QED
  BY <1>1, AccountsInvariance, PTL

(* A password is changed only by a call that was given one the row has had *)
(* since the call was made.                                                *)
THEOREM HoldersChange == Spec => PasswordFromHolder
<1> DEFINE A == \A i \in DOMAIN users : users'[i].past # users[i].past =>
                 \E r \in Req :
                   /\ In(r, "password", "write") /\ request[r].id = i
                   /\ users'[i].past = Append(users[i].past, request[r].pwd)
                   /\ \E k \in request[r].mark..Len(users[i].past) :
                        k \in DOMAIN users[i].past /\ users[i].past[k] = request[r].old
<1>1. ASSUME users' = users PROVE A
  BY <1>1
<1>2. ASSUME Inv, NEW r \in Req, InsertUser(r) PROVE A
  <2>1. users' = users \/ \E u : users' = Append(users, u)
    BY <1>2 DEF InsertUser
  <2>2. users \in Seq(User)
    BY <1>2 DEF Inv, TypeOK
  <2>3. \A i \in DOMAIN users : users'[i] = users[i]
    BY <2>1, <2>2
  <2> QED
    BY <2>3
<1>3. ASSUME Inv, NEW r \in Req, UpdateUserPwd(r) PROVE A
  <2>1. PICK c : c = request[r]
    OBVIOUS
  <2>2. In(r, "password", "write") /\ c # None /\ c.op = "password" /\ c.at = "write" /\ RequestOK(c)
    BY <1>3, <2>1 DEF UpdateUserPwd, In, Inv, RequestsOK
  <2>3. users' = users \/ users' = [users EXCEPT ![c.id].past = Append(@, c.pwd)]
    BY <1>3, <2>1 DEF UpdateUserPwd
  <2> SUFFICES ASSUME NEW i \in DOMAIN users, users'[i].past # users[i].past
               PROVE  /\ c.id = i
                      /\ users'[i].past = Append(users[i].past, c.pwd)
                      /\ \E k \in c.mark..Len(users[i].past) :
                           k \in DOMAIN users[i].past /\ users[i].past[k] = c.old
    BY <2>1, <2>2
  <2>4. users[i] \in User
    BY <1>3 DEF Inv, TypeOK
  <2>5. c.id = i /\ users' = [users EXCEPT ![c.id].past = Append(@, c.pwd)]
    BY <2>3
  <2>6. users'[i].past = Append(users[i].past, c.pwd)
    BY <2>4, <2>5 DEF User
  <2>7. \E k \in c.mark..Len(users[i].past) :
           k \in DOMAIN users[i].past /\ users[i].past[k] = c.old
    BY <2>2, <2>5 DEF RequestOK
  <2> QED
    BY <2>5, <2>6, <2>7
<1> HIDE DEF A
<1>4. Inv /\ [Next]_vars => [A]_vars
  BY <1>1, <1>2, <1>3 DEF Next, vars, RegisterUser, CheckRegistration, SelectUserById, UpdateUserDp,
     InsertContact, SelectUserByEmailSearch, SelectContacts, Reply, GiveUp, GetContacts, OtherClient,
     ChangeDP, ChangePassword, SearchUser, AddContact
<1>5. Spec => [][A]_vars
  BY <1>4, AccountsInvariance, PTL DEF Spec
<1> QED
  BY <1>5 DEF PasswordFromHolder, A
=============================================================================
