------------------------------ MODULE Sessions ------------------------------
(***************************************************************************)
(* Login, refresh and logout: browsers with their cookies, the gateway,    *)
(* the user service and the one refresh token per user it keeps in Redis.  *)
(*                                                                         *)
(* A request is a goroutine of the gateway that waits for one of the user  *)
(* service; the service reads, checks and writes Redis in separate steps   *)
(* and goes on when the gateway has given up after ten seconds.  A token   *)
(* is its claims: RS256 signatures are deterministic and times are whole   *)
(* seconds, so two tokens of a user made in the same second are the same   *)
(* string.  One tick of the clock stands for at least a second; the        *)
(* lifetimes keep their order (15 minutes, 7 days), not their ratio.       *)
(***************************************************************************)
EXTENDS Http

CONSTANTS
  User, Browser,
  Req,                       \* bound: requests in progress at a time
  None,
  AccessLife, RefreshLife,   \* in ticks
  MaxTime,                   \* bound: ticks
  MaxFaults                  \* bound: failed or lost calls

ASSUME SessionsAssumption ==
  /\ AccessLife \in Nat \ {0} /\ RefreshLife \in Nat \ {0}
  /\ AccessLife <= RefreshLife
  /\ MaxTime \in Nat /\ MaxFaults \in Nat

VARIABLES
  now,
  jar,        \* the cookies a browser sends to the gateway's routes
  refTk,      \* Redis: <user id>:refTk
  call,       \* the requests in progress
  told,       \* the answer the last step gave a browser, None if it gave none
  spent,      \* history: tokens that Redis held and that were replaced or deleted
  loggedOut,  \* history: users who logged out when nobody was about to write
              \* their token, and whose password was not given since
  faults

vars == <<now, jar, refTk, call, told, spent, loggedOut, faults>>
history == <<spent, loggedOut>>

Token  == [user : User, exp : Nat]
Cookie == [token : Token, until : Nat]

CreateJwt(u)        == [user |-> u, exp |-> now + AccessLife]
CreateRefreshJwt(u) == [user |-> u, exp |-> now + RefreshLife]

Unexpired(t) == now < t.exp

VerifyUserToken(t) == IF Unexpired(t) THEN 200 ELSE 401
VerifyJwt(t)       == IF Unexpired(t) THEN "OK" ELSE "Unauthenticated"

(* The browser sends a cookie until its MaxAge is over ... *)
Sends(b, name) == jar[b][name] # None /\ now < jar[b][name].until

(* ... to the paths below its own.  The gateway serves nothing below /api. *)
Routed == "/mumbleapi"

SetCookies(j, path, access, refresh) ==
  IF path = Routed THEN [access |-> access, refresh |-> refresh] ELSE j

CookieOf(t, life) == [token |-> t, until |-> now + life]

(* Mutant: no status is set for a missing cookie. *)
AuthMiddleware_NoStatus(b) ==
  IF Sends(b, "access") THEN VerifyUserToken(jar[b]["access"].token) ELSE 0

(* What AuthMiddleware answers a request of the browser, 200 if it lets it pass. *)
AuthMiddleware(b) ==
  IF Sends(b, "access") THEN VerifyUserToken(jar[b]["access"].token) ELSE 401

(* Redis deletes a key when its time is over. *)
Holds(u) == refTk[u] # None /\ now < refTk[u].until

(* Mutant: a key that is gone is taken for a match. *)
RefTokenExists_Gone(u, t) == ~Holds(u) \/ refTk[u].token = t

RefTokenExists(u, t) == Holds(u) /\ refTk[u].token = t

Op    == {"login", "refresh", "logout"}
Stage == {"select", "check", "set", "del", "reply"}

Call == [op : Op, at : Stage, by : Browser, user : User,
         shown : Token \union {None},     \* the refresh token of the request
         made : Token \union {None},      \* the one the service has made
         access : Token \union {None},
         code : Code,
         heard : BOOLEAN]                 \* the gateway still waits

Answer == [op : Op \union {"route"}, by : Browser, status : Status, shown : Token \union {None}]

ASSUME NoneAssumption == None \notin Token \union Cookie \union Call \union Answer

TypeOK ==
  /\ now \in 0..MaxTime
  /\ jar \in [Browser -> [access : Cookie \union {None}, refresh : Cookie \union {None}]]
  /\ refTk \in [User -> Cookie \union {None}]
  /\ call \in [Req -> Call \union {None}]
  /\ told \in Answer \union {None}
  /\ spent \subseteq Token
  /\ loggedOut \in [User -> BOOLEAN]
  /\ faults \in 0..MaxFaults

Init ==
  /\ now = 0
  /\ jar = [b \in Browser |-> [access |-> None, refresh |-> None]]
  /\ refTk = [u \in User |-> None]
  /\ call = [r \in Req |-> None]
  /\ told = None
  /\ spent = {}
  /\ loggedOut = [u \in User |-> FALSE]
  /\ faults = 0

Fault == faults < MaxFaults /\ faults' = faults + 1

Silent == told' = None

Tell(b, op, status, shown) ==
  told' = [op |-> op, by |-> b, status |-> status, shown |-> shown]

NewCall(op, at, b, u, shown) ==
  [op |-> op, at |-> at, by |-> b, user |-> u, shown |-> shown, made |-> None,
   access |-> None, code |-> "OK", heard |-> TRUE]

Put(r, c)  == call' = [call EXCEPT ![r] = c]
Close(r)   == Put(r, None)
Goes(r, b) == call[r] # None /\ call[r].at = b

(* The service's answer to a call: on its way to the gateway, or discarded. *)
Returned(c, code) ==
  IF ~c.heard THEN None
  ELSE IF code = "OK" THEN [c EXCEPT !.at = "reply"]
  ELSE [c EXCEPT !.at = "reply", !.code = code, !.made = None, !.access = None]

Return(r, code) == Put(r, Returned(call[r], code))

(* Both tokens are made before Redis is written. *)
MakeTokens(r) ==
  LET u == call[r].user IN
  Put(r, [call[r] EXCEPT !.at = "set", !.made = CreateRefreshJwt(u), !.access = CreateJwt(u)])

(* A token that Redis held and does not hold any more. *)
Spend(u, kept) ==
  spent' = spent \union {t \in {refTk[u].token : x \in {y \in {u} : Holds(y)}} : t # kept}

-----------------------------------------------------------------------------
(* The gateway's handlers, up to the call of the user service. *)

LoginUser(r, b, u) ==
  /\ call[r] = None
  /\ \E body \in Body :
       IF body = "good"
       THEN Put(r, NewCall("login", "select", b, u, None)) /\ Silent
       ELSE Tell(b, "login", JsonReqErrCheck(body), None) /\ UNCHANGED call
  /\ UNCHANGED <<now, jar, refTk, history, faults>>

RefreshAccToken(r, b) ==
  /\ call[r] = None
  /\ LET t == jar[b]["refresh"].token IN
     IF ~Sends(b, "refresh")
     THEN Tell(b, "refresh", 403, None) /\ UNCHANGED call
     ELSE IF VerifyUserToken(t) # 200
          THEN Tell(b, "refresh", VerifyUserToken(t), t) /\ UNCHANGED call
          ELSE Put(r, NewCall("refresh", "check", b, t.user, t)) /\ Silent
  /\ UNCHANGED <<now, jar, refTk, history, faults>>

(* The claims of an expired token are nil: it is answered "Malformed token". *)
LogoutUser(r, b) ==
  /\ call[r] = None
  /\ LET t == jar[b]["refresh"].token IN
     IF ~Sends(b, "refresh")
     THEN Tell(b, "logout", 200, None) /\ UNCHANGED call
     ELSE IF VerifyUserToken(t) # 200
          THEN Tell(b, "logout", 403, t) /\ UNCHANGED call
          ELSE Put(r, NewCall("logout", "del", b, t.user, t)) /\ Silent
  /\ jar' = [jar EXCEPT ![b] = SetCookies(@, "/api", None, None)]
  /\ UNCHANGED <<now, refTk, history, faults>>

(* Any route behind the middleware. *)
Route(b) ==
  /\ Tell(b, "route", AuthMiddleware(b), None)
  /\ UNCHANGED <<now, jar, refTk, call, history, faults>>

-----------------------------------------------------------------------------
(* The user service. *)

(* Login: the row and its password hash, then the tokens. *)
SelectUserByEmail(r) ==
  /\ Goes(r, "select")
  /\ \/ \E code \in {"NotFound", "Unauthenticated"} : Return(r, code)
        /\ UNCHANGED <<loggedOut, faults>>
     \/ Return(r, "Internal") /\ Fault /\ UNCHANGED loggedOut
     \/ /\ MakeTokens(r)
        /\ loggedOut' = [loggedOut EXCEPT ![call[r].user] = FALSE]
        /\ UNCHANGED faults
  /\ Silent
  /\ UNCHANGED <<now, jar, refTk, spent>>

(* Mutant: a failed read is taken for a token that does not match. *)
Check_FailureRefuses(r) ==
  /\ Goes(r, "check")
  /\ LET t == call[r].shown IN
     \/ VerifyJwt(t) # "OK" /\ Return(r, VerifyJwt(t)) /\ UNCHANGED faults
     \/ VerifyJwt(t) = "OK" /\ Return(r, "Unauthenticated") /\ Fault
     \/ /\ VerifyJwt(t) = "OK" /\ UNCHANGED faults
        /\ IF RefTokenExists(call[r].user, t) THEN MakeTokens(r)
                                              ELSE Return(r, "Unauthenticated")
  /\ Silent
  /\ UNCHANGED <<now, jar, refTk, history>>

(* Refresh: the token must be unexpired and the one in Redis. *)
Check(r) ==
  /\ Goes(r, "check")
  /\ LET t == call[r].shown IN
     \/ VerifyJwt(t) # "OK" /\ Return(r, VerifyJwt(t)) /\ UNCHANGED faults
     \/ VerifyJwt(t) = "OK" /\ Return(r, "Internal") /\ Fault
     \/ /\ VerifyJwt(t) = "OK" /\ UNCHANGED faults
        /\ IF RefTokenExists(call[r].user, t) THEN MakeTokens(r)
                                              ELSE Return(r, "Unauthenticated")
  /\ Silent
  /\ UNCHANGED <<now, jar, refTk, history>>

Written(u, t) ==
  /\ refTk' = [refTk EXCEPT ![u] = CookieOf(t, RefreshLife)]
  /\ Spend(u, t)

(* Mutant: a failed write is logged only. *)
SetRefToken_Ignores(r) ==
  LET u == call[r].user  t == call[r].made IN
  /\ Goes(r, "set")
  /\ \/ Written(u, t) /\ Return(r, "OK") /\ UNCHANGED faults
     \/ Return(r, "OK") /\ Fault /\ UNCHANGED <<refTk, spent>>
  /\ Silent
  /\ UNCHANGED <<now, jar, loggedOut>>

(* A write that fails may have been made. *)
SetRefToken(r) ==
  LET u == call[r].user  t == call[r].made IN
  /\ Goes(r, "set")
  /\ \/ Written(u, t) /\ Return(r, "OK") /\ UNCHANGED faults
     \/ Written(u, t) /\ Return(r, "Internal") /\ Fault
     \/ Return(r, "Internal") /\ Fault /\ UNCHANGED <<refTk, spent>>
  /\ Silent
  /\ UNCHANGED <<now, jar, loggedOut>>

(* A failed deletion is logged, and answered like one that was made. *)
DelRefToken(r) ==
  LET u == call[r].user
      writer == \E q \in Req : call[q] # None /\ call[q].user = u /\ call[q].at = "set" IN
  /\ Goes(r, "del")
  /\ Return(r, "OK")
  /\ \/ /\ refTk' = [refTk EXCEPT ![u] = None]
        /\ Spend(u, None)
        /\ loggedOut' = [loggedOut EXCEPT ![u] = @ \/ ~writer]
        /\ UNCHANGED faults
     \/ Fault /\ UNCHANGED <<refTk, history>>
  /\ Silent
  /\ UNCHANGED <<now, jar>>

(* The service's process ends: its calls fail, what Redis holds stays. *)
ServiceDies ==
  /\ Fault
  /\ \E r \in Req : call[r] # None /\ call[r].at # "reply"
  /\ call' = [r \in Req |->
       IF call[r] # None /\ call[r].at # "reply"
       THEN Returned(call[r], "Unavailable") ELSE call[r]]
  /\ Silent
  /\ UNCHANGED <<now, jar, refTk, history>>

-----------------------------------------------------------------------------
(* The gateway's handlers, from the answer on. *)

(* A login's cookies are for the gateway's routes, a refresh's are not. *)
Cookies(b, c) ==
  LET path == IF c.op = "login" THEN Routed ELSE "/api" IN
  IF c.op \in {"login", "refresh"} /\ c.code = "OK"
  THEN jar' = [jar EXCEPT ![b] = SetCookies(@, path, CookieOf(c.access, AccessLife),
                                                      CookieOf(c.made, RefreshLife))]
  ELSE UNCHANGED jar

Reply(r) ==
  /\ Goes(r, "reply")
  /\ LET c == call[r] IN
     Tell(c.by, c.op, MapGrpcErrors(c.code), c.shown) /\ Cookies(c.by, c)
  /\ Close(r)
  /\ UNCHANGED <<now, refTk, history, faults>>

(* The connection to the service breaks under the answer. *)
ReplyLost(r) ==
  /\ Goes(r, "reply") /\ Fault
  /\ Tell(call[r].by, call[r].op, MapGrpcErrors("Unavailable"), call[r].shown)
  /\ Close(r)
  /\ UNCHANGED <<now, jar, refTk, history>>

(* After ten seconds the gateway answers; the service does not notice. *)
GiveUp(r) ==
  /\ call[r] # None /\ call[r].at # "reply" /\ call[r].heard /\ Fault
  /\ Tell(call[r].by, call[r].op, MapGrpcErrors("DeadlineExceeded"), call[r].shown)
  /\ Put(r, [call[r] EXCEPT !.heard = FALSE])
  /\ UNCHANGED <<now, jar, refTk, history>>

Tick ==
  /\ now < MaxTime
  /\ now' = now + 1
  /\ Silent
  /\ UNCHANGED <<jar, refTk, call, history, faults>>

Next ==
  \/ \E r \in Req, b \in Browser :
       RefreshAccToken(r, b) \/ LogoutUser(r, b) \/ \E u \in User : LoginUser(r, b, u)
  \/ \E r \in Req : \/ SelectUserByEmail(r) \/ Check(r) \/ SetRefToken(r) \/ DelRefToken(r)
                    \/ Reply(r) \/ ReplyLost(r) \/ GiveUp(r)
  \/ \E b \in Browser : Route(b)
  \/ ServiceDies
  \/ Tick

Spec == Init /\ [][Next]_vars

-----------------------------------------------------------------------------
(* Properties *)

(* A session a browser holds is lost only to another login, refresh or     *)
(* logout: while the refresh token in its jar has not expired, Redis holds *)
(* it, or held it until it was replaced or deleted.  In particular no      *)
(* failed write is answered with a token, and the key in Redis never ends  *)
(* before the token in it.                                                 *)
SessionIntact ==
  \A b \in Browser :
    LET t == jar[b]["refresh"].token IN
    jar[b]["refresh"] # None /\ Unexpired(t) => RefTokenExists(t.user, t) \/ t \in spent

(* A logout is final: after a deletion that no call of the user was about  *)
(* to overwrite, Redis holds no token of the user before the password has  *)
(* been given again, whatever tokens are still in cookies or in requests   *)
(* on their way.                                                           *)
LogoutFinal == \A u \in User : loggedOut[u] => ~Holds(u)

(* A refresh is answered "Unauthorized" only for a token that has expired  *)
(* or that Redis held and lost, never because a store failed or because    *)
(* the gateway gave up.                                                    *)
RefusedForCause ==
  told # None /\ told.op = "refresh" /\ told.status = 401 =>
    ~Unexpired(told.shown) \/ told.shown \in spent

=============================================================================
