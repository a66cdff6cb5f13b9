--------------------------- MODULE SessionsProofs ---------------------------
(* Proofs about module Sessions. *)
EXTENDS Sessions, TLAPS

-----------------------------------------------------------------------------
(* The inductive invariant.  A token that has reached a browser or a       *)
(* request has been in Redis: it is there still, has expired, or is spent. *)
(* Redis keeps a key at least as long as the token in it, so that a token  *)
(* leaves Redis unexpired only by being replaced or deleted.               *)

Genuine(t) == Unexpired(t) => RefTokenExists(t.user, t) \/ t \in spent

KeyOutlivesToken ==
  \A u \in User : refTk[u] # None => refTk[u].token.user = u /\ refTk[u].token.exp <= refTk[u].until

Staged(c) ==
  /\ c.at = "select" => c.op = "login"
  /\ c.at = "check" => c.op = "refresh"
  /\ c.at = "set" => c.op # "logout"
  /\ c.at = "del" => c.op = "logout"
  /\ c.at # "reply" => c.code = "OK"
  /\ c.op = "refresh" => c.shown # None /\ c.shown.user = c.user

Made(c) ==
  /\ c.at = "set" => c.made # None /\ c.access # None /\ c.made.user = c.user
                       /\ c.made.exp <= now + RefreshLife
  /\ c.at = "reply" /\ c.code = "OK" /\ c.op # "logout" =>
       c.made # None /\ c.access # None /\ Genuine(c.made)

Refusal(c) ==
  c.op = "refresh" /\ c.at = "reply" /\ c.code = "Unauthenticated" =>
    ~Unexpired(c.shown) \/ c.shown \in spent

CallOK(c) == Staged(c) /\ Made(c) /\ Refusal(c) /\ (c.shown # None => Genuine(c.shown))

NoWriter(u) == \A r \in Req : call[r] # None /\ call[r].user = u => call[r].at # "set"

IInv ==
  /\ TypeOK
  /\ KeyOutlivesToken
  /\ SessionIntact
  /\ \A r \in Req : call[r] # None => CallOK(call[r])
  /\ \A u \in User : loggedOut[u] => ~Holds(u) /\ NoWriter(u)
  /\ RefusedForCause

(* Tokens stay genuine while Redis is left alone ... *)
LEMMA GenuineKept ==
  ASSUME KeyOutlivesToken, TypeOK, now' \in Nat, now <= now', UNCHANGED <<refTk, spent>>,
         NEW t \in Token, Genuine(t)
  PROVE  Genuine(t)'
<1>1. t.user \in User /\ t.exp \in Nat /\ now \in Nat /\ (refTk[t.user] # None => refTk[t.user] \in Cookie)
  BY DEF TypeOK, Token
<1>2. ~Unexpired(t) => ~Unexpired(t)'
  BY <1>1 DEF Unexpired
<1>3. ASSUME RefTokenExists(t.user, t), Unexpired(t)'
      PROVE  RefTokenExists(t.user, t)'
  BY <1>1, <1>3 DEF RefTokenExists, Holds, Unexpired, KeyOutlivesToken, Cookie, Token
<1>. QED
  BY <1>2, <1>3 DEF Genuine

(* ... when a key is written ... *)
LEMMA GenuineWritten ==
  ASSUME SessionsAssumption, NoneAssumption, KeyOutlivesToken, TypeOK, UNCHANGED now,
         NEW u \in User, NEW x \in Token, Written(u, x), NEW t \in Token, Genuine(t)
  PROVE  Genuine(t)'
<1>1. t.user \in User /\ now \in Nat /\ RefreshLife \in Nat \ {0}
  BY DEF TypeOK, Token, SessionsAssumption
<1>2. spent \subseteq spent' /\ (Holds(u) /\ refTk[u].token # x => refTk[u].token \in spent')
  BY DEF Written, Spend
<1>3. refTk' = [refTk EXCEPT ![u] = CookieOf(x, RefreshLife)]
  BY DEF Written
<1>4. refTk'[u].token = x /\ refTk'[u].until = now + RefreshLife /\ refTk'[u] # None
  BY <1>1, <1>3 DEF CookieOf, TypeOK, NoneAssumption, Cookie
<1>5. \A v \in User \ {u} : refTk'[v] = refTk[v]
  BY <1>3 DEF TypeOK
<1>. QED
  BY <1>1, <1>2, <1>4, <1>5 DEF Genuine, Unexpired, RefTokenExists, Holds

(* ... and when one is deleted. *)
LEMMA GenuineDeleted ==
  ASSUME TypeOK, UNCHANGED now, NEW u \in User, refTk' = [refTk EXCEPT ![u] = None],
         Spend(u, None), NoneAssumption, NEW t \in Token, Genuine(t)
  PROVE  Genuine(t)'
<1>1. t.user \in User /\ t # None
  BY DEF Token, NoneAssumption
<1>2. spent \subseteq spent' /\ (Holds(u) /\ refTk[u].token # None => refTk[u].token \in spent')
  BY DEF Spend
<1>3. \A v \in User \ {u} : refTk'[v] = refTk[v]
  BY DEF TypeOK
<1>. QED
  BY <1>1, <1>2, <1>3 DEF Genuine, Unexpired, RefTokenExists, Holds

(* What holds of a call that a step does not touch holds after it. *)
LEMMA CallAged ==
  ASSUME SessionsAssumption, TypeOK, now' \in Nat, now <= now', spent \subseteq spent',
         \A t \in Token : Genuine(t) => Genuine(t)',
         NEW c \in Call, CallOK(c)
  PROVE  CallOK(c)'
<1>1. /\ c.shown \in Token \union {None} /\ c.made \in Token \union {None}
      /\ now \in Nat /\ RefreshLife \in Nat
      /\ \A t \in Token : t.exp \in Nat
  BY DEF Call, TypeOK, SessionsAssumption, Token
<1>2. Staged(c)'
  BY DEF CallOK, Staged
<1>3. Made(c)'
  BY <1>1 DEF CallOK, Made
<1>4. ASSUME c.op = "refresh", c.at = "reply", c.code = "Unauthenticated"
      PROVE  (~Unexpired(c.shown) \/ c.shown \in spent)'
  <2>1. c.shown \in Token /\ c.shown.exp \in Nat
    BY <1>1, <1>4 DEF CallOK, Staged
  <2>. QED
    BY <1>1, <1>4, <2>1 DEF CallOK, Refusal, Unexpired
<1>5. c.shown # None => Genuine(c.shown)'
  BY <1>1 DEF CallOK
<1>. QED
  BY <1>2, <1>3, <1>4, <1>5 DEF CallOK, Refusal

(* A step that puts sound calls and treats tokens and jars soundly keeps   *)
(* the invariant.                                                          *)
LEMMA StepKeeps ==
  ASSUME IInv, TypeOK', KeyOutlivesToken', now' \in Nat, now <= now', spent \subseteq spent',
         \A t \in Token : Genuine(t) => Genuine(t)',
         \A q \in Req : call'[q] # None => call'[q] = call[q] \/ CallOK(call[q])',
         \A b \in Browser : jar'[b]["refresh"] # None =>
            jar'[b]["refresh"] = jar[b]["refresh"] \/ Genuine(jar[b]["refresh"].token)',
         \A u \in User : loggedOut'[u] => ~Holds(u)' /\ NoWriter(u)',
         RefusedForCause'
  PROVE  IInv'
<1>. USE SessionsAssumption, NoneAssumption
<1>1. \A d \in Call : CallOK(d) => CallOK(d)'
  BY CallAged DEF IInv
<1>2. \A q \in Req : call'[q] # None => CallOK(call[q])'
  BY <1>1 DEF IInv, TypeOK
<1>3. \A t \in Token : Genuine(t) => Genuine(t)'
  OBVIOUS
<1>4. SessionIntact'
  <2>. SUFFICES ASSUME NEW b \in Browser, jar'[b]["refresh"] # None
                PROVE  Genuine(jar[b]["refresh"].token)'
    BY DEF SessionIntact, Genuine
  <2>. CASE jar'[b]["refresh"] = jar[b]["refresh"]
    <3>1. jar[b]["refresh"].token \in Token /\ Genuine(jar[b]["refresh"].token)
      BY DEF IInv, TypeOK, SessionIntact, Genuine, Cookie
    <3>. QED
      BY <3>1, <1>3
  <2>. QED
    OBVIOUS
<1>. QED
  BY <1>2, <1>4 DEF IInv

-----------------------------------------------------------------------------
(* The steps keep the types. *)

LEMMA ReturnedType ==
  ASSUME NEW c \in Call, NEW code \in Code
  PROVE  /\ Returned(c, code) \in Call \union {None}
         /\ Returned(c, code) # None => c.heard
         /\ c.heard /\ code = "OK" => Returned(c, code) = [c EXCEPT !.at = "reply"]
         /\ c.heard /\ code # "OK" => Returned(c, code) =
              [c EXCEPT !.at = "reply", !.code = code, !.made = None, !.access = None]
<1>1. c.heard \in BOOLEAN
  BY DEF Call
<1>2. [c EXCEPT !.at = "reply"] \in Call
  BY DEF Call, Stage
<1>3. [c EXCEPT !.at = "reply", !.code = code, !.made = None, !.access = None] \in Call
  BY DEF Call, Stage
<1>4. CASE ~c.heard
  BY <1>4 DEF Returned
<1>5. CASE c.heard /\ code = "OK"
  BY <1>2, <1>5 DEF Returned
<1>6. CASE c.heard /\ code # "OK"
  BY <1>3, <1>6 DEF Returned
<1>. QED
  BY <1>1, <1>4, <1>5, <1>6

LEMMA TokenTypes ==
  ASSUME SessionsAssumption, TypeOK, NEW u \in User
  PROVE  /\ CreateJwt(u) \in Token /\ CreateRefreshJwt(u) \in Token
         /\ \A t \in Token : CookieOf(t, AccessLife) \in Cookie /\ CookieOf(t, RefreshLife) \in Cookie
  BY DEF SessionsAssumption, TypeOK, CreateJwt, CreateRefreshJwt, CookieOf, Token, Cookie

LEMMA MadeType ==
  ASSUME SessionsAssumption, NoneAssumption, TypeOK, NEW r \in Req, call[r] # None, MakeTokens(r)
  PROVE  /\ call' \in [Req -> Call \union {None}] /\ call'[r] \in Call
         /\ call'[r] = [call[r] EXCEPT !.at = "set", !.made = CreateRefreshJwt(call[r].user),
                                       !.access = CreateJwt(call[r].user)]
         /\ \A q \in Req \ {r} : call'[q] = call[q]
<1>. DEFINE c == [call[r] EXCEPT !.at = "set", !.made = CreateRefreshJwt(call[r].user),
                                !.access = CreateJwt(call[r].user)]
<1>1. call[r] \in Call /\ call[r].user \in User
  BY DEF TypeOK, Call
<1>2. c \in Call
  <2>. HIDE DEF Token
  <2>1. CreateRefreshJwt(call[r].user) \in Token /\ CreateJwt(call[r].user) \in Token
    BY <1>1, TokenTypes
  <2>. QED
    BY <1>1, <2>1 DEF Call, Stage
<1>3. call' = [call EXCEPT ![r] = c]
  BY DEF MakeTokens, Put
<1>. HIDE DEF c
<1>4. call' \in [Req -> Call \union {None}] /\ call'[r] = c /\ \A q \in Req \ {r} : call'[q] = call[q]
  BY <1>2, <1>3 DEF TypeOK
<1>. QED
  BY <1>2, <1>4 DEF c

LEMMA SpendType ==
  ASSUME TypeOK, NEW u \in User, NEW kept, Spend(u, kept)
  PROVE  spent' \subseteq Token /\ spent \subseteq spent'
  BY DEF TypeOK, Spend, Holds, Cookie

LEMMA NewCallType ==
  ASSUME NEW op \in Op, NEW at \in Stage, NEW b \in Browser, NEW u \in User,
         NEW t \in Token \union {None}
  PROVE  NewCall(op, at, b, u, t) \in Call
  BY DEF NewCall, Call, Code

LEMMA StatusType ==
  /\ \A code \in Code : MapGrpcErrors(code) \in Status /\ (MapGrpcErrors(code) = 401 <=> code = "Unauthenticated")
  /\ \A body \in Body : JsonReqErrCheck(body) \in Status
  /\ \A t : VerifyUserToken(t) \in Status
  BY DEF MapGrpcErrors, JsonReqErrCheck, Code, Status, VerifyUserToken

(* What a browser sends is a token. *)
LEMMA SentType ==
  ASSUME TypeOK, NEW b \in Browser, Sends(b, "refresh")
  PROVE  jar[b]["refresh"].token \in Token /\ jar[b]["refresh"].token.user \in User
  BY DEF TypeOK, Sends, Cookie, Token

LEMMA TypeInv ==
  ASSUME SessionsAssumption, NoneAssumption, IInv, [Next]_vars
  PROVE  TypeOK'
<1>0. TypeOK
  BY DEF IInv
<1>. USE <1>0 DEF Token, Put, Silent
<1>. DEFINE TellOK == told' \in Answer \union {None}
<1>1. ASSUME NEW op \in Op \union {"route"}, NEW b \in Browser, NEW st \in Status,
             NEW t \in Token \union {None}, Tell(b, op, st, t)
      PROVE  TellOK
  BY <1>1 DEF Tell, Answer
<1>2. ASSUME NEW r \in Req, NEW b \in Browser, RefreshAccToken(r, b) PROVE TypeOK'
  <2>. DEFINE t == jar[b]["refresh"].token
  <2>1. CASE ~Sends(b, "refresh")
    BY <1>1, <1>2, <2>1 DEF RefreshAccToken, TypeOK, Op, Status, history
  <2>2. CASE Sends(b, "refresh") /\ VerifyUserToken(t) # 200
    <3>1. t \in Token
      BY <2>2, SentType DEF IInv
    <3>. QED
      BY <1>1, <1>2, <2>2, <3>1, StatusType DEF RefreshAccToken, TypeOK, Op, history
  <2>3. CASE Sends(b, "refresh") /\ VerifyUserToken(t) = 200
    <3>1. NewCall("refresh", "check", b, t.user, t) \in Call
      BY <2>3, SentType, NewCallType DEF IInv, Op, Stage
    <3>. QED
      BY <1>2, <2>3, <3>1 DEF RefreshAccToken, TypeOK, IInv, history
  <2>. QED
    BY <2>1, <2>2, <2>3
<1>3. ASSUME NEW r \in Req, NEW b \in Browser, LogoutUser(r, b) PROVE TypeOK'
  <2>. DEFINE t == jar[b]["refresh"].token
  <2>0. UNCHANGED jar
    BY <1>3 DEF LogoutUser, SetCookies, Routed, IInv, TypeOK
  <2>1. CASE ~Sends(b, "refresh")
    BY <1>1, <1>3, <2>0, <2>1 DEF LogoutUser, TypeOK, Op, Status, history
  <2>2. CASE Sends(b, "refresh") /\ VerifyUserToken(t) # 200
    <3>1. t \in Token
      BY <2>2, SentType DEF IInv
    <3>. QED
      BY <1>1, <1>3, <2>0, <2>2, <3>1 DEF LogoutUser, TypeOK, Op, Status, history
  <2>3. CASE Sends(b, "refresh") /\ VerifyUserToken(t) = 200
    <3>1. NewCall("logout", "del", b, t.user, t) \in Call
      BY <2>3, SentType, NewCallType DEF IInv, Op, Stage
    <3>. QED
      BY <1>3, <2>0, <2>3, <3>1 DEF LogoutUser, TypeOK, IInv, history
  <2>. QED
    BY <2>1, <2>2, <2>3
<1>4. ASSUME NEW r \in Req, NEW b \in Browser, NEW u \in User, LoginUser(r, b, u) PROVE TypeOK'
  <2>1. NewCall("login", "select", b, u, None) \in Call
    BY NewCallType DEF Op, Stage
  <2>. PICK body \in Body :
         IF body = "good"
         THEN Put(r, NewCall("login", "select", b, u, None)) /\ Silent
         ELSE Tell(b, "login", JsonReqErrCheck(body), None) /\ UNCHANGED call
    BY <1>4 DEF LoginUser
  <2>2. CASE body = "good"
    BY <1>4, <2>1, <2>2 DEF LoginUser, TypeOK, IInv, history
  <2>3. CASE body # "good"
    BY <1>1, <1>4, <2>3, StatusType DEF LoginUser, TypeOK, IInv, history, Op
  <2>. QED
    BY <2>2, <2>3
<1>5. ASSUME NEW r \in Req, SelectUserByEmail(r) PROVE TypeOK'
  <2>1. \A code \in Code : Returned(call[r], code) \in Call \union {None}
    BY <1>5, ReturnedType DEF SelectUserByEmail, Goes, IInv, TypeOK
  <2>2. MakeTokens(r) => call' \in [Req -> Call \union {None}]
    BY <1>5, MadeType DEF SelectUserByEmail, Goes
  <2>3. {"NotFound", "Unauthenticated", "Internal"} \subseteq Code
    BY DEF Code
  <2>4. call' \in [Req -> Call \union {None}]
    BY <1>5, <2>1, <2>2, <2>3 DEF SelectUserByEmail, Return, TypeOK
  <2>5. faults' \in 0..MaxFaults
    BY <1>5 DEF SelectUserByEmail, Fault, TypeOK
  <2>6. \/ UNCHANGED loggedOut
        \/ loggedOut' = [loggedOut EXCEPT ![call[r].user] = FALSE]
    BY <1>5 DEF SelectUserByEmail
  <2>7. loggedOut' \in [User -> BOOLEAN]
    BY <2>6 DEF TypeOK
  <2>. QED
    BY <1>5, <2>4, <2>5, <2>7 DEF SelectUserByEmail, TypeOK
<1>6. ASSUME NEW r \in Req, Check(r) PROVE TypeOK'
  <2>1. \A code \in Code : Returned(call[r], code) \in Call \union {None}
    BY <1>6, ReturnedType DEF Check, Goes, IInv, TypeOK
  <2>3. MakeTokens(r) => call' \in [Req -> Call \union {None}]
    BY <1>6, MadeType DEF Check, Goes
  <2>4. VerifyJwt(call[r].shown) \in Code /\ {"Internal", "Unauthenticated"} \subseteq Code
    BY DEF VerifyJwt, Code
  <2>5. /\ call' \in [Req -> Call \union {None}] /\ faults' \in 0..MaxFaults
        /\ UNCHANGED <<now, jar, refTk, history>> /\ told' = None
    BY <1>6, <2>1, <2>3, <2>4 DEF Check, Return, Fault, TypeOK, IInv
  <2>. QED
    BY <2>5 DEF TypeOK, IInv, history
<1>7. ASSUME NEW r \in Req, SetRefToken(r) PROVE TypeOK'
  <2>1. \A code \in Code : Returned(call[r], code) \in Call \union {None}
    BY <1>7, ReturnedType DEF SetRefToken, Goes, IInv, TypeOK
  <2>2. call[r].user \in User /\ call[r].made \in Token
    BY <1>7 DEF SetRefToken, Goes, IInv, TypeOK, Call, CallOK, Made
  <2>3. ASSUME Written(call[r].user, call[r].made)
        PROVE  refTk' \in [User -> Cookie \union {None}] /\ spent' \subseteq Token
    BY <2>2, <2>3, SpendType, TokenTypes DEF Written, IInv, TypeOK
  <2>4. {"OK", "Internal"} \subseteq Code
    BY DEF Code
  <2>5. /\ call' \in [Req -> Call \union {None}] /\ faults' \in 0..MaxFaults
        /\ refTk' \in [User -> Cookie \union {None}] /\ spent' \subseteq Token
        /\ UNCHANGED <<now, jar, loggedOut>> /\ told' = None
    BY <1>7, <2>1, <2>3, <2>4 DEF SetRefToken, Return, Fault, TypeOK, IInv
  <2>. QED
    BY <2>5 DEF TypeOK, IInv
<1>8. ASSUME NEW r \in Req, DelRefToken(r) PROVE TypeOK'
  <2>1. Returned(call[r], "OK") \in Call \union {None}
    BY ZenonT(40), <1>8, ReturnedType DEF DelRefToken, Goes, IInv, TypeOK, Code
  <2>2. call[r].user \in User
    BY <1>8 DEF DelRefToken, Goes, IInv, TypeOK, Call
  <2>3. Spend(call[r].user, None) => spent' \subseteq Token
    BY <2>2, SpendType DEF IInv
  <2>4. /\ call' \in [Req -> Call \union {None}] /\ UNCHANGED <<now, jar>> /\ told' = None
    BY <1>8, <2>1 DEF DelRefToken, Return, TypeOK, IInv
  <2>5. /\ refTk' \in [User -> Cookie \union {None}] /\ spent' \subseteq Token
        /\ faults' \in 0..MaxFaults
    BY <1>8, <2>2, <2>3 DEF DelRefToken, Fault, TypeOK, history
  <2>6. loggedOut' \in [User -> BOOLEAN]
    BY <1>8, <2>2 DEF DelRefToken, TypeOK, history
  <2>. QED
    BY <2>4, <2>5, <2>6 DEF TypeOK, IInv
<1>9. ASSUME NEW r \in Req, Reply(r) \/ ReplyLost(r) \/ GiveUp(r) PROVE TypeOK'
  <2>. DEFINE c == call[r]
  <2>1. /\ c \in Call /\ c # None /\ c.by \in Browser /\ c.op \in Op /\ c.code \in Code
        /\ c.shown \in Token \union {None}
    BY <1>9 DEF Reply, ReplyLost, GiveUp, Goes, IInv, TypeOK, Call
  <2>2. /\ MapGrpcErrors(c.code) \in Status /\ MapGrpcErrors("Unavailable") \in Status
        /\ MapGrpcErrors("DeadlineExceeded") \in Status
    BY <2>1, StatusType DEF Code
  <2>3. TellOK
    BY <1>1, <1>9, <2>1, <2>2 DEF Reply, ReplyLost, GiveUp
  <2>4. [c EXCEPT !.heard = FALSE] \in Call
    BY <2>1 DEF Call
  <2>5. call' \in [Req -> Call \union {None}]
    <3>1. ASSUME Put(r, None) \/ Put(r, [c EXCEPT !.heard = FALSE])
          PROVE  call' \in [Req -> Call \union {None}]
      BY <2>4, <3>1 DEF TypeOK
    <3>. QED
      BY <1>9, <3>1 DEF Reply, ReplyLost, GiveUp, Close
  <2>8. UNCHANGED <<now, refTk, history>> /\ faults' \in 0..MaxFaults
    BY <1>9 DEF Reply, ReplyLost, GiveUp, Fault, TypeOK
  <2>6. ASSUME Reply(r), c.op \in {"login", "refresh"}, c.code = "OK"
        PROVE  CookieOf(c.access, AccessLife) \in Cookie /\ CookieOf(c.made, RefreshLife) \in Cookie
    <3>1. c.access \in Token /\ c.made \in Token
      BY <2>1, <2>6 DEF Reply, Goes, IInv, CallOK, Made, Call
    <3>. QED
      BY <3>1 DEF CookieOf, Cookie, IInv, TypeOK, SessionsAssumption
  <2>7. jar' \in [Browser -> [access : Cookie \union {None}, refresh : Cookie \union {None}]]
    BY <1>9, <2>1, <2>6 DEF Reply, ReplyLost, GiveUp, Cookies, SetCookies, IInv, TypeOK
  <2>. QED
    BY <2>3, <2>5, <2>7, <2>8 DEF TypeOK, IInv, history
<1>10. ASSUME NEW b \in Browser, Route(b) PROVE TypeOK'
  <2>1. AuthMiddleware(b) \in Status
    BY StatusType DEF AuthMiddleware, Status
  <2>. QED
    BY <1>1, <1>10, <2>1 DEF Route, TypeOK, IInv, history
<1>11. ASSUME ServiceDies PROVE TypeOK'
  <2>1. \A r \in Req : call[r] # None => Returned(call[r], "Unavailable") \in Call \union {None}
    BY ReturnedType DEF IInv, TypeOK, Code
  <2>. QED
    BY <1>11, <2>1 DEF ServiceDies, Fault, TypeOK, IInv, history
<1>12. ASSUME Tick PROVE TypeOK'
  BY <1>12 DEF Tick, TypeOK, IInv, history, SessionsAssumption
<1>13. CASE UNCHANGED vars
  BY <1>13 DEF vars, TypeOK, IInv
<1>. QED
  BY <1>2, <1>3, <1>4, <1>5, <1>6, <1>7, <1>8, <1>9, <1>10, <1>11, <1>12, <1>13 DEF Next

-----------------------------------------------------------------------------
(* The steps keep the invariant. *)

(* A step that leaves Redis alone. *)
LEMMA StoreAlone ==
  ASSUME IInv, TypeOK', now <= now', UNCHANGED <<refTk, spent>>,
         \A q \in Req : call'[q] # None =>
            /\ call'[q] = call[q] \/ CallOK(call[q])'
            /\ call'[q].at = "set" =>
                 \/ ~loggedOut'[call'[q].user]
                 \/ call[q] # None /\ call[q].at = "set" /\ call[q].user = call'[q].user,
         \A b \in Browser : jar'[b]["refresh"] # None =>
            jar'[b]["refresh"] = jar[b]["refresh"] \/ Genuine(jar[b]["refresh"].token)',
         \A u \in User : loggedOut'[u] => loggedOut[u],
         RefusedForCause'
  PROVE  IInv'
<1>1. now \in Nat /\ now' \in Nat
  BY SessionsAssumption DEF IInv, TypeOK, SessionsAssumption
<1>2. \A t \in Token : Genuine(t) => Genuine(t)'
  BY <1>1, GenuineKept DEF IInv
<1>3. KeyOutlivesToken'
  BY DEF IInv, KeyOutlivesToken
<1>4. ASSUME NEW u \in User, loggedOut'[u] PROVE ~Holds(u)' /\ NoWriter(u)'
  <2>1. ~Holds(u) /\ NoWriter(u)
    BY <1>4 DEF IInv
  <2>2. ~Holds(u)'
    <3>1. refTk[u] # None => refTk[u].until \in Nat
      BY DEF IInv, TypeOK, Cookie
    <3>. QED
      BY <1>1, <2>1, <3>1 DEF Holds
  <2>3. NoWriter(u)'
    BY <1>4, <2>1 DEF NoWriter
  <2>. QED
    BY <2>2, <2>3
<1>. QED
  BY <1>1, <1>2, <1>3, <1>4, StepKeeps

LEMMA SentGenuine ==
  ASSUME IInv, NEW b \in Browser, Sends(b, "refresh")
  PROVE  Genuine(jar[b]["refresh"].token)
  BY DEF IInv, SessionIntact, Genuine, Sends

(* A handler that calls the service. *)
LEMMA HandlerStep ==
  ASSUME SessionsAssumption, NoneAssumption, IInv, TypeOK',
         NEW r \in Req, NEW b \in Browser, NEW u \in User, NEW t \in Token \union {None},
         NEW op, NEW at, <<op, at>> \in {<<"login", "select">>, <<"refresh", "check">>, <<"logout", "del">>},
         op = "refresh" => t # None /\ t.user = u, t # None => Genuine(t),
         Put(r, NewCall(op, at, b, u, t)), UNCHANGED <<now, jar, refTk, history>>, told' = None
  PROVE  IInv'
<1>1. UNCHANGED <<spent, loggedOut>>
  BY DEF history
<1>2. (t # None => Genuine(t)') /\ (t # None => Genuine(t))
  BY <1>1, GenuineKept DEF IInv, TypeOK, SessionsAssumption
<1>. DEFINE c == NewCall(op, at, b, u, t)
<1>3. CallOK(c)' /\ c.at # "set"
  BY <1>2 DEF CallOK, NewCall, Staged, Made, Refusal
<1>4. call' = [call EXCEPT ![r] = c]
  BY DEF Put
<1>. HIDE DEF c
<1>5. call'[r] = c /\ \A q \in Req \ {r} : call'[q] = call[q]
  BY <1>4 DEF IInv, TypeOK
<1>6. CallOK(call[r])'
  BY <1>3, <1>5
<1>7. RefusedForCause'
  BY DEF RefusedForCause
<1>8. \A q \in Req : call'[q] # None =>
        /\ call'[q] = call[q] \/ CallOK(call[q])'
        /\ call'[q].at = "set" =>
             call[q] # None /\ call[q].at = "set" /\ call[q].user = call'[q].user
  BY <1>3, <1>5, <1>6
<1>9. now <= now'
  BY DEF IInv, TypeOK
<1>. QED
  BY <1>1, <1>7, <1>8, <1>9, StoreAlone

(* A handler that answers at once, refusing no valid token. *)
LEMMA AnswerStep ==
  ASSUME SessionsAssumption, NoneAssumption, IInv, TypeOK', UNCHANGED <<now, jar, refTk, call, history>>,
         RefusedForCause'
  PROVE  IInv'
<1>1. UNCHANGED <<spent, loggedOut>> /\ now <= now'
  BY DEF history, IInv, TypeOK
<1>. QED
  BY <1>1, StoreAlone

LEMMA RefreshAccTokenStep ==
  ASSUME SessionsAssumption, NoneAssumption, IInv, TypeOK',
         NEW r \in Req, NEW b \in Browser, RefreshAccToken(r, b)
  PROVE  IInv'
<1>. DEFINE t == jar[b]["refresh"].token
<1>0. TypeOK /\ UNCHANGED <<now, jar, refTk, history>>
  BY DEF IInv, RefreshAccToken
<1>1. CASE ~Sends(b, "refresh")
  <2>1. UNCHANGED call /\ told'.status = 403
    BY <1>1 DEF RefreshAccToken, Tell
  <2>. QED
    BY <1>0, <2>1, AnswerStep DEF RefusedForCause
<1>2. CASE Sends(b, "refresh") /\ VerifyUserToken(t) # 200
  <2>1. UNCHANGED call /\ told'.shown = t /\ ~Unexpired(t)
    BY <1>2 DEF RefreshAccToken, Tell, VerifyUserToken
  <2>2. ~Unexpired(told.shown)'
    BY <1>0, <2>1 DEF Unexpired
  <2>. QED
    BY <1>0, <2>1, <2>2, AnswerStep DEF RefusedForCause
<1>3. CASE Sends(b, "refresh") /\ VerifyUserToken(t) = 200
  <2>1. t \in Token /\ t.user \in User /\ Genuine(t) /\ t # None
    BY <1>0, <1>3, SentType, SentGenuine DEF NoneAssumption
  <2>2. Put(r, NewCall("refresh", "check", b, t.user, t)) /\ told' = None
    BY <1>3 DEF RefreshAccToken, Silent
  <2>. QED
    BY <1>0, <2>1, <2>2, HandlerStep
<1>. QED
  BY <1>1, <1>2, <1>3

LEMMA LogoutUserStep ==
  ASSUME SessionsAssumption, NoneAssumption, IInv, TypeOK',
         NEW r \in Req, NEW b \in Browser, LogoutUser(r, b)
  PROVE  IInv'
<1>. DEFINE t == jar[b]["refresh"].token
<1>0. TypeOK /\ UNCHANGED <<now, jar, refTk, history>>
  BY DEF IInv, LogoutUser, SetCookies, Routed, TypeOK
<1>1. CASE ~Sends(b, "refresh")
  <2>1. UNCHANGED call /\ told'.status = 200
    BY <1>1 DEF LogoutUser, Tell
  <2>. QED
    BY <1>0, <2>1, AnswerStep DEF RefusedForCause
<1>2. CASE Sends(b, "refresh") /\ VerifyUserToken(t) # 200
  <2>1. UNCHANGED call /\ told'.status = 403
    BY <1>2 DEF LogoutUser, Tell
  <2>. QED
    BY <1>0, <2>1, AnswerStep DEF RefusedForCause
<1>3. CASE Sends(b, "refresh") /\ VerifyUserToken(t) = 200
  <2>1. t \in Token /\ t.user \in User /\ Genuine(t) /\ t # None
    BY <1>0, <1>3, SentType, SentGenuine DEF NoneAssumption
  <2>2. Put(r, NewCall("logout", "del", b, t.user, t)) /\ told' = None
    BY <1>3 DEF LogoutUser, Silent
  <2>. QED
    BY <1>0, <2>1, <2>2, HandlerStep
<1>. QED
  BY <1>1, <1>2, <1>3

LEMMA LoginUserStep ==
  ASSUME SessionsAssumption, NoneAssumption, IInv, TypeOK',
         NEW r \in Req, NEW b \in Browser, NEW u \in User, LoginUser(r, b, u)
  PROVE  IInv'
<1>1. UNCHANGED <<now, jar, refTk, history>>
  BY DEF LoginUser
<1>2. CASE Put(r, NewCall("login", "select", b, u, None)) /\ Silent
  BY <1>1, <1>2, HandlerStep DEF Silent
<1>3. CASE (\E body \in Body : Tell(b, "login", JsonReqErrCheck(body), None)) /\ UNCHANGED call
  <2>1. told'.op = "login"
    BY <1>3 DEF Tell
  <2>. QED
    BY <1>1, <1>3, <2>1, AnswerStep DEF RefusedForCause
<1>. QED
  BY <1>2, <1>3 DEF LoginUser

LEMMA RouteStep ==
  ASSUME SessionsAssumption, NoneAssumption, IInv, TypeOK', NEW b \in Browser, Route(b)
  PROVE  IInv'
<1>1. told'.op = "route" /\ UNCHANGED <<now, jar, refTk, call, history>>
  BY DEF Route, Tell
<1>. QED
  BY <1>1, AnswerStep DEF RefusedForCause

LEMMA TickStep ==
  ASSUME SessionsAssumption, NoneAssumption, IInv, TypeOK', Tick
  PROVE  IInv'
<1>1. now <= now' /\ UNCHANGED <<jar, refTk, call, spent, loggedOut>> /\ told' = None
  BY DEF Tick, history, Silent, IInv, TypeOK
<1>. QED
  BY <1>1, StoreAlone DEF RefusedForCause

(* What the service returns for a call that is sound to return. *)
LEMMA ReturnOK ==
  ASSUME NoneAssumption, NEW c \in Call, NEW code \in Code, CallOK(c)', c.at # "reply",
         code = "OK" => c.op = "logout" \/ (c.made # None /\ c.access # None /\ Genuine(c.made)'),
         code = "Unauthenticated" /\ c.op = "refresh" => (~Unexpired(c.shown) \/ c.shown \in spent)',
         Returned(c, code) # None
  PROVE  CallOK(Returned(c, code))' /\ Returned(c, code).at # "set"
<1>. DEFINE d == [c EXCEPT !.at = "reply", !.code = code, !.made = None, !.access = None]
            e == [c EXCEPT !.at = "reply"]
<1>1. CASE code = "OK"
  <2>1. Returned(c, code) = e
    BY <1>1, ReturnedType
  <2>2. /\ e.at = "reply" /\ e.code = c.code /\ e.op = c.op /\ e.shown = c.shown
        /\ e.made = c.made /\ e.access = c.access /\ e.user = c.user
    BY DEF Call
  <2>. QED
    BY ZenonT(40), <1>1, <2>1, <2>2 DEF CallOK, Staged, Made, Refusal
<1>2. CASE code # "OK"
  <2>1. Returned(c, code) = d
    BY <1>2, ReturnedType
  <2>2. d.at = "reply" /\ d.code = code /\ d.op = c.op /\ d.shown = c.shown /\ d.user = c.user
    BY DEF Call
  <2>. QED
    BY <1>2, <2>1, <2>2 DEF CallOK, Staged, Made, Refusal
<1>. QED
  BY <1>1, <1>2

LEMMA CallsTyped ==
  ASSUME TypeOK, NEW r \in Req, call[r] # None
  PROVE  /\ call[r] \in Call /\ call[r].user \in User /\ call[r].op \in Op /\ call[r].by \in Browser
         /\ call[r].shown \in Token \union {None} /\ call[r].made \in Token \union {None}
         /\ call[r].access \in Token \union {None} /\ call[r].code \in Code
  BY DEF TypeOK, Call

(* The service returns a call without having touched Redis. *)
LEMMA ReturnStep ==
  ASSUME SessionsAssumption, NoneAssumption, IInv, TypeOK',
         NEW r \in Req, call[r] # None, call[r].at # "reply", NEW code \in Code \ {"OK"}, Return(r, code),
         code = "Unauthenticated" /\ call[r].op = "refresh" =>
           ~Unexpired(call[r].shown) \/ call[r].shown \in spent,
         UNCHANGED <<now, jar, refTk, history>>, told' = None
  PROVE  IInv'
<1>. DEFINE c == call[r]
<1>1. UNCHANGED <<spent, loggedOut>> /\ now <= now' /\ now' \in Nat
  BY DEF history, IInv, TypeOK, SessionsAssumption
<1>2. \A t \in Token : Genuine(t) => Genuine(t)'
  BY <1>1, GenuineKept DEF IInv
<1>3. \A x \in Call : CallOK(x) => CallOK(x)'
  BY <1>1, <1>2, CallAged DEF IInv
<1>4. call' = [call EXCEPT ![r] = Returned(call[r], code)]
  BY DEF Return, Put
<1>5. call'[r] = Returned(call[r], code) /\ \A q \in Req \ {r} : call'[q] = call[q]
  BY <1>4 DEF IInv, TypeOK
<1>6. call[r] \in Call /\ CallOK(call[r])
  BY CallsTyped DEF IInv
<1>7. code = "Unauthenticated" /\ call[r].op = "refresh" =>
        \A x : x = call[r].shown => (~Unexpired(x) \/ x \in spent)'
  BY <1>1 DEF Unexpired
<1>8. ASSUME NEW x \in Call, x = call[r], Returned(x, code) # None
      PROVE  CallOK(Returned(x, code))' /\ Returned(x, code).at # "set"
  <2>1. CallOK(x)'
    BY <1>3, <1>6, <1>8
  <2>2. code = "Unauthenticated" /\ x.op = "refresh" => (~Unexpired(x.shown) \/ x.shown \in spent)'
    BY <1>7, <1>8
  <2>. QED
    BY <1>8, <2>1, <2>2, ReturnOK
<1>9. call'[r] # None => CallOK(call[r])' /\ call'[r].at # "set"
  BY <1>5, <1>6, <1>8
<1>10. RefusedForCause'
  BY DEF RefusedForCause
<1>11. \A q \in Req : call'[q] # None =>
        /\ call'[q] = call[q] \/ CallOK(call[q])'
        /\ call'[q].at = "set" =>
             call[q] # None /\ call[q].at = "set" /\ call[q].user = call'[q].user
  BY <1>5, <1>9
<1>. QED
  BY <1>1, <1>10, <1>11, StoreAlone

(* The service makes tokens, for a user who is not logged out for good. *)
LEMMA MakeStep ==
  ASSUME SessionsAssumption, NoneAssumption, IInv, TypeOK',
         NEW r \in Req, call[r] # None, call[r].at \in {"select", "check"}, MakeTokens(r),
         ~loggedOut'[call[r].user], \A u \in User : loggedOut'[u] => loggedOut[u],
         UNCHANGED <<now, jar, refTk, spent>>, told' = None
  PROVE  IInv'
<1>1. now <= now' /\ now \in Nat
  BY DEF IInv, TypeOK, SessionsAssumption
<1>2. call[r] \in Call /\ CallOK(call[r]) /\ call[r].user \in User
  BY CallsTyped DEF IInv
<1>3. /\ call'[r] = [call[r] EXCEPT !.at = "set", !.made = CreateRefreshJwt(call[r].user),
                                    !.access = CreateJwt(call[r].user)]
      /\ \A q \in Req \ {r} : call'[q] = call[q]
  BY MadeType DEF IInv
<1>4. /\ call'[r].at = "set" /\ call'[r].op = call[r].op /\ call'[r].user = call[r].user
      /\ call'[r].shown = call[r].shown /\ call'[r].code = call[r].code
      /\ call'[r].made = CreateRefreshJwt(call[r].user) /\ call'[r].access = CreateJwt(call[r].user)
  BY <1>2, <1>3 DEF Call
<1>5. /\ call'[r].made # None /\ call'[r].access # None
      /\ call'[r].made.user = call[r].user /\ call'[r].made.exp = now + RefreshLife
  <2>1. CreateRefreshJwt(call[r].user) \in Token /\ CreateJwt(call[r].user) \in Token
    BY <1>2, TokenTypes DEF IInv
  <2>. QED
    BY <1>4, <2>1 DEF CreateRefreshJwt, NoneAssumption
<1>6. \A t \in Token : Genuine(t) => Genuine(t)'
  BY <1>1, GenuineKept DEF IInv
<1>7. CallOK(call[r])'
  <2>1. call[r].shown # None => Genuine(call[r].shown)'
    <3>1. call[r].shown # None => Genuine(call[r].shown) /\ call[r].shown \in Token
      BY <1>2, CallsTyped DEF CallOK, IInv
    <3>. QED
      BY <1>4, <1>6, <3>1
  <2>2. Staged(call[r])' /\ Made(call[r])' /\ Refusal(call[r])'
    BY <1>1, <1>2, <1>4, <1>5 DEF CallOK, Staged, Made, Refusal
  <2>. QED
    BY <1>4, <2>1, <2>2 DEF CallOK
<1>8. RefusedForCause'
  BY DEF RefusedForCause
<1>9. \A q \in Req : call'[q] # None =>
        /\ call'[q] = call[q] \/ CallOK(call[q])'
        /\ call'[q].at = "set" =>
             \/ ~loggedOut'[call'[q].user]
             \/ call[q] # None /\ call[q].at = "set" /\ call[q].user = call'[q].user
  BY <1>3, <1>4, <1>7
<1>. QED
  BY <1>1, <1>8, <1>9, StoreAlone

LEMMA SelectUserByEmailStep ==
  ASSUME SessionsAssumption, NoneAssumption, IInv, TypeOK', NEW r \in Req, SelectUserByEmail(r)
  PROVE  IInv'
<1>1. call[r] # None /\ call[r].at = "select" /\ UNCHANGED <<now, jar, refTk, spent>> /\ told' = None
  BY DEF SelectUserByEmail, Goes, Silent
<1>2. call[r].op # "refresh"
  BY <1>1 DEF IInv, CallOK, Staged
<1>3. CASE (\E code \in {"NotFound", "Unauthenticated", "Internal"} : Return(r, code)) /\ UNCHANGED loggedOut
  <2>. PICK code \in {"NotFound", "Unauthenticated", "Internal"} : Return(r, code)
    BY <1>3
  <2>1. code \in Code \ {"OK"} /\ UNCHANGED history
    BY <1>1, <1>3 DEF Code, history
  <2>. QED
    BY <1>1, <1>2, <2>1, ReturnStep
<1>4. CASE MakeTokens(r) /\ loggedOut' = [loggedOut EXCEPT ![call[r].user] = FALSE]
  <2>1. call[r].user \in User
    BY <1>1, CallsTyped DEF IInv
  <2>2. ~loggedOut'[call[r].user] /\ \A u \in User : loggedOut'[u] => loggedOut[u]
    BY <1>4, <2>1 DEF IInv, TypeOK
  <2>. QED
    BY <1>1, <1>4, <2>2, MakeStep
<1>. QED
  BY <1>3, <1>4 DEF SelectUserByEmail

LEMMA CheckStep ==
  ASSUME SessionsAssumption, NoneAssumption, IInv, TypeOK', NEW r \in Req, Check(r)
  PROVE  IInv'
<1>1. call[r] # None /\ call[r].at = "check" /\ UNCHANGED <<now, jar, refTk, history>> /\ told' = None
  BY DEF Check, Goes, Silent
<1>2. UNCHANGED <<spent, loggedOut>>
  BY <1>1 DEF history
<1>3. /\ call[r].user \in User /\ call[r].shown # None /\ Genuine(call[r].shown)
      /\ call[r].shown.user = call[r].user
      /\ {"Internal", "Unauthenticated"} \subseteq Code \ {"OK"}
  BY <1>1, CallsTyped DEF IInv, CallOK, Staged, Code
<1>4. CASE VerifyJwt(call[r].shown) # "OK" /\ Return(r, VerifyJwt(call[r].shown))
  <2>1. VerifyJwt(call[r].shown) = "Unauthenticated" /\ ~Unexpired(call[r].shown)
    BY <1>4 DEF VerifyJwt
  <2>. QED
    BY <1>1, <1>3, <1>4, <2>1, ReturnStep
<1>5. CASE Return(r, "Internal")
  BY <1>1, <1>3, <1>5, ReturnStep
<1>6. CASE ~RefTokenExists(call[r].user, call[r].shown) /\ Return(r, "Unauthenticated") /\ VerifyJwt(call[r].shown) = "OK"
  <2>1. ~Unexpired(call[r].shown) \/ call[r].shown \in spent
    BY <1>3, <1>6 DEF Genuine
  <2>. QED
    BY <1>1, <1>3, <1>6, <2>1, ReturnStep
<1>7. CASE RefTokenExists(call[r].user, call[r].shown) /\ MakeTokens(r)
  <2>1. ~loggedOut[call[r].user]
    BY <1>3, <1>7 DEF RefTokenExists, IInv
  <2>. QED
    BY <1>1, <1>2, <1>7, <2>1, MakeStep
<1>. QED
  BY <1>4, <1>5, <1>6, <1>7 DEF Check

LEMMA SetRefTokenStep ==
  ASSUME SessionsAssumption, NoneAssumption, IInv, TypeOK', NEW r \in Req, SetRefToken(r)
  PROVE  IInv'
<1>. DEFINE u == call[r].user
            t == call[r].made
<1>1. call[r] # None /\ call[r].at = "set" /\ UNCHANGED <<now, jar, loggedOut>> /\ told' = None
  BY DEF SetRefToken, Goes, Silent
<1>2. /\ u \in User /\ t \in Token /\ t.user = u /\ t.exp <= now + RefreshLife
      /\ call[r].op # "logout" /\ t # None /\ call[r].access # None
      /\ call[r] \in Call /\ CallOK(call[r]) /\ "OK" \in Code /\ "Internal" \in Code \ {"OK"}
  BY <1>1, CallsTyped DEF IInv, CallOK, Staged, Made, Code
<1>3. CASE Return(r, "Internal") /\ UNCHANGED <<refTk, spent>>
  BY <1>1, <1>2, <1>3, ReturnStep DEF history
<1>4. CASE Written(u, t) /\ (Return(r, "OK") \/ Return(r, "Internal"))
  <2>. PICK code \in {"OK", "Internal"} : Return(r, code)
    BY <1>4
  <2>1. /\ refTk' = [refTk EXCEPT ![u] = CookieOf(t, RefreshLife)]
        /\ refTk'[u].token = t /\ refTk'[u].until = now + RefreshLife
        /\ \A v \in User \ {u} : refTk'[v] = refTk[v]
    BY <1>2, <1>4 DEF Written, CookieOf, IInv, TypeOK
  <2>2. KeyOutlivesToken'
    BY <1>2, <2>1 DEF KeyOutlivesToken, IInv
  <2>3. \A x \in Token : Genuine(x) => Genuine(x)'
    BY <1>1, <1>2, <1>4, GenuineWritten DEF IInv
  <2>4. now' \in Nat /\ now <= now' /\ now \in Nat /\ RefreshLife \in Nat \ {0}
    BY <1>1 DEF IInv, TypeOK, SessionsAssumption
  <2>5. spent \subseteq spent'
    BY <1>4 DEF Written, Spend
  <2>6. refTk'[u] # None /\ refTk'[u].token = t /\ now' < refTk'[u].until
    <3>1. refTk'[u] # None
      BY <1>2, <2>1, TokenTypes DEF IInv, NoneAssumption, TypeOK
    <3>. QED
      BY <1>1, <2>1, <2>4, <3>1
  <2>7. \A x \in Call : CallOK(x) => CallOK(x)'
    BY <2>3, <2>4, <2>5, CallAged DEF IInv
  <2>8. call'[r] = Returned(call[r], code) /\ \A q \in Req \ {r} : call'[q] = call[q]
    BY DEF Return, Put, IInv, TypeOK
  <2>9. ASSUME NEW x \in Call, x = call[r], Returned(x, code) # None
        PROVE  CallOK(Returned(x, code))' /\ Returned(x, code).at # "set"
    <3>1. CallOK(x)' /\ x.at # "reply" /\ x.made # None /\ x.access # None
      BY <1>1, <1>2, <2>7, <2>9
    <3>2. Genuine(x.made)'
      BY <1>2, <2>6, <2>9 DEF Genuine, RefTokenExists, Holds
    <3>3. code \in Code /\ code # "Unauthenticated"
      BY <1>2
    <3>. QED
      BY <2>9, <3>1, <3>2, <3>3, ReturnOK
  <2>10. call'[r] # None => CallOK(call[r])' /\ call'[r].at # "set"
    BY <1>2, <2>8, <2>9
  <2>11. \A v \in User : loggedOut'[v] => ~Holds(v)' /\ NoWriter(v)'
    <3>. SUFFICES ASSUME NEW v \in User, loggedOut[v] PROVE ~Holds(v)' /\ NoWriter(v)'
      BY <1>1
    <3>1. ~Holds(v) /\ NoWriter(v) /\ v # u
      BY <1>1 DEF IInv, NoWriter
    <3>. QED
      BY <1>1, <2>1, <2>8, <2>10, <3>1 DEF Holds, NoWriter
  <2>12. RefusedForCause'
    BY <1>1 DEF RefusedForCause
  <2>13. \A q \in Req : call'[q] # None => call'[q] = call[q] \/ CallOK(call[q])'
    BY <2>8, <2>10
  <2>14. UNCHANGED jar
    BY <1>1
  <2>. QED
    BY <2>2, <2>3, <2>4, <2>5, <2>11, <2>12, <2>13, <2>14, StepKeeps
<1>. QED
  BY <1>3, <1>4 DEF SetRefToken

LEMMA DelRefTokenStep ==
  ASSUME SessionsAssumption, NoneAssumption, IInv, TypeOK', NEW r \in Req, DelRefToken(r)
  PROVE  IInv'
<1>. DEFINE u == call[r].user
            writer == \E q \in Req : call[q] # None /\ call[q].user = u /\ call[q].at = "set"
<1>1. call[r] # None /\ call[r].at = "del" /\ UNCHANGED <<now, jar>> /\ told' = None /\ Return(r, "OK")
  BY DEF DelRefToken, Goes, Silent
<1>2. u \in User /\ call[r] \in Call /\ CallOK(call[r]) /\ "OK" \in Code
  BY <1>1, CallsTyped DEF IInv, Code
<1>3. \/ UNCHANGED <<refTk, spent, loggedOut>>
      \/ /\ refTk' = [refTk EXCEPT ![u] = None] /\ Spend(u, None)
         /\ loggedOut' = [loggedOut EXCEPT ![u] = @ \/ ~writer]
  BY DEF DelRefToken, history
<1>4. \A x \in Token : Genuine(x) => Genuine(x)'
  BY <1>1, <1>2, <1>3, GenuineKept, GenuineDeleted DEF IInv, TypeOK, SessionsAssumption
<1>5. spent \subseteq spent' /\ KeyOutlivesToken'
  BY <1>2, <1>3 DEF Spend, IInv, KeyOutlivesToken, TypeOK
<1>6. now' \in Nat /\ now <= now'
  BY <1>1 DEF IInv, TypeOK, SessionsAssumption
<1>7. \A x \in Call : CallOK(x) => CallOK(x)'
  BY <1>4, <1>5, <1>6, CallAged DEF IInv
<1>8. call'[r] = Returned(call[r], "OK") /\ \A q \in Req \ {r} : call'[q] = call[q]
  BY <1>1 DEF Return, Put, IInv, TypeOK
<1>9. ASSUME NEW x \in Call, x = call[r], NEW code \in Code, code = "OK", Returned(x, code) # None
      PROVE  CallOK(Returned(x, code))' /\ Returned(x, code).at # "set"
  <2>1. CallOK(x)' /\ x.at # "reply" /\ x.op = "logout" /\ code # "Unauthenticated"
    BY <1>1, <1>2, <1>7, <1>9 DEF CallOK, Staged
  <2>. QED
    BY <1>9, <2>1, ReturnOK
<1>10. call'[r] # None => CallOK(call[r])' /\ call'[r].at # "set"
  BY <1>2, <1>8, <1>9
<1>11. \A v \in User : loggedOut'[v] => ~Holds(v)' /\ NoWriter(v)'
  <2>. SUFFICES ASSUME NEW v \in User, loggedOut'[v] PROVE ~Holds(v)' /\ NoWriter(v)'
    OBVIOUS
  <2>1. CASE loggedOut[v]
    BY <1>1, <1>2, <1>3, <1>8, <1>10, <2>1 DEF Holds, NoWriter, IInv, TypeOK
  <2>2. CASE ~loggedOut[v]
    <3>1. v = u /\ ~writer /\ refTk'[u] = None
      BY <1>2, <1>3, <2>2 DEF IInv, TypeOK
    <3>. QED
      BY <1>8, <1>10, <3>1 DEF Holds, NoWriter
  <2>. QED
    BY <2>1, <2>2
<1>12. RefusedForCause'
  BY <1>1 DEF RefusedForCause
<1>13. \A q \in Req : call'[q] # None => call'[q] = call[q] \/ CallOK(call[q])'
  BY <1>8, <1>10
<1>. QED
  BY <1>1, <1>4, <1>5, <1>6, <1>11, <1>12, <1>13, StepKeeps

(* A step that ends calls, or goes on with them at the same place. *)
LEMMA ReplyStep ==
  ASSUME SessionsAssumption, NoneAssumption, IInv, TypeOK', NEW r \in Req, Reply(r)
  PROVE  IInv'
<1>. DEFINE c == call[r]
<1>1. /\ c # None /\ c.at = "reply" /\ UNCHANGED <<now, refTk, spent, loggedOut>>
      /\ Tell(c.by, c.op, MapGrpcErrors(c.code), c.shown) /\ Cookies(c.by, c)
  BY DEF Reply, Goes, history
<1>2. c \in Call /\ CallOK(c) /\ c.by \in Browser /\ c.code \in Code
  BY <1>1, CallsTyped DEF IInv
<1>3. call'[r] = None /\ \A q \in Req \ {r} : call'[q] = call[q]
  BY DEF Reply, Close, Put, IInv, TypeOK
<1>4. RefusedForCause'
  <2>1. told' # None /\ told'.op = "refresh" /\ told'.status = 401 =>
          ~Unexpired(c.shown) \/ c.shown \in spent
    BY <1>1, <1>2, StatusType DEF Tell, CallOK, Refusal
  <2>. QED
    BY <1>1, <2>1 DEF RefusedForCause, Tell, Unexpired
<1>5. \A t \in Token : Genuine(t) => Genuine(t)'
  BY <1>1, GenuineKept DEF IInv, TypeOK, SessionsAssumption
<1>6. ASSUME NEW b \in Browser, jar'[b]["refresh"] # None, jar'[b]["refresh"] # jar[b]["refresh"]
      PROVE  Genuine(jar[b]["refresh"].token)'
  <2>1. /\ c.op = "login" /\ c.code = "OK" /\ b = c.by
        /\ jar'[b]["refresh"] = CookieOf(c.made, RefreshLife)
    BY <1>1, <1>2, <1>6 DEF Cookies, SetCookies, Routed, IInv, TypeOK
  <2>2. Genuine(c.made) /\ c.made \in Token
    BY <1>1, <1>2, <2>1, CallsTyped DEF CallOK, Made, IInv
  <2>3. jar'[b]["refresh"].token = c.made
    BY <2>1 DEF CookieOf
  <2>. QED
    BY <1>5, <2>2, <2>3
<1>7. now <= now'
  BY <1>1 DEF IInv, TypeOK
<1>. QED
  BY <1>1, <1>3, <1>4, <1>6, <1>7, StoreAlone

LEMMA GiveUpStep ==
  ASSUME SessionsAssumption, NoneAssumption, IInv, TypeOK', NEW r \in Req, GiveUp(r) \/ ReplyLost(r)
  PROVE  IInv'
<1>. DEFINE c == call[r]
            d == [call[r] EXCEPT !.heard = FALSE]
<1>1. /\ c # None /\ UNCHANGED <<now, jar, refTk, spent, loggedOut>>
      /\ told'.status # 401
  BY DEF GiveUp, ReplyLost, Goes, history, Tell, MapGrpcErrors
<1>2. c \in Call /\ CallOK(c)
  BY <1>1, CallsTyped DEF IInv
<1>3. call' = [call EXCEPT ![r] = None] \/ call' = [call EXCEPT ![r] = d]
  BY DEF GiveUp, ReplyLost, Close, Put
<1>4. /\ d \in Call /\ d.at = c.at /\ d.op = c.op /\ d.user = c.user /\ d.code = c.code
      /\ d.shown = c.shown /\ d.made = c.made /\ d.access = c.access
  BY <1>2 DEF Call
<1>5. CallOK(d)
  BY <1>2, <1>4 DEF CallOK, Staged, Made, Refusal
<1>6. \A x \in Call : CallOK(x) => CallOK(x)'
  <2>1. \A t \in Token : Genuine(t) => Genuine(t)'
    BY <1>1, GenuineKept DEF IInv, TypeOK, SessionsAssumption
  <2>. QED
    BY <1>1, <2>1, CallAged DEF IInv, TypeOK, SessionsAssumption
<1>7. \A q \in Req \ {r} : call'[q] = call[q]
  BY <1>3 DEF IInv, TypeOK
<1>8. call'[r] = None \/ call'[r] = d
  BY <1>3 DEF IInv, TypeOK
<1>9. call'[r] # None => CallOK(call[r])' /\ call'[r].at = c.at /\ call'[r].user = c.user
  <2>. HIDE DEF d
  <2>. QED
    BY <1>4, <1>5, <1>6, <1>8
<1>10. RefusedForCause' /\ now <= now'
  BY <1>1 DEF RefusedForCause, IInv, TypeOK
<1>11. \A q \in Req : call'[q] # None =>
        /\ call'[q] = call[q] \/ CallOK(call[q])'
        /\ call'[q].at = "set" =>
             call[q] # None /\ call[q].at = "set" /\ call[q].user = call'[q].user
  BY <1>1, <1>7, <1>9
<1>. QED
  BY <1>1, <1>10, <1>11, StoreAlone

LEMMA ServiceDiesStep ==
  ASSUME SessionsAssumption, NoneAssumption, IInv, TypeOK', ServiceDies
  PROVE  IInv'
<1>1. UNCHANGED <<now, jar, refTk, spent, loggedOut>> /\ told' = None /\ now <= now'
  BY DEF ServiceDies, history, Silent, IInv, TypeOK
<1>2. \A x \in Call : CallOK(x) => CallOK(x)'
  <2>1. \A t \in Token : Genuine(t) => Genuine(t)'
    BY <1>1, GenuineKept DEF IInv, TypeOK, SessionsAssumption
  <2>. QED
    BY <1>1, <2>1, CallAged DEF IInv, TypeOK, SessionsAssumption
<1>3. ASSUME NEW q \in Req, call'[q] # None, call'[q] # call[q]
      PROVE  CallOK(call[q])' /\ call'[q].at # "set"
  <2>1. call'[q] = Returned(call[q], "Unavailable") /\ call[q] # None /\ call[q].at # "reply"
    BY <1>3 DEF ServiceDies
  <2>2. call[q] \in Call /\ CallOK(call[q]) /\ "Unavailable" \in Code
    BY <2>1, CallsTyped DEF IInv, Code
  <2>3. ASSUME NEW x \in Call, x = call[q], NEW code \in Code, code = "Unavailable", Returned(x, code) # None
        PROVE  CallOK(Returned(x, code))' /\ Returned(x, code).at # "set"
    <3>1. CallOK(x)' /\ x.at # "reply" /\ code # "OK" /\ code # "Unauthenticated"
      BY <1>2, <2>1, <2>2, <2>3
    <3>. QED
      BY <2>3, <3>1, ReturnOK
  <2>. QED
    BY <1>3, <2>1, <2>2, <2>3
<1>4. \A q \in Req : call'[q] # None =>
        /\ call'[q] = call[q] \/ CallOK(call[q])'
        /\ call'[q].at = "set" =>
             call[q] # None /\ call[q].at = "set" /\ call[q].user = call'[q].user
  BY <1>3
<1>5. RefusedForCause'
  BY <1>1 DEF RefusedForCause
<1>. QED
  BY <1>1, <1>4, <1>5, StoreAlone

-----------------------------------------------------------------------------
(* Theorems *)

LEMMA InitInv == SessionsAssumption /\ NoneAssumption /\ Init => IInv
<1>. SUFFICES ASSUME SessionsAssumption, NoneAssumption, Init PROVE IInv
  OBVIOUS
<1>1. TypeOK
  BY DEF Init, TypeOK, SessionsAssumption
<1>2. KeyOutlivesToken /\ SessionIntact /\ RefusedForCause
  BY DEF Init, KeyOutlivesToken, SessionIntact, RefusedForCause
<1>. QED
  BY <1>1, <1>2 DEF Init, IInv

LEMMA NextInv ==
  ASSUME SessionsAssumption, NoneAssumption, IInv, [Next]_vars
  PROVE  IInv'
<1>0. TypeOK'
  BY TypeInv
<1>1. CASE UNCHANGED vars
  <2>. USE <1>1 DEF vars
  <2>1. \A u \in User : Holds(u)' = Holds(u) /\ NoWriter(u)' = NoWriter(u)
    BY DEF Holds, NoWriter
  <2>2. now <= now' /\ UNCHANGED <<now, jar, refTk, call, history>>
    BY DEF IInv, TypeOK, history
  <2>3. RefusedForCause'
    BY DEF IInv, RefusedForCause, Unexpired
  <2>. QED
    BY <1>0, <2>2, <2>3, AnswerStep
<1>. QED
  BY <1>0, <1>1, RefreshAccTokenStep, LogoutUserStep, LoginUserStep, RouteStep, SelectUserByEmailStep,
     CheckStep, SetRefTokenStep, DelRefTokenStep, ReplyStep, GiveUpStep, ServiceDiesStep, TickStep DEF Next

(* The invariant holds in every reachable state, for any users, browsers   *)
(* and requests and any lifetimes.                                         *)
THEOREM SessionsInvariant == Spec => []IInv
<1>. USE SessionsAssumption, NoneAssumption
<1>1. Init => IInv
  BY InitInv
<1>2. IInv /\ [Next]_vars => IInv'
  BY NextInv
<1>. QED
  BY <1>1, <1>2, PTL DEF Spec

(* Every variable keeps its type: CreateJwt, SetRefToken and the handlers  *)
(* only ever put tokens and cookies where they belong.                     *)
THEOREM SessionsTypes == Spec => []TypeOK
<1>1. IInv => TypeOK
  BY DEF IInv
<1>. QED
  BY <1>1, SessionsInvariant, PTL

(* A browser's unexpired refresh token is the one in Redis, or was         *)
(* replaced or deleted there (SetRefToken, DelRefToken).                   *)
THEOREM SessionsIntact == Spec => []SessionIntact
<1>1. IInv => SessionIntact
  BY DEF IInv
<1>. QED
  BY <1>1, SessionsInvariant, PTL

(* After LogoutUser has deleted the token with no writer under way, only a *)
(* new login puts one in its place.                                        *)
THEOREM LogoutIsFinal == Spec => []LogoutFinal
<1>1. IInv => LogoutFinal
  BY DEF IInv, LogoutFinal
<1>. QED
  BY <1>1, SessionsInvariant, PTL

(* RefreshAccToken answers 401 only for an expired or a spent token.       *)
THEOREM RefusalHasCause == Spec => []RefusedForCause
<1>1. IInv => RefusedForCause
  BY DEF IInv
<1>. QED
  BY <1>1, SessionsInvariant, PTL

=============================================================================
