---------------------------- MODULE WruProxySafety ----------------------------
(***************************************************************************)
(* Whom a request acts as, and where a login ends.                         *)
(*                                                                         *)
(* No request reaches the service in the name of somebody who did not log  *)
(* in with the browser that sent it.  SelfInv follows the ids that come to *)
(* a browser: each is new when it is drawn for one of that browser's       *)
(* requests, and stands for a user that the browser has logged in as.      *)
(* PersonInv says whom a login may name.                                   *)
(* OverInv follows the sessions of which a response said that they are     *)
(* logged out: no look-up of theirs finds a user again.                    *)
(*                                                                         *)
(* A login ends on a page that was asked for, and is not lost.  Of         *)
(* LoginInv, Lands follows the landing page from the request that started  *)
(* a login, through the exchanges of its id, to the response that ends it. *)
(* Loses follows the look-up: a request that starts another login saw a    *)
(* session that was over.                                                  *)
(***************************************************************************)
EXTENDS WruProxyProofs

(* The login that s stands for, if any, is one of b's.                     *)
Mine(b, s) == s \in Sid /\ origin[s] # NoDoc /\ origin[s].user # NoUser
                => origin[s].user \in was[b]

(* What a request r of b, in the call c, holds.                            *)
Conveys(b, r) == /\ Mine(b, r.sent) /\ Mine(b, r.sid) /\ Mine(b, r.cookie)
                 /\ r.pc = "forward" => r.user \in was[b]

Draws(b, c) ==
  /\ c.op \in HandsOut => Mine(b, c.new)
  /\ c.op = "StartSession" /\ c.user # NoUser => c.user \in was[b]

IdsMine == /\ \A b \in Browser : Mine(b, cookie[b])
           /\ \A p \in Proc : /\ Conveys(BrowserOf[p], h[p])
                              /\ Draws(BrowserOf[p], call[p])

SelfInv == UserInv /\ ProxyInv /\ IdsMine

-----------------------------------------------------------------------------
(* What the session storage does to the logins that ids stand for: it adds *)
(* the one of the id that the call has drawn.                              *)
OriginEffect(p) ==
  \/ origin' = origin
  \/ /\ call[p].pc \in ToCreate
     /\ \E ticket : /\ origin' = [origin EXCEPT ![call[p].new] = ticket]
                    /\ \/ ticket.user = NoUser
                       \/ call[p].op = "AddLoginInfo" /\ ticket = origin[call[p].sid]
                       \/ call[p].op = "StartSession" /\ ticket.user = call[p].user
                       \/ call[p].op = "RenewSession"

(* Every store call has that effect, or none, on the logins.               *)
LEMMA StepOrigin ==
  ASSUME IInv, NEW p \in Proc, Step(p)
  PROVE  OriginEffect(p)
<1>1. LocalSet(call[p])
  BY CallFacts
<1>2. CASE CreateLogin(p)
  BY <1>2 DEF CreateLogin, CreateSingle, OriginEffect, ToCreate
<1>3. CASE AddCreate(p)
  BY <1>1, <1>3 DEF AddCreate, CreateSingle, OriginEffect, ToCreate, LocalSet, OpAt
<1>4. CASE StartCreate(p)
  BY <1>1, <1>4 DEF StartCreate, CreateSingle, OriginEffect, ToCreate, LocalSet, OpAt
<1>5. CASE RenewCreate(p)
  BY <1>1, <1>5 DEF RenewCreate, CreateSingle, OriginEffect, ToCreate, LocalSet, OpAt
<1>6. CASE \/ GenerateNewSessionID(p) \/ AddGet(p) \/ AddDelete(p)
           \/ StartGet(p) \/ StartDelete(p) \/ StartPanic(p)
           \/ StartGetUser(p) \/ StartCreateUser(p) \/ StartReplaceUser(p)
  BY <1>6
  DEF OriginEffect, GenerateNewSessionID, AddGet, AddDelete, StartGet, StartDelete,
      StartPanic, StartGetUser, StartCreateUser, StartReplaceUser, Reads,
      DeleteSingle, PutUser
<1>7. CASE \/ LogoutGet(p) \/ LogoutGetUser(p) \/ LogoutReplaceUser(p)
           \/ LogoutDelete(p) \/ ReadGet(p) \/ ReadGetUser(p) \/ UpdateUser(p)
           \/ UpdateSingle(p) \/ RenewGet(p) \/ RenewDelete(p)
  BY <1>7
  DEF OriginEffect, LogoutGet, LogoutGetUser, LogoutReplaceUser, LogoutDelete,
      ReadGet, ReadGetUser, UpdateUser, UpdateSingle, RenewGet, RenewDelete, Reads,
      DeleteSingle, ReplaceSingle, PutUser
<1> QED BY <1>2, <1>3, <1>4, <1>5, <1>6, <1>7 DEF Step

(* The clock ticks between store calls.                                    *)
LEMMA StepKeepsTime ==
  ASSUME NEW p, Step(p)
  PROVE  now' = now
<1>1. CASE \/ GenerateNewSessionID(p) \/ CreateLogin(p)
           \/ AddGet(p) \/ AddDelete(p) \/ AddCreate(p)
           \/ StartGet(p) \/ StartDelete(p) \/ StartCreate(p) \/ StartPanic(p)
           \/ StartGetUser(p) \/ StartCreateUser(p) \/ StartReplaceUser(p)
  BY <1>1
  DEF GenerateNewSessionID, CreateLogin, AddGet, AddDelete, AddCreate, StartGet,
      StartDelete, StartCreate, StartPanic, StartGetUser, StartCreateUser,
      StartReplaceUser, Reads, CreateSingle, DeleteSingle, PutSingle, PutUser
<1>2. CASE \/ LogoutGet(p) \/ LogoutGetUser(p) \/ LogoutReplaceUser(p)
           \/ LogoutDelete(p) \/ ReadGet(p) \/ ReadGetUser(p) \/ UpdateUser(p)
           \/ UpdateSingle(p) \/ RenewGet(p) \/ RenewCreate(p) \/ RenewDelete(p)
  BY <1>2
  DEF LogoutGet, LogoutGetUser, LogoutReplaceUser, LogoutDelete, ReadGet,
      ReadGetUser, UpdateUser, UpdateSingle, RenewGet, RenewCreate, RenewDelete,
      Reads, CreateSingle, DeleteSingle, ReplaceSingle, PutSingle, PutUser
<1> QED BY <1>1, <1>2 DEF Step

(* The ids that somebody holds, or has seen in a list.                     *)
Seen == known \cup Listed

(* The ids that others hold or have seen keep their logins.                *)
LEMMA OthersKeepLogin ==
  ASSUME SelfInv, NEW p \in Proc, Step(p), NEW s \in Sid,
         s \in Seen \/ s # call[p].new
  PROVE  origin'[s] = origin[s]
<1>1. OriginEffect(p) /\ (call[p].pc \in ToCreate => call[p].new \notin Seen)
  BY StepOrigin DEF SelfInv, UserInv, CallsKnown, CallKnown, IInv, NewIdsFresh, Seen, Listed
<1> QED BY <1>1 DEF OriginEffect, SelfInv, UserInv, IInv, TypeOK

(* An id that somebody holds stays the browser's whose it was.             *)
LEMMA KnownStaysMine ==
  ASSUME SelfInv, NEW p \in Proc, Step(p), was' = was,
         NEW b, NEW s \in known \cup {NoSid, Same}, Mine(b, s)
  PROVE  Mine(b, s)'
<1>1. s \in Sid => s \in known
  BY NoneAssumption, SameAssumption
<1>2. s \in Sid => origin'[s] = origin[s]
  BY <1>1, OthersKeepLogin DEF Seen
<1> QED BY <1>2 DEF Mine

(* The id that a call has drawn, or draws, is the browser's.               *)
LEMMA DrawnIsMine ==
  ASSUME SelfInv, NEW p \in Proc, Step(p), was' = was,
         call[p].op \in HandsOut, NEW s \in {call[p].new} \cup Fresh
  PROVE  Mine(BrowserOf[p], s)'
<1> DEFINE b == BrowserOf[p]
           n == call[p].new
<1>1. /\ IInv /\ LocalSet(call[p]) /\ InCall(h[p], call[p]) /\ Conveys(b, h[p])
      /\ Draws(b, call[p]) /\ call[p].pc # "idle"
  BY CallFacts, StepsEffect
  DEF SelfInv, ProxyInv, HandlersHold, IdsMine, StepEffect
<1>2. CASE s \in Fresh
  <2>1. s \in Sid /\ s # n /\ origin[s] = NoDoc
    BY <1>2 DEF Fresh
  <2>2. origin'[s] = NoDoc
    BY <2>1, OthersKeepLogin
  <2> QED BY <2>2 DEF Mine
<1>3. CASE s = n /\ origin' = origin
  BY <1>1, <1>3 DEF Draws, Mine
<1>4. CASE s = n /\ origin' # origin
  <2>1. PICK ticket : /\ origin' = [origin EXCEPT ![n] = ticket]
                      /\ \/ ticket.user = NoUser
                         \/ /\ call[p].op = "AddLoginInfo"
                            /\ ticket = origin[call[p].sid]
                         \/ /\ call[p].op = "StartSession"
                            /\ ticket.user = call[p].user
                         \/ call[p].op = "RenewSession"
    BY <1>1, <1>4, StepOrigin DEF OriginEffect
  <2>2. /\ n \in Sid
        /\ call[p].op = "AddLoginInfo" => call[p].sid \in Sid
    BY <1>1, <1>4, StepOrigin DEF OriginEffect, LocalSet, HasNew
  <2>3. origin'[n] = ticket
    BY <1>1, <2>1, <2>2 DEF IInv, TypeOK
  <2>4. call[p].op # "RenewSession"
    BY DEF HandsOut
  <2>5. CASE call[p].op = "AddLoginInfo" /\ ticket = origin[call[p].sid]
    <3>1. h[p].sid = call[p].sid
      BY <1>1, <2>5 DEF InCall, OpOf, SidOf
    <3> QED BY <1>1, <1>4, <2>2, <2>3, <2>5, <3>1 DEF Conveys, Mine
  <2>6. CASE call[p].op = "StartSession" /\ ticket.user = call[p].user
    BY <1>1, <1>4, <2>3, <2>6 DEF Draws, Mine
  <2> QED BY <1>4, <2>1, <2>3, <2>4, <2>5, <2>6 DEF Mine
<1> QED BY <1>2, <1>3, <1>4

-----------------------------------------------------------------------------
(* What a handler makes of a request, and for whom it forwards it.         *)

(* The request goes on with ids out of ids; it is forwarded for one of us. *)
Carried(p, ids, us) ==
  \E d : /\ h' = [h EXCEPT ![p] = d]
         /\ {d.sent, d.sid, d.cookie} \subseteq ids
         /\ d.pc = "forward" => d.user \in us

(* The handler shows a page, and the request is over.                       *)
LEMMA ShowCarries ==
  ASSUME NEW p, NEW ids, NEW us, {NoSid, Same} \subseteq ids, Show(p)
  PROVE  Carried(p, ids, us)
<1>1. h' = [h EXCEPT ![p] = Free]
  BY DEF Show
<1>2. Free.sent = NoSid /\ Free.sid = NoSid /\ Free.cookie = Same /\ Free.pc = "free"
  BY DEF Free
<1> QED BY <1>1, <1>2 DEF Carried

(* The handler goes on to another place.                                   *)
LEMMA ThenCarries ==
  ASSUME NEW p, NEW ids, NEW us, NEW r \in Request, NEW pc \in Handler,
         {r.sent, r.sid, r.cookie} \subseteq ids, Then(p, r, pc),
         pc = "forward" => r.user \in us
  PROVE  Carried(p, ids, us)
<1> DEFINE d == [r EXCEPT !.pc = pc]
<1>1. /\ d.pc = pc /\ d.user = r.user
      /\ d.sent = r.sent /\ d.sid = r.sid /\ d.cookie = r.cookie
  BY PlaceChange
<1>2. h' = [h EXCEPT ![p] = d]
  BY DEF Then
<1> HIDE DEF d
<1> QED BY <1>1, <1>2 DEF Carried

(* The handler answers, with an id that the request may hold as its        *)
(* cookie.                                                                 *)
LEMMA RespondCarries ==
  ASSUME NEW p, NEW ids, NEW us, NEW r \in Request, NEW c \in ids, NEW to,
         {r.sent, r.sid} \subseteq ids, Respond(p, r, c, to)
  PROVE  Carried(p, ids, us)
<1> DEFINE d == [r EXCEPT !.pc = "respond", !.cookie = c, !.goto = to]
<1>1. /\ h' = [h EXCEPT ![p] = d] /\ d.pc = "respond"
      /\ d.sent = r.sent /\ d.sid = r.sid /\ d.cookie = c
  BY DEF Respond, Request
<1> HIDE DEF d
<1> QED BY <1>1 DEF Carried

(* A request with another user.                                            *)
LEMMA UserChange ==
  ASSUME NEW r \in Request, NEW u \in Owner
  PROVE  LET e == [r EXCEPT !.user = u] IN
         /\ e \in Request /\ e.user = u
         /\ e.sent = r.sent /\ e.sid = r.sid /\ e.cookie = r.cookie
  BY DEF Request

(* A route forwards for the user of an active session, and for nobody else.*)
LEMMA RouteCarries ==
  ASSUME NEW p \in Proc, NEW ids, NEW us \in SUBSET Owner, NEW r \in Request,
         {r.sent, r.sid, r.cookie, NoSid, Same} \subseteq ids,
         Active(r) => call[p].ses.user \in us,
         Route(p, r)
  PROVE  Carried(p, ids, us)
<1>1. CASE Show(p)
  BY <1>1, ShowCarries
<1>2. ASSUME NEW pc \in {"callback", "start_login", "add_login_info", "start_session",
                         "logout"},
             Then(p, r, pc)
      PROVE  Carried(p, ids, us)
  BY <1>2, ThenCarries DEF Handler, Calling
<1>3. CASE authMiddleware(p, r)
  <2>1. ASSUME NEW u \in us, Then(p, [r EXCEPT !.user = u], "forward")
        PROVE  Carried(p, ids, us)
    <3> DEFINE e == [r EXCEPT !.user = u]
    <3>1. /\ e \in Request /\ e.user = u
          /\ e.sent = r.sent /\ e.sid = r.sid /\ e.cookie = r.cookie
      BY UserChange
    <3>2. Then(p, e, "forward")
      BY <2>1
    <3> HIDE DEF e
    <3> QED BY <3>1, <3>2, ThenCarries DEF Handler
  <2> QED BY <1>1, <1>2, <1>3, <2>1 DEF authMiddleware, startSessionAndRedirect
<1>4. CASE Callback(p, r)
  BY <1>1, <1>2, <1>4 DEF Callback, ToLandingPage
<1>5. CASE \/ LoginPage(p, r) \/ FederatedLogin(p, r) \/ DebugLogin(p, r)
           \/ LogoutHandler(p, r) \/ UserHandler(p, r) \/ SessionLogout(p, r)
  BY <1>1, <1>2, <1>5
  DEF LoginPage, FederatedLogin, DebugLogin, LogoutHandler, UserHandler,
      SessionLogout, MustLogin, ToLandingPage, startSessionAndRedirect
<1> QED BY <1>3, <1>4, <1>5 DEF Route

(* So does a handler to which the session storage returns.                 *)
LEMMA ReturnedCarries ==
  ASSUME NEW p \in Proc, NEW ids, NEW us \in SUBSET Owner, NEW res, h[p] \in Request,
         {h[p].sent, h[p].sid, h[p].cookie, NoSid, Same} \subseteq ids,
         h[p].pc = "lookup" => h[p].status = "none",
         res = "active" => call[p].ses.user \in us,
         h[p].pc \in {"start_login", "add_login_info", "start_session"} /\ res = "ok"
           => call[p].new \in ids /\ call[p].new \in Sid,
         Returned(p, res)
  PROVE  Carried(p, ids, us)
<1> DEFINE r == h[p]
           new == call[p].new
<1>1. CASE Show(p)
  BY <1>1, ShowCarries
<1>2. ASSUME NEW c \in ids, NEW to, Respond(p, r, c, to)
      PROVE  Carried(p, ids, us)
  BY <1>2, RespondCarries
<1>3. CASE r.pc = "lookup" /\ Found(p, res)
  <2>1. CASE res \in {"before", "active", "idle"}
    <3> DEFINE e == [r EXCEPT !.sid = r.sent, !.status = res]
    <3>1. /\ e \in Request /\ e.sent = r.sent /\ e.sid = r.sent
          /\ e.cookie = r.cookie /\ e.status = res
      BY <2>1 DEF Request
    <3>2. Route(p, e)
      BY <1>3, <2>1 DEF Found
    <3> HIDE DEF e
    <3> QED BY <3>1, <3>2, RouteCarries DEF Active
  <2>2. CASE res \notin {"before", "active", "idle"}
    BY <1>3, <2>2, RouteCarries DEF Found, Active
  <2> QED BY <2>1, <2>2
<1>4. CASE r.pc = "start_login" /\ LoginStarted(p, res)
  <2>1. ASSUME new \in ids, new \in Sid, Then(p, [r EXCEPT !.sid = new], "add_login_info")
        PROVE  Carried(p, ids, us)
    <3> DEFINE e == [r EXCEPT !.sid = new]
    <3>1. e \in Request /\ e.sent = r.sent /\ e.sid = new /\ e.cookie = r.cookie
      BY <2>1 DEF Request
    <3>2. Then(p, e, "add_login_info")
      BY <2>1
    <3> HIDE DEF e
    <3> QED BY <2>1, <3>1, <3>2, ThenCarries DEF Handler, Calling
  <2> QED BY <1>1, <1>2, <1>4, <2>1 DEF LoginStarted
<1>5. CASE \/ r.pc = "add_login_info" /\ LoginInfoAdded(p, res)
           \/ r.pc = "start_session" /\ SessionStarted(p, res)
           \/ r.pc = "logout" /\ LoggedOut(p, res)
  BY <1>1, <1>2, <1>5 DEF LoginInfoAdded, SessionStarted, LoggedOut
<1>6. CASE r.pc = "callback" /\ FoundAgain(p, res) /\ ~ Show(p)
  <2> DEFINE e == [r EXCEPT !.sid = r.sent, !.status = res]
  <2>1. /\ res \in {"before", "active", "idle"}
        /\ \E u : u \in Owner /\ Then(p, [e EXCEPT !.user = u], "start_session")
    BY <1>6, BrowserAssumption DEF FoundAgain, IdpCallback, Confirmed
  <2>2. e \in Request /\ e.sent = r.sent /\ e.sid = r.sent /\ e.cookie = r.cookie
    BY <2>1 DEF Request
  <2> HIDE DEF e
  <2>3. PICK u \in Owner : Then(p, [e EXCEPT !.user = u], "start_session")
    BY <2>1
  <2> DEFINE d == [e EXCEPT !.user = u]
  <2>4. /\ d \in Request /\ d.sent = r.sent /\ d.sid = r.sent /\ d.cookie = r.cookie
    BY <2>2, UserChange
  <2>5. Then(p, d, "start_session")
    BY <2>3
  <2> HIDE DEF d
  <2> QED BY <2>4, <2>5, ThenCarries DEF Handler, Calling
<1> QED BY <1>1, <1>3, <1>4, <1>5, <1>6 DEF Returned

-----------------------------------------------------------------------------
(* The steps keep SelfInv.                                                 *)

(* Ids and calls that were a browser's stay its own.                       *)
StaysMine(p) ==
  /\ \A b \in Browser : was[b] \subseteq was'[b]
  /\ \A b \in Browser : \A s \in known \cup {NoSid, Same} : Mine(b, s) => Mine(b, s)'
  /\ \A q \in Proc : q # p => \A s \in {call[q].new} :
       Mine(BrowserOf[q], s) => Mine(BrowserOf[q], s)'

(* Without a new login every id stays what it is.                          *)
LEMMA QuietStays ==
  ASSUME NEW p \in Proc, origin' = origin, \A b \in Browser : was[b] \subseteq was'[b]
  PROVE  StaysMine(p) /\ \A b \in Browser : \A s : Mine(b, s) => Mine(b, s)'
<1>1. ASSUME NEW b \in Browser, NEW s, Mine(b, s) PROVE Mine(b, s)'
  BY <1>1 DEF Mine
<1>2. \A q \in Proc : BrowserOf[q] \in Browser
  BY BrowserAssumption
<1> QED BY <1>1, <1>2 DEF StaysMine

(* A store call of p leaves the ids and calls of the others with them.     *)
LEMMA StepStays ==
  ASSUME SelfInv, NEW p \in Proc, Step(p), was' = was
  PROVE  StaysMine(p)
<1>1. ASSUME NEW q \in Proc, q # p, NEW s \in {call[q].new}, Mine(BrowserOf[q], s)
      PROVE  Mine(BrowserOf[q], s)'
  <2>1. s \in Sid => s # call[p].new
    BY <1>1, NoneAssumption DEF SelfInv, UserInv, IInv, NewIdsFresh
  <2>2. s \in Sid => origin'[s] = origin[s]
    BY <2>1, OthersKeepLogin
  <2> QED BY <1>1, <2>2 DEF Mine
<1> QED BY <1>1, KnownStaysMine DEF StaysMine

(* The request of p moves on, with ids that are its browser's.             *)
LEMMA MoveKeeps ==
  ASSUME SelfInv, NEW p \in Proc, NEW d, h' = [h EXCEPT ![p] = d], StaysMine(p),
         \A q \in Proc : q # p => call'[q] = call[q],
         Conveys(BrowserOf[p], d)', Draws(BrowserOf[p], call[p])',
         \A b \in Browser : Mine(b, cookie[b])'
  PROVE  IdsMine'
<1>1. \A q \in Proc : h'[q] = IF q = p THEN d ELSE h[q]
  BY DEF SelfInv, ProxyInv, ProxyTypeOK
<1>2. ASSUME NEW q \in Proc, q # p
      PROVE  (Conveys(BrowserOf[q], h[q]) /\ Draws(BrowserOf[q], call[q]))'
  <2>1. /\ Conveys(BrowserOf[q], h[q]) /\ Draws(BrowserOf[q], call[q])
        /\ BrowserOf[q] \in Browser
    BY BrowserAssumption DEF SelfInv, IdsMine
  <2>2. {h[q].sent, h[q].sid, h[q].cookie} \subseteq known \cup {NoSid, Same}
    BY DEF SelfInv, ProxyInv, HandlersHold, Handled, Ids
  <2>3. h'[q] = h[q] /\ call'[q] = call[q]
    BY <1>1, <1>2
  <2> QED BY <1>2, <2>1, <2>2, <2>3 DEF StaysMine, Conveys, Draws
<1>3. (Conveys(BrowserOf[p], h[p]) /\ Draws(BrowserOf[p], call[p]))'
  BY <1>1 DEF Conveys
<1> QED BY <1>2, <1>3 DEF IdsMine

(* What p and the browsers hold.                                           *)
LEMMA SelfFacts ==
  ASSUME SelfInv, NEW p \in Proc
  PROVE  /\ IInv /\ ProxyInv /\ call \in [Proc -> Call]
         /\ h[p] \in Request /\ h[p].user \in Owner /\ BrowserOf[p] \in Browser
         /\ InCall(h[p], call[p])
         /\ Conveys(BrowserOf[p], h[p]) /\ Draws(BrowserOf[p], call[p])
         /\ {h[p].sent, h[p].sid, h[p].cookie} \subseteq known \cup {NoSid, Same}
         /\ \A b \in Browser : Mine(b, cookie[b]) /\ cookie[b] \in known \cup {NoSid}
  BY BrowserAssumption
  DEF SelfInv, ProxyInv, IInv, TypeOK, HandlersHold, Handled, Ids, IdsMine,
      BrowsersHold, Request

(* A cookie that stays, or is replaced by one of the browser's ids.        *)
LEMMA CookiesStay ==
  ASSUME SelfInv, NEW p \in Proc, StaysMine(p), cookie' = cookie
  PROVE  \A b \in Browser : Mine(b, cookie[b])'
  BY SelfFacts DEF StaysMine

(* A request of p that goes on with the browser's ids, for a user of its.  *)
LEMMA CarriedKeeps ==
  ASSUME SelfInv, NEW p \in Proc, NEW ids, NEW us, Carried(p, ids, us), StaysMine(p),
         \A s \in ids : Mine(BrowserOf[p], s)',
         us \subseteq was'[BrowserOf[p]],
         \A q \in Proc : q # p => call'[q] = call[q],
         Draws(BrowserOf[p], call[p])', cookie' = cookie
  PROVE  IdsMine'
<1>1. PICK d : /\ h' = [h EXCEPT ![p] = d]
               /\ {d.sent, d.sid, d.cookie} \subseteq ids
               /\ d.pc = "forward" => d.user \in us
  BY DEF Carried
<1>2. Conveys(BrowserOf[p], d)'
  BY <1>1 DEF Conveys
<1> QED BY <1>1, <1>2, MoveKeeps, CookiesStay

(* A request arrives with the browser's cookie.                            *)
LEMMA ArriveMine ==
  ASSUME SelfInv, NEW p \in Proc, Arrive(p)
  PROVE  IdsMine'
<1> DEFINE b == BrowserOf[p]
<1>1. PICK r \in Requests(b) :
        IF cookie[b] = NoSid THEN Route(p, r) /\ UNCHANGED vars
        ELSE /\ Begin(p, "FindBySessionToken", cookie[b], NoUser, NoDirectives,
                      "read_get")
             /\ Then(p, [r EXCEPT !.sent = cookie[b], !.late = cookie[b] \in out],
                     "lookup")
  BY DEF Arrive
<1>2. /\ r \in Request /\ r.pc = "free" /\ r.status = "none" /\ r.sid = NoSid
      /\ r.sent = NoSid /\ r.cookie = Same
  BY SelfFacts, RequestHandled DEF Handled
<1>3. origin' = origin /\ was' = was /\ cookie' = cookie
  BY <1>1 DEF Arrive, Begin, vars
<1>4. StaysMine(p) /\ \A c \in Browser : \A s : Mine(c, s) => Mine(c, s)'
  BY <1>3, QuietStays
<1>5. \A c \in Browser : Mine(c, NoSid) /\ Mine(c, Same)
  BY NoneAssumption, SameAssumption DEF Mine
<1>6. b \in Browser /\ Mine(b, cookie[b]) /\ cookie[b] \in known \cup {NoSid}
  BY SelfFacts
<1>7. call \in [Proc -> Call] /\ IInv /\ known \subseteq Sid
  BY SelfFacts DEF IInv, TypeOK
<1>8. CASE Route(p, r) /\ UNCHANGED vars
  <2>1. Carried(p, {NoSid, Same}, {})
    BY <1>2, <1>8, RouteCarries DEF Active
  <2>2. Draws(b, call[p])'
    <3>1. Draws(b, call[p]) /\ call' = call
      BY <1>8, SelfFacts DEF vars
    <3> QED BY <1>3, <1>4, <1>6, <3>1 DEF Draws, Mine
  <2> QED BY <1>3, <1>4, <1>5, <1>6, <1>8, <2>1, <2>2, CarriedKeeps DEF vars
<1>9. CASE /\ cookie[b] # NoSid
           /\ Begin(p, "FindBySessionToken", cookie[b], NoUser, NoDirectives, "read_get")
           /\ Then(p, [r EXCEPT !.sent = cookie[b], !.late = cookie[b] \in out], "lookup")
  <2> DEFINE l == cookie[b] \in out
             e == [r EXCEPT !.sent = cookie[b], !.late = l]
             c == [Idle EXCEPT !.pc = "read_get", !.op = "FindBySessionToken",
                               !.sid = cookie[b], !.user = NoUser,
                               !.dirs = NoDirectives]
  <2>1. /\ e \in Request /\ e.sent = cookie[b] /\ e.pc = r.pc /\ e.kind = r.kind
        /\ e.arg = r.arg /\ e.sid = r.sid /\ e.status = r.status
        /\ e.cookie = r.cookie /\ e.goto = r.goto
    <3>1. l \in BOOLEAN
      OBVIOUS
    <3>2. cookie[b] \in Sid
      BY <1>6, <1>7, <1>9
    <3> HIDE DEF l
    <3> QED BY <1>2, <3>1, <3>2, CookieSent
  <2>2. Then(p, e, "lookup")
    BY <1>9
  <2> HIDE DEF e
  <2>3. Carried(p, {NoSid, Same, cookie[b]}, {})
    BY <1>2, <2>1, <2>2, ThenCarries DEF Handler, Calling
  <2>4. call' = [call EXCEPT ![p] = c] /\ c.op = "FindBySessionToken"
    BY <1>9 DEF Begin, GoOn, Idle
  <2> HIDE DEF c
  <2>5. Draws(b, call[p])'
    BY <1>7, <2>4 DEF Draws, HandsOut
  <2> QED BY <1>3, <1>4, <1>5, <1>6, <1>7, <2>3, <2>4, <2>5, CarriedKeeps
<1> QED BY <1>1, <1>8, <1>9

(* A handler calls the session storage; its person logs in as that user.   *)
LEMMA CallMine ==
  ASSUME SelfInv, NEW p \in Proc,
         CallStartLogin(p) \/ CallStartSession(p) \/ CallOther(p)
  PROVE  IdsMine'
<1> DEFINE b == BrowserOf[p]
           r == h[p]
<1>1. /\ r \in Request /\ r.user \in Owner /\ b \in Browser /\ Conveys(b, r)
      /\ call \in [Proc -> Call] /\ was \in [Browser -> SUBSET User]
      /\ h \in [Proc -> Request]
  BY SelfFacts DEF SelfInv, ProxyInv, ProxyTypeOK
<1>2. PICK op, s, u, dirs, pc :
        /\ Begin(p, op, s, u, dirs, pc)
        /\ op = "StartSession" => CallStartSession(p) /\ u = r.user
  BY DEF CallStartLogin, CallStartSession, CallOther
<1>3. /\ h' = h /\ cookie' = cookie /\ origin' = origin
      /\ \A a \in Browser : was[a] \subseteq was'[a]
      /\ CallStartSession(p) /\ r.user # NoUser => r.user \in was'[b]
  BY <1>1, <1>2 DEF CallStartLogin, CallStartSession, CallOther, proxyVars, Begin
<1> DEFINE c == [Idle EXCEPT !.pc = pc, !.op = op, !.sid = s, !.user = u,
                             !.dirs = dirs]
<1>4. call' = [call EXCEPT ![p] = c] /\ c.op = op /\ c.user = u /\ c.new = NoSid
  BY <1>2 DEF Begin, GoOn, Idle
<1> HIDE DEF c
<1>5. StaysMine(p) /\ \A a \in Browser : \A t : Mine(a, t) => Mine(a, t)'
  BY <1>3, QuietStays
<1>6. Draws(b, call[p])'
  <2>1. call'[p] = c
    BY <1>1, <1>4
  <2>2. Mine(b, NoSid)'
    BY NoneAssumption DEF Mine
  <2> QED BY <1>2, <1>3, <1>4, <2>1, <2>2 DEF Draws
<1>7. Conveys(b, r)'
  BY <1>1, <1>3, <1>5 DEF Conveys
<1> QED BY <1>1, <1>3, <1>4, <1>5, <1>6, <1>7, MoveKeeps, CookiesStay DEF Conveys

(* The session storage works for p.                                        *)
LEMMA ServeMine ==
  ASSUME SelfInv, NEW p \in Proc, Serve(p)
  PROVE  IdsMine'
<1> DEFINE b == BrowserOf[p]
           r == h[p]
           new == call[p].new
<1>1. /\ StepEffect(p) /\ StaysMine(p) /\ IInv /\ ProxyInv /\ r \in Request
      /\ b \in Browser /\ call \in [Proc -> Call] /\ h \in [Proc -> Request]
      /\ InCall(r, call[p]) /\ Conveys(b, r) /\ Draws(b, call[p])
      /\ {r.sent, r.sid, r.cookie} \subseteq known \cup {NoSid, Same}
      /\ was' = was /\ cookie' = cookie /\ was[b] \subseteq Owner
  BY StepsEffect, StepStays, SelfFacts
  DEF Serve, SelfInv, ProxyInv, ProxyTypeOK, Owner
<1>2. PICK c : call' = [call EXCEPT ![p] = c] /\ (c = Idle \/ SameCall(call[p], c))
  BY <1>1 DEF StepEffect
<1>3. call'[p] = c /\ \A q \in Proc : q # p => call'[q] = call[q]
  BY <1>1, <1>2
<1>4. Mine(b, NoSid)' /\ Mine(b, Same)'
  BY NoneAssumption, SameAssumption DEF Mine
<1>5. \A s \in {r.sent, r.sid, r.cookie, NoSid, Same} : Mine(b, s)'
  BY <1>1, <1>4 DEF StaysMine, Conveys
<1>6. Draws(b, call[p])'
  <2>1. CASE c = Idle
    BY <1>3, <2>1 DEF Draws, Idle, HandsOut
  <2>2. CASE SameCall(call[p], c)
    <3>1. c.op \in HandsOut => Mine(b, c.new)'
      BY <1>1, <2>2, DrawnIsMine DEF SameCall, Serve
    <3> QED BY <1>1, <1>3, <2>2, <3>1 DEF Draws, SameCall
  <2> QED BY <1>2, <2>1, <2>2
<1>7. CASE Returned(p, reply')
  <2> DEFINE ids == {r.sent, r.sid, r.cookie, NoSid, Same}
                      \cup (IF call[p].op \in HandsOut THEN {new} ELSE {})
  <2>1. \A s \in ids : Mine(b, s)'
    BY <1>1, <1>5, DrawnIsMine DEF Serve
  <2>2. reply' = "active" => call[p].ses.user \in was[b]
    <3>1. SUFFICES ASSUME reply' = "active" PROVE call[p].ses.user \in was[b]
      OBVIOUS
    <3>2. call[p].pc = "read_get_user"
      BY <1>1, <3>1 DEF StepEffect
    <3>3. /\ SameLogin(call[p].sid, call[p].ses) /\ call[p].ses.user \in User
          /\ call[p].op \in {"FindBySessionToken", "UpdateSessionData"}
      BY <1>1, <3>2, CallFacts DEF LocalSet, HasSes, HasUser, UserIn, OpAt
    <3>4. call[p].sid \in {r.sent, r.sid}
      BY <1>1, <3>2, <3>3 DEF InCall, OpOf, SidOf
    <3>5. Mine(b, call[p].sid)
      BY <1>1, <3>4 DEF Conveys
    <3> QED BY <3>3, <3>5, NoneAssumption DEF SameLogin, Mine
  <2>3. /\ r.pc = "lookup" => r.status = "none"
        /\ r.pc \in {"start_login", "add_login_info", "start_session"}
             => call[p].op \in HandsOut
    BY <1>1, IdleOrIn DEF Handled, Set, InCall, OpOf, HandsOut, StepEffect
  <2>4. known' \subseteq Sid
    BY <1>1, NextIInv DEF Serve, Next, IInv, TypeOK
  <2>5. r.pc \in {"start_login", "add_login_info", "start_session"} /\ reply' = "ok"
          => new \in ids /\ new \in Sid
    BY <1>1, <2>3, <2>4 DEF StepEffect
  <2>6. {r.sent, r.sid, r.cookie, NoSid, Same} \subseteq ids
    OBVIOUS
  <2> HIDE DEF ids
  <2>7. Carried(p, ids, was[b])
    BY <1>1, <1>7, <2>2, <2>3, <2>5, <2>6, ReturnedCarries
  <2> QED BY <1>1, <1>3, <1>6, <2>1, <2>7, CarriedKeeps
<1>8. CASE h' \in {h, [h EXCEPT ![p].goto = Landing(p)]} /\ r.pc # "forward"
  <2>1. PICK d : /\ h' = [h EXCEPT ![p] = d] /\ d.pc = r.pc
                 /\ d.sent = r.sent /\ d.sid = r.sid /\ d.cookie = r.cookie
    <3>1. CASE h' = h
      BY <1>1, <3>1
    <3>2. CASE h' = [h EXCEPT ![p].goto = Landing(p)]
      <4> DEFINE l == Landing(p)
                 e == [r EXCEPT !.goto = l]
      <4>1. h' = [h EXCEPT ![p] = e]
        BY <1>1, <3>2
      <4> HIDE DEF l
      <4>2. /\ e.pc = r.pc /\ e.sent = r.sent /\ e.sid = r.sid
            /\ e.cookie = r.cookie
        BY <1>1 DEF Request
      <4> HIDE DEF e
      <4> QED BY <4>1, <4>2
    <3> QED BY <1>8, <3>1, <3>2
  <2>2. Conveys(b, d)'
    BY <1>5, <1>8, <2>1 DEF Conveys
  <2> QED BY <1>1, <1>3, <1>6, <2>1, <2>2, MoveKeeps, CookiesStay
<1>9. r.pc # "forward"
  BY <1>1 DEF StepEffect, InCall, Calling
<1> QED BY <1>7, <1>8, <1>9 DEF Serve

(* A response reaches its browser.                                         *)
LEMMA DeliverMine ==
  ASSUME SelfInv, NEW p \in Proc, Deliver(p)
  PROVE  IdsMine'
<1> DEFINE b == BrowserOf[p]
           r == h[p]
<1>1. /\ b \in Browser /\ Mine(b, r.cookie) /\ Draws(b, call[p])
      /\ \A a \in Browser : Mine(a, cookie[a])
      /\ cookie \in [Browser -> Sid \cup {NoSid}]
  BY SelfFacts DEF Conveys, SelfInv, ProxyInv, ProxyTypeOK
<1>2. /\ origin' = origin /\ was' = was /\ call' = call /\ h' = [h EXCEPT ![p] = Free]
      /\ cookie' = IF r.cookie = Same THEN cookie ELSE [cookie EXCEPT ![b] = r.cookie]
  BY DEF Deliver, vars
<1>3. StaysMine(p) /\ \A a \in Browser : \A s : Mine(a, s) => Mine(a, s)'
  BY <1>2, QuietStays
<1>4. Conveys(b, Free)'
  BY NoneAssumption, SameAssumption DEF Free, Conveys, Mine
<1>5. Draws(b, call[p])'
  BY <1>1, <1>2, <1>3 DEF Draws
<1>6. \A a \in Browser : Mine(a, cookie[a])'
  <2>1. ASSUME NEW a \in Browser PROVE Mine(a, cookie[a])'
    <3>1. cookie'[a] \in {cookie[a]} \/ (a = b /\ cookie'[a] = r.cookie)
      BY <1>1, <1>2
    <3> QED BY <1>1, <1>2, <3>1 DEF Mine
  <2> QED BY <2>1
<1> QED BY <1>2, <1>3, <1>4, <1>5, <1>6, MoveKeeps

(* The service answers, or a request ends early.                           *)
LEMMA OtherMine ==
  ASSUME SelfInv, NEW p \in Proc, Backend(p) \/ Dies(p) \/ Lost(p)
  PROVE  IdsMine'
<1> DEFINE b == BrowserOf[p]
           r == h[p]
<1>1. /\ origin' = origin /\ was' = was /\ cookie' = cookie
      /\ call' = call \/ call' = [call EXCEPT ![p] = Idle]
  BY DEF Backend, Dies, Crash, Fails, GoOn, Lost, vars
<1>2. /\ call \in [Proc -> Call] /\ b \in Browser /\ Draws(b, call[p])
      /\ Conveys(b, r) /\ r \in Request
  BY SelfFacts
<1>3. StaysMine(p) /\ \A a \in Browser : \A s : Mine(a, s) => Mine(a, s)'
  BY <1>1, QuietStays
<1>4. Draws(b, call[p])'
  <2>1. Draws(b, Idle)'
    BY DEF Draws, Idle, HandsOut
  <2>2. call'[p] \in {call[p], Idle}
    BY <1>1, <1>2
  <2> QED BY <1>1, <1>2, <1>3, <2>1, <2>2 DEF Draws
<1>5. \A q \in Proc : q # p => call'[q] = call[q]
  BY <1>1, <1>2
<1>6. \A s \in {r.sent, r.sid, r.cookie, NoSid, Same} : Mine(b, s)'
  BY <1>2, <1>3, NoneAssumption, SameAssumption DEF Conveys, Mine
<1>7. Carried(p, {r.sent, r.sid, r.cookie, NoSid, Same}, {})
  <2>1. CASE h' = [h EXCEPT ![p] = Free]
    BY <2>1, ShowCarries DEF Show
  <2>2. ASSUME NEW dirs \in Directives, Then(p, [r EXCEPT !.dirs = dirs], "update")
        PROVE  Carried(p, {r.sent, r.sid, r.cookie, NoSid, Same}, {})
    <3> DEFINE e == [r EXCEPT !.dirs = dirs]
    <3>1. e \in Request /\ e.sent = r.sent /\ e.sid = r.sid /\ e.cookie = r.cookie
      BY <1>2 DEF Request
    <3>2. Then(p, e, "update")
      BY <2>2
    <3> HIDE DEF e
    <3> QED BY <3>1, <3>2, ThenCarries DEF Handler, Calling
  <2> QED BY <2>1, <2>2 DEF Backend, Dies, Lost, Show
<1> QED BY <1>1, <1>3, <1>4, <1>5, <1>6, <1>7, CarriedKeeps

-----------------------------------------------------------------------------
(* At the start no browser and no request holds an id.                     *)
LEMMA InitSelfInv == ProxyInit => SelfInv
<1> SUFFICES ASSUME ProxyInit PROVE SelfInv
  OBVIOUS
<1>1. UserInv /\ ProxyInv
  BY InitUserInv, InitProxyInv DEF ProxyInit
<1>2. IdsMine
  BY BrowserAssumption, NoneAssumption, SameAssumption
  DEF ProxyInit, Init, IdsMine, Conveys, Draws, Mine, Free, Idle, HandsOut
<1> QED BY <1>1, <1>2 DEF SelfInv

(* Every step of the proxy keeps SelfInv.                                  *)
LEMMA NextSelfInv == SelfInv /\ [ProxyNext]_allVars => SelfInv'
<1> SUFFICES ASSUME SelfInv, [ProxyNext]_allVars PROVE SelfInv'
  OBVIOUS
<1>1. UserInv' /\ ProxyInv'
  BY StepMaps, NextUserInv, NextProxyInv DEF SelfInv
<1>2. CASE ProxyTick \/ UNCHANGED allVars
  <2>1. IdsMine'
    BY <1>2
    DEF ProxyTick, Tick, allVars, vars, proxyVars, SelfInv, IdsMine, Conveys, Draws, Mine
  <2> QED BY <1>1, <2>1 DEF SelfInv
<1>3. ASSUME NEW b \in Browser, Forget(b) PROVE SelfInv'
  <2>1. IdsMine'
    <3>1. ASSUME NEW a \in Browser PROVE Mine(a, cookie[a])'
      <4>1. cookie'[a] \in {cookie[a], NoSid} /\ Mine(a, cookie[a])
        BY <1>3 DEF Forget, SelfInv, ProxyInv, ProxyTypeOK, IdsMine
      <4> QED BY <1>3, <4>1, NoneAssumption DEF Forget, vars, Mine
    <3>2. \A p \in Proc : (Conveys(BrowserOf[p], h[p]) /\ Draws(BrowserOf[p], call[p]))'
      BY <1>3 DEF Forget, vars, SelfInv, IdsMine, Conveys, Draws, Mine
    <3> QED BY <3>1, <3>2 DEF IdsMine
  <2> QED BY <1>1, <2>1 DEF SelfInv
<1> QED BY <1>1, <1>2, <1>3, ArriveMine, CallMine, ServeMine, DeliverMine, OtherMine
     DEF ProxyNext, SelfInv

-----------------------------------------------------------------------------
(* Whom a login may name.                                                  *)

(* A login names a user whom its person may be.  Only in the development   *)
(* mode is there a request that picks one.                                 *)
Named(p, r) == /\ r.kind = "debug" => DevMode
               /\ r.pc = "start_session" => r.user \in Self(BrowserOf[p]) \cup {NoUser}

PersonInv == /\ \A b \in Browser : was[b] \subseteq Self(b)
             /\ \A p \in Proc : Named(p, h[p])

(* The handler of p goes on with such a request.                           *)
Names(p) == \E d : h' = [h EXCEPT ![p] = d] /\ Named(p, d)

LEMMA ShowNames ==
  ASSUME NEW p, Show(p)
  PROVE  Names(p)
<1>1. Free.kind = "page" /\ Free.pc = "free"
  BY DEF Free
<1> QED BY <1>1 DEF Show, Names, Named

LEMMA ThenNames ==
  ASSUME NEW p, NEW r \in Request, NEW pc \in Handler, Then(p, r, pc),
         r.kind = "debug" => DevMode,
         pc = "start_session" => r.user \in Self(BrowserOf[p]) \cup {NoUser}
  PROVE  Names(p)
<1> DEFINE d == [r EXCEPT !.pc = pc]
<1>1. d.pc = pc /\ d.kind = r.kind /\ d.user = r.user
  BY PlaceChange
<1>2. h' = [h EXCEPT ![p] = d]
  BY DEF Then
<1> HIDE DEF d
<1> QED BY <1>1, <1>2 DEF Names, Named

LEMMA RespondNames ==
  ASSUME NEW p, NEW r \in Request, NEW c, NEW to, Respond(p, r, c, to),
         r.kind = "debug" => DevMode
  PROVE  Names(p)
<1> DEFINE d == [r EXCEPT !.pc = "respond", !.cookie = c, !.goto = to]
<1>1. d.pc = "respond" /\ d.kind = r.kind
  BY DEF Request
<1>2. h' = [h EXCEPT ![p] = d]
  BY DEF Respond
<1> HIDE DEF d
<1> QED BY <1>1, <1>2 DEF Names, Named

(* A route names a user only where the request picks one.                  *)
LEMMA RouteNames ==
  ASSUME NEW p \in Proc, NEW r \in Request, r.kind = "debug" => DevMode,
         Active(r) => call[p].ses.user \in Owner, Route(p, r)
  PROVE  Names(p)
<1>1. CASE Show(p)
  BY <1>1, ShowNames
<1>2. ASSUME NEW pc \in {"callback", "start_login", "add_login_info", "logout"},
             Then(p, r, pc)
      PROVE  Names(p)
  BY <1>2, ThenNames DEF Handler, Calling
<1>3. CASE authMiddleware(p, r)
  <2>1. CASE Active(r) /\ Then(p, [r EXCEPT !.user = call[p].ses.user], "forward")
    <3> DEFINE e == [r EXCEPT !.user = call[p].ses.user]
    <3>1. e \in Request /\ e.kind = r.kind
      BY <2>1 DEF Request
    <3>2. Then(p, e, "forward")
      BY <2>1
    <3> HIDE DEF e
    <3> QED BY <3>1, <3>2, ThenNames DEF Handler
  <2> QED BY <1>1, <1>2, <1>3, <2>1 DEF authMiddleware, startSessionAndRedirect
<1>4. CASE DebugLogin(p, r)
  <2>1. CASE Then(p, r, "start_session")
    <3>1. r.user \in Self(BrowserOf[p]) \cup {NoUser}
      BY <1>4 DEF DebugLogin, Self, Request, Owner
    <3> QED BY <2>1, <3>1, ThenNames DEF Handler, Calling
  <2> QED BY <1>1, <1>4, <2>1 DEF DebugLogin, ToLandingPage
<1>5. CASE \/ LoginPage(p, r) \/ FederatedLogin(p, r) \/ Callback(p, r)
           \/ LogoutHandler(p, r) \/ UserHandler(p, r) \/ SessionLogout(p, r)
  BY <1>1, <1>2, <1>5
  DEF LoginPage, FederatedLogin, Callback, LogoutHandler, UserHandler,
      SessionLogout, MustLogin, ToLandingPage, startSessionAndRedirect
<1> QED BY <1>3, <1>4, <1>5 DEF Route

(* A handler to which the session storage returns names the user of the    *)
(* account that the provider has confirmed, or of the account "".          *)
LEMMA ReturnedNames ==
  ASSUME NEW p \in Proc, NEW res, h[p] \in Request, h[p].kind = "debug" => DevMode,
         h[p].pc = "lookup" => h[p].status = "none",
         res = "active" => call[p].ses.user \in Owner,
         h[p].pc = "start_login" /\ res = "ok" => call[p].new \in Sid,
         Returned(p, res)
  PROVE  Names(p)
<1> DEFINE r == h[p]
           new == call[p].new
           found == [r EXCEPT !.sid = r.sent, !.status = res]
<1>1. CASE Show(p)
  BY <1>1, ShowNames
<1>2. ASSUME NEW c, NEW to, Respond(p, r, c, to)
      PROVE  Names(p)
  BY <1>2, RespondNames
<1>3. res \in {"before", "active", "idle"}
        => found \in Request /\ found.kind = r.kind /\ found.status = res
  BY DEF Request
<1>4. CASE r.pc = "lookup" /\ Found(p, res)
  <2>1. CASE res \in {"before", "active", "idle"}
    <3>1. Route(p, found)
      BY <1>4, <2>1 DEF Found
    <3> HIDE DEF found
    <3> QED BY <1>3, <2>1, <3>1, RouteNames DEF Active
  <2>2. CASE res \notin {"before", "active", "idle"}
    BY <1>4, <2>2, RouteNames DEF Found, Active
  <2> QED BY <2>1, <2>2
<1>5. CASE r.pc = "callback" /\ FoundAgain(p, res) /\ ~ Show(p)
  <2>1. PICK u \in {UserOf[BrowserOf[p]], BlankUser} \ {NoUser} :
               Then(p, [found EXCEPT !.user = u], "start_session")
    BY <1>5 DEF FoundAgain, IdpCallback, Confirmed
  <2>2. found \in Request /\ found.kind = r.kind
    BY <1>3, <1>5 DEF FoundAgain
  <2> HIDE DEF found
  <2> DEFINE e == [found EXCEPT !.user = u]
  <2>3. u \in Owner /\ u \in Self(BrowserOf[p])
    BY <2>1, BrowserAssumption DEF Self, Owner
  <2>4. e \in Request /\ e.kind = r.kind /\ e.user = u
    BY <2>2, <2>3 DEF Request
  <2>5. Then(p, e, "start_session")
    BY <2>1
  <2> HIDE DEF e
  <2> QED BY <2>3, <2>4, <2>5, ThenNames DEF Handler, Calling
<1>6. CASE r.pc = "start_login" /\ LoginStarted(p, res)
  <2>1. ASSUME new \in Sid, Then(p, [r EXCEPT !.sid = new], "add_login_info")
        PROVE  Names(p)
    <3> DEFINE e == [r EXCEPT !.sid = new]
    <3>1. e \in Request /\ e.kind = r.kind
      BY <2>1 DEF Request
    <3>2. Then(p, e, "add_login_info")
      BY <2>1
    <3> HIDE DEF e
    <3> QED BY <3>1, <3>2, ThenNames DEF Handler, Calling
  <2> QED BY <1>1, <1>2, <1>6, <2>1 DEF LoginStarted
<1>7. CASE \/ r.pc = "add_login_info" /\ LoginInfoAdded(p, res)
           \/ r.pc = "start_session" /\ SessionStarted(p, res)
           \/ r.pc = "logout" /\ LoggedOut(p, res)
  BY <1>1, <1>2, <1>7 DEF LoginInfoAdded, SessionStarted, LoggedOut
<1> QED BY <1>1, <1>4, <1>5, <1>6, <1>7 DEF Returned

(* The request of p moves on, and nobody logs in.                          *)
LEMMA NamesKeep ==
  ASSUME ProxyInv, PersonInv, NEW p \in Proc, Names(p), was' = was
  PROVE  PersonInv'
<1>1. PICK d : h' = [h EXCEPT ![p] = d] /\ Named(p, d)
  BY DEF Names
<1>2. \A q \in Proc : h'[q] = IF q = p THEN d ELSE h[q]
  BY <1>1 DEF ProxyInv, ProxyTypeOK
<1> QED BY <1>1, <1>2 DEF PersonInv, Named, Self

(* A request arrives.                                                      *)
LEMMA ArriveNames ==
  ASSUME ProxyInv, NEW p \in Proc, Arrive(p)
  PROVE  Names(p)
<1> DEFINE b == BrowserOf[p]
<1>1. PICK r \in Requests(b) :
        IF cookie[b] = NoSid THEN Route(p, r) /\ UNCHANGED vars
        ELSE Then(p, [r EXCEPT !.sent = cookie[b], !.late = cookie[b] \in out], "lookup")
  BY DEF Arrive
<1>2. r \in Request /\ r.status = "none" /\ cookie[b] \in Sid \cup {NoSid}
  BY BrowserAssumption, RequestHandled DEF Handled, ProxyInv, ProxyTypeOK
<1>3. r.kind = "debug" => DevMode
  BY DEF Requests, Free
<1>4. CASE Route(p, r)
  BY <1>2, <1>3, <1>4, RouteNames DEF Active
<1>5. CASE /\ cookie[b] # NoSid
           /\ Then(p, [r EXCEPT !.sent = cookie[b], !.late = cookie[b] \in out], "lookup")
  <2> DEFINE l == cookie[b] \in out
             e == [r EXCEPT !.sent = cookie[b], !.late = l]
  <2>1. e \in Request /\ e.kind = r.kind
    <3>1. l \in BOOLEAN
      OBVIOUS
    <3> HIDE DEF l
    <3> QED BY <1>2, <1>5, <3>1, CookieSent
  <2>2. Then(p, e, "lookup")
    BY <1>5
  <2> HIDE DEF e
  <2> QED BY <1>3, <2>1, <2>2, ThenNames DEF Handler, Calling
<1> QED BY <1>1, <1>4, <1>5

(* The session storage works for p.                                        *)
LEMMA ServeNames ==
  ASSUME ProxyInv, PersonInv, NEW p \in Proc, Serve(p)
  PROVE  Names(p)
<1> DEFINE r == h[p]
<1>1. /\ StepEffect(p) /\ r \in Request /\ Handled(r, known) /\ InCall(r, call[p])
      /\ h \in [Proc -> Request] /\ known' \subseteq Sid /\ Named(p, r)
  BY StepsEffect, IdleOrIn, StepMaps, NextIInv
  DEF Serve, Next, ProxyInv, ProxyTypeOK, HandlersHold, IInv, TypeOK, PersonInv
<1>2. CASE Returned(p, reply')
  <2>1. r.pc = "lookup" => r.status = "none"
    BY <1>1 DEF Handled, Set
  <2>2. reply' = "active" => call[p].ses.user \in Owner
    BY <1>1, CallFacts DEF StepEffect, ProxyInv, LocalSet, HasSes, Call, SingleDoc
  <2>3. r.pc = "start_login" /\ reply' = "ok" => call[p].new \in Sid
    BY <1>1 DEF StepEffect, InCall, OpOf, HandsOut
  <2> QED BY <1>1, <1>2, <2>1, <2>2, <2>3, ReturnedNames DEF Named
<1>3. CASE h' = h
  BY <1>1, <1>3 DEF Names
<1>4. CASE h' = [h EXCEPT ![p].goto = Landing(p)]
  <2> DEFINE l == Landing(p)
             e == [r EXCEPT !.goto = l]
  <2>1. h' = [h EXCEPT ![p] = e]
    BY <1>1, <1>4
  <2> HIDE DEF l
  <2>2. e.pc = r.pc /\ e.kind = r.kind /\ e.user = r.user
    BY <1>1 DEF Request
  <2> HIDE DEF e
  <2> QED BY <1>1, <2>1, <2>2 DEF Names, Named
<1> QED BY <1>2, <1>3, <1>4 DEF Serve

(* The service answers, or a request ends.                                 *)
LEMMA EndNames ==
  ASSUME ProxyInv, PersonInv, NEW p \in Proc,
         Backend(p) \/ Deliver(p) \/ Dies(p) \/ Lost(p)
  PROVE  Names(p)
<1>1. h[p] \in Request /\ Named(p, h[p])
  BY IdleOrIn DEF PersonInv
<1>2. CASE Show(p)
  BY <1>2, ShowNames
<1>3. ASSUME NEW dirs \in Directives, Then(p, [h[p] EXCEPT !.dirs = dirs], "update")
      PROVE  Names(p)
  <2> DEFINE e == [h[p] EXCEPT !.dirs = dirs]
  <2>1. e \in Request /\ e.kind = h[p].kind
    BY <1>1 DEF Request
  <2>2. Then(p, e, "update")
    BY <1>3
  <2> HIDE DEF e
  <2> QED BY <1>1, <2>1, <2>2, ThenNames DEF Named, Handler, Calling
<1> QED BY <1>2, <1>3 DEF Backend, Deliver, Dies, Lost, Show

(* Nobody has logged in at the start.                                      *)
LEMMA InitPersonInv == ProxyInit => PersonInv
  BY DEF ProxyInit, PersonInv, Named, Free

(* Every step keeps PersonInv.                                             *)
LEMMA NextPersonInv ==
  ASSUME ProxyInv, PersonInv, [ProxyNext]_allVars
  PROVE  PersonInv'
<1>1. CASE UNCHANGED <<h, was>>
  BY <1>1 DEF PersonInv, Named, Self
<1>2. ASSUME NEW p \in Proc, Arrive(p) PROVE PersonInv'
  BY <1>2, ArriveNames, NamesKeep DEF Arrive
<1>3. ASSUME NEW p \in Proc, Serve(p) PROVE PersonInv'
  BY <1>3, ServeNames, NamesKeep DEF Serve
<1>4. ASSUME NEW p \in Proc, Backend(p) \/ Deliver(p) \/ Dies(p) \/ Lost(p)
      PROVE  PersonInv'
  BY <1>4, EndNames, NamesKeep DEF Backend, Deliver, Dies, Lost
<1>5. ASSUME NEW p \in Proc, CallStartSession(p) PROVE PersonInv'
  <2>1. /\ h[p].user \in Self(BrowserOf[p]) \cup {NoUser} /\ BrowserOf[p] \in Browser
        /\ was \in [Browser -> SUBSET User]
    BY <1>5, BrowserAssumption DEF CallStartSession, PersonInv, Named, ProxyInv, ProxyTypeOK
  <2>2. /\ h' = h
        /\ was' = [was EXCEPT ![BrowserOf[p]] = @ \cup ({h[p].user} \ {NoUser})]
    BY <1>5 DEF CallStartSession
  <2>3. \A b \in Browser : was'[b] \subseteq Self(b)
    BY <2>1, <2>2 DEF PersonInv
  <2> QED BY <2>2, <2>3 DEF PersonInv, Named, Self
<1> QED BY <1>1, <1>2, <1>3, <1>4, <1>5
     DEF ProxyNext, ProxyTick, Forget, CallStartLogin, CallOther, allVars, proxyVars

(* For any number of browsers, requests and failures: what the service is  *)
(* told comes from a user comes from a browser that a login has named as   *)
(* that user, and whose person may be that user: the one of the account    *)
(* that the person has, or, after a callback that failed, of the account   *)
(* "".                                                                     *)
THEOREM NoForeignLogin == ProxySpec => []ForwardedAsSelf
<1>1. SelfInv /\ PersonInv => ForwardedAsSelf
  BY BrowserAssumption DEF SelfInv, IdsMine, Conveys, PersonInv, ForwardedAsSelf
<1>2. ProxyInit => SelfInv /\ PersonInv
  BY InitSelfInv, InitPersonInv
<1>3. SelfInv /\ PersonInv /\ [ProxyNext]_allVars => SelfInv' /\ PersonInv'
  BY NextSelfInv, NextPersonInv DEF SelfInv
<1> QED BY <1>1, <1>2, <1>3, PTL DEF ProxySpec

(* What is proved of the session storage holds of the proxy.               *)
THEOREM ProxySessionsHaveUsers == ProxySpec => []KnownHasUserDoc
<1>1. SelfInv => KnownHasUserDoc
  BY DEF SelfInv, UserInv
<1> QED BY <1>1, InitSelfInv, NextSelfInv, PTL DEF ProxySpec

-----------------------------------------------------------------------------
(* A session that was logged out: it has no document, or it is one before  *)
(* login, of which Logout says that it is gone, too.                       *)
Over(s) == s \in Seen /\ (single[s] # NoDoc => origin[s].user = NoUser)

(* A response says that a session is logged out only if it is over; a      *)
(* request that left with the cookie of such a session does not reach the  *)
(* service, and its look-up reads no user.                                 *)
LateInv(r, c) ==
  /\ r.goto = "logged_out" => Over(LogoutTarget(r))
  /\ r.late => /\ Over(r.sent) /\ r.pc # "forward"
               /\ r.pc = "lookup" => c.pc # "read_get_user"

OverInv == faults = 0 => /\ \A s \in out : Over(s)
                         /\ \A p \in Proc : LateInv(h[p], call[p])

(* The clock does not go back.                                             *)
LEMMA TimePasses ==
  ASSUME [Next]_vars, now \in Nat
  PROVE  now' \in Nat /\ now <= now'
<1>1. CASE Tick \/ UNCHANGED vars
  BY <1>1 DEF Tick, vars
<1>2. ASSUME NEW p \in Proc, Start(p) PROVE now' = now
  BY <1>2
  DEF Start, StartLogin, AddLoginInfo, StartSession, Logout, FindBySessionToken,
      UpdateSessionData, RenewSession, Begin
<1>3. ASSUME NEW p \in Proc, Crash(p) PROVE now' = now
  BY <1>3 DEF Crash
<1> QED BY <1>1, <1>2, <1>3, StepKeepsTime DEF Next

(* The login of an id that somebody holds or has seen does not change, nor *)
(* does its document come back.                                            *)
LEMMA SeenStays ==
  ASSUME SelfInv, SelfInv', [Next]_vars, NEW s \in Seen
  PROVE  /\ s \in Seen' /\ (s \in known => s \in known') /\ origin'[s] = origin[s]
         /\ single[s] = NoDoc => single'[s] = NoDoc
<1>1. IInv /\ IInv' /\ s \in Sid /\ Listed \subseteq Listed'
  BY ListedGrows DEF SelfInv, UserInv, IInv, TypeOK, Seen, Listed
<1>2. known \subseteq known' /\ origin'[s] = origin[s]
  <2>1. CASE Tick \/ UNCHANGED vars
    BY <1>1, <2>1 DEF Tick, vars
  <2>2. ASSUME NEW p \in Proc, Start(p) PROVE known' = known /\ origin' = origin
    <3>1. PICK op, x, u, dirs, pc : Begin(p, op, x, u, dirs, pc)
      BY <2>2
      DEF Start, StartLogin, AddLoginInfo, StartSession, Logout, FindBySessionToken,
          UpdateSessionData, RenewSession
    <3> QED BY <3>1 DEF Begin, GoOn
  <2>3. ASSUME NEW p \in Proc, Step(p)
        PROVE  known \subseteq known' /\ origin'[s] = origin[s]
    BY <1>1, <2>3, OthersKeepLogin, StepsEffect DEF StepEffect
  <2>4. ASSUME NEW p \in Proc, Crash(p) PROVE known' = known /\ origin' = origin
    BY <2>4 DEF Crash, GoOn
  <2> QED BY <1>1, <2>1, <2>2, <2>3, <2>4 DEF Next
<1>3. single'[s] # NoDoc => single[s] # NoDoc
  <2>1. single'[s] # NoDoc => origin'[s] # NoDoc
    BY <1>1 DEF IInv, DocsMatchOrigin, SameLogin
  <2>2. ~ Dead(s)' => ~ Dead(s)
    BY <1>1, DeadStays
  <2> QED BY <1>1, <1>2, <2>1, <2>2 DEF Dead
<1> QED BY <1>1, <1>2, <1>3 DEF Seen

(* What the calls do to the store never gives such a session a user.       *)
LEMMA OverStays ==
  ASSUME SelfInv, SelfInv', [Next]_vars, NEW s, Over(s)
  PROVE  Over(s)'
  BY SeenStays DEF Over

(* The request of p moves on; the others are as they were.                 *)
LEMMA MoveLate ==
  ASSUME SelfInv, SelfInv', [Next]_vars, OverInv, faults = 0,
         NEW p \in Proc, NEW d, h' = [h EXCEPT ![p] = d],
         \A q \in Proc : q # p => call'[q] = call[q],
         LateInv(d, call[p])', \A s \in out' : Over(s)'
  PROVE  OverInv'
<1>1. \A q \in Proc : h'[q] = IF q = p THEN d ELSE h[q]
  BY DEF SelfInv, ProxyInv, ProxyTypeOK
<1>2. ASSUME NEW q \in Proc, q # p PROVE LateInv(h[q], call[q])'
  <2>1. h'[q] = h[q] /\ call'[q] = call[q] /\ LateInv(h[q], call[q])
    BY <1>1, <1>2 DEF OverInv
  <2> QED BY <2>1, OverStays DEF LateInv, LogoutTarget
<1>3. LateInv(h[p], call[p])'
  BY <1>1 DEF LateInv, LogoutTarget
<1> QED BY <1>2, <1>3 DEF OverInv

(* The request that a handler goes on with: it is forwarded if act, says   *)
(* that a session is logged out if done, and is late only if r is.         *)
Passes(p, r, act, done) ==
  \E d : /\ h' = [h EXCEPT ![p] = d]
         /\ d.late => r.late /\ d.sent = r.sent /\ d.pc # "lookup"
         /\ d.pc = "forward" => act
         /\ d.goto = "logged_out" => done /\ LogoutTarget(d) = LogoutTarget(r)

(* The handler shows a page of wru.                                        *)
LEMMA ShowPasses ==
  ASSUME NEW p, NEW r, NEW act, NEW done, Show(p)
  PROVE  Passes(p, r, act, done)
<1>1. h' = [h EXCEPT ![p] = Free]
  BY DEF Show
<1>2. Free.late = FALSE /\ Free.pc = "free" /\ Free.goto = "none"
  BY DEF Free
<1> QED BY <1>1, <1>2 DEF Passes

(* The handler goes on to a place that is not a look-up; to forward only   *)
(* if act.                                                                 *)
LEMMA ThenPasses ==
  ASSUME NEW p, NEW r \in Request, NEW act, NEW done, r.goto # "logged_out",
         NEW pc \in Handler \ {"lookup"}, Then(p, r, pc), pc = "forward" => act
  PROVE  Passes(p, r, act, done)
<1> DEFINE d == [r EXCEPT !.pc = pc]
<1>1. d.pc = pc /\ d.sent = r.sent /\ d.late = r.late /\ d.goto = r.goto
  BY PlaceChange
<1>2. h' = [h EXCEPT ![p] = d]
  BY DEF Then
<1> HIDE DEF d
<1> QED BY <1>1, <1>2 DEF Passes

(* The handler answers; that a session is logged out only if done.         *)
LEMMA RespondPasses ==
  ASSUME NEW p, NEW r \in Request, NEW act, NEW done, NEW c, NEW to,
         Respond(p, r, c, to), to = "logged_out" => done
  PROVE  Passes(p, r, act, done)
<1> DEFINE d == [r EXCEPT !.pc = "respond", !.cookie = c, !.goto = to]
<1>1. /\ h' = [h EXCEPT ![p] = d] /\ d.pc = "respond" /\ d.sent = r.sent
      /\ d.late = r.late /\ d.goto = to
      /\ d.kind = r.kind /\ d.sid = r.sid /\ d.arg = r.arg
  BY DEF Respond, Request
<1> HIDE DEF d
<1> QED BY <1>1 DEF Passes, LogoutTarget

(* What a route does with the session that the request brought.            *)
LEMMA RoutePasses ==
  ASSUME NEW p \in Proc, NEW r \in Request, r.goto # "logged_out", Route(p, r)
  PROVE  Passes(p, r, Active(r), FALSE)
<1>1. CASE Show(p)
  BY <1>1, ShowPasses
<1>2. ASSUME NEW pc \in {"callback", "start_login", "add_login_info", "start_session",
                         "logout"},
             Then(p, r, pc)
      PROVE  Passes(p, r, Active(r), FALSE)
  BY <1>2, ThenPasses DEF Handler, Calling
<1>3. ASSUME NEW u, u \in Owner \/ Active(r), NEW pc \in {"forward", "start_session"},
             pc = "forward" => Active(r), Then(p, [r EXCEPT !.user = u], pc)
      PROVE  Passes(p, r, Active(r), FALSE)
  <2> DEFINE d == [r EXCEPT !.user = u, !.pc = pc]
  <2>1. /\ d.sent = r.sent /\ d.late = r.late /\ d.goto = r.goto /\ d.pc = pc
        /\ [[r EXCEPT !.user = u] EXCEPT !.pc = pc] = d
    BY DEF Request
  <2>2. h' = [h EXCEPT ![p] = d]
    BY <1>3, <2>1 DEF Then
  <2> HIDE DEF d
  <2> QED BY <1>3, <2>1, <2>2 DEF Passes
<1>4. CASE authMiddleware(p, r)
  BY <1>1, <1>2, <1>3, <1>4 DEF authMiddleware, startSessionAndRedirect
<1>5. CASE Callback(p, r)
  BY <1>1, <1>2, <1>5 DEF Callback, ToLandingPage
<1>6. CASE \/ LoginPage(p, r) \/ FederatedLogin(p, r) \/ DebugLogin(p, r)
           \/ LogoutHandler(p, r) \/ UserHandler(p, r) \/ SessionLogout(p, r)
  BY <1>1, <1>2, <1>6
  DEF LoginPage, FederatedLogin, DebugLogin, LogoutHandler, UserHandler,
      SessionLogout, MustLogin, ToLandingPage, startSessionAndRedirect
<1> QED BY <1>4, <1>5, <1>6 DEF Route

(* What a handler does with what the session storage answers.              *)
LEMMA ReturnedPasses ==
  ASSUME NEW p \in Proc, NEW res, h[p] \in Request, h[p].goto # "logged_out",
         h[p].pc = "lookup" => h[p].status = "none",
         h[p].pc = "start_login" /\ res = "ok" => call[p].new \in Sid,
         Returned(p, res)
  PROVE  Passes(p, h[p], h[p].pc = "lookup" /\ res = "active",
                h[p].pc = "logout" /\ res = "ok")
<1> DEFINE r == h[p]
           new == call[p].new
           act == r.pc = "lookup" /\ res = "active"
           done == r.pc = "logout" /\ res = "ok"
<1>1. CASE Show(p)
  BY <1>1, ShowPasses
<1>2. ASSUME NEW c, NEW to, Respond(p, r, c, to), to = "logged_out" => done
      PROVE  Passes(p, r, act, done)
  BY <1>2, RespondPasses
<1>3. CASE r.pc = "lookup" /\ Found(p, res)
  <2>1. CASE res \in {"before", "active", "idle"}
    <3> DEFINE e == [r EXCEPT !.sid = r.sent, !.status = res]
    <3>1. /\ e \in Request /\ e.sent = r.sent /\ e.late = r.late /\ e.goto = r.goto
          /\ e.status = res
      BY <2>1 DEF Request
    <3>2. Route(p, e)
      BY <1>3, <2>1 DEF Found
    <3> HIDE DEF e
    <3>3. Passes(p, e, Active(e), FALSE)
      BY <3>1, <3>2, RoutePasses
    <3> QED BY <1>3, <3>1, <3>3 DEF Passes, Active
  <2>2. CASE res \notin {"before", "active", "idle"}
    <3>1. Passes(p, r, Active(r), FALSE)
      BY <1>3, <2>2, RoutePasses DEF Found
    <3> QED BY <1>3, <3>1 DEF Passes, Active
  <2> QED BY <2>1, <2>2
<1>4. CASE r.pc = "start_login" /\ LoginStarted(p, res)
  <2>1. ASSUME new \in Sid, Then(p, [r EXCEPT !.sid = new], "add_login_info")
        PROVE  Passes(p, r, act, done)
    <3> DEFINE e == [r EXCEPT !.sid = new]
    <3>1. e \in Request /\ e.sent = r.sent /\ e.late = r.late /\ e.goto = r.goto
      BY <2>1 DEF Request
    <3>2. Then(p, e, "add_login_info")
      BY <2>1
    <3> HIDE DEF e
    <3>3. Passes(p, e, FALSE, FALSE)
      BY <3>1, <3>2, ThenPasses DEF Handler, Calling
    <3> QED BY <3>1, <3>3 DEF Passes
  <2> QED BY <1>1, <1>2, <1>4, <2>1 DEF LoginStarted
<1>5. CASE \/ r.pc = "add_login_info" /\ LoginInfoAdded(p, res)
           \/ r.pc = "start_session" /\ SessionStarted(p, res)
           \/ r.pc = "logout" /\ LoggedOut(p, res)
  BY <1>1, <1>2, <1>5, PageAssumption DEF LoginInfoAdded, SessionStarted, LoggedOut
<1>6. CASE r.pc = "callback" /\ FoundAgain(p, res) /\ ~ Show(p)
  <2> DEFINE e == [r EXCEPT !.sid = r.sent, !.status = res]
  <2>1. /\ res \in {"before", "active", "idle"}
        /\ \E u : u \in Owner /\ Then(p, [e EXCEPT !.user = u], "start_session")
    BY <1>6, BrowserAssumption DEF FoundAgain, IdpCallback, Confirmed
  <2>2. e \in Request /\ e.sent = r.sent /\ e.late = r.late /\ e.goto = r.goto
    BY <2>1 DEF Request
  <2> HIDE DEF e
  <2>3. PICK u \in Owner : Then(p, [e EXCEPT !.user = u], "start_session")
    BY <2>1
  <2> DEFINE d == [e EXCEPT !.user = u]
  <2>4. d \in Request /\ d.sent = r.sent /\ d.late = r.late /\ d.goto = r.goto
    BY <2>2 DEF Request
  <2>5. Then(p, d, "start_session")
    BY <2>3
  <2> HIDE DEF d
  <2>6. Passes(p, d, FALSE, FALSE)
    BY <2>4, <2>5, ThenPasses DEF Handler, Calling
  <2> QED BY <2>4, <2>6 DEF Passes
<1> QED BY <1>1, <1>3, <1>4, <1>5, <1>6 DEF Returned

(* A lookup of such a session never gets to look at the user.              *)
LEMMA OverIsNotRead ==
  ASSUME SelfInv, NEW p \in Proc, Step(p), Over(call[p].sid),
         call[p].pc # "read_get_user"
  PROVE  call'[p].pc # "read_get_user"
<1>1. /\ IInv /\ call[p] \in Call /\ call \in [Proc -> Call]
      /\ call[p].sid \in Sid /\ (Doc(p) # NoDoc => Doc(p).user = NoUser)
  BY CallFacts
  DEF SelfInv, UserInv, IInv, TypeOK, Over, Seen, Listed, Doc, DocsMatchOrigin, SameLogin
<1>2. ASSUME NEW pc \in PC \ {"read_get_user"}, Goto(p, pc) \/ Load(p, pc) \/ LoadUser(p, pc)
      PROVE  call'[p].pc # "read_get_user"
  BY <1>1, <1>2 DEF Goto, Load, LoadUser, GoOn, Call
<1>3. ASSUME NEW res, NEW s, Return(p, res, s)
      PROVE  call'[p].pc # "read_get_user"
  BY <1>1, <1>3 DEF Return, Idle
<1>4. CASE GenerateNewSessionID(p)
  <2>1. ASSUME NEW s \in Fresh,
               GoOn(p, [call[p] EXCEPT !.pc = AfterGenerate(call[p].op), !.new = s])
        PROVE  call'[p].pc # "read_get_user"
    BY <1>1, <2>1 DEF GoOn, Call, AfterGenerate
  <2> QED BY <1>3, <1>4, <2>1 DEF GenerateNewSessionID
<1>5. CASE ReadGet(p)
  BY <1>1, <1>2, <1>3, <1>5 DEF ReadGet, ReadBeforeLogin, PC
<1>6. CASE \/ CreateLogin(p) \/ AddGet(p) \/ AddDelete(p) \/ AddCreate(p)
           \/ StartGet(p) \/ StartDelete(p) \/ StartCreate(p) \/ StartPanic(p)
           \/ StartGetUser(p) \/ StartCreateUser(p) \/ StartReplaceUser(p)
  BY <1>2, <1>3, <1>6
  DEF CreateLogin, AddGet, AddDelete, AddCreate, StartGet, StartDelete, StartCreate,
      StartPanic, StartGetUser, StartCreateUser, StartReplaceUser, StartReturns, PC
<1>7. CASE LogoutGet(p) \/ LogoutGetUser(p) \/ LogoutReplaceUser(p) \/ LogoutDelete(p)
  BY <1>2, <1>3, <1>7
  DEF LogoutGet, LogoutGetUser, LogoutReplaceUser, LogoutDelete, LogoutReturns, PC
<1>8. CASE ReadGetUser(p) \/ UpdateUser(p) \/ UpdateSingle(p)
  BY <1>2, <1>3, <1>8 DEF ReadGetUser, UpdateUser, UpdateSingle, Reads, PC
<1>9. CASE RenewGet(p) \/ RenewCreate(p) \/ RenewDelete(p)
  BY <1>2, <1>3, <1>9 DEF RenewGet, RenewCreate, RenewDelete, PC
<1> QED BY <1>4, <1>5, <1>6, <1>7, <1>8, <1>9 DEF Step

(* A Logout that answers "ok" is right, if the store answers.              *)
LEMMA LogoutIsOver ==
  ASSUME SelfInv, SelfInv', DeadInv', faults' = 0, NEW p \in Proc, Step(p),
         call[p].op = "Logout", NEW s \in Seen, s = call[p].sid,
         call'[p].pc = "idle", reply' = "ok"
  PROVE  Over(s)'
<1>1. /\ IInv /\ IInv' /\ call[p] \in Call /\ call \in [Proc -> Call] /\ s \in Sid
      /\ LocalSet(call[p])
  BY CallFacts DEF SelfInv, UserInv, IInv, TypeOK, Seen, Listed
<1>2. LogoutGet(p) \/ LogoutGetUser(p) \/ LogoutReplaceUser(p) \/ LogoutDelete(p)
  <2>1. call[p].pc \in {"logout_get", "logout_get_user", "logout_replace_user",
                        "logout_delete"}
    BY <1>1, StepsEffect DEF LocalSet, OpAt, Call, PC, StepEffect
  <2> QED BY <2>1
      DEF Step, GenerateNewSessionID, CreateLogin, AddGet, AddDelete, AddCreate,
          StartGet, StartDelete, StartCreate, StartPanic, StartGetUser,
          StartCreateUser, StartReplaceUser, ReadGet, ReadGetUser, UpdateUser,
          UpdateSingle, RenewGet, RenewCreate, RenewDelete, Reads
<1>3. PICK res \in Reply : Return(p, res, NoSid)
  <2>1. ASSUME NEW pc \in PC \ {"idle"}, Goto(p, pc) \/ Load(p, pc) \/ LoadUser(p, pc)
        PROVE  FALSE
    BY <1>1, <2>1 DEF Goto, Load, LoadUser, GoOn, Call
  <2> QED BY <1>2, <2>1
      DEF LogoutGet, LogoutGetUser, LogoutReplaceUser, LogoutDelete, LogoutReturns,
          PC, Reply
<1>4. Owned(s) => s \in ended'
  BY <1>1, <1>3 DEF Return, Ends
<1>5. s \in Seen' /\ origin'[s] = origin[s]
  BY SeenStays DEF Next
<1>6. single'[s] # NoDoc => origin'[s] # NoDoc
  BY <1>1 DEF IInv, DocsMatchOrigin, SameLogin
<1> QED BY <1>1, <1>4, <1>5, <1>6 DEF Over, Owned, DeadInv, Dead

(* What the invariants say of the request of p.                            *)
LEMMA LateFacts ==
  ASSUME SelfInv, OverInv, faults = 0, NEW p \in Proc
  PROVE  /\ h[p] \in Request /\ h \in [Proc -> Request] /\ call \in [Proc -> Call]
         /\ Handled(h[p], known) /\ InCall(h[p], call[p])
         /\ h[p].pc # "respond" => h[p].goto # "logged_out"
         /\ LateInv(h[p], call[p])
<1>1. Handled(h[p], known) /\ InCall(h[p], call[p])
  BY DEF SelfInv, ProxyInv, HandlersHold
<1>2. h[p].pc # "respond" => h[p].goto # "logged_out"
  BY <1>1, PageAssumption DEF Handled, Set, Uri
<1> QED BY <1>1, <1>2
        DEF SelfInv, ProxyInv, ProxyTypeOK, IInv, TypeOK, OverInv

(* The session storage works for p.                                        *)
LEMMA ServeLate ==
  ASSUME SelfInv, SelfInv', DeadInv', OverInv, faults = 0, faults' = 0,
         [Next]_vars, NEW p \in Proc, Serve(p)
  PROVE  OverInv'
<1> DEFINE r == h[p]
<1>1. /\ r \in Request /\ Handled(r, known) /\ InCall(r, call[p])
      /\ LateInv(r, call[p]) /\ Step(p) /\ StepEffect(p)
      /\ h \in [Proc -> Request] /\ call \in [Proc -> Call]
  BY LateFacts, StepsEffect DEF Serve, SelfInv, UserInv
<1>2. r.pc \in Calling /\ r.goto # "logged_out" /\ call[p].op = OpOf(r)
      /\ call[p].sid = SidOf(r)
  BY <1>1, LateFacts DEF StepEffect, InCall, Calling
<1>3. /\ \A q \in Proc : q # p => call'[q] = call[q]
      /\ \A s \in out' : Over(s)'
  BY <1>1, OverStays DEF StepEffect, Serve, OverInv
<1>4. \A s : r.late /\ s = r.sent => Over(s)'
  BY <1>1, OverStays DEF LateInv
<1>5. CASE call'[p].pc = "idle" /\ Returned(p, reply')
  <2>1. r.pc = "start_login" /\ reply' = "ok" => call[p].new \in Sid
    BY <1>1, <1>2 DEF OpOf, HandsOut, StepEffect, SelfInv, UserInv, IInv, TypeOK
  <2>2. r.pc = "lookup" => r.status = "none"
    BY <1>1 DEF Handled, Set
  <2>3. PICK d :
          /\ h' = [h EXCEPT ![p] = d]
          /\ d.late => r.late /\ d.sent = r.sent /\ d.pc # "lookup"
          /\ d.pc = "forward" => r.pc = "lookup" /\ reply' = "active"
          /\ d.goto = "logged_out" => /\ r.pc = "logout" /\ reply' = "ok"
                                      /\ LogoutTarget(d) = LogoutTarget(r)
    BY <1>1, <1>2, <1>5, <2>1, <2>2, ReturnedPasses DEF Passes
  <2>4. d.goto = "logged_out" => Over(LogoutTarget(d))'
    <3> SUFFICES ASSUME d.goto = "logged_out" PROVE Over(LogoutTarget(d))'
      OBVIOUS
    <3>1. /\ LogoutTarget(d) = call[p].sid /\ call[p].op = "Logout"
          /\ LogoutTarget(d) \in Seen
      BY <1>1, <1>2, <2>3 DEF OpOf, SidOf, Handled, Set, Seen
    <3> QED BY <1>1, <1>5, <2>3, <3>1, LogoutIsOver
  <2>5. d.late => Over(d.sent)' /\ d.pc # "forward" /\ d.pc # "lookup"
    BY <1>1, <1>4, <2>3 DEF LateInv, StepEffect
  <2>6. LateInv(d, call[p])'
    BY <2>4, <2>5 DEF LateInv
  <2> QED BY <1>3, <2>3, <2>6, MoveLate
<1>6. CASE h' \in {h, [h EXCEPT ![p].goto = Landing(p)]}
  <2>1. Landing(p) \in Uri
    BY LandingTyped DEF SelfInv
  <2>2. PICK d : /\ h' = [h EXCEPT ![p] = d] /\ d.pc = r.pc /\ d.sent = r.sent
                 /\ d.late = r.late /\ d.goto # "logged_out"
    <3>1. CASE h' = h
      BY <1>1, <1>2, <3>1
    <3>2. CASE h' = [h EXCEPT ![p].goto = Landing(p)]
      <4> DEFINE l == Landing(p)
                 e == [r EXCEPT !.goto = l]
      <4>1. h' = [h EXCEPT ![p] = e]
        BY <1>1, <3>2
      <4>2. l # "logged_out"
        BY <2>1, PageAssumption DEF Uri
      <4> HIDE DEF l
      <4>3. e.pc = r.pc /\ e.sent = r.sent /\ e.late = r.late /\ e.goto = l
        BY <1>1 DEF Request
      <4> HIDE DEF e
      <4> QED BY <4>1, <4>2, <4>3
    <3> QED BY <1>6, <3>1, <3>2
  <2>3. r.late /\ r.pc = "lookup" => call'[p].pc # "read_get_user"
    BY <1>1, <1>2, OverIsNotRead DEF LateInv, SidOf
  <2>4. r.pc # "forward"
    BY <1>2 DEF Calling
  <2>5. LateInv(d, call[p])'
    BY <1>4, <2>2, <2>3, <2>4 DEF LateInv
  <2> QED BY <1>3, <2>2, <2>5, MoveLate
<1> QED BY <1>5, <1>6 DEF Serve

(* A request arrives; it is late if its session has been logged out.       *)
LEMMA ArriveLate ==
  ASSUME SelfInv, SelfInv', OverInv, faults = 0, [Next]_vars, NEW p \in Proc, Arrive(p)
  PROVE  OverInv'
<1> DEFINE b == BrowserOf[p]
<1>1. PICK r \in Requests(b) :
        IF cookie[b] = NoSid THEN Route(p, r) /\ UNCHANGED vars
        ELSE /\ Begin(p, "FindBySessionToken", cookie[b], NoUser, NoDirectives,
                      "read_get")
             /\ Then(p, [r EXCEPT !.sent = cookie[b], !.late = cookie[b] \in out],
                     "lookup")
  BY DEF Arrive
<1>2. r \in Request /\ ~ r.late /\ r.goto = "none"
  <2>1. r \in Request /\ r.goto = "none"
    BY SelfFacts, RequestHandled DEF Handled
  <2>2. ~ r.late
    BY <1>1 DEF Requests, Free
  <2> QED BY <2>1, <2>2
<1>3. /\ h \in [Proc -> Request] /\ call \in [Proc -> Call] /\ out' = out
      /\ \A s \in out' : Over(s)'
  BY LateFacts, OverStays DEF Arrive, OverInv
<1>4. CASE Route(p, r) /\ UNCHANGED vars
  <2>1. PICK d : h' = [h EXCEPT ![p] = d] /\ ~ d.late /\ d.goto # "logged_out"
    BY <1>2, <1>4, RoutePasses DEF Passes
  <2>2. LateInv(d, call[p])'
    BY <1>2, <2>1 DEF LateInv
  <2> QED BY <1>3, <1>4, <2>1, <2>2, MoveLate DEF vars
<1>5. CASE /\ cookie[b] # NoSid
           /\ Begin(p, "FindBySessionToken", cookie[b], NoUser, NoDirectives, "read_get")
           /\ Then(p, [r EXCEPT !.sent = cookie[b], !.late = cookie[b] \in out], "lookup")
  <2> DEFINE s == cookie[b]
             l == s \in out
             d == [r EXCEPT !.sent = s, !.late = l, !.pc = "lookup"]
             c == [Idle EXCEPT !.pc = "read_get", !.op = "FindBySessionToken",
                               !.sid = s, !.user = NoUser, !.dirs = NoDirectives]
  <2>1. /\ d.pc = "lookup" /\ d.sent = s /\ d.late = l /\ d.goto = "none"
        /\ [[r EXCEPT !.sent = s, !.late = l] EXCEPT !.pc = "lookup"] = d
    BY <1>2 DEF Request
  <2>2. h' = [h EXCEPT ![p] = d]
    BY <1>5, <2>1 DEF Then
  <2>3. call' = [call EXCEPT ![p] = c] /\ c.pc = "read_get"
    BY <1>5 DEF Begin, GoOn, Idle
  <2> HIDE DEF c
  <2>4. call'[p].pc = "read_get" /\ \A q \in Proc : q # p => call'[q] = call[q]
    BY <1>3, <2>3
  <2>5. \A x : l /\ x = s => Over(x)'
    BY <1>3
  <2>6. PICK e : h' = [h EXCEPT ![p] = e] /\ e = d
    BY <2>2
  <2> HIDE DEF d
  <2>7. LateInv(e, call[p])'
    BY <2>1, <2>4, <2>5, <2>6 DEF LateInv
  <2> QED BY <1>3, <2>4, <2>6, <2>7, MoveLate
<1> QED BY <1>1, <1>4, <1>5

(* A handler makes a further call.                                         *)
LEMMA CallLate ==
  ASSUME SelfInv, SelfInv', OverInv, faults = 0, [Next]_vars, NEW p \in Proc,
         CallStartLogin(p) \/ CallStartSession(p) \/ CallOther(p)
  PROVE  OverInv'
<1>1. /\ h[p] \in Request /\ h \in [Proc -> Request] /\ call \in [Proc -> Call]
  BY LateFacts
<1>2. h' = h /\ out' = out /\ h[p].pc \notin {"lookup", "forward", "respond"}
  BY DEF CallStartLogin, CallStartSession, CallOther, proxyVars
<1>3. PICK op, x, u, dirs, pc : Begin(p, op, x, u, dirs, pc)
  BY DEF CallStartLogin, CallStartSession, CallOther
<1>4. \A q \in Proc : q # p => call'[q] = call[q]
  BY <1>1, <1>3 DEF Begin, GoOn
<1>5. LateInv(h[p], call[p])
  BY LateFacts
<1>6. \A s \in out' : Over(s)'
  BY <1>2, OverStays DEF OverInv
<1>7. \A d : d = h[p] => LateInv(d, call[p])'
  BY <1>1, <1>2, <1>5, OverStays DEF LateInv
<1> QED BY <1>1, <1>2, <1>4, <1>6, <1>7, MoveLate

(* A response reaches its browser, and may say that a session is over; the *)
(* service answers; a request ends early.                                  *)
LEMMA OtherLate ==
  ASSUME SelfInv, SelfInv', OverInv, faults = 0, [Next]_vars, NEW p \in Proc,
         Deliver(p) \/ Backend(p) \/ Dies(p) \/ Lost(p)
  PROVE  OverInv'
<1> DEFINE r == h[p]
<1>1. /\ r \in Request /\ call \in [Proc -> Call]
      /\ r.pc # "respond" => r.goto # "logged_out"
      /\ LateInv(r, call[p])
  BY LateFacts
<1>2. \A q \in Proc : q # p => call'[q] = call[q]
  BY <1>1 DEF Deliver, Backend, Dies, Crash, GoOn, Lost, vars
<1>3. \A s \in out' : Over(s)'
  <2>1. \A s \in out' : s \in out \/ (s = LogoutTarget(r) /\ r.goto = "logged_out")
    BY DEF Deliver, Backend, Dies, Lost
  <2>2. \A s : s = LogoutTarget(r) /\ r.goto = "logged_out" => Over(s)'
    BY <1>1, OverStays DEF LateInv
  <2> QED BY <2>1, <2>2, OverStays DEF OverInv
<1>4. PICK d : /\ h' = [h EXCEPT ![p] = d] /\ ~ d.late /\ d.goto # "logged_out"
  <2>1. Free.late = FALSE /\ Free.goto = "none"
    BY DEF Free
  <2>2. ASSUME NEW dirs, r.pc = "forward", Then(p, [r EXCEPT !.dirs = dirs], "update")
        PROVE  /\ h' = [h EXCEPT ![p] = [r EXCEPT !.dirs = dirs, !.pc = "update"]]
               /\ ~ [r EXCEPT !.dirs = dirs, !.pc = "update"].late
               /\ [r EXCEPT !.dirs = dirs, !.pc = "update"].goto # "logged_out"
    <3> DEFINE e == [r EXCEPT !.dirs = dirs, !.pc = "update"]
    <3>1. /\ e.late = r.late /\ e.goto = r.goto
          /\ [[r EXCEPT !.dirs = dirs] EXCEPT !.pc = "update"] = e
      BY <1>1 DEF Request
    <3>2. h' = [h EXCEPT ![p] = e]
      BY <2>2, <3>1 DEF Then
    <3> HIDE DEF e
    <3>3. ~ e.late /\ e.goto # "logged_out"
      BY <1>1, <2>2, <3>1 DEF LateInv
    <3> QED BY <3>2, <3>3 DEF e
  <2> QED BY <2>1, <2>2 DEF Deliver, Backend, Show, Dies, Lost
<1>5. LateInv(d, call[p])'
  BY <1>4 DEF LateInv
<1> QED BY <1>2, <1>3, <1>4, <1>5, MoveLate

-----------------------------------------------------------------------------
(* Nobody has been logged out at the start.                                *)
LEMMA InitOverInv == ProxyInit => OverInv
  BY DEF ProxyInit, OverInv, LateInv, Free

(* Every step keeps OverInv.                                               *)
LEMMA NextOverInv ==
  ASSUME SelfInv, SelfInv', DeadInv', OverInv, [ProxyNext]_allVars
  PROVE  OverInv'
<1> SUFFICES ASSUME faults' = 0 PROVE OverInv'
  BY DEF OverInv
<1>1. [Next]_vars
  BY StepMaps DEF SelfInv
<1>2. faults = 0
  BY <1>1, FaultsStay DEF SelfInv, UserInv, IInv, TypeOK
<1>3. CASE ProxyTick \/ UNCHANGED allVars \/ \E b \in Browser : Forget(b)
  <2>1. UNCHANGED <<h, call, out>>
    BY <1>3 DEF ProxyTick, Tick, Forget, proxyVars, allVars, vars
  <2>2. \A s \in out' : Over(s)'
    BY <1>1, <1>2, <2>1, OverStays DEF OverInv
  <2>3. ASSUME NEW p \in Proc PROVE LateInv(h[p], call[p])'
    <3>1. LateInv(h[p], call[p])
      BY <1>2, LateFacts
    <3> QED BY <1>1, <2>1, <3>1, OverStays DEF LateInv, LogoutTarget
  <2> QED BY <2>2, <2>3 DEF OverInv
<1> QED BY <1>1, <1>2, <1>3, ServeLate, ArriveLate, CallLate, OtherLate DEF ProxyNext

(* Whatever was under way when a session was logged out, no request that   *)
(* its browser sends afterwards reaches the service with it.               *)
THEOREM LogoutIsFinal == ProxySpec => []LoggedOutIsOut
<1>1. OverInv => LoggedOutIsOut
  BY DEF OverInv, LateInv, LoggedOutIsOut
<1>2. ProxyInit => SelfInv /\ DeadInv /\ OverInv
  BY InitSelfInv, InitDeadInv, InitOverInv DEF ProxyInit
<1>3. SelfInv /\ DeadInv /\ OverInv /\ [ProxyNext]_allVars
        => SelfInv' /\ DeadInv' /\ OverInv'
  BY NextSelfInv, NextDeadInv, NextOverInv, StepMaps DEF SelfInv
<1> QED BY <1>1, <1>2, <1>3, PTL DEF ProxySpec

-----------------------------------------------------------------------------
(* Where a login ends, and what loses one.                                 *)

Entrance == {"callback", "start_login", "add_login_info", "start_session"}

(* The places of a request that ends a login.                              *)
Ending == {"callback", "start_session"}

-----------------------------------------------------------------------------
(* Where a handler takes a request.                                        *)

(* d is the request r at a further place of its handler.                   *)
Onward(r, d) == /\ d.kind = r.kind /\ d.page = r.page /\ d.sent = r.sent
                /\ d.sid = r.sid /\ d.status = r.status
                /\ d.cookie = r.cookie /\ d.goto = r.goto

(* A route ends the request or takes it on; an active session is asked to  *)
(* log in nowhere, and only a callback or a pick of a user ends a login.   *)
RoutesTo(r, d) ==
  \/ d = Free
  \/ /\ Onward(r, d) /\ d.pc \in Entrance \cup {"forward", "logout"}
     /\ Active(r) => d.pc \notin Entrance
     /\ r.kind \in {"callback", "debug"} => d.pc \in Ending

(* The handler of p does so with r.                                        *)
Routes(p, r) == \E d : h' = [h EXCEPT ![p] = d] /\ RoutesTo(r, d)

LEMMA ShowRoutes ==
  ASSUME NEW p, NEW r, Show(p)
  PROVE  Routes(p, r)
  BY DEF Show, Routes, RoutesTo

LEMMA ThenRoutes ==
  ASSUME NEW p, NEW r \in Request, NEW pc \in Entrance \cup {"forward", "logout"},
         Then(p, r, pc), Active(r) => pc \notin Entrance,
         r.kind \in {"callback", "debug"} => pc \in Ending
  PROVE  Routes(p, r)
<1> DEFINE d == [r EXCEPT !.pc = pc]
<1>1. d.pc = pc /\ Onward(r, d)
  BY PlaceChange DEF Onward, Entrance, Handler, Calling
<1>2. h' = [h EXCEPT ![p] = d]
  BY DEF Then
<1> HIDE DEF d
<1> QED BY <1>1, <1>2 DEF Routes, RoutesTo

(* It makes no difference whom the request is for.                         *)
LEMMA UserRoutes ==
  ASSUME NEW p, NEW r \in Request, NEW u \in Owner, NEW pc \in {"forward", "start_session"},
         Then(p, [r EXCEPT !.user = u], pc), Active(r) => pc = "forward",
         r.kind \in {"callback", "debug"} => pc \in Ending
  PROVE  Routes(p, r)
<1> DEFINE e == [r EXCEPT !.user = u]
<1>1. e \in Request /\ Onward(r, e)
  BY DEF Request, Onward
<1>2. Then(p, e, pc)
  OBVIOUS
<1> HIDE DEF e
<1>3. Active(e) => pc \notin Entrance
  BY <1>1 DEF Active, Onward, Entrance
<1>4. e.kind \in {"callback", "debug"} => pc \in Ending
  BY <1>1 DEF Onward
<1>5. Routes(p, e)
  BY <1>1, <1>2, <1>3, <1>4, ThenRoutes DEF Entrance
<1> QED BY <1>1, <1>5 DEF Routes, RoutesTo, Onward, Active

(* newHandler's routes take a request on so.                               *)
LEMMA RouteRoutes ==
  ASSUME NEW p \in Proc, NEW r \in Request, Route(p, r),
         Active(r) => call[p].ses.user \in Owner
  PROVE  Routes(p, r)
<1>1. CASE Show(p)
  BY <1>1, ShowRoutes
<1>2. ASSUME ~ Active(r), NEW pc \in Entrance, Then(p, r, pc),
             r.kind \in {"callback", "debug"} => pc \in Ending
      PROVE  Routes(p, r)
  BY <1>2, ThenRoutes
<1>3. ASSUME Then(p, r, "logout"), r.kind \notin {"callback", "debug"}
      PROVE  Routes(p, r)
  BY <1>3, ThenRoutes DEF Entrance
<1>4. ASSUME ~ Active(r), startSessionAndRedirect(p, r), r.kind \notin {"callback", "debug"}
      PROVE  Routes(p, r)
  BY <1>2, <1>4 DEF startSessionAndRedirect, Entrance
<1>5. CASE authMiddleware(p, r)
  <2>1. CASE Active(r) /\ Then(p, [r EXCEPT !.user = call[p].ses.user], "forward")
    BY <1>5, <2>1, UserRoutes DEF authMiddleware
  <2>2. r.kind \notin {"callback", "debug"}
    BY <1>5 DEF authMiddleware
  <2> QED BY <1>1, <1>4, <1>5, <2>1, <2>2 DEF authMiddleware
<1>6. CASE LoginPage(p, r)
  BY <1>1, <1>6 DEF LoginPage, ToLandingPage
<1>7. CASE FederatedLogin(p, r)
  <2>1. CASE ~ Active(r) /\ Then(p, r, "add_login_info")
    BY <1>2, <1>7, <2>1 DEF FederatedLogin, Entrance
  <2>2. r.kind \notin {"callback", "debug"}
    BY <1>7 DEF FederatedLogin
  <2> QED BY <1>1, <1>4, <1>7, <2>1, <2>2 DEF FederatedLogin, ToLandingPage
<1>8. CASE Callback(p, r)
  BY <1>1, <1>2, <1>8 DEF Callback, ToLandingPage, Entrance, Ending
<1>9. CASE DebugLogin(p, r)
  <2>1. CASE ~ Active(r) /\ Then(p, r, "start_session")
    BY <1>2, <2>1 DEF Entrance, Ending
  <2> QED BY <1>1, <1>9, <2>1 DEF DebugLogin, ToLandingPage
<1>10. CASE MustLogin(p, r) /\ r.kind \in {"logout", "user", "session_logout"}
  BY <1>4, <1>10 DEF MustLogin, LoggedIn, Active
<1>11. CASE LogoutHandler(p, r)
  BY <1>3, <1>10, <1>11 DEF LogoutHandler
<1>12. CASE UserHandler(p, r)
  BY <1>1, <1>10, <1>12 DEF UserHandler
<1>13. CASE SessionLogout(p, r)
  BY <1>1, <1>3, <1>10, <1>13 DEF SessionLogout
<1> QED BY <1>5, <1>6, <1>7, <1>8, <1>9, <1>11, <1>12, <1>13 DEF Route

(* A handler to which the session storage returns res, with the id new,    *)
(* ends the request, routes it, or takes it on with that id.               *)
Resumes(r, res, new, d) ==
  \/ d = Free
  \/ /\ r.pc = "lookup"
     /\ IF res \in {"before", "active", "idle"}
        THEN \E e : /\ e.kind = r.kind /\ e.page = r.page /\ e.sent = r.sent
                    /\ e.cookie = r.cookie /\ e.goto = r.goto
                    /\ e.sid = r.sent /\ e.status = res
                    /\ RoutesTo(e, d)
        ELSE RoutesTo(r, d)
  \/ /\ r.pc = "callback" /\ res = "before"
     /\ d.kind = r.kind /\ d.page = r.page /\ d.sent = r.sent /\ d.cookie = r.cookie
     /\ d.goto = r.goto /\ d.sid = r.sent /\ d.pc = "start_session"
  \/ /\ d.kind = r.kind /\ d.page = r.page /\ d.sent = r.sent /\ d.status = r.status
     /\ \/ /\ r.pc \in {"start_login", "add_login_info"} /\ res = "ok"
           /\ d.pc = "respond" /\ d.sid = r.sid /\ d.cookie = new
        \/ /\ r.pc = "start_login" /\ res = "ok" /\ r.kind = "federated"
           /\ d.pc = "add_login_info" /\ d.sid = new /\ d.cookie = r.cookie
        \/ /\ r.pc = "start_session" /\ d.pc = "respond" /\ d.sid = r.sid
           /\ \/ res = "ok" /\ d.cookie = new /\ d.goto = r.goto
              \/ d.cookie = NoSid
        \/ /\ r.pc = "logout" /\ d.pc = "respond" /\ d.sid = r.sid
           /\ d.cookie = IF r.kind = "logout" THEN NoSid ELSE Same

(* The handler of p does so.                                               *)
Resumed(p, res) ==
  \E d : h' = [h EXCEPT ![p] = d] /\ Resumes(h[p], res, call[p].new, d)

(* A handler that answers.                                                 *)
LEMMA RespondResumes ==
  ASSUME NEW p \in Proc, NEW res, NEW c, NEW to, h[p] \in Request,
         Respond(p, h[p], c, to),
         \/ h[p].pc \in {"start_login", "add_login_info"} /\ res = "ok" /\ c = call[p].new
         \/ /\ h[p].pc = "start_session"
            /\ (res = "ok" /\ c = call[p].new /\ to = h[p].goto) \/ c = NoSid
         \/ h[p].pc = "logout" /\ c = IF h[p].kind = "logout" THEN NoSid ELSE Same
  PROVE  Resumed(p, res)
<1> DEFINE r == h[p]
           d == [r EXCEPT !.pc = "respond", !.cookie = c, !.goto = to]
<1>1. /\ d.pc = "respond" /\ d.cookie = c /\ d.goto = to
      /\ d.kind = r.kind /\ d.page = r.page /\ d.sent = r.sent
      /\ d.status = r.status /\ d.sid = r.sid
  BY DEF Request
<1>2. h' = [h EXCEPT ![p] = d]
  BY DEF Respond
<1> HIDE DEF d
<1>3. Resumes(r, res, call[p].new, d)
  BY <1>1 DEF Resumes
<1> QED BY <1>2, <1>3 DEF Resumed

LEMMA ReturnedResumes ==
  ASSUME NEW p \in Proc, NEW res, h[p] \in Request,
         h[p].pc = "lookup" => h[p].status = "none",
         res = "active" => call[p].ses.user \in Owner,
         Returned(p, res)
  PROVE  Resumed(p, res)
<1> DEFINE r == h[p]
           new == call[p].new
<1>1. CASE Show(p)
  BY <1>1 DEF Show, Resumed, Resumes
<1>3. CASE r.pc = "lookup" /\ Found(p, res)
  <2>1. CASE res \in {"before", "active", "idle"}
    <3> DEFINE e == [r EXCEPT !.sid = r.sent, !.status = res]
    <3>1. /\ e \in Request /\ e.kind = r.kind /\ e.page = r.page /\ e.sent = r.sent
          /\ e.cookie = r.cookie /\ e.goto = r.goto
          /\ e.sid = r.sent /\ e.status = res
      BY <2>1 DEF Request
    <3>2. Route(p, e)
      BY <1>3, <2>1 DEF Found
    <3> HIDE DEF e
    <3>3. PICK d : h' = [h EXCEPT ![p] = d] /\ RoutesTo(e, d)
      BY <3>1, <3>2, RouteRoutes DEF Active, Routes
    <3>4. Resumes(r, res, new, d)
      BY <1>3, <2>1, <3>1, <3>3 DEF Resumes
    <3> QED BY <3>3, <3>4 DEF Resumed
  <2>2. CASE res \notin {"before", "active", "idle"}
    <3>1. Route(p, r) /\ ~ Active(r)
      BY <1>3, <2>2 DEF Found, Active
    <3>2. PICK d : h' = [h EXCEPT ![p] = d] /\ RoutesTo(r, d)
      BY <3>1, RouteRoutes DEF Routes
    <3>3. Resumes(r, res, new, d)
      BY <1>3, <2>2, <3>2 DEF Resumes
    <3> QED BY <3>2, <3>3 DEF Resumed
  <2> QED BY <2>1, <2>2
<1>4. CASE r.pc = "start_login" /\ LoginStarted(p, res)
  <2>1. CASE /\ res = "ok" /\ r.kind = "federated"
             /\ Then(p, [r EXCEPT !.sid = new], "add_login_info")
    <3> DEFINE d == [r EXCEPT !.sid = new, !.pc = "add_login_info"]
    <3>1. /\ d.pc = "add_login_info" /\ d.sid = new /\ d.cookie = r.cookie
          /\ d.kind = r.kind /\ d.page = r.page /\ d.sent = r.sent
          /\ d.status = r.status
          /\ [[r EXCEPT !.sid = new] EXCEPT !.pc = "add_login_info"] = d
      BY DEF Request
    <3>2. h' = [h EXCEPT ![p] = d]
      BY <2>1, <3>1 DEF Then
    <3> HIDE DEF d
    <3>3. Resumes(r, res, new, d)
      BY <1>4, <2>1, <3>1 DEF Resumes
    <3> QED BY <3>2, <3>3 DEF Resumed
  <2>2. CASE res = "ok" /\ Respond(p, r, new, "login")
    BY <1>4, <2>2, RespondResumes
  <2> QED BY <1>1, <1>4, <2>1, <2>2 DEF LoginStarted
<1>5. CASE r.pc = "add_login_info" /\ LoginInfoAdded(p, res)
  BY <1>1, <1>5, RespondResumes DEF LoginInfoAdded
<1>6. CASE r.pc = "start_session" /\ SessionStarted(p, res)
  <2>1. CASE res = "ok" /\ Respond(p, r, new, r.goto)
    BY <1>6, <2>1, RespondResumes
  <2>2. CASE Respond(p, r, NoSid, DefaultLandingPage)
    BY <1>6, <2>2, RespondResumes
  <2> QED BY <1>1, <1>6, <2>1, <2>2 DEF SessionStarted
<1>7. CASE r.pc = "logout" /\ LoggedOut(p, res)
  <2> DEFINE c == IF r.kind = "logout" THEN NoSid ELSE Same
  <2>1. CASE Respond(p, r, c, "logged_out")
    BY <1>7, <2>1, RespondResumes
  <2> QED BY <1>1, <1>7, <2>1 DEF LoggedOut
<1>8. CASE r.pc = "callback" /\ FoundAgain(p, res) /\ ~ Show(p)
  <2> DEFINE e == [r EXCEPT !.sid = r.sent, !.status = res]
  <2>1. /\ res = "before"
        /\ \E u : u \in Owner /\ Then(p, [e EXCEPT !.user = u], "start_session")
    <3>1. res \in {"before", "active", "idle"} => e.status = res
      BY DEF Request
    <3> QED BY <1>8, <3>1, BrowserAssumption DEF FoundAgain, IdpCallback, Confirmed
  <2>2. /\ e \in Request /\ e.kind = r.kind /\ e.page = r.page /\ e.sent = r.sent
        /\ e.cookie = r.cookie /\ e.goto = r.goto /\ e.sid = r.sent
    BY <2>1 DEF Request
  <2> HIDE DEF e
  <2>3. PICK u \in Owner : Then(p, [e EXCEPT !.user = u], "start_session")
    BY <2>1
  <2> DEFINE d == [e EXCEPT !.user = u, !.pc = "start_session"]
  <2>4. /\ d.kind = r.kind /\ d.page = r.page /\ d.sent = r.sent
        /\ d.cookie = r.cookie /\ d.goto = r.goto /\ d.sid = r.sent
        /\ d.pc = "start_session"
        /\ [[e EXCEPT !.user = u] EXCEPT !.pc = "start_session"] = d
    BY <2>2 DEF Request
  <2>5. h' = [h EXCEPT ![p] = d]
    BY <2>3, <2>4 DEF Then
  <2> HIDE DEF d
  <2>6. Resumes(r, res, new, d)
    BY <1>8, <2>1, <2>4 DEF Resumes
  <2> QED BY <2>5, <2>6 DEF Resumed
<1> QED BY <1>1, <1>3, <1>4, <1>5, <1>6, <1>7, <1>8 DEF Returned

-----------------------------------------------------------------------------
(* A login that has begun and that nobody has completed.                   *)
Beginning(s) == s \in Sid /\ origin[s] # NoDoc /\ origin[s].user = NoUser

(* Such a login has its LoginInfo, and only an id that was created has     *)
(* one.                                                                    *)
InfoInv == \A s \in Sid : /\ Beginning(s) => info[s] # NoInfo
                          /\ info[s] # NoInfo => origin[s] # NoDoc

(* The login that s stands for, if any, began with a request of b.         *)
Wanted(b, s) == s \in Sid /\ info[s] # NoInfo => info[s].landing \in asked[b]

(* A request that ends the login it came with.                             *)
Entering(r) == /\ r.kind \in {"callback", "debug"}
               /\ r.status = "before" /\ r.sid # NoSid

(* StartSession has found the landing page, or the response has it.        *)
KnowsPage(r, c) == \/ r.pc = "start_session" /\ c.pc \notin {"idle", "start_get"}
                   \/ r.pc = "respond" /\ r.cookie # NoSid

Lands(b, r, c) ==
  /\ Wanted(b, r.sent) /\ Wanted(b, r.sid) /\ Wanted(b, r.cookie)
  /\ c.op \in HandsOut => Wanted(b, c.new)
  /\ c.op = "StartLogin" => RequestURI(r) \in asked[b]
  /\ r.pc \in {"start_login", "add_login_info", "logout"}
       => r.kind \notin {"callback", "debug"}
  /\ Entering(r) => Beginning(r.sid) /\ (KnowsPage(r, c) => r.goto \in asked[b])

(* A session that no look-up will find in use.                             *)
Unusable(s) == /\ s \in known
               /\ \/ single[s] = NoDoc \/ origin[s].user = NoUser
                  \/ now - origin[s].loginAt > AbsoluteTimeout

LogoutPC == {"logout_get", "logout_get_user", "logout_replace_user", "logout_delete"}

(* A handler that starts a login, or ends one, or brings another cookie,   *)
(* has looked the session up; so has the Logout inside a look-up.          *)
Lookups == {"lookup", "callback"}

Replaces(r) == /\ r.pc \in Entrance \/ (r.pc = "respond" /\ r.cookie # Same)
               /\ r.sent # NoSid /\ r.kind # "logout" /\ r.status # "idle"

Loses(r, c) == /\ c.at <= now
               /\ Replaces(r) => Unusable(r.sent)
               /\ r.pc \in Lookups /\ c.pc \in LogoutPC => Unusable(r.sent)

LoginInv == faults = 0 =>
  /\ InfoInv
  /\ \A b \in Browser : Wanted(b, cookie[b])
  /\ \A p \in Proc : Lands(BrowserOf[p], h[p], call[p]) /\ Loses(h[p], call[p])

-----------------------------------------------------------------------------
(* What the invariants say of the request of p.                            *)
LEMMA LoginFacts ==
  ASSUME SelfInv, LoginInv, faults = 0, NEW p \in Proc
  PROVE  /\ IInv /\ ProxyInv /\ InfoInv
         /\ h[p] \in Request /\ h \in [Proc -> Request] /\ call \in [Proc -> Call]
         /\ call[p] \in Call /\ LocalSet(call[p]) /\ CallKnown(call[p])
         /\ Handled(h[p], known) /\ InCall(h[p], call[p])
         /\ Lands(BrowserOf[p], h[p], call[p]) /\ Loses(h[p], call[p])
         /\ {h[p].sent, h[p].sid, h[p].cookie} \subseteq known \cup {NoSid, Same}
         /\ BrowserOf[p] \in Browser /\ known \subseteq Sid
         /\ \A b \in Browser : Wanted(b, cookie[b]) /\ cookie[b] \in known \cup {NoSid}
         /\ asked \in [Browser -> SUBSET Uri]
         /\ info \in [Sid -> Login \cup {NoInfo}]
         /\ origin \in [Sid -> Ticket \cup {NoDoc}] /\ now \in Nat
<1>1. IInv /\ ProxyInv /\ UserInv
  BY DEF SelfInv, UserInv
<1>2. call[p] \in Call /\ LocalSet(call[p])
  BY <1>1, CallFacts
<1>3. /\ IInv /\ ProxyInv /\ h[p] \in Request /\ call \in [Proc -> Call]
      /\ InCall(h[p], call[p]) /\ BrowserOf[p] \in Browser
      /\ {h[p].sent, h[p].sid, h[p].cookie} \subseteq known \cup {NoSid, Same}
      /\ \A b \in Browser : cookie[b] \in known \cup {NoSid}
  BY SelfFacts
<1>4. /\ CallKnown(call[p]) /\ Handled(h[p], known)
  BY <1>1 DEF UserInv, CallsKnown, ProxyInv, HandlersHold
<1>5. /\ h \in [Proc -> Request] /\ asked \in [Browser -> SUBSET Uri]
      /\ info \in [Sid -> Login \cup {NoInfo}]
  BY <1>1 DEF ProxyInv, ProxyTypeOK
<1>6. /\ known \subseteq Sid /\ now \in Nat /\ origin \in [Sid -> Ticket \cup {NoDoc}]
  BY <1>1 DEF IInv, TypeOK
<1>7. /\ InfoInv /\ Lands(BrowserOf[p], h[p], call[p]) /\ Loses(h[p], call[p])
      /\ \A b \in Browser : Wanted(b, cookie[b])
  BY DEF LoginInv
<1> QED BY <1>2, <1>3, <1>4, <1>5, <1>6, <1>7

(* A session that is over stays so.                                        *)
LEMMA UnusableStays ==
  ASSUME SelfInv, SelfInv', [Next]_vars, NEW s, Unusable(s)
  PROVE  Unusable(s)'
<1>1. /\ s \in known' /\ origin'[s] = origin[s] /\ now' \in Nat /\ now <= now'
      /\ single[s] = NoDoc => single'[s] = NoDoc
  BY SeenStays, TimePasses DEF Unusable, Seen, SelfInv, UserInv, IInv, TypeOK
<1>2. now - origin[s].loginAt > AbsoluteTimeout /\ single'[s] # NoDoc
        => now' - origin[s].loginAt > AbsoluteTimeout
  <2>1. s \in Sid /\ now \in Nat
    BY DEF SelfInv, UserInv, IInv, TypeOK, Unusable
  <2>2. single'[s] # NoDoc => origin'[s] # NoDoc
    BY <2>1 DEF SelfInv, UserInv, IInv, DocsMatchOrigin, SameLogin
  <2>3. origin[s] # NoDoc => origin[s].loginAt \in Nat
    BY <2>1 DEF SelfInv, UserInv, IInv, TypeOK, Ticket
  <2> QED BY <1>1, <2>1, <2>2, <2>3, TermsAssumption
<1> QED BY <1>1, <1>2 DEF Unusable

(* A login that has begun is not completed under its own id.               *)
LEMMA BeginningStays ==
  ASSUME SelfInv, SelfInv', [Next]_vars, NEW s \in known, Beginning(s)
  PROVE  Beginning(s)'
  BY SeenStays DEF Beginning, Seen

-----------------------------------------------------------------------------
(* What the session storage does to the logins that begin.                 *)

(* The call of p writes no LoginInfo, or that of the id it has drawn.      *)
Written(p) ==
  LET c == call[p]  n == c.new IN
  \/ origin' = origin /\ info' = info
  \/ /\ n \in Sid /\ n \notin known /\ info[n] = NoInfo /\ origin'[n] # NoDoc
     /\ \A s \in Sid \ {n} : origin'[s] = origin[s] /\ info'[s] = info[s]
     /\ \/ /\ c.op = "StartLogin"
           /\ info'[n] # NoInfo /\ info'[n].landing = RequestURI(h[p])
        \/ /\ c.op = "AddLoginInfo" /\ c.sid \in Sid /\ origin[c.sid] # NoDoc
           /\ origin'[n] = origin[c.sid]
           /\ IF info[c.sid] = NoInfo THEN info'[n] = NoInfo
              ELSE info'[n] # NoInfo /\ info'[n].landing = info[c.sid].landing
        \/ /\ c.op = "StartSession" /\ origin'[n].user # NoUser /\ info'[n] = NoInfo

LEMMA LoginWritten ==
  ASSUME SelfInv, LoginInv, faults = 0, faults' = 0, NEW p \in Proc,
         Step(p), LoginInfo(p)
  PROVE  Written(p)
<1> DEFINE c == call[p]
           n == c.new
<1>1. /\ IInv /\ InfoInv /\ c \in Call /\ LocalSet(c) /\ CallKnown(c)
      /\ h[p] \in Request /\ Handled(h[p], known) /\ InCall(h[p], c)
      /\ info \in [Sid -> Login \cup {NoInfo}]
      /\ origin \in [Sid -> Ticket \cup {NoDoc}] /\ now \in Nat
  BY LoginFacts
<1>2. c.pc \in ToCreate => /\ n \in Sid /\ n \notin known
                           /\ origin[n] = NoDoc /\ info[n] = NoInfo
  BY <1>1 DEF LocalSet, HasNew, CallKnown, IInv, NewIdsFresh, InfoInv
<1>3. \A doc, ticket, a : CreateSingle(p, doc, ticket, a)
        => origin' = [origin EXCEPT ![n] = ticket]
  BY DEF CreateSingle, PutSingle, Gives, Fails
<1>4. CASE CreateLogin(p)
  <2>1. c.pc = "create_login" /\ c.op = "StartLogin" /\ c.pc \in ToCreate
    BY <1>1, <1>4 DEF CreateLogin, LocalSet, OpAt, ToCreate
  <2>2. origin' = [origin EXCEPT ![n] = [user |-> NoUser, loginAt |-> now]]
    BY <1>3, <1>4 DEF CreateLogin
  <2>3. info' = [info EXCEPT ![n] = [landing |-> RequestURI(h[p]), idp |-> FALSE]]
    BY <2>1 DEF LoginInfo
  <2>4. RequestURI(h[p]) \in Uri
    BY <1>1, <2>1 DEF InCall, OpOf, Handled, Set
  <2>5. [landing |-> RequestURI(h[p]), idp |-> FALSE] \in Login
    BY <2>4 DEF Login
  <2>6. [user |-> NoUser, loginAt |-> now] \in Ticket
    BY <1>1 DEF Ticket, Owner
  <2> QED BY <1>1, <1>2, <2>1, <2>2, <2>3, <2>5, <2>6, NoInfoAssumption, NoDocAssumption
          DEF Written
<1>5. CASE AddCreate(p)
  <2>1. /\ c.pc = "add_create" /\ c.op = "AddLoginInfo" /\ c.pc \in ToCreate
        /\ c.sid \in Sid /\ c.ses # NoDoc
    BY <1>1, <1>5 DEF AddCreate, LocalSet, OpAt, ToCreate, HasSid, HasSes
  <2>2. origin' = [origin EXCEPT ![n] = origin[c.sid]]
    BY <1>3, <1>5 DEF AddCreate
  <2>3. origin[c.sid] # NoDoc
    BY <1>1, <2>1, CallFacts DEF SameLogin
  <2>4. CASE info[c.sid] = NoInfo
    <3>1. info' = info
      BY <2>1, <2>4 DEF LoginInfo
    <3> QED BY <1>1, <1>2, <2>1, <2>2, <2>3, <2>4, <3>1 DEF Written
  <2>5. CASE info[c.sid] # NoInfo
    <3> DEFINE i == [info[c.sid] EXCEPT !.idp = TRUE]
    <3>1. info' = [info EXCEPT ![n] = i]
      BY <2>1, <2>5 DEF LoginInfo
    <3>2. i \in Login /\ i.landing = info[c.sid].landing
      BY <1>1, <2>1, <2>5 DEF Login
    <3> HIDE DEF i
    <3> QED BY <1>1, <1>2, <2>1, <2>2, <2>3, <2>5, <3>1, <3>2, NoInfoAssumption
            DEF Written
  <2> QED BY <2>4, <2>5
<1>6. CASE StartCreate(p)
  <2>1. /\ c.pc = "start_create" /\ c.op = "StartSession" /\ c.pc \in ToCreate
        /\ c.user # NoUser
    BY <1>1, <1>6 DEF StartCreate, LocalSet, OpAt, ToCreate
  <2>2. origin' = [origin EXCEPT ![n] = [user |-> c.user, loginAt |-> now]]
    BY <1>3, <1>6 DEF StartCreate
  <2>3. info' = info
    BY <2>1 DEF LoginInfo
  <2>4. [user |-> c.user, loginAt |-> now] \in Ticket
    BY <1>1 DEF Ticket, Call
  <2> QED BY <1>1, <1>2, <2>1, <2>2, <2>3, <2>4, NoDocAssumption DEF Written
<1>7. CASE ~ CreateLogin(p) /\ ~ AddCreate(p) /\ ~ StartCreate(p)
  <2>1. c.op # "RenewSession"
    BY <1>1, StepsEffect DEF InCall, OpOf, StepEffect
  <2>2. ~ RenewCreate(p)
    BY <1>1, <2>1 DEF RenewCreate, LocalSet, OpAt
  <2>3. c.pc \notin {"create_login", "add_create"}
    BY <1>7, <2>2
    DEF Step, GenerateNewSessionID, AddGet, AddDelete, StartGet, StartDelete,
        StartPanic, StartGetUser, StartCreateUser, StartReplaceUser, LogoutGet,
        LogoutGetUser, LogoutReplaceUser, LogoutDelete, ReadGet, ReadGetUser,
        UpdateUser, UpdateSingle, RenewGet, RenewDelete, Reads
  <2>4. info' = info
    BY <2>3 DEF LoginInfo
  <2>5. origin' = origin
    BY <1>7, <2>2
    DEF Step, GenerateNewSessionID, AddGet, AddDelete, StartGet, StartDelete,
        StartPanic, StartGetUser, StartCreateUser, StartReplaceUser, LogoutGet,
        LogoutGetUser, LogoutReplaceUser, LogoutDelete, ReadGet, ReadGetUser,
        UpdateUser, UpdateSingle, RenewGet, RenewDelete, Reads, DeleteSingle,
        ReplaceSingle, PutUser
  <2> QED BY <2>4, <2>5 DEF Written
<1> QED BY <1>4, <1>5, <1>6, <1>7

(* So a login that begins keeps its LoginInfo.                             *)
LEMMA InfoStays ==
  ASSUME SelfInv, LoginInv, faults = 0, NEW p \in Proc, Written(p)
  PROVE  InfoInv'
<1>1. InfoInv
  BY DEF LoginInv
<1>2. CASE origin' = origin /\ info' = info
  BY <1>1, <1>2 DEF InfoInv, Beginning
<1>3. CASE ~ (origin' = origin /\ info' = info)
  BY <1>1, <1>3 DEF Written, InfoInv, Beginning
<1> QED BY <1>2, <1>3

(* The logins of the ids that others hold, or may draw, begin where they   *)
(* began.                                                                  *)
LEMMA OthersWanted ==
  ASSUME NEW p, Written(p), NEW b, NEW s, Wanted(b, s), asked[b] \subseteq asked'[b],
         s \in known \/ s # call[p].new
  PROVE  Wanted(b, s)'
  BY DEF Written, Wanted

(* The id that a call of p has drawn, or draws, begins with a request of   *)
(* its browser.                                                            *)
LEMMA DrawnIsWanted ==
  ASSUME SelfInv, LoginInv, faults = 0, NEW p \in Proc, Written(p),
         call[p].pc # "idle", call[p].op \in HandsOut, asked' = asked,
         NEW s \in {call[p].new} \cup Fresh
  PROVE  Wanted(BrowserOf[p], s)'
<1> DEFINE b == BrowserOf[p]
           n == call[p].new
<1>1. /\ Lands(b, h[p], call[p]) /\ InCall(h[p], call[p]) /\ InfoInv
  BY LoginFacts
<1>2. CASE s \in Fresh
  <2>1. s \in Sid /\ s # n /\ origin[s] = NoDoc
    BY <1>2 DEF Fresh
  <2>2. info[s] = NoInfo
    BY <1>1, <2>1 DEF InfoInv
  <2> QED BY <2>1, <2>2 DEF Written, Wanted
<1>3. CASE s = n /\ info' = info
  BY <1>1, <1>3 DEF Lands, Wanted
<1>4. CASE s = n /\ info' # info
  <2>1. CASE call[p].op = "StartLogin"
    BY <1>1, <1>4, <2>1 DEF Written, Lands, Wanted
  <2>2. CASE call[p].op = "AddLoginInfo"
    <3>1. call[p].sid = h[p].sid
      BY <1>1, <2>2 DEF InCall, OpOf, SidOf
    <3> QED BY <1>1, <1>4, <2>2, <3>1 DEF Written, Lands, Wanted
  <2>3. CASE call[p].op = "StartSession"
    BY <1>4, <2>3 DEF Written, Wanted
  <2> QED BY <2>1, <2>2, <2>3 DEF HandsOut
<1> QED BY <1>2, <1>3, <1>4

-----------------------------------------------------------------------------
(* What a look-up finds.                                                   *)

(* The time that a call keeps is the one at which it read the clock.       *)
LEMMA StepTimes ==
  ASSUME IInv, NEW p \in Proc, Step(p)
  PROVE  call'[p].at \in {call[p].at, now, 0}
<1>1. call[p] \in Call /\ call \in [Proc -> Call]
  BY DEF IInv, TypeOK
<1>2. ASSUME NEW pc \in PC, Goto(p, pc) \/ Load(p, pc) \/ LoadUser(p, pc)
      PROVE  call'[p].at = call[p].at
  BY <1>1, <1>2 DEF Goto, Load, LoadUser, GoOn, Call
<1>3. ASSUME NEW res, NEW s, Return(p, res, s)
      PROVE  call'[p].at = 0
  BY <1>1, <1>3 DEF Return, Idle
<1>4. CASE GenerateNewSessionID(p)
  <2>1. ASSUME NEW s \in Fresh,
               GoOn(p, [call[p] EXCEPT !.pc = AfterGenerate(call[p].op), !.new = s])
        PROVE  call'[p].at = call[p].at
    BY <1>1, <2>1 DEF GoOn, Call
  <2> QED BY <1>3, <1>4, <2>1 DEF GenerateNewSessionID
<1>5. CASE ReadGet(p)
  <2>1. ASSUME NEW doc,
               GoOn(p, [call[p] EXCEPT !.pc = "read_get_user", !.ses = doc, !.at = now])
        PROVE  call'[p].at = now
    BY <1>1, <2>1 DEF GoOn, Call
  <2> QED BY <1>2, <1>3, <1>5, <2>1 DEF ReadGet, ReadBeforeLogin, PC
<1>6. CASE ReadGetUser(p)
  <2>1. ASSUME NEW pc, NEW x, GoOn(p, [call[p] EXCEPT !.pc = pc, !.uses = x])
        PROVE  call'[p].at = call[p].at
    BY <1>1, <2>1 DEF GoOn, Call
  <2> QED BY <1>2, <1>3, <1>6, <2>1 DEF ReadGetUser, PC
<1>7. CASE \/ CreateLogin(p) \/ AddGet(p) \/ AddDelete(p) \/ AddCreate(p)
           \/ StartGet(p) \/ StartDelete(p) \/ StartCreate(p) \/ StartPanic(p)
           \/ StartGetUser(p) \/ StartCreateUser(p) \/ StartReplaceUser(p)
  BY <1>2, <1>3, <1>7
  DEF CreateLogin, AddGet, AddDelete, AddCreate, StartGet, StartDelete, StartCreate,
      StartPanic, StartGetUser, StartCreateUser, StartReplaceUser, StartReturns, PC
<1>8. CASE \/ LogoutGet(p) \/ LogoutGetUser(p) \/ LogoutReplaceUser(p)
           \/ LogoutDelete(p) \/ UpdateUser(p) \/ UpdateSingle(p)
           \/ RenewGet(p) \/ RenewCreate(p) \/ RenewDelete(p)
  BY <1>2, <1>3, <1>8
  DEF LogoutGet, LogoutGetUser, LogoutReplaceUser, LogoutDelete, LogoutReturns,
      UpdateUser, UpdateSingle, RenewGet, RenewCreate, RenewDelete, PC
<1> QED BY <1>4, <1>5, <1>6, <1>7, <1>8 DEF Step

(* A look-up answers "before" for a login that has begun, and "invalid"    *)
(* for a session that is over; with a store that answers it does not fail. *)
LEMMA LookupAnswers ==
  ASSUME SelfInv, LoginInv, faults = 0, faults' = 0, NEW p \in Proc, Step(p),
         h[p].pc \in Lookups, call'[p].pc = "idle"
  PROVE  /\ reply' \in {"before", "active", "idle", "invalid"}
         /\ reply' = "before" => Beginning(h[p].sent)
         /\ reply' \in {"before", "invalid"} => Unusable(h[p].sent)
<1> DEFINE c == call[p]
           s == h[p].sent
<1>1. /\ IInv /\ c \in Call /\ call \in [Proc -> Call] /\ LocalSet(c) /\ CallKnown(c)
      /\ Handled(h[p], known) /\ InCall(h[p], c) /\ Loses(h[p], c)
      /\ known \subseteq Sid
  BY LoginFacts
<1>2. c.pc # "idle" /\ StepEffect(p)
  BY <1>1, StepsEffect DEF StepEffect
<1>3. c.op = "FindBySessionToken" /\ c.sid = s /\ s \in known
  BY <1>1, <1>2 DEF InCall, OpOf, SidOf, Handled, Set, Lookups
<1>4. ~ Fails
  BY DEF Fails
<1>5. \A res : Return(p, res, NoSid) => reply' = res
  BY DEF Return
<1>6. ASSUME NEW pc \in PC \ {"idle"}, Goto(p, pc) \/ Load(p, pc) \/ LoadUser(p, pc)
      PROVE  FALSE
  BY <1>1, <1>6 DEF Goto, Load, LoadUser, GoOn, Call
<1>7. CASE ReadGet(p)
  <2>1. \/ single[s] = NoDoc /\ reply' = "invalid"
        \/ single[s] # NoDoc /\ single[s].user = NoUser /\ reply' = "before"
    <3>1. ~ GoOn(p, [c EXCEPT !.pc = "read_get_user", !.ses = Doc(p), !.at = now])
      BY <1>1 DEF GoOn, Call
    <3> QED BY <1>3, <1>4, <1>5, <1>6, <1>7, <3>1
            DEF ReadGet, ReadBeforeLogin, Doc, PC
  <2>2. single[s] # NoDoc => origin[s] # NoDoc /\ single[s].user = origin[s].user
    BY <1>1, <1>3 DEF IInv, DocsMatchOrigin, SameLogin
  <2> QED BY <1>1, <1>3, <2>1, <2>2 DEF Beginning, Unusable
<1>8. CASE ReadGetUser(p)
  <2>1. c.ses # NoDoc /\ c.ses.user \in User /\ userSes[c.ses.user] # NoDoc
    BY <1>1, <1>3, <1>8, NoneAssumption
    DEF ReadGetUser, Reads, LocalSet, HasSes, HasUser, UserIn, CallKnown, HasDoc
  <2> QED BY <1>3, <1>4, <1>5, <1>6, <1>8, <2>1 DEF ReadGetUser, PC
<1>9. CASE LogoutGet(p) \/ LogoutGetUser(p) \/ LogoutReplaceUser(p) \/ LogoutDelete(p)
  <2>1. c.pc \in LogoutPC
    BY <1>9
    DEF LogoutGet, LogoutGetUser, LogoutReplaceUser, LogoutDelete, Reads, LogoutPC
  <2>2. reply' = "invalid"
    BY <1>3, <1>5, <1>6, <1>9
    DEF LogoutGet, LogoutGetUser, LogoutReplaceUser, LogoutDelete, LogoutReturns, PC
  <2> QED BY <1>1, <2>1, <2>2 DEF Loses
<1>10. ReadGet(p) \/ ReadGetUser(p) \/ LogoutGet(p) \/ LogoutGetUser(p)
         \/ LogoutReplaceUser(p) \/ LogoutDelete(p)
  <2>1. c.pc \in {"read_get", "read_get_user"} \cup LogoutPC
    BY <1>1, <1>2, <1>3 DEF LocalSet, OpAt, Call, PC, LogoutPC
  <2> QED BY <2>1
      DEF LogoutPC, Step, GenerateNewSessionID, CreateLogin, AddGet, AddDelete,
          AddCreate, StartGet, StartDelete, StartCreate, StartPanic, StartGetUser,
          StartCreateUser, StartReplaceUser, UpdateUser, UpdateSingle, RenewGet,
          RenewCreate, RenewDelete, Reads
<1> QED BY <1>7, <1>8, <1>9, <1>10

(* A call notes the time when it reads the clock; a look-up that turns to  *)
(* the Logout has found a session that is over.                            *)
LEMMA LookupGoesOn ==
  ASSUME SelfInv, LoginInv, faults = 0, faults' = 0, NEW p \in Proc, Step(p)
  PROVE  /\ call'[p].at <= now
         /\ h[p].pc \in Lookups /\ call'[p].pc \in LogoutPC => Unusable(h[p].sent)
<1> DEFINE c == call[p]
           s == h[p].sent
<1>1. /\ IInv /\ c \in Call /\ call \in [Proc -> Call] /\ LocalSet(c) /\ CallKnown(c)
      /\ Handled(h[p], known) /\ InCall(h[p], c) /\ Loses(h[p], c)
      /\ known \subseteq Sid /\ now \in Nat
  BY LoginFacts
<1>2. call'[p].at \in {c.at, now, 0}
  BY <1>1, StepTimes
<1>3. call'[p].at <= now
  BY <1>1, <1>2 DEF Loses
<1>4. ASSUME h[p].pc \in Lookups, call'[p].pc \in LogoutPC
      PROVE  Unusable(s)
  <2>1. c.op = "FindBySessionToken" /\ c.sid = s /\ s \in known
    BY <1>1, <1>4, StepsEffect
    DEF InCall, OpOf, SidOf, Handled, Set, StepEffect, Lookups
  <2>2. CASE c.pc \in LogoutPC
    BY <1>1, <1>4, <2>2 DEF Loses
  <2>3. CASE c.pc = "read_get" /\ ReadGet(p)
    <3>1. single[s] # NoDoc => origin[s] # NoDoc /\ single[s].user = origin[s].user
      BY <1>1, <2>1 DEF IInv, DocsMatchOrigin, SameLogin
    <3>2. \/ single[s] = NoDoc \/ single[s].user = NoUser
          \/ GoOn(p, [c EXCEPT !.pc = "read_get_user", !.ses = Doc(p), !.at = now])
          \/ \E res : Return(p, res, NoSid)
      BY <2>1, <2>3 DEF ReadGet, Doc
    <3>3. ~ GoOn(p, [c EXCEPT !.pc = "read_get_user", !.ses = Doc(p), !.at = now])
      BY <1>1, <1>4 DEF GoOn, Call, LogoutPC
    <3>4. ~ \E res : Return(p, res, NoSid)
      BY <1>1, <1>4 DEF Return, Idle, LogoutPC
    <3> QED BY <2>1, <3>1, <3>2, <3>3, <3>4 DEF Unusable
  <2>4. CASE c.pc = "read_get_user" /\ ReadGetUser(p)
    <3>1. /\ c.ses # NoDoc /\ origin[s] # NoDoc /\ c.ses.loginAt = origin[s].loginAt
          /\ origin[s].loginAt \in Nat
      BY <1>1, <2>1, <2>4, CallFacts
      DEF LocalSet, HasSes, SameLogin, IInv, TypeOK, Ticket
    <3>2. ~ \E res : Return(p, res, NoSid)
      BY <1>1, <1>4 DEF Return, Idle, LogoutPC
    <3>3. Expired(c.at, c.ses, AbsoluteTimeout)
      BY <2>1, <2>4, <3>2 DEF ReadGetUser
    <3>4. c.at \in Nat /\ c.at <= now
      BY <1>1 DEF Call, Loses
    <3>5. now - origin[s].loginAt > AbsoluteTimeout
      BY <1>1, <3>1, <3>3, <3>4, TermsAssumption DEF Expired
    <3> QED BY <2>1, <3>5 DEF Unusable
  <2>5. c.pc \in {"read_get", "read_get_user"} \cup LogoutPC
    BY <1>1, <2>1 DEF LocalSet, OpAt, Call, PC, LogoutPC
  <2>6. CASE c.pc \in {"read_get", "read_get_user"}
    <3>1. ReadGet(p) \/ ReadGetUser(p)
      BY <2>6
      DEF Step, GenerateNewSessionID, CreateLogin, AddGet, AddDelete,
          AddCreate, StartGet, StartDelete, StartCreate, StartPanic, StartGetUser,
          StartCreateUser, StartReplaceUser, LogoutGet, LogoutGetUser,
          LogoutReplaceUser, LogoutDelete, UpdateUser, UpdateSingle, RenewGet,
          RenewCreate, RenewDelete, Reads
    <3> QED BY <2>3, <2>4, <3>1 DEF ReadGet, ReadGetUser, Reads
  <2> QED BY <2>2, <2>5, <2>6
<1> QED BY <1>3, <1>4

-----------------------------------------------------------------------------
(* The steps keep LoginInv.                                                *)

(* The step of p leaves the logins of the others, and where they began.    *)
OthersBegin(p) ==
  /\ InfoInv'
  /\ \A b \in Browser : asked[b] \subseteq asked'[b]
  /\ \A b \in Browser : \A s \in known \cup {NoSid, Same} :
       Wanted(b, s) => Wanted(b, s)'
  /\ \A q \in Proc : /\ q # p => call'[q] = call[q]
                     /\ q # p => \A s \in {call[q].new} :
                          Wanted(BrowserOf[q], s) => Wanted(BrowserOf[q], s)'

(* A step that writes no LoginInfo.                                        *)
LEMMA QuietBegins ==
  ASSUME SelfInv, LoginInv, faults = 0, NEW p \in Proc,
         origin' = origin, info' = info,
         \A b \in Browser : asked[b] \subseteq asked'[b],
         \A q \in Proc : q # p => call'[q] = call[q]
  PROVE  /\ OthersBegin(p)
         /\ \A b \in Browser : \A s : Wanted(b, s) => Wanted(b, s)'
<1>1. InfoInv'
  BY InfoStays DEF Written
<1>2. ASSUME NEW b \in Browser, NEW s, Wanted(b, s) PROVE Wanted(b, s)'
  BY <1>2 DEF Wanted
<1> QED BY <1>1, <1>2, BrowserAssumption DEF OthersBegin

(* A store call of p.                                                      *)
LEMMA StepBegins ==
  ASSUME SelfInv, LoginInv, faults = 0, faults' = 0, NEW p \in Proc, Serve(p)
  PROVE  Written(p) /\ OthersBegin(p)
<1>1. Written(p) /\ asked' = asked /\ IInv /\ known \subseteq Sid
  BY LoginWritten, LoginFacts DEF Serve
<1>2. \A q \in Proc : q # p => call'[q] = call[q]
  BY <1>1, StepsEffect, LoginFacts DEF Serve, StepEffect
<1>3. ASSUME NEW b \in Browser, NEW s \in known \cup {NoSid, Same}, Wanted(b, s)
      PROVE  Wanted(b, s)'
  BY <1>1, <1>3, NoneAssumption, SameAssumption, OthersWanted DEF Wanted
<1>4. ASSUME NEW q \in Proc, q # p, NEW s \in {call[q].new}, Wanted(BrowserOf[q], s)
      PROVE  Wanted(BrowserOf[q], s)'
  <2>1. s \in Sid => s # call[p].new
    BY <1>1, <1>4, NoneAssumption DEF IInv, NewIdsFresh
  <2> QED BY <1>1, <1>4, <2>1, OthersWanted DEF Wanted
<1>5. InfoInv'
  BY <1>1, InfoStays
<1> QED BY <1>1, <1>2, <1>3, <1>4, <1>5 DEF OthersBegin

(* The request of p moves on; the others are as they were.                 *)
LEMMA MoveLogin ==
  ASSUME SelfInv, SelfInv', [Next]_vars, LoginInv, faults = 0, NEW p \in Proc,
         OthersBegin(p), NEW d, h' = [h EXCEPT ![p] = d],
         Lands(BrowserOf[p], d, call[p])', Loses(d, call[p])',
         \A b \in Browser : Wanted(b, cookie[b])'
  PROVE  LoginInv'
<1>1. \A q \in Proc : h'[q] = IF q = p THEN d ELSE h[q]
  BY LoginFacts
<1>2. ASSUME NEW q \in Proc, q # p
      PROVE  Lands(BrowserOf[q], h[q], call[q])' /\ Loses(h[q], call[q])'
  <2>1. PICK b, r, c : b = BrowserOf[q] /\ r = h[q] /\ c = call[q]
    OBVIOUS
  <2>2. /\ Lands(b, r, c) /\ Loses(r, c) /\ b \in Browser /\ c \in Call /\ now \in Nat
        /\ {r.sent, r.sid, r.cookie} \subseteq known \cup {NoSid, Same}
    BY <2>1, LoginFacts
  <2>3. h'[q] = r /\ call'[q] = c
    BY <1>1, <1>2, <2>1 DEF OthersBegin
  <2>4. Wanted(b, r.sent)' /\ Wanted(b, r.sid)' /\ Wanted(b, r.cookie)'
    BY <2>2 DEF OthersBegin, Lands
  <2>5. c.op \in HandsOut => Wanted(b, c.new)'
    BY <1>2, <2>1, <2>2 DEF OthersBegin, Lands
  <2>6. Entering(r) => Beginning(r.sid)'
    BY <2>2, BeginningStays, SameAssumption DEF Lands, Entering, Beginning
  <2>7. asked[b] \subseteq asked'[b]
    BY <2>2 DEF OthersBegin
  <2>8. Lands(b, r, c)'
    BY <2>2, <2>4, <2>5, <2>6, <2>7 DEF Lands
  <2>9. Loses(r, c)'
    BY <2>2, TimePasses, UnusableStays DEF Loses, Call
  <2> QED BY <2>1, <2>3, <2>8, <2>9
<1>3. Lands(BrowserOf[p], h[p], call[p])' /\ Loses(h[p], call[p])'
  BY <1>1
<1> QED BY <1>2, <1>3 DEF LoginInv, OthersBegin

(* A cookie that stays.                                                    *)
LEMMA CookiesWanted ==
  ASSUME SelfInv, LoginInv, faults = 0, NEW p \in Proc, OthersBegin(p), cookie' = cookie
  PROVE  \A b \in Browser : Wanted(b, cookie[b])'
  BY LoginFacts DEF OthersBegin

(* A request that is free of ids holds nothing that could be wrong.        *)
LEMMA FreeLogin ==
  ASSUME NEW b, NEW c, c.pc = "idle", c.op = "none", c.at \in Nat, c.at <= now'
  PROVE  Lands(b, Free, c)' /\ Loses(Free, c)'
<1>1. /\ Free.sent = NoSid /\ Free.sid = NoSid /\ Free.cookie = Same
      /\ Free.kind = "page" /\ Free.pc = "free"
  BY DEF Free
<1>2. ~ Entering(Free) /\ ~ Replaces(Free)
  BY <1>1 DEF Entering, Replaces, Entrance
<1> QED BY <1>1, <1>2, NoneAssumption, SameAssumption
        DEF Lands, Loses, Wanted, HandsOut, Entering, Replaces, Lookups

(* A request arrives.                                                      *)
LEMMA ArriveLogin ==
  ASSUME SelfInv, SelfInv', LoginInv, faults = 0, [Next]_vars, NEW p \in Proc, Arrive(p)
  PROVE  LoginInv'
<1> DEFINE b == BrowserOf[p]
<1>1. PICK r \in Requests(b) :
        IF cookie[b] = NoSid THEN Route(p, r) /\ UNCHANGED vars
        ELSE /\ Begin(p, "FindBySessionToken", cookie[b], NoUser, NoDirectives,
                      "read_get")
             /\ Then(p, [r EXCEPT !.sent = cookie[b], !.late = cookie[b] \in out],
                     "lookup")
  BY DEF Arrive
<1>2. /\ r \in Request /\ r.pc = "free" /\ r.status = "none" /\ r.sid = NoSid
      /\ r.sent = NoSid /\ r.cookie = Same
  BY LoginFacts, RequestHandled DEF Handled
<1>3. /\ origin' = origin /\ info' = info /\ asked' = asked /\ cookie' = cookie
      /\ now' = now
  BY <1>1 DEF Arrive, Begin, vars
<1>4. /\ call \in [Proc -> Call] /\ now \in Nat /\ call[p] \in Call /\ b \in Browser
      /\ call[p].pc = "idle" /\ call[p].op = "none" /\ LocalSet(call[p])
      /\ Loses(h[p], call[p]) /\ Wanted(b, cookie[b])
  <2>1. call[p].pc = "idle"
    BY LoginFacts DEF Arrive, InCall, Calling
  <2> QED BY <2>1, LoginFacts DEF LocalSet, OpAt
<1>5. CASE Route(p, r) /\ UNCHANGED vars
  <2>1. PICK d : h' = [h EXCEPT ![p] = d] /\ RoutesTo(r, d)
    BY <1>2, <1>5, RouteRoutes DEF Active, Routes
  <2>2. call' = call
    BY <1>5 DEF vars
  <2>3. OthersBegin(p)
    BY <1>3, <2>2, QuietBegins
  <2>4. PICK c : c = call[p]
    OBVIOUS
  <2>5. c.pc = "idle" /\ c.op = "none" /\ c.at \in Nat /\ c.at <= now'
    BY <1>3, <1>4, <2>4 DEF Call, Loses
  <2>6. Lands(b, d, c)' /\ Loses(d, c)'
    <3>1. CASE d = Free
      BY <2>5, <3>1, FreeLogin
    <3>2. CASE d # Free
      <4>1. Onward(r, d) /\ (r.kind \in {"callback", "debug"} => d.pc \in Ending)
        BY <2>1, <3>2 DEF RoutesTo
      <4>2. d.sent = NoSid /\ d.sid = NoSid /\ d.cookie = Same /\ d.status = "none"
        BY <1>2, <4>1 DEF Onward
      <4> QED BY <2>5, <4>1, <4>2, NoneAssumption, SameAssumption
              DEF Lands, Loses, Wanted, HandsOut, Entering, Replaces, LogoutPC, Onward,
                  Ending, Entrance, Lookups
    <3> QED BY <3>1, <3>2
  <2> QED BY <1>3, <2>1, <2>2, <2>3, <2>4, <2>6, MoveLogin, CookiesWanted
<1>6. CASE /\ cookie[b] # NoSid
           /\ Begin(p, "FindBySessionToken", cookie[b], NoUser, NoDirectives, "read_get")
           /\ Then(p, [r EXCEPT !.sent = cookie[b], !.late = cookie[b] \in out], "lookup")
  <2> DEFINE s == cookie[b]
             l == s \in out
             e == [r EXCEPT !.sent = s, !.late = l, !.pc = "lookup"]
             x == [Idle EXCEPT !.pc = "read_get", !.op = "FindBySessionToken",
                               !.sid = s, !.user = NoUser, !.dirs = NoDirectives]
  <2>1. /\ e.pc = "lookup" /\ e.sent = s /\ e.sid = r.sid /\ e.cookie = r.cookie
        /\ e.status = r.status
        /\ [[r EXCEPT !.sent = s, !.late = l] EXCEPT !.pc = "lookup"] = e
    BY <1>2 DEF Request
  <2>2. h' = [h EXCEPT ![p] = e]
    BY <1>6, <2>1 DEF Then
  <2>3. /\ call' = [call EXCEPT ![p] = x]
        /\ x.pc = "read_get" /\ x.op = "FindBySessionToken" /\ x.at = 0
    BY <1>6 DEF Begin, GoOn, Idle
  <2>4. PICK d : d = e
    OBVIOUS
  <2>5. PICK c : c = x
    OBVIOUS
  <2> HIDE DEF e, x
  <2>6. call'[p] = c /\ \A q \in Proc : q # p => call'[q] = call[q]
    BY <1>4, <2>3, <2>5
  <2>7. OthersBegin(p) /\ Wanted(b, s)'
    BY <1>3, <1>4, <2>6, QuietBegins
  <2>8. Lands(b, d, c)' /\ Loses(d, c)'
    <3>1. /\ d.pc = "lookup" /\ d.sent = s /\ d.sid = NoSid /\ d.cookie = Same
          /\ d.status = "none"
      BY <1>2, <2>1, <2>4
    <3>2. c.pc = "read_get" /\ c.op = "FindBySessionToken" /\ c.at = 0
      BY <2>3, <2>5
    <3>3. ~ Entering(d) /\ ~ Replaces(d) /\ now' \in Nat /\ s' = s
      BY <1>3, <1>4, <3>1 DEF Entering, Replaces, Entrance
    <3> HIDE DEF s
    <3> QED BY <2>7, <3>1, <3>2, <3>3, NoneAssumption, SameAssumption
            DEF Lands, Loses, Wanted, HandsOut, LogoutPC, Entering, Replaces
  <2> QED BY <1>3, <2>2, <2>4, <2>6, <2>7, <2>8, MoveLogin, CookiesWanted
<1> QED BY <1>1, <1>5, <1>6

(* A handler makes a further call.                                         *)
LEMMA CallLogin ==
  ASSUME SelfInv, SelfInv', LoginInv, faults = 0, [Next]_vars, NEW p \in Proc,
         CallStartLogin(p) \/ CallStartSession(p) \/ CallOther(p)
  PROVE  LoginInv'
<1> DEFINE b == BrowserOf[p]
           r == h[p]
<1>1. /\ h \in [Proc -> Request] /\ call \in [Proc -> Call] /\ now \in Nat /\ b \in Browser
      /\ Lands(b, r, call[p]) /\ Loses(r, call[p])
      /\ {r.sent, r.sid, r.cookie} \subseteq known \cup {NoSid, Same}
      /\ asked \in [Browser -> SUBSET Uri] /\ Handled(r, known)
  BY LoginFacts
<1>2. /\ h' = h /\ origin' = origin /\ info' = info /\ cookie' = cookie /\ now' = now
      /\ \A a \in Browser : asked[a] \subseteq asked'[a]
      /\ r.pc \in Calling \ {"lookup"}
  BY <1>1
  DEF CallStartLogin, CallStartSession, CallOther, proxyVars, Begin, Calling
<1>3. PICK op, s, u, dirs, pc :
        /\ Begin(p, op, s, u, dirs, pc)
        /\ op = "StartLogin" => RequestURI(r) \in asked'[b]
        /\ r.pc = "start_session" => pc = "start_get"
        /\ pc \notin LogoutPC \/ r.pc \notin Lookups
  BY <1>1 DEF LogoutPC, Lookups, CallStartLogin, CallStartSession, CallOther
<1> DEFINE x == [Idle EXCEPT !.pc = pc, !.op = op, !.sid = s, !.user = u,
                             !.dirs = dirs]
<1>4. /\ call' = [call EXCEPT ![p] = x]
      /\ x.op = op /\ x.new = NoSid /\ x.at = 0 /\ x.pc = pc
  BY <1>3 DEF Begin, GoOn, Idle
<1>5. PICK c : c = x
  OBVIOUS
<1>6. PICK d : d = r
  OBVIOUS
<1> HIDE DEF x
<1>7. call'[p] = c /\ \A q \in Proc : q # p => call'[q] = call[q]
  BY <1>1, <1>4, <1>5
<1>8. /\ OthersBegin(p)
      /\ \A a \in Browser : \A t : Wanted(a, t) => Wanted(a, t)'
  BY <1>2, <1>7, QuietBegins
<1>9. Lands(b, d, c)'
  <2>1. Wanted(b, d.sent)' /\ Wanted(b, d.sid)' /\ Wanted(b, d.cookie)'
    BY <1>1, <1>6, <1>8 DEF Lands
  <2>2. Wanted(b, c.new)'
    BY <1>4, <1>5, NoneAssumption DEF Wanted
  <2>3. c.op = "StartLogin" => RequestURI(d) \in asked'[b]
    BY <1>3, <1>4, <1>5, <1>6
  <2>4. d.pc \in {"start_login", "add_login_info", "logout"}
          => d.kind \notin {"callback", "debug"}
    BY <1>1, <1>6 DEF Lands
  <2>5. Entering(d) => Beginning(d.sid)' /\ ~ KnowsPage(d, c)
    <3>1. SUFFICES ASSUME Entering(d) PROVE Beginning(d.sid)' /\ ~ KnowsPage(d, c)
      OBVIOUS
    <3>2. Beginning(d.sid) /\ d.sid \in known
      BY <1>1, <1>6, <3>1, SameAssumption DEF Lands, Entering, Beginning
    <3>3. ~ KnowsPage(d, c)
      BY <1>2, <1>3, <1>4, <1>5, <1>6 DEF KnowsPage, Calling
    <3> QED BY <3>2, <3>3, BeginningStays
  <2> QED BY <2>1, <2>2, <2>3, <2>4, <2>5 DEF Lands, KnowsPage, Entering, RequestURI
<1>10. Loses(d, c)'
  <2>1. Replaces(d) => Unusable(d.sent)'
    BY <1>1, <1>6, UnusableStays DEF Loses
  <2>2. c.at = 0 /\ (c.pc \notin LogoutPC \/ d.pc \notin Lookups) /\ now' \in Nat
    BY <1>1, <1>2, <1>3, <1>4, <1>5, <1>6
  <2> QED BY <2>1, <2>2 DEF Loses, Replaces
<1>11. h' = [h EXCEPT ![p] = d]
  BY <1>1, <1>2, <1>6
<1> QED BY <1>2, <1>7, <1>8, <1>9, <1>10, <1>11, MoveLogin, CookiesWanted

(* StartSession reads the old session before it answers "ok".              *)
LEMMA StartAnswers ==
  ASSUME IInv, NEW p \in Proc, Step(p), call[p].op = "StartSession",
         call'[p].pc = "idle", reply' = "ok"
  PROVE  call[p].pc \notin {"idle", "start_get"}
<1>1. call[p] \in Call /\ call \in [Proc -> Call]
  BY DEF IInv, TypeOK
<1>2. call[p].pc # "idle"
  BY StepsEffect DEF StepEffect
<1>3. ASSUME call[p].pc = "start_get" PROVE FALSE
  <2>1. StartGet(p)
    BY <1>3
    DEF Step, GenerateNewSessionID, CreateLogin, AddGet, AddDelete, AddCreate,
        StartDelete, StartCreate, StartPanic, StartGetUser, StartCreateUser,
        StartReplaceUser, LogoutGet, LogoutGetUser, LogoutReplaceUser, LogoutDelete,
        ReadGet, ReadGetUser, UpdateUser, UpdateSingle, RenewGet, RenewCreate,
        RenewDelete, Reads
  <2>2. ASSUME NEW pc \in PC \ {"idle"}, Goto(p, pc) PROVE FALSE
    BY <1>1, <2>2 DEF Goto, GoOn, Call
  <2> QED BY <2>1, <2>2 DEF StartGet, Return, PC
<1> QED BY <1>2, <1>3

(* The session storage works for p.                                        *)
LEMMA ServeLogin ==
  ASSUME SelfInv, SelfInv', LoginInv, faults = 0, faults' = 0, [Next]_vars,
         NEW p \in Proc, Serve(p)
  PROVE  LoginInv'
<1>1. PICK b, r, c : b = BrowserOf[p] /\ r = h[p] /\ c = call[p]
  OBVIOUS
<1>2. /\ h \in [Proc -> Request] /\ call \in [Proc -> Call] /\ now \in Nat /\ b \in Browser
      /\ r \in Request /\ c \in Call /\ LocalSet(c) /\ IInv /\ InfoInv
      /\ Lands(b, r, c) /\ Loses(r, c) /\ Handled(r, known) /\ InCall(r, c)
      /\ {r.sent, r.sid, r.cookie} \subseteq known \cup {NoSid, Same}
      /\ known \subseteq Sid
  BY <1>1, LoginFacts
<1>3. /\ Step(p) /\ StepEffect(p) /\ Written(p) /\ OthersBegin(p)
      /\ cookie' = cookie /\ asked' = asked /\ now' = now
  BY <1>2, StepsEffect, StepBegins, StepKeepsTime DEF Serve
<1>4. /\ c.pc # "idle" /\ r.pc \in Calling /\ c.op = OpOf(r) /\ c.sid = SidOf(r)
  BY <1>1, <1>2, <1>3 DEF StepEffect, InCall
<1>5. PICK e : call' = [call EXCEPT ![p] = e] /\ (e = Idle \/ SameCall(c, e))
  BY <1>1, <1>3 DEF StepEffect
<1>6. call'[p] = e
  BY <1>2, <1>5
<1>7. \A s \in {r.sent, r.sid, r.cookie, NoSid, Same} : Wanted(b, s)'
  BY <1>2, <1>3, NoneAssumption, SameAssumption DEF OthersBegin, Lands, Wanted
<1>8. c.op \in HandsOut => \A s \in {c.new} \cup Fresh : Wanted(b, s)'
  BY <1>1, <1>3, <1>4, DrawnIsWanted
<1>9. Entering(r) => Beginning(r.sid) /\ Beginning(r.sid)'
  BY <1>2, BeginningStays, SameAssumption DEF Lands, Entering, Beginning
<1>10. Replaces(r) => Unusable(r.sent)'
  BY <1>2, UnusableStays DEF Loses
<1>11. /\ e.at <= now'
       /\ r.pc \in Lookups /\ e.pc \in LogoutPC => Unusable(r.sent)'
  BY <1>1, <1>3, <1>6, LookupGoesOn, UnusableStays
<1>12. ASSUME NEW d, h' = [h EXCEPT ![p] = d],
              \A s \in {d.sent, d.sid, d.cookie} : Wanted(b, s)',
              e.op = "StartLogin" => RequestURI(d) \in asked[b],
              d.pc \in {"start_login", "add_login_info", "logout"}
                => d.kind \notin {"callback", "debug"},
              Entering(d) => /\ Beginning(d.sid)'
                             /\ KnowsPage(d, e) => d.goto \in asked[b],
              Replaces(d) => Unusable(d.sent)',
              d.pc \in Lookups => e.pc = "idle" \/ (d.sent = r.sent /\ r.pc = d.pc)
       PROVE  LoginInv'
  <2>1. e.op \in HandsOut => Wanted(b, e.new)'
    BY <1>5, <1>8 DEF SameCall, Idle, HandsOut
  <2>2. Lands(b, d, e)'
    BY <1>3, <1>12, <2>1 DEF Lands, KnowsPage, Entering, RequestURI
  <2>3. Loses(d, e)'
    BY <1>11, <1>12 DEF Loses, Replaces, LogoutPC
  <2> QED BY <1>1, <1>3, <1>6, <1>12, <2>2, <2>3, MoveLogin, CookiesWanted
<1>13. CASE e.pc = "idle" /\ Returned(p, reply')
  <2>1. PICK res : res = reply'
    OBVIOUS
  <2>2. e.op = "none" /\ \A d : KnowsPage(d, e) <=> d.pc = "respond" /\ d.cookie # NoSid
    <3>1. LocalSet(call[p])'
      BY DEF SelfInv, UserInv, IInv, LocalsSet
    <3>2. LocalSet(e)
      BY <1>6, <3>1 DEF LocalSet, UserIn
    <3> QED BY <1>13, <3>2 DEF LocalSet, OpAt, KnowsPage
  <2>3. r.pc = "lookup" => r.status = "none"
    BY <1>2 DEF Handled, Set
  <2>4. res = "active" => c.ses.user \in Owner
    BY <1>1, <1>2, <1>3, <1>4, <2>1
    DEF StepEffect, LocalSet, OpAt, HasUser, UserIn, Owner
  <2>5. PICK d : h' = [h EXCEPT ![p] = d] /\ Resumes(r, res, c.new, d)
    BY <1>1, <1>2, <1>13, <2>1, <2>3, <2>4, ReturnedResumes DEF Resumed
  <2>6. CASE d = Free
    <3>1. /\ Free.sent = NoSid /\ Free.sid = NoSid /\ Free.cookie = Same
          /\ Free.kind = "page" /\ Free.pc = "free"
      BY DEF Free
    <3> QED BY <1>7, <1>12, <1>13, <2>2, <2>5, <2>6, <3>1 DEF Entering, Replaces, Entrance
  <2>7. CASE r.pc = "lookup" /\ d # Free
    <3>1. /\ res \in {"before", "active", "idle", "invalid"}
          /\ res = "before" => Beginning(r.sent)
          /\ res \in {"before", "invalid"} => Unusable(r.sent)
      BY <1>1, <1>3, <1>6, <1>13, <2>1, <2>7, LookupAnswers DEF Lookups
    <3>2. /\ res = "before" => Beginning(r.sent)'
          /\ res \in {"before", "invalid"} => Unusable(r.sent)'
      <4>1. Beginning(r.sent) => r.sent \in known
        BY <1>2, NoneAssumption, SameAssumption DEF Beginning
      <4>2. Beginning(r.sent) => Beginning(r.sent)'
        BY <4>1, BeginningStays
      <4>3. Unusable(r.sent) => Unusable(r.sent)'
        BY UnusableStays
      <4> QED BY <3>1, <4>2, <4>3
    <3>3. PICK x : /\ x.kind = r.kind /\ x.sent = r.sent /\ x.cookie = r.cookie
                   /\ IF res = "invalid" THEN x.sid = r.sid /\ x.status = "none"
                                          ELSE x.sid = r.sent /\ x.status = res
                   /\ RoutesTo(x, d)
      BY <2>3, <2>5, <2>7, <3>1 DEF Resumes
    <3>4. /\ d.kind = r.kind /\ d.sent = r.sent /\ d.sid \in {r.sid, r.sent}
          /\ d.cookie = r.cookie /\ d.status = x.status /\ d.sid = x.sid
          /\ d.pc \in Entrance \cup {"forward", "logout"}
          /\ res = "active" => d.pc \notin Entrance
          /\ d.kind \in {"callback", "debug"} => d.pc \in Ending
      BY <2>7, <3>1, <3>3 DEF RoutesTo, Onward, Active
    <3>5. /\ d.pc \notin {"lookup", "respond"}
          /\ d.pc \in {"start_login", "add_login_info", "logout"}
               => d.kind \notin {"callback", "debug"}
      BY <3>4 DEF Entrance, Ending
    <3>6. \A s \in {d.sent, d.sid, d.cookie} : Wanted(b, s)'
      BY <1>7, <3>4
    <3>7. Entering(d) => Beginning(d.sid)' /\ ~ KnowsPage(d, e)
      BY <2>2, <3>1, <3>2, <3>3, <3>4, <3>5 DEF Entering
    <3>8. Replaces(d) => Unusable(d.sent)'
      BY <3>1, <3>2, <3>3, <3>4, <3>5 DEF Replaces
    <3> QED BY <1>12, <1>13, <2>2, <2>5, <3>4, <3>5, <3>6, <3>7, <3>8
  <2>8. CASE r.pc = "callback" /\ d # Free
    <3>1. /\ res = "before" /\ d.sent = r.sent /\ d.sid = r.sent /\ d.cookie = r.cookie
          /\ d.pc = "start_session"
      BY <2>5, <2>8 DEF Resumes
    <3>2. Beginning(r.sent) /\ Unusable(r.sent)
      BY <1>1, <1>3, <1>6, <1>13, <2>1, <2>8, <3>1, LookupAnswers DEF Lookups
    <3>3. Beginning(r.sent)' /\ Unusable(r.sent)'
      BY <3>2, BeginningStays, UnusableStays DEF Unusable
    <3>4. \A s \in {d.sent, d.sid, d.cookie} : Wanted(b, s)'
      BY <1>7, <3>1
    <3> QED BY <1>12, <1>13, <2>2, <2>5, <3>1, <3>3, <3>4
  <2>9. CASE r.pc \notin Lookups /\ d # Free
    <3>1. /\ d.kind = r.kind /\ d.page = r.page /\ d.sent = r.sent
          /\ d.status = r.status /\ d.pc \in {"respond", "add_login_info"}
      BY <2>5, <2>9 DEF Resumes, Lookups
    <3>2. CASE r.pc = "start_login" /\ res = "ok"
      <4>1. c.op \in HandsOut
        BY <1>4, <3>2 DEF OpOf, HandsOut
      <4>2. r.kind \notin {"callback", "debug"}
        BY <1>2, <3>2 DEF Lands
      <4>3. {d.sent, d.sid, d.cookie} \subseteq {r.sent, r.sid, r.cookie, c.new}
        BY <2>5, <2>9, <3>2 DEF Resumes, Lookups
      <4>4. Replaces(d) => Unusable(d.sent)'
        BY <1>10, <3>1, <3>2 DEF Replaces, Entrance
      <4>5. \A s \in {d.sent, d.sid, d.cookie} : Wanted(b, s)'
        BY <1>7, <1>8, <4>1, <4>3
      <4>6. ~ Entering(d)
        BY <3>1, <4>2 DEF Entering
      <4> QED BY <1>12, <1>13, <2>2, <2>5, <3>1, <4>2, <4>4, <4>5, <4>6
    <3>3. CASE r.pc = "add_login_info" /\ res = "ok"
      <4>1. c.op \in HandsOut
        BY <1>4, <3>3 DEF OpOf, HandsOut
      <4>2. r.kind \notin {"callback", "debug"}
        BY <1>2, <3>3 DEF Lands
      <4>3. {d.sent, d.sid, d.cookie} \subseteq {r.sent, r.sid, r.cookie, c.new}
        BY <2>5, <2>9, <3>3 DEF Resumes, Lookups
      <4>4. Replaces(d) => Unusable(d.sent)'
        BY <1>10, <3>1, <3>3 DEF Replaces, Entrance
      <4>5. \A s \in {d.sent, d.sid, d.cookie} : Wanted(b, s)'
        BY <1>7, <1>8, <4>1, <4>3
      <4>6. ~ Entering(d)
        BY <3>1, <4>2 DEF Entering
      <4> QED BY <1>12, <1>13, <2>2, <2>5, <3>1, <4>2, <4>4, <4>5, <4>6
    <3>4. CASE r.pc = "start_session"
      <4>1. c.op = "StartSession"
        BY <1>4, <3>4 DEF OpOf
      <4>2. /\ d.pc = "respond" /\ d.sid = r.sid
            /\ (res = "ok" /\ d.cookie = c.new /\ d.goto = r.goto) \/ d.cookie = NoSid
        BY <2>5, <2>9, <3>4 DEF Resumes, Lookups
      <4>3. res = "ok" => KnowsPage(r, c)
        BY <1>1, <1>2, <1>3, <1>6, <1>13, <2>1, <3>4, <4>1, StartAnswers DEF KnowsPage
      <4>4. Entering(d) => Beginning(d.sid)' /\ (d.cookie # NoSid => d.goto \in asked[b])
        BY <1>2, <1>9, <3>1, <4>2, <4>3 DEF Entering, Lands
      <4>5. Replaces(d) => Unusable(d.sent)'
        BY <1>10, <3>1, <3>4 DEF Replaces, Entrance
      <4>6. \A s \in {d.sent, d.sid, d.cookie} : Wanted(b, s)'
        BY <1>7, <1>8, <3>1, <4>1, <4>2 DEF HandsOut
      <4> QED BY <1>12, <1>13, <2>2, <2>5, <4>2, <4>4, <4>5, <4>6
    <3>5. CASE r.pc = "logout"
      <4>1. /\ d.pc = "respond" /\ d.sid = r.sid
            /\ d.cookie = IF r.kind = "logout" THEN NoSid ELSE Same
        BY <2>5, <2>9, <3>5 DEF Resumes, Lookups
      <4>2. r.kind \notin {"callback", "debug"}
        BY <1>2, <3>5 DEF Lands
      <4>3. ~ Entering(d) /\ ~ Replaces(d)
        BY <3>1, <4>1, <4>2 DEF Entering, Replaces, Entrance
      <4>4. \A s \in {d.sent, d.sid, d.cookie} : Wanted(b, s)'
        BY <1>7, <3>1, <4>1
      <4> QED BY <1>12, <1>13, <2>2, <2>5, <4>1, <4>3, <4>4
    <3> QED BY <2>5, <2>9, <3>2, <3>3, <3>4, <3>5 DEF Resumes, Lookups
  <2> QED BY <2>6, <2>7, <2>9, <2>8 DEF Lookups
<1>14. CASE e.pc # "idle"
  <2>1. SameCall(c, e)
    BY <1>5, <1>14 DEF Idle
  <2>2. e.op = "StartLogin" => RequestURI(r) \in asked[b]
    BY <1>2, <2>1 DEF SameCall, Lands
  <2>3. r.pc # "respond" /\ (r.pc = "lookup" => r.sent = r.sent)
    BY <1>4 DEF Calling
  <2>4. CASE c.pc # "start_get"
    <3>1. h' = [h EXCEPT ![p] = r]
      BY <1>1, <1>2, <1>6, <1>14, <2>4 DEF Serve
    <3>2. Entering(r) /\ KnowsPage(r, e) => r.goto \in asked[b]
      BY <1>2, <1>4, <2>3, <2>4 DEF Lands, KnowsPage
    <3>3. r.pc \in {"start_login", "add_login_info", "logout"}
            => r.kind \notin {"callback", "debug"}
      BY <1>2 DEF Lands
    <3> QED BY <1>7, <1>9, <1>10, <1>12, <2>2, <3>1, <3>2, <3>3
  <2>5. CASE c.pc = "start_get"
    <3> DEFINE l == Landing(p)
               x == [r EXCEPT !.goto = l]
    <3>1. h' = [h EXCEPT ![p] = x]
      BY <1>1, <1>2, <1>6, <1>14, <2>5 DEF Serve
    <3>2. c.op = "StartSession" /\ r.pc = "start_session" /\ c.sid = r.sid
      BY <1>2, <1>4, <2>5 DEF LocalSet, OpAt, OpOf, SidOf
    <3>3. Entering(r) => l \in asked[b]
      <4>1. Entering(r) => r.sid \in Sid /\ r.sid # NoSid /\ info[r.sid] # NoInfo
        BY <1>2, <1>9, NoneAssumption DEF InfoInv, Beginning
      <4>2. Entering(r) => l = info[r.sid].landing
        BY <1>1, <3>2, <4>1 DEF Landing
      <4> QED BY <1>2, <4>1, <4>2 DEF Lands, Wanted
    <3> HIDE DEF l
    <3>4. /\ x.pc = r.pc /\ x.kind = r.kind /\ x.page = r.page /\ x.sent = r.sent
          /\ x.sid = r.sid /\ x.cookie = r.cookie /\ x.status = r.status /\ x.goto = l
      BY <1>2 DEF Request
    <3> HIDE DEF x
    <3>5. PICK d : d = x
      OBVIOUS
    <3>6. PICK to : to = l
      OBVIOUS
    <3>7. \A s \in {d.sent, d.sid, d.cookie} : Wanted(b, s)'
      BY <1>7, <3>4, <3>5
    <3>8. e.op = "StartLogin" => RequestURI(d) \in asked[b]
      BY <2>1, <3>2 DEF SameCall
    <3>9. Entering(d) => Beginning(d.sid)' /\ d.goto \in asked[b]
      BY <1>9, <3>3, <3>4, <3>5 DEF Entering
    <3>10. Replaces(d) => Unusable(d.sent)'
      BY <1>10, <3>4, <3>5 DEF Replaces
    <3> QED BY <1>12, <3>1, <3>2, <3>4, <3>5, <3>7, <3>8, <3>9, <3>10
  <2> QED BY <2>4, <2>5
<1>15. e.pc = "idle" => Returned(p, reply')
  BY <1>6 DEF Serve
<1> QED BY <1>13, <1>14, <1>15

(* A response reaches its browser; the service answers; a request ends     *)
(* early.                                                                  *)
LEMMA EndLogin ==
  ASSUME SelfInv, SelfInv', LoginInv, faults = 0, faults' = 0, [Next]_vars,
         NEW p \in Proc, Deliver(p) \/ Backend(p) \/ Dies(p) \/ Lost(p)
  PROVE  LoginInv'
<1>1. PICK b, r, c : b = BrowserOf[p] /\ r = h[p] /\ c = call[p]
  OBVIOUS
<1>2. /\ h \in [Proc -> Request] /\ call \in [Proc -> Call] /\ now \in Nat /\ b \in Browser
      /\ r \in Request /\ c \in Call /\ LocalSet(c)
      /\ Lands(b, r, c) /\ Loses(r, c) /\ Handled(r, known) /\ InCall(r, c)
      /\ {r.sent, r.sid, r.cookie} \subseteq known \cup {NoSid, Same}
      /\ cookie \in [Browser -> Sid \cup {NoSid}]
      /\ \A a \in Browser : Wanted(a, cookie[a])
  BY <1>1, LoginFacts DEF ProxyInv, ProxyTypeOK
<1>3. ~ Dies(p)
  BY DEF Dies, Crash, Fails
<1>4. /\ call' = call /\ origin' = origin /\ info' = info /\ asked' = asked
      /\ now' = now
  BY <1>3 DEF Deliver, Backend, Lost, vars
<1>5. c.pc = "idle" /\ c.op = "none" /\ c.at \in Nat /\ c.at <= now'
  <2>1. c.pc = "idle"
    BY <1>1, <1>2, <1>3 DEF Deliver, Backend, Lost, InCall, Calling
  <2> QED BY <1>2, <1>4, <2>1 DEF LocalSet, OpAt, Call, Loses
<1>6. OthersBegin(p) /\ \A a \in Browser : \A s : Wanted(a, s) => Wanted(a, s)'
  BY <1>4, QuietBegins
<1>7. \A a \in Browser : Wanted(a, cookie[a])'
  <2>1. ASSUME NEW a \in Browser PROVE Wanted(a, cookie'[a])
    <3>1. cookie'[a] = cookie[a] \/ (a = b /\ cookie'[a] = r.cookie)
      BY <1>1, <1>2, <1>3 DEF Deliver, Backend, Lost
    <3> QED BY <1>2, <3>1 DEF Lands
  <2>2. ASSUME NEW a \in Browser PROVE Wanted(a, cookie[a])'
    BY <1>4, <2>1 DEF Wanted
  <2> QED BY <2>2
<1>8. CASE h' = [h EXCEPT ![p] = Free]
  <2>1. Lands(b, Free, c)' /\ Loses(Free, c)'
    BY <1>5, FreeLogin
  <2> QED BY <1>1, <1>4, <1>6, <1>7, <1>8, <2>1, MoveLogin
<1>9. ASSUME NEW dirs, r.pc = "forward", Then(p, [r EXCEPT !.dirs = dirs], "update")
      PROVE  LoginInv'
  <2> DEFINE x == [r EXCEPT !.dirs = dirs, !.pc = "update"]
  <2>1. /\ x.pc = "update" /\ x.kind = r.kind /\ x.page = r.page /\ x.sent = r.sent
        /\ x.sid = r.sid /\ x.cookie = r.cookie /\ x.status = r.status
        /\ [[r EXCEPT !.dirs = dirs] EXCEPT !.pc = "update"] = x
    BY <1>2 DEF Request
  <2>2. h' = [h EXCEPT ![p] = x]
    BY <1>9, <2>1 DEF Then
  <2>3. PICK d : d = x
    OBVIOUS
  <2> HIDE DEF x
  <2>4. Wanted(b, d.sent)' /\ Wanted(b, d.sid)' /\ Wanted(b, d.cookie)'
    BY <1>2, <1>6, <2>1, <2>3 DEF Lands
  <2>5. Entering(d) => Beginning(d.sid)' /\ ~ KnowsPage(d, c)
    BY <1>2, <1>4, <2>1, <2>3 DEF Lands, Entering, Beginning, KnowsPage
  <2>6. ~ Replaces(d) /\ d.pc = "update"
    BY <2>1, <2>3 DEF Replaces, Entrance
  <2>7. Lands(b, d, c)'
    BY <1>5, <2>4, <2>5, <2>6 DEF Lands, HandsOut, Entering, KnowsPage
  <2>8. Loses(d, c)'
    BY <1>5, <2>6 DEF Loses, Replaces, LogoutPC, Lookups
  <2> QED BY <1>1, <1>4, <1>6, <1>7, <2>2, <2>3, <2>7, <2>8, MoveLogin
<1> QED BY <1>1, <1>3, <1>8, <1>9 DEF Deliver, Backend, Lost, Show

-----------------------------------------------------------------------------
(* Nobody logs in at the start.                                            *)
LEMMA InitLoginInv == ProxyInit => LoginInv
<1> SUFFICES ASSUME ProxyInit PROVE LoginInv
  OBVIOUS
<1>1. InfoInv /\ \A b \in Browser : Wanted(b, cookie[b])
  BY NoneAssumption DEF ProxyInit, Init, InfoInv, Beginning, Wanted
<1>2. ASSUME NEW p \in Proc
      PROVE  Lands(BrowserOf[p], h[p], call[p]) /\ Loses(h[p], call[p])
  <2>1. h[p] = Free /\ call[p] = Idle /\ now = 0
    BY DEF ProxyInit, Init
  <2>2. /\ Free.sent = NoSid /\ Free.sid = NoSid /\ Free.cookie = Same
        /\ Free.kind = "page" /\ Free.pc = "free"
        /\ Idle.pc = "idle" /\ Idle.op = "none" /\ Idle.at = 0
    BY DEF Free, Idle
  <2> QED BY <2>1, <2>2, NoneAssumption, SameAssumption
          DEF Lands, Loses, Wanted, HandsOut, Entering, Replaces, Entrance, Lookups
<1> QED BY <1>1, <1>2 DEF LoginInv

(* Every step keeps LoginInv.                                              *)
LEMMA NextLoginInv ==
  ASSUME SelfInv, SelfInv', LoginInv, [ProxyNext]_allVars
  PROVE  LoginInv'
<1> SUFFICES ASSUME faults' = 0 PROVE LoginInv'
  BY DEF LoginInv
<1>1. [Next]_vars
  BY StepMaps DEF SelfInv
<1>2. faults = 0
  BY <1>1, FaultsStay DEF SelfInv, UserInv, IInv, TypeOK
<1>3. CASE ProxyTick \/ UNCHANGED allVars \/ \E b \in Browser : Forget(b)
  <2>1. UNCHANGED <<h, call, origin, info, asked>>
    BY <1>3 DEF ProxyTick, Tick, Forget, proxyVars, allVars, vars
  <2>2. /\ InfoInv /\ \A b \in Browser : Wanted(b, cookie[b])
        /\ cookie \in [Browser -> Sid \cup {NoSid}] /\ now \in Nat
    BY <1>2 DEF LoginInv, SelfInv, ProxyInv, ProxyTypeOK, IInv, TypeOK
  <2>3. InfoInv'
    BY <2>1, <2>2 DEF InfoInv, Beginning
  <2>4. ASSUME NEW b \in Browser PROVE Wanted(b, cookie[b])'
    <3>1. cookie'[b] \in {cookie[b], NoSid}
      BY <1>3, <2>2 DEF ProxyTick, Forget, proxyVars, allVars
    <3> QED BY <2>1, <2>2, <3>1, NoneAssumption DEF Wanted
  <2>5. ASSUME NEW p \in Proc
        PROVE  Lands(BrowserOf[p], h[p], call[p])' /\ Loses(h[p], call[p])'
    <3>1. PICK r, c : r = h[p] /\ c = call[p]
      OBVIOUS
    <3>2. Lands(BrowserOf[p], r, c) /\ Loses(r, c) /\ c \in Call
      BY <1>2, <3>1, LoginFacts
    <3>3. Lands(BrowserOf[p], r, c)'
      BY <2>1, <3>2 DEF Lands, Wanted, Entering, Beginning, KnowsPage
    <3>4. Loses(r, c)'
      BY <1>1, <2>2, <3>2, TimePasses, UnusableStays DEF Loses, Call
    <3> QED BY <2>1, <3>1, <3>3, <3>4
  <2> QED BY <2>3, <2>4, <2>5 DEF LoginInv
<1> QED BY <1>1, <1>2, <1>3, ServeLogin, ArriveLogin, CallLogin, EndLogin DEF ProxyNext

(* Whatever login sessions a browser has under way, and whatever other     *)
(* browsers do: a login ends at a page that was requested when it, or      *)
(* another one of that browser, began, if the store answers.               *)
THEOREM LoginsLand == ProxySpec => []LandsWhereAsked
<1>1. SelfInv /\ LoginInv => LandsWhereAsked
  <2> SUFFICES ASSUME SelfInv, LoginInv, faults = 0, NEW p \in Proc,
                      h[p].pc = "respond", h[p].cookie \in known, h[p].sid # NoSid,
                      h[p].kind \in {"callback", "debug"}, h[p].status = "before"
               PROVE  h[p].goto \in asked[BrowserOf[p]]
    BY DEF LandsWhereAsked
  <2>1. Lands(BrowserOf[p], h[p], call[p]) /\ known \subseteq Sid
    BY LoginFacts
  <2> QED BY <2>1, NoneAssumption DEF Lands, Entering, KnowsPage
<1>2. ProxyInit => SelfInv /\ LoginInv
  BY InitSelfInv, InitLoginInv
<1>3. SelfInv /\ LoginInv /\ [ProxyNext]_allVars => SelfInv' /\ LoginInv'
  BY NextSelfInv, NextLoginInv
<1> QED BY <1>1, <1>2, <1>3, PTL DEF ProxySpec

(* A response takes a session that is in use away from its browser only if *)
(* the request was a logout, came with another cookie, or found the        *)
(* session idle.                                                           *)
THEOREM SessionsAreKept == ProxySpec => LoginLostOnlyByOverlap
<1> DEFINE Kept ==
      \A b \in Browser :
        InUse(cookie[b]) /\ cookie'[b] # cookie[b] /\ h' # h /\ faults = 0 =>
          \E p \in Proc : /\ BrowserOf[p] = b /\ h'[p] # h[p]
                          /\ \/ h[p].sent # cookie[b]
                             \/ h[p].kind = "logout"
                             \/ h[p].status = "idle"
<1>1. SelfInv /\ LoginInv /\ [ProxyNext]_allVars => [Kept]_allVars
  <2> SUFFICES ASSUME SelfInv, LoginInv, ProxyNext, NEW b \in Browser,
                      InUse(cookie[b]), cookie'[b] # cookie[b], h' # h, faults = 0
               PROVE  \E p \in Proc : /\ BrowserOf[p] = b /\ h'[p] # h[p]
                                      /\ \/ h[p].sent # cookie[b]
                                         \/ h[p].kind = "logout"
                                         \/ h[p].status = "idle"
    OBVIOUS
  <2>1. PICK p \in Proc : Deliver(p)
    BY DEF ProxyNext, ProxyTick, proxyVars, Forget, Arrive, CallStartLogin,
           CallStartSession, CallOther, Serve, Backend, Dies, Lost
  <2>2. /\ Loses(h[p], call[p]) /\ IInv /\ h[p] \in Request
        /\ h \in [Proc -> Request] /\ cookie \in [Browser -> Sid \cup {NoSid}]
    BY LoginFacts DEF ProxyInv, ProxyTypeOK
  <2>3. /\ h[p].pc = "respond" /\ h[p].cookie # Same /\ BrowserOf[p] = b
        /\ h'[p] = Free /\ Free.pc = "free"
    BY <2>1, <2>2 DEF Deliver, Free
  <2>4. cookie[b] \in Sid /\ cookie[b] # NoSid
    BY <2>2 DEF InUse
  <2>5. ~ Unusable(cookie[b])
    <3>1. /\ single[cookie[b]] # NoDoc
          /\ single[cookie[b]].loginAt = origin[cookie[b]].loginAt
      BY <2>2, <2>4 DEF InUse, IInv, DocsMatchOrigin, SameLogin
    <3> QED BY <2>4, <3>1 DEF InUse, Unusable, Owned, Expired
  <2>6. \/ h[p].sent # cookie[b] \/ h[p].kind = "logout" \/ h[p].status = "idle"
    BY <2>2, <2>3, <2>4, <2>5 DEF Loses, Replaces
  <2> QED BY <2>3, <2>6
<1>2. ProxyInit => SelfInv /\ LoginInv
  BY InitSelfInv, InitLoginInv
<1>3. SelfInv /\ LoginInv /\ [ProxyNext]_allVars => SelfInv' /\ LoginInv'
  BY NextSelfInv, NextLoginInv
<1>4. [][Kept]_allVars => LoginLostOnlyByOverlap
  BY PTL DEF LoginLostOnlyByOverlap
<1> QED BY <1>1, <1>2, <1>3, <1>4, PTL DEF ProxySpec
=============================================================================
