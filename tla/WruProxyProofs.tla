---------------------------- MODULE WruProxyProofs ----------------------------
(***************************************************************************)
(* Theorems about WruProxy, for any browsers, requests, users and ids.     *)
(* ProxyInv says which ids a request holds at each place of its handler;   *)
(* with it every step of the proxy is a step of the session storage, so    *)
(* that the theorems about SessionStorage hold of the proxy, too.          *)
(***************************************************************************)
EXTENDS WruProxy, SessionStorageSafety

(* The ids of a request are ids that the session storage gave out; the id  *)
(* whose logout is requested is one that was listed.                       *)
Ids(r, ids) ==
  /\ r.sent \in ids \cup {NoSid} /\ r.sid \in ids \cup {NoSid}
  /\ r.cookie \in ids \cup {NoSid, Same}
  /\ LoggedIn(r) => r.sid \in ids
  /\ r.kind = "session_logout" => r.arg \in Listed

(* What is set at each place of a handler.                                 *)
Set(r, ids) ==
  /\ r.pc = "lookup" => r.status = "none"
  /\ r.pc \in {"lookup", "callback"} => r.sent \in ids
  /\ r.pc \in {"forward", "update", "add_login_info"} => r.sid \in ids
  /\ r.pc = "logout" => LogoutTarget(r) \in ids \cup Listed
  /\ r.pc = "start_login" => RequestURI(r) \in Uri
  /\ r.pc # "respond" => r.goto \in Uri \cup {"none"}
  /\ r.pc = "respond" /\ r.goto = "idp" => r.cookie \in ids
  /\ r.pc = "respond" /\ r.goto = "logged_out" => LogoutTarget(r) \in ids \cup Listed

Handled(r, ids) == r \in Request /\ Ids(r, ids) /\ Set(r, ids)

(* The operation of the session storage that a handler is in.              *)
OpOf(r) == CASE r.pc \in {"lookup", "callback"} -> "FindBySessionToken"
             [] r.pc = "start_login"    -> "StartLogin"
             [] r.pc = "add_login_info" -> "AddLoginInfo"
             [] r.pc = "start_session"  -> "StartSession"
             [] r.pc = "logout"         -> "Logout"
             [] OTHER                   -> "UpdateSessionData"

SidOf(r) == CASE r.pc \in {"lookup", "callback"} -> r.sent
              [] r.pc = "start_login" -> NoSid
              [] r.pc = "logout"      -> LogoutTarget(r)
              [] OTHER                -> r.sid

InCall(r, c) == c.pc # "idle" => /\ r.pc \in Calling
                                 /\ c.op = OpOf(r) /\ c.sid = SidOf(r)
                                 /\ c.op = "StartSession" => c.user = r.user

HandlersHold == \A p \in Proc : Handled(h[p], known) /\ InCall(h[p], call[p])

BrowsersHold == \A b \in Browser : /\ cookie[b] \in known \cup {NoSid}
                                   /\ tokens[b] \subseteq known

ProxyInv == IInv /\ ProxyTypeOK /\ HandlersHold /\ BrowsersHold

-----------------------------------------------------------------------------
(* Requests.                                                               *)

LEMMA FreeHandled == Free.pc = "free" /\ \A ids : Handled(Free, ids)
<1>1. NoDirectives \in Directives
  BY DEF NoDirectives, Directives
<1>2. Free \in Request
  BY <1>1, PageAssumption DEF Free, Request, Handler, Kind, Owner
<1> QED BY <1>2 DEF Free, Handled, Ids, Set, LoggedIn

(* More ids may be known.                                                  *)
LEMMA MoreIds ==
  ASSUME NEW ids, NEW more, ids \subseteq more, NEW r, Handled(r, ids)
  PROVE  Handled(r, more)
  BY DEF Handled, Ids, Set

(* EXCEPT on the place leaves the rest of a request alone.                 *)
LEMMA PlaceChange ==
  ASSUME NEW r \in Request, NEW pc \in Handler
  PROVE  LET d == [r EXCEPT !.pc = pc] IN
         /\ d \in Request
         /\ d.pc = pc /\ d.kind = r.kind /\ d.page = r.page /\ d.arg = r.arg
         /\ d.user = r.user /\ d.sent = r.sent /\ d.sid = r.sid
         /\ d.status = r.status /\ d.dirs = r.dirs /\ d.cookie = r.cookie
         /\ d.goto = r.goto /\ d.late = r.late
  BY DEF Request

(* A request that is taken to another place of its handler.                *)
LEMMA ThenHandled ==
  ASSUME NEW ids, NEW r \in Request, Ids(r, ids), r.goto \in Uri \cup {"none"},
         NEW pc \in Handler \ {"respond"},
         pc = "lookup" => r.status = "none",
         pc \in {"lookup", "callback"} => r.sent \in ids,
         pc \in {"forward", "update", "add_login_info"} => r.sid \in ids,
         pc = "logout" => LogoutTarget(r) \in ids \cup Listed,
         pc = "start_login" => RequestURI(r) \in Uri
  PROVE  Handled([r EXCEPT !.pc = pc], ids)
<1> DEFINE d == [r EXCEPT !.pc = pc]
<1>1. /\ d \in Request /\ d.pc = pc /\ d.kind = r.kind /\ d.page = r.page
      /\ d.arg = r.arg /\ d.user = r.user /\ d.sent = r.sent /\ d.sid = r.sid
      /\ d.status = r.status /\ d.cookie = r.cookie /\ d.goto = r.goto
  BY PlaceChange DEF Handled
<1> HIDE DEF d
<1>2. Ids(d, ids)
  BY <1>1 DEF Handled, Ids, LoggedIn
<1>3. Set(d, ids)
  BY <1>1 DEF Set, LogoutTarget, RequestURI
<1>4. Handled(d, ids)
  BY <1>1, <1>2, <1>3 DEF Handled
<1> QED BY <1>4 DEF d

(* A request whose response is ready.                                      *)
LEMMA RespondHandled ==
  ASSUME NEW ids \in SUBSET Sid, NEW r \in Request, Ids(r, ids),
         NEW c \in ids \cup {NoSid, Same},
         NEW to \in Uri \cup {"none", "login", "idp", "logged_out"},
         to = "idp" => c \in ids,
         to = "logged_out" => LogoutTarget(r) \in ids \cup Listed
  PROVE  Handled([r EXCEPT !.pc = "respond", !.cookie = c, !.goto = to], ids)
<1> DEFINE d == [r EXCEPT !.pc = "respond", !.cookie = c, !.goto = to]
<1>0. /\ c \in Sid \cup {NoSid, Same} /\ r \in Request
      /\ "respond" \in Handler
      /\ to \in Uri \cup {"none", "login", "idp", "logged_out"}
  BY DEF Handled, Handler
<1>1. /\ d \in Request /\ d.pc = "respond" /\ d.kind = r.kind
      /\ d.arg = r.arg /\ d.user = r.user /\ d.sent = r.sent /\ d.sid = r.sid
      /\ d.status = r.status /\ d.cookie = c /\ d.goto = to
  BY <1>0 DEF Request
<1> HIDE DEF d
<1>2. Ids(d, ids)
  BY <1>1 DEF Handled, Ids, LoggedIn
<1>3. Set(d, ids)
  BY <1>1 DEF Set, LogoutTarget
<1>4. Handled(d, ids)
  BY <1>1, <1>2, <1>3 DEF Handled
<1> QED BY <1>4 DEF d

(* The request that a handler goes on with: none, or one with these ids.   *)
Leaves(p, r, ids) ==
  \E d : /\ h' = [h EXCEPT ![p] = d] /\ Handled(d, ids) /\ d.pc # "lookup"
         /\ d = Free \/ (d.sent = r.sent /\ d.sid = r.sid)

LEMMA ShowLeaves ==
  ASSUME NEW ids, NEW p, NEW r, Show(p)
  PROVE  Leaves(p, r, ids)
  BY FreeHandled DEF Show, Leaves

LEMMA ThenLeaves ==
  ASSUME NEW ids, NEW p, NEW r \in Request, Ids(r, ids), r.goto \in Uri \cup {"none"},
         NEW pc \in Handler \ {"respond"}, pc # "lookup", Then(p, r, pc),
         pc = "callback" => r.sent \in ids,
         pc \in {"forward", "update", "add_login_info"} => r.sid \in ids,
         pc = "logout" => LogoutTarget(r) \in ids \cup Listed,
         pc = "start_login" => RequestURI(r) \in Uri
  PROVE  Leaves(p, r, ids)
<1> DEFINE d == [r EXCEPT !.pc = pc]
<1>1. Handled(d, ids)
  BY ThenHandled
<1>2. d.pc = pc /\ d.sent = r.sent /\ d.sid = r.sid
  BY PlaceChange DEF Handled
<1>3. h' = [h EXCEPT ![p] = d]
  BY DEF Then
<1> HIDE DEF d
<1> QED BY <1>1, <1>2, <1>3 DEF Leaves

LEMMA RespondLeaves ==
  ASSUME NEW ids \in SUBSET Sid, NEW p, NEW r \in Request, Ids(r, ids),
         NEW c \in ids \cup {NoSid, Same},
         NEW to \in Uri \cup {"none", "login", "idp", "logged_out"}, Respond(p, r, c, to),
         to = "idp" => c \in ids,
         to = "logged_out" => LogoutTarget(r) \in ids \cup Listed
  PROVE  Leaves(p, r, ids)
<1> DEFINE d == [r EXCEPT !.pc = "respond", !.cookie = c, !.goto = to]
<1>1. Handled(d, ids)
  BY RespondHandled
<1>2. d.pc = "respond" /\ d.sent = r.sent /\ d.sid = r.sid
  BY DEF Handled, Request
<1>3. h' = [h EXCEPT ![p] = d]
  BY DEF Respond
<1> HIDE DEF d
<1> QED BY <1>1, <1>2, <1>3 DEF Leaves

(* A handler goes on as the user it has found out.                         *)
LEMMA UserLeaves ==
  ASSUME NEW ids, NEW p, NEW r \in Request, Ids(r, ids), r.goto \in Uri \cup {"none"},
         NEW u \in Owner, NEW pc \in {"forward", "start_session"},
         Then(p, [r EXCEPT !.user = u], pc), pc = "forward" => r.sid \in ids
  PROVE  Leaves(p, r, ids)
<1> DEFINE e == [r EXCEPT !.user = u]
<1>1. /\ e \in Request /\ e.pc = r.pc /\ e.kind = r.kind /\ e.page = r.page
      /\ e.arg = r.arg /\ e.sent = r.sent /\ e.sid = r.sid
      /\ e.status = r.status /\ e.cookie = r.cookie /\ e.goto = r.goto
  BY DEF Request
<1>2. Then(p, e, pc)
  OBVIOUS
<1> HIDE DEF e
<1>3. Ids(e, ids)
  BY <1>1 DEF Ids, LoggedIn
<1>4. Leaves(p, e, ids)
  BY <1>1, <1>2, <1>3, ThenLeaves DEF Handler, Calling
<1> QED BY <1>1, <1>4 DEF Leaves

(* Wherever the routes take a request, what it needs there is set.         *)
LEMMA RouteLeaves ==
  ASSUME NEW ids, NEW p \in Proc, NEW r \in Request, Ids(r, ids),
         r.goto \in Uri \cup {"none"}, Route(p, r),
         Active(r) => call[p].ses.user \in Owner
  PROVE  Leaves(p, r, ids)
<1>1. CASE Show(p)
  BY <1>1, ShowLeaves
<1>2. LoggedIn(r) => r.sid \in ids
  BY DEF Ids
<1>3. ASSUME startSessionAndRedirect(p, r),
             r.kind \in {"page", "federated", "logout", "user", "session_logout"}
      PROVE  Leaves(p, r, ids)
  <2>1. RequestURI(r) \in Uri
    BY <1>3, PageAssumption DEF Request, RequestURI, Uri
  <2> QED BY <1>3, <2>1, ThenLeaves DEF Handler, Calling, startSessionAndRedirect
<1>4. CASE authMiddleware(p, r)
  BY <1>1, <1>2, <1>3, <1>4, UserLeaves DEF authMiddleware, Active, LoggedIn
<1>5. CASE LoginPage(p, r)
  BY <1>1, <1>5 DEF LoginPage, ToLandingPage
<1>6. CASE FederatedLogin(p, r)
  <2>1. ASSUME r.sid # NoSid, Then(p, r, "add_login_info")
        PROVE  Leaves(p, r, ids)
    BY <2>1, ThenLeaves DEF Handler, Calling, Ids
  <2> QED BY <1>1, <1>3, <1>6, <2>1 DEF FederatedLogin, ToLandingPage
<1>7. CASE Callback(p, r)
  <2>1. ASSUME r.sent # NoSid, Then(p, r, "callback")
        PROVE  Leaves(p, r, ids)
    BY <2>1, ThenLeaves DEF Handler, Calling, Ids
  <2> QED BY <1>1, <1>7, <2>1 DEF Callback, ToLandingPage
<1>8. CASE DebugLogin(p, r)
  <2>1. ASSUME Then(p, r, "start_session")
        PROVE  Leaves(p, r, ids)
    BY <2>1, ThenLeaves DEF Handler, Calling
  <2> QED BY <1>1, <1>8, <2>1 DEF DebugLogin, ToLandingPage
<1>9. ASSUME Then(p, r, "logout"), LogoutTarget(r) \in ids \cup Listed
       PROVE  Leaves(p, r, ids)
  BY <1>9, ThenLeaves DEF Handler, Calling
<1>10. CASE LogoutHandler(p, r)
  BY <1>2, <1>3, <1>9, <1>10 DEF LogoutHandler, MustLogin, LogoutTarget
<1>11. CASE UserHandler(p, r)
  BY <1>1, <1>3, <1>11 DEF UserHandler, MustLogin
<1>12. CASE SessionLogout(p, r)
  <2>1. r.kind = "session_logout" => LogoutTarget(r) \in ids \cup Listed
    BY DEF Ids, LogoutTarget
  <2> QED BY <1>1, <1>3, <1>9, <1>12, <2>1 DEF SessionLogout, MustLogin
<1> QED BY <1>4, <1>5, <1>6, <1>7, <1>8, <1>10, <1>11, <1>12 DEF Route

-----------------------------------------------------------------------------
(* The steps of the session storage, as a handler sees them.               *)

(* A call that goes on keeps its operation, its arguments and its new id,  *)
(* unless it draws one.                                                    *)
SameCall(c, d) == /\ d.op = c.op /\ d.sid = c.sid /\ d.user = c.user
                  /\ d.new \in {c.new} \cup Fresh

LEMMA LocalsKept ==
  ASSUME IInv, NEW p \in Proc, NEW pc \in PC
  PROVE  /\ SameCall(call[p], [call[p] EXCEPT !.pc = pc])
         /\ \A x : SameCall(call[p], [call[p] EXCEPT !.pc = pc, !.ses = x])
         /\ \A x : SameCall(call[p], [call[p] EXCEPT !.pc = pc, !.uses = x])
         /\ \A x \in Fresh : SameCall(call[p], [call[p] EXCEPT !.pc = pc, !.new = x])
         /\ \A x, y : SameCall(call[p], [call[p] EXCEPT !.pc = pc, !.ses = x, !.at = y])
  BY CallFacts DEF Call, SameCall

(* The operations that hand out the id they drew.                          *)
HandsOut == {"StartLogin", "AddLoginInfo", "StartSession"}

(* A step of p goes on with the call or ends it; "ok" comes with the id    *)
(* that was drawn, "active" from the place that looked at the user.        *)
StepEffect(p) ==
  /\ call[p].pc # "idle" /\ known \subseteq known'
  /\ \E c : /\ call' = [call EXCEPT ![p] = c]
            /\ c = Idle \/ SameCall(call[p], c)
  /\ reply' = "ok" /\ call[p].op \in HandsOut => call[p].new \in known'
  /\ reply' = "active" => call[p].pc = "read_get_user"

LEMMA GoOnEffect ==
  ASSUME NEW p \in Proc, NEW c, call[p].pc # "idle", GoOn(p, c), SameCall(call[p], c)
  PROVE  StepEffect(p)
  BY DEF GoOn, StepEffect

LEMMA GotoEffect ==
  ASSUME IInv, NEW p \in Proc, NEW pc \in PC, call[p].pc # "idle",
         Goto(p, pc) \/ Load(p, pc) \/ LoadUser(p, pc)
  PROVE  StepEffect(p)
<1>1. PICK c : GoOn(p, c) /\ SameCall(call[p], c)
  BY LocalsKept DEF Goto, Load, LoadUser
<1> QED BY <1>1, GoOnEffect

LEMMA ReturnEffect ==
  ASSUME NEW p \in Proc, NEW res, NEW s, call[p].pc # "idle", Return(p, res, s),
         res = "active" => call[p].pc = "read_get_user",
         res = "ok" /\ call[p].op \in HandsOut => s = call[p].new /\ s # NoSid
  PROVE  StepEffect(p)
  BY DEF Return, StepEffect

LEMMA GenerateEffect ==
  ASSUME IInv, NEW p \in Proc, GenerateNewSessionID(p)
  PROVE  StepEffect(p)
<1>1. call[p].pc = "generate"
  BY DEF GenerateNewSessionID, Reads
<1>2. CASE Return(p, "error", NoSid)
  BY <1>1, <1>2, ReturnEffect
<1>3. ASSUME NEW s \in Fresh,
             GoOn(p, [call[p] EXCEPT !.pc = AfterGenerate(call[p].op), !.new = s])
      PROVE  StepEffect(p)
  <2>1. AfterGenerate(call[p].op) \in PC
    BY DEF AfterGenerate, PC
  <2> QED BY <1>1, <1>3, <2>1, LocalsKept, GoOnEffect
<1> QED BY <1>2, <1>3 DEF GenerateNewSessionID

LEMMA CreateEffect ==
  ASSUME IInv, NEW p \in Proc,
         CreateLogin(p) \/ AddGet(p) \/ AddDelete(p) \/ AddCreate(p)
  PROVE  StepEffect(p)
<1>1. /\ call[p].pc \in {"create_login", "add_get", "add_delete", "add_create"}
      /\ call[p].new # NoSid
  BY CallFacts, NoneAssumption
  DEF CreateLogin, AddGet, AddDelete, AddCreate, Reads, LocalSet, HasNew, ToCreate
<1>2. \/ Return(p, "ok", call[p].new) \/ Return(p, "error", NoSid)
      \/ Load(p, "add_delete") \/ Goto(p, "add_create")
  BY DEF CreateLogin, AddGet, AddDelete, AddCreate
<1> QED BY <1>1, <1>2, GotoEffect, ReturnEffect DEF PC

LEMMA StartSessionEffect ==
  ASSUME IInv, NEW p \in Proc,
         \/ StartGet(p) \/ StartDelete(p) \/ StartCreate(p) \/ StartPanic(p)
         \/ StartGetUser(p) \/ StartCreateUser(p) \/ StartReplaceUser(p)
  PROVE  StepEffect(p)
<1>1. call[p].pc \in {"start_get", "start_delete", "start_create"} \cup NewSession
  BY DEF StartGet, StartDelete, StartCreate, StartPanic, StartGetUser,
         StartCreateUser, StartReplaceUser, Reads, NewSession
<1>2. call[p].pc \in NewSession => call[p].new # NoSid
  BY CallFacts, NoneAssumption DEF LocalSet, HasNew, NewSession
<1>3. \/ call[p].pc \in NewSession /\ Return(p, "ok", call[p].new)
      \/ Return(p, "error", NoSid) \/ Return(p, "panic", NoSid)
      \/ \E pc \in {"generate", "start_delete", "start_get_user",
                    "start_create_user"} : Goto(p, pc)
      \/ LoadUser(p, "start_replace_user")
  BY DEF StartGet, StartDelete, StartCreate, StartPanic, StartGetUser,
         StartCreateUser, StartReplaceUser, StartReturns, Reads, NewSession
<1>4. call[p].pc # "idle"
  BY <1>1 DEF NewSession
<1> QED BY <1>2, <1>3, <1>4, GotoEffect, ReturnEffect DEF PC

LEMMA LogoutEffect ==
  ASSUME IInv, NEW p \in Proc,
         \/ LogoutGet(p) \/ LogoutGetUser(p) \/ LogoutReplaceUser(p) \/ LogoutDelete(p)
  PROVE  StepEffect(p)
<1>1. /\ call[p].pc \in {"logout_get", "logout_get_user", "logout_replace_user",
                         "logout_delete"}
      /\ call[p].op \notin HandsOut
  BY CallFacts
  DEF LogoutGet, LogoutGetUser, LogoutReplaceUser, LogoutDelete, Reads, LocalSet,
      OpAt, HandsOut
<1>2. \/ \E res \in {"ok", "error", "invalid"} : Return(p, res, NoSid)
      \/ Load(p, "logout_get_user") \/ LoadUser(p, "logout_replace_user")
      \/ Goto(p, "logout_delete")
  BY DEF LogoutGet, LogoutGetUser, LogoutReplaceUser, LogoutDelete, LogoutReturns
<1> QED BY <1>1, <1>2, GotoEffect, ReturnEffect DEF PC

LEMMA ReadEffect ==
  ASSUME IInv, NEW p \in Proc, ReadGet(p) \/ ReadGetUser(p)
  PROVE  StepEffect(p)
<1>1. /\ call[p].pc \in {"read_get", "read_get_user"}
      /\ call[p].op \notin HandsOut
  BY CallFacts DEF ReadGet, ReadGetUser, Reads, LocalSet, OpAt, HandsOut
<1>2. ASSUME NEW res, Return(p, res, NoSid),
             res = "active" => call[p].pc = "read_get_user"
      PROVE  StepEffect(p)
  BY <1>1, <1>2, ReturnEffect
<1>3. ASSUME NEW pc \in {"logout_get", "update_single", "update_user", "read_get_user"},
             NEW x, NEW y,
             \/ Goto(p, pc) \/ Load(p, pc)
             \/ GoOn(p, [call[p] EXCEPT !.pc = pc, !.uses = x])
             \/ GoOn(p, [call[p] EXCEPT !.pc = pc, !.ses = x, !.at = y])
      PROVE  StepEffect(p)
  <2>1. pc \in PC
    BY DEF PC
  <2> QED BY <1>1, <1>3, <2>1, GotoEffect, GoOnEffect, LocalsKept
<1>4. CASE ReadGet(p)
  BY <1>2, <1>3, <1>4 DEF ReadGet, ReadBeforeLogin
<1>5. CASE ReadGetUser(p)
  BY <1>2, <1>3, <1>5 DEF ReadGetUser, Reads
<1> QED BY <1>4, <1>5

LEMMA UpdateEffect ==
  ASSUME IInv, NEW p \in Proc,
         UpdateUser(p) \/ UpdateSingle(p) \/ RenewGet(p) \/ RenewCreate(p) \/ RenewDelete(p)
  PROVE  StepEffect(p)
<1>1. /\ call[p].pc \in {"update_user", "update_single", "renew_get", "renew_create",
                         "renew_delete"}
      /\ call[p].op \notin HandsOut
  BY CallFacts
  DEF UpdateUser, UpdateSingle, RenewGet, RenewCreate, RenewDelete, Reads, LocalSet,
      OpAt, HandsOut
<1>2. \/ \E res \in {"ok", "error", "invalid"} : \E s : Return(p, res, s)
      \/ Load(p, "generate")
      \/ \E pc \in {"update_single", "logout_get", "renew_delete"} : Goto(p, pc)
  BY DEF UpdateUser, UpdateSingle, RenewGet, RenewCreate, RenewDelete
<1> QED BY <1>1, <1>2, GotoEffect, ReturnEffect DEF PC

LEMMA StepsEffect ==
  ASSUME IInv, NEW p \in Proc, Step(p)
  PROVE  StepEffect(p)
  BY GenerateEffect, CreateEffect, StartSessionEffect, LogoutEffect, ReadEffect,
     UpdateEffect
  DEF Step

-----------------------------------------------------------------------------
(* Every step of the proxy is a step of the session storage, or none.      *)
LEMMA StepMaps ==
  ASSUME ProxyInv, [ProxyNext]_allVars
  PROVE  [Next]_vars
<1>1. CASE ProxyTick
  BY <1>1 DEF ProxyTick, Next
<1>2. ASSUME NEW b \in Browser, Forget(b) PROVE [Next]_vars
  BY <1>2 DEF Forget
<1>3. ASSUME NEW p \in Proc, Arrive(p) PROVE [Next]_vars
  <2> DEFINE c == cookie[BrowserOf[p]]
  <2>1. c \in known \cup {NoSid}
    BY BrowserAssumption DEF ProxyInv, BrowsersHold
  <2>2. CASE UNCHANGED vars
    BY <2>2
  <2>3. CASE c # NoSid /\ Begin(p, "FindBySessionToken", c, NoUser, NoDirectives, "read_get")
    BY <2>1, <2>3 DEF Next, Start, FindBySessionToken
  <2> QED BY <1>3, <2>2, <2>3 DEF Arrive
<1>4. ASSUME NEW p \in Proc, CallStartLogin(p) PROVE [Next]_vars
  BY <1>4 DEF CallStartLogin, Next, Start, StartLogin
<1>5. ASSUME NEW p \in Proc, CallStartSession(p) PROVE [Next]_vars
  <2>1. h[p].sid \in known \cup {NoSid} /\ h[p].user \in Owner
    BY DEF ProxyInv, HandlersHold, Handled, Ids, Request
  <2> QED BY <1>5, <2>1 DEF CallStartSession, Next, Start, StartSession
<1>6. ASSUME NEW p \in Proc, CallOther(p) PROVE [Next]_vars
  <2>1. /\ h[p].pc \in {"add_login_info", "update"} => h[p].sid \in known
        /\ h[p].pc = "callback" => h[p].sent \in known
        /\ h[p].pc = "logout" => LogoutTarget(h[p]) \in known \cup Listed
        /\ h[p].dirs \in Directives
    BY DEF ProxyInv, HandlersHold, Handled, Set, Request
  <2> QED BY <1>6, <2>1
       DEF CallOther, Next, Start, FindBySessionToken, AddLoginInfo, Logout,
           UpdateSessionData
<1>7. ASSUME NEW p \in Proc, Serve(p) PROVE [Next]_vars
  BY <1>7 DEF Serve, Next
<1>8. ASSUME NEW p \in Proc, Dies(p) PROVE [Next]_vars
  BY <1>8 DEF Dies, Next
<1>9. ASSUME NEW p \in Proc, Backend(p) \/ Deliver(p) \/ Lost(p) PROVE [Next]_vars
  BY <1>9 DEF Backend, Deliver, Lost
<1>10. CASE UNCHANGED allVars
  BY <1>10 DEF allVars
<1> QED BY <1>1, <1>2, <1>3, <1>4, <1>5, <1>6, <1>7, <1>8, <1>9, <1>10 DEF ProxyNext

-----------------------------------------------------------------------------
(* The steps keep ProxyInv.  IInv' comes from NextIInv.                    *)

(* One request moves on; the others know no fewer ids.                     *)
LEMMA HandlersKept ==
  ASSUME ProxyInv, Listed \subseteq Listed', NEW p \in Proc, NEW d, h' = [h EXCEPT ![p] = d],
         Handled(d, known'), InCall(d, call'[p]), known \subseteq known',
         \A q \in Proc : q # p => call'[q] = call[q]
  PROVE  HandlersHold' /\ h' \in [Proc -> Request]
<1>1. \A q \in Proc : h'[q] = IF q = p THEN d ELSE h[q]
  BY DEF ProxyInv, ProxyTypeOK
<1>2. \A q \in Proc : Handled(h[q], known')
  BY MoreIds DEF ProxyInv, HandlersHold
<1>3. \A q \in Proc : Handled(h'[q], known')
  BY <1>1, <1>2
<1>4. \A q \in Proc : InCall(h'[q], call'[q])
  BY <1>1 DEF ProxyInv, HandlersHold
<1>5. HandlersHold'
  BY <1>3, <1>4 DEF HandlersHold, Handled, Ids, Set, InCall, OpOf, SidOf, LogoutTarget,
                    LoggedIn, RequestURI
<1>6. h' \in [Proc -> Request]
  BY <1>1, <1>3 DEF Handled, ProxyInv, ProxyTypeOK
<1> QED BY <1>5, <1>6

(* A request without a call of its own.                                    *)
LEMMA IdleOrIn ==
  ASSUME ProxyInv, NEW p \in Proc
  PROVE  /\ h[p] \in Request /\ Handled(h[p], known)
         /\ h[p].pc \notin Calling => call[p].pc = "idle"
         /\ \A d : call[p].pc = "idle" => InCall(d, call[p])
         /\ known \subseteq Sid
  BY DEF ProxyInv, HandlersHold, Handled, InCall, IInv, TypeOK

(* What a browser requests.                                                *)
LEMMA RequestHandled ==
  ASSUME ProxyInv, NEW b \in Browser, NEW r \in Requests(b)
  PROVE  /\ Handled(r, known) /\ r.pc = "free" /\ r.status = "none"
         /\ r.sid = NoSid /\ r.sent = NoSid /\ r.cookie = Same /\ r.goto = "none"
<1>1. Listed \subseteq Sid /\ tokens[b] \subseteq known /\ known \subseteq Sid
  BY DEF Listed, ProxyInv, BrowsersHold, IInv, TypeOK
<1>2. NoDirectives \in Directives
  BY DEF NoDirectives, Directives
<1>3. /\ r.sent = NoSid /\ r.sid = NoSid /\ r.cookie = Same /\ r.pc = "free"
      /\ r.status = "none" /\ r.goto = "none" /\ r.late = FALSE
      /\ r.dirs = NoDirectives
  BY DEF Requests, Free
<1>4. r.kind = "session_logout" => r.arg \in Listed
  BY DEF Requests, Free
<1>5. r \in Request
  <2>1. Free \in Request
    BY FreeHandled DEF Handled
  <2>2. \A pg \in Page : [Free EXCEPT !.page = pg] \in Request
    BY <2>1 DEF Request
  <2>3. \A k \in Kind : [Free EXCEPT !.kind = k] \in Request
    BY <2>1 DEF Request
  <2>4. \A k \in Kind, a \in Sid : [Free EXCEPT !.kind = k, !.arg = a] \in Request
    BY <2>1 DEF Request
  <2>5. \A k \in Kind, u \in Owner : [Free EXCEPT !.kind = k, !.user = u] \in Request
    BY <2>1 DEF Request
  <2> QED BY <1>1, <2>2, <2>3, <2>4, <2>5 DEF Requests, Kind
<1> QED BY <1>3, <1>4, <1>5 DEF Handled, Ids, Set, LoggedIn

(* A request with the cookie that was sent.                                *)
LEMMA CookieSent ==
  ASSUME NEW r \in Request, NEW s \in Sid, NEW l \in BOOLEAN
  PROVE  LET e == [r EXCEPT !.sent = s, !.late = l] IN
         /\ e \in Request /\ e.sent = s /\ e.pc = r.pc /\ e.kind = r.kind
         /\ e.arg = r.arg /\ e.sid = r.sid /\ e.status = r.status
         /\ e.cookie = r.cookie /\ e.goto = r.goto
  BY DEF Request

(* A request arrives.                                                      *)
LEMMA ArriveKeeps ==
  ASSUME ProxyInv, IInv', Listed \subseteq Listed', NEW p \in Proc, Arrive(p)
  PROVE  ProxyInv'
<1> DEFINE b == BrowserOf[p]
<1>1. PICK r \in Requests(b) :
        IF cookie[b] = NoSid THEN Route(p, r) /\ UNCHANGED vars
        ELSE /\ Begin(p, "FindBySessionToken", cookie[b], NoUser, NoDirectives,
                      "read_get")
             /\ Then(p, [r EXCEPT !.sent = cookie[b], !.late = cookie[b] \in out],
                     "lookup")
  BY DEF Arrive
<1>2. b \in Browser
  BY BrowserAssumption
<1> HIDE DEF b
<1>3. /\ Handled(r, known) /\ r.pc = "free" /\ r.status = "none" /\ r.sid = NoSid
      /\ r.goto = "none"
  BY <1>2, RequestHandled
<1>4. call[p].pc = "idle" /\ known \subseteq Sid
  BY IdleOrIn DEF Arrive, Calling
<1>5. HandlersHold' /\ h' \in [Proc -> Request] /\ known' = known
  <2>1. CASE Route(p, r) /\ UNCHANGED vars
    <3>1. Leaves(p, r, known)
      BY <1>3, <2>1, RouteLeaves DEF Active, Handled
    <3>2. PICK d : h' = [h EXCEPT ![p] = d] /\ Handled(d, known)
      BY <3>1 DEF Leaves
    <3>3. known' = known /\ call' = call
      BY <2>1 DEF vars
    <3>4. InCall(d, call'[p])
      BY <1>4, <3>3 DEF InCall
    <3> QED BY <3>2, <3>3, <3>4, HandlersKept
  <2>2. CASE /\ cookie[b] # NoSid
             /\ Begin(p, "FindBySessionToken", cookie[b], NoUser, NoDirectives,
                      "read_get")
             /\ Then(p, [r EXCEPT !.sent = cookie[b], !.late = cookie[b] \in out],
                     "lookup")
    <3> DEFINE l == cookie[b] \in out
               e == [r EXCEPT !.sent = cookie[b], !.late = l]
               d == [e EXCEPT !.pc = "lookup"]
               c == [Idle EXCEPT !.pc = "read_get", !.op = "FindBySessionToken",
                                 !.sid = cookie[b], !.user = NoUser,
                                 !.dirs = NoDirectives]
    <3>1. cookie[b] \in known
      BY <1>2, <2>2 DEF ProxyInv, BrowsersHold
    <3>2. /\ e \in Request /\ e.sent = cookie[b] /\ e.pc = r.pc /\ e.kind = r.kind
          /\ e.arg = r.arg /\ e.sid = r.sid /\ e.status = r.status
          /\ e.cookie = r.cookie /\ e.goto = r.goto
      <4>1. r \in Request /\ cookie[b] \in Sid
        BY <1>3, <1>4, <3>1 DEF Handled
      <4>2. l \in BOOLEAN
        OBVIOUS
      <4> HIDE DEF l
      <4> QED BY <4>1, <4>2, CookieSent
    <3> HIDE DEF e
    <3>3. Handled(e, known)
      BY <1>3, <3>1, <3>2 DEF Handled, Ids, Set, LoggedIn
    <3>4. Handled(d, known)
      <4>1. e.goto \in Uri \cup {"none"} /\ e.sent \in known /\ e.status = "none"
        BY <1>3, <3>1, <3>2
      <4>2. "lookup" \in Handler \ {"respond"}
        BY DEF Handler, Calling
      <4> QED BY <3>2, <3>3, <4>1, <4>2, ThenHandled DEF Handled
    <3>5. d.pc = "lookup" /\ d.sent = cookie[b]
      BY <3>2 DEF Request
    <3>6. h' = [h EXCEPT ![p] = d]
      BY <2>2 DEF Then, e
    <3>7. known' = known /\ call' = [call EXCEPT ![p] = c]
      BY <2>2 DEF Begin, GoOn
    <3>8. c.op = "FindBySessionToken" /\ c.sid = cookie[b]
      BY DEF Idle
    <3> HIDE DEF c, d
    <3>9. InCall(d, c)
      BY <3>5, <3>8 DEF InCall, OpOf, SidOf, Calling
    <3>10. call'[p] = c /\ \A q \in Proc : q # p => call'[q] = call[q]
      BY <3>7 DEF ProxyInv, IInv, TypeOK
    <3> QED BY <3>4, <3>6, <3>7, <3>9, <3>10, HandlersKept
  <2> QED BY <1>1, <2>1, <2>2
<1> QED BY <1>5 DEF Arrive, ProxyInv, ProxyTypeOK, BrowsersHold

(* A handler calls the session storage.                                    *)
LEMMA CallKeeps ==
  ASSUME ProxyInv, IInv', Listed \subseteq Listed', NEW p \in Proc,
         CallStartLogin(p) \/ CallStartSession(p) \/ CallOther(p)
  PROVE  ProxyInv'
<1> DEFINE r == h[p]
<1>1. r \in Request /\ Handled(r, known) /\ BrowserOf[p] \in Browser
  BY IdleOrIn, BrowserAssumption
<1>2. /\ h' = h /\ r.pc \in Calling
      /\ \E u, dirs, pc : /\ Begin(p, OpOf(r), SidOf(r), u, dirs, pc)
                          /\ OpOf(r) = "StartSession" => u = r.user
  BY DEF CallStartLogin, CallStartSession, CallOther, proxyVars, Calling, OpOf, SidOf
<1>3. known' = known
  BY <1>2 DEF Begin, GoOn
<1>4. HandlersHold' /\ h' \in [Proc -> Request]
  <2>1. PICK u, dirs, pc : /\ Begin(p, OpOf(r), SidOf(r), u, dirs, pc)
                           /\ OpOf(r) = "StartSession" => u = r.user
    BY <1>2
  <2> DEFINE c == [Idle EXCEPT !.pc = pc, !.op = OpOf(r), !.sid = SidOf(r),
                               !.user = u, !.dirs = dirs]
  <2>2. call' = [call EXCEPT ![p] = c]
    BY <2>1 DEF Begin, GoOn
  <2>3. c.op = OpOf(r) /\ c.sid = SidOf(r) /\ c.user = u
    BY DEF Idle
  <2> HIDE DEF c
  <2>4. call'[p] = c /\ \A q \in Proc : q # p => call'[q] = call[q]
    BY <2>2 DEF ProxyInv, IInv, TypeOK
  <2>5. InCall(r, c)
    BY <1>2, <2>1, <2>3 DEF InCall
  <2>6. h' = [h EXCEPT ![p] = r]
    BY <1>2 DEF ProxyInv, ProxyTypeOK
  <2> QED BY <1>1, <1>3, <2>4, <2>5, <2>6, HandlersKept
<1>5. was' \in [Browser -> SUBSET User]
  <2>1. r.user \in Owner
    BY <1>1 DEF Request
  <2> QED BY <1>1, <2>1
       DEF ProxyInv, ProxyTypeOK, CallStartLogin, CallStartSession, CallOther,
           proxyVars, Owner
<1>6. asked' \in [Browser -> SUBSET Uri]
  <2>1. r.pc = "start_login" => RequestURI(r) \in Uri
    BY <1>1 DEF Handled, Set
  <2> QED BY <1>1, <2>1
       DEF ProxyInv, ProxyTypeOK, CallStartLogin, CallStartSession, CallOther,
           proxyVars
<1> QED BY <1>3, <1>4, <1>5, <1>6
     DEF CallStartLogin, CallStartSession, CallOther, proxyVars, ProxyInv,
         ProxyTypeOK, BrowsersHold

(* The session storage returns to the handler of p.                        *)
LEMMA ReturnedLeaves ==
  ASSUME ProxyInv, NEW p \in Proc, NEW ids \in SUBSET Sid, known \subseteq ids,
         call[p].pc # "idle", NEW res, Returned(p, res),
         res = "ok" /\ call[p].op \in HandsOut => call[p].new \in ids,
         res = "active" => call[p].pc = "read_get_user"
  PROVE  \E r : Leaves(p, r, ids)
<1> DEFINE r == h[p]
           new == call[p].new
<1>1. /\ r \in Request /\ Handled(r, ids) /\ r.pc \in Calling /\ call[p].op = OpOf(r)
      /\ r.goto \in Uri \cup {"none"}
  BY MoreIds DEF ProxyInv, HandlersHold, InCall, Handled, Set, Calling
<1>2. UserOf[BrowserOf[p]] \in Owner /\ BlankUser \in Owner
  BY BrowserAssumption
<1>3. res = "active" => call[p].ses.user \in Owner
  BY CallFacts DEF ProxyInv, LocalSet, HasSes, Call, SingleDoc
<1>4. /\ r.pc \in {"start_login", "add_login_info", "start_session"} /\ res = "ok"
           => new \in ids
      /\ r.pc = "logout" => LogoutTarget(r) \in ids \cup Listed
  BY <1>1 DEF OpOf, HandsOut, Handled, Set
<1>5. CASE Show(p)
  BY <1>5, ShowLeaves
<1> DEFINE found == [r EXCEPT !.sid = r.sent, !.status = res]
<1>6. ASSUME r.pc \in {"lookup", "callback"}, res \in {"before", "active", "idle"}
       PROVE  /\ found \in Request /\ Ids(found, ids) /\ found.status = res
              /\ found.goto \in Uri \cup {"none"}
  <2>1. r.sent \in ids
    BY <1>1, <1>6 DEF Handled, Set
  <2>2. /\ found \in Request /\ found.kind = r.kind /\ found.arg = r.arg
        /\ found.sent = r.sent /\ found.sid = r.sent /\ found.status = res
        /\ found.cookie = r.cookie /\ found.goto = r.goto
    BY <1>1, <1>6, <2>1 DEF Request
  <2> HIDE DEF found
  <2> QED BY <1>1, <2>1, <2>2 DEF Handled, Ids, LoggedIn
<1>7. CASE r.pc = "lookup" /\ Found(p, res)
  <2>1. CASE res \in {"before", "active", "idle"}
    <3>1. Route(p, found)
      BY <1>7, <2>1 DEF Found
    <3> HIDE DEF found
    <3> QED BY <1>3, <1>7, <1>6, <2>1, <3>1, RouteLeaves DEF Active
  <2>2. CASE res \notin {"before", "active", "idle"}
    <3>1. Route(p, r) /\ ~ Active(r)
      BY <1>1, <1>7, <2>2 DEF Found, Active, Handled, Set
    <3> QED BY <1>1, <3>1, RouteLeaves DEF Handled
  <2> QED BY <2>1, <2>2
<1>8. CASE r.pc = "callback" /\ FoundAgain(p, res)
  <2>1. CASE res \in {"before", "active", "idle"} /\ ~ Show(p)
    <3>1. PICK u \in (Confirmed(p, found) \cup {BlankUser}) \ {NoUser} :
                 Then(p, [found EXCEPT !.user = u], "start_session")
      BY <1>8, <2>1 DEF FoundAgain, IdpCallback
    <3>2. u \in Owner
      BY <1>2, <3>1 DEF Confirmed
    <3> HIDE DEF found
    <3> QED BY <1>6, <1>8, <2>1, <3>1, <3>2, UserLeaves
  <2> QED BY <1>5, <1>8, <2>1 DEF FoundAgain, IdpCallback
<1>9. ASSUME NEW c \in ids \cup {NoSid, Same}, NEW to \in Uri \cup {"none", "login"},
             Respond(p, r, c, to)
      PROVE  Leaves(p, r, ids)
  <2>1. to \in Uri \cup {"none", "login", "idp", "logged_out"}
        /\ to # "idp" /\ to # "logged_out"
    BY PageAssumption DEF Uri
  <2> QED BY <1>1, <1>9, <2>1, RespondLeaves DEF Handled
<1>10. CASE r.pc = "start_login" /\ LoginStarted(p, res)
  <2>1. ASSUME new \in ids, Then(p, [r EXCEPT !.sid = new], "add_login_info")
        PROVE  \E e : Leaves(p, e, ids)
    <3> DEFINE e == [r EXCEPT !.sid = new]
    <3>1. /\ e \in Request /\ e.pc = r.pc /\ e.kind = r.kind /\ e.arg = r.arg
          /\ e.sent = r.sent /\ e.sid = new /\ e.status = r.status
          /\ e.cookie = r.cookie /\ e.goto = r.goto
      BY <1>1, <2>1 DEF Request
    <3> HIDE DEF e
    <3>2. Ids(e, ids)
      BY <1>1, <2>1, <3>1 DEF Handled, Ids, LoggedIn
    <3>3. Then(p, e, "add_login_info")
      BY <2>1 DEF e
    <3> QED BY <1>1, <2>1, <3>1, <3>2, <3>3, ThenLeaves DEF Handler, Calling
  <2> QED BY <1>4, <1>5, <1>9, <1>10, <2>1 DEF LoginStarted
<1>11. CASE r.pc = "add_login_info" /\ LoginInfoAdded(p, res)
  <2>1. ASSUME Respond(p, r, new, "idp"), new \in ids
        PROVE  Leaves(p, r, ids)
    BY <1>1, <2>1, RespondLeaves DEF Handled
  <2> QED BY <1>4, <1>5, <1>11, <2>1 DEF LoginInfoAdded
<1>12. CASE r.pc = "start_session" /\ SessionStarted(p, res)
  <2>1. DefaultLandingPage \in Uri
    BY PageAssumption DEF Uri
  <2> QED BY <1>1, <1>4, <1>5, <1>9, <1>12, <2>1 DEF SessionStarted
<1>13. CASE r.pc = "logout" /\ LoggedOut(p, res)
  <2>1. ASSUME NEW c \in {NoSid, Same}, Respond(p, r, c, "logged_out")
        PROVE  Leaves(p, r, ids)
    BY <1>1, <1>4, <1>13, <2>1, RespondLeaves DEF Handled
  <2> QED BY <1>5, <1>13, <2>1 DEF LoggedOut
<1> QED BY <1>5, <1>7, <1>8, <1>10, <1>11, <1>12, <1>13 DEF Returned

(* The login information that a step writes.                               *)
LEMMA LoginTyped ==
  ASSUME ProxyInv, NEW p \in Proc, LoginInfo(p)
  PROVE  info' \in [Sid -> Login \cup {NoInfo}]
<1>1. /\ call[p] \in Call /\ LocalSet(call[p]) /\ h[p] \in Request
      /\ InCall(h[p], call[p]) /\ Handled(h[p], known)
  BY CallFacts, IdleOrIn DEF ProxyInv, HandlersHold
<1>2. info \in [Sid -> Login \cup {NoInfo}] /\ DefaultLandingPage \in Uri
  BY PageAssumption DEF ProxyInv, ProxyTypeOK, Uri
<1>3. CASE call[p].pc = "create_login"
  <2>1. call[p].op = "StartLogin" /\ call[p].new \in Sid
    BY <1>1, <1>3 DEF LocalSet, OpAt, HasNew, ToCreate
  <2>2. h[p].pc = "start_login"
    BY <1>1, <1>3, <2>1 DEF InCall, OpOf
  <2>3. RequestURI(h[p]) \in Uri
    BY <1>1, <2>2 DEF Handled, Set
  <2>4. [landing |-> RequestURI(h[p]), idp |-> FALSE] \in Login
    BY <2>3 DEF Login
  <2> QED BY <1>2, <1>3, <2>1, <2>4 DEF LoginInfo
<1>4. CASE call[p].pc = "add_create" /\ info[call[p].sid] # NoInfo
  <2>1. call[p].sid \in Sid /\ call[p].new \in Sid
    BY <1>1, <1>4 DEF LocalSet, HasSid, HasSes, HasNew, ToCreate
  <2>2. [info[call[p].sid] EXCEPT !.idp = TRUE] \in Login
    BY <1>2, <1>4, <2>1 DEF Login
  <2>3. info' = [info EXCEPT ![call[p].new] = [info[call[p].sid] EXCEPT !.idp = TRUE]]
    BY <1>4 DEF LoginInfo
  <2> QED BY <1>2, <2>1, <2>2, <2>3
<1>5. CASE /\ call[p].pc # "create_login"
           /\ ~ (call[p].pc = "add_create" /\ info[call[p].sid] # NoInfo)
  BY <1>2, <1>5 DEF LoginInfo
<1> QED BY <1>3, <1>4, <1>5

(* A login session lands on a page that the proxy serves.                  *)
LEMMA LandingTyped ==
  ASSUME ProxyInv, NEW p \in Proc
  PROVE  Landing(p) \in Uri
<1>1. call[p].sid \in Sid \cup {NoSid} /\ DefaultLandingPage \in Uri
  BY CallFacts, PageAssumption DEF ProxyInv, Call, Uri
<1> QED BY <1>1 DEF Landing, ProxyInv, ProxyTypeOK, Login

(* A step of the session storage on behalf of p.                           *)
LEMMA ServeKeeps ==
  ASSUME ProxyInv, IInv', Listed \subseteq Listed', NEW p \in Proc, Serve(p)
  PROVE  ProxyInv'
<1> DEFINE r == h[p]
<1>1. /\ StepEffect(p) /\ r \in Request /\ Handled(r, known) /\ InCall(r, call[p])
      /\ known' \subseteq Sid /\ call \in [Proc -> Call]
  BY StepsEffect, IdleOrIn DEF Serve, ProxyInv, HandlersHold, IInv, TypeOK
<1>2. PICK c : call' = [call EXCEPT ![p] = c] /\ (c = Idle \/ SameCall(call[p], c))
  BY <1>1 DEF StepEffect
<1>3. call'[p] = c /\ \A q \in Proc : q # p => call'[q] = call[q]
  BY <1>1, <1>2
<1>4. /\ call[p].pc # "idle" /\ known \subseteq known'
      /\ reply' = "ok" /\ call[p].op \in HandsOut => call[p].new \in known'
      /\ reply' = "active" => call[p].pc = "read_get_user"
  BY <1>1 DEF StepEffect
<1>5. PICK d : h' = [h EXCEPT ![p] = d] /\ Handled(d, known') /\ InCall(d, c)
  <2>1. CASE c.pc = "idle"
    <3>1. Returned(p, reply')
      BY <1>3, <2>1 DEF Serve
    <3>2. PICK e : Leaves(p, e, known')
      BY <1>1, <1>4, <3>1, ReturnedLeaves
    <3> QED BY <2>1, <3>2 DEF Leaves, InCall
  <2>2. CASE c.pc # "idle"
    <3>1. c.op = call[p].op /\ c.sid = call[p].sid /\ c.user = call[p].user
      BY <1>2, <2>2 DEF SameCall, Idle
    <3>2. /\ r.pc \in Calling /\ call[p].op = OpOf(r) /\ call[p].sid = SidOf(r)
          /\ call[p].op = "StartSession" => call[p].user = r.user
      BY <1>1, <1>4 DEF InCall
    <3>3. InCall(r, c)
      BY <3>1, <3>2 DEF InCall
    <3>4. Handled(r, known')
      BY <1>1, <1>4, MoreIds
    <3>5. CASE h' = h
      BY <3>3, <3>4, <3>5 DEF ProxyInv, ProxyTypeOK
    <3>6. CASE h' = [h EXCEPT ![p].goto = Landing(p)]
      <4> DEFINE l == Landing(p)
                 e == [r EXCEPT !.goto = l]
      <4>1. l \in Uri
        BY LandingTyped
      <4>2. h' = [h EXCEPT ![p] = e]
        BY <3>6 DEF ProxyInv, ProxyTypeOK
      <4> HIDE DEF l
      <4>3. /\ e \in Request /\ e.pc = r.pc /\ e.kind = r.kind /\ e.page = r.page
            /\ e.arg = r.arg /\ e.user = r.user /\ e.sent = r.sent /\ e.sid = r.sid
            /\ e.status = r.status /\ e.cookie = r.cookie /\ e.goto = l
        BY <1>1, <4>1 DEF Request
      <4> HIDE DEF e
      <4>4. Ids(e, known')
        BY <3>4, <4>3 DEF Handled, Ids, LoggedIn
      <4>5. Set(e, known')
        BY <3>2, <3>4, <4>1, <4>3 DEF Handled, Set, LogoutTarget, RequestURI, Calling
      <4>6. InCall(e, c)
        BY <3>3, <4>3 DEF InCall, OpOf, SidOf, LogoutTarget
      <4> QED BY <4>2, <4>3, <4>4, <4>5, <4>6 DEF Handled
    <3> QED BY <1>3, <2>2, <3>5, <3>6 DEF Serve
  <2> QED BY <2>1, <2>2
<1>6. HandlersHold' /\ h' \in [Proc -> Request]
  BY <1>3, <1>4, <1>5, HandlersKept
<1>7. info' \in [Sid -> Login \cup {NoInfo}]
  BY LoginTyped DEF Serve
<1> QED BY <1>4, <1>6, <1>7 DEF Serve, ProxyInv, ProxyTypeOK, BrowsersHold

(* A response reaches its browser.                                         *)
LEMMA DeliverKeeps ==
  ASSUME ProxyInv, IInv', Listed \subseteq Listed', NEW p \in Proc, Deliver(p)
  PROVE  ProxyInv'
<1> DEFINE r == h[p]
<1>1. /\ r \in Request /\ Ids(r, known) /\ Set(r, known) /\ r.pc = "respond"
      /\ known \subseteq Sid
  BY IdleOrIn DEF Deliver, Handled
<1>2. call[p].pc = "idle" /\ BrowserOf[p] \in Browser
  BY <1>1, IdleOrIn, BrowserAssumption DEF Calling
<1>3. known' = known /\ call' = call
  BY DEF Deliver, vars
<1>4. HandlersHold' /\ h' \in [Proc -> Request]
  <2>1. h' = [h EXCEPT ![p] = Free] /\ InCall(Free, call'[p])
    BY <1>2, <1>3 DEF Deliver, InCall
  <2> QED BY <1>3, <2>1, FreeHandled, HandlersKept
<1>5. /\ cookie' \in [Browser -> known \cup {NoSid}]
      /\ tokens' \in [Browser -> SUBSET known]
      /\ out' \subseteq Sid
  <2>1. /\ r.cookie # Same => r.cookie \in known \cup {NoSid}
        /\ r.goto = "idp" => r.cookie \in known
        /\ r.goto = "logged_out" => LogoutTarget(r) \in Sid
    BY <1>1 DEF Ids, Set, Listed
  <2> QED BY <1>1, <1>2, <2>1
       DEF Deliver, ProxyInv, ProxyTypeOK, BrowsersHold
<1>6. ProxyTypeOK'
  BY <1>1, <1>4, <1>5 DEF Deliver, ProxyInv, ProxyTypeOK
<1>7. BrowsersHold'
  BY <1>3, <1>5 DEF BrowsersHold
<1> QED BY <1>4, <1>6, <1>7 DEF ProxyInv

(* The service answers, or not.                                            *)
LEMMA BackendKeeps ==
  ASSUME ProxyInv, IInv', Listed \subseteq Listed', NEW p \in Proc, Backend(p)
  PROVE  ProxyInv'
<1> DEFINE r == h[p]
<1>1. /\ r \in Request /\ Ids(r, known) /\ Set(r, known) /\ r.pc = "forward"
      /\ call[p].pc = "idle" /\ known' = known /\ call' = call
  BY IdleOrIn DEF Backend, Handled, Calling, vars
<1>2. PICK d : h' = [h EXCEPT ![p] = d] /\ Handled(d, known)
  <2>1. CASE Show(p)
    BY <2>1, FreeHandled DEF Show
  <2>2. ASSUME NEW dirs \in Directives, Then(p, [r EXCEPT !.dirs = dirs], "update")
        PROVE  Leaves(p, r, known)
    <3> DEFINE e == [r EXCEPT !.dirs = dirs]
    <3>1. /\ e \in Request /\ e.pc = r.pc /\ e.kind = r.kind /\ e.page = r.page
          /\ e.arg = r.arg /\ e.user = r.user /\ e.sent = r.sent /\ e.sid = r.sid
          /\ e.status = r.status /\ e.cookie = r.cookie /\ e.goto = r.goto
      BY <1>1 DEF Request
    <3>2. Then(p, e, "update")
      BY <2>2
    <3> HIDE DEF e
    <3>3. Ids(e, known) /\ e.goto \in Uri \cup {"none"} /\ e.sid \in known
      BY <1>1, <3>1 DEF Ids, Set, LoggedIn
    <3>4. Leaves(p, e, known)
      BY <3>1, <3>2, <3>3, ThenLeaves DEF Handler, Calling
    <3> QED BY <3>1, <3>4 DEF Leaves
  <2> QED BY <2>1, <2>2 DEF Backend, Leaves
<1>3. HandlersHold' /\ h' \in [Proc -> Request]
  <2>1. InCall(d, call'[p])
    BY <1>1 DEF InCall
  <2> QED BY <1>1, <1>2, <2>1, HandlersKept
<1> QED BY <1>1, <1>3 DEF Backend, ProxyInv, ProxyTypeOK, BrowsersHold

(* A request ends early.                                                   *)
LEMMA EndKeeps ==
  ASSUME ProxyInv, IInv', Listed \subseteq Listed', NEW p \in Proc, Dies(p) \/ Lost(p)
  PROVE  ProxyInv'
<1>1. /\ known' = known /\ h' = [h EXCEPT ![p] = Free]
      /\ \/ call' = [call EXCEPT ![p] = Idle]
         \/ call' = call /\ h[p].pc \notin Calling
  BY DEF Dies, Crash, Fails, GoOn, Lost, Calling, vars
<1>2. call \in [Proc -> Call] /\ Idle.pc = "idle"
  BY DEF ProxyInv, IInv, TypeOK, Idle
<1>3. call'[p].pc = "idle" /\ \A q \in Proc : q # p => call'[q] = call[q]
  BY <1>1, <1>2, IdleOrIn
<1>4. HandlersHold' /\ h' \in [Proc -> Request]
  BY <1>1, <1>3, FreeHandled, HandlersKept DEF InCall
<1> QED BY <1>1, <1>4 DEF Dies, Lost, ProxyInv, ProxyTypeOK, BrowsersHold

-----------------------------------------------------------------------------
(* At the start nobody holds an id.                                        *)
LEMMA InitProxyInv == ProxyInit => ProxyInv
<1> SUFFICES ASSUME ProxyInit PROVE ProxyInv
  OBVIOUS
<1>1. IInv
  BY InitIInv DEF ProxyInit
<1>2. Free \in Request /\ \A ids : Handled(Free, ids)
  BY FreeHandled DEF Handled
<1>3. ProxyTypeOK
  BY <1>2 DEF ProxyInit, ProxyTypeOK
<1>4. HandlersHold
  BY <1>2 DEF ProxyInit, Init, HandlersHold, InCall, Idle
<1> QED BY <1>1, <1>3, <1>4 DEF ProxyInv, BrowsersHold, ProxyInit

(* Every step keeps ProxyInv.                                              *)
LEMMA NextProxyInv == ProxyInv /\ [ProxyNext]_allVars => ProxyInv'
<1> SUFFICES ASSUME ProxyInv, [ProxyNext]_allVars PROVE ProxyInv'
  OBVIOUS
<1>0. IInv' /\ Listed \subseteq Listed'
  BY StepMaps, NextIInv, ListedGrows DEF ProxyInv
<1>1. CASE ProxyTick
  BY <1>0, <1>1
  DEF ProxyTick, Tick, proxyVars, ProxyInv, ProxyTypeOK, HandlersHold, BrowsersHold,
      Handled, Ids, Set, InCall
<1>2. ASSUME NEW b \in Browser, Forget(b) PROVE ProxyInv'
  BY <1>0, <1>2
  DEF Forget, vars, ProxyInv, ProxyTypeOK, HandlersHold, BrowsersHold, Handled, Ids,
      Set, InCall
<1>3. CASE UNCHANGED allVars
  BY <1>0, <1>3
  DEF allVars, vars, proxyVars, ProxyInv, ProxyTypeOK, HandlersHold, BrowsersHold,
      Handled, Ids, Set, InCall
<1> QED BY <1>0, <1>1, <1>2, <1>3, ArriveKeeps, CallKeeps, ServeKeeps, BackendKeeps,
           DeliverKeeps, EndKeeps
     DEF ProxyNext

(* The variables of the proxy have their types.                            *)
THEOREM ProxyTypeCorrectness == ProxySpec => []ProxyTypeOK
<1>1. ProxyInv => ProxyTypeOK  BY DEF ProxyInv
<1> QED BY <1>1, InitProxyInv, NextProxyInv, PTL DEF ProxySpec

(* For any browsers and requests, whatever fails: the handlers call the    *)
(* session storage as SessionStorage says, so what is proved of it holds   *)
(* of the proxy.                                                           *)
THEOREM ProxyUsesStorage == ProxySpec => UsesStorage
<1>1. ProxyInit => Init
  BY DEF ProxyInit
<1>2. ProxyInv /\ [ProxyNext]_allVars => [Next]_vars
  BY StepMaps
<1> QED BY <1>1, <1>2, InitProxyInv, NextProxyInv, PTL DEF ProxySpec, UsesStorage, Spec
=============================================================================
