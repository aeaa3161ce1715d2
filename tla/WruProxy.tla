------------------------------ MODULE WruProxy ------------------------------
(***************************************************************************)
(* The request handlers of wru (handler.go, handler_helper.go, session.go, *)
(* middleware.go, reverseproxy.go) on top of SessionStorage: browsers send *)
(* requests with the cookie they hold, a handler looks the session up,     *)
(* makes its further calls of the session storage one document store call  *)
(* at a time, and its response brings the browser a new cookie, or none.   *)
(* A browser has several requests under way, and their responses reach it  *)
(* in any order.                                                           *)
(*                                                                         *)
(* A callback from the ID provider carries the state (oauth_token for      *)
(* Twitter) of one login start, named by the id that start handed out.     *)
(***************************************************************************)
EXTENDS SessionStorage

CONSTANTS
  Browser, BrowserOf,  \* the browsers; the browser whose requests p serves
  UserOf,              \* the registered user of the account a browser's person has
  BlankUser,           \* the registered user of the account "", if there is one
  Page, DefaultLandingPage,  \* the pages of the service behind wru
  DevMode,             \* users log in by picking a user id
  Kinds,               \* the requests that browsers send
  NoInfo, Same         \* no login information; a response that sets no cookie

Kind == {"page", "favicon", "login", "federated", "callback", "debug", "logout",
         "user", "session_logout"}

ASSUME BrowserAssumption == /\ BrowserOf \in [Proc -> Browser]
                            /\ UserOf \in [Browser -> Owner]
                            /\ BlankUser \in Owner
ASSUME PageAssumption == /\ DefaultLandingPage \in Page
                         /\ Page \cap {"none", "login", "idp", "logged_out"} = {}
ASSUME DevModeAssumption == DevMode \in BOOLEAN
ASSUME KindsAssumption == Kinds \subseteq Kind
ASSUME SameAssumption == Same \notin Sid \cup {NoSid}

VARIABLES
  cookie,  \* cookie[b]: the session id in the cookie of b
  h,       \* h[p]: the request that p serves and its response
  info,    \* info[s]: the LoginInfo of s before login
  tokens,  \* tokens[b]: the login starts whose callback b can bring back
  was,     \* history: the users that b's person logged in as
  asked,   \* history: what b requested when a login was started
  out      \* history: the ids that a response reported as logged out

proxyVars == <<cookie, h, info, tokens, was, asked, out>>
allVars   == <<vars, proxyVars>>

-----------------------------------------------------------------------------
(* The RequestURIs that a login may start from.                            *)
Uri == Page \cup {"logout", "user", "session_logout"}

(* Where a handler is: in (or about to make) a call of the session         *)
(* storage, waiting for the service behind wru, or with its response ready. *)
Calling == {"lookup", "callback", "start_login", "add_login_info",
            "start_session", "logout", "update"}
Handler == Calling \cup {"free", "forward", "respond"}

Login == [landing : Uri, idp : BOOLEAN]

ASSUME NoInfoAssumption == NoInfo \notin Login

Request == [pc : Handler, kind : Kind, page : Page, arg : Sid \cup {NoSid},
            user : Owner, sent : Sid \cup {NoSid}, late : BOOLEAN,
            sid : Sid \cup {NoSid}, status : {"none", "before", "active", "idle"},
            dirs : Directives, cookie : Sid \cup {NoSid, Same},
            goto : Uri \cup {"none", "login", "idp", "logged_out"}]

Free == [pc |-> "free", kind |-> "page", page |-> DefaultLandingPage,
         arg |-> NoSid, user |-> NoUser, sent |-> NoSid, late |-> FALSE,
         sid |-> NoSid, status |-> "none", dirs |-> NoDirectives,
         cookie |-> Same, goto |-> "none"]

ProxyTypeOK == /\ cookie \in [Browser -> Sid \cup {NoSid}]
               /\ h      \in [Proc -> Request]
               /\ info   \in [Sid -> Login \cup {NoInfo}]
               /\ tokens \in [Browser -> SUBSET Sid]
               /\ was    \in [Browser -> SUBSET User]
               /\ asked  \in [Browser -> SUBSET Uri]
               /\ out    \subseteq Sid

ProxyInit == /\ Init
             /\ cookie = [b \in Browser |-> NoSid]
             /\ h      = [p \in Proc |-> Free]
             /\ info   = [s \in Sid |-> NoInfo]
             /\ tokens = [b \in Browser |-> {}]
             /\ was    = [b \in Browser |-> {}]
             /\ asked  = [b \in Browser |-> {}]
             /\ out    = {}

-----------------------------------------------------------------------------
(* A handler goes on with its request, or has its response: a cookie or    *)
(* Same, and where it sends the browser.                                   *)
Then(p, r, pc) == h' = [h EXCEPT ![p] = [r EXCEPT !.pc = pc]]

Respond(p, r, c, to) ==
  h' = [h EXCEPT ![p] = [r EXCEPT !.pc = "respond", !.cookie = c, !.goto = to]]

(* A page of wru, an error, or (a nil dereference that net/http recovers)  *)
(* a connection that is closed: the browser keeps its cookie, and when it  *)
(* gets this response makes no difference.                                 *)
Show(p) == h' = [h EXCEPT ![p] = Free]

Active(r) == r.status = "active"

(* As MustLogin sees it.                                                   *)
LoggedIn(r) == r.status \in {"active", "before"}

(* MustNotLogin sends a browser with an active session to the service.     *)
(* Mutant: it sets the cookie, too, of a session that was not started.     *)
ToLandingPageCookie(p, r) == Active(r) /\ Respond(p, r, NoSid, DefaultLandingPage)

ToLandingPage(p, r) == Active(r) /\ Show(p)

startSessionAndRedirect(p, r) == Then(p, r, "start_login")

(* authMiddleware, and the middleware of NewAuthorizationMiddleware.       *)
(* Mutant: the condition of MustLogin is used for the service, too.        *)
authMiddlewareBefore(p, r) ==
  /\ r.kind \in {"page", "favicon"}
  /\ \/ LoggedIn(r) /\ Then(p, [r EXCEPT !.user = single[r.sid].user], "forward")
     \/ ~ LoggedIn(r) /\ r.kind = "favicon" /\ Show(p)
     \/ ~ LoggedIn(r) /\ r.kind = "page" /\ startSessionAndRedirect(p, r)

authMiddleware(p, r) ==
  /\ r.kind \in {"page", "favicon"}
  /\ \/ Active(r) /\ Then(p, [r EXCEPT !.user = call[p].ses.user], "forward")
     \/ ~ Active(r) /\ r.kind = "favicon" /\ Show(p)
     \/ ~ Active(r) /\ r.kind = "page" /\ startSessionAndRedirect(p, r)

LoginPage(p, r) ==
  /\ r.kind = "login"
  /\ ToLandingPage(p, r) \/ (~ Active(r) /\ Show(p))

(* The provider may be unknown, not configured, or out of reach.           *)
(* Mutant: AddLoginInfo is called without a session.                       *)
FederatedLoginNoStart(p, r) ==
  /\ r.kind = "federated"
  /\ ToLandingPage(p, r) \/ (~ Active(r) /\ Then(p, r, "add_login_info"))

FederatedLogin(p, r) ==
  /\ r.kind = "federated"
  /\ \/ ToLandingPage(p, r)
     \/ ~ Active(r) /\ r.sid = NoSid /\ startSessionAndRedirect(p, r)
     \/ ~ Active(r) /\ r.sid # NoSid /\ Then(p, r, "add_login_info")
     \/ ~ Active(r) /\ r.sid # NoSid /\ Show(p)

(* Callback looks the session up again; without a cookie there is none to  *)
(* dereference.                                                            *)
Callback(p, r) ==
  /\ r.kind = "callback"
  /\ \/ ToLandingPage(p, r)
     \/ ~ Active(r) /\ r.sent = NoSid /\ Show(p)
     \/ ~ Active(r) /\ r.sent # NoSid /\ Then(p, r, "callback")

DebugLogin(p, r) ==
  /\ r.kind = "debug"
  /\ ToLandingPage(p, r) \/ (~ Active(r) /\ Then(p, r, "start_session"))

(* Behind MustLogin; User and Sessions only read.                          *)
MustLogin(p, r) == ~ LoggedIn(r) /\ startSessionAndRedirect(p, r)

LogoutHandler(p, r) ==
  /\ r.kind = "logout"
  /\ MustLogin(p, r) \/ (LoggedIn(r) /\ Then(p, r, "logout"))

UserHandler(p, r) ==
  /\ r.kind = "user"
  /\ MustLogin(p, r) \/ (LoggedIn(r) /\ Show(p))

SessionLogout(p, r) ==
  /\ r.kind = "session_logout"
  /\ \/ MustLogin(p, r)
     \/ LoggedIn(r) /\ r.arg = r.sid /\ Show(p)
     \/ LoggedIn(r) /\ r.arg # r.sid /\ Then(p, r, "logout")

(* newHandler: the routes, with the session that the request brought.      *)
Route(p, r) == \/ authMiddleware(p, r) \/ LoginPage(p, r) \/ FederatedLogin(p, r)
               \/ Callback(p, r) \/ DebugLogin(p, r) \/ LogoutHandler(p, r)
               \/ UserHandler(p, r) \/ SessionLogout(p, r)

-----------------------------------------------------------------------------
(* What a browser may request: a callback that its provider sent it back   *)
(* to, the logout of any session that somebody's session page listed.      *)
Requests(b) == {r \in
  {[Free EXCEPT !.page = pg] : pg \in Page}
  \cup {[Free EXCEPT !.kind = k] : k \in {"favicon", "login", "logout", "user"}}
  \cup {[Free EXCEPT !.kind = "session_logout", !.arg = s] : s \in Listed}
  \cup IF DevMode
       THEN {[Free EXCEPT !.kind = "debug", !.user = u] : u \in Owner}
       ELSE {[Free EXCEPT !.kind = "federated"]}
            \cup {[Free EXCEPT !.kind = "callback", !.arg = s] : s \in tokens[b]} :
  r.kind \in Kinds}

(* A request arrives with the browser's cookie; lookupSessionFromRequest   *)
(* asks the session storage unless the cookie is empty.                    *)
Arrive(p) ==
  LET b == BrowserOf[p]  c == cookie[b] IN
  /\ h[p].pc = "free"
  /\ \E r \in Requests(b) :
       IF c = NoSid THEN Route(p, r) /\ UNCHANGED vars
       ELSE /\ Begin(p, "FindBySessionToken", c, NoUser, NoDirectives, "read_get")
            /\ Then(p, [r EXCEPT !.sent = c, !.late = c \in out], "lookup")
  /\ UNCHANGED <<cookie, info, tokens, was, asked, out>>

-----------------------------------------------------------------------------
(* The landing URL of a login that p starts.                               *)
RequestURI(r) == IF r.kind = "federated" THEN DefaultLandingPage
                 ELSE IF r.kind = "page" THEN r.page ELSE r.kind

CallStartLogin(p) ==
  /\ h[p].pc = "start_login"
  /\ Begin(p, "StartLogin", NoSid, NoUser, NoDirectives, "generate")
  /\ asked' = [asked EXCEPT ![BrowserOf[p]] = @ \cup {RequestURI(h[p])}]
  /\ UNCHANGED <<cookie, h, info, tokens, was, out>>

CallStartSession(p) ==
  /\ h[p].pc = "start_session"
  /\ Begin(p, "StartSession", h[p].sid, h[p].user, NoDirectives, "start_get")
  /\ was' = [was EXCEPT ![BrowserOf[p]] = @ \cup ({h[p].user} \ {NoUser})]
  /\ UNCHANGED <<cookie, h, info, tokens, asked, out>>

LogoutTarget(r) == IF r.kind = "logout" THEN r.sid ELSE r.arg

CallOther(p) ==
  LET r == h[p] IN
  /\ \/ /\ r.pc = "callback"
        /\ Begin(p, "FindBySessionToken", r.sent, NoUser, NoDirectives, "read_get")
     \/ /\ r.pc = "add_login_info"
        /\ Begin(p, "AddLoginInfo", r.sid, NoUser, NoDirectives, "generate")
     \/ /\ r.pc = "logout"
        /\ Begin(p, "Logout", LogoutTarget(r), NoUser, NoDirectives, "logout_get")
     \/ /\ r.pc = "update"
        /\ Begin(p, "UpdateSessionData", r.sid, NoUser, r.dirs, "read_get")
  /\ UNCHANGED proxyVars

-----------------------------------------------------------------------------
(* A call of the session storage returns to the handler with res.          *)
Found(p, res) ==
  LET r == h[p] IN
  IF res \in {"before", "active", "idle"}
  THEN Route(p, [r EXCEPT !.sid = r.sent, !.status = res])
  ELSE Route(p, r)

(* The provider confirms the account of the person who brings back the     *)
(* state that is in the login session.                                     *)
(* Mutant: the adapter keeps the login starts of all sessions together.    *)
ConfirmedShared(p, r) == {UserOf[b] : b \in {a \in Browser : tokens[a] # {}}}

Confirmed(p, r) == IF r.arg = r.sid THEN {UserOf[BrowserOf[p]]} ELSE {}

(* No provider was started, or it is not configured: a page.  Otherwise    *)
(* the login goes on as the user of the confirmed account, or, since the   *)
(* error of the adapter is overwritten (a state that does not match, a     *)
(* provider that refuses), as the user of the account "".  The data of a   *)
(* user's session names no provider.                                       *)
IdpCallback(p, r) ==
  \/ Show(p)
  \/ /\ r.status = "before" /\ info[r.sid].idp
     /\ \E u \in (Confirmed(p, r) \cup {BlankUser}) \ {NoUser} :
          Then(p, [r EXCEPT !.user = u], "start_session")

(* A session that this look-up does not find is a nil dereference.         *)
FoundAgain(p, res) ==
  LET r == h[p] IN
  IF res \in {"before", "active", "idle"}
  THEN IdpCallback(p, [r EXCEPT !.sid = r.sent, !.status = res])
  ELSE Show(p)

LoginStarted(p, res) ==
  LET r == h[p]  new == call[p].new IN
  \/ res # "ok" /\ Show(p)
  \/ res = "ok" /\ r.kind # "federated" /\ Respond(p, r, new, "login")
  \/ res = "ok" /\ r.kind = "federated" /\ Then(p, [r EXCEPT !.sid = new], "add_login_info")
  \/ res = "ok" /\ r.kind = "federated" /\ Show(p)

(* Mutant: the browser goes to the provider without the new cookie.        *)
LoginInfoAddedNoCookie(p, res) ==
  IF res = "ok" THEN Respond(p, h[p], Same, "idp") ELSE Show(p)

LoginInfoAdded(p, res) ==
  IF res = "ok" THEN Respond(p, h[p], call[p].new, "idp") ELSE Show(p)

(* Callback does not look at the error: it sets an empty cookie.           *)
SessionStarted(p, res) ==
  LET r == h[p] IN
  \/ res = "ok" /\ Respond(p, r, call[p].new, r.goto)
  \/ res = "error" /\ r.kind = "callback" /\ Respond(p, r, NoSid, DefaultLandingPage)
  \/ res # "ok" /\ (r.kind = "debug" \/ res = "panic") /\ Show(p)

LoggedOut(p, res) ==
  LET r == h[p] IN
  IF res = "ok"
  THEN Respond(p, r, IF r.kind = "logout" THEN NoSid ELSE Same, "logged_out")
  ELSE Show(p)

Returned(p, res) ==
  \/ h[p].pc = "lookup"         /\ Found(p, res)
  \/ h[p].pc = "callback"       /\ FoundAgain(p, res)
  \/ h[p].pc = "start_login"    /\ LoginStarted(p, res)
  \/ h[p].pc = "add_login_info" /\ LoginInfoAdded(p, res)
  \/ h[p].pc = "start_session"  /\ SessionStarted(p, res)
  \/ h[p].pc = "logout"         /\ LoggedOut(p, res)
  \/ h[p].pc = "update"         /\ Show(p)

(* StartSession hands out the landing URL of the login session it found.   *)
Landing(p) ==
  LET s == call[p].sid IN
  IF faults' = faults /\ s # NoSid /\ info[s] # NoInfo
  THEN info[s].landing ELSE DefaultLandingPage

(* The LoginInfo of a login session is written with its document.          *)
(* Mutant: AddLoginInfo replaces it.                                       *)
LoginInfoReplaced(p) ==
  LET c == call[p] IN
  info' = CASE c.pc = "create_login" ->
                 [info EXCEPT ![c.new] = [landing |-> RequestURI(h[p]), idp |-> FALSE]]
            [] c.pc = "add_create" /\ info[c.sid] # NoInfo ->
                 [info EXCEPT ![c.new] = [landing |-> DefaultLandingPage, idp |-> TRUE]]
            [] OTHER -> info

LoginInfo(p) ==
  LET c == call[p] IN
  info' = CASE c.pc = "create_login" ->
                 [info EXCEPT ![c.new] = [landing |-> RequestURI(h[p]), idp |-> FALSE]]
            [] c.pc = "add_create" /\ info[c.sid] # NoInfo ->
                 [info EXCEPT ![c.new] = [info[c.sid] EXCEPT !.idp = TRUE]]
            [] OTHER -> info

Serve(p) ==
  /\ Step(p)
  /\ LoginInfo(p)
  /\ IF call'[p].pc = "idle" THEN Returned(p, reply')
     ELSE h' = IF call[p].pc = "start_get" THEN [h EXCEPT ![p].goto = Landing(p)]
                                           ELSE h
  /\ UNCHANGED <<cookie, tokens, was, asked, out>>

-----------------------------------------------------------------------------
(* The service behind wru answers with directives for the session data, or *)
(* does not: no route, no answer, a directive that does not parse.         *)
Backend(p) ==
  /\ h[p].pc = "forward"
  /\ \/ \E dirs \in Directives : Then(p, [h[p] EXCEPT !.dirs = dirs], "update")
     \/ Show(p)
  /\ UNCHANGED <<vars, cookie, info, tokens, was, asked, out>>

Deliver(p) ==
  LET b == BrowserOf[p]  r == h[p] IN
  /\ r.pc = "respond"
  /\ cookie' = IF r.cookie = Same THEN cookie ELSE [cookie EXCEPT ![b] = r.cookie]
  /\ tokens' = IF r.goto = "idp" THEN [tokens EXCEPT ![b] = @ \cup {r.cookie}]
                                 ELSE tokens
  /\ out' = IF r.goto = "logged_out" THEN out \cup {LogoutTarget(r)} ELSE out
  /\ h' = [h EXCEPT ![p] = Free]
  /\ UNCHANGED <<vars, info, was, asked>>

(* The cookie expires, or is cleared.                                      *)
Forget(b) == /\ cookie[b] # NoSid
             /\ cookie' = [cookie EXCEPT ![b] = NoSid]
             /\ UNCHANGED <<vars, h, info, tokens, was, asked, out>>

(* The request dies inside a storage call.                                 *)
Dies(p) == /\ Crash(p)
           /\ h' = [h EXCEPT ![p] = Free]
           /\ UNCHANGED <<cookie, info, tokens, was, asked, out>>

(* The browser gives up, or the response is lost.                          *)
Lost(p) == /\ h[p].pc \in {"forward", "respond"}
           /\ h' = [h EXCEPT ![p] = Free]
           /\ UNCHANGED <<vars, cookie, info, tokens, was, asked, out>>

ProxyTick == Tick /\ UNCHANGED proxyVars

ProxyNext ==
  \/ ProxyTick
  \/ \E b \in Browser : Forget(b)
  \/ \E p \in Proc : \/ Arrive(p) \/ CallStartLogin(p) \/ CallStartSession(p)
                     \/ CallOther(p) \/ Serve(p) \/ Backend(p) \/ Deliver(p)
                     \/ Dies(p) \/ Lost(p)

ProxySpec == ProxyInit /\ [][ProxyNext]_allVars

-----------------------------------------------------------------------------
(* The users that b's person may be.  In the development mode they pick    *)
(* one; a failed callback makes them the user of the account "".           *)
Self(b) == IF DevMode THEN User ELSE {UserOf[b], BlankUser} \ {NoUser}

(* What reaches the service comes from the person it is said to come from: *)
(* as a user whom a login of that very browser has named, and whom its     *)
(* person may be, whatever other browsers and their logins, stale          *)
(* callbacks and id exchanges are under way.                               *)
ForwardedAsSelf ==
  \A p \in Proc : h[p].pc = "forward" =>
    h[p].user \in was[BrowserOf[p]] \cap Self(BrowserOf[p])

(* A request that a browser sends after someone was told that its session  *)
(* is logged out does not reach the service with that session.             *)
LoggedOutIsOut ==
  faults = 0 => \A p \in Proc : h[p].pc = "forward" => ~ h[p].late

(* After a login the browser lands on a page that it asked for when it had *)
(* no session.                                                             *)
LandsWhereAsked ==
  \A p \in Proc : h[p].pc = "respond" /\ h[p].cookie \in known /\ h[p].sid # NoSid
                  /\ h[p].kind \in {"callback", "debug"} /\ h[p].status = "before"
                  /\ faults = 0
                  => h[p].goto \in asked[BrowserOf[p]]

(* A browser with an active session loses that cookie only by a logout, or *)
(* by a request whose lookup did not find that session active.             *)
InUse(s) == /\ s # NoSid /\ single[s] # NoDoc /\ Owned(s)
            /\ ~ Expired(now, single[s], AbsoluteTimeout)
            /\ ~ Idling(now, single[s])

LoginLostOnlyByOverlap ==
  [][\A b \in Browser :
       InUse(cookie[b]) /\ cookie'[b] # cookie[b] /\ h' # h /\ faults = 0 =>
         \E p \in Proc : /\ BrowserOf[p] = b /\ h'[p] # h[p]
                         /\ \/ h[p].sent # cookie[b]
                            \/ h[p].kind = "logout"
                            \/ h[p].status = "idle"]_allVars

(* The handlers use the session storage as SessionStorage says that it is  *)
(* used: with ids that it gave out, one call at a time.                    *)
UsesStorage == Spec
=============================================================================
