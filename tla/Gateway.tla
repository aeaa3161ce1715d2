------------------------------- MODULE Gateway -------------------------------
(***************************************************************************)
(* A wru process and the logins through ID providers (cmd/wru/main.go,     *)
(* config.go, middleware.go, handler.go, adapter_*.go): what the process   *)
(* sets up before it serves, how it stops, and what becomes of a login     *)
(* that is under way at a provider while the user table is read again, the *)
(* process stops and another one, with another environment, takes over.    *)
(*                                                                         *)
(* The session storage answers each call at once here; its own steps are   *)
(* in SessionStorage, and the requests that need no provider in WruProxy.  *)
(* The requests are those of one browser.  The state of a login start      *)
(* (oauth_token for Twitter) is named by the id that the start handed out. *)
(***************************************************************************)
EXTENDS Naturals, FiniteSets

CONSTANTS
  Environments,           \* what wru may be started with
  Tables,                 \* what the user table may hold
  UserID, Scopes,         \* users, and what they are allowed to do
  Account, Blank,         \* accounts at the providers; the account ""
  NoUser, NoInfo,         \* no such user; no login information
  Proc,                   \* the requests under way
  MaxSid, MaxRuns         \* bounds on the session ids, and on the processes

Provider    == {"twitter", "github", "oidc"}
Environment == [valid   : BOOLEAN,            \* every variable parses
                DevMode : BOOLEAN,
                idps    : SUBSET Provider,    \* those with all credentials
                storage : {"memory", "docstore"},
                cert    : {"none", "good", "bad"}]
User  == [UserID : UserID, Scopes : Scopes]
Table == [Provider \X (Account \cup {Blank}) -> User \cup {NoUser}]

ASSUME EnvironmentsAssumption == Environments \subseteq Environment /\ Environments # {}
ASSUME TablesAssumption == Tables \subseteq Table /\ Tables # {}
ASSUME NoneAssumption == NoUser \notin User \cup Scopes /\ Blank \notin Account
ASSUME BoundsAssumption == MaxSid \in Nat /\ MaxRuns \in Nat

Sid == 1..MaxSid

VARIABLES
  env, phase,   \* the environment, and how far main has come
  exit,         \* why the last process ended
  interrupted,  \* ctx is done
  clients,      \* the providers' clients (package variables) that are set
  runs,         \* processes started so far
  register,     \* fromIDPUser of the IdentityRegister
  login,        \* the LoginInfo of the login sessions
  session,      \* the sessions: the User that each was started for
  profile,      \* the scopes in the document of a user
  drawn,        \* the session ids drawn so far
  starts,       \* starts[n]: the provider the browser was sent to by start n
  cookie,       \* the session id in the browser's cookie, 0 for none
  h,            \* the requests
  panics        \* history: the providers whose missing client a handler used

process == <<env, phase, exit, interrupted, clients, runs>>
docs    == <<login, session, profile, drawn>>
browser == <<starts, cookie>>
vars    == <<process, docs, browser, register, h, panics>>

-----------------------------------------------------------------------------
Phase == {"off", "config", "storage", "users", "cert", "serving", "stopping"}
Exit  == {"none", "config", "no_idp", "storage", "users", "tls", "server", "done",
          "deadline", "killed"}

(* last is not in the code: the start that wrote the document.             *)
LoginInfo == [idp : Provider, state : 0..MaxSid, token : 0..MaxSid, last : Sid]

Handler == [pc : {"free", "add", "exchange", "session"}, idp : Provider,
            sid : 0..MaxSid, info : LoginInfo \cup {NoInfo}, n : 0..MaxSid,
            account : Account \cup {Blank}, user : User \cup {NoUser},
            found : BOOLEAN]

Free == [pc |-> "free", idp |-> "twitter", sid |-> 0, info |-> NoInfo, n |-> 0,
         account |-> Blank, user |-> NoUser, found |-> FALSE]

GatewayTypeOK ==
  /\ env \in Environment
  /\ phase \in Phase
  /\ exit \in Exit
  /\ interrupted \in BOOLEAN
  /\ clients \subseteq Provider
  /\ runs \in 0..MaxRuns
  /\ register \in Table
  /\ login \in [Sid -> LoginInfo \cup {NoInfo}]
  /\ session \in [Sid -> User \cup {NoUser}]
  /\ profile \in [UserID -> Scopes \cup {NoUser}]
  /\ drawn \in 0..MaxSid
  /\ starts \in [Sid -> Provider \cup {"none"}]
  /\ cookie \in 0..MaxSid
  /\ h \in [Proc -> Handler]
  /\ panics \subseteq Provider

Init ==
  /\ env = (CHOOSE e \in Environments : TRUE) /\ phase = "off" /\ exit = "none"
  /\ interrupted = FALSE /\ clients = {} /\ runs = 0
  /\ register = [x \in Provider \X (Account \cup {Blank}) |-> NoUser]
  /\ login   = [s \in Sid |-> NoInfo]
  /\ session = [s \in Sid |-> NoUser]
  /\ profile = [u \in UserID |-> NoUser]
  /\ drawn = 0 /\ cookie = 0
  /\ starts = [s \in Sid |-> "none"]
  /\ h = [p \in Proc |-> Free]
  /\ panics = {}

-----------------------------------------------------------------------------
(* The process ends, with every request under way.  The memory storage     *)
(* ends with it.                                                           *)
Ends(why) ==
  /\ phase' = "off" /\ exit' = why /\ interrupted' = FALSE /\ clients' = {}
  /\ h' = [p \in Proc |-> Free]
  /\ IF env.storage = "memory"
     THEN /\ login'   = [s \in Sid |-> NoInfo]
          /\ session' = [s \in Sid |-> NoUser]
          /\ profile' = [u \in UserID |-> NoUser]
     ELSE UNCHANGED <<login, session, profile>>
  /\ UNCHANGED <<env, runs, register, drawn, browser, panics>>

Goes(to) == /\ phase' = to
            /\ UNCHANGED <<env, exit, interrupted, runs, docs, browser, h, panics>>

(* The documents stay where WRU_SESSION_STORAGE says.                      *)
Launch == \E e \in Environments :
  /\ phase = "off" /\ runs < MaxRuns
  /\ runs = 0 \/ e.storage = env.storage
  /\ env' = e /\ runs' = runs + 1 /\ phase' = "config" /\ exit' = "none"
  /\ UNCHANGED <<interrupted, clients, register, docs, browser, h, panics>>

(* initOpenIDConnectConfig has no part in it.                              *)
(* Mutant: it has, whether its client could be set up or not.              *)
availableIDPsAll(e) == e.idps

availableIDPs(e) == e.idps \ {"oidc"}

(* The client for OpenID Connect is set unless its discovery fails, or is  *)
(* interrupted; the error is not looked at.                                *)
Clients(e) == {e.idps \ {"oidc"}} \cup IF interrupted THEN {} ELSE {e.idps}

(* NewConfigFromEnv and Init.                                              *)
NewConfig ==
  /\ phase = "config"
  /\ \/ ~ env.valid /\ Ends("config")
     \/ /\ env.valid /\ env.DevMode
        /\ Goes("storage") /\ UNCHANGED <<clients, register>>
     \/ /\ env.valid /\ ~ env.DevMode /\ availableIDPs(env) = {}
        /\ Ends("no_idp")
     \/ /\ env.valid /\ ~ env.DevMode /\ availableIDPs(env) # {}
        /\ clients' \in Clients(env)
        /\ Goes("storage") /\ UNCHANGED register

NewSessionStorage ==
  /\ phase = "storage"
  /\ \/ env.storage = "docstore" /\ Ends("storage")
     \/ Goes("users") /\ UNCHANGED <<clients, register>>

NewIdentityRegister ==
  /\ phase = "users"
  /\ \/ Ends("users")
     \/ Goes("cert") /\ register' \in Tables /\ UNCHANGED clients

(* A certificate that does not parse ends main with status 0.              *)
Certificate ==
  /\ phase = "cert"
  /\ \/ env.cert = "bad" /\ Ends("tls")
     \/ env.cert # "bad" /\ Goes("serving") /\ UNCHANGED <<clients, register>>

Startup == NewConfig \/ NewSessionStorage \/ NewIdentityRegister \/ Certificate

Interrupt == /\ phase # "off" /\ ~ interrupted /\ interrupted' = TRUE
             /\ UNCHANGED <<env, phase, exit, clients, runs, docs, browser, register,
                            h, panics>>

Idle == \A p \in Proc : h[p].pc = "free"

(* Shutdown takes no more requests, and waits for those under way.         *)
Shutdown == /\ phase = "serving" /\ interrupted
            /\ Goes("stopping") /\ UNCHANGED <<clients, register>>

Drained == phase = "stopping" /\ Idle /\ Ends("done")

(* After ten seconds it gives up.  Mutant: its context has no deadline.    *)
DeadlineNever == phase = "stopping" /\ FALSE /\ Ends("deadline")

Deadline == phase = "stopping" /\ ~ Idle /\ Ends("deadline")

ServerError == phase = "serving" /\ Ends("server")

Killed == phase # "off" /\ Ends("killed")

(* The goroutine of the IdentityRegister.                                  *)
Reload == /\ phase \in {"serving", "stopping"}
          /\ register' \in Tables
          /\ UNCHANGED <<process, docs, browser, h, panics>>

-----------------------------------------------------------------------------
(* What a request without effect does (no session, not configured, an      *)
(* active session) is left out; a request arrives with the cookie, and its *)
(* lookup finds a login session or none.                                   *)
Before(s) == s \in Sid /\ login[s] # NoInfo
ActiveSession(s) == s \in Sid /\ session[s] # NoUser

Arrives(p, r) ==
  /\ phase = "serving" /\ ~ env.DevMode
  /\ h[p].pc = "free" /\ ~ ActiveSession(cookie)
  /\ h' = [h EXCEPT ![p] = r]
  /\ UNCHANGED <<process, docs, browser, register, panics>>

(* Mutant: whether the provider is configured is not looked at.            *)
FederatedLoginAny(p) == \E idp \in Provider :
  Arrives(p, [Free EXCEPT !.pc = "add", !.idp = idp,
                !.sid = IF Before(cookie) THEN cookie ELSE 0,
                !.info = IF Before(cookie) THEN login[cookie] ELSE NoInfo])

FederatedLogin(p) == \E idp \in env.idps :
  Arrives(p, [Free EXCEPT !.pc = "add", !.idp = idp,
                !.sid = IF Before(cookie) THEN cookie ELSE 0,
                !.info = IF Before(cookie) THEN login[cookie] ELSE NoInfo])

(* The provider sends the browser back, from whichever start it was sent   *)
(* with.  The callback of OpenID Connect asks for GitHub's credentials.    *)
Available(idp) == (IF idp = "oidc" THEN "github" ELSE idp) \in env.idps

Callback(p) == \E n \in Sid :
  /\ starts[n] # "none"
  /\ Before(cookie) /\ Available(login[cookie].idp)
  /\ Arrives(p, [Free EXCEPT !.pc = "exchange", !.sid = cookie,
                   !.idp = login[cookie].idp, !.info = login[cookie], !.n = n])

-----------------------------------------------------------------------------
Done(p)  == h' = [h EXCEPT ![p] = Free]
Fails(p) == Done(p) /\ UNCHANGED <<process, docs, browser, register, panics>>

(* A nil dereference, which net/http recovers.                             *)
Panics(p) == /\ Done(p) /\ panics' = panics \cup {h[p].idp}
             /\ UNCHANGED <<process, docs, browser, register>>

(* The response; one that is lost is as good as a cookie that is cleared.  *)
Answers(p, c) == Done(p) /\ cookie' = c

(* AddLoginInfo adds what the adapter's login start returned to what is    *)
(* there.  Mutants: the provider is left out; what is there is kept.       *)
WithLoginStartNoIdp(info, idp, n) == [state |-> n, token |-> n, last |-> n]

WithLoginStartKept(info, idp, n) ==
  IF info # NoInfo THEN [info EXCEPT !.last = n]
  ELSE [idp   |-> idp,
        state |-> IF idp = "twitter" THEN 0 ELSE n,
        token |-> IF idp = "twitter" THEN n ELSE 0,
        last  |-> n]

WithLoginStart(info, idp, n) ==
  LET old == IF info = NoInfo THEN [state |-> 0, token |-> 0] ELSE info
  IN [idp   |-> idp,
      state |-> IF idp = "twitter" THEN old.state ELSE n,
      token |-> IF idp = "twitter" THEN n ELSE old.token,
      last  |-> n]

(* twitterLoginStart, gitHubLoginStart or oidcLoginStart, and AddLoginInfo. *)
LoginStart(p) ==
  LET r == h[p]  n == drawn + 1 IN
  /\ r.pc = "add"
  /\ \/ r.idp \notin clients /\ Panics(p)
     \/ r.idp \in clients /\ Fails(p)
     \/ /\ r.idp \in clients /\ n \in Sid
        /\ drawn' = n
        /\ login' = [s \in Sid |-> IF s = n THEN WithLoginStart(r.info, r.idp, n)
                                   ELSE IF s = r.sid THEN NoInfo ELSE login[s]]
        /\ Answers(p, n)
        /\ starts' = [starts EXCEPT ![n] = r.idp]
        /\ UNCHANGED <<process, session, profile, register, panics>>

-----------------------------------------------------------------------------
(* The callback brings the state, or for Twitter the oauth_token.          *)
(* Mutant: it is not compared.                                             *)
MatchesAny(r) == TRUE

Matches(r) == IF r.idp = "twitter"
              THEN r.info.token = r.n /\ starts[r.n] = "twitter"
              ELSE r.info.state = r.n /\ starts[r.n] # "twitter"

FindUserOf(p, account) ==
  LET r == h[p]  u == register[<<r.idp, account>>] IN
  IF u = NoUser THEN Done(p)
  ELSE h' = [h EXCEPT ![p] = [r EXCEPT !.pc = "session", !.account = account,
                                !.user = u, !.found = Before(r.sid)]]

(* twitterCallback, githubCallback or oidcCallback: the provider confirms  *)
(* an account to its own client only.  The adapter's error is overwritten  *)
(* by FindUserOf's, which then looks for the account "".                   *)
Exchange(p) ==
  LET r == h[p] IN
  /\ r.pc = "exchange"
  /\ \/ Matches(r) /\ r.idp \notin clients /\ Panics(p)
     \/ /\ Matches(r) /\ r.idp \in clients /\ starts[r.n] = r.idp
        /\ \E a \in Account : FindUserOf(p, a)
        /\ UNCHANGED <<process, docs, browser, register, panics>>
     \/ /\ Matches(r) => r.idp \in clients
        /\ FindUserOf(p, Blank)
        /\ UNCHANGED <<process, docs, browser, register, panics>>

(* StartSession.  Its error is not looked at: the cookie is set, empty.    *)
StartSession(p) ==
  LET r == h[p]  s == drawn + 1  id == r.user.UserID IN
  /\ r.pc = "session"
  /\ \/ /\ r.found /\ s \in Sid
        /\ drawn' = s
        /\ login' = [login EXCEPT ![r.sid] = NoInfo]
        /\ session' = [session EXCEPT ![s] = r.user]
        /\ profile' = [profile EXCEPT ![id] = IF @ = NoUser THEN r.user.Scopes ELSE @]
        /\ Answers(p, s)
     \/ /\ login' \in {login, [login EXCEPT ![r.sid] = NoInfo]}
        /\ Answers(p, 0)
        /\ UNCHANGED <<drawn, session, profile>>
  /\ UNCHANGED <<process, starts, register, panics>>

(* The cookie expires, or is cleared.                                      *)
Forget == /\ cookie # 0 /\ cookie' = 0
          /\ UNCHANGED <<process, docs, starts, register, h, panics>>

-----------------------------------------------------------------------------
Next == \/ Launch \/ Startup \/ Interrupt \/ Shutdown \/ Drained \/ Deadline
        \/ ServerError \/ Killed \/ Reload \/ Forget
        \/ \E p \in Proc : \/ FederatedLogin(p) \/ LoginStart(p) \/ Callback(p)
                           \/ Exchange(p) \/ StartSession(p)

Spec == Init /\ [][Next]_vars

(* What main calls before it serves is given ctx, and returns when it is   *)
(* done; the timer of Shutdown runs out.  No provider has to answer.       *)
FairSpec == /\ Spec
            /\ WF_vars(interrupted /\ Startup)
            /\ WF_vars(Shutdown) /\ WF_vars(Drained \/ Deadline)

-----------------------------------------------------------------------------
(* A user logs in by the account that the provider confirmed for the last  *)
(* login start of that login session, however many starts at how many      *)
(* providers came before and whichever callbacks come late; or the         *)
(* provider confirmed none, and the user's account is blank in the table.  *)
ConfirmedByLastStart ==
  \A p \in Proc : h[p].pc = "session" =>
    LET r == h[p] IN
    /\ r.user \in {t[<<r.info.idp, r.account>>] : t \in Tables}
    /\ r.account # Blank => r.n = r.info.last /\ starts[r.n] = r.info.idp

(* No handler uses a client that its process has not set up, also for a    *)
(* login that another process started under another environment; for       *)
(* OpenID Connect, one does.                                               *)
NoNilClient == panics \subseteq {"oidc"}

(* A process that serves has a provider through which users can log in.    *)
SomeLoginWorks == phase = "serving" /\ ~ env.DevMode => clients # {}

(* A process that is interrupted ends, while it starts up or serves, and   *)
(* whether or not the providers answer the requests under way.             *)
InterruptEnds == interrupted ~> phase = "off"

-----------------------------------------------------------------------------
(* "User information is in S3 (and reread it every hour)" (README.md:86):  *)
(* when a user has logged in, the service is told the scopes that the      *)
(* table had at that login.                                                *)
ToldAsInTable ==
  [][\A s \in Sid : session'[s] \notin {session[s], NoUser} =>
       profile'[session'[s].UserID] = session'[s].Scopes]_vars
=============================================================================
