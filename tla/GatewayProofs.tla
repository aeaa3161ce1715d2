---------------------------- MODULE GatewayProofs ----------------------------
(***************************************************************************)
(* What Gateway keeps for any environments, tables, providers' answers,    *)
(* numbers of processes, of login starts and of requests under way.        *)
(***************************************************************************)
EXTENDS Gateway, TLAPS

Up     == {"serving", "stopping"}
SetUp  == {"storage", "users", "cert"} \cup Up

(* What main has set up before it goes on; requests need a process.        *)
ProcessInv ==
  /\ phase \in {"cert"} \cup Up => register \in Tables
  /\ phase \in SetUp /\ ~ env.DevMode => /\ env.idps \ {"oidc"} # {}
                                         /\ env.idps \ {"oidc"} \subseteq clients
  /\ phase \notin Up => Idle

(* What the login information says of the start that wrote it last.        *)
OfLastStart(info) == IF info.idp = "twitter" THEN info.token = info.last
                                             ELSE info.state = info.last

StartsInv ==
  /\ \A n \in Sid : n > drawn => starts[n] = "none"
  /\ \A s \in Sid : login[s] # NoInfo => OfLastStart(login[s])

Confirmed(r) ==
  /\ r.user \in {t[<<r.info.idp, r.account>>] : t \in Tables}
  /\ r.account # Blank => r.n = r.info.last /\ starts[r.n] = r.info.idp

(* A request is for a provider that the environment configures, or for     *)
(* OpenID Connect; a callback keeps the login information that it found.   *)
RequestInv(r) ==
  /\ r.pc # "free" => ~ env.DevMode /\ (r.idp # "oidc" => r.idp \in env.idps)
  /\ r.pc \in {"exchange", "session"} =>
       r.info \in LoginInfo /\ OfLastStart(r.info) /\ r.idp = r.info.idp
  /\ r.pc = "exchange" => r.n \in Sid
  /\ r.pc = "session"  => r.n \in Sid /\ r.user \in User /\ Confirmed(r)

GInv == /\ GatewayTypeOK /\ ProcessInv /\ StartsInv
        /\ \A p \in Proc : RequestInv(h[p])
        /\ NoNilClient

-----------------------------------------------------------------------------
(* The empty handler and the blank register have their types.              *)
LEMMA FreeType == Free \in Handler /\ RequestInv(Free)
  BY BoundsAssumption DEF Free, Handler, RequestInv, Provider

(* The session ids are 1..MaxSid; 0 stands for none.                       *)
LEMMA SidType == Sid \subseteq Nat /\ 0..MaxSid = Sid \cup {0} /\ 0 \notin Sid
  BY BoundsAssumption DEF Sid

(* Nothing is set up before the first process.                             *)
LEMMA InitGInv == Init => GInv
<1> SUFFICES ASSUME Init PROVE GInv
  OBVIOUS
<1>1. GatewayTypeOK
  <2>1. env \in Environment
    BY EnvironmentsAssumption DEF Init
  <2>2. register \in Table
    BY DEF Init, Table
  <2>3. h \in [Proc -> Handler]
    BY FreeType DEF Init
  <2>4. runs \in 0..MaxRuns /\ drawn \in 0..MaxSid /\ cookie \in 0..MaxSid
    BY BoundsAssumption DEF Init
  <2>5. phase \in Phase /\ exit \in Exit /\ interrupted \in BOOLEAN
        /\ clients \subseteq Provider /\ panics \subseteq Provider
    BY DEF Init, Phase, Exit
  <2>6. /\ login \in [Sid -> LoginInfo \cup {NoInfo}]
        /\ session \in [Sid -> User \cup {NoUser}]
        /\ profile \in [UserID -> Scopes \cup {NoUser}]
        /\ starts \in [Sid -> Provider \cup {"none"}]
    BY DEF Init
  <2> QED BY <2>1, <2>2, <2>3, <2>4, <2>5, <2>6 DEF GatewayTypeOK
<1>2. ProcessInv
  BY DEF Init, ProcessInv, SetUp, Up, Idle, Free
<1>3. StartsInv
  BY DEF Init, StartsInv
<1>4. \A p \in Proc : RequestInv(h[p])
  BY FreeType DEF Init
<1> QED BY <1>1, <1>2, <1>3, <1>4 DEF GInv, NoNilClient, Init

-----------------------------------------------------------------------------
(* The end of a process ends its requests, and leaves the documents or     *)
(* empties them.                                                           *)
LEMMA EndsKeeps ==
  ASSUME GInv, NEW why \in Exit, Ends(why)
  PROVE  GInv'
<1>1. h' = [p \in Proc |-> Free] /\ phase' = "off" /\ exit' = why
      /\ interrupted' = FALSE /\ clients' = {}
      /\ UNCHANGED <<env, runs, register, drawn, starts, cookie, panics>>
  BY DEF Ends, browser
<1>2. /\ login'   \in {login, [s \in Sid |-> NoInfo]}
      /\ session' \in {session, [s \in Sid |-> NoUser]}
      /\ profile' \in {profile, [u \in UserID |-> NoUser]}
  BY DEF Ends
<1>3. GatewayTypeOK'
  <2>1. h' \in [Proc -> Handler]
    BY <1>1, FreeType
  <2> QED BY <1>1, <1>2, <2>1 DEF GInv, GatewayTypeOK, Phase
<1>4. ProcessInv'
  BY <1>1 DEF ProcessInv, SetUp, Up, Idle, Free
<1>5. StartsInv'
  BY <1>1, <1>2 DEF GInv, StartsInv
<1>6. \A p \in Proc : RequestInv(h[p])'
  BY <1>1, FreeType DEF RequestInv, Free
<1> QED BY <1>1, <1>3, <1>4, <1>5, <1>6 DEF GInv, NoNilClient

(* A request keeps what it has as long as the process goes on: neither the *)
(* environment nor a start that there was changes.                         *)
LEMMA RequestKept ==
  ASSUME NEW r, RequestInv(r), UNCHANGED env,
         \A n \in Sid : starts[n] # "none" => starts'[n] = starts[n]
  PROVE  RequestInv(r)'
<1>1. ASSUME r.pc = "session" PROVE Confirmed(r)'
  <2>1. r.n \in Sid /\ Confirmed(r) /\ r.info.idp \in Provider
    BY <1>1 DEF RequestInv, LoginInfo
  <2>2. r.account # Blank => starts[r.n] # "none"
    BY <2>1 DEF Confirmed, Provider
  <2> QED BY <2>1, <2>2 DEF Confirmed
<1> QED BY <1>1 DEF RequestInv

(* main goes on: what it has set up is as it should be before it serves.   *)
LEMMA GoesKeeps ==
  ASSUME GInv, NEW to \in Phase, Goes(to), clients' \subseteq Provider,
         register' \in Table, ProcessInv'
  PROVE  GInv'
<1>1. phase' = to
      /\ UNCHANGED <<env, exit, interrupted, runs, login, session, profile, drawn,
                     starts, cookie, h, panics>>
  BY DEF Goes, docs, browser
<1>2. GatewayTypeOK'
  BY <1>1 DEF GInv, GatewayTypeOK
<1>3. StartsInv'
  BY <1>1 DEF GInv, StartsInv
<1>4. \A p \in Proc : RequestInv(h[p])'
  BY <1>1, RequestKept DEF GInv
<1> QED BY <1>1, <1>2, <1>3, <1>4 DEF GInv, NoNilClient

(* Start-up: the process serves with a register, and with the clients of   *)
(* the providers that its environment configures.                          *)
LEMMA StartupKeeps ==
  ASSUME GInv, Startup
  PROVE  GInv'
<1>1. CASE NewConfig
  <2>1. CASE Ends("config") \/ Ends("no_idp")
    BY <2>1, EndsKeeps DEF Exit
  <2>2. CASE env.DevMode /\ Goes("storage") /\ UNCHANGED <<clients, register>>
    <3>1. ProcessInv'
      BY <2>2, <1>1 DEF NewConfig, Goes, GInv, ProcessInv, SetUp, Up, Idle
    <3> QED BY <2>2, <3>1, GoesKeeps DEF GInv, GatewayTypeOK, Phase
  <2>3. CASE /\ ~ env.DevMode /\ availableIDPs(env) # {}
             /\ clients' \in Clients(env)
             /\ Goes("storage") /\ UNCHANGED register
    <3>1. env.idps \subseteq Provider
      BY DEF GInv, GatewayTypeOK, Environment
    <3>2. env.idps \ {"oidc"} \subseteq clients' /\ clients' \subseteq Provider
      BY <2>3, <3>1 DEF Clients
    <3>3. ProcessInv'
      BY <2>3, <1>1, <3>2
         DEF NewConfig, Goes, GInv, ProcessInv, SetUp, Up, Idle, availableIDPs
    <3> QED BY <2>3, <3>2, <3>3, GoesKeeps DEF GInv, GatewayTypeOK, Phase
  <2> QED BY <1>1, <2>1, <2>2, <2>3 DEF NewConfig
<1>2. CASE NewSessionStorage
  <2>1. CASE Ends("storage")
    BY <2>1, EndsKeeps DEF Exit
  <2>2. CASE Goes("users") /\ UNCHANGED <<clients, register>>
    <3>1. ProcessInv'
      BY <2>2, <1>2 DEF NewSessionStorage, Goes, GInv, ProcessInv, SetUp, Up, Idle
    <3> QED BY <2>2, <3>1, GoesKeeps DEF GInv, GatewayTypeOK, Phase
  <2> QED BY <1>2, <2>1, <2>2 DEF NewSessionStorage
<1>3. CASE NewIdentityRegister
  <2>1. CASE Ends("users")
    BY <2>1, EndsKeeps DEF Exit
  <2>2. CASE Goes("cert") /\ register' \in Tables /\ UNCHANGED clients
    <3>1. ProcessInv'
      BY <2>2, <1>3 DEF NewIdentityRegister, Goes, GInv, ProcessInv, SetUp, Up, Idle
    <3> QED BY <2>2, <3>1, GoesKeeps, TablesAssumption DEF GInv, GatewayTypeOK, Phase
  <2> QED BY <1>3, <2>1, <2>2 DEF NewIdentityRegister
<1>4. CASE Certificate
  <2>1. CASE Ends("tls")
    BY <2>1, EndsKeeps DEF Exit
  <2>2. CASE Goes("serving") /\ UNCHANGED <<clients, register>>
    <3>1. ProcessInv'
      BY <2>2, <1>4 DEF Certificate, Goes, GInv, ProcessInv, SetUp, Up, Idle
    <3> QED BY <2>2, <3>1, GoesKeeps DEF GInv, GatewayTypeOK, Phase
  <2> QED BY <1>4, <2>1, <2>2 DEF Certificate
<1> QED BY <1>1, <1>2, <1>3, <1>4 DEF Startup

(* The other steps of the process.                                         *)
LEMMA ProcessKeeps ==
  ASSUME GInv,
         \/ Launch \/ Interrupt \/ Shutdown \/ Drained \/ Deadline
         \/ ServerError \/ Killed \/ Reload
  PROVE  GInv'
<1>1. CASE Launch
  <2>1. PICK e \in Environments : env' = e /\ runs' = runs + 1 /\ runs < MaxRuns
    BY <1>1 DEF Launch
  <2>2. /\ phase = "off" /\ phase' = "config" /\ exit' = "none"
        /\ UNCHANGED <<interrupted, clients, register, login, session, profile,
                       drawn, starts, cookie, h, panics>>
    BY <1>1 DEF Launch, docs, browser
  <2>3. env' \in Environment /\ runs' \in 0..MaxRuns
    BY <2>1, EnvironmentsAssumption, BoundsAssumption DEF GInv, GatewayTypeOK
  <2>4. GatewayTypeOK'
    BY <2>2, <2>3 DEF GInv, GatewayTypeOK, Phase, Exit
  <2>5. ProcessInv' /\ Idle
    BY <2>2 DEF GInv, ProcessInv, SetUp, Up, Idle
  <2>6. StartsInv'
    BY <2>2 DEF GInv, StartsInv
  <2>7. \A p \in Proc : RequestInv(h[p])'
    BY <2>2, <2>5 DEF Idle, RequestInv
  <2> QED BY <2>2, <2>4, <2>5, <2>6, <2>7 DEF GInv, NoNilClient
<1>2. CASE Interrupt
  <2>1. /\ interrupted' = TRUE
        /\ UNCHANGED <<env, phase, exit, clients, runs, register, login, session,
                       profile, drawn, starts, cookie, h, panics>>
    BY <1>2 DEF Interrupt, docs, browser
  <2>2. GatewayTypeOK'
    BY <2>1 DEF GInv, GatewayTypeOK
  <2>3. ProcessInv' /\ StartsInv'
    BY <2>1 DEF GInv, ProcessInv, StartsInv, Idle
  <2>4. \A p \in Proc : RequestInv(h[p])'
    BY <2>1, RequestKept DEF GInv
  <2> QED BY <2>1, <2>2, <2>3, <2>4 DEF GInv, NoNilClient
<1>3. CASE Shutdown
  <2>1. ProcessInv'
    BY <1>3 DEF Shutdown, Goes, GInv, ProcessInv, SetUp, Up, Idle
  <2> QED BY <1>3, <2>1, GoesKeeps DEF Shutdown, GInv, GatewayTypeOK, Phase
<1>4. CASE Drained \/ Deadline \/ ServerError \/ Killed
  <2>1. \E why \in Exit : Ends(why)
    BY <1>4 DEF Drained, Deadline, ServerError, Killed, Exit
  <2> QED BY <2>1, EndsKeeps
<1>5. CASE Reload
  <2>1. /\ register' \in Tables
        /\ UNCHANGED <<env, phase, exit, interrupted, clients, runs, login, session,
                       profile, drawn, starts, cookie, h, panics>>
    BY <1>5 DEF Reload, process, docs, browser
  <2>2. GatewayTypeOK'
    BY <2>1, TablesAssumption DEF GInv, GatewayTypeOK
  <2>3. ProcessInv' /\ StartsInv'
    BY <2>1 DEF GInv, ProcessInv, StartsInv, Idle
  <2>4. \A p \in Proc : RequestInv(h[p])'
    BY <2>1, RequestKept DEF GInv
  <2> QED BY <2>1, <2>2, <2>3, <2>4 DEF GInv, NoNilClient
<1> QED BY <1>1, <1>2, <1>3, <1>4, <1>5

-----------------------------------------------------------------------------
DocsType == /\ login \in [Sid -> LoginInfo \cup {NoInfo}]
            /\ session \in [Sid -> User \cup {NoUser}]
            /\ profile \in [UserID -> Scopes \cup {NoUser}]
            /\ drawn \in 0..MaxSid
            /\ starts \in [Sid -> Provider \cup {"none"}]
            /\ cookie \in 0..MaxSid

(* A step of request p, after which it is where r says.                    *)
LEMMA RequestStep ==
  ASSUME GInv, NEW p \in Proc, NEW r \in Handler,
         h' = [h EXCEPT ![p] = r], RequestInv(r)',
         UNCHANGED <<process, register>>, phase \in Up,
         DocsType', StartsInv', NoNilClient',
         \A n \in Sid : starts[n] # "none" => starts'[n] = starts[n]
  PROVE  GInv'
<1>1. UNCHANGED <<env, phase, exit, interrupted, clients, runs>>
  BY DEF process
<1>2. h \in [Proc -> Handler]
  BY DEF GInv, GatewayTypeOK
<1>3. h' \in [Proc -> Handler]
  BY <1>2
<1>4. panics' \subseteq Provider
  BY DEF NoNilClient, Provider
<1>5. GatewayTypeOK'
  BY <1>1, <1>3, <1>4 DEF GInv, GatewayTypeOK, DocsType
<1>6. ProcessInv'
  BY <1>1 DEF GInv, ProcessInv, SetUp, Up
<1>7. ASSUME NEW q \in Proc PROVE RequestInv(h[q])'
  <2>1. CASE q = p
    BY <2>1, <1>2
  <2>2. CASE q # p
    <3>1. PICK g : g = h[q]
      OBVIOUS
    <3>2. h'[q] = g /\ RequestInv(g)
      BY <2>2, <1>2, <3>1 DEF GInv
    <3>3. RequestInv(g)'
      BY <1>1, <3>2, RequestKept
    <3> QED BY <3>2, <3>3
  <2> QED BY <2>1, <2>2
<1> QED BY <1>5, <1>6, <1>7 DEF GInv

(* A request that ends without a document.                                 *)
LEMMA RequestEnds ==
  ASSUME GInv, NEW p \in Proc, h[p].pc # "free", Done(p),
         UNCHANGED <<process, docs, browser, register>>, NoNilClient'
  PROVE  GInv'
<1>1. phase \in Up
  BY DEF GInv, ProcessInv, Idle
<1>2. DocsType' /\ StartsInv' /\ UNCHANGED starts
  BY DEF GInv, GatewayTypeOK, DocsType, StartsInv, docs, browser
<1>3. RequestInv(Free)'
  BY DEF RequestInv, Free
<1> QED BY <1>1, <1>2, <1>3, FreeType, RequestStep DEF Done

(* A request arrives at a process that serves.                             *)
LEMMA ArrivesKeeps ==
  ASSUME GInv, NEW p \in Proc, NEW r \in Handler, RequestInv(r), Arrives(p, r)
  PROVE  GInv'
<1>1. phase \in Up
  BY DEF Arrives, Up
<1>2. /\ UNCHANGED <<process, docs, browser, register, panics>>
      /\ h' = [h EXCEPT ![p] = r]
  BY DEF Arrives
<1>3. UNCHANGED <<env, starts>>
  BY <1>2 DEF process, browser
<1>4. DocsType' /\ StartsInv' /\ NoNilClient'
  BY <1>2 DEF GInv, GatewayTypeOK, DocsType, StartsInv, docs, browser, NoNilClient
<1>5. RequestInv(r)'
  BY <1>3, RequestKept
<1> QED BY <1>1, <1>2, <1>3, <1>4, <1>5, RequestStep

(* A login start arrives for a configured provider, with the login session *)
(* of its cookie.                                                          *)
LEMMA FederatedLoginKeeps ==
  ASSUME GInv, NEW p \in Proc, FederatedLogin(p)
  PROVE  GInv'
<1>1. PICK idp \in env.idps :
        Arrives(p, [Free EXCEPT !.pc = "add", !.idp = idp,
                      !.sid = IF Before(cookie) THEN cookie ELSE 0,
                      !.info = IF Before(cookie) THEN login[cookie] ELSE NoInfo])
  BY DEF FederatedLogin
<1> DEFINE r == [Free EXCEPT !.pc = "add", !.idp = idp,
                   !.sid = IF Before(cookie) THEN cookie ELSE 0,
                   !.info = IF Before(cookie) THEN login[cookie] ELSE NoInfo]
<1>2. idp \in Provider
  BY DEF GInv, GatewayTypeOK, Environment
<1>3. /\ (IF Before(cookie) THEN cookie ELSE 0) \in 0..MaxSid
      /\ (IF Before(cookie) THEN login[cookie] ELSE NoInfo) \in LoginInfo \cup {NoInfo}
  BY BoundsAssumption DEF GInv, GatewayTypeOK, Before
<1>4. r \in Handler
  BY <1>2, <1>3, FreeType DEF Handler, Free
<1>5. RequestInv(r)
  BY <1>1 DEF Arrives, RequestInv, Free
<1> HIDE DEF r
<1>6. Arrives(p, r)
  BY <1>1 DEF r
<1> QED BY <1>4, <1>5, <1>6, ArrivesKeeps

(* A callback arrives with the login session of its cookie, whose provider *)
(* this process has configured, too.                                       *)
LEMMA CallbackKeeps ==
  ASSUME GInv, NEW p \in Proc, Callback(p)
  PROVE  GInv'
<1>1. PICK n \in Sid :
        /\ Before(cookie) /\ Available(login[cookie].idp)
        /\ Arrives(p, [Free EXCEPT !.pc = "exchange", !.sid = cookie,
                         !.idp = login[cookie].idp, !.info = login[cookie], !.n = n])
  BY DEF Callback
<1> DEFINE r == [Free EXCEPT !.pc = "exchange", !.sid = cookie,
                   !.idp = login[cookie].idp, !.info = login[cookie], !.n = n]
<1>2. cookie \in Sid /\ login[cookie] \in LoginInfo /\ OfLastStart(login[cookie])
  BY <1>1 DEF GInv, GatewayTypeOK, StartsInv, Before
<1>3. login[cookie].idp \in Provider /\ n \in 0..MaxSid /\ cookie \in 0..MaxSid
  BY <1>2, SidType DEF LoginInfo
<1>4. r \in Handler
  BY <1>2, <1>3, FreeType DEF Handler, Free
<1>5. RequestInv(r)
  BY <1>1, <1>2 DEF Arrives, RequestInv, Free, Available
<1> HIDE DEF r
<1>6. Arrives(p, r)
  BY <1>1 DEF r
<1> QED BY <1>4, <1>5, <1>6, ArrivesKeeps

(* What a login start writes is of that start.                             *)
LEMMA LoginStartInfo ==
  ASSUME NEW info \in LoginInfo \cup {NoInfo}, NEW idp \in Provider, NEW n \in Sid
  PROVE  /\ WithLoginStart(info, idp, n) \in LoginInfo
         /\ OfLastStart(WithLoginStart(info, idp, n))
<1>1. n \in 0..MaxSid
  BY SidType
<1>2. CASE info = NoInfo
  BY <1>1, <1>2, BoundsAssumption DEF WithLoginStart, LoginInfo, OfLastStart
<1>3. CASE info # NoInfo
  BY <1>1, <1>3 DEF WithLoginStart, LoginInfo, OfLastStart
<1> QED BY <1>2, <1>3

(* Only the adapter of OpenID Connect finds its client missing.            *)
LEMMA OnlyOidcPanics ==
  ASSUME GInv, NEW p \in Proc, h[p].pc # "free", h[p].idp \notin clients, Panics(p)
  PROVE  GInv'
<1>1. phase \in Up /\ RequestInv(h[p])
  BY DEF GInv, ProcessInv, Idle
<1>2. h[p].idp = "oidc"
  BY <1>1 DEF GInv, ProcessInv, SetUp, RequestInv
<1>3. NoNilClient'
  BY <1>2 DEF Panics, GInv, NoNilClient
<1> QED BY <1>3, RequestEnds DEF Panics

(* A login start that succeeds writes a document about itself.             *)
LEMMA LoginStartKeeps ==
  ASSUME GInv, NEW p \in Proc, LoginStart(p)
  PROVE  GInv'
<1> DEFINE r == h[p]
<1>1. r.pc = "add" /\ r \in Handler /\ phase \in Up
  BY DEF LoginStart, GInv, GatewayTypeOK, ProcessInv, Idle
<1>2. CASE r.idp \notin clients /\ Panics(p)
  BY <1>1, <1>2, OnlyOidcPanics
<1>3. CASE Fails(p)
  BY <1>1, <1>3, RequestEnds DEF Fails, GInv, NoNilClient
<1>4. CASE ~ (r.idp \notin clients /\ Panics(p)) /\ ~ Fails(p)
  <2> DEFINE n    == drawn + 1
             info == WithLoginStart(r.info, r.idp, n)
  <2>1. /\ n \in Sid /\ drawn' = n
        /\ login' = [s \in Sid |-> IF s = n THEN info
                                   ELSE IF s = r.sid THEN NoInfo ELSE login[s]]
        /\ h' = [h EXCEPT ![p] = Free] /\ cookie' = n
        /\ starts' = [starts EXCEPT ![n] = r.idp]
        /\ UNCHANGED <<process, session, profile, register, panics>>
    BY <1>4 DEF LoginStart, Answers, Done
  <2>2. info \in LoginInfo /\ OfLastStart(info)
    BY <1>1, <2>1, LoginStartInfo DEF Handler
  <2> HIDE DEF info
  <2>3. DocsType'
    <3>1. login' \in [Sid -> LoginInfo \cup {NoInfo}]
      BY <2>1, <2>2 DEF GInv, GatewayTypeOK
    <3>2. starts' \in [Sid -> Provider \cup {"none"}]
      BY <1>1, <2>1 DEF GInv, GatewayTypeOK, Handler
    <3>3. drawn' \in 0..MaxSid /\ cookie' \in 0..MaxSid
      BY <2>1, SidType
    <3> QED BY <2>1, <3>1, <3>2, <3>3 DEF GInv, GatewayTypeOK, DocsType
  <2>4. StartsInv'
    <3>1. ASSUME NEW m \in Sid, m > drawn' PROVE starts'[m] = "none"
      <4>1. m # n /\ m > drawn
        BY <2>1, <3>1, SidType, BoundsAssumption DEF GInv, GatewayTypeOK
      <4> QED BY <2>1, <4>1 DEF GInv, GatewayTypeOK, StartsInv
    <3>2. ASSUME NEW s \in Sid, login'[s] # NoInfo PROVE OfLastStart(login'[s])
      BY <2>1, <2>2, <3>2 DEF GInv, StartsInv
    <3> QED BY <3>1, <3>2 DEF StartsInv, OfLastStart
  <2>5. ASSUME NEW m \in Sid, starts[m] # "none" PROVE starts'[m] = starts[m]
    <3>1. n > drawn
      BY BoundsAssumption DEF GInv, GatewayTypeOK
    <3>2. m # n
      BY <2>1, <2>5, <3>1 DEF GInv, StartsInv
    <3> QED BY <2>1, <3>2 DEF GInv, GatewayTypeOK
  <2>6. RequestInv(Free)'
    BY DEF RequestInv, Free
  <2>7. NoNilClient'
    BY <2>1 DEF GInv, NoNilClient
  <2> QED BY <1>1, <2>1, <2>3, <2>4, <2>5, <2>6, <2>7, FreeType, RequestStep
<1> QED BY <1>2, <1>3, <1>4

(* The user whom the register has for the account that was confirmed.      *)
LEMMA FindUserKeeps ==
  ASSUME GInv, NEW p \in Proc, NEW a \in Account \cup {Blank},
         h[p].pc = "exchange", FindUserOf(p, a),
         a # Blank => h[p].n = h[p].info.last /\ starts[h[p].n] = h[p].idp,
         UNCHANGED <<process, docs, browser, register, panics>>
  PROVE  GInv'
<1>1. PICK r, u : r \in Handler /\ r = h[p] /\ u = register[<<r.idp, a>>]
  BY DEF GInv, GatewayTypeOK
<1>2. RequestInv(r) /\ phase \in Up /\ register \in Tables /\ r.pc = "exchange"
  BY <1>1 DEF GInv, GatewayTypeOK, ProcessInv, Idle
<1>3. CASE u = NoUser
  BY <1>1, <1>3, RequestEnds DEF FindUserOf, GInv, NoNilClient
<1>4. CASE u # NoUser
  <2>1. PICK q : q = [r EXCEPT !.pc = "session", !.account = a, !.user = u,
                               !.found = Before(r.sid)]
    OBVIOUS
  <2>2. h' = [h EXCEPT ![p] = q]
    BY <1>1, <1>4, <2>1 DEF FindUserOf
  <2>3. u \in User
    BY <1>1, <1>2, <1>4, TablesAssumption DEF Table, Handler
  <2>4. q \in Handler
    BY <1>1, <2>1, <2>3 DEF Handler, Before
  <2>5. q.info = r.info /\ q.idp = r.idp /\ q.n = r.n /\ q.user = u
        /\ q.account = a /\ q.pc = "session"
    BY <1>1, <2>1 DEF Handler
  <2>6. RequestInv(q)
    <3>1. /\ r.info \in LoginInfo /\ OfLastStart(r.info) /\ r.idp = r.info.idp
          /\ r.n \in Sid /\ ~ env.DevMode /\ (r.idp # "oidc" => r.idp \in env.idps)
      BY <1>2 DEF RequestInv
    <3>2. Confirmed(q)
      BY <1>1, <1>2, <2>5, <3>1 DEF Confirmed
    <3> QED BY <2>3, <2>5, <3>1, <3>2 DEF RequestInv
  <2>7. UNCHANGED <<env, starts>>
    BY DEF process, browser
  <2>8. RequestInv(q)'
    BY <2>6, <2>7, RequestKept
  <2>9. DocsType' /\ StartsInv' /\ NoNilClient'
    BY DEF GInv, GatewayTypeOK, DocsType, StartsInv, docs, browser, NoNilClient
  <2> QED BY <1>2, <2>2, <2>4, <2>7, <2>8, <2>9, RequestStep
<1> QED BY <1>3, <1>4

(* The provider confirms an account for the start that it was asked about, *)
(* which is the last one if it matches.                                    *)
LEMMA ExchangeKeeps ==
  ASSUME GInv, NEW p \in Proc, Exchange(p)
  PROVE  GInv'
<1> DEFINE r == h[p]
<1>1. r.pc = "exchange" /\ RequestInv(r)
  BY DEF Exchange, GInv
<1>2. CASE r.idp \notin clients /\ Panics(p)
  BY <1>1, <1>2, OnlyOidcPanics
<1>3. CASE /\ Matches(r) /\ starts[r.n] = r.idp
           /\ \E a \in Account : FindUserOf(p, a)
           /\ UNCHANGED <<process, docs, browser, register, panics>>
  <2>1. r.n = r.info.last
    BY <1>1, <1>3 DEF Matches, RequestInv, OfLastStart
  <2> QED BY <1>1, <1>3, <2>1, FindUserKeeps
<1>4. CASE /\ FindUserOf(p, Blank)
           /\ UNCHANGED <<process, docs, browser, register, panics>>
  BY <1>1, <1>4, FindUserKeeps
<1> QED BY <1>2, <1>3, <1>4 DEF Exchange

(* A login that ends, with a session or without, leaves all other login    *)
(* information as it was.                                                  *)
LEMMA StartSessionKeeps ==
  ASSUME GInv, NEW p \in Proc, StartSession(p)
  PROVE  GInv'
<1> DEFINE r == h[p]
<1>1. /\ r.pc = "session" /\ r \in Handler /\ RequestInv(r) /\ phase \in Up
      /\ UNCHANGED <<process, starts, register, panics>>
  BY DEF StartSession, GInv, GatewayTypeOK, ProcessInv, Idle
<1>2. /\ h' = [h EXCEPT ![p] = Free]
      /\ login' \in {login, [login EXCEPT ![r.sid] = NoInfo]}
      /\ \/ drawn' = drawn + 1 /\ drawn' \in Sid /\ cookie' = drawn'
            /\ session' = [session EXCEPT ![drawn'] = r.user]
            /\ profile' = [profile EXCEPT ![r.user.UserID] =
                             IF @ = NoUser THEN r.user.Scopes ELSE @]
         \/ cookie' = 0 /\ UNCHANGED <<drawn, session, profile>>
  BY DEF StartSession, Answers, Done
<1>3. r.user \in User
  BY <1>1 DEF RequestInv
<1>4. DocsType'
  <2>1. login' \in [Sid -> LoginInfo \cup {NoInfo}]
    BY <1>2 DEF GInv, GatewayTypeOK
  <2>2. session' \in [Sid -> User \cup {NoUser}]
    BY <1>2, <1>3 DEF GInv, GatewayTypeOK
  <2>3. profile' \in [UserID -> Scopes \cup {NoUser}]
    BY <1>2, <1>3 DEF GInv, GatewayTypeOK, User
  <2>4. drawn' \in 0..MaxSid /\ cookie' \in 0..MaxSid
    BY <1>2, SidType DEF GInv, GatewayTypeOK
  <2> QED BY <1>1, <2>1, <2>2, <2>3, <2>4 DEF GInv, GatewayTypeOK, DocsType
<1>5. StartsInv'
  <2>1. drawn' >= drawn /\ drawn \in Nat /\ drawn' \in Nat
    BY <1>2, BoundsAssumption DEF GInv, GatewayTypeOK
  <2>2. \A m \in Sid : m > drawn' => starts'[m] = "none"
    BY <1>1, <2>1, SidType DEF GInv, StartsInv
  <2>3. \A s \in Sid : login'[s] # NoInfo => login'[s] = login[s]
    BY <1>2 DEF GInv, GatewayTypeOK
  <2>4. \A s \in Sid : login'[s] # NoInfo => OfLastStart(login'[s])
    BY <2>3 DEF GInv, StartsInv
  <2> QED BY <2>2, <2>4 DEF StartsInv, OfLastStart
<1>6. RequestInv(Free)' /\ NoNilClient'
  BY <1>1 DEF RequestInv, Free, GInv, NoNilClient
<1> QED BY <1>1, <1>2, <1>4, <1>5, <1>6, FreeType, RequestStep

(* A browser without a cookie is as good as a new one.                     *)
LEMMA ForgetKeeps ==
  ASSUME GInv, Forget
  PROVE  GInv'
<1>1. /\ cookie' = 0
      /\ UNCHANGED <<env, phase, exit, interrupted, clients, runs, register, login,
                     session, profile, drawn, starts, h, panics>>
  BY DEF Forget, process, docs
<1>2. GatewayTypeOK'
  BY <1>1, SidType DEF GInv, GatewayTypeOK
<1>3. ProcessInv' /\ StartsInv'
  BY <1>1 DEF GInv, ProcessInv, StartsInv, Idle
<1>4. \A p \in Proc : RequestInv(h[p])'
  BY <1>1, RequestKept DEF GInv
<1> QED BY <1>1, <1>2, <1>3, <1>4 DEF GInv, NoNilClient

(* Every step keeps GInv.                                                  *)
LEMMA NextGInv == GInv /\ [Next]_vars => GInv'
<1> SUFFICES ASSUME GInv, [Next]_vars PROVE GInv'
  OBVIOUS
<1>1. CASE Startup
  BY <1>1, StartupKeeps
<1>2. CASE \/ Launch \/ Interrupt \/ Shutdown \/ Drained \/ Deadline
           \/ ServerError \/ Killed \/ Reload
  BY <1>2, ProcessKeeps
<1>3. CASE Forget
  BY <1>3, ForgetKeeps
<1>4. CASE \E p \in Proc : \/ FederatedLogin(p) \/ LoginStart(p) \/ Callback(p)
                           \/ Exchange(p) \/ StartSession(p)
  BY <1>4, FederatedLoginKeeps, LoginStartKeeps, CallbackKeeps, ExchangeKeeps,
     StartSessionKeeps
<1>5. CASE UNCHANGED vars
  <2>1. UNCHANGED <<env, phase, exit, interrupted, clients, runs, register, login,
                    session, profile, drawn, starts, cookie, h, panics>>
    BY <1>5 DEF vars, process, docs, browser
  <2>2. GatewayTypeOK'
    BY <2>1 DEF GInv, GatewayTypeOK
  <2>3. ProcessInv' /\ StartsInv'
    BY <2>1 DEF GInv, ProcessInv, StartsInv, Idle
  <2>4. \A p \in Proc : RequestInv(h[p])'
    BY <2>1, RequestKept DEF GInv
  <2> QED BY <2>1, <2>2, <2>3, <2>4 DEF GInv, NoNilClient
<1> QED BY <1>1, <1>2, <1>3, <1>4, <1>5 DEF Next

-----------------------------------------------------------------------------
(* Every variable keeps its type, in any number of processes.              *)
THEOREM GatewayTypeCorrectness == Spec => []GatewayTypeOK
<1>1. GInv => GatewayTypeOK  BY DEF GInv
<1> QED BY <1>1, InitGInv, NextGInv, PTL DEF Spec

(* Whichever callbacks come late, and whatever becomes of the process, a   *)
(* user logs in by an account confirmed for the last start of the login    *)
(* session, or by a blank account in the table.                            *)
THEOREM LastStartConfirms == Spec => []ConfirmedByLastStart
<1>1. ASSUME GInv PROVE ConfirmedByLastStart
  BY <1>1 DEF GInv, RequestInv, Confirmed, ConfirmedByLastStart
<1> QED BY <1>1, InitGInv, NextGInv, PTL DEF Spec

(* The clients of Twitter and GitHub are there for whoever uses them, also *)
(* for logins that were started under another environment.                 *)
THEOREM ClientsAreSet == Spec => []NoNilClient
<1>1. GInv => NoNilClient  BY DEF GInv
<1> QED BY <1>1, InitGInv, NextGInv, PTL DEF Spec

(* A process does not serve without a provider that works.                 *)
THEOREM ServesWithProvider == Spec => []SomeLoginWorks
<1>1. GInv => SomeLoginWorks
  BY DEF GInv, ProcessInv, SetUp, Up, SomeLoginWorks
<1> QED BY <1>1, InitGInv, NextGInv, PTL DEF Spec
=============================================================================
