# A TLA+ verification of wru

wru is an identity-aware reverse proxy. It logs people in through an ID provider
(or, in the development mode, lets them pick a user), keeps their sessions in a
document store (or in memory), and forwards the requests of logged-in people to the service
behind it with the user's name and session data in a header.

The modules here model what several requests, several browsers, several wru
processes and a failing document store can do together; TLC checks them on small
instances and TLAPS proves the main results for every instance. Numbers such as
`serverless_sessionstorage.go:138` are lines of the sources under `src/`.

## 1. The system

### Components

| Component | State | Operations | What makes it correct |
|---|---|---|---|
| `ServerlessSessionStorage` (`serverless_sessionstorage.go`) | two collections: session documents (owner, login time, last access, login info) and user documents (list of sessions, session data) | `StartLogin`, `AddLoginInfo`, `StartSession`, `Logout`, `FindBySessionToken`, `UpdateSessionData`, `RenewSession`, `GetUserSessions` | an id stands for one login, ends once and stays dead; "active" only within the terms; session data is what responses stored; every call returns |
| The `SessionStorage` interface (`sessionstorage.go`) | sessions, session data | the same operations, as callers understand them | calls that keep apart are atomic |
| Session types and directives (`sessionstorage.go`) | none | statuses, documents, the header field `Wru-Set-Session-Data` | what the service writes into the field is what is stored |
| `IdentityRegister` (`identityregister.go`) | two maps (by user id, by provider account), the time stamp of the table | two parsers of users, read at start, reload on a ticker, look-ups | the maps agree with each other and with a version of the table not older than the stamp; a younger table is loaded; the parsers agree |
| Handlers and cookies (`handler.go`, `handler_helper.go`, `session.go`) | none in the process; the cookie in the browser | the routes under `/.wru/`, `MustLogin`, `MustNotLogin`, start of a login, callback | a person acts as nobody else (but for the blank account); a login lands where it was asked for; a logged-out session is out |
| `ReverseProxy` (`reverseproxy.go`) and authorization middleware (`middleware.go`) | none | look up, forward, store the directives of the answer | only active sessions reach the service |
| ID provider adapters (`adapter_*.go`) | one client per provider (package variables); `state` or `oauth_token` in the login session | redirect to the provider, confirm a callback | a callback is accepted for the last login start of its login session |
| `Config` (`config.go`) | constants after the start | reading the environment, setting up the clients | a process that serves has a provider, and its client |
| Commands (`cmd/wru/main.go`, `cmd/sampleapp/main.go`) | the process: starting, serving, stopping; the interrupt | start-up, signals, `Shutdown`, exit status | an interrupted process ends |
| `RedisSessionStorage`, templates, test helpers | - | - | - |

A request runs in a goroutine of its own: the handler reads the cookie, looks
the session up, may make one or two further calls of the session storage, and
answers. The session storage is called by value and keeps no state in memory;
all the sharing is in the document store, whose documents carry no revision, so
`Replace` and `Put` overwrite whatever was written since the caller's `Get`. The
register is shared under a read-write lock with one reloading goroutine.

### What is hard here

* Each operation of the session storage is two to six store calls; the calls of
  other requests (and of other wru processes) fall between them.
* Errors of `Delete`, `Create` and `Replace` are ignored at several places
  (lines 120, 124, 138, 353), and a request may die between two calls.
* Expiry is decided on a clock read that is older than the purge that follows.
* Responses of one browser's requests arrive in any order; each may set the cookie.
* The table of users is written while it is being read, by people who can also write
  users into variables, for which there is another parser.
* A login is away at a provider for as long as the person takes. Meanwhile the
  browser may start other logins, the table may change, and the process may stop
  and be replaced by one with another environment.

`PROJECT.json` lists these hazards one by one with their lines, and for each the
properties that would catch it.

## 2. Modules

| Module | What it models |
|---|---|
| `SessionLifecycle` | abstract specification: the life of a session id (fresh, open, closed) and the login it stands for |
| `SessionStorage` | `ServerlessSessionStorage`, one action per document store call |
| `MCSessionStorage`, `MCStartTwice` | instances of it for TLC; the second one adds a history of the sessions that a `StartSession` has taken |
| `SessionStorageProofs`, `SessionStorageSafety` | theorems about it: its types and its abstract specification; its safety properties |
| `Directives` | the header field `Wru-Set-Session-Data`: its parser, and what a list of directives does to session data (checked in `MCSessionStorage`) |
| `DirectivesProofs` | the theorem that the data stored is the data written |
| `SessionAPI` | abstract specification: the `SessionStorage` interface, one atomic step per operation |
| `SessionIsolation`, `MCSessionIsolation` | `SessionStorage` with callers that keep apart, its refinement mapping to `SessionAPI`, and its instance |
| `SessionIsolationProofs` | the theorem that calls which keep apart are atomic |
| `WruProxy` | browsers, handlers, middleware and reverse proxy; EXTENDS `SessionStorage`, so a handler and its storage calls interleave with all others store call by store call |
| `MCWruProxy` | instances of it for TLC |
| `WruProxyProofs`, `WruProxySafety` | theorems about it: it uses the storage as it should; who a request is and where a login ends |
| `UserTable` | the two parsers of users |
| `IdentityRegister`, `MCIdentityRegister`, `IdentityRegisterProofs` | the register and its reloading goroutine, its instance (with tables that `UserTable` parses), its theorems |
| `Gateway` | the process from its environment to its exit status, and logins through the providers across reloads, interrupts and restarts |
| `MCGateway`, `GatewayProofs` | its instances, its theorems |

### SessionStorage and the code

`single` and `userSes` are the two collections, `now` is `currentTime`. `call[p]`
is the stack frame of goroutine `p`: the operation, its arguments and its local
variables (`ses`, `uses`, the new id, the time read). `reply` is what the last
step returned to a caller. `faults` counts failed calls. `known`, `origin` and
`ended` are history variables: no guard reads them, except that callers pass
only ids that a call has returned (`known`) or, to `Logout`, that a list of
sessions may have shown (`Listed`), and that new ids have never been used
(`origin`).

An action is one store call together with the code up to the next one. A call
answers "ok", or it fails without effect ("lost"), or it takes effect and its
answer does not come back ("late": a cancelled request context does either).
`Crash` ends a request between two calls. A read of the clock belongs to the
store call next to it. What the code ignores the model ignores: `AddDelete`,
`AddCreate`, `StartDelete` and `UpdateUser` go on whatever the store answers.

`StartPanic` and the "panic" of `ReadBeforeLogin` are the nil dereferences of a
`StartSession` with a nil user and of directives for a session before login.

Abstractions: UUIDs are unique, and disjoint from user ids (both collections are
opened under the name `singleSessions`, lines 61-64, so the two functions of the
model are the two halves of one collection). Login information and the profile
of the user are no input of any decision of this file. A directive list is its
net effect on each key; `Directives` has the text and the loop of which this is the
effect. A term of 0 ticks in a configuration means "shorter than
a tick of the model". `RenewSession` has no caller outside the tests; it is
modelled, and left out of the proxy (`HandlerOps`).

### Directives and the code

A text is a sequence of characters. `Cuts` are the ways in which the regular
expression of line 130 can match, and `parseDirective` takes the one that it takes:
the leftmost key, and of these the longest. `Update` is the loop of `RoundTrip`
(one field that does not parse, and nothing is stored) followed by the loop of
`UpdateSessionData`. `net/http` hands fields over without blanks at their ends, so
the written values have none.

### SessionAPI, SessionIsolation and the code

`SessionAPI` has sessions and session data instead of documents, and one step per
operation, with a clock between the call and its answer. It says what a caller may
rely on, oddities included: a session before login that expired stays
(`Without`), `RenewSession` keeps the last access time, `StartSession` costs the old
session also when there is no user.

`SessionIsolation` is `SessionStorage` with three restrictions: a call begins only when
no call under way works on its session or its user (`Apart`), callers pass only ids
that a call has returned to them (a list of sessions shows ids whose call is still under
way), and session ids do not run out. `before` is a history variable, what each call found when it began;
the mapping shows a call's old state until the call returns. `ActsAtOnce` then says
that the five or six store calls of an operation are one step. Without `Apart` it is
false: the two violation runs of the storage show how.

### WruProxy and the code

`cookie[b]` is the session cookie of browser `b`; `h[p]` is the request that `p`
serves: its kind (the route), its arguments, the cookie it came with (`sent`),
the session found (`sid`, `status`), and the response (`cookie`, `goto`).
`info[s]` is the `LoginInfo` of a session before login as far as the handlers
depend on it: the landing URL, and whether an ID provider was started.
`tokens[b]` are the login starts whose callback the provider of `b` can send
back. `was`, `asked` and `out` are history variables: `was` counts every user as
whom a handler calls `StartSession`, that of a failed callback included.

`Listed` (of `SessionStorage`) is what a page of sessions may have shown: the
sessions of any user, ids that no caller holds yet included, and, since the
page of a session before login lists the owner "", all sessions before login.
`SessionLogout` logs any of them out, whoever asks; the code does not
compare owners, and an id that was never listed has no document for `Logout` to find.

`Arrive` is the request up to its first storage call, `Route` the switch of
`newHandler` after the look-up, `CallStartLogin`, `CallStartSession` and
`CallOther` make the further calls, `Serve` is a store call under way (a `Step`
of `SessionStorage`) together with what the handler does when the operation
returns, `Backend` the service's answer, `Deliver` the response at the browser.
A response that changes nothing at the browser (`Show`) frees the request at
once. `Forget` is the end of a cookie, which its age may bring about at any
time; `Lost` is a browser that gives up.

`Callback` looks the session up a second time (`handler.go:113`), with store calls of
its own: it may find another result than `MustNotLogin` did, and the purge may run
again. `FoundAgain` is that answer and `IdpCallback` the rest of the handler. The
providers are external: they confirm the account of the person at that browser, if
the state that the callback carries is that of the login session, or they refuse
(`Confirmed`). A refusal is no end: `handler.go:146` overwrites the adapter's error,
so the handler goes on with the account "", and logs the browser in as its owner
if the table has a user with a blank account (`BlankUser`; `NoUser` stands for a table
without one). The session data of a user is taken to have no key `idp`, so that
only a session before login names a provider. Whatever the
adapters or the configuration may refuse (provider unknown, not configured, out
of reach) is a choice. The middleware stores the directives after the handler
has answered; in the model the request is over when they are stored, and since
other requests of the browser interleave and an answer of the service carries no
cookie, the order in which the browser sees the answer makes no difference.

### IdentityRegister and the code

`file` is the table in its bucket with its ModTime, `register` the two maps,
`fileModifiedAt` the stamp; `loop`, `users` and `modTime` are the reloading
goroutine. `Stat`, `Read` and `Swap` are its three steps; `Write` is the
administrator, who may write between any two of them, twice within one unit of
the store's clock, or leave a half-written file (`Unreadable`). The ModTime does
not go back. Look-ups hold the read lock, so they are state functions. `Build`
is `appendUser` folded over the rows. The first tick comes after `Config.Users`
have been appended, because the ticker's term is over a second.

### UserTable and the code

A text is the sequence of its pieces between commas: the only character that both
parsers give a meaning to in a value. `CsvUser` is the loop over the columns,
`parseUserFromEnv` the one over the fields, `Fill` what both do alike. `Variable`
writes a row the way a variable must be written: a field per column, one per
scope. `ParsersAgree` is the reference: the same user, or none. It leaves out
two kinds of files, where the parsers do differ: two columns of scopes (the
last one wins), and a comma inside a quoted cell that is not the scopes (a
variable cannot hold it). In a variable, `scopes:` is no field (only `scope:` is).

### Gateway and the code

`phase` is how far `main` has come, `exit` why the last process ended, `interrupted`
that its context is done. `NewConfig`, `NewSessionStorage`, `NewIdentityRegister`
and `Certificate` are the start-up in the order of the code, each with its way out;
`Shutdown`, `Drained` and `Deadline` are `http.Server.Shutdown` with its ten
seconds. `clients` are the package variables that the adapters use. The memory
storage and the requests end with the process; documents stay, and the next
process, which may have another environment, finds them. The middleware as a
library (`NewAuthorizationMiddleware`) starts in the same order.

`login[s]` is the `LoginInfo` document as far as it is read: the provider, and the
last `state` and `oauth_token`, which are keys of their own and stay when a login
at the other provider begins. `FederatedLogin` and `Callback` are requests with
what their look-up found; `LoginStart`, `Exchange` and `StartSession` are what they do
next, each after an arbitrary time. A state is named by the id that its start
handed out, so distinct starts have distinct states.

Abstractions: the storage answers each call at once (its own steps are in
`SessionStorage` and `WruProxy`); requests without effect (no session, not
configured, already active) are left out; a response that is lost is a cookie
that is then forgotten (`Forget`); the document of a `StartLogin` whose login does not
go on, and which no cookie names, is left out. An adapter that fails
goes on with the account "" (`Blank`), because its error is overwritten by
`FindUserOf`'s (`handler.go:146`).
Another environment of the same deployment keeps `WRU_SESSION_STORAGE`.

## 3. Runs

Symmetry sets are used in runs without liveness properties only. Deadlock is checked
in every run but those of `Gateway`, where everything stops after `MaxRuns`
processes; no other run reaches one.

| Run | Instance | Properties | States |
|---|---|---|---|
| `storage_faults` | 2 goroutines, 2 ids, clock 0..2, one failure, all operations | `IInv`, `EndedStaysDead`, `KnownHasUserDoc`, `ActiveWithinTerm`, `ImplementsLifecycle` | 3.6 M |
| `storage_live` | 2 goroutines, 1 id, a key with a value, clock 0..3, all operations, fairness | `TypeOK`, `ListedIsActive`, `DirectivesAreStored`, `EveryCallReturns`, `ExpiredIsPurged`, `DataLostOnlyByStaleReplace` | 298 k |
| `storage_isolated` | 2 goroutines, 2 ids, 2 users, a key with a value, clock 0..2, all operations | `ActsAtOnce` | 517 k |
| `register_reload` | 3 tables, 2 users, 4 accounts, ModTime 0..2, one failure, fairness; all files of up to 3 columns out of 9 headers | `TypeOK`, `NotOlderThanStamp`, `AccountsResolve`, `LastRowWins`, `EnvAgreesWithTable`, `YoungerFileIsLoaded` | 104 k |
| `proxy_login` | 1 browser with 2 requests under way, 3 ids, clock 0..1, login through a provider, a blank account | `ProxyTypeOK`, `LandsWhereAsked`, `LoginLostOnlyByOverlap`, `UsesStorage` | 2.0 M |
| `proxy_persons` | 2 browsers of two persons with accounts of their own, a third user with the blank account, 5 ids, one failure, logins through a provider | `ForwardedAsSelf` | 603 k |
| `proxy_sessions` | 2 browsers of one user, 2 ids, development mode, logouts of oneself and of the other | `LoggedOutIsOut` | 5.4 M |
| `gateway` | 7 environments, 2 processes, 2 tables, 2 requests under way, 3 ids, fairness | `GatewayTypeOK`, `ConfirmedByLastStart`, `NoNilClient`, `SomeLoginWorks`, `InterruptEnds` | 1.5 M |

What they show:

* `EndedStaysDead`: with a store that answers, an id that was exchanged, logged
  out or reported invalid never has a document again, although `Replace` of a
  concurrent update may come after the delete. It rests on `Replace` refusing a
  missing document.
* `ImplementsLifecycle`: with any failures, an id is opened once, stands for one
  login, and does not come back; a login keeps its start time when it moves. That
  a login has one id only, or an id a document, it does not say, and the code does not
  keep it: two `AddLoginInfo` calls that overlap, a failed `Delete` and a `RenewSession`
  that fails half way leave two ids, a failed `Create` leaves an id without a document.
* `KnownHasUserDoc`: nobody holds the id of a user's session whose user document
  is missing, although `StartSession` writes the session document first.
* `ActiveWithinTerm`: "active" is answered only for a user's login not older than
  the absolute timeout at the clock read, however often it was updated or moved.
* `ListedIsActive`: `GetUserSessions` and `readSession` decide on expiry with
  different comparisons; what the first one lists the second one calls active, and
  the other way round but at the very instant at which a term ends.
* `DataLostOnlyByStaleReplace`: session data changes by directives, or because a
  login or logout writes back a document that is no longer the stored one.
* `ForwardedAsSelf`: with two persons logging in at the same time, callbacks that
  come late or twice, and a failure, a request reaches the service only as a user
  whom a login of that very browser has named, and who is its person's, or the owner
  of the blank account after a callback that failed.
* `LoggedOutIsOut`: once a response has said that a session is logged out, no
  later request reaches the service with it, whatever was under way.
* `LandsWhereAsked`, `LoginLostOnlyByOverlap`: a login ends on a page the person
  asked for; a browser loses the cookie of a usable session only by a logout or
  by a request that left with another cookie (or that found the session idle).
* `DirectivesAreStored`: for two header fields of one response, every key has the value
  that was written last, an empty one removes it, other keys stay. It holds for
  values with "=" only where a blank stands before the first "=": `a=b=c` is read as the
  value `c` of the key `a=b`.
* `ActsAtOnce`: calls that work on different sessions and users are atomic, and are
  the operations of `SessionAPI`; what the storage does not keep, it does not keep
  because of calls of one user that overlap.
* `EnvAgreesWithTable`: a user is the same whether written into the table or into a
  variable, whatever the order and the names of the columns.
* `ConfirmedByLastStart`: a login ends as the user of the account that the provider
  confirmed for the last start, however many starts at how many providers, late
  callbacks, reloads and restarts came before; or of a blank account.
* `NoNilClient`, `SomeLoginWorks`: the three conditions on providers (what `Init` counts,
  which client is set, what the handlers ask for) differ, yet only OpenID Connect
  can meet a client that is not there, and a process that serves has one.
* `InterruptEnds`: an interrupt ends the process whatever the providers do.
* `YoungerFileIsLoaded`, `NotOlderThanStamp`, `AccountsResolve`, `LastRowWins`:
  the register follows the table and its two maps agree.

`LandsWhereAsked`, `LoggedOutIsOut`, `EndedStaysDead` and
`LoginLostOnlyByOverlap` are stated for executions without failures: a failed
look-up counts as "no session" and a failed delete leaves the document, by the
code's own design.

### Bounds

Two goroutines give every pair of overlapping operations, and each goroutine runs
one operation after the other. Two ids are a login session and the session it
becomes; that two calls each take the same login session to a new id needs a third
one, which `storage_start_twice` has and `storage_faults` has not: there the theorems,
which are for any number, say what holds. A provider login uses three ids, since its id
is exchanged twice; in `proxy_login` it uses all of them, so the login that another
request starts meanwhile takes one away from it, or does not get one. The five of
`proxy_persons` are two persons at the provider (two ids each) and the session of
the one who comes back first; the other one's callback, then, fails. In
`storage_live` one id is enough: what a call does to a session does not depend on
other ids, and the returns and the purge are of single calls. The clock passes every configured term and, in
`storage_faults` and `storage_live`, leaves a tick in which a session is past its
idle term and within its absolute one. One failure meets every store call of every
operation at every moment; the proofs cover any number of failures, goroutines,
ids, users, browsers and ticks. When the ids of an instance are used up,
`generateNewSessionID` gives up, which the code does after ten draws.

In `gateway`, two processes are one takeover; the environments are two that serve on
the same documents with different providers, one on memory, one in the development
mode, and one for each way not to serve. The tables differ in a user's scopes, in
the owner of an account, and in a blank account. Three ids are two login starts and
a session. Three columns are an id and two columns that can disturb each other, in
every order. The texts of `Directives` have two fields, values of up to three
characters (four were tried), and keys of up to three; the proof is for any length.

### Fairness

`SessionStorage!FairSpec` is weak fairness of each goroutine's `Step`: a
goroutine whose store call has answered gets to run. Nothing obliges callers to
begin operations or the clock to advance. `storage_live` has no failures, since a
store that never answers never lets a call return. `IdentityRegister!FairSpec` is
weak fairness of `Reload`: the ticker ticks and its goroutine runs; writes,
failures and the shutdown are not fair. `Gateway!FairSpec` is weak fairness of what
an interrupt leads to: the start-up once `ctx` is done (its calls are given `ctx`),
`Shutdown`, and its end, by the last request or by the ten seconds' timer. No
provider has to answer and no request has to end. The proxy's runs are safety runs
and assume no fairness.

`ExpiredIsPurged` speaks of users' sessions. A login session that expired is
not purged: `readSession` calls `Logout`, which looks for the user document of
the empty user id, finds none and returns before its `Delete`.

### What the code does not keep

Four runs show that the code differs from what its tests or documentation say.

* `storage_start_twice`: two overlapping `StartSession` calls on one login session
  both return a session, since the answer of `Delete` (line 138) is not looked at; the
  test of the sequential case expects the second one to fail. `started` is the history of
  the login sessions for which a `StartSession` has returned "ok".
* `storage_data_reverted`: `StartSession` and `Logout` write back the whole user
  document (line 237), and with it session data that is older than what a
  response has stored meanwhile.
* `register_reload_stops`: a table that is missing or half written at one tick ends
  the reloading goroutine (`identityregister.go:155`), and later versions are
  never read.
* `gateway_profile`: the user document keeps the scopes of the first login, and a later
  login, after the table was read again, does not renew them
  (`serverless_sessionstorage.go:193`).

Noted while reading, without a run of its own: `initOpenIDConnectConfig` enters nothing
in `availableIDPs`, so with OpenID Connect as the only provider the process does not
start (`config.go:206`); the callback of OpenID Connect asks
whether GitHub is configured (`handler.go:135`); the adapter's error is overwritten
(`handler.go:146`); `RenewSession` keeps the last access time, so the session it
renewed is still idle (`serverless_sessionstorage.go:379`; its test says "renewed sid is
active"); a value with "=" is cut at the last one of its first word
(`sessionstorage.go:130`). The models do the same as the code.

## 4. Proofs

TLAPS proves the following for every value of the constants that meets the named
assumptions: terms and bounds are natural numbers; the "none" values (`NoSid`,
`NoDoc`, `NoInfo`, `NoCall`, ...) are distinct from the values they stand beside;
`BrowserOf` and `UserOf` are functions; the parsers' errors (`Invalid`; `NoValue`, under
which `Directives` is instantiated) are no user and no directive; the pages of the service
are distinct from the proxy's own targets. In `SessionIsolation` the set of ids is finite, as that of
UUIDs is: a call draws an id of those that are left, and the mapping counts them.

| Theorem | Statement |
|---|---|
| `SessionStorageProofs!TypeCorrectness`, `InductiveInvariant` | `Spec => []TypeOK`, `Spec => []IInv` |
| `SessionStorageProofs!Refinement` | `Spec => ImplementsLifecycle` |
| `SessionStorageProofs!ActiveSessions` | `Spec => ActiveWithinTerm` |
| `SessionStorageSafety!KnownSessionsHaveUsers` | `Spec => []KnownHasUserDoc` |
| `SessionStorageSafety!EndedIsOver` | `Spec => []EndedStaysDead` |
| `SessionStorageSafety!ListedSessionsAreActive` | `Spec => []ListedIsActive` |
| `SessionStorageSafety!StaleCopiesLoseData` | `Spec => DataLostOnlyByStaleReplace` |
| `DirectivesProofs!DirectivesBecomeSessionData` | `Spec => []DirectivesAreStored` |
| `SessionIsolationProofs!CallsAreAtomic` | `IsoSpec => ActsAtOnce`, given `MaxFaults = 0` |
| `IdentityRegisterProofs!RegisterTypeCorrectness` | `Spec => []TypeOK` |
| `IdentityRegisterProofs!RegisterNotOlderThanStamp` | `Spec => []NotOlderThanStamp` |
| `IdentityRegisterProofs!LastRowsWin` | `Spec => []LastRowWins` |
| `IdentityRegisterProofs!AccountsAreOfUsers` | `Spec => []AccountsResolve` |
| `IdentityRegisterProofs!TableAndVariablesAgree` | `Spec => []EnvAgreesWithTable` |
| `WruProxyProofs!ProxyTypeCorrectness` | `ProxySpec => []ProxyTypeOK` |
| `WruProxyProofs!ProxyUsesStorage` | `ProxySpec => UsesStorage`, that is, `Spec` |
| `WruProxySafety!NoForeignLogin` | `ProxySpec => []ForwardedAsSelf` |
| `WruProxySafety!ProxySessionsHaveUsers` | `ProxySpec => []KnownHasUserDoc` |
| `WruProxySafety!LogoutIsFinal` | `ProxySpec => []LoggedOutIsOut` |
| `WruProxySafety!LoginsLand` | `ProxySpec => []LandsWhereAsked` |
| `WruProxySafety!SessionsAreKept` | `ProxySpec => LoginLostOnlyByOverlap` |
| `GatewayProofs!GatewayTypeCorrectness` | `Spec => []GatewayTypeOK` |
| `GatewayProofs!LastStartConfirms` | `Spec => []ConfirmedByLastStart` |
| `GatewayProofs!ClientsAreSet` | `Spec => []NoNilClient` |
| `GatewayProofs!ServesWithProvider` | `Spec => []SomeLoginWorks` |

* `IInv` adds three facts to the types: every local variable is set before it is
  used (`LocalsSet`), a document in the store or in a caller's hands belongs to
  the login of its id (`DocsMatchOrigin`), and an id drawn for a new document is
  unshared and unused (`NewIdsFresh`). Without the third, a `Create` could
  overwrite a login; without the second, a stale `Replace` could change one.
  Each is needed for the next step of the others.
* The refinement reads the phase of an id off the store and `origin`; each store
  call stutters, opens, carries or closes one id.
* `KnownHasUserDoc` is not inductive: `UserInv` follows an id from its creation
  through the calls that are about to hand it out (`CallKnown`).
* `DeadInv` is for a store that answers: the ids in `ended` are closed, and so is the
  session of a call that goes on after its `Delete` (`CallGone`). That a closed id
  stays closed is the refinement: `SessionLifecycle` has no step that reopens one.
* What callers pass is known or listed (`Passed`). `Listed` only grows (`ListedGrows`): a
  user document is never removed, and an id keeps its login.
* `ListedIsActive` and `DataLostOnlyByStaleReplace` follow from `UserInv` and `IInv`, the
  second one action by action.
* `IsoInv` makes an operation atomic that is up to six store calls. Its core is
  `Held`: what a call found when it began (`before`) is still in the store, unless the
  call has changed it itself (`SessionHeld`, `DataHeld`, `TimesHeld`); it needs `KeepApart`,
  which says that two calls under way share neither a session nor a user, and
  `IInv`, for what a call's copies are of. With it the mapped session and data move at the one
  step at which a call returns, and `Refines` has, for each action of each operation,
  the step of `SessionAPI`: `Wait` before that, `Answered` there. `MaxFaults = 0`: the
  interface knows no failures, and a call that fails half way is not atomic.
* `StampInv` says that what the reloading goroutine has read is a version of the
  table not older than the time stamp it took before.
* `LastRowWins` is about a loop over a table of any length. `Build` is a fold, and a fold is
  what its equation says by an induction over the rows. The induction is made by hand: if
  two functions that satisfy the equation differ, they differ at a least number of rows
  (`LeastOf`), which the equation excludes (`FoldIsUnique`, `BuildIsRegister`). The
  maps after `n` rows are then shown to be the last ones of the first `n` in the same
  way, and `AccountsResolve` and the types follow.
* `EnvAgreesWithTable` compares two loops, over the columns of a row (`CsvUser`) and over the
  fields of a variable (`parseUserFromEnv`), of any number of columns with any headers.
  Neither has a recursive definition to expand: that a function with its equation
  exists at all is again shown by the least counterexample (`RecursionExists`). The loops are then
  run side by side (`SameUser`): what a column does to the user is what its fields do, one
  field for an ordinary column and one per scope for a column of scopes. A cell has up to two pieces.
* `DirectivesAreStored` has no loop but that over two directives; its proof is about the
  places of characters. What the parser takes for the key must begin at the first
  character (the leftmost one) and, where the first "=" has no later rival (`Plain`), can end
  only with the written key (`CutIs`).
* `ProxyInv` ties the place of a handler to the operation its goroutine is in
  (`InCall`) and to the ids it holds (`Handled`); with it every step of the proxy is
  a step or a stutter of `Spec`, so every theorem about `SessionStorage` holds of
  the proxy.
* `PersonInv` says whom a login may name: the user of a request in hand, and every
  user in `was`, is the one of the account of the browser's person or of the blank
  account, and the ids of other browsers and the states of other logins do not come in.
* `SelfInv` adds `IdsMine`: each id that a browser holds, that one of its requests
  holds, or that a call has drawn for one of its requests stands for a user whom
  that browser has logged in as. It needs `UserInv`, since an id being created must
  not be one that somebody already holds, or has seen in a list (`Seen`).
  `NoForeignLogin` is the two together.
* `OverInv` follows what `LoggedOutIsOut` is about: a session that a response says is
  logged out has no user any more (`Over`: it has no document, or it is one before
  login), which by `SelfInv` and `DeadStays` it never gets back; a request that left
  later is not forwarded, and its look-up does not come to the user's document.
* `LoginInv` is for a store that answers. Its part on documents (`InfoInv`) and cookies
  (`Wanted`) says that a session before login has a landing page which its browser asked
  for, and `Lands` follows the page through each place of each handler, from the
  request that started the login through the exchanges of its id to the response that ends
  it. `Loses` follows the look-up: a request that starts another login, and so
  replaces a cookie, has found the session of its own cookie over, logged out by itself or idle.
  Both need `SelfInv`, since an id must be of the browser whose pages are counted.
* `GInv` of the gateway adds to the types: what a process has set up in each phase
  (`ProcessInv`), that the last start of a login session is the one whose key its
  provider's callback is compared with (`StartsInv`), and what each request holds
  (`RequestInv`). `StartsInv` is why late callbacks of earlier starts at the other
  provider, whose key is still in the document, do not match.

Model-checked only: liveness under fairness (`EveryCallReturns`, `ExpiredIsPurged`,
`YoungerFileIsLoaded`, `InterruptEnds`), which with ENABLED is beyond the prover. So are the
library's induction theorems; where a proof needs one, the least counterexample takes
its place.

## 5. Not modelled

* `Config`: the parsers of single variables (`WRU_FORWARD_TO`, the cookie's field, terms,
  defaults). Whether all of them parse is one outcome (`valid`).
* The choice of a route in `reverseproxy.go`: the first route whose path is a prefix of
  the request's. "No route" is an outcome of `Backend`; the scopes of a route are read
  and shown, and nothing depends on them.
* Paths and URLs of the table and of the storage, formatting, JSON, the
  geographic look-up of an address, the languages of a browser: data that no
  property tells apart.
* `RedisSessionStorage` (every method panics), templates, test helpers.
* The protocols of the providers: external calls with an outcome.

## 6. Plan

Done: sections 2 to 4, in the order storage, its life cycle, the register, the proxy,
the atomic interface, the process and its logins, the parsers; the proofs in the
same order.

Left, the model: an operator for the route choice and for `WRU_FORWARD_TO` against a
reference; a property on session data being there for the next request of the
browser (the middleware stores it after the answer).

Left, the proofs: none of the safety properties that a run checks.
