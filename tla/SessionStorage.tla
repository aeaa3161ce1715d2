--------------------------- MODULE SessionStorage ---------------------------
(***************************************************************************)
(* ServerlessSessionStorage (serverless_sessionstorage.go): the sessions   *)
(* of wru in two document collections.  Each request of the proxy runs one *)
(* operation at a time; the operations of several requests, and of several *)
(* wru processes, interleave between their document store calls, each of   *)
(* which is atomic.  No document has a revision, so Replace overwrites     *)
(* what others wrote since the caller's Get.                               *)
(*                                                                         *)
(* One action is one document store call with the code up to the next one. *)
(* LoginInfo and the user's profile are data that no decision of this file *)
(* depends on and are left out.                                            *)
(***************************************************************************)
EXTENDS Naturals

CONSTANTS
  Proc,             \* the goroutines that serve requests
  Sid,              \* session ids: UUIDs, each drawn at most once
  User, Key, Value, \* user ids, keys and (non-empty) values of session data
  NoSid, NoUser, NoValue,  \* the empty strings: no cookie, no owner, no value
  NoDoc,            \* no document has this id
  Keep,             \* a directive list that does not mention a key
  LoginTimeout, IdleTimeout, AbsoluteTimeout,  \* the Config's terms
  Ops,              \* the operations the callers use
  MaxTime,          \* bound on the clock
  MaxFaults         \* bound on failed document store calls and crashes

Operation == {"StartLogin", "AddLoginInfo", "StartSession", "Logout",
              "FindBySessionToken", "UpdateSessionData", "RenewSession"}

ASSUME TermsAssumption == /\ LoginTimeout \in Nat
                          /\ IdleTimeout \in Nat
                          /\ AbsoluteTimeout \in Nat
ASSUME BoundsAssumption == MaxTime \in Nat /\ MaxFaults \in Nat
ASSUME OpsAssumption == Ops \subseteq Operation
ASSUME NoneAssumption == /\ NoSid \notin Sid
                         /\ NoUser \notin User
                         /\ NoValue \notin Value
                         /\ Keep \notin Value \cup {NoValue}

VARIABLES
  now,      \* currentTime
  single,   \* the collection singleSessions
  userSes,  \* the collection userSessions
  call,     \* call[p]: the operation p is running, with its local variables
  reply,    \* what the last step returned to its caller, "none" if it did not return
  faults,   \* failed calls and crashes so far
  known,    \* history: the ids that some call has returned to its caller
  origin,   \* history: the login that each id stands for, set when it is created
  ended     \* history: the ids whose end some call has reported

vars == <<now, single, userSes, call, reply, faults, known, origin, ended>>

-----------------------------------------------------------------------------
Owner     == User \cup {NoUser}
SingleDoc == [user : Owner, loginAt : Nat, lastAccessAt : Nat]
Data      == [Key -> Value \cup {NoValue}]
UserDoc   == [sessions : SUBSET Sid, data : Data]
Ticket    == [user : Owner, loginAt : Nat]

ASSUME NoDocAssumption == NoDoc \notin SingleDoc \cup UserDoc \cup Ticket

(* The net effect of a list of directives on each key; "" removes a key.   *)
Directives   == [Key -> Value \cup {NoValue, Keep}]
NoDirectives == [k \in Key |-> Keep]
(* Mutant: the directives replace the data.                                *)
ApplyOverwrites(dirs, data) == dirs

Apply(dirs, data) == [k \in Key |-> IF dirs[k] = Keep THEN data[k] ELSE dirs[k]]

PC == {"idle", "generate", "create_login",
       "add_get", "add_delete", "add_create",
       "start_get", "start_delete", "start_create", "start_get_user",
       "start_create_user", "start_replace_user",
       "logout_get", "logout_get_user", "logout_replace_user", "logout_delete",
       "read_get", "read_get_user", "update_user", "update_single",
       "renew_get", "renew_create", "renew_delete"}

Reply == {"none", "ok", "error", "invalid", "before", "active", "idle", "panic"}

Call == [pc : PC, op : Operation \cup {"none"}, sid : Sid \cup {NoSid},
         user : Owner, dirs : Directives, new : Sid \cup {NoSid},
         ses : SingleDoc \cup {NoDoc}, uses : UserDoc \cup {NoDoc}, at : Nat]

Idle == [pc |-> "idle", op |-> "none", sid |-> NoSid, user |-> NoUser,
         dirs |-> NoDirectives, new |-> NoSid, ses |-> NoDoc, uses |-> NoDoc,
         at |-> 0]

TypeOK == /\ now \in 0..MaxTime
          /\ single  \in [Sid -> SingleDoc \cup {NoDoc}]
          /\ userSes \in [User -> UserDoc \cup {NoDoc}]
          /\ call    \in [Proc -> Call]
          /\ reply   \in Reply
          /\ faults  \in 0..MaxFaults
          /\ known   \subseteq Sid
          /\ origin  \in [Sid -> Ticket \cup {NoDoc}]
          /\ ended   \subseteq Sid

Init == /\ now = 0
        /\ single  = [s \in Sid |-> NoDoc]
        /\ userSes = [u \in User |-> NoDoc]
        /\ call    = [p \in Proc |-> Idle]
        /\ reply   = "none"
        /\ faults  = 0
        /\ known   = {}
        /\ origin  = [s \in Sid |-> NoDoc]
        /\ ended   = {}

-----------------------------------------------------------------------------
(* A document store call answers "ok", or it fails: "lost" did not reach   *)
(* the store, "late" took effect but its answer did not come back (a       *)
(* cancelled request context does either).                                 *)
Answer == {"ok", "lost", "late"}

Works  == faults' = faults
Fails  == faults < MaxFaults /\ faults' = faults + 1
Gives(a) == IF a = "ok" THEN Works ELSE Fails

Reads(p, pc) == call[p].pc = pc /\ UNCHANGED <<now, single, userSes, origin>>

PutSingle(s, doc, a) ==
  /\ Gives(a)
  /\ single' = IF a = "lost" THEN single ELSE [single EXCEPT ![s] = doc]
  /\ UNCHANGED <<now, userSes>>

(* Create of a session document, which begins or continues a login.        *)
CreateSingle(p, doc, ticket, a) ==
  /\ PutSingle(call[p].new, doc, a)
  /\ origin' = IF a = "lost" THEN origin
                             ELSE [origin EXCEPT ![call[p].new] = ticket]

ReplaceSingle(p, doc, a) == PutSingle(call[p].sid, doc, a) /\ UNCHANGED origin

DeleteSingle(p, a) == PutSingle(call[p].sid, NoDoc, a) /\ UNCHANGED origin

PutUser(u, doc, a) ==
  /\ Gives(a)
  /\ userSes' = IF a = "lost" THEN userSes ELSE [userSes EXCEPT ![u] = doc]
  /\ UNCHANGED <<now, single, origin>>

(* The document of the session p works on, and of that session's user.     *)
Doc(p)     == single[call[p].sid]
UserIn(c)  == IF c.op = "StartSession" THEN c.user ELSE c.ses.user

Owned(s) == s \in Sid /\ origin[s] # NoDoc /\ origin[s].user # NoUser

(* The ids whose end p's caller may rely on when the operation returns res *)
(* and the id s: an id that was exchanged for another, a user's session    *)
(* that was logged out, a user's session that was reported invalid.        *)
Ends(p, res, s) ==
  LET c == call[p] IN
  {c.sid} \cap {t \in Sid :
     \/ res = "ok" /\ c.op = "Logout" /\ Owned(t)
     \/ res = "ok" /\ c.op \in {"AddLoginInfo", "StartSession"}
     \/ res = "ok" /\ c.op = "RenewSession" /\ s # t
     \/ res = "invalid" /\ Owned(t)}

Return(p, res, s) == /\ call'  = [call EXCEPT ![p] = Idle]
                     /\ reply' = res
                     /\ known' = known \cup ({s} \ {NoSid})
                     /\ ended' = ended \cup Ends(p, res, s)

GoOn(p, c) == /\ call'  = [call EXCEPT ![p] = c]
              /\ reply' = "none"
              /\ UNCHANGED <<known, ended>>

Goto(p, pc) == GoOn(p, [call[p] EXCEPT !.pc = pc])
Load(p, pc) == GoOn(p, [call[p] EXCEPT !.pc = pc, !.ses = Doc(p)])
LoadUser(p, pc) ==
  GoOn(p, [call[p] EXCEPT !.pc = pc, !.uses = userSes[UserIn(call[p])]])

-----------------------------------------------------------------------------
(* The operations begin.  A caller passes an id that it got from an        *)
(* earlier call; only DebugLogin passes the empty id, and a nil user.      *)
(* SessionLogout passes any id that a page of sessions has shown.          *)
Begin(p, op, s, u, dirs, pc) ==
  /\ call[p].pc = "idle"
  /\ op \in Ops
  /\ GoOn(p, [Idle EXCEPT !.pc = pc, !.op = op, !.sid = s, !.user = u,
                          !.dirs = dirs])
  /\ UNCHANGED <<now, single, userSes, faults, origin>>

(* What GetUserSessions may have listed by now.  A lookup precedes it: the *)
(* user of the listed sessions has a user document, or is nobody, and then *)
(* the sessions before login are listed, whoever has them.  A session is   *)
(* listed from its Create on, before any call has returned its id.         *)
Listed == {s \in Sid : /\ origin[s] # NoDoc
                       /\ \/ origin[s].user = NoUser
                          \/ userSes[origin[s].user] # NoDoc}

StartLogin(p) ==
  Begin(p, "StartLogin", NoSid, NoUser, NoDirectives, "generate")
AddLoginInfo(p) == \E s \in known :
  Begin(p, "AddLoginInfo", s, NoUser, NoDirectives, "generate")
StartSession(p) == \E s \in known \cup {NoSid}, u \in Owner :
  Begin(p, "StartSession", s, u, NoDirectives, "start_get")
Logout(p) == \E s \in known \cup Listed :
  Begin(p, "Logout", s, NoUser, NoDirectives, "logout_get")
FindBySessionToken(p) == \E s \in known :
  Begin(p, "FindBySessionToken", s, NoUser, NoDirectives, "read_get")
UpdateSessionData(p) == \E s \in known, dirs \in Directives :
  Begin(p, "UpdateSessionData", s, NoUser, dirs, "read_get")
RenewSession(p) == \E s \in known :
  Begin(p, "RenewSession", s, NoUser, NoDirectives, "renew_get")

-----------------------------------------------------------------------------
(* generateNewSessionID: a UUID that no document has.  When the pool of    *)
(* ids is empty the ten draws of the loop have failed.                     *)
(* Mutant: an id is checked against the handed-out ids only.               *)
FreshUnchecked == Sid \ known

Fresh == {s \in Sid \ known : origin[s] = NoDoc /\ \A q \in Proc : call[q].new # s}

AfterGenerate(op) == CASE op = "StartLogin"   -> "create_login"
                       [] op = "AddLoginInfo" -> "add_get"
                       [] op = "StartSession" -> "start_create"
                       [] OTHER               -> "renew_create"

GenerateNewSessionID(p) ==
  /\ Reads(p, "generate")
  /\ \/ Works /\ \E s \in Fresh :
          GoOn(p, [call[p] EXCEPT !.pc = AfterGenerate(call[p].op), !.new = s])
     \/ Works /\ Fresh = {} /\ Return(p, "error", NoSid)
     \/ Fails /\ Return(p, "error", NoSid)

(* StartLogin                                                              *)
CreateLogin(p) ==
  /\ call[p].pc = "create_login"
  /\ \E a \in Answer :
       /\ CreateSingle(p, [user |-> NoUser, loginAt |-> now, lastAccessAt |-> now],
                       [user |-> NoUser, loginAt |-> now], a)
       /\ IF a = "ok" THEN Return(p, "ok", call[p].new)
                      ELSE Return(p, "error", NoSid)

(* AddLoginInfo: the answers of Delete and Create are not looked at.       *)
AddGet(p) ==
  /\ Reads(p, "add_get")
  /\ \/ Works /\ Doc(p) # NoDoc /\ Load(p, "add_delete")
     \/ Works /\ Doc(p) = NoDoc /\ Return(p, "error", NoSid)
     \/ Fails /\ Return(p, "error", NoSid)

(* Mutant: Delete is given the id that was just generated.                 *)
AddDeleteNew(p) ==
  /\ call[p].pc = "add_delete"
  /\ \E a \in Answer : PutSingle(call[p].new, NoDoc, a) /\ UNCHANGED origin
  /\ Goto(p, "add_create")

AddDelete(p) ==
  /\ call[p].pc = "add_delete"
  /\ \E a \in Answer : DeleteSingle(p, a)
  /\ Goto(p, "add_create")

AddCreate(p) ==
  /\ call[p].pc = "add_create"
  /\ \E a \in Answer : CreateSingle(p, call[p].ses, origin[call[p].sid], a)
  /\ Return(p, "ok", call[p].new)

-----------------------------------------------------------------------------
(* StartSession: only NotFound stops it at the first Get; the old session  *)
(* is deleted, whatever Delete answers, before the user is looked at.      *)
StartGet(p) ==
  /\ Reads(p, "start_get")
  /\ \/ Works /\ call[p].sid = NoSid /\ Goto(p, "generate")  \* InvalidArgument
     \/ /\ call[p].sid # NoSid
        /\ \/ Works /\ Doc(p) = NoDoc /\ Return(p, "error", NoSid)
           \/ Works /\ Doc(p) # NoDoc /\ Goto(p, "start_delete")
           \/ Fails /\ Goto(p, "start_delete")

StartDelete(p) ==
  /\ call[p].pc = "start_delete"
  /\ \E a \in Answer : DeleteSingle(p, a)
  /\ Goto(p, "generate")

(* Mutant: the login goes on under the old id.                             *)
StartCreateOldId(p) ==
  /\ call[p].pc = "start_create"
  /\ call[p].sid # NoSid /\ call[p].user # NoUser
  /\ ReplaceSingle(p, [user |-> call[p].user, loginAt |-> now,
                       lastAccessAt |-> now], "ok")
  /\ Goto(p, "start_get_user")

StartCreate(p) ==
  LET u == call[p].user IN
  /\ call[p].pc = "start_create"
  /\ u # NoUser
  /\ \E a \in Answer :
       /\ CreateSingle(p, [user |-> u, loginAt |-> now, lastAccessAt |-> now],
                       [user |-> u, loginAt |-> now], a)
       /\ IF a = "ok" THEN Goto(p, "start_get_user")
                      ELSE Return(p, "error", NoSid)

(* user.UserID of a nil user.                                              *)
StartPanic(p) ==
  /\ Reads(p, "start_create")
  /\ call[p].user = NoUser
  /\ Works /\ Return(p, "panic", NoSid)

(* Mutant: a user without a user document gets none.                       *)
StartGetUserNoCreate(p) ==
  /\ Reads(p, "start_get_user")
  /\ \/ Works /\ userSes[call[p].user] = NoDoc /\ Return(p, "ok", call[p].new)
     \/ Works /\ userSes[call[p].user] # NoDoc /\ LoadUser(p, "start_replace_user")
     \/ Fails /\ Return(p, "error", NoSid)

StartGetUser(p) ==
  /\ Reads(p, "start_get_user")
  /\ \/ Works /\ userSes[call[p].user] = NoDoc /\ Goto(p, "start_create_user")
     \/ Works /\ userSes[call[p].user] # NoDoc /\ LoadUser(p, "start_replace_user")
     \/ Fails /\ Return(p, "error", NoSid)

StartReturns(p, a) == IF a = "ok" THEN Return(p, "ok", call[p].new)
                                  ELSE Return(p, "error", NoSid)

StartCreateUser(p) ==
  LET u == call[p].user IN
  \/ /\ Reads(p, "start_create_user")
     /\ userSes[u] # NoDoc  \* AlreadyExists
     /\ Works /\ Return(p, "error", NoSid)
  \/ /\ call[p].pc = "start_create_user"
     /\ userSes[u] = NoDoc
     /\ \E a \in Answer :
          /\ PutUser(u, [sessions |-> {call[p].new},
                         data |-> [k \in Key |-> NoValue]], a)
          /\ StartReturns(p, a)

StartReplaceUser(p) ==
  /\ call[p].pc = "start_replace_user"
  /\ \E a \in Answer :
       /\ PutUser(call[p].user,
                  [call[p].uses EXCEPT !.sessions = @ \cup {call[p].new}], a)
       /\ StartReturns(p, a)

-----------------------------------------------------------------------------
(* Logout, called by a handler or, with its result ignored, by an          *)
(* operation that found the session expired.  It puts the user document    *)
(* back as it read it: the filtered list of ids is never stored.           *)
LogoutReturns(p, res) ==
  Return(p, IF call[p].op = "Logout" THEN res ELSE "invalid", NoSid)

LogoutGet(p) ==
  /\ Reads(p, "logout_get")
  /\ \/ Works /\ Doc(p) # NoDoc /\ Load(p, "logout_get_user")
     \/ Works /\ Doc(p) = NoDoc /\ LogoutReturns(p, "ok")
     \/ Fails /\ LogoutReturns(p, "ok")

LogoutGetUser(p) ==
  LET u == call[p].ses.user IN
  /\ Reads(p, "logout_get_user")
  /\ \/ Works /\ u = NoUser /\ LogoutReturns(p, "ok")  \* InvalidArgument
     \/ Works /\ u # NoUser /\ userSes[u] = NoDoc /\ LogoutReturns(p, "ok")
     \/ Works /\ u # NoUser /\ userSes[u] # NoDoc /\ LoadUser(p, "logout_replace_user")
     \/ Fails /\ LogoutReturns(p, "ok")

(* Mutants: the user document is rebuilt from the ids alone; the function  *)
(* returns after Replace.                                                  *)
LogoutReplaceUserBlank(p) ==
  /\ call[p].pc = "logout_replace_user"
  /\ \E a \in Answer : PutUser(call[p].ses.user,
       [call[p].uses EXCEPT !.data = [k \in Key |-> NoValue]], a)
  /\ Goto(p, "logout_delete")

LogoutReplaceUserOnly(p) ==
  /\ call[p].pc = "logout_replace_user"
  /\ \E a \in Answer : PutUser(call[p].ses.user, call[p].uses, a)
  /\ LogoutReturns(p, "ok")

LogoutReplaceUser(p) ==
  /\ call[p].pc = "logout_replace_user"
  /\ \E a \in Answer : PutUser(call[p].ses.user, call[p].uses, a)
  /\ Goto(p, "logout_delete")

LogoutDelete(p) ==
  /\ call[p].pc = "logout_delete"
  /\ \E a \in Answer :
       /\ DeleteSingle(p, a)
       /\ LogoutReturns(p, IF a = "ok" THEN "ok" ELSE "error")

-----------------------------------------------------------------------------
(* readSession, the first half of FindBySessionToken and of                *)
(* UpdateSessionData.  The clock is read once, after the first Get.        *)
Expired(t, doc, term) == t - doc.loginAt > term
Idling(t, doc) == t - doc.lastAccessAt > IdleTimeout

(* Before login there is no user document: a list of directives for it     *)
(* dereferences nil.                                                       *)
ReadBeforeLogin(p) ==
  \/ call[p].op = "FindBySessionToken" /\ Return(p, "before", NoSid)
  \/ /\ call[p].op = "UpdateSessionData"
     /\ IF call[p].dirs = NoDirectives THEN Load(p, "update_single")
                                       ELSE Return(p, "panic", NoSid)

ReadGet(p) ==
  /\ Reads(p, "read_get")
  /\ \/ Works /\ Doc(p) = NoDoc /\ Return(p, "invalid", NoSid)
     \/ Fails /\ Return(p, "error", NoSid)
     \/ /\ Works /\ Doc(p) # NoDoc
        /\ Doc(p).user # NoUser
        /\ GoOn(p, [call[p] EXCEPT !.pc = "read_get_user", !.ses = Doc(p),
                                   !.at = now])
     \/ /\ Works /\ Doc(p) # NoDoc
        /\ Doc(p).user = NoUser
        /\ IF Expired(now, Doc(p), LoginTimeout) THEN Goto(p, "logout_get")
                                                 ELSE ReadBeforeLogin(p)

ReadGetUser(p) ==
  LET c   == call[p]
      doc == userSes[c.ses.user]
      expired == Expired(c.at, c.ses, AbsoluteTimeout) IN
  /\ Reads(p, "read_get_user")
  /\ \/ Works /\ doc = NoDoc /\ Return(p, "error", NoSid)
     \/ Fails /\ Return(p, "error", NoSid)
     \/ Works /\ doc # NoDoc /\ expired /\ Goto(p, "logout_get")
     \/ /\ Works /\ doc # NoDoc /\ ~ expired
        /\ c.op = "FindBySessionToken"
        /\ Return(p, IF Idling(c.at, c.ses) THEN "idle" ELSE "active", NoSid)
     \/ /\ Works /\ doc # NoDoc /\ ~ expired
        /\ c.op = "UpdateSessionData"
        /\ GoOn(p, [c EXCEPT
                      !.pc = IF c.dirs = NoDirectives THEN "update_single"
                                                      ELSE "update_user",
                      !.uses = [doc EXCEPT !.data = Apply(c.dirs, @)]])

(* UpdateSessionData, after readSession: the answer of the first Replace   *)
(* is not looked at; Replace finds no document that was deleted meanwhile. *)
UpdateUser(p) ==
  /\ call[p].pc = "update_user"
  /\ \E a \in Answer : PutUser(call[p].ses.user, call[p].uses, a)
  /\ Goto(p, "update_single")

(* Mutants: Put instead of Replace; the access also renews the login time; *)
(* a missing document is waited for.                                       *)
UpdateSinglePut(p) ==
  /\ call[p].pc = "update_single"
  /\ ReplaceSingle(p, [call[p].ses EXCEPT !.lastAccessAt = now], "ok")
  /\ Return(p, "ok", NoSid)

UpdateSingleLoginAt(p) ==
  /\ call[p].pc = "update_single"
  /\ Doc(p) # NoDoc
  /\ ReplaceSingle(p, [call[p].ses EXCEPT !.loginAt = now,
                                          !.lastAccessAt = now], "ok")
  /\ Return(p, "ok", NoSid)

UpdateSingleRetry(p) ==
  /\ call[p].pc = "update_single"
  /\ ReplaceSingle(p, Doc(p), "ok")
  /\ IF Doc(p) = NoDoc THEN Goto(p, "update_single") ELSE Return(p, "ok", NoSid)

UpdateSingle(p) ==
  \/ /\ Reads(p, "update_single")
     /\ Doc(p) = NoDoc
     /\ Works /\ Return(p, "error", NoSid)
  \/ /\ call[p].pc = "update_single"
     /\ Doc(p) # NoDoc
     /\ \E a \in Answer :
          /\ ReplaceSingle(p, [call[p].ses EXCEPT !.lastAccessAt = now], a)
          /\ Return(p, IF a = "ok" THEN "ok" ELSE "error", NoSid)

-----------------------------------------------------------------------------
(* RenewSession                                                            *)
RenewGet(p) ==
  LET expired == Expired(now, Doc(p), AbsoluteTimeout)
      idling  == Idling(now, Doc(p)) IN
  /\ Reads(p, "renew_get")
  /\ \/ Works /\ Doc(p) = NoDoc /\ Return(p, "invalid", NoSid)
     \/ Fails /\ Return(p, "error", NoSid)
     \/ Works /\ Doc(p) # NoDoc /\ expired /\ Goto(p, "logout_get")
     \/ Works /\ Doc(p) # NoDoc /\ ~ expired /\ idling /\ Load(p, "generate")
     \/ /\ Works /\ Doc(p) # NoDoc /\ ~ expired /\ ~ idling
        /\ Return(p, "ok", call[p].sid)

(* Mutant: the renewed session is stamped as a new login.                  *)
RenewCreateNow(p) ==
  /\ call[p].pc = "renew_create"
  /\ CreateSingle(p, [call[p].ses EXCEPT !.loginAt = now],
                  origin[call[p].sid], "ok")
  /\ Goto(p, "renew_delete")

RenewCreate(p) ==
  /\ call[p].pc = "renew_create"
  /\ \E a \in Answer :
       /\ CreateSingle(p, call[p].ses, origin[call[p].sid], a)
       /\ IF a = "ok" THEN Goto(p, "renew_delete") ELSE Return(p, "error", NoSid)

RenewDelete(p) ==
  /\ call[p].pc = "renew_delete"
  /\ \E a \in Answer :
       /\ DeleteSingle(p, a)
       /\ IF a = "ok" THEN Return(p, "ok", call[p].new)
                      ELSE Return(p, "error", NoSid)

-----------------------------------------------------------------------------
(* The request dies between two store calls: the process is killed, or     *)
(* net/http recovers a panic of the handler.                               *)
Crash(p) == /\ call[p].pc # "idle"
            /\ Fails /\ GoOn(p, Idle)
            /\ UNCHANGED <<now, single, userSes, origin>>

Tick == /\ now < MaxTime
        /\ now' = now + 1
        /\ reply' = "none"
        /\ UNCHANGED <<single, userSes, call, faults, known, origin, ended>>

Start(p) == \/ StartLogin(p) \/ AddLoginInfo(p) \/ StartSession(p) \/ Logout(p)
            \/ FindBySessionToken(p) \/ UpdateSessionData(p) \/ RenewSession(p)

Step(p) ==
  \/ GenerateNewSessionID(p) \/ CreateLogin(p)
  \/ AddGet(p) \/ AddDelete(p) \/ AddCreate(p)
  \/ StartGet(p) \/ StartDelete(p) \/ StartCreate(p) \/ StartPanic(p)
  \/ StartGetUser(p) \/ StartCreateUser(p) \/ StartReplaceUser(p)
  \/ LogoutGet(p) \/ LogoutGetUser(p) \/ LogoutReplaceUser(p) \/ LogoutDelete(p)
  \/ ReadGet(p) \/ ReadGetUser(p) \/ UpdateUser(p) \/ UpdateSingle(p)
  \/ RenewGet(p) \/ RenewCreate(p) \/ RenewDelete(p)

Next == Tick \/ \E p \in Proc : Start(p) \/ Step(p) \/ Crash(p)

Spec == Init /\ [][Next]_vars

(* The Go scheduler runs a goroutine whose store call has answered.        *)
FairSpec == Spec /\ \A p \in Proc : WF_vars(Step(p))

-----------------------------------------------------------------------------
(* GetUserSessions only reads: its answer for the user u.                  *)
(* Mutant: only the idle timeout is looked at.                             *)
GetUserSessionsIdleOnly(u) ==
  {s \in Sid : /\ single[s] # NoDoc
               /\ single[s].user = u
               /\ now - single[s].lastAccessAt < IdleTimeout}

GetUserSessions(u) ==
  {s \in Sid : /\ single[s] # NoDoc
               /\ single[s].user = u
               /\ now - single[s].loginAt < AbsoluteTimeout
               /\ now - single[s].lastAccessAt < IdleTimeout}

-----------------------------------------------------------------------------
(* Inductive invariant.                                                    *)

ToCreate == {"create_login", "add_get", "add_delete", "add_create",
             "start_create", "renew_create"}
HasNew  == ToCreate \cup {"start_get_user", "start_create_user",
                          "start_replace_user", "renew_delete"}
HasSes  == {"add_delete", "add_create", "renew_create", "renew_delete",
            "logout_get_user", "logout_replace_user", "logout_delete",
            "read_get_user", "update_user", "update_single"}
HasSid  == HasSes \cup {"add_get", "start_delete", "logout_get", "read_get",
                        "renew_get"}
HasUser == {"start_get_user", "start_create_user", "start_replace_user",
            "logout_replace_user", "read_get_user", "update_user"}
HasUses == {"start_replace_user", "logout_replace_user", "update_user"}

OpAt(pc) ==
  CASE pc = "generate" -> {"StartLogin", "AddLoginInfo", "StartSession", "RenewSession"}
    [] pc = "create_login" -> {"StartLogin"}
    [] pc \in {"add_get", "add_delete", "add_create"} -> {"AddLoginInfo"}
    [] pc \in {"start_get", "start_delete", "start_create", "start_get_user",
               "start_create_user", "start_replace_user"} -> {"StartSession"}
    [] pc \in {"renew_get", "renew_create", "renew_delete"} -> {"RenewSession"}
    [] pc \in {"read_get", "read_get_user"} -> {"FindBySessionToken", "UpdateSessionData"}
    [] pc \in {"update_user", "update_single"} -> {"UpdateSessionData"}
    [] pc = "idle" -> {"none"}
    [] OTHER -> {"Logout", "FindBySessionToken", "UpdateSessionData", "RenewSession"}

(* Every local variable is set before it is used.                          *)
LocalSet(c) ==
  /\ c.op \in OpAt(c.pc)
  /\ c.pc \in HasNew  => c.new \in Sid
  /\ c.pc \in HasSid \/ c.op \in {"AddLoginInfo", "RenewSession"} => c.sid \in Sid
  /\ c.pc \in HasSes \/ (c.pc = "generate" /\ c.op = "RenewSession") => c.ses # NoDoc
  /\ c.pc \in HasUser => UserIn(c) \in User
  /\ c.pc \in HasUses => c.uses # NoDoc

LocalsSet == \A p \in Proc : LocalSet(call[p])

SameLogin(s, doc) == /\ s \in Sid
                     /\ origin[s] # NoDoc
                     /\ doc.user = origin[s].user
                     /\ doc.loginAt = origin[s].loginAt

(* A session document, in the store or in a caller's hands, belongs to the *)
(* login that its id stands for.                                           *)
DocsMatchOrigin == /\ \A s \in Sid : single[s] # NoDoc => SameLogin(s, single[s])
                   /\ \A p \in Proc : call[p].ses # NoDoc =>
                                        SameLogin(call[p].sid, call[p].ses)

(* The id that a call is about to create is its own and was never created. *)
NewIdsFresh == \A p \in Proc :
  /\ call[p].pc \in ToCreate => origin[call[p].new] = NoDoc
  /\ \A q \in Proc : call[p].new = call[q].new => p = q \/ call[p].new = NoSid

IInv == TypeOK /\ LocalsSet /\ DocsMatchOrigin /\ NewIdsFresh

-----------------------------------------------------------------------------
(* Safety.                                                                 *)

Returns(p, res) == call[p].pc # "idle" /\ call'[p].pc = "idle" /\ reply' = res

(* An id that was exchanged for another by AddLoginInfo, StartSession or   *)
(* RenewSession, logged out, or reported invalid, has no document ever     *)
(* after: no operation that had read it before brings it back.  It takes a *)
(* store whose calls all succeed.                                          *)
EndedStaysDead == faults = 0 => \A s \in ended : single[s] = NoDoc

(* readSession answers "invalid user id" for a session without user        *)
(* document.  No id that a caller holds gets there, whatever fails: the    *)
(* user document is there before StartSession hands out the id.            *)
KnownHasUserDoc ==
  \A s \in known : single[s] # NoDoc /\ single[s].user # NoUser
                     => userSes[single[s].user] # NoDoc

(* A lookup answers "active" only for a user's login that is not older     *)
(* than the absolute timeout when it reads the clock, however often        *)
(* updates, renewals and extra login information have moved it on.         *)
ActiveWithinTerm ==
  [][\A p \in Proc : Returns(p, "active") =>
       /\ Owned(call[p].sid)
       /\ call[p].ses.user = origin[call[p].sid].user
       /\ call[p].at - origin[call[p].sid].loginAt <= AbsoluteTimeout]_vars

(* Session data changes only by the directives of an UpdateSessionData, or *)
(* because a login or a logout writes back a user document that is no      *)
(* longer the one in the store.                                            *)
DataLostOnlyByStaleReplace ==
  [][\A u \in User :
       userSes[u] # NoDoc /\ userSes'[u].data # userSes[u].data =>
         \E p \in Proc : /\ call'[p] # call[p]
                         /\ \/ call[p].pc = "update_user"
                            \/ /\ call[p].pc \in {"start_replace_user",
                                                  "logout_replace_user"}
                               /\ call[p].uses # userSes[u]]_vars

(* GetUserSessions and readSession decide on expiry with comparisons of    *)
(* their own: what the one lists, a lookup of its id at the same instant   *)
(* would report active, and the other way round but at the very instant at *)
(* which a term ends.                                                      *)
ListedIsActive ==
  \A u \in User : \A s \in known :
    single[s] # NoDoc /\ single[s].user = u =>
      LET active == /\ userSes[u] # NoDoc
                    /\ ~ Expired(now, single[s], AbsoluteTimeout)
                    /\ ~ Idling(now, single[s])
      IN /\ s \in GetUserSessions(u) => active
         /\ active => \/ s \in GetUserSessions(u)
                      \/ now - single[s].loginAt = AbsoluteTimeout
                      \/ now - single[s].lastAccessAt = IdleTimeout

(* The life of one id, and the login it stands for.                        *)
Phase == [s \in Sid |-> IF single[s] # NoDoc THEN "open"
                        ELSE IF origin[s] # NoDoc THEN "closed" ELSE "fresh"]

LoginTicket == [s \in Sid |-> IF single[s] # NoDoc
                              THEN [user |-> single[s].user,
                                    loginAt |-> single[s].loginAt]
                              ELSE origin[s]]

Lifecycle == INSTANCE SessionLifecycle
             WITH NoTicket <- NoDoc, phase <- Phase, ticket <- LoginTicket

(* Whatever calls race and fail, an id is opened once, stands for one      *)
(* login from then on, and does not come back once it is gone.             *)
ImplementsLifecycle == Lifecycle!Spec

-----------------------------------------------------------------------------
(* Liveness, under FairSpec and with a store whose calls succeed.          *)

(* No operation waits for another or retries for ever.                     *)
EveryCallReturns == \A p \in Proc : call[p].pc # "idle" ~> call[p].pc = "idle"

(* A user's session that a lookup or an update finds beyond the absolute   *)
(* timeout leaves the store.                                               *)
ExpiredIsPurged ==
  \A p \in Proc, s \in Sid :
    /\ call[p].pc = "read_get_user"
    /\ call[p].sid = s
    /\ Expired(call[p].at, call[p].ses, AbsoluteTimeout)
    ~> single[s] = NoDoc

-----------------------------------------------------------------------------
(* What the tests and the README say and concurrent or repeated calls of   *)
(* the code do not do.                                                     *)

(* Session data is what the responses stored (README.md:124-125): no other *)
(* operation changes it.                                                   *)
OnlyUpdatesChangeData ==
  [][\A u \in User :
       userSes[u] # NoDoc /\ userSes'[u].data # userSes[u].data =>
         \E p \in Proc : call'[p] # call[p] /\ call[p].pc = "update_user"]_vars
=============================================================================
