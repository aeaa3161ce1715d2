------------------------ MODULE SessionStorageSafety ------------------------
(***************************************************************************)
(* What callers and users may rely on, for any processes, ids, users, keys *)
(* and terms.  No caller holds the id of a session whose user document is  *)
(* missing: that document is written after the session document, so an id  *)
(* may be handed out only when both are there, and UserInv follows it      *)
(* through the calls that are about to hand it out.  What is over stays    *)
(* over: no session comes back with a store that answers, session data is  *)
(* lost to stale documents only, and GetUserSessions lists active          *)
(* sessions.                                                               *)
(***************************************************************************)
EXTENDS SessionStorageProofs

HasDoc(u)   == u # NoUser => userSes[u] # NoDoc
KeepsDoc(u) == u # NoUser => userSes'[u] # NoDoc

NewSession == {"start_get_user", "start_create_user", "start_replace_user"}

(* The ids that callers pass.                                              *)
Passed == known \cup {NoSid} \cup Listed

(* What a call relies on: its argument was handed out, or a page listed    *)
(* it; the document it has read belongs to a user with a document; the id  *)
(* it created is the login of its user; the id it is about to create has   *)
(* not been handed out.                                                    *)
CallKnown(c) ==
  /\ c.sid \in Passed
  /\ c.ses # NoDoc => HasDoc(c.ses.user)
  /\ c.pc = "start_replace_user" => userSes[c.user] # NoDoc
  /\ c.pc \in NewSession => origin[c.new] # NoDoc /\ origin[c.new].user = c.user
  /\ c.pc = "renew_delete" => /\ origin[c.new] # NoDoc
                              /\ origin[c.new].user = c.ses.user
  /\ c.pc \in ToCreate => c.new \notin known

CallsKnown == \A p \in Proc : CallKnown(call[p])

UserInv == IInv /\ KnownHasUserDoc /\ CallsKnown

(* What every step does to the store: user documents and origins stay, and *)
(* a known id gets no document of a user without user document.            *)
StoreKeeps ==
  /\ \A u \in User : userSes[u] # NoDoc => userSes'[u] # NoDoc
  /\ \A s \in Sid : origin[s] # NoDoc => origin'[s] = origin[s]
  /\ \A s \in known : \/ single'[s] \in {single[s], NoDoc}
                      \/ KeepsDoc(single'[s].user)

-----------------------------------------------------------------------------
(* A session that was listed before its end counts as listed.              *)
LEMMA ListedStays ==
  ASSUME IInv, StoreKeeps
  PROVE  Listed \subseteq Listed'
<1>1. \A s \in Sid : origin[s] # NoDoc => origin[s].user \in Owner
  BY DEF IInv, TypeOK, Ticket
<1> QED BY <1>1 DEF Listed, StoreKeeps, Owner

(* The calls of the other processes keep what they rely on.                *)
LEMMA OthersKnown ==
  ASSUME UserInv, StoreKeeps, NEW p \in Proc, NEW q \in Proc, p # q,
         call'[q] = call[q],
         known \subseteq known', known' \subseteq Passed \cup {call[p].new}
  PROVE  CallKnown(call[q])'
<1> DEFINE c == call[q]
<1>1. c \in Call /\ LocalSet(c) /\ CallKnown(c)
  BY CallFacts DEF UserInv, CallsKnown
<1>2. c.ses # NoDoc => c.ses.user \in Owner
  BY <1>1 DEF Call, SingleDoc
<1>3. c.pc = "start_replace_user" => c.user \in User
  BY <1>1 DEF LocalSet, OpAt, HasUser, UserIn
<1>4. c.pc \in NewSession \cup {"renew_delete"} => c.new \in Sid
  BY <1>1 DEF NewSession, LocalSet, HasNew
<1>5. c.pc \in ToCreate => c.new \in Sid /\ c.new # call[p].new /\ c.new \notin Passed
  BY <1>1, NoneAssumption
  DEF LocalSet, HasNew, UserInv, IInv, NewIdsFresh, CallKnown, Passed, Listed
<1> HIDE DEF c
<1>6. c = call[q]
  BY DEF c
<1>7. /\ c.sid \in Passed'
      /\ c.ses # NoDoc => KeepsDoc(c.ses.user)
      /\ c.pc = "start_replace_user" => userSes'[c.user] # NoDoc
      /\ c.pc \in NewSession => origin'[c.new] # NoDoc /\ origin'[c.new].user = c.user
      /\ c.pc = "renew_delete" => /\ origin'[c.new] # NoDoc
                                  /\ origin'[c.new].user = c.ses.user
      /\ c.pc \in ToCreate => c.new \notin known'
  <2>1. c.sid \in Passed'
    BY <1>1, ListedStays DEF CallKnown, Passed, UserInv
  <2> QED BY <1>1, <1>2, <1>3, <1>4, <1>5, <2>1
       DEF CallKnown, HasDoc, KeepsDoc, StoreKeeps, Owner
<1> QED BY <1>6, <1>7 DEF CallKnown, HasDoc, KeepsDoc

(* A call goes on with the locals c.                                       *)
LEMMA GoOnKnown ==
  ASSUME UserInv, IInv', StoreKeeps, NEW p \in Proc, NEW c, GoOn(p, c),
         c.sid \in Passed,
         c.ses # NoDoc => KeepsDoc(c.ses.user),
         c.pc = "start_replace_user" => userSes'[c.user] # NoDoc,
         c.pc \in NewSession => origin'[c.new] # NoDoc /\ origin'[c.new].user = c.user,
         c.pc = "renew_delete" => origin'[c.new] # NoDoc /\ origin'[c.new].user = c.ses.user,
         c.pc \in ToCreate => c.new \notin known
  PROVE  UserInv'
<1>1. \A q \in Proc : call'[q] = IF q = p THEN c ELSE call[q]
  BY DEF GoOn, UserInv, IInv, TypeOK
<1>2. known' = known
  BY DEF GoOn
<1>3. CallKnown(call[p])'
  BY <1>1, <1>2, ListedStays DEF CallKnown, HasDoc, KeepsDoc, Passed, UserInv
<1>4. \A q \in Proc : q # p => CallKnown(call[q])'
  BY <1>1, <1>2, OthersKnown DEF Passed
<1>5. KnownHasUserDoc'
  <2>1. \A s \in known : single[s] # NoDoc => single[s].user \in Owner
    BY DEF UserInv, IInv, TypeOK, SingleDoc
  <2> QED BY <1>2, <2>1 DEF UserInv, KnownHasUserDoc, StoreKeeps, KeepsDoc, Owner
<1> QED BY <1>3, <1>4, <1>5 DEF UserInv, CallsKnown

(* A call returns the id s, if any.                                        *)
LEMMA ReturnKnown ==
  ASSUME UserInv, IInv', StoreKeeps, NEW p \in Proc, NEW res, NEW s,
         Return(p, res, s),
         s \in Passed \cup {call[p].new},
         s \notin known \cup {NoSid} /\ single'[s] # NoDoc =>
           KeepsDoc(single'[s].user)
  PROVE  UserInv'
<1>1. \A q \in Proc : call'[q] = IF q = p THEN Idle ELSE call[q]
  BY DEF Return, UserInv, IInv, TypeOK
<1>2. known \subseteq known' /\ known' \subseteq known \cup ({s} \ {NoSid})
  BY DEF Return
<1>3. CallKnown(call[p])'
  BY <1>1 DEF CallKnown, Idle, ToCreate, NewSession, Passed
<1>4. \A q \in Proc : q # p => CallKnown(call[q])'
  BY <1>1, <1>2, OthersKnown DEF Passed
<1>5. KnownHasUserDoc'
  <2>1. \A t \in known : single[t] # NoDoc => single[t].user \in Owner
    BY DEF UserInv, IInv, TypeOK, SingleDoc
  <2> QED BY <1>2, <2>1 DEF UserInv, KnownHasUserDoc, StoreKeeps, KeepsDoc, Owner
<1> QED BY <1>3, <1>4, <1>5 DEF UserInv, CallsKnown

(* Most calls that return hand out no new id.                              *)
LEMMA ReturnNothing ==
  ASSUME UserInv, IInv', StoreKeeps, NEW p \in Proc, NEW res, Return(p, res, NoSid)
  PROVE  UserInv'
  BY ReturnKnown DEF Passed

(* Goto to a place at which nothing more is relied on.                     *)
LEMMA GotoKnown ==
  ASSUME UserInv, IInv', StoreKeeps, NEW p \in Proc,
         NEW pc \in PC \ (NewSession \cup ToCreate \cup {"renew_delete"}), Goto(p, pc)
  PROVE  UserInv'
<1> DEFINE c == [call[p] EXCEPT !.pc = pc]
<1>1. call[p] \in Call /\ CallKnown(call[p])
  BY CallFacts DEF UserInv, CallsKnown
<1>2. c.pc = pc /\ c.ses = call[p].ses /\ c.sid = call[p].sid
  BY <1>1, PcChange
<1>3. c.ses # NoDoc => c.ses.user \in Owner
  BY <1>1, <1>2 DEF Call, SingleDoc
<1>4. GoOn(p, c)
  BY DEF Goto
<1> HIDE DEF c
<1>5. c.ses # NoDoc => KeepsDoc(c.ses.user)
  BY <1>1, <1>2, <1>3 DEF CallKnown, HasDoc, KeepsDoc, StoreKeeps, Owner
<1> QED BY <1>1, <1>2, <1>4, <1>5, GoOnKnown DEF CallKnown, NewSession

-----------------------------------------------------------------------------
(* The store calls.                                                        *)

(* A read keeps what calls rely on.                                        *)
LEMMA ReadKeeps ==
  ASSUME NEW p \in Proc, NEW pc, Reads(p, pc)
  PROVE  StoreKeeps
  BY DEF Reads, StoreKeeps

(* So does a Delete.                                                       *)
LEMMA DeleteKeeps ==
  ASSUME UserInv, NEW p \in Proc, NEW a \in Answer, DeleteSingle(p, a)
  PROVE  StoreKeeps
  BY DEF UserInv, IInv, TypeOK, DeleteSingle, PutSingle, StoreKeeps

(* So does a Replace by a document whose user has a document.              *)
LEMMA ReplaceKeeps ==
  ASSUME UserInv, NEW p \in Proc, NEW a \in Answer, NEW doc,
         ReplaceSingle(p, doc, a), HasDoc(doc.user)
  PROVE  StoreKeeps
  BY DEF UserInv, IInv, TypeOK, ReplaceSingle, PutSingle, StoreKeeps, HasDoc, KeepsDoc

(* So does a new version of a user document.                               *)
LEMMA PutUserKeeps ==
  ASSUME UserInv, NEW u, NEW a \in Answer, NEW doc \in UserDoc, PutUser(u, doc, a)
  PROVE  StoreKeeps
  BY NoDocAssumption DEF UserInv, IInv, TypeOK, PutUser, StoreKeeps

(* So does a Create: nobody knows its id yet.                              *)
LEMMA CreateKeeps ==
  ASSUME UserInv, NEW p \in Proc, call[p].pc \in ToCreate,
         NEW a \in Answer, NEW doc, NEW ticket, CreateSingle(p, doc, ticket, a)
  PROVE  StoreKeeps
<1>1. call[p].new \in Sid /\ origin[call[p].new] = NoDoc /\ call[p].new \notin known
  BY CallFacts
  DEF UserInv, IInv, CallsKnown, CallKnown, NewIdsFresh, LocalSet, HasNew
<1> QED BY <1>1 DEF UserInv, IInv, TypeOK, CreateSingle, PutSingle, StoreKeeps

-----------------------------------------------------------------------------
(* The steps of the calls.  IInv' comes from NextIInv.                     *)

(* What a call holds, from both invariants.                                *)
LEMMA UserFacts ==
  ASSUME UserInv, NEW p \in Proc
  PROVE  /\ IInv /\ call[p] \in Call /\ LocalSet(call[p]) /\ CallKnown(call[p])
         /\ call[p].sid \in Sid /\ Doc(p) # NoDoc =>
              Doc(p) \in SingleDoc /\ HasDoc(Doc(p).user)
<1>1. call[p] \in Call /\ LocalSet(call[p]) /\ CallKnown(call[p])
  BY CallFacts DEF UserInv, CallsKnown
<1>2. ASSUME call[p].sid \in Sid, Doc(p) # NoDoc
      PROVE  Doc(p) \in SingleDoc /\ HasDoc(Doc(p).user)
  <2>1. Doc(p) \in SingleDoc /\ SameLogin(call[p].sid, Doc(p))
    BY <1>2 DEF UserInv, IInv, TypeOK, DocsMatchOrigin, Doc
  <2>2. call[p].sid \in known \cup Listed
    BY <1>1, <1>2, NoneAssumption DEF CallKnown, Passed
  <2> QED BY <1>2, <2>1, <2>2 DEF UserInv, KnownHasUserDoc, Doc, HasDoc, Listed, SameLogin
<1> QED BY <1>1, <1>2 DEF UserInv

(* A document a call has read is put into its locals.                      *)
LEMMA LoadKnown ==
  ASSUME UserInv, IInv', NEW p \in Proc, NEW c, GoOn(p, c), StoreKeeps,
         call[p].sid \in Sid, Doc(p) # NoDoc, userSes' = userSes,
         c.ses = Doc(p), c.sid = call[p].sid, c.new = call[p].new,
         c.pc \notin NewSession \cup {"renew_delete"},
         c.pc \in ToCreate => call[p].pc \in ToCreate
  PROVE  UserInv'
<1>1. c.sid \in Passed /\ KeepsDoc(c.ses.user)
  BY UserFacts DEF HasDoc, KeepsDoc, CallKnown
<1>2. c.pc \in ToCreate => c.new \notin known
  BY UserFacts DEF CallKnown
<1> QED BY <1>1, <1>2, GoOnKnown DEF NewSession

(* Callers pass ids that they were given.                                  *)
LEMMA StartKnown ==
  ASSUME UserInv, IInv', NEW p \in Proc, Start(p)
  PROVE  UserInv'
<1>1. ASSUME NEW op, NEW s \in Passed, NEW u, NEW dirs,
             NEW pc \in {"generate", "start_get", "logout_get", "read_get", "renew_get"},
             Begin(p, op, s, u, dirs, pc)
      PROVE  UserInv'
  <2> DEFINE c == [Idle EXCEPT !.pc = pc, !.op = op, !.sid = s, !.user = u,
                               !.dirs = dirs]
  <2>1. c.pc = pc /\ c.sid = s /\ c.ses = NoDoc
    BY DEF Idle
  <2>2. GoOn(p, c) /\ StoreKeeps
    BY <1>1 DEF Begin, StoreKeeps
  <2> HIDE DEF c
  <2> QED BY <2>1, <2>2, GoOnKnown DEF NewSession, ToCreate
<1> QED BY <1>1
     DEF Start, StartLogin, AddLoginInfo, StartSession, Logout, FindBySessionToken,
         UpdateSessionData, RenewSession, Passed

(* A drawn id has not been handed out.                                     *)
LEMMA GenerateKnown ==
  ASSUME UserInv, IInv', NEW p \in Proc, GenerateNewSessionID(p)
  PROVE  UserInv'
<1>1. StoreKeeps /\ userSes' = userSes
  BY ReadKeeps DEF GenerateNewSessionID, Reads
<1>2. CASE Return(p, "error", NoSid)
  BY <1>1, <1>2, ReturnNothing
<1>3. ASSUME NEW s \in Fresh,
             GoOn(p, [call[p] EXCEPT !.pc = AfterGenerate(call[p].op), !.new = s])
      PROVE  UserInv'
  <2> DEFINE c == [call[p] EXCEPT !.pc = AfterGenerate(call[p].op), !.new = s]
  <2>1. c.sid = call[p].sid /\ c.ses = call[p].ses /\ c.new = s
        /\ c.pc \in {"create_login", "add_get", "start_create", "renew_create"}
    BY UserFacts DEF Call, AfterGenerate
  <2>2. call[p].ses # NoDoc => KeepsDoc(call[p].ses.user)
    BY <1>1, UserFacts DEF CallKnown, HasDoc, KeepsDoc
  <2>3. s \notin known
    BY <1>3 DEF Fresh
  <2> HIDE DEF c
  <2>4. GoOn(p, c)
    BY <1>3 DEF c
  <2> QED BY <1>1, <2>1, <2>2, <2>3, <2>4, UserFacts, GoOnKnown
       DEF CallKnown, NewSession
<1> QED BY <1>2, <1>3 DEF GenerateNewSessionID

(* StartLogin hands out a session without user.                            *)
LEMMA CreateLoginKnown ==
  ASSUME UserInv, IInv', NEW p \in Proc, CreateLogin(p)
  PROVE  UserInv'
<1> DEFINE doc    == [user |-> NoUser, loginAt |-> now, lastAccessAt |-> now]
           ticket == [user |-> NoUser, loginAt |-> now]
<1>1. call[p].pc = "create_login" /\ call[p].new \in Sid
  BY UserFacts DEF CreateLogin, LocalSet, ToCreate, HasNew
<1>2. PICK a \in Answer :
        /\ CreateSingle(p, doc, ticket, a)
        /\ IF a = "ok" THEN Return(p, "ok", call[p].new)
                       ELSE Return(p, "error", NoSid)
  BY DEF CreateLogin
<1>3. StoreKeeps
  BY <1>1, <1>2, CreateKeeps DEF ToCreate
<1>4. CASE a = "ok"
  <2>1. single'[call[p].new] = doc
    BY <1>1, <1>2, <1>4 DEF CreateSingle, PutSingle, UserInv, IInv, TypeOK
  <2>2. KeepsDoc(doc.user)
    BY DEF KeepsDoc
  <2> HIDE DEF doc, ticket
  <2> QED BY <1>2, <1>3, <1>4, <2>1, <2>2, ReturnKnown
<1>5. CASE a # "ok"
  BY <1>2, <1>3, <1>5, ReturnNothing
<1> QED BY <1>4, <1>5

(* AddLoginInfo hands out a session of the same user.                      *)
LEMMA AddKnown ==
  ASSUME UserInv, IInv', NEW p \in Proc, AddGet(p) \/ AddDelete(p) \/ AddCreate(p)
  PROVE  UserInv'
<1>1. CASE AddGet(p)
  <2>1. StoreKeeps /\ userSes' = userSes /\ call[p].pc = "add_get"
    BY <1>1, ReadKeeps DEF AddGet, Reads
  <2>2. CASE Return(p, "error", NoSid)
    BY <2>1, <2>2, ReturnNothing
  <2>3. CASE Doc(p) # NoDoc /\ Load(p, "add_delete")
    <3> DEFINE c == [call[p] EXCEPT !.pc = "add_delete", !.ses = Doc(p)]
    <3>1. c.pc = "add_delete" /\ c.ses = Doc(p) /\ c.sid = call[p].sid
          /\ c.new = call[p].new
      BY UserFacts DEF Call
    <3>2. GoOn(p, c) /\ call[p].sid \in Sid
      BY <2>1, <2>3, UserFacts DEF Load, LocalSet, HasSid
    <3> HIDE DEF c
    <3> QED BY <2>1, <2>3, <3>1, <3>2, LoadKnown DEF NewSession, ToCreate
  <2> QED BY <1>1, <2>2, <2>3 DEF AddGet
<1>2. CASE AddDelete(p)
  <2> DEFINE c == [call[p] EXCEPT !.pc = "add_create"]
  <2>1. StoreKeeps /\ call[p].pc = "add_delete" /\ userSes' = userSes
    BY <1>2, DeleteKeeps DEF AddDelete, DeleteSingle, PutSingle
  <2>2. c.pc = "add_create" /\ c.ses = call[p].ses /\ c.sid = call[p].sid
        /\ c.new = call[p].new
    BY UserFacts DEF Call
  <2>3. call[p].ses # NoDoc => KeepsDoc(call[p].ses.user)
    BY <2>1, UserFacts DEF CallKnown, HasDoc, KeepsDoc
  <2>4. GoOn(p, c)
    BY <1>2 DEF AddDelete, Goto
  <2> HIDE DEF c
  <2> QED BY <2>1, <2>2, <2>3, <2>4, UserFacts, GoOnKnown
       DEF CallKnown, ToCreate, NewSession
<1>3. CASE AddCreate(p)
  <2>1. PICK a \in Answer : CreateSingle(p, call[p].ses, origin[call[p].sid], a)
    BY <1>3 DEF AddCreate
  <2>2. /\ call[p].pc = "add_create" /\ call[p].ses # NoDoc /\ call[p].new \in Sid
        /\ origin[call[p].new] = NoDoc
    BY <1>3, UserFacts
    DEF AddCreate, LocalSet, HasSes, HasNew, ToCreate, UserInv, IInv, NewIdsFresh
  <2>3. StoreKeeps /\ userSes' = userSes
    BY <2>1, <2>2, CreateKeeps DEF ToCreate, CreateSingle, PutSingle
  <2>4. single'[call[p].new] # NoDoc => KeepsDoc(single'[call[p].new].user)
    BY <2>1, <2>2, <2>3, UserFacts
    DEF CallKnown, HasDoc, KeepsDoc, CreateSingle, PutSingle, UserInv, IInv, TypeOK,
        DocsMatchOrigin, SameLogin
  <2> QED BY <1>3, <2>3, <2>4, ReturnKnown DEF AddCreate
<1> QED BY <1>1, <1>2, <1>3

(* A new session of the user u is handed out once u has a document.        *)
LEMMA StartReturnsKnown ==
  ASSUME UserInv, IInv', StoreKeeps, NEW p \in Proc, NEW a \in Answer,
         StartReturns(p, a), call[p].pc \in NewSession, single' = single,
         a = "ok" => userSes'[call[p].user] # NoDoc
  PROVE  UserInv'
<1> DEFINE n == call[p].new
<1>1. n \in Sid /\ origin[n].user = call[p].user
  BY UserFacts DEF CallKnown, LocalSet, HasNew, NewSession
<1>2. CASE a = "ok"
  <2>1. single[n] # NoDoc => single[n].user = call[p].user
    BY <1>1 DEF UserInv, IInv, DocsMatchOrigin, SameLogin
  <2> QED BY <1>2, <2>1, ReturnKnown DEF StartReturns, KeepsDoc
<1>3. CASE a # "ok"
  BY <1>3, ReturnNothing DEF StartReturns
<1> QED BY <1>2, <1>3

(* StartSession writes the user document before it returns.                *)
LEMMA StartSessionKnown ==
  ASSUME UserInv, IInv', NEW p \in Proc,
         \/ StartGet(p) \/ StartDelete(p) \/ StartCreate(p) \/ StartPanic(p)
         \/ StartGetUser(p) \/ StartCreateUser(p) \/ StartReplaceUser(p)
  PROVE  UserInv'
<1>1. CASE StartGet(p)
  <2>1. StoreKeeps
    BY <1>1, ReadKeeps DEF StartGet
  <2> QED BY <1>1, <2>1, ReturnNothing, GotoKnown
       DEF StartGet, PC, NewSession, ToCreate
<1>2. CASE StartDelete(p)
  <2>1. StoreKeeps
    BY <1>2, DeleteKeeps DEF StartDelete
  <2> QED BY <1>2, <2>1, GotoKnown DEF StartDelete, PC, NewSession, ToCreate
<1>3. CASE StartCreate(p)
  <2> DEFINE u      == call[p].user
             doc    == [user |-> u, loginAt |-> now, lastAccessAt |-> now]
             ticket == [user |-> u, loginAt |-> now]
             c      == [call[p] EXCEPT !.pc = "start_get_user"]
  <2>1. PICK a \in Answer :
          /\ CreateSingle(p, doc, ticket, a)
          /\ IF a = "ok" THEN Goto(p, "start_get_user") ELSE Return(p, "error", NoSid)
    BY <1>3 DEF StartCreate
  <2>2. call[p].pc = "start_create" /\ call[p].new \in Sid
    BY <1>3, UserFacts DEF StartCreate, LocalSet, ToCreate, HasNew
  <2>3. StoreKeeps /\ userSes' = userSes
    BY <2>1, <2>2, CreateKeeps DEF ToCreate, CreateSingle, PutSingle
  <2>4. CASE a = "ok"
    <3>1. origin'[call[p].new] = ticket
      BY <2>1, <2>2, <2>4 DEF CreateSingle, UserInv, IInv, TypeOK
    <3>2. ticket \in Ticket /\ ticket.user = u
      BY UserFacts, BoundsAssumption DEF Call, Ticket, UserInv, IInv, TypeOK
    <3>3. origin'[call[p].new] # NoDoc /\ origin'[call[p].new].user = u
      BY <3>1, <3>2, NoDocAssumption
    <3>4. /\ c.pc = "start_get_user" /\ c.ses = call[p].ses /\ c.sid = call[p].sid
          /\ c.new = call[p].new /\ c.user = u
      BY UserFacts DEF Call
    <3>5. call[p].ses # NoDoc => KeepsDoc(call[p].ses.user)
      BY <2>3, UserFacts DEF CallKnown, HasDoc, KeepsDoc
    <3>6. GoOn(p, c)
      BY <2>1, <2>4 DEF Goto
    <3> HIDE DEF c, doc, ticket
    <3> QED BY <2>3, <3>3, <3>4, <3>5, <3>6, UserFacts, GoOnKnown
         DEF CallKnown, ToCreate, HasNew
  <2>5. CASE a # "ok"
    BY <2>1, <2>3, <2>5, ReturnNothing
  <2> QED BY <2>4, <2>5
<1>4. CASE StartPanic(p)
  <2>1. StoreKeeps
    BY <1>4, ReadKeeps DEF StartPanic
  <2> QED BY <1>4, <2>1, ReturnNothing DEF StartPanic
<1>5. CASE StartGetUser(p)
  <2>1. StoreKeeps /\ userSes' = userSes /\ origin' = origin
        /\ call[p].pc = "start_get_user"
    BY <1>5, ReadKeeps DEF StartGetUser, Reads
  <2>2. CASE Return(p, "error", NoSid)
    BY <2>1, <2>2, ReturnNothing
  <2>3. ASSUME NEW c, GoOn(p, c), c.pc \in {"start_create_user", "start_replace_user"},
               c.ses = call[p].ses, c.sid = call[p].sid, c.new = call[p].new,
               c.user = call[p].user,
               c.pc = "start_replace_user" => userSes[call[p].user] # NoDoc
        PROVE  UserInv'
    <3>1. call[p].ses # NoDoc => KeepsDoc(call[p].ses.user)
      BY <2>1, UserFacts DEF CallKnown, HasDoc, KeepsDoc
    <3>2. origin[call[p].new] # NoDoc /\ origin[call[p].new].user = call[p].user
      BY <2>1, UserFacts DEF CallKnown, NewSession
    <3>3. c.pc \notin ToCreate /\ c.pc # "renew_delete"
      BY <2>3 DEF ToCreate
    <3> QED BY <2>1, <2>3, <3>1, <3>2, <3>3, UserFacts, GoOnKnown DEF CallKnown
  <2>4. CASE Goto(p, "start_create_user")
    BY <2>3, <2>4, UserFacts DEF Goto, Call
  <2>5. CASE userSes[call[p].user] # NoDoc /\ LoadUser(p, "start_replace_user")
    BY <2>3, <2>5, UserFacts DEF LoadUser, Call
  <2> QED BY <1>5, <2>2, <2>4, <2>5 DEF StartGetUser
<1>6. CASE StartCreateUser(p)
  <2>1. CASE Reads(p, "start_create_user") /\ Return(p, "error", NoSid)
    BY <2>1, ReadKeeps, ReturnNothing
  <2>2. ASSUME NEW a \in Answer, call[p].pc = "start_create_user",
               PutUser(call[p].user, [sessions |-> {call[p].new},
                                      data |-> [k \in Key |-> NoValue]], a),
               StartReturns(p, a)
        PROVE  UserInv'
    <3> DEFINE doc == [sessions |-> {call[p].new}, data |-> [k \in Key |-> NoValue]]
    <3>1. call[p].user \in User /\ call[p].new \in Sid
      BY <2>2, UserFacts DEF LocalSet, OpAt, HasUser, HasNew, UserIn
    <3>2. doc \in UserDoc /\ PutUser(call[p].user, doc, a)
      BY <2>2, <3>1 DEF UserDoc, Data
    <3> HIDE DEF doc
    <3>3. a = "ok" => userSes'[call[p].user] # NoDoc
      BY <3>1, <3>2, NoDocAssumption DEF PutUser, UserInv, IInv, TypeOK
    <3> QED BY <2>2, <3>2, <3>3, PutUserKeeps, StartReturnsKnown DEF PutUser, NewSession
  <2> QED BY <1>6, <2>1, <2>2 DEF StartCreateUser
<1>7. CASE StartReplaceUser(p)
  <2> DEFINE doc == [call[p].uses EXCEPT !.sessions = @ \cup {call[p].new}]
  <2>1. /\ call[p].pc = "start_replace_user" /\ call[p].new \in Sid
        /\ call[p].uses \in UserDoc /\ call[p].user \in User
    BY <1>7, UserFacts
    DEF StartReplaceUser, LocalSet, OpAt, HasNew, HasUses, HasUser, UserIn, Call
  <2>2. doc \in UserDoc
    BY <2>1 DEF UserDoc
  <2>3. PICK a \in Answer : PutUser(call[p].user, doc, a) /\ StartReturns(p, a)
    BY <1>7 DEF StartReplaceUser
  <2> HIDE DEF doc
  <2>4. a = "ok" => userSes'[call[p].user] # NoDoc
    BY <2>1, <2>2, <2>3, NoDocAssumption DEF PutUser, UserInv, IInv, TypeOK
  <2> QED BY <2>1, <2>2, <2>3, <2>4, PutUserKeeps, StartReturnsKnown
       DEF PutUser, NewSession
<1> QED BY <1>1, <1>2, <1>3, <1>4, <1>5, <1>6, <1>7

(* Logout keeps the user document.                                         *)
LEMMA LogoutKnown ==
  ASSUME UserInv, IInv', NEW p \in Proc,
         \/ LogoutGet(p) \/ LogoutGetUser(p) \/ LogoutReplaceUser(p)
         \/ LogoutDelete(p)
  PROVE  UserInv'
<1>1. ASSUME NEW res, LogoutReturns(p, res), StoreKeeps
      PROVE  UserInv'
  BY <1>1, ReturnNothing DEF LogoutReturns
<1>2. CASE LogoutGet(p)
  <2>1. StoreKeeps /\ userSes' = userSes /\ call[p].pc = "logout_get"
    BY <1>2, ReadKeeps DEF LogoutGet, Reads
  <2>2. CASE Doc(p) # NoDoc /\ Load(p, "logout_get_user")
    <3> DEFINE c == [call[p] EXCEPT !.pc = "logout_get_user", !.ses = Doc(p)]
    <3>1. c.pc = "logout_get_user" /\ c.ses = Doc(p) /\ c.sid = call[p].sid
          /\ c.new = call[p].new
      BY UserFacts DEF Call
    <3>2. GoOn(p, c) /\ call[p].sid \in Sid
      BY <2>1, <2>2, UserFacts DEF Load, LocalSet, HasSid
    <3> HIDE DEF c
    <3> QED BY <2>1, <2>2, <3>1, <3>2, LoadKnown DEF NewSession, ToCreate
  <2> QED BY <1>1, <1>2, <2>1, <2>2 DEF LogoutGet
<1>3. CASE LogoutGetUser(p)
  <2>1. StoreKeeps /\ userSes' = userSes
    BY <1>3, ReadKeeps DEF LogoutGetUser, Reads
  <2>2. CASE LoadUser(p, "logout_replace_user")
    <3> DEFINE c == [call[p] EXCEPT !.pc = "logout_replace_user",
                                    !.uses = userSes[UserIn(call[p])]]
    <3>1. c.pc = "logout_replace_user" /\ c.ses = call[p].ses /\ c.sid = call[p].sid
      BY UserFacts DEF Call
    <3>2. call[p].ses # NoDoc => KeepsDoc(call[p].ses.user)
      BY <2>1, UserFacts DEF CallKnown, HasDoc, KeepsDoc
    <3>3. GoOn(p, c)
      BY <2>2 DEF LoadUser
    <3> HIDE DEF c
    <3> QED BY <2>1, <3>1, <3>2, <3>3, UserFacts, GoOnKnown
         DEF CallKnown, NewSession, ToCreate
  <2> QED BY <1>1, <1>3, <2>1, <2>2 DEF LogoutGetUser
<1>4. CASE LogoutReplaceUser(p)
  <2>1. call[p].uses \in UserDoc
    BY <1>4, UserFacts DEF LogoutReplaceUser, LocalSet, HasUses, Call
  <2>2. StoreKeeps
    BY <1>4, <2>1, PutUserKeeps DEF LogoutReplaceUser
  <2> QED BY <1>4, <2>2, GotoKnown DEF LogoutReplaceUser, PC, NewSession, ToCreate
<1>5. CASE LogoutDelete(p)
  BY <1>1, <1>5, DeleteKeeps DEF LogoutDelete
<1> QED BY <1>2, <1>3, <1>4, <1>5

(* readSession writes nothing.                                             *)
LEMMA ReadKnown ==
  ASSUME UserInv, IInv', NEW p \in Proc, ReadGet(p) \/ ReadGetUser(p)
  PROVE  UserInv'
<1>1. StoreKeeps /\ userSes' = userSes
  BY ReadKeeps DEF ReadGet, ReadGetUser, Reads
<1>2. CASE \E res \in Reply : Return(p, res, NoSid)
  BY <1>1, <1>2, ReturnNothing
<1>3. CASE Goto(p, "logout_get")
  BY <1>1, <1>3, GotoKnown DEF PC, NewSession, ToCreate
<1>4. CASE ReadGet(p)
  <2>1. call[p].sid \in Sid
    BY <1>4, UserFacts DEF ReadGet, Reads, LocalSet, HasSid
  <2>2. CASE /\ Doc(p) # NoDoc
             /\ GoOn(p, [call[p] EXCEPT !.pc = "read_get_user", !.ses = Doc(p),
                                        !.at = now])
    <3> DEFINE c == [call[p] EXCEPT !.pc = "read_get_user", !.ses = Doc(p), !.at = now]
    <3>1. c.pc = "read_get_user" /\ c.ses = Doc(p) /\ c.sid = call[p].sid
          /\ c.new = call[p].new /\ GoOn(p, c)
      BY <2>2, UserFacts DEF Call
    <3> HIDE DEF c
    <3> QED BY <1>1, <2>1, <2>2, <3>1, LoadKnown DEF NewSession, ToCreate
  <2>3. CASE Doc(p) # NoDoc /\ Load(p, "update_single")
    <3> DEFINE c == [call[p] EXCEPT !.pc = "update_single", !.ses = Doc(p)]
    <3>1. c.pc = "update_single" /\ c.ses = Doc(p) /\ c.sid = call[p].sid
          /\ c.new = call[p].new /\ GoOn(p, c)
      BY <2>3, UserFacts DEF Call, Load
    <3> HIDE DEF c
    <3> QED BY <1>1, <2>1, <2>3, <3>1, LoadKnown DEF NewSession, ToCreate
  <2> QED BY <1>2, <1>3, <1>4, <2>2, <2>3 DEF ReadGet, ReadBeforeLogin, Reply
<1>5. CASE ReadGetUser(p)
  <2> DEFINE pc == IF call[p].dirs = NoDirectives THEN "update_single"
                                                  ELSE "update_user"
  <2>1. ASSUME NEW uses, GoOn(p, [call[p] EXCEPT !.pc = pc, !.uses = uses])
        PROVE  UserInv'
    <3> DEFINE c == [call[p] EXCEPT !.pc = pc, !.uses = uses]
    <3>1. c.pc \in {"update_single", "update_user"} /\ c.ses = call[p].ses
          /\ c.sid = call[p].sid /\ GoOn(p, c)
      BY <2>1, UserFacts DEF Call
    <3>2. call[p].ses # NoDoc => KeepsDoc(call[p].ses.user)
      BY <1>1, UserFacts DEF CallKnown, HasDoc, KeepsDoc
    <3> HIDE DEF c
    <3> QED BY <1>1, <3>1, <3>2, UserFacts, GoOnKnown
         DEF CallKnown, NewSession, ToCreate
  <2> QED BY <1>2, <1>3, <1>5, <2>1 DEF ReadGetUser, Reply
<1> QED BY <1>4, <1>5

(* UpdateSessionData writes documents that exist.                          *)
LEMMA UpdateKnown ==
  ASSUME UserInv, IInv', NEW p \in Proc, UpdateUser(p) \/ UpdateSingle(p)
  PROVE  UserInv'
<1>1. CASE UpdateUser(p)
  <2>1. call[p].uses \in UserDoc
    BY <1>1, UserFacts DEF UpdateUser, LocalSet, HasUses, Call
  <2>2. StoreKeeps
    BY <1>1, <2>1, PutUserKeeps DEF UpdateUser
  <2> QED BY <1>1, <2>2, GotoKnown DEF UpdateUser, PC, NewSession, ToCreate
<1>2. CASE UpdateSingle(p)
  <2> DEFINE doc == [call[p].ses EXCEPT !.lastAccessAt = now]
  <2>1. call[p].ses # NoDoc /\ call[p].ses \in SingleDoc
    BY <1>2, UserFacts DEF UpdateSingle, Reads, LocalSet, HasSes, Call
  <2>2. HasDoc(doc.user)
    BY <2>1, UserFacts DEF CallKnown, SingleDoc
  <2>3. ASSUME NEW a \in Answer, ReplaceSingle(p, doc, a),
               Return(p, IF a = "ok" THEN "ok" ELSE "error", NoSid)
        PROVE  UserInv'
    <3> HIDE DEF doc
    <3> QED BY <2>2, <2>3, ReplaceKeeps, ReturnNothing
  <2>4. CASE Reads(p, "update_single") /\ Return(p, "error", NoSid)
    BY <2>4, ReadKeeps, ReturnNothing
  <2> QED BY <1>2, <2>3, <2>4 DEF UpdateSingle
<1> QED BY <1>1, <1>2

(* RenewSession hands out a session of the same user.                      *)
LEMMA RenewKnown ==
  ASSUME UserInv, IInv', NEW p \in Proc,
         RenewGet(p) \/ RenewCreate(p) \/ RenewDelete(p)
  PROVE  UserInv'
<1>1. CASE RenewGet(p)
  <2>1. StoreKeeps /\ userSes' = userSes /\ call[p].pc = "renew_get"
        /\ call[p].sid \in Sid
    BY <1>1, ReadKeeps, UserFacts DEF RenewGet, Reads, LocalSet, HasSid
  <2>2. CASE \E res \in Reply : Return(p, res, NoSid)
    BY <2>1, <2>2, ReturnNothing
  <2>3. CASE Return(p, "ok", call[p].sid)
    <3>1. single'[call[p].sid] # NoDoc => KeepsDoc(single'[call[p].sid].user)
      BY <1>1, <2>1, UserFacts DEF RenewGet, Reads, Doc, HasDoc, KeepsDoc
    <3> QED BY <2>1, <2>3, <3>1, UserFacts, ReturnKnown DEF CallKnown
  <2>4. CASE Goto(p, "logout_get")
    BY <2>1, <2>4, GotoKnown DEF PC, NewSession, ToCreate
  <2>5. CASE Doc(p) # NoDoc /\ Load(p, "generate")
    <3> DEFINE c == [call[p] EXCEPT !.pc = "generate", !.ses = Doc(p)]
    <3>1. c.pc = "generate" /\ c.ses = Doc(p) /\ c.sid = call[p].sid
          /\ c.new = call[p].new /\ GoOn(p, c)
      BY <2>5, UserFacts DEF Call, Load
    <3> HIDE DEF c
    <3> QED BY <2>1, <2>5, <3>1, LoadKnown DEF NewSession, ToCreate
  <2> QED BY <1>1, <2>2, <2>3, <2>4, <2>5 DEF RenewGet, Reply
<1>2. CASE RenewCreate(p)
  <2> DEFINE c == [call[p] EXCEPT !.pc = "renew_delete"]
  <2>1. /\ call[p].pc = "renew_create" /\ call[p].ses # NoDoc /\ call[p].new \in Sid
        /\ SameLogin(call[p].sid, call[p].ses)
    BY <1>2, UserFacts, CallFacts DEF RenewCreate, LocalSet, HasSes, HasNew, ToCreate
  <2>2. PICK a \in Answer :
          /\ CreateSingle(p, call[p].ses, origin[call[p].sid], a)
          /\ IF a = "ok" THEN Goto(p, "renew_delete") ELSE Return(p, "error", NoSid)
    BY <1>2 DEF RenewCreate
  <2>3. StoreKeeps /\ userSes' = userSes
    BY <2>1, <2>2, CreateKeeps DEF ToCreate, CreateSingle, PutSingle
  <2>4. CASE a = "ok"
    <3>1. origin'[call[p].new] # NoDoc /\ origin'[call[p].new].user = call[p].ses.user
      BY <2>1, <2>2, <2>4 DEF CreateSingle, UserInv, IInv, TypeOK, SameLogin
    <3>2. c.pc = "renew_delete" /\ c.ses = call[p].ses /\ c.sid = call[p].sid
          /\ c.new = call[p].new /\ GoOn(p, c)
      BY <2>2, <2>4, UserFacts DEF Call, Goto
    <3>3. KeepsDoc(call[p].ses.user)
      BY <2>1, <2>3, UserFacts DEF CallKnown, HasDoc, KeepsDoc
    <3> HIDE DEF c
    <3> QED BY <2>3, <3>1, <3>2, <3>3, UserFacts, GoOnKnown
         DEF CallKnown, NewSession, ToCreate
  <2>5. CASE a # "ok"
    BY <2>2, <2>3, <2>5, ReturnNothing
  <2> QED BY <2>4, <2>5
<1>3. CASE RenewDelete(p)
  <2>1. PICK a \in Answer :
          /\ DeleteSingle(p, a)
          /\ IF a = "ok" THEN Return(p, "ok", call[p].new)
                         ELSE Return(p, "error", NoSid)
    BY <1>3 DEF RenewDelete
  <2>2. StoreKeeps /\ userSes' = userSes
    BY <2>1, DeleteKeeps DEF DeleteSingle, PutSingle
  <2>3. call[p].new \in Sid /\ call[p].ses # NoDoc
        /\ origin[call[p].new].user = call[p].ses.user
    BY <1>3, UserFacts DEF RenewDelete, LocalSet, HasNew, HasSes, CallKnown
  <2>4. single'[call[p].new] # NoDoc => single'[call[p].new].user = call[p].ses.user
    BY <2>1, <2>3
    DEF DeleteSingle, PutSingle, UserInv, IInv, TypeOK, DocsMatchOrigin, SameLogin
  <2>5. KeepsDoc(call[p].ses.user)
    BY <2>2, <2>3, UserFacts DEF CallKnown, HasDoc, KeepsDoc
  <2> QED BY <2>1, <2>2, <2>4, <2>5, ReturnKnown, ReturnNothing
<1> QED BY <1>1, <1>2, <1>3

-----------------------------------------------------------------------------
(* Nothing has been handed out at the start.                               *)
LEMMA InitUserInv == Init => UserInv
  BY InitIInv
  DEF Init, UserInv, KnownHasUserDoc, CallsKnown, CallKnown, Idle, ToCreate, NewSession,
      Passed

(* Every step keeps UserInv.                                               *)
LEMMA NextUserInv == UserInv /\ [Next]_vars => UserInv'
<1> SUFFICES ASSUME UserInv, [Next]_vars PROVE UserInv'
  OBVIOUS
<1>0. IInv'
  BY NextIInv DEF UserInv
<1>1. CASE Tick
  BY <1>0, <1>1
  DEF Tick, UserInv, KnownHasUserDoc, CallsKnown, CallKnown, HasDoc, Passed, Listed
<1>2. ASSUME NEW p \in Proc, Start(p) PROVE UserInv'
  BY <1>0, <1>2, StartKnown
<1>3. ASSUME NEW p \in Proc, Step(p) PROVE UserInv'
  BY <1>0, <1>3, GenerateKnown, CreateLoginKnown, AddKnown, StartSessionKnown,
     LogoutKnown, ReadKnown, UpdateKnown, RenewKnown
  DEF Step
<1>4. ASSUME NEW p \in Proc, Crash(p) PROVE UserInv'
  <2>1. StoreKeeps /\ GoOn(p, Idle)
    BY <1>4 DEF Crash, StoreKeeps
  <2>2. Idle.sid = NoSid /\ Idle.ses = NoDoc /\ Idle.pc = "idle"
    BY DEF Idle
  <2> QED BY <1>0, <2>1, <2>2, GoOnKnown DEF NewSession, ToCreate, Passed
<1>5. CASE UNCHANGED vars
  BY <1>0, <1>5
  DEF vars, UserInv, KnownHasUserDoc, CallsKnown, CallKnown, HasDoc, Passed, Listed
<1> QED BY <1>1, <1>2, <1>3, <1>4, <1>5 DEF Next

(* Whatever races and fails, readSession finds the user document of every  *)
(* session whose id a caller holds.                                        *)
THEOREM KnownSessionsHaveUsers == Spec => []KnownHasUserDoc
<1>1. UserInv => KnownHasUserDoc  BY DEF UserInv
<1> QED BY <1>1, InitUserInv, NextUserInv, PTL DEF Spec

-----------------------------------------------------------------------------
(* What is over stays over.                                                *)

Dead(s) == s \in Sid /\ single[s] = NoDoc /\ origin[s] # NoDoc

(* What a call relies on about the session that it was given: StartSession *)
(* and AddLoginInfo have deleted it before they go on with the new one.    *)
CallGone(c) ==
  /\ c.pc = "start_delete" => origin[c.sid] # NoDoc
  /\ c.pc = "add_create"   => Dead(c.sid)
  /\ c.op = "StartSession" /\ c.pc \notin {"start_get", "start_delete"}
       => c.sid = NoSid \/ Dead(c.sid)

DeadInv == faults = 0 => /\ \A s \in ended : Dead(s)
                         /\ \A p \in Proc : CallGone(call[p])

(* A store that answers, up to and including this step.                    *)
Answers == faults = 0 /\ faults' = 0

-----------------------------------------------------------------------------
(* A closed id stays closed: SessionLifecycle has no step that reopens it. *)
LEMMA DeadStays ==
  ASSUME IInv, IInv', [Next]_vars
  PROVE  /\ \A s : Dead(s) => Dead(s)'
         /\ \A s \in Sid : origin[s] # NoDoc => origin'[s] # NoDoc
<1>1. Stutters \/ Closes \/ LogsIn \/ Carries \/ (Tick /\ Phase' = Phase)
  BY NextRefines
<1>2. \A s \in Sid : (Dead(s) <=> Phase[s] = "closed") /\ (Dead(s)' <=> Phase'[s] = "closed")
  BY DEF Dead, Phase
<1>3. \A s \in Sid : Phase[s] = "fresh" => origin[s] = NoDoc
  BY DEF Phase
<1>4. origin \in [Sid -> Ticket \cup {NoDoc}]
  BY DEF IInv, TypeOK
<1>5. Phase = [s \in Sid |-> Phase[s]]
  BY DEF Phase
<1>6. CASE Stutters \/ (Tick /\ Phase' = Phase)
  BY <1>2, <1>6 DEF Stutters, Tick, Dead
<1>7. CASE Closes
  BY <1>2, <1>5, <1>7 DEF Closes, Dead
<1>8. ASSUME NEW o \in Sid, NEW ticket, Opens(o, ticket)
      PROVE  /\ \A s : Dead(s) => Dead(s)'
             /\ \A s \in Sid : origin[s] # NoDoc => origin'[s] # NoDoc
  BY <1>2, <1>3, <1>4, <1>5, <1>8 DEF Opens, Dead
<1> QED BY <1>1, <1>6, <1>7, <1>8 DEF LogsIn, Carries

(* The other calls, and the ids that were over before, are as they were.   *)
LEMMA GoOnDead ==
  ASSUME IInv, IInv', DeadInv, Answers, [Next]_vars,
         NEW p \in Proc, NEW c, GoOn(p, c), CallGone(c)'
  PROVE  DeadInv'
<1>1. \A q \in Proc : call'[q] = IF q = p THEN c ELSE call[q]
  BY DEF GoOn, IInv, TypeOK
<1>2. ASSUME NEW q \in Proc PROVE CallGone(call[q])'
  <2>1. CASE q = p
    BY <1>1, <2>1 DEF CallGone
  <2>2. CASE q # p
    <3>1. call'[q] = call[q] /\ CallGone(call[q])
      BY <1>1, <2>2 DEF DeadInv, Answers
    <3>2. call[q].pc = "start_delete" => call[q].sid \in Sid
      BY CallFacts DEF LocalSet, HasSid
    <3> QED BY <3>1, <3>2, DeadStays DEF CallGone
  <2> QED BY <2>1, <2>2
<1>3. \A s \in ended' : Dead(s)'
  BY DeadStays DEF DeadInv, Answers, GoOn
<1> QED BY <1>2, <1>3 DEF DeadInv

(* A call that returns vouches for the end of the ids of Ends.             *)
LEMMA ReturnDead ==
  ASSUME IInv, IInv', DeadInv, Answers, [Next]_vars,
         NEW p \in Proc, NEW res, NEW s, Return(p, res, s),
         \A t \in Ends(p, res, s) : Dead(t)'
  PROVE  DeadInv'
<1>1. \A q \in Proc : call'[q] = IF q = p THEN Idle ELSE call[q]
  BY DEF Return, IInv, TypeOK
<1>2. ASSUME NEW q \in Proc PROVE CallGone(call[q])'
  <2>1. CASE q = p
    BY <1>1, <2>1 DEF CallGone, Idle
  <2>2. CASE q # p
    <3>1. call'[q] = call[q] /\ CallGone(call[q])
      BY <1>1, <2>2 DEF DeadInv, Answers
    <3>2. call[q].pc = "start_delete" => call[q].sid \in Sid
      BY CallFacts DEF LocalSet, HasSid
    <3> QED BY <3>1, <3>2, DeadStays DEF CallGone
  <2> QED BY <2>1, <2>2
<1>3. \A t \in ended' : Dead(t)'
  BY DeadStays DEF DeadInv, Answers, Return
<1> QED BY <1>2, <1>3 DEF DeadInv

(* With a store that answers, each call has the answer "ok".               *)
LEMMA NothingFails ==
  ASSUME Answers
  PROVE  ~ Fails /\ \A a \in Answer : Gives(a) => a = "ok"
  BY DEF Answers, Fails, Gives, Answer

(* Goto, at a place where the call relies on no more than it did.          *)
LEMMA GotoDead ==
  ASSUME IInv, IInv', DeadInv, Answers, [Next]_vars, NEW p \in Proc,
         NEW pc \in PC \ {"add_create"}, NEW c, GoOn(p, c),
         c.pc = pc, c.op = call[p].op, c.sid = call[p].sid,
         pc = "start_delete" => call[p].sid \in Sid /\ origin[call[p].sid] # NoDoc,
         \/ call[p].op # "StartSession"
         \/ pc = "start_delete"
         \/ call[p].pc \notin {"start_get", "start_delete"}
         \/ c.sid = NoSid \/ Dead(c.sid)'
  PROVE  DeadInv'
<1>1. CallGone(call[p])
  BY DEF DeadInv, Answers
<1>2. pc = "start_delete" => origin'[c.sid] # NoDoc
  BY DeadStays
<1>3. c.op = "StartSession" /\ pc \notin {"start_get", "start_delete"}
        => c.sid = NoSid \/ Dead(c.sid)'
  BY <1>1, DeadStays DEF CallGone
<1>4. CallGone(c)'
  BY <1>2, <1>3 DEF CallGone
<1> QED BY <1>4, GoOnDead

(* A Delete that is answered ends the session.                             *)
LEMMA DeleteKills ==
  ASSUME IInv, Answers, NEW p \in Proc, NEW a \in Answer, DeleteSingle(p, a),
         NEW s \in Sid, s = call[p].sid, origin[s] # NoDoc
  PROVE  Dead(s)'
<1>1. a = "ok"
  BY NothingFails DEF DeleteSingle, PutSingle
<1> QED BY <1>1 DEF DeleteSingle, PutSingle, Dead, IInv, TypeOK

(* A session that a call has read is one of a login.                       *)
LEMMA HeldHasOrigin ==
  ASSUME IInv, NEW p \in Proc, call[p].pc \in HasSes
  PROVE  /\ call[p].sid \in Sid /\ origin[call[p].sid] # NoDoc
         /\ call[p].ses # NoDoc /\ call[p].ses.user = origin[call[p].sid].user
  BY CallFacts DEF LocalSet, SameLogin, HasSid

-----------------------------------------------------------------------------
(* The steps of the calls.                                                 *)

(* A call that begins relies on nothing yet.                               *)
LEMMA StartDead ==
  ASSUME IInv, IInv', DeadInv, Answers, [Next]_vars, NEW p \in Proc, Start(p)
  PROVE  DeadInv'
<1>1. ASSUME NEW op, NEW s, NEW u, NEW dirs, NEW pc, Begin(p, op, s, u, dirs, pc),
             pc \in {"generate", "start_get", "logout_get", "read_get", "renew_get"},
             op = "StartSession" => pc = "start_get"
      PROVE  DeadInv'
  <2>1. PICK c : c = [Idle EXCEPT !.pc = pc, !.op = op, !.sid = s, !.user = u,
                                  !.dirs = dirs]
    OBVIOUS
  <2>2. c.pc = pc /\ c.op = op /\ GoOn(p, c)
    BY <1>1, <2>1 DEF Begin, Idle
  <2>3. CallGone(c)'
    BY <1>1, <2>2 DEF CallGone
  <2> QED BY <2>2, <2>3, GoOnDead
<1> QED BY <1>1
     DEF Start, StartLogin, AddLoginInfo, StartSession, Logout, FindBySessionToken,
         UpdateSessionData, RenewSession

(* Drawing a new id ends no session.                                       *)
LEMMA GenerateDead ==
  ASSUME IInv, IInv', DeadInv, Answers, [Next]_vars, NEW p \in Proc,
         GenerateNewSessionID(p)
  PROVE  DeadInv'
<1>0. call[p].pc = "generate"
  BY DEF GenerateNewSessionID, Reads
<1>1. CASE Return(p, "error", NoSid)
  BY <1>1, ReturnDead DEF Ends
<1>2. ASSUME NEW s \in Fresh,
             GoOn(p, [call[p] EXCEPT !.pc = AfterGenerate(call[p].op), !.new = s])
      PROVE  DeadInv'
  <2>1. PICK c : c = [call[p] EXCEPT !.pc = AfterGenerate(call[p].op), !.new = s]
    OBVIOUS
  <2>2. /\ c.pc \in {"create_login", "add_get", "start_create", "renew_create"}
        /\ c.op = call[p].op /\ c.sid = call[p].sid /\ GoOn(p, c)
    BY <1>2, <2>1, CallFacts DEF Call, AfterGenerate
  <2> QED BY <1>0, <2>2, GotoDead DEF PC
<1> QED BY <1>1, <1>2 DEF GenerateNewSessionID

(* A login that has been moved to a new id has left the old one.           *)
LEMMA AddDead ==
  ASSUME IInv, IInv', DeadInv, Answers, [Next]_vars, NEW p \in Proc,
         CreateLogin(p) \/ AddGet(p) \/ AddDelete(p) \/ AddCreate(p)
  PROVE  DeadInv'
<1>1. CASE CreateLogin(p)
  <2>1. call[p].op = "StartLogin"
    BY <1>1, CallFacts DEF CreateLogin, LocalSet, OpAt
  <2>2. \E res, s : Return(p, res, s) /\ res # "invalid"
    BY <1>1 DEF CreateLogin
  <2> QED BY <2>1, <2>2, ReturnDead DEF Ends
<1>2. CASE AddGet(p)
  <2>1. call[p].op = "AddLoginInfo"
    BY <1>2, CallFacts DEF AddGet, Reads, LocalSet, OpAt
  <2>2. CASE Return(p, "error", NoSid)
    BY <2>2, ReturnDead DEF Ends
  <2>3. CASE Load(p, "add_delete")
    <3>1. PICK c : c = [call[p] EXCEPT !.pc = "add_delete", !.ses = Doc(p)]
      OBVIOUS
    <3>2. c.pc = "add_delete" /\ c.op = call[p].op /\ c.sid = call[p].sid /\ GoOn(p, c)
      BY <2>3, <3>1, CallFacts DEF Load, Call
    <3> QED BY <2>1, <3>2, GotoDead DEF PC
  <2> QED BY <1>2, <2>2, <2>3 DEF AddGet
<1>3. CASE AddDelete(p)
  <2>1. PICK c : c = [call[p] EXCEPT !.pc = "add_create"]
    OBVIOUS
  <2>2. c.pc = "add_create" /\ c.op = call[p].op /\ c.sid = call[p].sid /\ GoOn(p, c)
    BY <1>3, <2>1, CallFacts DEF AddDelete, Goto, Call
  <2>3. call[p].op = "AddLoginInfo" /\ call[p].pc = "add_delete"
    BY <1>3, CallFacts DEF AddDelete, LocalSet, OpAt
  <2>4. Dead(c.sid)'
    BY <1>3, <2>2, <2>3, HeldHasOrigin, DeleteKills DEF AddDelete, HasSes
  <2>5. CallGone(c)'
    BY <2>2, <2>3, <2>4 DEF CallGone
  <2> QED BY <2>2, <2>5, GoOnDead
<1>4. CASE AddCreate(p)
  <2>1. Dead(call[p].sid)
    BY <1>4 DEF AddCreate, DeadInv, Answers, CallGone
  <2>2. \A t \in Ends(p, "ok", call[p].new) : Dead(t)'
    BY <2>1, DeadStays DEF Ends
  <2> QED BY <1>4, <2>2, ReturnDead DEF AddCreate
<1> QED BY <1>1, <1>2, <1>3, <1>4

(* StartSession has deleted the login session before it draws the new id.  *)
LEMMA StartSessionDead ==
  ASSUME IInv, IInv', DeadInv, Answers, [Next]_vars, NEW p \in Proc,
         \/ StartGet(p) \/ StartDelete(p) \/ StartCreate(p) \/ StartPanic(p)
         \/ StartGetUser(p) \/ StartCreateUser(p) \/ StartReplaceUser(p)
  PROVE  DeadInv'
<1>1. call[p].pc \in {"start_get", "start_delete", "start_create", "start_get_user",
                     "start_create_user", "start_replace_user"}
  BY DEF StartGet, StartDelete, StartCreate, StartPanic, StartGetUser,
         StartCreateUser, StartReplaceUser, Reads
<1>2. call[p].op = "StartSession" /\ CallGone(call[p]) /\ call[p] \in Call
  BY <1>1, CallFacts DEF LocalSet, OpAt, DeadInv, Answers
<1>3. ASSUME NEW res \in {"error", "panic"}, NEW s, Return(p, res, s)
      PROVE  DeadInv'
  BY <1>3, ReturnDead DEF Ends
<1>4. ASSUME NEW s, Return(p, "ok", s), call[p].pc \notin {"start_get", "start_delete"}
      PROVE  DeadInv'
  <2>1. \A t \in Ends(p, "ok", s) : Dead(t)'
    BY <1>2, <1>4, DeadStays, NoneAssumption DEF CallGone, Ends
  <2> QED BY <1>4, <2>1, ReturnDead
<1>5. ASSUME NEW pc \in PC \ {"add_create", "start_delete"}, NEW c,
             c.pc = pc, c.op = call[p].op, c.sid = call[p].sid, GoOn(p, c),
             call[p].pc \notin {"start_get", "start_delete"}
      PROVE  DeadInv'
  BY <1>5, GotoDead
<1>6. CASE StartGet(p)
  <2>1. ASSUME Goto(p, "generate"), call[p].sid = NoSid PROVE DeadInv'
    <3>1. PICK c : c = [call[p] EXCEPT !.pc = "generate"]
      OBVIOUS
    <3>2. c.pc = "generate" /\ c.op = call[p].op /\ c.sid = NoSid /\ GoOn(p, c)
      BY <1>2, <2>1, <3>1 DEF Goto, Call
    <3> QED BY <2>1, <3>2, GotoDead DEF PC
  <2>2. ASSUME Goto(p, "start_delete"), call[p].sid # NoSid, Doc(p) # NoDoc
        PROVE  DeadInv'
    <3>1. PICK c : c = [call[p] EXCEPT !.pc = "start_delete"]
      OBVIOUS
    <3>2. c.pc = "start_delete" /\ c.op = call[p].op /\ c.sid = call[p].sid
          /\ GoOn(p, c)
      BY <1>2, <2>2, <3>1 DEF Goto, Call
    <3>3. call[p].sid \in Sid /\ origin[call[p].sid] # NoDoc
      BY <1>2, <2>2 DEF Call, Doc, IInv, DocsMatchOrigin, SameLogin
    <3> QED BY <3>2, <3>3, GotoDead DEF PC
  <2> QED BY <1>3, <1>6, <2>1, <2>2, NothingFails DEF StartGet
<1>7. CASE StartDelete(p)
  <2>1. PICK c : c = [call[p] EXCEPT !.pc = "generate"]
    OBVIOUS
  <2>2. c.pc = "generate" /\ c.op = call[p].op /\ c.sid = call[p].sid /\ GoOn(p, c)
    BY <1>2, <1>7, <2>1 DEF StartDelete, Goto, Call
  <2>3. call[p].sid \in Sid /\ origin[call[p].sid] # NoDoc
    BY <1>2, <1>7, CallFacts DEF StartDelete, CallGone, LocalSet, HasSid
  <2>4. Dead(c.sid)'
    BY <1>7, <2>2, <2>3, DeleteKills DEF StartDelete
  <2> QED BY <2>2, <2>4, GotoDead DEF PC
<1>8. CASE StartCreate(p) \/ StartGetUser(p) \/ StartCreateUser(p)
  <2>1. call[p].pc \notin {"start_get", "start_delete"}
    BY <1>8 DEF StartCreate, StartGetUser, StartCreateUser, Reads
  <2>2. ASSUME NEW pc \in {"start_get_user", "start_create_user"}, Goto(p, pc)
        PROVE  DeadInv'
    <3>1. PICK c : c = [call[p] EXCEPT !.pc = pc]
      OBVIOUS
    <3>2. c.pc = pc /\ c.op = call[p].op /\ c.sid = call[p].sid /\ GoOn(p, c)
      BY <1>2, <2>2, <3>1 DEF Goto, Call
    <3> QED BY <1>5, <2>1, <3>2 DEF PC
  <2>3. ASSUME LoadUser(p, "start_replace_user") PROVE DeadInv'
    <3>1. PICK c : c = [call[p] EXCEPT !.pc = "start_replace_user",
                                       !.uses = userSes[UserIn(call[p])]]
      OBVIOUS
    <3>2. c.pc = "start_replace_user" /\ c.op = call[p].op /\ c.sid = call[p].sid
          /\ GoOn(p, c)
      BY <1>2, <2>3, <3>1 DEF LoadUser, Call
    <3> QED BY <1>5, <2>1, <3>2 DEF PC
  <2> QED BY <1>3, <1>4, <1>8, <2>1, <2>2, <2>3
       DEF StartCreate, StartGetUser, StartCreateUser, StartReturns
<1>9. CASE StartPanic(p) \/ StartReplaceUser(p)
  BY <1>3, <1>4, <1>9 DEF StartPanic, StartReplaceUser, StartReturns, Reads
<1> QED BY <1>6, <1>7, <1>8, <1>9

(* Logout, for whichever operation, leaves no document of a user's session:*)
(* its user has a document, so only a failure makes it return early.       *)
LEMMA LogoutDead ==
  ASSUME UserInv, IInv', DeadInv, Answers, [Next]_vars, NEW p \in Proc,
         LogoutGet(p) \/ LogoutGetUser(p) \/ LogoutReplaceUser(p) \/ LogoutDelete(p)
  PROVE  DeadInv'
<1>0. IInv /\ call[p] \in Call /\ CallKnown(call[p]) /\ LocalSet(call[p])
  BY UserFacts
<1>1. call[p].pc \in {"logout_get", "logout_get_user", "logout_replace_user",
                     "logout_delete"}
  BY DEF LogoutGet, LogoutGetUser, LogoutReplaceUser, LogoutDelete, Reads
<1>2. call[p].op \in {"Logout", "FindBySessionToken", "UpdateSessionData",
                     "RenewSession"} /\ call[p].sid \in Sid
  BY <1>0, <1>1 DEF LocalSet, OpAt, HasSid, HasSes
<1>3. ASSUME LogoutReturns(p, "ok"),
             \A s \in Sid : s = call[p].sid /\ Owned(s) => Dead(s)'
      PROVE  DeadInv'
  <2>1. PICK res : Return(p, res, NoSid) /\ res \in {"ok", "invalid"}
                   /\ (res = "ok" => call[p].op = "Logout")
    BY <1>3 DEF LogoutReturns
  <2>2. \A t \in Ends(p, res, NoSid) : Dead(t)'
    BY <1>2, <1>3, <2>1 DEF Ends
  <2> QED BY <1>0, <2>1, <2>2, ReturnDead
<1>4. ASSUME NEW pc \in {"logout_get_user", "logout_replace_user", "logout_delete"},
             NEW c, c.pc = pc, c.op = call[p].op, c.sid = call[p].sid, GoOn(p, c)
      PROVE  DeadInv'
  BY <1>0, <1>2, <1>4, GotoDead DEF PC
<1>5. CASE LogoutGet(p)
  <2>1. CASE Load(p, "logout_get_user")
    <3>1. PICK c : c = [call[p] EXCEPT !.pc = "logout_get_user", !.ses = Doc(p)]
      OBVIOUS
    <3>2. c.pc = "logout_get_user" /\ c.op = call[p].op /\ c.sid = call[p].sid
          /\ GoOn(p, c)
      BY <1>0, <2>1, <3>1 DEF Load, Call
    <3> QED BY <1>4, <3>2
  <2>2. CASE Doc(p) = NoDoc /\ LogoutReturns(p, "ok")
    <3>1. \A s \in Sid : s = call[p].sid /\ Owned(s) => Dead(s)
      BY <2>2 DEF Dead, Doc, Owned
    <3> QED BY <1>0, <1>3, <2>2, <3>1, DeadStays
  <2> QED BY <1>5, <2>1, <2>2, NothingFails DEF LogoutGet
<1>6. CASE LogoutGetUser(p)
  <2>0. call[p].pc = "logout_get_user"
    BY <1>6 DEF LogoutGetUser, Reads
  <2>1. /\ call[p].ses # NoDoc /\ HasDoc(call[p].ses.user)
        /\ call[p].ses.user = origin[call[p].sid].user
    BY <1>0, <2>0, HeldHasOrigin DEF CallKnown, HasSes
  <2>2. CASE call[p].ses.user = NoUser /\ LogoutReturns(p, "ok")
    BY <1>3, <2>1, <2>2 DEF Owned
  <2>3. CASE LoadUser(p, "logout_replace_user")
    <3>1. PICK c : c = [call[p] EXCEPT !.pc = "logout_replace_user",
                                       !.uses = userSes[UserIn(call[p])]]
      OBVIOUS
    <3>2. c.pc = "logout_replace_user" /\ c.op = call[p].op /\ c.sid = call[p].sid
          /\ GoOn(p, c)
      BY <1>0, <2>3, <3>1 DEF LoadUser, Call
    <3> QED BY <1>4, <3>2
  <2> QED BY <1>6, <2>1, <2>2, <2>3, NothingFails DEF LogoutGetUser, HasDoc
<1>7. CASE LogoutReplaceUser(p)
  <2>1. PICK c : c = [call[p] EXCEPT !.pc = "logout_delete"]
    OBVIOUS
  <2>2. c.pc = "logout_delete" /\ c.op = call[p].op /\ c.sid = call[p].sid
        /\ GoOn(p, c)
    BY <1>0, <1>7, <2>1 DEF LogoutReplaceUser, Goto, Call
  <2> QED BY <1>4, <2>2
<1>8. CASE LogoutDelete(p)
  <2>1. PICK a \in Answer : DeleteSingle(p, a)
                            /\ LogoutReturns(p, IF a = "ok" THEN "ok" ELSE "error")
    BY <1>8 DEF LogoutDelete
  <2>2. a = "ok"
    BY <2>1, NothingFails DEF DeleteSingle, PutSingle
  <2>3. \A s \in Sid : s = call[p].sid /\ Owned(s) => Dead(s)'
    BY <1>0, <2>1, DeleteKills DEF Owned
  <2> QED BY <1>3, <2>1, <2>2, <2>3
<1> QED BY <1>5, <1>6, <1>7, <1>8

(* A lookup or an update that says "invalid" has found no document.        *)
LEMMA ReadDead ==
  ASSUME IInv, IInv', DeadInv, Answers, [Next]_vars, NEW p \in Proc,
         ReadGet(p) \/ ReadGetUser(p) \/ UpdateUser(p) \/ UpdateSingle(p)
  PROVE  DeadInv'
<1>0. call[p] \in Call /\ LocalSet(call[p])
  BY CallFacts
<1>1. call[p].pc \in {"read_get", "read_get_user", "update_user", "update_single"}
  BY DEF ReadGet, ReadGetUser, UpdateUser, UpdateSingle, Reads
<1>2. call[p].op \in {"FindBySessionToken", "UpdateSessionData"}
  BY <1>0, <1>1 DEF LocalSet, OpAt
<1>3. ASSUME NEW res, Return(p, res, NoSid), res # "invalid"
      PROVE  DeadInv'
  BY <1>2, <1>3, ReturnDead DEF Ends
<1>4. ASSUME NEW pc \in {"logout_get", "read_get_user", "update_user", "update_single"},
             NEW c, c.pc = pc, c.op = call[p].op, c.sid = call[p].sid, GoOn(p, c)
      PROVE  DeadInv'
  BY <1>2, <1>4, GotoDead DEF PC
<1>5. ASSUME NEW pc \in {"logout_get", "update_single"}, Goto(p, pc)
      PROVE  DeadInv'
  <2>1. PICK c : c = [call[p] EXCEPT !.pc = pc]
    OBVIOUS
  <2>2. c.pc = pc /\ c.op = call[p].op /\ c.sid = call[p].sid /\ GoOn(p, c)
    BY <1>0, <1>5, <2>1 DEF Goto, Call
  <2> QED BY <1>4, <2>2
<1>6. CASE ReadGet(p)
  <2>1. CASE Doc(p) = NoDoc /\ Return(p, "invalid", NoSid)
    <3>1. \A t \in Ends(p, "invalid", NoSid) : Dead(t)
      BY <2>1 DEF Ends, Owned, Dead, Doc
    <3> QED BY <2>1, <3>1, DeadStays, ReturnDead
  <2>2. ASSUME GoOn(p, [call[p] EXCEPT !.pc = "read_get_user", !.ses = Doc(p),
                                       !.at = now])
        PROVE  DeadInv'
    <3>1. PICK c : c = [call[p] EXCEPT !.pc = "read_get_user", !.ses = Doc(p),
                                       !.at = now]
      OBVIOUS
    <3>2. c.pc = "read_get_user" /\ c.op = call[p].op /\ c.sid = call[p].sid
          /\ GoOn(p, c)
      BY <1>0, <2>2, <3>1 DEF Call
    <3> QED BY <1>4, <3>2
  <2>3. CASE ReadBeforeLogin(p)
    <3>1. CASE Load(p, "update_single")
      <4>1. PICK c : c = [call[p] EXCEPT !.pc = "update_single", !.ses = Doc(p)]
        OBVIOUS
      <4>2. c.pc = "update_single" /\ c.op = call[p].op /\ c.sid = call[p].sid
            /\ GoOn(p, c)
        BY <1>0, <3>1, <4>1 DEF Load, Call
      <4> QED BY <1>4, <4>2
    <3> QED BY <1>3, <2>3, <3>1 DEF ReadBeforeLogin
  <2> QED BY <1>5, <1>6, <2>1, <2>2, <2>3, NothingFails DEF ReadGet
<1>7. CASE ReadGetUser(p)
  <2>1. ASSUME NEW pc \in {"update_single", "update_user"}, NEW uses,
               GoOn(p, [call[p] EXCEPT !.pc = pc, !.uses = uses])
        PROVE  DeadInv'
    <3>1. PICK c : c = [call[p] EXCEPT !.pc = pc, !.uses = uses]
      OBVIOUS
    <3>2. c.pc = pc /\ c.op = call[p].op /\ c.sid = call[p].sid /\ GoOn(p, c)
      BY <1>0, <2>1, <3>1 DEF Call
    <3> QED BY <1>4, <3>2
  <2> QED BY <1>3, <1>5, <1>7, <2>1, NothingFails DEF ReadGetUser
<1>8. CASE UpdateUser(p)
  BY <1>5, <1>8 DEF UpdateUser
<1>9. CASE UpdateSingle(p)
  BY <1>3, <1>9 DEF UpdateSingle
<1> QED BY <1>6, <1>7, <1>8, <1>9

(* A renewed session has a new id and no document under the old one.       *)
LEMMA RenewDead ==
  ASSUME IInv, IInv', DeadInv, Answers, [Next]_vars, NEW p \in Proc,
         RenewGet(p) \/ RenewCreate(p) \/ RenewDelete(p)
  PROVE  DeadInv'
<1>0. call[p] \in Call /\ LocalSet(call[p])
  BY CallFacts
<1>1. call[p].op = "RenewSession"
  BY <1>0 DEF RenewGet, RenewCreate, RenewDelete, Reads, LocalSet, OpAt
<1>2. ASSUME NEW res, NEW s, Return(p, res, s),
             res = "error" \/ (res = "ok" /\ s = call[p].sid)
      PROVE  DeadInv'
  BY <1>1, <1>2, ReturnDead DEF Ends
<1>3. ASSUME NEW pc \in {"logout_get", "generate", "renew_delete"},
             NEW c, c.pc = pc, c.op = call[p].op, c.sid = call[p].sid, GoOn(p, c)
      PROVE  DeadInv'
  BY <1>1, <1>3, GotoDead DEF PC
<1>4. ASSUME NEW pc \in {"logout_get", "renew_delete"}, Goto(p, pc)
      PROVE  DeadInv'
  <2>1. PICK c : c = [call[p] EXCEPT !.pc = pc]
    OBVIOUS
  <2>2. c.pc = pc /\ c.op = call[p].op /\ c.sid = call[p].sid /\ GoOn(p, c)
    BY <1>0, <1>4, <2>1 DEF Goto, Call
  <2> QED BY <1>3, <2>2
<1>5. CASE RenewGet(p)
  <2>1. CASE Doc(p) = NoDoc /\ Return(p, "invalid", NoSid)
    <3>1. \A t \in Ends(p, "invalid", NoSid) : Dead(t)
      BY <2>1 DEF Ends, Owned, Dead, Doc
    <3> QED BY <2>1, <3>1, DeadStays, ReturnDead
  <2>2. CASE Load(p, "generate")
    <3>1. PICK c : c = [call[p] EXCEPT !.pc = "generate", !.ses = Doc(p)]
      OBVIOUS
    <3>2. c.pc = "generate" /\ c.op = call[p].op /\ c.sid = call[p].sid /\ GoOn(p, c)
      BY <1>0, <2>2, <3>1 DEF Load, Call
    <3> QED BY <1>3, <3>2
  <2> QED BY <1>2, <1>4, <1>5, <2>1, <2>2, NothingFails DEF RenewGet
<1>6. CASE RenewCreate(p)
  BY <1>2, <1>4, <1>6 DEF RenewCreate
<1>7. CASE RenewDelete(p)
  <2>1. PICK a \in Answer : /\ DeleteSingle(p, a)
                            /\ IF a = "ok" THEN Return(p, "ok", call[p].new)
                                           ELSE Return(p, "error", NoSid)
    BY <1>7 DEF RenewDelete
  <2>2. a = "ok"
    BY <2>1, NothingFails DEF DeleteSingle, PutSingle
  <2>3. call[p].pc \in HasSes
    BY <1>7 DEF RenewDelete, HasSes
  <2>4. \A t \in Ends(p, "ok", call[p].new) : Dead(t)'
    BY <2>1, <2>3, HeldHasOrigin, DeleteKills DEF Ends
  <2> QED BY <2>1, <2>2, <2>4, ReturnDead
<1> QED BY <1>5, <1>6, <1>7

(* Faults are counted, and the count never goes back.                      *)
LEMMA FaultsStay ==
  ASSUME [Next]_vars, faults \in Nat, faults' = 0
  PROVE  faults = 0
<1>1. ASSUME NEW p \in Proc, Step(p) PROVE faults' = faults \/ faults' = faults + 1
  BY <1>1 DEF Step, GenerateNewSessionID, CreateLogin, AddGet, AddDelete, AddCreate,
       StartGet, StartDelete, StartCreate, StartPanic, StartGetUser, StartCreateUser,
       StartReplaceUser, LogoutGet, LogoutGetUser, LogoutReplaceUser, LogoutDelete,
       ReadGet, ReadGetUser, UpdateUser, UpdateSingle, RenewGet, RenewCreate,
       RenewDelete, Works, Fails, Gives, CreateSingle, DeleteSingle, ReplaceSingle,
       PutSingle, PutUser
<1>2. ASSUME NEW p \in Proc, Start(p) PROVE faults' = faults
  BY <1>2 DEF Start, StartLogin, AddLoginInfo, StartSession, Logout,
       FindBySessionToken, UpdateSessionData, RenewSession, Begin
<1>3. ASSUME NEW p \in Proc, Crash(p) PROVE faults' = faults + 1
  BY <1>3 DEF Crash, Fails
<1> QED BY <1>1, <1>2, <1>3 DEF Next, Tick, vars

(* Nothing is over at the start.                                           *)
LEMMA InitDeadInv == Init => DeadInv
  BY DEF Init, DeadInv, CallGone, Idle

(* Every step keeps DeadInv.                                               *)
LEMMA NextDeadInv ==
  ASSUME UserInv, UserInv', DeadInv, [Next]_vars
  PROVE  DeadInv'
<1> SUFFICES ASSUME faults' = 0 PROVE DeadInv'
  BY DEF DeadInv
<1>0. IInv /\ IInv' /\ faults \in Nat
  BY BoundsAssumption DEF UserInv, IInv, TypeOK
<1>1. CASE Tick \/ UNCHANGED vars
  <2>1. UNCHANGED <<single, call, faults, origin, ended>>
    BY <1>1 DEF Tick, vars
  <2> QED BY <2>1 DEF DeadInv, CallGone, Dead
<1>2. ASSUME NEW p \in Proc, Start(p) PROVE DeadInv'
  <2>1. Answers
    BY <1>2 DEF Start, StartLogin, AddLoginInfo, StartSession, Logout,
         FindBySessionToken, UpdateSessionData, RenewSession, Begin, Answers
  <2> QED BY <1>0, <1>2, <2>1, StartDead
<1>3. ASSUME NEW p \in Proc, Step(p) PROVE DeadInv'
  <2>1. Answers
    BY <1>0, <1>3, FaultsStay, NothingFails DEF Answers
  <2> QED BY <1>0, <1>3, <2>1, GenerateDead, AddDead, StartSessionDead, LogoutDead,
             ReadDead, RenewDead
      DEF Step
<1>4. ASSUME NEW p \in Proc, Crash(p) PROVE DeadInv'
  BY <1>0, <1>4 DEF Crash, Fails
<1> QED BY <1>1, <1>2, <1>3, <1>4 DEF Next

-----------------------------------------------------------------------------
(* With a store that answers, an id that was exchanged, logged out or      *)
(* reported invalid never has a document again, whatever had read it.      *)
THEOREM EndedIsOver == Spec => []EndedStaysDead
<1>1. DeadInv => EndedStaysDead
  BY DEF DeadInv, EndedStaysDead, Dead
<1>2. UserInv /\ DeadInv /\ [Next]_vars => UserInv' /\ DeadInv'
  BY NextUserInv, NextDeadInv
<1> QED BY <1>1, <1>2, InitUserInv, InitDeadInv, PTL DEF Spec

(* GetUserSessions and readSession agree on the sessions of a user, but at *)
(* the instant at which a term ends; the users have documents.             *)
THEOREM ListedSessionsAreActive == Spec => []ListedIsActive
<1>1. ASSUME UserInv PROVE ListedIsActive
  <2> DEFINE active(u, s) == /\ userSes[u] # NoDoc
                             /\ ~ Expired(now, single[s], AbsoluteTimeout)
                             /\ ~ Idling(now, single[s])
  <2> SUFFICES ASSUME NEW u \in User, NEW s \in known, single[s] # NoDoc,
                      single[s].user = u
               PROVE  /\ s \in GetUserSessions(u) => active(u, s)
                      /\ active(u, s) => \/ s \in GetUserSessions(u)
                                         \/ now - single[s].loginAt = AbsoluteTimeout
                                         \/ now - single[s].lastAccessAt = IdleTimeout
    BY DEF ListedIsActive
  <2>1. s \in Sid /\ userSes[u] # NoDoc
    BY <1>1, NoneAssumption DEF UserInv, KnownHasUserDoc, IInv, TypeOK
  <2>2. s \in GetUserSessions(u) <=> /\ now - single[s].loginAt < AbsoluteTimeout
                                     /\ now - single[s].lastAccessAt < IdleTimeout
    BY <2>1 DEF GetUserSessions
  <2>3. active(u, s) <=> /\ ~ now - single[s].loginAt > AbsoluteTimeout
                         /\ ~ now - single[s].lastAccessAt > IdleTimeout
    BY <2>1 DEF Expired, Idling
  <2>4. /\ now \in Nat /\ single[s].loginAt \in Nat /\ single[s].lastAccessAt \in Nat
        /\ AbsoluteTimeout \in Nat /\ IdleTimeout \in Nat
    <3>1. single[s] \in SingleDoc /\ now \in 0..MaxTime
      BY <1>1, <2>1 DEF UserInv, IInv, TypeOK
    <3> QED BY <3>1, BoundsAssumption, TermsAssumption DEF SingleDoc
  <2> HIDE DEF active
  <2> QED BY <2>2, <2>3, <2>4
<1> QED BY <1>1, InitUserInv, NextUserInv, PTL DEF Spec

-----------------------------------------------------------------------------
(* Only four kinds of steps write a user document.                         *)
LEMMA OthersKeepUsers ==
  ASSUME [Next]_vars,
         ~ \E p \in Proc : \/ StartCreateUser(p) \/ StartReplaceUser(p)
                           \/ LogoutReplaceUser(p) \/ UpdateUser(p)
  PROVE  userSes' = userSes
<1>1. CASE Tick \/ UNCHANGED vars
  BY <1>1 DEF Tick, vars
<1>2. ASSUME NEW p \in Proc, Start(p) PROVE userSes' = userSes
  BY <1>2 DEF Start, StartLogin, AddLoginInfo, StartSession, Logout,
       FindBySessionToken, UpdateSessionData, RenewSession, Begin
<1>3. ASSUME NEW p \in Proc, Step(p) PROVE userSes' = userSes
  BY <1>3 DEF Step, GenerateNewSessionID, CreateLogin, AddGet, AddDelete, AddCreate,
       StartGet, StartDelete, StartCreate, StartPanic, StartGetUser, LogoutGet,
       LogoutGetUser, LogoutDelete, ReadGet, ReadGetUser, UpdateSingle, RenewGet,
       RenewCreate, RenewDelete, Reads, CreateSingle, DeleteSingle, ReplaceSingle,
       PutSingle
<1>4. ASSUME NEW p \in Proc, Crash(p) PROVE userSes' = userSes
  BY <1>4 DEF Crash
<1> QED BY <1>1, <1>2, <1>3, <1>4 DEF Next

(* A step of p that writes a user document of whose data it says how.      *)
LEMMA DataChange ==
  ASSUME IInv, NEW p \in Proc, NEW u, NEW doc, NEW a \in Answer, PutUser(u, doc, a),
         NEW v \in User, userSes[v] # NoDoc, userSes'[v].data # userSes[v].data
  PROVE  v = u /\ doc.data # userSes[v].data
  BY DEF PutUser, IInv, TypeOK

(* What was listed once counts as listed: origins and user documents stay. *)
LEMMA ListedGrows ==
  ASSUME IInv, [Next]_vars
  PROVE  Listed \subseteq Listed'
<1>1. \A s \in Sid : origin[s] # NoDoc => origin'[s] = origin[s]
  <2>1. Stutters \/ Closes \/ LogsIn \/ Carries \/ (Tick /\ Phase' = Phase)
    BY NextRefines
  <2>2. origin \in [Sid -> Ticket \cup {NoDoc}]
    BY DEF IInv, TypeOK
  <2>3. ASSUME NEW o \in Sid, NEW ticket, Opens(o, ticket)
        PROVE  \A s \in Sid : origin[s] # NoDoc => origin'[s] = origin[s]
    BY <2>2, <2>3 DEF Opens, Phase
  <2> QED BY <2>1, <2>3 DEF Stutters, Closes, LogsIn, Carries, Tick
<1>2. \A u \in User : userSes[u] # NoDoc => userSes'[u] # NoDoc
  <2>1. ASSUME NEW u, NEW doc \in UserDoc, NEW a \in Answer, PutUser(u, doc, a)
        PROVE  \A v \in User : userSes[v] # NoDoc => userSes'[v] # NoDoc
    BY <2>1, NoDocAssumption DEF PutUser, IInv, TypeOK
  <2>2. CASE userSes' = userSes
    BY <2>2
  <2>3. ASSUME NEW p \in Proc,
               \/ StartCreateUser(p) \/ StartReplaceUser(p)
               \/ LogoutReplaceUser(p) \/ UpdateUser(p)
        PROVE  \/ userSes' = userSes
               \/ \E u : \E a \in Answer, doc \in UserDoc : PutUser(u, doc, a)
    <3>1. call[p] \in Call /\ LocalSet(call[p])
      BY CallFacts
    <3>2. call[p].pc \in HasUses => call[p].uses \in UserDoc
      BY <3>1 DEF LocalSet, Call
    <3>3. CASE StartCreateUser(p)
      <4> DEFINE doc == [sessions |-> {call[p].new}, data |-> [k \in Key |-> NoValue]]
      <4>1. CASE UNCHANGED userSes
        BY <4>1
      <4>2. CASE call[p].pc = "start_create_user" /\ userSes[call[p].user] = NoDoc
        <5>1. call[p].new \in Sid
          BY <3>1, <4>2 DEF LocalSet, HasNew
        <5>2. doc \in UserDoc
          BY <5>1 DEF UserDoc, Data
        <5>3. userSes' = userSes \/ \E a \in Answer : PutUser(call[p].user, doc, a)
          BY <3>3, <4>2 DEF StartCreateUser, Reads
        <5> HIDE DEF doc
        <5> QED BY <5>2, <5>3
      <4> QED BY <3>3, <4>1, <4>2 DEF StartCreateUser, Reads
    <3>4. CASE StartReplaceUser(p)
      <4> DEFINE doc == [call[p].uses EXCEPT !.sessions = @ \cup {call[p].new}]
      <4>1. call[p].pc = "start_replace_user"
        BY <3>4 DEF StartReplaceUser
      <4>2. call[p].uses \in UserDoc /\ call[p].new \in Sid
        BY <3>1, <3>2, <4>1 DEF HasUses, LocalSet, HasNew
      <4>3. \A d \in UserDoc, s \in Sid : [d EXCEPT !.sessions = @ \cup {s}] \in UserDoc
        BY DEF UserDoc
      <4>4. doc \in UserDoc
        BY <4>2, <4>3
      <4>5. \E a \in Answer : PutUser(call[p].user, doc, a)
        BY <3>4 DEF StartReplaceUser
      <4> HIDE DEF doc
      <4> QED BY <4>4, <4>5
    <3>5. CASE LogoutReplaceUser(p) \/ UpdateUser(p)
      BY <3>2, <3>5 DEF LogoutReplaceUser, UpdateUser, HasUses
    <3> QED BY <2>3, <3>3, <3>4, <3>5
  <2> QED BY <2>1, <2>2, <2>3, OthersKeepUsers
<1>3. \A s \in Sid : origin[s] # NoDoc => origin[s].user \in Owner
  BY DEF IInv, TypeOK, Ticket
<1> QED BY <1>1, <1>2, <1>3 DEF Listed, Owner

(* Whatever races and fails, the data of a user changes by an update, or   *)
(* by a login or a logout whose copy of the user's document is stale.      *)
THEOREM StaleCopiesLoseData == Spec => DataLostOnlyByStaleReplace
<1> DEFINE Loses(u) ==
      \E p \in Proc : /\ call'[p] # call[p]
                      /\ \/ call[p].pc = "update_user"
                         \/ /\ call[p].pc \in {"start_replace_user",
                                               "logout_replace_user"}
                            /\ call[p].uses # userSes[u]
<1>1. ASSUME IInv, [Next]_vars
      PROVE  [\A u \in User : userSes[u] # NoDoc /\ userSes'[u].data # userSes[u].data
                             => Loses(u)]_vars
  <2> SUFFICES ASSUME NEW v \in User, userSes[v] # NoDoc,
                      userSes'[v].data # userSes[v].data
               PROVE  Loses(v)
    OBVIOUS
  <2>1. PICK p \in Proc : \/ StartCreateUser(p) \/ StartReplaceUser(p)
                         \/ LogoutReplaceUser(p) \/ UpdateUser(p)
    BY <1>1, OthersKeepUsers
  <2>2. call[p] \in Call /\ LocalSet(call[p])
    BY <1>1, CallFacts
  <2>3. CASE StartCreateUser(p)
    <3>1. ~ Reads(p, "start_create_user")
      BY DEF Reads
    <3>2. PICK doc : doc = [sessions |-> {call[p].new},
                            data |-> [k \in Key |-> NoValue]]
      OBVIOUS
    <3>3. PICK a \in Answer : userSes[call[p].user] = NoDoc
                             /\ PutUser(call[p].user, doc, a)
      BY <2>3, <3>1, <3>2 DEF StartCreateUser
    <3> QED BY <1>1, <3>3, DataChange
  <2>4. CASE StartReplaceUser(p)
    <3>0. PICK doc : doc = [call[p].uses EXCEPT !.sessions = @ \cup {call[p].new}]
      OBVIOUS
    <3>1. PICK a \in Answer : PutUser(call[p].user, doc, a) /\ StartReturns(p, a)
      BY <2>4, <3>0 DEF StartReplaceUser
    <3>2. call[p].pc = "start_replace_user" /\ call[p].uses \in UserDoc
      BY <2>2, <2>4 DEF StartReplaceUser, LocalSet, HasUses, Call
    <3>3. call'[p] = Idle
      BY <1>1, <3>1 DEF StartReturns, Return, IInv, TypeOK
    <3>4. doc.data = call[p].uses.data
      BY <3>0, <3>2 DEF UserDoc
    <3>5. call[p].uses # userSes[v]
      BY <1>1, <3>1, <3>4, DataChange
    <3> QED BY <3>2, <3>3, <3>5 DEF Idle
  <2>5. CASE LogoutReplaceUser(p)
    <3>1. PICK a \in Answer : PutUser(call[p].ses.user, call[p].uses, a)
      BY <2>5 DEF LogoutReplaceUser
    <3>2. call[p].uses # userSes[v]
      BY <1>1, <3>1, DataChange
    <3>3. call[p].pc = "logout_replace_user" /\ call'[p].pc = "logout_delete"
      BY <1>1, <2>2, <2>5, PcChange DEF LogoutReplaceUser, Goto, GoOn, IInv, TypeOK, PC
    <3> QED BY <3>2, <3>3
  <2>6. CASE UpdateUser(p)
    <3>1. call[p].pc = "update_user" /\ call'[p].pc = "update_single"
      BY <1>1, <2>2, <2>6, PcChange DEF UpdateUser, Goto, GoOn, IInv, TypeOK, PC
    <3> QED BY <3>1
  <2> QED BY <2>1, <2>3, <2>4, <2>5, <2>6
<1> QED BY <1>1, InductiveInvariant, PTL DEF Spec, DataLostOnlyByStaleReplace
=============================================================================
