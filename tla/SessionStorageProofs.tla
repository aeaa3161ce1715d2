------------------------ MODULE SessionStorageProofs ------------------------
(***************************************************************************)
(* Theorems about SessionStorage, for any processes, ids, users, keys and  *)
(* terms.  IInv is inductive; a step either leaves origin alone            *)
(* (QuietStep) or creates the document of the id its call has drawn        *)
(* (CreateStep). From IInv alone follow that SessionStorage implements     *)
(* SessionLifecycle, and what a lookup may call active.                    *)
(***************************************************************************)
EXTENDS SessionStorage, TLAPS

(* The locals between two calls.                                           *)
LEMMA IdleIsCall == Idle \in Call /\ LocalSet(Idle)
<1>1. NoDirectives \in Directives  BY DEF NoDirectives, Directives
<1>2. Idle \in Call
  BY <1>1 DEF Idle, Call, PC, Owner
<1>3. Idle.pc = "idle" /\ Idle.op = "none"  BY DEF Idle
<1> QED
  BY <1>2, <1>3 DEF LocalSet, OpAt, ToCreate, HasNew, HasSid, HasSes, HasUser, HasUses

(* EXCEPT on the program counter leaves the other locals alone.            *)
LEMMA PcChange ==
  ASSUME NEW c \in Call, NEW pc \in PC
  PROVE  LET d == [c EXCEPT !.pc = pc] IN
         /\ d \in Call
         /\ d.pc = pc /\ d.op = c.op /\ d.sid = c.sid /\ d.user = c.user
         /\ d.dirs = c.dirs /\ d.new = c.new /\ d.ses = c.ses
         /\ d.uses = c.uses /\ d.at = c.at
  BY DEF Call

(* Assumptions of both kinds of steps: process p goes on with the locals c.*)
Moves(p, c) ==
  /\ c \in Call
  /\ LocalSet(c)
  /\ call' = [call EXCEPT ![p] = c]
  /\ now' \in 0..MaxTime
  /\ userSes' \in [User -> UserDoc \cup {NoDoc}]
  /\ reply' \in Reply
  /\ faults' \in 0..MaxFaults
  /\ known' \subseteq Sid
  /\ ended' \subseteq Sid

(* A document that is new in the store belongs to its id's login.          *)
StoreKept == \A s \in Sid : \/ single'[s] \in {single[s], NoDoc}
                            \/ single'[s] \in SingleDoc /\ SameLogin(s, single'[s])

(* A step that leaves origin alone keeps IInv.                             *)
LEMMA QuietStep ==
  ASSUME IInv, NEW p \in Proc, NEW c, Moves(p, c),
         origin' = origin,
         single' \in [Sid -> SingleDoc \cup {NoDoc}],
         StoreKept,
         c.ses # NoDoc => SameLogin(c.sid, c.ses),
         c.new \in {call[p].new, NoSid},
         c.pc \in ToCreate => call[p].pc \in ToCreate /\ c.new = call[p].new
  PROVE  IInv'
<1> USE DEF IInv
<1>1. TypeOK'
  BY DEF TypeOK, Moves
<1>2. \A q \in Proc : call'[q] = IF q = p THEN c ELSE call[q]
  BY DEF TypeOK, Moves
<1>3. LocalsSet'
  BY <1>2 DEF LocalsSet, Moves, LocalSet, UserIn
<1>4. DocsMatchOrigin'
  <2>1. \A s \in Sid : single'[s] # NoDoc => SameLogin(s, single'[s])
    BY DEF StoreKept, DocsMatchOrigin
  <2>2. \A q \in Proc : call'[q].ses # NoDoc => SameLogin(call'[q].sid, call'[q].ses)
    BY <1>2 DEF DocsMatchOrigin
  <2> QED BY <2>1, <2>2 DEF DocsMatchOrigin, SameLogin
<1>5. NewIdsFresh'
  BY <1>2 DEF NewIdsFresh
<1> QED BY <1>1, <1>3, <1>4, <1>5

(* The Create of an id that the call has drawn keeps IInv.                 *)
LEMMA CreateStep ==
  ASSUME IInv, NEW p \in Proc, NEW c, Moves(p, c),
         NEW a \in Answer, NEW doc \in SingleDoc, NEW ticket \in Ticket,
         doc.user = ticket.user, doc.loginAt = ticket.loginAt,
         call[p].pc \in ToCreate,
         CreateSingle(p, doc, ticket, a),
         c.ses # NoDoc => c.ses = call[p].ses /\ c.sid = call[p].sid,
         c.new \in {call[p].new, NoSid},
         c.pc \notin ToCreate
  PROVE  IInv'
<1> USE DEF IInv
<1> DEFINE n == call[p].new
<1>1. n \in Sid /\ origin[n] = NoDoc
  BY DEF LocalsSet, LocalSet, HasNew, NewIdsFresh
<1>2. \A q \in Proc : call'[q] = IF q = p THEN c ELSE call[q]
  BY DEF TypeOK, Moves
<1>3. /\ single' \in [Sid -> SingleDoc \cup {NoDoc}]
      /\ origin' \in [Sid -> Ticket \cup {NoDoc}]
      /\ \A s \in Sid \ {n} : single'[s] = single[s] /\ origin'[s] = origin[s]
      /\ \/ single'[n] = single[n] /\ origin'[n] = origin[n]
         \/ single'[n] = doc /\ origin'[n] = ticket
  BY <1>1 DEF TypeOK, CreateSingle, PutSingle
<1>4. TypeOK'
  BY <1>3 DEF TypeOK, Moves
<1>5. LocalsSet'
  BY <1>2 DEF LocalsSet, Moves, LocalSet, UserIn
<1>6. doc # NoDoc /\ ticket # NoDoc
  BY NoDocAssumption
<1>7. DocsMatchOrigin'
  <2>1. (\A s \in Sid : single[s] # NoDoc => SameLogin(s, single[s]))'
    BY <1>1, <1>3, <1>6 DEF DocsMatchOrigin, SameLogin
  <2>2. ASSUME NEW q \in Proc, call'[q].ses # NoDoc
        PROVE  SameLogin(call[q].sid, call[q].ses)'
    <3>1. /\ call[q].ses # NoDoc
          /\ call'[q].ses = call[q].ses
          /\ call'[q].sid = call[q].sid
      BY <1>2, <2>2
    <3>2. SameLogin(call[q].sid, call[q].ses)
      BY <3>1 DEF DocsMatchOrigin
    <3>3. call[q].sid # n
      BY <1>1, <3>2 DEF SameLogin
    <3> QED BY <1>3, <3>1, <3>2, <3>3 DEF SameLogin
  <2> QED BY <2>1, <2>2 DEF DocsMatchOrigin, SameLogin
<1>8. NewIdsFresh'
  <2>1. ASSUME NEW q \in Proc, call'[q].pc \in ToCreate
        PROVE  origin'[call'[q].new] = NoDoc
    <3>1. q # p /\ call'[q] = call[q]
      BY <1>2, <2>1
    <3>2. call[q].new \in Sid /\ origin[call[q].new] = NoDoc
      BY <2>1, <3>1 DEF LocalsSet, LocalSet, HasNew, NewIdsFresh
    <3>3. call[q].new # n
      BY <1>1, <3>1, NoneAssumption DEF NewIdsFresh
    <3> QED BY <1>3, <3>1, <3>2, <3>3
  <2>2. \A q, r \in Proc : call'[q].new = call'[r].new => q = r \/ call'[q].new = NoSid
    BY <1>2 DEF NewIdsFresh
  <2> QED BY <2>1, <2>2 DEF NewIdsFresh
<1> QED BY <1>4, <1>5, <1>7, <1>8

-----------------------------------------------------------------------------
(* The three ways a step leaves the store: untouched, one session document *)
(* changed, one user document changed.  Each ends in Return or in GoOn.    *)

(* A store call counts at most one fault.                                  *)
LEMMA FaultsBounded ==
  ASSUME TypeOK, Works \/ Fails
  PROVE  faults' \in 0..MaxFaults
  BY BoundsAssumption DEF TypeOK, Works, Fails

StoreTyped == /\ now' \in 0..MaxTime
              /\ origin' = origin
              /\ single' \in [Sid -> SingleDoc \cup {NoDoc}]
              /\ userSes' \in [User -> UserDoc \cup {NoDoc}]
              /\ faults' \in 0..MaxFaults
              /\ StoreKept

(* A read leaves the store as it is.                                       *)
LEMMA ReadTyped ==
  ASSUME IInv, NEW p \in Proc, NEW pc, Reads(p, pc), Works \/ Fails
  PROVE  StoreTyped
  BY FaultsBounded DEF IInv, TypeOK, Reads, StoreTyped, StoreKept

(* A Delete keeps the types of the store.                                  *)
LEMMA DeleteTyped ==
  ASSUME IInv, NEW p \in Proc, NEW a \in Answer, DeleteSingle(p, a)
  PROVE  StoreTyped
  BY FaultsBounded
  DEF IInv, TypeOK, DeleteSingle, PutSingle, Gives, StoreTyped, StoreKept

(* A Replace by a document of the same login keeps the store in order.     *)
LEMMA ReplaceTyped ==
  ASSUME IInv, NEW p \in Proc, NEW a \in Answer, NEW doc \in SingleDoc,
         ReplaceSingle(p, doc, a), SameLogin(call[p].sid, doc)
  PROVE  StoreTyped
  BY FaultsBounded
  DEF IInv, TypeOK, ReplaceSingle, PutSingle, Gives, StoreTyped, StoreKept

(* A Create or Replace of a user document keeps the types of the store.    *)
LEMMA PutUserTyped ==
  ASSUME IInv, NEW u, NEW a \in Answer, NEW doc \in UserDoc, PutUser(u, doc, a)
  PROVE  StoreTyped
  BY FaultsBounded DEF IInv, TypeOK, PutUser, Gives, StoreTyped, StoreKept

(* A call returns after a read, a Delete or a Replace.                     *)
LEMMA ReturnStep ==
  ASSUME IInv, NEW p \in Proc, NEW res \in Reply, NEW s \in Sid \cup {NoSid},
         Return(p, res, s), StoreTyped
  PROVE  IInv'
<1>1. Moves(p, Idle)
  BY IdleIsCall DEF IInv, TypeOK, Return, Ends, Moves, StoreTyped
<1>2. Idle.ses = NoDoc /\ Idle.new = NoSid /\ Idle.pc \notin ToCreate
  BY DEF Idle, ToCreate, HasNew
<1> QED BY <1>1, <1>2, QuietStep DEF StoreTyped

(* A call goes on with the locals c after a read, a Delete or a Replace.   *)
LEMMA GoOnStep ==
  ASSUME IInv, NEW p \in Proc, NEW c \in Call, GoOn(p, c), StoreTyped,
         LocalSet(c),
         c.ses # NoDoc => SameLogin(c.sid, c.ses),
         c.new \in {call[p].new, NoSid},
         c.pc \in ToCreate => call[p].pc \in ToCreate /\ c.new = call[p].new
  PROVE  IInv'
<1>1. Moves(p, c)
  BY DEF IInv, TypeOK, GoOn, Moves, StoreTyped, Reply
<1> QED BY <1>1, QuietStep DEF StoreTyped

(* Goto changes the program counter only.                                  *)
LEMMA GotoStep ==
  ASSUME IInv, NEW p \in Proc, NEW pc \in PC, Goto(p, pc), StoreTyped,
         LocalSet([call[p] EXCEPT !.pc = pc]),
         pc \in ToCreate => call[p].pc \in ToCreate
  PROVE  IInv'
<1> DEFINE c == [call[p] EXCEPT !.pc = pc]
<1>1. call[p] \in Call  BY DEF IInv, TypeOK
<1>2. /\ c \in Call /\ c.pc = pc /\ c.ses = call[p].ses /\ c.sid = call[p].sid
      /\ c.new = call[p].new
  BY <1>1, PcChange
<1>3. c.ses # NoDoc => SameLogin(c.sid, c.ses)
  BY <1>2 DEF IInv, DocsMatchOrigin
<1> HIDE DEF c
<1>4. GoOn(p, c)  BY DEF Goto, c
<1>5. LocalSet(c)  BY DEF c
<1> QED BY <1>2, <1>3, <1>4, <1>5, GoOnStep

(* The program counter at which each local variable must be set.           *)
LEMMA CallFacts ==
  ASSUME IInv, NEW p \in Proc
  PROVE  /\ call[p] \in Call
         /\ LocalSet(call[p])
         /\ call[p].ses # NoDoc => SameLogin(call[p].sid, call[p].ses)
  BY DEF IInv, TypeOK, LocalsSet, DocsMatchOrigin

-----------------------------------------------------------------------------
(* One lemma for the steps of each function.                               *)

(* Each operation begins with its arguments in its locals.                 *)
LEMMA StartPreserves ==
  ASSUME IInv, NEW p \in Proc, Start(p)
  PROVE  IInv'
<1>1. ASSUME NEW op \in Operation, NEW s \in Sid \cup {NoSid}, NEW u \in Owner,
             NEW dirs \in Directives, NEW pc \in PC,
             Begin(p, op, s, u, dirs, pc),
             \/ pc = "generate" /\ op \in {"StartLogin", "AddLoginInfo"}
             \/ pc = "start_get" /\ op = "StartSession"
             \/ pc = "logout_get" /\ op = "Logout"
             \/ pc = "read_get" /\ op \in {"FindBySessionToken", "UpdateSessionData"}
             \/ pc = "renew_get" /\ op = "RenewSession",
             op \notin {"StartLogin", "StartSession"} => s \in Sid
      PROVE  IInv'
  <2> DEFINE c == [Idle EXCEPT !.pc = pc, !.op = op, !.sid = s, !.user = u,
                               !.dirs = dirs]
  <2>1. c \in Call /\ c.pc = pc /\ c.op = op /\ c.sid = s /\ c.ses = NoDoc
        /\ c.new = NoSid
    BY IdleIsCall DEF Call, Idle
  <2>2. LocalSet(c)
    BY <1>1, <2>1 DEF LocalSet, OpAt, ToCreate, HasNew, HasSid, HasSes, HasUser, HasUses
  <2>3. GoOn(p, c) /\ StoreTyped
    BY <1>1 DEF Begin, IInv, TypeOK, StoreTyped, StoreKept
  <2>4. pc \notin ToCreate
    BY <1>1 DEF ToCreate, HasNew
  <2> HIDE DEF c
  <2> QED BY <2>1, <2>2, <2>3, <2>4, GoOnStep
<1>2. known \subseteq Sid /\ Listed \subseteq Sid
  BY DEF IInv, TypeOK, Listed
<1>3. NoDirectives \in Directives /\ NoUser \in Owner
  BY DEF NoDirectives, Directives, Owner
<1>4. CASE StartLogin(p)
  BY <1>1, <1>3, <1>4 DEF StartLogin, Operation, PC
<1>5. CASE AddLoginInfo(p)
  BY <1>1, <1>2, <1>3, <1>5 DEF AddLoginInfo, Operation, PC
<1>6. CASE StartSession(p)
  BY <1>1, <1>2, <1>3, <1>6 DEF StartSession, Operation, PC
<1>7. CASE Logout(p)
  BY <1>1, <1>2, <1>3, <1>7 DEF Logout, Operation, PC
<1>8. CASE FindBySessionToken(p)
  BY <1>1, <1>2, <1>3, <1>8 DEF FindBySessionToken, Operation, PC
<1>9. CASE UpdateSessionData(p)
  BY <1>1, <1>2, <1>3, <1>9 DEF UpdateSessionData, Operation, PC
<1>10. CASE RenewSession(p)
  BY <1>1, <1>2, <1>3, <1>10 DEF RenewSession, Operation, PC
<1> QED BY <1>4, <1>5, <1>6, <1>7, <1>8, <1>9, <1>10 DEF Start

(* generateNewSessionID draws an id that is new to everybody.              *)
LEMMA GeneratePreserves ==
  ASSUME IInv, NEW p \in Proc, GenerateNewSessionID(p)
  PROVE  IInv'
<1>1. StoreTyped
  BY ReadTyped DEF GenerateNewSessionID
<1>2. CASE Return(p, "error", NoSid)
  BY <1>1, <1>2, ReturnStep DEF Reply
<1>3. ASSUME NEW s \in Fresh,
             GoOn(p, [call[p] EXCEPT !.pc = AfterGenerate(call[p].op), !.new = s])
      PROVE  IInv'
  <2> DEFINE c == [call[p] EXCEPT !.pc = AfterGenerate(call[p].op), !.new = s]
  <2>1. call[p].pc = "generate" /\ s \in Sid
    BY <1>3 DEF GenerateNewSessionID, Reads, Fresh
  <2>2. /\ c \in Call /\ c.pc = AfterGenerate(call[p].op) /\ c.new = s
        /\ c.op = call[p].op /\ c.sid = call[p].sid /\ c.ses = call[p].ses
    BY <2>1, CallFacts DEF Call, AfterGenerate, PC
  <2>3. LocalSet(c)
    BY <2>1, <2>2, CallFacts
    DEF LocalSet, OpAt, ToCreate, HasNew, HasSid, HasSes, HasUser, HasUses, AfterGenerate
  <2>4. Moves(p, c)
    BY <1>1, <1>3, <2>2, <2>3 DEF Moves, GoOn, IInv, TypeOK, StoreTyped, Reply
  <2> HIDE DEF c
  <2>5. \A q \in Proc : call'[q] = IF q = p THEN c ELSE call[q]
    BY <2>4 DEF IInv, TypeOK, Moves
  <2>6. TypeOK' /\ LocalsSet'
    BY <1>1, <2>4, <2>5 DEF IInv, TypeOK, Moves, StoreTyped, LocalsSet, LocalSet, UserIn
  <2>7. DocsMatchOrigin'
    BY <1>1, <2>2, <2>5, CallFacts
    DEF IInv, DocsMatchOrigin, SameLogin, StoreTyped, StoreKept
  <2>8. NewIdsFresh'
    BY <1>1, <1>3, <2>1, <2>2, <2>5 DEF IInv, NewIdsFresh, Fresh, StoreTyped
  <2> QED BY <2>6, <2>7, <2>8 DEF IInv
<1> QED BY <1>2, <1>3 DEF GenerateNewSessionID

(* A Create, and the return or the next step of the call that made it.     *)
LEMMA CreateTyped ==
  ASSUME IInv, NEW p \in Proc, NEW a \in Answer, NEW doc, NEW ticket,
         CreateSingle(p, doc, ticket, a)
  PROVE  /\ now' \in 0..MaxTime
         /\ userSes' \in [User -> UserDoc \cup {NoDoc}]
         /\ faults' \in 0..MaxFaults
  BY FaultsBounded DEF IInv, TypeOK, CreateSingle, PutSingle, Gives

(* A call returns after a Create.                                          *)
LEMMA CreateReturns ==
  ASSUME IInv, NEW p \in Proc, call[p].pc \in ToCreate,
         NEW a \in Answer, NEW doc \in SingleDoc, NEW ticket \in Ticket,
         doc.user = ticket.user, doc.loginAt = ticket.loginAt,
         CreateSingle(p, doc, ticket, a),
         NEW res \in Reply, NEW s \in Sid \cup {NoSid}, Return(p, res, s)
  PROVE  IInv'
<1>1. Moves(p, Idle)
  BY IdleIsCall, CreateTyped DEF IInv, TypeOK, Return, Ends, Moves
<1>2. Idle.ses = NoDoc /\ Idle.new = NoSid /\ Idle.pc \notin ToCreate
  BY DEF Idle, ToCreate, HasNew
<1> QED BY <1>1, <1>2, CreateStep

(* A call goes on after a Create.                                          *)
LEMMA CreateGoesOn ==
  ASSUME IInv, NEW p \in Proc, call[p].pc \in ToCreate,
         NEW a \in Answer, NEW doc \in SingleDoc, NEW ticket \in Ticket,
         doc.user = ticket.user, doc.loginAt = ticket.loginAt,
         CreateSingle(p, doc, ticket, a),
         NEW pc \in PC \ ToCreate, Goto(p, pc),
         LocalSet([call[p] EXCEPT !.pc = pc])
  PROVE  IInv'
<1> DEFINE c == [call[p] EXCEPT !.pc = pc]
<1>1. /\ c \in Call /\ c.pc = pc /\ c.ses = call[p].ses /\ c.sid = call[p].sid
      /\ c.new = call[p].new
  BY CallFacts, PcChange
<1>2. LocalSet(c)  BY DEF c
<1> HIDE DEF c
<1>3. Moves(p, c)
  BY <1>1, <1>2, CreateTyped DEF IInv, TypeOK, Goto, GoOn, Moves, Reply, c
<1> QED BY <1>1, <1>3, CreateStep

(* StartLogin keeps IInv.                                                  *)
LEMMA CreateLoginPreserves ==
  ASSUME IInv, NEW p \in Proc, CreateLogin(p)
  PROVE  IInv'
<1> DEFINE doc    == [user |-> NoUser, loginAt |-> now, lastAccessAt |-> now]
           ticket == [user |-> NoUser, loginAt |-> now]
<1>1. doc \in SingleDoc /\ ticket \in Ticket
  BY BoundsAssumption DEF IInv, TypeOK, SingleDoc, Ticket, Owner
<1>2. call[p].pc = "create_login" /\ call[p].new \in Sid
  BY CallFacts DEF CreateLogin, LocalSet, ToCreate, HasNew
<1>3. PICK a \in Answer :
        /\ CreateSingle(p, doc, ticket, a)
        /\ IF a = "ok" THEN Return(p, "ok", call[p].new)
                       ELSE Return(p, "error", NoSid)
  BY DEF CreateLogin
<1>4. doc.user = ticket.user /\ doc.loginAt = ticket.loginAt
  OBVIOUS
<1> HIDE DEF doc, ticket
<1> QED BY <1>1, <1>2, <1>3, <1>4, CreateReturns DEF ToCreate, HasNew, Reply

(* AddLoginInfo keeps IInv.                                                *)
LEMMA AddPreserves ==
  ASSUME IInv, NEW p \in Proc, AddGet(p) \/ AddDelete(p) \/ AddCreate(p)
  PROVE  IInv'
<1>1. CASE AddGet(p)
  <2>1. StoreTyped
    BY <1>1, ReadTyped DEF AddGet
  <2>2. CASE Return(p, "error", NoSid)
    BY <2>1, <2>2, ReturnStep DEF Reply
  <2>3. CASE Doc(p) # NoDoc /\ Load(p, "add_delete")
    <3> DEFINE c == [call[p] EXCEPT !.pc = "add_delete", !.ses = Doc(p)]
    <3>1. call[p].pc = "add_get" /\ call[p].sid \in Sid
      BY <1>1, CallFacts DEF AddGet, Reads, LocalSet, HasSid
    <3>2. Doc(p) \in SingleDoc /\ SameLogin(call[p].sid, Doc(p))
      BY <2>3, <3>1 DEF IInv, TypeOK, DocsMatchOrigin, Doc
    <3>3. /\ c \in Call /\ c.pc = "add_delete" /\ c.ses = Doc(p)
          /\ c.op = call[p].op /\ c.sid = call[p].sid /\ c.new = call[p].new
      BY <3>2, CallFacts DEF Call, PC
    <3>4. LocalSet(c)
      BY <2>3, <3>1, <3>3, CallFacts
      DEF LocalSet, OpAt, ToCreate, HasNew, HasSid, HasSes, HasUser, HasUses
    <3>5. GoOn(p, c)  BY <2>3 DEF Load
    <3> HIDE DEF c
    <3> QED BY <2>1, <3>1, <3>2, <3>3, <3>4, <3>5, GoOnStep DEF ToCreate, HasNew
  <2> QED BY <1>1, <2>2, <2>3 DEF AddGet
<1>2. CASE AddDelete(p)
  <2>1. StoreTyped
    BY <1>2, DeleteTyped DEF AddDelete
  <2>2. call[p].pc = "add_delete" /\ Goto(p, "add_create")
    BY <1>2 DEF AddDelete
  <2>3. "add_create" \in PC /\ LocalSet([call[p] EXCEPT !.pc = "add_create"])
    BY <2>2, CallFacts, PcChange
    DEF PC, LocalSet, OpAt, ToCreate, HasNew, HasSid, HasSes, HasUser, HasUses
  <2> QED BY <2>1, <2>2, <2>3, GotoStep DEF ToCreate, HasNew
<1>3. CASE AddCreate(p)
  <2>1. /\ call[p].pc = "add_create" /\ call[p].ses # NoDoc /\ call[p].new \in Sid
        /\ Return(p, "ok", call[p].new)
    BY <1>3, CallFacts DEF AddCreate, LocalSet, HasSes, ToCreate, HasNew
  <2>2. /\ call[p].ses \in SingleDoc /\ origin[call[p].sid] \in Ticket
        /\ SameLogin(call[p].sid, call[p].ses)
    BY <2>1, CallFacts DEF Call, SameLogin, IInv, TypeOK
  <2> QED BY <1>3, <2>1, <2>2, CreateReturns
       DEF AddCreate, SameLogin, ToCreate, HasNew, Reply
<1> QED BY <1>1, <1>2, <1>3

(* StartSession keeps IInv.                                                *)
LEMMA StartSessionPreserves ==
  ASSUME IInv, NEW p \in Proc,
         \/ StartGet(p) \/ StartDelete(p) \/ StartCreate(p) \/ StartPanic(p)
         \/ StartGetUser(p) \/ StartCreateUser(p) \/ StartReplaceUser(p)
  PROVE  IInv'
<1>1. CASE StartGet(p)
  <2>1. StoreTyped
    BY <1>1, ReadTyped DEF StartGet
  <2>2. CASE Return(p, "error", NoSid)
    BY <2>1, <2>2, ReturnStep DEF Reply
  <2>3. ASSUME NEW pc \in {"generate", "start_delete"}, Goto(p, pc),
               pc = "start_delete" => call[p].sid # NoSid
        PROVE  IInv'
    <3>1. call[p].pc = "start_get" /\ call[p].sid \in Sid \cup {NoSid}
      BY <1>1, CallFacts DEF StartGet, Reads, Call
    <3>2. pc \in PC /\ LocalSet([call[p] EXCEPT !.pc = pc])
      BY <2>3, <3>1, CallFacts, PcChange
      DEF PC, LocalSet, OpAt, ToCreate, HasNew, HasSid, HasSes, HasUser, HasUses
    <3> QED BY <2>1, <2>3, <3>2, GotoStep DEF ToCreate, HasNew
  <2> QED BY <1>1, <2>2, <2>3 DEF StartGet
<1>2. CASE StartDelete(p)
  <2>1. StoreTyped
    BY <1>2, DeleteTyped DEF StartDelete
  <2>2. call[p].pc = "start_delete" /\ Goto(p, "generate")
    BY <1>2 DEF StartDelete
  <2>3. "generate" \in PC /\ LocalSet([call[p] EXCEPT !.pc = "generate"])
    BY <2>2, CallFacts, PcChange
    DEF PC, LocalSet, OpAt, ToCreate, HasNew, HasSid, HasSes, HasUser, HasUses
  <2> QED BY <2>1, <2>2, <2>3, GotoStep DEF ToCreate, HasNew
<1>3. CASE StartCreate(p)
  <2> DEFINE u      == call[p].user
             doc    == [user |-> u, loginAt |-> now, lastAccessAt |-> now]
             ticket == [user |-> u, loginAt |-> now]
  <2>1. /\ call[p].pc = "start_create" /\ call[p].op = "StartSession"
        /\ u \in User /\ call[p].new \in Sid
    BY <1>3, CallFacts DEF StartCreate, LocalSet, OpAt, ToCreate, HasNew, Call, Owner
  <2>2. doc \in SingleDoc /\ ticket \in Ticket
    BY <2>1, BoundsAssumption DEF IInv, TypeOK, SingleDoc, Ticket, Owner
  <2>3. PICK a \in Answer :
          /\ CreateSingle(p, doc, ticket, a)
          /\ IF a = "ok" THEN Goto(p, "start_get_user") ELSE Return(p, "error", NoSid)
    BY <1>3 DEF StartCreate
  <2>4. doc.user = ticket.user /\ doc.loginAt = ticket.loginAt
    OBVIOUS
  <2>5. /\ "start_get_user" \in PC \ ToCreate
        /\ LocalSet([call[p] EXCEPT !.pc = "start_get_user"])
    BY <2>1, CallFacts, PcChange
    DEF PC, LocalSet, OpAt, ToCreate, HasNew, HasSid, HasSes, HasUser, HasUses, UserIn
  <2> HIDE DEF doc, ticket
  <2>6. CASE a = "ok"
    BY <2>1, <2>2, <2>3, <2>4, <2>5, <2>6, CreateGoesOn DEF ToCreate, HasNew
  <2>7. CASE a # "ok"
    BY <2>1, <2>2, <2>3, <2>4, <2>7, CreateReturns DEF ToCreate, HasNew, Reply
  <2> QED BY <2>6, <2>7
<1>4. CASE StartPanic(p)
  <2>1. StoreTyped
    BY <1>4, ReadTyped DEF StartPanic
  <2> QED BY <1>4, <2>1, ReturnStep DEF StartPanic, Reply
<1>5. CASE StartGetUser(p)
  <2> DEFINE c == [call[p] EXCEPT !.pc = "start_replace_user",
                                  !.uses = userSes[UserIn(call[p])]]
  <2>1. StoreTyped
    BY <1>5, ReadTyped DEF StartGetUser
  <2>2. /\ call[p].pc = "start_get_user" /\ call[p].op = "StartSession"
        /\ call[p].user \in User /\ UserIn(call[p]) = call[p].user
    BY <1>5, CallFacts DEF StartGetUser, Reads, LocalSet, OpAt, HasUser, UserIn
  <2>3. CASE Return(p, "error", NoSid)
    BY <2>1, <2>3, ReturnStep DEF Reply
  <2>4. CASE Goto(p, "start_create_user")
    <3>1. /\ "start_create_user" \in PC
          /\ LocalSet([call[p] EXCEPT !.pc = "start_create_user"])
      BY <2>2, CallFacts, PcChange
      DEF PC, LocalSet, OpAt, ToCreate, HasNew, HasSid, HasSes, HasUser, HasUses, UserIn
    <3> QED BY <2>1, <2>4, <3>1, GotoStep DEF ToCreate, HasNew
  <2>5. CASE userSes[call[p].user] # NoDoc /\ LoadUser(p, "start_replace_user")
    <3>1. /\ c \in Call /\ c.pc = "start_replace_user" /\ c.uses # NoDoc
          /\ c.op = call[p].op /\ c.sid = call[p].sid /\ c.new = call[p].new
          /\ c.ses = call[p].ses /\ c.user = call[p].user
      BY <2>2, <2>5, CallFacts DEF Call, PC, IInv, TypeOK
    <3>2. LocalSet(c)
      BY <2>2, <3>1, CallFacts
      DEF LocalSet, OpAt, ToCreate, HasNew, HasSid, HasSes, HasUser, HasUses, UserIn
    <3>3. GoOn(p, c)  BY <2>5 DEF LoadUser
    <3> HIDE DEF c
    <3> QED BY <2>1, <3>1, <3>2, <3>3, CallFacts, GoOnStep DEF ToCreate, HasNew
  <2> QED BY <1>5, <2>3, <2>4, <2>5 DEF StartGetUser
<1>6. CASE StartCreateUser(p)
  <2>1. /\ call[p].pc = "start_create_user"
        /\ call[p].new \in Sid
    BY <1>6, CallFacts DEF StartCreateUser, Reads, LocalSet, HasNew
  <2>2. CASE Reads(p, "start_create_user") /\ Works /\ Return(p, "error", NoSid)
    BY <2>2, ReadTyped, ReturnStep DEF Reply
  <2>3. ASSUME NEW a \in Answer,
               PutUser(call[p].user, [sessions |-> {call[p].new},
                                      data |-> [k \in Key |-> NoValue]], a),
               StartReturns(p, a)
        PROVE  IInv'
    <3>1. StoreTyped
      <4>1. [sessions |-> {call[p].new}, data |-> [k \in Key |-> NoValue]] \in UserDoc
        BY <2>1 DEF UserDoc, Data
      <4> QED BY <2>3, <4>1, PutUserTyped
    <3> QED BY <2>1, <2>3, <3>1, ReturnStep DEF StartReturns, Reply
  <2> QED BY <1>6, <2>2, <2>3 DEF StartCreateUser
<1>7. CASE StartReplaceUser(p)
  <2> DEFINE doc == [call[p].uses EXCEPT !.sessions = @ \cup {call[p].new}]
  <2>1. call[p].pc = "start_replace_user" /\ call[p].new \in Sid
        /\ call[p].uses \in UserDoc
    BY <1>7, CallFacts DEF StartReplaceUser, LocalSet, HasNew, HasUses, Call
  <2>2. doc \in UserDoc
    BY <2>1 DEF UserDoc
  <2>3. PICK a \in Answer : PutUser(call[p].user, doc, a) /\ StartReturns(p, a)
    BY <1>7 DEF StartReplaceUser
  <2> HIDE DEF doc
  <2>4. StoreTyped
    BY <2>2, <2>3, PutUserTyped
  <2> QED BY <2>1, <2>3, <2>4, ReturnStep DEF StartReturns, Reply
<1> QED BY <1>1, <1>2, <1>3, <1>4, <1>5, <1>6, <1>7

(* The answer of Logout, whoever called it.                                *)
LEMMA LogoutReturnsStep ==
  ASSUME IInv, NEW p \in Proc, NEW res \in {"ok", "error"},
         LogoutReturns(p, res), StoreTyped
  PROVE  IInv'
  BY ReturnStep DEF LogoutReturns, Reply

(* Logout keeps IInv.                                                      *)
LEMMA LogoutPreserves ==
  ASSUME IInv, NEW p \in Proc,
         \/ LogoutGet(p) \/ LogoutGetUser(p) \/ LogoutReplaceUser(p)
         \/ LogoutDelete(p)
  PROVE  IInv'
<1>1. CASE LogoutGet(p)
  <2>1. StoreTyped
    BY <1>1, ReadTyped DEF LogoutGet
  <2>2. CASE LogoutReturns(p, "ok")
    BY <2>1, <2>2, LogoutReturnsStep
  <2>3. CASE Doc(p) # NoDoc /\ Load(p, "logout_get_user")
    <3> DEFINE c == [call[p] EXCEPT !.pc = "logout_get_user", !.ses = Doc(p)]
    <3>1. call[p].pc = "logout_get" /\ call[p].sid \in Sid
      BY <1>1, CallFacts DEF LogoutGet, Reads, LocalSet, HasSid
    <3>2. Doc(p) \in SingleDoc /\ SameLogin(call[p].sid, Doc(p))
      BY <2>3, <3>1 DEF IInv, TypeOK, DocsMatchOrigin, Doc
    <3>3. /\ c \in Call /\ c.pc = "logout_get_user" /\ c.ses = Doc(p)
          /\ c.op = call[p].op /\ c.sid = call[p].sid /\ c.new = call[p].new
      BY <3>2, CallFacts DEF Call, PC
    <3>4. LocalSet(c)
      BY <2>3, <3>1, <3>3, CallFacts
      DEF LocalSet, OpAt, ToCreate, HasNew, HasSid, HasSes, HasUser, HasUses
    <3>5. GoOn(p, c)  BY <2>3 DEF Load
    <3> HIDE DEF c
    <3> QED BY <2>1, <3>1, <3>2, <3>3, <3>4, <3>5, GoOnStep DEF ToCreate
  <2> QED BY <1>1, <2>2, <2>3 DEF LogoutGet
<1>2. CASE LogoutGetUser(p)
  <2>1. StoreTyped
    BY <1>2, ReadTyped DEF LogoutGetUser
  <2>2. CASE LogoutReturns(p, "ok")
    BY <2>1, <2>2, LogoutReturnsStep
  <2>3. CASE /\ call[p].ses.user # NoUser /\ userSes[call[p].ses.user] # NoDoc
             /\ LoadUser(p, "logout_replace_user")
    <3> DEFINE c == [call[p] EXCEPT !.pc = "logout_replace_user",
                                    !.uses = userSes[UserIn(call[p])]]
    <3>1. /\ call[p].pc = "logout_get_user" /\ call[p].op # "StartSession"
          /\ call[p].ses \in SingleDoc
      BY <1>2, CallFacts DEF LogoutGetUser, Reads, LocalSet, OpAt, HasSes, Call
    <3>2. call[p].ses.user \in User /\ UserIn(call[p]) = call[p].ses.user
      BY <2>3, <3>1 DEF SingleDoc, Owner, UserIn
    <3>3. /\ c \in Call /\ c.pc = "logout_replace_user" /\ c.uses # NoDoc
          /\ c.op = call[p].op /\ c.sid = call[p].sid /\ c.new = call[p].new
          /\ c.ses = call[p].ses
      BY <2>3, <3>2, CallFacts DEF Call, PC, IInv, TypeOK
    <3>4. LocalSet(c)
      BY <3>1, <3>2, <3>3, CallFacts
      DEF LocalSet, OpAt, ToCreate, HasNew, HasSid, HasSes, HasUser, HasUses, UserIn
    <3>5. GoOn(p, c)  BY <2>3 DEF LoadUser
    <3> HIDE DEF c
    <3> QED BY <2>1, <3>1, <3>3, <3>4, <3>5, CallFacts, GoOnStep DEF ToCreate
  <2> QED BY <1>2, <2>2, <2>3 DEF LogoutGetUser
<1>3. CASE LogoutReplaceUser(p)
  <2>1. call[p].pc = "logout_replace_user" /\ call[p].uses \in UserDoc
    BY <1>3, CallFacts DEF LogoutReplaceUser, LocalSet, HasUses, Call
  <2>2. StoreTyped
    BY <1>3, <2>1, PutUserTyped DEF LogoutReplaceUser
  <2>3. "logout_delete" \in PC /\ LocalSet([call[p] EXCEPT !.pc = "logout_delete"])
    BY <2>1, CallFacts, PcChange
    DEF PC, LocalSet, OpAt, ToCreate, HasNew, HasSid, HasSes, HasUser, HasUses
  <2> QED BY <1>3, <2>2, <2>3, GotoStep DEF LogoutReplaceUser, ToCreate
<1>4. CASE LogoutDelete(p)
  <2>1. StoreTyped
    BY <1>4, DeleteTyped DEF LogoutDelete
  <2> QED BY <1>4, <2>1, LogoutReturnsStep DEF LogoutDelete
<1> QED BY <1>1, <1>2, <1>3, <1>4

(* readSession keeps IInv.                                                 *)
LEMMA ReadPreserves ==
  ASSUME IInv, NEW p \in Proc, ReadGet(p) \/ ReadGetUser(p)
  PROVE  IInv'
<1>0. StoreTyped
  BY ReadTyped DEF ReadGet, ReadGetUser
<1>1. ASSUME NEW res \in Reply, Return(p, res, NoSid)
      PROVE  IInv'
  BY <1>0, <1>1, ReturnStep
<1>2. ASSUME Goto(p, "logout_get"), call[p].pc \in {"read_get", "read_get_user"}
      PROVE  IInv'
  <2>1. "logout_get" \in PC /\ LocalSet([call[p] EXCEPT !.pc = "logout_get"])
    BY <1>2, CallFacts, PcChange
    DEF PC, LocalSet, OpAt, ToCreate, HasNew, HasSid, HasSes, HasUser, HasUses
  <2> QED BY <1>0, <1>2, <2>1, GotoStep DEF ToCreate
<1>3. CASE ReadGet(p)
  <2>1. call[p].pc = "read_get" /\ call[p].sid \in Sid
    BY <1>3, CallFacts DEF ReadGet, Reads, LocalSet, HasSid
  <2>2. Doc(p) # NoDoc => Doc(p) \in SingleDoc /\ SameLogin(call[p].sid, Doc(p))
    BY <2>1 DEF IInv, TypeOK, DocsMatchOrigin, Doc
  <2>3. CASE /\ Doc(p) # NoDoc /\ Doc(p).user # NoUser
             /\ GoOn(p, [call[p] EXCEPT !.pc = "read_get_user", !.ses = Doc(p),
                                        !.at = now])
    <3> DEFINE c == [call[p] EXCEPT !.pc = "read_get_user", !.ses = Doc(p),
                                    !.at = now]
    <3>0. now \in Nat
      BY BoundsAssumption DEF IInv, TypeOK
    <3>1. /\ c \in Call /\ c.pc = "read_get_user" /\ c.ses = Doc(p)
          /\ c.op = call[p].op /\ c.sid = call[p].sid /\ c.new = call[p].new
      BY <2>2, <2>3, <3>0, CallFacts DEF Call, PC
    <3>2. Doc(p).user \in User
      BY <2>2, <2>3 DEF SingleDoc, Owner
    <3>3. LocalSet(c)
      BY <2>1, <2>3, <3>1, <3>2, CallFacts
      DEF LocalSet, OpAt, ToCreate, HasNew, HasSid, HasSes, HasUser, HasUses, UserIn
    <3>4. GoOn(p, c)  BY <2>3
    <3> HIDE DEF c
    <3> QED BY <1>0, <2>2, <2>3, <3>1, <3>3, <3>4, GoOnStep DEF ToCreate
  <2>4. CASE /\ Doc(p) # NoDoc /\ call[p].op = "UpdateSessionData"
             /\ Load(p, "update_single")
    <3> DEFINE c == [call[p] EXCEPT !.pc = "update_single", !.ses = Doc(p)]
    <3>1. /\ c \in Call /\ c.pc = "update_single" /\ c.ses = Doc(p)
          /\ c.op = call[p].op /\ c.sid = call[p].sid /\ c.new = call[p].new
      BY <2>2, <2>4, CallFacts DEF Call, PC
    <3>2. LocalSet(c)
      BY <2>1, <2>4, <3>1, CallFacts
      DEF LocalSet, OpAt, ToCreate, HasNew, HasSid, HasSes, HasUser, HasUses
    <3>3. GoOn(p, c)  BY <2>4 DEF Load
    <3> HIDE DEF c
    <3> QED BY <1>0, <2>2, <2>4, <3>1, <3>2, <3>3, GoOnStep DEF ToCreate
  <2> QED BY <1>1, <1>2, <1>3, <2>1, <2>3, <2>4
        DEF ReadGet, ReadBeforeLogin, Reply
<1>4. CASE ReadGetUser(p)
  <2> DEFINE doc == userSes[call[p].ses.user]
             c   == [call[p] EXCEPT
                       !.pc = IF call[p].dirs = NoDirectives THEN "update_single"
                                                             ELSE "update_user",
                       !.uses = [doc EXCEPT !.data = Apply(call[p].dirs, @)]]
  <2>1. /\ call[p].pc = "read_get_user" /\ call[p].op # "StartSession"
        /\ call[p].ses.user \in User
    BY <1>4, CallFacts DEF ReadGetUser, Reads, LocalSet, OpAt, HasUser, UserIn
  <2>2. CASE doc # NoDoc /\ call[p].op = "UpdateSessionData" /\ GoOn(p, c)
    <3>1. doc \in UserDoc /\ call[p].dirs \in Directives
      BY <2>1, <2>2, CallFacts DEF IInv, TypeOK, Call
    <3>2. Apply(call[p].dirs, doc.data) \in Data
      BY <3>1 DEF Apply, Data, Directives, UserDoc
    <3>3. [doc EXCEPT !.data = Apply(call[p].dirs, @)] \in UserDoc
      BY <3>1, <3>2 DEF UserDoc
    <3>4. /\ c \in Call /\ c.pc \in {"update_single", "update_user"}
          /\ c.uses # NoDoc
          /\ c.op = call[p].op /\ c.sid = call[p].sid /\ c.new = call[p].new
          /\ c.ses = call[p].ses
      BY <3>3, CallFacts, NoDocAssumption DEF Call, PC
    <3>5. LocalSet(c)
      BY <2>1, <2>2, <3>4, CallFacts
      DEF LocalSet, OpAt, ToCreate, HasNew, HasSid, HasSes, HasUser, HasUses, UserIn
    <3>6. GoOn(p, c)  BY <2>2
    <3> HIDE DEF c
    <3> QED BY <1>0, <3>4, <3>5, <3>6, CallFacts, GoOnStep DEF ToCreate
  <2>3. CASE \E res \in Reply : Return(p, res, NoSid)
    BY <1>1, <2>3
  <2>4. CASE Goto(p, "logout_get")
    BY <1>2, <2>1, <2>4
  <2> QED BY <1>4, <2>2, <2>3, <2>4 DEF ReadGetUser, Reply
<1> QED BY <1>3, <1>4

(* UpdateSessionData, after readSession, keeps IInv.                       *)
LEMMA UpdatePreserves ==
  ASSUME IInv, NEW p \in Proc, UpdateUser(p) \/ UpdateSingle(p)
  PROVE  IInv'
<1>1. CASE UpdateUser(p)
  <2>1. call[p].pc = "update_user" /\ call[p].uses \in UserDoc
    BY <1>1, CallFacts DEF UpdateUser, LocalSet, HasUses, Call
  <2>2. StoreTyped
    BY <1>1, <2>1, PutUserTyped DEF UpdateUser
  <2>3. "update_single" \in PC /\ LocalSet([call[p] EXCEPT !.pc = "update_single"])
    BY <2>1, CallFacts, PcChange
    DEF PC, LocalSet, OpAt, ToCreate, HasNew, HasSid, HasSes, HasUser, HasUses
  <2> QED BY <1>1, <2>2, <2>3, GotoStep DEF UpdateUser, ToCreate
<1>2. CASE UpdateSingle(p)
  <2> DEFINE doc == [call[p].ses EXCEPT !.lastAccessAt = now]
  <2>1. /\ call[p].pc = "update_single" /\ call[p].ses \in SingleDoc
        /\ SameLogin(call[p].sid, call[p].ses)
    BY <1>2, CallFacts DEF UpdateSingle, Reads, LocalSet, HasSes, Call
  <2>2. now \in Nat
    BY BoundsAssumption DEF IInv, TypeOK
  <2>3. doc \in SingleDoc /\ SameLogin(call[p].sid, doc)
    BY <2>1, <2>2 DEF SingleDoc, SameLogin
  <2>4. CASE Reads(p, "update_single") /\ Works /\ Return(p, "error", NoSid)
    BY <2>4, ReadTyped, ReturnStep DEF Reply
  <2>5. ASSUME NEW a \in Answer, ReplaceSingle(p, doc, a),
               Return(p, IF a = "ok" THEN "ok" ELSE "error", NoSid)
        PROVE  IInv'
    <3> HIDE DEF doc
    <3>1. StoreTyped
      BY <2>3, <2>5, ReplaceTyped
    <3> QED BY <2>5, <3>1, ReturnStep DEF Reply
  <2> QED BY <1>2, <2>4, <2>5 DEF UpdateSingle
<1> QED BY <1>1, <1>2

(* RenewSession keeps IInv.                                                *)
LEMMA RenewPreserves ==
  ASSUME IInv, NEW p \in Proc, RenewGet(p) \/ RenewCreate(p) \/ RenewDelete(p)
  PROVE  IInv'
<1>1. CASE RenewGet(p)
  <2>1. StoreTyped
    BY <1>1, ReadTyped DEF RenewGet
  <2>2. call[p].pc = "renew_get" /\ call[p].sid \in Sid /\ call[p].op = "RenewSession"
    BY <1>1, CallFacts DEF RenewGet, Reads, LocalSet, OpAt, HasSid
  <2>3. ASSUME NEW res \in Reply, NEW s \in Sid \cup {NoSid}, Return(p, res, s)
        PROVE  IInv'
    BY <2>1, <2>3, ReturnStep
  <2>4. CASE Goto(p, "logout_get")
    <3>1. "logout_get" \in PC /\ LocalSet([call[p] EXCEPT !.pc = "logout_get"])
      BY <2>2, CallFacts, PcChange
      DEF PC, LocalSet, OpAt, ToCreate, HasNew, HasSid, HasSes, HasUser, HasUses
    <3> QED BY <2>1, <2>4, <3>1, GotoStep DEF ToCreate
  <2>5. CASE Doc(p) # NoDoc /\ Load(p, "generate")
    <3> DEFINE c == [call[p] EXCEPT !.pc = "generate", !.ses = Doc(p)]
    <3>1. Doc(p) \in SingleDoc /\ SameLogin(call[p].sid, Doc(p))
      BY <2>2, <2>5 DEF IInv, TypeOK, DocsMatchOrigin, Doc
    <3>2. /\ c \in Call /\ c.pc = "generate" /\ c.ses = Doc(p)
          /\ c.op = call[p].op /\ c.sid = call[p].sid /\ c.new = call[p].new
      BY <3>1, CallFacts DEF Call, PC
    <3>3. LocalSet(c)
      BY <2>2, <2>5, <3>2, CallFacts
      DEF LocalSet, OpAt, ToCreate, HasNew, HasSid, HasSes, HasUser, HasUses
    <3>4. GoOn(p, c)  BY <2>5 DEF Load
    <3> HIDE DEF c
    <3> QED BY <2>1, <3>1, <3>2, <3>3, <3>4, GoOnStep DEF ToCreate
  <2> QED BY <1>1, <2>2, <2>3, <2>4, <2>5 DEF RenewGet, Reply
<1>2. CASE RenewCreate(p)
  <2>1. /\ call[p].pc = "renew_create" /\ call[p].ses # NoDoc /\ call[p].new \in Sid
    BY <1>2, CallFacts DEF RenewCreate, LocalSet, HasSes, HasNew, ToCreate
  <2>2. /\ call[p].ses \in SingleDoc /\ origin[call[p].sid] \in Ticket
        /\ SameLogin(call[p].sid, call[p].ses)
    BY <2>1, CallFacts DEF Call, SameLogin, IInv, TypeOK
  <2>3. PICK a \in Answer :
          /\ CreateSingle(p, call[p].ses, origin[call[p].sid], a)
          /\ IF a = "ok" THEN Goto(p, "renew_delete") ELSE Return(p, "error", NoSid)
    BY <1>2 DEF RenewCreate
  <2>4. /\ "renew_delete" \in PC \ ToCreate
        /\ LocalSet([call[p] EXCEPT !.pc = "renew_delete"])
    BY <2>1, CallFacts, PcChange
    DEF PC, LocalSet, OpAt, ToCreate, HasNew, HasSid, HasSes, HasUser, HasUses
  <2>5. CASE a = "ok"
    BY <2>1, <2>2, <2>3, <2>4, <2>5, CreateGoesOn DEF SameLogin, ToCreate
  <2>6. CASE a # "ok"
    BY <2>1, <2>2, <2>3, <2>6, CreateReturns DEF SameLogin, ToCreate, Reply
  <2> QED BY <2>5, <2>6
<1>3. CASE RenewDelete(p)
  <2>1. StoreTyped
    BY <1>3, DeleteTyped DEF RenewDelete
  <2>2. call[p].new \in Sid
    BY <1>3, CallFacts DEF RenewDelete, LocalSet, HasNew
  <2> QED BY <1>3, <2>1, <2>2, ReturnStep DEF RenewDelete, Reply
<1> QED BY <1>1, <1>2, <1>3

(* A crash forgets the locals only.                                        *)
LEMMA CrashPreserves ==
  ASSUME IInv, NEW p \in Proc, Crash(p)
  PROVE  IInv'
<1>1. StoreTyped
  BY FaultsBounded DEF Crash, IInv, TypeOK, StoreTyped, StoreKept
<1>2. Idle.ses = NoDoc /\ Idle.new = NoSid /\ Idle.pc \notin ToCreate
  BY DEF Idle, ToCreate
<1> QED BY <1>1, <1>2, IdleIsCall, GoOnStep DEF Crash

(* The clock changes nothing else.                                         *)
LEMMA TickPreserves ==
  ASSUME IInv, Tick
  PROVE  IInv'
<1>1. TypeOK'
  BY BoundsAssumption DEF IInv, TypeOK, Tick, Reply
<1>2. LocalsSet' /\ DocsMatchOrigin' /\ NewIdsFresh'
  BY DEF IInv, Tick, LocalsSet, LocalSet, UserIn, DocsMatchOrigin, SameLogin, NewIdsFresh
<1> QED BY <1>1, <1>2 DEF IInv

-----------------------------------------------------------------------------
(* IInv holds at the start.                                                *)
LEMMA InitIInv == Init => IInv
<1> SUFFICES ASSUME Init PROVE IInv
  OBVIOUS
<1>1. TypeOK
  BY IdleIsCall, BoundsAssumption DEF Init, TypeOK, Reply
<1>2. LocalsSet
  BY IdleIsCall DEF Init, LocalsSet
<1>3. DocsMatchOrigin /\ NewIdsFresh
  BY DEF Init, DocsMatchOrigin, NewIdsFresh, Idle, ToCreate
<1> QED BY <1>1, <1>2, <1>3 DEF IInv

(* Every step keeps IInv.                                                  *)
LEMMA NextIInv == IInv /\ [Next]_vars => IInv'
<1> SUFFICES ASSUME IInv, [Next]_vars PROVE IInv'
  OBVIOUS
<1>1. CASE Tick
  BY <1>1, TickPreserves
<1>2. ASSUME NEW p \in Proc, Start(p) PROVE IInv'
  BY <1>2, StartPreserves
<1>3. ASSUME NEW p \in Proc, Step(p) PROVE IInv'
  BY <1>3, GeneratePreserves, CreateLoginPreserves, AddPreserves,
     StartSessionPreserves, LogoutPreserves, ReadPreserves, UpdatePreserves,
     RenewPreserves
  DEF Step
<1>4. ASSUME NEW p \in Proc, Crash(p) PROVE IInv'
  BY <1>4, CrashPreserves
<1>5. CASE UNCHANGED vars
  BY <1>5 DEF vars, IInv, TypeOK, LocalsSet, LocalSet, UserIn, DocsMatchOrigin,
              SameLogin, NewIdsFresh
<1> QED BY <1>1, <1>2, <1>3, <1>4, <1>5 DEF Next

(* In every reachable state each local variable is set before it is used,  *)
(* each session document belongs to the login its id was created for, and  *)
(* no two calls have drawn the same id.                                    *)
THEOREM InductiveInvariant == Spec => []IInv
  BY InitIInv, NextIInv, PTL DEF Spec

(* The documents, the calls and the histories have their types.            *)
THEOREM TypeCorrectness == Spec => []TypeOK
<1>1. IInv => TypeOK  BY DEF IInv
<1> QED BY <1>1, InductiveInvariant, PTL

-----------------------------------------------------------------------------
(* The refinement of SessionLifecycle, and the sessions a lookup calls     *)
(* active.                                                                 *)

(* Each document agrees with its id's origin, so the ticket that the       *)
(* refinement mapping reads off the store is the origin.                   *)
LEMMA TicketIsOrigin == IInv => LoginTicket = origin
<1> SUFFICES ASSUME IInv PROVE LoginTicket = origin
  OBVIOUS
<1>1. origin = [s \in Sid |-> origin[s]]
  BY DEF IInv, TypeOK
<1>2. ASSUME NEW s \in Sid, single[s] # NoDoc
      PROVE  [user |-> single[s].user, loginAt |-> single[s].loginAt] = origin[s]
  <2>1. SameLogin(s, single[s]) /\ origin[s] \in Ticket
    BY <1>2 DEF IInv, TypeOK, DocsMatchOrigin, SameLogin
  <2>2. origin[s] = [user |-> origin[s].user, loginAt |-> origin[s].loginAt]
    BY <2>1 DEF Ticket
  <2> QED BY <2>1, <2>2 DEF SameLogin
<1> QED BY <1>1, <1>2 DEF LoginTicket

(* The four ways in which a step changes what the refinement mapping sees. *)
Stutters == now' = now /\ origin' = origin /\ Phase' = Phase
Closes   == \E s \in Sid : /\ now' = now /\ origin' = origin
                           /\ Phase[s] = "open"
                           /\ Phase' = [Phase EXCEPT ![s] = "closed"]
Opens(s, ticket) == /\ now' = now
                    /\ Phase[s] = "fresh"
                    /\ Phase'  = [Phase EXCEPT ![s] = "open"]
                    /\ origin' = [origin EXCEPT ![s] = ticket]
LogsIn  == \E s \in Sid, u \in Owner : Opens(s, [user |-> u, loginAt |-> now])
Carries == \E s, o \in Sid : Phase[o] # "fresh" /\ Opens(s, origin[o])

(* Each of them is a step of SessionLifecycle.                             *)
LEMMA AbstractStep ==
  ASSUME IInv, IInv',
         Stutters \/ Closes \/ LogsIn \/ Carries \/ (Tick /\ Phase' = Phase)
  PROVE  [Lifecycle!Next]_(Lifecycle!vars)
<1>1. LoginTicket = origin /\ LoginTicket' = origin'
  <2>1. LoginTicket = origin  BY TicketIsOrigin
  <2>2. (LoginTicket = origin)'  BY TicketIsOrigin, PTL
  <2> QED BY <2>1, <2>2
<1>2. CASE Stutters
  BY <1>1, <1>2 DEF Stutters, Lifecycle!vars
<1>3. CASE Closes
  BY <1>1, <1>3 DEF Closes, Lifecycle!Next, Lifecycle!Close
<1>4. CASE LogsIn
  BY <1>1, <1>4 DEF LogsIn, Opens, Owner, Lifecycle!Next, Lifecycle!Open
<1>5. CASE Carries
  BY <1>1, <1>5 DEF Carries, Opens, Lifecycle!Next, Lifecycle!Carry
<1>6. CASE Tick /\ Phase' = Phase
  BY <1>1, <1>6 DEF Tick, Lifecycle!Next, Lifecycle!Tick
<1> QED BY <1>2, <1>3, <1>4, <1>5, <1>6

-----------------------------------------------------------------------------
(* The store calls of SessionStorage, one lemma for each way they change   *)
(* the session documents.                                                  *)

(* A step that changes no session document.                                *)
LEMMA QuietStutters ==
  ASSUME now' = now, single' = single, origin' = origin
  PROVE  Stutters
  BY DEF Stutters, Phase

(* A read is a stuttering step of the life cycle.                          *)
LEMMA ReadStutters ==
  ASSUME NEW p \in Proc, NEW pc, Reads(p, pc)
  PROVE  Stutters
  BY QuietStutters DEF Reads

(* So is a change of a user document.                                      *)
LEMMA PutUserStutters ==
  ASSUME NEW u, NEW doc, NEW a \in Answer, PutUser(u, doc, a)
  PROVE  Stutters
  BY QuietStutters DEF PutUser

(* A Delete closes the id, unless it has no document or the call failed.   *)
LEMMA DeleteCloses ==
  ASSUME IInv, NEW p \in Proc, NEW a \in Answer, DeleteSingle(p, a),
         call[p].sid \in Sid
  PROVE  Stutters \/ Closes
<1> DEFINE s == call[p].sid
<1>1. CASE single' = single
  BY <1>1, QuietStutters DEF DeleteSingle, PutSingle
<1>2. CASE single[s] # NoDoc /\ single' = [single EXCEPT ![s] = NoDoc]
  <2>1. origin[s] # NoDoc
    BY <1>2 DEF IInv, DocsMatchOrigin, SameLogin
  <2>2. Phase' = [Phase EXCEPT ![s] = "closed"] /\ Phase[s] = "open"
    BY <1>2, <2>1 DEF Phase, IInv, TypeOK, DeleteSingle
  <2> QED BY <2>2 DEF Closes, DeleteSingle, PutSingle
<1>3. CASE single[s] = NoDoc /\ single' = [single EXCEPT ![s] = NoDoc]
  BY <1>1, <1>3 DEF IInv, TypeOK
<1> QED BY <1>1, <1>2, <1>3 DEF DeleteSingle, PutSingle

(* A Replace of a document that exists changes no phase.                   *)
LEMMA ReplaceStutters ==
  ASSUME IInv, NEW p \in Proc, NEW a \in Answer, NEW doc \in SingleDoc,
         ReplaceSingle(p, doc, a), Doc(p) # NoDoc
  PROVE  Stutters
<1>1. doc # NoDoc
  BY NoDocAssumption
<1>2. Phase' = Phase
  BY <1>1 DEF Phase, IInv, TypeOK, ReplaceSingle, PutSingle, Doc
<1> QED BY <1>2 DEF Stutters, ReplaceSingle, PutSingle

(* A Create opens the id that the call has drawn.                          *)
LEMMA CreateOpens ==
  ASSUME IInv, NEW p \in Proc, call[p].pc \in ToCreate,
         NEW a \in Answer, NEW doc \in SingleDoc, NEW ticket,
         CreateSingle(p, doc, ticket, a)
  PROVE  Stutters \/ Opens(call[p].new, ticket)
<1> DEFINE s == call[p].new
<1>1. s \in Sid /\ origin[s] = NoDoc /\ single[s] = NoDoc
  BY CallFacts DEF IInv, LocalSet, HasNew, NewIdsFresh, DocsMatchOrigin, SameLogin
<1>2. CASE a = "lost"
  BY <1>2, QuietStutters DEF CreateSingle, PutSingle
<1>3. CASE a # "lost"
  <2>1. /\ single' = [single EXCEPT ![s] = doc]
        /\ origin' = [origin EXCEPT ![s] = ticket]
        /\ now' = now
    BY <1>3 DEF CreateSingle, PutSingle
  <2>2. doc # NoDoc
    BY NoDocAssumption
  <2>3. Phase' = [Phase EXCEPT ![s] = "open"] /\ Phase[s] = "fresh"
    BY <1>1, <2>1, <2>2 DEF Phase, IInv, TypeOK
  <2> QED BY <2>1, <2>3 DEF Opens
<1> QED BY <1>2, <1>3

-----------------------------------------------------------------------------
(* The steps of the calls.                                                 *)

(* The steps that only read.                                               *)
LEMMA ReadsRefine ==
  ASSUME NEW p \in Proc,
         \/ GenerateNewSessionID(p) \/ AddGet(p) \/ StartGet(p) \/ StartPanic(p)
         \/ StartGetUser(p) \/ LogoutGet(p) \/ LogoutGetUser(p)
         \/ ReadGet(p) \/ ReadGetUser(p) \/ RenewGet(p)
  PROVE  Stutters
  BY ReadStutters
  DEF GenerateNewSessionID, AddGet, StartGet, StartPanic, StartGetUser, LogoutGet,
      LogoutGetUser, ReadGet, ReadGetUser, RenewGet

(* The steps that write a user document.                                   *)
LEMMA PutUsersRefine ==
  ASSUME NEW p \in Proc,
         \/ StartCreateUser(p) \/ StartReplaceUser(p) \/ LogoutReplaceUser(p)
         \/ UpdateUser(p)
  PROVE  Stutters
  BY ReadStutters, PutUserStutters
  DEF StartCreateUser, StartReplaceUser, LogoutReplaceUser, UpdateUser

(* The steps that delete a session document.                               *)
LEMMA DeletesRefine ==
  ASSUME IInv, NEW p \in Proc,
         AddDelete(p) \/ StartDelete(p) \/ LogoutDelete(p) \/ RenewDelete(p)
  PROVE  Stutters \/ Closes
<1>1. call[p].pc \in {"add_delete", "start_delete", "logout_delete", "renew_delete"}
  BY DEF AddDelete, StartDelete, LogoutDelete, RenewDelete
<1>2. call[p].sid \in Sid
  BY <1>1, CallFacts DEF LocalSet, HasSid, HasSes
<1>3. PICK a \in Answer : DeleteSingle(p, a)
  BY DEF AddDelete, StartDelete, LogoutDelete, RenewDelete
<1> QED BY <1>2, <1>3, DeleteCloses

(* The last access of a session is not part of its life.                   *)
LEMMA UpdateSingleRefines ==
  ASSUME IInv, NEW p \in Proc, UpdateSingle(p)
  PROVE  Stutters
<1> DEFINE doc == [call[p].ses EXCEPT !.lastAccessAt = now]
<1>1. call[p].ses \in SingleDoc
  BY CallFacts DEF UpdateSingle, Reads, LocalSet, HasSes, Call
<1>2. doc \in SingleDoc
  BY <1>1, BoundsAssumption DEF IInv, TypeOK, SingleDoc
<1>3. CASE Reads(p, "update_single")
  BY <1>3, ReadStutters
<1>4. ASSUME NEW a \in Answer, Doc(p) # NoDoc, ReplaceSingle(p, doc, a)
      PROVE  Stutters
  <2> HIDE DEF doc
  <2> QED BY <1>2, <1>4, ReplaceStutters
<1> QED BY <1>3, <1>4 DEF UpdateSingle

(* StartLogin and StartSession open an id for a new login.                 *)
LEMMA LoginsRefine ==
  ASSUME IInv, NEW p \in Proc, CreateLogin(p) \/ StartCreate(p)
  PROVE  Stutters \/ LogsIn
<1>0. now \in Nat
  BY BoundsAssumption DEF IInv, TypeOK
<1>1. ASSUME NEW u \in Owner, NEW a \in Answer, call[p].pc \in ToCreate,
             CreateSingle(p, [user |-> u, loginAt |-> now, lastAccessAt |-> now],
                          [user |-> u, loginAt |-> now], a)
      PROVE  Stutters \/ LogsIn
  <2> DEFINE doc == [user |-> u, loginAt |-> now, lastAccessAt |-> now]
             ticket == [user |-> u, loginAt |-> now]
  <2>1. doc \in SingleDoc
    BY <1>0 DEF SingleDoc
  <2>2. call[p].new \in Sid
    BY <1>1, CallFacts DEF LocalSet, HasNew
  <2>3. CreateSingle(p, doc, ticket, a)
    BY <1>1
  <2>4. ticket = [user |-> u, loginAt |-> now]
    OBVIOUS
  <2> HIDE DEF doc, ticket
  <2>5. Stutters \/ Opens(call[p].new, ticket)
    BY <1>1, <2>1, <2>3, CreateOpens
  <2> QED BY <2>2, <2>4, <2>5 DEF LogsIn
<1>2. CASE CreateLogin(p)
  BY <1>1, <1>2 DEF CreateLogin, ToCreate, Owner
<1>3. CASE StartCreate(p)
  BY <1>1, <1>3, CallFacts DEF StartCreate, ToCreate, Call
<1> QED BY <1>2, <1>3

(* AddLoginInfo and RenewSession move a login to a new id.                 *)
LEMMA CarriesRefine ==
  ASSUME IInv, NEW p \in Proc, AddCreate(p) \/ RenewCreate(p)
  PROVE  Stutters \/ Carries
<1>1. call[p].pc \in {"add_create", "renew_create"}
  BY DEF AddCreate, RenewCreate
<1>2. /\ call[p].ses \in SingleDoc /\ call[p].new \in Sid /\ call[p].sid \in Sid
      /\ call[p].pc \in ToCreate
      /\ origin[call[p].sid] # NoDoc
  BY <1>1, CallFacts DEF LocalSet, HasSes, HasNew, ToCreate, Call, SameLogin
<1>3. Phase[call[p].sid] # "fresh"
  BY <1>2 DEF Phase
<1>4. PICK a \in Answer : CreateSingle(p, call[p].ses, origin[call[p].sid], a)
  BY DEF AddCreate, RenewCreate
<1>5. Stutters \/ Opens(call[p].new, origin[call[p].sid])
  BY <1>2, <1>4, CreateOpens
<1> QED BY <1>2, <1>3, <1>5 DEF Carries

(* Every step is a step of the life cycle, or stutters.                    *)
LEMMA NextRefines ==
  ASSUME IInv, [Next]_vars
  PROVE  Stutters \/ Closes \/ LogsIn \/ Carries \/ (Tick /\ Phase' = Phase)
<1>1. CASE Tick
  BY <1>1 DEF Tick, Phase
<1>2. ASSUME NEW p \in Proc, Start(p) PROVE Stutters
  BY <1>2, QuietStutters
  DEF Start, StartLogin, AddLoginInfo, StartSession, Logout, FindBySessionToken,
      UpdateSessionData, RenewSession, Begin
<1>3. ASSUME NEW p \in Proc, Step(p)
      PROVE  Stutters \/ Closes \/ LogsIn \/ Carries
  BY <1>3, ReadsRefine, PutUsersRefine, DeletesRefine, UpdateSingleRefines,
     LoginsRefine, CarriesRefine
  DEF Step
<1>4. ASSUME NEW p \in Proc, Crash(p) PROVE Stutters
  BY <1>4, QuietStutters DEF Crash
<1>5. CASE UNCHANGED vars
  BY <1>5, QuietStutters DEF vars
<1> QED BY <1>1, <1>2, <1>3, <1>4, <1>5 DEF Next

(* No id is open at the start.                                             *)
LEMMA InitRefines == Init => Lifecycle!Init
  BY DEF Init, Lifecycle!Init, Phase, LoginTicket

(* For any number of processes and of failures, the session documents obey *)
(* the life cycle: an id is opened once, stands for one login and does not *)
(* come back once it is gone.                                              *)
THEOREM Refinement == Spec => ImplementsLifecycle
<1>1. IInv /\ IInv' /\ [Next]_vars => [Lifecycle!Next]_(Lifecycle!vars)
  BY NextRefines, AbstractStep
<1> QED BY <1>1, InitRefines, InductiveInvariant, PTL
        DEF Spec, ImplementsLifecycle, Lifecycle!Spec

-----------------------------------------------------------------------------
(* A call answers "active" in one place only.                              *)
LEMMA OnlyLookupsAnswerActive ==
  ASSUME NEW p \in Proc, Step(p), reply' = "active"
  PROVE  ReadGetUser(p)
  BY DEF Step, GenerateNewSessionID, CreateLogin, AddGet, AddDelete, AddCreate,
         StartGet, StartDelete, StartCreate, StartPanic, StartGetUser,
         StartCreateUser, StartReplaceUser, StartReturns, LogoutGet, LogoutGetUser,
         LogoutReplaceUser, LogoutDelete, LogoutReturns, ReadGet, ReadBeforeLogin,
         UpdateUser, UpdateSingle, RenewGet, RenewCreate, RenewDelete,
         Goto, Load, LoadUser, GoOn, Return

(* Only the locals of the process that takes the step change.              *)
LEMMA OthersWait ==
  ASSUME TypeOK, NEW p \in Proc, NEW q \in Proc, ReadGetUser(q), p # q
  PROVE  call'[p] = call[p]
  BY DEF TypeOK, ReadGetUser, Return, GoOn, Goto

(* No lookup, of any number of racing calls, reports a login that is older *)
(* than the absolute timeout, or somebody else's, as active.               *)
THEOREM ActiveSessions == Spec => ActiveWithinTerm
<1> DEFINE Safe(p) ==
      Returns(p, "active") =>
        /\ Owned(call[p].sid)
        /\ call[p].ses.user = origin[call[p].sid].user
        /\ call[p].at - origin[call[p].sid].loginAt <= AbsoluteTimeout
<1>1. ASSUME IInv, [Next]_vars, NEW p \in Proc, Returns(p, "active") PROVE Safe(p)
  <2>1. PICK q \in Proc : Step(q)
    BY <1>1 DEF Returns, Next, Tick, Crash, vars, Start, StartLogin, AddLoginInfo,
                StartSession, Logout, FindBySessionToken, UpdateSessionData,
                RenewSession, Begin, GoOn
  <2>2. ReadGetUser(q)
    BY <1>1, <2>1, OnlyLookupsAnswerActive DEF Returns
  <2>3. q = p
    BY <1>1, <2>2, OthersWait DEF Returns, IInv
  <2>4. /\ call[p].pc = "read_get_user"
        /\ ~ Expired(call[p].at, call[p].ses, AbsoluteTimeout)
    BY <1>1, <2>2, <2>3 DEF ReadGetUser, Reads, Returns, Return, Goto, GoOn
  <2>5. /\ SameLogin(call[p].sid, call[p].ses) /\ call[p].ses \in SingleDoc
        /\ call[p].ses.user \in User /\ call[p].at \in Nat
    BY <1>1, <2>4, CallFacts
    DEF LocalSet, HasSes, HasUser, UserIn, OpAt, Call
  <2> QED BY <2>4, <2>5, TermsAssumption, NoneAssumption
       DEF SameLogin, Owned, Expired, SingleDoc
<1>2. IInv /\ [Next]_vars => [\A p \in Proc : Safe(p)]_vars
  BY <1>1
<1> QED BY <1>2, InductiveInvariant, PTL DEF Spec, ActiveWithinTerm
=============================================================================
