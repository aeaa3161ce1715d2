----------------------- MODULE SessionIsolationProofs -----------------------
(***************************************************************************)
(* SessionStorage implements SessionAPI as long as its callers keep apart  *)
(* and its store answers, for any processes, ids, users, keys and terms.   *)
(* A call under way still finds the session and the session data that it   *)
(* found when it began, except for what it has changed itself (Held): its  *)
(* last step is then the one step of the interface, and the steps before   *)
(* it are none.                                                            *)
(***************************************************************************)
EXTENDS SessionIsolation, SessionStorageSafety, FiniteSetTheorems

(* What the call c that began with the record b of the store relies on:    *)
(* the session it found, and the clock since then.                         *)
Was(c, b)    == b.single[c.sid]
Meanwhile(b) == b.since .. now

Looking    == {"start_get", "add_get", "read_get", "renew_get"}
LoggingOut == {"logout_get", "logout_get_user", "logout_replace_user", "logout_delete"}

Found(c) == /\ c.sid # NoSid
            /\ c.pc \notin Looking
            /\ ~ (c.op = "AddLoginInfo" /\ c.pc = "generate")
            /\ ~ (c.op = "Logout" /\ c.pc = "logout_get")

Deleted(c) == /\ c.sid # NoSid
              /\ \/ c.pc = "add_create"
                 \/ c.op = "StartSession" /\ c.pc \notin {"start_get", "start_delete"}

TermOf(c, doc) == IF doc.user = NoUser /\ c.op # "RenewSession" THEN LoginTimeout
                                                               ELSE AbsoluteTimeout

(* The session of the call is as it found it, or gone if the call has      *)
(* deleted it; the one that it has created is that of its user, or the one *)
(* that it found.                                                          *)
SessionHeld(c, b) ==
  /\ c.sid # NoSid =>
       /\ single[c.sid] = IF Deleted(c) THEN NoDoc ELSE Was(c, b)
       /\ Was(c, b) # NoDoc => SameLogin(c.sid, Was(c, b)) /\ Was(c, b) \in SingleDoc
  /\ Found(c) => Was(c, b) # NoDoc
  /\ c.ses # NoDoc => c.ses = Was(c, b)
  /\ c.pc \in NewSession => \E t \in Meanwhile(b) :
       single[c.new] = [user |-> c.user, loginAt |-> t, lastAccessAt |-> t]
  /\ c.pc = "renew_delete" => single[c.new] = Was(c, b)

(* So is the session data of its users, unless it has updated it; the      *)
(* document that it writes back is the one in the store, or the update of  *)
(* it.                                                                     *)
DataHeld(c, b) ==
  /\ \A u \in UsersOf(c) :
       /\ u \in User /\ b.data[u] \in Data
       /\ DataOf(u) = IF c.pc = "update_single" THEN Apply(c.dirs, b.data[u])
                                                ELSE b.data[u]
  /\ c.pc \in {"start_replace_user", "logout_replace_user"} =>
       c.uses = userSes[UserIn(c)]
  /\ c.pc = "start_create_user" => userSes[c.user] = NoDoc
  /\ c.pc = "update_user" => c.uses.data = Apply(c.dirs, b.data[c.ses.user])
  /\ c.pc = "update_single" /\ c.ses.user = NoUser => c.dirs = NoDirectives
  /\ c.pc = "logout_delete" => c.ses.user # NoUser
  /\ c.op # "StartSession" => c.user = NoUser

(* What it has found out with the clock was so at some time since it       *)
(* began.                                                                  *)
TimesHeld(c, b) ==
  /\ b.since \in 0 .. now
  /\ c.pc = "read_get_user" => c.at \in Meanwhile(b)
  /\ c.pc \in {"update_user", "update_single"} => \E t \in Meanwhile(b) :
       ~ Expired(t, Was(c, b), TermOf(c, Was(c, b)))
  /\ c.pc \in LoggingOut /\ c.op # "Logout" => \E t \in Meanwhile(b) :
       Expired(t, Was(c, b), TermOf(c, Was(c, b)))
  /\ c.pc \in {"generate", "renew_create", "renew_delete"} /\ c.op = "RenewSession" =>
       \E t \in Meanwhile(b) : /\ ~ Expired(t, Was(c, b), AbsoluteTimeout)
                               /\ Idling(t, Was(c, b))

Held(c, b) == SessionHeld(c, b) /\ DataHeld(c, b) /\ TimesHeld(c, b)

(* The id that a call was given is known; one that it has drawn is not     *)
(* before it returns it, and there is one for each call that has yet to    *)
(* draw.                                                                   *)
NewKept == \A p \in Proc :
  /\ call[p].sid \in known \cup {NoSid}
  /\ call[p].new # NoSid => call[p].pc \in HasNew /\ call[p].new \notin known

Drawing == {p \in Running : DrawsId(call[p]) /\ call[p].new = NoSid}
IdsInv  == IsFiniteSet(Drawing) /\ Cardinality(Drawing) <= Cardinality(Fresh)

KeepApart == \A p, q \in Running : p = q \/ Apart(call[p], call[q])

IsoInv == /\ UserInv /\ NewKept /\ IdsInv /\ KeepApart
          /\ \A p \in Running : Held(call[p], before[p])
          /\ DOMAIN before = Proc

-----------------------------------------------------------------------------
(* What a call under way is.                                               *)
LEMMA CallIs ==
  ASSUME IsoInv, NEW p \in Running
  PROVE  LET c == call[p] IN
         /\ p \in Proc /\ c \in Call /\ c.pc # "idle" /\ LocalSet(c) /\ CallKnown(c)
         /\ Held(c, before[p])
         /\ c.sid \in known \cup {NoSid} /\ known \subseteq Sid /\ NoSid \notin Sid
         /\ c.new # NoSid => c.new \in Sid /\ c.new \notin known /\ c.pc \in HasNew
         /\ SidsOf(c) \subseteq Sid /\ UsersOf(c) \subseteq User
         /\ c.ses # NoDoc => SameLogin(c.sid, c.ses) /\ c.ses \in SingleDoc
<1>1. p \in Proc /\ call[p].pc # "idle"
  BY DEF Running
<1>2. /\ call[p] \in Call /\ LocalSet(call[p]) /\ CallKnown(call[p])
      /\ call[p].ses # NoDoc => SameLogin(call[p].sid, call[p].ses)
  BY <1>1, UserFacts, CallFacts DEF IsoInv
<1>3. known \subseteq Sid /\ NoSid \notin Sid
  BY NoneAssumption DEF IsoInv, UserInv, IInv, TypeOK
<1>4. call[p].sid \in known \cup {NoSid} /\ Held(call[p], before[p])
  BY <1>1 DEF NewKept, IsoInv
<1>5. call[p].new # NoSid => /\ call[p].new \in Sid /\ call[p].new \notin known
                             /\ call[p].pc \in HasNew
  BY <1>1, <1>2 DEF Call, IsoInv, NewKept
<1>6. SidsOf(call[p]) \subseteq Sid
  BY <1>3, <1>4, <1>5 DEF SidsOf
<1>7. UsersOf(call[p]) \subseteq User
  BY <1>4 DEF Held, DataHeld
<1>8. call[p].ses # NoDoc => call[p].ses \in SingleDoc
  BY <1>2 DEF Call
<1> QED BY <1>1, <1>2, <1>3, <1>4, <1>5, <1>6, <1>7, <1>8

(* The user of the document that a call has read, or of the login that it  *)
(* starts, is one of its users.                                            *)
LEMMA UserOfCall ==
  ASSUME NEW c \in Call, LocalSet(c),
         c.ses # NoDoc => SameLogin(c.sid, c.ses)
  PROVE  /\ c.pc \in HasUser => UserIn(c) \in UsersOf(c)
         /\ c.ses # NoDoc /\ c.ses.user # NoUser => c.ses.user \in UsersOf(c)
         /\ c.op # "StartSession" /\ c.ses # NoDoc => UserIn(c) = c.ses.user
<1>1. c.ses # NoDoc /\ c.ses.user # NoUser => c.ses.user \in UsersOf(c)
  BY DEF SameLogin, UsersOf, Owned
<1>2. c.pc \in HasUser /\ c.op # "StartSession" => c.ses # NoDoc
  BY DEF LocalSet, OpAt, HasUser, HasSes
<1>3. c.pc \in HasUser => UserIn(c) # NoUser
  BY NoneAssumption DEF LocalSet
<1> QED BY <1>1, <1>2, <1>3 DEF UserIn, UsersOf

(* No two calls work on the same session or for the same user, nor does    *)
(* one call on one session twice.                                          *)
LEMMA OneCall ==
  ASSUME IsoInv, NEW p \in Running, NEW q \in Running, p # q
  PROVE  /\ SidsOf(call[p]) \cap SidsOf(call[q]) = {}
         /\ UsersOf(call[p]) \cap UsersOf(call[q]) = {}
  BY DEF IsoInv, KeepApart, Apart

(* What a caller may take for the state, of the calls under way and        *)
(* otherwise.                                                              *)
ViewsHold ==
  /\ \A p \in Running :
       /\ call[p].sid \in Sid => Sessions[call[p].sid] = Was(call[p], before[p])
       /\ call[p].new \in Sid => Sessions[call[p].new] = NoDoc
       /\ \A u \in UsersOf(call[p]) : UserData[u] = before[p].data[u]
  /\ \A s \in Sid : (\A p \in Running : s \notin SidsOf(call[p])) => Sessions[s] = single[s]
  /\ \A u \in User : (\A p \in Running : u \notin UsersOf(call[p]))
                       => UserData[u] = DataOf(u)
  /\ Sessions = [s \in Sid |-> Sessions[s]]
  /\ UserData = [u \in User |-> UserData[u]]

LEMMA Views == IsoInv => ViewsHold
<1> SUFFICES ASSUME IsoInv PROVE ViewsHold
  OBVIOUS
<1>1. ASSUME NEW p \in Running, call[p].sid \in Sid
      PROVE  Sessions[call[p].sid] = Was(call[p], before[p])
  <2> DEFINE s == call[p].sid
             q == CHOOSE q \in Running : call[q].sid = s
  <2>1. q \in Running /\ call[q].sid = s
    OBVIOUS
  <2>2. s \in SidsOf(call[p]) /\ s \in SidsOf(call[q])
    BY <1>1, <2>1, NoneAssumption DEF SidsOf
  <2>3. q = p
    BY <2>1, <2>2, OneCall
  <2>4. Sessions[s] = before[q].single[s]
    BY <1>1, <2>1 DEF Sessions
  <2> QED BY <2>3, <2>4 DEF Was
<1>2. ASSUME NEW p \in Running, call[p].new \in Sid
      PROVE  Sessions[call[p].new] = NoDoc
  <2>1. call[p].new # NoSid /\ call[p].new \notin known
    BY <1>2, CallIs, NoneAssumption
  <2>2. \A q \in Running : call[q].sid # call[p].new
    BY <2>1, CallIs
  <2> QED BY <1>2, <2>2 DEF Sessions
<1>3. ASSUME NEW p \in Running, NEW u \in UsersOf(call[p])
      PROVE  UserData[u] = before[p].data[u]
  <2> DEFINE q == CHOOSE q \in Running : u \in UsersOf(call[q])
  <2>1. q \in Running /\ u \in UsersOf(call[q])
    BY <1>3
  <2>2. q = p
    BY <2>1, <1>3, OneCall
  <2>3. u \in User
    BY <1>3, CallIs
  <2>4. UserData[u] = before[q].data[u]
    BY <2>1, <2>3 DEF UserData
  <2> QED BY <2>2, <2>4
<1>4. ASSUME NEW s \in Sid, \A p \in Running : s \notin SidsOf(call[p])
      PROVE  Sessions[s] = single[s]
  <2>1. \A p \in Running : call[p].sid # s /\ call[p].new # s
    BY <1>4, NoneAssumption DEF SidsOf
  <2> QED BY <2>1 DEF Sessions
<1>5. ASSUME NEW u \in User, \A p \in Running : u \notin UsersOf(call[p])
      PROVE  UserData[u] = DataOf(u)
  BY <1>5 DEF UserData
<1>6. /\ Sessions = [s \in Sid |-> Sessions[s]]
      /\ UserData = [u \in User |-> UserData[u]]
  BY DEF Sessions, UserData
<1> QED BY <1>1, <1>2, <1>3, <1>4, <1>5, <1>6 DEF ViewsHold

LEMMA ViewsNext == IsoInv' => ViewsHold'
  BY Views, PTL

-----------------------------------------------------------------------------
(* A call holds on to what others do not touch.                            *)
LEMMA HeldStays ==
  ASSUME NEW c \in Call, NEW b, Held(c, b), LocalSet(c), UsersOf(c) \subseteq User,
         SidsOf(c) \subseteq Sid,
         c.ses # NoDoc => SameLogin(c.sid, c.ses),
         \A s \in SidsOf(c) : single'[s] = single[s],
         c.sid \in Sid => origin'[c.sid] = origin[c.sid],
         \A u \in UsersOf(c) : userSes'[u] = userSes[u],
         now \in Nat, now' \in Nat, now <= now'
  PROVE  Held(c, b)' /\ UsersOf(c)' = UsersOf(c)
<1>1. UsersOf(c)' = UsersOf(c)
  BY DEF UsersOf, Owned
<1>2. /\ c.sid # NoSid => c.sid \in SidsOf(c)
      /\ c.pc \in HasNew => c.new \in SidsOf(c)
  BY NoneAssumption DEF SidsOf, LocalSet
<1>3. /\ c.pc \in HasUser => UserIn(c) \in UsersOf(c)
      /\ c.pc \in HasUser /\ c.op = "StartSession" => UserIn(c) = c.user
  BY UserOfCall DEF UserIn
<1>4. b.since \in 0 .. now' /\ \A t \in Meanwhile(b) : t \in Meanwhile(b)'
  BY DEF Held, TimesHeld, Meanwhile
<1>5. SessionHeld(c, b)'
  <2>1. c.sid # NoSid => /\ single'[c.sid] = single[c.sid]
                         /\ Was(c, b) # NoDoc => SameLogin(c.sid, Was(c, b))'
    BY <1>2 DEF Held, SessionHeld, SameLogin
  <2>2. /\ c.pc \in NewSession => single'[c.new] = single[c.new]
        /\ c.pc = "renew_delete" => single'[c.new] = single[c.new]
    BY <1>2 DEF NewSession, HasNew
  <2> QED BY <1>4, <2>1, <2>2 DEF Held, SessionHeld, Was, Found, Deleted
<1>6. DataHeld(c, b)'
  <2>1. \A u \in UsersOf(c) : DataOf(u)' = DataOf(u)
    BY DEF DataOf
  <2>2. c.pc \in {"start_replace_user", "logout_replace_user", "start_create_user"} =>
          userSes'[UserIn(c)] = userSes[UserIn(c)]
    BY <1>3 DEF HasUser
  <2>3. c.pc = "start_create_user" => UserIn(c) = c.user
    BY <1>3 DEF HasUser, LocalSet, OpAt
  <2> QED BY <1>1, <2>1, <2>2, <2>3 DEF Held, DataHeld, UserIn
<1>7. TimesHeld(c, b)'
  BY <1>4 DEF Held, TimesHeld, Expired, Idling, TermOf, Was
<1> QED BY <1>1, <1>5, <1>6, <1>7 DEF Held

(* What the step of p leaves alone.                                        *)
Alone(p) ==
  /\ now' = now
  /\ \A s \in Sid : s \notin SidsOf(call[p]) => single'[s] = single[s]
  /\ \A s \in Sid : s # call[p].new => origin'[s] = origin[s]
  /\ \A u \in User : u \notin UsersOf(call[p]) => userSes'[u] = userSes[u]

(* The calls of the others hold on.                                        *)
LEMMA OthersHeld ==
  ASSUME IsoInv, NEW p \in Running, Alone(p), NEW q \in Running, q # p,
         call'[q] = call[q], before'[q] = before[q]
  PROVE  /\ Held(call[q], before[q])' /\ UsersOf(call[q])' = UsersOf(call[q])
         /\ \A u \in UsersOf(call[q]) : DataOf(u)' = DataOf(u)
<1>1. PICK c, b : c = call[q] /\ b = before[q]
  OBVIOUS
<1>2. /\ c \in Call /\ LocalSet(c) /\ Held(c, b) /\ UsersOf(c) \subseteq User
      /\ SidsOf(c) \subseteq Sid
      /\ c.ses # NoDoc => SameLogin(c.sid, c.ses)
      /\ c.sid \in known \cup {NoSid}
  BY <1>1, CallIs
<1>3. SidsOf(c) \cap SidsOf(call[p]) = {} /\ UsersOf(c) \cap UsersOf(call[p]) = {}
  BY <1>1, OneCall
<1>4. c.sid \in Sid => c.sid # call[p].new
  BY <1>2, CallIs, NoneAssumption
<1>5. now \in Nat /\ now' \in Nat /\ now <= now'
  BY BoundsAssumption DEF Alone, IsoInv, UserInv, IInv, TypeOK
<1>6. \A u \in UsersOf(c) : userSes'[u] = userSes[u]
  BY <1>2, <1>3 DEF Alone
<1>7. Held(c, b)' /\ UsersOf(c)' = UsersOf(c)
  <2>1. \A s \in SidsOf(c) : single'[s] = single[s]
    BY <1>2, <1>3 DEF Alone
  <2>2. c.sid \in Sid => origin'[c.sid] = origin[c.sid]
    BY <1>4 DEF Alone
  <2>3. Held(c, b)'
    BY <1>2, <1>5, <1>6, <2>1, <2>2, HeldStays
  <2> QED BY <1>2, <1>5, <1>6, <2>1, <2>2, <2>3, HeldStays
<1>8. \A u \in UsersOf(c) : DataOf(u)' = DataOf(u)
  BY <1>6 DEF DataOf
<1> QED BY <1>1, <1>7, <1>8

(* p's step is that of the call c alone; e is what the call is afterwards. *)
Steps(p, e) ==
  /\ Alone(p)
  /\ call' = [call EXCEPT ![p] = e]
  /\ known \subseteq known'
  /\ known' \subseteq known \cup {call[p].sid, call[p].new}

(* The call goes on with its arguments; it may have drawn an id.           *)
SameArgs(c, e) ==
  /\ e.pc # "idle" /\ e.op = c.op /\ e.sid = c.sid /\ e.user = c.user /\ e.dirs = c.dirs
  /\ e.new = c.new \/ (c.new = NoSid /\ DrawsId(c) /\ e.new \in Fresh)

LEMMA IdsStep ==
  ASSUME IsoInv, NEW p \in Running, NEW e, Steps(p, e), e = Idle \/ SameArgs(call[p], e)
  PROVE  IdsInv'
<1>1. /\ p \in Proc /\ call \in [Proc -> Call] /\ call[p].pc # "idle"
      /\ \A q \in Proc : call'[q] = IF q = p THEN e ELSE call[q]
  BY CallIs DEF Steps, IsoInv, UserInv, IInv, TypeOK
<1>2. /\ Idle.pc = "idle" /\ Idle.new = NoSid
  BY DEF Idle
<1>3. \A x \in Fresh : x \in Fresh' \/ (e # Idle /\ x = e.new)
  <2> SUFFICES ASSUME NEW x \in Fresh, e = Idle \/ x # e.new PROVE x \in Fresh'
    OBVIOUS
  <2>1. /\ x \in Sid /\ x \notin known /\ origin[x] = NoDoc
        /\ \A q \in Proc : call[q].new # x
    BY DEF Fresh
  <2>2. x # call[p].sid
    BY <2>1, CallIs, NoneAssumption
  <2>3. x \notin known' /\ origin'[x] = NoDoc
    BY <1>1, <2>1, <2>2 DEF Steps, Alone
  <2>4. \A q \in Proc : call'[q].new # x
    BY <1>1, <1>2, <2>1, NoneAssumption
  <2> QED BY <2>1, <2>3, <2>4 DEF Fresh
<1>4. IsFiniteSet(Fresh) /\ IsFiniteSet(Fresh')
  BY SidAssumption, FS_Subset DEF Fresh
<1>5. IsFiniteSet(Drawing) /\ Cardinality(Drawing) <= Cardinality(Fresh)
  BY DEF IsoInv, IdsInv
<1>6. CASE e = Idle \/ e.new = call[p].new
  <2>1. \A q \in Drawing' : q \in Drawing
    BY <1>1, <1>2, <1>6 DEF Drawing, Running, DrawsId, SameArgs
  <2>2. Drawing' \subseteq Drawing
    BY <2>1
  <2>3. Fresh \subseteq Fresh'
    <3>1. \A x \in Fresh : x # call[p].new
      BY <1>1 DEF Fresh
    <3> QED BY <1>3, <1>6, <3>1
  <2>4. /\ IsFiniteSet(Drawing') /\ Cardinality(Drawing') <= Cardinality(Drawing)
        /\ Cardinality(Fresh) <= Cardinality(Fresh')
    BY <1>4, <1>5, <2>2, <2>3, FS_Subset
  <2>5. /\ Cardinality(Drawing') \in Nat /\ Cardinality(Drawing) \in Nat
        /\ Cardinality(Fresh') \in Nat /\ Cardinality(Fresh) \in Nat
    BY <1>4, <1>5, <2>4, FS_CardinalityType
  <2> QED BY <1>5, <2>4, <2>5 DEF IdsInv
<1>7. CASE e # Idle /\ e.new # call[p].new
  <2>1. call[p].new = NoSid /\ DrawsId(call[p]) /\ e.new \in Fresh
    BY <1>7 DEF SameArgs
  <2>2. p \in Drawing
    BY <2>1 DEF Drawing
  <2>3. e.new # NoSid
    BY <2>1, NoneAssumption DEF Fresh
  <2>4. Drawing' \subseteq Drawing \ {p}
    BY <1>1, <2>3 DEF Drawing, Running
  <2>5. Fresh \ {e.new} \subseteq Fresh'
    BY <1>3
  <2>6. /\ IsFiniteSet(Drawing \ {p}) /\ Cardinality(Drawing \ {p}) = Cardinality(Drawing) - 1
        /\ Cardinality(Fresh \ {e.new}) = Cardinality(Fresh) - 1
    BY <1>4, <1>5, <2>1, <2>2, FS_RemoveElement
  <2>7. /\ IsFiniteSet(Drawing')
        /\ Cardinality(Drawing') <= Cardinality(Drawing \ {p})
        /\ Cardinality(Fresh \ {e.new}) <= Cardinality(Fresh')
    BY <1>4, <2>4, <2>5, <2>6, FS_Subset
  <2>8. /\ Cardinality(Drawing') \in Nat /\ Cardinality(Drawing) \in Nat
        /\ Cardinality(Fresh') \in Nat /\ Cardinality(Fresh) \in Nat
    BY <1>4, <1>5, <2>7, FS_CardinalityType
  <2> QED BY <1>5, <2>6, <2>7, <2>8 DEF IdsInv
<1> QED BY <1>6, <1>7

(* What is left to show of a step of p.                                    *)
LEMMA StepIso ==
  ASSUME IsoInv, UserInv', NEW p \in Running, NEW e, Steps(p, e),
         e = Idle \/ SameArgs(call[p], e),
         e.new # NoSid => e.pc \in HasNew,
         e # Idle => before' = before /\ Held(e, before[p])' /\ known' = known,
         e = Idle => before' = [before EXCEPT ![p] = NoCall]
  PROVE  IsoInv'
<1>1. /\ p \in Proc /\ call \in [Proc -> Call] /\ call[p].pc # "idle"
      /\ \A q \in Proc : call'[q] = IF q = p THEN e ELSE call[q]
      /\ DOMAIN before = Proc
  BY CallIs DEF Steps, IsoInv, UserInv, IInv, TypeOK
<1>2. Idle.pc = "idle" /\ Idle.new = NoSid
  BY DEF Idle
<1>3. Running' = IF e = Idle THEN Running \ {p} ELSE Running
  BY <1>1, <1>2 DEF Running, SameArgs
<1>4. DOMAIN before' = Proc /\ \A q \in Proc : q # p => before'[q] = before[q]
  BY <1>1
<1>5. NewKept'
  <2>0. \A q \in Proc : call'[q].sid \in known' \cup {NoSid}
    <3>1. \A q \in Proc : call[q].sid \in known \cup {NoSid}
      BY DEF IsoInv, NewKept
    <3>2. e.sid \in {NoSid, call[p].sid}
      BY DEF SameArgs, Idle
    <3> QED BY <1>1, <3>1, <3>2 DEF Steps
  <2> SUFFICES ASSUME NEW q \in Proc, call'[q].new # NoSid
               PROVE  call'[q].pc \in HasNew /\ call'[q].new \notin known'
    BY <2>0 DEF NewKept
  <2>1. CASE q = p
    <3>1. call'[q] = e /\ e # Idle /\ known' = known
      BY <1>1, <1>2, <2>1
    <3>2. e.new \notin known
      BY <3>1, CallIs DEF SameArgs, Fresh
    <3> QED BY <3>1, <3>2
  <2>2. CASE q # p
    <3>1. call'[q] = call[q] /\ call[q].pc \in HasNew /\ call[q].new \notin known
      BY <1>1, <2>2 DEF IsoInv, NewKept
    <3>2. call[q].new # call[p].new
      BY <1>1, <2>2, <3>1 DEF IsoInv, UserInv, IInv, NewIdsFresh
    <3>3. call[q].new \in Sid
      BY <1>1, <3>1, <2>2 DEF Call
    <3>4. call[q].new # call[p].sid
      BY <3>1, <3>3, CallIs
    <3> QED BY <3>1, <3>2, <3>4 DEF Steps
  <2> QED BY <2>1, <2>2
<1>6. ASSUME NEW q \in Running', q # p
      PROVE  Held(call[q], before[q])' /\ UsersOf(call[q])' = UsersOf(call[q])
  <2>1. q \in Running /\ q \in Proc
    BY <1>3, <1>6 DEF Running
  <2>2. call'[q] = call[q] /\ before'[q] = before[q]
    BY <1>1, <1>4, <1>6, <2>1
  <2> QED BY <1>6, <2>1, <2>2, OthersHeld DEF Steps
<1>7. \A q \in Running' : Held(call[q], before[q])'
  <2>1. ASSUME NEW q \in Running', q # p PROVE Held(call[q], before[q])'
    BY <1>6, <2>1
  <2>2. ASSUME p \in Running' PROVE Held(call[p], before[p])'
    BY <1>1, <1>3, <2>2
  <2> QED BY <2>1, <2>2
<1>8. KeepApart'
  <2>1. \A q \in Running' : q # p => UsersOf(call[q])' = UsersOf(call[q])
    BY <1>6
  <2>2. ASSUME e # Idle PROVE UsersOf(call[p])' = UsersOf(call[p])
    <3>1. call[p].sid \in Sid => call[p].sid # call[p].new
      BY CallIs, NoneAssumption
    <3>2. call[p].sid \in Sid => origin'[call[p].sid] = origin[call[p].sid]
      BY <3>1 DEF Steps, Alone
    <3>3. call'[p].sid = call[p].sid /\ call'[p].user = call[p].user
      BY <1>1, <2>2 DEF SameArgs
    <3> QED BY <3>2, <3>3 DEF UsersOf, Owned
  <2>3. ASSUME NEW q \in Running', q # p, e # Idle
        PROVE  SidsOf(e) \cap SidsOf(call[q]) = {}
    <3>1. SidsOf(call[p]) \cap SidsOf(call[q]) = {}
      BY <1>3, <2>3, OneCall
    <3>2. SidsOf(e) \subseteq SidsOf(call[p]) \cup Fresh
      BY <2>3 DEF SidsOf, SameArgs
    <3>3. SidsOf(call[q]) \cap Fresh = {}
      <4>1. q \in Running /\ q \in Proc /\ call[q].sid \in known \cup {NoSid}
        BY <1>3, <2>3, CallIs
      <4> QED BY <4>1 DEF SidsOf, Fresh
    <3> QED BY <3>1, <3>2, <3>3
  <2> SUFFICES ASSUME NEW q \in Running', NEW r \in Running', q # r
               PROVE  Apart(call[q], call[r])'
    BY DEF KeepApart
  <2>4. q \in Running /\ r \in Running /\ q \in Proc /\ r \in Proc
    BY <1>3 DEF Running
  <2>5. /\ SidsOf(call[q]) \cap SidsOf(call[r]) = {}
        /\ UsersOf(call[q]) \cap UsersOf(call[r]) = {}
    BY <2>4, OneCall
  <2>6. UsersOf(call[q])' = UsersOf(call[q]) /\ UsersOf(call[r])' = UsersOf(call[r])
    BY <1>3, <2>1, <2>2
  <2>7. SidsOf(call'[q]) \cap SidsOf(call'[r]) = {}
    BY <1>1, <1>3, <2>3, <2>4, <2>5
  <2> QED BY <2>5, <2>6, <2>7 DEF Apart, SidsOf
<1>9. IdsInv'
  BY IdsStep
<1> QED BY <1>4, <1>5, <1>7, <1>8, <1>9 DEF IsoInv

-----------------------------------------------------------------------------
(* What the others take for the state while p takes its step.              *)
LEMMA OthersView ==
  ASSUME IsoInv, IsoInv', NEW p \in Running, NEW e, Steps(p, e),
         \A q \in Proc : q # p => before'[q] = before[q]
  PROVE  /\ \A s \in Sid : s \notin SidsOf(call[p]) \cup SidsOf(call'[p])
                             => Sessions'[s] = Sessions[s]
         /\ \A u \in User : u \notin UsersOf(call[p]) \cup UsersOf(call[p])'
                              => UserData'[u] = UserData[u]
<1>1. /\ p \in Proc /\ \A q \in Proc : q # p => call'[q] = call[q]
  BY CallIs DEF Steps, IsoInv, UserInv, IInv, TypeOK
<1>2. ViewsHold /\ ViewsHold'
  BY Views, ViewsNext
<1>3. ASSUME NEW q \in Running, q # p
      PROVE  /\ q \in Running' /\ q \in Proc /\ call'[q] = call[q] /\ before'[q] = before[q]
             /\ UsersOf(call[q])' = UsersOf(call[q])
             /\ \A u \in UsersOf(call[q]) : DataOf(u)' = DataOf(u)
  <2>1. q \in Proc /\ call'[q] = call[q] /\ before'[q] = before[q]
    BY <1>1, <1>3 DEF Running
  <2>2. q \in Running'
    BY <2>1 DEF Running
  <2> QED BY <1>3, <2>1, <2>2, OthersHeld DEF Steps
<1>4. ASSUME NEW q \in Running', q # p PROVE q \in Running
  BY <1>1, <1>4 DEF Running
<1>5. ASSUME NEW s \in Sid, s \notin SidsOf(call[p]) \cup SidsOf(call'[p])
      PROVE  Sessions'[s] = Sessions[s]
  <2>1. CASE \E q \in Running : s \in SidsOf(call[q])
    <3>1. PICK q \in Running : s \in SidsOf(call[q])
      BY <2>1
    <3>2. q # p
      BY <1>5, <3>1
    <3>3. s = call[q].sid \/ s = call[q].new
      BY <3>1 DEF SidsOf
    <3> QED BY <1>2, <1>3, <3>2, <3>3 DEF ViewsHold, Was
  <2>2. CASE \A q \in Running : s \notin SidsOf(call[q])
    <3>1. \A q \in Running' : s \notin SidsOf(call'[q])
      BY <1>3, <1>4, <1>5, <2>2
    <3>2. Sessions'[s] = single'[s] /\ Sessions[s] = single[s]
      <4>1. (\A q \in Running : s \notin SidsOf(call[q]))'
        BY <3>1 DEF SidsOf
      <4> QED BY <1>2, <2>2, <4>1 DEF ViewsHold
    <3> QED BY <1>5, <3>2 DEF Steps, Alone
  <2> QED BY <2>1, <2>2
<1>6. ASSUME NEW u \in User, u \notin UsersOf(call[p]) \cup UsersOf(call[p])'
      PROVE  UserData'[u] = UserData[u]
  <2>1. CASE \E q \in Running : u \in UsersOf(call[q])
    <3>1. PICK q \in Running : u \in UsersOf(call[q])
      BY <2>1
    <3>2. q # p
      BY <1>6, <3>1
    <3> QED BY <1>2, <1>3, <3>1, <3>2 DEF ViewsHold
  <2>2. CASE \A q \in Running : u \notin UsersOf(call[q])
    <3>1. (\A q \in Running : u \notin UsersOf(call[q]))'
      BY <1>3, <1>4, <1>6, <2>2
    <3>2. UserData'[u] = DataOf(u)' /\ UserData[u] = DataOf(u)
      BY <1>2, <2>2, <3>1 DEF ViewsHold
    <3>3. userSes'[u] = userSes[u]
      BY <1>6 DEF Steps, Alone
    <3> QED BY <3>2, <3>3 DEF DataOf
  <2> QED BY <2>1, <2>2
<1> QED BY <1>5, <1>6

(* A step after which the call goes on changes nothing that a caller sees. *)
LEMMA WaitView ==
  ASSUME IsoInv, IsoInv', NEW p \in Running, NEW e, Steps(p, e), SameArgs(call[p], e),
         before' = before, known' = known, reply' = "none"
  PROVE  API!Wait
<1>1. /\ p \in Proc /\ \A q \in Proc : call'[q] = IF q = p THEN e ELSE call[q]
  BY CallIs DEF Steps, IsoInv, UserInv, IInv, TypeOK
<1>2. ViewsHold /\ ViewsHold'
  BY Views, ViewsNext
<1>3. p \in Running' /\ Running' = Running
  BY <1>1, CallIs DEF Running, SameArgs
<1>4. UsersOf(call[p])' = UsersOf(call[p])
  <2>1. call[p].sid \in Sid => origin'[call[p].sid] = origin[call[p].sid]
    BY CallIs, NoneAssumption DEF Steps, Alone
  <2>2. call'[p].sid = call[p].sid /\ call'[p].user = call[p].user
    BY <1>1 DEF SameArgs
  <2> QED BY <2>1, <2>2 DEF UsersOf, Owned
<1>5. ASSUME NEW s \in Sid PROVE Sessions'[s] = Sessions[s]
  <2>1. CASE s = call[p].sid
    BY <1>1, <1>2, <1>3, <2>1 DEF ViewsHold, Was, SameArgs
  <2>2. CASE s # call[p].sid /\ s = e.new
    <3>1. Sessions'[s] = NoDoc
      BY <1>1, <1>2, <1>3, <2>2 DEF ViewsHold
    <3>2. CASE s = call[p].new
      BY <1>2, <3>1, <3>2 DEF ViewsHold
    <3>3. CASE s # call[p].new
      <4>1. /\ s \in Fresh /\ s \notin known /\ origin[s] = NoDoc
            /\ \A q \in Proc : call[q].new # s
        BY <2>2, <3>3 DEF SameArgs, Fresh
      <4>2. \A q \in Running : s \notin SidsOf(call[q])
        BY <4>1, CallIs, NoneAssumption DEF SidsOf
      <4>3. single[s] = NoDoc
        BY <4>1 DEF IsoInv, UserInv, IInv, DocsMatchOrigin, SameLogin
      <4> QED BY <1>2, <3>1, <4>2, <4>3 DEF ViewsHold
    <3> QED BY <3>2, <3>3
  <2>3. CASE s # call[p].sid /\ s # e.new
    <3>1. s # call[p].new
      BY <2>3, NoneAssumption DEF SameArgs
    <3>2. s \notin SidsOf(call[p]) \cup SidsOf(call'[p])
      BY <1>1, <2>3, <3>1 DEF SidsOf, SameArgs
    <3> QED BY <3>2, OthersView
  <2> QED BY <2>1, <2>2, <2>3
<1>6. ASSUME NEW u \in User PROVE UserData'[u] = UserData[u]
  <2>1. CASE u \in UsersOf(call[p])
    BY <1>2, <1>3, <1>4, <2>1 DEF ViewsHold
  <2>2. CASE u \notin UsersOf(call[p])
    BY <1>4, <2>2, OthersView
  <2> QED BY <2>1, <2>2
<1>7. Sessions' = Sessions /\ UserData' = UserData
  BY <1>2, <1>5, <1>6 DEF ViewsHold
<1>8. Asked' = Asked
  BY <1>1, <1>3 DEF Asked, SameArgs
<1> QED BY <1>7, <1>8 DEF API!Wait, API!Quiet, Steps, Alone

(* When the call has returned, what it leaves in the store is what a       *)
(* caller sees.                                                            *)
LEMMA ReturnView ==
  ASSUME IsoInv, IsoInv', NEW p \in Running, NEW res, NEW s, Steps(p, Idle),
         Return(p, res, s), before' = [before EXCEPT ![p] = NoCall]
  PROVE  /\ Sessions' = [x \in Sid |-> IF x \in SidsOf(call[p]) THEN single'[x]
                                                                ELSE Sessions[x]]
         /\ UserData' = [u \in User |-> IF u \in UsersOf(call[p]) THEN DataOf(u)'
                                                                  ELSE UserData[u]]
         /\ API!Answers(p, res, s)
<1>1. /\ p \in Proc /\ \A q \in Proc : call'[q] = IF q = p THEN Idle ELSE call[q]
      /\ DOMAIN before = Proc
  BY CallIs DEF Steps, IsoInv, UserInv, IInv, TypeOK
<1>2. ViewsHold /\ ViewsHold'
  BY Views, ViewsNext
<1>3. Idle.pc = "idle" /\ Idle.sid = NoSid /\ Idle.new = NoSid /\ Idle.user = NoUser
  BY DEF Idle
<1>4. Running' = Running \ {p}
  BY <1>1, <1>3 DEF Running
<1>5. \A q \in Proc : q # p => call'[q] = call[q] /\ before'[q] = before[q]
  BY <1>1
<1>6. SidsOf(call'[p]) = {} /\ UsersOf(call[p])' = {}
  BY <1>1, <1>3, NoneAssumption DEF SidsOf, UsersOf, Owned
<1>7. ASSUME NEW q \in Running'
      PROVE  /\ SidsOf(call'[q]) \cap SidsOf(call[p]) = {}
             /\ UsersOf(call[q])' \cap UsersOf(call[p]) = {}
  <2>1. q \in Running /\ q # p /\ q \in Proc
    BY <1>4 DEF Running
  <2> QED BY <1>5, <2>1, OneCall, OthersHeld DEF Steps
<1>8. ASSUME NEW x \in Sid
      PROVE  Sessions'[x] = IF x \in SidsOf(call[p]) THEN single'[x] ELSE Sessions[x]
  <2>1. CASE x \in SidsOf(call[p])
    <3>1. (\A q \in Running : x \notin SidsOf(call[q]))'
      BY <1>7, <2>1 DEF SidsOf
    <3> QED BY <1>2, <2>1, <3>1 DEF ViewsHold
  <2>2. CASE x \notin SidsOf(call[p])
    BY <1>5, <1>6, <2>2, OthersView
  <2> QED BY <2>1, <2>2
<1>9. ASSUME NEW u \in User
      PROVE  UserData'[u] = IF u \in UsersOf(call[p]) THEN DataOf(u)' ELSE UserData[u]
  <2>1. CASE u \in UsersOf(call[p])
    <3>1. (\A q \in Running : u \notin UsersOf(call[q]))'
      BY <1>7, <2>1
    <3> QED BY <1>2, <2>1, <3>1 DEF ViewsHold
  <2>2. CASE u \notin UsersOf(call[p])
    BY <1>5, <1>6, <2>2, OthersView
  <2> QED BY <2>1, <2>2
<1>10. Asked' = [Asked EXCEPT ![p] = NoCall]
  BY <1>1, <1>4, <1>5 DEF Asked
<1>11. API!Answers(p, res, s)
  BY <1>10 DEF API!Answers, Return, Steps, Alone
<1> QED BY <1>2, <1>8, <1>9, <1>11 DEF ViewsHold

(* What the interface knows of the call and of its session.                *)
LEMMA AskedOf ==
  ASSUME IsoInv, NEW p \in Running
  PROVE  LET c == call[p]  b == before[p] IN
         /\ Asked[p] # NoCall /\ Asked[p].op = c.op /\ Asked[p].sid = c.sid
         /\ Asked[p].user = c.user /\ Asked[p].dirs = c.dirs
         /\ API!During(p) = Meanwhile(b)
         /\ c.sid \in Sid => Sessions[c.sid] = Was(c, b)
         /\ c.new \in Sid => c.new \in API!Unused
         /\ \A u \in UsersOf(c) : UserData[u] = b.data[u]
<1>1. p \in Proc /\ call[p] \in Call /\ call[p].pc # "idle" /\ LocalSet(call[p])
  BY CallIs
<1>2. Asked[p] = [op |-> call[p].op, sid |-> call[p].sid, user |-> call[p].user,
                  dirs |-> call[p].dirs, since |-> before[p].since]
  BY <1>1 DEF Asked
<1>3. before[p].since \in Nat
  <2>1. before[p].since \in 0 .. now /\ now \in Nat
    BY <1>1, CallIs, BoundsAssumption DEF Held, TimesHeld, IsoInv, UserInv, IInv, TypeOK
  <2> QED BY <2>1
<1>4. call[p].op \in Operation
  BY <1>1 DEF Call, LocalSet, OpAt, Operation, PC
<1>5. Asked[p] \in [op : Operation, sid : Sid \cup {NoSid}, user : Owner,
                    dirs : Directives, since : Nat]
  BY <1>1, <1>2, <1>3, <1>4 DEF Call
<1>6. ViewsHold
  BY Views
<1>7. /\ Asked[p] # NoCall /\ Asked[p].op = call[p].op /\ Asked[p].sid = call[p].sid
      /\ Asked[p].user = call[p].user /\ Asked[p].dirs = call[p].dirs
      /\ Asked[p].since = before[p].since
  BY <1>2, <1>5, NoCallAssumption
<1>8. API!During(p) = Meanwhile(before[p])
  BY <1>7 DEF API!During, Meanwhile
<1>9. /\ call[p].sid \in Sid => Sessions[call[p].sid] = Was(call[p], before[p])
      /\ call[p].new \in Sid => Sessions[call[p].new] = NoDoc
      /\ \A u \in UsersOf(call[p]) : UserData[u] = before[p].data[u]
  BY <1>6 DEF ViewsHold
<1>10. call[p].new \in Sid => call[p].new \in API!Unused
  BY <1>9 DEF API!Unused
<1> QED BY <1>7, <1>8, <1>9, <1>10

-----------------------------------------------------------------------------
(* The store answers: no call of it fails.                                 *)
LEMMA NoFailures ==
  ASSUME IsoInv, MaxFaults = 0
  PROVE  ~ Fails /\ \A a \in Answer : Gives(a) => a = "ok"
<1>1. faults = 0
  BY DEF IsoInv, UserInv, IInv, TypeOK
<1> QED BY <1>1 DEF Fails, Gives

(* The four kinds of store calls leave alone what belongs to others.       *)
LEMMA ReadAlone ==
  ASSUME NEW p, NEW pc, Reads(p, pc)
  PROVE  Alone(p) /\ single' = single /\ userSes' = userSes /\ origin' = origin
  BY DEF Reads, Alone

LEMMA PutAlone ==
  ASSUME IsoInv, MaxFaults = 0, NEW p, NEW s, s \in SidsOf(call[p]),
         NEW a \in Answer, NEW doc, PutSingle(s, doc, a) /\ UNCHANGED origin
  PROVE  Alone(p) /\ a = "ok" /\ single' = [single EXCEPT ![s] = doc]
         /\ userSes' = userSes
<1>1. a = "ok"
  BY NoFailures DEF PutSingle
<1> QED BY <1>1 DEF PutSingle, Alone, IsoInv, UserInv, IInv, TypeOK

LEMMA CreateAlone ==
  ASSUME IsoInv, MaxFaults = 0, NEW p \in Proc, call[p].pc \in ToCreate,
         NEW a \in Answer, NEW doc, NEW ticket, CreateSingle(p, doc, ticket, a)
  PROVE  Alone(p) /\ a = "ok" /\ single' = [single EXCEPT ![call[p].new] = doc]
         /\ userSes' = userSes
<1>1. a = "ok"
  BY NoFailures DEF CreateSingle, PutSingle
<1>2. call[p].new \in SidsOf(call[p])
  BY CallFacts, NoneAssumption DEF IsoInv, UserInv, LocalSet, HasNew, SidsOf
<1> QED BY <1>1, <1>2 DEF CreateSingle, PutSingle, Alone, IsoInv, UserInv, IInv, TypeOK

LEMMA PutUserAlone ==
  ASSUME IsoInv, MaxFaults = 0, NEW p, NEW u, u \in UsersOf(call[p]),
         NEW a \in Answer, NEW doc, PutUser(u, doc, a)
  PROVE  Alone(p) /\ a = "ok" /\ userSes' = [userSes EXCEPT ![u] = doc]
         /\ single' = single /\ origin' = origin
<1>1. a = "ok"
  BY NoFailures DEF PutUser
<1> QED BY <1>1 DEF PutUser, Alone, IsoInv, UserInv, IInv, TypeOK

(* The record of a call is kept until it returns.                          *)
Record(p) == before' = IF call'[p].pc = "idle" THEN [before EXCEPT ![p] = NoCall]
                                               ELSE before

(* The two ways a step ends.                                               *)
LEMMA GoesOn ==
  ASSUME IsoInv, UserInv', NEW p \in Running, Record(p), Alone(p), NEW e, GoOn(p, e),
         SameArgs(call[p], e), e.new # NoSid => e.pc \in HasNew,
         NEW b, b = before[p], Held(e, b)'
  PROVE  IsoInv' /\ API!Wait
<1>1. call'[p] = e /\ e # Idle /\ before' = before
  BY CallIs DEF GoOn, SameArgs, Idle, Record, IsoInv, UserInv, IInv, TypeOK
<1>2. Held(e, before[p])'
  BY <1>1
<1>3. Steps(p, e) /\ known' = known /\ reply' = "none"
  BY DEF Steps, GoOn
<1>4. IsoInv'
  BY <1>1, <1>2, <1>3, StepIso
<1> QED BY <1>1, <1>3, <1>4, WaitView

LEMMA Returned ==
  ASSUME IsoInv, UserInv', NEW p \in Running, Record(p), Alone(p), NEW res, NEW s,
         Return(p, res, s), s \in {NoSid, call[p].sid, call[p].new}
  PROVE  /\ IsoInv'
         /\ Sessions' = [x \in Sid |-> IF x \in SidsOf(call[p]) THEN single'[x]
                                                                ELSE Sessions[x]]
         /\ UserData' = [u \in User |-> IF u \in UsersOf(call[p]) THEN DataOf(u)'
                                                                  ELSE UserData[u]]
         /\ API!Answers(p, res, s)
<1>1. call'[p] = Idle /\ Idle.pc = "idle" /\ Idle.new = NoSid
  BY CallIs DEF Return, Idle, IsoInv, UserInv, IInv, TypeOK
<1>2. before' = [before EXCEPT ![p] = NoCall]
  BY <1>1 DEF Record
<1>3. Steps(p, Idle)
  BY DEF Steps, Return
<1>4. IsoInv'
  BY <1>1, <1>2, <1>3, StepIso
<1> QED BY <1>2, <1>3, <1>4, ReturnView

(* The session data of the users of a call, while no user document         *)
(* changes.                                                                *)
LEMMA SameData ==
  ASSUME userSes' = userSes
  PROVE  \A u : DataOf(u)' = DataOf(u)
  BY DEF DataOf

-----------------------------------------------------------------------------
(* One lemma for the steps of each function: p's call goes on unseen, or   *)
(* returns as the interface says.                                          *)
Refines(p) == IsoInv' /\ (API!Wait \/ API!Answered(p))

(* What a call that draws an id has not created is not there.              *)
LEMMA NotYetCreated ==
  ASSUME IsoInv, NEW p \in Proc, call[p].pc \in ToCreate
  PROVE  call[p].new \in Sid /\ single[call[p].new] = NoDoc
<1>1. call[p].new \in Sid /\ origin[call[p].new] = NoDoc
  BY CallFacts DEF IsoInv, UserInv, IInv, LocalSet, HasNew, NewIdsFresh
<1> QED BY <1>1 DEF IsoInv, UserInv, IInv, DocsMatchOrigin, SameLogin

(* A call that has not updated the session data leaves it as it was.       *)
LEMMA DataUnchanged ==
  ASSUME IsoInv, NEW p \in Running, call[p].pc # "update_single",
         UserData' = [u \in User |-> IF u \in UsersOf(call[p]) THEN DataOf(u)'
                                                               ELSE UserData[u]],
         \A u \in UsersOf(call[p]) : DataOf(u)' = DataOf(u)
  PROVE  UserData' = UserData
<1>1. \A u \in UsersOf(call[p]) : DataOf(u) = before[p].data[u]
  BY CallIs DEF Held, DataHeld
<1>2. \A u \in User : UserData'[u] = UserData[u]
  BY <1>1, Views DEF ViewsHold
<1> QED BY <1>2, Views DEF ViewsHold

(* The sessions before and after the last step of a call.                  *)
LEMMA Afterwards ==
  ASSUME IsoInv, NEW p \in Running,
         Sessions' = [x \in Sid |-> IF x \in SidsOf(call[p]) THEN single'[x]
                                                             ELSE Sessions[x]]
  PROVE  LET c == call[p] IN
         /\ Sessions = [x \in Sid |-> Sessions[x]] /\ Sessions' = [x \in Sid |-> Sessions'[x]]
         /\ \A x \in Sid \ {c.sid, c.new} : Sessions'[x] = Sessions[x]
         /\ c.sid \in Sid => /\ Sessions'[c.sid] = single'[c.sid]
                             /\ Sessions[c.sid] = Was(c, before[p])
                             /\ single[c.sid] = IF Deleted(c) THEN NoDoc
                                                              ELSE Was(c, before[p])
                             /\ c.sid # c.new
         /\ c.new \in Sid => /\ Sessions'[c.new] = single'[c.new]
                             /\ Sessions[c.new] = NoDoc
<1>1. Sessions = [x \in Sid |-> Sessions[x]] /\ Sessions' = [x \in Sid |-> Sessions'[x]]
  BY Views DEF ViewsHold
<1>2. \A x \in Sid \ {call[p].sid, call[p].new} : Sessions'[x] = Sessions[x]
  BY DEF SidsOf
<1>3. ASSUME call[p].sid \in Sid
      PROVE  /\ Sessions'[call[p].sid] = single'[call[p].sid]
             /\ Sessions[call[p].sid] = Was(call[p], before[p])
             /\ single[call[p].sid] = IF Deleted(call[p]) THEN NoDoc
                                                         ELSE Was(call[p], before[p])
             /\ call[p].sid # call[p].new
  <2>1. call[p].sid \in SidsOf(call[p])
    BY <1>3, NoneAssumption DEF SidsOf
  <2>2. /\ Sessions[call[p].sid] = Was(call[p], before[p])
        /\ single[call[p].sid] = IF Deleted(call[p]) THEN NoDoc
                                                    ELSE Was(call[p], before[p])
    BY <1>3, AskedOf, CallIs DEF Held, SessionHeld
  <2> QED BY <1>3, <2>1, <2>2, CallIs, NoneAssumption
<1>4. ASSUME call[p].new \in Sid
      PROVE  Sessions'[call[p].new] = single'[call[p].new] /\ Sessions[call[p].new] = NoDoc
  <2>1. call[p].new \in SidsOf(call[p])
    BY <1>4, NoneAssumption DEF SidsOf
  <2> QED BY <1>4, <2>1, AskedOf DEF API!Unused
<1> QED BY <1>1, <1>2, <1>3, <1>4

(* generateNewSessionID finds an id.                                       *)
LEMMA GenerateRefines ==
  ASSUME IsoInv, UserInv', MaxFaults = 0, NEW p \in Running, Record(p),
         GenerateNewSessionID(p)
  PROVE  Refines(p)
<1>1. PICK c, b : c = call[p] /\ b = before[p]
  OBVIOUS
<1>2. /\ p \in Proc /\ c \in Call /\ LocalSet(c) /\ Held(c, b) /\ c.pc = "generate"
      /\ c.new # NoSid => c.pc \in HasNew
  BY <1>1, CallIs DEF GenerateNewSessionID, Reads
<1>3. c.new = NoSid /\ DrawsId(c)
  BY <1>2 DEF HasNew, ToCreate, LocalSet, OpAt, DrawsId
<1>4. Fresh # {}
  <2>1. p \in Drawing
    BY <1>1, <1>3 DEF Drawing
  <2>2. IsFiniteSet(Fresh)
    BY SidAssumption, FS_Subset DEF Fresh
  <2>3. Cardinality(Drawing) # 0 /\ Cardinality(Drawing) \in Nat
    BY <2>1, FS_EmptySet, FS_CardinalityType DEF IsoInv, IdsInv
  <2>4. Cardinality(Fresh) # 0
    BY <2>2, <2>3, FS_CardinalityType DEF IsoInv, IdsInv
  <2> QED BY <2>4, FS_EmptySet
<1>5. PICK s \in Fresh : GoOn(p, [c EXCEPT !.pc = AfterGenerate(c.op), !.new = s])
  BY <1>1, <1>4, NoFailures DEF GenerateNewSessionID
<1>6. PICK e : e = [c EXCEPT !.pc = AfterGenerate(c.op), !.new = s]
  OBVIOUS
<1>7. /\ e.op = c.op /\ e.sid = c.sid /\ e.user = c.user /\ e.dirs = c.dirs /\ e.new = s
      /\ e.ses = c.ses /\ e.uses = c.uses /\ e.at = c.at
      /\ \/ c.op = "StartLogin" /\ e.pc = "create_login"
         \/ c.op = "AddLoginInfo" /\ e.pc = "add_get"
         \/ c.op = "StartSession" /\ e.pc = "start_create"
         \/ c.op = "RenewSession" /\ e.pc = "renew_create"
  BY <1>2, <1>6 DEF Call, LocalSet, OpAt, AfterGenerate
<1>8. Alone(p) /\ single' = single /\ userSes' = userSes /\ origin' = origin
  BY ReadAlone DEF GenerateNewSessionID
<1>9. now' = now
  BY <1>8 DEF Alone
<1>10. UsersOf(e)' = UsersOf(c) /\ \A u : DataOf(u)' = DataOf(u)
  BY <1>7, <1>8 DEF UsersOf, Owned, DataOf
<1>11. SessionHeld(e, b)'
  BY <1>2, <1>7, <1>8
  DEF Held, SessionHeld, Was, Deleted, Found, Looking, NewSession, SameLogin, HasSes
<1>12. DataHeld(e, b)'
  BY <1>2, <1>7, <1>10 DEF Held, DataHeld
<1>13. TimesHeld(e, b)'
  BY <1>2, <1>7, <1>9
  DEF Held, TimesHeld, Meanwhile, Was, LoggingOut, Expired, Idling
<1>14. e.pc \in HasNew /\ e.pc # "idle"
  BY <1>7 DEF HasNew, ToCreate
<1>15. Held(e, b)'
  BY <1>11, <1>12, <1>13 DEF Held
<1> QED BY <1>1, <1>3, <1>5, <1>6, <1>7, <1>8, <1>14, <1>15, GoesOn DEF Refines, SameArgs

(* StartLogin answers with a session before login.                         *)
LEMMA StartLoginRefines ==
  ASSUME IsoInv, UserInv', MaxFaults = 0, NEW p \in Running, Record(p), CreateLogin(p)
  PROVE  Refines(p)
<1> DEFINE c == call[p]  b == before[p]
<1>1. /\ p \in Proc /\ c \in Call /\ LocalSet(c) /\ Held(c, b) /\ c.pc = "create_login"
      /\ c.op = "StartLogin"
  BY CallIs DEF CreateLogin, LocalSet, OpAt
<1>2. c.pc \in ToCreate
  BY <1>1 DEF ToCreate
<1>3. PICK a \in Answer :
        /\ CreateSingle(p, [user |-> NoUser, loginAt |-> now, lastAccessAt |-> now],
                        [user |-> NoUser, loginAt |-> now], a)
        /\ IF a = "ok" THEN Return(p, "ok", c.new) ELSE Return(p, "error", NoSid)
  BY DEF CreateLogin
<1>4. /\ Alone(p) /\ a = "ok" /\ userSes' = userSes
      /\ single' = [single EXCEPT ![c.new] =
                      [user |-> NoUser, loginAt |-> now, lastAccessAt |-> now]]
  BY <1>1, <1>2, <1>3, CreateAlone
<1>5. /\ IsoInv' /\ API!Answers(p, "ok", c.new)
      /\ Sessions' = [x \in Sid |-> IF x \in SidsOf(c) THEN single'[x] ELSE Sessions[x]]
      /\ UserData' = [u \in User |-> IF u \in UsersOf(c) THEN DataOf(u)' ELSE UserData[u]]
  BY <1>3, <1>4, Returned
<1>6. UserData' = UserData
  BY <1>1, <1>4, <1>5, SameData, DataUnchanged
<1>7. c.new \in API!Unused /\ c.new \in Sid /\ now \in API!During(p)
  BY <1>1, <1>2, AskedOf, NotYetCreated, BoundsAssumption
  DEF Meanwhile, Held, TimesHeld, IsoInv, UserInv, IInv, TypeOK
<1>8. Sessions' = [Sessions EXCEPT ![c.new] = [user |-> NoUser, loginAt |-> now,
                                               lastAccessAt |-> now]]
  <2>1. \A x \in Sid : Sessions'[x] = IF x = c.new
          THEN [user |-> NoUser, loginAt |-> now, lastAccessAt |-> now]
          ELSE Sessions[x]
    BY <1>1, <1>4, <1>5, <1>7, Afterwards
    DEF Deleted, IsoInv, UserInv, IInv, TypeOK
  <2> QED BY <1>5, <2>1, Afterwards
<1>9. API!StartLogin(p)
  BY <1>5, <1>6, <1>7, <1>8 DEF API!StartLogin
<1> QED BY <1>1, <1>5, <1>9, AskedOf DEF API!Answered, Refines

(* AddLoginInfo: the session goes over to the new id.                      *)
LEMMA AddRefines ==
  ASSUME IsoInv, UserInv', MaxFaults = 0, NEW p \in Running, Record(p),
         AddGet(p) \/ AddDelete(p) \/ AddCreate(p)
  PROVE  Refines(p)
<1>1. PICK c, b : c = call[p] /\ b = before[p]
  OBVIOUS
<1>2. /\ p \in Proc /\ c \in Call /\ LocalSet(c) /\ Held(c, b)
      /\ c.pc \in {"add_get", "add_delete", "add_create"} /\ c.op = "AddLoginInfo"
      /\ c.sid \in Sid /\ c.new \in Sid
  BY <1>1, CallIs DEF AddGet, AddDelete, AddCreate, Reads, LocalSet, OpAt, HasNew, ToCreate
<1>3. single[c.new] = NoDoc /\ c.sid \in SidsOf(c) /\ c.new \in SidsOf(c) /\ c.sid # c.new
  BY <1>1, <1>2, NotYetCreated, CallIs, NoneAssumption DEF ToCreate, SidsOf
<1>4. single \in [Sid -> SingleDoc \cup {NoDoc}]
  BY DEF IsoInv, UserInv, IInv, TypeOK
<1>5. ASSUME NEW e, GoOn(p, e), Alone(p), userSes' = userSes,
             e.op = c.op, e.sid = c.sid, e.user = c.user, e.dirs = c.dirs, e.new = c.new,
             e.pc \in {"add_delete", "add_create"}, e.ses = Was(c, b), Was(c, b) # NoDoc,
             single'[c.sid] = IF e.pc = "add_create" THEN NoDoc ELSE Was(c, b)
      PROVE  Refines(p)
    <2>1. now' = now /\ origin'[c.sid] = origin[c.sid]
      BY <1>1, <1>2, <1>3, <1>5 DEF Alone
    <2>2. UsersOf(e)' = UsersOf(c) /\ \A u : DataOf(u)' = DataOf(u)
      BY <1>2, <1>5, <2>1 DEF UsersOf, Owned, DataOf
    <2>3. SessionHeld(e, b)'
      BY <1>2, <1>5, <2>1
      DEF Held, SessionHeld, Was, Deleted, Found, NewSession, SameLogin
    <2>4. DataHeld(e, b)'
      BY <1>2, <1>5, <2>2 DEF Held, DataHeld
    <2>5. TimesHeld(e, b)'
      BY <1>2, <1>5, <2>1 DEF Held, TimesHeld, LoggingOut
    <2>6. SameArgs(call[p], e) /\ e.pc \in HasNew
      BY <1>1, <1>5 DEF SameArgs, HasNew, ToCreate
    <2> QED BY <1>1, <1>5, <2>3, <2>4, <2>5, <2>6, GoesOn DEF Refines, Held
<1>6. CASE AddGet(p)
  <2>1. c.pc = "add_get" /\ single[c.sid] = Was(c, b)
    BY <1>1, <1>2, <1>6, NoneAssumption DEF AddGet, Reads, Held, SessionHeld, Deleted
  <2>2. Alone(p) /\ single' = single /\ userSes' = userSes
    BY <1>6, ReadAlone DEF AddGet
  <2>3. CASE Doc(p) # NoDoc
    <3>1. PICK e : e = [c EXCEPT !.pc = "add_delete", !.ses = Was(c, b)]
      OBVIOUS
    <3>2. /\ e.op = c.op /\ e.sid = c.sid /\ e.user = c.user /\ e.dirs = c.dirs
          /\ e.new = c.new /\ e.pc = "add_delete" /\ e.ses = Was(c, b)
      BY <1>2, <3>1 DEF Call
    <3>3. GoOn(p, e) /\ Was(c, b) # NoDoc
      BY <1>1, <1>6, <2>1, <2>3, <3>1, NoFailures DEF AddGet, Load, Doc
    <3> QED BY <1>5, <2>1, <2>2, <3>2, <3>3
  <2>4. CASE Doc(p) = NoDoc
    <3>1. Return(p, "error", NoSid) /\ Was(c, b) = NoDoc
      BY <1>1, <1>6, <2>1, <2>4, NoFailures DEF AddGet, Doc
    <3>2. /\ IsoInv' /\ API!Answers(p, "error", NoSid)
          /\ Sessions' = [x \in Sid |-> IF x \in SidsOf(call[p]) THEN single'[x]
                                                                 ELSE Sessions[x]]
          /\ UserData' = [u \in User |-> IF u \in UsersOf(call[p]) THEN DataOf(u)'
                                                                   ELSE UserData[u]]
      BY <2>2, <3>1, Returned
    <3>3. UserData' = UserData
      BY <1>1, <2>1, <2>2, <3>2, SameData, DataUnchanged
    <3>4. \A x \in Sid : Sessions'[x] = Sessions[x]
      BY <1>1, <1>2, <1>3, <2>1, <2>2, <3>2, Afterwards
    <3>5. Sessions' = Sessions /\ Sessions[c.sid] = NoDoc
      BY <1>1, <1>2, <3>1, <3>2, <3>4, Afterwards
    <3> QED BY <1>1, <1>2, <3>2, <3>3, <3>5, AskedOf
         DEF API!AddLoginInfo, API!Answered, Refines
  <2> QED BY <2>3, <2>4
<1>7. CASE AddDelete(p)
  <2>1. c.pc = "add_delete" /\ c.ses = Was(c, b) /\ Was(c, b) # NoDoc
    BY <1>1, <1>2, <1>7 DEF AddDelete, Held, SessionHeld, LocalSet, HasSes
  <2>2. PICK a \in Answer : PutSingle(c.sid, NoDoc, a) /\ UNCHANGED origin
    BY <1>1, <1>7 DEF AddDelete, DeleteSingle
  <2>3. /\ Alone(p) /\ userSes' = userSes /\ single' = [single EXCEPT ![c.sid] = NoDoc]
    <3>1. c.sid \in SidsOf(call[p])
      BY <1>1, <1>3
    <3> QED BY <2>2, <3>1, PutAlone
  <2>4. PICK e : e = [c EXCEPT !.pc = "add_create"]
    OBVIOUS
  <2>5. /\ e.op = c.op /\ e.sid = c.sid /\ e.user = c.user /\ e.dirs = c.dirs
        /\ e.new = c.new /\ e.pc = "add_create" /\ e.ses = c.ses
    BY <1>2, <2>4 DEF Call
  <2>6. GoOn(p, e)
    BY <1>1, <1>7, <2>4 DEF AddDelete, Goto
  <2> QED BY <1>2, <1>4, <1>5, <2>1, <2>3, <2>5, <2>6
<1>8. CASE AddCreate(p)
  <2>1. /\ c.pc = "add_create" /\ c.ses = Was(c, b) /\ Was(c, b) # NoDoc /\ Deleted(c)
        /\ c.pc \in ToCreate
    BY <1>1, <1>2, <1>8, NoneAssumption
    DEF AddCreate, Held, SessionHeld, LocalSet, HasSes, Deleted, ToCreate
  <2>2. /\ Return(p, "ok", c.new)
        /\ \E a \in Answer : CreateSingle(p, c.ses, origin[c.sid], a)
    BY <1>1, <1>8 DEF AddCreate
  <2>3. /\ Alone(p) /\ userSes' = userSes /\ single' = [single EXCEPT ![c.new] = c.ses]
    BY <1>1, <1>2, <2>1, <2>2, CreateAlone
  <2>4. /\ IsoInv' /\ API!Answers(p, "ok", c.new)
        /\ Sessions' = [x \in Sid |-> IF x \in SidsOf(call[p]) THEN single'[x]
                                                               ELSE Sessions[x]]
        /\ UserData' = [u \in User |-> IF u \in UsersOf(call[p]) THEN DataOf(u)'
                                                                 ELSE UserData[u]]
    BY <1>1, <2>2, <2>3, Returned
  <2>5. UserData' = UserData
    BY <1>1, <2>1, <2>3, <2>4, SameData, DataUnchanged
  <2>6. Sessions[c.sid] = Was(c, b) /\ Sessions[c.sid] # NoDoc /\ c.new \in API!Unused
    BY <1>1, <1>2, <2>1, AskedOf
  <2>7. \A x \in Sid : Sessions'[x] = IF x = c.new THEN Sessions[c.sid]
                                      ELSE IF x = c.sid THEN NoDoc ELSE Sessions[x]
    BY <1>1, <1>2, <1>3, <1>4, <2>1, <2>3, <2>4, <2>6, Afterwards
  <2>8. Sessions' = API!Moved(c.sid, c.new, Sessions[c.sid])
    BY <2>4, <2>7 DEF API!Moved
  <2> QED BY <1>1, <1>2, <2>4, <2>5, <2>6, <2>8, AskedOf
       DEF API!AddLoginInfo, API!Answered, Refines
<1> QED BY <1>6, <1>7, <1>8

(* What a call of StartSession holds.                                      *)
LEMMA StartFacts ==
  ASSUME IsoInv, NEW p \in Running, call[p].op = "StartSession"
  PROVE  LET c == call[p]  b == before[p] IN
         /\ p \in Proc /\ c \in Call /\ LocalSet(c) /\ Held(c, b)
         /\ c.sid \in Sid => c.sid \in SidsOf(c) /\ c.sid # c.new
         /\ c.pc \in HasNew => c.new \in Sid /\ c.new \in SidsOf(c)
         /\ c.new # NoSid => c.new \in Sid /\ c.pc \in HasNew
         /\ c.pc # "start_get" /\ c.sid # NoSid => Was(c, b) # NoDoc
         /\ c.pc \notin {"start_get", "start_delete"} => (Deleted(c) <=> c.sid # NoSid)
         /\ c.pc \in {"start_get", "start_delete"} => ~ Deleted(c)
         /\ c.sid \in Sid \cup {NoSid}
         /\ c.pc \in NewSession => /\ c.user \in User /\ c.user \in UsersOf(c)
                                   /\ UserIn(c) = c.user
         /\ c.pc \notin HasSes
<1>1. /\ p \in Proc /\ call[p] \in Call /\ LocalSet(call[p]) /\ Held(call[p], before[p])
      /\ call[p].sid \in known \cup {NoSid} /\ known \subseteq Sid /\ NoSid \notin Sid
      /\ call[p].new # NoSid => /\ call[p].new \in Sid /\ call[p].new \notin known
                                /\ call[p].pc \in HasNew
  BY CallIs
<1>2. /\ call[p].sid \in Sid => call[p].sid \in SidsOf(call[p]) /\ call[p].sid # call[p].new
      /\ call[p].pc \in HasNew => call[p].new \in Sid /\ call[p].new \in SidsOf(call[p])
  BY <1>1 DEF SidsOf, LocalSet
<1>3. call[p].pc \notin Looking \/ call[p].pc = "start_get"
  BY <1>1 DEF LocalSet, OpAt, Looking
<1>4. call[p].pc # "start_get" /\ call[p].sid # NoSid => Was(call[p], before[p]) # NoDoc
  BY <1>1, <1>3 DEF Held, SessionHeld, Found
<1>5. /\ call[p].pc \notin {"start_get", "start_delete"}
           => (Deleted(call[p]) <=> call[p].sid # NoSid)
      /\ call[p].pc \in {"start_get", "start_delete"} => ~ Deleted(call[p])
  BY DEF Deleted
<1>6. call[p].pc \in NewSession => /\ call[p].user \in User /\ call[p].user \in UsersOf(call[p])
                                   /\ UserIn(call[p]) = call[p].user
  BY <1>1, NoneAssumption DEF NewSession, LocalSet, HasUser, UserIn, UsersOf
<1>7. call[p].pc \notin HasSes
  BY <1>1 DEF LocalSet, OpAt, HasSes
<1> QED BY <1>1, <1>2, <1>4, <1>5, <1>6, <1>7

(* StartSession: the session that it is given goes, then the user's        *)
(* begins.                                                                 *)
LEMMA StartGoesOn ==
  ASSUME IsoInv, UserInv', MaxFaults = 0, NEW p \in Running, Record(p), NEW c, NEW b, NEW e,
         c = call[p], b = before[p], GoOn(p, e), SameArgs(c, e), e.new = c.new,
         c.op = "StartSession", e.ses = c.ses,
         e.pc \in {"generate", "start_delete"} \cup NewSession,
         c.new # NoSid => e.pc \in NewSession, Alone(p), userSes' = userSes,
         c.sid \in Sid => /\ single'[c.sid] = IF e.pc = "start_delete" THEN Was(c, b)
                                                                       ELSE NoDoc
                          /\ Was(c, b) # NoDoc,
         e.pc \in NewSession => \E t \in Meanwhile(b) :
           single'[c.new] = [user |-> c.user, loginAt |-> t, lastAccessAt |-> t],
         e.pc = "start_replace_user" => e.uses = userSes[c.user],
         e.pc = "start_create_user" => userSes[c.user] = NoDoc
  PROVE  Refines(p)
<1>1. /\ p \in Proc /\ c \in Call /\ LocalSet(c) /\ Held(c, b)
      /\ c.sid \in Sid => c.sid \in SidsOf(c) /\ c.sid # c.new
      /\ c.sid \in Sid \cup {NoSid}
  BY StartFacts
<1>2. e.op = c.op /\ e.sid = c.sid /\ e.user = c.user /\ e.dirs = c.dirs
  BY DEF SameArgs
<1>3. /\ c.pc # "update_single"
      /\ e.pc \in NewSession => e.pc \in HasNew
      /\ e.pc \notin {"update_user", "update_single", "logout_replace_user", "start_get",
                      "renew_delete"}
      /\ e.pc \notin LoggingOut \cup HasSes
  BY <1>1 DEF LocalSet, OpAt, NewSession, LoggingOut, HasNew, HasSes
<1>4. now' = now /\ (c.sid \in Sid => origin'[c.sid] = origin[c.sid])
  BY <1>1 DEF Alone
<1>5. UsersOf(e)' = UsersOf(c) /\ \A u : DataOf(u)' = DataOf(u)
  BY <1>2, <1>4 DEF UsersOf, Owned, DataOf
<1>6. Deleted(e) <=> c.sid # NoSid /\ e.pc # "start_delete"
  BY <1>2, <1>3 DEF Deleted
<1>7. SessionHeld(e, b)'
  <2>1. Was(e, b) = Was(c, b)
    BY <1>2 DEF Was
  <2>2. c.sid # NoSid =>
          /\ single'[c.sid] = IF Deleted(e) THEN NoDoc ELSE Was(c, b)
          /\ Was(c, b) # NoDoc => SameLogin(c.sid, Was(c, b))' /\ Was(c, b) \in SingleDoc
    BY <1>1, <1>4, <1>6 DEF Held, SessionHeld, SameLogin
  <2>3. (Found(e) => Was(c, b) # NoDoc) /\ (e.ses # NoDoc => e.ses = Was(c, b))
    BY <1>1, <1>2 DEF Held, SessionHeld, Found
  <2>4. e.pc \in NewSession => \E t \in Meanwhile(b)' :
          single'[e.new] = [user |-> e.user, loginAt |-> t, lastAccessAt |-> t]
    BY <1>2, <1>4 DEF Meanwhile
  <2> QED BY <1>2, <1>3, <2>1, <2>2, <2>3, <2>4
       DEF SessionHeld, Deleted, Found, Was, Meanwhile
<1>8. DataHeld(e, b)'
  BY <1>1, <1>2, <1>3, <1>5 DEF Held, DataHeld, UserIn, LoggingOut
<1>9. TimesHeld(e, b)'
  BY <1>1, <1>2, <1>3, <1>4 DEF Held, TimesHeld, HasSes
<1> QED BY <1>2, <1>3, <1>7, <1>8, <1>9, GoesOn DEF Refines, Held

(* The call before it creates the session.                                 *)
LEMMA StartsRefine ==
  ASSUME IsoInv, UserInv', MaxFaults = 0, NEW p \in Running, Record(p),
         StartGet(p) \/ StartDelete(p) \/ StartCreate(p) \/ StartPanic(p)
  PROVE  Refines(p)
<1>1. PICK c, b : c = call[p] /\ b = before[p]
  OBVIOUS
<1>2. /\ p \in Proc /\ c \in Call /\ LocalSet(c) /\ c.op = "StartSession"
      /\ c.pc \in {"start_get", "start_delete", "start_create"}
  BY <1>1, CallIs DEF StartGet, StartDelete, StartCreate, StartPanic, Reads, LocalSet, OpAt
<1>3. /\ Held(c, b)
      /\ c.sid \in Sid => c.sid \in SidsOf(c) /\ c.sid # c.new
      /\ c.new # NoSid => c.new \in Sid /\ c.pc \in HasNew
      /\ c.pc # "start_get" /\ c.sid # NoSid => Was(c, b) # NoDoc
      /\ Deleted(c) <=> c.sid # NoSid /\ c.pc = "start_create"
      /\ c.sid \in Sid \cup {NoSid} /\ NoSid \notin Sid
  BY <1>1, <1>2, StartFacts, NoneAssumption
<1>4. single \in [Sid -> SingleDoc \cup {NoDoc}] /\ now \in Nat
  BY BoundsAssumption DEF IsoInv, UserInv, IInv, TypeOK
<1>5. c.sid \in Sid => single[c.sid] = IF Deleted(c) THEN NoDoc ELSE Was(c, b)
  BY <1>3 DEF Held, SessionHeld
<1>6. ASSUME NEW pc \in {"generate", "start_delete", "start_get_user"}, Goto(p, pc)
      PROVE  \E e : /\ GoOn(p, e) /\ SameArgs(c, e) /\ e.new = c.new /\ e.ses = c.ses
                    /\ e.pc = pc
  <2>1. PICK e : e = [c EXCEPT !.pc = pc]
    OBVIOUS
  <2>2. SameArgs(c, e) /\ e.new = c.new /\ e.ses = c.ses /\ e.pc = pc
    BY <1>2, <1>6, <2>1 DEF Call, SameArgs
  <2> QED BY <1>1, <1>6, <2>1, <2>2 DEF Goto
<1>7. Asked[p] # NoCall /\ Asked[p].op = c.op /\ Asked[p].sid = c.sid /\ Asked[p].user = c.user
  BY <1>1, AskedOf
<1>8. CASE StartGet(p)
  <2>1. /\ c.pc = "start_get" /\ c.new = NoSid /\ ~ Deleted(c)
    BY <1>1, <1>2, <1>3, <1>8 DEF StartGet, Reads, HasNew, ToCreate
  <2>2. Alone(p) /\ single' = single /\ userSes' = userSes
    BY <1>8, ReadAlone DEF StartGet
  <2>3. CASE c.sid = NoSid
    <3>1. Goto(p, "generate")
      BY <1>1, <1>8, <2>3 DEF StartGet
    <3>2. PICK e : GoOn(p, e) /\ SameArgs(c, e) /\ e.new = c.new /\ e.ses = c.ses /\ e.pc = "generate"
      BY <1>6, <3>1
    <3> QED BY <1>1, <1>2, <1>3, <2>1, <2>2, <2>3, <3>2, StartGoesOn
         DEF NewSession
  <2>4. CASE c.sid # NoSid /\ Doc(p) # NoDoc
    <3>1. Goto(p, "start_delete")
      BY <1>1, <1>8, <2>4, NoFailures DEF StartGet
    <3>2. PICK e : GoOn(p, e) /\ SameArgs(c, e) /\ e.new = c.new /\ e.ses = c.ses /\ e.pc = "start_delete"
      BY <1>6, <3>1
    <3>3. c.sid \in Sid /\ single[c.sid] = Was(c, b) /\ Was(c, b) # NoDoc
      BY <1>1, <1>3, <1>5, <2>1, <2>4 DEF Doc
    <3> QED BY <1>1, <1>2, <1>3, <2>1, <2>2, <3>2, <3>3, StartGoesOn
         DEF NewSession
  <2>5. CASE c.sid # NoSid /\ Doc(p) = NoDoc
    <3>1. Return(p, "error", NoSid) /\ Was(c, b) = NoDoc /\ c.sid \in Sid
      BY <1>1, <1>3, <1>5, <1>8, <2>1, <2>5, NoFailures DEF StartGet, Doc
    <3>2. /\ IsoInv' /\ API!Answers(p, "error", NoSid)
          /\ Sessions' = [x \in Sid |-> IF x \in SidsOf(call[p]) THEN single'[x]
                                                                 ELSE Sessions[x]]
          /\ UserData' = [u \in User |-> IF u \in UsersOf(call[p]) THEN DataOf(u)'
                                                                   ELSE UserData[u]]
      BY <2>2, <3>1, Returned
    <3>3. UserData' = UserData
      BY <1>1, <2>1, <2>2, <3>2, SameData, DataUnchanged
    <3>4. Sessions[c.sid] = NoDoc /\ \A x \in Sid : Sessions'[x] = Sessions[x]
      BY <1>1, <1>3, <1>5, <2>1, <2>2, <3>1, <3>2, Afterwards
    <3>5. Sessions' = Sessions
      BY <3>2, <3>4, Afterwards
    <3>6. API!StartSession(p, c.sid, c.user)
      BY <2>5, <3>2, <3>3, <3>4, <3>5 DEF API!StartSession
    <3> QED BY <1>2, <1>7, <3>2, <3>6 DEF API!Answered, Refines
  <2> QED BY <2>3, <2>4, <2>5
<1>9. CASE StartDelete(p)
  <2>1. c.pc = "start_delete" /\ c.sid \in Sid /\ c.sid \in SidsOf(call[p]) /\ c.new = NoSid
    BY <1>1, <1>2, <1>3, <1>9 DEF StartDelete, LocalSet, HasSid, HasNew, ToCreate
  <2>2. PICK a \in Answer : PutSingle(c.sid, NoDoc, a) /\ UNCHANGED origin
    BY <1>1, <1>9 DEF StartDelete, DeleteSingle
  <2>3. Alone(p) /\ userSes' = userSes /\ single' = [single EXCEPT ![c.sid] = NoDoc]
    BY <2>1, <2>2, PutAlone
  <2>4. single'[c.sid] = NoDoc /\ Was(c, b) # NoDoc
    BY <1>3, <1>4, <2>1, <2>3
  <2>5. PICK e : GoOn(p, e) /\ SameArgs(c, e) /\ e.new = c.new /\ e.ses = c.ses /\ e.pc = "generate"
    BY <1>6, <1>9 DEF StartDelete
  <2> QED BY <1>1, <1>2, <2>1, <2>3, <2>4, <2>5, StartGoesOn
       DEF NewSession
<1>10. CASE StartCreate(p)
  <2>1. /\ c.pc = "start_create" /\ c.pc \in ToCreate /\ c.user # NoUser
        /\ c.sid \in Sid => single[c.sid] = NoDoc /\ Was(c, b) # NoDoc
    BY <1>1, <1>3, <1>5, <1>10 DEF StartCreate, ToCreate
  <2>2. c.new \in Sid
    BY <1>1, <1>2, <2>1, NotYetCreated
  <2>3. PICK doc : doc = [user |-> c.user, loginAt |-> now, lastAccessAt |-> now]
    OBVIOUS
  <2>4. PICK a \in Answer :
          /\ CreateSingle(p, doc, [user |-> c.user, loginAt |-> now], a)
          /\ IF a = "ok" THEN Goto(p, "start_get_user") ELSE Return(p, "error", NoSid)
    BY <1>1, <1>10, <2>3 DEF StartCreate
  <2>5. /\ Alone(p) /\ a = "ok" /\ userSes' = userSes
        /\ single' = [single EXCEPT ![c.new] = doc]
    BY <1>1, <1>2, <2>1, <2>4, CreateAlone
  <2>6. PICK e : GoOn(p, e) /\ SameArgs(c, e) /\ e.new = c.new /\ e.ses = c.ses /\ e.pc = "start_get_user"
    BY <1>6, <2>4, <2>5
  <2>7. single'[c.new] = doc /\ (c.sid \in Sid => single'[c.sid] = NoDoc)
    BY <1>3, <1>4, <2>1, <2>2, <2>5
  <2>8. now \in Meanwhile(b)
    BY <1>3, <1>4 DEF Held, TimesHeld, Meanwhile
  <2> QED BY <1>1, <1>2, <2>1, <2>3, <2>5, <2>6, <2>7, <2>8, StartGoesOn
       DEF NewSession
<1>11. CASE StartPanic(p)
  <2>1. /\ c.pc = "start_create" /\ c.pc \in ToCreate /\ c.user = NoUser
        /\ Return(p, "panic", NoSid)
        /\ c.sid \in Sid => single[c.sid] = NoDoc /\ Was(c, b) # NoDoc
    BY <1>1, <1>3, <1>5, <1>11 DEF StartPanic, Reads, ToCreate
  <2>2. c.new \in Sid /\ single[c.new] = NoDoc
    BY <1>1, <1>2, <2>1, NotYetCreated
  <2>3. Alone(p) /\ single' = single /\ userSes' = userSes
    BY <1>11, ReadAlone DEF StartPanic
  <2>4. /\ IsoInv' /\ API!Answers(p, "panic", NoSid)
        /\ Sessions' = [x \in Sid |-> IF x \in SidsOf(call[p]) THEN single'[x]
                                                               ELSE Sessions[x]]
        /\ UserData' = [u \in User |-> IF u \in UsersOf(call[p]) THEN DataOf(u)'
                                                                 ELSE UserData[u]]
    BY <2>1, <2>3, Returned
  <2>5. UserData' = UserData
    BY <1>1, <2>1, <2>3, <2>4, SameData, DataUnchanged
  <2>6. \A x \in Sid : Sessions'[x] = IF x = c.sid THEN NoDoc ELSE Sessions[x]
    BY <1>1, <2>1, <2>2, <2>3, <2>4, Afterwards
  <2>7. Sessions' = [x \in Sid |-> IF x = c.sid THEN NoDoc ELSE Sessions[x]]
    BY <2>4, <2>6
  <2>8. c.sid # NoSid => Sessions[c.sid] # NoDoc
    BY <1>1, <1>3, <2>1, AskedOf
  <2>9. API!StartSession(p, c.sid, c.user)
    BY <2>1, <2>4, <2>5, <2>7, <2>8 DEF API!StartSession
  <2> QED BY <1>2, <1>7, <2>4, <2>9 DEF API!Answered, Refines
<1> QED BY <1>8, <1>9, <1>10, <1>11

(* A call that returns without having changed session data.                *)
LEMMA ReturnedSameData ==
  ASSUME IsoInv, UserInv', NEW p \in Running, Record(p), Alone(p), NEW res, NEW s,
         Return(p, res, s), s \in {NoSid, call[p].sid, call[p].new},
         call[p].pc # "update_single", \A u \in UsersOf(call[p]) : DataOf(u)' = DataOf(u)
  PROVE  /\ IsoInv' /\ API!Answers(p, res, s) /\ UserData' = UserData
         /\ Sessions' = [x \in Sid |-> IF x \in SidsOf(call[p]) THEN single'[x]
                                                                ELSE Sessions[x]]
<1>1. /\ IsoInv' /\ API!Answers(p, res, s)
      /\ Sessions' = [x \in Sid |-> IF x \in SidsOf(call[p]) THEN single'[x]
                                                             ELSE Sessions[x]]
      /\ UserData' = [u \in User |-> IF u \in UsersOf(call[p]) THEN DataOf(u)'
                                                               ELSE UserData[u]]
  BY Returned
<1>2. UserData' = UserData
  BY <1>1, DataUnchanged
<1> QED BY <1>1, <1>2

(* The new session is there when the user has a document, and no session   *)
(* data is touched.                                                        *)
LEMMA StartUserRefines ==
  ASSUME IsoInv, UserInv', MaxFaults = 0, NEW p \in Running, Record(p),
         StartGetUser(p) \/ StartCreateUser(p) \/ StartReplaceUser(p)
  PROVE  Refines(p)
<1>1. PICK c, b : c = call[p] /\ b = before[p]
  OBVIOUS
<1>2. /\ c.pc \in NewSession /\ c.pc \in HasNew /\ p \in Proc /\ c \in Call /\ LocalSet(c)
      /\ c.op = "StartSession"
  BY <1>1, CallIs
  DEF StartGetUser, StartCreateUser, StartReplaceUser, Reads, NewSession, LocalSet, OpAt,
      HasNew
<1>3. /\ Held(c, b) /\ c.sid \in Sid \cup {NoSid} /\ NoSid \notin Sid
      /\ c.sid \in Sid => c.sid # c.new /\ Was(c, b) # NoDoc
      /\ c.new \in Sid /\ c.user \in User /\ c.user # NoUser
      /\ c.user \in UsersOf(call[p]) /\ UserIn(c) = c.user
      /\ Deleted(c) <=> c.sid # NoSid
  BY <1>1, <1>2, StartFacts, NoneAssumption DEF NewSession
<1>4. /\ userSes \in [User -> UserDoc \cup {NoDoc}] /\ userSes[c.user] \in UserDoc \cup {NoDoc}
      /\ c.sid \in Sid => single[c.sid] = NoDoc
  BY <1>3 DEF IsoInv, UserInv, IInv, TypeOK, Held, SessionHeld
<1>5. PICK t \in Meanwhile(b) :
        single[c.new] = [user |-> c.user, loginAt |-> t, lastAccessAt |-> t]
  BY <1>2, <1>3 DEF Held, SessionHeld
<1>6. ASSUME Return(p, "ok", c.new), Alone(p), single' = single,
             \A u \in UsersOf(call[p]) : DataOf(u)' = DataOf(u)
      PROVE  Refines(p)
  <2>1. /\ IsoInv' /\ API!Answers(p, "ok", c.new) /\ UserData' = UserData
        /\ Sessions' = [x \in Sid |-> IF x \in SidsOf(call[p]) THEN single'[x]
                                                               ELSE Sessions[x]]
    BY <1>1, <1>2, <1>6, ReturnedSameData DEF NewSession
  <2>2. PICK ses : ses = [user |-> c.user, loginAt |-> t, lastAccessAt |-> t]
    OBVIOUS
  <2>3. \A x \in Sid : Sessions'[x] = IF x = c.new THEN ses
                                      ELSE IF x = c.sid THEN NoDoc ELSE Sessions[x]
    BY <1>1, <1>3, <1>4, <1>5, <1>6, <2>1, <2>2, Afterwards
  <2>4. Sessions' = API!Moved(c.sid, c.new, ses)
    BY <2>1, <2>3 DEF API!Moved
  <2>5. /\ Asked[p] # NoCall /\ Asked[p].op = c.op /\ Asked[p].sid = c.sid
        /\ Asked[p].user = c.user /\ API!During(p) = Meanwhile(b) /\ c.new \in API!Unused
        /\ c.sid \in Sid => Sessions[c.sid] = Was(c, b)
    BY <1>1, <1>3, AskedOf
  <2>6. API!StartSession(p, c.sid, c.user)
    BY <1>3, <2>1, <2>2, <2>4, <2>5 DEF API!StartSession
  <2> QED BY <1>2, <2>1, <2>5, <2>6 DEF API!Answered, Refines
<1>7. ASSUME NEW doc, doc.data = DataOf(c.user), doc # NoDoc, NEW a \in Answer,
             PutUser(c.user, doc, a), StartReturns(p, a)
      PROVE  Refines(p)
  <2>1. /\ Alone(p) /\ a = "ok" /\ userSes' = [userSes EXCEPT ![c.user] = doc]
        /\ single' = single
    <3>1. PICK u : u = c.user
      OBVIOUS
    <3> QED BY <1>3, <1>7, <3>1, PutUserAlone
  <2>2. \A u \in UsersOf(call[p]) : DataOf(u)' = DataOf(u)
    BY <1>3, <1>4, <1>7, <2>1, CallIs DEF DataOf
  <2> QED BY <1>1, <1>6, <1>7, <2>1, <2>2 DEF StartReturns
<1>8. CASE StartGetUser(p)
  <2>1. Alone(p) /\ single' = single /\ userSes' = userSes /\ c.pc = "start_get_user"
    BY <1>1, <1>8, ReadAlone DEF StartGetUser, Reads
  <2>2. ASSUME NEW e, GoOn(p, e), e.op = c.op, e.sid = c.sid, e.user = c.user,
               e.dirs = c.dirs, e.new = c.new, e.ses = c.ses,
               \/ e.pc = "start_create_user" /\ userSes[c.user] = NoDoc
               \/ e.pc = "start_replace_user" /\ e.uses = userSes[c.user]
        PROVE  Refines(p)
    <3>1. SameArgs(c, e) /\ e.pc \in NewSession
      BY <2>2 DEF SameArgs, NewSession
    <3>2. single'[c.new] = [user |-> c.user, loginAt |-> t, lastAccessAt |-> t]
      BY <1>5, <2>1
    <3> QED BY <1>1, <1>2, <1>3, <1>4, <2>1, <2>2, <3>1, <3>2, StartGoesOn
  <2>3. CASE userSes[c.user] = NoDoc
    <3>1. PICK e : e = [c EXCEPT !.pc = "start_create_user"]
      OBVIOUS
    <3>2. GoOn(p, e)
      BY <1>1, <1>8, <2>3, <3>1, NoFailures DEF StartGetUser, Goto
    <3> QED BY <1>2, <2>2, <2>3, <3>1, <3>2 DEF Call
  <2>4. CASE userSes[c.user] # NoDoc
    <3>1. PICK e : e = [c EXCEPT !.pc = "start_replace_user", !.uses = userSes[c.user]]
      OBVIOUS
    <3>2. GoOn(p, e)
      BY <1>1, <1>3, <1>8, <2>4, <3>1, NoFailures DEF StartGetUser, LoadUser
    <3> QED BY <1>2, <2>2, <3>1, <3>2 DEF Call
  <2> QED BY <2>3, <2>4
<1>9. CASE StartCreateUser(p)
  <2>1. c.pc = "start_create_user" /\ userSes[c.user] = NoDoc
    BY <1>1, <1>3, <1>9 DEF StartCreateUser, Reads, Held, DataHeld
  <2>2. PICK doc : doc = [sessions |-> {c.new}, data |-> [k \in Key |-> NoValue]]
    OBVIOUS
  <2>3. PICK a \in Answer : PutUser(c.user, doc, a) /\ StartReturns(p, a)
    BY <1>1, <1>9, <2>1, <2>2 DEF StartCreateUser
  <2>4. doc \in UserDoc
    BY <1>3, <2>2 DEF UserDoc, Data
  <2>5. doc # NoDoc /\ doc.data = DataOf(c.user)
    BY <2>1, <2>2, <2>4, NoDocAssumption DEF DataOf
  <2> QED BY <1>7, <2>3, <2>5
<1>10. CASE StartReplaceUser(p)
  <2>1. /\ c.pc = "start_replace_user" /\ c.uses = userSes[c.user] /\ c.uses # NoDoc
        /\ c.uses \in UserDoc
    BY <1>1, <1>2, <1>3, <1>4, <1>10
    DEF StartReplaceUser, Held, DataHeld, LocalSet, HasUses
  <2>2. PICK doc : doc = [c.uses EXCEPT !.sessions = @ \cup {c.new}]
    OBVIOUS
  <2>3. PICK a \in Answer : PutUser(c.user, doc, a) /\ StartReturns(p, a)
    BY <1>1, <1>10, <2>2 DEF StartReplaceUser
  <2>4. doc \in UserDoc /\ doc.data = c.uses.data
    BY <1>3, <2>1, <2>2 DEF UserDoc
  <2>5. doc # NoDoc /\ doc.data = DataOf(c.user)
    BY <2>1, <2>4, NoDocAssumption DEF DataOf
  <2> QED BY <1>7, <2>3, <2>5
<1> QED BY <1>8, <1>9, <1>10

-----------------------------------------------------------------------------
(* What a call of Logout, FindBySessionToken, UpdateSessionData or         *)
(* RenewSession holds.                                                     *)
OnSession == {"Logout", "FindBySessionToken", "UpdateSessionData", "RenewSession"}

LEMMA SessionFacts ==
  ASSUME IsoInv, NEW p \in Running, call[p].op \in OnSession
  PROVE  LET c == call[p]  b == before[p] IN
         /\ p \in Proc /\ c \in Call /\ LocalSet(c) /\ Held(c, b)
         /\ c.sid \in Sid /\ c.sid # NoSid /\ c.sid \in SidsOf(c) /\ ~ Deleted(c)
         /\ single[c.sid] = Was(c, b) /\ Doc(p) = Was(c, b)
         /\ c.pc \notin {"renew_create", "renew_delete"} => c.new = NoSid
         /\ Was(c, b) # NoDoc =>
              /\ Was(c, b) \in SingleDoc /\ SameLogin(c.sid, Was(c, b))
              /\ Was(c, b).user # NoUser =>
                   /\ Was(c, b).user \in User /\ Was(c, b).user \in UsersOf(c)
                   /\ userSes[Was(c, b).user] # NoDoc
         /\ c.pc \in HasSes => c.ses = Was(c, b) /\ Was(c, b) # NoDoc
         /\ UserIn(c) = c.ses.user
<1>1. /\ p \in Proc /\ call[p] \in Call /\ call[p].pc # "idle" /\ LocalSet(call[p])
      /\ Held(call[p], before[p])
      /\ call[p].sid \in known \cup {NoSid} /\ known \subseteq Sid /\ NoSid \notin Sid
      /\ call[p].new # NoSid => call[p].pc \in HasNew
  BY CallIs
<1>2. /\ call[p].sid \in Sid
      /\ ~ Deleted(call[p])
      /\ call[p].pc \notin {"renew_create", "renew_delete"} => call[p].pc \notin HasNew
  <2>1. call[p].pc \notin {"create_login", "add_get", "add_delete", "add_create"}
                           \cup {"start_get", "start_delete", "start_create"} \cup NewSession
    BY <1>1 DEF LocalSet, OpAt, OnSession, NewSession
  <2>2. call[p].pc \in PC \ {"idle"} /\ call[p].op \notin {"StartSession", "StartLogin"}
    BY <1>1 DEF OnSession, Call
  <2>3. call[p].sid \in Sid
    BY <1>1, <2>1, <2>2 DEF LocalSet, OpAt, HasSid, HasSes, PC, NewSession
  <2> QED BY <2>1, <2>2, <2>3 DEF Deleted, HasNew, ToCreate, NewSession
<1>3. /\ call[p].sid # NoSid /\ call[p].sid \in SidsOf(call[p])
      /\ single[call[p].sid] = Was(call[p], before[p])
      /\ Doc(p) = Was(call[p], before[p])
  BY <1>1, <1>2 DEF SidsOf, Held, SessionHeld, Doc
<1>4. ASSUME Was(call[p], before[p]) # NoDoc
      PROVE  LET doc == Was(call[p], before[p]) IN
             /\ doc \in SingleDoc /\ SameLogin(call[p].sid, doc)
             /\ doc.user # NoUser => /\ doc.user \in User /\ doc.user \in UsersOf(call[p])
                                     /\ userSes[doc.user] # NoDoc
  <2>1. PICK doc : doc = Was(call[p], before[p])
    OBVIOUS
  <2>2. doc \in SingleDoc /\ SameLogin(call[p].sid, doc)
    BY <1>1, <1>3, <1>4, <2>1 DEF Held, SessionHeld
  <2>3. HasDoc(doc.user)
    BY <1>1, <1>2, <1>3, <1>4, <2>1, UserFacts DEF IsoInv
  <2>4. doc.user # NoUser => doc.user \in User /\ doc.user \in UsersOf(call[p])
    BY <1>2, <2>2 DEF SingleDoc, Owner, UsersOf, Owned, SameLogin
  <2> QED BY <2>1, <2>2, <2>3, <2>4 DEF HasDoc
<1>5. call[p].pc \in HasSes =>
        call[p].ses = Was(call[p], before[p]) /\ Was(call[p], before[p]) # NoDoc
  BY <1>1 DEF LocalSet, Held, SessionHeld
<1>6. UserIn(call[p]) = call[p].ses.user
  BY DEF UserIn, OnSession
<1> QED BY <1>1, <1>2, <1>3, <1>4, <1>5, <1>6

(* The call goes on without touching its session.                          *)
LEMMA SessionGoesOn ==
  ASSUME IsoInv, UserInv', MaxFaults = 0, NEW p \in Running, Record(p), NEW c, NEW b, NEW e,
         c = call[p], b = before[p], GoOn(p, e), c.op \in OnSession,
         c.pc \notin {"renew_create", "renew_delete"},
         e.op = c.op, e.sid = c.sid, e.user = c.user, e.dirs = c.dirs, e.new = c.new,
         e.pc \in LoggingOut \cup {"generate", "read_get_user", "update_user",
                                   "update_single"},
         Alone(p), single' = single,
         Was(c, b) # NoDoc, e.ses \in {NoDoc, Was(c, b)},
         \A u \in UsersOf(c) :
           DataOf(u)' = IF e.pc = "update_single" THEN Apply(c.dirs, b.data[u])
                                                  ELSE b.data[u],
         e.pc = "logout_replace_user" => e.uses = userSes'[e.ses.user],
         e.pc = "logout_delete" => e.ses.user # NoUser,
         e.pc = "update_user" => e.uses.data = Apply(c.dirs, b.data[e.ses.user]),
         e.pc = "update_single" /\ e.ses.user = NoUser => c.dirs = NoDirectives,
         TimesHeld(e, b)
  PROVE  Refines(p)
<1>1. /\ p \in Proc /\ Held(c, b) /\ c.sid \in Sid /\ c.sid # NoSid
      /\ single[c.sid] = Was(c, b) /\ c.new = NoSid
      /\ Was(c, b) \in SingleDoc /\ SameLogin(c.sid, Was(c, b))
  BY SessionFacts
<1>2. now' = now /\ origin'[c.sid] = origin[c.sid]
  BY <1>1 DEF Alone
<1>3. UsersOf(e)' = UsersOf(c)
  BY <1>2 DEF UsersOf, Owned
<1>4. e.pc \notin {"idle", "renew_delete", "add_create", "start_replace_user",
                   "start_create_user"} \cup NewSession
  BY DEF LoggingOut, NewSession
<1>5. SessionHeld(e, b)'
  <2>1. Was(e, b) = Was(c, b) /\ ~ Deleted(e)
    BY <1>4 DEF Was, Deleted, OnSession
  <2>2. SameLogin(c.sid, Was(c, b))'
    BY <1>1, <1>2 DEF SameLogin
  <2> QED BY <1>1, <1>4, <2>1, <2>2 DEF SessionHeld, Was, Deleted
<1>6. DataHeld(e, b)'
  <2>1. c.user = NoUser /\ \A u \in UsersOf(c) : u \in User /\ b.data[u] \in Data
    BY <1>1 DEF Held, DataHeld, OnSession
  <2>2. UserIn(e) = e.ses.user
    BY DEF UserIn, OnSession
  <2> QED BY <1>3, <1>4, <2>1, <2>2 DEF DataHeld, UserIn
<1>7. TimesHeld(e, b)'
  BY <1>2 DEF TimesHeld, Meanwhile, Expired, Idling, Was, TermOf
<1>8. SameArgs(c, e) /\ e.new = NoSid
  BY <1>1, <1>4 DEF SameArgs
<1> QED BY <1>5, <1>6, <1>7, <1>8, GoesOn DEF Refines, Held

(* The call returns; its session is then as it left it.                    *)
LEMMA SessionReturns ==
  ASSUME IsoInv, UserInv', NEW p \in Running, Record(p), Alone(p), NEW res, NEW s,
         Return(p, res, s), s \in {NoSid, call[p].sid}, call[p].op \in OnSession,
         call[p].pc \notin {"renew_create", "renew_delete", "update_single"},
         \A u \in UsersOf(call[p]) : DataOf(u)' = DataOf(u)
  PROVE  LET c == call[p]  b == before[p] IN
         /\ IsoInv' /\ API!Answers(p, res, s) /\ UserData' = UserData
         /\ Sessions' = [Sessions EXCEPT ![c.sid] = single'[c.sid]]
         /\ Sessions[c.sid] = Was(c, b) /\ API!During(p) = Meanwhile(b)
         /\ single'[c.sid] = Was(c, b) => Sessions' = Sessions
         /\ Asked[p] # NoCall /\ Asked[p].op = c.op /\ Asked[p].sid = c.sid
         /\ Asked[p].dirs = c.dirs
<1>1. PICK c, b : c = call[p] /\ b = before[p]
  OBVIOUS
<1>2. c.sid \in Sid /\ c.new = NoSid /\ NoSid \notin Sid
  BY <1>1, SessionFacts, NoneAssumption
<1>3. /\ IsoInv' /\ API!Answers(p, res, s) /\ UserData' = UserData
      /\ Sessions' = [x \in Sid |-> IF x \in SidsOf(call[p]) THEN single'[x]
                                                             ELSE Sessions[x]]
  BY ReturnedSameData
<1>4. /\ Sessions = [x \in Sid |-> Sessions[x]] /\ Sessions' = [x \in Sid |-> Sessions'[x]]
      /\ \A x \in Sid \ {c.sid, c.new} : Sessions'[x] = Sessions[x]
      /\ Sessions'[c.sid] = single'[c.sid] /\ Sessions[c.sid] = Was(c, b)
  BY <1>1, <1>2, <1>3, Afterwards
<1>5. Sessions' = [Sessions EXCEPT ![c.sid] = single'[c.sid]]
  BY <1>2, <1>4
<1>6. single'[c.sid] = Was(c, b) => Sessions' = Sessions
  BY <1>4, <1>5
<1> QED BY <1>1, <1>3, <1>4, <1>5, <1>6, AskedOf

(* What the interface says of a session that is too old, or not there.     *)
LEMMA OverSession ==
  ASSUME IsoInv, NEW p \in Running, call[p].op \in OnSession, NEW t \in Nat,
         LET doc == Was(call[p], before[p]) IN
           doc # NoDoc => Expired(t, doc, TermOf(call[p], doc))
  PROVE  LET c == call[p] IN
         /\ c.op # "RenewSession" => ~ API!Valid(c.sid, t)
         /\ c.op = "RenewSession" /\ Sessions[c.sid] # NoDoc
              => API!Age(c.sid, t) > AbsoluteTimeout
<1>1. PICK c, doc : c = call[p] /\ doc = Was(call[p], before[p])
  OBVIOUS
<1>2. Sessions[c.sid] = doc /\ (doc # NoDoc => doc \in SingleDoc)
  BY <1>1, SessionFacts, AskedOf
<1>3. doc # NoDoc => doc.loginAt \in Nat
  BY <1>2 DEF SingleDoc
<1>4. doc # NoDoc => t - doc.loginAt > TermOf(c, doc)
  BY <1>1 DEF Expired
<1> QED BY <1>1, <1>2, <1>3, <1>4, TermsAssumption
     DEF API!Valid, API!Age, API!Term, API!OfUser, TermOf

(* Logout leaves a session before login alone and ends the one of a user,  *)
(* for Logout itself and for the calls that find it too old.               *)
LEMMA LogoutEnds ==
  ASSUME IsoInv, UserInv', NEW p \in Running, Record(p), Alone(p),
         LogoutReturns(p, "ok"), call[p].op \in OnSession, call[p].pc \in LoggingOut,
         \A u \in UsersOf(call[p]) : DataOf(u)' = DataOf(u),
         NEW doc, doc = Was(call[p], before[p]),
         single'[call[p].sid] = IF doc # NoDoc /\ doc.user # NoUser THEN NoDoc ELSE doc
  PROVE  Refines(p)
<1>1. PICK c, b : c = call[p] /\ b = before[p]
  OBVIOUS
<1>2. PICK res : res = IF c.op = "Logout" THEN "ok" ELSE "invalid"
  OBVIOUS
<1>3. Return(p, res, NoSid) /\ c.pc \notin {"renew_create", "renew_delete", "update_single"}
  BY <1>1, <1>2 DEF LogoutReturns, LoggingOut
<1>4. /\ IsoInv' /\ API!Answers(p, res, NoSid) /\ UserData' = UserData
      /\ Sessions' = [Sessions EXCEPT ![c.sid] = single'[c.sid]]
      /\ Sessions[c.sid] = doc /\ API!During(p) = Meanwhile(b)
      /\ Asked[p] # NoCall /\ Asked[p].op = c.op /\ Asked[p].sid = c.sid
  BY <1>1, <1>3, SessionReturns
<1>5. Sessions' = API!Without(c.sid)
  BY <1>1, <1>4 DEF API!Without, API!OfUser
<1>6. CASE c.op = "Logout"
  BY <1>2, <1>4, <1>5, <1>6 DEF API!Answered, API!Logout, Refines
<1>7. CASE c.op # "Logout"
  <2>1. Held(c, b) /\ now \in Nat
    BY <1>1, SessionFacts, BoundsAssumption DEF IsoInv, UserInv, IInv, TypeOK
  <2>2. PICK t \in Meanwhile(b) : Expired(t, doc, TermOf(c, doc))
    BY <1>1, <1>7, <2>1 DEF Held, TimesHeld
  <2>3. t \in Nat /\ t \in API!During(p)
    BY <1>4, <2>1, <2>2 DEF Held, TimesHeld, Meanwhile
  <2>4. CASE c.op # "RenewSession"
    <3>1. ~ API!Valid(c.sid, t)
      BY <1>1, <2>2, <2>3, <2>4, OverSession
    <3>2. API!Invalid(p, c.sid, t)
      BY <1>2, <1>4, <1>5, <1>7, <3>1 DEF API!Invalid
    <3>3. c.op \in {"FindBySessionToken", "UpdateSessionData"}
      BY <1>1, <1>7, <2>4 DEF OnSession
    <3> QED BY <1>4, <2>3, <3>2, <3>3
         DEF API!FindBySessionToken, API!UpdateSessionData, API!Answered, Refines
  <2>5. CASE c.op = "RenewSession"
    <3>1. Sessions[c.sid] # NoDoc => API!Age(c.sid, t) > AbsoluteTimeout
      BY <1>1, <2>2, <2>3, <2>5, OverSession
    <3>2. API!RenewSession(p, c.sid)
      BY <1>2, <1>4, <1>5, <1>7, <2>3, <3>1 DEF API!RenewSession
    <3> QED BY <1>4, <2>5, <3>2 DEF API!Answered, Refines
  <2> QED BY <2>4, <2>5
<1> QED BY <1>6, <1>7

LEMMA LogoutRefines ==
  ASSUME IsoInv, UserInv', MaxFaults = 0, NEW p \in Running, Record(p),
         LogoutGet(p) \/ LogoutGetUser(p) \/ LogoutReplaceUser(p) \/ LogoutDelete(p)
  PROVE  Refines(p)
<1>1. PICK c, b, doc : c = call[p] /\ b = before[p] /\ doc = Was(call[p], before[p])
  OBVIOUS
<1>2. /\ c.pc \in LoggingOut /\ c.op \in OnSession
      /\ c.pc \notin {"renew_create", "renew_delete", "update_single"}
  BY <1>1, CallIs
  DEF LogoutGet, LogoutGetUser, LogoutReplaceUser, LogoutDelete, Reads, LoggingOut, LocalSet,
      OpAt, OnSession
<1>3. /\ c \in Call /\ Held(c, b) /\ c.sid \in Sid /\ c.sid \in SidsOf(c)
      /\ single[c.sid] = doc /\ Doc(p) = doc /\ UserIn(c) = c.ses.user
      /\ doc # NoDoc => /\ doc \in SingleDoc
                        /\ doc.user # NoUser => /\ doc.user \in User
                                                /\ doc.user \in UsersOf(c)
                                                /\ userSes[doc.user] # NoDoc
      /\ c.pc # "logout_get" => c.ses = doc /\ doc # NoDoc
  BY <1>1, <1>2, SessionFacts DEF LoggingOut, HasSes
<1>4. \A u \in UsersOf(c) : DataOf(u) = b.data[u]
  BY <1>2, <1>3 DEF Held, DataHeld
<1>5. ASSUME NEW e, GoOn(p, e), e.op = c.op, e.sid = c.sid, e.user = c.user,
             e.dirs = c.dirs, e.new = c.new, e.ses = doc, doc # NoDoc,
             e.pc \in {"logout_get_user", "logout_replace_user", "logout_delete"},
             Alone(p), single' = single, \A u \in UsersOf(c) : DataOf(u)' = DataOf(u),
             e.pc = "logout_replace_user" => e.uses = userSes'[doc.user],
             e.pc = "logout_delete" => doc.user # NoUser
      PROVE  Refines(p)
  <2>1. /\ e.pc \in LoggingOut
        /\ e.pc \notin {"generate", "renew_create", "renew_delete", "update_user",
                        "update_single", "read_get_user"}
    BY <1>5 DEF LoggingOut
  <2>2. TimesHeld(e, b)
    BY <1>2, <1>3, <1>5, <2>1 DEF Held, TimesHeld, TermOf, Was
  <2>3. \A u \in UsersOf(c) : DataOf(u)' = b.data[u]
    BY <1>4, <1>5
  <2> QED BY <1>1, <1>2, <1>5, <2>1, <2>2, <2>3, SessionGoesOn
<1>6. CASE LogoutGet(p)
  <2>1. Alone(p) /\ single' = single /\ \A u : DataOf(u)' = DataOf(u)
    BY <1>6, ReadAlone, SameData DEF LogoutGet
  <2>2. CASE doc # NoDoc
    <3>1. PICK e : e = [c EXCEPT !.pc = "logout_get_user", !.ses = doc]
      OBVIOUS
    <3>2. GoOn(p, e)
      BY <1>1, <1>3, <1>6, <2>2, <3>1, NoFailures DEF LogoutGet, Load
    <3> QED BY <1>3, <1>5, <2>1, <2>2, <3>1, <3>2 DEF Call
  <2>3. CASE doc = NoDoc
    <3>1. LogoutReturns(p, "ok")
      BY <1>3, <1>6, <2>3, NoFailures DEF LogoutGet
    <3> QED BY <1>1, <1>2, <1>3, <2>1, <2>3, <3>1, LogoutEnds
  <2> QED BY <2>2, <2>3
<1>7. CASE LogoutGetUser(p)
  <2>1. Alone(p) /\ single' = single /\ userSes' = userSes /\ \A u : DataOf(u)' = DataOf(u)
    BY <1>7, ReadAlone, SameData DEF LogoutGetUser
  <2>2. c.ses = doc /\ doc # NoDoc
    BY <1>1, <1>3, <1>7 DEF LogoutGetUser, Reads
  <2>3. CASE doc.user # NoUser
    <3>1. PICK e : e = [c EXCEPT !.pc = "logout_replace_user", !.uses = userSes[doc.user]]
      OBVIOUS
    <3>2. GoOn(p, e)
      BY <1>1, <1>3, <1>7, <2>2, <2>3, <3>1, NoFailures DEF LogoutGetUser, LoadUser
    <3>3. /\ e.op = c.op /\ e.sid = c.sid /\ e.user = c.user /\ e.dirs = c.dirs
          /\ e.new = c.new /\ e.ses = c.ses /\ e.pc = "logout_replace_user"
          /\ e.uses = userSes[doc.user]
      BY <1>3, <3>1 DEF Call
    <3> QED BY <1>5, <2>1, <2>2, <3>2, <3>3
  <2>4. CASE doc.user = NoUser
    <3>1. LogoutReturns(p, "ok")
      BY <1>1, <1>7, <2>2, <2>4, NoFailures DEF LogoutGetUser
    <3> QED BY <1>1, <1>2, <1>3, <2>1, <2>4, <3>1, LogoutEnds
  <2> QED BY <2>3, <2>4
<1>8. CASE LogoutReplaceUser(p)
  <2>1. /\ c.ses = doc /\ doc # NoDoc /\ c.pc = "logout_replace_user"
        /\ c.uses = userSes[doc.user]
    BY <1>1, <1>3, <1>8 DEF LogoutReplaceUser, Held, DataHeld
  <2>2. doc.user \in User
    BY <1>1, <2>1, <1>3, CallIs DEF LocalSet, HasUser
  <2>3. doc.user # NoUser /\ doc.user \in UsersOf(call[p])
    BY <1>1, <1>3, <2>1, <2>2, NoneAssumption
  <2>4. PICK a \in Answer : PutUser(doc.user, c.uses, a)
    BY <1>1, <1>8, <2>1 DEF LogoutReplaceUser
  <2>5. PICK u : u = doc.user
    OBVIOUS
  <2>6. Alone(p) /\ single' = single /\ userSes' = [userSes EXCEPT ![u] = c.uses]
    BY <2>3, <2>4, <2>5, PutUserAlone
  <2>7. userSes' = userSes
    BY <2>1, <2>2, <2>5, <2>6 DEF IsoInv, UserInv, IInv, TypeOK
  <2>8. PICK e : e = [c EXCEPT !.pc = "logout_delete"]
    OBVIOUS
  <2>9. GoOn(p, e)
    BY <1>1, <1>8, <2>8 DEF LogoutReplaceUser, Goto
  <2>10. /\ e.op = c.op /\ e.sid = c.sid /\ e.user = c.user /\ e.dirs = c.dirs
         /\ e.new = c.new /\ e.ses = c.ses /\ e.pc = "logout_delete"
    BY <1>3, <2>8 DEF Call
  <2>11. \A v : DataOf(v)' = DataOf(v)
    BY <2>7, SameData
  <2> QED BY <1>5, <2>1, <2>3, <2>6, <2>9, <2>10, <2>11
<1>9. CASE LogoutDelete(p)
  <2>1. c.ses = doc /\ doc # NoDoc /\ doc.user # NoUser
    BY <1>1, <1>3, <1>9 DEF LogoutDelete, Held, DataHeld
  <2>2. PICK a \in Answer : /\ PutSingle(c.sid, NoDoc, a) /\ UNCHANGED origin
                            /\ LogoutReturns(p, IF a = "ok" THEN "ok" ELSE "error")
    BY <1>1, <1>9 DEF LogoutDelete, DeleteSingle
  <2>3. /\ Alone(p) /\ a = "ok" /\ userSes' = userSes
        /\ single' = [single EXCEPT ![c.sid] = NoDoc]
    <3>1. PICK s : s = c.sid /\ s \in SidsOf(call[p])
      BY <1>1, <1>3
    <3>2. PutSingle(s, NoDoc, a) /\ UNCHANGED origin
      BY <2>2, <3>1
    <3> QED BY <3>1, <3>2, PutAlone
  <2>4. single'[c.sid] = NoDoc /\ \A u : DataOf(u)' = DataOf(u)
    BY <1>3, <2>3, SameData DEF IsoInv, UserInv, IInv, TypeOK
  <2>5. LogoutReturns(p, "ok")
    BY <2>2, <2>3
  <2> QED BY <1>1, <1>2, <2>1, <2>3, <2>4, <2>5, LogoutEnds
<1> QED BY <1>6, <1>7, <1>8, <1>9

-----------------------------------------------------------------------------
(* What the interface says of a session that is there and not too old.     *)
LEMMA ValidSession ==
  ASSUME IsoInv, NEW p \in Running, call[p].op \in OnSession, NEW t \in Nat,
         NEW doc, doc = Was(call[p], before[p]), doc # NoDoc,
         ~ Expired(t, doc, TermOf(call[p], doc))
  PROVE  LET c == call[p] IN
         /\ Sessions[c.sid] # NoDoc
         /\ API!OfUser(c.sid) <=> doc.user # NoUser
         /\ API!Idling(c.sid, t) <=> Idling(t, doc)
         /\ c.op # "RenewSession" => API!Valid(c.sid, t)
         /\ c.op = "RenewSession" => API!Age(c.sid, t) <= AbsoluteTimeout
<1>1. PICK c : c = call[p]
  OBVIOUS
<1>2. Sessions[c.sid] = doc /\ doc \in SingleDoc
  BY <1>1, SessionFacts, AskedOf
<1>3. doc.loginAt \in Nat
  BY <1>2 DEF SingleDoc
<1>4. ~ (t - doc.loginAt > TermOf(c, doc))
  BY <1>1 DEF Expired
<1>5. /\ Sessions[c.sid] # NoDoc
      /\ API!OfUser(c.sid) <=> doc.user # NoUser
      /\ API!Idling(c.sid, t) <=> Idling(t, doc)
  BY <1>2 DEF API!OfUser, API!Idling, Idling
<1>6. API!Age(c.sid, t) <= TermOf(c, doc)
  BY <1>2, <1>3, <1>4, TermsAssumption DEF API!Age, TermOf
<1>7. c.op # "RenewSession" => API!Term(c.sid) = TermOf(c, doc)
  BY <1>5 DEF API!Term, TermOf
<1>8. c.op = "RenewSession" => TermOf(c, doc) = AbsoluteTimeout
  BY DEF TermOf
<1> QED BY <1>1, <1>5, <1>6, <1>7, <1>8 DEF API!Valid

(* The session's owner is the one user of the call.                        *)
LEMMA OwnerOnly ==
  ASSUME IsoInv, NEW p \in Running, call[p].op \in OnSession,
         NEW doc, doc = Was(call[p], before[p]), doc # NoDoc
  PROVE  \A u \in UsersOf(call[p]) : u = doc.user
<1>1. call[p].user = NoUser /\ SameLogin(call[p].sid, doc)
  BY SessionFacts DEF Held, DataHeld, OnSession
<1> QED BY <1>1 DEF UsersOf, SameLogin

(* An empty list of directives changes nothing.                            *)
LEMMA NothingApplied ==
  ASSUME NEW d \in Data
  PROVE  Apply(NoDirectives, d) = d
  BY DEF Apply, NoDirectives, Data

(* The times a call has been under way.                                    *)
LEMMA NowMeanwhile ==
  ASSUME IsoInv, NEW p \in Running
  PROVE  /\ now \in Nat /\ now \in Meanwhile(before[p])
         /\ \A t \in Meanwhile(before[p]) : t \in Nat /\ now \in t .. now
<1>1. now \in Nat /\ before[p].since \in 0 .. now
  BY CallIs, BoundsAssumption DEF Held, TimesHeld, IsoInv, UserInv, IInv, TypeOK
<1> QED BY <1>1 DEF Meanwhile

(* readSession: the call answers by the clock that it has read, goes on to *)
(* the user document, or ends a session that is too old.                   *)
LEMMA ReadGetRefines ==
  ASSUME IsoInv, UserInv', MaxFaults = 0, NEW p \in Running, Record(p), ReadGet(p)
  PROVE  Refines(p)
<1>1. PICK c, b, doc : c = call[p] /\ b = before[p] /\ doc = Was(call[p], before[p])
  OBVIOUS
<1>2. /\ c.pc = "read_get" /\ c.op \in {"FindBySessionToken", "UpdateSessionData"}
      /\ c.op \in OnSession
  BY <1>1, CallIs DEF ReadGet, Reads, LocalSet, OpAt, OnSession
<1>3. /\ c \in Call /\ Held(c, b) /\ Doc(p) = doc /\ single[c.sid] = doc
      /\ doc # NoDoc => doc \in SingleDoc
      /\ now \in Nat /\ now \in Meanwhile(b)
  BY <1>1, <1>2, SessionFacts, NowMeanwhile
<1>4. Alone(p) /\ single' = single /\ userSes' = userSes /\ \A u : DataOf(u)' = DataOf(u)
  BY ReadAlone, SameData DEF ReadGet
<1>5. \A u \in UsersOf(c) : DataOf(u)' = b.data[u] /\ b.data[u] \in Data
  BY <1>2, <1>3, <1>4 DEF Held, DataHeld
<1>6. c.ses \in {NoDoc, doc}
  BY <1>1, <1>3 DEF Held, SessionHeld
<1>7. ASSUME NEW res, Return(p, res, NoSid)
      PROVE  /\ IsoInv' /\ API!Answers(p, res, NoSid)
             /\ Sessions' = Sessions /\ UserData' = UserData
             /\ Sessions' = [Sessions EXCEPT ![c.sid] = doc]
             /\ Sessions[c.sid] = doc /\ now \in API!During(p)
             /\ Asked[p] # NoCall /\ Asked[p].op = c.op /\ Asked[p].sid = c.sid
             /\ Asked[p].dirs = c.dirs
  BY <1>1, <1>2, <1>3, <1>4, <1>7, SessionReturns
<1>8. ASSUME NEW e, GoOn(p, e), e.op = c.op, e.sid = c.sid, e.user = c.user,
             e.dirs = c.dirs, e.new = c.new, e.ses \in {NoDoc, doc}, doc # NoDoc,
             \/ e.pc = "read_get_user" /\ e.at = now
             \/ /\ e.pc = "update_single" /\ c.dirs = NoDirectives
                /\ ~ Expired(now, doc, TermOf(c, doc))
             \/ e.pc = "logout_get" /\ Expired(now, doc, TermOf(c, doc))
      PROVE  Refines(p)
  <2>1. /\ e.pc \in LoggingOut \cup {"read_get_user", "update_single"}
        /\ e.pc \notin {"generate", "renew_create", "renew_delete", "update_user",
                        "logout_replace_user", "logout_delete"}
    BY <1>8 DEF LoggingOut
  <2>2. TermOf(e, doc) = TermOf(c, doc) /\ Was(e, b) = doc
    BY <1>1, <1>8 DEF TermOf, Was
  <2>3. TimesHeld(e, b)
    BY <1>3, <1>8, <2>1, <2>2 DEF Held, TimesHeld, LoggingOut
  <2>4. \A u \in UsersOf(c) : DataOf(u)' = IF e.pc = "update_single"
                                           THEN Apply(c.dirs, b.data[u]) ELSE b.data[u]
    BY <1>5, <1>8, NothingApplied
  <2>5. c.pc \notin {"renew_create", "renew_delete"}
    BY <1>2
  <2> QED BY <1>1, <1>2, <1>4, <1>8, <2>1, <2>3, <2>4, <2>5, SessionGoesOn
<1>9. CASE doc = NoDoc
  <2>1. Return(p, "invalid", NoSid)
    BY <1>3, <1>9, NoFailures DEF ReadGet
  <2>2. API!Invalid(p, c.sid, now)
    BY <1>7, <1>9, <2>1 DEF API!Invalid, API!Valid, API!Without, API!OfUser
  <2> QED BY <1>2, <1>7, <2>1, <2>2
       DEF API!FindBySessionToken, API!UpdateSessionData, API!Answered, Refines
<1>10. CASE doc # NoDoc /\ doc.user # NoUser
  <2>1. PICK e : e = [c EXCEPT !.pc = "read_get_user", !.ses = doc, !.at = now]
    OBVIOUS
  <2>2. GoOn(p, e)
    BY <1>1, <1>3, <1>10, <2>1, NoFailures DEF ReadGet
  <2> QED BY <1>3, <1>8, <1>10, <2>1, <2>2 DEF Call
<1>11. CASE doc # NoDoc /\ doc.user = NoUser /\ Expired(now, doc, LoginTimeout)
  <2>1. PICK e : e = [c EXCEPT !.pc = "logout_get"]
    OBVIOUS
  <2>2. GoOn(p, e)
    BY <1>1, <1>3, <1>11, <2>1, NoFailures DEF ReadGet, Goto
  <2>3. /\ e.op = c.op /\ e.sid = c.sid /\ e.user = c.user /\ e.dirs = c.dirs
        /\ e.new = c.new /\ e.ses = c.ses /\ e.pc = "logout_get"
    BY <1>3, <2>1 DEF Call
  <2>4. TermOf(c, doc) = LoginTimeout
    BY <1>2, <1>11 DEF TermOf
  <2> QED BY <1>6, <1>8, <1>11, <2>2, <2>3, <2>4
<1>12. CASE doc # NoDoc /\ doc.user = NoUser /\ ~ Expired(now, doc, LoginTimeout)
  <2>1. ReadBeforeLogin(p)
    BY <1>3, <1>12, NoFailures DEF ReadGet
  <2>2. TermOf(c, doc) = LoginTimeout
    BY <1>2, <1>12 DEF TermOf
  <2>3. API!Valid(c.sid, now) /\ ~ API!OfUser(c.sid)
    BY <1>1, <1>2, <1>3, <1>12, <2>2, ValidSession
  <2>4. CASE c.op = "FindBySessionToken"
    <3>1. Return(p, "before", NoSid)
      BY <1>1, <2>1, <2>4 DEF ReadBeforeLogin
    <3>2. API!FindBySessionToken(p, c.sid)
      BY <1>7, <2>3, <3>1 DEF API!FindBySessionToken, API!Status
    <3> QED BY <1>7, <2>4, <3>1, <3>2 DEF API!Answered, Refines
  <2>5. CASE c.op = "UpdateSessionData" /\ c.dirs = NoDirectives
    <3>1. PICK e : e = [c EXCEPT !.pc = "update_single", !.ses = doc]
      OBVIOUS
    <3>2. GoOn(p, e)
      BY <1>1, <1>3, <2>1, <2>5, <3>1 DEF ReadBeforeLogin, Load
    <3>3. /\ e.op = c.op /\ e.sid = c.sid /\ e.user = c.user /\ e.dirs = c.dirs
          /\ e.new = c.new /\ e.ses = doc /\ e.pc = "update_single"
      BY <1>3, <3>1 DEF Call
    <3> QED BY <1>8, <1>12, <2>2, <2>5, <3>2, <3>3
  <2>6. CASE c.op = "UpdateSessionData" /\ c.dirs # NoDirectives
    <3>1. Return(p, "panic", NoSid)
      BY <1>1, <2>1, <2>6 DEF ReadBeforeLogin
    <3>2. c.dirs # API!None
      BY <2>6 DEF API!None, NoDirectives
    <3>3. API!UpdateSessionData(p, c.sid, c.dirs)
      BY <1>7, <2>3, <3>1, <3>2 DEF API!UpdateSessionData
    <3> QED BY <1>7, <2>6, <3>1, <3>3 DEF API!Answered, Refines
  <2> QED BY <1>2, <2>4, <2>5, <2>6
<1> QED BY <1>9, <1>10, <1>11, <1>12

LEMMA ReadGetUserRefines ==
  ASSUME IsoInv, UserInv', MaxFaults = 0, NEW p \in Running, Record(p), ReadGetUser(p)
  PROVE  Refines(p)
<1>1. PICK c, b, doc : c = call[p] /\ b = before[p] /\ doc = Was(call[p], before[p])
  OBVIOUS
<1>2. /\ c.pc = "read_get_user" /\ c.op \in {"FindBySessionToken", "UpdateSessionData"}
      /\ c.op \in OnSession
  BY <1>1, CallIs DEF ReadGetUser, Reads, LocalSet, OpAt, OnSession
<1>3. /\ c \in Call /\ LocalSet(c) /\ Held(c, b) /\ single[c.sid] = doc
      /\ c.ses = doc /\ doc # NoDoc /\ doc \in SingleDoc /\ UserIn(c) = doc.user
      /\ doc.user # NoUser => userSes[doc.user] # NoDoc /\ doc.user \in UsersOf(c)
  BY <1>1, <1>2, SessionFacts DEF HasSes
<1>4. doc.user \in User /\ doc.user # NoUser
  BY <1>2, <1>3, NoneAssumption DEF LocalSet, HasUser
<1>5. /\ Alone(p) /\ single' = single /\ userSes' = userSes /\ \A u : DataOf(u)' = DataOf(u)
  BY ReadAlone, SameData DEF ReadGetUser
<1>6. \A u \in UsersOf(c) : DataOf(u)' = b.data[u] /\ DataOf(u) = b.data[u] /\ b.data[u] \in Data
  BY <1>2, <1>3, <1>5 DEF Held, DataHeld
<1>7. PICK t : t = c.at /\ t \in Meanwhile(b) /\ t \in Nat
  BY <1>1, <1>2, <1>3, NowMeanwhile DEF Held, TimesHeld
<1>8. TermOf(c, doc) = AbsoluteTimeout
  BY <1>4 DEF TermOf
<1>9. userSes[doc.user] \in UserDoc /\ userSes[doc.user].data = b.data[doc.user]
  BY <1>3, <1>4, <1>6 DEF IsoInv, UserInv, IInv, TypeOK, DataOf
<1>10. ASSUME NEW e, GoOn(p, e), e.op = c.op, e.sid = c.sid, e.user = c.user,
              e.dirs = c.dirs, e.new = c.new, e.ses = c.ses,
              \/ /\ e.pc = "update_single" /\ c.dirs = NoDirectives
                 /\ ~ Expired(t, doc, AbsoluteTimeout)
              \/ /\ e.pc = "update_user" /\ e.uses.data = Apply(c.dirs, b.data[doc.user])
                 /\ ~ Expired(t, doc, AbsoluteTimeout)
              \/ e.pc = "logout_get" /\ Expired(t, doc, AbsoluteTimeout)
      PROVE  Refines(p)
  <2>1. /\ e.pc \in LoggingOut \cup {"update_user", "update_single"}
        /\ e.pc \notin {"generate", "renew_create", "renew_delete", "read_get_user",
                        "logout_replace_user", "logout_delete"}
    BY <1>10 DEF LoggingOut
  <2>2. TermOf(e, doc) = TermOf(c, doc) /\ Was(e, b) = doc
    BY <1>1, <1>10 DEF TermOf, Was
  <2>3. TimesHeld(e, b)
    BY <1>3, <1>7, <1>8, <1>10, <2>1, <2>2 DEF Held, TimesHeld, LoggingOut
  <2>4. \A u \in UsersOf(c) : DataOf(u)' = IF e.pc = "update_single"
                                           THEN Apply(c.dirs, b.data[u]) ELSE b.data[u]
    BY <1>6, <1>10, NothingApplied
  <2>5. c.pc \notin {"renew_create", "renew_delete"}
    BY <1>2
  <2> QED BY <1>1, <1>2, <1>3, <1>4, <1>5, <1>10, <2>1, <2>3, <2>4, <2>5, SessionGoesOn
<1>11. CASE Expired(t, doc, AbsoluteTimeout)
  <2>1. PICK e : e = [c EXCEPT !.pc = "logout_get"]
    OBVIOUS
  <2>2. GoOn(p, e)
    BY <1>1, <1>3, <1>4, <1>7, <1>11, <2>1, NoFailures DEF ReadGetUser, Goto
  <2>3. /\ e.op = c.op /\ e.sid = c.sid /\ e.user = c.user /\ e.dirs = c.dirs
        /\ e.new = c.new /\ e.ses = c.ses /\ e.pc = "logout_get"
    BY <1>3, <2>1 DEF Call
  <2> QED BY <1>10, <1>11, <2>2, <2>3
<1>12. CASE ~ Expired(t, doc, AbsoluteTimeout) /\ c.op = "FindBySessionToken"
  <2>1. PICK res : res = IF Idling(t, doc) THEN "idle" ELSE "active"
    OBVIOUS
  <2>2. Return(p, res, NoSid)
    BY <1>1, <1>3, <1>4, <1>7, <1>12, <2>1, NoFailures DEF ReadGetUser
  <2>3. /\ IsoInv' /\ API!Answers(p, res, NoSid)
        /\ Sessions' = Sessions /\ UserData' = UserData /\ t \in API!During(p)
        /\ Asked[p] # NoCall /\ Asked[p].op = c.op /\ Asked[p].sid = c.sid
    BY <1>1, <1>2, <1>3, <1>5, <1>7, <2>2, SessionReturns
  <2>4. /\ API!Valid(c.sid, t) /\ API!OfUser(c.sid)
        /\ API!Idling(c.sid, t) <=> Idling(t, doc)
    BY <1>1, <1>2, <1>3, <1>4, <1>7, <1>8, <1>12, ValidSession
  <2>5. API!FindBySessionToken(p, c.sid)
    BY <2>1, <2>3, <2>4 DEF API!FindBySessionToken, API!Status
  <2> QED BY <1>12, <2>3, <2>5 DEF API!Answered, Refines
<1>13. CASE ~ Expired(t, doc, AbsoluteTimeout) /\ c.op = "UpdateSessionData"
  <2>1. PICK e : e = [c EXCEPT !.pc = IF c.dirs = NoDirectives THEN "update_single"
                                                              ELSE "update_user",
                               !.uses = [userSes[doc.user] EXCEPT
                                           !.data = Apply(c.dirs, @)]]
    OBVIOUS
  <2>2. GoOn(p, e)
    BY <1>1, <1>3, <1>4, <1>7, <1>13, <2>1, NoFailures DEF ReadGetUser
  <2>3. /\ e.op = c.op /\ e.sid = c.sid /\ e.user = c.user /\ e.dirs = c.dirs
        /\ e.new = c.new /\ e.ses = c.ses
        /\ e.pc = IF c.dirs = NoDirectives THEN "update_single" ELSE "update_user"
        /\ e.uses.data = Apply(c.dirs, b.data[doc.user])
    BY <1>3, <1>9, <2>1 DEF Call, UserDoc
  <2> QED BY <1>10, <1>13, <2>2, <2>3
<1> QED BY <1>2, <1>11, <1>12, <1>13

(* UpdateSessionData: the user document is unseen until the session        *)
(* document is there too.                                                  *)
LEMMA UpdateUserRefines ==
  ASSUME IsoInv, UserInv', MaxFaults = 0, NEW p \in Running, Record(p), UpdateUser(p)
  PROVE  Refines(p)
<1>1. PICK c, b, doc : c = call[p] /\ b = before[p] /\ doc = Was(call[p], before[p])
  OBVIOUS
<1>2. c.pc = "update_user" /\ c.op = "UpdateSessionData" /\ c.op \in OnSession
  BY <1>1, CallIs DEF UpdateUser, LocalSet, OpAt, OnSession
<1>3. /\ c \in Call /\ LocalSet(c) /\ Held(c, b) /\ c.ses = doc /\ doc # NoDoc
      /\ UserIn(c) = doc.user
      /\ doc.user # NoUser => doc.user \in UsersOf(c)
  BY <1>1, <1>2, SessionFacts DEF HasSes
<1>4. doc.user \in User /\ doc.user # NoUser /\ c.uses # NoDoc
  BY <1>2, <1>3, NoneAssumption DEF LocalSet, HasUser, HasUses
<1>5. PICK a \in Answer, u \in UsersOf(call[p]) :
        u = doc.user /\ PutUser(u, c.uses, a)
  BY <1>1, <1>3, <1>4 DEF UpdateUser
<1>6. Alone(p) /\ single' = single /\ userSes' = [userSes EXCEPT ![u] = c.uses]
  BY <1>5, PutUserAlone
<1>7. DataOf(u)' = Apply(c.dirs, b.data[u])
  <2>1. userSes'[u] = c.uses
    BY <1>4, <1>5, <1>6 DEF IsoInv, UserInv, IInv, TypeOK
  <2> QED BY <1>2, <1>3, <1>4, <1>5, <2>1 DEF DataOf, Held, DataHeld
<1>8. PICK e : e = [c EXCEPT !.pc = "update_single"]
  OBVIOUS
<1>9. GoOn(p, e)
  BY <1>1, <1>8 DEF UpdateUser, Goto
<1>10. /\ e.op = c.op /\ e.sid = c.sid /\ e.user = c.user /\ e.dirs = c.dirs
       /\ e.new = c.new /\ e.ses = c.ses /\ e.pc = "update_single"
  BY <1>3, <1>8 DEF Call
<1>11. \A v \in UsersOf(c) : DataOf(v)' = Apply(c.dirs, b.data[v])
  <2>1. \A v \in UsersOf(c) : v = u
    BY <1>1, <1>2, <1>3, <1>5, OwnerOnly
  <2> QED BY <1>7, <2>1
<1>12. TimesHeld(e, b)
  BY <1>2, <1>3, <1>10 DEF Held, TimesHeld, TermOf, Was, LoggingOut
<1> QED BY <1>1, <1>2, <1>3, <1>4, <1>6, <1>9, <1>10, <1>11, <1>12, SessionGoesOn

LEMMA UpdateSingleIsCall ==
  ASSUME IsoInv, UserInv', MaxFaults = 0, NEW p \in Running, Record(p), UpdateSingle(p)
  PROVE  Refines(p)
<1>1. PICK c, b, doc : c = call[p] /\ b = before[p] /\ doc = Was(call[p], before[p])
  OBVIOUS
<1>2. c.pc = "update_single" /\ c.op = "UpdateSessionData" /\ c.op \in OnSession
  BY <1>1, CallIs DEF UpdateSingle, Reads, LocalSet, OpAt, OnSession
<1>3. /\ c \in Call /\ LocalSet(c) /\ Held(c, b) /\ c.ses = doc /\ doc # NoDoc
      /\ doc \in SingleDoc /\ c.sid \in Sid /\ c.sid \in SidsOf(c) /\ c.new = NoSid
      /\ Doc(p) = doc /\ NoSid \notin Sid
      /\ doc.user # NoUser => doc.user \in UsersOf(c) /\ doc.user \in User
  BY <1>1, <1>2, SessionFacts, NoneAssumption DEF HasSes
<1>4. PICK upd : upd = [doc EXCEPT !.lastAccessAt = now]
  OBVIOUS
<1>5. PICK a \in Answer, s \in SidsOf(call[p]) :
        /\ s = c.sid /\ PutSingle(s, upd, a) /\ UNCHANGED origin
        /\ Return(p, IF a = "ok" THEN "ok" ELSE "error", NoSid)
  BY <1>1, <1>3, <1>4 DEF UpdateSingle, ReplaceSingle
<1>6. /\ Alone(p) /\ a = "ok" /\ single' = [single EXCEPT ![s] = upd]
      /\ userSes' = userSes
  <2>1. PutSingle(s, upd, a) /\ UNCHANGED origin
    BY <1>5
  <2> QED BY <2>1, PutAlone
<1>7. Return(p, "ok", NoSid) /\ single'[c.sid] = upd
  BY <1>3, <1>5, <1>6 DEF IsoInv, UserInv, IInv, TypeOK
<1>8. /\ IsoInv' /\ API!Answers(p, "ok", NoSid)
      /\ Sessions' = [x \in Sid |-> IF x \in SidsOf(call[p]) THEN single'[x]
                                                             ELSE Sessions[x]]
      /\ UserData' = [u \in User |-> IF u \in UsersOf(call[p]) THEN DataOf(u)'
                                                               ELSE UserData[u]]
  BY <1>6, <1>7, Returned
<1>9. /\ Sessions = [x \in Sid |-> Sessions[x]] /\ Sessions' = [x \in Sid |-> Sessions'[x]]
      /\ \A x \in Sid \ {c.sid, c.new} : Sessions'[x] = Sessions[x]
      /\ Sessions'[c.sid] = single'[c.sid] /\ Sessions[c.sid] = doc
  BY <1>1, <1>3, <1>8, Afterwards
<1>10. Sessions' = [Sessions EXCEPT ![c.sid].lastAccessAt = now]
  BY <1>3, <1>4, <1>7, <1>9
<1>11. /\ Asked[p] # NoCall /\ Asked[p].op = c.op /\ Asked[p].sid = c.sid
       /\ Asked[p].dirs = c.dirs /\ API!During(p) = Meanwhile(b)
       /\ \A u \in UsersOf(c) : UserData[u] = b.data[u]
  BY <1>1, AskedOf
<1>12. PICK t \in Meanwhile(b) : ~ Expired(t, doc, TermOf(c, doc))
  BY <1>1, <1>2, <1>3 DEF Held, TimesHeld
<1>13. t \in Nat /\ now \in t .. now
  BY <1>1, NowMeanwhile
<1>14. API!Valid(c.sid, t) /\ (API!OfUser(c.sid) <=> doc.user # NoUser)
  BY <1>1, <1>2, <1>3, <1>12, <1>13, ValidSession
<1>15. API!OfUser(c.sid) \/ c.dirs = API!None
  BY <1>2, <1>3, <1>14 DEF Held, DataHeld, API!None, NoDirectives
<1>16. \A u \in UsersOf(c) : u = doc.user /\ DataOf(u)' = Apply(c.dirs, b.data[u])
  BY <1>1, <1>2, <1>3, <1>6, OwnerOnly, SameData DEF Held, DataHeld
<1>17. UserData = [u \in User |-> UserData[u]]
  BY Views DEF ViewsHold
<1>18. UserData' = IF API!OfUser(c.sid)
                   THEN [UserData EXCEPT ![doc.user] = API!Updated(@, c.dirs)] ELSE UserData
  <2>1. CASE doc.user # NoUser
    <3>1. API!Updated(UserData[doc.user], c.dirs) = DataOf(doc.user)'
      BY <1>3, <1>11, <1>16, <2>1 DEF API!Updated, Apply
    <3>2. \A u \in User : UserData'[u] = IF u = doc.user THEN DataOf(doc.user)' ELSE UserData[u]
      BY <1>1, <1>3, <1>8, <1>16, <2>1
    <3>3. UserData' = [UserData EXCEPT ![doc.user] = DataOf(doc.user)']
      BY <1>8, <1>17, <3>2
    <3> QED BY <1>14, <2>1, <3>1, <3>3
  <2>2. CASE doc.user = NoUser
    <3>1. UsersOf(call[p]) = {}
      BY <1>1, <1>16, <2>2, NoneAssumption, CallIs
    <3> QED BY <1>8, <1>14, <1>17, <2>2, <3>1
  <2> QED BY <2>1, <2>2
<1>19. API!UpdateSessionData(p, c.sid, c.dirs)
  <2>1. Sessions[c.sid].user = doc.user
    BY <1>9
  <2> QED BY <1>8, <1>10, <1>11, <1>13, <1>14, <1>15, <1>18, <2>1 DEF API!UpdateSessionData
<1> QED BY <1>2, <1>8, <1>11, <1>19 DEF API!Answered, Refines

-----------------------------------------------------------------------------
(* RenewSession: an idle session goes over to the new id.                  *)
LEMMA RenewGetRefines ==
  ASSUME IsoInv, UserInv', MaxFaults = 0, NEW p \in Running, Record(p), RenewGet(p)
  PROVE  Refines(p)
<1>1. PICK c, b, doc : c = call[p] /\ b = before[p] /\ doc = Was(call[p], before[p])
  OBVIOUS
<1>2. c.pc = "renew_get" /\ c.op = "RenewSession" /\ c.op \in OnSession
  BY <1>1, CallIs DEF RenewGet, Reads, LocalSet, OpAt, OnSession
<1>3. /\ c \in Call /\ Held(c, b) /\ Doc(p) = doc /\ single[c.sid] = doc
      /\ now \in Nat /\ now \in Meanwhile(b) /\ c.sid # NoSid
  BY <1>1, <1>2, SessionFacts, NowMeanwhile
<1>4. Alone(p) /\ single' = single /\ userSes' = userSes /\ \A u : DataOf(u)' = DataOf(u)
  BY ReadAlone, SameData DEF RenewGet
<1>5. \A u \in UsersOf(c) : DataOf(u)' = b.data[u]
  BY <1>2, <1>3, <1>4 DEF Held, DataHeld
<1>6. c.ses \in {NoDoc, doc} /\ TermOf(c, doc) = AbsoluteTimeout
  BY <1>1, <1>2, <1>3 DEF Held, SessionHeld, TermOf
<1>7. ASSUME NEW res, NEW s \in {NoSid, c.sid}, Return(p, res, s)
      PROVE  /\ IsoInv' /\ API!Answers(p, res, s)
             /\ Sessions' = Sessions /\ UserData' = UserData
             /\ Sessions' = [Sessions EXCEPT ![c.sid] = doc]
             /\ Sessions[c.sid] = doc /\ now \in API!During(p)
             /\ Asked[p] # NoCall /\ Asked[p].op = c.op /\ Asked[p].sid = c.sid
  BY <1>1, <1>2, <1>3, <1>4, <1>7, SessionReturns
<1>8. ASSUME NEW e, GoOn(p, e), e.op = c.op, e.sid = c.sid, e.user = c.user,
             e.dirs = c.dirs, e.new = c.new, e.ses \in {NoDoc, doc}, doc # NoDoc,
             \/ e.pc = "generate" /\ ~ Expired(now, doc, AbsoluteTimeout) /\ Idling(now, doc)
             \/ e.pc = "logout_get" /\ Expired(now, doc, AbsoluteTimeout)
      PROVE  Refines(p)
  <2>1. /\ e.pc \in LoggingOut \cup {"generate"}
        /\ e.pc \notin {"read_get_user", "update_user", "update_single",
                        "logout_replace_user", "logout_delete"}
    BY <1>8 DEF LoggingOut
  <2>2. TermOf(e, doc) = AbsoluteTimeout /\ Was(e, b) = doc
    BY <1>1, <1>2, <1>8 DEF TermOf, Was
  <2>3. TimesHeld(e, b)
    BY <1>3, <1>8, <2>1, <2>2 DEF Held, TimesHeld, LoggingOut
  <2>4. c.pc \notin {"renew_create", "renew_delete"}
    BY <1>2
  <2> QED BY <1>1, <1>2, <1>4, <1>5, <1>8, <2>1, <2>3, <2>4, SessionGoesOn
<1>9. CASE doc = NoDoc
  <2>1. Return(p, "invalid", NoSid)
    BY <1>3, <1>9, NoFailures DEF RenewGet
  <2>2. API!RenewSession(p, c.sid)
    BY <1>7, <1>9, <2>1 DEF API!RenewSession, API!Without, API!OfUser
  <2> QED BY <1>2, <1>7, <2>1, <2>2 DEF API!Answered, Refines
<1>10. CASE doc # NoDoc /\ Expired(now, doc, AbsoluteTimeout)
  <2>1. PICK e : e = [c EXCEPT !.pc = "logout_get"]
    OBVIOUS
  <2>2. GoOn(p, e)
    BY <1>1, <1>3, <1>10, <2>1, NoFailures DEF RenewGet, Goto
  <2>3. /\ e.op = c.op /\ e.sid = c.sid /\ e.user = c.user /\ e.dirs = c.dirs
        /\ e.new = c.new /\ e.ses = c.ses /\ e.pc = "logout_get"
    BY <1>3, <2>1 DEF Call
  <2> QED BY <1>6, <1>8, <1>10, <2>2, <2>3
<1>11. CASE doc # NoDoc /\ ~ Expired(now, doc, AbsoluteTimeout) /\ Idling(now, doc)
  <2>1. PICK e : e = [c EXCEPT !.pc = "generate", !.ses = doc]
    OBVIOUS
  <2>2. GoOn(p, e)
    BY <1>1, <1>3, <1>11, <2>1, NoFailures DEF RenewGet, Load
  <2>3. /\ e.op = c.op /\ e.sid = c.sid /\ e.user = c.user /\ e.dirs = c.dirs
        /\ e.new = c.new /\ e.ses = doc /\ e.pc = "generate"
    BY <1>3, <2>1 DEF Call
  <2> QED BY <1>8, <1>11, <2>2, <2>3
<1>12. CASE doc # NoDoc /\ ~ Expired(now, doc, AbsoluteTimeout) /\ ~ Idling(now, doc)
  <2>1. Return(p, "ok", c.sid)
    BY <1>1, <1>3, <1>12, NoFailures DEF RenewGet
  <2>2. /\ Sessions[c.sid] # NoDoc /\ API!Age(c.sid, now) <= AbsoluteTimeout
        /\ ~ API!Idling(c.sid, now)
    BY <1>1, <1>2, <1>3, <1>6, <1>12, ValidSession
  <2>3. API!RenewSession(p, c.sid)
    BY <1>7, <2>1, <2>2 DEF API!RenewSession
  <2> QED BY <1>2, <1>7, <2>1, <2>3 DEF API!Answered, Refines
<1> QED BY <1>9, <1>10, <1>11, <1>12

LEMMA RenewsRefine ==
  ASSUME IsoInv, UserInv', MaxFaults = 0, NEW p \in Running, Record(p),
         RenewCreate(p) \/ RenewDelete(p)
  PROVE  Refines(p)
<1>1. PICK c, b, doc : c = call[p] /\ b = before[p] /\ doc = Was(call[p], before[p])
  OBVIOUS
<1>2. /\ c.pc \in {"renew_create", "renew_delete"} /\ c.op = "RenewSession"
      /\ c.op \in OnSession
  BY <1>1, CallIs DEF RenewCreate, RenewDelete, LocalSet, OpAt, OnSession
<1>3. /\ p \in Proc /\ c \in Call /\ LocalSet(c) /\ Held(c, b) /\ c.ses = doc /\ doc # NoDoc
      /\ doc \in SingleDoc /\ SameLogin(c.sid, doc) /\ c.sid \in Sid /\ c.sid \in SidsOf(c)
      /\ single[c.sid] = doc
  BY <1>1, <1>2, SessionFacts DEF HasSes
<1>4. c.new \in Sid /\ c.new # c.sid /\ c.new \notin known /\ NoSid \notin Sid
  BY <1>1, <1>2, <1>3, CallIs DEF LocalSet, HasNew, ToCreate
<1>5. single \in [Sid -> SingleDoc \cup {NoDoc}]
  BY DEF IsoInv, UserInv, IInv, TypeOK
<1>6. CASE RenewCreate(p)
  <2>1. c.pc = "renew_create" /\ c.pc \in ToCreate
    BY <1>1, <1>6 DEF RenewCreate, ToCreate
  <2>2. PICK a \in Answer, ticket \in {origin[c.sid]} :
          /\ CreateSingle(p, doc, ticket, a)
          /\ IF a = "ok" THEN Goto(p, "renew_delete") ELSE Return(p, "error", NoSid)
    BY <1>1, <1>3, <1>6 DEF RenewCreate
  <2>3. /\ Alone(p) /\ a = "ok" /\ userSes' = userSes /\ \A u : DataOf(u)' = DataOf(u)
        /\ single' = [single EXCEPT ![c.new] = doc]
    BY <1>1, <1>3, <2>1, <2>2, CreateAlone, SameData
  <2>4. PICK e : e = [c EXCEPT !.pc = "renew_delete"]
    OBVIOUS
  <2>5. GoOn(p, e)
    BY <1>1, <2>2, <2>3, <2>4 DEF Goto
  <2>6. /\ e.op = c.op /\ e.sid = c.sid /\ e.user = c.user /\ e.dirs = c.dirs
        /\ e.new = c.new /\ e.ses = c.ses /\ e.pc = "renew_delete"
    BY <1>3, <2>4 DEF Call
  <2>7. now' = now /\ origin'[c.sid] = origin[c.sid]
    BY <1>1, <1>3, <1>4, <2>3 DEF Alone
  <2>8. UsersOf(e)' = UsersOf(c)
    BY <2>6, <2>7 DEF UsersOf, Owned
  <2>9. single'[c.sid] = doc /\ single'[c.new] = doc
    BY <1>3, <1>4, <1>5, <2>3
  <2>10. SessionHeld(e, b)'
    <3>1. Was(e, b) = doc /\ ~ Deleted(e)
      BY <1>1, <1>2, <2>6 DEF Was, Deleted
    <3>2. SameLogin(c.sid, doc)'
      BY <1>3, <2>7 DEF SameLogin
    <3> QED BY <1>3, <2>6, <2>9, <3>1, <3>2 DEF SessionHeld, Was, Deleted, NewSession
  <2>11. DataHeld(e, b)'
    BY <1>2, <1>3, <2>1, <2>3, <2>6, <2>8 DEF Held, DataHeld
  <2>12. TimesHeld(e, b)'
    BY <1>2, <1>3, <2>1, <2>6, <2>7
    DEF Held, TimesHeld, Meanwhile, Was, LoggingOut, Expired, Idling
  <2>13. SameArgs(call[p], e) /\ e.pc \in HasNew
    BY <1>1, <2>6 DEF SameArgs, HasNew
  <2> QED BY <1>1, <2>3, <2>5, <2>10, <2>11, <2>12, <2>13, GoesOn DEF Refines, Held
<1>7. CASE RenewDelete(p)
  <2>1. c.pc = "renew_delete"
    BY <1>1, <1>7 DEF RenewDelete
  <2>2. PICK a \in Answer, s \in SidsOf(call[p]) :
          /\ s = c.sid /\ PutSingle(s, NoDoc, a) /\ UNCHANGED origin
          /\ IF a = "ok" THEN Return(p, "ok", c.new) ELSE Return(p, "error", NoSid)
    BY <1>1, <1>3, <1>7 DEF RenewDelete, DeleteSingle
  <2>3. /\ Alone(p) /\ a = "ok" /\ single' = [single EXCEPT ![s] = NoDoc]
        /\ userSes' = userSes
    <3>1. PutSingle(s, NoDoc, a) /\ UNCHANGED origin
      BY <2>2
    <3> QED BY <3>1, PutAlone
  <2>4. /\ Return(p, "ok", c.new) /\ single'[c.sid] = NoDoc /\ single'[c.new] = doc
        /\ \A u : DataOf(u)' = DataOf(u)
    BY <1>1, <1>3, <1>4, <1>5, <2>1, <2>2, <2>3, SameData DEF Held, SessionHeld
  <2>5. /\ IsoInv' /\ API!Answers(p, "ok", c.new) /\ UserData' = UserData
        /\ Sessions' = [x \in Sid |-> IF x \in SidsOf(call[p]) THEN single'[x]
                                                               ELSE Sessions[x]]
    BY <1>1, <2>1, <2>3, <2>4, ReturnedSameData
  <2>6. PICK t \in Meanwhile(b) : ~ Expired(t, doc, AbsoluteTimeout) /\ Idling(t, doc)
    BY <1>1, <1>2, <1>3, <2>1 DEF Held, TimesHeld
  <2>7. t \in Nat /\ TermOf(c, doc) = AbsoluteTimeout
    BY <1>1, <1>2, NowMeanwhile DEF TermOf
  <2>8. /\ Sessions[c.sid] # NoDoc /\ API!Age(c.sid, t) <= AbsoluteTimeout
        /\ API!Idling(c.sid, t)
    BY <1>1, <1>2, <1>3, <2>6, <2>7, ValidSession
  <2>9. \A x \in Sid : Sessions'[x] = IF x = c.new THEN Sessions[c.sid]
                                      ELSE IF x = c.sid THEN NoDoc ELSE Sessions[x]
    BY <1>1, <1>3, <1>4, <2>4, <2>5, Afterwards
  <2>10. Sessions' = API!Moved(c.sid, c.new, Sessions[c.sid])
    BY <2>5, <2>9 DEF API!Moved
  <2>11. /\ Asked[p] # NoCall /\ Asked[p].op = c.op /\ Asked[p].sid = c.sid
         /\ API!During(p) = Meanwhile(b) /\ c.new \in API!Unused
    BY <1>1, <1>4, AskedOf
  <2>12. API!RenewSession(p, c.sid)
    BY <2>5, <2>6, <2>8, <2>10, <2>11 DEF API!RenewSession
  <2> QED BY <1>2, <2>5, <2>11, <2>12 DEF API!Answered, Refines
<1> QED BY <1>6, <1>7

-----------------------------------------------------------------------------
(* What every step of a call does, one call at a time.                     *)
LEMMA StepRefines ==
  ASSUME IsoInv, UserInv', MaxFaults = 0, NEW p \in Proc, IsoStep(p)
  PROVE  Refines(p)
<1>1. Record(p) /\ Step(p)
  BY DEF IsoStep, Record
<1>2. call[p].pc # "idle"
  BY <1>1
  DEF Step, GenerateNewSessionID, CreateLogin, AddGet, AddDelete, AddCreate, StartGet,
      StartDelete, StartCreate, StartPanic, StartGetUser, StartCreateUser, StartReplaceUser,
      LogoutGet, LogoutGetUser, LogoutReplaceUser, LogoutDelete, ReadGet, ReadGetUser,
      UpdateUser, UpdateSingle, RenewGet, RenewCreate, RenewDelete, Reads
<1>3. p \in Running
  BY <1>2 DEF Running
<1> QED BY <1>1, <1>3, GenerateRefines, StartLoginRefines, AddRefines, StartsRefine,
           StartUserRefines, LogoutRefines, ReadGetRefines, ReadGetUserRefines,
           UpdateUserRefines, UpdateSingleIsCall, RenewGetRefines, RenewsRefine DEF Step

-----------------------------------------------------------------------------
(* While no call moves, what they found is still there and is what a       *)
(* caller sees.                                                            *)
LEMMA NoCallMoves ==
  ASSUME IsoInv, UserInv', single' = single, userSes' = userSes, call' = call,
         known' = known, origin' = origin, before' = before, now <= now'
  PROVE  IsoInv' /\ Sessions' = Sessions /\ UserData' = UserData /\ Asked' = Asked
<1>1. now \in Nat /\ now' \in Nat
  BY BoundsAssumption DEF IsoInv, UserInv, IInv, TypeOK
<1>2. Running' = Running
  BY DEF Running
<1>3. ASSUME NEW p \in Running
      PROVE  Held(call[p], before[p])' /\ UsersOf(call[p])' = UsersOf(call[p])
  <2>1. PICK c, b : c = call[p] /\ b = before[p]
    OBVIOUS
  <2>2. /\ c \in Call /\ LocalSet(c) /\ Held(c, b) /\ UsersOf(c) \subseteq User
        /\ SidsOf(c) \subseteq Sid
        /\ c.ses # NoDoc => SameLogin(c.sid, c.ses)
    BY <2>1, CallIs
  <2>3. Held(c, b)' /\ UsersOf(c)' = UsersOf(c)
    <3>1. Held(c, b)'
      BY <1>1, <2>2, HeldStays
    <3> QED BY <3>1 DEF UsersOf, Owned
  <2> QED BY <2>1, <2>3
<1>4. NewKept'
  BY DEF IsoInv, NewKept
<1>5. IdsInv'
  <2>1. Drawing' = Drawing
    BY <1>2 DEF Drawing
  <2>2. Fresh' = Fresh
    BY DEF Fresh
  <2> QED BY <2>1, <2>2 DEF IsoInv, IdsInv
<1>6. KeepApart'
  BY <1>2, <1>3 DEF IsoInv, KeepApart, Apart
<1>7. IsoInv'
  BY <1>2, <1>3, <1>4, <1>5, <1>6 DEF IsoInv
<1>8. ViewsHold /\ ViewsHold'
  BY <1>7, Views, ViewsNext
<1>9. ASSUME NEW s \in Sid PROVE Sessions'[s] = Sessions[s]
  <2>1. CASE \E q \in Running : s \in SidsOf(call[q])
    <3>1. PICK q \in Running : s \in SidsOf(call[q])
      BY <2>1
    <3>2. s = call[q].sid \/ s = call[q].new
      BY <3>1 DEF SidsOf
    <3> QED BY <1>2, <1>8, <3>2 DEF ViewsHold, Was
  <2>2. CASE \A q \in Running : s \notin SidsOf(call[q])
    BY <1>2, <1>8, <2>2 DEF ViewsHold, SidsOf
  <2> QED BY <2>1, <2>2
<1>10. ASSUME NEW u \in User PROVE UserData'[u] = UserData[u]
  <2>1. CASE \E q \in Running : u \in UsersOf(call[q])
    <3>1. PICK q \in Running : u \in UsersOf(call[q])
      BY <2>1
    <3> QED BY <1>2, <1>3, <1>8, <3>1 DEF ViewsHold
  <2>2. CASE \A q \in Running : u \notin UsersOf(call[q])
    <3>1. (\A q \in Running : u \notin UsersOf(call[q]))'
      BY <1>2, <1>3, <2>2
    <3> QED BY <1>8, <2>2, <3>1, SameData DEF ViewsHold
  <2> QED BY <2>1, <2>2
<1>11. Asked' = Asked
  BY <1>2 DEF Asked
<1> QED BY <1>7, <1>8, <1>9, <1>10, <1>11 DEF ViewsHold

(* A call that begins has its arguments and nothing else.                  *)
Begun(p, e) ==
  /\ call[p].pc = "idle" /\ call' = [call EXCEPT ![p] = e]
  /\ reply' = "none" /\ UNCHANGED <<now, single, userSes, origin, known>>
  /\ e.op \in Operation /\ e.sid \in known \cup {NoSid} /\ e.user \in Owner
  /\ e.dirs \in Directives /\ e.new = NoSid /\ e.ses = NoDoc
  /\ \/ e.pc = "generate" /\ e.op = "StartLogin" /\ e.sid = NoSid
     \/ e.pc = "generate" /\ e.op = "AddLoginInfo"
     \/ e.pc = "start_get" /\ e.op = "StartSession"
     \/ e.pc = "logout_get" /\ e.op = "Logout"
     \/ e.pc = "read_get" /\ e.op \in {"FindBySessionToken", "UpdateSessionData"}
     \/ e.pc = "renew_get" /\ e.op = "RenewSession"
  /\ e.op # "StartSession" => e.user = NoUser

LEMMA StartBegins ==
  ASSUME NEW p \in Proc, Start(p), call'[p].sid \in known \cup {NoSid}, IsoInv
  PROVE  \E e : Begun(p, e)
<1>1. NoDirectives \in Directives /\ NoUser \in Owner
  BY DEF NoDirectives, Directives, Owner
<1>2. ASSUME NEW op \in Operation, NEW s \in known \cup {NoSid}, NEW u \in Owner,
             NEW dirs \in Directives, NEW pc, Begin(p, op, s, u, dirs, pc),
             \/ pc = "generate" /\ op = "StartLogin" /\ s = NoSid
             \/ pc = "generate" /\ op = "AddLoginInfo"
             \/ pc = "start_get" /\ op = "StartSession"
             \/ pc = "logout_get" /\ op = "Logout"
             \/ pc = "read_get" /\ op \in {"FindBySessionToken", "UpdateSessionData"}
             \/ pc = "renew_get" /\ op = "RenewSession",
             op # "StartSession" => u = NoUser
      PROVE  \E e : Begun(p, e)
  <2>1. PICK e : e = [Idle EXCEPT !.pc = pc, !.op = op, !.sid = s, !.user = u, !.dirs = dirs]
    OBVIOUS
  <2>2. /\ e.pc = pc /\ e.op = op /\ e.sid = s /\ e.user = u /\ e.dirs = dirs
        /\ e.new = NoSid /\ e.ses = NoDoc
    BY <2>1 DEF Idle
  <2>3. /\ call[p].pc = "idle" /\ call' = [call EXCEPT ![p] = e]
        /\ reply' = "none" /\ UNCHANGED <<now, single, userSes, origin, known>>
    BY <1>2, <2>1 DEF Begin, GoOn
  <2> QED BY <1>2, <2>2, <2>3 DEF Begun
<1>3. CASE StartLogin(p)
  BY <1>1, <1>2, <1>3 DEF StartLogin, Operation
<1>4. CASE AddLoginInfo(p)
  BY <1>1, <1>2, <1>4 DEF AddLoginInfo, Operation
<1>5. CASE StartSession(p)
  BY <1>1, <1>2, <1>5 DEF StartSession, Operation
<1>6. CASE Logout(p)
  <2>1. PICK s \in known \cup Listed :
          Begin(p, "Logout", s, NoUser, NoDirectives, "logout_get")
    BY <1>6 DEF Logout
  <2>2. call'[p].sid = s
    BY <2>1 DEF Begin, GoOn, Idle, IsoInv, UserInv, IInv, TypeOK
  <2> QED BY <1>1, <1>2, <2>1, <2>2 DEF Operation
<1>7. CASE FindBySessionToken(p)
  BY <1>1, <1>2, <1>7 DEF FindBySessionToken, Operation
<1>8. CASE UpdateSessionData(p)
  BY <1>1, <1>2, <1>8 DEF UpdateSessionData, Operation
<1>9. CASE RenewSession(p)
  BY <1>1, <1>2, <1>9 DEF RenewSession, Operation
<1> QED BY <1>3, <1>4, <1>5, <1>6, <1>7, <1>8, <1>9 DEF Start

(* A call that begins finds the store as it is.                            *)
LEMMA BeginHeld ==
  ASSUME IsoInv, UserInv', NEW p \in Proc, NEW e, Begun(p, e), NEW b,
         b.single = [s \in SidsOf(e) |-> single[s]],
         b.data = [u \in UsersOf(e) |-> DataOf(u)], b.since = now
  PROVE  Held(e, b)' /\ SidsOf(e) \subseteq {e.sid} /\ UsersOf(e) \subseteq User
<1>1. /\ single \in [Sid -> SingleDoc \cup {NoDoc}] /\ origin \in [Sid -> Ticket \cup {NoDoc}]
      /\ userSes \in [User -> UserDoc \cup {NoDoc}] /\ now \in Nat /\ known \subseteq Sid
      /\ \A s \in Sid : single[s] # NoDoc => SameLogin(s, single[s])
  BY BoundsAssumption DEF IsoInv, UserInv, IInv, TypeOK, DocsMatchOrigin
<1>2. SidsOf(e) \subseteq {e.sid} /\ (e.sid # NoSid => e.sid \in SidsOf(e) /\ e.sid \in Sid)
  BY <1>1 DEF Begun, SidsOf
<1>3. ASSUME NEW u \in UsersOf(e) PROVE u \in User /\ DataOf(u) \in Data
  <2>1. u \in User
    <3>1. CASE u = e.user
      BY <1>3, <3>1 DEF Begun, UsersOf, Owner
    <3>2. CASE Owned(e.sid) /\ u = origin[e.sid].user
      <4>1. origin[e.sid] \in Ticket
        BY <1>1, <3>2 DEF Owned
      <4> QED BY <1>3, <3>2, <4>1 DEF UsersOf, Ticket, Owner
    <3> QED BY <1>3, <3>1, <3>2 DEF UsersOf
  <2>2. userSes[u] \in UserDoc \cup {NoDoc}
    BY <1>1, <2>1
  <2> QED BY <2>1, <2>2 DEF DataOf, UserDoc, Data
<1>4. SessionHeld(e, b)'
  <2>1. /\ ~ Deleted(e) /\ ~ Found(e) /\ e.pc \notin NewSession \cup {"renew_delete"}
    BY DEF Begun, Deleted, Found, Looking, NewSession
  <2>2. e.sid # NoSid => Was(e, b) = single[e.sid]
    BY <1>2 DEF Was
  <2> QED BY <1>1, <1>2, <2>1, <2>2 DEF Begun, SessionHeld, Was, Deleted, Found, SameLogin
<1>5. DataHeld(e, b)'
  <2>1. UsersOf(e)' = UsersOf(e) /\ \A u : DataOf(u)' = DataOf(u)
    BY DEF Begun, UsersOf, Owned, DataOf
  <2>2. \A u \in UsersOf(e) : b.data[u] = DataOf(u)
    OBVIOUS
  <2> QED BY <1>3, <2>1, <2>2 DEF Begun, DataHeld
<1>6. TimesHeld(e, b)'
  <2>1. now' = now /\ b.since \in 0 .. now
    BY <1>1 DEF Begun
  <2> QED BY <2>1 DEF Begun, TimesHeld, LoggingOut
<1> QED BY <1>2, <1>3, <1>4, <1>5, <1>6 DEF Held

(* There is an id left for it.                                             *)
LEMMA BeginIds ==
  ASSUME IsoInv, NEW p \in Proc, NEW e, Begun(p, e), IdsLeft(e)
  PROVE  IdsInv' /\ NewKept'
<1>1. /\ call \in [Proc -> Call] /\ call[p].new = NoSid /\ known' = known /\ origin' = origin
      /\ \A q \in Proc : call'[q] = IF q = p THEN e ELSE call[q]
  BY DEF Begun, IsoInv, UserInv, IInv, TypeOK, NewKept, HasNew, ToCreate
<1>2. e.new = NoSid /\ p \notin Running /\ p \notin Drawing
  BY DEF Begun, Running, Drawing
<1>3. NewKept'
  BY <1>1, <1>2 DEF IsoInv, NewKept, Begun
<1>4. Fresh' = Fresh
  BY <1>1, <1>2, NoneAssumption DEF Fresh
<1>5. /\ IsFiniteSet(Fresh) /\ Cardinality(Fresh) \in Nat
      /\ IsFiniteSet(Drawing) /\ Cardinality(Drawing) \in Nat
      /\ Cardinality(Drawing) <= Cardinality(Fresh)
  BY SidAssumption, FS_Subset, FS_CardinalityType DEF Fresh, IsoInv, IdsInv
<1>6. CASE DrawsId(e)
  <2>1. Cardinality(Drawing) < Cardinality(Fresh)
    BY <1>6 DEF IdsLeft, Drawing
  <2>2. Drawing' \subseteq Drawing \cup {p}
    BY <1>1 DEF Drawing, Running, DrawsId
  <2>3. /\ IsFiniteSet(Drawing \cup {p})
        /\ Cardinality(Drawing \cup {p}) = Cardinality(Drawing) + 1
    BY <1>2, <1>5, FS_AddElement
  <2>4. /\ IsFiniteSet(Drawing') /\ Cardinality(Drawing') <= Cardinality(Drawing \cup {p})
        /\ Cardinality(Drawing') \in Nat
    BY <2>2, <2>3, FS_Subset, FS_CardinalityType
  <2> QED BY <1>3, <1>4, <1>5, <2>1, <2>3, <2>4 DEF IdsInv
<1>7. CASE ~ DrawsId(e)
  <2>1. Drawing' \subseteq Drawing
    BY <1>1, <1>7 DEF Drawing, Running, DrawsId
  <2>2. /\ IsFiniteSet(Drawing') /\ Cardinality(Drawing') <= Cardinality(Drawing)
        /\ Cardinality(Drawing') \in Nat
    BY <1>5, <2>1, FS_Subset, FS_CardinalityType
  <2> QED BY <1>3, <1>4, <1>5, <2>2 DEF IdsInv
<1> QED BY <1>6, <1>7

(* A call that keeps apart from those under way is only asked for: nothing *)
(* that a caller sees has changed yet.                                     *)
LEMMA IsoStartAsks ==
  ASSUME IsoInv, UserInv', NEW p \in Proc, IsoStart(p)
  PROVE  /\ IsoInv'
         /\ \E op \in API!Operation, s \in Sid \cup {NoSid}, u \in User \cup {NoUser},
               dirs \in [Key -> Value \cup {NoValue, Keep}] : API!Ask(p, op, s, u, dirs)
<1>1. PICK e : Begun(p, e)
  BY StartBegins DEF IsoStart
<1>2. /\ call'[p] = e /\ \A q \in Proc : q # p => call'[q] = call[q]
      /\ DOMAIN before = Proc
  BY <1>1 DEF Begun, IsoInv, UserInv, IInv, TypeOK
<1>3. PICK b : b = [single |-> [s \in SidsOf(e) |-> single[s]],
                    data |-> [u \in UsersOf(e) |-> DataOf(u)], since |-> now]
  OBVIOUS
<1>4. /\ before' = [before EXCEPT ![p] = b] /\ IdsLeft(e)
      /\ \A q \in Running : Apart(e, call[q])
  BY <1>2, <1>3 DEF IsoStart, SidsOf, UsersOf, Owned, IdsLeft, DrawsId, Apart
<1>5. before'[p] = b /\ DOMAIN before' = Proc /\ \A q \in Proc : q # p => before'[q] = before[q]
  BY <1>2, <1>4
<1>6. p \notin Running /\ Running' = Running \cup {p}
  <2>1. e.pc # "idle" /\ call[p].pc = "idle"
    BY <1>1 DEF Begun
  <2> QED BY <1>2, <2>1 DEF Running
<1>7. UNCHANGED <<now, single, userSes, origin, known>> /\ reply' = "none"
  BY <1>1 DEF Begun
<1>8. /\ Held(e, b)' /\ SidsOf(e) \subseteq {e.sid} /\ UsersOf(e) \subseteq User
      /\ UsersOf(call[p])' = UsersOf(e)
  <2>1. Held(e, b)' /\ SidsOf(e) \subseteq {e.sid} /\ UsersOf(e) \subseteq User
    BY <1>1, <1>3, BeginHeld
  <2>2. UsersOf(call[p])' = UsersOf(e)
    BY <1>2, <1>7 DEF UsersOf, Owned
  <2> QED BY <2>1, <2>2
<1>9. ASSUME NEW q \in Running
      PROVE  /\ q \in Proc /\ call'[q] = call[q] /\ before'[q] = before[q] /\ q \in Running'
             /\ Held(call[q], before[q])' /\ UsersOf(call[q])' = UsersOf(call[q])
  <2>1. q \in Proc /\ q # p /\ q \in Running'
    BY <1>6, <1>9 DEF Running
  <2>2. call'[q] = call[q] /\ before'[q] = before[q]
    BY <1>2, <1>5, <2>1
  <2>3. PICK c, r : c = call[q] /\ r = before[q]
    OBVIOUS
  <2>4. /\ c \in Call /\ LocalSet(c) /\ Held(c, r) /\ UsersOf(c) \subseteq User
        /\ SidsOf(c) \subseteq Sid
        /\ c.ses # NoDoc => SameLogin(c.sid, c.ses)
    BY <1>9, <2>3, CallIs
  <2>5. now \in Nat /\ now' \in Nat /\ now <= now'
    BY <1>7, BoundsAssumption DEF IsoInv, UserInv, IInv, TypeOK
  <2>6. Held(c, r)'
    BY <1>7, <2>4, <2>5, HeldStays
  <2>7. UsersOf(c)' = UsersOf(c)
    BY <1>7 DEF UsersOf, Owned
  <2> QED BY <2>1, <2>2, <2>3, <2>6, <2>7
<1>10. \A q \in Running' : Held(call[q], before[q])'
  <2>1. Held(call[p], before[p])'
    BY <1>2, <1>5, <1>8
  <2> QED BY <1>6, <1>9, <2>1
<1>11. KeepApart'
  <2> SUFFICES ASSUME NEW q \in Running', NEW r \in Running', q # r
               PROVE  Apart(call[q], call[r])'
    BY DEF KeepApart
  <2>1. CASE q = p
    BY <1>2, <1>4, <1>6, <1>8, <1>9, <2>1 DEF Apart, SidsOf
  <2>2. CASE r = p
    BY <1>2, <1>4, <1>6, <1>8, <1>9, <2>2 DEF Apart, SidsOf
  <2>3. CASE q # p /\ r # p
    BY <1>6, <1>9, <2>3, OneCall DEF Apart, SidsOf
  <2> QED BY <2>1, <2>2, <2>3
<1>12. IsoInv'
  BY <1>1, <1>4, <1>5, <1>10, <1>11, BeginIds DEF IsoInv
<1>13. ViewsHold /\ ViewsHold'
  BY <1>12, Views, ViewsNext
<1>14. ASSUME NEW s \in Sid PROVE Sessions'[s] = Sessions[s]
  <2>1. CASE \E q \in Running : s \in SidsOf(call[q])
    <3>1. PICK q \in Running : s = call[q].sid \/ s = call[q].new
      BY <2>1 DEF SidsOf
    <3> QED BY <1>9, <1>13, <3>1 DEF ViewsHold, Was
  <2>2. CASE (\A q \in Running : s \notin SidsOf(call[q])) /\ s = e.sid
    <3>1. Was(e, b) = single[s]
      BY <1>3, <2>2, NoneAssumption DEF Was, SidsOf
    <3>2. Sessions'[s] = Was(e, b)
      BY <1>2, <1>5, <1>6, <1>13, <2>2 DEF ViewsHold, Was
    <3> QED BY <1>13, <2>2, <3>1, <3>2 DEF ViewsHold
  <2>3. CASE (\A q \in Running : s \notin SidsOf(call[q])) /\ s # e.sid
    <3>1. (\A q \in Running : s \notin SidsOf(call[q]))'
      BY <1>2, <1>6, <1>8, <1>9, <2>3 DEF SidsOf
    <3> QED BY <1>7, <1>13, <2>3, <3>1 DEF ViewsHold
  <2> QED BY <2>1, <2>2, <2>3
<1>15. ASSUME NEW u \in User PROVE UserData'[u] = UserData[u]
  <2>1. CASE \E q \in Running : u \in UsersOf(call[q])
    <3>1. PICK q \in Running : u \in UsersOf(call[q])
      BY <2>1
    <3> QED BY <1>9, <1>13, <3>1 DEF ViewsHold
  <2>2. CASE (\A q \in Running : u \notin UsersOf(call[q])) /\ u \in UsersOf(e)
    <3>1. UserData'[u] = b.data[u]
      BY <1>5, <1>6, <1>8, <1>13, <2>2 DEF ViewsHold
    <3>2. b.data[u] = DataOf(u)
      BY <1>3, <2>2
    <3> QED BY <1>13, <2>2, <3>1, <3>2 DEF ViewsHold
  <2>3. CASE (\A q \in Running : u \notin UsersOf(call[q])) /\ u \notin UsersOf(e)
    <3>1. (\A q \in Running : u \notin UsersOf(call[q]))'
      BY <1>6, <1>8, <1>9, <2>3
    <3> QED BY <1>7, <1>13, <2>3, <3>1, SameData DEF ViewsHold
  <2> QED BY <2>1, <2>2, <2>3
<1>16. Sessions' = Sessions /\ UserData' = UserData
  BY <1>13, <1>14, <1>15 DEF ViewsHold
<1>17. /\ Asked[p] = NoCall
       /\ Asked' = [Asked EXCEPT ![p] = [op |-> e.op, sid |-> e.sid, user |-> e.user,
                                         dirs |-> e.dirs, since |-> now]]
  <2>1. Asked[p] = NoCall
    BY <1>6 DEF Asked
  <2>2. b.since = now
    BY <1>3
  <2>3. \A q \in Proc : Asked'[q] = IF q = p THEN [op |-> e.op, sid |-> e.sid,
                                                   user |-> e.user, dirs |-> e.dirs,
                                                   since |-> now] ELSE Asked[q]
    BY <1>2, <1>5, <1>6, <2>2 DEF Asked
  <2>4. Asked = [q \in Proc |-> Asked[q]] /\ Asked' = [q \in Proc |-> Asked'[q]]
    BY DEF Asked
  <2> QED BY <2>1, <2>3, <2>4
<1>18. API!Ask(p, e.op, e.sid, e.user, e.dirs)
  BY <1>7, <1>16, <1>17 DEF API!Ask, API!Quiet
<1>19. /\ e.op \in API!Operation /\ e.sid \in Sid \cup {NoSid} /\ e.user \in User \cup {NoUser}
       /\ e.dirs \in [Key -> Value \cup {NoValue, Keep}]
  BY <1>1 DEF Begun, API!Operation, Operation, Owner, Directives, IsoInv, UserInv, IInv, TypeOK
<1> QED BY <1>12, <1>18, <1>19

-----------------------------------------------------------------------------
(* At the start nothing is asked for and there are no sessions.            *)
LEMMA IsoInitRefines ==
  ASSUME IsoInit
  PROVE  IsoInv /\ API!Init
<1>1. /\ Init /\ Running = {} /\ DOMAIN before = Proc
      /\ \A p \in Proc : call[p].new = NoSid /\ call[p].sid = NoSid
  BY DEF IsoInit, Init, Running, Idle
<1>2. UserInv
  BY <1>1, InitUserInv
<1>3. IdsInv
  <2>1. Drawing = {}
    BY <1>1 DEF Drawing
  <2>2. IsFiniteSet(Drawing) /\ Cardinality(Drawing) = 0
    BY <2>1, FS_EmptySet
  <2>3. Cardinality(Fresh) \in Nat
    BY SidAssumption, FS_Subset, FS_CardinalityType DEF Fresh
  <2> QED BY <2>2, <2>3 DEF IdsInv
<1>4. IsoInv
  BY <1>1, <1>2, <1>3 DEF IsoInv, NewKept, KeepApart
<1>5. Sessions = [s \in Sid |-> NoDoc] /\ Asked = [p \in Proc |-> NoCall]
  BY <1>1 DEF Sessions, Asked, Init
<1>6. UserData = [u \in User |-> API!Blank]
  BY <1>1 DEF UserData, DataOf, Init, API!Blank
<1> QED BY <1>1, <1>4, <1>5, <1>6 DEF API!Init, Init

(* Every step is one of the interface's, or unseen.                        *)
LEMMA IsoNextRefines ==
  ASSUME MaxFaults = 0, IsoInv, [IsoNext]_isoVars
  PROVE  IsoInv' /\ [API!Next]_(API!vars)
<1>1. UserInv'
  <2>1. [Next]_vars
    BY DEF IsoNext, IsoStart, IsoStep, Next, isoVars
  <2> QED BY <2>1, NextUserInv DEF IsoInv
<1>2. CASE Tick /\ UNCHANGED before
  <2>1. /\ single' = single /\ userSes' = userSes /\ call' = call /\ known' = known
        /\ origin' = origin /\ before' = before /\ now' = now + 1 /\ reply' = "none"
    BY <1>2 DEF Tick
  <2>2. now <= now'
    BY <2>1, BoundsAssumption DEF IsoInv, UserInv, IInv, TypeOK
  <2>3. IsoInv' /\ Sessions' = Sessions /\ UserData' = UserData /\ Asked' = Asked
    BY <1>1, <2>1, <2>2, NoCallMoves
  <2>4. API!Tick
    BY <2>1, <2>3 DEF API!Tick, API!Quiet
  <2> QED BY <2>3, <2>4 DEF API!Next
<1>3. ASSUME NEW p \in Proc, IsoStart(p) PROVE IsoInv' /\ [API!Next]_(API!vars)
  BY <1>1, <1>3, IsoStartAsks DEF API!Next
<1>4. ASSUME NEW p \in Proc, IsoStep(p) PROVE IsoInv' /\ [API!Next]_(API!vars)
  <2>1. Refines(p)
    BY <1>1, <1>4, StepRefines
  <2> QED BY <2>1 DEF Refines, API!Next
<1>5. CASE UNCHANGED isoVars
  <2>1. /\ single' = single /\ userSes' = userSes /\ call' = call /\ known' = known
        /\ origin' = origin /\ before' = before /\ now' = now /\ reply' = reply
    BY <1>5 DEF isoVars, vars
  <2>2. now <= now'
    BY <2>1, BoundsAssumption DEF IsoInv, UserInv, IInv, TypeOK
  <2>3. IsoInv' /\ Sessions' = Sessions /\ UserData' = UserData /\ Asked' = Asked
    BY <1>1, <2>1, <2>2, NoCallMoves
  <2> QED BY <2>1, <2>3 DEF API!vars
<1> QED BY <1>2, <1>3, <1>4, <1>5 DEF IsoNext

(* With a store that answers, and callers that keep apart, every operation *)
(* is atomic: whatever the others do between its document store calls, it  *)
(* answers and leaves the sessions and the session data as one step of the *)
(* interface does, at a time at which it ran.                              *)
THEOREM CallsAreAtomic ==
  ASSUME MaxFaults = 0
  PROVE  IsoSpec => ActsAtOnce
<1>1. IsoInit => IsoInv /\ API!Init
  BY IsoInitRefines
<1>2. IsoInv /\ [IsoNext]_isoVars => IsoInv' /\ [API!Next]_(API!vars)
  BY IsoNextRefines
<1> QED BY <1>1, <1>2, PTL DEF IsoSpec, ActsAtOnce, API!Spec

=============================================================================
