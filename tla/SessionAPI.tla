----------------------------- MODULE SessionAPI -----------------------------
(***************************************************************************)
(* The SessionStorage interface (sessionstorage.go:167-180) as its callers *)
(* understand it: a call takes effect at one instant, with the clock of    *)
(* the time it ran in, and answers for what it found at that instant.      *)
(* There are sessions and each user's session data, and no documents.      *)
(***************************************************************************)
EXTENDS Naturals

CONSTANTS Proc, Sid, User, Key, Value, NoSid, NoUser, NoValue,
          NoSession, NoCall,
          Keep,  \* directives that do not mention a key
          LoginTimeout, IdleTimeout, AbsoluteTimeout

VARIABLES now,
          session,  \* session[s]: who is logged in as s, and since when
          data,     \* data[u]: the session data of u
          asked,    \* asked[p]: the call p waits for, and since when
          reply,    \* what the last step answered, "none" if it did not
          known     \* the ids that answers have handed out

vars == <<now, session, data, asked, reply, known>>

Blank == [k \in Key |-> NoValue]
None  == [k \in Key |-> Keep]

Init == /\ now = 0
        /\ session = [s \in Sid |-> NoSession]
        /\ data    = [u \in User |-> Blank]
        /\ asked   = [p \in Proc |-> NoCall]
        /\ reply   = "none"
        /\ known   = {}

Quiet == reply' = "none" /\ UNCHANGED <<session, data, known>>

Tick == now' = now + 1 /\ Quiet /\ UNCHANGED asked

Wait == Quiet /\ UNCHANGED <<now, asked>>

Ask(p, op, s, u, dirs) ==
  /\ asked[p] = NoCall
  /\ asked' = [asked EXCEPT ![p] = [op |-> op, sid |-> s, user |-> u,
                                    dirs |-> dirs, since |-> now]]
  /\ Quiet /\ UNCHANGED now

-----------------------------------------------------------------------------
(* p gets its answer: res and the id s.                                    *)
Answers(p, res, s) == /\ asked' = [asked EXCEPT ![p] = NoCall]
                      /\ reply' = res
                      /\ known' = known \cup ({s} \ {NoSid})
                      /\ UNCHANGED now

During(p) == asked[p].since .. now

Moved(s, n, ses) == [x \in Sid |-> IF x = n THEN ses
                                   ELSE IF x = s THEN NoSession ELSE session[x]]

Unused == {s \in Sid : session[s] = NoSession}

StartLogin(p) == \E n \in Unused, t \in During(p) :
  /\ session' = [session EXCEPT ![n] = [user |-> NoUser, loginAt |-> t,
                                        lastAccessAt |-> t]]
  /\ Answers(p, "ok", n) /\ UNCHANGED data

AddLoginInfo(p, s) ==
  /\ UNCHANGED data
  /\ \/ session[s] = NoSession /\ Answers(p, "error", NoSid) /\ UNCHANGED session
     \/ /\ session[s] # NoSession
        /\ \E n \in Unused : /\ session' = Moved(s, n, session[s])
                             /\ Answers(p, "ok", n)

(* Whoever calls with a session loses it, also when there is no such user. *)
StartSession(p, s, u) ==
  /\ UNCHANGED data
  /\ \/ /\ s # NoSid /\ session[s] = NoSession
        /\ Answers(p, "error", NoSid) /\ UNCHANGED session
     \/ /\ s # NoSid => session[s] # NoSession
        /\ u = NoUser
        /\ session' = [x \in Sid |-> IF x = s THEN NoSession ELSE session[x]]
        /\ Answers(p, "panic", NoSid)
     \/ /\ s # NoSid => session[s] # NoSession
        /\ u # NoUser
        /\ \E n \in Unused, t \in During(p) :
             /\ session' = Moved(s, n, [user |-> u, loginAt |-> t, lastAccessAt |-> t])
             /\ Answers(p, "ok", n)

(* A session before login is left alone.                                   *)
OfUser(s)  == session[s] # NoSession /\ session[s].user # NoUser
Without(s) == [session EXCEPT ![s] = IF OfUser(s) THEN NoSession ELSE @]

Logout(p, s) == session' = Without(s) /\ Answers(p, "ok", NoSid) /\ UNCHANGED data

Age(s, t)  == t - session[s].loginAt
Term(s)    == IF OfUser(s) THEN AbsoluteTimeout ELSE LoginTimeout
Valid(s, t)  == session[s] # NoSession /\ Age(s, t) <= Term(s)
Idling(s, t) == t - session[s].lastAccessAt > IdleTimeout

Status(s, t) == IF ~ OfUser(s) THEN "before"
                ELSE IF Idling(s, t) THEN "idle" ELSE "active"

(* The session is not there, or it is too old and, if a user's, it goes.   *)
Invalid(p, s, t) == /\ ~ Valid(s, t)
                    /\ session' = Without(s)
                    /\ Answers(p, "invalid", NoSid) /\ UNCHANGED data

FindBySessionToken(p, s) == \E t \in During(p) :
  \/ Invalid(p, s, t)
  \/ Valid(s, t) /\ Answers(p, Status(s, t), NoSid) /\ UNCHANGED <<session, data>>

Updated(old, dirs) == [k \in Key |-> IF dirs[k] = Keep THEN old[k] ELSE dirs[k]]

UpdateSessionData(p, s, dirs) == \E t \in During(p) :
  \/ Invalid(p, s, t)
  \/ /\ Valid(s, t) /\ (OfUser(s) \/ dirs = None)
     /\ \E t2 \in t .. now : session' = [session EXCEPT ![s].lastAccessAt = t2]
     /\ data' = IF OfUser(s)
                THEN [data EXCEPT ![session[s].user] = Updated(@, dirs)] ELSE data
     /\ Answers(p, "ok", NoSid)
  \/ /\ Valid(s, t) /\ ~ OfUser(s) /\ dirs # None
     /\ Answers(p, "panic", NoSid) /\ UNCHANGED <<session, data>>

(* A session before login is renewed by the terms of a user's session.     *)
RenewSession(p, s) == \E t \in During(p) :
  /\ UNCHANGED data
  /\ \/ /\ session[s] # NoSession => Age(s, t) > AbsoluteTimeout
        /\ session' = Without(s) /\ Answers(p, "invalid", NoSid)
     \/ /\ session[s] # NoSession /\ Age(s, t) <= AbsoluteTimeout
        /\ \/ ~ Idling(s, t) /\ Answers(p, "ok", s) /\ UNCHANGED session
           \/ /\ Idling(s, t)
              /\ \E n \in Unused : /\ session' = Moved(s, n, session[s])
                                   /\ Answers(p, "ok", n)

Answered(p) ==
  LET c == asked[p] IN
  /\ c # NoCall
  /\ \/ c.op = "StartLogin"   /\ StartLogin(p)
     \/ c.op = "AddLoginInfo" /\ AddLoginInfo(p, c.sid)
     \/ c.op = "StartSession" /\ StartSession(p, c.sid, c.user)
     \/ c.op = "Logout"       /\ Logout(p, c.sid)
     \/ c.op = "FindBySessionToken" /\ FindBySessionToken(p, c.sid)
     \/ c.op = "UpdateSessionData"  /\ UpdateSessionData(p, c.sid, c.dirs)
     \/ c.op = "RenewSession" /\ RenewSession(p, c.sid)

Operation == {"StartLogin", "AddLoginInfo", "StartSession", "Logout",
              "FindBySessionToken", "UpdateSessionData", "RenewSession"}

Next == \/ Tick \/ Wait
        \/ \E p \in Proc :
             \/ Answered(p)
             \/ \E op \in Operation, s \in Sid \cup {NoSid},
                   u \in User \cup {NoUser},
                   dirs \in [Key -> Value \cup {NoValue, Keep}] :
                  Ask(p, op, s, u, dirs)

Spec == Init /\ [][Next]_vars
=============================================================================
