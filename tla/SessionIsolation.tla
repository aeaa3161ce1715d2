-------------------------- MODULE SessionIsolation --------------------------
(***************************************************************************)
(* SessionStorage as long as its callers keep apart: no call begins while  *)
(* another one works on the same session, or for the same user, and none   *)
(* is given the id of a session that is still being created.  Then each    *)
(* operation, for all its document store calls, is the single step that    *)
(* SessionAPI says it is.                                                  *)
(***************************************************************************)
EXTENDS SessionStorage, FiniteSets

CONSTANT NoCall

(* There are 2^122 UUIDs of the kind that is drawn.                        *)
ASSUME SidAssumption == IsFiniteSet(Sid)
ASSUME NoCallAssumption ==
  NoCall \notin [op : Operation, sid : Sid \cup {NoSid}, user : Owner,
                 dirs : Directives, since : Nat]

VARIABLE before  \* before[p]: the session and data p's call found, and when

isoVars == <<vars, before>>

Running == {p \in Proc : call[p].pc # "idle"}

(* The session ids and the users that a call works on.                     *)
SidsOf(c)  == {c.sid, c.new} \ {NoSid}
UsersOf(c) == ({c.user} \cup {origin[s].user : s \in {t \in {c.sid} : Owned(t)}})
              \ {NoUser}

Apart(c, d) == SidsOf(c) \cap SidsOf(d) = {} /\ UsersOf(c) \cap UsersOf(d) = {}

DataOf(u) == IF userSes[u] = NoDoc THEN [k \in Key |-> NoValue] ELSE userSes[u].data

(* UUIDs do not run out.                                                   *)
DrawsId(c) == c.op \in {"StartLogin", "AddLoginInfo", "StartSession", "RenewSession"}
IdsLeft(c) ==
  DrawsId(c) => Cardinality({q \in Running : DrawsId(call[q]) /\ call[q].new = NoSid})
                < Cardinality(Fresh)

IsoInit == Init /\ before = [p \in Proc |-> NoCall]

IsoStart(p) ==
  /\ Start(p) /\ call'[p].sid \in known \cup {NoSid} /\ IdsLeft(call'[p])
  /\ \A q \in Running : Apart(call'[p], call[q])
  /\ before' = [before EXCEPT ![p] =
       [single |-> [s \in SidsOf(call'[p]) |-> single[s]],
        data   |-> [u \in UsersOf(call'[p]) |-> DataOf(u)], since |-> now]]

IsoStep(p) ==
  /\ Step(p)
  /\ before' = IF call'[p].pc = "idle" THEN [before EXCEPT ![p] = NoCall] ELSE before

IsoNext == \/ Tick /\ UNCHANGED before
           \/ \E p \in Proc : IsoStart(p) \/ IsoStep(p)

IsoSpec == IsoInit /\ [][IsoNext]_isoVars

-----------------------------------------------------------------------------
(* What a caller may take for the state: what a call under way found is    *)
(* still there, and what it creates is not there yet.                      *)
Sessions == [s \in Sid |->
  IF \E p \in Running : call[p].sid = s
  THEN before[CHOOSE p \in Running : call[p].sid = s].single[s]
  ELSE IF \E p \in Running : call[p].new = s THEN NoDoc ELSE single[s]]

UserData == [u \in User |->
  IF \E p \in Running : u \in UsersOf(call[p])
  THEN before[CHOOSE p \in Running : u \in UsersOf(call[p])].data[u]
  ELSE DataOf(u)]

Asked == [p \in Proc |->
  IF p \notin Running THEN NoCall
  ELSE [op |-> call[p].op, sid |-> call[p].sid, user |-> call[p].user,
        dirs |-> call[p].dirs, since |-> before[p].since]]

API == INSTANCE SessionAPI WITH session <- Sessions, data <- UserData,
                                asked <- Asked, NoSession <- NoDoc

(* Calls that work on different sessions and users are atomic: the answer  *)
(* and the effect of each are those of one step of the interface, with the *)
(* clock of that time, whatever the others do between its store calls.     *)
ActsAtOnce == API!Spec
=============================================================================
