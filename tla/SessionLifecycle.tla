-------------------------- MODULE SessionLifecycle --------------------------
(***************************************************************************)
(* What the session storage of wru promises about one session id, whatever *)
(* the calls that race on it: an id is opened once, for a login that does  *)
(* not change while the id lives, it is closed once, and it never comes    *)
(* back.  A login keeps its start time when it moves to another id.        *)
(***************************************************************************)
EXTENDS Naturals

CONSTANTS Sid,      \* session ids
          User,     \* user ids
          NoUser,   \* the owner "" of a session before login
          NoTicket  \* the ticket of an id nobody has opened

VARIABLES now,      \* the clock
          phase,    \* phase[s]: has s been opened, has it been closed
          ticket    \* ticket[s]: the login s stands for (kept once s is closed)

vars == <<now, phase, ticket>>

Ticket == [user : User \cup {NoUser}, loginAt : Nat]

Init == /\ now = 0
        /\ phase  = [s \in Sid |-> "fresh"]
        /\ ticket = [s \in Sid |-> NoTicket]

(* A login starts, or a user is authenticated, now.                        *)
Open(s, u) == /\ phase[s] = "fresh"
              /\ phase'  = [phase EXCEPT ![s] = "open"]
              /\ ticket' = [ticket EXCEPT ![s] = [user |-> u, loginAt |-> now]]
              /\ UNCHANGED now

(* The login known under the id o goes on under the new id s.              *)
Carry(s, o) == /\ phase[s] = "fresh"
               /\ phase[o] # "fresh"
               /\ phase'  = [phase EXCEPT ![s] = "open"]
               /\ ticket' = [ticket EXCEPT ![s] = ticket[o]]
               /\ UNCHANGED now

Close(s) == /\ phase[s] = "open"
            /\ phase' = [phase EXCEPT ![s] = "closed"]
            /\ UNCHANGED <<now, ticket>>

Tick == now' = now + 1 /\ UNCHANGED <<phase, ticket>>

Next == \/ \E s \in Sid : \/ \E u \in User \cup {NoUser} : Open(s, u)
                          \/ \E o \in Sid : Carry(s, o)
                          \/ Close(s)
        \/ Tick

Spec == Init /\ [][Next]_vars
=============================================================================
