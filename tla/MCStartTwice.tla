---------------------------- MODULE MCStartTwice ----------------------------
(* An instance of SessionStorage with a history of the sessions that a     *)
(* StartSession has gone on from, as its caller was told.                  *)
EXTENDS MCSessionStorage

VARIABLE started  \* history: the ids that a StartSession took and returned ok for

StartsOk(p) == /\ call[p].op = "StartSession" /\ call[p].sid # NoSid
               /\ Returns(p, "ok")

StartTwiceInit == Init /\ started = {}

StartTwiceNext ==
  /\ Next
  /\ started' = started \cup {call[p].sid : p \in {q \in Proc : StartsOk(q)}}

StartTwiceSpec == StartTwiceInit /\ [][StartTwiceNext]_<<vars, started>>

(* A second StartSession of the same session fails                         *)
(* (TestLoginFail_StartSessionTwice, sessionstorage_test.go:91-109): two   *)
(* calls that are given one session id do not both return a session.       *)
StartSessionOnce ==
  [][\A p \in Proc : StartsOk(p) => call[p].sid \notin started]_<<vars, started>>
=============================================================================
