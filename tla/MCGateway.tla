------------------------------ MODULE MCGateway ------------------------------
(* Instances of Gateway for TLC.                                           *)
EXTENDS Gateway

CONSTANTS p1, p2, u1, u2, sc1, sc2, a1

TwoProcs == {p1, p2}
TwoUsers == {u1, u2}
TwoScopes == {sc1, sc2}
OneProc == {p1}
OneAccount == {a1}

Env(idps, storage) == [valid |-> TRUE, DevMode |-> FALSE, idps |-> idps,
                       storage |-> storage, cert |-> "none"]
Production == Env({"github", "oidc"}, "docstore")

(* Two that serve on the same documents, with different providers, one     *)
(* without documents, one in DevMode, and those that do not serve.         *)
SomeEnvironments ==
  {Production, Env({"twitter"}, "docstore"), Env({"github"}, "memory"),
   Env({"oidc"}, "docstore"), [Production EXCEPT !.DevMode = TRUE],
   [Production EXCEPT !.valid = FALSE], [Production EXCEPT !.cert = "bad"]}

Of(id, sc) == [UserID |-> id, Scopes |-> sc]
NoRows == [x \in Provider \X {a1, Blank} |-> NoUser]

(* The user's scopes change, the account at GitHub changes hands, and a    *)
(* user has no account at Twitter.                                         *)
SomeTables ==
  {[NoRows EXCEPT ![<<"twitter", a1>>] = Of(u1, sc1), ![<<"github", a1>>] = Of(u1, sc1),
                  ![<<"oidc", a1>>] = Of(u1, sc1)],
   [NoRows EXCEPT ![<<"twitter", a1>>] = Of(u1, sc2), ![<<"github", a1>>] = Of(u2, sc1),
                  ![<<"twitter", Blank>>] = Of(u2, sc1)]}
=============================================================================
