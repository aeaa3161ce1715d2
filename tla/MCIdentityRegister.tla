-------------------------- MODULE MCIdentityRegister --------------------------
(* An instance of IdentityRegister for TLC; its tables are what the parser *)
(* makes of some files.                                                    *)
EXTENDS IdentityRegister, UserTable

SomeHeaders == {"id", "userid", "mail", "email", "scope", "scopes", "twitter",
                "github", "memo"}
SomePieces  == {"", "x"}

u1 == <<"u1">>
u2 == <<"u2">>
a1 == [Service |-> "twitter", Account |-> <<"a1">>]
a2 == [Service |-> "github", Account |-> <<"a2">>]
TwoUsers    == {u1, u2}
TwoAccounts == {a1, a2, [a1 EXCEPT !.Account = Blank], [a2 EXCEPT !.Account = Blank]}

Rows(us) ==
  [i \in DOMAIN us |->
     [UserID |-> us[i].UserID,
      FederatedUserAccounts |-> ToSet(us[i].FederatedUserAccounts)]]

(* A user, an account that changes hands to a second user, a user with two *)
(* rows and a row without user.                                            *)
SomeTables == {Rows(t) : t \in
  {parseUsersFromBlob(<<"id", "twitter">>, <<<<u1, <<"a1">>>>>>),
   parseUsersFromBlob(<<"userid", "github", "twitter">>,
                      <<<<u1, <<"a2">>, Blank>>, <<u2, <<"a2">>, <<"a1">>>>>>),
   parseUsersFromBlob(<<"twitter", "id", "github">>,
                      <<<<<<"a1">>, u1, Blank>>, <<<<"a1">>, Blank, Blank>>,
                        <<Blank, u1, <<"a2">>>>>>)}}

DevUsers == Rows(<<parseUserFromEnv(<<<<"id", "u2">>, <<"github", "a2">>>>)>>)
-----------------------------------------------------------------------------
Starting == loop = "waiting" /\ written = {file} /\ faults = 0 /\ ~ cancelled

(* Whoever starts wru may write a user into the table or into a variable   *)
(* (README.md:178-188): the register gets the same user, whatever the      *)
(* names and the order of the columns, and the blank cells.                *)
EnvAgreesWithTable == Starting => ParsersAgree
=============================================================================
