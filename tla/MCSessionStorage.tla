-------------------------- MODULE MCSessionStorage --------------------------
(* Instances of SessionStorage for TLC.                                    *)
EXTENDS SessionStorage, TLC

CONSTANTS p1, p2, s1, s2, s3, u1, k1, v1,
          Letter, Longest  \* of the header fields, see Directives

TwoProcs == {p1, p2}
OneSid   == {s1}
TwoSids  == {s1, s2}
ThreeSids == {s1, s2, s3}
OneUser  == {u1}
OneKey   == {k1}
NoKeys   == {}
OneValue == {v1}

(* What the handlers use up to the end of a login.                         *)
LoginOps == {"StartLogin", "AddLoginInfo", "StartSession", "FindBySessionToken"}
(* What touches the data of logged-in users.                               *)
DataOps == {"StartSession", "Logout", "FindBySessionToken", "UpdateSessionData"}
(* The same, where only a lookup or an update can log a session out.       *)
RequestOps == DataOps \ {"Logout"}

(* The ids are drawn from a set and the processes run the same code.       *)
Symmetry == Permutations(TwoProcs) \cup Permutations(ThreeSids)

OneLetter == {"a"}
Fields == INSTANCE Directives WITH Invalid <- NoValue

ASSUME FieldsAssumption == /\ " " \notin Letter /\ "=" \notin Letter /\ Longest \in Nat
                           /\ NoValue \notin Fields!Directive

AtStart == now = 0 /\ known = {} /\ reply = "none" /\ \A p \in Proc : call[p] = Idle

(* What the service writes into Wru-Set-Session-Data is what becomes of    *)
(* the session data (README.md:118-125), for two fields of a response in   *)
(* their order; a value with "=" only after a blank before its own "=".    *)
DirectivesAreStored == AtStart => Fields!StoredAsWritten
=============================================================================
