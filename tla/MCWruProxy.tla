----------------------------- MODULE MCWruProxy -----------------------------
(* Instances of WruProxy for TLC.                                          *)
EXTENDS WruProxy, TLC

CONSTANTS p1, p2, s1, s2, s3, s4, s5, u1, u2, u3, b1, b2, v1, pg1

TwoProcs   == {p1, p2}
TwoSids    == {s1, s2}
ThreeSids  == {s1, s2, s3}
FiveSids   == {s1, s2, s3, s4, s5}
OneUser    == {u1}
TwoUsers   == {u1, u2}
ThreeUsers == {u1, u2, u3}
NoKeys     == {}
OneValue   == {v1}
OnePage    == {pg1}
OneBrowser == {b1}
TwoBrowsers == {b1, b2}

(* One browser with two requests under way, or two browsers.               *)
SameBrowser == [p \in TwoProcs |-> b1]
OwnBrowser  == (p1 :> b1) @@ (p2 :> b2)
Registered  == [b \in Browser |-> u1]
Unregistered == [b \in Browser |-> NoUser]
TwoPersons  == (b1 :> u1) @@ (b2 :> u2)

LoginKinds   == {"page", "login", "user", "federated", "callback"}
PersonKinds  == {"favicon", "federated", "callback"}
SessionKinds == {"favicon", "debug", "logout", "session_logout"}

(* RenewSession has no caller.                                             *)
HandlerOps == Operation \ {"RenewSession"}

FlowSymmetry == Permutations(Sid) \cup Permutations(TwoProcs)
SwapBrowsers == (p1 :> p2) @@ (p2 :> p1) @@ (b1 :> b2) @@ (b2 :> b1)
SwapPersons  == SwapBrowsers @@ (u1 :> u2) @@ (u2 :> u1)
PersonSymmetry  == Permutations(Sid) \cup {SwapPersons}
SessionSymmetry == Permutations(Sid) \cup Permutations(User) \cup {SwapBrowsers}
=============================================================================
