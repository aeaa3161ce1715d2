------------------------- MODULE MCSessionIsolation -------------------------
(* An instance of SessionIsolation for TLC.                                *)
EXTENDS MCSessionStorage, SessionIsolation

CONSTANT u2

TwoUsers == {u1, u2}

UserSymmetry == Symmetry \cup Permutations(TwoUsers)
=============================================================================
