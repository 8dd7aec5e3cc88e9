--------------------------- MODULE MCRefreshTokens ---------------------------
(* TLC instances of RefreshTokens: one user, a few logins and refreshes. *)
EXTENDS RefreshTokens, TLC

CONSTANTS t1, t2, t3, t4, f1, f2, u1, c1, c2

ThreeTokens == {t1, t2, t3}
FourTokens == {t1, t2, t3, t4}
TwoFamilies == {f1, f2}
OneUser == {u1}
TwoCalls == {c1, c2}

Symmetry == Permutations(FourTokens) \cup Permutations(TwoFamilies) \cup Permutations(TwoCalls)
=============================================================================
