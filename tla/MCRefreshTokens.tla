--------------------------- MODULE MCRefreshTokens ---------------------------
(* Instances of RefreshTokens for TLC. *)
EXTENDS RefreshTokens, TLC

CONSTANTS u1, u2, t1, t2, t3, q1, q2, q3, q4

OneUser == {u1}
TwoUsers == {u1, u2}
ThreeTokens == {t1, t2, t3}
ThreeRequests == {q1, q2, q3}
FourRequests == {q1, q2, q3, q4}

\* Users, tokens and requests are interchangeable.
Symmetry == Permutations(User) \cup Permutations(Token) \cup Permutations(Request)
=============================================================================
