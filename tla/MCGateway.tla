------------------------------ MODULE MCGateway ------------------------------
(* Instances of Gateway, and of the rate limiter within it, for TLC. *)
EXTENDS Gateway

CONSTANTS q1, q2

TwoRequests == {q1, q2}
=============================================================================
