------------------------------ MODULE MCWorker ------------------------------
(* Instances of Worker for TLC. *)
EXTENDS Worker

CONSTANTS q1, q2, q3, q4

ThreeRequests == {q1, q2, q3}
FourRequests == {q1, q2, q3, q4}

\* One of each kind: the others go through the same stages.
KindsOfRoutes == {"livez", "readyz", "users", "user", "login", "refresh"}
=============================================================================
