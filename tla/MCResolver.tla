----------------------------- MODULE MCResolver -----------------------------
(* Instances of Resolver for TLC.                                          *)
EXTENDS Resolver, TLC

CONSTANTS q1, q2, c1

OneQuery == {q1}
TwoQueries == {q1, q2}
OneStream == {c1}
NoGoroutines == {}
=============================================================================
