---------------------------- MODULE MCRateLimiter ----------------------------
(***************************************************************************)
(* The rate limiter on a small instance: two addresses and a table that is *)
(* full with one.                                                          *)
(***************************************************************************)
EXTENDS RateLimiter, TLC

Symmetry == Permutations(Request) \cup Permutations(Address)

=============================================================================
