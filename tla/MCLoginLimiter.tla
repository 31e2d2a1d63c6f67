---------------------------- MODULE MCLoginLimiter ----------------------------
(* LoginLimiter on small instances. *)
EXTENDS LoginLimiter, TLC

\* Clients and requests are interchangeable.
LimiterSymmetry == Permutations(Clients) \cup Permutations(Requests)
=============================================================================
