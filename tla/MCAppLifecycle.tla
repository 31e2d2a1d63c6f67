---------------------------- MODULE MCAppLifecycle ----------------------------
(* The instances of AppLifecycle that TLC checks. *)
EXTENDS AppLifecycle, TLC

LifecycleSymmetry == Permutations(Conns) \cup Permutations(Jobs)
=============================================================================
