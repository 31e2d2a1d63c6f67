------------------------------ MODULE MCAccounts ------------------------------
(* Accounts on small instances. *)
EXTENDS Accounts, TLC

CONSTANTS m1, m2, i1, i2

\* i1 is vouched for under two addresses and i2 for one of them, so two callbacks may
\* race for one account, and one identity for two.  i2 only ever claims m2.
MCVouches == {<<i1, m1>>, <<i1, m2>>, <<i2, m1>>}

\* Requests are interchangeable.
AccountsSymmetry == Permutations(Requests)
=============================================================================
