---------------------------- MODULE MCAccounts ----------------------------
(* Small instances of Accounts. *)
EXTENDS Accounts, TLC

CONSTANTS u1, u2, u3, c1, c2

Symmetry == Permutations({u1, u2, u3}) \cup Permutations({c1, c2})
===========================================================================
