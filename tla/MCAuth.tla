------------------------------- MODULE MCAuth -------------------------------
(* Small instances of Auth: one account, reachable under its name or not.  *)
EXTENDS Auth, TLC

CONSTANTS r1, r2, r3, r4, admin, name, bogus

MCAccountOf == [n \in Names |-> IF n = bogus THEN None ELSE admin]

MCSymmetry == Permutations(Requests) \cup Permutations(Passwords)
=============================================================================
