----------------------------- MODULE MCAccounts -----------------------------
(* Values of the constants of Accounts for TLC.                               *)
EXTENDS Accounts, TLC

CONSTANTS u1, u2, p1, p2, d1, d2

MCDigest == [p \in Passwords |-> IF p = p2 THEN d2 ELSE d1]
MCLowerUid == [u \in Uids |-> IF u = u2 THEN "u2" ELSE "u1"]
Symmetry == Permutations(Requests) \union Permutations(UserIds)
              \union Permutations(Emails)
=============================================================================
