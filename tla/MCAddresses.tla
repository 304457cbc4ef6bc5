---------------------------- MODULE MCAddresses ----------------------------
(* Symmetry of Addresses for TLC: the users are not interchangeable.          *)
EXTENDS Addresses, TLC

Symmetry == Permutations(Requests) \union Permutations(AddrIds)
=============================================================================
