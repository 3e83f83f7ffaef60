------------------------------ MODULE MCClaims ------------------------------
(* Claims for TLC.  Ids of config entries may be swapped: the order of     *)
(* set-up is a variable.                                                   *)
EXTENDS Claims, TLC
CONSTANTS e1, e2, e3, c1, c2

Swaps == Permutations(Entries) \cup Permutations(Clients)
=============================================================================
