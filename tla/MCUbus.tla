------------------------------- MODULE MCUbus -------------------------------
(* Ubus for TLC: calls whose method the ACL allows are interchangeable.    *)
EXTENDS Ubus, TLC
CONSTANTS k1, k2

Swaps == Permutations(Calls \ Denied)
=============================================================================
