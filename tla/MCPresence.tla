----------------------------- MODULE MCPresence -----------------------------
(* Presence for TLC: two routers and one client, whose tracker the first owns. *)
EXTENDS Presence
CONSTANTS r1, r2, c1

OwnerByOne == [c \in Clients |-> r1]
=============================================================================
