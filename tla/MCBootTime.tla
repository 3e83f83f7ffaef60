----------------------------- MODULE MCBootTime -----------------------------
(* BootTime for TLC.                                                       *)
EXTENDS BootTime

\* the clock is right, or fast or slow by more than the tolerance
Clocks == {-3, 0, 3}
=============================================================================
