--------------------------- MODULE MCMemmapRound ---------------------------
(* Every profile and mode; a point run has a warm-up and a measured round.  *)
EXTENDS MemmapRound
=============================================================================
