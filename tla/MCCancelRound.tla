--------------------------- MODULE MCCancelRound ---------------------------
(* Two polls, one decoy and two batches per round; every profile and mode.  *)
EXTENDS CancelRound

AllRuns == (AllProfiles \X {"smoke", "point"}) \ {<<"p0_prep", "point">>}
=============================================================================
