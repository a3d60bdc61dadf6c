-------------------------- MODULE MCSchedControl --------------------------
(* Two rounds, so that one can be mixed up with the next; four calls, so    *)
(* that each controller has two turns.                                      *)
EXTENDS SchedControl
=============================================================================
