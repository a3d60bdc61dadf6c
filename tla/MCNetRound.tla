---------------------------- MODULE MCNetRound ----------------------------
(* Two messages per batch and twice as many buffers; a payload repeats      *)
(* after a call, and the buffer ring's indices wrap within the run.         *)
EXTENDS NetRound
=============================================================================
