----------------------------- MODULE MCMsgRing -----------------------------
(* Every profile and mode, batches of two messages; the smoke size is one   *)
(* batch and the round size two, so that a CQE can stray into another batch *)
(* and into another round.                                                  *)
EXTENDS MsgRing
=============================================================================
