----------------------------- MODULE MCRawRing -----------------------------
(* A ring of two SQEs and four CQEs with indices modulo 8: both rings wrap, *)
(* fill and drain many times.                                               *)
EXTENDS RawRing, TLC

ReqSymmetry == Permutations(Reqs)
=============================================================================
