---------------------------- MODULE MCFutexRound ----------------------------
(* Two scalar slots, one vector of three words woken at its last, two cycles *)
(* per round; every profile and mode.                                        *)
EXTENDS FutexRound

AllRuns == (PointProfiles \X {"point"}) \cup (SmokeProfiles \X {"smoke"})
VectorRuns == {"v0_waitv_wake"} \X {"point", "smoke"}
FullKernel == {Opcodes}
\* Every opcode, or all but one, which each gate must notice or not need.
LackingKernels == {Opcodes} \cup {Opcodes \ {op} : op \in Opcodes}
=============================================================================
