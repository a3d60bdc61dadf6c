----------------------------- MODULE FutexRound -----------------------------
(***************************************************************************)
(* io_uring_futex_round.c: rounds of io_uring futex requests.  A cycle of  *)
(* s0/c0 submits scalar waits and then wakes or cancels them; a cycle of   *)
(* v0 submits wait vectors, wakes one word of each and afterwards probes   *)
(* for residual waiters; z0, e0 and n0 submit single requests that complete*)
(* at once.  l0 closes a ring that has just run an s0 cycle.               *)
(*                                                                         *)
(* The kernel's futex side is external: a wait is registered on its words, *)
(* a wake claims one registered wait, and the claimed request leaves its   *)
(* other words only when its completion is processed, some time later.     *)
(***************************************************************************)
EXTENDS Integers, FiniteSets, Bags

CONSTANTS
    Runs,          \* set of <<profile, mode>> pairs to run
    SCALAR_SLOTS, WAITV_GROUPS, WAITV_WIDTH, WAITV_WAKE_INDEX,
    CYCLES,        \* cycles per round
    WARMUP_ROUNDS, MEASURED_ROUNDS,
    Kernels,       \* sets of opcodes that a kernel may support
    Faults,        \* the kinds of kernel fault considered
    MaxFaults,     \* bound: kernel faults per run
    Slow,          \* TRUE: a wait may end before its completions are there
    Signals        \* TRUE: SIGINT or SIGTERM may arrive

PointProfiles == {"s0_wait_wake", "c0_wait_cancel", "v0_waitv_wake"}
SmokeProfiles == PointProfiles \cup {"z0_zero_wake", "e0_mismatch", "n0_nop",
                                     "l0_lifecycle"}

Opcodes == {"NOP", "FUTEX_WAIT", "FUTEX_WAKE", "FUTEX_WAITV", "ASYNC_CANCEL"}

ECANCELED == -125
EAGAIN == -11
ENOENT == -2
EINTR == -4
EOTHER == -1    \* any result or flags no kernel should produce here

\* parse_options allows point mode for three profiles only.
ASSUME FutexAssumption ==
    /\ Runs \subseteq (PointProfiles \X {"point"}) \cup (SmokeProfiles \X {"smoke"})
    /\ SCALAR_SLOTS \in Nat \ {0} /\ WAITV_GROUPS \in Nat \ {0}
    /\ WAITV_WIDTH \in Nat /\ WAITV_WAKE_INDEX \in 1..WAITV_WIDTH-1
    /\ CYCLES \in Nat \ {0}
    /\ Kernels \subseteq SUBSET Opcodes
    /\ WARMUP_ROUNDS \in Nat /\ MEASURED_ROUNDS \in Nat \ {0}
    /\ Faults \subseteq {"lose", "wrong", "spurious", "residual", "short"}
    /\ MaxFaults \in Nat /\ Slow \in BOOLEAN /\ Signals \in BOOLEAN

VARIABLES
    run,           \* the <<profile, mode>> of the command line
    pc, stage,     \* stage: "pair" or "check", whose completions are awaited
    round, cycle,
    stop_requested, rows, exitOk,
    expected, missing, \* what wait_and_copy asks for, and its second wait
    supported,     \* kernel: opcodes it supports
    waiters,       \* kernel: <<tag, word>> for each registration of a wait
    posting,       \* kernel: completions on their way to the CQ
    cq,            \* bag of CQEs in the completion ring
    faults,        \* kernel faults so far
    submitted,     \* history: opcodes submitted
    copy,          \* bag of CQEs of the last wait_and_copy
    reaped         \* history: the CQEs copied in this round, as a bag

ctlVars  == <<run, supported, round, rows, exitOk>>
waitVars == <<expected, missing>>
kernVars == <<waiters, posting, cq, faults>>
histVars == <<submitted, reaped>>
vars == <<ctlVars, pc, stage, cycle, stop_requested, waitVars, kernVars, copy,
          histVars>>

profile == run[1]
mode == run[2]

\* l0 runs one untimed s0 cycle outside any round.
cycles == IF profile = "l0_lifecycle" THEN 1 ELSE CYCLES
Slots == IF profile = "v0_waitv_wake" THEN 0..WAITV_GROUPS-1 ELSE 0..SCALAR_SLOTS-1

\* The cycle number given to make_tag counts over all rounds.
make_tag(kind, i) == <<kind, round * CYCLES + cycle, i>>
tag_kind(t) == t[1]
tag_index(t) == t[3]

\* The words: one per slot, or WAITV_WIDTH consecutive ones per group.
Word(group, i) == IF profile = "v0_waitv_wake" THEN <<group, i>> ELSE <<group, 0>>
Words(group) == {Word(group, i) : i \in 0..WAITV_WIDTH-1}

available == BagCardinality(cq)

Init ==
    /\ run \in Runs /\ supported \in Kernels
    /\ pc = "gate" /\ stage = "pair"
    /\ round = 0 /\ cycle = 0
    /\ stop_requested = FALSE /\ rows = 0 /\ exitOk = FALSE
    /\ expected = 0 /\ missing = 0
    /\ waiters = {} /\ posting = {} /\ cq = EmptyBag /\ faults = 0
    /\ copy = EmptyBag /\ submitted = {} /\ reaped = EmptyBag

-----------------------------------------------------------------------------
(* The kernel                                                              *)

MayFail(kind) == kind \in Faults /\ faults < MaxFaults /\ faults' = faults + 1

\* Processing a completion takes the request off all of its words, then posts
\* its CQE.
KernelPost(c) ==
    /\ c \in posting
    /\ posting' = posting \ {c}
    /\ cq' = cq (+) SetToBag({c})
    /\ \/ waiters' = {w \in waiters : w[1] # c[1]} /\ UNCHANGED faults
       \/ \E w \in waiters :           \* a word is left behind
             /\ w[1] = c[1] /\ MayFail("residual")
             /\ waiters' = {v \in waiters : v[1] # c[1]} \cup {w}
    /\ UNCHANGED <<ctlVars, pc, stage, cycle, stop_requested, waitVars, copy, histVars>>

KernelFault ==
    /\ \/ MayFail("lose") /\ (\E c \in posting : posting' = posting \ {c})
          /\ UNCHANGED waiters
       \/ MayFail("wrong") /\ (\E c \in posting :
                posting' = (posting \ {c}) \cup {<<c[1], EOTHER>>})
          /\ UNCHANGED waiters
       \/ MayFail("spurious") /\ (\E w \in waiters :
                /\ ~\E c \in posting : c[1] = w[1]
                /\ posting' = posting \cup {<<w[1], EINTR>>}
                /\ waiters' = {v \in waiters : v[1] # w[1]})
    /\ UNCHANGED <<ctlVars, pc, stage, cycle, stop_requested, waitVars, cq, copy, histVars>>

\* A wake of one word (nr_wake = 1) finds some request registered there and
\* claims it, unless an earlier wake already did; it counts one either way.
\* pick says which registration each wake finds.
WakeAll(word, own) ==
    LET at(g) == {w \in waiters : w[2] = word[g]}
        woken == {g \in Slots : at(g) # {}}
        done  == {c[1] : c \in posting}
    IN  \E pick \in [woken -> waiters] :
          /\ \A g \in woken : pick[g] \in at(g)
          /\ posting' = posting
                \cup {<<pick[g][1], pick[g][2][2]>> :
                            g \in {h \in woken : pick[h][1] \notin done}}
                \cup {<<own[g], IF g \in woken THEN 1 ELSE 0>> : g \in Slots}
          /\ waiters' = waiters \ {pick[g] : g \in woken}

Signal ==
    /\ Signals /\ ~stop_requested /\ pc # "exited"
    /\ stop_requested' = TRUE
    /\ UNCHANGED <<ctlVars, pc, stage, cycle, waitVars, kernVars, copy, histVars>>

-----------------------------------------------------------------------------
(* One cycle                                                               *)

\* Mutant: the gate of a vector cycle does not ask for vector waits.
Required_NoWaitv ==
    CASE profile = "n0_nop" -> {"NOP"}
      [] profile = "v0_waitv_wake" -> {"FUTEX_WAIT", "FUTEX_WAKE"}
      [] profile = "c0_wait_cancel" -> {"ASYNC_CANCEL", "FUTEX_WAIT", "FUTEX_WAKE"}
      [] profile = "l0_lifecycle" -> {"FUTEX_WAIT", "FUTEX_WAKE", "FUTEX_WAITV"}
      [] OTHER -> {"FUTEX_WAIT", "FUTEX_WAKE"}

Required ==
    CASE profile = "n0_nop" -> {"NOP"}
      [] profile = "v0_waitv_wake" -> {"FUTEX_WAITV", "FUTEX_WAKE"}
      [] profile = "c0_wait_cancel" -> {"ASYNC_CANCEL", "FUTEX_WAIT", "FUTEX_WAKE"}
      [] profile = "l0_lifecycle" -> {"FUTEX_WAIT", "FUTEX_WAKE", "FUTEX_WAITV"}
      [] OTHER -> {"FUTEX_WAIT", "FUTEX_WAKE"}

\* capability_gate, and the probes of run_lifecycle for l0.
CapabilityGate ==
    /\ pc = "gate"
    /\ pc' = IF Required \subseteq supported THEN "cycle" ELSE "failed"
    /\ UNCHANGED <<ctlVars, stage, cycle, stop_requested, waitVars, kernVars,
                   copy, histVars>>

\* The first enter of a pair cycle: every word holds 0 as the waits expect, so
\* every wait is registered and none completes.
SubmitWaits ==
    /\ pc = "cycle" /\ profile \notin {"z0_zero_wake", "e0_mismatch", "n0_nop"}
    /\ waiters' = waiters \cup
          UNION {{make_tag("wait", g)} \X
                 (IF profile = "v0_waitv_wake" THEN Words(g) ELSE {Word(g, 0)}) :
                     g \in Slots}
    /\ submitted' = submitted \cup
          {IF profile = "v0_waitv_wake" THEN "FUTEX_WAITV" ELSE "FUTEX_WAIT"}
    /\ pc' = "second"
    /\ UNCHANGED <<ctlVars, stage, cycle, stop_requested, waitVars, posting, cq,
                   faults, copy, reaped>>

Own(kind) == [g \in Slots |-> make_tag(kind, g)]

\* Mutant: the completions of the woken waits are not counted.
SubmitWakes_WaitsForgotten ==
    /\ pc = "second" /\ profile # "c0_wait_cancel"
    /\ WakeAll([g \in Slots |-> Word(g, WAITV_WAKE_INDEX)], Own("wake"))
    /\ submitted' = submitted \cup {"FUTEX_WAKE"}
    /\ expected' = Cardinality(Slots)
    /\ stage' = "pair" /\ pc' = "sleep"
    /\ UNCHANGED <<ctlVars, cycle, stop_requested, missing, cq, faults, copy, reaped>>

\* The second enter wakes each slot, one word of it for a vector ...
SubmitWakes ==
    /\ pc = "second" /\ profile # "c0_wait_cancel"
    /\ WakeAll([g \in Slots |-> Word(g, WAITV_WAKE_INDEX)], Own("wake"))
    /\ submitted' = submitted \cup {"FUTEX_WAKE"}
    /\ expected' = 2 * Cardinality(Slots)
    /\ stage' = "pair" /\ pc' = "sleep"
    /\ UNCHANGED <<ctlVars, cycle, stop_requested, missing, cq, faults, copy, reaped>>

\* ... or cancels it by user_data, which for a futex wait counts one.
SubmitCancels ==
    /\ pc = "second" /\ profile = "c0_wait_cancel"
    /\ LET waits == {w[1] : w \in waiters}
       IN  posting' = posting
             \cup {<<make_tag("wait", g), ECANCELED>> :
                        g \in {h \in Slots : make_tag("wait", h) \in waits}}
             \cup {<<make_tag("cancel", g),
                     IF make_tag("wait", g) \in waits THEN 1 ELSE ENOENT>> : g \in Slots}
    /\ waiters' = {w \in waiters : ~\E g \in Slots : w[1] = make_tag("wait", g)}
    /\ submitted' = submitted \cup {"ASYNC_CANCEL"}
    /\ expected' = 2 * Cardinality(Slots)
    /\ stage' = "pair" /\ pc' = "sleep"
    /\ UNCHANGED <<ctlVars, cycle, stop_requested, missing, cq, faults, copy, reaped>>

\* Mutant: the check probes the word that was woken before.
SubmitChecks_SameWord ==
    /\ pc = "check"
    /\ WakeAll([g \in Slots |-> Word(g, WAITV_WAKE_INDEX)], Own("check"))
    /\ submitted' = submitted \cup {"FUTEX_WAKE"}
    /\ expected' = Cardinality(Slots)
    /\ stage' = "check" /\ pc' = "sleep"
    /\ UNCHANGED <<ctlVars, cycle, stop_requested, missing, cq, faults, copy, reaped>>

\* run_waitv_cycle's residual-waiter check wakes the first word of each vector.
SubmitChecks ==
    /\ pc = "check"
    /\ WakeAll([g \in Slots |-> Word(g, 0)], Own("check"))
    /\ submitted' = submitted \cup {"FUTEX_WAKE"}
    /\ expected' = Cardinality(Slots)
    /\ stage' = "check" /\ pc' = "sleep"
    /\ UNCHANGED <<ctlVars, cycle, stop_requested, missing, cq, faults, copy, reaped>>

\* run_single_cycle: wakes nobody waits for, waits on a word that holds 1, or
\* NOPs.
SingleKind ==
    CASE profile = "z0_zero_wake" -> <<"wake", 0, "FUTEX_WAKE">>
      [] profile = "e0_mismatch"  -> <<"wait", EAGAIN, "FUTEX_WAIT">>
      [] OTHER                    -> <<"nop", 0, "NOP">>
SubmitSingles ==
    /\ pc = "cycle" /\ profile \in {"z0_zero_wake", "e0_mismatch", "n0_nop"}
    /\ posting' = posting \cup {<<make_tag(SingleKind[1], g), SingleKind[2]>> : g \in Slots}
    /\ submitted' = submitted \cup {SingleKind[3]}
    /\ expected' = Cardinality(Slots)
    /\ stage' = "pair" /\ pc' = "sleep"
    /\ UNCHANGED <<ctlVars, cycle, stop_requested, missing, waiters, cq, faults,
                   copy, reaped>>

\* io_uring_enter takes fewer SQEs than asked for.
SubmitFails ==
    /\ pc \in {"cycle", "second", "check"}
    /\ MayFail("short")
    /\ pc' = "failed"
    /\ UNCHANGED <<ctlVars, stage, cycle, stop_requested, waitVars, waiters,
                   posting, cq, copy, histVars>>

-----------------------------------------------------------------------------
(* enter_ring, wait_and_copy                                               *)

SleepReturns ==
    /\ pc = "sleep"
    /\ available >= expected \/ Slow \/ stop_requested
    /\ pc' = "sample"
    /\ UNCHANGED <<ctlVars, stage, cycle, stop_requested, waitVars, kernVars,
                   copy, histVars>>

WaitAgain ==
    /\ pc = "sample" /\ available < expected
    /\ missing' = expected - available
    /\ pc' = "resleep"
    /\ UNCHANGED <<ctlVars, stage, cycle, stop_requested, expected, kernVars,
                   copy, histVars>>

\* Mutant: a wait that timed out is tried again.
ResleepReturns_Retries ==
    /\ pc = "resleep"
    /\ \/ available >= missing /\ pc' = "resample"
       \/ available < missing /\ (Slow \/ stop_requested) /\ pc' = "sample"
    /\ UNCHANGED <<ctlVars, stage, cycle, stop_requested, waitVars, kernVars,
                   copy, histVars>>

\* min_complete counts what is in the CQ already.
ResleepReturns ==
    /\ pc = "resleep"
    /\ \/ available >= missing /\ pc' = "resample"
       \/ available < missing /\ (Slow \/ stop_requested) /\ pc' = "failed"
    /\ UNCHANGED <<ctlVars, stage, cycle, stop_requested, waitVars, kernVars,
                   copy, histVars>>

Copy ==
    /\ pc \in {"sample", "resample"} /\ available = expected
    /\ copy' = cq /\ cq' = EmptyBag
    /\ reaped' = reaped (+) cq
    /\ pc' = "validate"
    /\ UNCHANGED <<ctlVars, stage, cycle, stop_requested, waitVars, waiters,
                   posting, faults, submitted>>

Discard ==
    /\ \/ pc = "sample" /\ available > expected
       \/ pc = "resample" /\ available # expected
    /\ cq' = EmptyBag
    /\ pc' = "failed"
    /\ UNCHANGED <<ctlVars, stage, cycle, stop_requested, waitVars, waiters,
                   posting, faults, copy, histVars>>

-----------------------------------------------------------------------------
(* Validation compares the kind and the index of a tag, not its cycle.     *)

Key(c) == <<tag_kind(c[1]), tag_index(c[1])>>

\* seen, and not a duplicate.
SeenOnce(k) ==
    \E c \in DOMAIN copy : /\ Key(c) = k /\ copy[c] = 1
                          /\ \A d \in DOMAIN copy \ {c} : Key(d) # k

\* Mutant: the result of a CQE is not compared.
Exactly_AnyResult(want) ==
    /\ \A c \in DOMAIN copy : Key(c) \in DOMAIN want
    /\ \A k \in DOMAIN want : SeenOnce(k)

Exactly(want) ==
    /\ \A c \in DOMAIN copy : Key(c) \in DOMAIN want /\ c[2] = want[Key(c)]
    /\ \A k \in DOMAIN want : SeenOnce(k)

PairWant ==
    LET second == IF profile = "c0_wait_cancel" THEN "cancel" ELSE "wake"
        waited == CASE profile = "c0_wait_cancel" -> ECANCELED
                    [] profile = "v0_waitv_wake" -> WAITV_WAKE_INDEX
                    [] OTHER -> 0
    IN  [k \in {"wait", second} \X Slots |-> IF k[1] = "wait" THEN waited ELSE 1]
SingleWant(kind, res) == [k \in {kind} \X Slots |-> res]

\* The end of a cycle in run_profile_round; l0 closes the ring instead.
EndCycle ==
    /\ cycle' = cycle + 1
    /\ pc' = CASE profile = "l0_lifecycle" -> "close"
               [] stop_requested /\ profile # "l0_lifecycle" -> "failed"
               [] ~stop_requested /\ cycle + 1 = cycles
                     /\ profile # "l0_lifecycle" -> "judge"
               [] OTHER -> "cycle"

Validating(want) ==
    /\ pc = "validate"
    /\ IF Exactly(want) THEN EndCycle ELSE pc' = "failed" /\ UNCHANGED cycle
    /\ UNCHANGED <<ctlVars, stage, stop_requested, waitVars, kernVars, copy, histVars>>

\* validate_pair_cqes in run_scalar_pair_cycle
ValidatePairs ==
    profile \in {"s0_wait_wake", "c0_wait_cancel", "l0_lifecycle"} /\ Validating(PairWant)

\* validate_single_cqes in run_single_cycle
ValidateSingles ==
    /\ profile \in {"z0_zero_wake", "e0_mismatch", "n0_nop"}
    /\ Validating(SingleWant(SingleKind[1], SingleKind[2]))

\* validate_pair_cqes and validate_single_cqes in run_waitv_cycle
ValidateVectors ==
    /\ pc = "validate" /\ profile = "v0_waitv_wake" /\ stage = "pair"
    /\ pc' = IF Exactly(PairWant) THEN "check" ELSE "failed"
    /\ UNCHANGED <<ctlVars, stage, cycle, stop_requested, waitVars, kernVars,
                   copy, histVars>>
ValidateChecks ==
    /\ profile = "v0_waitv_wake" /\ stage = "check"
    /\ Validating(SingleWant("check", 0))

-----------------------------------------------------------------------------
(* Rounds and the run                                                      *)

\* semantic_pass after the loop: no error was counted, so only what is left in
\* the rings can still fail the round.
Judge ==
    /\ pc = "judge"
    /\ pc' = CASE available # 0 -> "failed"
               [] available = 0 /\ mode = "point" /\ round < WARMUP_ROUNDS -> "next"
               [] OTHER -> "write"
    /\ UNCHANGED <<ctlVars, stage, cycle, stop_requested, waitVars, kernVars,
                   copy, histVars>>

\* run_lifecycle: closing the ring cancels what is left in it.
Close ==
    /\ pc = "close"
    /\ waiters' = {} /\ posting' = {} /\ cq' = EmptyBag
    /\ pc' = "write"
    /\ UNCHANGED <<ctlVars, stage, cycle, stop_requested, waitVars, faults,
                   copy, histVars>>

\* Mutant: one measured round too many.
write_result_OneMore ==
    /\ pc = "write"
    /\ rows' = rows + 1
    /\ pc' = IF mode = "smoke" \/ round = WARMUP_ROUNDS + MEASURED_ROUNDS
               THEN "destroy" ELSE "next"
    /\ UNCHANGED <<run, supported, round, exitOk, stage, cycle, stop_requested,
                   waitVars, kernVars, copy, histVars>>

write_result ==
    /\ pc = "write"
    /\ rows' = rows + 1
    /\ pc' = IF mode = "smoke" \/ round = WARMUP_ROUNDS + MEASURED_ROUNDS - 1
               THEN "destroy" ELSE "next"
    /\ UNCHANGED <<run, supported, round, exitOk, stage, cycle, stop_requested,
                   waitVars, kernVars, copy, histVars>>

\* Mutant: a stop request between two rounds ends the run as if it were done.
NextRound_StopIsDone ==
    /\ pc = "next"
    /\ round' = round + 1 /\ cycle' = 0
    /\ reaped' = EmptyBag
    /\ pc' = IF stop_requested THEN "destroy" ELSE "cycle"
    /\ UNCHANGED <<run, supported, rows, exitOk, stage, stop_requested, waitVars,
                   kernVars, copy, submitted>>

NextRound ==
    /\ pc = "next"
    /\ round' = round + 1 /\ cycle' = 0
    /\ reaped' = EmptyBag
    /\ pc' = "cycle"
    /\ UNCHANGED <<run, supported, rows, exitOk, stage, stop_requested, waitVars,
                   kernVars, copy, submitted>>

Exit ==
    /\ pc \in {"failed", "destroy"}
    /\ exitOk' = (pc = "destroy")
    /\ waiters' = {} /\ posting' = {} /\ cq' = EmptyBag
    /\ pc' = "exited"
    /\ UNCHANGED <<run, supported, round, rows, stage, cycle, stop_requested,
                   waitVars, faults, copy, histVars>>

Exited == pc = "exited" /\ UNCHANGED vars

Program ==
    \/ CapabilityGate \/ SubmitWaits \/ SubmitWakes \/ SubmitCancels
    \/ SubmitChecks \/ SubmitSingles \/ SleepReturns \/ WaitAgain
    \/ ResleepReturns \/ Copy \/ Discard \/ ValidatePairs \/ ValidateSingles
    \/ ValidateVectors \/ ValidateChecks \/ Judge \/ Close \/ write_result
    \/ NextRound \/ Exit

Next ==
    \/ Program
    \/ \E c \in posting : KernelPost(c)
    \/ KernelFault \/ SubmitFails \/ Signal
    \/ Exited

Fairness == WF_vars(Program) /\ WF_vars(\E c \in posting : KernelPost(c))

Spec == Init /\ [][Next]_vars /\ Fairness

-----------------------------------------------------------------------------
(* Properties                                                              *)

\* What a passing round must have reaped: of each of its cycles, every request
\* once, with the result it has to have.
Tagged(want) ==
    {<< <<k[1], round * CYCLES + c, k[2]>>, want[k] >> :
          k \in DOMAIN want, c \in 0..cycles-1}
WantedOfRound ==
    CASE profile \in {"s0_wait_wake", "c0_wait_cancel", "l0_lifecycle"} -> Tagged(PairWant)
      [] profile = "v0_waitv_wake" -> Tagged(PairWant) \cup Tagged(SingleWant("check", 0))
      [] OTHER -> Tagged(SingleWant(SingleKind[1], SingleKind[2]))

\* A row is written only for a round each of whose cycles reaped exactly its own
\* completions, whatever the kernel lost, got wrong or delayed.
RowSound == pc = "write" => reaped = SetToBag(WantedOfRound)

\* What the residual-waiter check of v0 does establish: no waiter is left on the
\* first word of any vector when the next cycle begins or the round is judged.
FirstWordsClean ==
    pc \in {"cycle", "judge"} => ~\E w \in waiters : w[2][2] = 0

\* run_waitv_cycle:749: "Prove that completion removed the seven residual waiters
\* per vector."  No waiter of a cycle is left on any word once it has passed.
ResidualsProven == pc \in {"cycle", "judge"} => waiters = {}

\* No request of an opcode the kernel does not support is ever submitted: the
\* gate and the probes of run_lifecycle cover what each profile goes on to use.
OnlySupported == submitted \subseteq supported

\* The kernel supports what the profile asks for and makes no mistake, no
\* signal arrives, and no wait ended early and was tried again.
Undisturbed ==
    Required \subseteq supported /\ faults = 0 /\ ~stop_requested /\ missing = 0

RowsDue == IF mode = "smoke" THEN 1 ELSE MEASURED_ROUNDS

\* Every wait is bounded by its timeout, so the process exits even if the
\* kernel loses completions; with status 0 only if every row the mode promises
\* was written, and surely with 0 where nothing disturbs it.
EndsHonestly ==
    <>(pc = "exited" /\ (Undisturbed => exitOk) /\ (exitOk => rows = RowsDue))
=============================================================================
