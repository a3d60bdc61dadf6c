---------------------------- MODULE CancelRound ----------------------------
(***************************************************************************)
(* io_uring_cancel_round.c: the rounds of the async-cancel workload.  A    *)
(* round is a number of batches; a batch arms poll requests on an eventfd  *)
(* that is never signalled, proves them pending, cancels them (a0_hit,     *)
(* f0_fd_all, s0_sync) or cancels keys that do not exist (a0_miss), and    *)
(* validates every CQE.  The first failure abandons the run; a row is      *)
(* written only for a measured round whose semantic_pass is true.          *)
(*                                                                         *)
(* The kernel is external.  It takes what is submitted, posts completions  *)
(* in any order and at any time, and may fail up to MaxFaults times in one *)
(* of the ways the validation looks for.  wait_and_copy takes either all   *)
(* available CQEs or discards them all, so the CQ is a bag here; its order *)
(* and its indices are RawRing's subject.                                  *)
(***************************************************************************)
EXTENDS Integers, FiniteSets, Bags

CONSTANTS
    Runs,          \* set of <<profile, mode>> pairs to run
    PENDING,       \* target polls per batch
    DECOYS,        \* decoy polls per f0 batch
    BATCHES,       \* work_units: batches per round
    WARMUP_ROUNDS, MEASURED_ROUNDS,
    ROUND_TAGS, BATCH_TAGS,  \* 2^12 and 2^20: the widths make_tag masks to
    MaxFaults,     \* bound: kernel faults per run
    Slow,          \* TRUE: a wait may end before its completions are there
    Signals        \* TRUE: SIGINT or SIGTERM may arrive

AllProfiles == {"a0_hit", "a0_miss", "f0_fd_all", "s0_sync", "p0_prep"}

\* parse_options refuses point mode for p0_prep.  No run is so long that a mask of
\* make_tag makes two of its batches look the same.
ASSUME CancelAssumption ==
    /\ Runs \subseteq (AllProfiles \X {"smoke", "point"}) \ {<<"p0_prep", "point">>}
    /\ PENDING \in Nat \ {0} /\ DECOYS \in Nat \ {0} /\ BATCHES \in Nat \ {0}
    /\ WARMUP_ROUNDS \in Nat /\ MEASURED_ROUNDS \in Nat \ {0}
    /\ ROUND_TAGS \in Nat \ {0} /\ WARMUP_ROUNDS + MEASURED_ROUNDS <= ROUND_TAGS
    /\ BATCH_TAGS \in Nat \ {0} /\ BATCHES <= BATCH_TAGS
    /\ MaxFaults \in Nat /\ Slow \in BOOLEAN /\ Signals \in BOOLEAN

VARIABLES
    run,           \* the <<profile, mode>> of the command line
    pc,            \* where the process is
    stage,         \* "timed" or "cleanup": whose completions it waits for
    round, batch,
    stop_requested,
    expected,      \* number of CQEs wait_and_copy asks for
    missing,       \* min_complete of wait_and_copy's own wait
    result,        \* the counters of struct result that semantic_pass reads
    rows,          \* result rows written
    exitOk,        \* the exit status, once pc = "exited"
    armed,         \* kernel: polls armed and not completed
    posting,       \* kernel: completions on their way to the CQ
    cq,            \* bag of CQEs in the completion ring
    copy,          \* bag of CQEs copied by the last wait_and_copy
    faults,        \* kernel faults so far
    reaped,        \* history: CQEs copied in this round
    again,         \* history: user_data reaped more than once in this round
    trulyPending   \* history: every batch of this round began its timed
                   \* region with all of its polls armed

progVars == <<run, pc, stage, round, batch, stop_requested, expected,
              missing, result, rows, exitOk>>
kernVars == <<armed, posting, cq, faults>>
histVars == <<reaped, again, trulyPending>>
vars     == <<progVars, kernVars, copy, histVars>>

profile == run[1]
mode == run[2]

-----------------------------------------------------------------------------
\* user_data: the round and the batch are masked, the index is not.
make_tag(kind, r, b, i) == <<kind, r % ROUND_TAGS, b % BATCH_TAGS, i>>

Tags(kind, n) == {make_tag(kind, round, batch, i) : i \in 0..n-1}

Polls  == Tags("poll", IF profile = "s0_sync" THEN 1 ELSE PENDING)
Decoys == IF profile = "f0_fd_all" THEN Tags("decoy", DECOYS) ELSE {}

ZeroResult == [proofs |-> 0, ok |-> 0, enoent |-> 0, original |-> 0,
               decoy |-> 0, errors |-> 0]

HowMany(bag, S) == BagCardinality([c \in DOMAIN bag \cap S |-> bag[c]])
With(bag, tags) == {c \in DOMAIN bag : c[1] \in tags}
available == BagCardinality(cq)

Init ==
    /\ run \in Runs
    /\ pc = "round" /\ stage = "timed"
    /\ round = 0 /\ batch = 0
    /\ stop_requested = FALSE
    /\ expected = 0 /\ missing = 0
    /\ result = ZeroResult
    /\ rows = 0 /\ exitOk = FALSE
    /\ armed = {} /\ posting = {} /\ cq = EmptyBag /\ faults = 0
    /\ copy = EmptyBag
    /\ reaped = {} /\ again = {} /\ trulyPending = TRUE

-----------------------------------------------------------------------------
(* The kernel                                                              *)

KernelPost(c) ==
    /\ c \in posting
    /\ posting' = posting \ {c}
    /\ cq' = cq (+) SetToBag({c})
    /\ UNCHANGED <<progVars, armed, faults, copy, histVars>>

\* The ways a kernel could be wrong that the validation is written against:
\* a completion posted twice, lost, or with a result or flags of its own, and
\* a poll that completes although nobody cancelled it or signalled the fd.
KernelFault ==
    /\ faults < MaxFaults
    /\ faults' = faults + 1
    /\ \/ \E c \in posting :
             \/ /\ cq' = cq (+) SetToBag({c})
                /\ UNCHANGED <<armed, posting>>
             \/ /\ posting' = posting \ {c}
                /\ UNCHANGED <<armed, cq>>
             \/ /\ posting' = (posting \ {c}) \cup {<<c[1], "other">>}
                /\ UNCHANGED <<armed, cq>>
       \/ \E t \in armed :
             /\ armed' = armed \ {t}
             /\ posting' = posting \cup {<<t, "POLLIN">>}
             /\ UNCHANGED cq
    /\ UNCHANGED <<progVars, copy, histVars>>

\* io_uring_enter takes fewer SQEs than asked for: enter_ring returns -1 and
\* the run fails, whatever was taken.
SubmitFails ==
    /\ \/ pc = "round" /\ (profile = "p0_prep" \/ (batch < BATCHES /\ ~stop_requested))
       \/ pc = "cancel" /\ profile # "s0_sync"
       \/ pc = "cleanup" /\ (profile = "f0_fd_all" => available = 0)
    /\ faults < MaxFaults
    /\ faults' = faults + 1
    /\ pc' = "failed"
    /\ UNCHANGED <<run, stage, round, batch, stop_requested, expected, missing,
                   result, rows, exitOk, armed, posting, cq, copy, histVars>>

\* ASYNC_CANCEL by key runs inline at submission: request i of n targets the
\* poll target[i] and completes as own[i]; a target that is not armed (any
\* more) makes it -ENOENT.
CancelByKey(target, own) ==
    LET hit == {i \in DOMAIN target : target[i] \in armed}
    IN  /\ armed' = armed \ {target[i] : i \in hit}
        /\ posting' = posting
              \cup {<<target[i], "ECANCELED">> : i \in hit}
              \cup {<<own[i], IF i \in hit THEN "0" ELSE "ENOENT">> :
                                                      i \in DOMAIN target}

Signal ==
    /\ Signals /\ ~stop_requested /\ pc # "exited"
    /\ stop_requested' = TRUE
    /\ UNCHANGED <<run, pc, stage, round, batch, expected, missing, result,
                   rows, exitOk, kernVars, copy, histVars>>

-----------------------------------------------------------------------------
(* One batch                                                               *)

Keys(kind, n) == [i \in 0..n-1 |-> make_tag(kind, round, batch, i)]

\* arm_target, arm_f0 and the head of run_s0_round's loop.
Arm ==
    /\ pc = "round" /\ profile # "p0_prep"
    /\ batch < BATCHES /\ ~stop_requested
    /\ stage' = "timed"
    /\ armed' = armed \cup Polls \cup Decoys
    /\ pc' = "prove"
    /\ UNCHANGED <<run, round, batch, stop_requested, expected, missing, result,
                   rows, exitOk, posting, cq, faults, copy, histVars>>

\* prove_pending: no CQE yet.  (The eventfds are never written, so that they
\* read as unsignalled adds nothing.)
ProvePending ==
    /\ pc = "prove"
    /\ IF available = 0
         THEN pc' = "cancel" /\ result' = [result EXCEPT !.proofs = @ + 1]
         ELSE pc' = "failed" /\ UNCHANGED result
    /\ UNCHANGED <<run, stage, round, batch, stop_requested, expected, missing,
                   rows, exitOk, kernVars, copy, histVars>>

\* run_keyed_round's timed submission: real keys or keys that never existed.
CancelKeyed ==
    /\ pc = "cancel" /\ profile \in {"a0_hit", "a0_miss"}
    /\ CancelByKey(Keys(IF profile = "a0_hit" THEN "poll" ELSE "never", PENDING),
                   Keys("cancel", PENDING))
    /\ expected' = IF profile = "a0_hit" THEN 2 * PENDING ELSE PENDING
    /\ trulyPending' = (trulyPending /\ Polls \subseteq armed)
    /\ pc' = "sleep"
    /\ UNCHANGED <<run, stage, round, batch, stop_requested, missing, result,
                   rows, exitOk, cq, faults, copy, reaped, again>>

\* Mutant: the completion of the cancel request itself is not counted.
CancelFdAll_OwnForgotten ==
    /\ pc = "cancel" /\ profile = "f0_fd_all"
    /\ LET hit == {t \in armed : t[1] = "poll"}
       IN  /\ armed' = armed \ hit
           /\ posting' = posting \cup {<<t, "ECANCELED">> : t \in hit}
                 \cup {<<make_tag("bulk", round, batch, 0),
                         IF Cardinality(hit) = PENDING THEN "all" ELSE "some">>}
    /\ expected' = PENDING
    /\ trulyPending' = (trulyPending /\ Polls \cup Decoys \subseteq armed)
    /\ pc' = "sleep"
    /\ UNCHANGED <<run, stage, round, batch, stop_requested, missing, result,
                   rows, exitOk, cq, faults, copy, reaped, again>>

\* run_f0_round's one FD|ALL cancel completes every poll of the target fd and
\* itself with their number.
CancelFdAll ==
    /\ pc = "cancel" /\ profile = "f0_fd_all"
    /\ LET hit == {t \in armed : t[1] = "poll"}
       IN  /\ armed' = armed \ hit
           /\ posting' = posting \cup {<<t, "ECANCELED">> : t \in hit}
                 \cup {<<make_tag("bulk", round, batch, 0),
                         IF Cardinality(hit) = PENDING THEN "all" ELSE "some">>}
    /\ expected' = PENDING + 1
    /\ trulyPending' = (trulyPending /\ Polls \cup Decoys \subseteq armed)
    /\ pc' = "sleep"
    /\ UNCHANGED <<run, stage, round, batch, stop_requested, missing, result,
                   rows, exitOk, cq, faults, copy, reaped, again>>

\* run_s0_round's synchronous cancel: 0 when it cancelled the poll, -ENOENT
\* when there was none, -EINTR when a stop request interrupts it.
SyncCancel ==
    /\ pc = "cancel" /\ profile = "s0_sync"
    /\ \/ /\ Polls \subseteq armed
          /\ armed' = armed \ Polls
          /\ posting' = posting \cup {<<t, "ECANCELED">> : t \in Polls}
          /\ result' = [result EXCEPT !.ok = @ + 1]
          /\ pc' = "sample"
       \/ /\ ~(Polls \subseteq armed) \/ stop_requested
          /\ pc' = "failed"
          /\ UNCHANGED <<armed, posting, result>>
    /\ expected' = 1
    /\ trulyPending' = (trulyPending /\ Polls \subseteq armed)
    /\ UNCHANGED <<run, stage, round, batch, stop_requested, missing, rows,
                   exitOk, cq, faults, copy, reaped, again>>

\* run_p0: one malformed cancel; -EINVAL where the kernel checks, -ENOENT else.
PrepCancel ==
    /\ pc = "round" /\ profile = "p0_prep"
    /\ \E res \in {"EINVAL", "ENOENT"} :
          posting' = posting \cup {<<make_tag("cancel", 0, 0, 0), res>>}
    /\ expected' = 1
    /\ pc' = "sleep"
    /\ UNCHANGED <<run, stage, round, batch, stop_requested, missing, result,
                   rows, exitOk, armed, cq, faults, copy, histVars>>

-----------------------------------------------------------------------------
(* submit_and_copy, wait_and_copy                                          *)

\* The submitting io_uring_enter waits for min_complete CQEs; a timeout or a
\* signal ends the wait too, but the call reports the number submitted.
SleepReturns ==
    /\ pc = "sleep"
    /\ available >= expected \/ Slow \/ stop_requested
    /\ pc' = "sample"
    /\ UNCHANGED <<run, stage, round, batch, stop_requested, expected, missing,
                   result, rows, exitOk, kernVars, copy, histVars>>

\* Too few: wait once more, for the number missing.
WaitAgain ==
    /\ pc = "sample" /\ available < expected
    /\ missing' = expected - available
    /\ pc' = "resleep"
    /\ UNCHANGED <<run, stage, round, batch, stop_requested, expected, result,
                   rows, exitOk, kernVars, copy, histVars>>

\* Mutant: a wait that timed out is tried again.
ResleepReturns_Retries ==
    /\ pc = "resleep"
    /\ \/ available >= missing /\ pc' = "resample"
       \/ available < missing /\ (Slow \/ stop_requested) /\ pc' = "sample"
    /\ UNCHANGED <<run, stage, round, batch, stop_requested, expected, missing,
                   result, rows, exitOk, kernVars, copy, histVars>>

\* A pure wait reports ETIME, and EINTR once a stop was requested.
ResleepReturns ==
    /\ pc = "resleep"
    /\ \/ available >= missing /\ pc' = "resample"
       \/ available < missing /\ (Slow \/ stop_requested) /\ pc' = "failed"
    /\ UNCHANGED <<run, stage, round, batch, stop_requested, expected, missing,
                   result, rows, exitOk, kernVars, copy, histVars>>

Copy ==
    /\ pc \in {"sample", "resample"} /\ available = expected
    /\ copy' = cq
    /\ cq' = EmptyBag
    /\ reaped' = reaped \cup DOMAIN cq
    /\ again' = again \cup {c[1] : c \in {d \in DOMAIN cq :
                    HowMany(cq, With(cq, {d[1]})) > 1
                      \/ \E e \in reaped : e[1] = d[1]}}
    /\ pc' = "validate"
    /\ UNCHANGED <<run, stage, round, batch, stop_requested, expected, missing,
                   result, rows, exitOk, armed, posting, faults, trulyPending>>

Discard ==
    /\ \/ pc = "sample" /\ available > expected
       \/ pc = "resample" /\ available # expected
    /\ cq' = EmptyBag
    /\ pc' = "failed"
    /\ UNCHANGED <<run, stage, round, batch, stop_requested, expected, missing,
                   result, rows, exitOk, armed, posting, faults, copy, histVars>>

-----------------------------------------------------------------------------
(* Validation of the copied CQEs against want, the result each user_data    *)
(* has to carry                                                             *)

Unexpected(want) == {c \in DOMAIN copy : c[1] \notin DOMAIN want}
BadResults(want) ==
    {c \in DOMAIN copy : c[1] \in DOMAIN want /\ c[2] # want[c[1]]}
Duplicates(want) == {t \in DOMAIN want : HowMany(copy, With(copy, {t})) > 1}
NotSeen(want)    == {t \in DOMAIN want : With(copy, {t}) = {}}

\* Mutant: nobody asks whether every request was seen, and once.
Exactly_NotComplete(want) == Unexpected(want) \cup BadResults(want) = {}

Exactly(want) == Unexpected(want) \cup BadResults(want) = {}
                    /\ Duplicates(want) \cup NotSeen(want) = {}

Wants(tags, res) == [t \in tags |-> res]
Both(f, g) == [t \in DOMAIN f \cup DOMAIN g |-> IF t \in DOMAIN f THEN f[t] ELSE g[t]]

KeyedWant ==
    IF profile = "a0_hit"
      THEN Both(Wants(Polls, "ECANCELED"), Wants(Tags("cancel", PENDING), "0"))
      ELSE Wants(Tags("cancel", PENDING), "ENOENT")
BulkWant ==
    Both(Wants(Polls, "ECANCELED"),
         Wants({make_tag("bulk", round, batch, 0)}, "all"))
DecoyWant ==
    Both(Wants(Decoys, "ECANCELED"), Wants(Tags("cleanup", DECOYS), "0"))
TargetWant ==
    Both(Wants(Polls, "ECANCELED"), Wants(Tags("cleanup", PENDING), "0"))

NextBatch == batch' = batch + 1 /\ pc' = "round"
Validated == UNCHANGED <<run, round, stop_requested, expected, missing,
                         rows, exitOk, kernVars, copy, histVars>>

\* validate_keyed
ValidateKeyed ==
    /\ pc = "validate" /\ stage = "timed" /\ profile \in {"a0_hit", "a0_miss"}
    /\ IF Exactly(KeyedWant)
         THEN IF profile = "a0_hit"
                THEN /\ result' = [result EXCEPT
                            !.ok = @ + HowMany(copy, With(copy, Tags("cancel", PENDING))),
                            !.original = @ + HowMany(copy, With(copy, Polls))]
                     /\ NextBatch
                ELSE /\ result' = [result EXCEPT
                            !.enoent = @ + HowMany(copy, DOMAIN copy)]
                     /\ pc' = "cleanup" /\ UNCHANGED batch
         ELSE pc' = "failed" /\ UNCHANGED <<batch, result>>
    /\ UNCHANGED stage /\ Validated

\* Mutant: the batch ends without its cleanup.
ValidateFdAll_NoCleanup ==
    /\ pc = "validate" /\ stage = "timed" /\ profile = "f0_fd_all"
    /\ IF Exactly(BulkWant)
         THEN /\ result' = [result EXCEPT
                     !.ok = @ + 1,
                     !.original = @ + HowMany(copy, With(copy, Polls))]
              /\ NextBatch
         ELSE pc' = "failed" /\ UNCHANGED <<batch, result>>
    /\ UNCHANGED stage /\ Validated

\* validate_f0
ValidateFdAll ==
    /\ pc = "validate" /\ stage = "timed" /\ profile = "f0_fd_all"
    /\ IF Exactly(BulkWant)
         THEN /\ result' = [result EXCEPT
                     !.ok = @ + 1,
                     !.original = @ + HowMany(copy, With(copy, Polls))]
              /\ pc' = "cleanup"
         ELSE pc' = "failed" /\ UNCHANGED result
    /\ UNCHANGED <<stage, batch>> /\ Validated

\* The tail of run_s0_round's loop: flags are counted and judged at the end, a
\* wrong user_data or result ends the round.
ValidateSync ==
    /\ pc = "validate" /\ profile = "s0_sync"
    /\ LET want == Wants(Polls, "ECANCELED")
       IN  \/ /\ Exactly(want)
              /\ result' = [result EXCEPT !.original = @ + 1] /\ NextBatch
           \/ /\ ~Exactly(want) /\ Unexpected(want) = {}
              /\ result' = [result EXCEPT !.original = @ + 1, !.errors = @ + 1]
              /\ NextBatch
           \/ ~Exactly(want) /\ pc' = "failed" /\ UNCHANGED <<batch, result>>
    /\ UNCHANGED stage /\ Validated

\* The tail of run_p0 up to its semantic_pass: errors do not return at once.
ValidatePrep ==
    /\ pc = "validate" /\ profile = "p0_prep"
    /\ LET known == With(copy, {make_tag("cancel", 0, 0, 0)})
           good(r) == {c \in DOMAIN copy : c[2] = r}
       IN  result' = [result EXCEPT
              !.ok = HowMany(copy, good("EINVAL")),
              !.enoent = HowMany(copy, good("ENOENT")),
              !.errors = HowMany(copy, DOMAIN copy \ known)
                 + HowMany(copy, DOMAIN copy \ (good("EINVAL") \cup good("ENOENT")))]
    /\ pc' = "judge"
    /\ UNCHANGED <<stage, batch>> /\ Validated

\* cleanup_target: cancels the still pending polls of an a0_miss batch ...
CleanupTarget ==
    /\ pc = "cleanup" /\ profile = "a0_miss"
    /\ CancelByKey(Keys("poll", PENDING), Keys("cleanup", PENDING))
    /\ expected' = 2 * PENDING
    /\ stage' = "cleanup" /\ pc' = "sleep"
    /\ UNCHANGED <<run, round, batch, stop_requested, missing, result, rows,
                   exitOk, cq, faults, copy, histVars>>

\* Mutant: the CQEs of the cleanup are not looked at.
ValidateCleanupTarget_Unread ==
    /\ pc = "validate" /\ stage = "cleanup" /\ profile = "a0_miss"
    /\ result' = [result EXCEPT !.original = @ + HowMany(copy, With(copy, Polls))]
    /\ NextBatch
    /\ UNCHANGED stage /\ Validated

\* ... and, unlike the other validations, asks neither for duplicates nor for
\* completeness.
ValidateCleanupTarget ==
    /\ pc = "validate" /\ stage = "cleanup" /\ profile = "a0_miss"
    /\ IF Unexpected(TargetWant) \cup BadResults(TargetWant) = {}
         THEN /\ result' = [result EXCEPT
                     !.original = @ + HowMany(copy, With(copy, Polls))]
              /\ NextBatch
         ELSE pc' = "failed" /\ UNCHANGED <<batch, result>>
    /\ UNCHANGED stage /\ Validated

\* cleanup_decoys: the decoys must have survived the bulk cancel untouched.
CleanupDecoys ==
    /\ pc = "cleanup" /\ profile = "f0_fd_all"
    /\ IF available # 0
         THEN pc' = "failed" /\ UNCHANGED <<stage, expected, armed, posting>>
         ELSE /\ CancelByKey(Keys("decoy", DECOYS), Keys("cleanup", DECOYS))
              /\ expected' = 2 * DECOYS
              /\ stage' = "cleanup" /\ pc' = "sleep"
    /\ UNCHANGED <<run, round, batch, stop_requested, missing, result, rows,
                   exitOk, cq, faults, copy, histVars>>

ValidateCleanupDecoys ==
    /\ pc = "validate" /\ stage = "cleanup" /\ profile = "f0_fd_all"
    /\ IF Exactly(DecoyWant)
         THEN /\ result' = [result EXCEPT
                     !.decoy = @ + HowMany(copy, With(copy, Decoys))]
              /\ NextBatch
         ELSE pc' = "failed" /\ UNCHANGED <<batch, result>>
    /\ UNCHANGED stage /\ Validated

-----------------------------------------------------------------------------
(* Rounds and the run                                                      *)

\* The batch loop ends, on its bound or on a stop request.
LoopEnds ==
    /\ pc = "round" /\ profile # "p0_prep"
    /\ batch = BATCHES \/ stop_requested
    /\ pc' = "judge"
    /\ UNCHANGED <<run, stage, round, batch, stop_requested, expected, missing,
                   result, rows, exitOk, kernVars, copy, histVars>>

\* result->semantic_pass; `outstanding' counts ring entries, and the SQ is
\* empty outside io_uring_enter.
semantic_pass ==
    /\ result.errors = 0
    /\ available = 0
    /\ profile = "p0_prep" => result.ok = 1 \/ result.enoent = 1
    /\ profile # "p0_prep" => ~stop_requested /\ result.proofs = BATCHES
    /\ profile = "a0_hit"  => /\ result.ok = BATCHES * PENDING
                              /\ result.original = BATCHES * PENDING
    /\ profile = "a0_miss" => result.enoent = BATCHES * PENDING
    /\ profile = "f0_fd_all" => /\ result.ok = BATCHES
                                /\ result.original = BATCHES * PENDING
                                /\ result.decoy = BATCHES * DECOYS
    /\ profile = "s0_sync" => result.ok = BATCHES /\ result.original = BATCHES

\* main looks at the round's return value; warm-up rounds leave no row.
Judge ==
    /\ pc = "judge"
    /\ pc' = CASE ~semantic_pass -> "failed"
               [] semantic_pass /\ mode = "point" /\ round < WARMUP_ROUNDS -> "next"
               [] OTHER -> "write"
    /\ UNCHANGED <<run, stage, round, batch, stop_requested, expected, missing,
                   result, rows, exitOk, kernVars, copy, histVars>>

\* Mutant: one measured round too many.
write_result_OneMore ==
    /\ pc = "write"
    /\ rows' = rows + 1
    /\ pc' = IF mode = "smoke" \/ round = WARMUP_ROUNDS + MEASURED_ROUNDS
               THEN "destroy" ELSE "next"
    /\ UNCHANGED <<run, stage, round, batch, stop_requested, expected, missing,
                   result, exitOk, kernVars, copy, histVars>>

write_result ==
    /\ pc = "write"
    /\ rows' = rows + 1
    /\ pc' = IF mode = "smoke" \/ round = WARMUP_ROUNDS + MEASURED_ROUNDS - 1
               THEN "destroy" ELSE "next"
    /\ UNCHANGED <<run, stage, round, batch, stop_requested, expected, missing,
                   result, exitOk, kernVars, copy, histVars>>

\* Mutant: a stop request between two rounds ends the run as if it were done.
NextRound_StopIsDone ==
    /\ pc = "next"
    /\ round' = round + 1 /\ batch' = 0 /\ stage' = "timed"
    /\ result' = ZeroResult
    /\ reaped' = {} /\ again' = {} /\ trulyPending' = TRUE
    /\ pc' = IF stop_requested THEN "destroy" ELSE "round"
    /\ UNCHANGED <<run, stop_requested, expected, missing, rows, exitOk,
                   kernVars, copy>>

\* The next round starts from a zeroed result on the same ring.
NextRound ==
    /\ pc = "next"
    /\ round' = round + 1 /\ batch' = 0 /\ stage' = "timed"
    /\ result' = ZeroResult
    /\ reaped' = {} /\ again' = {} /\ trulyPending' = TRUE
    /\ pc' = "round"
    /\ UNCHANGED <<run, stop_requested, expected, missing, rows, exitOk,
                   kernVars, copy>>

\* fixture_destroy closes the ring, which cancels whatever is left in it.
Exit ==
    /\ pc \in {"failed", "destroy"}
    /\ exitOk' = (pc = "destroy")
    /\ armed' = {} /\ posting' = {} /\ cq' = EmptyBag
    /\ pc' = "exited"
    /\ UNCHANGED <<run, stage, round, batch, stop_requested, expected, missing,
                   result, rows, faults, copy, histVars>>

Exited == pc = "exited" /\ UNCHANGED vars

Program ==
    \/ Arm \/ ProvePending \/ CancelKeyed \/ CancelFdAll \/ SyncCancel
    \/ PrepCancel \/ SleepReturns \/ WaitAgain \/ ResleepReturns \/ Copy
    \/ Discard \/ ValidateKeyed \/ ValidateFdAll \/ ValidateSync
    \/ ValidatePrep \/ CleanupTarget \/ ValidateCleanupTarget
    \/ CleanupDecoys \/ ValidateCleanupDecoys \/ LoopEnds \/ Judge
    \/ write_result \/ NextRound \/ Exit

Next ==
    \/ Program
    \/ \E c \in posting : KernelPost(c)
    \/ KernelFault \/ SubmitFails \/ Signal
    \/ Exited

\* The process is scheduled, and the kernel delivers every completion it owes.
Fairness == WF_vars(Program) /\ WF_vars(\E c \in posting : KernelPost(c))

Spec == Init /\ [][Next]_vars /\ Fairness

-----------------------------------------------------------------------------
(* Properties                                                              *)

\* What a passing round must have reaped, over all of its batches.  The CQEs of
\* cleanup_target are left out: it counts them but does not tell them apart.
RoundTags(kind, n) ==
    {make_tag(kind, round, b, i) : b \in 0..BATCHES-1, i \in 0..n-1}
As(tags, res) == {<<t, res>> : t \in tags}
WantedOfRound ==
    CASE profile = "a0_hit"  -> As(RoundTags("poll", PENDING), "ECANCELED")
                                \cup As(RoundTags("cancel", PENDING), "0")
      [] profile = "a0_miss" -> As(RoundTags("cancel", PENDING), "ENOENT")
      [] profile = "f0_fd_all" -> As(RoundTags("poll", PENDING), "ECANCELED")
                                  \cup As(RoundTags("bulk", 1), "all")
                                  \cup As(RoundTags("decoy", DECOYS), "ECANCELED")
                                  \cup As(RoundTags("cleanup", DECOYS), "0")
      [] profile = "s0_sync" -> As(RoundTags("poll", 1), "ECANCELED")
      [] OTHER -> {}
OfCleanupTarget(t) == profile = "a0_miss" /\ t[1] \in {"poll", "cleanup"}

\* Every request of the round was reaped, and but for cleanup_target's once.
RowComplete ==
    /\ {c \in reaped : ~OfCleanupTarget(c[1])} = WantedOfRound
    /\ \A t \in again : OfCleanupTarget(t)

\* A row is written only for a round in which every request was reaped exactly
\* once, under its own user_data and with the result it has to have: no
\* completion that was late, lost, duplicated or wrong ends up in a row.  And
\* the polls really were pending as each timed region began
\* (bare-metal/README.md: "Before every batch, 32 eventfd poll requests are
\* proven pending"): an early completion that prove_pending cannot see yet is
\* caught by a later check of the same round.
RowSound ==
    pc = "write" /\ profile # "p0_prep" => RowComplete /\ trulyPending

\* Every batch, and the judgement of the round, finds no request of an earlier
\* batch still armed in the kernel: ring_outstanding counts ring entries only
\* and would not see it.
StartsClean == pc \in {"round", "judge"} => armed = {}

\* No kernel fault, no signal, and no wait ended early and was tried again.
Undisturbed == faults = 0 /\ ~stop_requested /\ missing = 0

RowsDue == IF mode = "smoke" THEN 1 ELSE MEASURED_ROUNDS

\* Every wait is bounded by its timeout, so the process exits even if the
\* kernel loses completions.  Its status tells the truth: 0 only with every row
\* the mode promises, whatever signal or fault came in between, and 0 surely
\* where nothing disturbs it, for the validation raises no false alarm.
EndsHonestly ==
    <>(pc = "exited" /\ (Undisturbed => exitOk) /\ (exitOk => rows = RowsDue))
=============================================================================
