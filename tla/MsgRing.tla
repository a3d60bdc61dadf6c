------------------------------ MODULE MsgRing ------------------------------
(***************************************************************************)
(* io_uring_msg_ring_round.c: a source ring sends QD messages per batch to *)
(* a target ring.  d0 sends data to an ordinary ring, which gets its CQE   *)
(* before the sender gets its own; r0 sends data to a DEFER_TASKRUN ring,  *)
(* whose CQEs appear only while its owner is inside io_uring_enter on it;  *)
(* f0 sends a file, which the target installs in a free fixed-file slot    *)
(* whose number is the result on both sides, into a ring opened and        *)
(* destroyed by every round.  Sequence numbers restart with every round.   *)
(*                                                                         *)
(* The drains take all available CQEs, in whatever order, so a CQ is a     *)
(* bag; its indices are RawRing's subject.  The counters that must be zero *)
(* in a passing round are one flag, errors, but for missing_events, which  *)
(* the program reads on its way.  A CQE with flags is one with a bad       *)
(* result.  The rings are never full: a batch is a quarter of the SQ.      *)
(***************************************************************************)
EXTENDS Integers, FiniteSets, Sequences, Bags

CONSTANTS
    Runs,          \* set of <<profile, mode, slow>> to run; slow: a wait may
                   \* time out although its CQEs will come
    QD,            \* messages per batch
    SMOKE_BATCHES, POINT_BATCHES,   \* operations_for, in batches of QD
    WARMUP_ROUNDS, MEASURED_ROUNDS,
    MaxFaults      \* bound: faults of the kernel per run

AllRuns == {"d0", "r0", "f0"} \X {"smoke", "point"} \X BOOLEAN

ASSUME MsgRingAssumption ==
    /\ Runs \subseteq AllRuns
    /\ QD \in Nat \ {0} /\ SMOKE_BATCHES \in Nat \ {0} /\ POINT_BATCHES \in Nat \ {0}
    /\ WARMUP_ROUNDS \in Nat /\ MEASURED_ROUNDS \in Nat \ {0}
    /\ MaxFaults \in Nat

VARIABLES
    run,           \* the <<profile, mode>> of the command line, and slow
    pc,            \* where the process is
    call,          \* number of execute_once calls that returned 0
    batch,         \* base / QD of the loop the process is in
    sourceOk,      \* CQEs of this batch with source_ok
    slot_bitmap,   \* f0: slots of the successful operations
    before,        \* r0: outstanding target CQEs before the last enter
    result,        \* the counters of struct result that semantic_pass reads
    flags,         \* the booleans that tell clean-up what was set up
    ret,           \* "ret == 0" of run_send_fd_once, then of run_mode
    rows,          \* semantic_pass of the rows written
    exitOk,        \* the exit status, once pc = "exited"
    posting,       \* kernel: bag of completions on their way
    late,          \* kernel: bag of completions it lost, doubled or delays
    cq,            \* the completion ring, a bag of CQEs, of each ring
    table,         \* kernel: the target's fixed-file table
    registered,    \* kernel: rings with a fixed-file table
    held,          \* file descriptors and mappings the process owns
    faults,        \* faults so far
    reaped,        \* history: bag of the CQEs read in this round
    strayed        \* history: a CQE of this round was read in another batch

kernVars == <<posting, late, cq, table, registered, held, faults>>
callVars == <<batch, sourceOk, slot_bitmap, before, result>>
histVars == <<reaped, strayed>>
runVars  == <<call, flags, ret, rows, exitOk>>
vars     == <<run, pc, callVars, runVars, kernVars, histVars>>

profile == run[1]
mode == run[2]
slow == run[3]

\* The execute_once calls of run_mode; the first one is of smoke size.
Calls == IF mode = "smoke" THEN 1 ELSE 1 + WARMUP_ROUNDS + MEASURED_ROUNDS
Emits == mode = "smoke" \/ call > WARMUP_ROUNDS
Batches == IF call = 0 THEN SMOKE_BATCHES ELSE POINT_BATCHES
operations == Batches * QD
Slots == 0..operations - 1
Window == batch * QD .. batch * QD + QD - 1

ZeroResult == [sqes |-> 0, source_cqes |-> 0, target_cqes |-> 0, ok |-> 0,
               verify_reads |-> 0, slots_verified |-> 0,
               missing |-> FALSE, errors |-> FALSE]

EmptyCqs == [source |-> EmptyBag, target |-> EmptyBag]

Init ==
    /\ run \in Runs
    /\ pc = "setup" /\ call = 0 /\ batch = 0
    /\ sourceOk = {} /\ slot_bitmap = {} /\ before = 0
    /\ result = ZeroResult
    /\ flags = {} /\ ret = TRUE
    /\ rows = <<>> /\ exitOk = FALSE
    /\ posting = EmptyBag /\ late = EmptyBag /\ cq = EmptyCqs
    /\ table = <<>> /\ registered = {} /\ held = {} /\ faults = 0
    /\ reaped = EmptyBag /\ strayed = FALSE

-----------------------------------------------------------------------------
(* Completions: <<tag, sequence, res>>                                     *)

RingOf(c) == IF c[1] = "source" THEN "source" ELSE "target"

One(c) == SetToBag({c})

\* The value sent as sqe->len and received as res.
Value(s) == 1 + (s % 1000000)

\* The completions of message s, f0's with the slot its file went to.
Sent(s, slot) ==
    IF profile = "f0" THEN {<<"source", s, slot>>, <<"target", s, slot>>}
    ELSE {<<"source", s, 0>>, <<"target", s, Value(s)>>}

\* Mutant: on the target side only errors are told from values.
Good_AnyValue(c) ==
    IF c[1] = "verify" THEN c[3] = 1
    ELSE IF profile = "f0" THEN c[3] \in Slots
    ELSE IF c[1] = "source" THEN c[3] = 0 ELSE c[3] > 0

Good(c) ==
    IF c[1] = "verify" THEN c[3] = 1
    ELSE IF profile = "f0" THEN c[3] \in Slots
    ELSE c[3] = (IF c[1] = "source" THEN 0 ELSE Value(c[2]))

\* decode_sequence.
InBatch(c, tag) == c[1] = tag /\ c[2] \in Window

\* The CQEs a drain accepts: of this batch, the only one of their message,
\* and right.  Any other CQE raises one of the error counters.
Valid(B, tag) ==
    {c \in DOMAIN B : /\ InBatch(c, tag)
                      /\ Good(c)
                      /\ B[c] = 1
                      /\ \A d \in DOMAIN B \ {c} : d[1] # tag \/ d[2] # c[2]}

Seen(B, tag) == {c[2] : c \in {d \in DOMAIN B : InBatch(d, tag)}}

\* What draining ring does to the flags; a shortfall of CQEs and a message
\* that was not seen both count as missing events.
Judge(r, B, tag) ==
    [r EXCEPT !.missing = @ \/ Seen(B, tag) # Window,
              !.errors = @ \/ Valid(B, tag) # DOMAIN B]

\* Reading all available CQEs of a ring and storing its head.
Reap(ring, tag) ==
    /\ cq' = [cq EXCEPT ![ring] = EmptyBag]
    /\ reaped' = reaped (+) cq[ring]
    /\ strayed' = (strayed \/ \E c \in DOMAIN cq[ring] : ~(c[1] = tag /\ c[2] \in Window))

available(ring) == BagCardinality(cq[ring])

-----------------------------------------------------------------------------
(* The kernel                                                              *)

\* A direct message is in the target's CQ before its sender completes; a
\* DEFER_TASKRUN ring gets its CQEs only while its task is in enter on it.
MayPost(c) ==
    IF profile = "r0" THEN c[1] = "target" => pc \in {"target", "flush"}
    ELSE c[1] = "source" => ~\E d \in DOMAIN posting : d[1] = "target" /\ d[2] = c[2]

Post(c) == cq' = [cq EXCEPT ![RingOf(c)] = @ (+) One(c)]

KernelPost ==
    \E c \in DOMAIN posting :
        /\ MayPost(c)
        /\ Post(c)
        /\ posting' = posting (-) One(c)
        /\ UNCHANGED <<run, pc, callVars, runVars, late, table, registered,
                       held, faults, histVars>>

\* What was delayed or doubled may come at any time, or never.
KernelPostLate ==
    \E c \in DOMAIN late :
        /\ profile = "r0" /\ c[1] = "target" => pc \in {"target", "flush"}
        /\ Post(c)
        /\ late' = late (-) One(c)
        /\ UNCHANGED <<run, pc, callVars, runVars, posting, table, registered,
                       held, faults, histVars>>

\* An error, and another value or slot (of f0's last slot, one out of range).
WrongResults(c) == {-1, c[3] + 1}

\* The ways a kernel could be wrong that the program's checks are written
\* against: a completion is doubled, lost or delayed, has a wrong result or
\* the user_data of another message, or a slot gets another file or none.
KernelFault ==
    /\ faults < MaxFaults
    /\ faults' = faults + 1
    /\ \/ \E c \in DOMAIN posting :
             \/ late' = late (+) One(c) /\ UNCHANGED posting
             \/ late' = late (+) One(c) /\ posting' = posting (-) One(c)
             \/ /\ \E d \in {<<c[1], c[2], r>> : r \in WrongResults(c)}
                              \cup {<<c[1], s, c[3]>> : s \in Slots \ {c[2]}} :
                       posting' = (posting (-) One(c)) (+) One(d)
                /\ UNCHANGED late
          /\ UNCHANGED table
       \/ /\ pc = "source" /\ profile = "f0"
          /\ \E s \in Slots, content \in {"empty", "other"} :
                table[s] = "sentinel" /\ table' = [table EXCEPT ![s] = content]
          /\ UNCHANGED <<posting, late>>
    /\ UNCHANGED <<run, pc, callVars, runVars, cq, registered, held, histVars>>

\* Mutant: a wait without a timeout.
WaitEnds_Never(ring) == available(ring) >= QD

\* Enough CQEs are there, none can come any more, or they are too slow: the
\* wait of io_uring_enter ends after ENTER_TIMEOUT_SECONDS at the latest.
WaitEnds(ring) ==
    available(ring) >= QD \/ slow \/ \A c \in DOMAIN posting : RingOf(c) # ring

\* IORING_UNREGISTER_FILES fails on a ring that has no table.
UnregisterOutcomes(ring) ==
    IF ring \notin registered THEN {FALSE}
    ELSE IF faults < MaxFaults THEN BOOLEAN ELSE {TRUE}

Unregister(ring, ok) ==
    /\ registered' = IF ok THEN registered \ {ring} ELSE registered
    /\ faults' = IF ok \/ ring \notin registered THEN faults ELSE faults + 1

-----------------------------------------------------------------------------
(* setup_workload, and what comes after an execute_once                    *)

\* Mutant: the flag that clean-up asks for is forgotten.
SetupData_FlagForgotten ==
    /\ profile # "f0"
    /\ held' = {"source", "target"}
    /\ UNCHANGED <<flags, registered>>

SetupData ==
    /\ profile # "f0"
    /\ held' = {"source", "target"}
    /\ flags' = {"target_initialized"}
    /\ UNCHANGED registered

SetupSentinel ==
    /\ profile = "f0"
    /\ held' = {"source", "memfd"}
    /\ flags' = {"source_files_registered"}
    /\ registered' = {"source"}

Setup ==
    /\ pc = "setup"
    /\ SetupData \/ SetupSentinel
    /\ pc' = "call"
    /\ UNCHANGED <<run, call, ret, rows, exitOk, callVars, posting, late, cq,
                   table, faults, histVars>>

\* It fails at the source ring, then at the target ring or memfd_create, then
\* at pwrite or at the registration.
SetupFails ==
    /\ pc = "setup" /\ faults < MaxFaults
    /\ held' \in {{}, {"source"}}
                    \cup (IF profile = "f0" THEN {{"source", "memfd"}} ELSE {})
    /\ faults' = faults + 1
    /\ ret' = FALSE
    /\ pc' = "cleanup"
    /\ UNCHANGED <<run, call, flags, rows, exitOk, callVars, posting, late, cq,
                   table, registered, histVars>>

\* Mutant: nobody looks at the result of the first call or of a warm-up round.
Continues_WarmupIgnored(pass) ==
    (pass \/ call <= WARMUP_ROUNDS) /\ call + 1 < Calls

\* run_mode goes on to its next call.
Continues(pass) == pass /\ call + 1 < Calls

\* execute_once returns.
ReturnFrom(pass) ==
    /\ rows' = IF Emits THEN Append(rows, pass) ELSE rows
    /\ ret' = pass
    /\ IF Continues(pass) THEN call' = call + 1 /\ pc' = "call"
                          ELSE pc' = "cleanup" /\ UNCHANGED call
    /\ UNCHANGED <<run, exitOk>>

\* bounded_enter failed: run_data_once returns, run_send_fd_once goes to out.
Abort ==
    \/ profile # "f0" /\ ReturnFrom(FALSE)
    \/ /\ profile = "f0"
       /\ pc' = "out" /\ ret' = FALSE
       /\ UNCHANGED <<run, call, rows, exitOk>>

SemanticPass ==
    /\ result.ok = operations /\ result.sqes = operations
    /\ result.source_cqes = operations /\ result.target_cqes = operations
    /\ profile = "f0" => /\ result.verify_reads = operations
                         /\ result.slots_verified = operations
    /\ ~result.missing /\ ~result.errors
    /\ available("source") = 0 /\ available("target") = 0

NewCall ==
    /\ pc = "call"
    /\ batch' = 0 /\ sourceOk' = {} /\ slot_bitmap' = {} /\ before' = 0
    /\ result' = ZeroResult
    /\ reaped' = EmptyBag /\ strayed' = FALSE

BeginData ==
    /\ profile # "f0" /\ NewCall
    /\ pc' = "batch"
    /\ UNCHANGED <<run, runVars, kernVars>>

-----------------------------------------------------------------------------
(* The batches of run_data_once and run_send_fd_once                       *)

\* f0's target ring: raw_ring_init and register_sparse_files.
OpenTarget ==
    /\ profile = "f0" /\ NewCall
    /\ held' = held \cup {"target"}
    /\ registered' = registered \cup {"target"}
    /\ flags' = flags \cup {"target_registered"}
    /\ table' = [s \in Slots |-> "empty"]
    /\ pc' = "batch"
    /\ UNCHANGED <<run, call, ret, rows, exitOk, posting, late, cq, faults>>

OpenTargetFails ==
    /\ profile = "f0" /\ NewCall
    /\ faults < MaxFaults /\ faults' = faults + 1
    /\ held' \in {held, held \cup {"target"}}
    /\ pc' = "out" /\ ret' = FALSE
    /\ UNCHANGED <<run, call, flags, rows, exitOk, posting, late, cq, table,
                   registered>>

\* Slots for the files of a batch: the lowest free ones, in order.
Free == {t \in Slots : table[t] = "empty"}
Allocations ==
    IF profile # "f0" THEN {[s \in Window |-> 0]}
    ELSE LET lowest == {t \in Free : Cardinality({u \in Free : u < t}) < QD}
         IN  {f \in [Window -> lowest] : \A s, t \in Window : s < t => f[s] < f[t]}

\* prepare_data_batch or prepare_send_fd_batch, and the submission.
SubmitBatch ==
    /\ pc = "batch" /\ batch < Batches
    /\ \E slot \in Allocations :
          /\ posting' = posting (+) SetToBag(UNION {Sent(s, slot[s]) : s \in Window})
          /\ table' = [t \in DOMAIN table |->
                          IF \E s \in Window : slot[s] = t THEN "sentinel" ELSE table[t]]
    /\ result' = [result EXCEPT !.sqes = @ + QD]
    /\ pc' = "source"
    /\ UNCHANGED <<run, runVars, batch, sourceOk, slot_bitmap, before, late, cq,
                   registered, held, faults, histVars>>

\* Fewer SQEs are taken than submitted: bounded_enter fails.
SubmitFails ==
    /\ pc \in {"batch", "verify"} /\ batch < Batches
    /\ faults < MaxFaults /\ faults' = faults + 1
    /\ Abort
    /\ UNCHANGED <<flags, callVars, posting, late, cq, table, registered, held,
                   histVars>>

\* Mutant: r0's target is read like d0's.
AfterSource_AllDirect == "reap"

\* r0's target has to be entered before it can be read.
AfterSource == IF profile = "r0" THEN "target" ELSE "reap"

\* The wait of the submitting enter ends and the source is drained; a timeout
\* is hidden by the number of SQEs the call returns.
DrainSource ==
    /\ pc = "source" /\ WaitEnds("source")
    /\ sourceOk' = Valid(cq.source, "source")
    /\ result' = Judge([result EXCEPT !.source_cqes = @ + available("source")],
                       cq.source, "source")
    /\ Reap("source", "source")
    /\ pc' = AfterSource
    /\ UNCHANGED <<run, runVars, batch, slot_bitmap, before, posting, late,
                   table, registered, held, faults>>

EnterTarget ==
    /\ pc = "target" /\ available("target") >= QD
    /\ pc' = "reap"
    /\ UNCHANGED <<run, callVars, runVars, kernVars, histVars>>

\* Nothing was submitted, so that this timeout is reported.
TargetTimesOut ==
    /\ pc = "target" /\ available("target") < QD /\ WaitEnds("target")
    /\ Abort
    /\ UNCHANGED <<flags, callVars, kernVars, histVars>>

\* The target is drained and the two sides are compared: messages accepted on
\* both sides count, f0's if both name the same slot and nobody had it before.
DrainTarget ==
    LET targetOk == Valid(cq.target, "target")
        pairs == {c \in sourceOk : \E d \in targetOk : d[2] = c[2]}
        agreed == {c \in pairs : <<"target", c[2], c[3]>> \in targetOk}
        new == {c[3] : c \in agreed} \ slot_bitmap
        judged == Judge([result EXCEPT !.target_cqes = @ + available("target")],
                        cq.target, "target")
    IN  /\ pc = "reap"
        /\ IF profile = "f0"
             THEN /\ slot_bitmap' = slot_bitmap \cup new
                  /\ result' = [judged EXCEPT
                        !.ok = @ + Cardinality(new),
                        !.errors = @ \/ pairs # agreed
                                     \/ Cardinality(new) # Cardinality(agreed)]
             ELSE /\ result' = [judged EXCEPT !.ok = @ + Cardinality(pairs)]
                  /\ UNCHANGED slot_bitmap
        /\ Reap("target", "target")
        /\ sourceOk' = {}
        /\ batch' = batch + 1
        /\ pc' = "batch"
        /\ UNCHANGED <<run, runVars, before, posting, late, table, registered,
                       held, faults>>

-----------------------------------------------------------------------------
(* After the last batch                                                    *)

EndData ==
    /\ pc = "batch" /\ batch = Batches /\ profile # "f0"
    /\ IF profile = "r0" THEN pc' = "flush" /\ before' = available("target")
                         ELSE pc' = "verdict" /\ UNCHANGED before
    /\ UNCHANGED <<run, runVars, batch, sourceOk, slot_bitmap, result, kernVars,
                   histVars>>

\* The target is entered once more, without waiting: whatever was deferred
\* gets its CQE, and there should be nothing.
FlushTarget ==
    /\ pc = "flush"
    /\ \A c \in DOMAIN posting : RingOf(c) # "target"
    /\ result' = [result EXCEPT !.errors = @ \/ available("target") # before]
    /\ pc' = "verdict"
    /\ UNCHANGED <<run, runVars, batch, sourceOk, slot_bitmap, before, kernVars,
                   histVars>>

Verdict ==
    /\ pc = "verdict"
    /\ ReturnFrom(SemanticPass)
    /\ UNCHANGED <<flags, callVars, kernVars, histVars>>

\* f0: slots nobody was given are missing events, and if there are any missing
\* events the slots are not verified.
EndSendFd ==
    /\ pc = "batch" /\ batch = Batches /\ profile = "f0"
    /\ result' = [result EXCEPT !.missing = @ \/ slot_bitmap # Slots]
    /\ pc' = IF result'.missing THEN "out" ELSE "verify"
    /\ batch' = 0
    /\ UNCHANGED <<run, runVars, sourceOk, slot_bitmap, before, kernVars, histVars>>

\* Mutant: the base of the batch is forgotten.
ReadSlot_NoBase(s) == s % QD

\* The slot the i-th read of verify_fixed_files goes to, by its number s.
ReadSlot(s) == s

SubmitReads ==
    /\ pc = "verify" /\ batch < Batches
    /\ posting' = posting (+) SetToBag({<<"verify", s,
                      IF table[ReadSlot(s)] = "empty" THEN -1 ELSE 1>> : s \in Window})
    /\ pc' = "reads"
    /\ UNCHANGED <<run, callVars, runVars, late, cq, table, registered, held,
                   faults, histVars>>

\* The reads are judged by their CQEs and by the bytes that they read.
DrainReads ==
    /\ pc = "reads" /\ WaitEnds("target")
    /\ result' = Judge([result EXCEPT
            !.verify_reads = @ + Cardinality(Seen(cq.target, "verify")),
            !.slots_verified = @ + Cardinality({s \in Window :
                                       table[ReadSlot(s)] = "sentinel"}),
            !.errors = @ \/ \E s \in Window : table[ReadSlot(s)] # "sentinel"],
         cq.target, "verify")
    /\ Reap("target", "verify")
    /\ batch' = batch + 1
    /\ pc' = "verify"
    /\ UNCHANGED <<run, runVars, sourceOk, slot_bitmap, before, posting, late,
                   table, registered, held, faults>>

Verified ==
    /\ pc = "verify" /\ batch = Batches
    /\ pc' = "out"
    /\ UNCHANGED <<run, callVars, runVars, kernVars, histVars>>

\* run_send_fd_once's "out": the target and its table go, then the verdict.
Out ==
    /\ pc = "out"
    /\ LET known == "target_registered" \in flags
       IN  \E ok \in IF known THEN UnregisterOutcomes("target") ELSE {TRUE} :
              /\ IF known THEN Unregister("target", ok)
                          ELSE UNCHANGED <<registered, faults>>
              /\ ReturnFrom(ret /\ ok /\ SemanticPass)
    /\ flags' = flags \ {"target_registered"}
    /\ held' = held \ {"target"}
    /\ cq' = [cq EXCEPT !.target = EmptyBag]
    /\ posting' = [c \in {d \in DOMAIN posting : RingOf(d) = "source"} |-> posting[c]]
    /\ late' = [c \in {d \in DOMAIN late : RingOf(d) = "source"} |-> late[c]]
    /\ table' = <<>>
    /\ UNCHANGED <<callVars, histVars>>

\* cleanup_workload and the exit status.
Cleanup ==
    /\ pc = "cleanup"
    /\ LET known == "source_files_registered" \in flags
       IN  \E ok \in IF known THEN UnregisterOutcomes("source") ELSE {TRUE} :
              /\ IF known THEN Unregister("source", ok)
                          ELSE UNCHANGED <<registered, faults>>
              /\ exitOk' = (ret /\ ok)
    /\ held' = held \ ({"source", "memfd"}
                  \cup (IF "target_initialized" \in flags THEN {"target"} ELSE {}))
    /\ flags' = flags \ {"source_files_registered"}
    /\ posting' = EmptyBag /\ late' = EmptyBag /\ cq' = EmptyCqs
    /\ pc' = "exited"
    /\ UNCHANGED <<run, call, callVars, ret, rows, table, histVars>>

Exited == pc = "exited" /\ UNCHANGED vars

Program ==
    \/ Setup \/ SetupFails \/ BeginData \/ OpenTarget \/ OpenTargetFails
    \/ SubmitBatch \/ SubmitFails \/ DrainSource \/ EnterTarget \/ TargetTimesOut
    \/ DrainTarget \/ EndData \/ FlushTarget \/ Verdict
    \/ EndSendFd \/ SubmitReads \/ DrainReads \/ Verified \/ Out \/ Cleanup

Next == Program \/ KernelPost \/ KernelPostLate \/ KernelFault \/ Exited

\* The process is scheduled and the kernel posts what it owes.
Spec == Init /\ [][Next]_vars /\ WF_vars(Program) /\ WF_vars(KernelPost)

-----------------------------------------------------------------------------
(* Properties                                                              *)

\* A row that says it passed is written in this step.
PassingRow == Len(rows') > Len(rows) /\ rows'[Len(rows')]

\* Every message was read exactly once on each side, with its value or with
\* one slot of its own, in the batch that sent it, and nothing else was read.
Earned ==
    /\ ~strayed
    /\ IF profile = "f0"
         THEN \E slot \in [Slots -> Slots] :
                 /\ \A s, t \in Slots : slot[s] = slot[t] => s = t
                 /\ reaped = SetToBag((UNION {Sent(s, slot[s]) : s \in Slots})
                                          \cup {<<"verify", s, 1>> : s \in Slots})
         ELSE reaped = SetToBag(UNION {Sent(s, 0) : s \in Slots})

\* A passing row is earned, whatever completions the kernel doubled, lost,
\* delayed, misaddressed or answered wrongly and whichever wait timed out.
RowEarned == [][PassingRow => Earned]_vars

\* A passing row of f0 means that every slot of the target's table holds the
\* file that was sent, not merely that its number was reported.
SlotsHoldTheFile ==
    [][PassingRow /\ profile = "f0" => \A s \in Slots : table[s] = "sentinel"]_vars

\* Sequence numbers restart with each round, so no round may begin while a
\* completion of an earlier one is under way or unread, whatever wait timed
\* out: only a kernel at fault (it doubles a completion) can bring that about.
StartsClean == pc = "call" /\ faults = 0 => posting = EmptyBag /\ cq = EmptyCqs

\* Nothing is written after a failed row; a successful exit means that all
\* rows of the mode are there and passed, and that the program gave back every
\* fixed-file table it registered.  Whichever step failed, on exit the program
\* has closed what it opened.
ExitHonest ==
    /\ \A i \in 1..Len(rows) - 1 : rows[i]
    /\ exitOk => /\ Len(rows) = IF mode = "smoke" THEN 1 ELSE MEASURED_ROUNDS
                 /\ \A i \in 1..Len(rows) : rows[i]
                 /\ registered = {}
    /\ pc = "exited" => held = {}

\* The program ends, whatever is lost; and with a kernel that makes no mistake
\* and is in time it succeeds: the checks reject nothing that is right.
Terminates == <>(pc = "exited" /\ (faults = 0 /\ ~slow => exitOk))

=============================================================================
