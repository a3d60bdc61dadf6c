------------------------------ MODULE RawRing ------------------------------
(***************************************************************************)
(* The raw submission and completion rings of io_uring_cancel_round.c: two *)
(* arrays in memory shared with the kernel, four unsigned indices that     *)
(* wrap, and the functions queue_sqe, enter_ring and wait_and_copy that    *)
(* move them.  The kernel side (taking SQEs, posting CQEs) is external and *)
(* modelled from what these functions rely on.                             *)
(*                                                                         *)
(* The user is one thread: `pc' is where it is, and the kernel takes SQEs  *)
(* only inside its io_uring_enter, but may post CQEs at any time.          *)
(***************************************************************************)
EXTENDS Naturals, Sequences, FiniteSets

CONSTANTS
    Reqs,        \* user_data values
    Blank,       \* an SQE that queue_sqe has zeroed and nobody filled yet
    SqEntries,   \* RING_ENTRIES
    CqEntries,   \* p.cq_entries
    W,           \* 2^32, the modulus of the unsigned indices
    MaxLive      \* bound: requests the workload keeps in the rings at once

ASSUME RingAssumption ==
    /\ SqEntries \in Nat \ {0} /\ CqEntries \in Nat \ {0} /\ W \in Nat \ {0}
    /\ SqEntries < W /\ W % SqEntries = 0
    /\ CqEntries < W /\ W % CqEntries = 0
    /\ MaxLive \in Nat /\ MaxLive <= CqEntries
    /\ Blank \notin Reqs

VARIABLES
    sqHead, sqTail, sqes,        \* submission indices and slots
    cqHead, cqTail, cqes,        \* completion indices and slots
    inFlight,                    \* requests the kernel has taken
    queued,                      \* SQEs queued since the last io_uring_enter
    taken,                       \* SQEs the kernel took in this io_uring_enter
    expected,                    \* completions the caller asks for
    minComplete,                 \* min_complete of the second wait
    copied,                      \* the caller's copy[] array, as filled so far
    pc

sqVars   == <<sqHead, sqTail, sqes>>
cqVars   == <<cqHead, cqTail, cqes>>
callVars == <<queued, taken, expected, minComplete>>
vars     == <<sqVars, cqVars, inFlight, callVars, copied, pc>>

-----------------------------------------------------------------------------
\* Mutant: the indices do not wrap.
Plus_NoWrap(x, n) == x + n

\* Unsigned arithmetic of the width W on values below W.
Plus(x, n)  == IF x + n >= W THEN x + n - W ELSE x + n
Minus(x, y) == IF x >= y THEN x - y ELSE x + W - y

sqUsed == Minus(sqTail, sqHead)
cq_available == Minus(cqTail, cqHead)
ring_outstanding == sqUsed + cq_available

SqSlot(i) == Plus(sqHead, i) % SqEntries     \* slot of the i-th unread SQE
CqSlot(i) == Plus(cqHead, i) % CqEntries     \* slot of the i-th unread CQE

\* The channel contents the indices denote.  The SQE being filled is not yet
\* part of the submission channel although its tail is already published.
SubmissionQueue ==
    [i \in 1..(IF pc = "fill" THEN sqUsed - 1 ELSE sqUsed) |-> sqes[SqSlot(i - 1)]]
CompletionQueue == [i \in 1..cq_available |-> cqes[CqSlot(i - 1)]]

Elements(s) == {s[i] : i \in DOMAIN s}
Live == Elements(SubmissionQueue) \cup inFlight \cup Elements(CompletionQueue)

-----------------------------------------------------------------------------
Init ==
    /\ sqHead = 0 /\ sqTail = 0 /\ sqes = [s \in 0..SqEntries-1 |-> Blank]
    /\ cqHead = 0 /\ cqTail = 0 /\ cqes = [s \in 0..CqEntries-1 |-> Blank]
    /\ inFlight = {}
    /\ queued = 0 /\ taken = 0 /\ expected = 0 /\ minComplete = 0
    /\ copied = <<>>
    /\ pc = "build"

\* Mutant: the capacity test is off by one.
QueueSqe_OffByOne ==
    /\ pc = "build"
    /\ sqUsed <= SqEntries
    /\ sqUsed + Cardinality(inFlight) + cq_available < MaxLive
    /\ sqes' = [sqes EXCEPT ![sqTail % SqEntries] = Blank]
    /\ sqTail' = Plus(sqTail, 1)
    /\ pc' = "fill"
    /\ UNCHANGED <<sqHead, cqVars, inFlight, callVars, copied>>

\* queue_sqe: the slot is zeroed and the tail published before the caller
\* writes opcode and user_data into it.
QueueSqe ==
    /\ pc = "build"
    /\ sqUsed < SqEntries
    /\ sqUsed + Cardinality(inFlight) + cq_available < MaxLive
    /\ sqes' = [sqes EXCEPT ![sqTail % SqEntries] = Blank]
    /\ sqTail' = Plus(sqTail, 1)
    /\ pc' = "fill"
    /\ UNCHANGED <<sqHead, cqVars, inFlight, callVars, copied>>

\* Mutant: the slot is computed from the tail already advanced.
FillSqe_NextSlot(r) ==
    /\ pc = "fill"
    /\ r \notin Live
    /\ sqes' = [sqes EXCEPT ![sqTail % SqEntries] = r]
    /\ queued' = queued + 1
    /\ pc' = "build"
    /\ UNCHANGED <<sqHead, sqTail, cqVars, inFlight, taken, expected,
                   minComplete, copied>>

\* queue_poll, queue_cancel_key, ... fill the SQE that queue_sqe returned.
FillSqe(r) ==
    /\ pc = "fill"
    /\ r \notin Live
    /\ sqes' = [sqes EXCEPT ![SqSlot(sqUsed - 1)] = r]
    /\ queued' = queued + 1
    /\ pc' = "build"
    /\ UNCHANGED <<sqHead, sqTail, cqVars, inFlight, taken, expected,
                   minComplete, copied>>

\* queue_sqe finds tail - head >= sq_entries and returns NULL: the round fails.
QueueFull ==
    /\ pc = "build"
    /\ sqUsed >= SqEntries
    /\ pc' = "failed"
    /\ UNCHANGED <<sqVars, cqVars, inFlight, callVars, copied>>

\* enter_ring(to_submit = queued, min_complete = n); n = 0 does not wait.
Enter(n) ==
    /\ pc = "build"
    /\ queued > 0
    /\ expected' = n
    /\ taken' = 0
    /\ copied' = <<>>
    /\ pc' = "submitting"
    /\ UNCHANGED <<sqVars, cqVars, inFlight, queued, minComplete>>

\* wait_and_copy called on its own, after everything was submitted earlier.
Wait(n) ==
    /\ pc = "build"
    /\ n > 0
    /\ expected' = n
    /\ copied' = <<>>
    /\ pc' = "sample"
    /\ UNCHANGED <<sqVars, cqVars, inFlight, queued, taken, minComplete>>

\* The kernel takes the next SQE inside io_uring_enter.
KernelTake ==
    /\ pc = "submitting"
    /\ taken < queued
    /\ inFlight' = inFlight \cup {sqes[SqSlot(0)]}
    /\ sqHead' = Plus(sqHead, 1)
    /\ taken' = taken + 1
    /\ UNCHANGED <<sqTail, sqes, cqVars, queued, expected, minComplete,
                   copied, pc>>

\* The syscall returns the number taken; a short count fails the round.  With
\* everything taken it sleeps for CQEs when asked to.
EnterReturns ==
    /\ pc = "submitting"
    /\ IF taken # queued
         THEN pc' = "failed" /\ UNCHANGED queued
         ELSE /\ queued' = 0
              /\ pc' = IF expected = 0 THEN "build" ELSE "sleeping"
    /\ UNCHANGED <<sqVars, cqVars, inFlight, taken, expected, minComplete,
                   copied>>

\* A submitting io_uring_enter reports the number submitted whether its wait
\* was satisfied, timed out or was interrupted: it may come back early.
SleepReturns ==
    /\ pc = "sleeping"
    /\ pc' = "sample"
    /\ UNCHANGED <<sqVars, cqVars, inFlight, callVars, copied>>

\* wait_and_copy's first look at the CQ: when CQEs are missing it enters the
\* ring once more with min_complete = expected - available.
WaitAgain ==
    /\ pc = "sample"
    /\ cq_available < expected
    /\ minComplete' = expected - cq_available
    /\ pc' = "resleeping"
    /\ UNCHANGED <<sqVars, cqVars, inFlight, queued, taken, expected, copied>>

\* The kernel counts min_complete from cq.head, CQEs already there included.
\* A pure wait reports its timeout (ETIME), which fails the round.
ResleepReturns ==
    /\ pc = "resleeping"
    /\ \/ cq_available >= minComplete /\ pc' = "resample"
       \/ cq_available < minComplete /\ pc' = "failed"
    /\ UNCHANGED <<sqVars, cqVars, inFlight, callVars, copied>>

\* Mutant: the head is released before the CQEs are copied.
StartCopy_ReleaseFirst ==
    /\ pc \in {"sample", "resample"}
    /\ cq_available = expected
    /\ cqHead' = Plus(cqHead, expected)
    /\ pc' = "copying"
    /\ UNCHANGED <<sqVars, cqTail, cqes, inFlight, callVars, copied>>

\* Exactly the expected number: copy them.
StartCopy ==
    /\ pc \in {"sample", "resample"}
    /\ cq_available = expected
    /\ pc' = "copying"
    /\ UNCHANGED <<sqVars, cqVars, inFlight, callVars, copied>>

\* Any other number: everything available is released and the round fails.
Discard ==
    /\ \/ pc = "sample" /\ cq_available > expected
       \/ pc = "resample" /\ cq_available # expected
    /\ cqHead' = cqTail
    /\ pc' = "failed"
    /\ UNCHANGED <<sqVars, cqTail, cqes, inFlight, callVars, copied>>

CopyOne ==
    /\ pc = "copying"
    /\ Len(copied) < expected
    /\ copied' = Append(copied, cqes[CqSlot(Len(copied))])
    /\ UNCHANGED <<sqVars, cqVars, inFlight, callVars, pc>>

\* Mutant: one CQE more than was copied is released.
ReleaseHead_OneMore ==
    /\ pc = "copying"
    /\ Len(copied) = expected
    /\ cqHead' = Plus(cqHead, expected + 1)
    /\ pc' = "build"
    /\ UNCHANGED <<sqVars, cqTail, cqes, inFlight, callVars, copied>>

\* The head is stored, with release order, after the last CQE was copied.
ReleaseHead ==
    /\ pc = "copying"
    /\ Len(copied) = expected
    /\ cqHead' = Plus(cqHead, expected)
    /\ pc' = "build"
    /\ UNCHANGED <<sqVars, cqTail, cqes, inFlight, callVars, copied>>

\* The kernel posts the completion of r; without room it would overflow.
KernelPost(r) ==
    /\ r \in inFlight
    /\ cq_available < CqEntries
    /\ inFlight' = inFlight \ {r}
    /\ cqes' = [cqes EXCEPT ![cqTail % CqEntries] = r]
    /\ cqTail' = Plus(cqTail, 1)
    /\ UNCHANGED <<sqVars, cqHead, callVars, copied, pc>>

\* raw_ring_destroy after a failed round ends this ring.
Destroyed == pc = "failed" /\ UNCHANGED vars

Next ==
    \/ QueueSqe \/ QueueFull
    \/ \E r \in Reqs : FillSqe(r) \/ KernelPost(r)
    \/ \E n \in 0..MaxLive : Enter(n) \/ Wait(n)
    \/ KernelTake \/ EnterReturns \/ SleepReturns
    \/ WaitAgain \/ ResleepReturns
    \/ StartCopy \/ Discard \/ CopyOne \/ ReleaseHead
    \/ Destroyed

Spec == Init /\ [][Next]_vars

-----------------------------------------------------------------------------
(* Properties                                                              *)

\* The indices stay within their width, the entries and the calls' counters
\* are what their types say.  (queue_sqe, wait_and_copy)
TypeOK ==
    /\ sqHead \in 0..W-1 /\ sqTail \in 0..W-1
    /\ cqHead \in 0..W-1 /\ cqTail \in 0..W-1
    /\ sqes \in [0..SqEntries-1 -> Reqs \cup {Blank}]
    /\ cqes \in [0..CqEntries-1 -> Reqs \cup {Blank}]
    /\ inFlight \subseteq Reqs \cup {Blank}
    /\ queued \in Nat /\ taken \in Nat
    /\ expected \in Nat /\ minComplete \in Nat
    /\ copied \in Seq(Reqs \cup {Blank})
    /\ pc \in {"build", "fill", "submitting", "sleeping", "sample",
               "resleeping", "resample", "copying", "failed"}

\* No ring ever holds more entries than it has slots, whatever the wrapped
\* values of its indices: this is what queue_sqe's test tail - head >=
\* sq_entries is for, and why the CQ (2 * RING_ENTRIES) needs no such test.
WithinCapacity == sqUsed <= SqEntries /\ cq_available <= CqEntries

\* A request is in one place only, and once: never in two slots, never both in
\* flight and completed, so no CQE can be reaped twice and none is lost to a
\* slot reused too early.  And although queue_sqe publishes the tail before
\* the SQE is filled, the kernel never takes one whose fields are not written.
OncePerRequest ==
    /\ \A i, j \in DOMAIN SubmissionQueue :
          SubmissionQueue[i] = SubmissionQueue[j] => i = j
    /\ \A i, j \in DOMAIN CompletionQueue :
          CompletionQueue[i] = CompletionQueue[j] => i = j
    /\ Elements(SubmissionQueue) \cap inFlight = {}
    /\ Elements(SubmissionQueue) \cap Elements(CompletionQueue) = {}
    /\ inFlight \cap Elements(CompletionQueue) = {}
    /\ Blank \notin Live

\* What wait_and_copy has copied so far is what the kernel posted, in order:
\* no slot is posted over before the head is released.
CopyIsFaithful ==
    pc = "copying" =>
        /\ Len(copied) <= cq_available
        /\ copied = SubSeq(CompletionQueue, 1, Len(copied))

Channels == INSTANCE RingChannels WITH
                submitted <- SubmissionQueue, completed <- CompletionQueue

\* The two index rings implement a bounded FIFO submission channel, a set of
\* requests in flight and a bounded FIFO completion channel.
ImplementsChannels == Channels!Spec
=============================================================================
