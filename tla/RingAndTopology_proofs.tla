----------------------- MODULE RingAndTopology_proofs -----------------------
(***************************************************************************)
(* Proofs about RawRing for every ring size, index width and set of        *)
(* requests: the types, that no ring exceeds its capacity, that the rings  *)
(* implement the channels of RingChannels, and what follows from that:     *)
(* each request is in one place, and copies are faithful.  The refinement  *)
(* rests on entries of a ring that is not over-full being in different     *)
(* slots.                                                                  *)
(*                                                                         *)
(* Then two parts of their own.  NetRound: what a run of io_uring_net_round*)
(* reports and leaves.  FsTopology, for any number of workers and groups:  *)
(* the barrier separates the timed regions, the keeper keeps the connector *)
(* of a shared inode out of them, and a run that passes has added and      *)
(* removed the watch of every group.  The last rests on what SumFunction   *)
(* computes, which is shown by taking a smallest set for which it would be *)
(* wrong.                                                                  *)
(***************************************************************************)
EXTENDS RawRing, NetRound, FsTopology, Integers, FiniteSetTheorems, WellFoundedInduction, TLAPS

\* The SQ holds exactly what was queued and not yet handed over, the SQE being
\* filled included; a caller that copies found as many CQEs as it will release.
Accounted ==
    /\ pc \in {"build", "sleeping", "sample", "resleeping", "resample", "copying"}
         => sqUsed = queued
    /\ pc = "fill" => sqUsed = queued + 1
    /\ pc = "submitting" => taken <= queued /\ sqUsed = queued - taken
    /\ pc \in {"submitting", "sleeping", "sample", "resleeping", "resample"}
         => copied = <<>>
    /\ pc = "copying" => Len(copied) <= expected /\ expected <= cq_available

CapacityInv == TypeOK /\ WithinCapacity /\ Accounted

-----------------------------------------------------------------------------
(* Unsigned arithmetic                                                     *)

LEMMA MinusRange ==
    ASSUME NEW x \in 0..W-1, NEW y \in 0..W-1
    PROVE  Minus(x, y) \in 0..W-1
  BY RingAssumption DEF Minus

\* Advancing the tail by one makes a ring that is not full one longer.
LEMMA TailAdvance ==
    ASSUME NEW tail \in 0..W-1, NEW head \in 0..W-1, Minus(tail, head) < W - 1
    PROVE  /\ Plus(tail, 1) \in 0..W-1
           /\ Minus(Plus(tail, 1), head) = Minus(tail, head) + 1
  BY RingAssumption DEF Plus, Minus

\* Advancing the head by no more than the ring holds makes it that much shorter.
LEMMA HeadAdvance ==
    ASSUME NEW tail \in 0..W-1, NEW head \in 0..W-1, NEW n \in Nat,
           n <= Minus(tail, head)
    PROVE  /\ Plus(head, n) \in 0..W-1
           /\ Minus(tail, Plus(head, n)) = Minus(tail, head) - n
  BY RingAssumption DEF Plus, Minus

LEMMA SlotRange ==
    ASSUME NEW x \in Nat, NEW n \in Nat \ {0}
    PROVE  x % n \in 0..n-1
  OBVIOUS

LEMMA PlusNat ==
    ASSUME NEW x \in 0..W-1, NEW n \in Nat
    PROVE  Plus(x, n) \in Nat
  BY RingAssumption DEF Plus
-----------------------------------------------------------------------------
(* The actions                                                             *)

\* Actions that touch neither ring: what is left to show is the bookkeeping.
LEMMA RingsUntouched ==
    ASSUME CapacityInv, UNCHANGED <<sqVars, cqVars, inFlight>>,
           queued' \in Nat, taken' \in Nat, expected' \in Nat, minComplete' \in Nat,
           copied' \in Seq(Reqs \cup {Blank}),
           pc' \in {"build", "fill", "submitting", "sleeping", "sample",
                    "resleeping", "resample", "copying", "failed"},
           Accounted'
    PROVE  CapacityInv'
  BY DEF CapacityInv, TypeOK, WithinCapacity, sqUsed, cq_available, sqVars, cqVars

LEMMA InitCapacity == Init => CapacityInv
  BY RingAssumption
     DEF Init, CapacityInv, TypeOK, WithinCapacity, Accounted, sqUsed, cq_available, Minus

LEMMA NextKeepsCapacity == CapacityInv /\ [Next]_vars => CapacityInv'
<1> SUFFICES ASSUME CapacityInv, [Next]_vars PROVE CapacityInv'
  OBVIOUS
<1> USE DEF sqVars, cqVars, callVars
<1>0. /\ TypeOK /\ WithinCapacity /\ Accounted
      /\ sqUsed \in Nat /\ cq_available \in Nat
  <2>1. TypeOK /\ WithinCapacity /\ Accounted
    BY DEF CapacityInv
  <2>2. sqUsed \in 0..W-1
    BY <2>1, MinusRange DEF TypeOK, sqUsed
  <2>3. cq_available \in 0..W-1
    BY <2>1, MinusRange DEF TypeOK, cq_available
  <2> QED
    BY <2>1, <2>2, <2>3, RingAssumption
<1>1. CASE QueueSqe
  <2>1. sqTail' \in 0..W-1 /\ sqUsed' = sqUsed + 1
    BY <1>0, <1>1, TailAdvance, RingAssumption DEF QueueSqe, TypeOK, sqUsed
  <2>2. cq_available' = cq_available
    BY <1>1 DEF QueueSqe, cq_available
  <2>3. sqes' \in [0..SqEntries-1 -> Reqs \cup {Blank}]
    BY <1>0, <1>1 DEF QueueSqe, TypeOK
  <2>4. TypeOK'
    BY <1>0, <1>1, <2>1, <2>3 DEF QueueSqe, TypeOK
  <2>5. WithinCapacity' /\ Accounted'
    BY <1>0, <1>1, <2>1, <2>2, RingAssumption DEF QueueSqe, WithinCapacity, Accounted, TypeOK
  <2> QED
    BY <2>4, <2>5 DEF CapacityInv
<1>2. ASSUME NEW r \in Reqs, FillSqe(r) PROVE CapacityInv'
  <2>1. sqes' \in [0..SqEntries-1 -> Reqs \cup {Blank}]
    BY <1>0, <1>2 DEF FillSqe, TypeOK
  <2>2. sqUsed' = sqUsed /\ cq_available' = cq_available
    BY <1>2 DEF FillSqe, sqUsed, cq_available
  <2> QED
    BY <1>0, <1>2, <2>1, <2>2
       DEF FillSqe, CapacityInv, TypeOK, WithinCapacity, Accounted
<1>3. CASE QueueFull \/ EnterReturns \/ SleepReturns \/ WaitAgain \/ ResleepReturns \/ StartCopy
  <2>1. sqUsed' = sqUsed /\ cq_available' = cq_available
    BY <1>3 DEF QueueFull, EnterReturns, SleepReturns, WaitAgain, ResleepReturns,
                StartCopy, sqUsed, cq_available
  <2>2. CASE QueueFull
    BY <1>0, <2>1, <2>2, RingsUntouched DEF QueueFull, TypeOK, Accounted
  <2>3. CASE EnterReturns
    BY <1>0, <2>1, <2>3, RingsUntouched DEF EnterReturns, TypeOK, Accounted
  <2>4. CASE SleepReturns
    BY <1>0, <2>1, <2>4, RingsUntouched DEF SleepReturns, TypeOK, Accounted
  <2>5. CASE WaitAgain
    BY <1>0, <2>1, <2>5, RingsUntouched DEF WaitAgain, TypeOK, Accounted
  <2>6. CASE ResleepReturns
    BY <1>0, <2>1, <2>6, RingsUntouched DEF ResleepReturns, TypeOK, Accounted
  <2>7. CASE StartCopy
    <3>1. Len(copied) = 0
      BY <1>0, <2>7 DEF StartCopy, Accounted
    <3>2. Accounted'
      BY <1>0, <2>1, <2>7, <3>1 DEF StartCopy, TypeOK, Accounted
    <3> QED
      BY <1>0, <2>7, <3>2, RingsUntouched DEF StartCopy, TypeOK
  <2> QED
    BY <1>3, <2>2, <2>3, <2>4, <2>5, <2>6, <2>7
<1>4. ASSUME NEW n \in 0..MaxLive, Enter(n) \/ Wait(n) PROVE CapacityInv'
  <2>1. sqUsed' = sqUsed /\ cq_available' = cq_available /\ n \in Nat
    BY <1>4, RingAssumption DEF Enter, Wait, sqUsed, cq_available
  <2>2. <<>> \in Seq(Reqs \cup {Blank})
    OBVIOUS
  <2>3. Accounted'
    BY <1>0, <1>4, <2>1 DEF Enter, Wait, TypeOK, Accounted
  <2>4. /\ UNCHANGED <<sqVars, cqVars, inFlight, queued, minComplete>>
        /\ taken' \in {0, taken} /\ expected' = n /\ copied' = <<>>
    BY <1>4 DEF Enter, Wait
  <2>6. /\ queued' \in Nat /\ minComplete' \in Nat
        /\ taken' \in Nat /\ expected' \in Nat
    BY <1>0, <2>1, <2>4 DEF TypeOK
  <2>7. copied' \in Seq(Reqs \cup {Blank})
    BY <2>2, <2>4
  <2>5. pc' \in {"build", "fill", "submitting", "sleeping", "sample",
                  "resleeping", "resample", "copying", "failed"}
    BY <1>4 DEF Enter, Wait
  <2> QED
    BY <2>3, <2>4, <2>5, <2>6, <2>7, RingsUntouched
<1>5. CASE KernelTake
  <2>1. sqHead' \in 0..W-1 /\ sqUsed' = sqUsed - 1 /\ sqUsed >= 1
    BY <1>0, <1>5, HeadAdvance DEF KernelTake, TypeOK, Accounted, sqUsed
  <2>2. SqSlot(0) \in 0..SqEntries-1
    BY <1>0, SlotRange, PlusNat, RingAssumption DEF SqSlot, TypeOK
  <2>3. inFlight' \subseteq Reqs \cup {Blank} /\ cq_available' = cq_available
    BY <1>0, <1>5, <2>2 DEF KernelTake, TypeOK, cq_available
  <2>4. TypeOK'
    BY <1>0, <1>5, <2>1, <2>3 DEF KernelTake, TypeOK
  <2>5. WithinCapacity'
    BY <1>0, <1>5, <2>1, <2>3, RingAssumption DEF KernelTake, WithinCapacity
  <2>6. Accounted'
    BY <1>0, <1>5, <2>1, <2>3 DEF KernelTake, TypeOK, Accounted
  <2> QED
    BY <2>4, <2>5, <2>6 DEF CapacityInv
<1>6. CASE Discard
  <2>1. cq_available' = 0 /\ sqUsed' = sqUsed
    BY <1>0, <1>6, RingAssumption DEF Discard, cq_available, sqUsed, Minus, TypeOK
  <2> QED
    BY <1>0, <1>6, <2>1, RingAssumption
       DEF Discard, CapacityInv, TypeOK, WithinCapacity, Accounted
<1>7. CASE CopyOne
  <2>1. CqSlot(Len(copied)) \in 0..CqEntries-1
    <3>1. Len(copied) \in Nat /\ cqHead \in 0..W-1
      BY <1>0 DEF TypeOK
    <3>2. Plus(cqHead, Len(copied)) \in Nat
      BY <3>1, PlusNat
    <3> QED
      BY <3>2, SlotRange, RingAssumption DEF CqSlot
  <2>2. copied' \in Seq(Reqs \cup {Blank}) /\ Len(copied') = Len(copied) + 1
    BY <1>0, <1>7, <2>1 DEF CopyOne, TypeOK
  <2>3. sqUsed' = sqUsed /\ cq_available' = cq_available
    BY <1>7 DEF CopyOne, sqUsed, cq_available
  <2>4. Accounted'
    BY <1>0, <1>7, <2>2, <2>3 DEF CopyOne, Accounted, TypeOK
  <2> QED
    BY <1>0, <1>7, <2>2, <2>4, RingsUntouched DEF CopyOne, TypeOK
<1>8. CASE ReleaseHead
  <2>1. cqHead' \in 0..W-1 /\ cq_available' = cq_available - expected
    BY <1>0, <1>8, HeadAdvance DEF ReleaseHead, TypeOK, Accounted, cq_available
  <2>2. sqUsed' = sqUsed
    BY <1>8 DEF ReleaseHead, sqUsed
  <2>4. TypeOK'
    BY <1>0, <1>8, <2>1, <2>2 DEF ReleaseHead, TypeOK
  <2>5. WithinCapacity'
    BY <1>0, <1>8, <2>1, <2>2, RingAssumption DEF ReleaseHead, WithinCapacity
  <2>6. Accounted'
    BY <1>0, <1>8, <2>1, <2>2 DEF ReleaseHead, TypeOK, Accounted
  <2> QED
    BY <2>4, <2>5, <2>6 DEF CapacityInv
<1>9. ASSUME NEW r \in Reqs, KernelPost(r) PROVE CapacityInv'
  <2>1. cqTail' \in 0..W-1 /\ cq_available' = cq_available + 1
    BY <1>0, <1>9, TailAdvance, RingAssumption DEF KernelPost, TypeOK, cq_available
  <2>2. sqUsed' = sqUsed /\ cqes' \in [0..CqEntries-1 -> Reqs \cup {Blank}]
    BY <1>0, <1>9 DEF KernelPost, sqUsed, TypeOK
  <2>4. TypeOK'
    BY <1>0, <1>9, <2>1, <2>2 DEF KernelPost, TypeOK
  <2>5. WithinCapacity'
    BY <1>0, <1>9, <2>1, <2>2, RingAssumption DEF KernelPost, WithinCapacity
  <2>6. Accounted'
    BY <1>0, <1>9, <2>1, <2>2 DEF KernelPost, TypeOK, Accounted
  <2> QED
    BY <2>4, <2>5, <2>6 DEF CapacityInv
<1>10. CASE Destroyed \/ UNCHANGED vars
  <2>1. sqUsed' = sqUsed /\ cq_available' = cq_available
    BY <1>10 DEF Destroyed, vars, sqUsed, cq_available
  <2> QED
    BY <1>0, <1>10, <2>1 DEF Destroyed, vars, CapacityInv, TypeOK, WithinCapacity, Accounted
<1> QED
  BY <1>1, <1>2, <1>3, <1>4, <1>5, <1>6, <1>7, <1>8, <1>9, <1>10 DEF Next

\* Whatever the ring sizes and the width of the indices, every variable keeps
\* its type: the indices stay in range, and the slots the code computes with
\* its masks exist.
THEOREM TypeCorrect == Spec => []TypeOK
<1>1. CapacityInv => TypeOK
  BY DEF CapacityInv
<1> QED
  BY <1>1, InitCapacity, NextKeepsCapacity, PTL DEF Spec

\* ... and neither ring ever holds more than it has slots for, across any
\* number of wraps of the indices (queue_sqe's capacity test; wait_and_copy,
\* which releases no more than was posted).
THEOREM RingsWithinCapacity == Spec => []WithinCapacity
<1>1. CapacityInv => WithinCapacity
  BY DEF CapacityInv
<1> QED
  BY <1>1, InitCapacity, NextKeepsCapacity, PTL DEF Spec

-----------------------------------------------------------------------------
(* Remainders, and the slots of wrapping indices                           *)

LEMMA DivMod ==
    ASSUME NEW x \in Nat, NEW n \in Nat \ {0}
    PROVE  x \div n \in Nat /\ x % n \in 0..n-1 /\ x = n * (x \div n) + (x % n)
  OBVIOUS

LEMMA SmallMultiple ==
    ASSUME NEW n \in Nat \ {0}, NEW k \in Int, n * k < n, 0 - n < n * k
    PROVE  k = 0
<1>1. CASE k >= 1
  <2>1. n * k >= n
    BY <1>1
  <2> QED
    BY <2>1
<1>2. CASE k <= 0 - 1
  <2>1. n * k <= 0 - n
    BY <1>2
  <2> QED
    BY <2>1
<1> QED
  BY <1>1, <1>2

LEMMA Remainder ==
    ASSUME NEW n \in Nat \ {0}, NEW q \in Nat, NEW r \in 0..n-1
    PROVE  (n * q + r) % n = r
<1> DEFINE x == n * q + r
<1>1. x \in Nat
  OBVIOUS
<1>2. x \div n \in Nat /\ x % n \in 0..n-1 /\ x = n * (x \div n) + (x % n)
  BY <1>1, DivMod
<1>3. n * (q - (x \div n)) = (x % n) - r
  BY <1>2
<1>4. n * (q - (x \div n)) < n /\ 0 - n < n * (q - (x \div n))
  BY <1>2, <1>3
<1>5. q - (x \div n) = 0
  <2> HIDE DEF x
  <2> q - (x \div n) \in Int
    BY <1>2
  <2> QED
    BY <1>4, SmallMultiple
<1> QED
  BY <1>2, <1>3, <1>5

\* Numbers less than n apart have different remainders.
LEMMA ModUnique ==
    ASSUME NEW n \in Nat \ {0}, NEW x \in Nat, NEW y \in Nat,
           x <= y, y < x + n, x % n = y % n
    PROVE  x = y
<1>1. /\ x \div n \in Nat /\ x = n * (x \div n) + (x % n)
      /\ y \div n \in Nat /\ y = n * (y \div n) + (y % n)
  BY DivMod
<1>2. y - x = n * ((y \div n) - (x \div n))
  BY <1>1
<1>3. (y \div n) - (x \div n) = 0
  <2> (y \div n) - (x \div n) \in Int
    BY <1>1
  <2> n * ((y \div n) - (x \div n)) < n /\ 0 - n < n * ((y \div n) - (x \div n))
    BY <1>2
  <2> QED
    BY SmallMultiple
<1> QED
  BY <1>2, <1>3

\* The wrap of an index does not move its slot: ring sizes divide the width.
LEMMA ModWrap ==
    ASSUME NEW n \in Nat \ {0}, W % n = 0, NEW x \in Nat, x >= W
    PROVE  (x - W) % n = x % n
<1> DEFINE a == x - W
<1>0. W \in Nat /\ a \in Nat
  BY RingAssumption
<1>1. W \div n \in Nat /\ W = n * (W \div n)
  BY <1>0, DivMod
<1>2. a \div n \in Nat /\ a % n \in 0..n-1 /\ a = n * (a \div n) + (a % n)
  BY <1>0, DivMod
<1>3. x = n * ((a \div n) + (W \div n)) + (a % n)
  BY <1>0, <1>1, <1>2
<1>4. (a \div n) + (W \div n) \in Nat
  BY <1>1, <1>2
<1> HIDE DEF a
<1>5. x % n = a % n
  BY <1>2, <1>3, <1>4, Remainder
<1> QED
  BY <1>5 DEF a

LEMMA PlusMod ==
    ASSUME NEW n \in Nat \ {0}, W % n = 0, NEW x \in 0..W-1, NEW i \in Nat
    PROVE  Plus(x, i) % n = (x + i) % n
<1> W \in Nat /\ x \in Nat /\ x + i \in Nat
  BY RingAssumption
<1>1. CASE x + i >= W
  <2> DEFINE a == x + i
  <2> HIDE DEF a
  <2>0. a \in Nat /\ a >= W
    BY <1>1 DEF a
  <2>2. (a - W) % n = a % n
    BY <2>0, ModWrap
  <2>1. (x + i - W) % n = (x + i) % n
    BY <2>2 DEF a
  <2> QED
    BY <1>1, <2>1 DEF Plus
<1>2. CASE ~(x + i >= W)
  BY <1>2 DEF Plus
<1> QED
  BY <1>1, <1>2

\* Entries of a ring no longer than its slots never share a slot.
LEMMA SlotsDistinct ==
    ASSUME NEW n \in Nat \ {0}, W % n = 0, NEW x \in 0..W-1,
           NEW i \in Nat, NEW j \in Nat, i < j, j < i + n
    PROVE  Plus(x, i) % n # Plus(x, j) % n
<1> SUFFICES ASSUME (x + i) % n = (x + j) % n PROVE FALSE
  BY PlusMod
<1>1. /\ x + i \in Nat /\ x + j \in Nat
      /\ x + i <= x + j /\ x + j < (x + i) + n
  BY RingAssumption
<1>2. x + i = x + j
  <2> DEFINE a == x + i
             b == x + j
  <2> HIDE DEF a, b
  <2> a \in Nat /\ b \in Nat /\ a <= b /\ b < a + n /\ a % n = b % n
    BY <1>1 DEF a, b
  <2> a = b
    BY ModUnique
  <2> QED
    BY DEF a, b
<1> QED
  BY <1>2, RingAssumption

LEMMA PlusPlus ==
    ASSUME NEW x \in 0..W-1, NEW i \in Nat, NEW j \in Nat, i + j <= W
    PROVE  Plus(Plus(x, i), j) = Plus(x, i + j)
  BY RingAssumption DEF Plus

LEMMA TailFromHead ==
    ASSUME NEW tail \in 0..W-1, NEW head \in 0..W-1
    PROVE  tail = Plus(head, Minus(tail, head))
  BY RingAssumption DEF Plus, Minus

-----------------------------------------------------------------------------
(* The channels                                                            *)

\* The length of the submission channel: without the SQE being filled.
SqLen == IF pc = "fill" THEN sqUsed - 1 ELSE sqUsed

\* What the invariant says of the channels.
LEMMA Shape ==
    ASSUME CapacityInv
    PROVE  /\ SqLen \in Nat /\ SqLen <= SqEntries /\ SqLen <= sqUsed
           /\ sqUsed \in Nat /\ sqUsed <= SqEntries
           /\ cq_available \in Nat /\ cq_available <= CqEntries
           /\ SubmissionQueue = [i \in 1..SqLen |-> sqes[SqSlot(i - 1)]]
           /\ CompletionQueue = [i \in 1..cq_available |-> cqes[CqSlot(i - 1)]]
           /\ Len(SubmissionQueue) = SqLen /\ Len(CompletionQueue) = cq_available
<1>1. sqUsed \in Nat /\ cq_available \in Nat
  <2>1. /\ sqHead \in 0..W-1 /\ sqTail \in 0..W-1
        /\ cqHead \in 0..W-1 /\ cqTail \in 0..W-1
    BY DEF CapacityInv, TypeOK
  <2>2. sqUsed \in 0..W-1 /\ cq_available \in 0..W-1
    BY <2>1, MinusRange DEF sqUsed, cq_available
  <2> QED
    BY <2>2, RingAssumption
<1>2. SqLen \in Nat /\ SqLen <= sqUsed
  BY <1>1 DEF CapacityInv, TypeOK, Accounted, SqLen
<1>3. sqUsed <= SqEntries /\ cq_available <= CqEntries
  BY DEF CapacityInv, WithinCapacity
<1>4. SubmissionQueue = [i \in 1..SqLen |-> sqes[SqSlot(i - 1)]]
  BY DEF SubmissionQueue, SqLen
<1>5. CompletionQueue = [i \in 1..cq_available |-> cqes[CqSlot(i - 1)]]
  BY DEF CompletionQueue
<1>6. Len(SubmissionQueue) = SqLen /\ Len(CompletionQueue) = cq_available
  BY <1>1, <1>2, <1>4, <1>5
<1> QED
  BY <1>1, <1>2, <1>3, <1>4, <1>5, <1>6, RingAssumption

\* Empty rings are empty channels.
LEMMA InitRefines == Init => Channels!Init
<1> SUFFICES ASSUME Init PROVE Channels!Init
  OBVIOUS
<1>1. sqUsed = 0 /\ cq_available = 0
  BY RingAssumption DEF Init, sqUsed, cq_available, Minus
<1>2. SubmissionQueue = <<>>
  BY <1>1 DEF SubmissionQueue, Init
<1>3. CompletionQueue = <<>>
  BY <1>1 DEF CompletionQueue
<1> QED
  BY <1>2, <1>3 DEF Channels!Init, Init

\* The submission channel sees nothing but the slots between head and tail.
LEMMA SubmissionSame ==
    ASSUME CapacityInv, CapacityInv', SqLen' = SqLen, sqHead' = sqHead,
           \A i \in 0..SqLen-1 : sqes'[SqSlot(i)] = sqes[SqSlot(i)]
    PROVE  SubmissionQueue' = SubmissionQueue
<1>1. /\ SubmissionQueue = [i \in 1..SqLen |-> sqes[SqSlot(i - 1)]]
      /\ SqLen \in Nat
  BY Shape
<1>2. SubmissionQueue' = [i \in 1..SqLen' |-> sqes'[SqSlot(i - 1)']]
  BY DEF SubmissionQueue, SqLen
<1>3. \A i \in 1..SqLen : SqSlot(i - 1)' = SqSlot(i - 1)
  BY DEF SqSlot
<1>4. \A i \in 1..SqLen : sqes'[SqSlot(i - 1)'] = sqes[SqSlot(i - 1)]
  BY <1>1, <1>3
<1> QED
  BY <1>1, <1>2, <1>4

-----------------------------------------------------------------------------
(* The steps                                                               *)

LEMMA QueueRefines ==
    ASSUME CapacityInv, CapacityInv', QueueSqe
    PROVE  UNCHANGED Channels!vars
<1>1. /\ sqHead \in 0..W-1 /\ sqTail \in 0..W-1 /\ sqUsed \in Nat /\ sqUsed < SqEntries
      /\ sqes \in [0..SqEntries-1 -> Reqs \cup {Blank}] /\ SqLen = sqUsed
  BY Shape DEF QueueSqe, SqLen, CapacityInv, TypeOK
<1>2. sqUsed' = sqUsed + 1
  BY <1>1, TailAdvance, RingAssumption DEF QueueSqe, sqUsed
<1>3. SqLen' = SqLen
  BY <1>1, <1>2 DEF SqLen, QueueSqe
<1>4. sqTail % SqEntries = SqSlot(sqUsed)
  BY <1>1, TailFromHead DEF SqSlot, sqUsed
<1>5. ASSUME NEW i \in 0..SqLen-1 PROVE sqes'[SqSlot(i)] = sqes[SqSlot(i)]
  <2>1. i \in Nat /\ i < sqUsed /\ sqUsed < i + SqEntries
    BY <1>1, RingAssumption
  <2>2. SqSlot(i) # SqSlot(sqUsed)
    BY <1>1, <2>1, SlotsDistinct, RingAssumption DEF SqSlot
  <2> QED
    BY <1>1, <1>4, <2>2 DEF QueueSqe
<1>6. SubmissionQueue' = SubmissionQueue
  BY <1>3, <1>5, SubmissionSame DEF QueueSqe
<1>7. CompletionQueue' = CompletionQueue
  BY DEF QueueSqe, CompletionQueue, cqVars, cq_available, CqSlot
<1> QED
  BY <1>6, <1>7 DEF Channels!vars, QueueSqe

LEMMA FillRefines ==
    ASSUME CapacityInv, CapacityInv', NEW r \in Reqs, FillSqe(r)
    PROVE  Channels!Publish(r)
<1>1. /\ sqHead \in 0..W-1 /\ sqUsed \in Nat /\ sqUsed <= SqEntries
      /\ SqLen = sqUsed - 1 /\ SqLen \in Nat
      /\ sqes \in [0..SqEntries-1 -> Reqs \cup {Blank}]
  BY Shape DEF FillSqe, SqLen, CapacityInv, TypeOK
<1>2. sqUsed' = sqUsed /\ SqLen' = SqLen + 1
  BY <1>1 DEF FillSqe, sqUsed, SqLen
<1>3. SqSlot(SqLen) \in 0..SqEntries-1
  BY <1>1, PlusNat, SlotRange, RingAssumption DEF SqSlot
<1>4. sqes' = [sqes EXCEPT ![SqSlot(SqLen)] = r]
  BY <1>1 DEF FillSqe
<1>5. \A i \in 0..SqLen-1 : SqSlot(i) # SqSlot(SqLen)
  BY <1>1, SlotsDistinct, RingAssumption DEF SqSlot
<1>6. /\ SubmissionQueue = [i \in 1..SqLen |-> sqes[SqSlot(i - 1)]]
      /\ Len(SubmissionQueue) = SqLen
  BY Shape
<1>7. SubmissionQueue' = [i \in 1..SqLen+1 |-> sqes'[SqSlot(i - 1)]]
  BY <1>2 DEF SubmissionQueue, SqLen, FillSqe, SqSlot
<1>8. \A i \in 1..SqLen+1 :
         sqes'[SqSlot(i - 1)] = IF i = SqLen + 1 THEN r ELSE sqes[SqSlot(i - 1)]
  BY <1>1, <1>3, <1>4, <1>5
<1>9. SubmissionQueue' = Append(SubmissionQueue, r)
  BY <1>1, <1>6, <1>7, <1>8
<1>10. CompletionQueue' = CompletionQueue /\ inFlight' = inFlight
  BY DEF FillSqe, CompletionQueue, cqVars, cq_available, CqSlot
<1>11. r \notin Channels!Somewhere
  BY DEF FillSqe, Live, Elements, Channels!Somewhere
<1>12. Len(SubmissionQueue) < SqEntries
  BY <1>1, <1>6, RingAssumption
<1> QED
  BY <1>9, <1>10, <1>11, <1>12 DEF Channels!Publish

LEMMA TakeRefines ==
    ASSUME CapacityInv, CapacityInv', KernelTake
    PROVE  Channels!Take
<1>1. /\ sqHead \in 0..W-1 /\ sqTail \in 0..W-1 /\ sqUsed \in Nat /\ sqUsed >= 1
      /\ sqUsed <= SqEntries /\ SqLen = sqUsed
  BY Shape DEF KernelTake, SqLen, CapacityInv, TypeOK, Accounted
<1>2. sqUsed' = sqUsed - 1 /\ SqLen' = SqLen - 1
  <2>1. sqUsed' = sqUsed - 1
    BY <1>1, HeadAdvance DEF KernelTake, sqUsed
  <2> QED
    BY <1>1, <2>1 DEF KernelTake, SqLen
<1>3. /\ SubmissionQueue = [i \in 1..SqLen |-> sqes[SqSlot(i - 1)]]
      /\ Len(SubmissionQueue) = SqLen
  BY Shape
<1>4. SubmissionQueue' = [i \in 1..SqLen-1 |-> sqes'[SqSlot(i - 1)']]
  BY <1>2 DEF SubmissionQueue, SqLen
<1>5. ASSUME NEW i \in 1..SqLen-1 PROVE SqSlot(i - 1)' = SqSlot(i)
  <2>1. i \in Nat /\ i - 1 \in Nat /\ 1 + (i - 1) = i /\ i <= W
    BY <1>1, RingAssumption
  <2>2. Plus(Plus(sqHead, 1), i - 1) = Plus(sqHead, i)
    BY <1>1, <2>1, PlusPlus
  <2> QED
    BY <2>2 DEF SqSlot, KernelTake
<1>6. SubmissionQueue' = [i \in 1..SqLen-1 |-> sqes[SqSlot(i)]]
  BY <1>4, <1>5 DEF KernelTake
<1>7. SubmissionQueue' = Tail(SubmissionQueue)
  BY <1>1, <1>3, <1>6
<1>8. SubmissionQueue # <<>> /\ Head(SubmissionQueue) = sqes[SqSlot(0)]
  BY <1>1, <1>3
<1>9. CompletionQueue' = CompletionQueue /\ inFlight' = inFlight \cup {sqes[SqSlot(0)]}
  BY DEF KernelTake, CompletionQueue, cqVars, cq_available, CqSlot
<1> QED
  BY <1>7, <1>8, <1>9 DEF Channels!Take

LEMMA PostRefines ==
    ASSUME CapacityInv, CapacityInv', NEW r \in Reqs, KernelPost(r)
    PROVE  Channels!Complete(r)
<1> DEFINE n == cq_available
<1>1. /\ cqHead \in 0..W-1 /\ cqTail \in 0..W-1 /\ n \in Nat /\ n < CqEntries
      /\ cqes \in [0..CqEntries-1 -> Reqs \cup {Blank}]
  BY Shape DEF KernelPost, CapacityInv, TypeOK
<1>2. cq_available' = n + 1
  BY <1>1, TailAdvance, RingAssumption DEF KernelPost, cq_available
<1>3. cqTail % CqEntries = CqSlot(n)
  BY <1>1, TailFromHead DEF CqSlot, cq_available
<1>4. CqSlot(n) \in 0..CqEntries-1
  BY <1>1, PlusNat, SlotRange, RingAssumption DEF CqSlot
<1>5. \A i \in 0..n-1 : CqSlot(i) # CqSlot(n)
  BY <1>1, SlotsDistinct, RingAssumption DEF CqSlot
<1>6. /\ CompletionQueue = [i \in 1..n |-> cqes[CqSlot(i - 1)]]
      /\ Len(CompletionQueue) = n
  BY Shape
<1>7. CompletionQueue' = [i \in 1..n+1 |-> cqes'[CqSlot(i - 1)]]
  BY <1>2 DEF CompletionQueue, KernelPost, CqSlot
<1>8. cqes' = [cqes EXCEPT ![CqSlot(n)] = r]
  BY <1>3 DEF KernelPost
<1> HIDE DEF n
<1>9. \A i \in 1..n+1 :
         cqes'[CqSlot(i - 1)] = IF i = n + 1 THEN r ELSE cqes[CqSlot(i - 1)]
  BY <1>1, <1>4, <1>5, <1>8
<1>10. CompletionQueue' = Append(CompletionQueue, r)
  BY <1>1, <1>6, <1>7, <1>9
<1>11. SubmissionQueue' = SubmissionQueue
  BY DEF KernelPost, SubmissionQueue, sqVars, sqUsed, SqSlot
<1> QED
  BY <1>1, <1>6, <1>10, <1>11 DEF Channels!Complete, KernelPost, n

\* wait_and_copy gives back the k oldest CQEs at once.
LEMMA ReleaseRefines ==
    ASSUME CapacityInv, CapacityInv', NEW k \in Nat, k <= cq_available,
           cqHead' = Plus(cqHead, k),
           UNCHANGED <<cqTail, cqes, sqVars, inFlight>>, pc # "fill", pc' # "fill"
    PROVE  [Channels!Next]_(Channels!vars)
<1> DEFINE n == cq_available
<1>1. /\ cqHead \in 0..W-1 /\ cqTail \in 0..W-1 /\ n \in Nat /\ n <= CqEntries
  BY Shape DEF CapacityInv, TypeOK
<1>2. cq_available' = n - k
  BY <1>1, HeadAdvance DEF cq_available
<1>3. /\ CompletionQueue = [i \in 1..n |-> cqes[CqSlot(i - 1)]]
      /\ Len(CompletionQueue) = n
  BY Shape
<1>4. CompletionQueue' = [i \in 1..n-k |-> cqes[CqSlot(i - 1)']]
  BY <1>2 DEF CompletionQueue
<1>5. ASSUME NEW i \in 1..n-k PROVE CqSlot(i - 1)' = CqSlot(k + i - 1)
  <2>1. i - 1 \in Nat /\ k + (i - 1) <= W /\ k + (i - 1) = k + i - 1
    BY <1>1, RingAssumption
  <2>2. Plus(Plus(cqHead, k), i - 1) = Plus(cqHead, k + i - 1)
    BY <1>1, <2>1, PlusPlus
  <2> QED
    BY <2>2 DEF CqSlot
<1>6. CompletionQueue' = [i \in 1..n-k |-> cqes[CqSlot(k + i - 1)]]
  BY <1>4, <1>5
<1>7. SubmissionQueue' = SubmissionQueue
  BY DEF SubmissionQueue, sqVars, sqUsed, SqSlot
<1> HIDE DEF n
<1>8. CASE k = 0
  <2>1. CompletionQueue' = CompletionQueue
    BY <1>1, <1>3, <1>6, <1>8
  <2> QED
    BY <1>7, <2>1 DEF Channels!vars
<1>9. CASE k # 0
  <2>1. CompletionQueue' = SubSeq(CompletionQueue, k + 1, n)
    BY <1>1, <1>3, <1>6, <1>9 DEF n
  <2>2. k \in 1..Len(CompletionQueue) /\ k \in 1..CqEntries
    BY <1>1, <1>3, <1>9, RingAssumption DEF n
  <2>3. Channels!Release(k)
    BY <1>3, <1>7, <2>1, <2>2 DEF Channels!Release
  <2> QED
    BY <2>2, <2>3 DEF Channels!Next
<1> QED
  BY <1>8, <1>9

LEMMA OthersRefine ==
    ASSUME UNCHANGED <<sqVars, cqVars, inFlight>>, pc # "fill", pc' # "fill"
    PROVE  UNCHANGED Channels!vars
  BY DEF Channels!vars, SubmissionQueue, CompletionQueue, sqVars, cqVars, sqUsed,
         cq_available, SqSlot, CqSlot

\* Every step of the rings is a step of the channels or leaves them alone.
LEMMA NextRefines ==
    ASSUME CapacityInv, CapacityInv', [Next]_vars
    PROVE  [Channels!Next]_(Channels!vars)
<1>1. CASE QueueSqe
  BY <1>1, QueueRefines
<1>2. ASSUME NEW r \in Reqs, FillSqe(r) PROVE Channels!Next
  BY <1>2, FillRefines DEF Channels!Next
<1>3. ASSUME NEW r \in Reqs, KernelPost(r) PROVE Channels!Next
  BY <1>3, PostRefines DEF Channels!Next
<1>4. CASE KernelTake
  BY <1>4, TakeRefines DEF Channels!Next
<1>5. CASE ReleaseHead
  <2>1. expected \in Nat /\ expected <= cq_available
    BY <1>5 DEF ReleaseHead, CapacityInv, TypeOK, Accounted
  <2> QED
    BY <1>5, <2>1, ReleaseRefines DEF ReleaseHead, sqVars
<1>6. CASE Discard
  <2>1. cq_available \in Nat /\ cqHead' = Plus(cqHead, cq_available)
    BY <1>6, Shape, TailFromHead DEF Discard, CapacityInv, TypeOK, cq_available
  <2> QED
    BY <1>6, <2>1, ReleaseRefines DEF Discard, sqVars
<1>7. CASE QueueFull \/ EnterReturns \/ SleepReturns \/ WaitAgain \/ ResleepReturns
           \/ StartCopy \/ CopyOne
  BY <1>7, OthersRefine
     DEF QueueFull, EnterReturns, SleepReturns, WaitAgain, ResleepReturns, StartCopy, CopyOne
<1>8. ASSUME NEW n \in 0..MaxLive, Enter(n) \/ Wait(n) PROVE UNCHANGED Channels!vars
  BY <1>8, OthersRefine DEF Enter, Wait
<1>9. CASE Destroyed \/ UNCHANGED vars
  BY <1>9 DEF Destroyed, vars, Channels!vars, SubmissionQueue, CompletionQueue, sqVars,
              cqVars, sqUsed, cq_available, SqSlot, CqSlot
<1> QED
  BY <1>1, <1>2, <1>3, <1>4, <1>5, <1>6, <1>7, <1>8, <1>9 DEF Next

\* The rings with their wrapping indices, slots and the order of their stores
\* (queue_sqe, enter_ring, wait_and_copy) implement bounded FIFO channels.
THEOREM Refinement == Spec => ImplementsChannels
<1>1. Spec => []CapacityInv
  BY InitCapacity, NextKeepsCapacity, PTL DEF Spec
<1>2. CapacityInv /\ CapacityInv' /\ [Next]_vars => [Channels!Next]_(Channels!vars)
  BY NextRefines
<1> QED
  BY <1>1, <1>2, InitRefines, PTL DEF Spec, ImplementsChannels, Channels!Spec

-----------------------------------------------------------------------------
(* What follows for requests and copies                                    *)

\* The channels hold requests, each of them once and in one of them.
Requests(sqs, fl, cqs) ==
    /\ sqs \in Seq(Reqs) /\ fl \subseteq Reqs /\ cqs \in Seq(Reqs)
    /\ \A i \in 1..Len(sqs) : sqs[i] \notin fl
    /\ \A i \in 1..Len(cqs) : cqs[i] \notin fl
    /\ \A i \in 1..Len(sqs), j \in 1..Len(cqs) : sqs[i] # cqs[j]
    /\ \A i, j \in 1..Len(sqs) : sqs[i] = sqs[j] => i = j
    /\ \A i, j \in 1..Len(cqs) : cqs[i] = cqs[j] => i = j

RequestInv == Requests(SubmissionQueue, inFlight, CompletionQueue)

LEMMA RequestsOnce == RequestInv => OncePerRequest
<1> SUFFICES ASSUME RequestInv PROVE OncePerRequest
  OBVIOUS
<1> DEFINE sqs == SubmissionQueue
           cqs == CompletionQueue
<1>1. /\ DOMAIN sqs = 1..Len(sqs) /\ DOMAIN cqs = 1..Len(cqs)
      /\ \A i \in 1..Len(sqs) : sqs[i] \in Reqs
      /\ \A i \in 1..Len(cqs) : cqs[i] \in Reqs
  BY DEF RequestInv, Requests
<1> HIDE DEF sqs, cqs
<1>2. Requests(sqs, inFlight, cqs)
  BY DEF RequestInv, sqs, cqs
<1>3. /\ \A i, j \in DOMAIN sqs : sqs[i] = sqs[j] => i = j
      /\ \A i, j \in DOMAIN cqs : cqs[i] = cqs[j] => i = j
  BY <1>1, <1>2 DEF Requests
<1>4. /\ Elements(sqs) \cap inFlight = {} /\ Elements(sqs) \cap Elements(cqs) = {}
      /\ inFlight \cap Elements(cqs) = {}
  BY <1>1, <1>2 DEF Requests, Elements
<1>5. Blank \notin Elements(sqs) \cup inFlight \cup Elements(cqs)
  BY <1>1, <1>2, RingAssumption DEF Requests, Elements
<1> QED
  BY <1>3, <1>4, <1>5 DEF OncePerRequest, Live, sqs, cqs

LEMMA InitRequest == Init => RequestInv
<1> SUFFICES ASSUME Init PROVE RequestInv
  OBVIOUS
<1>1. SubmissionQueue = <<>> /\ inFlight = {} /\ CompletionQueue = <<>>
  BY InitRefines DEF Channels!Init
<1> QED
  BY <1>1 DEF RequestInv, Requests

LEMMA PublishKeeps ==
    ASSUME NEW sqs, NEW fl, NEW cqs, Requests(sqs, fl, cqs), NEW r \in Reqs,
           \A i \in 1..Len(sqs) : sqs[i] # r, r \notin fl, \A i \in 1..Len(cqs) : cqs[i] # r
    PROVE  Requests(Append(sqs, r), fl, cqs)
<1> DEFINE s == Append(sqs, r)
<1>1. /\ s \in Seq(Reqs) /\ Len(s) = Len(sqs) + 1 /\ Len(sqs) \in Nat
      /\ \A i \in 1..Len(s) : s[i] = IF i = Len(sqs) + 1 THEN r ELSE sqs[i]
  BY DEF Requests
<1> HIDE DEF s
<1>2. \A i \in 1..Len(s) : i # Len(sqs) + 1 => i \in 1..Len(sqs)
  BY <1>1
<1> QED
  BY <1>1, <1>2 DEF Requests, s

LEMMA TakeKeeps ==
    ASSUME NEW sqs, NEW fl, NEW cqs, Requests(sqs, fl, cqs), sqs # <<>>
    PROVE  Requests(Tail(sqs), fl \cup {Head(sqs)}, cqs)
<1> DEFINE s == Tail(sqs)
<1>1. /\ s \in Seq(Reqs) /\ Len(s) = Len(sqs) - 1 /\ Len(sqs) \in Nat /\ Len(sqs) >= 1
      /\ \A i \in 1..Len(s) : s[i] = sqs[i + 1]
      /\ Head(sqs) = sqs[1] /\ sqs[1] \in Reqs
  BY DEF Requests
<1> HIDE DEF s
<1>2. \A i \in 1..Len(s) : i + 1 \in 1..Len(sqs) /\ i + 1 # 1
  BY <1>1
<1>3. 1 \in 1..Len(sqs)
  BY <1>1
<1> QED
  BY <1>1, <1>2, <1>3 DEF Requests, s

LEMMA CompleteKeeps ==
    ASSUME NEW sqs, NEW fl, NEW cqs, Requests(sqs, fl, cqs), NEW r \in fl
    PROVE  Requests(sqs, fl \ {r}, Append(cqs, r))
<1> DEFINE c == Append(cqs, r)
<1>1. /\ c \in Seq(Reqs) /\ Len(c) = Len(cqs) + 1 /\ Len(cqs) \in Nat
      /\ \A i \in 1..Len(c) : c[i] = IF i = Len(cqs) + 1 THEN r ELSE cqs[i]
  BY DEF Requests
<1> HIDE DEF c
<1>2. \A i \in 1..Len(c) : i # Len(cqs) + 1 => i \in 1..Len(cqs)
  BY <1>1
<1> QED
  BY <1>1, <1>2 DEF Requests, c

LEMMA ReleaseKeeps ==
    ASSUME NEW sqs, NEW fl, NEW cqs, Requests(sqs, fl, cqs), NEW n \in 1..Len(cqs)
    PROVE  Requests(sqs, fl, SubSeq(cqs, n + 1, Len(cqs)))
<1> DEFINE c == SubSeq(cqs, n + 1, Len(cqs))
<1>1. /\ c \in Seq(Reqs) /\ Len(c) = Len(cqs) - n /\ Len(cqs) \in Nat
      /\ \A i \in 1..Len(c) : c[i] = cqs[n + i]
  BY DEF Requests
<1> HIDE DEF c
<1>2. \A i \in 1..Len(c) : n + i \in 1..Len(cqs)
  BY <1>1
<1> QED
  BY <1>1, <1>2 DEF Requests, c

\* The abstract steps keep every request in one place, so the rings' do.
LEMMA NextKeepsRequest ==
    ASSUME RequestInv, [Channels!Next]_(Channels!vars)
    PROVE  RequestInv'
<1> DEFINE sqs == SubmissionQueue
           cqs == CompletionQueue
<1>1. DOMAIN sqs = 1..Len(sqs) /\ DOMAIN cqs = 1..Len(cqs)
  BY DEF RequestInv, Requests
<1>2. ASSUME NEW r \in Reqs, Channels!Publish(r) PROVE RequestInv'
  BY <1>1, <1>2, PublishKeeps DEF RequestInv, Channels!Publish, Channels!Somewhere
<1>3. ASSUME NEW r \in Reqs, Channels!Complete(r) PROVE RequestInv'
  BY <1>3, CompleteKeeps DEF RequestInv, Channels!Complete
<1>4. CASE Channels!Take
  BY <1>4, TakeKeeps DEF RequestInv, Channels!Take
<1>5. ASSUME NEW n \in 1..CqEntries, Channels!Release(n) PROVE RequestInv'
  BY <1>5, ReleaseKeeps DEF RequestInv, Channels!Release
<1>6. CASE UNCHANGED Channels!vars
  BY <1>6 DEF RequestInv, Channels!vars
<1> QED
  BY <1>2, <1>3, <1>4, <1>5, <1>6 DEF Channels!Next

\* No request is ever in two places, none is taken before it is filled in:
\* what queue_sqe and wait_and_copy do to slots loses and doubles nothing.
THEOREM EachRequestOnce == Spec => []OncePerRequest
<1>1. CapacityInv /\ CapacityInv' /\ RequestInv /\ [Next]_vars => RequestInv'
  BY NextRefines, NextKeepsRequest
<1>2. Init => RequestInv
  BY InitRequest
<1> QED
  BY <1>1, <1>2, InitCapacity, NextKeepsCapacity, RequestsOnce, PTL DEF Spec

-----------------------------------------------------------------------------
(* The copies                                                              *)

\* Entry by entry, what was copied is what the channel holds.
CopyInv ==
    pc = "copying" => \A i \in 1..Len(copied) : copied[i] = CompletionQueue[i]

LEMMA CopiesFaithful == CapacityInv /\ CopyInv => CopyIsFaithful
<1> SUFFICES ASSUME CapacityInv, CopyInv, pc = "copying" PROVE
        /\ Len(copied) <= cq_available
        /\ copied = SubSeq(CompletionQueue, 1, Len(copied))
  BY DEF CopyIsFaithful
<1>1. /\ copied \in Seq(Reqs \cup {Blank}) /\ Len(copied) \in Nat
      /\ Len(copied) <= expected /\ expected <= cq_available /\ expected \in Nat
  BY DEF CapacityInv, TypeOK, Accounted
<1>2. /\ CompletionQueue = [i \in 1..cq_available |-> cqes[CqSlot(i - 1)]]
      /\ Len(CompletionQueue) = cq_available /\ cq_available \in Nat
  BY Shape
<1> DEFINE s == SubSeq(CompletionQueue, 1, Len(copied))
<1>3. Len(copied) <= cq_available
  BY <1>1, <1>2
<1>4. s = [i \in 1..Len(copied) |-> CompletionQueue[i]]
  BY <1>1, <1>2, <1>3
<1>5. copied = [i \in 1..Len(copied) |-> copied[i]]
  BY <1>1
<1> QED
  BY <1>3, <1>4, <1>5 DEF CopyInv

LEMMA NextKeepsCopy ==
    ASSUME CapacityInv, CapacityInv', CopyInv, [Next]_vars
    PROVE  CopyInv'
<1> SUFFICES ASSUME pc' = "copying" PROVE
        \A i \in 1..Len(copied)' : copied'[i] = CompletionQueue'[i]
  BY DEF CopyInv
<1>1. /\ CompletionQueue = [i \in 1..cq_available |-> cqes[CqSlot(i - 1)]]
      /\ Len(CompletionQueue) = cq_available /\ cq_available \in Nat
  BY Shape
<1>2. CASE StartCopy
  <2>1. copied = <<>> \/ Len(copied) = 0
    BY <1>2 DEF StartCopy, CapacityInv, Accounted
  <2>2. Len(copied)' = 0
    BY <1>2, <2>1 DEF StartCopy
  <2> QED
    BY <2>2
<1>3. CASE CopyOne
  <2>1. /\ copied \in Seq(Reqs \cup {Blank}) /\ Len(copied) \in Nat
        /\ Len(copied) < expected /\ expected <= cq_available /\ expected \in Nat
    BY <1>3 DEF CapacityInv, TypeOK, Accounted, CopyOne
  <2>2. CompletionQueue' = CompletionQueue
    BY <1>3 DEF CopyOne, CompletionQueue, cqVars, cq_available, CqSlot
  <2>3. CompletionQueue[Len(copied) + 1] = cqes[CqSlot(Len(copied))]
    BY <1>1, <2>1
  <2>4. \A i \in 1..Len(copied) : copied[i] = CompletionQueue[i]
    BY <1>3 DEF CopyInv, CopyOne
  <2>5. /\ Len(copied') = Len(copied) + 1
        /\ \A i \in 1..Len(copied)+1 :
             copied'[i] = IF i = Len(copied) + 1 THEN cqes[CqSlot(Len(copied))] ELSE copied[i]
    BY <1>3, <2>1 DEF CopyOne
  <2> QED
    BY <2>1, <2>2, <2>3, <2>4, <2>5
<1>4. ASSUME NEW r \in Reqs, KernelPost(r)
      PROVE  \A i \in 1..Len(copied)' : copied'[i] = CompletionQueue'[i]
  <2>1. CompletionQueue' = Append(CompletionQueue, r)
    BY <1>4, PostRefines DEF Channels!Complete
  <2>2. pc = "copying" /\ copied' = copied
    BY <1>4 DEF KernelPost
  <2>3. /\ copied \in Seq(Reqs \cup {Blank}) /\ Len(copied) \in Nat
        /\ Len(copied) <= expected /\ expected <= cq_available /\ expected \in Nat
    <3>1. TypeOK /\ Accounted
      BY DEF CapacityInv
    <3>2. copied \in Seq(Reqs \cup {Blank}) /\ expected \in Nat
      BY <3>1 DEF TypeOK
    <3>3. Len(copied) <= expected /\ expected <= cq_available
      BY <2>2, <3>1 DEF Accounted
    <3> QED
      BY <3>2, <3>3
  <2>5. \A i \in 1..Len(copied) : copied[i] = CompletionQueue[i] /\ i \in 1..cq_available
    <3>1. \A i \in 1..Len(copied) : copied[i] = CompletionQueue[i]
      BY <2>2 DEF CopyInv
    <3>2. cq_available \in Nat
      BY <1>1
    <3>3. \A i \in 1..Len(copied) : i \in 1..cq_available
      BY <2>3, <3>2
    <3> QED
      BY <3>1, <3>3
  <2>4. \A i \in 1..cq_available : CompletionQueue'[i] = CompletionQueue[i]
    BY <1>1, <2>1
  <2> QED
    BY <2>2, <2>4, <2>5
<1>5. CASE Destroyed \/ UNCHANGED vars
  BY <1>5 DEF Destroyed, vars, CopyInv, CompletionQueue, cqVars, cq_available, CqSlot
<1>6. CASE QueueSqe \/ QueueFull \/ KernelTake \/ EnterReturns \/ SleepReturns
           \/ WaitAgain \/ ResleepReturns \/ Discard \/ ReleaseHead
  BY <1>6 DEF QueueSqe, QueueFull, KernelTake, EnterReturns, SleepReturns, WaitAgain,
              ResleepReturns, Discard, ReleaseHead
<1>7. CASE \E r \in Reqs : FillSqe(r)
  BY <1>7 DEF FillSqe
<1>8. CASE \E n \in 0..MaxLive : Enter(n) \/ Wait(n)
  BY <1>8 DEF Enter, Wait
<1> QED
  BY <1>2, <1>3, <1>4, <1>5, <1>6, <1>7, <1>8 DEF Next

\* While wait_and_copy copies and the kernel posts, no slot it has still to
\* read, or has read, is written over: the head is released after the last copy.
THEOREM CopiesAreFaithful == Spec => []CopyIsFaithful
<1>1. CapacityInv /\ CapacityInv' /\ CopyInv /\ [Next]_vars => CopyInv'
  BY NextKeepsCopy
<1>2. Init => CopyInv
  BY DEF Init, CopyInv
<1> QED
  BY <1>1, <1>2, InitCapacity, NextKeepsCapacity, CopiesFaithful, PTL DEF Spec

-----------------------------------------------------------------------------
(***************************************************************************)
(* NetRound: the rows and the exit status of a client of such a ring, for  *)
(* any number of batches, rounds and faults of the kernel.                 *)
(***************************************************************************)

InCall == {"call", "batch", "enter", "reap", "cancel", "canceled", "verdict"}
Places == InCall \cup {"setup", "cleanup", "exited"}

\* The rows written when n calls of execute_once are over.
Due(n) == IF mode = "point" THEN IF n > WARMUP_ROUNDS THEN n - WARMUP_ROUNDS - 1 ELSE 0
          ELSE n

AllPassed == \A i \in 1..Len(rows) : rows[i]

\* While there are calls to make, those before returned 0 and their rows are
\* there; a process that ends with "0" has made the last.
ControlInv ==
    /\ run \in AllRuns /\ place \in Places /\ call \in 0..Calls - 1
    /\ ret \in BOOLEAN /\ exitOk \in BOOLEAN /\ rows \in Seq(BOOLEAN)
    /\ \A i \in 1..Len(rows) - 1 : rows[i]
    /\ place = "setup" => ~ret /\ call = 0
    /\ place # "exited" => ~exitOk
    /\ place \in InCall \cup {"setup"} => Len(rows) = Due(call) /\ AllPassed
    /\ place \in {"cleanup", "exited"} /\ ret => Len(rows) = Due(Calls) /\ AllPassed
    /\ place = "exited" => exitOk = ret /\ held = {}

LEMMA CallsIs == Calls \in Nat \ {0} /\ WARMUP_ROUNDS \in Nat /\ MEASURED_ROUNDS \in Nat \ {0}
  BY NetRoundAssumption DEF Calls

\* execute_once returns: one row more if the call was a measured one.
LEMMA ReturnKeepsControl ==
    ASSUME ControlInv, NEW pass \in BOOLEAN, Return(pass), place \in InCall
    PROVE  ControlInv'
<1> USE CallsIs DEF ControlInv
<1>1. /\ mode' = mode /\ run' = run /\ exitOk' = exitOk /\ Calls' = Calls /\ ret' = pass
      /\ \A n : Due(n)' = Due(n)
  BY DEF Return, mode, Calls, Due
<1>2. \/ pass /\ call + 1 < Calls /\ call' = call + 1 /\ place' = "call"
      \/ ~(pass /\ call + 1 < Calls) /\ call' = call /\ place' = "cleanup"
  BY DEF Return, Continues
<1>3. /\ rows' \in Seq(BOOLEAN)
      /\ \A i \in 1..Len(rows') - 1 : rows'[i]
      /\ pass => Len(rows') = Due(call + 1) /\ \A i \in 1..Len(rows') : rows'[i]
  <2>1. CASE Emits
    <3>1. rows' = Append(rows, pass)
      BY <2>1 DEF Return
    <3>2. /\ rows' \in Seq(BOOLEAN) /\ Len(rows') = Len(rows) + 1
          /\ \A i \in 1..Len(rows) : rows'[i] = rows[i]
          /\ rows'[Len(rows) + 1] = pass
      BY <3>1
    <3>3. \A i \in 1..Len(rows) : rows[i]
      BY DEF AllPassed
    <3>4. Due(call + 1) = Due(call) + 1
      BY <2>1 DEF Emits, Due
    <3>5. Len(rows) \in Nat
      OBVIOUS
    <3>6. \A i \in 1..Len(rows') - 1 : rows'[i]
      BY <3>2, <3>3, <3>5
    <3>7. ASSUME pass, NEW i \in 1..Len(rows') PROVE rows'[i]
      <4>1. i \in 1..Len(rows) \/ i = Len(rows) + 1
        BY <3>2, <3>5
      <4> QED
        BY <3>2, <3>3, <3>7, <4>1
    <3> QED
      BY <3>2, <3>4, <3>6, <3>7
  <2>2. CASE ~Emits
    <3>1. rows' = rows
      BY <2>2 DEF Return
    <3>2. Due(call + 1) = Due(call)
      BY <2>2 DEF Emits, Due
    <3> QED
      BY <3>1, <3>2 DEF AllPassed
  <2> QED
    BY <2>1, <2>2
<1>4. call + 1 < Calls \/ call + 1 = Calls
  OBVIOUS
<1>5. place' \in {"call", "cleanup"} /\ call' \in 0..Calls - 1
  BY <1>2
<1> QED
  BY <1>1, <1>2, <1>3, <1>4, <1>5 DEF AllPassed, InCall, Places

\* A step within a call.
LEMMA StaysKeepsControl ==
    ASSUME ControlInv, UNCHANGED runVars,
           \/ place = "setup" /\ place' = "call"
           \/ place \in InCall /\ place' \in InCall
           \/ place = "setup" /\ place' = "cleanup"
    PROVE  ControlInv'
  BY DEF ControlInv, runVars, AllPassed, Calls, mode, Due, InCall, Places

LEMMA InitControl == NetInit => ControlInv
<1> SUFFICES ASSUME NetInit PROVE ControlInv
  OBVIOUS
<1>1. run \in AllRuns
  BY NetRoundAssumption DEF NetInit
<1>2. rows = <<>> /\ place = "setup" /\ ret = FALSE /\ exitOk = FALSE /\ call = 0
  BY DEF NetInit
<1>3. Len(rows) = 0 /\ rows \in Seq(BOOLEAN)
  BY <1>2
<1>4. Due(call) = 0 /\ call \in 0..Calls - 1
  BY <1>2, CallsIs DEF Due
<1>5. place \in Places
  BY <1>2 DEF Places
<1>6. (\A i \in 1..Len(rows) - 1 : rows[i]) /\ AllPassed
  BY <1>3 DEF AllPassed
<1>7. place \notin {"cleanup", "exited"}
  BY <1>2
<1> HIDE DEF AllPassed
<1> QED
  BY <1>1, <1>2, <1>3, <1>4, <1>5, <1>6, <1>7 DEF ControlInv

LEMMA SemanticPassType == SemanticPass \in BOOLEAN /\ SemanticPassMultishot \in BOOLEAN
  BY DEF SemanticPass, SemanticPassMultishot

LEMMA ProgramKeepsControl ==
    ASSUME ControlInv, Program
    PROVE  ControlInv'
<1>1. CASE Setup \/ SetupFails
  BY <1>1, StaysKeepsControl DEF Setup, SetupFails
<1>2. CASE BeginCall \/ Fill \/ Cancel \/ EndBatches
  <2>1. UNCHANGED runVars /\ place \in InCall /\ place' \in InCall
    BY <1>2 DEF BeginCall, Fill, Cancel, EndBatches, InCall
  <2> QED
    BY <2>1, StaysKeepsControl
<1>3. CASE EnterOrdinary \/ EnterNop \/ SendMmsg \/ EnterMultishot
  <2>1. Entered
    BY <1>3 DEF EnterOrdinary, EnterNop, SendMmsg, EnterMultishot
  <2>2. UNCHANGED runVars /\ place \in InCall /\ place' \in InCall
    BY <2>1 DEF Entered, InCall
  <2> QED
    BY <2>2, StaysKeepsControl
<1>4. CASE ReapNop \/ ReapSent \/ ReapMmsg \/ ReapReceived \/ ReapMultishot
  <2>1. place \in InCall
    BY <1>4 DEF ReapNop, ReapSent, ReapMmsg, ReapReceived, ReapMultishot, Reaping, InCall
  <2>2. Return(FALSE) \/ (UNCHANGED runVars /\ place' \in InCall)
    BY <1>4 DEF ReapNop, ReapSent, ReapMmsg, ReapReceived, ReapMultishot, GivesUp,
                Batched, NextBatch, InCall
  <2> QED
    BY <2>1, <2>2, ReturnKeepsControl, StaysKeepsControl
<1>5. CASE ReapCancel
  <2>1. place \in InCall /\ (Return(FALSE) \/ (UNCHANGED runVars /\ place' \in InCall))
    BY <1>5 DEF ReapCancel, NextBatch, InCall
  <2> QED
    BY <2>1, ReturnKeepsControl, StaysKeepsControl
<1>6. CASE CallFails
  <2>1. place \in InCall /\ Return(FALSE)
    BY <1>6 DEF CallFails, InCall
  <2> QED
    BY <2>1, ReturnKeepsControl
<1>7. CASE Verdict
  <2>1. place \in InCall /\ \E pass \in BOOLEAN : Return(pass)
    BY <1>7, SemanticPassType DEF Verdict, InCall
  <2> QED
    BY <2>1, ReturnKeepsControl
<1>8. CASE Cleanup
  BY <1>8 DEF Cleanup, CleanupLeaves, ControlInv, AllPassed, Calls, mode, Due, InCall, Places
<1> QED
  BY <1>1, <1>2, <1>3, <1>4, <1>5, <1>6, <1>7, <1>8 DEF Program, Batch

LEMMA NextKeepsControl == ControlInv /\ [NetNext]_netVars => ControlInv'
<1> SUFFICES ASSUME ControlInv, [NetNext]_netVars PROVE ControlInv'
  OBVIOUS
<1>1. CASE Program
  BY <1>1, ProgramKeepsControl
<1>2. CASE KernelFault
  <2>1. UNCHANGED runVars /\ place \in InCall /\ place' = place
    BY <1>2 DEF KernelFault, InCall
  <2> QED
    BY <2>1, StaysKeepsControl
<1>3. CASE Exited \/ UNCHANGED netVars
  <2>1. UNCHANGED <<runVars, place, held>>
    BY <1>3 DEF Exited, netVars
  <2> QED
    BY <2>1 DEF ControlInv, runVars, AllPassed, Calls, mode, Due
<1> QED
  BY <1>1, <1>2, <1>3 DEF NetNext

\* Whatever goes wrong, and however often, a row that failed is the last, a
\* successful exit means that all rows of the mode are there and passed, and
\* nothing is held on exit.  (run_mode; out of main)
THEOREM ExitsHonestly == NetSpec => []ExitHonest
<1>1. ControlInv => ExitHonest
  <2> SUFFICES ASSUME ControlInv PROVE ExitHonest
    OBVIOUS
  <2>1. Due(Calls) = IF mode = "point" THEN MEASURED_ROUNDS ELSE 1
    BY CallsIs DEF Due, Calls
  <2> QED
    BY <2>1 DEF ControlInv, ExitHonest, AllPassed, InCall
<1> QED
  BY <1>1, InitControl, NextKeepsControl, PTL DEF NetSpec

-----------------------------------------------------------------------------
(* FsTopology: sums over finite sets                                       *)

\* One step of the recursion by which SumFunction sums f over the set s, given
\* the sums h over smaller sets.
SumStep(f, h, s) ==
    IF s = {} THEN 0 ELSE f[CHOOSE x \in s : TRUE] + h[s \ {CHOOSE x \in s : TRUE}]

\* h holds the sum of f over every subset of S.
IsSumOn(h, f, S) == h = [s \in SUBSET S |-> SumStep(f, h, s)]

\* A set of naturals has a least element.
LEMMA LeastNatural ==
    ASSUME NEW T \in SUBSET Nat, T # {}
    PROVE  \E n \in T : \A m \in T : n <= m
<1>1. \E n \in T : \A m \in T : ~ (<<m, n>> \in OpToRel(<, Nat))
  BY WFMin, NatLessThanWellFounded
<1>2. \A m, n \in Nat : (<<m, n>> \in OpToRel(<, Nat)) <=> m < n
  BY DEF OpToRel
<1>3. PICK n \in T : \A m \in T : ~ (<<m, n>> \in OpToRel(<, Nat))
  BY <1>1
<1>4. \A m \in T : ~ (m < n)
  BY <1>2, <1>3, Zenon
<1>5. \A m \in T : n <= m
  BY <1>4
<1> QED
  BY <1>5

\* The recursion has a solution: if it had none for the sets up to some size,
\* extending the solution for the next smaller ones would give one.
LEMMA SumExists ==
    ASSUME NEW f, NEW S, IsFiniteSet(S)
    PROVE  \E h : IsSumOn(h, f, S)
<1> DEFINE Upto(n) == {s \in SUBSET S : Cardinality(s) <= n}
           Part(h, n) == h = [s \in Upto(n) |-> SumStep(f, h, s)]
           Bad == {n \in Nat : ~ \E h : Part(h, n)}
<1>1. \A s \in SUBSET S : IsFiniteSet(s) /\ Cardinality(s) \in Nat
  BY FS_Subset, FS_CardinalityType
<1>2. 0 \notin Bad
  <2>1. \A s \in Upto(0) : s = {}
    BY <1>1, FS_EmptySet
  <2>2. Part([s \in Upto(0) |-> 0], 0)
    BY <2>1 DEF SumStep
  <2> QED
    BY <2>2
<1>3. ASSUME NEW n \in Nat, NEW h, Part(h, n) PROVE \E k : Part(k, n + 1)
  <2> DEFINE k == [s \in Upto(n + 1) |-> SumStep(f, h, s)]
  <2>1. ASSUME NEW s \in Upto(n + 1) PROVE SumStep(f, h, s) = SumStep(f, k, s)
    <3>1. CASE s = {}
      BY <3>1 DEF SumStep
    <3>2. CASE s # {}
      <4> DEFINE c == CHOOSE x \in s : TRUE
                 r == s \ {c}
      <4>1. c \in s
        BY <3>2
      <4> HIDE DEF c
      <4>2. r \in SUBSET S /\ Cardinality(r) = Cardinality(s) - 1
        BY <1>1, <4>1, FS_RemoveElement
      <4>3. r \in Upto(n) /\ r \in Upto(n + 1)
        BY <1>1, <4>2
      <4>4. h[r] = SumStep(f, h, r)
        BY <1>3, <4>3
      <4>5. k[r] = SumStep(f, h, r)
        BY <4>3
      <4>6. h[r] = k[r]
        BY <4>4, <4>5
      <4> HIDE DEF k
      <4> QED
        BY <3>2, <4>6 DEF SumStep, c
    <3> QED
      BY <3>1, <3>2
  <2>2. k = [s \in Upto(n + 1) |-> SumStep(f, k, s)]
    <3> HIDE DEF Upto
    <3> DEFINE A == [s \in Upto(n + 1) |-> SumStep(f, k, s)]
    <3>1. \A s \in Upto(n + 1) : k[s] = A[s]
      BY <2>1
    <3> QED
      BY <3>1
  <2> QED
    BY <2>2
<1>4. Bad = {}
  <2> SUFFICES ASSUME Bad # {} PROVE FALSE
    OBVIOUS
  <2>1. PICK n \in Bad : \A m \in Bad : n <= m
    BY LeastNatural
  <2>2. n \in Nat /\ n # 0
    BY <1>2, <2>1
  <2>3. n - 1 \notin Bad
    <3> HIDE DEF Bad
    <3> QED
      BY <2>1, <2>2
  <2> HIDE DEF Part
  <2>4. PICK h : Part(h, n - 1)
    BY <2>2, <2>3
  <2>5. \E k : Part(k, (n - 1) + 1)
    BY <1>3, <2>2, <2>4
  <2>6. (n - 1) + 1 = n
    BY <2>2
  <2> QED
    BY <2>1, <2>5, <2>6
<1>5. PICK h : Part(h, Cardinality(S))
  BY <1>1, <1>4
<1>6. Upto(Cardinality(S)) = SUBSET S
  BY FS_Subset
<1> QED
  BY <1>5, <1>6 DEF IsSumOn

\* SumFunction is that solution, taken at the whole domain.
LEMMA SumEquation ==
    ASSUME NEW f, IsFiniteSet(DOMAIN f)
    PROVE  \E h : IsSumOn(h, f, DOMAIN f) /\ SumFunction(f) = h[DOMAIN f]
<1> DEFINE S == DOMAIN f
           h == CHOOSE k : IsSumOn(k, f, S)
<1>1. IsSumOn(h, f, S)
  BY SumExists
<1>2. SumFunction(f) = h[S]
  BY DEF SumFunction, SumFunctionOnSet, FoldFunctionOnSet, MapThenFoldSet, IsSumOn, SumStep
<1> QED
  BY <1>1, <1>2

\* Of any sets of a finite set's elements one is smallest: it is not among
\* them with an element taken out.
LEMMA SmallestSubset ==
    ASSUME NEW S, IsFiniteSet(S), NEW T \in SUBSET SUBSET S, T # {}
    PROVE  \E s \in T : \A x \in s : s \ {x} \notin T
<1> DEFINE sizes == {Cardinality(s) : s \in T}
<1>1. \A s \in SUBSET S : IsFiniteSet(s) /\ Cardinality(s) \in Nat
  BY FS_Subset, FS_CardinalityType
<1>2. PICK n \in sizes : \A m \in sizes : n <= m
  <2>1. sizes \in SUBSET Nat /\ sizes # {}
    BY <1>1
  <2> HIDE DEF sizes
  <2> QED
    BY <2>1, LeastNatural
<1>3. PICK s \in T : n = Cardinality(s)
  OBVIOUS
<1>4. ASSUME NEW x \in s, s \ {x} \in T PROVE FALSE
  <2>1. Cardinality(s \ {x}) = Cardinality(s) - 1
    BY <1>1, FS_RemoveElement
  <2>2. n <= Cardinality(s \ {x})
    BY <1>2, <1>4
  <2> QED
    BY <1>1, <1>3, <2>1, <2>2
<1> QED
  BY <1>4

\* What the recursion says of a set that is not empty.
LEMMA SumUnfolds ==
    ASSUME NEW f, NEW h, NEW S, IsSumOn(h, f, S), NEW s \in SUBSET S, s # {}
    PROVE  \E x \in s : h[s] = f[x] + h[s \ {x}]
<1>1. (CHOOSE x \in s : TRUE) \in s
  OBVIOUS
<1>2. h[s] = SumStep(f, h, s)
  BY DEF IsSumOn
<1> QED
  BY <1>1, <1>2 DEF SumStep

LEMMA SumOfNone ==
    ASSUME NEW f, NEW h, NEW S, IsSumOn(h, f, S)
    PROVE  h[{}] = 0
  BY DEF IsSumOn, SumStep

\* A sum of naturals is zero exactly when every term is.
LEMMA ZeroSum ==
    ASSUME NEW S, IsFiniteSet(S), NEW f \in [S -> Nat]
    PROVE  SumFunction(f) = 0 <=> \A x \in S : f[x] = 0
<1> DOMAIN f = S
  OBVIOUS
<1>1. PICK h : IsSumOn(h, f, S) /\ SumFunction(f) = h[S]
  BY SumEquation
<1> DEFINE Right(s) == h[s] \in Nat /\ (h[s] = 0 <=> \A x \in s : f[x] = 0)
           Bad == {s \in SUBSET S : ~ Right(s)}
<1>2. ASSUME Bad # {} PROVE FALSE
  <2>1. PICK s \in Bad : \A x \in s : s \ {x} \notin Bad
    BY <1>2, SmallestSubset
  <2>2. s # {}
    <3>1. Right({})
      BY <1>1, SumOfNone
    <3> QED
      BY <2>1, <3>1
  <2>3. PICK x \in s : h[s] = f[x] + h[s \ {x}]
    BY <1>1, <2>2, SumUnfolds
  <2>4. Right(s \ {x})
    BY <2>1
  <2>5. (\A y \in s : f[y] = 0) <=> (f[x] = 0 /\ \A y \in s \ {x} : f[y] = 0)
    OBVIOUS
  <2>6. Right(s)
    BY <2>3, <2>4, <2>5
  <2> QED
    BY <2>1, <2>6
<1> QED
  BY <1>1, <1>2

\* The sizes of disjoint sets add up to the size of their union.
LEMMA SumOfSizes ==
    ASSUME NEW S, IsFiniteSet(S), NEW U, IsFiniteSet(U),
           NEW part \in [S -> SUBSET U],
           \A v, w \in S : v # w => part[v] \cap part[w] = {},
           NEW f \in [S -> Nat], \A w \in S : f[w] = Cardinality(part[w])
    PROVE  SumFunction(f) = Cardinality(UNION {part[w] : w \in S})
<1> DOMAIN f = S
  OBVIOUS
<1>1. PICK h : IsSumOn(h, f, S) /\ SumFunction(f) = h[S]
  BY SumEquation
<1> DEFINE all(s) == UNION {part[w] : w \in s}
           Right(s) == h[s] = Cardinality(all(s))
           Bad == {s \in SUBSET S : ~ Right(s)}
<1>2. ASSUME Bad # {} PROVE FALSE
  <2>1. PICK s \in Bad : \A x \in s : s \ {x} \notin Bad
    BY <1>2, SmallestSubset
  <2>2. s # {}
    <3>1. all({}) = {}
      OBVIOUS
    <3>2. Right({})
      BY <1>1, <3>1, SumOfNone, FS_EmptySet
    <3> QED
      BY <2>1, <3>2
  <2>3. PICK x \in s : h[s] = f[x] + h[s \ {x}]
    BY <1>1, <2>2, SumUnfolds
  <2>4. h[s \ {x}] = Cardinality(all(s \ {x}))
    BY <2>1
  <2>5. all(s) = part[x] \cup all(s \ {x})
    OBVIOUS
  <2>6. part[x] \cap all(s \ {x}) = {}
    OBVIOUS
  <2>7. IsFiniteSet(part[x]) /\ IsFiniteSet(all(s \ {x}))
    <3>1. part[x] \in SUBSET U /\ all(s \ {x}) \in SUBSET U
      OBVIOUS
    <3> QED
      BY <3>1, FS_Subset
  <2> HIDE DEF all
  <2>8. Cardinality(all(s)) = Cardinality(part[x]) + Cardinality(all(s \ {x}))
    <3>1. /\ Cardinality(part[x]) \in Nat /\ Cardinality(all(s \ {x})) \in Nat
          /\ Cardinality(part[x] \cap all(s \ {x})) = 0
      BY <2>6, <2>7, FS_EmptySet, FS_CardinalityType
    <3>2. Cardinality(all(s)) = Cardinality(part[x]) + Cardinality(all(s \ {x}))
                                - Cardinality(part[x] \cap all(s \ {x}))
      BY <2>5, <2>7, FS_Union
    <3> QED
      BY <3>1, <3>2
  <2> QED
    BY <2>1, <2>3, <2>4, <2>8
<1> QED
  BY <1>1, <1>2

-----------------------------------------------------------------------------
(* FsTopology: the slices                                                  *)

\* A worker's slice lies within the groups, and does not reach the keeper.
LEMMA SliceBounds ==
    ASSUME NEW w \in Workers
    PROVE  Begin(w) \in Nat /\ End(w) \in Nat /\ End(w) <= GROUPS
<1> DEFINE a == GROUPS * (w + 1)
           q == a \div WORKERS
<1>1. /\ w \in Nat /\ w + 1 <= WORKERS /\ WORKERS \in Nat \ {0} /\ GROUPS \in Nat
  BY TopologyAssumption DEF Workers
<1>2. a \in Nat /\ a <= GROUPS * WORKERS
  BY <1>1
<1>3. q \in Nat /\ q * WORKERS <= a
  BY <1>1, <1>2
<1>4. q <= GROUPS
  <2> HIDE DEF q
  <2>1. SUFFICES ASSUME q >= GROUPS + 1 PROVE FALSE
    BY <1>1, <1>3
  <2>2. q * WORKERS >= (GROUPS + 1) * WORKERS
    BY <1>1, <1>3, <2>1
  <2> QED
    BY <1>1, <1>2, <1>3, <2>2
<1>5. GROUPS * w \in Nat
  BY <1>1
<1>6. Begin(w) \in Nat
  BY <1>1, <1>5 DEF Begin
<1> QED
  BY <1>3, <1>4, <1>6 DEF End

LEMMA DivisionMonotone ==
    ASSUME NEW a \in Nat, NEW b \in Nat, a <= b, NEW n \in Nat \ {0}
    PROVE  a \div n <= b \div n
<1> DEFINE p == a \div n
           q == b \div n
<1>1. p \in Nat /\ q \in Nat /\ p * n <= a /\ b < (q + 1) * n
  OBVIOUS
<1> HIDE DEF p, q
<1>2. SUFFICES ASSUME p >= q + 1 PROVE FALSE
  BY <1>1 DEF p, q
<1>3. p * n >= (q + 1) * n
  BY <1>1, <1>2
<1> QED
  BY <1>1, <1>3

\* The groups a worker owns.
Slice(w) == Begin(w)..End(w) - 1

\* A slice ends where the next begins or before.
LEMMA SliceOrder ==
    ASSUME NEW v \in Workers, NEW w \in Workers
    PROVE  Begin(v) <= End(v) /\ (v < w => End(v) <= Begin(w))
<1> /\ v \in Nat /\ w \in Nat /\ WORKERS \in Nat \ {0} /\ GROUPS \in Nat
  BY TopologyAssumption DEF Workers
<1>1. \A i, j \in Nat : i <= j => GROUPS * i \in Nat /\ GROUPS * j \in Nat /\ GROUPS * i <= GROUPS * j
  OBVIOUS
<1>2. \A i, j \in Nat : i <= j => (GROUPS * i) \div WORKERS <= (GROUPS * j) \div WORKERS
  BY <1>1, DivisionMonotone
<1>3. Begin(v) <= End(v)
  BY <1>2 DEF Begin, End
<1>4. v < w => End(v) <= Begin(w)
  BY <1>2 DEF Begin, End
<1> QED
  BY <1>3, <1>4

\* The slices partition the groups.
LEMMA SlicesPartition ==
    /\ \A w \in Workers : Slice(w) \in SUBSET Groups
    /\ \A v, w \in Workers : v # w => Slice(v) \cap Slice(w) = {}
    /\ \A g \in Groups : \E w \in Workers : g \in Slice(w)
<1> USE TopologyAssumption
<1>1. \A w \in Workers : Slice(w) \in SUBSET Groups
  BY SliceBounds DEF Slice, Groups
<1>2. ASSUME NEW v \in Workers, NEW w \in Workers, v # w
      PROVE  Slice(v) \cap Slice(w) = {}
  <2>1. v < w \/ w < v
    BY <1>2 DEF Workers
  <2>2. /\ Begin(v) \in Nat /\ End(v) \in Nat /\ Begin(w) \in Nat /\ End(w) \in Nat
        /\ End(v) <= Begin(w) \/ End(w) <= Begin(v)
    BY <2>1, SliceBounds, SliceOrder
  <2> QED
    BY <2>2 DEF Slice
<1>3. ASSUME NEW g \in Groups PROVE \E w \in Workers : g \in Slice(w)
  <2> DEFINE T == {w \in Workers : g < End(w)}
  <2>1. WORKERS - 1 \in T
    <3>1. (GROUPS * ((WORKERS - 1) + 1)) \div WORKERS = GROUPS
      <4>1. (WORKERS - 1) + 1 = WORKERS
        OBVIOUS
      <4> DEFINE a == GROUPS * WORKERS
                 q == a \div WORKERS
      <4>2. a \in Nat /\ q \in Nat /\ q * WORKERS <= a /\ a < (q + 1) * WORKERS
        OBVIOUS
      <4> HIDE DEF q
      <4>3. q <= GROUPS
        <5> SUFFICES ASSUME q >= GROUPS + 1 PROVE FALSE
          BY <4>2
        <5>1. q * WORKERS >= (GROUPS + 1) * WORKERS
          BY <4>2
        <5> QED
          BY <4>2, <5>1
      <4>4. GROUPS <= q
        <5> SUFFICES ASSUME GROUPS >= q + 1 PROVE FALSE
          BY <4>2
        <5>1. GROUPS * WORKERS >= (q + 1) * WORKERS
          BY <4>2
        <5> QED
          BY <4>2, <5>1
      <4> QED
        BY <4>1, <4>2, <4>3, <4>4 DEF q
    <3> QED
      BY <3>1 DEF End, Workers, Groups
  <2>2. T \in SUBSET Nat
    BY DEF Workers
  <2>3. PICK w \in T : \A v \in T : w <= v
    <3> HIDE DEF T
    <3> QED
      BY <2>1, <2>2, LeastNatural
  <2>4. Begin(w) <= g
    <3>1. CASE w = 0
      <4>1. GROUPS * 0 = 0 /\ 0 \div WORKERS = 0
        OBVIOUS
      <4> QED
        BY <3>1, <4>1 DEF Begin, Groups
    <3>2. CASE w # 0
      <4>1. w - 1 \in Workers /\ w - 1 \notin T
        BY <2>3, <3>2 DEF Workers
      <4>2. End(w - 1) <= g
        BY <4>1, SliceBounds DEF Groups
      <4>3. End(w - 1) = Begin(w)
        <5>1. (w - 1) + 1 = w
          BY <2>2
        <5> QED
          BY <5>1 DEF Begin, End
      <4> QED
        BY <4>2, <4>3
    <3> QED
      BY <3>1, <3>2
  <2>5. g \in Slice(w)
    BY <2>4, SliceBounds DEF Slice, Groups
  <2> QED
    BY <2>5
<1> QED
  BY <1>1, <1>2, <1>3

-----------------------------------------------------------------------------
(* The barrier                                                             *)

Waiting == {"at1", "at2", "at3"}

\* The number of barriers a thread has left behind.
Phase(w) ==
    IF workerPc[w] \in {"none", "start", "at1"} THEN 0
    ELSE IF workerPc[w] \in {"add", "install", "at2"} THEN 1
    ELSE IF workerPc[w] \in {"remove", "at3"} THEN 2 ELSE 3

BarrierTypes ==
    /\ workerPc \in [Workers -> WorkerPcs]
    /\ cycle \in [Workers -> 0..3]
    /\ generation \in 0..3

\* A thread has left as many barriers as there were cycles, or one less when
\* the last cycle has released it and it has not run since; the barrier holds
\* those that wait in the current cycle.
BarrierInv ==
    /\ BarrierTypes
    /\ \A w \in Workers : workerPc[w] \in Waiting => cycle[w] = Phase(w)
    /\ \A w \in Workers :
           \/ Phase(w) = generation
           \/ workerPc[w] \in Waiting /\ Phase(w) = generation - 1
    /\ arrived = {w \in Workers : workerPc[w] \in Waiting /\ Phase(w) = generation}

-----------------------------------------------------------------------------
\* Arriving at the barrier keeps the invariant: the last thread to arrive
\* makes all of them belong to the cycle that is over.
LEMMA ArriveKeepsBarrier ==
    ASSUME BarrierInv, NEW w \in Workers, NEW from, NEW at,
           <<from, at>> \in {<<"start", "at1">>, <<"add", "at2">>, <<"remove", "at3">>},
           workerPc[w] = from, Arrive(w, at)
    PROVE  BarrierInv'
<1>1. Phase(w) = generation /\ generation \in 0..2
  BY DEF BarrierInv, BarrierTypes, Phase, Waiting
<1>2. workerPc' \in [Workers -> WorkerPcs] /\ cycle' \in [Workers -> 0..3]
  BY <1>1 DEF BarrierInv, BarrierTypes, Arrive, WorkerPcs
<1>3. /\ workerPc'[w] = at /\ cycle'[w] = generation
      /\ \A v \in Workers \ {w} : workerPc'[v] = workerPc[v] /\ cycle'[v] = cycle[v]
  BY DEF BarrierInv, BarrierTypes, Arrive
<1>4. \A v \in Workers : Phase(v)' = Phase(v)
  BY <1>3 DEF Phase
<1>5. \A v \in Workers : workerPc'[v] \in Waiting => cycle'[v] = Phase(v)'
  BY <1>1, <1>3, <1>4 DEF BarrierInv, Waiting
<1>6. CASE arrived \cup {w} = Workers
  <2>1. arrived' = {} /\ generation' = generation + 1
    BY <1>6 DEF Arrive, Parties
  <2>2. \A v \in Workers : workerPc'[v] \in Waiting /\ Phase(v)' = generation
    BY <1>1, <1>3, <1>4, <1>6 DEF BarrierInv, Waiting
  <2>3. arrived' = {v \in Workers : workerPc'[v] \in Waiting /\ Phase(v)' = generation'}
    BY <1>1, <2>1, <2>2
  <2> QED
    BY <1>1, <1>2, <1>5, <2>1, <2>2, <2>3 DEF BarrierInv, BarrierTypes
<1>7. CASE arrived \cup {w} # Workers
  <2>1. arrived' = arrived \cup {w} /\ generation' = generation
    BY <1>7 DEF Arrive, Parties
  <2>2. arrived' = {v \in Workers : workerPc'[v] \in Waiting /\ Phase(v)' = generation'}
    BY <1>1, <1>3, <1>4, <2>1 DEF BarrierInv, Waiting
  <2>3. \A v \in Workers : \/ Phase(v)' = generation'
                           \/ workerPc'[v] \in Waiting /\ Phase(v)' = generation' - 1
    BY <1>1, <1>3, <1>4, <2>1 DEF BarrierInv
  <2> QED
    BY <1>2, <1>5, <2>1, <2>2, <2>3 DEF BarrierInv, BarrierTypes
<1> QED
  BY <1>6, <1>7

\* Leaving it does too: only a thread of a finished cycle leaves.
LEMMA LeaveKeepsBarrier ==
    ASSUME BarrierInv, NEW w \in Workers, NEW at, NEW to,
           <<at, to>> \in {<<"at1", "add">>, <<"at2", "remove">>, <<"at3", "done">>},
           Leave(w, at, to)
    PROVE  BarrierInv'
<1>1. Phase(w) = generation - 1
  BY DEF BarrierInv, Waiting, Leave
<1>2. /\ workerPc'[w] = to /\ UNCHANGED <<arrived, generation, cycle>>
      /\ \A v \in Workers \ {w} : workerPc'[v] = workerPc[v]
      /\ workerPc' \in [Workers -> WorkerPcs]
  BY DEF BarrierInv, BarrierTypes, Leave, barrier, WorkerPcs
<1>3. Phase(w)' = generation /\ workerPc'[w] \notin Waiting
  BY <1>1, <1>2 DEF Phase, Waiting, Leave, BarrierInv, BarrierTypes
<1>4. \A v \in Workers \ {w} : Phase(v)' = Phase(v)
  BY <1>2 DEF Phase
<1>5. w \notin arrived
  BY <1>1 DEF BarrierInv, BarrierTypes
<1>6. arrived' = {v \in Workers : workerPc'[v] \in Waiting /\ Phase(v)' = generation'}
  BY <1>2, <1>3, <1>4, <1>5 DEF BarrierInv
<1> QED
  BY <1>2, <1>3, <1>4, <1>6 DEF BarrierInv, BarrierTypes

\* A step that moves no thread past a barrier.
LEMMA SamePhaseKeepsBarrier ==
    ASSUME BarrierInv, workerPc' \in [Workers -> WorkerPcs], UNCHANGED barrier,
           \A v \in Workers : Phase(v)' = Phase(v) /\ (workerPc'[v] \in Waiting <=> workerPc[v] \in Waiting)
    PROVE  BarrierInv'
  BY DEF BarrierInv, BarrierTypes, barrier

LEMMA InitBarrier == TopologyInit => BarrierInv
  BY DEF TopologyInit, BarrierInv, BarrierTypes, WorkerPcs, Waiting, Phase

LEMMA NextKeepsBarrier == BarrierInv /\ [TopologyNext]_topologyVars => BarrierInv'
<1> SUFFICES ASSUME BarrierInv, [TopologyNext]_topologyVars PROVE BarrierInv'
  OBVIOUS
<1> USE DEF mainVars, resultVars, inotifyVars
<1>1. ASSUME UNCHANGED <<workerPc, barrier>> PROVE BarrierInv'
  BY <1>1 DEF BarrierInv, BarrierTypes, barrier, Phase
<1>2. CASE Main
  <2>1. ASSUME NEW w \in Workers, CreateThread(w) PROVE BarrierInv'
    <3>1. /\ workerPc' = [workerPc EXCEPT ![w] = "start"] /\ workerPc[w] = "none" /\ UNCHANGED barrier
      BY <2>1 DEF CreateThread
    <3>2. workerPc' \in [Workers -> WorkerPcs]
      BY <3>1 DEF BarrierInv, BarrierTypes, WorkerPcs
    <3>3. \A v \in Workers : /\ Phase(v)' = Phase(v)
                             /\ workerPc'[v] \in Waiting <=> workerPc[v] \in Waiting
      BY <3>1 DEF BarrierInv, BarrierTypes, Phase, Waiting
    <3> QED
      BY <3>1, <3>2, <3>3, SamePhaseKeepsBarrier
  <2> QED
    BY <1>1, <1>2, <2>1 DEF Main, SeedKeeper, CreateFails, JoinAll, Report
<1>3. ASSUME NEW w \in Workers, Worker(w) PROVE BarrierInv'
  <2>1. CASE WorkerStart(w)
    BY <2>1, ArriveKeepsBarrier DEF WorkerStart
  <2>2. CASE AddsDone(w)
    BY <2>2, ArriveKeepsBarrier DEF AddsDone
  <2>3. CASE RemovesDone(w)
    BY <2>3, ArriveKeepsBarrier DEF RemovesDone
  <2>4. CASE LeaveFirst(w) \/ LeaveSecond(w) \/ LeaveThird(w)
    <3>1. LeaveFirst(w) => Leave(w, "at1", "add")
      BY DEF LeaveFirst
    <3>2. LeaveSecond(w) => Leave(w, "at2", "remove")
      BY DEF LeaveSecond
    <3>3. LeaveThird(w) => Leave(w, "at3", "done")
      BY DEF LeaveThird
    <3> QED
      BY <2>4, <3>1, <3>2, <3>3, LeaveKeepsBarrier
  <2>5. CASE AddWatch(w) \/ AddFails(w) \/ RemoveWatch(w)
    BY <1>1, <2>5 DEF AddWatch, AddFails, RemoveWatch
  <2>6. CASE AllocateConnector(w) \/ InstallConnector(w)
    <3>1. /\ UNCHANGED barrier
          /\ \/ workerPc[w] = "add" /\ workerPc' = [workerPc EXCEPT ![w] = "install"]
             \/ workerPc[w] = "install" /\ workerPc' = [workerPc EXCEPT ![w] = "add"]
      BY <2>6 DEF AllocateConnector, InstallConnector
    <3>2. workerPc' \in [Workers -> WorkerPcs]
      BY <3>1 DEF BarrierInv, BarrierTypes, WorkerPcs
    <3>3. \A v \in Workers : /\ Phase(v)' = Phase(v)
                             /\ workerPc'[v] \in Waiting <=> workerPc[v] \in Waiting
      BY <3>1 DEF BarrierInv, BarrierTypes, Phase, Waiting
    <3> QED
      BY <3>1, <3>2, <3>3, SamePhaseKeepsBarrier
  <2> QED
    BY <1>3, <2>1, <2>2, <2>3, <2>4, <2>5, <2>6 DEF Worker
<1>4. CASE UNCHANGED topologyVars
  BY <1>1, <1>4 DEF topologyVars
<1> QED
  BY <1>2, <1>3, <1>4 DEF TopologyNext

LEMMA BarrierInvSeparates == BarrierInv => PhaseSeparation
  BY DEF BarrierInv, BarrierTypes, PhaseSeparation, Phase, Waiting

\* For any number of workers and groups, no thread is in a timed region while
\* another is in a different one or not yet in any (topology_worker's three
\* pthread_barrier_wait calls).
THEOREM PhasesSeparate == TopologySpec => []PhaseSeparation
<1>1. TopologySpec => []BarrierInv
  BY InitBarrier, NextKeepsBarrier, PTL DEF TopologySpec
<1> QED
  BY <1>1, BarrierInvSeparates, PTL

-----------------------------------------------------------------------------
(* The keeper                                                              *)

\* While the workers run on a shared inode its keeper mark is there, and with
\* it the connector; so no worker is on its way to install one.
KeeperInv ==
    /\ workerPc \in [Workers -> WorkerPcs]
    /\ next \in [Workers -> Nat]
    /\ mainPc = "keeper" => \A w \in Workers : workerPc[w] = "none"
    /\ topology = "shared" =>
         /\ churn = 0 /\ transient = 0
         /\ \A w \in Workers : workerPc[w] # "install"
         /\ mainPc \in {"create", "join", "drain"} =>
              <<0, Keeper>> \in marks /\ 0 \in connectors
    /\ mainPc \in {"keeper", "create", "join", "drain", "exited"}
    /\ mainPc = "drain" => \A w \in Workers : workerPc[w] = "done"

LEMMA InitKeeper == TopologyInit => KeeperInv
  BY SliceBounds DEF TopologyInit, KeeperInv, WorkerPcs

LEMMA WorkerKeepsKeeper ==
    ASSUME KeeperInv, NEW w \in Workers, Worker(w)
    PROVE  KeeperInv'
<1> USE DEF mainVars, resultVars, inotifyVars, barrier
<1>1. /\ UNCHANGED <<topology, mainPc>>
      /\ mainPc # "exited" /\ workerPc[w] # "none" /\ mainPc # "keeper" /\ mainPc # "drain"
  BY DEF KeeperInv, Worker, WorkerStart, LeaveFirst, AddWatch, AllocateConnector,
         InstallConnector, AddFails, AddsDone, LeaveSecond, RemoveWatch,
         RemovesDone, LeaveThird, Alive, Arrive, Leave
<1>2. workerPc' \in [Workers -> WorkerPcs] /\ next' \in [Workers -> Nat]
  BY SliceBounds
     DEF KeeperInv, Worker, WorkerStart, LeaveFirst, AddWatch, AllocateConnector,
         InstallConnector, AddFails, AddsDone, LeaveSecond, RemoveWatch,
         RemovesDone, LeaveThird, Arrive, Leave, AttachMark, WorkerPcs
<1>3. ASSUME topology = "shared"
      PROVE  /\ UNCHANGED <<churn, transient>>
             /\ <<0, Keeper>> \in marks' /\ 0 \in connectors'
             /\ \A v \in Workers : workerPc'[v] # "install"
  <2>1. /\ mainPc \in {"create", "join"} /\ Inode(next[w]) = 0
        /\ <<0, Keeper>> \in marks /\ 0 \in connectors
        /\ \A v \in Workers : workerPc[v] # "install"
        /\ workerPc \in [Workers -> WorkerPcs]
    BY <1>1, <1>3 DEF KeeperInv, Inode
  <2>2. CASE AddWatch(w)
    BY <2>1, <2>2 DEF AddWatch, AttachMark
  <2>3. CASE RemoveWatch(w)
    <3>1. next[w] # Keeper
      BY <2>3, SliceBounds, TopologyAssumption DEF RemoveWatch, Keeper, KeeperInv
    <3>2. <<0, Keeper>> \in MarksOn(0) \ {<<0, next[w]>>}
      BY <2>1, <3>1 DEF MarksOn
    <3> QED
      BY <2>1, <2>3, <3>1, <3>2 DEF RemoveWatch
  <2>4. CASE AllocateConnector(w) \/ InstallConnector(w)
    BY <2>1, <2>4 DEF AllocateConnector, InstallConnector
  <2>5. CASE \/ WorkerStart(w) \/ LeaveFirst(w) \/ AddFails(w) \/ AddsDone(w)
             \/ LeaveSecond(w) \/ RemovesDone(w) \/ LeaveThird(w)
    BY <2>1, <2>5 DEF WorkerStart, LeaveFirst, AddFails, AddsDone, LeaveSecond,
                      RemovesDone, LeaveThird, Arrive, Leave
  <2> QED
    BY <2>2, <2>3, <2>4, <2>5 DEF Worker
<1> QED
  BY <1>1, <1>2, <1>3 DEF KeeperInv

LEMMA NextKeepsKeeper == KeeperInv /\ [TopologyNext]_topologyVars => KeeperInv'
<1> SUFFICES ASSUME KeeperInv, [TopologyNext]_topologyVars PROVE KeeperInv'
  OBVIOUS
<1> USE DEF mainVars, inotifyVars
<1>1. CASE SeedKeeper
  BY <1>1 DEF SeedKeeper, KeeperInv, Inode, resultVars
<1>2. ASSUME NEW w \in Workers, CreateThread(w) PROVE KeeperInv'
  BY <1>2 DEF CreateThread, KeeperInv, WorkerPcs, resultVars
<1>3. CASE CreateFails \/ JoinAll \/ Report
  BY <1>3 DEF CreateFails, JoinAll, Report, KeeperInv
<1>4. CASE UNCHANGED topologyVars
  BY <1>4 DEF topologyVars, KeeperInv
<1> QED
  BY <1>1, <1>2, <1>3, <1>4, WorkerKeepsKeeper DEF TopologyNext, Main

\* For any number of workers and groups, and whatever calls fail, the workers
\* neither create nor free the shared inode's connector, nor allocate one in
\* vain (the keeper of run_topology).
THEOREM KeeperPreventsChurn == TopologySpec => []NoSharedChurn
<1>1. KeeperInv => NoSharedChurn
  BY DEF KeeperInv, NoSharedChurn
<1> QED
  BY <1>1, InitKeeper, NextKeepsKeeper, PTL DEF TopologySpec

-----------------------------------------------------------------------------
(* What the workers' counters, the descriptors and the kernel's marks have *)
(* to do with each other.                                                  *)

\* How far a worker has come: the groups of its slice below AddsTo(w) were
\* tried, those below RemovesTo(w) were done with.
AddsTo(w) ==
    IF workerPc[w] \in {"none", "start", "at1"} THEN Begin(w)
    ELSE IF workerPc[w] \in {"add", "install"} THEN next[w] ELSE End(w)

RemovesTo(w) ==
    IF workerPc[w] = "remove" THEN next[w]
    ELSE IF workerPc[w] \in {"at3", "done"} THEN End(w) ELSE Begin(w)

Watched    == {g \in Groups : wds[g]}
WatchedBy(w) == {g \in Slice(w) : wds[g]}

LedgerTypes ==
    /\ wds \in [Groups -> BOOLEAN]
    /\ added \in [Workers -> Nat] /\ removed \in [Workers -> Nat]
    /\ unexpected \in [Workers -> Nat]
    /\ affinity_ok \in [Workers -> BOOLEAN]
    /\ topology \in {"distinct", "shared"}
    /\ ignored \subseteq Groups

\* A worker's counters tell what happened to the groups of its own slice.
Ledger(w) ==
    /\ Begin(w) <= next[w] /\ next[w] <= End(w)
    /\ workerPc[w] \in {"none", "start", "at1"} => next[w] = Begin(w)
    /\ workerPc[w] = "install" => next[w] < End(w)
    /\ \A g \in Slice(w) :
          /\ wds[g] => g < AddsTo(w)
          /\ g \in ignored <=> wds[g] /\ g < RemovesTo(w)
    /\ added[w] = Cardinality(WatchedBy(w))
    /\ removed[w] = Cardinality(Slice(w) \cap ignored)
    /\ unexpected[w] # 0 => \E g \in Slice(w) : g < AddsTo(w) /\ ~ wds[g]

\* The descriptors tell which groups have their mark, and with distinct inodes
\* every mark has a connector of its own.
KernelLedger ==
    /\ \A g \in Groups : (<<Inode(g), g>> \in marks) <=> (wds[g] /\ g \notin ignored)
    /\ topology = "distinct" =>
        /\ marks \subseteq {<<g, g>> : g \in Groups}
        /\ connectors = {g \in Groups : wds[g] /\ g \notin ignored}
        /\ churn = Cardinality(Watched) + Cardinality(ignored)
        /\ transient = 0

AllDone == \A w \in Workers : workerPc[w] = "done"

\* What the verdict says once the threads were joined.
RunVerdict ==
    /\ status = "PASS" <=> /\ \A g \in Groups : wds[g]
                           /\ \A w \in Workers : affinity_ok[w]
    /\ status = "PASS" /\ topology = "distinct" => churn = 2 * GROUPS /\ transient = 0

LedgerInv ==
    /\ LedgerTypes
    /\ mainPc = "create" => workerPc[WORKERS - 1] = "none"
    /\ mainPc # "exited" => KernelLedger /\ \A w \in Workers : Ledger(w)
    /\ mainPc = "exited" /\ AllDone => RunVerdict

LEMMA GroupsFinite ==
    /\ IsFiniteSet(Groups) /\ Cardinality(Groups) = GROUPS /\ IsFiniteSet(Workers)
    /\ \A T \in SUBSET Groups : /\ IsFiniteSet(T) /\ Cardinality(T) \in Nat
                                /\ Cardinality(T) = GROUPS => T = Groups
<1>1. IsFiniteSet(Groups) /\ Cardinality(Groups) = GROUPS /\ IsFiniteSet(Workers)
  BY TopologyAssumption, FS_Interval DEF Groups, Workers
<1>2. ASSUME NEW T \in SUBSET Groups
      PROVE  /\ IsFiniteSet(T) /\ Cardinality(T) \in Nat
             /\ Cardinality(T) = GROUPS => T = Groups
  BY <1>1, FS_Subset, FS_CardinalityType
<1> QED
  BY <1>1, <1>2

\* Sums over the workers are sizes of sets of groups, since the slices
\* partition the groups.
LEMMA SumOverSlices ==
    ASSUME NEW T \in SUBSET Groups, NEW f \in [Workers -> Nat],
           \A w \in Workers : f[w] = Cardinality(Slice(w) \cap T)
    PROVE  SumFunction(f) = Cardinality(T)
<1> DEFINE part == [w \in Workers |-> Slice(w) \cap T]
<1>1. part \in [Workers -> SUBSET Groups]
  OBVIOUS
<1>2. \A v, w \in Workers : v # w => part[v] \cap part[w] = {}
  BY SlicesPartition
<1>3. \A w \in Workers : f[w] = Cardinality(part[w])
  OBVIOUS
<1>4. UNION {part[w] : w \in Workers} = T
  BY SlicesPartition
<1> HIDE DEF part
<1>5. SumFunction(f) = Cardinality(UNION {part[w] : w \in Workers})
  BY <1>1, <1>2, <1>3, SumOfSizes, GroupsFinite
<1> QED
  BY <1>4, <1>5

\* When all threads are done, semantic_ok says what it is meant to say.
LEMMA SemanticOkMeans ==
    ASSUME LedgerTypes, \A w \in Workers : Ledger(w), AllDone
    PROVE  /\ ignored = Watched
           /\ SemanticOk <=> /\ \A g \in Groups : wds[g]
                             /\ \A w \in Workers : affinity_ok[w]
<1>1. \A w \in Workers : AddsTo(w) = End(w) /\ RemovesTo(w) = End(w)
  BY DEF AllDone, AddsTo, RemovesTo
<1>2. ASSUME NEW w \in Workers, NEW g \in Slice(w) PROVE g < End(w)
  <2>1. Begin(w) \in Nat /\ End(w) \in Nat
    BY SliceBounds
  <2> QED
    BY <2>1 DEF Slice
<1>3. ignored = Watched
  <2>1. ASSUME NEW w \in Workers, NEW g \in Slice(w) PROVE g \in ignored <=> wds[g]
    <3>1. g < RemovesTo(w)
      BY <1>1, <1>2
    <3>2. g \in ignored <=> wds[g] /\ g < RemovesTo(w)
      BY DEF Ledger
    <3> QED
      BY <3>1, <3>2
  <2> QED
    BY <2>1, SlicesPartition DEF Watched, LedgerTypes
<1>4. Watched \in SUBSET Groups
  BY DEF Watched
<1>5. SumFunction(added) = Cardinality(Watched)
  <2>1. \A w \in Workers : WatchedBy(w) = Slice(w) \cap Watched
    BY SlicesPartition DEF WatchedBy, Watched
  <2>2. \A w \in Workers : added[w] = Cardinality(Slice(w) \cap Watched)
    BY <2>1 DEF Ledger
  <2> QED
    BY <1>4, <2>2, SumOverSlices DEF LedgerTypes
<1>6. SumFunction(removed) = Cardinality(Watched)
  <2>1. \A w \in Workers : removed[w] = Cardinality(Slice(w) \cap Watched)
    BY <1>3 DEF Ledger
  <2> QED
    BY <1>4, <2>1, SumOverSlices DEF LedgerTypes
<1>7. Watched = Groups <=> \A g \in Groups : wds[g]
  BY DEF Watched
<1>8. Cardinality(Watched) = GROUPS <=> Watched = Groups
  BY <1>4, GroupsFinite
<1>9. Watched = Groups => SumFunction(unexpected) = 0
  <2>1. Watched = Groups => \A w \in Workers : unexpected[w] = 0
    BY <1>7, SlicesPartition DEF Ledger
  <2>2. SumFunction(unexpected) = 0 <=> \A w \in Workers : unexpected[w] = 0
    BY ZeroSum, GroupsFinite DEF LedgerTypes
  <2> QED
    BY <2>1, <2>2
<1>10. ignored \cap Groups = Watched
  BY <1>3, <1>4
<1> QED
  BY <1>3, <1>5, <1>6, <1>7, <1>8, <1>9, <1>10 DEF SemanticOk

-----------------------------------------------------------------------------
\* A step that leaves a worker's place, its counters and what is known of the
\* groups of its slice alone.
LEMMA LedgerUntouched ==
    ASSUME NEW w \in Workers, Ledger(w),
           UNCHANGED <<AddsTo(w), RemovesTo(w)>>,
           Begin(w) <= next'[w] /\ next'[w] <= End(w),
           workerPc'[w] \in {"none", "start", "at1"} => next'[w] = Begin(w),
           workerPc'[w] = "install" => next'[w] < End(w),
           added'[w] = added[w], removed'[w] = removed[w], unexpected'[w] = unexpected[w],
           \A g \in Slice(w) : wds'[g] = wds[g] /\ (g \in ignored' <=> g \in ignored)
    PROVE  Ledger(w)'
<1>1. WatchedBy(w)' = WatchedBy(w)
  BY DEF WatchedBy, Slice, Begin, End
<1>2. Slice(w)' = Slice(w) /\ Begin(w)' = Begin(w) /\ End(w)' = End(w)
  BY DEF Slice, Begin, End
<1>3. Slice(w) \cap ignored' = Slice(w) \cap ignored
  OBVIOUS
<1> QED
  BY <1>1, <1>2, <1>3 DEF Ledger

\* No step of a worker touches another worker's place, counters or groups.
LEMMA OthersUntouched ==
    ASSUME KeeperInv, LedgerTypes, NEW w \in Workers, Ledger(w), Worker(w),
           NEW v \in Workers, v # w, Ledger(v)
    PROVE  Ledger(v)'
<1> USE DEF KeeperInv, LedgerTypes, mainVars, resultVars, inotifyVars, barrier
<1>1. /\ workerPc'[v] = workerPc[v] /\ next'[v] = next[v]
      /\ added'[v] = added[v] /\ removed'[v] = removed[v] /\ unexpected'[v] = unexpected[v]
  BY DEF Worker, WorkerStart, LeaveFirst, AddWatch, AllocateConnector,
         InstallConnector, AddFails, AddsDone, LeaveSecond, RemoveWatch,
         RemovesDone, LeaveThird, Arrive, Leave, AttachMark
<1>2. ASSUME NEW g \in Slice(v)
      PROVE  wds'[g] = wds[g] /\ (g \in ignored' <=> g \in ignored)
  <2>1. next[w] < End(w) => g # next[w]
    BY SlicesPartition, SliceBounds DEF Slice, Ledger
  <2>2. workerPc[w] = "install" => next[w] < End(w)
    BY DEF Ledger
  <2> QED
    BY <2>1, <2>2, SlicesPartition
       DEF Worker, WorkerStart, LeaveFirst, AddWatch, AllocateConnector,
           InstallConnector, AddFails, AddsDone, LeaveSecond, RemoveWatch,
           RemovesDone, LeaveThird, AttachMark
<1>3. UNCHANGED <<AddsTo(v), RemovesTo(v)>>
  BY <1>1 DEF AddsTo, RemovesTo, Begin, End
<1> QED
  BY <1>1, <1>2, <1>3, LedgerUntouched DEF Ledger

\* A worker that starts, meets or leaves a barrier, or finds no connector.
LEMMA MoveKeepsLedger ==
    ASSUME KeeperInv, NEW w \in Workers, Ledger(w),
           \/ WorkerStart(w) \/ LeaveFirst(w) \/ AllocateConnector(w) \/ AddsDone(w)
           \/ LeaveSecond(w) \/ RemovesDone(w) \/ LeaveThird(w)
    PROVE  /\ UNCHANGED <<wds, added, removed, unexpected, inotifyVars>>
           /\ Ledger(w)'
<1> USE DEF KeeperInv, resultVars, barrier
<1>1. UNCHANGED <<wds, added, removed, unexpected, inotifyVars>>
  BY DEF WorkerStart, LeaveFirst, AllocateConnector, AddsDone, LeaveSecond,
         RemovesDone, LeaveThird
<1>2. /\ Begin(w) \in Nat /\ End(w) \in Nat /\ next[w] \in Nat
      /\ Begin(w) <= next[w] /\ next[w] <= End(w) /\ Begin(w) <= End(w)
  BY SliceBounds, SliceOrder DEF Ledger
<1>3. \/ workerPc[w] = "start" /\ workerPc'[w] = "at1" /\ next' = next
      \/ workerPc[w] = "at1" /\ workerPc'[w] = "add" /\ next' = next
      \/ workerPc[w] = "add" /\ workerPc'[w] = "install" /\ next' = next /\ next[w] < End(w)
      \/ workerPc[w] = "add" /\ workerPc'[w] = "at2" /\ next' = next /\ next[w] >= End(w)
      \/ workerPc[w] = "at2" /\ workerPc'[w] = "remove" /\ next'[w] = Begin(w)
      \/ workerPc[w] = "remove" /\ workerPc'[w] = "at3" /\ next' = next /\ next[w] >= End(w)
      \/ workerPc[w] = "at3" /\ workerPc'[w] = "done" /\ next' = next
  BY DEF WorkerStart, LeaveFirst, AllocateConnector, AddsDone, LeaveSecond,
         RemovesDone, LeaveThird, Arrive, Leave
<1>4. /\ Begin(w) <= next'[w] /\ next'[w] <= End(w)
      /\ workerPc'[w] \in {"none", "start", "at1"} => next'[w] = Begin(w)
      /\ workerPc'[w] = "install" => next'[w] < End(w)
  BY <1>2, <1>3 DEF Ledger
<1>5. AddsTo(w)' = AddsTo(w) /\ RemovesTo(w)' = RemovesTo(w)
  <2>1. Begin(w)' = Begin(w) /\ End(w)' = End(w)
    BY DEF Begin, End
  <2>2. workerPc[w] \in {"none", "start", "at1"} => next[w] = Begin(w)
    BY DEF Ledger
  <2> QED
    BY <1>2, <1>3, <2>1, <2>2 DEF AddsTo, RemovesTo
<1>6. Ledger(w)'
  <2>1. /\ added'[w] = added[w] /\ removed'[w] = removed[w] /\ unexpected'[w] = unexpected[w]
        /\ \A g \in Slice(w) : wds'[g] = wds[g] /\ (g \in ignored' <=> g \in ignored)
    BY <1>1 DEF inotifyVars
  <2> QED
    BY <1>4, <1>5, <2>1, LedgerUntouched
<1> QED
  BY <1>1, <1>6

LEMMA MoveKeepsKernel ==
    ASSUME KernelLedger, UNCHANGED <<topology, wds, inotifyVars>>
    PROVE  KernelLedger'
  BY DEF KernelLedger, inotifyVars, Inode, Watched

\* An add that attached its mark.
LEMMA AttachKeepsLedger ==
    ASSUME KeeperInv, LedgerTypes, NEW w \in Workers, Ledger(w), KernelLedger,
           AddWatch(w) \/ InstallConnector(w)
    PROVE  Ledger(w)' /\ KernelLedger'
<1> DEFINE g == next[w]
<1> USE DEF KeeperInv, LedgerTypes, mainVars
<1>1. /\ next[w] < End(w) /\ workerPc[w] \in {"add", "install"} /\ workerPc'[w] = "add"
      /\ AttachMark(w)
      /\ UNCHANGED <<topology, ignored, removed, unexpected>>
  BY DEF AddWatch, InstallConnector, Ledger
<1>2. /\ Begin(w) \in Nat /\ End(w) \in Nat /\ g \in Nat
      /\ Begin(w) <= g /\ Begin(w) <= End(w) /\ g \in Slice(w) /\ g \in Groups
  BY <1>1, SliceBounds, SliceOrder, SlicesPartition DEF Ledger, Slice
<1>3. AddsTo(w) = g /\ RemovesTo(w) = Begin(w) /\ AddsTo(w)' = g + 1 /\ RemovesTo(w)' = Begin(w)
  BY <1>1 DEF AddsTo, RemovesTo, AttachMark, Begin, End
<1>4. ~ wds[g] /\ g \notin ignored
  BY <1>2, <1>3 DEF Ledger
<1>5. /\ wds' = [wds EXCEPT ![g] = TRUE] /\ next'[w] = g + 1
      /\ added'[w] = added[w] + 1
      /\ marks' = marks \cup {<<Inode(g), g>>}
  BY <1>1 DEF AttachMark
<1>6. Ledger(w)'
  <2>1. /\ Slice(w)' = Slice(w) /\ Begin(w)' = Begin(w) /\ End(w)' = End(w)
    BY DEF Slice, Begin, End
  <2>2. \A i \in Slice(w) : /\ wds'[i] => i < g + 1
                            /\ i \in ignored' <=> wds'[i] /\ i < Begin(w)
    <3> TAKE i \in Slice(w)
    <3>1. i \in Groups /\ i \in Nat /\ Begin(w) <= i
      BY <1>2, SlicesPartition DEF Slice, Groups
    <3>2. (wds[i] => i < g) /\ (i \in ignored <=> wds[i] /\ i < Begin(w))
      BY <1>3 DEF Ledger
    <3>3. i # g => wds'[i] = wds[i]
      BY <1>5, <3>1
    <3> QED
      BY <1>1, <1>2, <1>4, <3>1, <3>2, <3>3
  <2>3. added'[w] = Cardinality(WatchedBy(w)')
    <3>1. WatchedBy(w)' = WatchedBy(w) \cup {g} /\ g \notin WatchedBy(w)
      BY <1>2, <1>4, <1>5, <2>1, SlicesPartition DEF WatchedBy
    <3>2. WatchedBy(w) \in SUBSET Groups
      BY SlicesPartition DEF WatchedBy
    <3>3. Cardinality(WatchedBy(w) \cup {g}) = Cardinality(WatchedBy(w)) + 1
      <4>1. IsFiniteSet(WatchedBy(w))
        BY <3>2, GroupsFinite
      <4> QED
        BY <3>1, <4>1, FS_AddElement
    <3> QED
      BY <1>5, <3>1, <3>3 DEF Ledger
  <2>4. removed'[w] = Cardinality(Slice(w) \cap ignored')
    BY <1>1 DEF Ledger
  <2>5. ASSUME unexpected'[w] # 0 PROVE \E i \in Slice(w) : i < g + 1 /\ ~ wds'[i]
    <3>1. PICK i \in Slice(w) : i < g /\ ~ wds[i]
      BY <1>1, <1>3, <2>5 DEF Ledger
    <3>2. i \in Nat
      BY <1>2 DEF Slice
    <3>3. i < g + 1 /\ ~ wds'[i]
      BY <1>2, <1>5, <3>1, <3>2
    <3> QED
      BY <3>3
  <2>6. Begin(w) <= next'[w] /\ next'[w] <= End(w)
    BY <1>1, <1>2, <1>5
  <2> QED
    BY <1>1, <1>3, <2>1, <2>2, <2>3, <2>4, <2>5, <2>6 DEF Ledger
<1>7. KernelLedger'
  <2>1. \A i \in Groups : (<<Inode(i), i>> \in marks') <=> (wds'[i] /\ i \notin ignored')
    BY <1>1, <1>2, <1>4, <1>5 DEF KernelLedger
  <2>2. Watched' = Watched \cup {g} /\ g \notin Watched
    BY <1>2, <1>4, <1>5 DEF Watched
  <2>3. ASSUME topology = "distinct"
        PROVE  /\ marks' \subseteq {<<i, i>> : i \in Groups}
               /\ connectors' = {i \in Groups : wds'[i] /\ i \notin ignored'}
               /\ churn' = Cardinality(Watched') + Cardinality(ignored')
               /\ transient' = 0
    <3>1. Inode(g) = g
      BY <2>3 DEF Inode
    <3>2. g \notin connectors
      BY <1>4, <2>3 DEF KernelLedger
    <3>3. /\ connectors' = connectors \cup {g} /\ churn' = churn + 1 /\ transient' = transient
      BY <1>4, <3>1, <3>2 DEF AddWatch, InstallConnector
    <3>4. Watched \in SUBSET Groups /\ ignored \in SUBSET Groups
      BY DEF Watched
    <3>5. Cardinality(Watched') = Cardinality(Watched) + 1
      BY <2>2, <3>4, GroupsFinite, FS_AddElement
    <3>6. churn' = Cardinality(Watched') + Cardinality(ignored')
      BY <1>1, <2>3, <3>3, <3>4, <3>5, GroupsFinite DEF KernelLedger
    <3>7. connectors' = {i \in Groups : wds'[i] /\ i \notin ignored'}
      BY <1>1, <1>2, <1>4, <1>5, <2>3, <3>3 DEF KernelLedger
    <3>8. marks' \subseteq {<<i, i>> : i \in Groups}
      BY <1>2, <1>5, <2>3, <3>1 DEF KernelLedger
    <3>9. transient' = 0
      BY <2>3, <3>3 DEF KernelLedger
    <3> QED
      BY <3>6, <3>7, <3>8, <3>9
  <2>4. topology' = topology /\ \A i \in Groups : Inode(i)' = Inode(i)
    BY <1>1 DEF Inode
  <2> QED
    BY <2>1, <2>3, <2>4 DEF KernelLedger
<1> QED
  BY <1>6, <1>7

\* An add that failed.
LEMMA FailKeepsLedger ==
    ASSUME KeeperInv, LedgerTypes, NEW w \in Workers, Ledger(w), AddFails(w)
    PROVE  Ledger(w)'
<1> DEFINE g == next[w]
<1> USE DEF KeeperInv, LedgerTypes
<1>1. /\ g < End(w) /\ workerPc[w] = "add" /\ next'[w] = g + 1
      /\ UNCHANGED <<workerPc, wds, added, removed, ignored>>
  BY DEF AddFails, inotifyVars
<1>2. /\ Begin(w) \in Nat /\ End(w) \in Nat /\ g \in Nat
      /\ Begin(w) <= g /\ g \in Slice(w)
  BY <1>1, SliceBounds DEF Ledger, Slice
<1>3. AddsTo(w) = g /\ RemovesTo(w) = Begin(w) /\ AddsTo(w)' = g + 1 /\ RemovesTo(w)' = Begin(w)
  BY <1>1 DEF AddsTo, RemovesTo, Begin, End
<1>4. /\ Slice(w)' = Slice(w) /\ Begin(w)' = Begin(w) /\ End(w)' = End(w)
      /\ WatchedBy(w)' = WatchedBy(w)
  BY <1>1 DEF Slice, Begin, End, WatchedBy
<1>5. g < g + 1 /\ ~ wds[g]
  BY <1>2, <1>3 DEF Ledger
<1>6. \A i \in Slice(w) : i \in Nat
  BY <1>2 DEF Slice
<1>7. \A i \in Slice(w) : /\ wds'[i] => i < g + 1
                          /\ i \in ignored' <=> wds'[i] /\ i < Begin(w)
  <2> TAKE i \in Slice(w)
  <2>1. (wds[i] => i < g) /\ (i \in ignored <=> wds[i] /\ i < Begin(w))
    BY <1>3 DEF Ledger
  <2>2. i < g => i < g + 1
    BY <1>2, <1>6
  <2> QED
    BY <1>1, <2>1, <2>2
<1>8. \E i \in Slice(w) : i < g + 1 /\ ~ wds'[i]
  BY <1>1, <1>2, <1>5
<1>9. Begin(w) <= next'[w] /\ next'[w] <= End(w)
  BY <1>1, <1>2
<1>10. /\ added'[w] = Cardinality(WatchedBy(w)')
       /\ removed'[w] = Cardinality(Slice(w)' \cap ignored')
  BY <1>1, <1>4 DEF Ledger
<1>11. workerPc'[w] = "add"
  BY <1>1
<1> QED
  BY <1>3, <1>4, <1>7, <1>8, <1>9, <1>10, <1>11 DEF Ledger

\* The last mark of a distinct inode takes the inode's connector along.
LEMMA RemoveKeepsLedger ==
    ASSUME KeeperInv, LedgerTypes, NEW w \in Workers, Ledger(w), KernelLedger, RemoveWatch(w)
    PROVE  Ledger(w)' /\ KernelLedger'
<1> DEFINE g == next[w]
<1> USE DEF KeeperInv, LedgerTypes, mainVars
<1>1. /\ g < End(w) /\ workerPc[w] = "remove" /\ next'[w] = g + 1
      /\ UNCHANGED <<workerPc, wds, added, topology, transient>>
  BY DEF RemoveWatch
<1>2. /\ Begin(w) \in Nat /\ End(w) \in Nat /\ g \in Nat
      /\ Begin(w) <= g /\ g \in Slice(w) /\ g \in Groups
  BY <1>1, SliceBounds, SlicesPartition DEF Ledger, Slice
<1>3. AddsTo(w) = End(w) /\ RemovesTo(w) = g /\ AddsTo(w)' = End(w) /\ RemovesTo(w)' = g + 1
  BY <1>1 DEF AddsTo, RemovesTo, Begin, End
<1>4. g \notin ignored
  BY <1>2, <1>3 DEF Ledger
<1>5. \/ /\ wds[g]
         /\ marks' = marks \ {<<Inode(g), g>>} /\ ignored' = ignored \cup {g}
         /\ removed'[w] = removed[w] + 1 /\ unexpected' = unexpected
      \/ /\ ~ wds[g]
         /\ marks' = marks /\ ignored' = ignored
         /\ removed' = removed /\ unexpected'[w] = unexpected[w] + 1
         /\ UNCHANGED <<connectors, churn>>
  BY DEF RemoveWatch
<1>6. \A i \in Groups : i \in ignored' <=> (i \in ignored \/ (i = g /\ wds[g]))
  BY <1>2, <1>5
<1>7. ignored' \subseteq Groups
  BY <1>2, <1>5
<1>8. Ledger(w)'
  <2>1. /\ Slice(w)' = Slice(w) /\ Begin(w)' = Begin(w) /\ End(w)' = End(w)
        /\ WatchedBy(w)' = WatchedBy(w)
    BY <1>1 DEF Slice, Begin, End, WatchedBy
  <2>2. \A i \in Slice(w) : /\ wds'[i] => i < End(w)
                            /\ i \in ignored' <=> wds'[i] /\ i < g + 1
    <3> TAKE i \in Slice(w)
    <3>1. i \in Groups /\ i \in Nat
      BY <1>2, SlicesPartition DEF Slice
    <3>2. (wds[i] => i < End(w)) /\ (i \in ignored <=> wds[i] /\ i < g)
      BY <1>3 DEF Ledger
    <3>3. i < g + 1 <=> i < g \/ i = g
      BY <1>2, <3>1
    <3> QED
      BY <1>1, <1>6, <3>1, <3>2, <3>3
  <2>3. removed'[w] = Cardinality(Slice(w) \cap ignored')
    <3>1. CASE ~ wds[g]
      BY <1>5, <3>1 DEF Ledger
    <3>2. CASE wds[g]
      <4> DEFINE T == Slice(w) \cap ignored
      <4>1. Slice(w) \cap ignored' = T \cup {g} /\ g \notin T
        BY <1>2, <1>4, <1>5, <3>2
      <4>2. T \in SUBSET Groups
        OBVIOUS
      <4>3. IsFiniteSet(T)
        BY <4>2, GroupsFinite
      <4>4. removed[w] = Cardinality(T)
        BY DEF Ledger
      <4> HIDE DEF T
      <4>5. Cardinality(T \cup {g}) = Cardinality(T) + 1
        BY <4>1, <4>3, FS_AddElement
      <4> QED
        BY <1>5, <3>2, <4>1, <4>4, <4>5
    <3> QED
      BY <3>1, <3>2
  <2>4. ASSUME unexpected'[w] # 0 PROVE \E i \in Slice(w) : i < End(w) /\ ~ wds'[i]
    <3>1. CASE ~ wds[g]
      BY <1>1, <1>2, <3>1
    <3>2. CASE wds[g]
      BY <1>1, <1>3, <1>5, <2>4, <3>2 DEF Ledger
    <3> QED
      BY <3>1, <3>2
  <2>5. Begin(w) <= next'[w] /\ next'[w] <= End(w)
    BY <1>1, <1>2
  <2>6. workerPc'[w] = "remove" /\ added'[w] = Cardinality(WatchedBy(w)')
    BY <1>1, <2>1 DEF Ledger
  <2> QED
    BY <1>3, <2>1, <2>2, <2>3, <2>4, <2>5, <2>6 DEF Ledger
<1>9. KernelLedger'
  <2>1. \A i \in Groups : (<<Inode(i), i>> \in marks') <=> (wds'[i] /\ i \notin ignored')
    BY <1>1, <1>2, <1>4, <1>5 DEF KernelLedger
  <2>2. Watched' = Watched /\ \A i \in Groups : Inode(i)' = Inode(i)
    BY <1>1 DEF Watched, Inode
  <2>3. ASSUME topology = "distinct"
        PROVE  /\ marks' \subseteq {<<i, i>> : i \in Groups}
               /\ connectors' = {i \in Groups : wds'[i] /\ i \notin ignored'}
               /\ churn' = Cardinality(Watched') + Cardinality(ignored')
               /\ transient' = 0
    <3>1. /\ marks \subseteq {<<i, i>> : i \in Groups} /\ transient = 0
          /\ connectors = {i \in Groups : wds[i] /\ i \notin ignored}
          /\ churn = Cardinality(Watched) + Cardinality(ignored)
      BY <2>3 DEF KernelLedger
    <3>2. Inode(g) = g
      BY <2>3 DEF Inode
    <3>3. CASE ~ wds[g]
      BY <1>1, <1>5, <2>2, <3>1, <3>3
    <3>4. CASE wds[g]
      <4>1. MarksOn(g) \subseteq {<<g, g>>}
        BY <3>1 DEF MarksOn
      <4>2. connectors' = connectors \ {g} /\ churn' = churn + 1
        BY <3>2, <3>4, <4>1 DEF RemoveWatch
      <4>3. connectors' = {i \in Groups : wds'[i] /\ i \notin ignored'}
        BY <1>1, <1>5, <3>1, <3>4, <4>2
      <4>4. Cardinality(ignored') = Cardinality(ignored) + 1
        <5>1. ignored \in SUBSET Groups
          OBVIOUS
        <5>2. IsFiniteSet(ignored)
          BY <5>1, GroupsFinite
        <5> QED
          BY <1>4, <1>5, <3>4, <5>2, FS_AddElement
      <4>5. churn' = Cardinality(Watched') + Cardinality(ignored')
        <5>1. Watched \in SUBSET Groups /\ ignored \in SUBSET Groups
          BY DEF Watched
        <5>2. Cardinality(Watched) \in Nat /\ Cardinality(ignored) \in Nat
          BY <5>1, GroupsFinite
        <5> QED
          BY <2>2, <3>1, <4>2, <4>4, <5>2
      <4>6. marks' \subseteq {<<i, i>> : i \in Groups} /\ transient' = 0
        BY <1>1, <1>5, <3>1
      <4> QED
        BY <4>3, <4>5, <4>6
    <3> QED
      BY <3>3, <3>4
  <2> QED
    BY <1>1, <2>1, <2>2, <2>3 DEF KernelLedger
<1> QED
  BY <1>8, <1>9

-----------------------------------------------------------------------------
LEMMA InitLedger == TopologyInit => LedgerInv
<1> SUFFICES ASSUME TopologyInit PROVE LedgerInv
  OBVIOUS
<1> USE DEF TopologyInit
<1>1. LedgerTypes
  BY TopologyAssumption DEF LedgerTypes
<1>2. WORKERS - 1 \in Workers
  BY TopologyAssumption DEF Workers
<1>3. KernelLedger
  <2>1. Watched = {} /\ ignored = {}
    BY DEF Watched
  <2>2. Cardinality(Watched) = 0 /\ Cardinality(ignored) = 0
    BY <2>1, FS_EmptySet
  <2> QED
    BY <2>2 DEF KernelLedger
<1>4. ASSUME NEW w \in Workers PROVE Ledger(w)
  <2>1. Begin(w) \in Nat /\ End(w) \in Nat /\ Begin(w) <= End(w)
    BY SliceBounds, SliceOrder
  <2>2. \A g \in Slice(w) : g \in Groups /\ ~ wds[g]
    BY SlicesPartition
  <2>3. WatchedBy(w) = {} /\ Slice(w) \cap ignored = {}
    BY <2>2 DEF WatchedBy
  <2>4. Cardinality(WatchedBy(w)) = 0 /\ Cardinality(Slice(w) \cap ignored) = 0
    BY <2>3, FS_EmptySet
  <2> QED
    BY <2>1, <2>2, <2>4 DEF Ledger
<1> QED
  BY <1>1, <1>2, <1>3, <1>4 DEF LedgerInv

LEMMA WorkerKeepsLedger ==
    ASSUME KeeperInv, LedgerInv, NEW w \in Workers, Worker(w)
    PROVE  LedgerInv'
<1> USE DEF mainVars, resultVars
<1>1. /\ UNCHANGED <<topology, mainPc>> /\ mainPc # "exited" /\ workerPc[w] # "none"
      /\ \A v \in Workers : workerPc[v] = "none" => workerPc'[v] = "none"
  BY DEF KeeperInv, Worker, WorkerStart, LeaveFirst, AddWatch, AllocateConnector,
         InstallConnector, AddFails, AddsDone, LeaveSecond, RemoveWatch,
         RemovesDone, LeaveThird, Alive, Arrive, Leave
<1>2. LedgerTypes /\ KernelLedger /\ \A v \in Workers : Ledger(v)
  BY <1>1 DEF LedgerInv
<1>3. Ledger(w)' /\ KernelLedger'
  <2>1. CASE \/ WorkerStart(w) \/ LeaveFirst(w) \/ AllocateConnector(w) \/ AddsDone(w)
             \/ LeaveSecond(w) \/ RemovesDone(w) \/ LeaveThird(w)
    <3>1. UNCHANGED <<wds, added, removed, unexpected, inotifyVars>> /\ Ledger(w)'
      BY <1>2, <2>1, MoveKeepsLedger
    <3> QED
      BY <1>1, <1>2, <3>1, MoveKeepsKernel
  <2>2. CASE AddWatch(w) \/ InstallConnector(w)
    BY <1>2, <2>2, AttachKeepsLedger
  <2>3. CASE AddFails(w)
    <3>1. UNCHANGED <<topology, wds, inotifyVars>>
      BY <2>3 DEF AddFails
    <3> QED
      BY <1>2, <2>3, <3>1, FailKeepsLedger, MoveKeepsKernel
  <2>4. CASE RemoveWatch(w)
    BY <1>2, <2>4, RemoveKeepsLedger
  <2> QED
    BY <2>1, <2>2, <2>3, <2>4 DEF Worker
<1>4. \A v \in Workers : Ledger(v)'
  BY <1>2, <1>3, OthersUntouched
<1>5. LedgerTypes'
  <2> USE DEF LedgerTypes
  <2>1. CASE \/ WorkerStart(w) \/ LeaveFirst(w) \/ AllocateConnector(w) \/ AddsDone(w)
             \/ LeaveSecond(w) \/ RemovesDone(w) \/ LeaveThird(w)
    <3>1. UNCHANGED <<wds, added, removed, unexpected, ignored>>
      BY <2>1 DEF WorkerStart, LeaveFirst, AllocateConnector, AddsDone, LeaveSecond,
                  RemovesDone, LeaveThird, inotifyVars
    <3>2. affinity_ok' \in [Workers -> BOOLEAN]
      BY <1>2, <2>1 DEF WorkerStart, LeaveFirst, AllocateConnector, AddsDone,
                        LeaveSecond, RemovesDone, LeaveThird
    <3> QED
      BY <1>1, <1>2, <3>1, <3>2
  <2>2. CASE AddWatch(w) \/ InstallConnector(w)
    <3>1. /\ wds' = [wds EXCEPT ![next[w]] = TRUE] /\ added' = [added EXCEPT ![w] = @ + 1]
          /\ UNCHANGED <<removed, unexpected, affinity_ok, ignored>>
      BY <2>2 DEF AddWatch, InstallConnector, AttachMark
    <3>2. wds' \in [Groups -> BOOLEAN]
      BY <1>2, <3>1
    <3>3. added' \in [Workers -> Nat]
      BY <1>2, <3>1
    <3> QED
      BY <1>1, <1>2, <3>1, <3>2, <3>3
  <2>3. CASE AddFails(w)
    BY <1>1, <1>2, <2>3 DEF AddFails, inotifyVars
  <2>4. CASE RemoveWatch(w)
    <3>1. next[w] < End(w) /\ Begin(w) <= next[w] /\ next[w] \in Nat
      BY <1>2, <2>4 DEF RemoveWatch, Ledger, KeeperInv
    <3>2. Begin(w) \in Nat /\ End(w) \in Nat /\ End(w) <= GROUPS
      BY SliceBounds
    <3>3. next[w] \in Groups
      BY <3>1, <3>2, TopologyAssumption DEF Groups
    <3>4. ignored' \subseteq Groups
      BY <1>2, <2>4, <3>3 DEF RemoveWatch
    <3>5. removed' \in [Workers -> Nat] /\ unexpected' \in [Workers -> Nat]
      BY <1>2, <2>4 DEF RemoveWatch
    <3> QED
      BY <1>1, <1>2, <2>4, <3>4, <3>5 DEF RemoveWatch
  <2> QED
    BY <2>1, <2>2, <2>3, <2>4 DEF Worker
<1>6. WORKERS - 1 \in Workers
  BY TopologyAssumption DEF Workers
<1> QED
  BY <1>1, <1>3, <1>4, <1>5, <1>6 DEF LedgerInv

\* A step of the main thread that leaves the ledger alone.
LEMMA MainKeepsLedger ==
    ASSUME KeeperInv, LedgerInv, SeedKeeper \/ (\E w \in Workers : CreateThread(w)) \/ JoinAll
    PROVE  LedgerInv'
<1> USE DEF resultVars, inotifyVars, barrier
<1>1. /\ UNCHANGED <<topology, next, wds, added, removed, unexpected, affinity_ok,
                     ignored, churn, transient>>
      /\ mainPc # "exited" /\ mainPc' # "exited"
  BY DEF SeedKeeper, CreateThread, JoinAll
<1>2. LedgerTypes /\ KernelLedger /\ \A v \in Workers : Ledger(v)
  BY <1>1 DEF LedgerInv
<1>3. \A v \in Workers :
        workerPc'[v] = workerPc[v] \/ (workerPc[v] = "none" /\ workerPc'[v] = "start")
  BY DEF SeedKeeper, CreateThread, JoinAll, KeeperInv
<1>4. ASSUME NEW v \in Workers PROVE Ledger(v)'
  <2>1. UNCHANGED <<AddsTo(v), RemovesTo(v)>>
    BY <1>1, <1>3 DEF AddsTo, RemovesTo, Begin, End
  <2>2. /\ Begin(v) <= next'[v] /\ next'[v] <= End(v)
        /\ workerPc'[v] \in {"none", "start", "at1"} => next'[v] = Begin(v)
        /\ workerPc'[v] = "install" => next'[v] < End(v)
    BY <1>1, <1>2, <1>3 DEF Ledger
  <2> QED
    BY <1>1, <1>2, <2>1, <2>2, LedgerUntouched
<1>5. KernelLedger'
  <2>1. CASE UNCHANGED <<marks, connectors>>
    BY <1>1, <1>2, <2>1, MoveKeepsKernel
  <2>2. CASE SeedKeeper /\ topology = "shared"
    <3>1. marks' = marks \cup {<<Inode(0), Keeper>>}
      BY <2>2 DEF SeedKeeper
    <3>2. \A g \in Groups : <<Inode(g), g>> # <<Inode(0), Keeper>> /\ Inode(g)' = Inode(g)
      BY <1>1, TopologyAssumption DEF Groups, Keeper, Inode
    <3> QED
      BY <1>1, <1>2, <2>2, <3>1, <3>2 DEF KernelLedger
  <2> QED
    BY <2>1, <2>2 DEF SeedKeeper, CreateThread, JoinAll
<1>6. mainPc' = "create" => workerPc'[WORKERS - 1] = "none"
  <2>1. WORKERS - 1 \in Workers
    BY TopologyAssumption DEF Workers
  <2>2. CASE SeedKeeper
    BY <2>1, <2>2 DEF SeedKeeper, KeeperInv
  <2>3. ASSUME NEW w \in Workers, CreateThread(w), mainPc' = "create"
        PROVE  workerPc'[WORKERS - 1] = "none"
    <3>1. w # WORKERS - 1 /\ mainPc = "create" /\ workerPc' = [workerPc EXCEPT ![w] = "start"]
      BY <2>3 DEF CreateThread
    <3> QED
      BY <2>1, <3>1 DEF LedgerInv, KeeperInv
  <2>4. CASE JoinAll
    BY <2>4 DEF JoinAll
  <2> QED
    BY <2>2, <2>3, <2>4
<1>7. LedgerTypes'
  BY <1>1, <1>2 DEF LedgerTypes
<1> QED
  BY <1>1, <1>4, <1>5, <1>6, <1>7 DEF LedgerInv

LEMMA ReportKeepsLedger ==
    ASSUME KeeperInv, LedgerInv, Report
    PROVE  LedgerInv'
<1>1. /\ mainPc = "drain" /\ mainPc' = "exited" /\ ignored' = {}
      /\ UNCHANGED <<topology, workerPc, wds, added, removed, unexpected, affinity_ok, churn, transient>>
      /\ status' = IF SemanticOk THEN "PASS" ELSE "FAIL"
  BY DEF Report, resultVars
<1>2. LedgerTypes /\ KernelLedger /\ (\A v \in Workers : Ledger(v)) /\ AllDone
  BY <1>1 DEF LedgerInv, KeeperInv, AllDone
<1>3. /\ ignored = Watched
      /\ SemanticOk <=> (\A g \in Groups : wds[g]) /\ (\A w \in Workers : affinity_ok[w])
  BY <1>2, SemanticOkMeans
<1>4. RunVerdict'
  <2>1. status' = "PASS" <=> SemanticOk
    BY <1>1
  <2>2. ASSUME SemanticOk, topology = "distinct"
        PROVE  churn = 2 * GROUPS /\ transient = 0
    <3>1. Watched = Groups
      BY <1>3, <2>2 DEF Watched
    <3>2. Cardinality(Watched) = GROUPS
      BY <3>1, GroupsFinite
    <3> QED
      BY <1>2, <1>3, <2>2, <3>2, TopologyAssumption DEF KernelLedger
  <2> QED
    BY <1>1, <1>3, <2>1, <2>2 DEF RunVerdict
<1>5. LedgerTypes'
  BY <1>1, <1>2 DEF LedgerTypes
<1> QED
  BY <1>1, <1>4, <1>5 DEF LedgerInv

LEMMA NextKeepsLedger == KeeperInv /\ LedgerInv /\ [TopologyNext]_topologyVars => LedgerInv'
<1> SUFFICES ASSUME KeeperInv, LedgerInv, [TopologyNext]_topologyVars PROVE LedgerInv'
  OBVIOUS
<1>1. CASE SeedKeeper \/ (\E w \in Workers : CreateThread(w)) \/ JoinAll
  BY <1>1, MainKeepsLedger
<1>2. CASE CreateFails
  <2>1. /\ mainPc = "create" /\ mainPc' = "exited"
        /\ UNCHANGED <<workerPc, topology, wds, added, removed, unexpected, affinity_ok, ignored>>
    BY <1>2 DEF CreateFails, resultVars, inotifyVars
  <2>2. WORKERS - 1 \in Workers
    BY TopologyAssumption DEF Workers
  <2>3. workerPc'[WORKERS - 1] = "none"
    BY <2>1 DEF LedgerInv
  <2>4. ~ AllDone'
    BY <2>2, <2>3 DEF AllDone
  <2>5. LedgerTypes'
    BY <2>1 DEF LedgerInv, LedgerTypes
  <2> QED
    BY <2>1, <2>4, <2>5 DEF LedgerInv
<1>3. CASE Report
  BY <1>3, ReportKeepsLedger
<1>4. CASE \E w \in Workers : Worker(w)
  BY <1>4, WorkerKeepsLedger
<1>5. CASE UNCHANGED topologyVars
  <2>1. KernelLedger' <=> KernelLedger
    BY <1>5 DEF topologyVars, mainVars, resultVars, inotifyVars, KernelLedger, Inode, Watched
  <2>2. \A w \in Workers : Ledger(w)' <=> Ledger(w)
    BY <1>5 DEF topologyVars, mainVars, resultVars, inotifyVars, Ledger, AddsTo, RemovesTo,
                WatchedBy, Slice, Begin, End
  <2>3. LedgerTypes' <=> LedgerTypes
    BY <1>5 DEF topologyVars, mainVars, resultVars, inotifyVars, LedgerTypes
  <2>4. (RunVerdict' <=> RunVerdict) /\ (AllDone' <=> AllDone)
    BY <1>5 DEF topologyVars, mainVars, resultVars, inotifyVars, RunVerdict, AllDone
  <2>5. mainPc' = mainPc /\ workerPc' = workerPc
    BY <1>5 DEF topologyVars, mainVars
  <2> QED
    BY <2>1, <2>2, <2>3, <2>4, <2>5 DEF LedgerInv
<1> QED
  BY <1>1, <1>2, <1>3, <1>4, <1>5 DEF TopologyNext, Main

\* For any number of workers and groups: a run passes exactly when every group
\* got its watch and every thread its processor, so the slices leave no group
\* out and share none and the workers' sums hide no failed call; with distinct
\* inodes it then created and freed one connector a group, and until the end
\* the descriptors tell which groups have their mark (semantic_ok; slice_begin
\* and slice_end; wds).
THEOREM PassIsSound == TopologySpec => []PassSound
<1>1. KeeperInv /\ LedgerInv => PassSound
  BY DEF LedgerInv, KernelLedger, RunVerdict, AllDone, PassSound
<1> QED
  BY <1>1, InitKeeper, NextKeepsKeeper, InitLedger, NextKeepsLedger, PTL DEF TopologySpec

=============================================================================
