------------------------------ MODULE NetRound ------------------------------
(***************************************************************************)
(* io_uring_net_round.c: QD datagrams per batch over an AF_UNIX socketpair.*)
(* s0 and s1 send them through the ring and the peer reads them; r0 and r1 *)
(* receive through the ring what the peer sent; m0 receives with one       *)
(* multishot request per batch into a ring of provided buffers, hands the  *)
(* buffers back and cancels the request; c0 submits NOPs; u0 is sendmmsg.  *)
(* (s1 and r1 differ from s0 and r0 in the sixteen iovecs of a message.)   *)
(*                                                                         *)
(* The process is alone and every wait is unbounded: a system call that is *)
(* not answered blocks it for ever.  A datagram is <<call, seq>>: the call *)
(* of execute_once that sent it and its number there.  The program only    *)
(* sees its payload, which repeats every PERIOD numbers.  The counters a   *)
(* passing row needs to be zero are one flag, bad; a SQ that is full and   *)
(* the sums of SQEs and CQEs, which cannot differ then, are left out, and  *)
(* so is what a call leaves unread when it fails, after which only the     *)
(* clean-up follows.                                                       *)
(***************************************************************************)
EXTENDS Integers, Sequences, FiniteSets, SequencesExt

CONSTANTS
    Runs,            \* set of <<profile, mode>> pairs to run
    QD,              \* messages per batch
    PBUF_ENTRIES,    \* provided buffers
    PERIOD,          \* numbers with the same payload differ by a multiple of it
    WRAP,            \* 2^16 in the code: range of the buffer ring's indices
    SMOKE_BATCHES, POINT_BATCHES,   \* operations of a call, in batches
    WARMUP_ROUNDS, MEASURED_ROUNDS,
    MaxFaults        \* bound: faults of the kernel per run

AllRuns == {"s0", "s1", "r0", "r1", "m0", "c0", "u0"} \X {"smoke", "trace", "point"}

ASSUME NetRoundAssumption ==
    /\ Runs \subseteq AllRuns
    /\ QD \in Nat \ {0} /\ SMOKE_BATCHES \in Nat \ {0} /\ POINT_BATCHES \in Nat \ {0}
    /\ PBUF_ENTRIES >= 2 * QD /\ PERIOD > PBUF_ENTRIES
    /\ WRAP % PBUF_ENTRIES = 0 /\ WRAP > POINT_BATCHES * QD
    /\ WARMUP_ROUNDS \in Nat /\ MEASURED_ROUNDS \in Nat \ {0}
    /\ MaxFaults \in Nat

VARIABLES
    run,             \* the <<profile, mode>> of the command line
    place,           \* where the process is
    call,            \* number of execute_once calls that returned 0
    batch,           \* base / QD
    result,          \* what semantic_pass reads of struct result
    recv_buf,        \* datagrams in the receive buffers of r0 and r1
    pbuf,            \* datagrams in the provided buffers
    pbuf_ring,       \* bids in the slots of the buffer ring
    pbuf_tail,       \* index of the next slot to publish, modulo WRAP
    head_before,     \* the ring's head when the call began
    ret,             \* run_mode's "0"
    rows,            \* semantic_pass of the rows written
    exitOk,          \* the exit status, once place = "exited"
    queue,           \* kernel: datagrams in the receiving socket
    cq,              \* kernel: unread CQEs; for u0 the entries of msgvec sent
    pbuf_head,       \* kernel: the buffer ring's head, modulo WRAP
    armed,           \* kernel: the multishot request is still alive
    dropped,         \* kernel: sq_dropped or cq_overflow is not zero
    held,            \* descriptors, mappings and allocations the process owns
    faults,          \* faults so far
    seen             \* history: the completions of this call, each with the
                     \* datagram that was compared with its pattern

bufVars   == <<recv_buf, pbuf, pbuf_ring, pbuf_tail>>
roundVars == <<batch, result, head_before, bufVars, seen>>
runVars   == <<run, call, ret, rows, exitOk>>
kernVars  == <<queue, cq, pbuf_head, armed, dropped>>
netVars   == <<place, roundVars, runVars, kernVars, held, faults>>

profile == run[1]
mode == run[2]
Receives == profile \in {"r0", "r1"}

\* The execute_once calls of run_mode, and those whose result is a row.
Calls == IF mode = "point" THEN 1 + WARMUP_ROUNDS + MEASURED_ROUNDS ELSE 1
Emits == mode # "point" \/ call > WARMUP_ROUNDS
Batches == IF call = 0 THEN SMOKE_BATCHES ELSE POINT_BATCHES
operations == Batches * QD
base == batch * QD

\* pattern_fill: one of PERIOD payloads.
pattern(seq) == seq % PERIOD

Zeroes == <<0, -1>>                     \* a buffer of zeros
Garbage == <<0, -2>>                   \* a datagram with other bytes
Matches(d, seq) == d[2] >= 0 /\ pattern(d[2]) = pattern(seq)

\* A CQE; flags name a provided buffer, announce no more CQEs, or are wrong.
Cqe(user_data, res, flags) == [user_data |-> user_data, res |-> res, flags |-> flags]
NoFlags == -1
BadFlags == -2
MSHOT(n) == <<"mshot", n>>
CANCEL(n) == <<"cancel", n>>
Op(n) == <<"op", n>>

Datagrams == [i \in 1..QD |-> <<call, base + i - 1>>]

NetInit ==
    /\ run \in Runs
    /\ place = "setup" /\ call = 0 /\ batch = 0
    /\ result = [successful |-> 0, bad |-> FALSE]
    /\ recv_buf = [i \in 1..QD |-> Zeroes]
    /\ pbuf = [b \in 0..PBUF_ENTRIES - 1 |-> Zeroes]
    /\ pbuf_ring = [i \in 0..PBUF_ENTRIES - 1 |-> 0]
    /\ pbuf_tail = 0 /\ head_before = 0
    /\ ret = FALSE /\ rows = <<>> /\ exitOk = FALSE
    /\ queue = <<>> /\ cq = <<>> /\ pbuf_head = 0 /\ armed = FALSE /\ dropped = FALSE
    /\ held = {} /\ faults = 0 /\ seen = <<>>

-----------------------------------------------------------------------------
(* Set-up, run_mode and clean-up                                           *)

\* publish_buffer of each bid in turn, then the store of the tail.
publish(ring, bids) ==
    [i \in DOMAIN ring |->
        LET at == {k \in 1..Len(bids) : (pbuf_tail + k - 1) % PBUF_ENTRIES = i}
        IN  IF at = {} THEN ring[i]
            ELSE bids[CHOOSE k \in at : \A l \in at : l <= k]]

\* What main's set-up acquires, in this order; the last two are setup_pbuf's.
Resources == <<"ring", "sockets">> \o (IF profile = "m0" THEN <<"pbuf", "registered">> ELSE <<>>)

\* setup_pbuf publishes all buffers; the kernel has consumed none.
Setup ==
    /\ place = "setup"
    /\ held' = ToSet(Resources)
    /\ IF profile = "m0"
         THEN /\ pbuf_ring' = publish(pbuf_ring, [k \in 1..PBUF_ENTRIES |-> k - 1])
              /\ pbuf_tail' = PBUF_ENTRIES
         ELSE UNCHANGED <<pbuf_ring, pbuf_tail>>
    /\ place' = "call"
    /\ UNCHANGED <<runVars, batch, result, head_before, recv_buf, pbuf, seen,
                   kernVars, faults>>

\* pin_cpu or a later step fails; what a step before it acquired is held.
SetupFails ==
    /\ place = "setup" /\ faults < MaxFaults
    /\ faults' = faults + 1
    /\ \E n \in 0..Len(Resources) : held' = ToSet(SubSeq(Resources, 1, n))
    /\ place' = "cleanup"
    /\ UNCHANGED <<runVars, roundVars, kernVars>>

\* Mutant: run_mode goes on after a failed round.
Continues_Regardless(pass) == call + 1 < Calls

Continues(pass) == pass /\ call + 1 < Calls

\* execute_once returns to run_mode.
Return(pass) ==
    /\ rows' = IF Emits THEN Append(rows, pass) ELSE rows
    /\ ret' = pass
    /\ IF Continues(pass) THEN call' = call + 1 /\ place' = "call"
                          ELSE place' = "cleanup" /\ UNCHANGED call
    /\ UNCHANGED <<run, exitOk>>

\* A system call fails (the enters, sendmmsg, m0's pbuf_status), an enter takes
\* too few SQEs, or peer_fill cannot send: execute_once returns at once.
CallFails ==
    /\ \/ place = "enter"
       \/ place = "batch" /\ batch < Batches /\ (Receives \/ profile = "m0")
       \/ place \in {"call", "cancel", "verdict"} /\ profile = "m0"
    /\ faults < MaxFaults
    /\ faults' = faults + 1
    /\ Return(FALSE)
    /\ UNCHANGED <<roundVars, kernVars, held>>

\* What cleanup leaves behind.
CleanupLeaves == {}

Cleanup ==
    /\ place = "cleanup"
    /\ held' = CleanupLeaves
    /\ exitOk' = ret
    /\ place' = "exited"
    /\ UNCHANGED <<run, call, ret, rows, roundVars, kernVars, faults>>

-----------------------------------------------------------------------------
(* A batch                                                                 *)

BeginCall ==
    /\ place = "call"
    /\ result' = [successful |-> 0, bad |-> FALSE]
    /\ batch' = 0 /\ seen' = <<>>
    /\ head_before' = pbuf_head
    /\ place' = "batch"
    /\ UNCHANGED <<runVars, bufVars, kernVars, held, faults>>

\* The patterns are written; for a receiving profile peer_fill sends them.
Fill ==
    /\ place = "batch" /\ batch < Batches
    /\ recv_buf' = [i \in 1..QD |-> Zeroes]
    /\ queue' = IF Receives \/ profile = "m0" THEN queue \o Datagrams ELSE queue
    /\ place' = "enter"
    /\ UNCHANGED <<runVars, batch, result, head_before, pbuf, pbuf_ring, pbuf_tail,
                   seen, cq, pbuf_head, armed, dropped, held, faults>>

\* Kernel: a completion for each of the QD requests, which are served inline;
\* the first n find what they need.
Completed(n) ==
    [i \in 1..QD |-> Cqe(Op(base + i - 1), IF i <= n THEN "ok" ELSE "again", NoFlags)]

Entered ==
    /\ place = "enter"
    /\ place' = "reap"
    /\ UNCHANGED <<runVars, batch, result, head_before, pbuf_ring, pbuf_tail, seen,
                   dropped, held, faults>>

\* run_ordinary's SQEs and enter: the socket takes the datagrams of a sending
\* profile, or hands those it has to a receiving one.
EnterOrdinary ==
    /\ Entered
    /\ \/ /\ profile \in {"s0", "s1"}
          /\ cq' = cq \o Completed(QD)
          /\ queue' = queue \o Datagrams
          /\ UNCHANGED recv_buf
       \/ /\ Receives
          /\ cq' = cq \o Completed(Len(queue))
          /\ queue' = SubSeq(queue, QD + 1, Len(queue))
          /\ recv_buf' = [i \in 1..QD |-> IF i <= Len(queue) THEN queue[i] ELSE recv_buf[i]]
    /\ UNCHANGED <<pbuf, pbuf_head, armed>>

EnterNop ==
    /\ profile = "c0" /\ Entered
    /\ cq' = cq \o Completed(QD)
    /\ UNCHANGED <<queue, recv_buf, pbuf, pbuf_head, armed>>

\* cq keeps the entries of msgvec that were sent.
SendMmsg ==
    /\ profile = "u0" /\ Entered
    /\ cq' = cq \o Completed(QD)
    /\ queue' = queue \o Datagrams
    /\ UNCHANGED <<recv_buf, pbuf, pbuf_head, armed>>

\* run_multishot's SQE and enter: the request takes a buffer for every datagram
\* in the socket, then waits for more; without a buffer it ends.
EnterMultishot ==
    LET available == (pbuf_tail - pbuf_head) % WRAP
        n == IF Len(queue) <= available THEN Len(queue) ELSE available
        Bid(i) == pbuf_ring[(pbuf_head + i - 1) % PBUF_ENTRIES]
    IN  /\ profile = "m0" /\ Entered
        /\ cq' = cq \o [i \in 1..n |-> Cqe(MSHOT(batch), "ok", Bid(i))]
                    \o (IF n = Len(queue) THEN <<>>
                        ELSE <<Cqe(MSHOT(batch), "nobufs", NoFlags)>>)
        /\ pbuf' = [b \in DOMAIN pbuf |->
              LET into == {i \in 1..n : Bid(i) = b}
              IN  IF into = {} THEN pbuf[b]
                  ELSE queue[CHOOSE i \in into : \A j \in into : j <= i]]
        /\ queue' = SubSeq(queue, n + 1, Len(queue))
        /\ pbuf_head' = (pbuf_head + n) % WRAP
        /\ armed' = (n = Len(queue))
        /\ UNCHANGED recv_buf

\* Mutant: results are counted, but not compared with the request's number.
AsExpected_AnyOrder(c, i) == c.res = "ok" /\ c.flags = NoFlags

\* account_result of the i-th CQE of a batch.
AsExpected(c, i) == c = Cqe(Op(base + i - 1), "ok", NoFlags)

\* A batch ends: what was compared, and whether anything was wrong.
Batched(bad, compared) ==
    /\ seen' = seen \o [i \in 1..QD |-> <<cq[i], compared[i]>>]
    /\ result' = [successful |-> result.successful
                                 + Cardinality({i \in 1..QD : cq[i].res = "ok"}),
                  bad |-> result.bad \/ bad]
    /\ UNCHANGED runVars

NextBatch == batch' = batch + 1 /\ place' = "batch"

GivesUp == Return(FALSE) /\ UNCHANGED <<batch, result, seen>>

Reaping ==
    /\ place = "reap"
    /\ cq' = <<>>
    /\ UNCHANGED <<head_before, recv_buf, pbuf, pbuf_head, armed, dropped, held, faults>>

\* The enter waits for QD CQEs; more are as wrong as less.
ReapNop ==
    /\ profile = "c0" /\ Reaping /\ Len(cq) >= QD
    /\ IF Len(cq) # QD THEN GivesUp
       ELSE /\ Batched(\E i \in 1..QD : ~AsExpected(cq[i], i), [i \in 1..QD |-> Zeroes])
            /\ NextBatch
    /\ UNCHANGED <<queue, pbuf_ring, pbuf_tail>>

Mismatch(buffers) == \E i \in 1..QD : ~Matches(buffers[i], base + i - 1)

\* peer_drain reads QD datagrams, and then none; it counts mismatches.
Drained == Len(queue) = QD

ReapSent ==
    /\ profile \in {"s0", "s1"} /\ Reaping /\ Len(cq) >= QD
    /\ IF Len(cq) # QD \/ ~Drained THEN GivesUp
       ELSE /\ Batched(Mismatch(queue) \/ \E i \in 1..QD : ~AsExpected(cq[i], i), queue)
            /\ NextBatch
    /\ queue' = SubSeq(queue, QD + 1, Len(queue))
    /\ UNCHANGED <<pbuf_ring, pbuf_tail>>

\* sendmmsg may send less than QD, which ends the call; else each msg_len
\* is looked at.
ReapMmsg ==
    /\ profile = "u0" /\ Reaping
    /\ IF Len(cq) # QD \/ ~Drained THEN GivesUp
       ELSE /\ Batched(Mismatch(queue) \/ \E i \in 1..QD : cq[i].res # "ok", queue)
            /\ NextBatch
    /\ queue' = SubSeq(queue, QD + 1, Len(queue))
    /\ UNCHANGED <<pbuf_ring, pbuf_tail>>

\* validate_receive_buffers ends the call at a mismatch.
ReapReceived ==
    /\ Receives /\ Reaping /\ Len(cq) >= QD
    /\ IF Len(cq) # QD \/ Mismatch(recv_buf) THEN GivesUp
       ELSE /\ Batched(\E i \in 1..QD : ~AsExpected(cq[i], i), recv_buf)
            /\ NextBatch
    /\ UNCHANGED <<queue, pbuf_ring, pbuf_tail>>

\* The buffer of each CQE is compared with the pattern of its place, and two
\* CQEs may not name the same buffer.  The buffers go back into the ring, but
\* for one whose CQE has bad flags.
ReapMultishot ==
    LET bids == SelectSeq([i \in 1..QD |-> cq[i].flags], LAMBDA b : b >= 0)
        compared == [i \in 1..QD |->
                        IF cq[i].flags < 0 THEN Zeroes ELSE pbuf[cq[i].flags]]
        bad == \/ \E i \in 1..QD : \/ cq[i].flags < 0
                                   \/ cq[i].res # "ok"
                                   \/ cq[i].user_data # MSHOT(batch)
               \/ \E i, j \in 1..Len(bids) : i # j /\ bids[i] = bids[j]
               \/ Mismatch(compared)
    IN  /\ profile = "m0" /\ Reaping /\ Len(cq) >= QD
        /\ IF Len(cq) # QD
             THEN GivesUp /\ UNCHANGED <<pbuf_ring, pbuf_tail>>
             ELSE /\ Batched(bad, compared)
                  /\ pbuf_ring' = publish(pbuf_ring, bids)
                  /\ pbuf_tail' = (pbuf_tail + Len(bids)) % WRAP
                  /\ place' = "cancel"
                  /\ UNCHANGED batch
        /\ UNCHANGED queue

\* cancel_multishot; the two completions may come in either order.
Cancel ==
    /\ place = "cancel"
    /\ \E done \in SetToSeqs(
            IF armed THEN {Cqe(MSHOT(batch), "canceled", NoFlags),
                           Cqe(CANCEL(batch), "ok", NoFlags)}
            ELSE {Cqe(CANCEL(batch), "noent", NoFlags)}) :
          cq' = cq \o done
    /\ armed' = FALSE
    /\ place' = "canceled"
    /\ UNCHANGED <<runVars, roundVars, queue, pbuf_head, dropped, held, faults>>

BothSeen ==
    ToSet(cq) = {Cqe(MSHOT(batch), "canceled", NoFlags), Cqe(CANCEL(batch), "ok", NoFlags)}

ReapCancel ==
    /\ place = "canceled" /\ Len(cq) >= 2
    /\ cq' = <<>>
    /\ IF Len(cq) = 2 /\ BothSeen
         THEN NextBatch /\ UNCHANGED runVars
         ELSE Return(FALSE) /\ UNCHANGED batch
    /\ UNCHANGED <<result, head_before, bufVars, seen, queue, pbuf_head, armed,
                   dropped, held, faults>>

EndBatches ==
    /\ place = "batch" /\ batch = Batches
    /\ place' = "verdict"
    /\ UNCHANGED <<runVars, roundVars, kernVars, held, faults>>

\* Mutant: the progress of the buffer ring is not compared.
HeadMoved_Any == TRUE

\* Mutant: the difference of the 16-bit indices is not cut to 16 bits.
HeadMoved_Wide == pbuf_head - head_before = operations

HeadMoved == (pbuf_head - head_before) % WRAP = operations

SemanticPass ==
    /\ result.successful = operations /\ ~result.bad
    /\ cq = <<>> /\ ~dropped

\* For m0 the head of the buffer ring has to have moved by as much.
SemanticPassMultishot == SemanticPass /\ HeadMoved

Verdict ==
    /\ place = "verdict"
    /\ Return(IF profile = "m0" THEN SemanticPassMultishot ELSE SemanticPass)
    /\ UNCHANGED <<roundVars, kernVars, held, faults>>

-----------------------------------------------------------------------------
(* What a wrong kernel could do, which the checks are written against      *)

\* A datagram is lost, doubled, overtaken or corrupted in the socket.
QueueFaults ==
    {RemoveAt(queue, i) : i \in 1..Len(queue)}
    \cup {InsertAt(queue, i, queue[i]) : i \in 1..Len(queue)}
    \cup {ReplaceAt(queue, i, Garbage) : i \in 1..Len(queue)}
    \cup {InsertAt(RemoveAt(queue, i), i + 1, queue[i]) : i \in 1..Len(queue) - 1}

\* A CQE is lost, doubled or overtaken, or one of its fields is wrong.
CqFaults ==
    {RemoveAt(cq, i) : i \in 1..Len(cq)}
    \cup {ReplaceAt(cq, i, [cq[i] EXCEPT !.res = "short"]) : i \in 1..Len(cq)}
    \cup IF profile = "u0" THEN {} ELSE
        {InsertAt(cq, i, cq[i]) : i \in 1..Len(cq)}
        \cup {ReplaceAt(cq, i, [cq[i] EXCEPT !.user_data = CANCEL(batch + 1)]) : i \in 1..Len(cq)}
        \cup {ReplaceAt(cq, i, [cq[i] EXCEPT !.flags = f]) :
                 i \in 1..Len(cq), f \in {BadFlags} \cup DOMAIN pbuf}
        \cup {InsertAt(RemoveAt(cq, i), i + 1, cq[i]) : i \in 1..Len(cq) - 1}

KernelFault ==
    /\ place \in {"enter", "reap", "canceled"} /\ faults < MaxFaults
    /\ faults' = faults + 1
    /\ \/ queue' \in QueueFaults /\ UNCHANGED <<cq, pbuf_head, dropped>>
       \/ cq' \in CqFaults /\ UNCHANGED <<queue, pbuf_head, dropped>>
       \/ /\ profile = "m0" /\ place = "reap"   \* a buffer is used but not consumed
          /\ pbuf_head' = (pbuf_head - 1) % WRAP
          /\ UNCHANGED <<queue, cq, dropped>>
       \/ dropped' = TRUE /\ UNCHANGED <<queue, cq, pbuf_head>>
    /\ UNCHANGED <<place, roundVars, runVars, armed, held>>

Exited == place = "exited" /\ UNCHANGED netVars

Batch ==
    \/ EnterOrdinary \/ EnterNop \/ SendMmsg \/ EnterMultishot
    \/ ReapNop \/ ReapSent \/ ReapMmsg \/ ReapReceived \/ ReapMultishot

Program ==
    \/ Setup \/ SetupFails \/ BeginCall \/ Fill \/ Batch \/ Cancel \/ ReapCancel
    \/ CallFails \/ EndBatches \/ Verdict \/ Cleanup

NetNext == Program \/ KernelFault \/ Exited

\* The process is scheduled; no wait has a timeout.
NetSpec == NetInit /\ [][NetNext]_netVars /\ WF_netVars(Program)

-----------------------------------------------------------------------------
(* Properties                                                              *)

\* A row that says it passed is written in this step.
PassingRow == Len(rows') > Len(rows) /\ rows'[Len(rows')]

\* Every request of the call was answered once, in order and successfully,
\* and every datagram of the call came through once, in order and whole.
Earned ==
    /\ Len(seen) = operations
    /\ \A i \in 1..operations :
          /\ seen[i][1].res = "ok"
          /\ seen[i][1].user_data = IF profile = "m0" THEN MSHOT((i - 1) \div QD)
                                                    ELSE Op(i - 1)
          /\ seen[i][2] = IF profile = "c0" THEN Zeroes ELSE <<call, i - 1>>

\* A passing row is earned, although the program sees payloads and not
\* datagrams, and whatever was lost, doubled, overtaken or corrupted.
RowEarned == [][PassingRow => Earned]_netVars

\* After a passing row of m0 no multishot request is left to take buffers and
\* every provided buffer is in the buffer ring again, exactly once, so that the
\* next round starts with as many as this one, with indices wrapped or not.
BuffersReturned ==
    [][PassingRow /\ profile = "m0" =>
          /\ ~armed
          /\ (pbuf_tail - pbuf_head) % WRAP = PBUF_ENTRIES % WRAP
          /\ {pbuf_ring[i] : i \in DOMAIN pbuf_ring} = DOMAIN pbuf]_netVars

\* Nothing is written after a failed row, a successful exit means that all rows
\* of the mode are there and passed, and nothing is held on exit, whichever
\* step of the set-up or of a round failed.
ExitHonest ==
    /\ \A i \in 1..Len(rows) - 1 : rows[i]
    /\ exitOk => /\ Len(rows) = IF mode = "point" THEN MEASURED_ROUNDS ELSE 1
                 /\ \A i \in 1..Len(rows) : rows[i]
    /\ place = "exited" => held = {}

\* With a kernel that makes no mistake the run ends, with success.
CleanRunPasses == <>(faults > 0 \/ (place = "exited" /\ exitOk))

=============================================================================
