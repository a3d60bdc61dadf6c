---------------------------- MODULE UnixBatches -----------------------------
(***************************************************************************)
(* af_unix_sendmmsg_standalone.c: a smoke round of one batch, warm-up and  *)
(* measured rounds over a pair of datagram sockets.  Every batch is filled *)
(* with patterns of its sequence numbers, sent by one sendmmsg, drained    *)
(* and compared, and the peer must then have nothing more to read.         *)
(*                                                                         *)
(* External: the sockets, which may refuse or shorten a call, and lose,    *)
(* double or damage a message on its way into the queue.                   *)
(***************************************************************************)
EXTENDS Integers, Sequences, SequencesExt

CONSTANTS
    BATCH_SIZE,
    PATTERNS,     \* how many patterns there are: 256 in the code
    Messages,     \* the values of --messages to try
    Warmups, Rounds,
    MaxFaults     \* bound: calls that fail, messages that suffer

UnixAssumption ==
    /\ BATCH_SIZE \in Nat \ {0} /\ PATTERNS \in Nat \ {0} /\ BATCH_SIZE <= PATTERNS
    /\ Messages \subseteq Nat /\ Warmups \subseteq Nat /\ Rounds \subseteq Nat
    /\ MaxFaults \in Nat

VARIABLES
    opt,            \* the options: [messages, warmups, rounds]
    pc, rc, base, slot,
    round,          \* 0 is the smoke round, then the warm-ups
    res,            \* the round_result, without the time
    rows,           \* rows printed
    sockets,        \* the two numbers in struct workload
    open,           \* kernel: descriptors this program made
    queue,          \* kernel: what the peer can still read
    got,            \* history: the messages read in this round
    closedForeign,  \* history: close of a number it was not given
    unpinned,       \* history: it could not be pinned
    faults

vars == <<opt, pc, rc, base, slot, round, res, rows, sockets, open, queue, got,
          closedForeign, unpinned, faults>>

Zero == [messages |-> 0, batches |-> 0, mismatches |-> 0, bad_lengths |-> 0, eagain |-> 0]

\* parse_options: rounds and messages are not 0, and batches are whole.
Options ==
    {o \in [messages : Messages, warmups : Warmups, rounds : Rounds] :
        o.rounds # 0 /\ o.messages # 0 /\ o.messages % BATCH_SIZE = 0}

\* The stack variable is not initialised: any number may stand in it.
Garbage == {-1, 0, 4}

Init ==
    /\ opt \in Options
    /\ pc = "pin" /\ rc = 1 /\ base = 0 /\ slot = 0 /\ round = 0 /\ res = Zero /\ rows = 0
    /\ sockets \in Garbage \X Garbage /\ open = {} /\ queue = <<>> /\ got = <<>>
    /\ closedForeign = FALSE /\ unpinned = FALSE /\ faults = 0

Goto(at) == pc' = at
Fine  == UNCHANGED faults
Fault == faults < MaxFaults /\ faults' = faults + 1

-----------------------------------------------------------------------------
(* Set-up and clean-up                                                     *)

PinCpu ==
    /\ pc = "pin"
    /\ \/ Fine /\ Goto("setup") /\ UNCHANGED unpinned
       \/ Fault /\ Goto("out") /\ unpinned' = TRUE
    /\ UNCHANGED <<opt, rc, base, slot, round, res, rows, sockets, open, queue, got,
                   closedForeign>>

\* socketpair, then both ends non-blocking; a failure leaves them to out.
Setup ==
    /\ pc = "setup"
    /\ \/ Fine /\ sockets' = <<3, 4>> /\ open' = {3, 4} /\ Goto("round")
       \/ Fault /\ sockets' = <<-1, -1>> /\ Goto("out") /\ UNCHANGED open
       \/ Fault /\ sockets' = <<3, 4>> /\ open' = {3, 4} /\ Goto("out")
    /\ UNCHANGED <<opt, rc, base, slot, round, res, rows, queue, got, closedForeign, unpinned>>

\* Mutant: only the sending end is closed.
Closes_Sender(pair) == {pair[1]} \ {-1}

Closes(pair) == ToSet(pair) \ {-1}

Cleanup ==
    /\ pc = "out" /\ Goto("done")
    /\ open' = open \ Closes(sockets)
    /\ closedForeign' = ~(Closes(sockets) \subseteq open)
    /\ UNCHANGED <<opt, rc, base, slot, round, res, rows, sockets, queue, got, unpinned, faults>>

-----------------------------------------------------------------------------
(* A round                                                                 *)

\* fill_pattern multiplies by an odd number modulo 256: as good as the
\* sequence number itself modulo PATTERNS.
Pattern(sequence) == sequence % PATTERNS

RoundMessages == IF round = 0 THEN BATCH_SIZE ELSE opt.messages

BeginRound ==
    /\ pc = "round" /\ Goto("send")
    /\ base' = 0 /\ res' = Zero /\ got' = <<>>
    /\ UNCHANGED <<opt, rc, slot, round, rows, sockets, open, queue, closedForeign, unpinned, faults>>

\* A message has an identity beside the pattern that is compared.
Message(i) == [id |-> <<round, base + i>>, pattern |-> Pattern(base + i)]

Batch == [i \in 1..BATCH_SIZE |-> Message(i - 1)]

Damaged(m) == [m EXCEPT !.pattern = (@ + 1) % PATTERNS]

\* What the peer's queue can come to hold for a batch, one message suffering.
Suffering ==
    UNION {{RemoveAt(Batch, i), InsertAt(Batch, i, Batch[i]),
            [Batch EXCEPT ![i] = Damaged(@)]} : i \in 1..BATCH_SIZE}

\* One sendmmsg for the batch; all of it, some of it, or an error.
Send ==
    /\ pc = "send" /\ slot' = 0
    /\ \/ /\ Goto("recv")
          /\ \/ Fine /\ queue' = queue \o Batch
             \/ Fault /\ \E s \in Suffering : queue' = queue \o s
          /\ \E bad \in {0, 1} :     \* a msg_len that is not PAYLOAD_SIZE
               /\ bad = 1 => faults < faults'
               /\ res' = [res EXCEPT !.batches = @ + 1, !.bad_lengths = @ + bad,
                                     !.messages = @ + BATCH_SIZE - bad]
       \/ /\ Fault /\ Goto("out")
          /\ \E n \in 0..(BATCH_SIZE - 1) : queue' = queue \o SubSeq(Batch, 1, n)
          /\ res' \in {res, [res EXCEPT !.eagain = @ + 1]}
    /\ UNCHANGED <<opt, rc, base, round, rows, sockets, open, got, closedForeign, unpinned>>

\* One slot of drain_and_validate.  A message that is not there or too short
\* ends the program, one with the wrong pattern is counted.
Recv ==
    /\ pc = "recv" /\ slot < BATCH_SIZE
    /\ \/ /\ Fine /\ queue # <<>>
          /\ queue' = Tail(queue) /\ got' = Append(got, Head(queue).id)
          /\ slot' = slot + 1 /\ Goto("recv")
          /\ res' = IF Head(queue).pattern = Pattern(base + slot) THEN res
                    ELSE [res EXCEPT !.mismatches = @ + 1]
       \/ /\ (IF queue = <<>> THEN Fine ELSE Fault) /\ Goto("out")
          /\ UNCHANGED <<queue, got, slot, res>>
    /\ UNCHANGED <<opt, rc, base, round, rows, sockets, open, closedForeign, unpinned>>

\* Mutant: the peer is not asked whether it has more to read.
Probe_Unasked ==
    /\ pc = "recv" /\ slot = BATCH_SIZE
    /\ base' = base + BATCH_SIZE
    /\ Goto(IF base + BATCH_SIZE < RoundMessages THEN "send" ELSE "judge")
    /\ UNCHANGED <<opt, rc, slot, round, res, rows, sockets, open, queue, got, closedForeign,
                   unpinned, faults>>

\* One more recv has to say EAGAIN.
Probe ==
    /\ pc = "recv" /\ slot = BATCH_SIZE
    /\ queue' = IF queue = <<>> THEN queue ELSE Tail(queue)
    /\ IF queue = <<>>
         THEN /\ base' = base + BATCH_SIZE
              /\ Goto(IF base + BATCH_SIZE < RoundMessages THEN "send" ELSE "judge")
         ELSE Goto("out") /\ UNCHANGED base
    /\ UNCHANGED <<opt, rc, slot, round, res, rows, sockets, open, got, closedForeign,
                   unpinned, faults>>

Passed ==
    res = [messages |-> RoundMessages, batches |-> RoundMessages \div BATCH_SIZE,
           mismatches |-> 0, bad_lengths |-> 0, eagain |-> 0]

Measured == round > opt.warmups

LastRound == opt.warmups + opt.rounds

\* A measured round that passes prints its row.
Judge ==
    /\ pc = "judge"
    /\ IF Passed
         THEN /\ rows' = IF Measured THEN rows + 1 ELSE rows
              /\ round' = round + 1
              /\ rc' = IF round = LastRound THEN 0 ELSE rc
              /\ Goto(IF round = LastRound THEN "out" ELSE "round")
         ELSE Goto("out") /\ UNCHANGED <<rows, round, rc>>
    /\ UNCHANGED <<opt, base, slot, res, sockets, open, queue, got, closedForeign, unpinned, faults>>

Next ==
    \/ PinCpu \/ Setup \/ BeginRound \/ Send \/ Recv \/ Probe \/ Judge \/ Cleanup

Spec == Init /\ [][Next]_vars

-----------------------------------------------------------------------------
(* Properties                                                              *)

\* A row is printed, and a warm-up accepted, only if what the peer read in
\* that round is what was sent in it: all of it, once, in order, and nothing
\* stays for the next round to find (patterns come round after PATTERNS
\* messages and could not tell).  Exit 0 needs a row for every round asked for.
RowsEarned ==
    /\ pc = "judge" /\ Passed =>
          got = [i \in 1..RoundMessages |-> <<round, i - 1>>] /\ queue = <<>>
    /\ rc = 0 => rows = opt.rounds

\* The program closes both ends and nothing else; the one exception is a CPU
\* it cannot be pinned to, when main closes what the stack happens to hold.
ClosesItsOwn ==
    pc = "done" /\ ~unpinned => open = {} /\ ~closedForeign
=============================================================================
