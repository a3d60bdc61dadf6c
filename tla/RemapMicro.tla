----------------------------- MODULE RemapMicro -----------------------------
(***************************************************************************)
(* remap_range_brd_micro.c: FICLONERANGE and FIDEDUPERANGE over a source   *)
(* and a destination file, one range after the other.  A perf process may  *)
(* count the timed loop: the program writes "enable" and "disable" to one  *)
(* FIFO and waits for the acknowledgement in another, ten seconds at most. *)
(*                                                                         *)
(* External: perf, which handles commands in its own time, may answer      *)
(* something else and may die (writing to its FIFO then kills the program  *)
(* with SIGPIPE); the file system, which refuses a range outside of a file.*)
(* Lengths are bytes modulo WORD, an unsigned long.                        *)
(***************************************************************************)
EXTENDS Integers, Sequences

CONSTANTS
    Ops, Ranges,      \* the arguments ops and range_bytes to try
    PAGE,             \* 4096
    WORD,             \* 2^64: one more than ULONG_MAX
    MaxFaults         \* bound: calls that go wrong in one run

RemapAssumption ==
    /\ Ops \subseteq 1..WORD-1 /\ Ranges \subseteq 1..WORD-1
    /\ PAGE \in Nat \ {0} /\ WORD \in Nat \ {0} /\ WORD % (2 * PAGE) = 0
    /\ MaxFaults \in Nat

OffMax == WORD \div 2 - 1     \* INT64_MAX

VARIABLES
    ops, range_bytes,
    scenario,      \* the scenarios selected, in order
    fifos,         \* how many of the two FIFO paths are set
    with_stats,    \* is there a block stat path
    pc, todo, i, awaited,
    size,          \* per file: its length
    unexpected, rows, code,
    ctl, ack,      \* the FIFOs
    alive, counting,  \* perf
    good,          \* history: ranges the file system has done in this scenario
    faults         \* history: calls and answers that went wrong

args == <<ops, range_bytes, scenario, fifos, with_stats>>
perf == <<ctl, ack, alive, counting>>
run  == <<todo, i, awaited, size, unexpected, rows, good>>
vars == <<args, pc, run, code, perf, faults>>

\* Length -1: there is no such file.
NoFiles == [f \in {"src", "dst"} |-> -1]
Scenarios == {<<"clone", "dedupe">>, <<"clone">>, <<"dedupe">>}

Init ==
    /\ ops \in Ops /\ range_bytes \in Ranges /\ scenario \in Scenarios
    /\ fifos \in 0..2 /\ with_stats \in BOOLEAN
    /\ pc = "start" /\ todo = <<>> /\ i = 0 /\ awaited = "none"
    /\ size = NoFiles /\ unexpected = 0 /\ rows = <<>> /\ code = 0
    /\ ctl = <<>> /\ ack = <<>> /\ alive = (fifos > 0) /\ counting = FALSE
    /\ good = 0 /\ faults = 0

Ended == pc = "done"
Exit(c) == pc' = "done" /\ code' = c
Fine  == UNCHANGED faults
Fault == faults < MaxFaults /\ faults' = faults + 1
Controlled == fifos = 2

-----------------------------------------------------------------------------
(* main and the files                                                      *)

\* Whole pages, and the last byte's offset fits an off_t.
ArgsOk ==
    /\ range_bytes % PAGE = 0
    /\ ops <= (WORD - 1) \div range_bytes
    /\ ops <= OffMax \div range_bytes

Start ==
    /\ pc = "start" /\ Fine
    /\ IF ArgsOk THEN pc' = "perf" /\ UNCHANGED code ELSE Exit(2)
    /\ UNCHANGED <<args, run, perf>>

\* perf_control_init: both FIFOs or none; opening them and atexit may fail.
PerfInit ==
    /\ pc = "perf"
    /\ \/ fifos # 1 /\ Fine /\ pc' = "next" /\ todo' = scenario /\ UNCHANGED code
       \/ fifos = 1 /\ Fine /\ Exit(2) /\ UNCHANGED todo
       \/ Controlled /\ Fault /\ Exit(1) /\ UNCHANGED todo
    /\ UNCHANGED <<args, i, awaited, size, unexpected, rows, good, perf>>

Op == Head(todo)

\* The next scenario, files of an earlier run with this pid unlinked.
NextScenario ==
    /\ pc = "next" /\ Fine
    /\ IF todo = <<>> THEN Exit(0) ELSE pc' = "src" /\ UNCHANGED code
    /\ size' = NoFiles /\ i' = 0 /\ unexpected' = 0 /\ good' = 0
    /\ UNCHANGED <<args, todo, awaited, rows, perf>>

\* Mutant: a file holds one page per operation, whatever the range.
Pages_PerOp == ops % WORD

Pages == (ops * (range_bytes \div PAGE)) % WORD

\* A filled file is written page by page; the length of a clone's
\* destination is computed, and a negative one refused.
Length(f) ==
    IF f = "dst" /\ Op = "clone" THEN (Pages * PAGE) % WORD ELSE Pages * PAGE

MakeFile(f, to) ==
    /\ pc = f
    /\ \/ /\ Fine
          /\ IF Length(f) <= OffMax
               THEN size' = [size EXCEPT ![f] = Length(f)] /\ pc' = to /\ UNCHANGED code
               ELSE size' = [size EXCEPT ![f] = 0] /\ Exit(1)
       \/ /\ Fault /\ Exit(1) /\ size' \in {size, [size EXCEPT ![f] = 0]}
    /\ UNCHANGED <<args, todo, i, awaited, unexpected, rows, good, perf>>

\* read_block_stats, before and after.
ReadStats(at, to) ==
    /\ pc = at
    /\ \/ Fine /\ pc' = to /\ UNCHANGED code
       \/ with_stats /\ Fault /\ Exit(1)
    /\ UNCHANGED <<args, run, perf>>

-----------------------------------------------------------------------------
(* The counters                                                            *)

Waiting == pc = "await"

\* perf_control_command up to the poll: nothing to do without perf; a FIFO
\* without a reader kills the program.
Send(at, command, to) ==
    /\ pc = at
    /\ \/ ~Controlled /\ Fine /\ pc' = to /\ UNCHANGED <<code, ctl, awaited>>
       \/ /\ Controlled /\ alive /\ Fine /\ pc' = "await"
          /\ ctl' = Append(ctl, command) /\ awaited' = to /\ UNCHANGED code
       \/ Controlled /\ alive /\ Fault /\ Exit(1) /\ UNCHANGED <<ctl, awaited>>
       \/ Controlled /\ ~alive /\ Fine /\ Exit(141) /\ UNCHANGED <<ctl, awaited>>
    /\ UNCHANGED <<args, todo, i, size, unexpected, rows, good, ack, alive, counting>>

\* Mutant: a poll that times out is taken for an answer.
TimesOut_GoesOn ==
    /\ Waiting /\ ack = <<>>
    /\ faults' = faults + 1 /\ pc' = awaited
    /\ UNCHANGED <<args, run, code, perf>>

\* Mutant: the poll has no limit.
TimesOut_Never == Waiting /\ ack # <<>> /\ ack = <<>> /\ UNCHANGED vars

TimesOut ==
    /\ Waiting /\ ack = <<>>
    /\ faults' = faults + 1 /\ Exit(1)
    /\ UNCHANGED <<args, run, perf>>

\* POLLHUP without POLLIN.
HangUp ==
    /\ Waiting /\ ack = <<>> /\ ~alive
    /\ Fine /\ Exit(1) /\ UNCHANGED <<args, run, perf>>

\* One read takes what has come; it has to start with "ack\n".
ReadAck ==
    /\ Waiting /\ ack # <<>>
    /\ \/ Head(ack) = "ack" /\ Fine /\ pc' = awaited /\ UNCHANGED code
       \/ Head(ack) # "ack" /\ Fine /\ Exit(1)
       \/ Fault /\ Exit(1)
    /\ ack' = <<>>
    /\ UNCHANGED <<args, run, ctl, alive, counting>>

\* perf takes a command, acts on it and answers.
PerfHandles ==
    /\ alive /\ ctl # <<>>
    /\ ctl' = Tail(ctl) /\ counting' = (Head(ctl) = "enable")
    /\ \/ Fine /\ ack' = Append(ack, "ack")
       \/ Fault /\ ack' = Append(ack, "error")
    /\ UNCHANGED <<args, pc, run, code, alive>>

PerfDies ==
    /\ alive /\ ~Ended /\ Fault
    /\ alive' = FALSE /\ counting' = FALSE /\ ctl' = <<>>
    /\ UNCHANGED <<args, pc, run, code, ack>>

-----------------------------------------------------------------------------
(* The timed loop and the row                                              *)

Offset == (i * range_bytes) % WORD
InFiles == \A f \in {"src", "dst"} : Offset + range_bytes <= size[f]

\* One ioctl: done, refused, or, for dedupe, answered "differs"; dedupe
\* allocates its argument in the loop.
Remap ==
    /\ pc = "loop" /\ i < ops
    /\ \/ /\ Fine /\ InFiles /\ good' = good + 1
          /\ i' = i + 1 /\ UNCHANGED <<unexpected, pc, code>>
       \/ /\ (IF InFiles THEN Fault ELSE Fine)
          /\ unexpected' = unexpected + 1
          /\ i' = i + 1 /\ UNCHANGED <<good, pc, code>>
       \/ /\ Op = "dedupe" /\ Fault /\ Exit(1) /\ UNCHANGED <<i, good, unexpected>>
    /\ UNCHANGED <<args, todo, awaited, size, rows, perf>>

LoopEnds ==
    /\ pc = "loop" /\ i = ops /\ pc' = "disable" /\ Fine
    /\ UNCHANGED <<args, run, code, perf>>

\* expected_match_ratio.
Ratio == IF unexpected > 0 THEN 0 ELSE 100

\* The files are closed and unlinked, then the row is printed.
EmitResult ==
    /\ pc = "row" /\ Fine
    /\ rows' = Append(rows, [op |-> Op, ratio |-> Ratio, good |-> good])
    /\ todo' = Tail(todo) /\ size' = NoFiles
    /\ pc' = "next"
    /\ UNCHANGED <<args, i, awaited, unexpected, good, code, perf>>

Main ==
    \/ Start \/ PerfInit \/ NextScenario
    \/ MakeFile("src", "dst") \/ MakeFile("dst", "before")
    \/ ReadStats("before", "enable") \/ Send("enable", "enable", "loop")
    \/ TimesOut \/ HangUp \/ ReadAck
    \/ Remap \/ LoopEnds \/ Send("disable", "disable", "after")
    \/ ReadStats("after", "row") \/ EmitResult

Next == Main \/ PerfHandles \/ PerfDies

Spec == Init /\ [][Next]_vars /\ WF_vars(Main)

-----------------------------------------------------------------------------
(* Properties                                                              *)

\* perf counts the timed loop and nothing else: it is counting while the
\* loop runs (unless it has died), and not while files are made or removed
\* (perf_control_command waits for the answer on both sides of the loop).
CountersFollow ==
    Controlled =>
      /\ pc \in {"loop", "disable"} /\ alive => counting
      /\ pc \in {"next", "src", "dst", "before", "enable", "after", "row"} =>
           ~counting

\* A row that says 100 stands for ops ranges the file system really
\* remapped; one that says 0, or any failing exit with proper arguments, has
\* a cause outside of the program.  Exit 0 comes with a row per scenario.
ResultHonest ==
    /\ \A k \in DOMAIN rows :
         /\ rows[k].ratio = 100 <=> rows[k].good = ops
         /\ rows[k].ratio = 0 => faults > 0
    /\ Ended /\ code = 0 => [k \in DOMAIN rows |-> rows[k].op] = scenario
    /\ Ended /\ code \notin {0, 2} => faults > 0

\* A run that succeeds has removed its files; one that dies leaves them to the
\* unlink of the next run with the same name.
FilesGone == Ended /\ code = 0 => size = NoFiles

\* Whatever perf does or fails to do, the program ends.
Terminates == <>Ended
=============================================================================
