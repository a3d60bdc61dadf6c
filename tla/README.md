# Verification of the linux-regression-evidence reproducers

The repository keeps evidence for Linux performance regressions. Its own code
is a set of C programs, each of which drives one kernel facility in a tight
loop, proves that what it timed is what it claims to have timed, and writes a
result row only then. What makes such a program correct is not its speed but
its honesty: a row must not be written for a round in which a request was lost,
late, duplicated, answered wrongly or left over from an earlier batch; a run
must not exit with success without its rows; and a run must end. These are
concurrent, asynchronous programs (shared rings, completions in any order,
threads at barriers, signals, timeouts), so these claims are hard to test.

## The system: components and state

| Component | State it keeps | Operations | Hard behaviour |
| --- | --- | --- | --- |
| Raw io_uring rings (in every `io_uring_*_round.c`) | four free-running indices, SQE/CQE arrays shared with the kernel | `queue_sqe`, `enter_ring`, `wait_and_copy`, set-up, tear-down | kernel posts while the user copies; indices wrap; waits end early |
| Async-cancel workload (`io_uring_cancel_round.c`) | result counters, eventfds, polls in the kernel | arm, prove pending, cancel, validate, clean up; r0 teardown | order of completions, leftover polls, signals, hidden timeouts |
| Futex workloads (`io_uring_futex_round.c`, two copies) | cells, wait vectors, result counters | wait, wake, cancel, WAITV, residual check, l0 teardown | deferred unqueueing of vectors, capability probing |
| MSG_RING workload (`io_uring_msg_ring_round.c`) | two rings, fixed-file tables, sequence numbers | data, resource and SEND_FD batches, verification of slots | two rings, CQEs on both sides, slot ownership |
| AF_UNIX network workload (`io_uring_net_round.c`) | socket pair, provided buffers | ordinary, NOP, syscall, multishot modes | buffer recycling, multishot re-arming and cancel |
| Region/memmap workload (`io_uring_memmap_round.c`) | mappings, ring fds | ring life cycles, both mapping styles | partial failure of set-up and clean-up, fd and mapping leaks, a kernel that still uses closed rings |
| fsnotify topology (`fsnotify_connector_topology.c`) | group fds, watch descriptors, worker results, barrier | add and remove watches in threads; bulk, update and lookup scenarios | phases of threads, connector races, partial failure |
| AF_UNIX micro-benchmark (`af_unix_sendmmsg_standalone.c`) | socket pair, sequence numbers, rows | send, drain, compare | short, lost and doubled messages; every failure jumps to one clean-up |
| Scheduler control (`sched_fair_control_v2_bench.c`) | generations, a turn word, counts per thread, slice and affinity | yield in step, move a target in turns, sum up, restore | ordering of threads, sums read across threads, restore after failure |
| Weighted payload (`weighted_payload.c`) | turn, phase, two barriers, counters per thread | wait for and pass the turn, report | futex protocol, reset between rounds |
| RT sysctl write checks (`sysctl_checks.c`) | the test, whether the handler is armed, the values found | twelve writes with readback, restore at exit, alarm | both values restored, success only if all writes were right |
| RT sysctl reader (`rt_sysctl_read.c`) | none | timed reads | each read is complete |
| btrfs remap micro (`remap_range_brd_micro.c`) | files, clones | clone ranges, verify | partial failure |
| kernfs cgroup control (`control.c` and variants) | cgroup directories, processes | create, populate, remove | ordering of create, attach, remove |
| mm probes (`mprotect_*`, `base_probe.c`, `whole_probe.c`, `shared_probe.c`, `remaining.c`) | mappings, child processes | protect, swap, probe | handshakes with children |
| tmpfs xattr (`xattr_smoke.c`) | file attributes | list, compare | sizes at the boundary |
| TSV validators and verifiers (`validate_*.py`, `verify*.py`, `recompute.py`, `summarize_p8.py`) | none | check rows | none: pure functions of their input |
| Run scripts (`run_*.sh`, `trace_node_cache.sh`) | processes, mounts | orchestration, cleanup | cleanup on every exit |
| Kernel patches and diagnostics (`*.patch`) | kernel | not programs of the repository | - |
| Evidence (logs, TSV, JSON, configs) | data | - | - |

The programs do not talk to each other; each talks to the kernel. The kernel is
therefore the environment of every module, and external: it is modelled as
widely as the program's checks allow for, including errors those checks are
written against.

What makes each component correct:

* rings: every request is in one place, no entry is overwritten or read twice,
  the indices may wrap; FIFO channels are implemented;
* workloads: a row means that each request of the round completed once with the
  right result under its own tag and that the timed region did what it claims;
  nothing of one batch reaches the next; success means all rows; termination;
* topology: timed regions do not overlap; the shared connector outlives them;
  the verdict reflects every group; termination whatever fails;
* scheduler programs: rounds do not mix, turns alternate, a row counts the calls
  of every thread, nobody waits for ever;
* sequential programs: whatever the way out, what was made is given back once,
  and what is reported has happened;
* ring life cycles: a failure at any step leaves no fd or mapping behind, nothing
  is released twice, memory is not reused before the kernel is done with it.

## Modules

| Module | Models | Role |
| --- | --- | --- |
| `RingChannels` | what a ring promises: a bounded FIFO submission channel, requests in flight, a bounded FIFO completion channel | abstract specification |
| `RawRing` | `queue_sqe`, `enter_ring`, `submit_and_copy`, `wait_and_copy` at the level of slots and indices | implements `RingChannels` |
| `RingAndTopology_proofs` | | TLAPS proofs about `RawRing`, `NetRound` and `FsTopology` |
| `CancelRound`, `CancelRound_proofs` | the rounds of `io_uring_cancel_round.c` but r0 | TLAPS proofs |
| `RingSetup` | `raw_ring_init`, `fixture_init`, their reverses, and r0 of `io_uring_cancel_round.c` | part of `Programs` |
| `FutexRound`, `FutexRound_proofs` | the rounds of `io_uring_futex_round.c` | TLAPS proofs |
| `MsgRing`, `MsgRing_proofs` | the rounds of `io_uring_msg_ring_round.c` | TLAPS proofs |
| `NetRound` | the rounds of `io_uring_net_round.c` | TLAPS proofs, in `RingAndTopology_proofs` |
| `MemmapRound`, `MemmapRound_proofs` | the rounds of `io_uring_memmap_round.c` | TLAPS proofs |
| `FsTopology` | `run_topology` and `topology_worker` | TLAPS proofs, in `RingAndTopology_proofs` |
| `FsWatch` | the scenarios of one thread of the same program | part of `Programs` |
| `SchedControl`, `SchedControl_proofs` | `sched_fair_control_v2_bench.c` | TLAPS proofs |
| `WeightedPayload`, `WeightedPayload_proofs` | `weighted_payload.c` | TLAPS proofs |
| `KernfsControl` | `control.c` | part of `Programs` |
| `RemapMicro` | `remap_range_brd_micro.c` with its perf process | part of `Programs` |
| `UnixBatches` | `af_unix_sendmmsg_standalone.c` | part of `Programs` |
| `SysctlChecks` | `sysctl_checks.c` | part of `Programs` |
| `Programs` | one run of one of the six sequential programs; what is asked of all of them | composes by `INSTANCE` |
| `Programs_proofs` | | TLAPS proofs about the six |
| `MC*` | instances for TLC | |

A definition whose comment begins with "Mutant:" is a broken variant of the
definition after it, kept to show which property notices that bug; it is used by
no specification.

### RawRing

`sqHead`, `sqTail`, `cqHead`, `cqTail` are the shared words; `Plus` and `Minus`
are unsigned arithmetic modulo `W` (2^32 in the code, 8 in the instance, so that
all indices wrap many times). Slots are `index % entries`, which is what the
masks compute. `pc` is the place of the only user thread. `queue_sqe` and the
filling of the SQE it returns are two actions (`QueueSqe`, `FillSqe`) because the
tail is published in between. The kernel takes SQEs (`KernelTake`) only inside
`io_uring_enter`, as there is no SQPOLL thread, but posts CQEs (`KernelPost`) at
any time, also while the user copies (`CopyOne`) and before it releases the head
(`ReleaseHead`).

### CancelRound

One behaviour is one process: a profile and mode, warm-up and measured rounds,
batches, exit. `armed` are the polls pending in the kernel, `posting` the
completions under way, `cq` the CQ as a bag (its order is `RawRing`'s subject and
no check depends on it). Submissions are one action each, since inline cancels
run during submission. `KernelFault` covers what the validation looks for: a
completion doubled, lost, or with a wrong result or flags, a poll that completes
by itself; `SubmitFails` is a short submission; `Slow` lets a wait end early, as
its timeout allows; `Signal` is SIGINT or SIGTERM. Trace mode is smoke mode with
other constants and so not distinguished. `reaped`, `again` and `trulyPending` are
history variables for the properties only.

### FutexRound

`waiters` holds a registration for every word a request waits on. A wake claims
one registration; the claimed request leaves its other words when its completion
is processed (`KernelPost`), which is why a wake that finds a claimed request is
possible. The kernel may leave a word behind (`residual`).

### FsTopology

Threads run `topology_worker`; the barrier is one cycle counter and the set of
threads waiting, and threads leave it in their own time. An add that finds no
connector allocates one (`AllocateConnector`) and installs it in a later step
(`InstallConnector`), so that two threads can race. `churn` and `transient` count
what the workers create, free or allocate in vain. `CreateFails` is the
`die_msg` after a failed `pthread_create`: the process exits and takes its threads
along.

### MsgRing

One behaviour is a process that sends batches of `QD` messages from a source ring
to a target ring: data to an ordinary target (d0), data to a target whose CQEs
appear only while its owner is inside `io_uring_enter` on it (r0), or a file that
the target installs in a fixed-file slot (f0). `pc` follows `execute_once`: submit
and wait on the source (`SubmitBatch`, `DrainSource`), enter the target (r0,
`EnterTarget`), drain it, after the last batch look once more for strays
(`FlushTarget`), then for f0 read every slot back (`SubmitReads`, `DrainReads`).
`MayPost` is the kernel's promise on order: the target's CQE precedes the sender's,
and with DEFER_TASKRUN it needs the target's owner. `table` is the target's
fixed-file table, `held` and `registered` what has to be given back. Sequence
numbers restart with each call of `execute_once`, as in the code.

### MemmapRound

Every system call of every profile may fail, `MaxFaults` of them in a run. `open`
is what the process really holds; `ring`, `standard` and `regions` are what it
believes it holds, and its clean-up goes by them alone. The labels of `pc` are
the helpers (`setup_standard_ring`, `submit_nop`, `close_ring`, ...) and the
`goto` labels of the round functions; `Succ` and `FailTo` say where a round goes
on after a step that succeeded or failed. `region` and `dying` are the memory of
the live ring and of rings that are closed but which the kernel still uses
(`KernelReleases`). `wild` and `stuck` are history variables: memory was used that
is not there; a release failed.

### NetRound

`place` follows `execute_once` and its five bodies. A datagram is the call of
`execute_once` that sent it and its number there; the program sees only its
payload, which repeats after `PERIOD` datagrams (256 in the code), so a
stale datagram can look like the one expected. `pbuf_ring`, `pbuf_head` and
`pbuf_tail` are the ring of provided buffers with indices modulo `WRAP`; a buffer
belongs to the kernel from the publication of the tail (`Recycle`) until it is
used. `armed` is the multishot request, which the program cancels after each
batch and re-arms before the next. The process is alone and every wait of it is
unbounded: a call the kernel never answers blocks it, and no property says it
does not.

### FsWatch, RingSetup, KernfsControl, RemapMicro, UnixBatches, SysctlChecks and Programs

Each of these programs has one thread of control, so what is hard in them is the
way out: which of the things made so far the jump from a failing call gives back.
Every call may fail, `MaxFaults` of them in a run.

* `RingSetup`: the calls of `raw_ring_init` in order, with one mapping for both
  rings or two; `fixture_init` keeps its ring when an eventfd fails and leaves it
  to `fixture_destroy`. In r0 the descriptor is closed in the timed region and the
  count of open descriptors is the proof. The rounds of the other profiles are one
  step.
* `FsWatch`: an inotify group gives watch descriptors in increasing order, queues
  `IN_IGNORED` on removal and drops events when its queue is full. Refusals, reused
  descriptors and stray events are what the checks are written for. The `atexit`
  handler removes the fixture after any failure.
* `KernfsControl`: cgroups and the attached scheduler are made in order and undone
  in reverse at `out`; the state of sched_ext follows in its own time and may belong
  to somebody else. SIGTERM and SIGALRM set a flag that the loop reads.
* `RemapMicro`: the two FIFOs to and from perf, each acknowledgement awaited for at
  most ten seconds; perf may be late, answer something else or die. Lengths are
  unsigned longs modulo `WORD`, so the test `length > ULONG_MAX / ops` matters.
* `UnixBatches`: messages lost, doubled or damaged, calls that come short.
* `SysctlChecks`: the kernel refuses a runtime above the period, so the handler that
  `exit` runs has to write the two values in the right order. The kernel is what is
  under test: a write may be answered with success and not carried out, and the
  reverse. The alarm ends the process without the handler, at any time.

`Programs` holds one `INSTANCE` of each and chooses which program runs; the six
share a name space only. Its properties are the questions that are the same for
all of them.

### SchedControl

Threads are program counters over shared words; each access of a shared word is
a step, as the words are atomics read without locks. `Slow` lets any of the
ten-second waits give up. `made` and `failed` are history: the timed calls really
made in a round and those that failed.

### WeightedPayload

`LoadTurn`, `FutexWait` and the sleep are three steps, `StoreTurn` and `WakeOther`
two, so that a wake-up can fall in any gap. A barrier is the set of those who wait
in its current cycle, and leaving it is a step of its own. `of_round` is history:
the round whose statistics a thread holds.

## Runs

| Run | Instance | Question |
| --- | --- | --- |
| `raw_ring` | 3 requests, 2 SQEs, 4 CQEs, indices mod 8 | Is a ring a pair of FIFO channels, whatever the interleaving with the kernel? |
| `cancel_faulty` | every profile and mode, 2 polls, 1 decoy, 2 batches, 1 warm-up and 1 measured round, one kernel fault, slow kernel, a signal | Is every row earned, is success complete, does the process end, and with success where nothing went wrong? |
| `futex_faulty` | every profile and mode, 2 slots, one vector of 3 words, 2 cycles, one fault, kernels without some opcode, slow kernel, a signal | the same; is only what was probed submitted? |
| `futex_residual` | vectors only, one word left behind | violation: see Findings |
| `fs_topology` | 3 workers, 4 groups, both topologies, adds and thread creation may fail | Do phases stay apart, is the connector kept, is the verdict right, does the process end? |
| `msg_faulty` | every profile and mode, 2 messages a batch, 1 batch in smoke size and 2 in a round, one fault, slow kernel | Is every row earned, do the slots hold the file, does nothing reach the next round, does the process end? |
| `memmap_faulty` | every profile and mode, 3 events, 1 warm-up and 1 measured round, up to 2 failing calls, a signal | Does a round that fails anywhere leave nothing behind and release nothing twice? |
| `net_faulty` | every profile and mode, 2 messages a batch, 4 buffers, indices mod 8, 3 batches, 1 warm-up and 2 measured rounds, up to 2 faults | Is a row earned although payloads repeat, are all buffers back, does a correct kernel pass? |
| `sched_faulty` | every profile, 4 calls a round, 2 rounds, one failing call, slow waits | Do rounds mix, do rows count every call, does the target move each time, does the process end? |
| `sched_race` | the same without faults | violation: see Findings |
| `weighted_payload` | 2 turns each, 2 rounds, the busy thread, spurious wake-ups, failures, watchdog | Do turns alternate, is a report complete, is no wake-up lost? |
| `programs` | the six sequential programs, up to 3 failing calls, signals | Is what was made given back once, is what is reported earned, does each end? |

Bounds. `MaxLive` limits the requests in the rings as the programs do (their CQ is
twice their SQ and they never have more than half of it outstanding). Two batches
and two rounds are the least in which something left over can do harm to the next
one; two requests of a kind are the least that can be confused; one fault per run
is the case the checks are written for (each must be found alone; two faults that
hide each other are outside what a count and a per-tag check can promise). In
`memmap_faulty` two faults are needed: the call that fails and a release that fails
in the clean-up after it. Its third event separates a failure in the first event,
in the last and in between; the theorems need no bound. In `net_faulty`
two faults allow a loss and a double to make up for each other in a count, six
datagrams are one period of the payload, and three batches of two wrap the
buffer indices within a run of three rounds. Four calls give each controller of
`sched_faulty` two turns. `programs` allows three faults, as a clean-up may fail
twice after the failure that led to it; its sizes go to one more than what a limit
or an argument check lets pass. Three
workers allow one to be ahead, one behind and one in between, and 4 groups over 3
workers makes the slices uneven. Requests are symmetric in `raw_ring`, where no
liveness is checked.

Where a cfg says `CHECK_DEADLOCK FALSE`, the process stops by exiting: in
`fs_topology`, `weighted_payload` and `programs` the property `Terminates` says that
it stops nowhere else, in `net_faulty` `CleanRunPasses` says so for a kernel that
makes no mistake (one that loses a completion blocks the process for ever, as in
the code). The other
workload modules have a step `Exited` that does nothing once the process has
exited, and a ring has no last state, so that TLC reports any other state in which
these modules stop.

Fairness. `WF_vars(Program)`: the process is scheduled, and every wait of it that
can block has a timeout (`ENTER_TIMEOUT_SECONDS`), modelled by `Slow`.
`WF_vars(KernelPost)`: the kernel posts what it owes; a lost completion is not in
`posting` and is not covered by it. `MsgRing` assumes the same two; in `NetRound`
the kernel's answer is part of the program's step. In `FsTopology`, `SchedControl`
and `WeightedPayload` each thread is scheduled (`WF_vars` per thread): nothing in
the code prefers one. The watchdog, the failing calls and the early returns of a
futex get no fairness, so no wait ends by them. In `Programs` the running program
is scheduled; perf, sched_ext and the alarm of the sysctl checks need not
be, as the program waits for either a bounded time. Safety needs none.

## Properties that are worth reading first

* `RawRing!ImplementsChannels`, `CopyIsFaithful`: no slot is reused before its
  CQE was copied, across wraps.
* `CancelRound!RowSound`: what a row means, that the polls were pending included.
  `prove_pending` looks at the CQ before the timed region and can miss a poll that
  completed but is not posted yet; later checks of the same batch find it.
* `CancelRound!EndsHonestly`, `FutexRound!EndsHonestly`: in one formula that the
  process ends, that success means every row, and that nothing but a fault, a
  signal or a late kernel keeps it from success.
* `FutexRound!FirstWordsClean`, and `ResidualsProven`, which does not hold.
* `FsTopology!PhaseSeparation`, `NoSharedChurn`, `PassSound`.
* `MsgRing!RowEarned`: each message was read once on each side, with its value or
  a slot of its own, in the batch that sent it. `SlotsHoldTheFile`: a slot number
  reported on both sides is not enough, the slot must hold the file. `StartsClean`:
  since a sequence number carries no round, nothing may be left of an earlier one.
* `MemmapRound!LeakFree`, `NeverWild`, `NoSharedPages`, and `ExitHonest`: the
  counters in a passing row alone show that all was released.
* `NetRound!RowEarned`: row checks see a payload that repeats; that no datagram of
  an earlier period passes for one of this needs the whole sequence. `BuffersReturned`:
  the next round starts with every buffer, across wraps and re-armed multishots.
* `SchedControl!Lockstep`, and `SemanticErrorIsReal`, which does not hold.
* `WeightedPayload!OneAtATime`, `Terminates`: the futex protocol.
* `Programs!CleansUp`, `ReportEarned`: every way out of six programs.

## Findings

`run_waitv_cycle` says of its probe "Prove that completion removed the seven
residual waiters per vector", but it wakes only the first word of each vector. A
waiter left on one of the other six passes the check (`futex_residual`). What the
probe does establish is `FirstWordsClean`, which holds.

In affinity-queued `sched_fair_control_v2_bench.c` can end with "timed syscall
semantic error" although no call failed (`sched_race`). Controller B passes the
last turn inside its loop and stores its sums after the loop; controller A waits
for that turn only, reads the sums and validates, and joins B later. If B is slow
between the two, A reads zeros. If A reads the success count in time but the time
sum too early, the row passes with half of its time missing; the model leaves
times out, so no property shows that.

Observed and modelled, without a claim in the repository that they contradict:

* `wait_and_copy` asks for `expected - available` completions although the kernel
  counts `min_complete` from the CQ head, so the second wait can return at once
  and fail a round whose completions are merely late. Rows stay sound.
* `cleanup_target` checks neither duplicates nor completeness; the count of CQEs
  is what it relies on. `RowSound` leaves its CQEs out. With three faults in the
  last batch of a0_miss (a poll that completes early, and two doubled completions
  that stand in for its own and for its cleanup's -ENOENT, both still under way) the
  row passes although a poll was not pending; with the one fault of `cancel_faulty`
  that cannot happen.
* `af_unix_sendmmsg_standalone.c` jumps to its clean-up when `pin_cpu` fails, before
  the workload structure is set up, and closes whatever descriptors its
  uninitialised memory names; the process ends right after. The model takes that
  step with any number, and `CleansUp` leaves it aside.
* A reading that fails in `restore` of `sysctl_checks.c` ends the process with status
  1 and without the line that tells the outer controller to restore; `CleansUp`
  leaves that way out aside.
* `validate_pair_cqes` and `validate_single_cqes` ignore the cycle in a tag; the
  modelled kernel therefore posts no completion twice.
* `ring_outstanding` counts ring entries only, not requests in flight.
* In the MSG_RING workload a doubled completion can stand in for one whose wait
  timed out unnoticed, and the round after may start with the genuine one under
  way. Such a row passes with every message read as it should be; the next round
  may fail for it. `StartsClean` is therefore stated for a kernel without faults.
* `run_e0` jumps past the closing of its first ring's fd when setting that ring up
  fails after the fd was made. It can only fail there for a geometry that
  `discover_geometry` has already refused, so the path is not taken.
* `submit_nop` waits for a NOP without a timeout; a NOP completes in the enter that
  submits it, so the model has no wait there.

## Proofs

`RingAndTopology_proofs` proves about `RawRing` `TypeCorrect` (`Spec => []TypeOK`) and
`RingsWithinCapacity` (`Spec => []WithinCapacity`) for every ring size, index
width and set of requests allowed by `RingAssumption`. `WithinCapacity` is not
inductive: that the kernel never takes from an empty SQ needs that the SQ holds
exactly the SQEs counted by the caller (`queued`, `taken`), and that the head is
never advanced past the tail needs that a copying caller found as many CQEs as it
will release. `Accounted` states both; `CapacityInv` is inductive. `TailAdvance`
and `HeadAdvance` carry the modular arithmetic.

In its last part, which shares no name with the others, it proves about `FsTopology`
`PhasesSeparate` (`TopologySpec => []PhaseSeparation`) and `KeeperPreventsChurn`
(`TopologySpec => []NoSharedChurn`) for any number of workers and
groups allowed by `TopologyAssumption`. `BarrierInv` relates the number of barriers
each thread has left to the number of cycles completed: it is the same, or one
less for a thread that was released and has not run since. `KeeperInv` keeps the
keeper's mark and connector while threads run; that no worker removes the keeper
needs `SliceBounds`, that a slice ends within the groups.

`PassIsSound` (`TopologySpec => []PassSound`) proves what a row with PASS tells of all the
groups together, where the code only has sums over the workers. `SumExists` shows
that the recursion behind a sum over a finite set has a solution, and `SumOfSizes`
that such a sum over disjoint sets of one number each is the size of their union;
both argue from a smallest counterexample, as induction is not to be had here. The
slices are such sets (`SlicesPartition`), so that a worker's counters become the size
of a part of the groups and the program's totals those of the whole
(`SumOverSlices`). `LedgerInv` keeps, worker by worker, the counters equal to the
groups behind the loop's index, and on the kernel's side the churn equal to the
descriptors that watch; its `RunVerdict` is what is left when the threads are joined.

`MemmapRound_proofs` proves `ReleasesOnce` (`Spec => []NeverWild`) and `NothingLeaks`
(`Spec => []LeakFree`) for any number of events, rounds and failing calls. Neither is
inductive: both need that what the process believes to hold (`Believed`, from
`ring`, `standard` and `regions`) is what it holds, and that only a failed release
leaves more (`AccountInv`). That the label reached after a failure releases all of
it needs to know which label may find what: `ShapeInv` gives the labels each
profile passes, `RingInv` where the ring is open and mapped and by whose memory,
`MemoryInv` where the user memory and e0's first ring exist. `IInv`, their
conjunction, is inductive; there is a lemma for every action. `Succ` and `FailTo`
become two or three concrete labels once the profile is known, which is why the
larger lemmas first fix profile and label.

`RingAndTopology_proofs` also proves about `RawRing` `Refinement` (`Spec => ImplementsChannels`),
`EachRequestOnce` (`Spec => []OncePerRequest`) and `CopiesAreFaithful` (`Spec =>
[]CopyIsFaithful`) under the same assumption. The channels are the slots between
head and tail, read in order; a step of the ring is a step of the channels if
writing one slot leaves the others alone. That is a fact about remainders: indices
less than a ring's size apart lie in different slots (`ModUnique`), also where the
index wraps, because the sizes divide the index width (`SlotsDistinct`), and
`CapacityInv` keeps them less than a size apart. `OncePerRequest` is then proved
on the channels, where no index occurs, and carried back.

It is the home of one more theorem, about another module that has no name in
common with `RawRing`: `ExitsHonestly` (`NetSpec => []ExitHonest`) says for
`NetRound`, any number of slots, rounds and kernel faults, that exit status 0 comes
with all rows, all passed, and nothing held. `ControlInv` counts the rows due when so
many calls are over, and that a call that failed is the last.

`WeightedPayload_proofs` proves `OneAtATimeHolds` and `ReportSoundHolds` for every
number of turns and rounds, with or without the third thread. `Passed` counts the
calls of each barrier a party has behind it, from its place and round alone;
`BarrierInv` says that it agrees with the cycles of the barrier, or is one less for
a party that was released and has not run since. As all parties agree with the same
two counters, a party's place bounds everybody else's: while a worker is in its
window main waits at its end (`InWindow`), while main prepares or reports a round
nobody is in one (`AtStore`, `AtReport`). `TurnInv`, `CountInv`, `ClosedInv` and
`RowsInv` follow turn, counters and rows from there; together they are inductive.

`SchedControl_proofs` proves `LockstepHolds` (`Spec => []Lockstep`), `RowsSound`
(`Spec => []RowSound`) and `CallsMove` (`Spec => EveryCallMoves`, an action property)
for every number of calls and rounds and of failing calls. For yield-dual, `WordsInv`
reads each generation word off the place of the thread that writes it and
`WaitedInv` says what each thread has waited for; together they bound the places
against each other. `Lockstep` alone is not inductive: a thread that is in step may
be about to leave unless the other's word holds it. `DualCounts` splits the
errors of a round over main, the peer and what the peer has added since the last row.
For the affinity profiles `TurnInv` relates the turn word to the calls either
controller has behind it, `MaskInv` the target's mask to whose turn it was last, and
`TurnCounts` the row to both; `PrintInv` carries a row from the end of its round to
its printing.

`MemmapRound_proofs` also proves `PagesNotShared` (`Spec => []NoSharedPages`) and
`ExitsHonestly` (`Spec => []ExitHonest`). `PagesInv` says that the live ring lies in
the memory of its own event and that the rings the kernel still uses lie in that of
earlier events or rounds, from `IInv`, which says when a ring is closed. `HonestInv`
follows a release that failed until it shows in the counters (`StuckInv`), and a
round that was given up until its row (`RetInv`).

`CancelRound_proofs` proves for any number of polls, batches, rounds and kernel
faults: `CleanStarts` (`Spec => []StartsClean`), `RowsComplete` (a row means that
every request was reaped, once, with its result, `RowComplete`) and `RowsSound`
(`RowSound`, for every profile but a0_miss). What was validated is a prefix of what
the round wants, cut at a batch and within it between timed region and cleanup
(`Done`); `ReapInv` says that just this was reaped, and the copy under validation
besides. An exact copy is the next piece (`ValidationWants`, `CopyPasses`), and
nothing in it was reaped before since its tags are of another batch, as no mask
wraps (`PlainTag`, from `CancelAssumption`). For the polls that were pending,
`PendingInv` says that a batch that began without one will be found out: the
completion its validation needs is neither posted nor on its way (`Missing`). That
it did not come early either is `PastInv`: a completion under way belongs to a
request already submitted. `RowsSound` leaves a0_miss out because the claim is not
true of it beyond the bound of the run (see Observed under Findings).

`MsgRing_proofs` proves for any size of batch and round and any number of kernel
faults: `RowsEarned` (`Spec => RowEarned`), `SlotsHold` (`Spec => SlotsHoldTheFile`),
`CleanCalls` (`Spec => []StartsClean`) and `ExitsHonestly` (`Spec => []ExitHonest`).
`ReadInv` says of a round with no error so far that it has read, once each and with
right results, exactly the messages of the drains behind it (`Drained`); a drain whose
CQEs are all valid and cover the window adds the next ones (`OnceMore`). For f0
`SlotInv` adds that the two sides name the same slots and that the bitmap is the set
of them: when it is full, as many messages as slots have named every slot, so that no
two named the same (a surjection between finite sets of one size is injective).
`FlightInv` is about a kernel without faults: a completion is on its way, in its ring
or read, and in only one of these, so that a round that read all it submitted leaves
nothing (`ReturnFlight`), and one that did not ends the run. `TableInv` keeps the slots
read so far; `ExitInv` and `OwnedInv` keep rows, exit status and resources in step.

`FutexRound_proofs` proves `RowsSound` (`Spec => []RowSound`), `FirstWords`
(`Spec => []FirstWordsClean`) and `OnlyProbed` (`Spec => []OnlySupported`) for any
number of slots, vectors, words, cycles and rounds and of kernel faults; the run has
one fault. Since validation does not compare the cycle of a tag, the first needs
that no completion of an earlier cycle which could pass is ever around: `OwedInv`
says that each genuine completion, on its way, unread or under validation, is of this
cycle and of a request it asked for, one to a tag and in one place. It rests on
`WaiterInv`: no waiter of an earlier cycle is on a word that a cycle wakes, though
residual ones may be on others, so that a wake completes a wait of its own cycle.
`OwedInv` has to be given up while a check has found a waiter, since that waiter's
request then completes a cycle late; such a check returns 1 and cannot pass
(`PassingSane`), whatever becomes of the rest. A batch that passes uses up all
that is owed (`PassingAll`) and is the next part of what the round wants
(`PassingBatch`, `ReapInv`).

`Programs_proofs` proves `EveryProgramCleansUp` (`Spec => []CleansUp`),
`EveryReportIsEarned` (`Spec => []ReportEarned`) and `PerfCountsTheLoop` (`Spec =>
[]CountersFollow`) for any number of faults, polls, rounds, messages and warm-ups and
any configurations, page and word sizes that `ProgramsAssumption` allows. Each program
has an inductive invariant of its own, and only the program that runs moves
(`NextKeepsPrograms`):

* `RingInv` says what is open and mapped at each place of `raw_ring_init` and of the
  clean-up, and what the structures say of it. With these equal, a release names each
  thing once (`ReleaseIsClean`); where they differ, after a failed eventfd, the
  program only exits.
* `KernfsInv` has the cgroups that exist equal to those the flags name, less those
  the removal at `out` has tried.
* `WatchInv` has three parts: `FilesInv` for the fixture, `VerdictInv` for the row, and
  `WorkInv` for what it stands for. `BulkInv`, `MaskInv` and `LookupInv` say for which
  items each kind of call did what was asked (`Did`); `EventsInv` that the queue holds
  as many `IN_IGNORED` as watches announced their end, so that a count of them equal to
  the items means all of them (a subset of a finite set, of its size). `CleanInv`
  is the run in which nothing goes wrong, position by position; it shows that a FAIL
  row has a cause, as the queue was sized for it.
* `RemapInv` follows a command through the FIFO to perf and its answer back
  (`PerfInv`, `AwaitInv`): while a command or an answer is unread the program waits for
  it. `LoopInv` counts the ranges remapped so far in files of the size they need; that
  none lies outside follows from products that do not reach the word size.
* `UnixInv` says that what was read and what is queued make up whole batches only where
  nothing was lost or doubled, and is then in the order it was sent in (`QueueInv`); a
  round in which they do not ends the run.
* `SysctlInv` says before each write what the two values are, and after it that they
  are as the test expects or a deviation was noted (`TestingInv`), and that from any
  of them the writes of restore succeed in the
  order chosen (`RestoringInv`).

Out of the prover's reach and only model-checked: liveness (`Terminates`,
`EndsHonestly`, `CleanRunPasses`). `RowEarned` and `BuffersReturned` of `NetRound`
hold for the two faults of their run and not for three, so they cannot be theorems
without that bound.

## Not modelled

Formatting of rows, timing, pinning to CPUs except its effect on the verdict,
command-line parsing beyond which profile and mode may be combined, failures of
`fclose`, `/proc` reading; the Python verifiers (pure functions of finished
files), the shell scripts, kernel patches and evidence data. The standalone
io_uring reproducers, MSG_RING diagnostics, AF_UNIX follow-ups and kernfs variants
repeat in short what the modelled programs do, or time single calls. The RT sysctl
reader is a loop around `pread`; the mm probes and the tmpfs test are left for later:
they are sequential, or their interest is in the kernel's page states. No program
persists anything it reads again, so there is no crash recovery; what a killed
process leaves behind is the kernel's to release, and the files it leaves are the
run scripts'.

## Plan

1. The mm probes' handshakes with their children, as a further member of `Programs`.
2. The kernel of `FutexRound` with doubled completions, and the claim on the cycle of
   a tag that would then be checked.
