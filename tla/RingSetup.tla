----------------------------- MODULE RingSetup ------------------------------
(***************************************************************************)
(* Set-up and tear-down of io_uring_cancel_round.c: raw_ring_init maps a   *)
(* new ring, in two or three mappings as the kernel offers; fixture_init   *)
(* adds two eventfds; profile r0 arms polls and decoys, unmaps the rings,  *)
(* times the closing of the descriptor, and compares the number of open    *)
(* descriptors with what it was before.                                    *)
(*                                                                         *)
(* The other profiles' rounds are one step here (CancelRound has them).    *)
(* External: the calls that make mappings and descriptors.                 *)
(***************************************************************************)
EXTENDS Integers, Sequences, SequencesExt, FiniteSets

CONSTANTS
    PENDING, DECOYS,   \* polls on the target and on the decoy
    MaxFaults          \* bound: calls that fail

RingSetupAssumption ==
    PENDING \in Nat \ {0} /\ DECOYS \in Nat \ {0} /\ MaxFaults \in Nat

Profiles == {"r0", "other"}

VARIABLES
    profile, pc, ret,
    ring,            \* the raw_ring: [fd, single_mmap, sq_ptr, cq_ptr, sqes_ptr]
    efds,            \* <<target_fd, decoy_fd>>
    queued, before,  \* of run_r0: SQEs filled in, descriptors at the start
    close_ret, pass, row,
    open, maps,      \* kernel: descriptors and mappings of the process
    armed,           \* kernel: polls armed on the ring
    wild,            \* history: released what it did not hold
    torn,            \* history: polls armed when the ring was closed
    noEventfd,       \* history: an eventfd could not be made
    faults

fixture == <<ring, efds>>
local == <<queued, before, close_ret, pass, row>>
kernel == <<open, maps, armed>>
history == <<wild, torn, noEventfd>>
vars == <<profile, pc, ret, fixture, local, kernel, history, faults>>

NoFd == -1
NULL == "NULL"

Fds == 3..6

\* The lowest free one, as the kernel gives them out.
NewFd == CHOOSE f \in Fds \ open : \A g \in Fds \ open : f <= g

NoRing == [fd |-> NoFd, single_mmap |-> FALSE, sq_ptr |-> NULL, cq_ptr |-> NULL,
           sqes_ptr |-> NULL]

Init ==
    /\ profile \in Profiles /\ pc = "output" /\ ret = 1
    /\ ring = NoRing /\ efds = <<NoFd, NoFd>>
    /\ queued = 0 /\ before = 0 /\ close_ret = 0 /\ pass = FALSE /\ row = FALSE
    /\ open = {} /\ maps = {} /\ armed = 0
    /\ wild = FALSE /\ torn = 0 /\ noEventfd = FALSE /\ faults = 0

Goto(at) == pc' = at
Fine  == UNCHANGED faults
Fault == faults < MaxFaults /\ faults' = faults + 1

-----------------------------------------------------------------------------
(* What the functions release                                              *)

\* Mutant: cq_ptr is unmapped whether or not it is the mapping of sq_ptr.
UnmapCq_Always(r) == r.cq_ptr # NULL

UnmapCq(r) == ~r.single_mmap /\ r.cq_ptr # NULL

Mapped(p) == IF p # NULL THEN <<p>> ELSE <<>>

\* raw_ring_unmap: the mappings in the order they are released.
Unmaps(r) ==
    Mapped(r.sqes_ptr) \o Mapped(r.sq_ptr) \o (IF UnmapCq(r) THEN <<r.cq_ptr>> ELSE <<>>)

raw_ring_unmap(r) == [r EXCEPT !.sqes_ptr = NULL, !.sq_ptr = NULL, !.cq_ptr = NULL]

Opened(fd) == IF fd # NoFd THEN <<fd>> ELSE <<>>

Release(mappings, fds) ==
    /\ maps' = maps \ ToSet(mappings) /\ open' = open \ ToSet(fds)
    /\ wild' = (wild \/ ~IsInjective(mappings) \/ ~IsInjective(fds)
                     \/ ~(ToSet(mappings) \subseteq maps) \/ ~(ToSet(fds) \subseteq open))

raw_ring_destroy(r) == Release(Unmaps(r), Opened(r.fd))

-----------------------------------------------------------------------------
(* main and count_open_fds                                                 *)

\* fopen "wx" of the output; then r0 counts, the others set up.
OpenOutput ==
    /\ pc = "output"
    /\ \/ Fine /\ open' = open \cup {NewFd}
          /\ Goto(IF profile = "r0" THEN "count" ELSE "ring")
       \/ Fault /\ Goto("done") /\ UNCHANGED open
    /\ UNCHANGED <<profile, ret, fixture, local, maps, armed, history>>

\* The descriptor of the directory is there and left out.
count_open_fds == Cardinality(open)

CountBefore ==
    /\ pc = "count"
    /\ \/ Fine /\ before' = count_open_fds /\ Goto("ring")
       \/ Fault /\ before' = -1 /\ Goto("out")
    /\ UNCHANGED <<profile, ret, fixture, queued, close_ret, pass, row, kernel, history>>

-----------------------------------------------------------------------------
(* raw_ring_init                                                           *)

SetupRing ==
    /\ pc = "ring"
    /\ \/ /\ Fine /\ open' = open \cup {NewFd} /\ Goto("sq")
          /\ \E single \in BOOLEAN :
               ring' = [NoRing EXCEPT !.fd = NewFd, !.single_mmap = single]
       \/ Fault /\ Goto("out") /\ ring' = NoRing /\ UNCHANGED open
    /\ UNCHANGED <<profile, ret, efds, local, maps, armed, history>>

\* fail: what the structure names is released, and it is cleared.
InitFails(r) == Fault /\ raw_ring_destroy(r) /\ ring' = NoRing /\ Goto("out")

\* One mapping for both rings, or the one of the SQ, which is noted at once.
MapSq ==
    /\ pc = "sq"
    /\ \/ /\ Fine /\ maps' = maps \cup {"sq"}
          /\ ring' = IF ring.single_mmap THEN [ring EXCEPT !.sq_ptr = "sq", !.cq_ptr = "sq"]
                     ELSE [ring EXCEPT !.sq_ptr = "sq"]
          /\ Goto(IF ring.single_mmap THEN "sqes" ELSE "cq") /\ UNCHANGED <<open, wild>>
       \/ InitFails(ring)
    /\ UNCHANGED <<profile, ret, efds, local, armed, torn, noEventfd>>

MapCq ==
    /\ pc = "cq"
    /\ \/ /\ Fine /\ maps' = maps \cup {"cq"} /\ ring' = [ring EXCEPT !.cq_ptr = "cq"]
          /\ Goto("sqes") /\ UNCHANGED <<open, wild>>
       \/ InitFails(ring)
    /\ UNCHANGED <<profile, ret, efds, local, armed, torn, noEventfd>>

\* MAP_FAILED is not kept in the structure.
AfterSqesFailed(r) == [r EXCEPT !.sqes_ptr = NULL]

MapSqes ==
    /\ pc = "sqes"
    /\ \/ /\ Fine /\ maps' = maps \cup {"sqes"} /\ ring' = [ring EXCEPT !.sqes_ptr = "sqes"]
          /\ Goto("eventfds") /\ UNCHANGED <<open, wild>>
       \/ InitFails(AfterSqesFailed(ring))
    /\ UNCHANGED <<profile, ret, efds, local, armed, torn, noEventfd>>

-----------------------------------------------------------------------------
(* fixture_init, fixture_destroy                                           *)

\* Both are tried.  Where one fails, nothing is released: the callers leave
\* for the exit.
MakeEventfds ==
    /\ pc = "eventfds"
    /\ LET f == NewFd
           g == CHOOSE h \in Fds \ (open \cup {f}) : TRUE IN
         \/ /\ Fine /\ efds' = <<f, g>> /\ open' = open \cup {f, g}
            /\ Goto(IF profile = "r0" THEN "poll" ELSE "rounds") /\ UNCHANGED noEventfd
         \/ /\ Fault /\ noEventfd' = TRUE /\ Goto("out")
            /\ efds' \in {<<NoFd, f>>, <<f, NoFd>>, <<NoFd, NoFd>>}
            /\ open' = open \cup (ToSet(efds') \ {NoFd})
    /\ UNCHANGED <<profile, ret, ring, local, maps, armed, wild, torn>>

fixture_destroy ==
    /\ pc = "destroy" /\ Goto("out")
    /\ Release(Unmaps(ring), Opened(efds[1]) \o Opened(efds[2]) \o Opened(ring.fd))
    /\ ring' = NoRing /\ efds' = <<NoFd, NoFd>>
    /\ armed' = 0
    /\ UNCHANGED <<profile, ret, local, torn, noEventfd, faults>>

-----------------------------------------------------------------------------
(* run_r0                                                                  *)

\* The polls of the target, then those of the decoy.
QueuePoll ==
    /\ pc = "poll"
    /\ \/ Fine /\ queued' = queued + 1
          /\ Goto(IF queued + 1 = PENDING + DECOYS THEN "enter" ELSE "poll")
       \/ Fault /\ Goto("destroy") /\ UNCHANGED queued
    /\ UNCHANGED <<profile, ret, fixture, before, close_ret, pass, row, kernel, history>>

\* Mutant: the polls of the target are enough.
Submitted_Target(n) == n >= PENDING

Submitted(n) == n = PENDING + DECOYS

\* enter_ring takes a short count for a failure, and what is submitted stays.
EnterRing ==
    /\ pc = "enter"
    /\ \E n \in 0..queued :
          /\ armed' = n /\ (IF n = queued THEN Fine ELSE Fault)
          /\ Goto(IF Submitted(n) THEN "prove" ELSE "destroy")
    /\ UNCHANGED <<profile, ret, fixture, local, open, maps, history>>

\* No completion, and neither eventfd to be read; a poll that fires is seen.
ProvePending ==
    /\ pc = "prove"
    /\ \/ Fine /\ Goto("unmap") /\ UNCHANGED armed
       \/ Fault /\ Goto("destroy") /\ armed' \in 0..armed
    /\ UNCHANGED <<profile, ret, fixture, local, open, maps, history>>

Unmap ==
    /\ pc = "unmap" /\ Goto("close")
    /\ Release(Unmaps(ring), <<>>) /\ ring' = raw_ring_unmap(ring)
    /\ UNCHANGED <<profile, ret, efds, local, armed, torn, noEventfd, faults>>

\* The timed call.  The descriptor is gone even where close reports an error.
CloseRing ==
    /\ pc = "close" /\ Goto("closeEfds")
    /\ \/ Fine /\ close_ret' = 0
       \/ Fault /\ close_ret' = -1
    /\ Release(<<>>, <<ring.fd>>) /\ ring' = [ring EXCEPT !.fd = NoFd]
    /\ armed' = 0 /\ torn' = armed
    /\ UNCHANGED <<profile, ret, efds, queued, before, pass, row, noEventfd>>

CloseEventfds ==
    /\ pc = "closeEfds" /\ Goto("countAfter")
    /\ Release(<<>>, efds) /\ efds' = <<NoFd, NoFd>>
    /\ UNCHANGED <<profile, ret, ring, local, armed, torn, noEventfd, faults>>

Semantic(after) == close_ret = 0 /\ after = before

\* Then the judgement: also not slower than RELEASE_LIMIT_NS.
CountAfter ==
    /\ pc = "countAfter"
    /\ \/ Fine /\ pass' = Semantic(count_open_fds)
       \/ Fault /\ pass' = Semantic(-1)
       \/ Fault /\ pass' = FALSE     \* too slow
    /\ Goto(IF pass' THEN "write" ELSE "out")
    /\ UNCHANGED <<profile, ret, fixture, queued, before, close_ret, row, kernel, history>>

-----------------------------------------------------------------------------
(* The end of main                                                         *)

WriteRow ==
    /\ pc = "write" /\ row' = TRUE /\ ret' = 0 /\ Goto("out")
    /\ UNCHANGED <<profile, fixture, queued, before, close_ret, pass, kernel, history, faults>>

\* The rounds of the other profiles, well or badly.
Rounds ==
    /\ pc = "rounds" /\ Goto("destroy")
    /\ ret' \in {0, 1} /\ armed' \in 0..(PENDING + DECOYS)
    /\ UNCHANGED <<profile, fixture, local, open, maps, history, faults>>

\* The output is closed; a row that cannot be written out is a failure.
Exit ==
    /\ pc = "out" /\ Goto("done")
    /\ \/ Fine /\ UNCHANGED ret
       \/ Fault /\ ret' = 1
    /\ Release(<<>>, <<CHOOSE f \in Fds : \A g \in Fds : f <= g>>)
    /\ UNCHANGED <<profile, fixture, local, armed, torn, noEventfd>>

Next ==
    \/ OpenOutput \/ CountBefore \/ SetupRing \/ MapSq \/ MapCq \/ MapSqes
    \/ MakeEventfds \/ fixture_destroy \/ QueuePoll \/ EnterRing \/ ProvePending
    \/ Unmap \/ CloseRing \/ CloseEventfds \/ CountAfter \/ WriteRow \/ Rounds \/ Exit

Spec == Init /\ [][Next]_vars

-----------------------------------------------------------------------------
(* Properties                                                              *)

\* However set-up, rounds and tear-down go, no mapping is unmapped and no
\* descriptor closed that the process does not hold (a number given back is
\* soon somebody else's), and none is left at the end, save where an eventfd
\* could not be made: fixture_init then leaves the ring to the exit.
ReleasedOnce ==
    /\ ~wild
    /\ pc = "done" /\ ~noEventfd => open = {} /\ maps = {}

\* A row of r0 says that a ring with every poll and decoy armed was closed
\* and that nothing of the fixture is left but the output (run_r0).
ReleaseProven ==
    profile = "r0" /\ (row \/ pc = "write") =>
        /\ torn = PENDING + DECOYS /\ armed = 0
        /\ maps = {} /\ Cardinality(open) = (IF pc = "done" THEN 0 ELSE 1)
=============================================================================
