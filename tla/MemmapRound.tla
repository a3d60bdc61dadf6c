---------------------------- MODULE MemmapRound ----------------------------
(***************************************************************************)
(* io_uring_memmap_round.c: rounds that set up, map, use, unmap and close  *)
(* rings.  r0 unmaps and maps one ring again and again, l0 makes a ring    *)
(* per event, n0 a ring per event in memory of its own, a0 only maps       *)
(* anonymous memory, e0 tries what has to fail.  Every system call may     *)
(* fail, a signal may stop the run, and the kernel is done with a closed   *)
(* ring only some time after close.                                        *)
(*                                                                         *)
(* What the process holds is open; what it believes is in ring, standard   *)
(* and regions.  The kernel reports the same geometry for every ring, and  *)
(* a NOP completes inside the enter that submits it.                       *)
(***************************************************************************)
EXTENDS Integers, FiniteSets, Sequences

CONSTANTS
    Runs,          \* set of <<profile, mode>> pairs to run
    EVENTS,        \* events per round; 2 in e0
    POINT_WARMUPS, POINT_ROUNDS,
    MaxFaults,     \* bound: system calls that fail in a run
    Signals        \* TRUE: SIGINT or SIGTERM may arrive

\* parse_options refuses point mode for e0.
AllRuns == ({"r0", "l0", "n0", "a0", "e0"} \X {"smoke", "point"}) \ {<<"e0", "point">>}

ASSUME MemmapAssumption ==
    /\ Runs \subseteq AllRuns
    /\ EVENTS \in Nat \ {0}
    /\ POINT_WARMUPS \in Nat /\ POINT_ROUNDS \in Nat \ {0}
    /\ MaxFaults \in Nat /\ Signals \in BOOLEAN

VARIABLES
    run,           \* the <<profile, mode>> of the command line
    pc,            \* where the process is
    round, i,      \* i: the events of the loop so far
    ring,          \* [fd, mapped, user_backed] of struct raw_ring
    standard,      \* e0: its first ring has an fd
    regions,       \* n0, e0: the user memory it has pointers to
    counters,      \* struct counters
    ret,           \* run_profile returns 0
    rows,          \* semantic_pass of the rows written
    exitOk,        \* the exit status, once pc = "exited"
    stop_requested,
    open,          \* kernel: descriptors and mappings that exist
    region,        \* kernel: the event memory of the live user-backed ring
    dying,         \* kernel: event memory of closed rings still in use
    faults,        \* failed system calls so far
    wild,          \* history: memory or a mapping was used that is not there
    stuck          \* history: a release failed

progVars == <<round, i, regions, counters, ret, rows, exitOk>>
histVars == <<wild, stuck>>
vars == <<run, pc, progVars, ring, standard, stop_requested, open, region,
          dying, faults, histVars>>

profile == run[1]
mode == run[2]
Rounds == IF mode = "point" THEN POINT_WARMUPS + POINT_ROUNDS ELSE 1

ClosedRing == [fd |-> FALSE, mapped |-> FALSE, user_backed |-> FALSE]
NoRegion == <<>>

\* run_profile's memset.
ZeroCounters ==
    [success |-> 0, setup |-> 0, close |-> 0, mmap |-> 0, munmap |-> 0, nop |-> 0,
     validation |-> FALSE, cleanup |-> FALSE, unhealthy |-> FALSE,
     addr_ok |-> profile # "n0"]

Init ==
    /\ run \in Runs
    /\ pc = "start" /\ round = 0 /\ i = 0
    /\ ring = ClosedRing /\ standard = FALSE /\ regions = {}
    /\ counters = ZeroCounters /\ ret = FALSE
    /\ rows = <<>> /\ exitOk = FALSE /\ stop_requested = FALSE
    /\ open = {} /\ region = NoRegion /\ dying = {}
    /\ faults = 0 /\ wild = FALSE /\ stuck = FALSE

-----------------------------------------------------------------------------
(* System calls                                                            *)

\* A step may have cost calls fail.
Fail(cost) == faults + cost <= MaxFaults /\ faults' = faults + cost

\* Mutant: the first mapping is kept when the second fails.
MapOutcomes_NotUndone ==
    {[ok |-> TRUE,  maps |-> {"shared", "sqes"}, mmap |-> 2, munmap |-> 0, cost |-> 0],
     [ok |-> FALSE, maps |-> {},                 mmap |-> 0, munmap |-> 0, cost |-> 1],
     [ok |-> FALSE, maps |-> {"shared"},         mmap |-> 1, munmap |-> 0, cost |-> 1]}

\* mmap of the shared rings and of the SQEs; the first is undone if the second
\* fails.
MapOutcomes ==
    {[ok |-> TRUE,  maps |-> {"shared", "sqes"}, mmap |-> 2, munmap |-> 0, cost |-> 0],
     [ok |-> FALSE, maps |-> {},                 mmap |-> 0, munmap |-> 0, cost |-> 1],
     [ok |-> FALSE, maps |-> {},                 mmap |-> 1, munmap |-> 1, cost |-> 1],
     [ok |-> FALSE, maps |-> {"shared"},         mmap |-> 1, munmap |-> 0, cost |-> 2]}

Refused == [ok |-> FALSE, maps |-> {}, mmap |-> 0, munmap |-> 0, cost |-> 0]

\* munmap of both; each is tried whatever the other did.
Unmaps == {[left |-> L, cost |-> Cardinality(L)] : L \in SUBSET {"shared", "sqes"}}

\* map_standard_ring, on the counters c.
Map(c, o) == [c EXCEPT !.mmap = @ + o.mmap, !.munmap = @ + o.munmap,
                       !.cleanup = @ \/ o.cost = 2]

Memory == IF ring.user_backed THEN {"user_ring", "user_sqes"} ELSE {"shared", "sqes"}

\* Mutant: every event of n0 uses the same memory.
EventRegion_Shared(n) == <<round, 0>>

\* The part of the round's memory that the ring of event n is placed in.
EventRegion(n) == <<round, n>>

\* The kernel tears down a closed ring in its own time.
KernelReleases ==
    /\ \E r \in dying : dying' = dying \ {r}
    /\ UNCHANGED <<run, pc, progVars, ring, standard, stop_requested, open,
                   region, faults, histVars>>

Signal ==
    /\ Signals /\ ~stop_requested /\ pc # "exited"
    /\ stop_requested' = TRUE
    /\ UNCHANGED <<run, pc, progVars, ring, standard, open, region, dying,
                   faults, histVars>>

-----------------------------------------------------------------------------
(* Where a round goes on                                                   *)

\* After the step at pc succeeded.
Succ ==
    CASE pc = "begin"       -> (CASE profile \in {"r0", "e0"} -> "setup"
                                  [] profile = "n0" -> "regions"
                                  [] OTHER -> "loop")
      [] pc = "setup"       -> IF profile = "e0" THEN "bad_map" ELSE "nop"
      [] pc = "bad_map"     -> "regions"
      [] pc = "regions"     -> IF profile = "e0" THEN "setup_user" ELSE "loop"
      [] pc = "setup_user"  -> IF profile = "e0" THEN "bad_map_user" ELSE "nop"
      [] pc = "bad_map_user" -> "nop"
      [] pc = "nop"         -> "health"
      [] pc = "health"      -> (CASE profile = "e0" -> "out_user"
                                  [] profile = "r0" -> IF i = 0 THEN "first_unmap" ELSE "out"
                                  [] OTHER -> "close")
      [] pc = "first_unmap" -> "loop"
      [] pc = "map"         -> "unmap"
      [] pc = "unmap"       -> "loop"
      [] pc = "map_again"   -> "nop"
      [] pc = "close"       -> "loop"

\* The label that a failing step jumps to.
FailTo ==
    CASE profile = "r0" -> "out"
      [] profile = "e0" -> (CASE pc = "setup" -> "out_regions"
                              [] pc \in {"bad_map", "regions"} -> "out_standard"
                              [] OTHER -> "out_user")
      [] profile = "n0" /\ pc = "regions" -> "out_regions"
      [] pc = "close" -> "fail"
      [] OTHER -> "fail_close"

GoOn(ok) == pc' = IF ok THEN Succ ELSE FailTo

Same == UNCHANGED <<run, round, rows, exitOk, stop_requested>>

\* run_profile.
Begin ==
    /\ pc = "begin"
    /\ counters' = ZeroCounters
    /\ ring' = ClosedRing /\ standard' = FALSE /\ regions' = {}
    /\ i' = 0 /\ ret' = FALSE
    /\ GoOn(TRUE)
    /\ Same /\ UNCHANGED <<open, region, dying, faults, histVars>>

-----------------------------------------------------------------------------
(* The helpers                                                             *)

\* setup_standard_ring: without mappings in e0.  After a failure the fd is
\* the caller's.
SetupStandard ==
    /\ pc = "setup"
    /\ \/ /\ Fail(1)
          /\ ring' = ClosedRing
          /\ UNCHANGED <<open, counters, standard, stuck>>
          /\ GoOn(FALSE)
       \/ /\ profile = "e0"
          /\ standard' = TRUE
          /\ open' = open \cup {"standard"}
          /\ counters' = [counters EXCEPT !.setup = @ + 1]
          /\ GoOn(TRUE)
          /\ UNCHANGED <<ring, faults, stuck>>
       \/ /\ profile # "e0"
          /\ \E o \in MapOutcomes :
                /\ Fail(o.cost)
                /\ ring' = [fd |-> TRUE, mapped |-> o.ok, user_backed |-> FALSE]
                /\ open' = open \cup {"fd"} \cup o.maps
                /\ counters' = Map([counters EXCEPT !.setup = @ + 1], o)
                /\ stuck' = (stuck \/ o.cost = 2)
                /\ GoOn(o.ok)
          /\ UNCHANGED standard
    /\ Same /\ UNCHANGED <<i, regions, ret, region, dying, wild>>

\* setup_user_ring; the addresses it reports are n0's concern only.
SetupUser ==
    /\ pc = "setup_user"
    /\ \/ /\ Fail(1)
          /\ ring' = ClosedRing
          /\ GoOn(FALSE)
          /\ UNCHANGED <<open, region, counters>>
       \/ \E addr_ok \in BOOLEAN :
          /\ Fail(IF addr_ok THEN 0 ELSE 1)
          /\ ring' = [fd |-> TRUE, mapped |-> TRUE, user_backed |-> TRUE]
          /\ open' = open \cup {"fd"}
          /\ region' = EventRegion(i)
          /\ counters' = [counters EXCEPT !.setup = @ + 1, !.addr_ok = addr_ok]
          /\ GoOn(addr_ok \/ profile = "e0")
    /\ Same /\ UNCHANGED <<i, standard, regions, ret, dying, histVars>>

\* map_standard_ring in r0; it refuses a ring that is mapped.
MapRing ==
    /\ pc \in {"map", "map_again"}
    /\ \E o \in IF ring.mapped THEN {Refused} ELSE MapOutcomes :
          /\ Fail(o.cost)
          /\ ring' = [ring EXCEPT !.mapped = @ \/ o.ok]
          /\ open' = open \cup o.maps
          /\ counters' = Map(counters, o)
          /\ stuck' = (stuck \/ o.cost = 2)
          /\ GoOn(o.ok)
    /\ Same /\ UNCHANGED <<i, standard, regions, ret, region, dying, wild>>

\* Mutant: the ring still counts as mapped.
Unmapped_Forgotten == ring

\* unmap_standard_ring takes the ring for unmapped, whatever failed.
Unmapped == [ring EXCEPT !.mapped = FALSE]

\* unmap_standard_ring in r0; in the loop it completes an event.
UnmapRing ==
    /\ pc \in {"first_unmap", "unmap"} /\ ring.mapped
    /\ \E u \in Unmaps :
          LET done == pc = "unmap" /\ u.cost = 0
          IN  /\ Fail(u.cost)
              /\ open' = (open \ {"shared", "sqes"}) \cup (u.left \cap open)
              /\ counters' = [counters EXCEPT !.munmap = @ + 2 - u.cost,
                                              !.success = IF done THEN @ + 1 ELSE @]
              /\ i' = IF done THEN i + 1 ELSE i
              /\ stuck' = (stuck \/ u.cost > 0)
              /\ GoOn(u.cost = 0)
    /\ ring' = Unmapped
    /\ wild' = (wild \/ ~({"shared", "sqes"} \subseteq open))
    /\ Same /\ UNCHANGED <<standard, regions, ret, region, dying>>

\* submit_nop: enter or the CQE it finds may be wrong; a stop request ends an
\* interrupted enter without another try.
SubmitNop ==
    /\ pc = "nop"
    /\ \/ /\ ring.mapped
          /\ counters' = [counters EXCEPT !.nop = @ + 1]
          /\ \/ UNCHANGED faults /\ GoOn(TRUE)
             \/ Fail(1) /\ GoOn(FALSE)
       \/ /\ ~ring.mapped \/ stop_requested
          /\ GoOn(FALSE)
          /\ UNCHANGED <<counters, faults>>
       \/ /\ Fail(1)
          /\ GoOn(FALSE)
          /\ UNCHANGED counters
    /\ wild' = (wild \/ (ring.mapped /\ ~(Memory \subseteq open)))
    /\ Same /\ UNCHANGED <<ring, i, standard, regions, ret, open, region, dying, stuck>>

\* copy_ring_health and the checks after it; e0 and r0 have succeeded when it
\* is their last.
CheckHealth ==
    /\ pc = "health"
    /\ \E healthy \in BOOLEAN :
          /\ Fail(IF healthy THEN 0 ELSE 1)
          /\ counters' = [counters EXCEPT
                !.unhealthy = @ \/ ~healthy,
                !.success = IF healthy /\ profile = "e0" THEN 2 ELSE @]
          /\ ret' = (healthy /\ (profile = "e0" \/ (profile = "r0" /\ i > 0)))
          /\ GoOn(healthy)
    /\ wild' = (wild \/ ~(Memory \subseteq open))
    /\ Same /\ UNCHANGED <<ring, i, standard, regions, open, region, dying, stuck>>

\* close_ring: unmap if mapped, then close, which may fail and still frees the
\* fd.
NeedsUnmap == ring.mapped /\ ~ring.user_backed
CloseOutcomes ==
    [unmap : IF NeedsUnmap THEN Unmaps ELSE {[left |-> {}, cost |-> 0]},
     closeFails : IF ring.fd THEN BOOLEAN ELSE {FALSE}]

Closes(o) == o.unmap.cost = 0 /\ ~o.closeFails

CloseRing(o) ==
    /\ Fail(o.unmap.cost + (IF o.closeFails THEN 1 ELSE 0))
    /\ open' = IF NeedsUnmap THEN (open \ {"fd", "shared", "sqes"}) \cup (o.unmap.left \cap open)
                             ELSE open \ {"fd"}
    /\ ring' = [Unmapped EXCEPT !.fd = FALSE]
    /\ wild' = (wild \/ (NeedsUnmap /\ ~({"shared", "sqes"} \subseteq open))
                     \/ (ring.fd /\ "fd" \notin open))
    /\ stuck' = (stuck \/ o.unmap.cost > 0)
    /\ dying' = IF region = NoRegion THEN dying ELSE dying \cup {region}
    /\ region' = NoRegion
    /\ Same /\ UNCHANGED <<standard, regions, ret>>

Closed(o) ==
    [counters EXCEPT
        !.munmap = IF NeedsUnmap THEN @ + 2 - o.unmap.cost ELSE @,
        !.close = IF ring.fd /\ ~o.closeFails THEN @ + 1 ELSE @]

\* The end of an event of l0 and n0.
CloseEvent ==
    /\ pc = "close"
    /\ \E o \in CloseOutcomes :
          /\ CloseRing(o)
          /\ counters' = [Closed(o) EXCEPT !.success = IF Closes(o) THEN @ + 1 ELSE @]
          /\ i' = IF Closes(o) THEN i + 1 ELSE i
          /\ GoOn(Closes(o))

\* The closing of a ring on the way out of a round: a failure is a cleanup
\* failure and no more.
CloseOut(next) ==
    /\ \E o \in CloseOutcomes :
          /\ CloseRing(o)
          /\ counters' = [Closed(o) EXCEPT
                !.cleanup = @ \/ ~Closes(o),
                !.validation = @ \/ (pc = "out" /\ ~ret)]
    /\ pc' = next
    /\ UNCHANGED i

OutR0     == pc = "out" /\ CloseOut("row")
FailClose == pc = "fail_close" /\ CloseOut("fail")
OutUser   == pc = "out_user" /\ CloseOut("out_standard")

FailRound ==
    /\ pc = "fail"
    /\ counters' = [counters EXCEPT !.validation = TRUE]
    /\ pc' = IF profile = "n0" THEN "out_regions" ELSE "row"
    /\ Same /\ UNCHANGED <<ring, i, standard, regions, ret, open, region, dying,
                           faults, histVars>>

-----------------------------------------------------------------------------
(* Loops                                                                   *)

\* for (i = 0; i < events && !stop_requested; i++), and what follows it.
Loop ==
    /\ pc = "loop"
    /\ IF i < EVENTS /\ ~stop_requested
         THEN /\ pc' = [r0 |-> "map", l0 |-> "setup", n0 |-> "setup_user",
                        a0 |-> "anon"][profile]
              /\ UNCHANGED ret
         ELSE /\ pc' = CASE profile = "r0" -> IF i = EVENTS THEN "map_again" ELSE "out"
                         [] profile = "l0" -> IF i = EVENTS THEN "row" ELSE "fail"
                         [] profile = "n0" -> "out_regions"
                         [] profile = "a0" -> "row"
              /\ ret' = (i = EVENTS /\ profile # "r0")
    /\ Same /\ UNCHANGED <<ring, i, standard, regions, counters, open, region,
                           dying, faults, histVars>>

\* An event of a0: two mappings made and undone.  The second munmap is not
\* tried after the first failed.
AnonOutcomes ==
    {[mmap |-> 2, left |-> {}, failed |-> 0],
     [mmap |-> 0, left |-> {}, failed |-> 1],
     [mmap |-> 1, left |-> {}, failed |-> 1],
     [mmap |-> 1, left |-> {"anon_ring"}, failed |-> 2],
     [mmap |-> 2, left |-> {"anon_ring", "anon_sqes"}, failed |-> 1],
     [mmap |-> 2, left |-> {"anon_ring"}, failed |-> 1]}

AnonEvent ==
    /\ pc = "anon"
    /\ \E o \in AnonOutcomes :
          LET ok == o.failed = 0
          IN  /\ Fail(o.failed)
              /\ open' = open \cup o.left
              /\ counters' = [counters EXCEPT
                    !.mmap = @ + o.mmap,
                    !.munmap = IF ok THEN @ + 2 ELSE @,
                    !.success = IF ok THEN @ + 1 ELSE @,
                    !.validation = @ \/ ~ok]
              /\ i' = IF ok THEN i + 1 ELSE i
              /\ pc' = IF ok THEN "loop" ELSE "row"
              /\ stuck' = (stuck \/ o.left # {})
    /\ Same /\ UNCHANGED <<ring, standard, regions, ret, region, dying, wild>>

-----------------------------------------------------------------------------
(* User memory and e0                                                      *)

\* n0 keeps the pointer to its first mapping when the second fails, and gives
\* it back at the end; allocate_user_regions of e0 gives it back at once.
Regions ==
    /\ pc = "regions"
    /\ \/ /\ regions' = {"user_ring", "user_sqes"}
          /\ open' = open \cup {"user_ring", "user_sqes"}
          /\ GoOn(TRUE)
          /\ UNCHANGED <<faults, stuck>>
       \/ /\ Fail(1)
          /\ regions' \in {{}} \cup (IF profile = "n0" THEN {{"user_ring"}} ELSE {})
          /\ open' = open \cup regions'
          /\ GoOn(FALSE)
          /\ UNCHANGED stuck
       \/ /\ profile = "e0" /\ Fail(2)
          /\ open' = open \cup {"user_ring"}
          /\ stuck' = TRUE
          /\ GoOn(FALSE)
          /\ UNCHANGED regions
    /\ Same /\ UNCHANGED <<ring, i, standard, counters, ret, region, dying, wild>>

\* A mapping that has to be refused, at an offset that does not exist or on a
\* user-backed ring; if it is not, it is undone.
BadMap ==
    /\ pc \in {"bad_map", "bad_map_user"}
    /\ \/ GoOn(TRUE) /\ UNCHANGED <<open, faults, stuck>>
       \/ \E left \in SUBSET {"bad"} :
             /\ Fail(1 + Cardinality(left))
             /\ open' = open \cup left
             /\ stuck' = (stuck \/ left # {})
             /\ GoOn(FALSE)
    /\ Same /\ UNCHANGED <<ring, i, standard, regions, counters, ret, region, dying, wild>>

\* e0's out_standard.
OutStandard ==
    /\ pc = "out_standard"
    /\ \E fails \in BOOLEAN :
          /\ Fail(IF fails THEN 1 ELSE 0)
          /\ counters' = [counters EXCEPT !.close = IF fails THEN @ ELSE @ + 1,
                                          !.cleanup = @ \/ fails]
    /\ standard' = FALSE
    /\ open' = open \ {"standard"}
    /\ pc' = "out_regions"
    /\ Same /\ UNCHANGED <<ring, i, regions, ret, region, dying, histVars>>

\* out of n0 and e0.
OutRegions ==
    /\ pc = "out_regions"
    /\ \E left \in SUBSET regions :
          /\ Fail(Cardinality(left))
          /\ open' = (open \ regions) \cup left
          /\ counters' = [counters EXCEPT
                !.cleanup = @ \/ left # {},
                !.validation = @ \/ (profile = "e0" /\ ~ret)]
          /\ stuck' = (stuck \/ left # {})
    /\ pc' = "row"
    /\ Same /\ UNCHANGED <<ring, i, standard, regions, ret, region, dying, wild>>

-----------------------------------------------------------------------------
(* main                                                                    *)

\* Pinning, reading the kernel release, discover_geometry or opening the
\* output may fail; nothing is left open but what exit closes.
Start ==
    /\ pc = "start"
    /\ \/ pc' = "begin" /\ UNCHANGED faults
       \/ pc' = "exited" /\ Fail(1)
    /\ Same /\ UNCHANGED <<ring, i, standard, regions, counters, ret, open,
                           region, dying, histVars>>

Events == IF profile = "e0" THEN 2 ELSE EVENTS

\* Mutant: failures to clean up do not matter.
HealthyCounters_NoCleanup ==
    /\ counters.success = Events
    /\ ~counters.validation /\ ~counters.unhealthy

\* counters_pass.
HealthyCounters ==
    /\ counters.success = Events
    /\ ~counters.validation /\ ~counters.cleanup /\ ~counters.unhealthy

BalancedCounters ==
    CASE profile = "r0" -> /\ counters.mmap = counters.munmap
                           /\ counters.setup = 1 /\ counters.close = 1
                           /\ counters.nop = 2
      [] profile = "l0" -> /\ counters.setup = Events /\ counters.close = Events
                           /\ counters.nop = Events
                           /\ counters.mmap = counters.munmap
      [] profile = "n0" -> /\ counters.setup = Events /\ counters.close = Events
                           /\ counters.nop = Events
                           /\ counters.mmap = 0 /\ counters.munmap = 0
                           /\ counters.addr_ok
      [] profile = "a0" -> counters.mmap = 2 * Events /\ counters.munmap = 2 * Events
      [] OTHER -> TRUE

CountersPass == HealthyCounters /\ BalancedCounters

\* Mutant: a stop request between two rounds is no failure.
ExitStatus_StopIsFine(ok) == ok

\* A stop request makes the run fail, even after its last round.
ExitStatus(ok) == ok /\ ~stop_requested

NextRound(ok) == ok /\ round + 1 < Rounds /\ ~stop_requested

\* The row is written whether it passed or not; the first failure is the end.
WriteRow ==
    /\ pc = "row"
    /\ \E written \in BOOLEAN :
          LET ok == ret /\ CountersPass /\ written
          IN  /\ Fail(IF written THEN 0 ELSE 1)
              /\ rows' = IF written THEN Append(rows, CountersPass) ELSE rows
              /\ IF NextRound(ok)
                   THEN /\ pc' = "begin" /\ round' = round + 1
                        /\ UNCHANGED exitOk
                   ELSE /\ pc' = "exited" /\ exitOk' = ExitStatus(ok)
                        /\ UNCHANGED round
    /\ UNCHANGED <<run, i, ring, standard, regions, counters, ret,
                   stop_requested, open, region, dying, histVars>>

Exited == pc = "exited" /\ UNCHANGED vars

Program ==
    \/ Start \/ Begin \/ SetupStandard \/ SetupUser \/ MapRing \/ UnmapRing
    \/ SubmitNop \/ CheckHealth \/ CloseEvent \/ OutR0 \/ FailClose \/ OutUser
    \/ FailRound \/ Loop \/ AnonEvent \/ Regions \/ BadMap \/ OutStandard
    \/ OutRegions \/ WriteRow

Next == Program \/ Signal \/ KernelReleases \/ Exited

Spec == Init /\ [][Next]_vars

-----------------------------------------------------------------------------
(* Properties                                                              *)

\* However a round ends, at whichever step it failed, every descriptor and
\* mapping it made is gone by the time its row is written, unless the call that
\* should have released it failed.
LeakFree == pc \in {"row", "exited"} /\ ~stuck => open = {}

\* No ring memory is used, and nothing is unmapped or closed, that is not there
\* (any more): each release happens once, whatever failed before it.
NeverWild == ~wild

\* close does not wait for the kernel: n0 must not put a ring in memory that a
\* closed ring still uses.
NoSharedPages == region \notin dying

\* Nothing is written after a failed row; a row that passes tells, with its
\* counters alone, that everything the round made was released and that
\* run_profile returned 0; and a run exits with success only if all rows are
\* there and all of them passed.
ExitHonest ==
    [][/\ Len(rows') > Len(rows) =>
             /\ \A r \in 1..Len(rows) : rows[r]
             /\ rows'[Len(rows')] => open = {} /\ ret
       /\ exitOk' # exitOk =>
             Len(rows') = Rounds /\ \A r \in 1..Len(rows') : rows'[r]]_vars

=============================================================================
