---------------------------- MODULE SchedControl ----------------------------
(***************************************************************************)
(* sched_fair_control_v2_bench.c: rounds of timed scheduler system calls.  *)
(* In yield-dual the main thread and a peer yield to each other, a round   *)
(* at a time, in step by four generation counters; in affinity-queued the  *)
(* main thread (controller A) and controller B take turns to move a target *)
(* thread between two CPUs.  The other profiles call from the main thread  *)
(* only.  Each access of a shared word is a step of its own; calls of one  *)
(* thread between two such accesses are one step.  Time is left out, but   *)
(* for the ten seconds after which a wait ends the process (Slow).         *)
(***************************************************************************)
EXTENDS Integers, Sequences, FiniteSets

CONSTANTS
    Profiles,        \* profiles to run
    OPS,             \* --ops
    TOTAL_ROUNDS,    \* warm-ups and measured rounds
    Slow,            \* TRUE: a wait may last longer than WAIT_TIMEOUT_NS
    MaxFaults        \* bound: failing system calls per run

AllProfiles == {"yield-dual", "yield-solo", "setparam-current", "setparam-fast-control",
                "affinity-queued", "affinity-same-mask"}
Setparam == {"setparam-current", "setparam-fast-control"}
Affinity == {"affinity-queued", "affinity-same-mask"}

ASSUME SchedControlAssumption ==
    /\ Profiles \subseteq AllProfiles
    /\ OPS \in Nat \ {0} /\ ("affinity-queued" \in Profiles => OPS % 2 = 0)
    /\ TOTAL_ROUNDS \in Nat \ {0}
    /\ Slow \in BOOLEAN /\ MaxFaults \in Nat

VARIABLES
    profile,         \* of the command line
    pc,              \* where each thread is
    exit,            \* "running", "success", or why the process ended
    round,           \* the round of the main thread
    peer_round,      \* the round of the yield peer
    yield,           \* struct yield_peer_state: the shared words
    previous_peer_errors,
    aff,             \* struct affinity_state: the shared words; heartbeat says
                     \* that target_heartbeat is above heartbeat_before
    i,               \* loop counters of the two controllers
    success,         \* calls of the running round that each thread counted
    errors,          \* failing calls of the running round, likewise
    target_cpu_read, \* the target's sched_getcpu() between call and store
    rows,            \* rows measured: requested, success and errors
    printed,         \* number of rows printed
    target_mask,     \* kernel: CPU of the target's affinity mask
    slice,           \* kernel: the main thread's slice
    affinity,        \* kernel: the main thread's affinity
    faults,          \* failing system calls so far
    made,            \* history: timed calls made in each round
    failed           \* history: timed calls that failed in each round

yieldVars == <<peer_round, yield, previous_peer_errors>>
affVars   == <<aff, i, target_cpu_read, target_mask>>
mainVars  == <<round, rows, printed, slice, affinity>>
callVars  == <<success, errors, made, failed, faults>>
vars      == <<profile, pc, exit, yieldVars, affVars, mainVars, callVars>>

Threads == {"main", "peer", "target", "ctl_b"}
Callers == {"main", "peer", "ctl_b"}
Rounds == 1..TOTAL_ROUNDS
CPU_A == "cpu_a"
CPU_B == "cpu_b"

\* The shared words of a new affinity round.
AffinityInit ==
    [turn |-> 0, heartbeat |-> FALSE, last_cpu |-> "none", target_ready |-> FALSE,
     b_ready |-> FALSE, b_success |-> 0, b_errors |-> 0,
     stop |-> FALSE, thread_error |-> FALSE]

Init ==
    /\ profile \in Profiles
    /\ pc = [t \in Threads |-> IF t = "main" THEN "start" ELSE "none"]
    /\ exit = "running"
    /\ round = 1 /\ peer_round = 1
    /\ yield = [ready |-> 0, go |-> 0, peer_done |-> 0, main_done |-> 0,
                cumulative_errors |-> 0, thread_error |-> FALSE]
    /\ previous_peer_errors = 0
    /\ aff = AffinityInit /\ i = [t \in {"main", "ctl_b"} |-> 0]
    /\ success = [t \in Callers |-> 0] /\ errors = [t \in Callers |-> 0]
    /\ target_cpu_read = "none"
    /\ rows = <<>> /\ printed = 0
    /\ target_mask = "original" /\ slice = "default" /\ affinity = "original"
    /\ faults = 0
    /\ made = [r \in Rounds |-> 0] /\ failed = [r \in Rounds |-> 0]

-----------------------------------------------------------------------------

At(t, l) == exit = "running" /\ pc[t] = l
Goto(t, l) == pc' = [pc EXCEPT ![t] = l] /\ UNCHANGED exit

\* die and fail end the process from any thread, and with it all the others.
Fail(what) == exit' = what /\ UNCHANGED pc

\* Thread t makes n timed calls in round r, at most one of which fails.
Calls(t, r, n) ==
    \E bad \in IF faults < MaxFaults THEN {0, 1} ELSE {0} :
        /\ success' = [success EXCEPT ![t] = @ + n - bad]
        /\ errors' = [errors EXCEPT ![t] = @ + bad]
        /\ made' = [made EXCEPT ![r] = @ + n]
        /\ failed' = [failed EXCEPT ![r] = @ + bad]
        /\ faults' = faults + bad

\* The wait for a shared word ends, or the other thread has failed.
Await(t, l, word, thread_error, next) ==
    /\ At(t, l)
    /\ \/ word /\ Goto(t, next)
       \/ ~word /\ thread_error /\ Fail(l)
    /\ UNCHANGED <<profile, yieldVars, affVars, mainVars, callVars>>

Waits == {"wait_ready", "wait_go", "wait_peer_done", "wait_main_done", "wait_target",
          "wait_b", "wait_turn", "wait_final_turn", "wait_on_cpu"}

\* WAIT_TIMEOUT_NS have passed in a wait.
TimesOut ==
    /\ exit = "running" /\ Slow
    /\ \E t \in Threads : pc[t] \in Waits /\ Fail(pc[t])
    /\ UNCHANGED <<profile, yieldVars, affVars, mainVars, callVars>>

\* A system call outside the timed loops fails, or a check of the main
\* thread's state does.
Dies ==
    /\ exit = "running" /\ faults < MaxFaults
    /\ pc["main"] \in {"start", "pin", "verify", "spawn", "snapshot", "check_mask", "validate",
                       "restore"}
    /\ faults' = faults + 1
    /\ Fail("die")
    /\ UNCHANGED <<profile, yieldVars, affVars, mainVars, success, errors, made, failed>>

\* A thread cannot set its affinity: it says so and ends.
WorkerFails ==
    /\ exit = "running" /\ faults < MaxFaults
    /\ faults' = faults + 1
    /\ \E t \in Threads \ {"main"} :
          /\ pc[t] = "start"
          /\ Goto(t, "ended")
          /\ IF t = "peer" THEN yield' = [yield EXCEPT !.thread_error = TRUE] /\ UNCHANGED aff
                           ELSE aff' = [aff EXCEPT !.thread_error = TRUE] /\ UNCHANGED yield
    /\ UNCHANGED <<profile, peer_round, previous_peer_errors, i, target_cpu_read,
                   target_mask, mainVars, success, errors, made, failed>>

-----------------------------------------------------------------------------
(* run_yield_dual and yield_peer_main                                      *)

StoreYield(t, l, word, next) ==
    /\ At(t, l) /\ Goto(t, next)
    /\ yield' = [yield EXCEPT ![word] = IF t = "main" THEN round ELSE peer_round]
    /\ UNCHANGED <<profile, peer_round, previous_peer_errors, affVars, mainVars, callVars>>

\* Mutant: a generation may be one behind.
Reached_Behind(word, r) == yield[word] + 1 >= r

Reached(word, r) == yield[word] >= r

Yields(t, r, next) ==
    /\ At(t, "yields") /\ Goto(t, next)
    /\ Calls(t, r, OPS)
    /\ UNCHANGED <<profile, yieldVars, affVars, mainVars>>

\* Mutant: the peer's errors of earlier rounds are counted again.
Previous_Forgotten(total) == 0

Previous(total) == total

\* The peer's errors of this round are those added since the last one.
AccountRow ==
    /\ At("main", "account")
    /\ LET bad == errors["main"] + yield.cumulative_errors - previous_peer_errors
       IN  rows' = Append(rows, [requested |-> 2 * OPS, success |-> 2 * OPS - bad,
                                 errors |-> bad])
    /\ previous_peer_errors' = Previous(yield.cumulative_errors)
    /\ success' = [success EXCEPT !["main"] = 0] /\ errors' = [errors EXCEPT !["main"] = 0]
    /\ IF round < TOTAL_ROUNDS THEN round' = round + 1 /\ Goto("main", "wait_ready")
                               ELSE round' = 1 /\ Goto("main", "join_peer")
    /\ UNCHANGED <<profile, peer_round, yield, affVars, printed, slice, affinity, made,
                   failed, faults>>

JoinPeer ==
    /\ At("main", "join_peer") /\ pc["peer"] = "ended"
    /\ IF yield.thread_error THEN Fail("yield peer failed") ELSE Goto("main", "verify")
    /\ UNCHANGED <<profile, yieldVars, affVars, mainVars, callVars>>

MainYield ==
    \/ /\ At("main", "pin") /\ Goto("main", "wait_ready")
       /\ affinity' = CPU_A
       /\ UNCHANGED <<profile, yieldVars, affVars, round, rows, printed, slice, callVars>>
    \/ Await("main", "wait_ready", Reached("ready", round), yield.thread_error, "store_go")
    \/ StoreYield("main", "store_go", "go", "yields")
    \/ Yields("main", round, "store_main_done")
    \/ StoreYield("main", "store_main_done", "main_done", "wait_peer_done")
    \/ Await("main", "wait_peer_done", Reached("peer_done", round), yield.thread_error,
             "account")
    \/ AccountRow
    \/ JoinPeer

\* The peer's errors are added before its round is done.
PeerAdds ==
    /\ At("peer", "add") /\ Goto("peer", "store_peer_done")
    /\ yield' = [yield EXCEPT !.cumulative_errors = @ + errors["peer"]]
    /\ success' = [success EXCEPT !["peer"] = 0] /\ errors' = [errors EXCEPT !["peer"] = 0]
    /\ UNCHANGED <<profile, peer_round, previous_peer_errors, affVars, mainVars, made, failed,
                   faults>>

PeerNextRound ==
    /\ At("peer", "next")
    /\ IF peer_round < TOTAL_ROUNDS
         THEN peer_round' = peer_round + 1 /\ Goto("peer", "store_ready")
         ELSE Goto("peer", "ended") /\ UNCHANGED peer_round
    /\ UNCHANGED <<profile, yield, previous_peer_errors, affVars, mainVars, callVars>>

PeerYield ==
    \/ /\ At("peer", "start") /\ Goto("peer", "store_ready")
       /\ UNCHANGED <<profile, yieldVars, affVars, mainVars, callVars>>
    \/ StoreYield("peer", "store_ready", "ready", "wait_go")
    \/ Await("peer", "wait_go", Reached("go", peer_round), yield.thread_error, "yields")
    \/ Yields("peer", peer_round, "add")
    \/ PeerAdds
    \/ StoreYield("peer", "store_peer_done", "peer_done", "wait_main_done")
    \/ Await("peer", "wait_main_done", Reached("main_done", peer_round), yield.thread_error,
             "next")
    \/ PeerNextRound

-----------------------------------------------------------------------------
(* run_affinity_round and its threads                                      *)

\* Where the target starts, and where it has to be at the end.
TargetCpu == IF profile = "affinity-queued" THEN CPU_A ELSE CPU_B

\* A step of thread t at l that only changes the shared words of the round.
StoreAff(t, l, words, next) ==
    /\ At(t, l) /\ Goto(t, next)
    /\ aff' = words
    /\ UNCHANGED <<profile, yieldVars, i, target_cpu_read, target_mask, mainVars, callVars>>

\* sched_setaffinity on the target; the kernel moves it before it returns.
SetTargetCpu(t, cpu, n) ==
    /\ Calls(t, round, n)
    /\ target_mask' = IF success' # success THEN cpu ELSE target_mask
    /\ UNCHANGED <<profile, yieldVars, aff, i, target_cpu_read, mainVars>>

SpawnTarget ==
    /\ At("main", "spawn")
    /\ pc' = [pc EXCEPT !["main"] = "wait_target", !["target"] = "start", !["ctl_b"] = "none"]
    /\ aff' = AffinityInit /\ i' = [main |-> 0, ctl_b |-> 1]
    /\ UNCHANGED <<profile, exit, yieldVars, target_cpu_read, target_mask, mainVars, callVars>>

SpawnControllerB ==
    /\ At("main", "spawn_b")
    /\ pc' = [pc EXCEPT !["main"] = "wait_b", !["ctl_b"] = "start"]
    /\ UNCHANGED <<profile, exit, yieldVars, affVars, mainVars, callVars>>

\* pin_current, and the heartbeat before the calls.
Snapshot ==
    /\ At("main", "snapshot")
    /\ Goto("main", IF profile = "affinity-queued" THEN "wait_turn" ELSE "same_mask")
    /\ aff' = [aff EXCEPT !.heartbeat = FALSE]
    /\ affinity' = CPU_A
    /\ UNCHANGED <<profile, yieldVars, i, target_cpu_read, target_mask, round, rows, printed,
                   slice, callVars>>

\* Mutant: the turn is not waited for.
MayCall_Always(t) == TRUE

MayCall(t) == aff.turn >= i[t]

\* The two controllers have the same loop, over even and odd turns.
Call(t, cpu) == At(t, "call") /\ Goto(t, "store_turn") /\ SetTargetCpu(t, cpu, 1)

\* Mutant: the loops end one turn early.
LoopsOn_OneLess(t) == i[t] + 2 < OPS - 1

LoopsOn(t) == i[t] + 2 < OPS

StoreTurn(t, last) ==
    /\ At(t, "store_turn")
    /\ aff' = [aff EXCEPT !.turn = i[t] + 1]
    /\ i' = [i EXCEPT ![t] = @ + 2]
    /\ Goto(t, IF LoopsOn(t) THEN "wait_turn" ELSE last)
    /\ UNCHANGED <<profile, yieldVars, target_cpu_read, target_mask, mainVars, callVars>>

\* One of controller B's sums is added to controller A's.
ReadSums ==
    \/ /\ At("main", "read_success") /\ Goto("main", "read_errors")
       /\ success' = [success EXCEPT !["main"] = @ + aff.b_success]
       /\ UNCHANGED <<profile, yieldVars, affVars, mainVars, errors, made, failed, faults>>
    \/ /\ At("main", "read_errors") /\ Goto("main", "join_b")
       /\ errors' = [errors EXCEPT !["main"] = @ + aff.b_errors]
       /\ UNCHANGED <<profile, yieldVars, affVars, mainVars, success, made, failed, faults>>

SameMask == At("main", "same_mask") /\ Goto("main", "check_mask")
            /\ SetTargetCpu("main", TargetCpu, OPS)

JoinControllerB ==
    /\ At("main", "join_b") /\ pc["ctl_b"] = "ended" /\ Goto("main", "check_mask")
    /\ UNCHANGED <<profile, yieldVars, affVars, mainVars, callVars>>

\* verify_target_mask.
CheckMask ==
    /\ At("main", "check_mask")
    /\ IF target_mask = TargetCpu THEN Goto("main", "wait_on_cpu") ELSE Fail("target mask")
    /\ UNCHANGED <<profile, yieldVars, affVars, mainVars, callVars>>

\* A row of a profile other than yield-dual.
AddRow ==
    /\ rows' = Append(rows, [requested |-> OPS, success |-> success["main"],
                             errors |-> errors["main"]])
    /\ success' = [t \in Callers |-> 0] /\ errors' = [t \in Callers |-> 0]
    /\ UNCHANGED <<profile, yieldVars, affVars, round, printed, slice, affinity, made, failed,
                   faults>>

JoinTarget ==
    /\ At("main", "join_target") /\ pc["target"] = "ended"
    /\ IF aff.thread_error THEN Fail("affinity worker failed") ELSE Goto("main", "validate")
    /\ AddRow

MainAffinity ==
    \/ SpawnTarget \/ SpawnControllerB \/ Snapshot
    \/ Await("main", "wait_target", aff.target_ready, aff.thread_error,
             IF profile = "affinity-queued" THEN "spawn_b" ELSE "snapshot")
    \/ Await("main", "wait_b", aff.b_ready, aff.thread_error, "snapshot")
    \/ Await("main", "wait_turn", MayCall("main"), aff.thread_error, "call")
    \/ Call("main", CPU_B) \/ StoreTurn("main", "wait_final_turn")
    \/ Await("main", "wait_final_turn", aff.turn >= OPS, aff.thread_error, "read_success")
    \/ ReadSums \/ SameMask \/ JoinControllerB \/ CheckMask
    \/ Await("main", "wait_on_cpu", aff.last_cpu = TargetCpu /\ aff.heartbeat,
             aff.thread_error, "stop")
    \/ StoreAff("main", "stop", [aff EXCEPT !.stop = TRUE], "join_target")
    \/ JoinTarget

\* affinity_target_main: a heartbeat is stored before the CPU it was read on.
Target ==
    \/ /\ At("target", "start") /\ Goto("target", "beat")
       /\ target_mask' = TargetCpu
       /\ aff' = [aff EXCEPT !.last_cpu = TargetCpu, !.target_ready = TRUE]
       /\ UNCHANGED <<profile, yieldVars, i, target_cpu_read, mainVars, callVars>>
    \/ /\ At("target", "beat") /\ Goto("target", IF aff.stop THEN "last_report" ELSE "report")
       /\ aff' = [aff EXCEPT !.heartbeat = TRUE]
       /\ target_cpu_read' = target_mask
       /\ UNCHANGED <<profile, yieldVars, i, target_mask, mainVars, callVars>>
    \/ StoreAff("target", "report", [aff EXCEPT !.last_cpu = target_cpu_read], "beat")
    \/ StoreAff("target", "last_report", [aff EXCEPT !.last_cpu = target_cpu_read], "ended")

\* affinity_controller_b_main: the sums are stored after the last turn.
ControllerB ==
    \/ StoreAff("ctl_b", "start", [aff EXCEPT !.b_ready = TRUE], "wait_turn")
    \/ Await("ctl_b", "wait_turn", MayCall("ctl_b"), aff.thread_error, "call")
    \/ Call("ctl_b", CPU_A) \/ StoreTurn("ctl_b", "store_success")
    \/ StoreAff("ctl_b", "store_success", [aff EXCEPT !.b_success = success["ctl_b"]],
                "store_errors")
    \/ StoreAff("ctl_b", "store_errors", [aff EXCEPT !.b_errors = errors["ctl_b"]], "ended")

-----------------------------------------------------------------------------
(* main                                                                    *)

Start ==
    /\ At("main", "start")
    /\ IF profile = "yield-dual"
         THEN /\ pc' = [pc EXCEPT !["main"] = "pin", !["peer"] = "start"]
              /\ UNCHANGED affinity
         ELSE /\ pc' = [pc EXCEPT !["main"] = "verify"]
              /\ affinity' = CPU_A
    /\ UNCHANGED <<profile, exit, yieldVars, affVars, round, rows, printed, slice, callVars>>

\* verify_current_state, and the slice that the setparam profiles start from.
Verify ==
    /\ At("main", "verify") /\ Goto("main", "rounds")
    /\ slice' = IF profile = "setparam-fast-control" THEN "custom" ELSE "default"
    /\ UNCHANGED <<profile, yieldVars, affVars, round, rows, printed, affinity, callVars>>

\* A round begins; yield-dual has measured all of them already.
BeginRound ==
    /\ At("main", "rounds")
    /\ Goto("main", IF profile = "yield-dual" THEN "validate"
                    ELSE IF profile \in Affinity THEN "spawn" ELSE "alone")
    /\ UNCHANGED <<profile, yieldVars, affVars, mainVars, callVars>>

\* The timed loop of a round, and its row.
CallAlone ==
    \/ /\ At("main", "alone") /\ Goto("main", "row")
       /\ Calls("main", round, OPS)
       /\ UNCHANGED <<profile, yieldVars, affVars, mainVars>>
    \/ At("main", "row") /\ Goto("main", "validate") /\ AddRow

RunYieldSolo == profile = "yield-solo" /\ CallAlone

RunSetparam == profile \in Setparam /\ CallAlone

\* Mutant: errors are not looked at, for the successes say the same.
RowValid_Errors(row) == row.success + row.errors = row.requested

RowValid(row) == row.errors = 0 /\ row.success = row.requested

\* validate_row and print_row.
Validate ==
    /\ At("main", "validate")
    /\ IF RowValid(rows[round])
         THEN /\ printed' = printed + 1
              /\ IF round < TOTAL_ROUNDS THEN round' = round + 1 /\ Goto("main", "rounds")
                                         ELSE Goto("main", "restore") /\ UNCHANGED round
         ELSE Fail("timed syscall semantic error") /\ UNCHANGED <<printed, round>>
    /\ UNCHANGED <<profile, yieldVars, affVars, rows, slice, affinity, callVars>>

Restore ==
    /\ At("main", "restore")
    /\ slice' = "default" /\ affinity' = "original"
    /\ Fail("success")
    /\ UNCHANGED <<profile, yieldVars, affVars, round, rows, printed, callVars>>

Main ==
    \/ Start \/ Verify \/ BeginRound \/ RunYieldSolo \/ RunSetparam \/ Validate \/ Restore
    \/ MainYield \/ MainAffinity

Ended == exit # "running" /\ UNCHANGED vars

Next == Main \/ PeerYield \/ Target \/ ControllerB \/ WorkerFails \/ Dies \/ TimesOut \/ Ended

\* Every thread is scheduled.
Spec ==
    /\ Init /\ [][Next]_vars
    /\ WF_vars(Main) /\ WF_vars(PeerYield) /\ WF_vars(Target) /\ WF_vars(ControllerB)

-----------------------------------------------------------------------------
(* Properties                                                              *)

\* The yields of the main thread and of the peer are of the same round: neither
\* begins a round before both have left the one before, in which their timed
\* calls and their errors would get mixed.
Lockstep ==
    /\ pc["peer"] = "yields" =>
          pc["main"] \in {"yields", "store_main_done", "wait_peer_done"} /\ round = peer_round
    /\ pc["main"] = "yields" =>
          /\ pc["peer"] \in {"wait_go", "yields", "add", "store_peer_done", "wait_main_done"}
          /\ round = peer_round

\* A printed row counts the calls of all threads of its own round: none of them
\* failed, and none is missing.  The errors of a round stand in its own row,
\* those of the peer included, although the peer only adds up over all rounds.
\* A run that succeeds has printed all rows and given back slice and affinity.
RowSound ==
    /\ \A r \in 1..printed : failed[r] = 0 /\ made[r] = rows[r].requested
    /\ profile = "yield-dual" => \A r \in DOMAIN rows : rows[r].errors = failed[r]
    /\ exit = "success" => /\ printed = TOTAL_ROUNDS
                           /\ slice = "default" /\ affinity = "original"

\* In affinity-queued every timed call moves the target: the controllers never
\* overtake each other, and so no call asks for the CPU the target is on.
EveryCallMoves ==
    [][profile = "affinity-queued" /\ made' # made /\ faults' = 0
          => target_mask' # target_mask]_vars

\* No thread waits for ever, even if a wait had no timeout.
Terminates == <>(exit # "running")

\* The message of validate_row says that a timed system call failed.
SemanticErrorIsReal ==
    exit = "timed syscall semantic error" => \E r \in Rounds : failed[r] > 0

=============================================================================
