------------------------ MODULE SchedControl_proofs ------------------------
(***************************************************************************)
(* Proofs about SchedControl for any number of calls and rounds and any    *)
(* number of failing calls: main thread and peer yield in step, the two    *)
(* controllers alternate, and a printed row counts the calls of its round. *)
(***************************************************************************)
EXTENDS SchedControl, TLAPS

\* Where the threads can be; for main it depends on the profile.
Loop == {"wait_ready", "store_go", "yields", "store_main_done", "wait_peer_done", "account"}
Dual == {"start", "pin"} \cup Loop \cup {"join_peer", "verify", "rounds", "validate", "restore"}
Alone == {"start", "verify", "rounds", "alone", "row", "validate", "restore"}
Ends == {"check_mask", "wait_on_cpu", "stop", "join_target", "validate", "restore"}
SameMaskPlaces == {"start", "verify", "rounds", "spawn", "wait_target", "snapshot", "same_mask"} \cup Ends
Turns == {"wait_target", "spawn_b", "wait_b", "snapshot", "wait_turn", "call", "store_turn",
          "wait_final_turn", "read_success"}
Queued == {"start", "verify", "rounds", "spawn"} \cup Turns \cup {"read_errors", "join_b"} \cup Ends

MainPlaces ==
    CASE profile = "yield-dual"         -> Dual
      [] profile = "affinity-same-mask" -> SameMaskPlaces
      [] profile = "affinity-queued"    -> Queued
      [] OTHER                          -> Alone

PeerRuns == {"start", "store_ready", "wait_go", "yields", "add", "store_peer_done",
             "wait_main_done", "next", "ended"}
TargetRuns == {"start", "beat", "report", "last_report", "ended"}
ControllerRuns == {"start", "wait_turn", "call", "store_turn", "store_success", "store_errors",
                   "ended"}

RowType == [requested : Nat, success : Int, errors : Int]

\* Who runs under which profile, and where.
Places ==
    /\ profile \in Profiles
    /\ pc = [t \in Threads |-> pc[t]]
    /\ pc["main"] \in MainPlaces
    /\ pc["peer"] \in PeerRuns \cup {"none"}
    /\ profile # "yield-dual" => pc["peer"] = "none"
    /\ pc["target"] \in TargetRuns \cup {"none"}
    /\ profile \notin Affinity => pc["target"] = "none"
    /\ pc["ctl_b"] \in ControllerRuns \cup {"none"}
    /\ profile # "affinity-queued" => pc["ctl_b"] = "none"

YieldTypes ==
    /\ peer_round \in Rounds
    /\ yield \in [ready : Nat, go : Nat, peer_done : Nat, main_done : Nat,
                  cumulative_errors : Nat, thread_error : BOOLEAN]
    /\ previous_peer_errors \in Nat

Cpus == {"none", "original", CPU_A, CPU_B}

AffTypes ==
    /\ aff \in [turn : Nat, heartbeat : BOOLEAN, last_cpu : Cpus, target_ready : BOOLEAN,
                b_ready : BOOLEAN, b_success : Nat, b_errors : Nat, stop : BOOLEAN,
                thread_error : BOOLEAN]
    /\ i \in [{"main", "ctl_b"} -> Nat]
    /\ target_cpu_read \in Cpus /\ target_mask \in Cpus

MainTypes == round \in Rounds /\ rows \in Seq(RowType) /\ printed \in Nat

CallTypes ==
    /\ success \in [Callers -> Nat] /\ errors \in [Callers -> Nat]
    /\ made \in [Rounds -> Nat] /\ failed \in [Rounds -> Nat] /\ faults \in Nat

Types == Places /\ YieldTypes /\ AffTypes /\ MainTypes /\ CallTypes

-----------------------------------------------------------------------------
(* yield-dual                                                              *)

\* The round main is in, one more than there are when it has left its loop.
MainRound == IF pc["main"] \in {"start", "pin"} \cup Loop THEN round ELSE TOTAL_ROUNDS + 1

\* The peer ended after all its rounds, and not for want of a CPU.
PeerThrough == pc["peer"] = "ended" /\ ~yield.thread_error

\* Each word is the generation its owner has reached.
WordsInv ==
    /\ yield.go = IF pc["main"] \in {"yields", "store_main_done", "wait_peer_done", "account"}
                    THEN MainRound ELSE MainRound - 1
    /\ yield.main_done = IF pc["main"] \in {"wait_peer_done", "account"}
                           THEN MainRound ELSE MainRound - 1
    /\ yield.ready = IF pc["peer"] \in {"none", "start", "store_ready"} \/ yield.thread_error
                       THEN peer_round - 1 ELSE peer_round
    /\ yield.peer_done = IF pc["peer"] \in {"wait_main_done", "next"} \/ PeerThrough
                           THEN peer_round ELSE peer_round - 1

\* Each has waited for what the other had to reach first.
WaitedInv ==
    /\ pc["main"] \in {"start", "pin"} => round = 1
    /\ (pc["main"] = "start") = (pc["peer"] = "none")
    /\ pc["peer"] \in {"none", "start"} => peer_round = 1
    /\ yield.thread_error => pc["peer"] = "ended" /\ peer_round = 1
    /\ PeerThrough => peer_round = TOTAL_ROUNDS
    /\ yield.ready >= IF pc["main"] \in Loop \ {"wait_ready"} THEN MainRound ELSE MainRound - 1
    /\ yield.peer_done >= IF pc["main"] = "account" THEN MainRound ELSE MainRound - 1
    /\ yield.go >= IF pc["peer"] \in {"yields", "add", "store_peer_done", "wait_main_done",
                                      "next"} \/ PeerThrough
                     THEN peer_round ELSE peer_round - 1
    /\ yield.main_done >= IF pc["peer"] = "next" \/ PeerThrough THEN peer_round
                                                                ELSE peer_round - 1

\* The peer has yielded in round r.
PeerYielded(r) ==
    \/ peer_round > r
    \/ peer_round = r /\ (pc["peer"] \in {"add", "store_peer_done", "wait_main_done", "next"}
                          \/ PeerThrough)

MainYielded == pc["main"] \in {"store_main_done", "wait_peer_done", "account"}

\* The rounds behind main are in their rows; of its own round, what failed is
\* what main and the peer hold and what the peer has added since the last row.
DualCounts ==
    /\ Len(rows) = MainRound - 1
    /\ \A r \in Rounds : r < MainRound =>
          /\ made[r] = 2 * OPS
          /\ rows[r].requested = 2 * OPS /\ rows[r].errors = failed[r]
    /\ \A r \in Rounds : r > MainRound => made[r] = 0 /\ failed[r] = 0
    /\ MainRound \in Rounds =>
          /\ made[MainRound] = (IF MainYielded THEN OPS ELSE 0)
                               + (IF PeerYielded(MainRound) THEN OPS ELSE 0)
          /\ failed[MainRound] = errors["main"] + errors["peer"]
                                 + yield.cumulative_errors - previous_peer_errors
    /\ ~MainYielded => errors["main"] = 0
    /\ pc["peer"] # "add" => errors["peer"] = 0

DualInv == profile = "yield-dual" => WordsInv /\ WaitedInv /\ DualCounts

-----------------------------------------------------------------------------
(* The other profiles                                                      *)

\* The places before and after the timed calls of a round.
Before == {"start", "verify", "rounds", "alone", "spawn", "same_mask"}
After == {"row", "read_errors", "join_b", "check_mask", "wait_on_cpu", "stop", "join_target"}

\* Rows are complete, and claim no more successes than there were.
SingleCounts ==
    /\ pc["main"] \in {"start", "verify"} => round = 1
    /\ Len(rows) = IF pc["main"] = "validate" THEN round
                   ELSE IF pc["main"] = "restore" THEN TOTAL_ROUNDS ELSE round - 1
    /\ \A r \in Rounds : r <= Len(rows) =>
          /\ made[r] = OPS
          /\ rows[r].requested = OPS /\ rows[r].success + failed[r] <= OPS
    /\ \A r \in Rounds : r > round => made[r] = 0 /\ failed[r] = 0
    /\ (\/ pc["main"] \in Before
        \/ profile = "affinity-same-mask" /\ pc["main"] \in {"wait_target", "snapshot"})
       => /\ made[round] = 0 /\ failed[round] = 0
          /\ \A t \in Callers : success[t] = 0
    /\ pc["main"] \in After => made[round] = OPS /\ success["main"] + failed[round] <= OPS
    /\ pc["main"] = "validate" => \A t \in Callers : success[t] = 0

\* The places of main while the threads of a round run.
Running == Turns \cup {"same_mask", "read_errors", "join_b"} \cup (Ends \ {"validate", "restore"})

\* A thread that fails has not said that it is ready, and main is waiting for it.
ReadyInv ==
    /\ pc["main"] \notin Running => pc["target"] \in {"none", "ended"} /\ pc["ctl_b"] # "start"
    /\ pc["main"] \in Running =>
          /\ pc["main"] # "wait_target" => aff.target_ready
          /\ aff.target_ready => pc["target"] # "start"
          /\ pc["main"] \in {"wait_target", "spawn_b"} => pc["ctl_b"] = "none" /\ ~aff.b_ready
          /\ pc["ctl_b"] = "start" => pc["main"] = "wait_b" /\ ~aff.b_ready
          /\ aff.thread_error =>
                \/ pc["main"] = "wait_target" /\ pc["target"] = "ended" /\ ~aff.target_ready
                \/ pc["main"] = "wait_b" /\ pc["ctl_b"] = "ended" /\ ~aff.b_ready

SingleInv == profile # "yield-dual" => SingleCounts /\ ReadyInv

InStore == pc["main"] = "store_turn" \/ pc["ctl_b"] = "store_turn"

\* While the controllers take turns: the one whose turn it is, is one behind.
TurnInv ==
    /\ \/ aff.turn = i["main"] /\ i["ctl_b"] = i["main"] + 1
       \/ aff.turn = i["ctl_b"] /\ i["main"] = i["ctl_b"] + 1
    /\ i["main"] % 2 = 0
    /\ pc["main"] \in {"wait_target", "spawn_b", "wait_b", "snapshot"} => i["main"] = 0
    /\ pc["main"] \in {"wait_turn", "call", "store_turn"} => i["main"] < OPS
    /\ pc["main"] \in {"call", "store_turn"} => aff.turn = i["main"]
    /\ pc["main"] \in {"wait_final_turn", "read_success"} => i["main"] = OPS
    /\ pc["main"] = "read_success" => aff.turn = OPS
    /\ pc["ctl_b"] \in {"none", "start"} => i["ctl_b"] = 1
    /\ pc["ctl_b"] \in {"wait_turn", "call", "store_turn"} => i["ctl_b"] < OPS
    /\ pc["ctl_b"] \in {"call", "store_turn"} => aff.turn = i["ctl_b"]

\* Each turn is a call, and each call a success or a failure.
TurnCounts ==
    /\ made[round] = aff.turn + (IF InStore THEN 1 ELSE 0)
    /\ success["main"] + success["ctl_b"] + failed[round] = made[round]
    /\ aff.b_success <= success["ctl_b"]

\* Where the target is, if no call failed.
MaskInv ==
    (pc["main"] = "wait_target" => aff.target_ready) =>
        target_mask = IF pc["main"] = "store_turn" THEN CPU_B
                      ELSE IF pc["ctl_b"] = "store_turn" THEN CPU_A
                      ELSE IF aff.turn = i["main"] THEN CPU_A ELSE CPU_B

QueuedInv ==
    profile = "affinity-queued" =>
        /\ pc["main"] \in Turns => TurnInv /\ TurnCounts /\ (faults = 0 => MaskInv)
        /\ pc["main"] \notin Turns =>
              pc["ctl_b"] \in {"none", "store_success", "store_errors", "ended"}

-----------------------------------------------------------------------------
\* Rows are printed in their turn, and what is printed is right.
PrintInv ==
    /\ printed = IF pc["main"] = "restore" THEN TOTAL_ROUNDS
                 ELSE IF profile = "yield-dual"
                         /\ pc["main"] \in {"start", "pin", "join_peer", "verify"} \cup Loop
                        THEN 0
                 ELSE round - 1
    /\ pc["main"] \in {"join_peer", "verify"} => round = 1
    /\ \A r \in 1..printed : failed[r] = 0 /\ made[r] = rows[r].requested
    /\ exit = "success" => printed = TOTAL_ROUNDS /\ slice = "default" /\ affinity = "original"

IInv == Types /\ DualInv /\ SingleInv /\ QueuedInv /\ PrintInv

-----------------------------------------------------------------------------
(* Types                                                                   *)

\* What the places of the main thread say about the profile.
LEMMA ProfilePlaces ==
    ASSUME Places
    PROVE  /\ pc["main"] \in {"pin", "join_peer"} \cup Loop => profile = "yield-dual"
           /\ pc["main"] \in {"alone", "row"} => profile \notin Affinity \cup {"yield-dual"}
           /\ pc["main"] \in Turns \cup (Ends \ {"validate", "restore"})
                             \cup {"spawn", "same_mask", "read_errors", "join_b"}
                 => profile \in Affinity
           /\ pc["main"] \in {"spawn_b", "wait_b", "wait_turn", "call", "store_turn",
                             "wait_final_turn", "read_success", "read_errors", "join_b"}
                 => profile = "affinity-queued"
           /\ pc["main"] = "same_mask" => profile = "affinity-same-mask"
  BY DEF Places, MainPlaces, Dual, Loop, Alone, SameMaskPlaces, Queued, Turns, Ends, Affinity

\* Timed calls change the counters of one thread and one round.
LEMMA CallsTypes ==
    ASSUME CallTypes, NEW t \in Callers, NEW r \in Rounds, NEW n \in Nat \ {0}, Calls(t, r, n)
    PROVE  /\ CallTypes'
           /\ \E bad \in {0, 1} :
              /\ success' = [success EXCEPT ![t] = @ + n - bad]
              /\ errors' = [errors EXCEPT ![t] = @ + bad]
              /\ made' = [made EXCEPT ![r] = @ + n]
              /\ failed' = [failed EXCEPT ![r] = @ + bad]
              /\ faults' = faults + bad
<1>1. PICK bad \in {0, 1} :
              /\ success' = [success EXCEPT ![t] = @ + n - bad]
              /\ errors' = [errors EXCEPT ![t] = @ + bad]
              /\ made' = [made EXCEPT ![r] = @ + n]
              /\ failed' = [failed EXCEPT ![r] = @ + bad]
              /\ faults' = faults + bad
  BY DEF Calls
<1>2. success[t] + n - bad \in Nat /\ errors[t] + bad \in Nat /\ made[r] + n \in Nat
      /\ failed[r] + bad \in Nat /\ faults + bad \in Nat
  BY DEF CallTypes
<1>3. CallTypes'
  BY <1>1, <1>2 DEF CallTypes
<1> QED
  BY <1>1, <1>3

LEMMA InitTypes == Init => Types
<1> SUFFICES ASSUME Init PROVE Types
  OBVIOUS
<1>1. pc["main"] = "start" /\ pc["peer"] = "none" /\ pc["target"] = "none"
      /\ pc["ctl_b"] = "none"
  BY DEF Init, Threads
<1>2. pc = [t \in Threads |-> pc[t]]
  BY DEF Init
<1>3. 1 \in Rounds
  BY SchedControlAssumption DEF Rounds
<1>4. pc["main"] \in MainPlaces
  BY <1>1 DEF MainPlaces, Dual, Alone, SameMaskPlaces, Queued
<1>5. Places
  BY <1>1, <1>2, <1>4 DEF Init, Places
<1>6. YieldTypes /\ AffTypes
  BY <1>3 DEF Init, YieldTypes, AffTypes, AffinityInit, Cpus
<1>7. MainTypes /\ CallTypes
  BY <1>3 DEF Init, MainTypes, CallTypes, Callers
<1> QED
  BY <1>5, <1>6, <1>7 DEF Types

-----------------------------------------------------------------------------
(* Steps                                                                   *)

\* A step of one thread goes from place to place; the others stay.
LEMMA GotoPlace ==
    ASSUME Places, NEW t \in Threads, NEW l, Goto(t, l), UNCHANGED profile,
           t = "main" => l \in MainPlaces,
           t = "peer" => l \in PeerRuns /\ profile = "yield-dual",
           t = "target" => l \in TargetRuns /\ profile \in Affinity,
           t = "ctl_b" => l \in ControllerRuns /\ profile = "affinity-queued"
    PROVE  /\ Places' /\ UNCHANGED exit
           /\ pc'[t] = l /\ \A u \in Threads \ {t} : pc'[u] = pc[u]
<1>1. /\ pc' = [u \in Threads |-> pc'[u]] /\ UNCHANGED exit
      /\ pc'[t] = l /\ \A u \in Threads \ {t} : pc'[u] = pc[u]
  BY DEF Goto, Places
<1>2. {"main", "peer", "target", "ctl_b"} = Threads /\ MainPlaces' = MainPlaces
  BY DEF Threads, MainPlaces
<1>3. t \in {"main", "peer", "target", "ctl_b"}
  BY <1>2
<1> QED
  BY <1>1, <1>2, <1>3 DEF Places

\* A step that only ends the process, or tries to.
Quiet ==
    /\ UNCHANGED <<profile, pc, yieldVars, affVars, mainVars, success, errors, made, failed>>
    /\ faults' \in Nat /\ faults' >= faults
    /\ exit' = exit \/ exit' # "success"

LEMMA QuietKeeps == IInv /\ Quiet => IInv'
<1> SUFFICES ASSUME IInv, Quiet PROVE IInv'
  OBVIOUS
<1> USE DEF Quiet, yieldVars, affVars, mainVars
<1>1. Types'
  BY DEF IInv, Types, Places, MainPlaces, YieldTypes, AffTypes, MainTypes, CallTypes
<1>2. DualInv'
  BY DEF IInv, DualInv, WordsInv, WaitedInv, DualCounts, MainRound, PeerThrough, PeerYielded,
         MainYielded
<1>3. SingleInv'
  BY DEF IInv, SingleInv, SingleCounts, ReadyInv
<1>4. QueuedInv'
  <2>1. faults' = 0 => faults = 0
    BY DEF IInv, Types, CallTypes
  <2> QED
    BY <2>1 DEF IInv, QueuedInv, TurnInv, TurnCounts, InStore, MaskInv
<1>5. PrintInv'
  BY DEF IInv, PrintInv
<1> QED
  BY <1>1, <1>2, <1>3, <1>4, <1>5 DEF IInv

LEMMA QuietSteps ==
    ASSUME IInv, Dies \/ TimesOut \/ Ended \/ UNCHANGED vars
    PROVE  Quiet
<1> USE DEF Quiet, vars, yieldVars, affVars, mainVars, callVars, Fail
<1>1. faults \in Nat
  BY DEF IInv, Types, CallTypes
<1>2. CASE Dies
  BY <1>1, <1>2 DEF Dies
<1>3. CASE TimesOut
  BY <1>1, <1>3 DEF TimesOut, Waits
<1>4. CASE Ended \/ UNCHANGED vars
  BY <1>1, <1>4 DEF Ended
<1> QED
  BY <1>2, <1>3, <1>4

\* A wait that ends moves its thread, or fails.
LEMMA AwaitStep ==
    ASSUME IInv, NEW t, NEW l, l # "success", NEW word, NEW thread_error, NEW next,
           Await(t, l, word, thread_error, next)
    PROVE  \/ Quiet
           \/ /\ pc[t] = l /\ word /\ Goto(t, next)
              /\ UNCHANGED <<profile, yieldVars, affVars, mainVars, callVars>>
<1>1. faults \in Nat
  BY DEF IInv, Types, CallTypes
<1> QED
  BY <1>1 DEF Await, At, Quiet, Fail, callVars

-----------------------------------------------------------------------------
(* yield-dual                                                              *)

\* All that a step of this profile has to keep.
LEMMA DualSuffices ==
    ASSUME IInv, profile = "yield-dual", UNCHANGED profile,
           Types', WordsInv', WaitedInv', DualCounts', PrintInv'
    PROVE  IInv'
<1>1. "yield-dual" # "affinity-queued"
  OBVIOUS
<1> QED
  BY <1>1 DEF IInv, DualInv, SingleInv, QueuedInv

LEMMA RoundFacts ==
    ASSUME IInv, profile = "yield-dual"
    PROVE  /\ round \in Nat /\ peer_round \in Nat /\ TOTAL_ROUNDS \in Nat /\ OPS \in Nat \ {0}
           /\ 1 <= round /\ round <= TOTAL_ROUNDS /\ 1 <= peer_round /\ peer_round <= TOTAL_ROUNDS
           /\ MainRound \in Nat /\ 1 <= MainRound /\ MainRound <= TOTAL_ROUNDS + 1
           /\ yield.ready \in Nat /\ yield.go \in Nat /\ yield.peer_done \in Nat
           /\ yield.main_done \in Nat /\ yield.cumulative_errors \in Nat
           /\ yield.thread_error \in BOOLEAN
           /\ previous_peer_errors \in Nat
           /\ errors["main"] \in Nat /\ errors["peer"] \in Nat
  BY SchedControlAssumption
     DEF IInv, Types, YieldTypes, MainTypes, CallTypes, Rounds, MainRound, Callers

\* Main and peer yield in the same round.
LEMMA DualLockstep ==
    ASSUME IInv, profile = "yield-dual"
    PROVE  /\ pc["peer"] = "yields" =>
                 /\ pc["main"] \in {"yields", "store_main_done", "wait_peer_done"}
                 /\ round = peer_round /\ MainRound = round
           /\ pc["main"] = "yields" =>
                 /\ pc["peer"] \in {"wait_go", "yields", "add", "store_peer_done", "wait_main_done"}
                 /\ round = peer_round
<1>1. pc["main"] \in Dual /\ pc["peer"] \in PeerRuns \cup {"none"}
  BY DEF IInv, Types, Places, MainPlaces
<1>2. WordsInv /\ WaitedInv
  BY DEF IInv, DualInv
<1> QED
  BY <1>1, <1>2, RoundFacts
     DEF WordsInv, WaitedInv, MainRound, PeerThrough, Dual, Loop, PeerRuns

\* A step that changes neither what was yielded nor who has yielded.
LEMMA SameCounts ==
    ASSUME IInv, profile = "yield-dual",
           UNCHANGED <<previous_peer_errors, round, rows, errors, made, failed, MainRound>>,
           yield'.cumulative_errors = yield.cumulative_errors,
           MainYielded' <=> MainYielded,
           pc'["peer"] = "add" <=> pc["peer"] = "add",
           \A r \in Rounds : PeerYielded(r)' <=> PeerYielded(r)
    PROVE  DualCounts'
<1>1. DualCounts
  BY DEF IInv, DualInv
<1> QED
  BY <1>1 DEF DualCounts

\* The main thread goes on, perhaps storing a generation.
LEMMA MainGoesOn ==
    ASSUME IInv, profile = "yield-dual", NEW from, NEW to,
           <<from, to>> \in {<<"pin", "wait_ready">>, <<"wait_ready", "store_go">>,
                             <<"store_go", "yields">>, <<"store_main_done", "wait_peer_done">>,
                             <<"wait_peer_done", "account">>},
           exit = "running", pc["main"] = from, Goto("main", to),
           from = "wait_ready" => yield.ready >= round,
           from = "wait_peer_done" => yield.peer_done >= round,
           yield' = CASE from = "store_go" -> [yield EXCEPT !["go"] = round]
                      [] from = "store_main_done" -> [yield EXCEPT !["main_done"] = round]
                      [] OTHER -> yield,
           UNCHANGED <<profile, peer_round, previous_peer_errors, affVars, round, rows, printed,
                       slice, callVars>>
    PROVE  IInv'
<1> USE DEF affVars, callVars
<1>0. Types /\ WordsInv /\ WaitedInv /\ PrintInv
  BY DEF IInv, DualInv
<1>1. /\ Places' /\ pc'["main"] = to /\ UNCHANGED exit
      /\ pc'["peer"] = pc["peer"]
  BY <1>0, GotoPlace DEF Types, MainPlaces, Dual, Loop, Threads
<1>2. YieldTypes'
  BY <1>0, RoundFacts DEF Types, YieldTypes
<1>3. Types'
  BY <1>0, <1>1, <1>2 DEF Types, AffTypes, MainTypes, CallTypes
<1>4. MainRound' = round /\ MainRound = round
  BY <1>1 DEF MainRound, Loop
<1>5. yield'.thread_error = yield.thread_error /\ UNCHANGED peer_round
      /\ yield'.ready = yield.ready /\ yield'.peer_done = yield.peer_done
      /\ yield'.cumulative_errors = yield.cumulative_errors
      /\ yield'.go = (IF from = "store_go" THEN round ELSE yield.go)
      /\ yield'.main_done = (IF from = "store_main_done" THEN round ELSE yield.main_done)
  BY <1>0 DEF Types, YieldTypes
<1>6. PeerThrough' <=> PeerThrough
  BY <1>1, <1>5 DEF PeerThrough
<1>7. WordsInv'
  BY <1>0, <1>1, <1>4, <1>5, <1>6, RoundFacts DEF WordsInv
<1>8. WaitedInv'
  BY <1>0, <1>1, <1>4, <1>5, <1>6, RoundFacts DEF WaitedInv, WordsInv, Loop
<1>9. DualCounts'
  <2>1. MainYielded' <=> MainYielded
    BY <1>1 DEF MainYielded
  <2>2. \A r \in Rounds : PeerYielded(r)' <=> PeerYielded(r)
    BY <1>1, <1>5, <1>6 DEF PeerYielded
  <2> QED
    BY <1>1, <1>4, <1>5, <2>1, <2>2, SameCounts
<1>10. PrintInv'
  BY <1>0, <1>1 DEF PrintInv, Loop
<1> QED
  BY <1>3, <1>7, <1>8, <1>9, <1>10, DualSuffices

LEMMA PeerGoesOn ==
    ASSUME IInv, profile = "yield-dual", NEW from, NEW to,
           <<from, to>> \in {<<"start", "store_ready">>, <<"store_ready", "wait_go">>,
                             <<"wait_go", "yields">>, <<"store_peer_done", "wait_main_done">>,
                             <<"wait_main_done", "next">>, <<"next", "store_ready">>,
                             <<"next", "ended">>},
           pc["peer"] = from, Goto("peer", to),
           from = "wait_go" => yield.go >= peer_round,
           from = "wait_main_done" => yield.main_done >= peer_round,
           yield' = CASE from = "store_ready" -> [yield EXCEPT !["ready"] = peer_round]
                      [] from = "store_peer_done" -> [yield EXCEPT !["peer_done"] = peer_round]
                      [] OTHER -> yield,
           peer_round' = IF <<from, to>> = <<"next", "store_ready">> THEN peer_round + 1
                                                                      ELSE peer_round,
           <<from, to>> = <<"next", "store_ready">> => peer_round < TOTAL_ROUNDS,
           <<from, to>> = <<"next", "ended">> => peer_round = TOTAL_ROUNDS,
           UNCHANGED <<profile, previous_peer_errors, affVars, mainVars, callVars>>
    PROVE  IInv'
<1> USE DEF affVars, callVars, mainVars
<1>0. Types /\ WordsInv /\ WaitedInv /\ PrintInv
  BY DEF IInv, DualInv
<1>1. /\ Places' /\ pc'["peer"] = to /\ UNCHANGED exit
      /\ pc'["main"] = pc["main"]
  BY <1>0, GotoPlace DEF Types, PeerRuns, Threads
<1>2. YieldTypes'
  BY <1>0, RoundFacts DEF Types, YieldTypes, Rounds
<1>3. Types'
  BY <1>0, <1>1, <1>2 DEF Types, AffTypes, MainTypes, CallTypes
<1>4. MainRound' = MainRound
  BY <1>1 DEF MainRound
<1>5. yield'.thread_error = yield.thread_error
      /\ yield'.go = yield.go /\ yield'.main_done = yield.main_done
      /\ yield'.cumulative_errors = yield.cumulative_errors
      /\ yield'.ready = (IF from = "store_ready" THEN peer_round ELSE yield.ready)
      /\ yield'.peer_done = (IF from = "store_peer_done" THEN peer_round ELSE yield.peer_done)
  BY <1>0 DEF Types, YieldTypes
<1>6. ~yield.thread_error /\ (PeerThrough' <=> to = "ended") /\ ~PeerThrough
  BY <1>0, <1>1, <1>5 DEF PeerThrough, WaitedInv
<1>7. WordsInv'
  BY <1>0, <1>1, <1>4, <1>5, <1>6, RoundFacts DEF WordsInv, WaitedInv
<1>8. WaitedInv'
  BY <1>0, <1>1, <1>4, <1>5, <1>6, RoundFacts DEF WaitedInv, WordsInv, Loop
<1>9. DualCounts'
  <2>1. MainYielded' <=> MainYielded
    BY <1>1 DEF MainYielded
  <2>2. \A r \in Rounds : PeerYielded(r)' <=> PeerYielded(r)
    BY <1>1, <1>6, RoundFacts DEF PeerYielded, Rounds
  <2> QED
    BY <1>1, <1>4, <1>5, <2>1, <2>2, SameCounts
<1>10. PrintInv'
  BY <1>0, <1>1 DEF PrintInv
<1> QED
  BY <1>3, <1>7, <1>8, <1>9, <1>10, DualSuffices

\* The timed calls of main or of the peer.
LEMMA YieldsKeep ==
    ASSUME IInv, profile = "yield-dual", NEW t \in {"main", "peer"}, NEW to,
           <<t, to>> \in {<<"main", "store_main_done">>, <<"peer", "add">>},
           Yields(t, IF t = "main" THEN round ELSE peer_round, to)
    PROVE  IInv'
<1> USE DEF affVars, mainVars, yieldVars
<1> DEFINE other == IF t = "main" THEN "peer" ELSE "main"
<1>0. Types /\ WordsInv /\ WaitedInv /\ DualCounts /\ PrintInv
  BY DEF IInv, DualInv
<1>1. /\ pc[t] = "yields" /\ exit = "running" /\ Goto(t, to)
      /\ UNCHANGED <<profile, yieldVars, affVars, mainVars>>
  BY DEF Yields, At
<1>2. /\ Places' /\ pc'[t] = to /\ UNCHANGED exit /\ pc'[other] = pc[other]
  BY <1>0, <1>1, GotoPlace DEF Types, PeerRuns, Threads, MainPlaces, Dual, Loop
<1>3. MainRound = round /\ MainRound' = round /\ peer_round >= round
      /\ (t = "peer" => peer_round = round)
  <2>1. pc["main"] \in Loop /\ pc'["main"] \in Loop
    BY <1>1, <1>2, DualLockstep DEF Loop
  <2>2. peer_round = round
    BY <1>1, DualLockstep
  <2> QED
    BY <1>1, <2>1, <2>2, RoundFacts DEF MainRound
<1>4. round \in Rounds /\ t \in Callers
  BY <1>0 DEF Types, MainTypes, Callers
<1>5. Calls(t, round, OPS)
  BY <1>1, <1>3 DEF Yields
<1>6. CallTypes'
  BY <1>0, <1>4, <1>5, CallsTypes, RoundFacts DEF Types
<1>7. PICK bad \in {0, 1} :
              /\ errors' = [errors EXCEPT ![t] = @ + bad]
              /\ made' = [made EXCEPT ![round] = @ + OPS]
              /\ failed' = [failed EXCEPT ![round] = @ + bad]
  BY <1>0, <1>4, <1>5, CallsTypes, RoundFacts DEF Types
<1>8. Types'
  BY <1>0, <1>1, <1>2, <1>6 DEF Types, YieldTypes, AffTypes, MainTypes
<1>9. WordsInv' /\ WaitedInv'
  <2>1. PeerThrough' <=> PeerThrough
    BY <1>1, <1>2 DEF PeerThrough
  <2> QED
    BY <1>0, <1>1, <1>2, <1>3, <2>1 DEF WordsInv, WaitedInv, Loop
<1>10. DualCounts'
  <2>1. /\ errors'[t] = bad /\ errors[t] = 0 /\ errors'[other] = errors[other]
        /\ made'[round] = made[round] + OPS /\ failed'[round] = failed[round] + bad
        /\ \A r \in Rounds \ {round} : made'[r] = made[r] /\ failed'[r] = failed[r]
    BY <1>0, <1>1, <1>4, <1>7 DEF Types, CallTypes, DualCounts, MainYielded, Callers
  <2>2. made'[round] = (IF MainYielded' THEN OPS ELSE 0)
                       + (IF PeerYielded(round)' THEN OPS ELSE 0)
    <3>1. made[round] = (IF MainYielded THEN OPS ELSE 0)
                        + (IF PeerYielded(round) THEN OPS ELSE 0)
      BY <1>0, <1>3, <1>4 DEF DualCounts
    <3>2. CASE t = "main"
      <4>1. ~MainYielded /\ MainYielded' /\ (PeerYielded(round)' <=> PeerYielded(round))
        BY <1>1, <1>2, <3>2 DEF MainYielded, PeerYielded, PeerThrough
      <4> QED
        BY <2>1, <3>1, <4>1, RoundFacts
    <3>3. CASE t = "peer"
      <4>1. (MainYielded' <=> MainYielded) /\ ~PeerYielded(round) /\ PeerYielded(round)'
        BY <1>1, <1>2, <1>3, <3>3, RoundFacts DEF MainYielded, PeerYielded, PeerThrough
      <4> QED
        BY <2>1, <3>1, <4>1, RoundFacts
    <3> QED
      BY <3>2, <3>3
  <2>3. failed'[round] = errors'["main"] + errors'["peer"] + yield.cumulative_errors
                         - previous_peer_errors
    <3>1. failed[round] = errors["main"] + errors["peer"] + yield.cumulative_errors
                          - previous_peer_errors
      BY <1>0, <1>3, <1>4 DEF DualCounts
    <3>2. t = "main" \/ t = "peer"
      OBVIOUS
    <3> QED
      BY <2>1, <3>1, <3>2, RoundFacts
  <2>4. /\ ~MainYielded' => errors'["main"] = 0
        /\ pc'["peer"] # "add" => errors'["peer"] = 0
    BY <1>0, <1>2, <2>1 DEF DualCounts, MainYielded
  <2> QED
    <3>1. \A r \in Rounds : r # round => made'[r] = made[r] /\ failed'[r] = failed[r]
      BY <2>1
    <3>2. \A r \in Rounds : r < round \/ r > round => r # round
      BY RoundFacts DEF Rounds
    <3> QED
      BY <1>0, <1>1, <1>3, <2>2, <2>3, <2>4, <3>1, <3>2 DEF DualCounts
<1>11. PrintInv'
  <2>1. printed = 0 /\ printed' = 0
    BY <1>0, <1>1, <1>3, DualLockstep DEF PrintInv, Loop
  <2> QED
    BY <1>0, <1>1, <1>2, <2>1, DualLockstep DEF PrintInv, Loop
<1> QED
  BY <1>1, <1>8, <1>9, <1>10, <1>11, DualSuffices

\* What the peer has added is in its sum and no longer in its counter.
LEMMA PeerAddsKeeps ==
    ASSUME IInv, profile = "yield-dual", PeerAdds
    PROVE  IInv'
<1> USE DEF affVars, mainVars
<1>0. Types /\ WordsInv /\ WaitedInv /\ DualCounts /\ PrintInv
  BY DEF IInv, DualInv
<1>1. /\ pc["peer"] = "add" /\ Goto("peer", "store_peer_done")
      /\ yield' = [yield EXCEPT !.cumulative_errors = @ + errors["peer"]]
      /\ success' = [success EXCEPT !["peer"] = 0] /\ errors' = [errors EXCEPT !["peer"] = 0]
      /\ UNCHANGED <<profile, peer_round, previous_peer_errors, affVars, mainVars, made, failed,
                     faults>>
  BY DEF PeerAdds, At
<1>2. /\ Places' /\ pc'["peer"] = "store_peer_done" /\ UNCHANGED exit /\ pc'["main"] = pc["main"]
  BY <1>0, <1>1, GotoPlace DEF Types, PeerRuns, Threads
<1>3. /\ yield'.thread_error = yield.thread_error
      /\ yield'.ready = yield.ready /\ yield'.peer_done = yield.peer_done
      /\ yield'.go = yield.go /\ yield'.main_done = yield.main_done
      /\ yield'.cumulative_errors = yield.cumulative_errors + errors["peer"]
  BY <1>0, <1>1 DEF Types, YieldTypes
<1>4. Types'
  <2>1. YieldTypes'
    BY <1>0, <1>1, RoundFacts DEF Types, YieldTypes
  <2>2. CallTypes'
    BY <1>0, <1>1 DEF Types, CallTypes
  <2> QED
    BY <1>0, <1>1, <1>2, <2>1, <2>2 DEF Types, AffTypes, MainTypes
<1>5. MainRound' = MainRound /\ (PeerThrough' <=> PeerThrough) /\ (MainYielded' <=> MainYielded)
  BY <1>1, <1>2, <1>3 DEF MainRound, PeerThrough, MainYielded
<1>6. WordsInv' /\ WaitedInv'
  BY <1>0, <1>1, <1>2, <1>3, <1>5 DEF WordsInv, WaitedInv
<1>7. DualCounts'
  <2>1. \A r \in Rounds : PeerYielded(r)' <=> PeerYielded(r)
    BY <1>1, <1>2, <1>5 DEF PeerYielded
  <2>2. errors'["main"] = errors["main"] /\ errors'["peer"] = 0
    BY <1>0, <1>1 DEF Types, CallTypes, Callers
  <2>3. MainRound \in Rounds =>
          failed[MainRound] = errors'["main"] + errors'["peer"] + yield'.cumulative_errors
                              - previous_peer_errors
    BY <1>0, <1>3, <2>2, RoundFacts DEF DualCounts
  <2> QED
    BY <1>0, <1>1, <1>2, <1>5, <2>1, <2>2, <2>3 DEF DualCounts
<1>8. PrintInv'
  BY <1>0, <1>1, <1>2 DEF PrintInv
<1> QED
  BY <1>1, <1>4, <1>6, <1>7, <1>8, DualSuffices

\* The row of main's round: both have yielded in it, and the peer has added.
LEMMA AccountRowKeeps ==
    ASSUME IInv, profile = "yield-dual", AccountRow
    PROVE  IInv'
<1> USE DEF affVars
<1> DEFINE bad == errors["main"] + yield.cumulative_errors - previous_peer_errors
           row == [requested |-> 2 * OPS, success |-> 2 * OPS - bad, errors |-> bad]
           to == IF round < TOTAL_ROUNDS THEN "wait_ready" ELSE "join_peer"
<1>0. Types /\ WordsInv /\ WaitedInv /\ DualCounts /\ PrintInv
  BY DEF IInv, DualInv
<1>1. /\ pc["main"] = "account" /\ Goto("main", to) /\ exit = "running"
      /\ rows' = Append(rows, row) /\ previous_peer_errors' = yield.cumulative_errors
      /\ success' = [success EXCEPT !["main"] = 0] /\ errors' = [errors EXCEPT !["main"] = 0]
      /\ round' = IF round < TOTAL_ROUNDS THEN round + 1 ELSE 1
      /\ UNCHANGED <<profile, peer_round, yield, affVars, printed, slice, affinity, made,
                     failed, faults>>
  BY DEF AccountRow, At, Previous
<1>2. /\ Places' /\ pc'["main"] = to /\ UNCHANGED exit /\ pc'["peer"] = pc["peer"]
  BY <1>0, <1>1, GotoPlace DEF Types, MainPlaces, Dual, Loop, Threads
<1>3. bad \in Int /\ row \in RowType /\ row.requested = 2 * OPS /\ row.errors = bad
  BY RoundFacts DEF RowType
<1> HIDE DEF bad, row
<1>p. /\ to \in {"wait_ready", "join_peer"} /\ (to = "wait_ready" <=> round < TOTAL_ROUNDS)
      /\ round \in Nat /\ round + 1 \in Nat
  BY RoundFacts
<1> HIDE DEF to
<1>4. Types'
  <2>1. rows' \in Seq(RowType) /\ round' \in Rounds
    <3>1. rows \in Seq(RowType)
      BY <1>0 DEF Types, MainTypes
    <3>2. round' \in Rounds
      BY <1>1, RoundFacts DEF Rounds
    <3> QED
      BY <1>1, <1>3, <3>1, <3>2
  <2>2. CallTypes'
    BY <1>0, <1>1 DEF Types, CallTypes
  <2>3. YieldTypes'
    BY <1>0, <1>1 DEF Types, YieldTypes
  <2> QED
    BY <1>0, <1>1, <1>2, <2>1, <2>2, <2>3 DEF Types, AffTypes, MainTypes
<1>5. MainRound = round /\ MainRound' = round + 1
  BY <1>1, <1>2, <1>p, RoundFacts DEF MainRound, Loop
<1>6. PeerThrough' <=> PeerThrough
  BY <1>1, <1>2 DEF PeerThrough
<1>7. WordsInv'
  BY <1>0, <1>1, <1>2, <1>5, <1>6, <1>p, RoundFacts DEF WordsInv
<1>8. WaitedInv'
  BY <1>0, <1>1, <1>2, <1>5, <1>6, <1>p, RoundFacts DEF WaitedInv, Loop
<1>9. MainYielded /\ ~MainYielded' /\ PeerYielded(round) /\ pc["peer"] # "add"
      /\ ~PeerYielded(round + 1)
  <2>1. yield.peer_done >= round /\ yield.go = round
    BY <1>0, <1>1, <1>5 DEF WordsInv, WaitedInv
  <2>2. PeerYielded(round)
    BY <1>0, <2>1, RoundFacts DEF WordsInv, PeerYielded
  <2>3. ~PeerYielded(round + 1)
    BY <1>0, <2>1, RoundFacts DEF WaitedInv, PeerYielded
  <2>4. pc["peer"] # "add"
    BY <1>0, <2>1, RoundFacts DEF WaitedInv, WordsInv, PeerThrough
  <2> QED
    BY <1>1, <1>2, <1>p, <2>2, <2>3, <2>4 DEF MainYielded
<1>10. DualCounts'
  <2>0. round \in Rounds /\ Len(rows) = round - 1 /\ rows \in Seq(RowType)
    BY <1>0, <1>5 DEF Types, MainTypes, DualCounts
  <2>1. made[round] = 2 * OPS /\ failed[round] = bad
    BY <1>0, <1>5, <1>9, <2>0, RoundFacts DEF DualCounts, bad
  <2>2. Len(rows') = round /\ rows'[round] = row /\ \A r \in Rounds : r < round => rows'[r] = rows[r]
    <3>1. Len(rows') = Len(rows) + 1 /\ rows'[Len(rows) + 1] = row
          /\ \A k \in 1..Len(rows) : rows'[k] = rows[k]
      BY <1>1, <1>3, <2>0
    <3>2. \A r \in Rounds : r < round => r \in 1..(round - 1)
      BY RoundFacts DEF Rounds
    <3> QED
      BY <2>0, <3>1, <3>2, RoundFacts
  <2>3. ASSUME NEW r \in Rounds, r < round + 1
        PROVE  /\ made'[r] = 2 * OPS
               /\ rows'[r].requested = 2 * OPS /\ rows'[r].errors = failed'[r]
    <3>1. CASE r = round
      BY <1>1, <1>3, <2>1, <2>2, <3>1
    <3>2. CASE r # round
      <4>1. r < MainRound
        BY <1>5, <2>3, <3>2, RoundFacts DEF Rounds
      <4> QED
        BY <1>0, <1>1, <1>5, <2>2, <4>1 DEF DualCounts
    <3> QED
      BY <3>1, <3>2
  <2>4. ASSUME NEW r \in Rounds, r > round
        PROVE  made'[r] = 0 /\ failed'[r] = 0
    BY <1>0, <1>1, <1>5, <2>4 DEF DualCounts
  <2>5. errors'["main"] = 0 /\ errors'["peer"] = 0
    BY <1>0, <1>1, <1>9 DEF Types, CallTypes, Callers, DualCounts
  <2>6. ASSUME NEW r \in Rounds, r = round + 1 PROVE ~PeerYielded(r)'
    BY <1>1, <1>2, <1>6, <1>9, <2>6 DEF PeerYielded
  <2>7. ASSUME NEW r \in Rounds, r = MainRound'
        PROVE  /\ made'[r] = (IF MainYielded' THEN OPS ELSE 0)
                             + (IF PeerYielded(r)' THEN OPS ELSE 0)
               /\ failed'[r] = errors'["main"] + errors'["peer"] + yield'.cumulative_errors
                               - previous_peer_errors'
    <3>1. r = round + 1 /\ r > round
      BY <1>5, <2>7, RoundFacts
    <3>2. QED
      <4>1. yield.cumulative_errors = previous_peer_errors' /\ previous_peer_errors' \in Nat
            /\ UNCHANGED yield
        BY <1>1, RoundFacts
      <4>2. made'[r] = 0 /\ failed'[r] = 0 /\ ~PeerYielded(r)' /\ ~MainYielded'
        BY <1>9, <2>4, <2>6, <3>1
      <4>3. \A x \in Nat : x - x = 0
        OBVIOUS
      <4>4. failed'[r] = errors'["main"] + errors'["peer"] + yield'.cumulative_errors
                         - previous_peer_errors'
        BY <2>5, <4>1, <4>2, <4>3
      <4>5. (IF MainYielded' THEN OPS ELSE 0) + (IF PeerYielded(r)' THEN OPS ELSE 0) = 0
        BY <4>2
      <4> QED
        BY <4>2, <4>4, <4>5
  <2>8. \A r \in Rounds : r > round + 1 => r > round
    BY RoundFacts DEF Rounds
  <2>9. Len(rows') = MainRound' - 1
    BY <1>5, <2>2, RoundFacts
  <2>10. ~MainYielded'
    BY <1>9
  <2> QED
    BY <1>5, <2>3, <2>4, <2>5, <2>7, <2>8, <2>9, <2>10 DEF DualCounts
<1>11. PrintInv'
  BY <1>0, <1>1, <1>2, <1>p DEF PrintInv, Loop
<1> QED
  BY <1>1, <1>4, <1>7, <1>8, <1>10, <1>11, DualSuffices

\* The rest of main under this profile: before the yields, and the rows.
LEMMA DualMainKeeps ==
    ASSUME IInv, profile = "yield-dual",
           \/ Start \/ JoinPeer \/ Verify \/ BeginRound \/ Validate \/ Restore
    PROVE  IInv'
<1> USE DEF affVars, mainVars, yieldVars, callVars
<1>0. Types /\ WordsInv /\ WaitedInv /\ DualCounts /\ PrintInv
  BY DEF IInv, DualInv
<1>10. faults \in Nat
  BY <1>0 DEF Types, CallTypes
<1>1. CASE Start
  <2>1. /\ pc["main"] = "start" /\ pc' = [pc EXCEPT !["main"] = "pin", !["peer"] = "start"]
        /\ exit = "running"
        /\ UNCHANGED <<profile, exit, yieldVars, affVars, round, rows, printed, slice,
                       affinity, callVars>>
    BY <1>1 DEF Start, At
  <2>2. /\ pc' = [t \in Threads |-> pc'[t]] /\ pc'["main"] = "pin" /\ pc'["peer"] = "start"
        /\ pc'["target"] = pc["target"] /\ pc'["ctl_b"] = pc["ctl_b"]
    BY <1>0, <2>1 DEF Types, Places, Threads
  <2>3. Places'
    BY <1>0, <2>1, <2>2 DEF Types, Places, MainPlaces, Dual, PeerRuns
  <2>4. Types'
    BY <1>0, <2>1, <2>3 DEF Types, YieldTypes, AffTypes, MainTypes, CallTypes
  <2>5. MainRound' = MainRound /\ ~MainYielded /\ ~MainYielded' /\ ~PeerThrough
        /\ (PeerThrough' <=> PeerThrough)
        /\ pc["peer"] = "none"
    BY <1>0, <2>1, <2>2 DEF MainRound, MainYielded, PeerThrough, WaitedInv
  <2>6. WordsInv'
    BY <1>0, <2>1, <2>2, <2>5 DEF WordsInv
  <2>7. WaitedInv'
    BY <1>0, <2>1, <2>2, <2>5 DEF WaitedInv, Loop
  <2>8. DualCounts'
    <3>1. \A r \in Rounds : PeerYielded(r)' <=> PeerYielded(r)
      BY <2>1, <2>2, <2>5 DEF PeerYielded
    <3> QED
      BY <2>1, <2>2, <2>5, <3>1, SameCounts
  <2>9. PrintInv'
    BY <1>0, <2>1, <2>2 DEF PrintInv
  <2> QED
    BY <2>1, <2>4, <2>6, <2>7, <2>8, <2>9, DualSuffices
<1>2. ASSUME NEW to \in {"verify", "rounds", "validate", "restore"},
             exit = "running",
             pc["main"] \in {"join_peer", "verify", "rounds", "validate"},
             Goto("main", to), round' \in Rounds,
             UNCHANGED <<profile, yieldVars, affVars, rows, affinity, callVars>>,
             printed' \in Nat, PrintInv'
      PROVE  IInv'
  <2>1. /\ Places' /\ pc'["main"] = to /\ UNCHANGED exit /\ pc'["peer"] = pc["peer"]
    BY <1>0, <1>2, GotoPlace DEF Types, MainPlaces, Dual, Threads
  <2>2. Types'
    BY <1>0, <1>2, <2>1 DEF Types, YieldTypes, AffTypes, MainTypes, CallTypes
  <2>3. MainRound' = MainRound /\ ~MainYielded /\ ~MainYielded'
        /\ (PeerThrough' <=> PeerThrough)
    BY <1>2, <2>1 DEF MainRound, MainYielded, PeerThrough, Loop
  <2>4. WordsInv'
    BY <1>0, <1>2, <2>1, <2>3 DEF WordsInv
  <2>5. WaitedInv'
    BY <1>0, <1>2, <2>1, <2>3 DEF WaitedInv, Loop
  <2>6. DualCounts'
    <3>1. \A r \in Rounds : PeerYielded(r)' <=> PeerYielded(r)
      BY <1>2, <2>1, <2>3 DEF PeerYielded
    <3> QED
      BY <1>0, <1>2, <2>1, <2>3, <3>1 DEF DualCounts
  <2> QED
    BY <1>2, <2>2, <2>4, <2>5, <2>6, DualSuffices
<1>3. ASSUME NEW to, Goto("main", to) PROVE pc'["main"] = to /\ exit' = exit
  BY <1>0, <1>3 DEF Types, Places, Goto, Threads
<1>4. round \in Rounds /\ printed \in Nat /\ 1 \in Rounds
  BY <1>0, RoundFacts DEF Types, MainTypes, Rounds
<1>5. CASE JoinPeer
  <2>1. CASE yield.thread_error
    <3>1. Quiet
      <4>1. /\ exit' = "yield peer failed" /\ UNCHANGED pc
            /\ UNCHANGED <<profile, yieldVars, affVars, mainVars, callVars>>
        BY <1>5, <2>1 DEF JoinPeer, Fail
      <4>2. exit' # "success"
        BY <4>1
      <4>3. faults' = faults
        BY <4>1
      <4>4. faults' \in Nat /\ faults' >= faults
        BY <1>10, <4>3
      <4> QED
        BY <4>1, <4>2, <4>4 DEF Quiet
    <3> QED
      BY <3>1, QuietKeeps
  <2>2. CASE ~yield.thread_error
    <3>1. Goto("main", "verify") /\ exit = "running" /\ pc["main"] = "join_peer"
          /\ UNCHANGED <<profile, yieldVars, affVars, mainVars, callVars>>
      BY <1>5, <2>2 DEF JoinPeer, At
    <3>2. PrintInv'
      BY <1>0, <1>3, <3>1 DEF PrintInv, Loop
    <3> QED
      BY <1>2, <1>4, <3>1, <3>2
  <2> QED
    BY <2>1, <2>2
<1>6. CASE Verify
  <2>1. Goto("main", "rounds") /\ exit = "running" /\ pc["main"] = "verify"
        /\ UNCHANGED <<profile, yieldVars, affVars, round, rows, printed, affinity, callVars>>
    BY <1>6 DEF Verify, At
  <2>2. PrintInv'
    BY <1>0, <1>3, <2>1 DEF PrintInv, Loop
  <2> QED
    BY <1>2, <1>4, <2>1, <2>2
<1>7. CASE BeginRound
  <2>1. Goto("main", "validate") /\ exit = "running" /\ pc["main"] = "rounds"
        /\ UNCHANGED <<profile, yieldVars, affVars, mainVars, callVars>>
    BY <1>7 DEF BeginRound, At
  <2>2. PrintInv'
    BY <1>0, <1>3, <2>1 DEF PrintInv, Loop
  <2> QED
    BY <1>2, <1>4, <2>1, <2>2
<1>8. CASE Validate
  <2>1. CASE ~RowValid(rows[round])
    <3>1. Quiet
      <4>1. /\ exit' = "timed syscall semantic error" /\ UNCHANGED pc
            /\ UNCHANGED <<printed, round, profile, yieldVars, affVars, rows, slice, affinity,
                           callVars>>
        BY <1>8, <2>1 DEF Validate, Fail
      <4>2. exit' # "success"
        BY <4>1
      <4>3. faults' = faults
        BY <4>1
      <4>4. faults' \in Nat /\ faults' >= faults
        BY <1>10, <4>3
      <4> QED
        BY <4>1, <4>2, <4>4 DEF Quiet
    <3> QED
      BY <3>1, QuietKeeps
  <2>2. CASE RowValid(rows[round])
    <3>1. /\ exit = "running" /\ pc["main"] = "validate"
          /\ printed' = printed + 1
          /\ Goto("main", IF round < TOTAL_ROUNDS THEN "rounds" ELSE "restore")
          /\ round' = IF round < TOTAL_ROUNDS THEN round + 1 ELSE round
          /\ UNCHANGED <<profile, yieldVars, affVars, rows, slice, affinity, callVars>>
      BY <1>8, <2>2 DEF Validate, At
    <3>2. failed[round] = 0 /\ made[round] = rows[round].requested
      <4>1. round < MainRound
        BY <3>1, RoundFacts DEF MainRound, Loop
      <4>2. made[round] = 2 * OPS /\ rows[round].requested = 2 * OPS
            /\ rows[round].errors = failed[round]
        BY <1>0, <1>4, <4>1 DEF DualCounts
      <4> QED
        BY <2>2, <4>2 DEF RowValid
    <3>3. printed = round - 1
      BY <1>0, <3>1 DEF PrintInv, Loop
    <3>4. pc'["main"] = (IF round < TOTAL_ROUNDS THEN "rounds" ELSE "restore") /\ exit' = exit
      BY <1>3, <3>1
    <3>5. \A r \in 1..printed' : failed'[r] = 0 /\ made'[r] = rows'[r].requested
      <4>1. ASSUME NEW r \in 1..printed' PROVE r = round \/ r \in 1..printed
        BY <3>1, <3>3, RoundFacts
      <4> QED
        BY <1>0, <3>1, <3>2, <4>1 DEF PrintInv
    <3>6. printed' = (IF pc'["main"] = "restore" THEN TOTAL_ROUNDS ELSE round' - 1)
      BY <3>1, <3>3, <3>4, RoundFacts
    <3>7. PrintInv'
      BY <3>1, <3>4, <3>5, <3>6 DEF PrintInv, Loop
    <3>8. round' \in Rounds /\ printed' \in Nat
      BY <1>4, <3>1, RoundFacts DEF Rounds
    <3> QED
      BY <1>2, <3>1, <3>7, <3>8
  <2> QED
    BY <2>1, <2>2
<1>9. CASE Restore
  <2>1. /\ pc["main"] = "restore" /\ UNCHANGED pc
        /\ slice' = "default" /\ affinity' = "original"
        /\ UNCHANGED <<profile, yieldVars, affVars, round, rows, printed, callVars>>
    BY <1>9 DEF Restore, At, Fail
  <2>2. Types'
    BY <1>0, <2>1 DEF Types, Places, MainPlaces, YieldTypes, AffTypes, MainTypes, CallTypes
  <2>3. WordsInv' /\ WaitedInv' /\ DualCounts'
    BY <1>0, <2>1 DEF WordsInv, WaitedInv, DualCounts, MainRound, PeerThrough, PeerYielded,
                      MainYielded
  <2>4. PrintInv'
    BY <1>0, <2>1 DEF PrintInv
  <2> QED
    BY <2>1, <2>2, <2>3, <2>4, DualSuffices
<1> QED
  BY <1>1, <1>5, <1>6, <1>7, <1>8, <1>9

\* The peer cannot pin itself.
LEMMA PeerFailsKeeps ==
    ASSUME IInv, profile = "yield-dual", WorkerFails
    PROVE  IInv'
<1> USE DEF affVars, mainVars, yieldVars, callVars
<1>0. Types /\ WordsInv /\ WaitedInv /\ DualCounts /\ PrintInv
  BY DEF IInv, DualInv
<1>1. /\ pc["peer"] = "start" /\ Goto("peer", "ended") /\ faults' = faults + 1
      /\ yield' = [yield EXCEPT !.thread_error = TRUE] /\ UNCHANGED aff
      /\ UNCHANGED <<profile, peer_round, previous_peer_errors, i, target_cpu_read,
                     target_mask, mainVars, success, errors, made, failed>>
  <2>1. PICK t \in Threads \ {"main"} : 
          /\ pc[t] = "start" /\ Goto(t, "ended")
          /\ IF t = "peer" THEN yield' = [yield EXCEPT !.thread_error = TRUE] /\ UNCHANGED aff
                           ELSE aff' = [aff EXCEPT !.thread_error = TRUE] /\ UNCHANGED yield
    BY DEF WorkerFails
  <2>2. t = "peer"
    BY <1>0, <2>1 DEF Types, Places, Threads, Affinity
  <2> QED
    BY <2>1, <2>2 DEF WorkerFails
<1>2. /\ Places' /\ pc'["peer"] = "ended" /\ UNCHANGED exit /\ pc'["main"] = pc["main"]
  BY <1>0, <1>1, GotoPlace DEF Types, PeerRuns, Threads
<1>3. /\ yield'.thread_error /\ yield'.ready = yield.ready
      /\ yield'.peer_done = yield.peer_done /\ yield'.go = yield.go
      /\ yield'.main_done = yield.main_done /\ yield'.cumulative_errors = yield.cumulative_errors
  BY <1>0, <1>1 DEF Types, YieldTypes
<1>4. Types'
  <2>1. YieldTypes' /\ CallTypes'
    <3>1. YieldTypes'
      BY <1>0, <1>1 DEF Types, YieldTypes
    <3>2. CallTypes'
      BY <1>0, <1>1 DEF Types, CallTypes
    <3> QED
      BY <3>1, <3>2
  <2> QED
    BY <1>0, <1>1, <1>2, <2>1 DEF Types, AffTypes, MainTypes
<1>5. /\ MainRound' = MainRound /\ ~PeerThrough /\ ~PeerThrough'
      /\ (MainYielded' <=> MainYielded)
  BY <1>1, <1>2, <1>3 DEF MainRound, PeerThrough, MainYielded
<1>6. WordsInv' /\ WaitedInv'
  BY <1>0, <1>1, <1>2, <1>3, <1>5 DEF WordsInv, WaitedInv
<1>7. DualCounts'
  <2>1. \A r \in Rounds : PeerYielded(r)' <=> PeerYielded(r)
    BY <1>1, <1>2, <1>5 DEF PeerYielded
  <2> QED
    BY <1>1, <1>2, <1>3, <1>5, <2>1, SameCounts
<1>8. PrintInv'
  BY <1>0, <1>1, <1>2 DEF PrintInv
<1> QED
  BY <1>1, <1>4, <1>6, <1>7, <1>8, DualSuffices

\* Every step of a yield-dual process.
LEMMA DualKeeps ==
    ASSUME IInv, profile = "yield-dual", [Next]_vars
    PROVE  IInv'
<1> USE DEF affVars, mainVars, yieldVars, callVars
<1>0. Types
  BY DEF IInv
<1>1. /\ pc["main"] \in Dual /\ pc["target"] = "none" /\ pc["ctl_b"] = "none"
  BY <1>0 DEF Types, Places, MainPlaces, Affinity
<1>2. CASE MainYield
  <2>1. CASE /\ At("main", "pin") /\ Goto("main", "wait_ready") /\ affinity' = CPU_A
             /\ UNCHANGED <<profile, yieldVars, affVars, round, rows, printed, slice, callVars>>
    BY <2>1, MainGoesOn DEF At
  <2>2. CASE Await("main", "wait_ready", Reached("ready", round), yield.thread_error, "store_go")
    <3>1. CASE Quiet
      BY <3>1, QuietKeeps
    <3>2. CASE /\ pc["main"] = "wait_ready" /\ Reached("ready", round) /\ Goto("main", "store_go")
               /\ UNCHANGED <<profile, yieldVars, affVars, mainVars, callVars>>
      <4>1. exit = "running" /\ yield.ready >= round
        BY <2>2, <3>2 DEF Await, At, Reached
      <4> QED
        BY <3>2, <4>1, MainGoesOn
    <3> QED
      BY <2>2, <3>1, <3>2, AwaitStep
  <2>3. CASE StoreYield("main", "store_go", "go", "yields")
    BY <2>3, MainGoesOn DEF StoreYield, At
  <2>4. CASE Yields("main", round, "store_main_done")
    BY <2>4, YieldsKeep
  <2>5. CASE StoreYield("main", "store_main_done", "main_done", "wait_peer_done")
    BY <2>5, MainGoesOn DEF StoreYield, At
  <2>6. CASE Await("main", "wait_peer_done", Reached("peer_done", round), yield.thread_error,
                   "account")
    <3>1. CASE Quiet
      BY <3>1, QuietKeeps
    <3>2. CASE /\ pc["main"] = "wait_peer_done" /\ Reached("peer_done", round)
               /\ Goto("main", "account")
               /\ UNCHANGED <<profile, yieldVars, affVars, mainVars, callVars>>
      <4>1. exit = "running" /\ yield.peer_done >= round
        BY <2>6, <3>2 DEF Await, At, Reached
      <4> QED
        BY <3>2, <4>1, MainGoesOn
    <3> QED
      BY <2>6, <3>1, <3>2, AwaitStep
  <2> QED
    BY <1>2, <2>1, <2>2, <2>3, <2>4, <2>5, <2>6, AccountRowKeeps, DualMainKeeps DEF MainYield
<1>3. CASE PeerYield
  <2>1. CASE /\ At("peer", "start") /\ Goto("peer", "store_ready")
             /\ UNCHANGED <<profile, yieldVars, affVars, mainVars, callVars>>
    BY <2>1, PeerGoesOn DEF At
  <2>2. CASE StoreYield("peer", "store_ready", "ready", "wait_go")
    BY <2>2, PeerGoesOn DEF StoreYield, At
  <2>3. CASE Await("peer", "wait_go", Reached("go", peer_round), yield.thread_error, "yields")
    <3>1. CASE Quiet
      BY <3>1, QuietKeeps
    <3>2. CASE /\ pc["peer"] = "wait_go" /\ Reached("go", peer_round) /\ Goto("peer", "yields")
               /\ UNCHANGED <<profile, yieldVars, affVars, mainVars, callVars>>
      BY <3>2, PeerGoesOn DEF Reached
    <3> QED
      BY <2>3, <3>1, <3>2, AwaitStep
  <2>4. CASE Yields("peer", peer_round, "add")
    BY <2>4, YieldsKeep
  <2>5. CASE StoreYield("peer", "store_peer_done", "peer_done", "wait_main_done")
    BY <2>5, PeerGoesOn DEF StoreYield, At
  <2>6. CASE Await("peer", "wait_main_done", Reached("main_done", peer_round),
                   yield.thread_error, "next")
    <3>1. CASE Quiet
      BY <3>1, QuietKeeps
    <3>2. CASE /\ pc["peer"] = "wait_main_done" /\ Reached("main_done", peer_round)
               /\ Goto("peer", "next")
               /\ UNCHANGED <<profile, yieldVars, affVars, mainVars, callVars>>
      BY <3>2, PeerGoesOn DEF Reached
    <3> QED
      BY <2>6, <3>1, <3>2, AwaitStep
  <2>7. CASE PeerNextRound
    <3>1. CASE peer_round < TOTAL_ROUNDS
      BY <2>7, <3>1, RoundFacts, PeerGoesOn DEF PeerNextRound, At
    <3>2. CASE ~(peer_round < TOTAL_ROUNDS)
      BY <2>7, <3>2, RoundFacts, PeerGoesOn DEF PeerNextRound, At
    <3> QED
      BY <3>1, <3>2
  <2> QED
    BY <1>3, <2>1, <2>2, <2>3, <2>4, <2>5, <2>6, <2>7, PeerAddsKeeps DEF PeerYield
<1>4. ~Target /\ ~ControllerB
  BY <1>1 DEF Target, ControllerB, StoreAff, Await, Call, StoreTurn, At
<1>5. ~MainAffinity
  BY <1>1 DEF MainAffinity, SpawnTarget, SpawnControllerB, Snapshot, Await, Call, StoreTurn,
              ReadSums, SameMask, JoinControllerB, CheckMask, StoreAff, JoinTarget, At, Dual, Loop
<1>6. ~RunYieldSolo /\ ~RunSetparam
  BY DEF RunYieldSolo, RunSetparam, Setparam
<1> QED
  BY <1>2, <1>3, <1>4, <1>5, <1>6, DualMainKeeps, PeerFailsKeeps, QuietSteps, QuietKeeps
     DEF Next, Main
-----------------------------------------------------------------------------
(* The other profiles                                                      *)

\* All that a step of the other profiles has to keep.
LEMMA SingleSuffices ==
    ASSUME IInv, profile # "yield-dual", UNCHANGED profile,
           Types', SingleCounts', ReadyInv', QueuedInv', PrintInv'
    PROVE  IInv'
  BY DEF IInv, DualInv, SingleInv

LEMMA SingleFacts ==
    ASSUME IInv, profile # "yield-dual"
    PROVE  /\ Types /\ SingleCounts /\ ReadyInv /\ QueuedInv /\ PrintInv
           /\ round \in Rounds /\ round \in Nat /\ TOTAL_ROUNDS \in Nat /\ OPS \in Nat \ {0}
           /\ 1 <= round /\ round <= TOTAL_ROUNDS /\ 1 \in Rounds /\ printed \in Nat
           /\ aff.turn \in Nat /\ aff.b_success \in Nat
           /\ i["main"] \in Nat /\ i["ctl_b"] \in Nat
           /\ success["main"] \in Nat /\ success["ctl_b"] \in Nat
           /\ made[round] \in Nat /\ failed[round] \in Nat /\ faults \in Nat
           /\ profile = "affinity-queued" => OPS % 2 = 0
           /\ pc["main"] \in Alone \cup SameMaskPlaces \cup Queued
<1>1. Types /\ SingleCounts /\ ReadyInv /\ QueuedInv /\ PrintInv
  BY DEF IInv, SingleInv
<1>2. round \in Rounds /\ printed \in Nat /\ TOTAL_ROUNDS \in Nat \ {0} /\ OPS \in Nat \ {0}
  BY <1>1, SchedControlAssumption DEF Types, MainTypes
<1>3. profile = "affinity-queued" => OPS % 2 = 0
  BY <1>1, SchedControlAssumption DEF Types, Places
<1>4. aff.turn \in Nat /\ aff.b_success \in Nat /\ i["main"] \in Nat /\ i["ctl_b"] \in Nat
  BY <1>1 DEF Types, AffTypes
<1>5. /\ success["main"] \in Nat /\ success["ctl_b"] \in Nat
      /\ made[round] \in Nat /\ failed[round] \in Nat /\ faults \in Nat
  BY <1>1, <1>2 DEF Types, CallTypes, Callers
<1>6. pc["main"] \in Alone \cup SameMaskPlaces \cup Queued
  BY <1>1 DEF Types, Places, MainPlaces
<1>7. round \in Nat /\ 1 <= round /\ round <= TOTAL_ROUNDS /\ 1 \in Rounds
  BY <1>2 DEF Rounds
<1> QED
  BY <1>1, <1>2, <1>3, <1>4, <1>5, <1>6, <1>7

\* The main thread goes on, without a timed call.
LEMMA MainMoves ==
    ASSUME IInv, profile # "yield-dual", NEW from, NEW to,
           <<from, to>> \in {<<"verify", "rounds">>, <<"rounds", "alone">>, <<"rounds", "spawn">>,
                             <<"wait_target", "spawn_b">>, <<"wait_target", "snapshot">>,
                             <<"wait_b", "snapshot">>, <<"snapshot", "wait_turn">>,
                             <<"snapshot", "same_mask">>, <<"wait_turn", "call">>,
                             <<"wait_final_turn", "read_success">>, <<"join_b", "check_mask">>,
                             <<"check_mask", "wait_on_cpu">>, <<"wait_on_cpu", "stop">>,
                             <<"stop", "join_target">>},
           exit = "running", pc["main"] = from, Goto("main", to), to \in MainPlaces,
           from = "wait_target" => /\ aff.target_ready
                                   /\ to = "spawn_b" <=> profile = "affinity-queued",
           from = "wait_b" => aff.b_ready,
           from = "wait_turn" => aff.turn >= i["main"],
           from = "wait_final_turn" => aff.turn >= OPS,
           aff' = CASE from = "snapshot" -> [aff EXCEPT !.heartbeat = FALSE]
                    [] from = "stop" -> [aff EXCEPT !.stop = TRUE]
                    [] OTHER -> aff,
           UNCHANGED <<profile, yieldVars, i, target_cpu_read, target_mask, round, rows,
                       printed, callVars>>
    PROVE  IInv'
<1> USE DEF yieldVars, callVars
<1>1. /\ Places' /\ pc'["main"] = to /\ UNCHANGED exit
      /\ pc'["peer"] = pc["peer"] /\ pc'["target"] = pc["target"] /\ pc'["ctl_b"] = pc["ctl_b"]
  BY SingleFacts, GotoPlace DEF Types, Threads
<1>2. /\ aff'.turn = aff.turn /\ aff'.target_ready = aff.target_ready
      /\ aff'.b_ready = aff.b_ready /\ aff'.b_success = aff.b_success
      /\ aff'.thread_error = aff.thread_error
  BY SingleFacts DEF Types, AffTypes
<1>3. Types'
  <2>1. AffTypes'
    BY SingleFacts DEF Types, AffTypes
  <2> QED
    BY SingleFacts, <1>1, <2>1 DEF Types, YieldTypes, MainTypes, CallTypes
<1>s. /\ to = "same_mask" => profile = "affinity-same-mask"
      /\ to = "spawn" => profile \in Affinity
      /\ to \in {"spawn_b", "wait_turn"} \/ from = "wait_b" => profile = "affinity-queued"
      /\ from \in {"wait_target", "snapshot"}
            => profile = "affinity-queued" \/ profile = "affinity-same-mask"
  BY SingleFacts DEF Types, Places, MainPlaces, Dual, Loop, Alone, SameMaskPlaces, Queued, Turns,
                     Ends, Affinity
<1>4. SingleCounts'
  <2>1. SingleCounts /\ round \in Nat
    BY SingleFacts
  <2>2. pc["main"] \notin {"validate", "restore"} /\ to \notin {"validate", "restore"}
        /\ to \notin {"start", "verify"}
    OBVIOUS
  <2>3. /\ from \in After <=> to \in After
        /\ \/ to \in Before
           \/ profile = "affinity-same-mask" /\ to \in {"wait_target", "snapshot"}
           => \/ from \in Before
              \/ profile = "affinity-same-mask" /\ from \in {"wait_target", "snapshot"}
    BY <1>s DEF Before, After
  <2>4. Len(rows) = round - 1
    BY <2>1, <2>2 DEF SingleCounts
  <2> QED
    BY <1>1, <2>1, <2>2, <2>3, <2>4 DEF SingleCounts
<1>5. ReadyInv'
  BY SingleFacts, <1>1, <1>2 DEF ReadyInv, Running, Turns, Ends
<1>6. QueuedInv'
  <2> SUFFICES ASSUME profile = "affinity-queued" PROVE QueuedInv'
    BY DEF QueuedInv
  <2>1. InStore' <=> InStore
    BY <1>1 DEF InStore
  <2>2. ASSUME from \in Turns, to \in Turns PROVE TurnInv' /\ TurnCounts' /\ (faults' = 0 => MaskInv')
    <3>1. TurnInv /\ TurnCounts /\ (faults = 0 => MaskInv)
      BY SingleFacts, <2>2 DEF QueuedInv
    <3>2. TurnInv'
      BY SingleFacts, <1>1, <1>2, <2>2, <3>1 DEF TurnInv, Turns
    <3>3. TurnCounts'
      BY <1>1, <1>2, <2>1, <3>1 DEF TurnCounts
    <3>4. faults' = 0 => MaskInv'
      BY <1>1, <1>2, <3>1 DEF MaskInv
    <3> QED
      BY <3>2, <3>3, <3>4
  <2>3. from \in Turns <=> to \in Turns
    BY <1>s DEF Turns
  <2> QED
    BY SingleFacts, <1>1, <2>2, <2>3 DEF QueuedInv
<1>7. PrintInv'
  BY SingleFacts, <1>1 DEF PrintInv, Loop
<1> QED
  BY <1>3, <1>4, <1>5, <1>6, <1>7, SingleSuffices

\* A worker goes on where neither the turn nor the counters change.
LEMMA WorkerMoves ==
    ASSUME IInv, profile # "yield-dual",
           Places', AffTypes', ReadyInv',
           exit' = exit, pc'["main"] = pc["main"],
           aff'.turn = aff.turn,
           aff'.b_success = aff.b_success \/ aff'.b_success = success["ctl_b"],
           pc'["ctl_b"] = "store_turn" <=> pc["ctl_b"] = "store_turn",
           \/ pc'["ctl_b"] = pc["ctl_b"]
           \/ pc'["ctl_b"] = "wait_turn" /\ i["ctl_b"] < OPS /\ pc["main"] \in Turns
           \/ pc'["ctl_b"] = "call" /\ i["ctl_b"] < OPS /\ aff.turn = i["ctl_b"]
              /\ pc["main"] \in Turns
           \/ pc'["ctl_b"] \in {"store_errors", "ended"},
           profile = "affinity-queued" /\ pc["main"] \in Turns /\ faults = 0 => MaskInv',
           UNCHANGED <<profile, yieldVars, i, mainVars, success, errors, made, failed>>,
           faults' \in Nat, faults' >= faults
    PROVE  IInv'
<1> USE DEF yieldVars, mainVars
<1>1. Types'
  BY SingleFacts DEF Types, YieldTypes, MainTypes, CallTypes
<1>2. SingleCounts'
  BY SingleFacts DEF SingleCounts
<1>3. QueuedInv'
  <2> SUFFICES ASSUME profile = "affinity-queued" PROVE QueuedInv'
    BY DEF QueuedInv
  <2>1. ASSUME pc["main"] \in Turns PROVE TurnInv' /\ TurnCounts'
    <3>1. TurnInv /\ TurnCounts
      BY SingleFacts, <2>1 DEF QueuedInv
    <3>2. TurnInv'
      BY SingleFacts, <3>1 DEF TurnInv
    <3>3. InStore' <=> InStore
      BY DEF InStore
    <3>4. TurnCounts'
      BY SingleFacts, <3>1, <3>3 DEF TurnCounts
    <3> QED
      BY <3>2, <3>4
  <2>2. faults' = 0 => faults = 0
    BY SingleFacts
  <2> QED
    BY SingleFacts, <2>1, <2>2 DEF QueuedInv
<1>4. PrintInv'
  BY SingleFacts DEF PrintInv
<1> QED
  BY <1>1, <1>2, <1>3, <1>4, SingleSuffices

\* The target starts, goes on with its heartbeat, and ends.
LEMMA TargetKeeps ==
    ASSUME IInv, profile # "yield-dual", Target
    PROVE  IInv'
<1> USE DEF yieldVars, mainVars, callVars
<1>1. PICK from \in {"start", "beat", "report", "last_report"},
           to \in {"beat", "report", "last_report", "ended"} :
         /\ pc["target"] = from /\ Goto("target", to)
         /\ from = "start" =>
               /\ target_mask' = TargetCpu /\ UNCHANGED target_cpu_read
               /\ aff' = [aff EXCEPT !.last_cpu = TargetCpu, !.target_ready = TRUE]
         /\ from = "beat" =>
               /\ aff' = [aff EXCEPT !.heartbeat = TRUE]
               /\ target_cpu_read' = target_mask
         /\ from \in {"report", "last_report"} =>
               /\ aff' = [aff EXCEPT !.last_cpu = target_cpu_read]
               /\ UNCHANGED target_cpu_read
         /\ from # "start" => UNCHANGED target_mask
         /\ UNCHANGED <<profile, yieldVars, i, mainVars, callVars>>
  BY DEF Target, StoreAff, At
<1>2. profile \in Affinity
  BY SingleFacts, <1>1 DEF Types, Places
<1>3. /\ Places' /\ UNCHANGED exit /\ pc'["target"] = to
      /\ pc'["main"] = pc["main"] /\ pc'["ctl_b"] = pc["ctl_b"]
  BY SingleFacts, <1>1, <1>2, GotoPlace DEF Types, Threads, TargetRuns
<1>4. TargetCpu \in Cpus
  BY DEF TargetCpu, Cpus
<1>5. AffTypes'
  <2>1. /\ target_cpu_read' \in Cpus /\ target_mask' \in Cpus
        /\ target_cpu_read \in Cpus /\ i' \in [{"main", "ctl_b"} -> Nat]
    BY SingleFacts, <1>1, <1>4 DEF Types, AffTypes
  <2>2. CASE from = "start"
    BY SingleFacts, <1>1, <1>4, <2>1, <2>2 DEF Types, AffTypes
  <2>3. CASE from = "beat"
    BY SingleFacts, <1>1, <2>1, <2>3 DEF Types, AffTypes
  <2>4. CASE from \in {"report", "last_report"}
    BY SingleFacts, <1>1, <2>1, <2>4 DEF Types, AffTypes
  <2> QED
    BY <2>2, <2>3, <2>4
<1>6. /\ aff'.turn = aff.turn /\ aff'.b_ready = aff.b_ready /\ aff'.b_success = aff.b_success
      /\ aff'.thread_error = aff.thread_error
      /\ aff'.target_ready = (aff.target_ready \/ from = "start")
  BY SingleFacts, <1>1 DEF Types, AffTypes
<1>7. pc["main"] \in Running
  BY SingleFacts, <1>1 DEF ReadyInv
<1>8. from = "start" => pc["main"] = "wait_target" /\ ~aff.thread_error
  BY SingleFacts, <1>1, <1>7 DEF ReadyInv
<1>9. ReadyInv'
  BY SingleFacts, <1>1, <1>3, <1>6, <1>7, <1>8 DEF ReadyInv
<1>10. profile = "affinity-queued" /\ pc["main"] \in Turns /\ faults = 0 => MaskInv'
  <2> SUFFICES ASSUME profile = "affinity-queued", pc["main"] \in Turns, faults = 0
               PROVE  MaskInv'
    OBVIOUS
  <2>1. TurnInv /\ MaskInv
    BY SingleFacts DEF QueuedInv
  <2>2. CASE from = "start"
    <3>1. pc["ctl_b"] = "none" /\ aff.turn = i["main"]
      BY SingleFacts, <1>7, <1>8, <2>1, <2>2 DEF ReadyInv, TurnInv
    <3> QED
      BY <1>1, <1>3, <1>6, <1>8, <2>2, <3>1 DEF MaskInv, TargetCpu
  <2>3. CASE from # "start"
    BY <1>1, <1>3, <1>6, <2>1, <2>3 DEF MaskInv
  <2> QED
    BY <2>2, <2>3
<1>11. UNCHANGED <<profile, yieldVars, i, mainVars, success, errors, made, failed>>
       /\ faults' \in Nat /\ faults' >= faults
  BY SingleFacts, <1>1
<1> QED
  BY <1>3, <1>5, <1>6, <1>9, <1>10, <1>11, WorkerMoves

\* Controller B waits for its turn, or reports.
LEMMA ControllerMoves ==
    ASSUME IInv, profile # "yield-dual", NEW from, NEW to,
           <<from, to>> \in {<<"start", "wait_turn">>, <<"wait_turn", "call">>,
                             <<"store_success", "store_errors">>, <<"store_errors", "ended">>},
           pc["ctl_b"] = from, Goto("ctl_b", to),
           from = "wait_turn" => aff.turn >= i["ctl_b"],
           aff' = CASE from = "start" -> [aff EXCEPT !.b_ready = TRUE]
                    [] from = "store_success" -> [aff EXCEPT !.b_success = success["ctl_b"]]
                    [] from = "store_errors" -> [aff EXCEPT !.b_errors = errors["ctl_b"]]
                    [] OTHER -> aff,
           UNCHANGED <<profile, yieldVars, i, target_cpu_read, target_mask, mainVars, callVars>>
    PROVE  IInv'
<1> USE DEF yieldVars, mainVars, callVars
<1>1. profile = "affinity-queued"
  BY SingleFacts DEF Types, Places
<1>2. /\ Places' /\ UNCHANGED exit /\ pc'["ctl_b"] = to
      /\ pc'["main"] = pc["main"] /\ pc'["target"] = pc["target"]
  BY SingleFacts, <1>1, GotoPlace DEF Types, Threads, ControllerRuns
<1>3. /\ aff'.turn = aff.turn /\ aff'.thread_error = aff.thread_error
      /\ aff'.target_ready = aff.target_ready
      /\ aff'.b_ready = (aff.b_ready \/ from = "start")
      /\ aff'.b_success = (IF from = "store_success" THEN success["ctl_b"] ELSE aff.b_success)
  BY SingleFacts DEF Types, AffTypes
<1>4. AffTypes'
  <2>1. errors["ctl_b"] \in Nat
    BY SingleFacts DEF Types, CallTypes, Callers
  <2> QED
    BY SingleFacts, <2>1 DEF Types, AffTypes
<1>5. from = "start" => pc["main"] = "wait_b" /\ ~aff.thread_error
  BY SingleFacts DEF ReadyInv, Running, Turns
<1>6. ReadyInv'
  BY SingleFacts, <1>2, <1>3, <1>5 DEF ReadyInv
<1>7. from \in {"start", "wait_turn"} => pc["main"] \in Turns /\ TurnInv
  BY SingleFacts, <1>1, <1>5 DEF QueuedInv, Turns
<1>8. from = "start" => i["ctl_b"] < OPS
  <2>1. OPS \in Nat \ {0} /\ OPS % 2 = 0
    BY SingleFacts, <1>1
  <2>2. 1 < OPS
    BY <2>1
  <2>3. from = "start" => i["ctl_b"] = 1
    BY <1>7 DEF TurnInv
  <2> QED
    BY <2>2, <2>3
<1>9. from = "wait_turn" => i["ctl_b"] < OPS /\ aff.turn = i["ctl_b"]
  BY SingleFacts, <1>7 DEF TurnInv
<1>10. profile = "affinity-queued" /\ pc["main"] \in Turns /\ faults = 0 => MaskInv'
  BY SingleFacts, <1>2, <1>3 DEF QueuedInv, MaskInv
<1>11. UNCHANGED <<profile, yieldVars, i, mainVars, success, errors, made, failed>>
       /\ faults' \in Nat /\ faults' >= faults
  BY SingleFacts
<1> QED
  BY <1>2, <1>3, <1>4, <1>6, <1>7, <1>8, <1>9, <1>10, <1>11, WorkerMoves

\* The target or controller B cannot set its affinity.
LEMMA WorkerFailsKeeps ==
    ASSUME IInv, profile # "yield-dual", WorkerFails
    PROVE  IInv'
<1> USE DEF yieldVars, mainVars
<1>1. PICK t \in {"target", "ctl_b"} :
         /\ pc[t] = "start" /\ Goto(t, "ended")
         /\ aff' = [aff EXCEPT !.thread_error = TRUE] /\ UNCHANGED yield
         /\ faults' = faults + 1
         /\ UNCHANGED <<profile, peer_round, previous_peer_errors, i, target_cpu_read,
                        target_mask, mainVars, success, errors, made, failed>>
  <2>1. pc["peer"] # "start"
    BY SingleFacts DEF Types, Places
  <2> QED
    BY <2>1 DEF WorkerFails, Threads
<1>2. (t = "target" => profile \in Affinity) /\ (t = "ctl_b" => profile = "affinity-queued")
  BY SingleFacts, <1>1 DEF Types, Places
<1>3. /\ Places' /\ UNCHANGED exit /\ pc'[t] = "ended"
      /\ pc'["main"] = pc["main"]
      /\ t = "target" => pc'["ctl_b"] = pc["ctl_b"]
      /\ t = "ctl_b" => pc'["target"] = pc["target"]
  BY SingleFacts, <1>1, <1>2, GotoPlace DEF Types, Threads, TargetRuns, ControllerRuns
<1>4. /\ aff'.turn = aff.turn /\ aff'.b_ready = aff.b_ready /\ aff'.b_success = aff.b_success
      /\ aff'.target_ready = aff.target_ready /\ aff'.thread_error
  BY SingleFacts, <1>1 DEF Types, AffTypes
<1>5. AffTypes'
  BY SingleFacts, <1>1 DEF Types, AffTypes
<1>6. pc["main"] \in Running
  BY SingleFacts, <1>1 DEF ReadyInv
<1>7. /\ t = "target" => pc["main"] = "wait_target" /\ ~aff.target_ready
      /\ t = "ctl_b" => pc["main"] = "wait_b" /\ ~aff.b_ready
  BY SingleFacts, <1>1, <1>6 DEF ReadyInv
<1>8. ReadyInv'
  BY SingleFacts, <1>1, <1>3, <1>4, <1>6, <1>7 DEF ReadyInv
<1>9. profile = "affinity-queued" /\ pc["main"] \in Turns /\ faults = 0 => MaskInv'
  BY SingleFacts, <1>1, <1>3, <1>4 DEF QueuedInv, MaskInv
<1>10. UNCHANGED <<profile, yieldVars, i, mainVars, success, errors, made, failed>>
       /\ faults' \in Nat /\ faults' >= faults
  BY SingleFacts, <1>1
<1>11. /\ pc'["ctl_b"] = "store_turn" <=> pc["ctl_b"] = "store_turn"
       /\ pc'["ctl_b"] = pc["ctl_b"] \/ pc'["ctl_b"] \in {"store_errors", "ended"}
  BY <1>1, <1>3
<1> QED
  BY <1>3, <1>4, <1>5, <1>8, <1>9, <1>10, <1>11, WorkerMoves

\* One of the controllers moves the target in its turn.
LEMMA CallKeeps ==
    ASSUME IInv, profile # "yield-dual", NEW t \in {"main", "ctl_b"}, NEW cpu,
           <<t, cpu>> \in {<<"main", CPU_B>>, <<"ctl_b", CPU_A>>}, Call(t, cpu)
    PROVE  IInv'
<1> USE DEF yieldVars, mainVars
<1>1. /\ exit = "running" /\ pc[t] = "call" /\ Goto(t, "store_turn") /\ Calls(t, round, 1)
      /\ target_mask' = IF success' # success THEN cpu ELSE target_mask
      /\ UNCHANGED <<profile, yieldVars, aff, i, target_cpu_read, mainVars>>
  BY DEF Call, At, SetTargetCpu
<1>2. profile = "affinity-queued"
  BY SingleFacts, <1>1 DEF Types, Places, MainPlaces, Dual, Loop, Alone, SameMaskPlaces, Ends
<1>3. pc["main"] \in Turns /\ TurnInv /\ TurnCounts /\ (faults = 0 => MaskInv)
  BY SingleFacts, <1>1, <1>2 DEF QueuedInv, Turns
<1>4. /\ Places' /\ UNCHANGED exit /\ pc'[t] = "store_turn"
      /\ \A u \in Threads \ {t} : pc'[u] = pc[u]
  BY SingleFacts, <1>1, <1>2, GotoPlace
     DEF Types, Threads, ControllerRuns, MainPlaces, Queued, Turns
<1>5. \/ t = "main" /\ pc'["main"] = "store_turn" /\ pc'["ctl_b"] = pc["ctl_b"]
         /\ pc'["target"] = pc["target"]
      \/ t = "ctl_b" /\ pc'["ctl_b"] = "store_turn" /\ pc'["main"] = pc["main"]
         /\ pc'["target"] = pc["target"]
  <2>1. CASE t = "main"
    BY <1>4, <2>1 DEF Threads
  <2>2. CASE t = "ctl_b"
    BY <1>4, <2>2 DEF Threads
  <2> QED
    BY <2>1, <2>2
<1>6. t \in Callers /\ round \in Rounds /\ CallTypes
  BY SingleFacts DEF Callers, Types
<1>7. CallTypes'
  BY <1>1, <1>6, CallsTypes
<1>8. PICK bad \in {0, 1} :
         /\ success' = [success EXCEPT ![t] = @ + 1 - bad]
         /\ made' = [made EXCEPT ![round] = @ + 1]
         /\ failed' = [failed EXCEPT ![round] = @ + bad]
         /\ faults' = faults + bad
  BY <1>1, <1>6, CallsTypes
<1>9. /\ success'[t] = success[t] + 1 - bad
      /\ \A u \in Callers \ {t} : success'[u] = success[u]
      /\ made'[round] = made[round] + 1 /\ failed'[round] = failed[round] + bad
      /\ \A r \in Rounds \ {round} : made'[r] = made[r] /\ failed'[r] = failed[r]
  BY <1>6, <1>8 DEF CallTypes
<1>10. Types'
  <2>1. target_mask' \in Cpus
    BY SingleFacts, <1>1 DEF Types, AffTypes, Cpus
  <2>2. AffTypes'
    BY SingleFacts, <1>1, <2>1 DEF Types, AffTypes
  <2> QED
    BY SingleFacts, <1>1, <1>4, <1>7, <2>2 DEF Types, YieldTypes, MainTypes
<1>11. SingleCounts'
  <2>1. pc["main"] \in Turns /\ pc'["main"] \in Turns
    BY <1>3, <1>5 DEF Turns
  <2>2. \A r \in Rounds : r <= Len(rows) => r # round
    BY SingleFacts, <2>1 DEF SingleCounts, Turns
  <2> HIDE DEF mainVars
  <2>3. UNCHANGED <<round, rows, profile>>
    BY <1>1 DEF mainVars
  <2>4. Len(rows') = round' - 1
    BY SingleFacts, <2>1, <2>3 DEF SingleCounts, Turns
  <2>5. \A r \in Rounds : r <= Len(rows) =>
          /\ made'[r] = OPS
          /\ rows[r].requested = OPS /\ rows[r].success + failed'[r] <= OPS
    <3> SUFFICES ASSUME NEW r \in Rounds, r <= Len(rows)
                 PROVE  /\ made'[r] = OPS
                        /\ rows[r].requested = OPS /\ rows[r].success + failed'[r] <= OPS
      OBVIOUS
    <3>1. made'[r] = made[r] /\ failed'[r] = failed[r]
      BY <1>9, <2>2
    <3> QED
      BY SingleFacts, <3>1 DEF SingleCounts
  <2>6. \A r \in Rounds : r > round => made'[r] = 0 /\ failed'[r] = 0
    <3> SUFFICES ASSUME NEW r \in Rounds, r > round PROVE made'[r] = 0 /\ failed'[r] = 0
      OBVIOUS
    <3>1. r # round
      BY SingleFacts DEF Rounds
    <3>2. made'[r] = made[r] /\ failed'[r] = failed[r]
      BY <1>9, <3>1
    <3> QED
      BY SingleFacts, <3>2 DEF SingleCounts
  <2>7. /\ pc'["main"] \notin Before \cup After \cup {"start", "verify", "validate", "restore"}
        /\ profile # "affinity-same-mask"
    BY <1>2, <2>1 DEF Before, After, Turns
  <2> QED
    BY <2>3, <2>4, <2>5, <2>6, <2>7 DEF SingleCounts
<1>12. ReadyInv'
  <2>1. pc["main"] \in Running /\ pc'["main"] \in Running
    BY <1>3, <1>5 DEF Running, Turns
  <2>2. pc["ctl_b"] = "call" => pc["main"] \notin {"wait_target", "spawn_b"}
    BY SingleFacts, <2>1 DEF ReadyInv
  <2>3. t = "main" => pc["main"] = "call"
    BY <1>1
  <2>4. t = "ctl_b" => pc["ctl_b"] = "call"
    BY <1>1
  <2> QED
    BY SingleFacts, <1>1, <1>5, <2>1, <2>2, <2>3, <2>4 DEF ReadyInv
<1>13. aff.turn = i[t] /\ pc["main"] # "store_turn" /\ pc["ctl_b"] # "store_turn"
  <2>1. CASE t = "main"
    BY SingleFacts, <1>1, <1>3, <2>1 DEF TurnInv
  <2>2. CASE t = "ctl_b"
    BY SingleFacts, <1>1, <1>3, <2>2 DEF TurnInv
  <2> QED
    BY <2>1, <2>2
<1>14. TurnInv'
  BY SingleFacts, <1>1, <1>3, <1>5, <1>13 DEF TurnInv
<1>15. TurnCounts'
  <2>1. ~InStore /\ InStore'
    BY <1>5, <1>13 DEF InStore
  <2>2. success'["main"] + success'["ctl_b"] + failed'[round] = made'[round]
        /\ success'["ctl_b"] >= success["ctl_b"]
    <3>1. CASE t = "main"
      BY SingleFacts, <1>3, <1>9, <3>1 DEF TurnCounts, Callers
    <3>2. CASE t = "ctl_b"
      BY SingleFacts, <1>3, <1>9, <3>2 DEF TurnCounts, Callers
    <3> QED
      BY <3>1, <3>2
  <2>3. success'["ctl_b"] \in Nat
    BY <1>7 DEF CallTypes, Callers
  <2> QED
    BY SingleFacts, <1>1, <1>3, <1>9, <2>1, <2>2, <2>3 DEF TurnCounts
<1>16. faults' = 0 => MaskInv'
  <2> SUFFICES ASSUME faults' = 0 PROVE MaskInv'
    OBVIOUS
  <2>1. bad = 0
    BY SingleFacts, <1>8
  <2>2. success' # success
    BY SingleFacts, <1>9, <2>1
  <2>3. target_mask' = cpu
    BY <1>1, <2>2
  <2>4. CASE t = "main"
    BY <1>5, <2>3, <2>4 DEF MaskInv
  <2>5. CASE t = "ctl_b"
    BY <1>5, <1>13, <2>3, <2>5 DEF MaskInv
  <2> QED
    BY <2>4, <2>5
<1>17. QueuedInv'
  <2>1. pc'["main"] \in Turns
    BY <1>3, <1>5 DEF Turns
  <2> QED
    BY <1>14, <1>15, <1>16, <2>1 DEF QueuedInv
<1>18. PrintInv'
  <2>1. pc["main"] \in Turns /\ pc'["main"] \in Turns
    BY <1>3, <1>5 DEF Turns
  <2>2. printed = round - 1
    BY SingleFacts, <2>1 DEF PrintInv, Turns
  <2>3. \A r \in 1..printed : r \in Rounds \ {round}
    BY SingleFacts, <2>2 DEF Rounds
  <2>4. \A r \in 1..printed : failed'[r] = 0 /\ made'[r] = rows[r].requested
    BY SingleFacts, <1>9, <2>3 DEF PrintInv
  <2>5. pc'["main"] \notin {"restore", "join_peer", "verify"}
    BY <2>1 DEF Turns
  <2>6. exit' # "success"
    BY <1>1, <1>4
  <2> QED
    BY <1>1, <1>2, <2>2, <2>4, <2>5, <2>6 DEF PrintInv
<1> QED
  BY <1>1, <1>10, <1>11, <1>12, <1>17, <1>18, SingleSuffices

\* A controller passes the turn on.
LEMMA StoreTurnKeeps ==
    ASSUME IInv, profile # "yield-dual", NEW t \in {"main", "ctl_b"}, NEW last,
           <<t, last>> \in {<<"main", "wait_final_turn">>, <<"ctl_b", "store_success">>},
           StoreTurn(t, last)
    PROVE  IInv'
<1> USE DEF yieldVars, mainVars, callVars
<1> DEFINE to == IF LoopsOn(t) THEN "wait_turn" ELSE last
<1>1. /\ pc[t] = "store_turn" /\ Goto(t, to) /\ exit = "running"
      /\ aff' = [aff EXCEPT !.turn = i[t] + 1]
      /\ i' = [i EXCEPT ![t] = @ + 2]
      /\ UNCHANGED <<profile, yieldVars, target_cpu_read, target_mask, mainVars, callVars>>
  BY DEF StoreTurn, At
<1>2. profile = "affinity-queued"
  BY SingleFacts, <1>1 DEF Types, Places, MainPlaces, Dual, Loop, Alone, SameMaskPlaces, Ends
<1>3. pc["main"] \in Turns /\ TurnInv /\ TurnCounts /\ (faults = 0 => MaskInv)
  BY SingleFacts, <1>1, <1>2 DEF QueuedInv, Turns
<1>4. to \in {"wait_turn", last} /\ (to = "wait_turn" <=> i[t] + 2 < OPS)
  BY DEF LoopsOn
<1> HIDE DEF to
<1>5. /\ Places' /\ UNCHANGED exit /\ pc'[t] = to
      /\ \A u \in Threads \ {t} : pc'[u] = pc[u]
  BY SingleFacts, <1>1, <1>2, <1>4, GotoPlace
     DEF Types, Threads, ControllerRuns, MainPlaces, Queued, Turns
<1>6. \/ t = "main" /\ pc'["main"] = to /\ pc'["ctl_b"] = pc["ctl_b"]
         /\ pc'["target"] = pc["target"]
      \/ t = "ctl_b" /\ pc'["ctl_b"] = to /\ pc'["main"] = pc["main"]
         /\ pc'["target"] = pc["target"]
  <2>1. CASE t = "main"
    BY <1>5, <2>1 DEF Threads
  <2>2. CASE t = "ctl_b"
    BY <1>5, <2>2 DEF Threads
  <2> QED
    BY <2>1, <2>2
<1>7. /\ aff'.turn = i[t] + 1 /\ aff'.b_ready = aff.b_ready /\ aff'.b_success = aff.b_success
      /\ aff'.target_ready = aff.target_ready /\ aff'.thread_error = aff.thread_error
      /\ i'[t] = i[t] + 2
      /\ t = "main" => i'["ctl_b"] = i["ctl_b"]
      /\ t = "ctl_b" => i'["main"] = i["main"]
  BY SingleFacts, <1>1 DEF Types, AffTypes
<1>8. Types'
  <2>1. i[t] + 1 \in Nat /\ i[t] + 2 \in Nat
    BY SingleFacts DEF Types, AffTypes
  <2>2. AffTypes'
    BY SingleFacts, <1>1, <2>1 DEF Types, AffTypes
  <2> QED
    BY SingleFacts, <1>1, <1>5, <2>2 DEF Types, YieldTypes, MainTypes, CallTypes
<1>9. pc'["main"] \in Turns
  BY <1>3, <1>4, <1>6 DEF Turns
<1>10. SingleCounts'
  <2>1. {pc["main"], pc'["main"]}
           \cap (Before \cup After \cup {"start", "verify", "validate", "restore"}) = {}
        /\ profile # "affinity-same-mask"
    BY <1>2, <1>3, <1>9 DEF Before, After, Turns
  <2> QED
    BY SingleFacts, <1>1, <2>1 DEF SingleCounts
<1>11. ReadyInv'
  <2>1. pc["main"] \in Running /\ pc'["main"] \in Running
    BY <1>3, <1>9 DEF Running
  <2>2. pc["ctl_b"] = "store_turn" => pc["main"] \notin {"wait_target", "spawn_b"}
    BY SingleFacts, <2>1 DEF ReadyInv
  <2>3. t = "main" => pc["main"] = "store_turn"
    BY <1>1
  <2>4. t = "ctl_b" => pc["ctl_b"] = "store_turn"
    BY <1>1
  <2> QED
    BY SingleFacts, <1>4, <1>6, <1>7, <2>1, <2>2, <2>3, <2>4 DEF ReadyInv
<1>12. aff.turn = i[t] /\ i[t] < OPS
       /\ (t = "main" => i["ctl_b"] = i["main"] + 1 /\ pc["ctl_b"] # "store_turn")
       /\ (t = "ctl_b" => i["main"] = i["ctl_b"] + 1 /\ pc["main"] # "store_turn")
  <2>1. CASE t = "main"
    BY SingleFacts, <1>1, <1>3, <2>1 DEF TurnInv
  <2>2. CASE t = "ctl_b"
    BY SingleFacts, <1>1, <1>3, <2>2 DEF TurnInv
  <2> QED
    BY <2>1, <2>2
<1>13. TurnInv'
  <2>1. CASE t = "main"
    <3>1. i["main"] % 2 = 0 /\ OPS % 2 = 0 /\ i["main"] \in Nat /\ OPS \in Nat
      BY SingleFacts, <1>2, <1>3 DEF TurnInv
    <3>2. (i["main"] + 2) % 2 = 0
      BY <3>1
    <3>3. i["main"] + 2 <= OPS
      BY <1>12, <2>1, <3>1
    <3>4. pc["main"] = "store_turn" /\ pc'["main"] = to /\ pc'["ctl_b"] = pc["ctl_b"]
      BY <1>1, <1>6, <2>1
    <3>5. last = "wait_final_turn"
      BY <2>1
    <3>6. i'["main"] = i["main"] + 2 /\ i'["ctl_b"] = i["ctl_b"] /\ aff'.turn = i["main"] + 1
      BY <1>7, <2>1
    <3> QED
      BY SingleFacts, <1>3, <1>4, <1>12, <2>1, <3>1, <3>2, <3>3, <3>4, <3>5, <3>6 DEF TurnInv
  <2>2. CASE t = "ctl_b"
    <3>1. pc["ctl_b"] = "store_turn" /\ pc'["ctl_b"] = to /\ pc'["main"] = pc["main"]
      BY <1>1, <1>6, <2>2
    <3>2. last = "store_success"
      BY <2>2
    <3>3. i'["ctl_b"] = i["ctl_b"] + 2 /\ i'["main"] = i["main"] /\ aff'.turn = i["ctl_b"] + 1
      BY <1>7, <2>2
    <3>4. pc["main"] # "read_success" /\ pc["main"] # "call"
      BY SingleFacts, <1>3, <1>12, <2>2 DEF TurnInv
    <3> QED
      BY SingleFacts, <1>3, <1>4, <1>12, <2>2, <3>1, <3>2, <3>3, <3>4 DEF TurnInv
  <2> QED
    BY <2>1, <2>2
<1>14. InStore /\ ~InStore'
  <2>1. to # "store_turn"
    BY <1>4
  <2> QED
    BY <1>1, <1>6, <1>12, <2>1 DEF InStore
<1>15. TurnCounts'
  BY SingleFacts, <1>1, <1>3, <1>7, <1>12, <1>14 DEF TurnCounts
<1>16. faults' = 0 => MaskInv'
  <2> SUFFICES ASSUME faults' = 0 PROVE MaskInv'
    OBVIOUS
  <2>1. MaskInv /\ UNCHANGED target_mask
    BY <1>1, <1>3
  <2>2. pc'["main"] # "store_turn" /\ pc'["ctl_b"] # "store_turn"
    BY <1>14 DEF InStore
  <2>3. pc["main"] # "wait_target"
    BY SingleFacts, <1>1, <1>3 DEF ReadyInv, Running
  <2>4. CASE t = "main"
    <3>1. target_mask = CPU_B
      BY <1>1, <2>1, <2>4 DEF MaskInv
    <3>2. aff'.turn # i'["main"]
      BY SingleFacts, <1>7, <2>4
    <3> QED
      BY <2>1, <2>2, <3>1, <3>2 DEF MaskInv
  <2>5. CASE t = "ctl_b"
    <3>1. target_mask = CPU_A
      BY <1>1, <1>12, <2>1, <2>3, <2>5 DEF MaskInv
    <3>2. aff'.turn = i'["main"]
      BY SingleFacts, <1>7, <1>12, <2>5
    <3> QED
      BY <2>1, <2>2, <3>1, <3>2 DEF MaskInv
  <2> QED
    BY <2>4, <2>5
<1>17. QueuedInv'
  BY <1>9, <1>13, <1>15, <1>16 DEF QueuedInv
<1>18. PrintInv'
  <2>1. {pc["main"], pc'["main"]} \cap {"restore", "join_peer", "verify"} = {}
    BY <1>3, <1>9 DEF Turns
  <2> QED
    BY SingleFacts, <1>1, <1>2, <1>5, <2>1 DEF PrintInv
<1> QED
  BY <1>1, <1>8, <1>10, <1>11, <1>17, <1>18, SingleSuffices

\* The threads of a round start.
LEMMA SpawnsKeep ==
    ASSUME IInv, profile # "yield-dual", SpawnTarget \/ SpawnControllerB
    PROVE  IInv'
<1> USE DEF yieldVars, mainVars, callVars, affVars
<1>1. CASE SpawnTarget
  <2>1. /\ pc["main"] = "spawn" /\ exit = "running"
        /\ pc' = [pc EXCEPT !["main"] = "wait_target", !["target"] = "start",
                            !["ctl_b"] = "none"]
        /\ aff' = AffinityInit /\ i' = [main |-> 0, ctl_b |-> 1]
        /\ UNCHANGED <<profile, exit, yieldVars, target_cpu_read, target_mask, mainVars,
                       callVars>>
    BY <1>1 DEF SpawnTarget, At
  <2>2. profile \in Affinity
    BY SingleFacts, <2>1, ProfilePlaces DEF Types
  <2>3. /\ pc' = [t \in Threads |-> pc'[t]]
        /\ pc'["main"] = "wait_target" /\ pc'["target"] = "start" /\ pc'["ctl_b"] = "none"
        /\ pc'["peer"] = pc["peer"]
    BY SingleFacts, <2>1 DEF Types, Places, Threads
  <2>4. Places'
    <3>1. "wait_target" \in MainPlaces'
      BY <2>1, <2>2 DEF MainPlaces, Affinity, SameMaskPlaces, Queued, Turns
    <3> QED
      BY SingleFacts, <2>1, <2>2, <2>3, <3>1 DEF Types, Places, TargetRuns
  <2>5. /\ aff'.turn = 0 /\ ~aff'.target_ready /\ ~aff'.b_ready /\ ~aff'.thread_error
        /\ aff'.b_success = 0 /\ i'["main"] = 0 /\ i'["ctl_b"] = 1
    BY <2>1 DEF AffinityInit
  <2>6. Types'
    <3>1. AffTypes'
      <4>1. i' \in [{"main", "ctl_b"} -> Nat]
        BY <2>1
      <4>2. aff' \in [turn : Nat, heartbeat : BOOLEAN, last_cpu : Cpus,
                      target_ready : BOOLEAN, b_ready : BOOLEAN, b_success : Nat,
                      b_errors : Nat, stop : BOOLEAN, thread_error : BOOLEAN]
        BY <2>1 DEF AffinityInit, Cpus
      <4> QED
        BY SingleFacts, <2>1, <4>1, <4>2 DEF Types, AffTypes
    <3> QED
      BY SingleFacts, <2>1, <2>4, <3>1 DEF Types, YieldTypes, MainTypes, CallTypes
  <2>7. SingleCounts'
    BY SingleFacts, <2>1, <2>3 DEF SingleCounts, Before, After
  <2>8. ReadyInv'
    BY <2>3, <2>5 DEF ReadyInv, Running, Turns
  <2>9. QueuedInv'
    <3>1. TurnInv'
      BY <2>3, <2>5 DEF TurnInv
    <3>2. TurnCounts'
      <4>1. /\ made[round] = 0 /\ failed[round] = 0
            /\ success["main"] = 0 /\ success["ctl_b"] = 0
        BY SingleFacts, <2>1 DEF SingleCounts, Before, Callers
      <4>2. ~InStore'
        BY <2>3 DEF InStore
      <4> QED
        BY <2>1, <2>5, <4>1, <4>2 DEF TurnCounts
    <3>3. MaskInv'
      BY <2>3, <2>5 DEF MaskInv
    <3> QED
      BY <2>3, <3>1, <3>2, <3>3 DEF QueuedInv, Turns
  <2>10. PrintInv'
    BY SingleFacts, <2>1, <2>3 DEF PrintInv, Loop
  <2> QED
    BY <2>1, <2>6, <2>7, <2>8, <2>9, <2>10, SingleSuffices
<1>2. CASE SpawnControllerB
  <2>1. /\ pc["main"] = "spawn_b" /\ exit = "running"
        /\ pc' = [pc EXCEPT !["main"] = "wait_b", !["ctl_b"] = "start"]
        /\ UNCHANGED <<profile, exit, yieldVars, affVars, mainVars, callVars>>
    BY <1>2 DEF SpawnControllerB, At
  <2>2. profile = "affinity-queued"
    BY SingleFacts, <2>1, ProfilePlaces DEF Types
  <2>3. /\ pc' = [t \in Threads |-> pc'[t]]
        /\ pc'["main"] = "wait_b" /\ pc'["target"] = pc["target"] /\ pc'["ctl_b"] = "start"
        /\ pc'["peer"] = pc["peer"]
    BY SingleFacts, <2>1 DEF Types, Places, Threads
  <2>4. Places'
    <3>1. "wait_b" \in MainPlaces'
      BY <2>1, <2>2 DEF MainPlaces, Queued, Turns
    <3> QED
      BY SingleFacts, <2>1, <2>2, <2>3, <3>1 DEF Types, Places, ControllerRuns
  <2>5. Types'
    BY SingleFacts, <2>1, <2>4 DEF Types, YieldTypes, AffTypes, MainTypes, CallTypes
  <2>6. SingleCounts'
    BY SingleFacts, <2>1, <2>3 DEF SingleCounts, Before, After
  <2>7. ReadyInv'
    BY SingleFacts, <2>1, <2>3 DEF ReadyInv, Running, Turns
  <2>8. QueuedInv'
    <3>1. TurnInv /\ TurnCounts /\ (faults = 0 => MaskInv) /\ pc["ctl_b"] = "none"
      BY SingleFacts, <2>1, <2>2 DEF QueuedInv, Turns, ReadyInv, Running
    <3>2. TurnInv'
      BY <2>1, <2>3, <3>1 DEF TurnInv
    <3>3. TurnCounts'
      BY <2>1, <2>3, <3>1 DEF TurnCounts, InStore
    <3>4. faults' = 0 => MaskInv'
      BY <2>1, <2>3, <3>1 DEF MaskInv
    <3> QED
      BY <2>3, <3>2, <3>3, <3>4 DEF QueuedInv, Turns
  <2>9. PrintInv'
    BY SingleFacts, <2>1, <2>3 DEF PrintInv, Loop
  <2> QED
    BY <2>1, <2>5, <2>6, <2>7, <2>8, <2>9, SingleSuffices
<1> QED
  BY <1>1, <1>2

\* Controller A adds controller B's sums to its own.
LEMMA ReadSumsKeeps ==
    ASSUME IInv, profile # "yield-dual", ReadSums
    PROVE  IInv'
<1> USE DEF yieldVars, mainVars, affVars
<1>1. CASE /\ At("main", "read_success") /\ Goto("main", "read_errors")
           /\ success' = [success EXCEPT !["main"] = @ + aff.b_success]
           /\ UNCHANGED <<profile, yieldVars, affVars, mainVars, errors, made, failed, faults>>
  <2>1. pc["main"] = "read_success" /\ exit = "running"
    BY <1>1 DEF At
  <2>2. profile = "affinity-queued"
    BY SingleFacts, <2>1, ProfilePlaces DEF Types
  <2>3. /\ Places' /\ UNCHANGED exit /\ pc'["main"] = "read_errors"
        /\ pc'["target"] = pc["target"] /\ pc'["ctl_b"] = pc["ctl_b"]
    BY SingleFacts, <1>1, <2>2, GotoPlace DEF Types, Threads, MainPlaces, Queued
  <2>4. success' \in [Callers -> Nat] /\ success'["main"] = success["main"] + aff.b_success
    BY SingleFacts, <1>1 DEF Types, CallTypes, Callers
  <2>5. Types'
    BY SingleFacts, <1>1, <2>3, <2>4 DEF Types, YieldTypes, AffTypes, MainTypes, CallTypes
  <2>6. TurnInv /\ TurnCounts
    BY SingleFacts, <2>1, <2>2 DEF QueuedInv, Turns
  <2>7. aff.turn = OPS /\ i["ctl_b"] = OPS + 1
    BY SingleFacts, <2>1, <2>6 DEF TurnInv
  <2>8. pc["ctl_b"] \in {"store_success", "store_errors", "ended"}
    <3>1. pc["ctl_b"] \in ControllerRuns \cup {"none"}
      BY SingleFacts DEF Types, Places
    <3> QED
      BY SingleFacts, <2>6, <2>7, <3>1 DEF TurnInv, ControllerRuns
  <2>9. made[round] = OPS /\ success'["main"] + failed[round] <= OPS
    <3>1. ~InStore
      BY <2>1, <2>8 DEF InStore
    <3> QED
      BY SingleFacts, <2>4, <2>6, <2>7, <3>1 DEF TurnCounts
  <2>10. SingleCounts'
    BY SingleFacts, <1>1, <2>1, <2>3, <2>9 DEF SingleCounts, Before, After
  <2>11. ReadyInv'
    BY SingleFacts, <1>1, <2>1, <2>3 DEF ReadyInv, Running, Turns
  <2>12. QueuedInv'
    BY <2>3, <2>8 DEF QueuedInv, Turns
  <2>13. PrintInv'
    BY SingleFacts, <1>1, <2>1, <2>3 DEF PrintInv, Loop
  <2> QED
    BY <1>1, <2>5, <2>10, <2>11, <2>12, <2>13, SingleSuffices
<1>2. CASE /\ At("main", "read_errors") /\ Goto("main", "join_b")
           /\ errors' = [errors EXCEPT !["main"] = @ + aff.b_errors]
           /\ UNCHANGED <<profile, yieldVars, affVars, mainVars, success, made, failed, faults>>
  <2>1. pc["main"] = "read_errors" /\ exit = "running"
    BY <1>2 DEF At
  <2>2. profile = "affinity-queued"
    BY SingleFacts, <2>1, ProfilePlaces DEF Types
  <2>3. /\ Places' /\ UNCHANGED exit /\ pc'["main"] = "join_b"
        /\ pc'["target"] = pc["target"] /\ pc'["ctl_b"] = pc["ctl_b"]
    BY SingleFacts, <1>2, <2>2, GotoPlace DEF Types, Threads, MainPlaces, Queued
  <2>4. errors' \in [Callers -> Nat]
    BY SingleFacts, <1>2 DEF Types, CallTypes, AffTypes, Callers
  <2>5. Types'
    BY SingleFacts, <1>2, <2>3, <2>4 DEF Types, YieldTypes, AffTypes, MainTypes, CallTypes
  <2>6. SingleCounts'
    BY SingleFacts, <1>2, <2>1, <2>3 DEF SingleCounts, Before, After
  <2>7. ReadyInv'
    BY SingleFacts, <1>2, <2>1, <2>3 DEF ReadyInv, Running, Turns
  <2>8. QueuedInv'
    BY SingleFacts, <2>1, <2>2, <2>3 DEF QueuedInv, Turns
  <2>9. PrintInv'
    BY SingleFacts, <1>2, <2>1, <2>3 DEF PrintInv, Loop
  <2> QED
    BY <1>2, <2>5, <2>6, <2>7, <2>8, <2>9, SingleSuffices
<1> QED
  BY <1>1, <1>2 DEF ReadSums

\* The main thread makes all the calls of a round, alone or on a target whose
\* mask stays.
LEMMA LoopKeeps ==
    ASSUME IInv, profile # "yield-dual", NEW from, NEW to,
           <<from, to>> \in {<<"alone", "row">>, <<"same_mask", "check_mask">>},
           exit = "running", pc["main"] = from, Goto("main", to), to \in MainPlaces,
           Calls("main", round, OPS), target_mask' \in Cpus,
           UNCHANGED <<profile, yieldVars, aff, i, target_cpu_read, mainVars>>
    PROVE  IInv'
<1> USE DEF yieldVars, mainVars
<1>1. /\ Places' /\ UNCHANGED exit /\ pc'["main"] = to
      /\ pc'["target"] = pc["target"] /\ pc'["ctl_b"] = pc["ctl_b"]
  BY SingleFacts, GotoPlace DEF Types, Threads
<1>2. profile # "affinity-queued"
  BY SingleFacts, ProfilePlaces DEF Types, Affinity
<1>3. "main" \in Callers /\ CallTypes
  BY SingleFacts DEF Callers, Types
<1>4. CallTypes'
  BY SingleFacts, <1>3, CallsTypes
<1>5. PICK bad \in {0, 1} :
         /\ success' = [success EXCEPT !["main"] = @ + OPS - bad]
         /\ made' = [made EXCEPT ![round] = @ + OPS]
         /\ failed' = [failed EXCEPT ![round] = @ + bad]
  BY SingleFacts, <1>3, CallsTypes
<1>6. made[round] = 0 /\ failed[round] = 0 /\ success["main"] = 0
  BY SingleFacts DEF SingleCounts, Before, Callers
<1>7. /\ made'[round] = OPS /\ success'["main"] + failed'[round] <= OPS
      /\ \A r \in Rounds \ {round} : made'[r] = made[r] /\ failed'[r] = failed[r]
  BY SingleFacts, <1>3, <1>5, <1>6 DEF CallTypes
<1>8. Types'
  <2>1. AffTypes'
    BY SingleFacts DEF Types, AffTypes
  <2> QED
    BY SingleFacts, <1>1, <1>4, <2>1 DEF Types, YieldTypes, MainTypes
<1>9. Len(rows) = round - 1
  BY SingleFacts DEF SingleCounts
<1>10. SingleCounts'
  <2>1. \A r \in Rounds : r <= Len(rows) =>
          /\ made'[r] = OPS
          /\ rows[r].requested = OPS /\ rows[r].success + failed'[r] <= OPS
    <3> SUFFICES ASSUME NEW r \in Rounds, r <= Len(rows)
                 PROVE  /\ made'[r] = OPS
                        /\ rows[r].requested = OPS /\ rows[r].success + failed'[r] <= OPS
      OBVIOUS
    <3>1. r # round
      BY SingleFacts, <1>9 DEF Rounds
    <3> QED
      BY SingleFacts, <1>7, <3>1 DEF SingleCounts
  <2>2. \A r \in Rounds : r > round => made'[r] = 0 /\ failed'[r] = 0
    <3> SUFFICES ASSUME NEW r \in Rounds, r > round PROVE made'[r] = 0 /\ failed'[r] = 0
      OBVIOUS
    <3>1. r # round
      BY SingleFacts DEF Rounds
    <3> QED
      BY SingleFacts, <1>7, <3>1 DEF SingleCounts
  <2>3. to \notin Before \cup {"start", "verify", "validate", "restore", "wait_target",
                               "snapshot"}
    BY DEF Before
  <2> QED
    BY <1>1, <1>7, <1>9, <2>1, <2>2, <2>3 DEF SingleCounts
<1>11. ReadyInv'
  <2>1. from = "alone" => from \notin Running /\ to \notin Running
    BY DEF Running, Turns, Ends
  <2>2. from = "same_mask" => from \in Running /\ to \in Running
    BY DEF Running, Ends
  <2> QED
    BY SingleFacts, <1>1, <2>1, <2>2 DEF ReadyInv
<1>12. QueuedInv'
  BY <1>2 DEF QueuedInv
<1>13. PrintInv'
  <2>1. printed = round - 1
    BY SingleFacts DEF PrintInv
  <2>2. \A r \in 1..printed : r \in Rounds \ {round}
    BY SingleFacts, <2>1 DEF Rounds
  <2>3. \A r \in 1..printed : failed'[r] = 0 /\ made'[r] = rows[r].requested
    BY SingleFacts, <1>7, <2>2 DEF PrintInv
  <2> QED
    BY SingleFacts, <1>1, <2>1, <2>3 DEF PrintInv
<1> QED
  BY <1>8, <1>10, <1>11, <1>12, <1>13, SingleSuffices

\* A round has its row.
LEMMA AddRowKeeps ==
    ASSUME IInv, profile # "yield-dual", exit = "running",
           \/ pc["main"] = "row"
           \/ pc["main"] = "join_target" /\ pc["target"] = "ended",
           Goto("main", "validate"), AddRow
    PROVE  IInv'
<1> USE DEF yieldVars, affVars
<1>1. /\ rows' = Append(rows, [requested |-> OPS, success |-> success["main"],
                              errors |-> errors["main"]])
      /\ success' = [t \in Callers |-> 0] /\ errors' = [t \in Callers |-> 0]
      /\ UNCHANGED <<profile, yieldVars, affVars, round, printed, slice, affinity, made, failed,
                     faults>>
  BY DEF AddRow
<1>2. /\ Places' /\ UNCHANGED exit /\ pc'["main"] = "validate"
      /\ pc'["target"] = pc["target"] /\ pc'["ctl_b"] = pc["ctl_b"]
  <2>1. "validate" \in MainPlaces
    BY DEF MainPlaces, Dual, Alone, SameMaskPlaces, Queued, Ends
  <2> QED
    BY SingleFacts, <1>1, <2>1, GotoPlace DEF Types, Threads
<1>3. [requested |-> OPS, success |-> success["main"], errors |-> errors["main"]] \in RowType
  <2>1. success["main"] \in Int /\ errors["main"] \in Int /\ OPS \in Nat
    BY SingleFacts DEF Types, CallTypes, Callers
  <2> QED
    BY <2>1 DEF RowType
<1>4. rows \in Seq(RowType) /\ Len(rows) = round - 1
  BY SingleFacts DEF Types, MainTypes, SingleCounts
<1>5. /\ rows' \in Seq(RowType) /\ Len(rows') = round
      /\ rows'[round].requested = OPS /\ rows'[round].success = success["main"]
      /\ \A r \in 1..(round - 1) : rows'[r] = rows[r]
  BY SingleFacts, <1>1, <1>3, <1>4
<1>6. made[round] = OPS /\ success["main"] + failed[round] <= OPS
  BY SingleFacts DEF SingleCounts, After
<1>7. Types'
  <2>1. CallTypes'
    BY SingleFacts, <1>1 DEF Types, CallTypes
  <2> QED
    BY SingleFacts, <1>1, <1>2, <1>5, <2>1 DEF Types, YieldTypes, AffTypes, MainTypes
<1>8. SingleCounts'
  <2>1. \A r \in Rounds : r <= Len(rows') =>
          /\ made[r] = OPS
          /\ rows'[r].requested = OPS /\ rows'[r].success + failed[r] <= OPS
    <3> SUFFICES ASSUME NEW r \in Rounds, r <= Len(rows')
                 PROVE  /\ made[r] = OPS
                        /\ rows'[r].requested = OPS /\ rows'[r].success + failed[r] <= OPS
      OBVIOUS
    <3>1. CASE r = round
      BY <1>5, <1>6, <3>1
    <3>2. CASE r # round
      <4>1. r \in 1..(round - 1) /\ r <= Len(rows)
        BY SingleFacts, <1>4, <1>5, <3>2 DEF Rounds
      <4>2. rows'[r] = rows[r]
        BY <1>5, <4>1
      <4> QED
        BY SingleFacts, <4>1, <4>2 DEF SingleCounts
    <3> QED
      BY <3>1, <3>2
  <2>2. \A t \in Callers : success'[t] = 0
    BY <1>1
  <2>3. \A r \in Rounds : r > round => made[r] = 0 /\ failed[r] = 0
    BY SingleFacts DEF SingleCounts
  <2> QED
    BY <1>1, <1>2, <1>5, <2>1, <2>2, <2>3 DEF SingleCounts, Before, After
<1>9. ReadyInv'
  <2>1. pc["target"] \in {"none", "ended"} /\ pc["ctl_b"] # "start"
    BY SingleFacts DEF ReadyInv, Running, Turns, Ends
  <2> QED
    BY <1>2, <2>1 DEF ReadyInv, Running, Turns, Ends
<1>10. QueuedInv'
  BY SingleFacts, <1>1, <1>2 DEF QueuedInv, Turns
<1>11. PrintInv'
  <2>1. printed = round - 1
    BY SingleFacts DEF PrintInv, Loop
  <2>2. \A r \in 1..printed : failed[r] = 0 /\ made[r] = rows'[r].requested
    BY SingleFacts, <1>5, <2>1 DEF PrintInv
  <2> QED
    BY SingleFacts, <1>1, <1>2, <2>1, <2>2 DEF PrintInv, Loop
<1> QED
  BY <1>1, <1>7, <1>8, <1>9, <1>10, <1>11, SingleSuffices

\* The process starts, prints a row, and ends well.
LEMMA SingleMainKeeps ==
    ASSUME IInv, profile # "yield-dual", Start \/ Validate \/ Restore
    PROVE  IInv'
<1> USE DEF yieldVars, mainVars, affVars, callVars
<1>1. CASE Start
  <2>1. /\ pc["main"] = "start" /\ Goto("main", "verify") /\ exit = "running"
        /\ UNCHANGED <<profile, yieldVars, affVars, round, rows, printed, slice, callVars>>
    BY <1>1 DEF Start, At, Goto
  <2>2. "verify" \in MainPlaces
    BY DEF MainPlaces, Dual, Alone, SameMaskPlaces, Queued
  <2>3. /\ Places' /\ UNCHANGED exit /\ pc'["main"] = "verify"
        /\ pc'["target"] = pc["target"] /\ pc'["ctl_b"] = pc["ctl_b"]
    BY SingleFacts, <2>1, <2>2, GotoPlace DEF Types, Threads
  <2>4. Types'
    BY SingleFacts, <2>1, <2>3 DEF Types, YieldTypes, AffTypes, MainTypes, CallTypes
  <2>5. SingleCounts'
    BY SingleFacts, <2>1, <2>3 DEF SingleCounts, Before, After
  <2>6. ReadyInv'
    BY SingleFacts, <2>1, <2>3 DEF ReadyInv, Running, Turns, Ends
  <2>7. QueuedInv'
    BY SingleFacts, <2>1, <2>3 DEF QueuedInv, Turns
  <2>8. PrintInv'
    BY SingleFacts, <2>1, <2>3 DEF PrintInv, Loop, SingleCounts
  <2> QED
    BY <2>1, <2>4, <2>5, <2>6, <2>7, <2>8, SingleSuffices
<1>2. CASE Validate
  <2>1. pc["main"] = "validate" /\ exit = "running"
    BY <1>2 DEF Validate, At
  <2>2. CASE ~RowValid(rows[round])
    <3>1. /\ exit' = "timed syscall semantic error" /\ UNCHANGED pc
          /\ UNCHANGED <<printed, round, profile, yieldVars, affVars, rows, slice, affinity,
                         callVars>>
      BY <1>2, <2>2 DEF Validate, Fail
    <3>2. exit' # "success"
      BY <3>1
    <3>3. faults' = faults
      BY <3>1
    <3>4. faults' \in Nat /\ faults' >= faults
      BY SingleFacts, <3>3
    <3> QED
      BY <3>1, <3>2, <3>4, QuietKeeps DEF Quiet
  <2>3. CASE RowValid(rows[round])
    <3> DEFINE to == IF round < TOTAL_ROUNDS THEN "rounds" ELSE "restore"
    <3>1. /\ printed' = printed + 1 /\ Goto("main", to)
          /\ round' = IF round < TOTAL_ROUNDS THEN round + 1 ELSE round
          /\ UNCHANGED <<profile, yieldVars, affVars, rows, slice, affinity, callVars>>
      BY <1>2, <2>3 DEF Validate
    <3>2. /\ to \in {"rounds", "restore"}
          /\ to = "rounds" <=> round < TOTAL_ROUNDS
      OBVIOUS
    <3> HIDE DEF to
    <3>3. to \in MainPlaces
      BY <3>2 DEF MainPlaces, Dual, Alone, SameMaskPlaces, Queued, Ends
    <3>4. /\ Places' /\ UNCHANGED exit /\ pc'["main"] = to
          /\ pc'["target"] = pc["target"] /\ pc'["ctl_b"] = pc["ctl_b"]
      BY SingleFacts, <3>1, <3>3, GotoPlace DEF Types, Threads
    <3>5. Len(rows) = round /\ printed = round - 1
      BY SingleFacts, <2>1 DEF SingleCounts, PrintInv, Loop
    <3>6. round' \in Rounds /\ printed' \in Nat
      BY SingleFacts, <3>1 DEF Rounds
    <3>7. Types'
      BY SingleFacts, <3>1, <3>4, <3>6 DEF Types, YieldTypes, AffTypes, MainTypes, CallTypes
    <3>8. SingleCounts'
      <4>1. Len(rows') = IF to = "restore" THEN TOTAL_ROUNDS ELSE round' - 1
        BY SingleFacts, <3>1, <3>2, <3>5
      <4>2. to = "rounds" => made[round'] = 0 /\ failed[round'] = 0
        BY SingleFacts, <3>1, <3>2, <3>6 DEF SingleCounts
      <4>3. \A t \in Callers : success[t] = 0
        BY SingleFacts, <2>1 DEF SingleCounts
      <4>4. \A r \in Rounds : r > round' => made[r] = 0 /\ failed[r] = 0
        <5> SUFFICES ASSUME NEW r \in Rounds, r > round' PROVE made[r] = 0 /\ failed[r] = 0
          OBVIOUS
        <5>1. r > round
          BY SingleFacts, <3>1 DEF Rounds
        <5> QED
          BY SingleFacts, <5>1 DEF SingleCounts
      <4>5. \A r \in Rounds : r <= Len(rows) =>
              /\ made[r] = OPS
              /\ rows[r].requested = OPS /\ rows[r].success + failed[r] <= OPS
        BY SingleFacts DEF SingleCounts
      <4> QED
        BY <3>1, <3>2, <3>4, <4>1, <4>2, <4>3, <4>4, <4>5 DEF SingleCounts, Before, After
    <3>9. ReadyInv'
      BY SingleFacts, <2>1, <3>2, <3>4 DEF ReadyInv, Running, Turns, Ends
    <3>10. QueuedInv'
      BY SingleFacts, <2>1, <3>1, <3>2, <3>4 DEF QueuedInv, Turns
    <3>11. failed[round] = 0 /\ made[round] = rows[round].requested
      <4>1. /\ made[round] = OPS /\ rows[round].requested = OPS
            /\ rows[round].success + failed[round] <= OPS
        BY SingleFacts, <3>5 DEF SingleCounts
      <4>2. rows[round].success = OPS
        BY <2>3, <4>1 DEF RowValid
      <4> QED
        BY SingleFacts, <4>1, <4>2
    <3>12. PrintInv'
      <4>1. \A r \in 1..printed' : failed[r] = 0 /\ made[r] = rows[r].requested
        <5>1. ASSUME NEW r \in 1..printed' PROVE r = round \/ r \in 1..printed
          BY SingleFacts, <3>1, <3>5
        <5> QED
          BY SingleFacts, <3>11, <5>1 DEF PrintInv
      <4>2. printed' = IF to = "restore" THEN TOTAL_ROUNDS ELSE round' - 1
        BY SingleFacts, <3>1, <3>2, <3>5
      <4> QED
        BY <2>1, <3>1, <3>2, <3>4, <4>1, <4>2 DEF PrintInv, Loop
    <3> QED
      BY <3>1, <3>7, <3>8, <3>9, <3>10, <3>12, SingleSuffices
  <2> QED
    BY <2>2, <2>3
<1>3. CASE Restore
  <2>1. /\ pc["main"] = "restore" /\ UNCHANGED pc
        /\ slice' = "default" /\ affinity' = "original"
        /\ UNCHANGED <<profile, yieldVars, affVars, round, rows, printed, callVars>>
    BY <1>3 DEF Restore, At, Fail
  <2>2. Types'
    BY SingleFacts, <2>1
       DEF Types, Places, MainPlaces, YieldTypes, AffTypes, MainTypes, CallTypes
  <2>3. SingleCounts' /\ ReadyInv'
    BY SingleFacts, <2>1 DEF SingleCounts, ReadyInv
  <2>4. QueuedInv'
    BY SingleFacts, <2>1 DEF QueuedInv, Turns
  <2>5. PrintInv'
    BY SingleFacts, <2>1 DEF PrintInv
  <2> QED
    BY <2>1, <2>2, <2>3, <2>4, <2>5, SingleSuffices
<1> QED
  BY <1>1, <1>2, <1>3

\* Every step of a process of another profile.
LEMMA SingleKeeps ==
    ASSUME IInv, profile # "yield-dual", [Next]_vars
    PROVE  IInv'
<1> USE DEF affVars, mainVars, yieldVars, callVars
<1>1. ~MainYield /\ ~PeerYield
  <2>1. pc["peer"] = "none" /\ pc["main"] \notin {"pin", "join_peer"} \cup Loop
    BY SingleFacts, ProfilePlaces DEF Types, Places
  <2> QED
    BY <2>1 DEF MainYield, PeerYield, Await, StoreYield, Yields, AccountRow, JoinPeer, PeerAdds,
                PeerNextRound, At, Loop
<1>2. CASE Verify
  <2>1. /\ exit = "running" /\ pc["main"] = "verify" /\ Goto("main", "rounds")
        /\ UNCHANGED <<profile, yieldVars, affVars, round, rows, printed, affinity, callVars>>
    BY <1>2 DEF Verify, At
  <2>2. "rounds" \in MainPlaces
    BY DEF MainPlaces, Dual, Alone, SameMaskPlaces, Queued
  <2> QED
    BY <2>1, <2>2, MainMoves
<1>3. CASE BeginRound
  <2>1. /\ exit = "running" /\ pc["main"] = "rounds"
        /\ \/ Goto("main", "spawn") /\ profile \in Affinity
           \/ Goto("main", "alone") /\ profile \notin Affinity
        /\ UNCHANGED <<profile, yieldVars, affVars, mainVars, callVars>>
    BY <1>3 DEF BeginRound, At
  <2>2. IF profile \in Affinity THEN "spawn" \in MainPlaces ELSE "alone" \in MainPlaces
    BY SingleFacts
       DEF Types, Places, MainPlaces, Dual, Alone, SameMaskPlaces, Queued, Affinity
  <2> QED
    BY <2>1, <2>2, MainMoves
<1>4. CASE RunYieldSolo \/ RunSetparam
  <2>1. CallAlone /\ profile \notin Affinity
    BY <1>4 DEF RunYieldSolo, RunSetparam, Setparam, Affinity
  <2>2. CASE /\ At("main", "alone") /\ Goto("main", "row")
             /\ Calls("main", round, OPS)
             /\ UNCHANGED <<profile, yieldVars, affVars, mainVars>>
    <3>1. "row" \in MainPlaces
      BY <2>1 DEF MainPlaces, Alone, Affinity
    <3>2. target_mask' \in Cpus
      BY SingleFacts, <2>2 DEF Types, AffTypes
    <3> QED
      BY <2>2, <3>1, <3>2, LoopKeeps DEF At
  <2>3. CASE At("main", "row") /\ Goto("main", "validate") /\ AddRow
    BY <2>3, AddRowKeeps DEF At
  <2> QED
    BY <2>1, <2>2, <2>3 DEF CallAlone
<1>5. ASSUME MainAffinity PROVE IInv'
  <2>1. profile \in {"affinity-queued", "affinity-same-mask"}
    <3>1. pc["main"] \in Turns \cup (Ends \ {"validate", "restore"})
                         \cup {"spawn", "same_mask", "read_errors", "join_b"}
      BY <1>5 DEF MainAffinity, SpawnTarget, SpawnControllerB, Snapshot, Await, Call, StoreTurn,
                  ReadSums, SameMask, JoinControllerB, CheckMask, StoreAff, JoinTarget, At,
                  Turns, Ends
    <3> QED
      BY SingleFacts, <3>1, ProfilePlaces DEF Types, Affinity
  <2>2. /\ Ends \cup {"snapshot", "wait_target"} \subseteq MainPlaces
        /\ profile = "affinity-queued" => Queued = MainPlaces
        /\ profile = "affinity-same-mask" => SameMaskPlaces = MainPlaces
    BY <2>1 DEF MainPlaces, SameMaskPlaces, Queued, Turns
  <2>3. CASE Snapshot
    <3>1. /\ exit = "running" /\ pc["main"] = "snapshot"
          /\ aff' = [aff EXCEPT !.heartbeat = FALSE]
          /\ \/ Goto("main", "wait_turn") /\ profile = "affinity-queued"
             \/ Goto("main", "same_mask") /\ profile = "affinity-same-mask"
          /\ UNCHANGED <<profile, yieldVars, i, target_cpu_read, target_mask, round, rows,
                         printed, slice, callVars>>
      BY <2>1, <2>3 DEF Snapshot, At
    <3> QED
      BY <2>2, <3>1, MainMoves DEF Queued, SameMaskPlaces, Turns
  <2>4. CASE Await("main", "wait_target", aff.target_ready, aff.thread_error,
                   IF profile = "affinity-queued" THEN "spawn_b" ELSE "snapshot")
    <3>1. CASE Quiet
      BY <3>1, QuietKeeps
    <3>2. CASE ~Quiet
      <4>1. /\ pc["main"] = "wait_target" /\ aff.target_ready
            /\ Goto("main", IF profile = "affinity-queued" THEN "spawn_b" ELSE "snapshot")
            /\ UNCHANGED <<profile, yieldVars, affVars, mainVars, callVars>>
        BY <2>4, <3>2, AwaitStep
      <4>2. exit = "running"
        BY <2>4 DEF Await, At
      <4>3. CASE profile = "affinity-queued"
        BY <2>2, <4>1, <4>2, <4>3, MainMoves DEF Queued, Turns
      <4>4. CASE profile # "affinity-queued"
        BY <2>2, <4>1, <4>2, <4>4, MainMoves
      <4> QED
        BY <4>3, <4>4
    <3> QED
      BY <3>1, <3>2
  <2>5. CASE Await("main", "wait_b", aff.b_ready, aff.thread_error, "snapshot")
    <3>1. \/ Quiet
          \/ /\ pc["main"] = "wait_b" /\ aff.b_ready /\ Goto("main", "snapshot")
             /\ UNCHANGED <<profile, yieldVars, affVars, mainVars, callVars>>
      BY <2>5, AwaitStep
    <3>2. exit = "running"
      BY <2>5 DEF Await, At
    <3> QED
      BY <2>2, <3>1, <3>2, MainMoves, QuietKeeps
  <2>6. CASE Await("main", "wait_turn", MayCall("main"), aff.thread_error, "call")
    <3>1. \/ Quiet
          \/ /\ pc["main"] = "wait_turn" /\ MayCall("main") /\ Goto("main", "call")
             /\ UNCHANGED <<profile, yieldVars, affVars, mainVars, callVars>>
      BY <2>6, AwaitStep
    <3>2. exit = "running" /\ pc["main"] = "wait_turn"
      BY <2>6 DEF Await, At
    <3>3. "call" \in MainPlaces
      BY SingleFacts, <2>2, <3>2, ProfilePlaces DEF Types, Queued, Turns
    <3> QED
      BY <3>1, <3>2, <3>3, MainMoves, QuietKeeps DEF MayCall
  <2>7. CASE Await("main", "wait_final_turn", aff.turn >= OPS, aff.thread_error,
                   "read_success")
    <3>1. \/ Quiet
          \/ /\ pc["main"] = "wait_final_turn" /\ aff.turn >= OPS
             /\ Goto("main", "read_success")
             /\ UNCHANGED <<profile, yieldVars, affVars, mainVars, callVars>>
      <4> DEFINE word == aff.turn >= OPS
      <4>1. Await("main", "wait_final_turn", word, aff.thread_error, "read_success")
        BY <2>7
      <4> HIDE DEF word
      <4>2. \/ Quiet
            \/ /\ pc["main"] = "wait_final_turn" /\ word /\ Goto("main", "read_success")
               /\ UNCHANGED <<profile, yieldVars, affVars, mainVars, callVars>>
        BY <4>1, AwaitStep
      <4> QED
        BY <4>2 DEF word
    <3>2. exit = "running" /\ pc["main"] = "wait_final_turn"
      BY <2>7 DEF Await, At
    <3>3. "read_success" \in MainPlaces
      BY SingleFacts, <2>2, <3>2, ProfilePlaces DEF Types, Queued, Turns
    <3> QED
      BY <3>1, <3>2, <3>3, MainMoves, QuietKeeps
  <2>8. CASE SameMask
    <3>1. /\ exit = "running" /\ pc["main"] = "same_mask" /\ Goto("main", "check_mask")
          /\ Calls("main", round, OPS)
          /\ target_mask' = IF success' # success THEN TargetCpu ELSE target_mask
          /\ UNCHANGED <<profile, yieldVars, aff, i, target_cpu_read, mainVars>>
      BY <2>8 DEF SameMask, At, SetTargetCpu
    <3>2. target_mask' \in Cpus
      BY SingleFacts, <3>1 DEF TargetCpu, Cpus, Types, AffTypes
    <3>3. "check_mask" \in MainPlaces
      BY <2>2 DEF Ends
    <3> QED
      BY <3>1, <3>2, <3>3, LoopKeeps
  <2>9. CASE JoinControllerB
    <3>1. /\ exit = "running" /\ pc["main"] = "join_b" /\ Goto("main", "check_mask")
          /\ UNCHANGED <<profile, yieldVars, affVars, mainVars, callVars>>
      BY <2>9 DEF JoinControllerB, At
    <3> QED
      BY <2>2, <3>1, MainMoves DEF Ends
  <2>10. CASE CheckMask
    <3>1. /\ exit = "running" /\ pc["main"] = "check_mask"
          /\ Goto("main", "wait_on_cpu") \/ Fail("target mask")
          /\ UNCHANGED <<profile, yieldVars, affVars, mainVars, callVars>>
      BY <2>10 DEF CheckMask, At
    <3>2. CASE Goto("main", "wait_on_cpu")
      <4>1. "wait_on_cpu" \in MainPlaces
        BY <2>2 DEF Ends
      <4>2. /\ exit = "running" /\ pc["main"] = "check_mask"
            /\ UNCHANGED <<profile, yieldVars, affVars, mainVars, callVars>>
        BY <3>1
      <4> QED
        BY <3>2, <4>1, <4>2, MainMoves
    <3>3. CASE Fail("target mask")
      <4>1. faults' = faults /\ exit' # "success"
        BY <3>1, <3>3 DEF Fail
      <4>2. faults' \in Nat /\ faults' >= faults
        BY SingleFacts, <4>1
      <4> QED
        BY <3>1, <3>3, <4>1, <4>2, QuietKeeps DEF Fail, Quiet
    <3> QED
      BY <3>1, <3>2, <3>3
  <2>11. CASE Await("main", "wait_on_cpu", aff.last_cpu = TargetCpu /\ aff.heartbeat,
                    aff.thread_error, "stop")
    <3>1. \/ Quiet
          \/ /\ pc["main"] = "wait_on_cpu" /\ Goto("main", "stop")
             /\ UNCHANGED <<profile, yieldVars, affVars, mainVars, callVars>>
      BY <2>11, AwaitStep
    <3>2. exit = "running" /\ "stop" \in MainPlaces
      BY <2>2, <2>11 DEF Await, At, Ends
    <3> QED
      BY <3>1, <3>2, MainMoves, QuietKeeps
  <2>12. CASE StoreAff("main", "stop", [aff EXCEPT !.stop = TRUE], "join_target")
    <3>1. /\ exit = "running" /\ pc["main"] = "stop" /\ Goto("main", "join_target")
          /\ aff' = [aff EXCEPT !.stop = TRUE]
          /\ UNCHANGED <<profile, yieldVars, i, target_cpu_read, target_mask, mainVars, callVars>>
      BY <2>12 DEF StoreAff, At
    <3> QED
      BY <2>2, <3>1, MainMoves DEF Ends
  <2>13. CASE JoinTarget
    <3>1. /\ exit = "running" /\ pc["main"] = "join_target" /\ pc["target"] = "ended" /\ AddRow
      BY <2>13 DEF JoinTarget, At
    <3>2. ~aff.thread_error
      BY SingleFacts, <3>1 DEF ReadyInv, Running, Ends
    <3>3. Goto("main", "validate")
      BY <2>13, <3>2 DEF JoinTarget
    <3> QED
      BY <3>1, <3>3, AddRowKeeps
  <2> QED
    BY <1>5, <2>3, <2>4, <2>5, <2>6, <2>7, <2>8, <2>9, <2>10, <2>11, <2>12, <2>13, SpawnsKeep,
       ReadSumsKeeps, CallKeeps, StoreTurnKeeps DEF MainAffinity
<1>6. CASE ControllerB
  <2>1. CASE StoreAff("ctl_b", "start", [aff EXCEPT !.b_ready = TRUE], "wait_turn")
    BY <2>1, ControllerMoves DEF StoreAff, At
  <2>2. CASE Await("ctl_b", "wait_turn", MayCall("ctl_b"), aff.thread_error, "call")
    <3>1. \/ Quiet
          \/ /\ pc["ctl_b"] = "wait_turn" /\ MayCall("ctl_b") /\ Goto("ctl_b", "call")
             /\ UNCHANGED <<profile, yieldVars, affVars, mainVars, callVars>>
      BY <2>2, AwaitStep
    <3> QED
      BY <3>1, ControllerMoves, QuietKeeps DEF MayCall
  <2>3. CASE StoreAff("ctl_b", "store_success", [aff EXCEPT !.b_success = success["ctl_b"]],
                      "store_errors")
    BY <2>3, ControllerMoves DEF StoreAff, At
  <2>4. CASE StoreAff("ctl_b", "store_errors", [aff EXCEPT !.b_errors = errors["ctl_b"]],
                      "ended")
    BY <2>4, ControllerMoves DEF StoreAff, At
  <2> QED
    BY <1>6, <2>1, <2>2, <2>3, <2>4, CallKeeps, StoreTurnKeeps DEF ControllerB
<1> QED
  BY <1>1, <1>2, <1>3, <1>4, <1>5, <1>6, SingleMainKeeps, TargetKeeps, WorkerFailsKeeps,
     QuietSteps, QuietKeeps DEF Next, Main

-----------------------------------------------------------------------------
(* The theorems                                                            *)

LEMMA InitKeeps == Init => IInv
<1> SUFFICES ASSUME Init PROVE IInv
  OBVIOUS
<1>1. Types
  BY InitTypes
<1>2. /\ pc["main"] = "start" /\ pc["peer"] = "none" /\ pc["target"] = "none"
      /\ pc["ctl_b"] = "none"
  BY DEF Init, Threads
<1>3. round = 1 /\ peer_round = 1 /\ rows = <<>> /\ printed = 0 /\ Len(rows) = 0
      /\ previous_peer_errors = 0 /\ exit = "running"
  BY DEF Init
<1>4. /\ \A r \in Rounds : made[r] = 0 /\ failed[r] = 0
      /\ \A t \in Callers : success[t] = 0 /\ errors[t] = 0
  BY DEF Init
<1>5. 1 \in Rounds /\ TOTAL_ROUNDS \in Nat \ {0} /\ \A r \in Rounds : r \in Nat /\ r >= 1
  BY SchedControlAssumption DEF Rounds
<1>6. /\ yield.ready = 0 /\ yield.go = 0 /\ yield.peer_done = 0 /\ yield.main_done = 0
      /\ yield.cumulative_errors = 0 /\ ~yield.thread_error
  BY DEF Init
<1>7. MainRound = 1 /\ ~PeerThrough /\ ~MainYielded
  BY <1>2, <1>3 DEF MainRound, PeerThrough, MainYielded
<1>8. DualInv
  <2>1. WordsInv
    BY <1>2, <1>3, <1>6, <1>7 DEF WordsInv
  <2>2. WaitedInv
    BY <1>2, <1>3, <1>6, <1>7 DEF WaitedInv, Loop
  <2>3. ~PeerYielded(1)
    BY <1>2, <1>3, <1>7 DEF PeerYielded
  <2>4. errors["main"] = 0 /\ errors["peer"] = 0
    BY <1>4 DEF Callers
  <2>5. DualCounts
    BY <1>3, <1>4, <1>5, <1>6, <1>7, <2>3, <2>4 DEF DualCounts
  <2> QED
    BY <2>1, <2>2, <2>5 DEF DualInv
<1>9. SingleInv
  <2>1. SingleCounts
    BY <1>2, <1>3, <1>4, <1>5 DEF SingleCounts, Before, After
  <2>2. ReadyInv
    BY <1>2 DEF ReadyInv, Running, Turns, Ends
  <2> QED
    BY <2>1, <2>2 DEF SingleInv
<1>10. QueuedInv
  BY <1>2 DEF QueuedInv, Turns
<1>11. PrintInv
  BY <1>2, <1>3 DEF PrintInv
<1> QED
  BY <1>1, <1>8, <1>9, <1>10, <1>11 DEF IInv

LEMMA StepKeeps == IInv /\ [Next]_vars => IInv'
  BY DualKeeps, SingleKeeps

LEMMA IInvLockstep == IInv => Lockstep
<1> SUFFICES ASSUME IInv PROVE Lockstep
  OBVIOUS
<1>1. pc["peer"] = "yields" \/ pc["main"] = "yields" => profile = "yield-dual"
  BY ProfilePlaces DEF IInv, Types, Places, Loop
<1> QED
  BY <1>1, DualLockstep DEF Lockstep

LEMMA IInvRowSound == IInv => RowSound
<1> SUFFICES ASSUME IInv PROVE RowSound
  OBVIOUS
<1>1. profile = "yield-dual" => \A r \in DOMAIN rows : rows[r].errors = failed[r]
  <2> SUFFICES ASSUME profile = "yield-dual", NEW r \in DOMAIN rows
               PROVE  rows[r].errors = failed[r]
    OBVIOUS
  <2>1. DualCounts
    BY DEF IInv, DualInv
  <2>2. rows \in Seq(RowType)
    BY DEF IInv, Types, MainTypes
  <2>3. r \in 1..Len(rows) /\ Len(rows) = MainRound - 1
    BY <2>1, <2>2 DEF DualCounts
  <2>4. r \in Rounds /\ r < MainRound
    BY <2>3, RoundFacts DEF Rounds
  <2> QED
    BY <2>1, <2>4 DEF DualCounts
<1>2. /\ \A r \in 1..printed : failed[r] = 0 /\ made[r] = rows[r].requested
      /\ exit = "success" => printed = TOTAL_ROUNDS /\ slice = "default"
                             /\ affinity = "original"
  BY DEF IInv, PrintInv
<1> QED
  BY <1>1, <1>2 DEF RowSound

\* Main and peer yield in the same round, for any number of rounds and calls and
\* whichever calls fail (yield_dual's generation counters).
THEOREM LockstepHolds == Spec => []Lockstep
  BY InitKeeps, StepKeeps, IInvLockstep, PTL DEF Spec

\* A printed row counts the calls of its own round, none of which failed, and the
\* errors of each round stand in its row (validate_row, run_yield_dual).
THEOREM RowsSound == Spec => []RowSound
  BY InitKeeps, StepKeeps, IInvRowSound, PTL DEF Spec

-----------------------------------------------------------------------------
\* While no call has failed, the controller that calls moves the target.
LEMMA CallMoves ==
    ASSUME IInv, profile = "affinity-queued", faults' = 0,
           NEW t \in {"main", "ctl_b"}, NEW cpu,
           <<t, cpu>> \in {<<"main", CPU_B>>, <<"ctl_b", CPU_A>>}, Call(t, cpu)
    PROVE  target_mask' # target_mask
<1>1. pc[t] = "call" /\ Calls(t, round, 1)
      /\ target_mask' = IF success' # success THEN cpu ELSE target_mask
  BY DEF Call, At, SetTargetCpu
<1>2. t \in Callers /\ round \in Rounds /\ CallTypes /\ faults \in Nat
  BY SingleFacts DEF Callers, Types
<1>3. PICK bad \in {0, 1} :
         success' = [success EXCEPT ![t] = @ + 1 - bad] /\ faults' = faults + bad
  BY <1>1, <1>2, CallsTypes
<1>4. bad = 0 /\ faults = 0
  BY <1>2, <1>3
<1>5. success' # success
  BY <1>2, <1>3, <1>4 DEF CallTypes
<1>6. target_mask' = cpu
  BY <1>1, <1>5
<1>7. pc["main"] \in Turns /\ TurnInv /\ MaskInv
  BY SingleFacts, <1>1, <1>4 DEF QueuedInv, Turns
<1>8. pc["main"] # "wait_target"
  BY SingleFacts, <1>1, <1>7 DEF ReadyInv, Running
<1>9. CASE t = "main"
  <2>1. pc["ctl_b"] # "store_turn" /\ aff.turn = i["main"]
    BY SingleFacts, <1>1, <1>7, <1>9 DEF TurnInv
  <2>2. target_mask = CPU_A
    BY <1>1, <1>7, <1>9, <2>1 DEF MaskInv
  <2> QED
    BY <1>6, <1>9, <2>2 DEF CPU_A, CPU_B
<1>10. CASE t = "ctl_b"
  <2>1. pc["main"] # "store_turn" /\ aff.turn # i["main"]
    BY SingleFacts, <1>1, <1>7, <1>10 DEF TurnInv
  <2>2. target_mask = CPU_B
    BY <1>1, <1>7, <1>8, <1>10, <2>1 DEF MaskInv
  <2> QED
    BY <1>6, <1>10, <2>2 DEF CPU_A, CPU_B
<1> QED
  BY <1>9, <1>10

LEMMA StepMoves ==
    ASSUME IInv, [Next]_vars, profile = "affinity-queued", made' # made, faults' = 0
    PROVE  target_mask' # target_mask
<1> USE DEF affVars, mainVars, yieldVars, callVars
<1>1. ~PeerYield /\ ~MainYield /\ ~RunYieldSolo /\ ~RunSetparam /\ ~SameMask
  <2>1. pc["peer"] = "none" /\ pc["main"] \notin {"pin", "join_peer", "same_mask"} \cup Loop
    BY SingleFacts, ProfilePlaces DEF Types, Places
  <2> QED
    BY <2>1 DEF MainYield, PeerYield, Await, StoreYield, Yields, AccountRow, JoinPeer, PeerAdds,
                PeerNextRound, At, Loop, RunYieldSolo, RunSetparam, Setparam, SameMask
<1>2. ~Start /\ ~Verify /\ ~BeginRound /\ ~Validate /\ ~Restore
  BY DEF Start, Verify, BeginRound, Validate, Restore
<1>3. ~Target /\ ~WorkerFails /\ ~Dies /\ ~TimesOut /\ ~Ended /\ ~UNCHANGED vars
  BY DEF Target, StoreAff, WorkerFails, Dies, TimesOut, Ended, vars
<1>4. CASE MainAffinity
  <2>1. /\ ~SpawnTarget /\ ~SpawnControllerB /\ ~Snapshot /\ ~JoinControllerB /\ ~CheckMask
        /\ ~ReadSums /\ ~StoreTurn("main", "wait_final_turn")
        /\ ~StoreAff("main", "stop", [aff EXCEPT !.stop = TRUE], "join_target")
    BY DEF SpawnTarget, SpawnControllerB, Snapshot, JoinControllerB, CheckMask, ReadSums,
           StoreTurn, StoreAff
  <2>2. ~JoinTarget
    BY DEF JoinTarget, AddRow
  <2>3. \A l, word, thread_error, next : ~Await("main", l, word, thread_error, next)
    BY DEF Await
  <2> QED
    BY <1>1, <1>4, <2>1, <2>2, <2>3, CallMoves DEF MainAffinity
<1>5. CASE ControllerB
  BY <1>5, CallMoves DEF ControllerB, StoreAff, Await, StoreTurn
<1> QED
  BY <1>1, <1>2, <1>3, <1>4, <1>5 DEF Next, Main

LEMMA StepMovesAction ==
    IInv /\ [Next]_vars
      => [profile = "affinity-queued" /\ made' # made /\ faults' = 0
          => target_mask' # target_mask]_vars
  BY StepMoves

\* In affinity-queued every timed call that is made while none has failed moves the
\* target: the controllers' turns never let one overtake the other.
THEOREM CallsMove == Spec => EveryCallMoves
  BY InitKeeps, StepKeeps, StepMovesAction, PTL DEF Spec, EveryCallMoves

=============================================================================
