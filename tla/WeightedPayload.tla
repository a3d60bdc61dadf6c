-------------------------- MODULE WeightedPayload ---------------------------
(***************************************************************************)
(* weighted_payload.c: two threads pass a turn to and fro through a futex  *)
(* word, each doing its share of work while it has it; an optional third   *)
(* thread keeps the same CPU busy for as long as the exchange lasts.  Main *)
(* starts and ends every round at barriers and reports it; a watchdog ends *)
(* the process when it takes too long.                                     *)
(*                                                                         *)
(* External: pthread barriers, FUTEX_WAIT (sleeps only if the word still   *)
(* has the value given, and may return early) and FUTEX_WAKE.              *)
(***************************************************************************)
EXTENDS Integers, FiniteSets

CONSTANTS
    OPS,          \* opts.ops: turns each thread takes
    ROUNDS,       \* opts.warmups + opts.rounds
    COMPETITOR,   \* opts.competitor: is there a busy thread
    CallsMayFail  \* TRUE: a checked call may fail, and the watchdog may fire

ASSUME PayloadAssumption ==
    /\ OPS \in Nat \ {0} /\ ROUNDS \in Nat \ {0}
    /\ COMPETITOR \in BOOLEAN /\ CallsMayFail \in BOOLEAN

Foreground == {0, 1}
Busy == 2
Workers == IF COMPETITOR THEN {0, 1, Busy} ELSE {0, 1}
Main == 3
Parties == Workers \cup {Main}
Bars == {"start", "finish"}

VARIABLES
    pc, round,          \* per party: where it is, and in which round
    turn, phase,        \* struct shared
    value,              \* per foreground thread: what wait_turn loaded
    n,                  \* per foreground thread: the turns it has had in its loop
    completed, wakes,   \* per foreground thread: its struct stats
    of_round,           \* history: the round its struct stats is of
    arrived,            \* per barrier: who waits in its current cycle
    cycles, seen,       \* per barrier: cycles completed; per party: when it came
    rows,               \* rounds reported
    code                \* how the process ended: -1 while it runs

barriers == <<arrived, cycles, seen>>
stats    == <<completed, wakes, of_round>>
vars == <<pc, round, turn, phase, value, n, stats, barriers, rows, code>>

Running == code = -1
Goto(p, at) == pc' = [pc EXCEPT ![p] = at]

Init ==
    /\ pc = [p \in Parties |-> IF p = Main THEN "create" ELSE "none"]
    /\ round = [p \in Parties |-> 0]
    /\ turn = 2 /\ phase = 0
    /\ value = [t \in Foreground |-> 2] /\ n = [t \in Foreground |-> 0]
    /\ completed = [t \in Foreground |-> 0] /\ wakes = [t \in Foreground |-> 0]
    /\ of_round = [t \in Foreground |-> -1]
    /\ arrived = [b \in Bars |-> {}] /\ cycles = [b \in Bars |-> 0]
    /\ seen = [p \in Parties |-> 0]
    /\ rows = 0 /\ code = -1

-----------------------------------------------------------------------------
(* Barriers and failures                                                   *)

\* The four calls of barrier in a round, and where they lead.
Barrier == [at1 |-> "start", at2 |-> "finish", at3 |-> "finish", at4 |-> "start"]

\* What follows a call.
After(p, at) ==
    CASE at = "at1" -> IF p = Main THEN "to2" ELSE IF p = Busy THEN "busy" ELSE "begin"
      [] at = "at2" -> IF p = Main THEN "to3" ELSE "check"
      [] at = "at3" -> IF p = Main THEN "report" ELSE "to4"
      [] at = "at4" -> "next"

\* The last one to arrive completes the cycle and need not wait.
Arrive(p, from, at) ==
    /\ Running /\ pc[p] = from
    /\ LET b == Barrier[at] IN
         IF arrived[b] \cup {p} = Parties
           THEN /\ arrived' = [arrived EXCEPT ![b] = {}]
                /\ cycles' = [cycles EXCEPT ![b] = @ + 1]
                /\ Goto(p, After(p, at)) /\ UNCHANGED seen
           ELSE /\ arrived' = [arrived EXCEPT ![b] = @ \cup {p}]
                /\ seen' = [seen EXCEPT ![p] = cycles[b]]
                /\ Goto(p, at) /\ UNCHANGED cycles
    /\ UNCHANGED <<round, turn, phase, value, n, stats, rows, code>>

Leave(p, at) ==
    /\ Running /\ pc[p] = at
    /\ cycles[Barrier[at]] # seen[p]
    /\ Goto(p, After(p, at))
    /\ UNCHANGED <<round, turn, phase, value, n, stats, barriers, rows, code>>

\* fail exits the process, whatever its other threads are doing.
Fail ==
    /\ CallsMayFail /\ Running
    /\ code' = 1
    /\ UNCHANGED <<pc, round, turn, phase, value, n, stats, barriers, rows>>

\* timeout_handler, at any moment.
Watchdog ==
    /\ CallsMayFail /\ Running
    /\ code' = 124
    /\ UNCHANGED <<pc, round, turn, phase, value, n, stats, barriers, rows>>

-----------------------------------------------------------------------------
(* The turn                                                                *)

\* Mutant: the counters of a thread run on from round to round.
ResetStats_Never(t) == UNCHANGED <<completed, wakes>>

ResetStats(t) ==
    /\ completed' = [completed EXCEPT ![t] = 0]
    /\ wakes' = [wakes EXCEPT ![t] = 0]

\* A worker's round begins with a fresh struct stats.
WorkerRound(p) ==
    /\ Running /\ pc[p] = "reset"
    /\ IF p \in Foreground
         THEN ResetStats(p) /\ of_round' = [of_round EXCEPT ![p] = round[p]]
         ELSE UNCHANGED stats
    /\ Goto(p, "to1")
    /\ UNCHANGED <<round, turn, phase, value, n, barriers, rows, code>>

\* Thread 0 opens the window: first the phase, then the turn.
Open ==
    /\ Running /\ pc[0] = "begin"
    /\ phase' = 1 /\ Goto(0, "first")
    /\ UNCHANGED <<round, turn, value, n, stats, barriers, rows, code>>

FirstTurn ==
    /\ Running /\ pc[0] = "first"
    /\ turn' = 0 /\ n' = [n EXCEPT ![0] = 0] /\ Goto(0, "load")
    /\ UNCHANGED <<round, phase, value, stats, barriers, rows, code>>

JoinIn ==
    /\ Running /\ pc[1] = "begin"
    /\ n' = [n EXCEPT ![1] = 0] /\ Goto(1, "load")
    /\ UNCHANGED <<round, turn, phase, value, stats, barriers, rows, code>>

\* wait_turn: thread 0 waits once more when its loop is done.
LoadTurn(t) ==
    /\ Running /\ pc[t] = "load"
    /\ value' = [value EXCEPT ![t] = turn]
    /\ Goto(t, CASE turn # t -> "wait"
                 [] turn = t /\ n[t] < OPS -> "work"
                 [] OTHER -> "close")
    /\ UNCHANGED <<round, turn, phase, n, stats, barriers, rows, code>>

\* EAGAIN where the word has changed.
FutexWait(t) ==
    /\ Running /\ pc[t] = "wait"
    /\ Goto(t, IF turn = value[t] THEN "asleep" ELSE "load")
    /\ UNCHANGED <<round, turn, phase, value, n, stats, barriers, rows, code>>

\* A signal, or a wake-up nobody sent.
Interrupted(t) ==
    /\ Running /\ pc[t] = "asleep" /\ Goto(t, "load")
    /\ UNCHANGED <<round, turn, phase, value, n, stats, barriers, rows, code>>

\* compute, then the store of pass_turn.
StoreTurn(t) ==
    /\ Running /\ pc[t] = "work"
    /\ turn' = 1 - t /\ Goto(t, "wake")
    /\ UNCHANGED <<round, phase, value, n, stats, barriers, rows, code>>

Asleep == {t \in Foreground : pc[t] = "asleep"}

AfterTurn(t) == IF t = 1 /\ n[t] + 1 = OPS THEN "to2" ELSE "load"

\* Mutant: the last turn is handed over without a wake-up.
WakeOther_NotLast(t) ==
    /\ Running /\ pc[t] = "wake"
    /\ pc' = [u \in Parties |->
                CASE u = t -> AfterTurn(t)
                  [] u \in Asleep /\ n[t] + 1 < OPS -> "load"
                  [] OTHER -> pc[u]]
    /\ wakes' = [wakes EXCEPT ![t] = @ + 1]
    /\ completed' = [completed EXCEPT ![t] = @ + 1]
    /\ n' = [n EXCEPT ![t] = @ + 1]
    /\ UNCHANGED <<round, turn, phase, value, of_round, barriers, rows, code>>

\* FUTEX_WAKE of one sleeper, and the counters.
WakeOther(t) ==
    /\ Running /\ pc[t] = "wake"
    /\ IF Asleep = {}
         THEN Goto(t, AfterTurn(t))
         ELSE \E s \in Asleep : pc' = [pc EXCEPT ![t] = AfterTurn(t), ![s] = "load"]
    /\ wakes' = [wakes EXCEPT ![t] = @ + 1]
    /\ completed' = [completed EXCEPT ![t] = @ + 1]
    /\ n' = [n EXCEPT ![t] = @ + 1]
    /\ UNCHANGED <<round, turn, phase, value, of_round, barriers, rows, code>>

Close ==
    /\ Running /\ pc[0] = "close"
    /\ phase' = 2 /\ Goto(0, "to2")
    /\ UNCHANGED <<round, turn, value, n, stats, barriers, rows, code>>

\* background: spins until the window is open, works until it is closed; it
\* may see it only when it is closed again.
BusyEnds ==
    /\ Running /\ Busy \in Workers /\ pc[Busy] = "busy"
    /\ phase = 2 /\ Goto(Busy, "to2")
    /\ UNCHANGED <<round, turn, phase, value, n, stats, barriers, rows, code>>

\* state_check between the two barriers at the end of the window.
Check(p) ==
    /\ Running /\ pc[p] = "check" /\ Goto(p, "to3")
    /\ UNCHANGED <<round, turn, phase, value, n, stats, barriers, rows, code>>

WorkerNext(p) ==
    /\ Running /\ pc[p] = "next"
    /\ round' = [round EXCEPT ![p] = @ + 1]
    /\ Goto(p, IF round[p] + 1 < ROUNDS THEN "reset" ELSE "done")
    /\ UNCHANGED <<turn, phase, value, n, stats, barriers, rows, code>>

Worker(p) ==
    \/ WorkerRound(p) \/ Arrive(p, "to1", "at1") \/ Leave(p, "at1")
    \/ Arrive(p, "to2", "at2") \/ Leave(p, "at2") \/ Check(p)
    \/ Arrive(p, "to3", "at3") \/ Leave(p, "at3")
    \/ Arrive(p, "to4", "at4") \/ Leave(p, "at4") \/ WorkerNext(p)
    \/ /\ p \in Foreground
       /\ LoadTurn(p) \/ FutexWait(p) \/ StoreTurn(p) \/ WakeOther(p)
    \/ p = 0 /\ (Open \/ FirstTurn \/ Close)
    \/ p = 1 /\ JoinIn
    \/ p = Busy /\ BusyEnds

-----------------------------------------------------------------------------
(* main                                                                    *)

CreateThreads ==
    /\ Running /\ pc[Main] = "create"
    /\ \E w \in Workers :
         /\ pc[w] = "none" /\ \A v \in Workers : v < w => pc[v] # "none"
         /\ pc' = [pc EXCEPT ![w] = "reset",
                             ![Main] = IF w + 1 \in Workers THEN "create" ELSE "store"]
    /\ UNCHANGED <<round, turn, phase, value, n, stats, barriers, rows, code>>

\* Mutant: a round starts with the turn given to thread 1.
ResetRound_ToOne ==
    /\ Running /\ pc[Main] = "store"
    /\ turn' = 1 /\ phase' = 0 /\ Goto(Main, "to1")
    /\ UNCHANGED <<round, value, n, stats, barriers, rows, code>>

\* Nobody has the turn until thread 0 takes it.
ResetRound ==
    /\ Running /\ pc[Main] = "store"
    /\ turn' = 2 /\ phase' = 0 /\ Goto(Main, "to1")
    /\ UNCHANGED <<round, value, n, stats, barriers, rows, code>>

\* What report calls a protocol mismatch.
Mismatch ==
    \/ turn # 0 \/ phase # 2
    \/ \E t \in Foreground : completed[t] # OPS \/ wakes[t] # OPS

Report ==
    /\ Running /\ pc[Main] = "report"
    /\ IF Mismatch THEN code' = 1 /\ UNCHANGED <<pc, rows>>
                   ELSE rows' = rows + 1 /\ Goto(Main, "to4") /\ UNCHANGED code
    /\ UNCHANGED <<round, turn, phase, value, n, stats, barriers>>

MainNext ==
    /\ Running /\ pc[Main] = "next"
    /\ round' = [round EXCEPT ![Main] = @ + 1]
    /\ Goto(Main, IF round[Main] + 1 < ROUNDS THEN "store" ELSE "join")
    /\ UNCHANGED <<turn, phase, value, n, stats, barriers, rows, code>>

JoinAll ==
    /\ Running /\ pc[Main] = "join"
    /\ \A w \in Workers : pc[w] = "done"
    /\ code' = 0 /\ Goto(Main, "done")
    /\ UNCHANGED <<round, turn, phase, value, n, stats, barriers, rows>>

MainStep ==
    \/ CreateThreads \/ ResetRound \/ Arrive(Main, "to1", "at1") \/ Leave(Main, "at1")
    \/ Arrive(Main, "to2", "at2") \/ Leave(Main, "at2")
    \/ Arrive(Main, "to3", "at3") \/ Leave(Main, "at3") \/ Report
    \/ Arrive(Main, "to4", "at4") \/ Leave(Main, "at4") \/ MainNext \/ JoinAll

Next ==
    \/ MainStep \/ Fail \/ Watchdog
    \/ \E p \in Workers : Worker(p)
    \/ \E t \in Foreground : Interrupted(t)

Fairness == WF_vars(MainStep) /\ \A p \in Workers : WF_vars(Worker(p))

Spec == Init /\ [][Next]_vars /\ Fairness

-----------------------------------------------------------------------------
(* Properties                                                              *)

\* The two threads never work at the same time, and neither works before
\* thread 0 has opened the window of this round or after it has closed it:
\* the times of the row are those of strictly alternating turns.
OneAtATime ==
    /\ pc[0] = "work" => pc[1] # "work"
    /\ \A t \in Foreground : pc[t] = "work" =>
         phase = 1 /\ turn = t /\ round[t] = round[Main]

\* When main reports a round, every thread has left it, its counters are of
\* that round, and the check of report holds: "protocol mismatch" is never
\* the program's own doing.
ReportSound ==
    /\ pc[Main] = "report" =>
         /\ ~Mismatch
         /\ \A t \in Foreground : of_round[t] = round[Main]
    /\ code = 0 => rows = ROUNDS

\* No wake-up is lost and nobody waits at a barrier for ever: every run ends,
\* even if the watchdog never fires.
Terminates == <>~Running
=============================================================================
