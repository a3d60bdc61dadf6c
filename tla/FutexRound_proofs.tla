-------------------------- MODULE FutexRound_proofs --------------------------
(***************************************************************************)
(* For any number of slots, vectors, cycles and rounds and any number of   *)
(* kernel faults: a row is sound, no waiter is left on the first word of a *)
(* vector, and only what was probed is submitted.                          *)
(***************************************************************************)
EXTENDS FutexRound, TLAPS

Singles == {"z0_zero_wake", "e0_mismatch", "n0_nop"}
Scalars == {"s0_wait_wake", "c0_wait_cancel", "l0_lifecycle"}
Vector == "v0_waitv_wake"

Awaiting == {"sleep", "sample", "resleep", "resample", "validate"}
InCycle == {"cycle", "second", "check"} \cup Awaiting
Between == {"judge", "next", "close", "write", "destroy"}
Dead == {"failed", "exited"}

\* Where the process is, by profile.
PlaceInv ==
    /\ run \in (PointProfiles \X {"point"}) \cup (SmokeProfiles \X {"smoke"})
    /\ pc \in {"gate"} \cup InCycle \cup Between \cup Dead
    /\ stage \in {"pair", "check"} /\ round \in Nat /\ cycle \in Nat
    /\ pc = "gate" => cycle = 0
    /\ pc \in InCycle => cycle < cycles
    /\ pc \in {"judge", "write", "close"} => cycle = cycles
    /\ pc = "second" => profile \notin Singles
    /\ pc = "check" => profile = Vector
    /\ pc \in Awaiting /\ stage = "check" => profile = Vector
    /\ profile = "l0_lifecycle" => pc \notin {"judge", "next"}
    /\ pc = "close" => profile = "l0_lifecycle"

GateInv ==
    /\ submitted \subseteq supported
    /\ pc \notin {"gate"} \cup Dead => Required \subseteq supported

-----------------------------------------------------------------------------
(* Completions                                                             *)

\* The number that the tags of this cycle carry.
Gen == round * CYCLES + cycle

Want == IF stage = "check" THEN SingleWant("check", 0)
        ELSE IF profile \in Singles THEN SingleWant(SingleKind[1], SingleKind[2])
        ELSE PairWant

\* CQEs not yet copied, and those being validated.
Unread == posting \cup DOMAIN cq
InHand == IF pc = "validate" THEN DOMAIN copy ELSE {}
Live == Unread \cup InHand

\* Not one the kernel should never have produced.
Genuine(c) == c[2] \notin {EINTR, EOTHER}

Checking == stage = "check" /\ pc \in Awaiting

\* No check has found a waiter, nor got lost.
AllZero == \A g \in Slots : <<make_tag("check", g), 0>> \in Live

\* The cycle can still pass.
Sane == pc \notin Dead /\ (Checking => AllZero)

IsBag(B) == B = [c \in DOMAIN B |-> B[c]]
Completion(c) == c = <<c[1], c[2]>> /\ c[1] = <<c[1][1], c[1][2], c[1][3]>>
Waiter(w) ==
    /\ w = <<w[1], w[2]>> /\ w[1] = <<"wait", w[1][2], w[1][3]>>
    /\ \E g \in Slots, i \in 0..WAITV_WIDTH-1 : w[2] = Word(g, i)

ShapeInv ==
    /\ IsBag(cq) /\ IsBag(copy)
    /\ \A c \in Live : Completion(c)
    /\ \A w \in waiters : Waiter(w)

\* A genuine completion is of this cycle and owed to it, there is one of a tag,
\* and it is in one place.
Owed ==
    /\ \A c \in Live : Genuine(c) =>
          pc \in Awaiting /\ c[1][2] = Gen /\ Key(c) \in DOMAIN Want
    /\ \A c, d \in Live : Genuine(c) /\ Genuine(d) /\ c[1] = d[1] => c = d
    /\ \A c \in Live : Genuine(c) =>
          ~(c \in posting /\ c \in DOMAIN cq) /\ ~(c \in Unread /\ c \in InHand)

OwedInv ==
    /\ Checking => \A c \in Live : Genuine(c) /\ c[1][1] = "check" => c[1][2] = Gen
    /\ Sane => Owed

\* No waiter of an earlier cycle is on a word that a cycle wakes, and none on
\* the first words once they were probed.
WaiterInv ==
    /\ pc = "second" => \A w \in waiters, g \in Slots :
          w[2] = Word(g, WAITV_WAKE_INDEX) => w[1] = make_tag("wait", g)
    /\ pc \notin {"second"} \cup Dead =>
          \A w \in waiters, g \in Slots : w[2] # Word(g, WAITV_WAKE_INDEX)
    /\ pc \in {"gate", "cycle"} \cup Between \/ (Checking /\ AllZero) =>
          \A w \in waiters : w[2][2] # 0

\* What the cycles before this one, and the pairs of this one, had to be.
Part(want, c) == {<< <<k[1], round * CYCLES + c, k[2]>>, want[k] >> : k \in DOMAIN want}
PairPart(c) == Part(IF profile \in Singles THEN SingleWant(SingleKind[1], SingleKind[2])
                    ELSE PairWant, c)
CheckPart(c) == IF profile = Vector THEN Part(SingleWant("check", 0), c) ELSE {}

Done == (UNION {PairPart(c) \cup CheckPart(c) : c \in 0..cycle-1})
          \cup (IF pc = "check" \/ Checking THEN PairPart(cycle) ELSE {})

ReapInv ==
    pc \notin Dead => reaped = IF pc = "validate" THEN SetToBag(Done) (+) copy
                               ELSE SetToBag(Done)

IInv == PlaceInv /\ GateInv /\ ShapeInv /\ OwedInv /\ WaiterInv /\ ReapInv

-----------------------------------------------------------------------------
(* Control                                                                 *)

LEMMA ProfileIs == PlaceInv => profile \in SmokeProfiles
BY DEF PlaceInv, profile, PointProfiles, SmokeProfiles

LEMMA Sizes == CYCLES \in Nat /\ CYCLES >= 1
BY FutexAssumption

LEMMA CyclesIs == cycles \in Nat /\ cycles >= 1
BY Sizes DEF cycles

\* Everything that only the run decides.
LEMMA RunSame ==
    run' = run => /\ profile' = profile /\ mode' = mode /\ cycles' = cycles /\ Slots' = Slots
                  /\ Required' = Required /\ PairWant' = PairWant
                  /\ SingleKind' = SingleKind
                  /\ \A g, i : Word(g, i)' = Word(g, i)
                  /\ \A kind, res : SingleWant(kind, res)' = SingleWant(kind, res)
BY DEF profile, mode, cycles, Slots, Required, PairWant, SingleKind, Word, SingleWant

LEMMA RunStays == [Next]_vars => run' = run /\ supported' = supported
BY DEF Next, Program, CapabilityGate, SubmitWaits, SubmitWakes, SubmitCancels, SubmitChecks,
       SubmitSingles, SleepReturns, WaitAgain, ResleepReturns, Copy, Discard, ValidatePairs,
       ValidateSingles, ValidateVectors, ValidateChecks, Validating, Judge, Close,
       write_result, NextRound, Exit, KernelPost, KernelFault, SubmitFails, Signal, Exited,
       vars, ctlVars

LEMMA PlaceInit == Init => PlaceInv
BY FutexAssumption, CyclesIs
DEF Init, PlaceInv, InCycle, Awaiting, Between, Dead, profile

LEMMA ValidatingPlace ==
    ASSUME NEW want, PlaceInv, Validating(want),
           stage = "check" => profile = Vector
    PROVE  PlaceInv'
<1>1. run' = run /\ stage' = stage /\ round' = round
  BY DEF Validating, ctlVars
<1>2. profile' = profile /\ cycles' = cycles
  BY <1>1, RunSame
<1>3. pc = "validate" /\ cycle \in Nat /\ cycle < cycles /\ cycles \in Nat
  BY CyclesIs DEF Validating, PlaceInv, InCycle, Awaiting
<1>4. CASE Exactly(want)
  <2>1. EndCycle
    BY <1>4 DEF Validating
  <2>2. cycle' = cycle + 1
    BY <2>1 DEF EndCycle
  <2>3. CASE profile = "l0_lifecycle"
    <3>1. pc' = "close"
      BY <2>1, <2>3 DEF EndCycle
    <3>2. cycle' = cycles
      BY <1>3, <2>2, <2>3 DEF cycles
    <3> QED
      BY <1>1, <1>2, <1>3, <2>2, <2>3, <3>1, <3>2
      DEF PlaceInv, InCycle, Awaiting, Between, Dead
  <2>4. CASE profile # "l0_lifecycle" /\ stop_requested
    <3>1. pc' = "failed"
      BY <2>1, <2>4 DEF EndCycle
    <3> QED
      BY <1>1, <1>2, <1>3, <2>2, <2>4, <3>1
      DEF PlaceInv, InCycle, Awaiting, Between, Dead
  <2>5. CASE profile # "l0_lifecycle" /\ ~stop_requested /\ cycle + 1 = cycles
    <3>1. pc' = "judge"
      BY <2>1, <2>5 DEF EndCycle
    <3> QED
      BY <1>1, <1>2, <1>3, <2>2, <2>5, <3>1
      DEF PlaceInv, InCycle, Awaiting, Between, Dead
  <2>6. CASE profile # "l0_lifecycle" /\ ~stop_requested /\ cycle + 1 # cycles
    <3>1. pc' = "cycle"
      BY <2>1, <2>6 DEF EndCycle
    <3> QED
      BY <1>1, <1>2, <1>3, <2>2, <2>6, <3>1
      DEF PlaceInv, InCycle, Awaiting, Between, Dead
  <2> QED
    BY <2>3, <2>4, <2>5, <2>6
<1>5. CASE ~Exactly(want)
  <2>1. pc' = "failed" /\ cycle' = cycle
    BY <1>5 DEF Validating
  <2> QED
    BY <1>1, <1>2, <2>1 DEF PlaceInv, InCycle, Awaiting, Between, Dead
<1> QED
  BY <1>4, <1>5

LEMMA PlaceKept == PlaceInv /\ [Next]_vars => PlaceInv'
<1> SUFFICES ASSUME PlaceInv, [Next]_vars PROVE PlaceInv'
  OBVIOUS
<1>1. run' = run /\ profile' = profile /\ cycles' = cycles /\ profile \in SmokeProfiles
  BY RunStays, RunSame, ProfileIs
<1>2. CASE CapabilityGate
  <2>1. pc = "gate" /\ cycle = 0 /\ pc' \in {"cycle", "failed"}
    BY <1>2 DEF CapabilityGate, PlaceInv
  <2>2. UNCHANGED <<stage, round, cycle>>
    BY <1>2 DEF CapabilityGate, ctlVars
  <2> QED
    BY <1>1, <2>1, <2>2, CyclesIs DEF PlaceInv, InCycle, Awaiting, Between, Dead
<1>3. CASE SubmitWaits
  BY <1>1, <1>3 DEF SubmitWaits, ctlVars, PlaceInv, InCycle, Awaiting, Between, Dead, Singles
<1>4. CASE SubmitWakes \/ SubmitCancels
  <2>1. pc = "second" /\ pc' = "sleep" /\ stage' = "pair" /\ UNCHANGED <<round, cycle>>
    BY <1>4 DEF SubmitWakes, SubmitCancels, ctlVars
  <2> QED
    BY <1>1, <2>1 DEF PlaceInv, InCycle, Awaiting, Between, Dead
<1>5. CASE SubmitChecks
  <2>1. pc = "check" /\ pc' = "sleep" /\ stage' = "check" /\ UNCHANGED <<round, cycle>>
    BY <1>5 DEF SubmitChecks, ctlVars
  <2> QED
    BY <1>1, <2>1 DEF PlaceInv, InCycle, Awaiting, Between, Dead
<1>6. CASE SubmitSingles
  <2>1. pc = "cycle" /\ pc' = "sleep" /\ stage' = "pair" /\ UNCHANGED <<round, cycle>>
    BY <1>6 DEF SubmitSingles, ctlVars
  <2> QED
    BY <1>1, <2>1 DEF PlaceInv, InCycle, Awaiting, Between, Dead
<1>7. CASE SleepReturns \/ WaitAgain \/ ResleepReturns \/ Copy
  <2>1. /\ pc \in Awaiting /\ pc' \in Awaiting \cup {"failed"}
        /\ UNCHANGED <<stage, round, cycle>>
    BY <1>7 DEF SleepReturns, WaitAgain, ResleepReturns, Copy, ctlVars, Awaiting
  <2> QED
    BY <1>1, <2>1 DEF PlaceInv, InCycle, Awaiting, Between, Dead
<1>8. CASE Discard \/ SubmitFails
  <2>1. pc' = "failed" /\ UNCHANGED <<stage, round, cycle>>
    BY <1>8 DEF Discard, SubmitFails, ctlVars
  <2> QED
    BY <1>1, <2>1 DEF PlaceInv, InCycle, Awaiting, Between, Dead
<1>9. CASE ValidatePairs
  <2>1. Validating(PairWant) /\ profile # Vector
    BY <1>9 DEF ValidatePairs, Vector
  <2>2. stage # "check"
    BY <2>1 DEF Validating, PlaceInv, Awaiting
  <2> QED
    BY <2>1, <2>2, ValidatingPlace
<1>10. CASE ValidateSingles
  <2>1. Validating(SingleWant(SingleKind[1], SingleKind[2])) /\ profile # Vector
    BY <1>10 DEF ValidateSingles, Vector
  <2>2. stage # "check"
    BY <2>1 DEF Validating, PlaceInv, Awaiting
  <2> QED
    BY <2>1, <2>2, ValidatingPlace
<1>11. CASE ValidateVectors
  <2>1. /\ pc = "validate" /\ profile = Vector /\ pc' \in {"check", "failed"}
        /\ UNCHANGED <<stage, round, cycle>>
    BY <1>11 DEF ValidateVectors, ctlVars, Vector
  <2> QED
    BY <1>1, <2>1 DEF PlaceInv, InCycle, Awaiting, Between, Dead, Vector, Singles
<1>12. CASE ValidateChecks
  <2>1. Validating(SingleWant("check", 0)) /\ profile = Vector
    BY <1>12 DEF ValidateChecks, Vector
  <2> QED
    BY <2>1, ValidatingPlace
<1>13. CASE Judge
  <2>1. /\ pc = "judge" /\ pc' \in {"failed", "next", "write"}
        /\ UNCHANGED <<stage, round, cycle>>
    BY <1>13 DEF Judge, ctlVars
  <2> QED
    BY <1>1, <2>1 DEF PlaceInv, InCycle, Awaiting, Between, Dead
<1>14. CASE Close
  <2>1. /\ pc = "close" /\ pc' = "write" /\ UNCHANGED <<stage, round, cycle>>
    BY <1>14 DEF Close, ctlVars
  <2> QED
    BY <1>1, <2>1 DEF PlaceInv, InCycle, Awaiting, Between, Dead
<1>15. CASE write_result
  <2>1. /\ pc = "write" /\ UNCHANGED <<stage, round, cycle>>
        /\ pc' = IF mode = "smoke" \/ round = WARMUP_ROUNDS + MEASURED_ROUNDS - 1
                 THEN "destroy" ELSE "next"
    BY <1>15 DEF write_result, ctlVars
  <2>2. profile = "l0_lifecycle" => mode = "smoke"
    BY DEF PlaceInv, profile, mode, PointProfiles, SmokeProfiles
  <2> QED
    BY <1>1, <2>1, <2>2 DEF PlaceInv, InCycle, Awaiting, Between, Dead
<1>16. CASE NextRound
  <2>1. /\ pc = "next" /\ pc' = "cycle" /\ stage' = stage /\ round' = round + 1 /\ cycle' = 0
    BY <1>16 DEF NextRound
  <2> QED
    BY <1>1, <2>1, CyclesIs DEF PlaceInv, InCycle, Awaiting, Between, Dead
<1>17. CASE Exit
  <2>1. pc' = "exited" /\ UNCHANGED <<stage, round, cycle>>
    BY <1>17 DEF Exit
  <2> QED
    BY <1>1, <2>1 DEF PlaceInv, InCycle, Awaiting, Between, Dead
<1>18. CASE (\E c \in posting : KernelPost(c)) \/ KernelFault \/ Signal \/ Exited \/ UNCHANGED vars
  <2>1. UNCHANGED <<pc, stage, round, cycle>>
    BY <1>18 DEF KernelPost, KernelFault, Signal, Exited, vars, ctlVars
  <2> QED
    BY <1>1, <2>1 DEF PlaceInv, InCycle, Awaiting, Between, Dead
<1> QED
  BY <1>2, <1>3, <1>4, <1>5, <1>6, <1>7, <1>8, <1>9, <1>10, <1>11, <1>12, <1>13, <1>14,
     <1>15, <1>16, <1>17, <1>18 DEF Next, Program


\* What each profile submits is among what its gate asks for.
LEMMA GateKept == PlaceInv /\ GateInv /\ [Next]_vars => GateInv'
<1> SUFFICES ASSUME PlaceInv, GateInv, [Next]_vars PROVE GateInv'
  OBVIOUS
<1>1. /\ run' = run /\ supported' = supported /\ profile' = profile
      /\ Required' = Required /\ profile \in SmokeProfiles
  BY RunStays, RunSame, ProfileIs
<1>2. CASE CapabilityGate
  <2>1. submitted' = submitted
    BY <1>2 DEF CapabilityGate, histVars
  <2>2. pc' = IF Required \subseteq supported THEN "cycle" ELSE "failed"
    BY <1>2 DEF CapabilityGate
  <2> QED
    BY <1>1, <2>1, <2>2 DEF GateInv, Dead
<1>3. CASE SubmitWaits
  <2>1. pc = "cycle" /\ pc' = "second" /\ profile \notin Singles
    BY <1>3 DEF SubmitWaits, Singles
  <2>2. (IF profile = Vector THEN "FUTEX_WAITV" ELSE "FUTEX_WAIT") \in Required
    BY <1>1, <2>1
    DEF Singles, Required, Vector, SmokeProfiles, PointProfiles
  <2>3. Required \subseteq supported
    BY <2>1 DEF GateInv, Dead
  <2>4. submitted' = submitted
          \cup {IF profile = Vector THEN "FUTEX_WAITV" ELSE "FUTEX_WAIT"}
    BY <1>3 DEF SubmitWaits, Vector
  <2>5. submitted' \subseteq supported
    BY <2>2, <2>3, <2>4 DEF GateInv
  <2> QED
    BY <1>1, <2>3, <2>5 DEF GateInv
<1>4. CASE SubmitWakes
  <2>1. /\ pc = "second" /\ profile # "c0_wait_cancel"
        /\ submitted' = submitted \cup {"FUTEX_WAKE"}
    BY <1>4 DEF SubmitWakes
  <2>2. profile \notin Singles
    BY <2>1 DEF PlaceInv
  <2>3. "FUTEX_WAKE" \in Required
    BY <1>1, <2>2 DEF Singles, Required, SmokeProfiles, PointProfiles
  <2>4. Required \subseteq supported
    BY <2>1 DEF GateInv, Dead
  <2> QED
    BY <1>1, <2>1, <2>3, <2>4 DEF GateInv
<1>5. CASE SubmitCancels
  <2>1. /\ pc = "second" /\ profile = "c0_wait_cancel"
        /\ submitted' = submitted \cup {"ASYNC_CANCEL"}
    BY <1>5 DEF SubmitCancels
  <2>2. "ASYNC_CANCEL" \in Required
    BY <2>1 DEF Required
  <2>3. Required \subseteq supported
    BY <2>1 DEF GateInv, Dead
  <2> QED
    BY <1>1, <2>1, <2>2, <2>3 DEF GateInv
<1>6. CASE SubmitChecks
  <2>1. pc = "check" /\ submitted' = submitted \cup {"FUTEX_WAKE"}
    BY <1>6 DEF SubmitChecks
  <2>2. "FUTEX_WAKE" \in Required
    BY <2>1 DEF PlaceInv, Required, Vector
  <2>3. Required \subseteq supported
    BY <2>1 DEF GateInv, Dead
  <2> QED
    BY <1>1, <2>1, <2>2, <2>3 DEF GateInv
<1>7. CASE SubmitSingles
  <2>1. /\ pc = "cycle" /\ profile \in Singles
        /\ submitted' = submitted \cup {SingleKind[3]}
    BY <1>7 DEF SubmitSingles, Singles
  <2>2. SingleKind[3] \in Required
    BY <2>1 DEF Singles, SingleKind, Required
  <2>3. Required \subseteq supported
    BY <2>1 DEF GateInv, Dead
  <2> QED
    BY <1>1, <2>1, <2>2, <2>3 DEF GateInv
<1>8. CASE ~(CapabilityGate \/ SubmitWaits \/ SubmitWakes \/ SubmitCancels \/ SubmitChecks
             \/ SubmitSingles)
  <2>1. submitted' = submitted /\ (pc \in {"gate"} \cup Dead => pc' \in {"gate"} \cup Dead)
    BY <1>8
    DEF Next, Program, SleepReturns, WaitAgain, ResleepReturns, Copy, Discard, ValidatePairs,
        ValidateSingles, ValidateVectors, ValidateChecks, Validating, Judge, Close,
        write_result, NextRound, Exit, KernelPost, KernelFault, SubmitFails, Signal, Exited,
        vars, ctlVars, histVars, Dead
  <2> QED
    BY <1>1, <2>1 DEF GateInv
<1> QED
  BY <1>2, <1>3, <1>4, <1>5, <1>6, <1>7, <1>8

-----------------------------------------------------------------------------
(* Tags and what is wanted                                                 *)

LEMMA GenIs == PlaceInv => Gen \in Nat
BY Sizes DEF PlaceInv, Gen

LEMMA TagIs ==
    \A kind, g : make_tag(kind, g) = <<kind, Gen, g>>
BY DEF make_tag, Gen

LEMMA PairWantIs ==
    /\ DOMAIN PairWant
         = {"wait", IF profile = "c0_wait_cancel" THEN "cancel" ELSE "wake"} \X Slots
    /\ \A k \in DOMAIN PairWant : PairWant[k] \notin {EINTR, EOTHER}
<1>1. WAITV_WAKE_INDEX \in Nat
  BY FutexAssumption
<1> QED
  BY <1>1 DEF PairWant, EINTR, EOTHER, ECANCELED

LEMMA SingleWantIs ==
    \A kind, res : /\ DOMAIN SingleWant(kind, res) = {kind} \X Slots
                   /\ \A k \in {kind} \X Slots : SingleWant(kind, res)[k] = res
BY DEF SingleWant

LEMMA WantIs ==
    \A k \in DOMAIN Want : Want[k] \notin {EINTR, EOTHER}
<1>1. CASE stage = "check"
  <2>1. Want = [k \in {"check"} \X Slots |-> 0]
    BY <1>1 DEF Want, SingleWant
  <2> QED
    BY <2>1 DEF EINTR, EOTHER
<1>2. CASE stage # "check" /\ profile \in Singles
  <2>1. SingleKind[2] \notin {EINTR, EOTHER}
    BY <1>2 DEF Singles, SingleKind, EINTR, EOTHER, EAGAIN
  <2>2. Want = [k \in {SingleKind[1]} \X Slots |-> SingleKind[2]]
    BY <1>2 DEF Want, SingleWant
  <2> QED
    BY <2>1, <2>2
<1>3. CASE stage # "check" /\ profile \notin Singles
  BY <1>3, PairWantIs DEF Want
<1> QED
  BY <1>1, <1>2, <1>3

-----------------------------------------------------------------------------
(* Completions on their way                                                *)

LEMMA SetBag ==
    ASSUME NEW S
    PROVE  IsBag(SetToBag(S)) /\ DOMAIN SetToBag(S) = S
BY DEF SetToBag, IsBag

LEMMA PlusBag ==
    \A A, B : IsBag(A (+) B) /\ DOMAIN (A (+) B) = DOMAIN A \cup DOMAIN B
BY DEF (+), IsBag

LEMMA NoBag == IsBag(EmptyBag) /\ DOMAIN EmptyBag = {}
BY SetBag DEF EmptyBag

Submit == SubmitWakes \/ SubmitCancels \/ SubmitChecks \/ SubmitSingles
Validate == ValidatePairs \/ ValidateSingles \/ ValidateVectors \/ ValidateChecks
Quiet == CapabilityGate \/ SubmitWaits \/ SubmitFails \/ SleepReturns \/ WaitAgain
           \/ ResleepReturns \/ Judge \/ write_result \/ NextRound
Empties == Discard \/ Close \/ Exit

LEMMA Steps ==
    [Next]_vars => Submit \/ Validate \/ Quiet \/ Empties \/ Copy \/ Signal
                     \/ (\E c \in posting : KernelPost(c)) \/ KernelFault \/ UNCHANGED vars
BY DEF Next, Program, Submit, Validate, Quiet, Empties, Exited

LEMMA QuietIs ==
    Quiet => UNCHANGED <<posting, cq, copy>> /\ pc # "validate" /\ pc' # "validate"
BY DEF Quiet, CapabilityGate, SubmitWaits, SubmitFails, SleepReturns, WaitAgain,
       ResleepReturns, Judge, write_result, NextRound, kernVars, ctlVars

LEMMA ValidateIs ==
    Validate => /\ UNCHANGED <<posting, cq, waiters, copy, round, stage>>
                /\ pc = "validate" /\ pc' # "validate"
BY DEF Validate, ValidatePairs, ValidateSingles, ValidateVectors, ValidateChecks, Validating,
       EndCycle, kernVars, ctlVars

LEMMA PostIs ==
    ASSUME NEW c, KernelPost(c)
    PROVE  /\ c \in posting /\ posting' = posting \ {c}
           /\ IsBag(cq') /\ DOMAIN cq' = DOMAIN cq \cup {c}
           /\ waiters' \subseteq waiters
           /\ UNCHANGED <<run, pc, stage, round, cycle, copy, reaped>>
<1>1. /\ c \in posting /\ posting' = posting \ {c} /\ cq' = cq (+) SetToBag({c})
      /\ waiters' \subseteq waiters
      /\ UNCHANGED <<run, pc, stage, round, cycle, copy, reaped>>
  BY DEF KernelPost, ctlVars, histVars
<1>2. DOMAIN SetToBag({c}) = {c}
  BY SetBag
<1> QED
  BY <1>1, <1>2, PlusBag

LEMMA FaultIs ==
    ASSUME ShapeInv, KernelFault
    PROVE  /\ \A c \in posting' : c \in posting \/ (~Genuine(c) /\ Completion(c))
           /\ waiters' \subseteq waiters
           /\ UNCHANGED <<run, pc, stage, round, cycle, cq, copy, reaped>>
<1>1. /\ waiters' \subseteq waiters
      /\ UNCHANGED <<run, pc, stage, round, cycle, cq, copy, reaped>>
  BY DEF KernelFault, ctlVars, histVars
<1>2. CASE \E c \in posting : posting' = posting \ {c}
  BY <1>1, <1>2
<1>3. CASE \E c \in posting : posting' = (posting \ {c}) \cup {<<c[1], EOTHER>>}
  <2>1. PICK d \in posting : posting' = (posting \ {d}) \cup {<<d[1], EOTHER>>}
    BY <1>3
  <2>2. Completion(d)
    BY DEF ShapeInv, Live, Unread
  <2>3. ~Genuine(<<d[1], EOTHER>>) /\ Completion(<<d[1], EOTHER>>)
    BY <2>2 DEF Genuine, Completion
  <2> QED
    BY <1>1, <2>1, <2>3
<1>4. CASE \E w \in waiters : posting' = posting \cup {<<w[1], EINTR>>}
  <2>1. PICK w \in waiters : posting' = posting \cup {<<w[1], EINTR>>}
    BY <1>4
  <2>2. Waiter(w)
    BY DEF ShapeInv
  <2>3. ~Genuine(<<w[1], EINTR>>) /\ Completion(<<w[1], EINTR>>)
    BY <2>2 DEF Genuine, Completion, Waiter
  <2> QED
    BY <1>1, <2>1, <2>3
<1> QED
  BY <1>1, <1>2, <1>3, <1>4 DEF KernelFault

\* Only a submission brings a completion that could be right.
LEMMA QuietLive ==
    ASSUME ShapeInv, [Next]_vars, ~Submit
    PROVE  /\ IsBag(cq') /\ IsBag(copy')
           /\ \A c \in Live' : c \in Live \/ (~Genuine(c) /\ Completion(c))
<1>1. IsBag(cq) /\ IsBag(copy)
  BY DEF ShapeInv
<1>2. CASE Quiet \/ Validate
  <2>1. UNCHANGED <<posting, cq, copy>> /\ InHand' = {}
    BY <1>2, QuietIs, ValidateIs DEF InHand
  <2> QED
    BY <1>1, <2>1 DEF Live, Unread
<1>3. CASE Empties
  <2>1. /\ posting' \subseteq posting /\ cq' = EmptyBag /\ copy' = copy
        /\ pc' # "validate"
    BY <1>3 DEF Empties, Discard, Close, Exit, histVars
  <2> QED
    BY <1>1, <2>1, NoBag DEF Live, Unread, InHand
<1>4. CASE Copy
  <2>1. /\ copy' = cq /\ cq' = EmptyBag /\ posting' = posting
    BY <1>4 DEF Copy
  <2> QED
    BY <1>1, <2>1, NoBag DEF Live, Unread, InHand
<1>5. CASE Signal \/ UNCHANGED vars
  <2>1. UNCHANGED <<posting, cq, copy, pc>>
    BY <1>5 DEF Signal, vars, kernVars, histVars
  <2> QED
    BY <1>1, <2>1 DEF Live, Unread, InHand
<1>6. CASE \E c \in posting : KernelPost(c)
  <2>1. PICK c \in posting : KernelPost(c)
    BY <1>6
  <2> QED
    BY <1>1, <2>1, PostIs DEF Live, Unread, InHand
<1>7. CASE KernelFault
  <2>1. InHand' = InHand /\ cq' = cq /\ copy' = copy
    BY <1>7, FaultIs DEF InHand
  <2> QED
    BY <1>1, <1>7, <2>1, FaultIs DEF Live, Unread
<1> QED
  BY <1>2, <1>3, <1>4, <1>5, <1>6, <1>7, Steps

\* Only SubmitWaits registers a wait.
LEMMA WaitersShrink ==
    ShapeInv /\ [Next]_vars => SubmitWaits \/ waiters' \subseteq waiters
<1> SUFFICES ASSUME ShapeInv, [Next]_vars, ~SubmitWaits PROVE waiters' \subseteq waiters
  OBVIOUS
<1>1. CASE Submit
  BY <1>1 DEF Submit, SubmitWakes, SubmitCancels, SubmitChecks, SubmitSingles, WakeAll
<1>2. CASE Validate
  BY <1>2, ValidateIs
<1>3. CASE Quiet
  BY <1>3
  DEF Quiet, CapabilityGate, SubmitFails, SleepReturns, WaitAgain,
      ResleepReturns, Judge, write_result, NextRound, kernVars
<1>4. CASE Empties \/ Copy \/ Signal \/ UNCHANGED vars
  BY <1>4 DEF Empties, Discard, Close, Exit, Copy, Signal, vars, kernVars
<1>5. CASE \E c \in posting : KernelPost(c)
  BY <1>5, PostIs
<1>6. CASE KernelFault
  BY <1>6, FaultIs
<1> QED
  BY <1>1, <1>2, <1>3, <1>4, <1>5, <1>6, Steps

-----------------------------------------------------------------------------
(* Submissions                                                             *)

LEMMA WakeAllIs ==
    ASSUME NEW word, NEW own, WakeAll(word, own)
    PROVE  /\ waiters' \subseteq waiters
           /\ \A c \in posting' :
                 \/ c \in posting
                 \/ \E g \in Slots, w \in waiters : w[2] = word[g] /\ c = <<w[1], w[2][2]>>
                 \/ \E g \in Slots :
                       c = <<own[g], IF \E w \in waiters : w[2] = word[g] THEN 1 ELSE 0>>
           /\ \A g \in Slots : (\E w \in waiters : w[2] = word[g]) =>
                 \E w \in waiters : w[2] = word[g] /\ w \notin waiters'
<1> DEFINE at(g) == {w \in waiters : w[2] = word[g]}
           woken == {g \in Slots : at(g) # {}}
           done == {c[1] : c \in posting}
<1>1. PICK pick \in [woken -> waiters] :
          /\ \A g \in woken : pick[g] \in at(g)
          /\ posting' = posting
                \cup {<<pick[g][1], pick[g][2][2]>> :
                            g \in {h \in woken : pick[h][1] \notin done}}
                \cup {<<own[g], IF g \in woken THEN 1 ELSE 0>> : g \in Slots}
          /\ waiters' = waiters \ {pick[g] : g \in woken}
  BY DEF WakeAll
<1>2. \A g \in woken : g \in Slots /\ pick[g] \in waiters /\ pick[g][2] = word[g]
  BY <1>1
<1>3. \A g \in Slots : g \in woken <=> \E w \in waiters : w[2] = word[g]
  OBVIOUS
<1>4. ASSUME NEW c \in posting', c \notin posting
      PROVE  \/ \E g \in Slots, w \in waiters : w[2] = word[g] /\ c = <<w[1], w[2][2]>>
             \/ \E g \in Slots :
                   c = <<own[g], IF \E w \in waiters : w[2] = word[g] THEN 1 ELSE 0>>
  <2>1. \/ \E g \in woken : c = <<pick[g][1], pick[g][2][2]>>
        \/ \E g \in Slots : c = <<own[g], IF g \in woken THEN 1 ELSE 0>>
    BY <1>1, <1>4
  <2> HIDE DEF woken
  <2> QED
    BY <1>2, <1>3, <2>1
<1>5. ASSUME NEW g \in Slots, g \in woken
      PROVE  \E w \in waiters : w[2] = word[g] /\ w \notin waiters'
  <2> HIDE DEF woken
  <2>1. pick[g] \in waiters /\ pick[g][2] = word[g] /\ pick[g] \notin waiters'
    BY <1>1, <1>2, <1>5
  <2> QED
    BY <2>1
<1>6. waiters' \subseteq waiters
  BY <1>1
<1> QED
  BY <1>3, <1>4, <1>5, <1>6

LEMMA TagParts ==
    \A kind, g, res : LET c == <<make_tag(kind, g), res>>
                      IN  Completion(c) /\ c[1][1] = kind /\ c[1][2] = Gen /\ c[1][3] = g
                          /\ c[2] = res /\ Key(c) = <<kind, g>>
BY DEF make_tag, Gen, Completion, Key, tag_kind, tag_index

\* Vectors have their words in a row, scalar slots one each.
LEMMA WordIs ==
    /\ profile = Vector => \A g, i : Word(g, i) = <<g, i>> /\ Word(g, i)[2] = i
    /\ profile # Vector => \A g, i, j : Word(g, i) = Word(g, j) /\ Word(g, i)[2] = 0
BY DEF Word, Vector

\* The waits and the wakes of this cycle, each once.
LEMMA WakesAre ==
    ASSUME ShapeInv, WaiterInv, SubmitWakes
    PROVE  \A c \in posting' : c \in posting \/ \E g \in Slots :
              \/ (\E w \in waiters : w[2] = Word(g, WAITV_WAKE_INDEX))
                    /\ c = <<make_tag("wait", g), Word(g, WAITV_WAKE_INDEX)[2]>>
              \/ c = <<make_tag("wake", g),
                       IF \E w \in waiters : w[2] = Word(g, WAITV_WAKE_INDEX) THEN 1 ELSE 0>>
<1> DEFINE word == [g \in Slots |-> Word(g, WAITV_WAKE_INDEX)]
<1>1. WakeAll(word, Own("wake")) /\ pc = "second"
  BY DEF SubmitWakes
<1>2. \A g \in Slots : word[g] = Word(g, WAITV_WAKE_INDEX) /\ Own("wake")[g] = make_tag("wake", g)
  BY DEF Own
<1>3. \A w \in waiters, g \in Slots :
          w[2] = Word(g, WAITV_WAKE_INDEX) => w[1] = make_tag("wait", g)
  BY <1>1 DEF WaiterInv
<1> HIDE DEF word
<1>4. \A c \in posting' :
         \/ c \in posting
         \/ \E g \in Slots, w \in waiters : w[2] = word[g] /\ c = <<w[1], w[2][2]>>
         \/ \E g \in Slots :
               c = <<Own("wake")[g], IF \E w \in waiters : w[2] = word[g] THEN 1 ELSE 0>>
  BY <1>1, WakeAllIs
<1> SUFFICES ASSUME NEW c \in posting', c \notin posting
             PROVE  \E g \in Slots :
              \/ (\E w \in waiters : w[2] = Word(g, WAITV_WAKE_INDEX))
                    /\ c = <<make_tag("wait", g), Word(g, WAITV_WAKE_INDEX)[2]>>
              \/ c = <<make_tag("wake", g),
                       IF \E w \in waiters : w[2] = Word(g, WAITV_WAKE_INDEX) THEN 1 ELSE 0>>
  OBVIOUS
<1>5. CASE \E g \in Slots, w \in waiters : w[2] = word[g] /\ c = <<w[1], w[2][2]>>
  BY <1>2, <1>3, <1>5
<1>6. CASE \E g \in Slots :
               c = <<Own("wake")[g], IF \E w \in waiters : w[2] = word[g] THEN 1 ELSE 0>>
  BY <1>2, <1>6
<1> QED
  BY <1>4, <1>5, <1>6

LEMMA CancelsAre ==
    ASSUME SubmitCancels
    PROVE  \A c \in posting' : c \in posting \/ \E g \in Slots :
              \/ c = <<make_tag("wait", g), ECANCELED>>
              \/ c = <<make_tag("cancel", g),
                       IF \E w \in waiters : w[1] = make_tag("wait", g) THEN 1 ELSE ENOENT>>
<1> DEFINE waits == {w[1] : w \in waiters}
<1>1. posting' = posting
             \cup {<<make_tag("wait", g), ECANCELED>> :
                        g \in {h \in Slots : make_tag("wait", h) \in waits}}
             \cup {<<make_tag("cancel", g),
                     IF make_tag("wait", g) \in waits THEN 1 ELSE ENOENT>> : g \in Slots}
  BY DEF SubmitCancels
<1>2. \A g : make_tag("wait", g) \in waits <=> \E w \in waiters : w[1] = make_tag("wait", g)
  OBVIOUS
<1> HIDE DEF waits
<1> QED
  BY <1>1, <1>2

LEMMA SinglesAre ==
    ASSUME SubmitSingles
    PROVE  \A c \in posting' : c \in posting \/ \E g \in Slots :
              c = <<make_tag(SingleKind[1], g), SingleKind[2]>>
BY DEF SubmitSingles

\* A check finds somebody, or its answer is 0.
LEMMA ChecksAre ==
    ASSUME SubmitChecks
    PROVE  \A c \in posting' :
              \/ c \in posting
              \/ \E g \in Slots, w \in waiters : w[2] = Word(g, 0) /\ c = <<w[1], w[2][2]>>
              \/ \E g \in Slots :
                    c = <<make_tag("check", g),
                          IF \E w \in waiters : w[2] = Word(g, 0) THEN 1 ELSE 0>>
<1> DEFINE word == [g \in Slots |-> Word(g, 0)]
<1>1. WakeAll(word, Own("check"))
  BY DEF SubmitChecks
<1>2. \A g \in Slots : word[g] = Word(g, 0) /\ Own("check")[g] = make_tag("check", g)
  BY DEF Own
<1> HIDE DEF word
<1>3. \A c \in posting' :
         \/ c \in posting
         \/ \E g \in Slots, w \in waiters : w[2] = word[g] /\ c = <<w[1], w[2][2]>>
         \/ \E g \in Slots :
               c = <<Own("check")[g], IF \E w \in waiters : w[2] = word[g] THEN 1 ELSE 0>>
  BY <1>1, WakeAllIs
<1> SUFFICES ASSUME NEW c \in posting', c \notin posting
             PROVE  \/ \E g \in Slots, w \in waiters : w[2] = Word(g, 0) /\ c = <<w[1], w[2][2]>>
                    \/ \E g \in Slots :
                          c = <<make_tag("check", g),
                                IF \E w \in waiters : w[2] = Word(g, 0) THEN 1 ELSE 0>>
  OBVIOUS
<1> QED
  BY <1>2, <1>3

LEMMA SubmitIs ==
    Submit => /\ UNCHANGED <<run, round, cycle, cq, copy, reaped>>
              /\ waiters' \subseteq waiters
              /\ pc \in {"cycle", "second", "check"} /\ pc' = "sleep"
              /\ stage' = IF SubmitChecks THEN "check" ELSE "pair"
              /\ SubmitChecks <=> pc = "check"
BY DEF Submit, SubmitWakes, SubmitCancels, SubmitChecks, SubmitSingles, WakeAll, ctlVars

LEMMA WaiterSame == run' = run => \A w : Waiter(w) => Waiter(w)'
<1> SUFFICES ASSUME run' = run PROVE \A w : Waiter(w) => Waiter(w)'
  OBVIOUS
<1>1. Slots' = Slots /\ \A g, i : Word(g, i)' = Word(g, i)
  BY RunSame
<1> QED
  BY <1>1 DEF Waiter

LEMMA SubmitLive ==
    ASSUME Submit
    PROVE  Live' = posting' \cup DOMAIN cq /\ Live = Unread /\ InHand' = {}
BY SubmitIs DEF Live, Unread, InHand

\* What a submission adds are completions.
LEMMA SubmitShape ==
    ASSUME ShapeInv, WaiterInv, Submit
    PROVE  \A c \in posting' : c \in posting \/ Completion(c)
<1> SUFFICES ASSUME NEW c \in posting', c \notin posting PROVE Completion(c)
  OBVIOUS
<1>1. CASE SubmitWakes
  BY <1>1, WakesAre, TagParts
<1>2. CASE SubmitCancels
  BY <1>2, CancelsAre, TagParts
<1>3. CASE SubmitSingles
  BY <1>3, SinglesAre, TagParts
<1>4. CASE SubmitChecks
  <2>1. CASE \E g \in Slots, w \in waiters : w[2] = Word(g, 0) /\ c = <<w[1], w[2][2]>>
    BY <2>1 DEF ShapeInv, Waiter, Completion
  <2>2. CASE \E g \in Slots :
               c = <<make_tag("check", g), IF \E w \in waiters : w[2] = Word(g, 0) THEN 1 ELSE 0>>
    BY <2>2, TagParts
  <2> QED
    BY <1>4, <2>1, <2>2, ChecksAre
<1> QED
  BY <1>1, <1>2, <1>3, <1>4 DEF Submit

LEMMA ShapeInit == Init => ShapeInv
BY NoBag DEF Init, ShapeInv, Live, Unread, InHand

LEMMA ShapeKept == ShapeInv /\ WaiterInv /\ [Next]_vars => ShapeInv'
<1> SUFFICES ASSUME ShapeInv, WaiterInv, [Next]_vars PROVE ShapeInv'
  OBVIOUS
<1>1. \A w : Waiter(w) => Waiter(w)'
  BY RunStays, WaiterSame
<1>2. \A w \in waiters' : Waiter(w)'
  <2>1. CASE SubmitWaits
    <3> SUFFICES ASSUME NEW w \in waiters', w \notin waiters PROVE Waiter(w)
      BY <1>1 DEF ShapeInv
    <3>1. PICK g \in Slots :
             w \in {make_tag("wait", g)} \X
                      (IF profile = "v0_waitv_wake" THEN Words(g) ELSE {Word(g, 0)})
      BY <2>1 DEF SubmitWaits
    <3>2. w = <<w[1], w[2]>> /\ w[1] = make_tag("wait", g)
          /\ w[2] \in (IF profile = "v0_waitv_wake" THEN Words(g) ELSE {Word(g, 0)})
      BY <3>1
    <3>3. 0 \in 0..WAITV_WIDTH-1
      BY FutexAssumption
    <3>4. \E i \in 0..WAITV_WIDTH-1 : w[2] = Word(g, i)
      BY <3>2, <3>3 DEF Words
    <3>5. w[1] = <<"wait", w[1][2], w[1][3]>>
      BY <3>2 DEF make_tag
    <3> QED
      BY <3>2, <3>4, <3>5 DEF Waiter
  <2>2. CASE ~SubmitWaits
    BY <1>1, <2>2, WaitersShrink DEF ShapeInv
  <2> QED
    BY <2>1, <2>2
<1>3. IsBag(cq') /\ IsBag(copy') /\ \A c \in Live' : Completion(c)
  <2>1. CASE Submit
    <3>1. \A c \in posting' : c \in posting \/ Completion(c)
      BY <2>1, SubmitShape
    <3>2. Live' = posting' \cup DOMAIN cq /\ Live = Unread /\ cq' = cq /\ copy' = copy
      BY <2>1, SubmitLive, SubmitIs
    <3> QED
      BY <3>1, <3>2 DEF ShapeInv, Unread
  <2>2. CASE ~Submit
    BY <2>2, QuietLive DEF ShapeInv
  <2> QED
    BY <2>1, <2>2
<1>4. \A c : Completion(c)' = Completion(c)
  BY DEF Completion
<1>5. IsBag(cq)' /\ IsBag(copy)'
  BY <1>3 DEF IsBag
<1> QED
  BY <1>2, <1>3, <1>5 DEF ShapeInv, Completion

-----------------------------------------------------------------------------
(* What is owed                                                            *)

\* The cycle, the stage and what is wanted.
LEMMA CycleSame ==
    run' = run /\ UNCHANGED <<stage, round, cycle>> =>
       /\ Gen' = Gen /\ Want' = Want /\ Slots' = Slots
       /\ \A kind, g : make_tag(kind, g)' = make_tag(kind, g)
<1> SUFFICES ASSUME run' = run, UNCHANGED <<stage, round, cycle>>
             PROVE  /\ Gen' = Gen /\ Want' = Want /\ Slots' = Slots
                    /\ \A kind, g : make_tag(kind, g)' = make_tag(kind, g)
  OBVIOUS
<1>1. /\ profile' = profile /\ Slots' = Slots /\ PairWant' = PairWant
      /\ SingleKind' = SingleKind
      /\ \A kind, res : SingleWant(kind, res)' = SingleWant(kind, res)
  BY RunSame
<1>2. Gen' = Gen /\ \A kind, g : make_tag(kind, g)' = make_tag(kind, g)
  BY DEF Gen, make_tag
<1>3. Want' = Want
  BY <1>1 DEF Want
<1> QED
  BY <1>1, <1>2, <1>3

\* Each completion of a batch that passes is right ...
LEMMA PassingGenuine ==
    ASSUME Exactly(Want)
    PROVE  /\ \A c \in DOMAIN copy : Genuine(c) /\ Key(c) \in DOMAIN Want /\ c[2] = Want[Key(c)]
           /\ \A k \in DOMAIN Want : \E c \in DOMAIN copy : Key(c) = k
           /\ \A c, d \in DOMAIN copy : Key(c) = Key(d) => c = d
           /\ \A c \in DOMAIN copy : copy[c] = 1
<1>1. \A c \in DOMAIN copy : Key(c) \in DOMAIN Want /\ c[2] = Want[Key(c)]
  BY DEF Exactly
<1>2. \A c \in DOMAIN copy : Genuine(c)
  BY <1>1, WantIs DEF Genuine
<1>3. \A k \in DOMAIN Want : SeenOnce(k)
  BY DEF Exactly
<1>4. \A k \in DOMAIN Want : \E c \in DOMAIN copy : Key(c) = k
  BY <1>3 DEF SeenOnce
<1>5. ASSUME NEW c \in DOMAIN copy, NEW d \in DOMAIN copy, Key(c) = Key(d)
      PROVE  c = d
  <2>1. SeenOnce(Key(c))
    BY <1>1, <1>3
  <2>2. PICK e \in DOMAIN copy : \A f \in DOMAIN copy \ {e} : Key(f) # Key(c)
    BY <2>1 DEF SeenOnce
  <2> QED
    BY <1>5, <2>2
<1>6. ASSUME NEW c \in DOMAIN copy PROVE copy[c] = 1
  <2>1. SeenOnce(Key(c))
    BY <1>1, <1>3
  <2>2. PICK e \in DOMAIN copy : copy[e] = 1 /\ Key(e) = Key(c)
    BY <2>1 DEF SeenOnce
  <2>3. e = c
    BY <1>5, <2>2
  <2> QED
    BY <2>2, <2>3
<1> QED
  BY <1>1, <1>2, <1>4, <1>5, <1>6

\* ... so that a check whose batch passes found nobody.
LEMMA PassingSane ==
    ASSUME ShapeInv, OwedInv, pc = "validate", Exactly(Want)
    PROVE  Sane
<1> SUFFICES ASSUME Checking PROVE AllZero
  BY DEF Sane, Dead
<1> SUFFICES ASSUME NEW g \in Slots PROVE <<make_tag("check", g), 0>> \in Live
  BY DEF AllZero
<1>1. Want = [k \in {"check"} \X Slots |-> 0]
  BY DEF Want, Checking, SingleWant
<1>2. <<"check", g>> \in DOMAIN Want
  BY <1>1
<1>3. PICK c \in DOMAIN copy : Key(c) = <<"check", g>>
  BY <1>2, PassingGenuine
<1>4. Genuine(c) /\ c[2] = Want[Key(c)]
  BY PassingGenuine
<1>5. c[2] = 0
  BY <1>1, <1>2, <1>3, <1>4
<1>6. c \in Live /\ Completion(c)
  BY DEF Live, InHand, ShapeInv
<1>7. c[1][1] = "check" /\ c[1][3] = g
  BY <1>3 DEF Key, tag_kind, tag_index
<1>8. c[1][2] = Gen
  BY <1>4, <1>6, <1>7 DEF OwedInv
<1>9. c = <<make_tag("check", g), 0>>
  BY <1>5, <1>6, <1>7, <1>8, TagIs DEF Completion
<1> QED
  BY <1>6, <1>9

\* Nothing that is owed is left once a batch has passed.
LEMMA PassingAll ==
    ASSUME ShapeInv, OwedInv, pc = "validate", Exactly(Want)
    PROVE  \A c \in Unread : ~Genuine(c)
<1> SUFFICES ASSUME NEW c \in Unread, Genuine(c) PROVE FALSE
  OBVIOUS
<1>1. Owed
  BY PassingSane DEF OwedInv
<1>2. c \in Live /\ c[1][2] = Gen /\ Key(c) \in DOMAIN Want /\ Completion(c)
  BY <1>1 DEF Owed, Live, ShapeInv
<1>3. PICK d \in DOMAIN copy : Key(d) = Key(c)
  BY <1>2, PassingGenuine
<1>4. d \in Live /\ d \in InHand /\ Genuine(d) /\ Completion(d)
  BY PassingGenuine DEF Live, InHand, ShapeInv
<1>5. d[1][2] = Gen
  BY <1>1, <1>4 DEF Owed
<1>6. d[1] = c[1]
  BY <1>2, <1>3, <1>4, <1>5 DEF Key, tag_kind, tag_index, Completion
<1>7. c = d
  BY <1>1, <1>2, <1>4, <1>6 DEF Owed
<1> QED
  BY <1>1, <1>2, <1>4, <1>7 DEF Owed

LEMMA ValidateOutcome ==
    ASSUME PlaceInv, Validate
    PROVE  /\ UNCHANGED <<run, stage, round, waiters, posting, cq, copy, reaped>>
           /\ pc = "validate" /\ cycle < cycles
           /\ \/ pc' = "failed"
              \/ /\ Exactly(Want) /\ pc' = "check" /\ cycle' = cycle
                 /\ profile = Vector /\ stage = "pair"
              \/ /\ Exactly(Want) /\ pc' \in {"close", "judge", "cycle"} /\ cycle' = cycle + 1
                 /\ stage = "check" \/ profile # Vector
<1>1. profile \in SmokeProfiles /\ stage \in {"pair", "check"}
      /\ (pc = "validate" /\ stage = "check" => profile = Vector)
  BY ProfileIs DEF PlaceInv, Awaiting
<1>2. pc = "validate" => cycle < cycles
  BY DEF PlaceInv, InCycle, Awaiting
<1>3. ASSUME NEW want, Validating(want)
      PROVE  /\ UNCHANGED <<run, stage, round, waiters, posting, cq, copy, reaped>>
             /\ pc = "validate"
             /\ \/ pc' = "failed"
                \/ Exactly(want) /\ pc' \in {"close", "judge", "cycle"} /\ cycle' = cycle + 1
  BY <1>3 DEF Validating, EndCycle, kernVars, histVars, ctlVars
<1>4. CASE ValidatePairs
  <2>1. Validating(PairWant) /\ profile \notin Singles /\ profile # Vector
    BY <1>4 DEF ValidatePairs, Singles, Vector
  <2>2. pc = "validate"
    BY <2>1, <1>3
  <2>3. Want = PairWant
    BY <1>1, <2>1, <2>2 DEF Want
  <2> QED
    BY <1>2, <1>3, <2>1, <2>2, <2>3
<1>5. CASE ValidateSingles
  <2>1. Validating(SingleWant(SingleKind[1], SingleKind[2])) /\ profile \in Singles
        /\ profile # Vector
    BY <1>5 DEF ValidateSingles, Singles, Vector
  <2>2. pc = "validate"
    BY <2>1, <1>3
  <2>3. Want = SingleWant(SingleKind[1], SingleKind[2])
    BY <1>1, <2>1, <2>2 DEF Want
  <2> QED
    BY <1>2, <1>3, <2>1, <2>2, <2>3
<1>6. CASE ValidateVectors
  <2>1. /\ UNCHANGED <<run, stage, round, cycle, waiters, posting, cq, copy, reaped>>
        /\ pc = "validate" /\ stage = "pair" /\ profile = Vector
        /\ pc' = IF Exactly(PairWant) THEN "check" ELSE "failed"
    BY <1>6 DEF ValidateVectors, Vector, kernVars, histVars, ctlVars
  <2>2. Want = PairWant
    BY <2>1 DEF Want, Vector, Singles
  <2> QED
    BY <1>2, <2>1, <2>2
<1>7. CASE ValidateChecks
  <2>1. Validating(SingleWant("check", 0)) /\ stage = "check"
    BY <1>7 DEF ValidateChecks
  <2>2. Want = SingleWant("check", 0)
    BY <2>1 DEF Want
  <2> QED
    BY <1>2, <1>3, <2>1, <2>2
<1> QED
  BY <1>4, <1>5, <1>6, <1>7 DEF Validate

\* A step that neither submits nor validates stays outside a wait, or inside it.
LEMMA StaysPut ==
    ASSUME [Next]_vars, ~Submit, ~Validate
    PROVE  \/ pc \notin Awaiting \cup Dead /\ pc' \notin Awaiting \cup Dead
           \/ pc \in Awaiting /\ pc' \in Awaiting /\ UNCHANGED <<stage, round, cycle>>
           \/ pc' \in Dead
<1>1. CASE Quiet
  BY <1>1
  DEF Quiet, CapabilityGate, SubmitWaits, SubmitFails, SleepReturns, WaitAgain,
      ResleepReturns, Judge, write_result, NextRound, ctlVars, Awaiting, Dead
<1>2. CASE Empties \/ Copy
  BY <1>2 DEF Empties, Discard, Close, Exit, Copy, ctlVars, Awaiting, Dead
<1>3. CASE Signal \/ (\E c \in posting : KernelPost(c)) \/ KernelFault \/ UNCHANGED vars
  <2>1. UNCHANGED <<pc, stage, round, cycle>>
    BY <1>3 DEF Signal, KernelPost, KernelFault, vars, ctlVars
  <2> QED
    BY <2>1
<1> QED
  BY <1>1, <1>2, <1>3, Steps

LEMMA OnePlace ==
    ASSUME ShapeInv, [Next]_vars, ~Submit, NEW c \in Live', Genuine(c),
           ~(c \in posting /\ c \in DOMAIN cq), ~(c \in Unread /\ c \in InHand)
    PROVE  ~(c \in posting' /\ c \in DOMAIN cq') /\ ~(c \in Unread' /\ c \in InHand')
<1>1. CASE Quiet \/ Validate
  <2>1. UNCHANGED <<posting, cq>> /\ InHand' = {}
    BY <1>1, QuietIs, ValidateIs DEF InHand
  <2> QED
    BY <2>1
<1>2. CASE Empties
  <2>1. cq' = EmptyBag /\ InHand' = {}
    BY <1>2 DEF Empties, Discard, Close, Exit, InHand
  <2> QED
    BY <2>1, NoBag
<1>3. CASE Copy
  <2>1. cq' = EmptyBag /\ posting' = posting /\ InHand' \subseteq DOMAIN cq
    BY <1>3 DEF Copy, InHand
  <2> QED
    BY <2>1, NoBag DEF Unread
<1>4. CASE Signal \/ UNCHANGED vars
  <2>1. UNCHANGED <<posting, cq, copy, pc>>
    BY <1>4 DEF Signal, vars, kernVars, histVars
  <2> QED
    BY <2>1 DEF Unread, InHand
<1>5. CASE \E d \in posting : KernelPost(d)
  <2>1. PICK d \in posting : KernelPost(d)
    BY <1>5
  <2>2. /\ posting' = posting \ {d} /\ DOMAIN cq' = DOMAIN cq \cup {d}
        /\ InHand' = InHand /\ Unread' = Unread
    BY <2>1, PostIs DEF Unread, InHand
  <2> QED
    BY <2>2
<1>6. CASE KernelFault
  <2>1. (c \in posting' => c \in posting) /\ InHand' = InHand /\ cq' = cq
    BY <1>6, FaultIs DEF InHand
  <2> QED
    BY <2>1 DEF Unread
<1> QED
  BY <1>1, <1>2, <1>3, <1>4, <1>5, <1>6, Steps

\* Nothing that is owed, so nothing to be wrong about.
LEMMA NothingOwed ==
    (\A c \in Live' : ~Genuine(c)) => Owed'
BY DEF Owed, Genuine

\* While completions are awaited, they only get lost or spoilt.
LEMMA AwaitingOwed ==
    ASSUME ShapeInv, OwedInv, [Next]_vars, ~Submit, ~Validate,
           pc \in Awaiting, pc' \in Awaiting, UNCHANGED <<stage, round, cycle>>
    PROVE  OwedInv' /\ (Checking' /\ AllZero' => Checking /\ AllZero)
<1>1. run' = run
  BY RunStays
<1>2. /\ Gen' = Gen /\ Want' = Want /\ Slots' = Slots
      /\ \A kind, g : make_tag(kind, g)' = make_tag(kind, g)
  BY <1>1, CycleSame
<1>3. \A c \in Live' : Genuine(c) => c \in Live
  BY QuietLive
<1>4. Checking' => Checking
  BY DEF Checking
<1>5. Checking' /\ AllZero' => Checking /\ AllZero
  <2>1. ASSUME Checking', AllZero', NEW g \in Slots
        PROVE  <<make_tag("check", g), 0>> \in Live
    <3>1. <<make_tag("check", g), 0>> \in Live'
      BY <1>2, <2>1 DEF AllZero
    <3>2. Genuine(<<make_tag("check", g), 0>>)
      BY DEF Genuine, EINTR, EOTHER
    <3> QED
      BY <1>3, <3>1, <3>2
  <2> QED
    BY <1>4, <2>1 DEF AllZero
<1>6. pc \notin Dead /\ pc' \notin Dead
  BY DEF Awaiting, Dead
<1>7. Sane' => Sane
  BY <1>5, <1>6 DEF Sane, Checking
<1>8. ASSUME Sane' PROVE Owed'
  <2>1. Owed
    BY <1>7, <1>8 DEF OwedInv
  <2>2. ASSUME NEW c \in Live', Genuine(c)
        PROVE  /\ pc' \in Awaiting /\ c[1][2] = Gen' /\ Key(c) \in DOMAIN Want'
               /\ ~(c \in posting' /\ c \in DOMAIN cq') /\ ~(c \in Unread' /\ c \in InHand')
    <3>1. c \in Live
      BY <1>3, <2>2
    <3>2. /\ c[1][2] = Gen /\ Key(c) \in DOMAIN Want
          /\ ~(c \in posting /\ c \in DOMAIN cq) /\ ~(c \in Unread /\ c \in InHand)
      BY <2>1, <2>2, <3>1 DEF Owed
    <3> QED
      BY <1>2, <2>2, <3>2, OnePlace
  <2>3. ASSUME NEW c \in Live', NEW d \in Live', Genuine(c), Genuine(d), c[1] = d[1]
        PROVE  c = d
    BY <1>3, <2>1, <2>3 DEF Owed
  <2> QED
    BY <2>2, <2>3 DEF Owed, Genuine, Key, tag_kind, tag_index
<1>9. ASSUME Checking', NEW c \in Live', Genuine(c), c[1][1] = "check"
      PROVE  c[1][2] = Gen'
  BY <1>2, <1>3, <1>4, <1>9 DEF OwedInv
<1> QED
  BY <1>5, <1>8, <1>9 DEF OwedInv, Genuine

\* A submission of one request of each kind wanted for each slot, where nothing
\* was owed before, owes just these.
LEMMA FreshOwed ==
    ASSUME Submit, NEW res, NEW K, DOMAIN res = K \X Slots, K \X Slots \subseteq DOMAIN Want',
           \A c \in Unread : ~Genuine(c),
           \A c \in posting' : c \in posting
              \/ \E k \in K, g \in Slots : c = <<make_tag(k, g), res[<<k, g>>]>>
    PROVE  Owed'
<1>1. /\ UNCHANGED <<run, round, cycle, cq>> /\ pc' = "sleep"
      /\ Live' = posting' \cup DOMAIN cq /\ InHand' = {}
  BY SubmitIs, SubmitLive
<1>2. Gen' = Gen
  BY <1>1 DEF Gen
<1>3. ASSUME NEW c \in Live', Genuine(c)
      PROVE  c \notin DOMAIN cq
             /\ \E k \in K, g \in Slots : c = <<make_tag(k, g), res[<<k, g>>]>>
  BY <1>1, <1>3 DEF Unread
<1>4. ASSUME NEW c \in Live', Genuine(c)
      PROVE  /\ pc' \in Awaiting /\ c[1][2] = Gen' /\ Key(c) \in DOMAIN Want'
             /\ ~(c \in posting' /\ c \in DOMAIN cq') /\ ~(c \in Unread' /\ c \in InHand')
  <2>1. PICK k \in K, g \in Slots : c = <<make_tag(k, g), res[<<k, g>>]>>
    BY <1>3, <1>4
  <2>2. c[1][2] = Gen /\ Key(c) = <<k, g>>
    BY <2>1, TagParts
  <2>3. <<k, g>> \in DOMAIN Want'
    OBVIOUS
  <2>4. c \notin DOMAIN cq' /\ c \notin InHand'
    BY <1>1, <1>3, <1>4
  <2>5. pc' \in Awaiting
    BY <1>1 DEF Awaiting
  <2> QED
    BY <1>2, <2>2, <2>3, <2>4, <2>5
<1>5. ASSUME NEW c \in Live', NEW d \in Live', Genuine(c), Genuine(d), c[1] = d[1]
      PROVE  c = d
  <2>1. PICK k \in K, g \in Slots : c = <<make_tag(k, g), res[<<k, g>>]>>
    BY <1>3, <1>5
  <2>2. PICK l \in K, h \in Slots : d = <<make_tag(l, h), res[<<l, h>>]>>
    BY <1>3, <1>5
  <2>3. k = l /\ g = h
    BY <1>5, <2>1, <2>2, TagIs
  <2> QED
    BY <2>1, <2>2, <2>3
<1> QED
  BY <1>4, <1>5 DEF Owed, Genuine, Key, tag_kind, tag_index

LEMMA SubmitOwed ==
    ASSUME PlaceInv, ShapeInv, OwedInv, WaiterInv, Submit
    PROVE  /\ OwedInv'
           /\ Checking' /\ AllZero' => \A w \in waiters, g \in Slots : w[2] # Word(g, 0)
<1>1. /\ UNCHANGED <<run, round, cycle, cq>> /\ pc \in {"cycle", "second", "check"}
      /\ pc' = "sleep" /\ stage' = (IF SubmitChecks THEN "check" ELSE "pair")
  BY SubmitIs
<1>2. Live' = posting' \cup DOMAIN cq /\ Live = Unread /\ InHand' = {}
  BY SubmitLive
<1>3. pc \notin Awaiting /\ Sane
  BY <1>1 DEF Awaiting, Dead, Sane, Checking
<1>4. \A c \in Unread : ~Genuine(c)
  BY <1>2, <1>3 DEF OwedInv, Owed
<1>5. /\ Gen' = Gen /\ Slots' = Slots /\ \A kind, g : make_tag(kind, g)' = make_tag(kind, g)
      /\ profile' = profile /\ PairWant' = PairWant /\ SingleKind' = SingleKind
      /\ \A kind, r : SingleWant(kind, r)' = SingleWant(kind, r)
  BY <1>1, RunSame DEF Gen, make_tag
<1>6. CASE SubmitWakes
  <2>1. profile # "c0_wait_cancel" /\ profile \notin Singles /\ ~SubmitChecks
    BY <1>6 DEF SubmitWakes, SubmitChecks, PlaceInv
  <2>2. stage' = "pair"
    BY <1>1, <2>1
  <2>3. DOMAIN Want' = {"wait", "wake"} \X Slots
    BY <1>5, <2>1, <2>2, PairWantIs DEF Want
  <2> DEFINE res == [k \in {"wait", "wake"} \X Slots |->
                IF k[1] = "wait" THEN Word(k[2], WAITV_WAKE_INDEX)[2]
                ELSE IF \E w \in waiters : w[2] = Word(k[2], WAITV_WAKE_INDEX) THEN 1 ELSE 0]
  <2>4. \A c \in posting' : c \in posting
          \/ \E k \in {"wait", "wake"}, g \in Slots : c = <<make_tag(k, g), res[<<k, g>>]>>
    <3>1. \A g \in Slots :
             /\ res[<<"wait", g>>] = Word(g, WAITV_WAKE_INDEX)[2]
             /\ res[<<"wake", g>>]
                  = IF \E w \in waiters : w[2] = Word(g, WAITV_WAKE_INDEX) THEN 1 ELSE 0
      OBVIOUS
    <3> HIDE DEF res
    <3> QED
      BY <1>6, <3>1, WakesAre
  <2>5. DOMAIN res = {"wait", "wake"} \X Slots
    OBVIOUS
  <2> HIDE DEF res
  <2>6. Owed'
    BY <1>4, <2>3, <2>4, <2>5, FreshOwed
  <2> QED
    BY <2>2, <2>6 DEF OwedInv, Checking
<1>7. CASE SubmitCancels
  <2>1. profile = "c0_wait_cancel" /\ profile \notin Singles /\ ~SubmitChecks
    BY <1>7 DEF SubmitCancels, SubmitChecks, PlaceInv
  <2>2. stage' = "pair"
    BY <1>1, <2>1
  <2>3. DOMAIN Want' = {"wait", "cancel"} \X Slots
    BY <1>5, <2>1, <2>2, PairWantIs DEF Want
  <2> DEFINE res == [k \in {"wait", "cancel"} \X Slots |->
                IF k[1] = "wait" THEN ECANCELED
                ELSE IF \E w \in waiters : w[1] = make_tag("wait", k[2]) THEN 1 ELSE ENOENT]
  <2>4. \A c \in posting' : c \in posting
          \/ \E k \in {"wait", "cancel"}, g \in Slots : c = <<make_tag(k, g), res[<<k, g>>]>>
    <3>1. \A g \in Slots :
             /\ res[<<"wait", g>>] = ECANCELED
             /\ res[<<"cancel", g>>]
                  = IF \E w \in waiters : w[1] = make_tag("wait", g) THEN 1 ELSE ENOENT
      OBVIOUS
    <3> HIDE DEF res
    <3> QED
      BY <1>7, <3>1, CancelsAre
  <2>5. DOMAIN res = {"wait", "cancel"} \X Slots
    OBVIOUS
  <2> HIDE DEF res
  <2>6. Owed'
    BY <1>4, <2>3, <2>4, <2>5, FreshOwed
  <2> QED
    BY <2>2, <2>6 DEF OwedInv, Checking
<1>8. CASE SubmitSingles
  <2>1. profile \in Singles /\ ~SubmitChecks
    BY <1>8 DEF SubmitSingles, SubmitChecks, Singles
  <2>2. stage' = "pair"
    BY <1>1, <2>1
  <2> DEFINE kind == SingleKind[1]
             res == [k \in {kind} \X Slots |-> SingleKind[2]]
  <2>3. DOMAIN Want' = {kind} \X Slots
    BY <1>5, <2>1, <2>2 DEF Want, SingleWant
  <2>4. \A c \in posting' : c \in posting
          \/ \E k \in {kind}, g \in Slots : c = <<make_tag(k, g), res[<<k, g>>]>>
    <3>1. \A g \in Slots : res[<<kind, g>>] = SingleKind[2]
      OBVIOUS
    <3>2. \A c \in posting' : c \in posting \/ \E g \in Slots :
              c = <<make_tag(kind, g), SingleKind[2]>>
      BY <1>8, SinglesAre
    <3> HIDE DEF res, kind
    <3> QED
      BY <3>1, <3>2
  <2>5. DOMAIN res = {kind} \X Slots
    OBVIOUS
  <2> HIDE DEF res, kind
  <2>6. Owed'
    BY <1>4, <2>3, <2>4, <2>5, FreshOwed
  <2> QED
    BY <2>2, <2>6 DEF OwedInv, Checking
<1>9. CASE SubmitChecks
  <2>1. stage' = "check"
    BY <1>1, <1>9
  <2>2. DOMAIN Want' = {"check"} \X Slots
    BY <1>5, <2>1 DEF Want, SingleWant
  <2>3. ASSUME NEW c \in posting'
        PROVE  \/ c \in posting
               \/ \E g \in Slots, w \in waiters : w[2] = Word(g, 0) /\ c = <<w[1], w[2][2]>>
               \/ \E g \in Slots : c = <<make_tag("check", g),
                     IF \E w \in waiters : w[2] = Word(g, 0) THEN 1 ELSE 0>>
    BY <1>9, ChecksAre
  <2>4. \A w \in waiters : w[1][1] = "wait"
    BY DEF ShapeInv, Waiter
  <2>5. ASSUME NEW c \in Live', Genuine(c), c[1][1] = "check"
        PROVE  \E g \in Slots : c = <<make_tag("check", g),
                     IF \E w \in waiters : w[2] = Word(g, 0) THEN 1 ELSE 0>>
    <3>1. c \in posting' /\ c \notin posting
      BY <1>2, <1>4, <2>5 DEF Unread
    <3> QED
      BY <2>3, <2>4, <2>5, <3>1
  <2>6. ASSUME NEW c \in Live', Genuine(c), c[1][1] = "check"
        PROVE  c[1][2] = Gen'
    BY <1>5, <2>5, <2>6, TagIs
  <2>7. ASSUME AllZero', NEW g \in Slots, NEW w \in waiters, w[2] = Word(g, 0)
        PROVE  FALSE
    <3> DEFINE z == <<make_tag("check", g), 0>>
    <3>1. z \in Live'
      BY <1>5, <2>7 DEF AllZero
    <3>2. Genuine(z) /\ z[1][1] = "check"
      BY TagIs DEF Genuine, EINTR, EOTHER
    <3>3. PICK h \in Slots : z = <<make_tag("check", h),
                     IF \E v \in waiters : v[2] = Word(h, 0) THEN 1 ELSE 0>>
      BY <2>5, <3>1, <3>2
    <3>4. h = g
      BY <3>3, TagIs
    <3> QED
      BY <2>7, <3>3, <3>4
  <2>8. ASSUME AllZero' PROVE Owed'
    <3> DEFINE res == [k \in {"check"} \X Slots |-> 0]
    <3>1. \A c \in posting' : c \in posting
            \/ \E k \in {"check"}, g \in Slots : c = <<make_tag(k, g), res[<<k, g>>]>>
      <4>1. \A g \in Slots : res[<<"check", g>>] = 0
        OBVIOUS
      <4> HIDE DEF res
      <4> QED
        BY <2>3, <2>7, <2>8, <4>1
    <3>2. DOMAIN res = {"check"} \X Slots
      OBVIOUS
    <3> HIDE DEF res
    <3> QED
      BY <1>4, <2>2, <3>1, <3>2, FreshOwed
  <2>9. Checking' /\ Sane' => AllZero'
    BY DEF Sane
  <2>10. Checking'
    BY <1>1, <2>1 DEF Checking, Awaiting
  <2> QED
    BY <2>6, <2>7, <2>8, <2>9, <2>10 DEF OwedInv, Genuine
<1> QED
  BY <1>6, <1>7, <1>8, <1>9 DEF Submit, Checking

LEMMA ValidateOwed ==
    ASSUME PlaceInv, ShapeInv, OwedInv, Validate
    PROVE  OwedInv'
<1>1. /\ posting' = posting /\ cq' = cq /\ pc = "validate"
      /\ pc' = "failed" \/ (Exactly(Want) /\ pc' \in {"check", "close", "judge", "cycle"})
  BY ValidateOutcome
<1>2. CASE pc' = "failed"
  BY <1>2 DEF OwedInv, Sane, Checking, Awaiting, Dead
<1>3. CASE Exactly(Want) /\ pc' \in {"check", "close", "judge", "cycle"}
  <2>1. \A c \in Unread : ~Genuine(c)
    BY <1>1, <1>3, PassingAll
  <2>2. Live' = Unread
    BY <1>1, <1>3 DEF Live, Unread, InHand
  <2>3. Owed'
    BY <2>1, <2>2, NothingOwed
  <2>4. ~Checking'
    BY <1>3 DEF Checking, Awaiting
  <2> QED
    BY <2>3, <2>4 DEF OwedInv
<1> QED
  BY <1>1, <1>2, <1>3

LEMMA OwedInit == Init => OwedInv
BY NoBag DEF Init, OwedInv, Owed, Live, Unread, InHand, Checking, Awaiting

LEMMA OwedKept ==
    PlaceInv /\ ShapeInv /\ OwedInv /\ WaiterInv /\ [Next]_vars => OwedInv'
<1> SUFFICES ASSUME PlaceInv, ShapeInv, OwedInv, WaiterInv, [Next]_vars PROVE OwedInv'
  OBVIOUS
<1>1. CASE Submit
  BY <1>1, SubmitOwed
<1>2. CASE Validate
  BY <1>2, ValidateOwed
<1>3. CASE ~Submit /\ ~Validate /\ pc \notin Awaiting \cup Dead /\ pc' \notin Awaiting \cup Dead
  <2>1. Owed
    BY <1>3 DEF OwedInv, Sane, Checking
  <2>2. \A c \in Live : ~Genuine(c)
    BY <1>3, <2>1 DEF Owed
  <2>3. \A c \in Live' : ~Genuine(c)
    BY <1>3, <2>2, QuietLive
  <2> QED
    BY <1>3, <2>3, NothingOwed DEF OwedInv, Checking
<1>4. CASE /\ ~Submit /\ ~Validate /\ pc \in Awaiting /\ pc' \in Awaiting
           /\ UNCHANGED <<stage, round, cycle>>
  BY <1>4, AwaitingOwed
<1>5. CASE pc' \in Dead
  BY <1>5 DEF OwedInv, Sane, Checking, Awaiting, Dead
<1> QED
  BY <1>1, <1>2, <1>3, <1>4, <1>5, StaysPut

-----------------------------------------------------------------------------
(* Waiters                                                                 *)

Resting == {"gate", "cycle"} \cup Between

LEMMA Moves ==
    ASSUME [Next]_vars, ~Submit
    PROVE  /\ pc' = "second" => SubmitWaits \/ (pc = "second" /\ UNCHANGED <<round, cycle>>)
           /\ pc = "second" => pc' \in {"second"} \cup Dead
           /\ pc \in Dead => pc' \in Dead
           /\ pc' \in Resting => Validate \/ pc \in Resting
           /\ SubmitWaits => pc = "cycle" /\ pc' = "second" /\ UNCHANGED <<round, cycle>>
<1>1. CASE Quiet \/ Empties \/ Copy
  BY <1>1
  DEF Quiet, CapabilityGate, SubmitWaits, SubmitFails, SleepReturns, WaitAgain,
      ResleepReturns, Judge, write_result, NextRound, Empties, Discard, Close, Exit, Copy,
      ctlVars, Resting, Between, Dead
<1>2. CASE Validate
  BY <1>2
  DEF Validate, ValidatePairs, ValidateSingles, ValidateVectors, ValidateChecks, Validating,
      EndCycle, SubmitWaits, Dead
<1>3. CASE Signal \/ (\E c \in posting : KernelPost(c)) \/ KernelFault \/ UNCHANGED vars
  <2>1. UNCHANGED <<pc, stage, round, cycle>>
    BY <1>3 DEF Signal, KernelPost, KernelFault, vars, ctlVars
  <2>2. ~SubmitWaits
    BY <2>1 DEF SubmitWaits
  <2> QED
    BY <2>1, <2>2
<1> QED
  BY <1>1, <1>2, <1>3, Steps

\* A vector has a word 0 of its own; a scalar slot has but one word.
LEMMA WaiterWord ==
    ASSUME ShapeInv, NEW w \in waiters
    PROVE  /\ profile = Vector /\ w[2][2] = 0 => \E g \in Slots : w[2] = Word(g, 0)
           /\ profile # Vector => \E g \in Slots : w[2] = Word(g, WAITV_WAKE_INDEX)
<1>1. PICK g \in Slots, i \in 0..WAITV_WIDTH-1 : w[2] = Word(g, i)
  BY DEF ShapeInv, Waiter
<1>2. CASE profile = Vector
  <2>1. Word(g, i)[2] = i
    BY <1>2, WordIs
  <2> QED
    BY <1>1, <1>2, <2>1
<1>3. CASE profile # Vector
  <2>1. Word(g, i) = Word(g, WAITV_WAKE_INDEX)
    BY <1>3, WordIs
  <2> QED
    BY <1>1, <1>3, <2>1
<1> QED
  BY <1>2, <1>3

LEMMA WaiterInit == Init => WaiterInv
BY DEF Init, WaiterInv

\* A wake leaves nobody on the word it wakes.
LEMMA WokenGone ==
    ASSUME ShapeInv, WaiterInv, SubmitWakes \/ SubmitCancels
    PROVE  \A w \in waiters', g \in Slots : w[2] # Word(g, WAITV_WAKE_INDEX)
<1> SUFFICES ASSUME NEW w \in waiters', NEW g \in Slots, w[2] = Word(g, WAITV_WAKE_INDEX)
             PROVE  FALSE
  OBVIOUS
<1>1. pc = "second" /\ waiters' \subseteq waiters
  BY SubmitIs DEF Submit, SubmitWakes, SubmitCancels
<1>2. \A v \in waiters : v[2] = Word(g, WAITV_WAKE_INDEX) =>
         v = <<make_tag("wait", g), Word(g, WAITV_WAKE_INDEX)>>
  BY <1>1 DEF WaiterInv, ShapeInv, Waiter
<1>3. CASE SubmitWakes
  <2> DEFINE word == [h \in Slots |-> Word(h, WAITV_WAKE_INDEX)]
  <2>1. WakeAll(word, Own("wake"))
    BY <1>3 DEF SubmitWakes
  <2>2. word[g] = Word(g, WAITV_WAKE_INDEX)
    OBVIOUS
  <2> HIDE DEF word
  <2>3. \E v \in waiters : v[2] = word[g] /\ v \notin waiters'
    BY <1>1, <2>1, <2>2, WakeAllIs
  <2> QED
    BY <1>1, <1>2, <2>2, <2>3
<1>4. CASE SubmitCancels
  <2>1. w[1] # make_tag("wait", g)
    BY <1>4 DEF SubmitCancels
  <2> QED
    BY <1>1, <1>2, <2>1
<1> QED
  BY <1>3, <1>4

LEMMA WaiterKept ==
    PlaceInv /\ ShapeInv /\ OwedInv /\ WaiterInv /\ [Next]_vars => WaiterInv'
<1> SUFFICES ASSUME PlaceInv, ShapeInv, OwedInv, WaiterInv, [Next]_vars PROVE WaiterInv'
  OBVIOUS
<1>1. run' = run
  BY RunStays
<1>2. Slots' = Slots /\ (\A g, i : Word(g, i)' = Word(g, i)) /\ profile' = profile
  BY <1>1, RunSame
<1>3. SubmitWaits \/ waiters' \subseteq waiters
  BY WaitersShrink
<1>4. ASSUME pc' = "second", NEW w \in waiters', NEW g \in Slots,
             w[2] = Word(g, WAITV_WAKE_INDEX)
      PROVE  w[1] = make_tag("wait", g)'
  <2>1. ~Submit
    BY <1>4, SubmitIs
  <2>2. make_tag("wait", g)' = make_tag("wait", g)
    BY <1>4, <2>1, Moves DEF make_tag
  <2>3. CASE SubmitWaits
    <3>1. pc = "cycle"
      BY <2>3 DEF SubmitWaits
    <3>2. w \notin waiters
      BY <1>4, <3>1 DEF WaiterInv, Dead
    <3>3. PICK h \in Slots :
             w \in {make_tag("wait", h)} \X
                      (IF profile = "v0_waitv_wake" THEN Words(h) ELSE {Word(h, 0)})
      BY <2>3, <3>2 DEF SubmitWaits
    <3>4. w[1] = make_tag("wait", h) /\ w[2][1] = h
      BY <3>3 DEF Words, Word
    <3>5. h = g
      BY <1>4, <3>4 DEF Word
    <3> QED
      BY <2>2, <3>4, <3>5
  <2>4. CASE ~SubmitWaits
    <3>1. pc = "second" /\ w \in waiters
      BY <1>3, <1>4, <2>1, <2>4, Moves
    <3> QED
      BY <1>4, <2>2, <3>1 DEF WaiterInv
  <2> QED
    BY <2>3, <2>4
<1>5. ASSUME pc' \notin {"second"} \cup Dead, NEW w \in waiters', NEW g \in Slots
      PROVE  w[2] # Word(g, WAITV_WAKE_INDEX)
  <2>1. CASE SubmitWakes \/ SubmitCancels
    BY <2>1, WokenGone
  <2>2. CASE ~(SubmitWakes \/ SubmitCancels)
    <3>1. pc \notin {"second"} \cup Dead
      <4>1. CASE Submit
        BY <2>2, <4>1 DEF Submit, SubmitChecks, SubmitSingles, Dead
      <4>2. CASE ~Submit
        BY <1>5, <4>2, Moves
      <4> QED
        BY <4>1, <4>2
    <3>2. ~SubmitWaits
      BY <1>5 DEF SubmitWaits
    <3> QED
      BY <1>3, <3>1, <3>2 DEF WaiterInv
  <2> QED
    BY <2>1, <2>2
<1>6. ASSUME pc' \in Resting \/ (Checking' /\ AllZero'), NEW w \in waiters'
      PROVE  w[2][2] # 0
  <2>1. ~SubmitWaits /\ w \in waiters
    <3>1. ~SubmitWaits
      BY <1>6 DEF SubmitWaits, Resting, Between, Checking, Awaiting
    <3> QED
      BY <1>3, <3>1
  <2>2. CASE Submit
    <3>1. pc' = "sleep"
      BY <2>2, SubmitIs
    <3>2. Checking' /\ AllZero'
      BY <1>6, <3>1 DEF Resting, Between
    <3>3. \A g \in Slots : w[2] # Word(g, 0)
      BY <2>1, <2>2, <3>2, SubmitOwed
    <3>4. SubmitChecks
      BY <2>2, <3>2, SubmitIs DEF Checking
    <3>5. profile = Vector
      BY <3>4 DEF SubmitChecks, PlaceInv
    <3> QED
      BY <2>1, <3>3, <3>5, WaiterWord
  <2>3. CASE Validate
    <3>1. pc' # "failed" /\ ~Checking'
      BY <1>6, <2>3, ValidateOutcome DEF Resting, Between, Checking, Awaiting
    <3>2. /\ pc = "validate" /\ Exactly(Want) /\ pc' \in Resting
          /\ stage = "check" \/ profile # Vector
      BY <1>6, <2>3, <3>1, ValidateOutcome DEF Resting, Between
    <3>3. CASE stage = "check"
      <4>1. Checking /\ AllZero
        BY <3>2, <3>3, PassingSane DEF Checking, Awaiting, Sane
      <4> QED
        BY <2>1, <4>1 DEF WaiterInv
    <3>4. CASE profile # Vector
      <4>1. \E g \in Slots : w[2] = Word(g, WAITV_WAKE_INDEX)
        BY <2>1, <3>4, WaiterWord
      <4> QED
        BY <2>1, <3>2, <4>1 DEF WaiterInv, Dead
    <3> QED
      BY <3>2, <3>3, <3>4
  <2>4. CASE ~Submit /\ ~Validate /\ pc' \in Resting
    <3>1. pc \in Resting
      BY <2>4, Moves
    <3> QED
      BY <2>1, <3>1 DEF WaiterInv, Resting
  <2>5. CASE ~Submit /\ ~Validate /\ pc' \notin Resting
    <3>1. Checking' /\ AllZero' /\ pc' \in Awaiting
      BY <1>6, <2>5 DEF Checking
    <3>2. pc \in Awaiting /\ UNCHANGED <<stage, round, cycle>>
      BY <2>5, <3>1, StaysPut DEF Awaiting, Dead
    <3>3. Checking /\ AllZero
      BY <2>5, <3>1, <3>2, AwaitingOwed
    <3> QED
      BY <2>1, <3>3 DEF WaiterInv
  <2> QED
    BY <2>2, <2>3, <2>4, <2>5
<1> QED
  BY <1>2, <1>4, <1>5, <1>6 DEF WaiterInv, Resting, Between

-----------------------------------------------------------------------------
(* What was reaped                                                         *)

LEMMA PartSame ==
    run' = run /\ round' = round =>
        \A c : PairPart(c)' = PairPart(c) /\ CheckPart(c)' = CheckPart(c)
<1> SUFFICES ASSUME run' = run, round' = round
             PROVE  \A c : PairPart(c)' = PairPart(c) /\ CheckPart(c)' = CheckPart(c)
  OBVIOUS
<1>1. /\ profile' = profile /\ PairWant' = PairWant /\ SingleKind' = SingleKind
      /\ \A kind, res : SingleWant(kind, res)' = SingleWant(kind, res)
  BY RunSame
<1> QED
  BY <1>1 DEF PairPart, CheckPart, Part

LEMMA DoneSame ==
    ASSUME UNCHANGED <<run, round, cycle>>,
           (pc = "check" \/ Checking) <=> (pc' = "check" \/ Checking')
    PROVE  Done' = Done
BY PartSame DEF Done

LEMMA Reaped ==
    ASSUME ReapInv, UNCHANGED <<run, round, cycle, reaped, copy>>, pc \notin Dead,
           pc = "validate" <=> pc' = "validate",
           (pc = "check" \/ Checking) <=> (pc' = "check" \/ Checking')
    PROVE  ReapInv'
BY DoneSame DEF ReapInv

\* A batch that passes is the part of its cycle that it was meant to be.
LEMMA PassingBatch ==
    ASSUME ShapeInv, OwedInv, pc = "validate", Exactly(Want)
    PROVE  copy = SetToBag(Part(Want, cycle))
<1>1. Owed
  BY PassingSane DEF OwedInv
<1>2. ASSUME NEW c \in DOMAIN copy
      PROVE  c = << <<Key(c)[1], Gen, Key(c)[2]>>, Want[Key(c)] >> /\ Key(c) \in DOMAIN Want
  <2>1. c \in Live /\ Completion(c)
    BY DEF Live, InHand, ShapeInv
  <2>2. Genuine(c) /\ Key(c) \in DOMAIN Want /\ c[2] = Want[Key(c)]
    BY PassingGenuine
  <2>3. c[1][2] = Gen
    BY <1>1, <2>1, <2>2 DEF Owed
  <2>4. Key(c)[1] = c[1][1] /\ Key(c)[2] = c[1][3]
    BY DEF Key, tag_kind, tag_index
  <2> QED
    BY <2>1, <2>2, <2>3, <2>4 DEF Completion
<1>3. Part(Want, cycle) = {<< <<k[1], Gen, k[2]>>, Want[k] >> : k \in DOMAIN Want}
  BY DEF Part, Gen
<1>4. DOMAIN copy \subseteq Part(Want, cycle)
  BY <1>2, <1>3
<1>5. ASSUME NEW k \in DOMAIN Want PROVE << <<k[1], Gen, k[2]>>, Want[k] >> \in DOMAIN copy
  <2>1. PICK c \in DOMAIN copy : Key(c) = k
    BY PassingGenuine
  <2> QED
    BY <1>2, <2>1
<1>6. DOMAIN copy = Part(Want, cycle)
  BY <1>3, <1>4, <1>5
<1>7. \A c \in DOMAIN copy : copy[c] = 1
  BY PassingGenuine
<1>8. copy = [c \in DOMAIN copy |-> copy[c]]
  BY DEF ShapeInv, IsBag
<1> QED
  BY <1>6, <1>7, <1>8 DEF SetToBag

LEMMA TwoSets ==
    ASSUME NEW A, NEW B, A \cap B = {}
    PROVE  SetToBag(A) (+) SetToBag(B) = SetToBag(A \cup B)
BY DEF SetToBag, (+)

\* The completions of two cycles differ.
LEMMA PartGen ==
    ASSUME NEW want, NEW c, NEW x \in Part(want, c)
    PROVE  x[1][2] = round * CYCLES + c /\ \E k \in DOMAIN want : x[1][1] = k[1]
BY DEF Part

LEMMA PairPartGen ==
    ASSUME NEW c, NEW x \in PairPart(c)
    PROVE  x[1][2] = round * CYCLES + c /\ (profile = Vector => x[1][1] \in {"wait", "wake"})
<1>1. x[1][2] = round * CYCLES + c
  BY PartGen DEF PairPart
<1>2. ASSUME profile = Vector PROVE x[1][1] \in {"wait", "wake"}
  <2>1. x \in Part(PairWant, c)
    BY <1>2 DEF PairPart, Vector, Singles
  <2>2. \E k \in DOMAIN PairWant : x[1][1] = k[1]
    BY <2>1, PartGen
  <2>3. DOMAIN PairWant = {"wait", "wake"} \X Slots
    BY <1>2, PairWantIs DEF Vector
  <2> QED
    BY <2>2, <2>3
<1> QED
  BY <1>1, <1>2

LEMMA CheckPartGen ==
    ASSUME NEW c, NEW x \in CheckPart(c)
    PROVE  x[1][2] = round * CYCLES + c /\ x[1][1] = "check"
<1>1. x \in Part(SingleWant("check", 0), c)
  BY DEF CheckPart
<1>2. DOMAIN SingleWant("check", 0) = {"check"} \X Slots
  BY DEF SingleWant
<1>3. \E k \in {"check"} \X Slots : x[1][1] = k[1]
  BY <1>1, <1>2, PartGen
<1> QED
  BY <1>1, <1>3, PartGen

Earlier == UNION {PairPart(c) \cup CheckPart(c) : c \in 0..cycle-1}

LEMMA EarlierApart ==
    ASSUME PlaceInv
    PROVE  Earlier \cap (PairPart(cycle) \cup CheckPart(cycle)) = {}
<1> SUFFICES ASSUME NEW x \in Earlier, x \in PairPart(cycle) \cup CheckPart(cycle)
             PROVE  FALSE
  OBVIOUS
<1>1. PICK c \in 0..cycle-1 : x \in PairPart(c) \cup CheckPart(c)
  BY DEF Earlier
<1>2. x[1][2] = round * CYCLES + c
  BY <1>1, PairPartGen, CheckPartGen
<1>3. x[1][2] = round * CYCLES + cycle
  BY PairPartGen, CheckPartGen
<1>4. round * CYCLES \in Nat /\ cycle \in Nat
  BY Sizes DEF PlaceInv
<1> DEFINE base == round * CYCLES
<1>5. base + c = base + cycle /\ base \in Nat
  BY <1>2, <1>3, <1>4
<1> HIDE DEF base
<1>6. c < cycle /\ c \in Nat
  BY <1>1, <1>4
<1> QED
  BY <1>4, <1>5, <1>6

LEMMA PairCheckApart == PairPart(cycle) \cap CheckPart(cycle) = {}
<1> SUFFICES ASSUME NEW x \in PairPart(cycle), x \in CheckPart(cycle) PROVE FALSE
  OBVIOUS
<1>1. profile = Vector
  BY DEF CheckPart
<1> QED
  BY <1>1, PairPartGen, CheckPartGen

LEMMA ValidateReaped ==
    ASSUME PlaceInv, ShapeInv, OwedInv, ReapInv, Validate
    PROVE  ReapInv'
<1>1. /\ UNCHANGED <<run, stage, round, reaped>>
      /\ pc = "validate" /\ cycle \in Nat
      /\ \/ pc' = "failed"
         \/ /\ Exactly(Want) /\ pc' = "check" /\ cycle' = cycle
            /\ profile = Vector /\ stage = "pair"
         \/ /\ Exactly(Want) /\ pc' \in {"close", "judge", "cycle"} /\ cycle' = cycle + 1
            /\ stage = "check" \/ profile # Vector
  BY ValidateOutcome DEF PlaceInv
<1>2. \A c : PairPart(c)' = PairPart(c) /\ CheckPart(c)' = CheckPart(c)
  BY <1>1, PartSame
<1>3. reaped = SetToBag(Done) (+) copy
  BY <1>1 DEF ReapInv, Dead
<1>4. CASE pc' = "failed"
  BY <1>4 DEF ReapInv, Dead
<1>5. CASE /\ Exactly(Want) /\ pc' = "check" /\ cycle' = cycle
           /\ profile = Vector /\ stage = "pair"
  <2>1. Done = Earlier
    BY <1>1, <1>5 DEF Done, Earlier, Checking
  <2>2. Part(Want, cycle) = PairPart(cycle)
    BY <1>5 DEF Want, PairPart, Vector, Singles
  <2>3. Done' = Earlier \cup PairPart(cycle)
    BY <1>2, <1>5 DEF Done, Earlier
  <2>4. Earlier \cap PairPart(cycle) = {}
    BY EarlierApart
  <2>5. reaped = SetToBag(Done')
    BY <1>1, <1>3, <1>5, <2>1, <2>2, <2>3, <2>4, PassingBatch, TwoSets
  <2> QED
    BY <1>1, <1>5, <2>5 DEF ReapInv
<1>6. CASE /\ Exactly(Want) /\ pc' \in {"close", "judge", "cycle"} /\ cycle' = cycle + 1
           /\ stage = "check" \/ profile # Vector
  <2>1. Done' = Earlier \cup PairPart(cycle) \cup CheckPart(cycle)
    <3>1. pc' # "check" /\ ~Checking'
      BY <1>6 DEF Checking, Awaiting
    <3>2. Done' = UNION {PairPart(c) \cup CheckPart(c) : c \in 0..cycle'-1}
      BY <1>2, <3>1 DEF Done
    <3>3. 0..cycle'-1 = (0..cycle-1) \cup {cycle}
      BY <1>1, <1>6
    <3> QED
      BY <3>2, <3>3 DEF Earlier
  <2>2. Done \cap Part(Want, cycle) = {}
        /\ Done \cup Part(Want, cycle) = Earlier \cup PairPart(cycle) \cup CheckPart(cycle)
    <3>1. CASE stage = "check"
      <4>1. profile = Vector /\ Checking
        BY <1>1, <3>1 DEF PlaceInv, Awaiting, Checking
      <4>2. Done = Earlier \cup PairPart(cycle)
        BY <4>1 DEF Done, Earlier
      <4>3. Part(Want, cycle) = CheckPart(cycle)
        BY <3>1, <4>1 DEF Want, CheckPart
      <4> QED
        BY <4>2, <4>3, EarlierApart, PairCheckApart
    <3>2. CASE stage # "check"
      <4>1. profile # Vector /\ ~Checking /\ pc # "check"
        BY <1>1, <1>6, <3>2 DEF Checking
      <4>2. Done = Earlier
        BY <4>1 DEF Done, Earlier
      <4>3. Part(Want, cycle) = PairPart(cycle) /\ CheckPart(cycle) = {}
        BY <3>2, <4>1 DEF Want, CheckPart, PairPart
      <4> QED
        BY <4>2, <4>3, EarlierApart
    <3> QED
      BY <3>1, <3>2
  <2>3. SetToBag(Done) (+) SetToBag(Part(Want, cycle)) = SetToBag(Done \cup Part(Want, cycle))
    BY <2>2, TwoSets
  <2>4. copy = SetToBag(Part(Want, cycle))
    BY <1>1, <1>6, PassingBatch
  <2>5. reaped = SetToBag(Done')
    BY <1>3, <2>1, <2>2, <2>3, <2>4
  <2> QED
    BY <1>1, <1>6, <2>5 DEF ReapInv
<1> QED
  BY <1>1, <1>4, <1>5, <1>6

LEMMA ReapInit == Init => ReapInv
<1> SUFFICES ASSUME Init PROVE ReapInv
  OBVIOUS
<1>1. pc = "gate" /\ cycle = 0 /\ reaped = EmptyBag
  BY DEF Init
<1>2. Done = {}
  BY <1>1 DEF Done, Checking, Awaiting
<1> QED
  BY <1>1, <1>2 DEF ReapInv, EmptyBag

LEMMA ReapKept ==
    PlaceInv /\ ShapeInv /\ OwedInv /\ ReapInv /\ [Next]_vars => ReapInv'
<1> SUFFICES ASSUME PlaceInv, ShapeInv, OwedInv, ReapInv, [Next]_vars PROVE ReapInv'
  OBVIOUS
<1>1. run' = run
  BY RunStays
<1>2. CASE Submit
  <2>1. /\ UNCHANGED <<round, cycle, reaped, copy>> /\ pc \in {"cycle", "second", "check"}
        /\ pc' = "sleep" /\ stage' = IF SubmitChecks THEN "check" ELSE "pair"
        /\ SubmitChecks <=> pc = "check"
    BY <1>2, SubmitIs
  <2>2. (pc = "check" \/ Checking) <=> (pc' = "check" \/ Checking')
    BY <2>1 DEF Checking, Awaiting
  <2> QED
    BY <1>1, <2>1, <2>2, Reaped DEF Dead
<1>3. CASE Validate
  BY <1>3, ValidateReaped
<1>4. CASE pc' \in Dead
  BY <1>4 DEF ReapInv
<1>5. CASE Copy
  <2>1. /\ pc \in {"sample", "resample"} /\ pc' = "validate"
        /\ copy' = cq /\ reaped' = reaped (+) cq /\ UNCHANGED <<stage, round, cycle>>
    BY <1>5 DEF Copy, ctlVars
  <2>2. Done' = Done
    BY <1>1, <2>1, DoneSame DEF Checking, Awaiting
  <2> QED
    BY <2>1, <2>2 DEF ReapInv, Dead
<1>6. CASE NextRound
  <2>1. pc' = "cycle" /\ cycle' = 0 /\ reaped' = EmptyBag
    BY <1>6 DEF NextRound
  <2>2. Done' = {}
    BY <2>1 DEF Done, Checking, Awaiting
  <2> QED
    BY <2>1, <2>2 DEF ReapInv, EmptyBag
<1>7. CASE Quiet /\ ~NextRound /\ pc' \notin Dead
  <2>1. /\ UNCHANGED <<stage, round, cycle, reaped, copy>> /\ pc \notin Dead
        /\ pc # "validate" /\ pc' # "validate" /\ pc # "check" /\ pc' # "check"
        /\ pc \in Awaiting <=> pc' \in Awaiting
    BY <1>7
    DEF Quiet, CapabilityGate, SubmitWaits, SubmitFails, SleepReturns, WaitAgain,
        ResleepReturns, Judge, write_result, ctlVars, histVars, Awaiting, Dead
  <2>2. (pc = "check" \/ Checking) <=> (pc' = "check" \/ Checking')
    BY <2>1 DEF Checking
  <2> QED
    BY <1>1, <2>1, <2>2, Reaped
<1>8. CASE Empties /\ pc' \notin Dead
  <2>1. /\ UNCHANGED <<stage, round, cycle, reaped, copy>> /\ pc = "close" /\ pc' = "write"
    BY <1>8 DEF Empties, Discard, Close, Exit, ctlVars, histVars, Dead
  <2>2. (pc = "check" \/ Checking) <=> (pc' = "check" \/ Checking')
    BY <2>1 DEF Checking, Awaiting
  <2> QED
    BY <1>1, <2>1, <2>2, Reaped DEF Dead
<1>9. CASE /\ Signal \/ (\E c \in posting : KernelPost(c)) \/ KernelFault \/ UNCHANGED vars
           /\ pc' \notin Dead
  <2>1. UNCHANGED <<pc, stage, round, cycle, reaped, copy>>
    BY <1>9 DEF Signal, KernelPost, KernelFault, vars, ctlVars, histVars
  <2>2. (pc = "check" \/ Checking) <=> (pc' = "check" \/ Checking')
    BY <2>1 DEF Checking
  <2> QED
    BY <1>1, <1>9, <2>1, <2>2, Reaped
<1> QED
  BY <1>2, <1>3, <1>4, <1>5, <1>6, <1>7, <1>8, <1>9, Steps

-----------------------------------------------------------------------------
(* The theorems                                                            *)

LEMMA GateInit == Init => GateInv
BY DEF Init, GateInv

\* A passing round reaped what its cycles had to complete.
LEMMA WriteSound == PlaceInv /\ ReapInv => RowSound
<1> SUFFICES ASSUME PlaceInv, ReapInv, pc = "write" PROVE reaped = SetToBag(WantedOfRound)
  BY DEF RowSound
<1>1. cycle = cycles /\ profile \in SmokeProfiles
  BY ProfileIs DEF PlaceInv
<1>2. reaped = SetToBag(Done)
  BY DEF ReapInv, Dead
<1>3. Done = UNION {PairPart(c) \cup CheckPart(c) : c \in 0..cycles-1}
  BY <1>1 DEF Done, Checking, Awaiting
<1>4. \A want : Tagged(want) = UNION {Part(want, c) : c \in 0..cycles-1}
  BY DEF Tagged, Part
<1>5. CASE profile \in Scalars
  <2>1. WantedOfRound = Tagged(PairWant)
    BY <1>5 DEF WantedOfRound, Scalars
  <2>2. \A c : PairPart(c) = Part(PairWant, c) /\ CheckPart(c) = {}
    BY <1>5 DEF PairPart, CheckPart, Scalars, Singles, Vector
  <2>3. \A x : x \in Done <=> \E c \in 0..cycles-1 : x \in Part(PairWant, c)
    BY <1>3, <2>2
  <2>4. \A x : x \in Tagged(PairWant) <=> \E c \in 0..cycles-1 : x \in Part(PairWant, c)
    BY <1>4
  <2>5. Done = WantedOfRound
    BY <2>1, <2>3, <2>4
  <2> QED
    BY <1>2, <2>5
<1>6. CASE profile = Vector
  <2>1. WantedOfRound = Tagged(PairWant) \cup Tagged(SingleWant("check", 0))
    BY <1>6 DEF WantedOfRound, Vector
  <2>2. \A c : PairPart(c) = Part(PairWant, c) /\ CheckPart(c) = Part(SingleWant("check", 0), c)
    BY <1>6 DEF PairPart, CheckPart, Singles, Vector
  <2>3. \A x : x \in Done <=> \E c \in 0..cycles-1 :
                   x \in Part(PairWant, c) \/ x \in Part(SingleWant("check", 0), c)
    BY <1>3, <2>2
  <2>4. /\ \A x : x \in Tagged(PairWant) <=> \E c \in 0..cycles-1 : x \in Part(PairWant, c)
        /\ \A x : x \in Tagged(SingleWant("check", 0)) <=>
              \E c \in 0..cycles-1 : x \in Part(SingleWant("check", 0), c)
    BY <1>4
  <2>5. Done = WantedOfRound
    BY <2>1, <2>3, <2>4
  <2> QED
    BY <1>2, <2>5
<1>7. CASE profile \in Singles
  <2>1. WantedOfRound = Tagged(SingleWant(SingleKind[1], SingleKind[2]))
    BY <1>7 DEF WantedOfRound, Singles
  <2>2. \A c : /\ PairPart(c) = Part(SingleWant(SingleKind[1], SingleKind[2]), c)
               /\ CheckPart(c) = {}
    BY <1>7 DEF PairPart, CheckPart, Singles, Vector
  <2>3. \A x : x \in Done <=> \E c \in 0..cycles-1 : x \in Part(SingleWant(SingleKind[1], SingleKind[2]), c)
    BY <1>3, <2>2
  <2>4. \A x : x \in Tagged(SingleWant(SingleKind[1], SingleKind[2])) <=> \E c \in 0..cycles-1 : x \in Part(SingleWant(SingleKind[1], SingleKind[2]), c)
    BY <1>4
  <2>5. Done = WantedOfRound
    BY <2>1, <2>3, <2>4
  <2> QED
    BY <1>2, <2>5
<1> QED
  BY <1>1, <1>5, <1>6, <1>7 DEF SmokeProfiles, PointProfiles, Scalars, Vector, Singles

LEMMA StartInv == Init => IInv
BY PlaceInit, GateInit, ShapeInit, OwedInit, WaiterInit, ReapInit DEF IInv

LEMMA StepInv == IInv /\ [Next]_vars => IInv'
BY PlaceKept, GateKept, ShapeKept, OwedKept, WaiterKept, ReapKept DEF IInv

LEMMA Invariant == Spec => []IInv
BY StartInv, StepInv, PTL DEF Spec

\* RowSound: a row is written only for a round that reaped exactly its own
\* completions, right ones, each once, whatever else arrives in the meantime.
THEOREM RowsSound == Spec => []RowSound
<1>1. IInv => RowSound
  BY WriteSound DEF IInv
<1> QED
  BY <1>1, Invariant, PTL

\* FirstWordsClean: the check of a vector cycle leaves no waiter on the word that
\* it probes, even one that an earlier completion left behind.
THEOREM FirstWords == Spec => []FirstWordsClean
<1>1. IInv => FirstWordsClean
  BY DEF IInv, WaiterInv, FirstWordsClean, Between
<1> QED
  BY <1>1, Invariant, PTL

\* OnlySupported: nothing is submitted that the gate did not ask the kernel for.
THEOREM OnlyProbed == Spec => []OnlySupported
<1>1. IInv => OnlySupported
  BY DEF IInv, GateInv, OnlySupported
<1> QED
  BY <1>1, Invariant, PTL
=============================================================================
