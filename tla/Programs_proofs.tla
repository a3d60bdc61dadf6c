-------------------------- MODULE Programs_proofs --------------------------
(***************************************************************************)
(* What the sequential programs promise on every way out (CleansUp), of    *)
(* what they report (ReportEarned) and of perf's counters (CountersFollow) *)
(* holds for every number of faults, rounds, messages and ranges and for   *)
(* every set of configurations.  Each program has an inductive invariant   *)
(* of its own, split into the types of its Boolean variables (XFlags) and  *)
(* the rest (XInv); what is shown of the composition, at the end, is that  *)
(* only the program that runs moves.                                       *)
(***************************************************************************)
EXTENDS Programs, SequenceTheorems, FiniteSetTheorems, TLAPS


-----------------------------------------------------------------------------
(* The kernfs control                                                      *)

SettingUp == {"setup", "load", "await", "marker", "begin", "mkdir", "rmdir", "stat",
              "restore", "awaitOff"}

\* The cgroups Remove has tried.
Tried == {Kernfs!RemoveOrder[j] : j \in 1..k-1}

KernfsFlags == attached \in BOOLEAN /\ stuck \in BOOLEAN

KernfsInv ==
    /\ pc \in SettingUp \cup {"out", "outState", "remove", "done"}
    /\ k \in Nat /\ (pc = "setup" => k \in 1..8) /\ (pc = "remove" => k \in 1..4)
    /\ faults \in Nat /\ completed \in Nat
    /\ created \subseteq Kernfs!Cgroups /\ dirs \subseteq Kernfs!Cgroups
    /\ scx \in {"disabled", "enabled", "other"}
    /\ ret \in {0, 1}
    /\ vanished = completed
    /\ ret = 0 => stuck = FALSE /\ completed = rounds
    /\ pc \in SettingUp => ret = 1 /\ (stuck = TRUE => pc = "stat" /\ "leaf" \in dirs)
    /\ pc \in {"restore", "awaitOff"} => completed = rounds
    /\ pc = "rmdir" => "leaf" \in created
    /\ stuck = FALSE => dirs = IF pc \in {"remove", "done"} THEN created \ Tried ELSE created
    /\ pc = "done" => k = 5
    /\ pc \in {"outState", "remove", "done"} => attached = FALSE
    /\ pc \in {"remove", "done"} /\ ret = 0 => scx # "enabled"

LEMMA FlagsOfKernfs ==
    /\ Kernfs!Init => KernfsFlags
    /\ KernfsFlags /\ (Kernfs!Next \/ UNCHANGED Kernfs!vars) => KernfsFlags'
<1>1. Kernfs!Init => KernfsFlags
  BY DEF Kernfs!Init, KernfsFlags
<1>2. ASSUME KernfsFlags, Kernfs!Next \/ UNCHANGED Kernfs!vars PROVE KernfsFlags'
  BY <1>2 DEF KernfsFlags, Kernfs!Next, Kernfs!Program, Kernfs!vars, Kernfs!scxVars, Kernfs!history,
     Kernfs!Setup, Kernfs!Load, Kernfs!AwaitEnabled, Kernfs!OpenMarker, Kernfs!Begin,
     Kernfs!MkdirLeaf, Kernfs!RmdirLeaf, Kernfs!StatLeaf, Kernfs!Restore, Kernfs!RestoreState,
     Kernfs!Out, Kernfs!OutState, Kernfs!Remove, Kernfs!ScxFollows, Kernfs!ScxLeaves, Kernfs!Expire
<1> QED
  BY <1>1, <1>2

LEMMA InitKernfs == Kernfs!Init => KernfsInv
  BY DEF Kernfs!Init, KernfsInv, SettingUp, Kernfs!Cgroups

LEMMA SetupKeepsKernfs ==
    ASSUME KernfsFlags, KernfsInv, Kernfs!Setup
    PROVE  KernfsInv'
<1> DEFINE step == Kernfs!SetupSteps[k]
<1>1. pc = "setup" /\ k \in 1..8
  BY DEF Kernfs!Setup, KernfsInv
<1>2. Len(Kernfs!SetupSteps) = 8
  BY DEF Kernfs!SetupSteps
<1>3. /\ UNCHANGED <<completed, ret, vanished, stuck, rounds, attached, scx>>
      /\ faults' \in Nat
  BY DEF Kernfs!Setup, Kernfs!scxVars, Kernfs!history, Kernfs!args, Kernfs!Fine, Kernfs!Fault,
         KernfsInv
<1>4. \/ /\ k' = k + 1 /\ pc' \in {"setup", "marker", "load"} /\ (pc' = "setup" => k < 8)
         /\ \/ UNCHANGED <<dirs, created>>
            \/ step \in Kernfs!Cgroups /\ dirs' = dirs \cup {step} /\ created' = created \cup {step}
      \/ pc' = "out" /\ UNCHANGED <<k, dirs, created>>
  BY <1>1, <1>2 DEF Kernfs!Setup, Kernfs!Goto, Kernfs!Creates
<1> HIDE DEF step
<1> QED
  BY <1>1, <1>3, <1>4 DEF KernfsInv, SettingUp

LEMMA RemoveKeepsKernfs ==
    ASSUME KernfsFlags, KernfsInv, Kernfs!Remove
    PROVE  KernfsInv'
<1> DEFINE d == Kernfs!RemoveOrder[k]
<1>1. pc = "remove" /\ k \in 1..4 /\ k' = k + 1 /\ Len(Kernfs!RemoveOrder) = 4
  BY DEF Kernfs!Remove, KernfsInv, Kernfs!RemoveOrder
<1>2. /\ pc' = IF k < 4 THEN "remove" ELSE "done"
      /\ UNCHANGED <<created, completed, vanished, rounds, attached, scx>>
      /\ faults' \in Nat
  <2>1. Kernfs!Fine \/ Kernfs!Fault
    BY DEF Kernfs!Remove
  <2>2. faults' \in Nat
    BY <2>1 DEF Kernfs!Fine, Kernfs!Fault, KernfsInv
  <2> QED
    BY <1>1, <2>2 DEF Kernfs!Remove, Kernfs!Goto, Kernfs!scxVars, Kernfs!args
<1>3. Tried' = Tried \cup {d}
  BY <1>1 DEF Tried, Kernfs!RemoveOrder
<1>4. d \in Kernfs!Cgroups /\ (d = "root" => Tried = {"leaf", "a", "b"})
  BY <1>1 DEF Tried, Kernfs!RemoveOrder, Kernfs!Cgroups
<1>5. \/ d \notin created /\ UNCHANGED <<dirs, ret, stuck>>
      \/ d \in created /\ Kernfs!Children(d) = {} /\ dirs' = dirs \ {d} /\ UNCHANGED <<ret, stuck>>
      \/ d \in created /\ Kernfs!Children(d) # {} /\ ret' = 1 /\ UNCHANGED <<dirs, stuck>>
      \/ ret' = 1 /\ stuck' = TRUE /\ UNCHANGED dirs
  BY DEF Kernfs!Remove, Kernfs!RetAfter
<1>6. stuck = FALSE => dirs = created \ Tried
  BY <1>1 DEF KernfsInv
<1>7. stuck = FALSE /\ Kernfs!Children(d) # {} => FALSE
  BY <1>4, <1>6 DEF Kernfs!Children, KernfsInv, Kernfs!Cgroups
<1>8. stuck' = FALSE => dirs' = created' \ Tried'
  BY <1>2, <1>3, <1>5, <1>6, <1>7 DEF KernfsInv
<1>9. ret' \in {0, 1} /\ dirs' \subseteq dirs
      /\ (ret' = 0 => ret = 0 /\ (stuck' = TRUE => stuck = TRUE))
  BY <1>5 DEF KernfsInv
<1> HIDE DEF d
<1> QED
  BY <1>1, <1>2, <1>8, <1>9 DEF KernfsInv, SettingUp

LEMMA RoundsKeepKernfs ==
    ASSUME KernfsFlags, KernfsInv,
           \/ Kernfs!Load \/ Kernfs!AwaitEnabled \/ Kernfs!OpenMarker \/ Kernfs!Begin
           \/ Kernfs!MkdirLeaf \/ Kernfs!RmdirLeaf \/ Kernfs!StatLeaf
    PROVE  KernfsInv'
<1> USE DEF KernfsInv, SettingUp, Kernfs!Goto, Kernfs!Fine, Kernfs!Fault, Kernfs!args,
            Kernfs!scxVars, Kernfs!history
<1>1. CASE Kernfs!Load \/ Kernfs!AwaitEnabled \/ Kernfs!OpenMarker
  BY <1>1 DEF Kernfs!Load, Kernfs!AwaitEnabled, Kernfs!OpenMarker
<1>2. CASE Kernfs!Begin
  BY <1>2 DEF Kernfs!Begin
<1>3. CASE Kernfs!MkdirLeaf
  <2>1. \/ dirs' = dirs \cup {"leaf"} /\ created' = created \cup {"leaf"} /\ pc' = "rmdir"
        \/ UNCHANGED <<dirs, created>> /\ pc' = "out"
    BY <1>3 DEF Kernfs!MkdirLeaf, Kernfs!Creates
  <2>2. created' \subseteq Kernfs!Cgroups /\ dirs' \subseteq Kernfs!Cgroups
    BY <2>1 DEF Kernfs!Cgroups
  <2> QED
    BY <1>3, <2>1, <2>2 DEF Kernfs!MkdirLeaf
<1>4. CASE Kernfs!RmdirLeaf
  <2>1. created' \subseteq Kernfs!Cgroups /\ dirs' \subseteq Kernfs!Cgroups
    BY <1>4 DEF Kernfs!RmdirLeaf
  <2>2. stuck' = TRUE => pc' = "stat" /\ "leaf" \in dirs'
    <3>1. pc = "rmdir"
      BY <1>4 DEF Kernfs!RmdirLeaf
    <3>2. stuck # TRUE /\ "leaf" \in created
      BY <3>1
    <3>3. stuck = FALSE /\ "leaf" \in dirs
      BY <3>1, <3>2 DEF KernfsFlags
    <3> QED
      BY <1>4, <3>3 DEF Kernfs!RmdirLeaf
  <2> QED
    BY <1>4, <2>1, <2>2 DEF Kernfs!RmdirLeaf
<1>5. CASE Kernfs!StatLeaf
  BY <1>5 DEF Kernfs!StatLeaf
<1> QED
  BY <1>1, <1>2, <1>3, <1>4, <1>5

LEMMA EndKeepsKernfs ==
    ASSUME KernfsFlags, KernfsInv,
           \/ Kernfs!Restore \/ Kernfs!RestoreState \/ Kernfs!Out \/ Kernfs!OutState
           \/ Kernfs!ScxFollows \/ Kernfs!ScxLeaves \/ Kernfs!Expire \/ UNCHANGED Kernfs!vars
    PROVE  KernfsInv'
<1> USE DEF KernfsInv, SettingUp, Kernfs!Goto, Kernfs!Fine, Kernfs!Fault, Kernfs!args,
            Kernfs!scxVars, Kernfs!history
<1>1. CASE Kernfs!Restore
  BY <1>1 DEF Kernfs!Restore
<1>2. CASE Kernfs!RestoreState
  BY <1>2 DEF Kernfs!RestoreState
<1>3. CASE Kernfs!Out
  BY <1>3 DEF Kernfs!Out
<1>4. CASE Kernfs!OutState
  <2>1. Tried' = {}
    BY <1>4 DEF Kernfs!OutState, Tried
  <2> QED
    BY <1>4, <2>1 DEF Kernfs!OutState
<1>5. CASE Kernfs!ScxFollows \/ Kernfs!ScxLeaves \/ Kernfs!Expire \/ UNCHANGED Kernfs!vars
  <2>1. Tried' = Tried
    BY <1>5 DEF Kernfs!ScxFollows, Kernfs!ScxLeaves, Kernfs!Expire, Kernfs!vars, Tried
  <2>2. UNCHANGED <<pc, k, completed, ret, created, dirs, vanished, stuck, rounds>>
    BY <1>5 DEF Kernfs!ScxFollows, Kernfs!ScxLeaves, Kernfs!Expire, Kernfs!vars
  <2>3. scx' \in {"disabled", "enabled", "other"} /\ faults' \in Nat
    BY <1>5 DEF Kernfs!ScxFollows, Kernfs!ScxLeaves, Kernfs!Expire, Kernfs!vars
  <2>4. attached = FALSE =>
           /\ attached' = FALSE
           /\ scx' = "enabled" => scx = "enabled"
    BY <1>5 DEF Kernfs!ScxFollows, Kernfs!ScxLeaves, Kernfs!Expire, Kernfs!vars
  <2> QED
    BY <2>1, <2>2, <2>3, <2>4
<1> QED
  BY <1>1, <1>2, <1>3, <1>4, <1>5

LEMMA NextKeepsKernfs ==
    KernfsFlags /\ KernfsInv /\ (Kernfs!Next \/ UNCHANGED Kernfs!vars) => KernfsInv'
  BY SetupKeepsKernfs, RemoveKeepsKernfs, RoundsKeepKernfs, EndKeepsKernfs
     DEF Kernfs!Next, Kernfs!Program

LEMMA KernfsInvMeans == KernfsFlags /\ KernfsInv => Kernfs!LeakFree /\ Kernfs!SuccessEarned
<1> SUFFICES ASSUME KernfsFlags, KernfsInv PROVE Kernfs!LeakFree /\ Kernfs!SuccessEarned
  OBVIOUS
<1>1. pc = "done" => Tried = Kernfs!Cgroups
  BY DEF KernfsInv, Tried, Kernfs!RemoveOrder, Kernfs!Cgroups
<1> QED
  BY <1>1 DEF KernfsInv, Kernfs!LeakFree, Kernfs!SuccessEarned


-----------------------------------------------------------------------------
(* The write checks of the RT sysctls                                      *)

\* The values before the n-th test, and what a write makes of them.
Before(n) == IF n = 1 THEN Sysctl!saved ELSE Sysctl!tests[n-1].after
StoredIn(s, kind, v) == IF v = Sysctl!Junk THEN s ELSE [s EXCEPT ![kind] = v]

PERIOD == Sysctl!saved.period

\* restore can raise the period first.
Orderly(s) == s.period < PERIOD => s.runtime <= PERIOD

Sysctls == [period : Int, runtime : Int]

LEMMA SavedIs ==
    /\ Sysctl!saved = [period |-> 1000000, runtime |-> 950000]
    /\ Sysctl!saved \in Sysctls /\ PERIOD = 1000000
  BY DEF Sysctl!saved, Sysctls, PERIOD

LEMMA TestsAre ==
    /\ Len(Sysctl!tests) = 12
    /\ \A n \in 1..12 : Sysctl!tests[n].kind \in {"period", "runtime"} /\ Sysctl!tests[n].text \in Int
    /\ \A n \in 1..13 : Before(n) \in Sysctls
  BY DEF Sysctl!tests, Sysctl!Test, Sysctl!saved, Sysctl!Junk, Before, Sysctls

LEMMA BeforeIs ==
    /\ \A n \in 1..13 : Before(n) = IF n = 4 THEN [period |-> 1100000, runtime |-> 950000]
                                    ELSE IF n = 6 THEN [period |-> 1000000, runtime |-> 900000]
                                    ELSE Sysctl!saved
  BY DEF Sysctl!tests, Sysctl!Test, Sysctl!saved, Before

\* A right kernel answers each test as the table says, and does what it says.
LEMMA RightIsExpected ==
    ASSUME NEW n \in 1..12, sysctl = Before(n)
    PROVE  Sysctl!Right(Sysctl!tests[n].kind, Sysctl!tests[n].text)
             = <<Sysctl!tests[n].error, Sysctl!tests[n].after>>
<1> USE DEF Sysctl!tests, Sysctl!Test, Sysctl!saved, Sysctl!Junk, Sysctl!Right, Sysctl!Accepts,
            Sysctl!Stored
<1>1. sysctl = IF n = 4 THEN [period |-> 1100000, runtime |-> 950000]
               ELSE IF n = 6 THEN [period |-> 1000000, runtime |-> 900000]
               ELSE [period |-> 1000000, runtime |-> 950000]
  BY BeforeIs, SMT
<1>2. CASE n = 1
  BY <1>1, <1>2, SMT
<1>3. CASE n = 2
  BY <1>1, <1>3, SMT
<1>4. CASE n = 3
  BY <1>1, <1>4, SMT
<1>5. CASE n = 4
  BY <1>1, <1>5, SMT
<1>6. CASE n = 5
  BY <1>1, <1>6, SMT
<1>7. CASE n = 6
  BY <1>1, <1>7, SMT
<1>8. CASE n = 7
  BY <1>1, <1>8, SMT
<1>9. CASE n = 8
  BY <1>1, <1>9, SMT
<1>10. CASE n = 9
  BY <1>1, <1>10, SMT
<1>11. CASE n = 10
  BY <1>1, <1>11, SMT
<1>12. CASE n = 11
  BY <1>1, <1>12, SMT
<1>13. CASE n = 12
  BY <1>1, <1>13, SMT
<1> HIDE DEF Sysctl!tests, Sysctl!Test, Sysctl!saved, Sysctl!Junk, Sysctl!Right, Sysctl!Accepts,
            Sysctl!Stored
<1> QED
  BY <1>2, <1>3, <1>4, <1>5, <1>6, <1>7, <1>8, <1>9, <1>10, <1>11, <1>12, <1>13, SMT

\* Whatever the kernel makes of a test, restore can begin with the period.
LEMMA TestsAreOrderly ==
    ASSUME NEW n \in 1..12
    PROVE  LET test == Sysctl!tests[n]
               after == StoredIn(Before(n), test.kind, test.text)
           IN  after \in Sysctls /\ Orderly(Before(n)) /\ Orderly(after)
<1> USE DEF Sysctl!tests, Sysctl!Test, Sysctl!saved, Sysctl!Junk, StoredIn, Orderly, Sysctls, PERIOD
<1>1. Before(n) = IF n = 4 THEN [period |-> 1100000, runtime |-> 950000]
                  ELSE IF n = 6 THEN [period |-> 1000000, runtime |-> 900000]
                  ELSE [period |-> 1000000, runtime |-> 950000]
  BY BeforeIs, SMT
<1>2. CASE n = 1
  BY <1>1, <1>2, SMT
<1>3. CASE n = 2
  BY <1>1, <1>3, SMT
<1>4. CASE n = 3
  BY <1>1, <1>4, SMT
<1>5. CASE n = 4
  BY <1>1, <1>5, SMT
<1>6. CASE n = 5
  BY <1>1, <1>6, SMT
<1>7. CASE n = 6
  BY <1>1, <1>7, SMT
<1>8. CASE n = 7
  BY <1>1, <1>8, SMT
<1>9. CASE n = 8
  BY <1>1, <1>9, SMT
<1>10. CASE n = 9
  BY <1>1, <1>10, SMT
<1>11. CASE n = 10
  BY <1>1, <1>11, SMT
<1>12. CASE n = 11
  BY <1>1, <1>12, SMT
<1>13. CASE n = 12
  BY <1>1, <1>13, SMT
<1> HIDE DEF Sysctl!tests, Sysctl!Test, Sysctl!saved, Sysctl!Junk, StoredIn, Orderly, Sysctls, PERIOD
<1> QED
  BY <1>2, <1>3, <1>4, <1>5, <1>6, <1>7, <1>8, <1>9, <1>10, <1>11, <1>12, <1>13, SMT

LEMMA SavedFacts ==
    /\ Sysctl!saved \in Sysctls /\ PERIOD \in Nat \ {0} /\ Sysctl!saved.period = PERIOD
    /\ Sysctl!saved["period"] = PERIOD
    /\ Sysctl!saved.runtime \in Nat /\ Sysctl!saved.runtime <= PERIOD
    /\ Sysctl!saved.period # Sysctl!Junk /\ Sysctl!saved.runtime # Sysctl!Junk
    /\ Sysctl!Junk \notin Nat
    /\ Before(1) = Sysctl!saved /\ Before(13) = Sysctl!saved
  BY SavedIs, BeforeIs, SMT DEF Sysctl!Junk, Sysctls

SysctlFlags ==
    handled \in BOOLEAN /\ unrestored \in BOOLEAN /\ deviated \in BOOLEAN /\ refused \in BOOLEAN

\* Testing: the test to be made or checked, and what can have come of it.
TestingInv ==
    /\ pc \in {"write", "check"} => i \in 1..12
    /\ pc \in {"start", "write", "check", "final"} =>
         code = -1 /\ unrestored = FALSE /\ refused = FALSE
    /\ pc = "start" => handled = FALSE /\ deviated = FALSE /\ i = 1
    /\ pc \in {"write", "check", "final"} => handled = TRUE
    /\ pc = "write" => sysctl = Before(i) /\ deviated = FALSE
    /\ pc = "check" =>
         /\ sysctl \in {Before(i), StoredIn(Before(i), Sysctl!tests[i].kind, Sysctl!tests[i].text)}
         /\ answer = Sysctl!tests[i].error /\ sysctl = Sysctl!tests[i].after => deviated = FALSE
    /\ pc = "final" => i = 13 /\ sysctl = Before(13) /\ deviated = FALSE
    /\ code = 0 => /\ pc \in {"restore", "done"} /\ handled = FALSE /\ printed = 12
                   /\ deviated = FALSE /\ sysctl = Sysctl!saved

\* Restoring: what each step finds, unless a write was answered falsely.
RestoringInv ==
    /\ pc = "restore" /\ handled = TRUE => Orderly(sysctl) /\ unrestored = FALSE
    /\ pc = "restore" => refused = FALSE
    /\ pc \in {"raise", "runtime", "lower"} => handled = TRUE
    /\ pc \in {"restore", "raise", "runtime", "lower"} /\ handled = TRUE => code = 1
    /\ pc = "raise" => sysctl.runtime <= PERIOD /\ found < PERIOD
    /\ pc = "runtime" /\ unrestored = FALSE =>
         sysctl.period = IF found > PERIOD THEN found ELSE PERIOD
    /\ pc = "lower" => found > PERIOD
    /\ pc = "lower" /\ unrestored = FALSE => sysctl.runtime = Sysctl!saved.runtime
    /\ pc = "done" /\ handled = TRUE /\ code = 1 /\ unrestored = FALSE => sysctl = Sysctl!saved
    /\ refused = TRUE => unrestored = TRUE

SysctlInv ==
    /\ pc \in {"start", "write", "check", "final", "restore", "raise", "runtime", "lower", "done"}
    /\ sysctl \in Sysctls /\ found \in Int
    /\ i \in 1..13 /\ printed = i - 1
    /\ TestingInv /\ RestoringInv

LEMMA FlagsOfSysctl ==
    /\ Sysctl!Init => SysctlFlags
    /\ SysctlFlags /\ (Sysctl!Next \/ UNCHANGED Sysctl!vars) => SysctlFlags'
<1>1. Sysctl!Init => SysctlFlags
  <2>1. Sysctl!Init => handled = FALSE /\ unrestored = FALSE /\ deviated = FALSE /\ refused = FALSE
    BY SMT DEF Sysctl!Init
  <2> QED
    BY <2>1 DEF SysctlFlags
<1>2. ASSUME SysctlFlags, Sysctl!Next \/ UNCHANGED Sysctl!vars PROVE SysctlFlags'
  BY <1>2 DEF SysctlFlags, Sysctl!Next, Sysctl!Program, Sysctl!vars, Sysctl!Prepare,
     Sysctl!CannotOpen, Sysctl!WriteTest, Sysctl!CheckTest, Sysctl!Final, Sysctl!Restore,
     Sysctl!SetPeriodFirst, Sysctl!SetRuntime, Sysctl!SetPeriodLast, Sysctl!Set, Sysctl!Timeout
<1> QED
  BY <1>1, <1>2

LEMMA InitSysctl == Sysctl!Init => SysctlInv
<1> SUFFICES ASSUME Sysctl!Init PROVE SysctlInv
  OBVIOUS
<1>1. sysctl \in Sysctls
  BY SMT DEF Sysctl!Init, Sysctl!saved, Sysctls
<1> QED
  BY <1>1, SMT DEF Sysctl!Init, SysctlInv, TestingInv, RestoringInv

LEMMA PrepareKeepsSysctl ==
    ASSUME SysctlInv, Sysctl!Prepare \/ Sysctl!CannotOpen
    PROVE  SysctlInv'
<1>1. UNCHANGED <<i, sysctl, answer, found, printed, deviated, unrestored, refused>>
  BY DEF Sysctl!Prepare, Sysctl!CannotOpen
<1>2. CASE Sysctl!Prepare
  <2>1. /\ pc = "start"
        /\ \/ pc' = "done" /\ code' = 2 /\ handled' = handled
           \/ pc' = "restore" /\ code' = 1 /\ handled' = handled
           \/ pc' = "write" /\ code' = code /\ handled' = TRUE /\ sysctl = Sysctl!saved
    BY <1>2 DEF Sysctl!Prepare, Sysctl!Die
  <2> QED
    BY <1>1, <2>1, SavedFacts DEF SysctlInv, TestingInv, RestoringInv
<1>3. CASE Sysctl!CannotOpen
  <2>1. pc = "write" /\ pc' = "restore" /\ code' = 1 /\ handled' = handled
    BY <1>3 DEF Sysctl!CannotOpen, Sysctl!Die
  <2>2. Orderly(sysctl)
    BY <2>1, TestsAreOrderly DEF SysctlInv, TestingInv
  <2>3. Orderly(sysctl)'
    BY <1>1, <2>2 DEF Orderly
  <2> QED
    BY <1>1, <2>1, <2>3 DEF SysctlInv, TestingInv, RestoringInv
<1> QED
  BY <1>2, <1>3

LEMMA WriteKeepsSysctl ==
    ASSUME SysctlInv, Sysctl!WriteTest
    PROVE  SysctlInv'
<1> DEFINE test == Sysctl!tests[i]
           made == StoredIn(Before(i), test.kind, test.text)
<1>1. /\ pc = "write" /\ pc' = "check"
      /\ UNCHANGED <<code, i, handled, found, printed, unrestored, refused>>
  BY DEF Sysctl!WriteTest
<1>2. i \in 1..12 /\ sysctl = Before(i) /\ deviated = FALSE
  BY <1>1 DEF SysctlInv, TestingInv
<1>3. sysctl' \in {Before(i), made}
  <2>1. Sysctl!Stored(test.kind, test.text) = made
    BY <1>2 DEF Sysctl!Stored, StoredIn
  <2> QED
    BY <1>2, <2>1 DEF Sysctl!WriteTest
<1>4. sysctl' \in Sysctls
  BY <1>2, <1>3, TestsAreOrderly, TestsAre
<1>5. answer' = test.error /\ sysctl' = test.after => deviated' = FALSE
  <2>1. Sysctl!Right(test.kind, test.text) = <<test.error, test.after>>
    BY <1>2, RightIsExpected
  <2>2. deviated' = (deviated \/ <<answer', sysctl'>> # Sysctl!Right(test.kind, test.text))
    BY DEF Sysctl!WriteTest
  <2> QED
    BY <1>2, <2>1, <2>2, Zenon
<1> HIDE DEF made
<1> QED
  BY <1>1, <1>2, <1>3, <1>4, <1>5 DEF SysctlInv, TestingInv, RestoringInv, made

LEMMA CheckKeepsSysctl ==
    ASSUME SysctlInv, Sysctl!CheckTest
    PROVE  SysctlInv'
<1> DEFINE test == Sysctl!tests[i]
<1>1. /\ pc = "check" /\ i \in 1..12 /\ handled = TRUE /\ unrestored = FALSE /\ refused = FALSE
      /\ code = -1 /\ sysctl \in Sysctls
      /\ UNCHANGED <<handled, sysctl, answer, found, deviated, unrestored, refused>>
  BY DEF Sysctl!CheckTest, SysctlInv, TestingInv
<1>2. \/ UNCHANGED <<i, printed>> /\ pc' = "restore" /\ code' = 1
      \/ /\ answer = test.error /\ sysctl = test.after
         /\ printed' = printed + 1 /\ i' = i + 1 /\ UNCHANGED code
         /\ pc' = IF i = Len(Sysctl!tests) THEN "final" ELSE "write"
  BY DEF Sysctl!CheckTest, Sysctl!Die
<1>3. Orderly(sysctl)' /\ (i' = i + 1 => Before(i') = test.after)
  <2>1. Orderly(sysctl)
    BY <1>1, TestsAreOrderly DEF SysctlInv, TestingInv
  <2>2. Orderly(sysctl)'
    BY <1>1, <2>1 DEF Orderly
  <2>3. ASSUME i' = i + 1 PROVE Before(i') = test.after
    BY <1>1, <2>3 DEF Before
  <2> QED
    BY <2>2, <2>3
<1>4. answer = test.error /\ sysctl = test.after => deviated = FALSE
  BY <1>1 DEF SysctlInv, TestingInv
<1> HIDE DEF test
<1>5. CASE pc' = "restore"
  BY <1>1, <1>2, <1>3, <1>5 DEF SysctlInv, TestingInv, RestoringInv
<1>6. CASE pc' # "restore"
  BY <1>1, <1>2, <1>3, <1>4, <1>6, TestsAre DEF SysctlInv, TestingInv, RestoringInv
<1> QED
  BY <1>5, <1>6

LEMMA FinalKeepsSysctl ==
    ASSUME SysctlInv, Sysctl!Final
    PROVE  SysctlInv'
<1>1. /\ pc = "final" /\ pc' = "restore"
      /\ UNCHANGED <<i, sysctl, answer, found, printed, deviated, unrestored, refused>>
      /\ \/ handled' = handled /\ code' = 1
         \/ handled' = FALSE /\ code' = 0 /\ sysctl = Sysctl!saved
  BY DEF Sysctl!Final, Sysctl!Die
<1>2. Orderly(sysctl)'
  <2>1. sysctl = Sysctl!saved
    BY <1>1, SavedFacts DEF SysctlInv, TestingInv
  <2> QED
    BY <1>1, <2>1, SavedFacts DEF Orderly
<1>3. /\ printed = 12 /\ i = 13 /\ deviated = FALSE /\ handled = TRUE /\ unrestored = FALSE
      /\ refused = FALSE /\ sysctl \in Sysctls /\ found \in Int
  BY <1>1 DEF SysctlInv, TestingInv
<1>4. pc' = "restore" /\ sysctl' \in Sysctls /\ found' \in Int /\ i' \in 1..13 /\ printed' = i' - 1
  BY <1>1, <1>3
<1>5. TestingInv'
  <2>1. CASE code' = 1
    BY <1>1, <1>3, <2>1 DEF TestingInv
  <2>2. CASE handled' = FALSE /\ code' = 0 /\ sysctl = Sysctl!saved
    BY <1>1, <1>3, <2>2 DEF TestingInv
  <2> QED
    BY <1>1, <2>1, <2>2
<1>6. RestoringInv'
  BY <1>1, <1>2, <1>3 DEF RestoringInv
<1> QED
  BY <1>4, <1>5, <1>6 DEF SysctlInv

LEMMA RestoreKeepsSysctl ==
    ASSUME SysctlFlags, SysctlInv, Sysctl!Restore
    PROVE  SysctlInv'
<1>1. /\ pc = "restore" /\ refused = FALSE
      /\ UNCHANGED <<code, i, handled, sysctl, answer, printed, deviated, refused>>
  BY DEF Sysctl!Restore, SysctlInv, RestoringInv
<1>2. \/ handled = FALSE /\ pc' = "done" /\ UNCHANGED <<found, unrestored>>
      \/ handled = TRUE /\ pc' = "done" /\ unrestored' = TRUE /\ UNCHANGED found
      \/ /\ handled = TRUE /\ found' = sysctl.period
         /\ pc' = IF found' < Sysctl!saved.period THEN "raise" ELSE "runtime"
         /\ UNCHANGED unrestored
  BY DEF Sysctl!Restore, SysctlFlags
<1>3. CASE pc' = "done"
  BY <1>1, <1>2, <1>3 DEF SysctlInv, TestingInv, RestoringInv
<1>4. CASE pc' # "done"
  <2>1. /\ handled = TRUE /\ found' = sysctl.period /\ unrestored' = unrestored
        /\ pc' = IF found' < PERIOD THEN "raise" ELSE "runtime"
    BY <1>2, <1>4, SavedFacts
  <2>2. sysctl.period \in Int /\ unrestored = FALSE /\ code = 1
    BY <1>1, <2>1 DEF SysctlInv, RestoringInv, Sysctls
  <2>3. found' < PERIOD => sysctl.runtime <= PERIOD
    BY <1>1, <2>1 DEF SysctlInv, RestoringInv, Orderly
  <2>4. pc' = "runtime" => sysctl.period = IF found' > PERIOD THEN found' ELSE PERIOD
    BY <2>1, <2>2, SavedFacts
  <2> QED
    BY <1>1, <2>1, <2>2, <2>3, <2>4 DEF SysctlInv, TestingInv, RestoringInv
<1> QED
  BY <1>3, <1>4

\* What one set does: the value is there, or the process ends with status 2,
\* unless the kernel said that it is there and it is not.
LEMMA SetDoes ==
    ASSUME SysctlFlags, SysctlInv, NEW at, NEW kind \in {"period", "runtime"}, NEW to,
           Sysctl!Set(at, kind, to)
    PROVE  /\ pc = at
           /\ UNCHANGED <<i, handled, answer, found, printed, deviated>>
           /\ sysctl' \in {sysctl, [sysctl EXCEPT ![kind] = Sysctl!saved[kind]]}
           /\ unrestored' = FALSE => unrestored = FALSE
           /\ \/ pc' = to /\ UNCHANGED code
                 /\ (unrestored' = FALSE => sysctl'[kind] = Sysctl!saved[kind])
              \/ pc' = "done" /\ code' = 2
           /\ refused' = TRUE => ~Sysctl!Accepts(kind, Sysctl!saved[kind]) \/ (refused = TRUE /\ pc' = "done")
<1> DEFINE v == Sysctl!saved[kind]
<1>1. pc = at /\ UNCHANGED <<i, handled, answer, found, printed, deviated>>
  BY DEF Sysctl!Set
<1>2. Sysctl!Stored(kind, v) = [sysctl EXCEPT ![kind] = v]
  BY SavedFacts DEF Sysctl!Stored
<1> HIDE DEF v
<1>3. CASE pc' = "done" /\ code' = 2 /\ UNCHANGED <<sysctl, unrestored, refused>>
  BY <1>1, <1>3
<1>4. ASSUME NEW result \in Sysctl!Results,
             sysctl' \in {sysctl, Sysctl!Stored(kind, v)},
             unrestored' = (unrestored \/ (result = "written" /\ sysctl'[kind] # v)),
             refused' = (result = "EINVAL" /\ ~Sysctl!Accepts(kind, v)),
             \/ result = "written" /\ pc' = to /\ UNCHANGED code
             \/ result # "written" /\ pc' = "done" /\ code' = 2
      PROVE  /\ sysctl' \in {sysctl, [sysctl EXCEPT ![kind] = v]}
             /\ unrestored' = FALSE => unrestored = FALSE
             /\ \/ pc' = to /\ UNCHANGED code /\ (unrestored' = FALSE => sysctl'[kind] = v)
                \/ pc' = "done" /\ code' = 2
             /\ refused' = TRUE => ~Sysctl!Accepts(kind, v)
  <2>1. sysctl' \in {sysctl, [sysctl EXCEPT ![kind] = v]}
    BY <1>2, <1>4
  <2>2. /\ unrestored' = FALSE => unrestored = FALSE
        /\ result = "written" /\ unrestored' = FALSE => sysctl'[kind] = v
        /\ refused' = TRUE => ~Sysctl!Accepts(kind, v)
    BY <1>4, Zenon DEF SysctlFlags
  <2> QED
    BY <1>4, <2>1, <2>2, Zenon
<1> QED
  BY <1>1, <1>3, <1>4 DEF Sysctl!Set, v

\* set finds the values in an order that the kernel accepts.
LEMMA SetKeepsSysctl ==
    ASSUME SysctlFlags, SysctlInv,
           Sysctl!SetPeriodFirst \/ Sysctl!SetRuntime \/ Sysctl!SetPeriodLast
    PROVE  SysctlInv'
<1> DEFINE last == IF found > PERIOD THEN "lower" ELSE "done"
<1>1. sysctl \in Sysctls /\ found \in Int
  BY DEF SysctlInv
<1>5. LET s == [sysctl EXCEPT !["period"] = PERIOD]
      IN  s \in Sysctls /\ s.period = PERIOD /\ s.runtime = sysctl.runtime
  BY <1>1, SavedFacts DEF Sysctls
<1>6. LET s == [sysctl EXCEPT !["runtime"] = Sysctl!saved.runtime]
      IN  s \in Sysctls /\ s.period = sysctl.period /\ s.runtime = Sysctl!saved.runtime
  BY <1>1, SavedFacts DEF Sysctls
<1>2. ASSUME refused' = TRUE => unrestored' = TRUE, code' \in {1, 2}, sysctl' \in Sysctls,
             UNCHANGED <<i, handled, found, printed>>, handled = TRUE,
             \/ pc' = "runtime" /\ (unrestored' = FALSE =>
                   sysctl'.period = IF found > PERIOD THEN found ELSE PERIOD)
             \/ pc' = "lower" /\ found > PERIOD
                   /\ (unrestored' = FALSE => sysctl'.runtime = Sysctl!saved.runtime)
             \/ pc' = "done" /\ (code' = 1 /\ unrestored' = FALSE => sysctl' = Sysctl!saved),
             pc' \in {"runtime", "lower"} => code' = 1
      PROVE  SysctlInv'
  BY <1>2 DEF SysctlInv, TestingInv, RestoringInv
<1>7. \A s \in Sysctls : s.period = PERIOD /\ s.runtime = Sysctl!saved.runtime => s = Sysctl!saved
  BY SavedFacts DEF Sysctls
<1>8. /\ pc \in {"raise", "runtime", "lower"} => handled = TRUE /\ code = 1
      /\ SysctlFlags'
      /\ refused = TRUE => unrestored = TRUE
  <2>1. SysctlFlags'
    BY FlagsOfSysctl DEF Sysctl!Next, Sysctl!Program
  <2> QED
    BY <2>1 DEF SysctlInv, RestoringInv
<1>9. sysctl.period \in Int /\ sysctl.runtime \in Int /\ Sysctl!saved["runtime"] = Sysctl!saved.runtime
  BY <1>1 DEF Sysctls
<1>10. CASE Sysctl!SetPeriodFirst
  <2>1. Sysctl!Set("raise", "period", "runtime")
    BY <1>10 DEF Sysctl!SetPeriodFirst
  <2>2. pc = "raise" /\ sysctl.runtime <= PERIOD /\ found < PERIOD
    BY <2>1 DEF Sysctl!Set, SysctlInv, RestoringInv
  <2>3. Sysctl!Accepts("period", Sysctl!saved["period"])
    BY <2>2, <1>9, SavedFacts DEF Sysctl!Accepts
  <2>4. /\ UNCHANGED <<i, handled, found, printed>>
        /\ sysctl' \in {sysctl, [sysctl EXCEPT !["period"] = PERIOD]}
        /\ unrestored' = FALSE => unrestored = FALSE
        /\ \/ pc' = "runtime" /\ UNCHANGED code /\ (unrestored' = FALSE => sysctl'["period"] = PERIOD)
           \/ pc' = "done" /\ code' = 2
        /\ refused' = TRUE => refused = TRUE
    BY <2>1, <2>3, SetDoes, SavedFacts
  <2>5. refused' = TRUE => unrestored' = TRUE
    BY <2>4, <1>8, Zenon DEF SysctlFlags
  <2>6. sysctl' \in Sysctls /\ sysctl'["period"] = sysctl'.period
    BY <1>1, <1>5, <2>4 DEF Sysctls
  <2>7. found < PERIOD /\ found \in Int /\ PERIOD \in Int
    BY <1>1, <2>2, SavedFacts
  <2>8. (IF found > PERIOD THEN found ELSE PERIOD) = PERIOD
    BY <2>7
  <2>9. handled = TRUE /\ code = 1
    BY <1>8, <2>2
  <2>10. CASE pc' = "done" /\ code' = 2
    <3>1. code' # 1 /\ code' \in {1, 2} /\ pc' = "done"
      BY <2>4, <2>10
    <3> QED
      BY <1>2, <2>4, <2>5, <2>6, <2>9, <3>1
  <2>11. CASE pc' = "runtime" /\ UNCHANGED code /\ (unrestored' = FALSE => sysctl'["period"] = PERIOD)
    BY <1>2, <2>4, <2>5, <2>6, <2>8, <2>9, <2>11
  <2> QED
    BY <2>4, <2>10, <2>11
<1>11. CASE Sysctl!SetRuntime
  <2>1. Sysctl!Set("runtime", "runtime", last)
    BY <1>11, SavedFacts DEF Sysctl!SetRuntime
  <2>2. /\ pc = "runtime"
        /\ unrestored = FALSE => sysctl.period = IF found > PERIOD THEN found ELSE PERIOD
    BY <2>1 DEF Sysctl!Set, SysctlInv, RestoringInv
  <2>3. unrestored = FALSE => Sysctl!Accepts("runtime", Sysctl!saved["runtime"])
    BY <2>2, <1>1, <1>9, SavedFacts DEF Sysctl!Accepts
  <2>4. /\ UNCHANGED <<i, handled, found, printed>>
        /\ sysctl' \in {sysctl, [sysctl EXCEPT !["runtime"] = Sysctl!saved.runtime]}
        /\ unrestored' = FALSE => unrestored = FALSE
        /\ \/ /\ pc' = last /\ UNCHANGED code
              /\ unrestored' = FALSE => sysctl'["runtime"] = Sysctl!saved.runtime
           \/ pc' = "done" /\ code' = 2
        /\ refused' = TRUE => ~Sysctl!Accepts("runtime", Sysctl!saved["runtime"]) \/ refused = TRUE
    BY <2>1, <1>9, SetDoes
  <2>5. refused' = TRUE => unrestored' = TRUE
    BY <2>3, <2>4, <1>8, Zenon DEF SysctlFlags
  <2>6. sysctl' \in Sysctls /\ sysctl'["runtime"] = sysctl'.runtime /\ sysctl'.period = sysctl.period
    BY <1>1, <1>6, <2>4 DEF Sysctls
  <2>7. handled = TRUE /\ code = 1
    BY <1>8, <2>2
  <2>8. CASE pc' = "done" /\ code' = 2
    <3>1. code' # 1 /\ code' \in {1, 2} /\ pc' = "done"
      BY <2>4, <2>8
    <3> QED
      BY <1>2, <2>4, <2>5, <2>6, <2>7, <3>1
  <2>9. CASE pc' = last /\ UNCHANGED code /\ (unrestored' = FALSE => sysctl'["runtime"] = Sysctl!saved.runtime)
    <3>1. CASE found > PERIOD
      <4>1. pc' = "lower"
        BY <2>9, <3>1
      <4> QED
        BY <1>2, <2>4, <2>5, <2>6, <2>7, <2>9, <3>1, <4>1
    <3>2. CASE ~(found > PERIOD)
      <4>1. pc' = "done"
        BY <2>9, <3>2
      <4>2. unrestored' = FALSE => sysctl'.period = PERIOD
        BY <2>2, <2>4, <2>6, <3>2
      <4>3. unrestored' = FALSE => sysctl' = Sysctl!saved
        BY <1>7, <2>6, <2>9, <4>2
      <4> QED
        BY <1>2, <2>4, <2>5, <2>6, <2>7, <2>9, <4>1, <4>3
    <3> QED
      BY <3>1, <3>2
  <2> HIDE DEF last
  <2> QED
    BY <2>4, <2>8, <2>9
<1>12. CASE Sysctl!SetPeriodLast
  <2>1. Sysctl!Set("lower", "period", "done")
    BY <1>12 DEF Sysctl!SetPeriodLast
  <2>2. pc = "lower" /\ (unrestored = FALSE => sysctl.runtime = Sysctl!saved.runtime)
    BY <2>1 DEF Sysctl!Set, SysctlInv, RestoringInv
  <2>3. unrestored = FALSE => Sysctl!Accepts("period", Sysctl!saved["period"])
    BY <2>2, <1>9, SavedFacts DEF Sysctl!Accepts
  <2>4. /\ UNCHANGED <<i, handled, found, printed>>
        /\ sysctl' \in {sysctl, [sysctl EXCEPT !["period"] = PERIOD]}
        /\ unrestored' = FALSE => unrestored = FALSE
        /\ \/ pc' = "done" /\ UNCHANGED code /\ (unrestored' = FALSE => sysctl'["period"] = PERIOD)
           \/ pc' = "done" /\ code' = 2
        /\ refused' = TRUE => ~Sysctl!Accepts("period", Sysctl!saved["period"]) \/ refused = TRUE
    BY <2>1, SetDoes, SavedFacts
  <2>5. refused' = TRUE => unrestored' = TRUE
    BY <2>3, <2>4, <1>8, Zenon DEF SysctlFlags
  <2>6. sysctl' \in Sysctls /\ sysctl'["period"] = sysctl'.period /\ sysctl'.runtime = sysctl.runtime
    BY <1>1, <1>5, <2>4 DEF Sysctls
  <2>7. handled = TRUE /\ code = 1
    BY <1>8, <2>2
  <2>8. sysctl'.runtime = sysctl.runtime
    BY <2>6
  <2>9. CASE code' = 2
    <3>1. code' # 1 /\ code' \in {1, 2} /\ pc' = "done"
      BY <2>4, <2>9
    <3> QED
      BY <1>2, <2>4, <2>5, <2>6, <2>7, <3>1
  <2>10. CASE UNCHANGED code /\ (unrestored' = FALSE => sysctl'["period"] = PERIOD)
    <3>1. unrestored' = FALSE => sysctl'.period = PERIOD /\ sysctl'.runtime = Sysctl!saved.runtime
      BY <2>2, <2>4, <2>6, <2>10
    <3>2. unrestored' = FALSE => sysctl' = Sysctl!saved
      BY <1>7, <2>6, <3>1
    <3> QED
      BY <1>2, <2>4, <2>5, <2>6, <2>7, <2>10, <3>2
  <2> QED
    BY <2>4, <2>9, <2>10
<1> QED
  BY <1>10, <1>11, <1>12

LEMMA NextKeepsSysctl ==
    SysctlFlags /\ SysctlInv /\ (Sysctl!Next \/ UNCHANGED Sysctl!vars) => SysctlInv'
<1> SUFFICES ASSUME SysctlFlags, SysctlInv, Sysctl!Next \/ UNCHANGED Sysctl!vars PROVE SysctlInv'
  OBVIOUS
<1>1. CASE Sysctl!Timeout
  BY <1>1 DEF Sysctl!Timeout, SysctlInv, TestingInv, RestoringInv
<1>2. CASE UNCHANGED Sysctl!vars
  BY <1>2 DEF Sysctl!vars, SysctlInv, TestingInv, RestoringInv, Orderly
<1> QED
  BY <1>1, <1>2, PrepareKeepsSysctl, WriteKeepsSysctl, CheckKeepsSysctl, FinalKeepsSysctl,
     RestoreKeepsSysctl, SetKeepsSysctl DEF Sysctl!Next, Sysctl!Program

LEMMA SysctlInvMeans == SysctlFlags /\ SysctlInv => Sysctl!Restored /\ Sysctl!SuccessEarned
<1> SUFFICES ASSUME SysctlFlags, SysctlInv PROVE Sysctl!Restored /\ Sysctl!SuccessEarned
  OBVIOUS
<1>1. Sysctl!Restored
  BY DEF SysctlInv, RestoringInv, SysctlFlags, Sysctl!Restored
<1>2. Sysctl!SuccessEarned
  BY TestsAre, Zenon DEF SysctlInv, TestingInv, SysctlFlags, Sysctl!SuccessEarned
<1> QED
  BY <1>1, <1>2


-----------------------------------------------------------------------------
(* The AF_UNIX micro-benchmark                                             *)

UnixMessages == [id : Int \X Int, pattern : Int]
Results == [messages : Int, batches : Int, mismatches : Int, bad_lengths : Int, eagain : Int]

\* A sequence of identities that stands in the order it was sent in.
InOrder(ids, from) == \A n \in 1..Len(ids) : ids[n] = <<round, from + n - 1>>
QueueInOrder(from) == \A n \in 1..Len(queue) : queue[n].id = <<round, from + n - 1>>

UnixFlags == unpinned \in BOOLEAN /\ closedForeign \in BOOLEAN

UnixTypes ==
    /\ pc \in {"pin", "setup", "round", "send", "recv", "judge", "out", "done"}
    /\ opt.rounds \in Nat \ {0} /\ opt.warmups \in Nat /\ opt.messages \in Nat
    /\ rc \in {0, 1} /\ base \in Nat /\ slot \in 0..BATCH_SIZE /\ round \in Nat /\ rows \in Nat
    /\ queue \in Seq(UnixMessages) /\ got \in Seq(Int \X Int) /\ res \in Results

SocketsInv ==
    /\ closedForeign = TRUE => pc = "done"
    /\ unpinned = TRUE => pc \in {"out", "done"}
    /\ pc \in {"pin", "setup"} => open = {}
    /\ pc \in {"round", "send", "recv", "judge"} => sockets = <<3, 4>> /\ open = {3, 4}
    /\ pc = "out" /\ unpinned = FALSE =>
         (sockets = <<3, 4>> /\ open = {3, 4}) \/ (sockets = <<-1, -1>> /\ open = {})
    /\ pc = "done" /\ unpinned = FALSE => open = {} /\ closedForeign = FALSE

\* One row for every measured round before this one.
RowsInv ==
    /\ pc \in {"pin", "setup"} => round = 0 /\ rows = 0
    /\ pc \in {"pin", "setup", "round", "send", "recv", "judge"} =>
         /\ rc = 1 /\ round <= opt.warmups + opt.rounds
         /\ rows = IF round > opt.warmups THEN round - opt.warmups - 1 ELSE 0
    /\ rc = 0 => rows = opt.rounds

\* What is queued and what is read make a batch exactly where nothing was lost
\* or doubled; a round cannot go on where they do not.
QueueInv ==
    /\ pc \in {"pin", "setup", "round", "send", "judge"} => queue = <<>>
    /\ pc \in {"send", "judge"} => Len(got) = base /\ InOrder(got, 0)
    /\ pc = "recv" =>
         /\ Len(got) = base + slot
         /\ Len(queue) + slot = BATCH_SIZE => InOrder(got, 0) /\ QueueInOrder(base + slot)
    /\ pc \in {"send", "recv", "judge"} =>
         res.messages + res.bad_lengths = IF pc = "recv" THEN base + BATCH_SIZE ELSE base

UnixInv == UnixTypes /\ SocketsInv /\ RowsInv /\ QueueInv

LEMMA UnixConstants ==
    /\ BATCH_SIZE \in Nat \ {0} /\ PATTERNS \in Nat \ {0}
    /\ Messages \subseteq Nat /\ Warmups \subseteq Nat /\ UnixRounds \subseteq Nat
  BY ProgramsAssumption DEF Unix!UnixAssumption

LEMMA FlagsOfUnix ==
    /\ Unix!Init => UnixFlags
    /\ UnixFlags /\ (Unix!Next \/ UNCHANGED Unix!vars) => UnixFlags'
<1>1. Unix!Init => UnixFlags
  BY Zenon DEF Unix!Init, UnixFlags
<1>2. ASSUME UnixFlags, Unix!Next \/ UNCHANGED Unix!vars PROVE UnixFlags'
  BY <1>2, Zenon DEF UnixFlags, Unix!Next, Unix!vars, Unix!PinCpu, Unix!Setup, Unix!BeginRound,
     Unix!Send, Unix!Recv, Unix!Probe, Unix!Judge, Unix!Cleanup
<1> QED
  BY <1>1, <1>2

LEMMA InitUnix == Unix!Init => UnixInv
<1> SUFFICES ASSUME Unix!Init PROVE UnixInv
  OBVIOUS
<1>1. opt.rounds \in Nat \ {0} /\ opt.warmups \in Nat /\ opt.messages \in Nat
  BY UnixConstants DEF Unix!Init, Unix!Options
<1>2. /\ pc = "pin" /\ rc = 1 /\ base = 0 /\ slot = 0 /\ round = 0 /\ rows = 0 /\ open = {}
      /\ queue = <<>> /\ got = <<>> /\ res = Unix!Zero
  BY DEF Unix!Init
<1>3. unpinned = FALSE /\ closedForeign = FALSE
  BY DEF Unix!Init
<1>4. queue \in Seq(UnixMessages) /\ got \in Seq(Int \X Int) /\ res \in Results
  BY <1>2, EmptySeq DEF Unix!Zero, Results
<1> QED
  BY <1>1, <1>2, <1>3, <1>4, UnixConstants DEF UnixInv, UnixTypes, SocketsInv, RowsInv, QueueInv

LEMMA PairsClose == Unix!Closes(<<3, 4>>) = {3, 4} /\ Unix!Closes(<<-1, -1>>) = {}
<1>1. \A a, b : Unix!ToSet(<<a, b>>) = {a, b}
  BY DEF Unix!ToSet
<1>2. Unix!ToSet(<<3, 4>>) = {3, 4} /\ Unix!ToSet(<<-1, -1>>) = {-1}
  BY <1>1
<1> QED
  BY <1>2 DEF Unix!Closes

LEMMA EndsKeepUnix ==
    ASSUME UnixFlags, UnixInv, Unix!PinCpu \/ Unix!Setup \/ Unix!Cleanup
    PROVE  UnixInv'
<1>1. CASE Unix!PinCpu
  <2>1. /\ pc = "pin"
        /\ UNCHANGED <<opt, rc, base, slot, round, res, rows, sockets, open, queue, got, closedForeign>>
        /\ \/ pc' = "setup" /\ unpinned' = unpinned
           \/ pc' = "out" /\ unpinned' = TRUE
    BY <1>1 DEF Unix!PinCpu, Unix!Goto
  <2>2. UnixTypes'
    BY <2>1 DEF UnixInv, UnixTypes
  <2>3. SocketsInv'
    BY <2>1 DEF UnixInv, SocketsInv
  <2>4. RowsInv' /\ QueueInv'
    BY <2>1 DEF UnixInv, RowsInv, QueueInv
  <2> QED
    BY <2>2, <2>3, <2>4 DEF UnixInv
<1>2. CASE Unix!Setup
  <2>1. /\ pc = "setup"
        /\ UNCHANGED <<opt, rc, base, slot, round, res, rows, queue, got, closedForeign, unpinned>>
        /\ \/ pc' \in {"round", "out"} /\ sockets' = <<3, 4>> /\ open' = {3, 4}
           \/ pc' = "out" /\ sockets' = <<-1, -1>> /\ open' = open
    BY <1>2 DEF Unix!Setup, Unix!Goto
  <2>2. UnixTypes'
    BY <2>1 DEF UnixInv, UnixTypes
  <2>3. SocketsInv'
    BY <2>1 DEF UnixInv, SocketsInv
  <2>4. RowsInv' /\ QueueInv'
    BY <2>1 DEF UnixInv, RowsInv, QueueInv
  <2> QED
    BY <2>2, <2>3, <2>4 DEF UnixInv
<1>3. CASE Unix!Cleanup
  <2>1. /\ pc = "out" /\ pc' = "done"
        /\ open' = open \ Unix!Closes(sockets)
        /\ UNCHANGED <<opt, rc, base, slot, round, res, rows, sockets, queue, got, unpinned>>
    BY <1>3 DEF Unix!Cleanup, Unix!Goto
  <2>2. UnixTypes'
    BY <2>1 DEF UnixInv, UnixTypes
  <2>3. SocketsInv'
    <3>1. unpinned = FALSE => Unix!Closes(sockets) = open
      BY <2>1, PairsClose DEF UnixInv, SocketsInv
    <3>2. unpinned = FALSE => closedForeign' = FALSE
      BY <1>3, <3>1 DEF Unix!Cleanup
    <3> QED
      BY <2>1, <3>1, <3>2 DEF UnixInv, SocketsInv
  <2>4. RowsInv' /\ QueueInv'
    BY <2>1 DEF UnixInv, RowsInv, QueueInv
  <2> QED
    BY <2>2, <2>3, <2>4 DEF UnixInv
<1> QED
  BY <1>1, <1>2, <1>3

LEMMA BeginKeepsUnix ==
    ASSUME UnixInv, Unix!BeginRound
    PROVE  UnixInv'
<1>1. /\ pc = "round" /\ pc' = "send" /\ base' = 0 /\ res' = Unix!Zero /\ got' = <<>>
      /\ UNCHANGED <<opt, rc, slot, round, rows, sockets, open, queue, closedForeign, unpinned>>
  BY DEF Unix!BeginRound, Unix!Goto
<1>2. got' \in Seq(Int \X Int) /\ Len(got') = 0 /\ res' \in Results
      /\ res'.messages + res'.bad_lengths = 0
  BY <1>1, EmptySeq DEF Unix!Zero, Results
<1>3. UnixTypes'
  BY <1>1, <1>2 DEF UnixInv, UnixTypes
<1>4. SocketsInv'
  BY <1>1 DEF UnixInv, SocketsInv
<1>5. RowsInv'
  BY <1>1 DEF UnixInv, RowsInv
<1>6. InOrder(got, 0)'
  BY <1>2 DEF InOrder
<1>7. QueueInv'
  BY <1>1, <1>2, <1>6 DEF UnixInv, QueueInv
<1> QED
  BY <1>3, <1>4, <1>5, <1>7 DEF UnixInv

\* What a batch is in the queue, whole and with one message suffering.
LEMMA BatchIs ==
    ASSUME base \in Nat, round \in Nat
    PROVE  /\ Unix!Batch \in Seq(UnixMessages) /\ Len(Unix!Batch) = BATCH_SIZE
           /\ \A n \in 1..BATCH_SIZE : Unix!Batch[n].id = <<round, base + n - 1>>
<1>1. BATCH_SIZE \in Nat \ {0} /\ PATTERNS \in Nat \ {0}
  BY UnixConstants
<1>2. \A n \in 1..BATCH_SIZE :
         /\ Unix!Message(n - 1).id = <<round, base + (n - 1)>>
         /\ Unix!Message(n - 1) \in UnixMessages
  <2> TAKE n \in 1..BATCH_SIZE
  <2>1. base + (n - 1) \in Int /\ Unix!Pattern(base + (n - 1)) \in Int
    BY <1>1 DEF Unix!Pattern
  <2> QED
    BY <2>1 DEF Unix!Message, UnixMessages
<1>3. Unix!Batch \in [1..BATCH_SIZE -> UnixMessages]
  BY <1>2 DEF Unix!Batch
<1>4. Unix!Batch \in Seq(UnixMessages) /\ Len(Unix!Batch) = BATCH_SIZE
  BY <1>1, <1>3
<1>5. \A n \in 1..BATCH_SIZE : Unix!Batch[n] = Unix!Message(n - 1)
  BY DEF Unix!Batch
<1>6. \A n \in 1..BATCH_SIZE : <<round, base + (n - 1)>> = <<round, base + n - 1>>
  OBVIOUS
<1> QED
  BY <1>2, <1>4, <1>5, <1>6

LEMMA SufferingIs ==
    ASSUME base \in Nat, round \in Nat, NEW s \in Unix!Suffering
    PROVE  /\ s \in Seq(UnixMessages)
           /\ Len(s) = BATCH_SIZE =>
                \A n \in 1..BATCH_SIZE : s[n].id = <<round, base + n - 1>>
<1> DEFINE b == Unix!Batch
<1>1. PICK p \in 1..BATCH_SIZE :
         s \in {Unix!RemoveAt(b, p), Unix!InsertAt(b, p, b[p]), [b EXCEPT ![p] = Unix!Damaged(@)]}
  BY DEF Unix!Suffering
<1>2. /\ b \in Seq(UnixMessages) /\ Len(b) = BATCH_SIZE
      /\ \A n \in 1..BATCH_SIZE : b[n].id = <<round, base + n - 1>>
  BY BatchIs
<1>3. BATCH_SIZE \in Nat \ {0} /\ PATTERNS \in Nat \ {0} /\ p \in Int /\ 1 <= p /\ p <= BATCH_SIZE
  BY UnixConstants
<1> HIDE DEF b
<1>4. b[p] \in UnixMessages /\ \A n \in 1..BATCH_SIZE : b[n] \in UnixMessages
  BY <1>2, <1>3, ElementOfSeq
<1> DEFINE front == SubSeq(b, 1, p - 1)
           rest  == SubSeq(b, p, BATCH_SIZE)
           after == SubSeq(b, p + 1, BATCH_SIZE)
<1>5. front \in Seq(UnixMessages) /\ Len(front) = p - 1
  <2>1. \A n \in 1..(p - 1) : b[n] \in UnixMessages
    BY <1>3, <1>4
  <2> QED
    BY <1>3, <2>1, SubSeqProperties
<1>6. rest \in Seq(UnixMessages) /\ Len(rest) = BATCH_SIZE - p + 1
  <2>1. \A n \in p..BATCH_SIZE : b[n] \in UnixMessages
    BY <1>3, <1>4
  <2> QED
    BY <1>3, <2>1, SubSeqProperties
<1>7. after \in Seq(UnixMessages) /\ Len(after) = BATCH_SIZE - p
  <2>1. \A n \in (p + 1)..BATCH_SIZE : b[n] \in UnixMessages
    BY <1>3, <1>4
  <2>2. after \in Seq(UnixMessages)
        /\ Len(after) = IF p + 1 <= BATCH_SIZE THEN BATCH_SIZE - (p + 1) + 1 ELSE 0
    BY <1>3, <2>1, SubSeqProperties
  <2> QED
    BY <1>3, <2>2
<1> HIDE DEF front, rest, after
<1>8. CASE s = Unix!RemoveAt(b, p)
  <2>1. s = front \o after
    BY <1>2, <1>8 DEF Unix!RemoveAt, front, after
  <2>2. s \in Seq(UnixMessages) /\ Len(s) = (p - 1) + (BATCH_SIZE - p)
    BY <1>5, <1>7, <2>1, ConcatProperties
  <2>3. Len(s) # BATCH_SIZE
    BY <1>3, <2>2
  <2> QED
    BY <2>2, <2>3
<1>9. CASE s = Unix!InsertAt(b, p, b[p])
  <2>1. s = front \o <<b[p]>> \o rest
    BY <1>2, <1>9 DEF Unix!InsertAt, front, rest
  <2>2. <<b[p]>> \in Seq(UnixMessages) /\ Len(<<b[p]>>) = 1
    BY <1>4
  <2>3. front \o <<b[p]>> \in Seq(UnixMessages) /\ Len(front \o <<b[p]>>) = (p - 1) + 1
    BY <1>5, <2>2, ConcatProperties
  <2> DEFINE head == front \o <<b[p]>>
  <2>4. head \in Seq(UnixMessages) /\ Len(head) = p /\ s = head \o rest
    BY <1>3, <2>1, <2>3
  <2> HIDE DEF head
  <2>6. s \in Seq(UnixMessages) /\ Len(s) = Len(head) + Len(rest)
    BY <1>6, <2>4, ConcatProperties
  <2>5. Len(s) # BATCH_SIZE
    BY <1>3, <1>6, <2>4, <2>6
  <2> QED
    BY <2>5, <2>6
<1>10. CASE s = [b EXCEPT ![p] = Unix!Damaged(@)]
  <2>1. Unix!Damaged(b[p]) \in UnixMessages /\ Unix!Damaged(b[p]).id = b[p].id
    BY <1>3, <1>4 DEF Unix!Damaged, UnixMessages
  <2>2. s = [b EXCEPT ![p] = Unix!Damaged(b[p])]
    BY <1>10
  <2>3. /\ s \in Seq(UnixMessages) /\ Len(s) = BATCH_SIZE
        /\ \A n \in 1..BATCH_SIZE : s[n] = IF n = p THEN Unix!Damaged(b[p]) ELSE b[n]
    BY <1>2, <2>1, <2>2, ExceptSeq
  <2>4. \A n \in 1..BATCH_SIZE : s[n].id = b[n].id
    BY <2>1, <2>3
  <2> QED
    BY <1>2, <2>3, <2>4
<1> QED
  BY <1>1, <1>8, <1>9, <1>10

\* What Send and Recv do to the counts.
LEMMA CountsOfSend ==
    ASSUME NEW old \in Results, NEW new, NEW bad \in Int,
           new = [old EXCEPT !.batches = @ + 1, !.bad_lengths = @ + bad,
                                    !.messages = @ + BATCH_SIZE - bad]
    PROVE  /\ new \in Results
           /\ new.messages + new.bad_lengths
                = old.messages + old.bad_lengths + BATCH_SIZE
<1> DEFINE v == old.messages + BATCH_SIZE - bad
<1>1. BATCH_SIZE \in Int
  BY UnixConstants
<1>2. v \in Int
  BY <1>1 DEF Results
<1>3. new = [old EXCEPT !.batches = @ + 1, !.bad_lengths = @ + bad, !.messages = v]
  OBVIOUS
<1> HIDE DEF v
<1>4. new \in Results
  <2> DEFINE b == old.batches + 1
             l == old.bad_lengths + bad
  <2>1. b \in Int /\ l \in Int
    BY DEF Results
  <2>2. new = [old EXCEPT !.batches = b, !.bad_lengths = l, !.messages = v]
    BY <1>3
  <2> HIDE DEF b, l
  <2> QED
    BY <1>2, <2>1, <2>2 DEF Results
<1>5. new.messages = v /\ new.bad_lengths = old.bad_lengths + bad
  BY <1>3 DEF Results
<1>6. old.messages \in Int /\ old.bad_lengths \in Int
  BY DEF Results
<1> QED
  BY <1>1, <1>4, <1>5, <1>6 DEF v

LEMMA CountsOfRecv ==
    ASSUME NEW old \in Results, NEW new,
           new = [old EXCEPT !.mismatches = @ + 1]
    PROVE  /\ new \in Results /\ new.messages = old.messages
           /\ new.bad_lengths = old.bad_lengths
  BY DEF Results

LEMMA SendKeepsUnix ==
    ASSUME UnixInv, Unix!Send
    PROVE  UnixInv'
<1>1. /\ pc = "send" /\ slot' = 0 /\ queue = <<>>
      /\ base \in Nat /\ round \in Nat /\ res \in Results /\ Len(got) = base /\ InOrder(got, 0)
      /\ res.messages + res.bad_lengths = base
      /\ BATCH_SIZE \in Nat \ {0}
      /\ UNCHANGED <<opt, rc, base, round, rows, sockets, open, got, closedForeign, unpinned>>
  BY UnixConstants DEF Unix!Send, UnixInv, UnixTypes, QueueInv
<1>2. \A s \in Seq(UnixMessages) : queue \o s = s
  BY <1>1, ConcatEmptySeq
<1>3. SocketsInv' /\ RowsInv' /\ InOrder(got, 0)'
  <2>1. pc' \in {"recv", "out"}
    BY DEF Unix!Send, Unix!Goto
  <2>2. InOrder(got, 0)'
    BY <1>1 DEF InOrder
  <2>3. SocketsInv'
    BY <1>1, <2>1 DEF UnixInv, SocketsInv
  <2> QED
    BY <1>1, <2>1, <2>2, <2>3 DEF UnixInv, RowsInv
<1>4. CASE pc' = "recv"
  <2>1. PICK s : /\ s = Unix!Batch \/ s \in Unix!Suffering
                 /\ queue' = queue \o s
    BY <1>1, <1>4 DEF Unix!Send, Unix!Goto
  <2>2. /\ s \in Seq(UnixMessages)
        /\ Len(s) = BATCH_SIZE => \A n \in 1..BATCH_SIZE : s[n].id = <<round, base + n - 1>>
    BY <1>1, <2>1, BatchIs, SufferingIs
  <2>3. queue' = s
    BY <1>2, <2>1, <2>2
  <2>4. PICK bad \in {0, 1} : res' = [res EXCEPT !.batches = @ + 1, !.bad_lengths = @ + bad,
                                                !.messages = @ + BATCH_SIZE - bad]
    BY <1>4 DEF Unix!Send, Unix!Goto
  <2>5. res' \in Results /\ res'.messages + res'.bad_lengths = base + BATCH_SIZE
    <3>1. res' \in Results /\ res'.messages + res'.bad_lengths = (res.messages + res.bad_lengths) + BATCH_SIZE
      <4>1. bad \in Int
        OBVIOUS
      <4> QED
        BY <1>1, <2>4, <4>1, CountsOfSend
    <3> QED
      BY <1>1, <3>1
  <2>6. UnixTypes'
    BY <1>1, <1>4, <2>2, <2>3, <2>5 DEF UnixInv, UnixTypes
  <2>7. Len(queue') + slot' = BATCH_SIZE => QueueInOrder(base + slot)'
    <3>1. SUFFICES ASSUME Len(s) + 0 = BATCH_SIZE, NEW n \in 1..Len(s)
                   PROVE  s[n].id = <<round', (base' + slot') + n - 1>>
      BY <1>1, <2>3 DEF QueueInOrder
    <3>2. Len(s) = BATCH_SIZE /\ (base' + slot') + n - 1 = base + n - 1
      BY <1>1, <3>1
    <3> QED
      BY <1>1, <2>2, <3>2
  <2>8. QueueInv'
    BY <1>1, <1>3, <1>4, <2>5, <2>7 DEF QueueInv
  <2> QED
    BY <1>3, <2>6, <2>8 DEF UnixInv
<1>5. CASE pc' # "recv"
  <2>1. /\ pc' = "out"
        /\ \E n \in 0..(BATCH_SIZE - 1) : queue' = queue \o SubSeq(Unix!Batch, 1, n)
        /\ res' \in {res, [res EXCEPT !.eagain = @ + 1]}
    BY <1>5 DEF Unix!Send, Unix!Goto
  <2>2. queue' \in Seq(UnixMessages)
    <3>1. PICK n \in 0..(BATCH_SIZE - 1) : queue' = queue \o SubSeq(Unix!Batch, 1, n)
      BY <2>1
    <3>2. \A m \in 1..n : Unix!Batch[m] \in UnixMessages
      BY <1>1, BatchIs, ElementOfSeq
    <3>3. SubSeq(Unix!Batch, 1, n) \in Seq(UnixMessages)
      BY <1>1, <3>2, SubSeqProperties
    <3> QED
      BY <1>2, <3>1, <3>3
  <2>3. res' \in Results
    BY <1>1, <2>1 DEF Results
  <2>4. UnixTypes'
    BY <1>1, <2>1, <2>2, <2>3 DEF UnixInv, UnixTypes
  <2>5. QueueInv'
    BY <2>1 DEF QueueInv
  <2> QED
    BY <1>3, <2>4, <2>5 DEF UnixInv
<1> QED
  BY <1>4, <1>5

LEMMA RecvKeepsUnix ==
    ASSUME UnixInv, Unix!Recv
    PROVE  UnixInv'
<1>1. /\ pc = "recv" /\ slot < BATCH_SIZE /\ slot \in 0..BATCH_SIZE
      /\ base \in Nat /\ round \in Nat /\ res \in Results /\ BATCH_SIZE \in Nat \ {0}
      /\ queue \in Seq(UnixMessages) /\ got \in Seq(Int \X Int) /\ Len(got) = base + slot
      /\ Len(queue) + slot = BATCH_SIZE => InOrder(got, 0) /\ QueueInOrder(base + slot)
      /\ res.messages + res.bad_lengths = base + BATCH_SIZE
      /\ UNCHANGED <<opt, rc, base, round, rows, sockets, open, closedForeign, unpinned>>
  BY UnixConstants DEF Unix!Recv, UnixInv, UnixTypes, QueueInv
<1>2. SocketsInv' /\ RowsInv'
  <2>1. pc' \in {"recv", "out"}
    BY DEF Unix!Recv, Unix!Goto
  <2>2. SocketsInv'
    BY <1>1, <2>1 DEF UnixInv, SocketsInv
  <2> QED
    BY <1>1, <2>1, <2>2 DEF UnixInv, RowsInv
<1>3. CASE pc' = "out"
  <2>1. UNCHANGED <<queue, got, slot, res>>
    BY <1>3 DEF Unix!Recv, Unix!Goto
  <2>2. UnixTypes'
    BY <1>1, <1>3, <2>1 DEF UnixInv, UnixTypes
  <2>3. QueueInv'
    BY <1>3 DEF QueueInv
  <2> QED
    BY <1>2, <2>2, <2>3 DEF UnixInv
<1>4. CASE pc' # "out"
  <2>1. /\ queue # <<>> /\ queue' = Tail(queue) /\ got' = Append(got, Head(queue).id)
        /\ slot' = slot + 1 /\ pc' = "recv"
        /\ res' \in {res, [res EXCEPT !.mismatches = @ + 1]}
    BY <1>4 DEF Unix!Recv, Unix!Goto
  <2>2. Head(queue).id \in Int \X Int /\ Head(queue) = queue[1]
    <3>1. Head(queue) \in UnixMessages
      BY <1>1, <2>1, HeadTailProperties
    <3>2. Head(queue) = queue[1]
      BY <1>1, <2>1, HeadTailProperties
    <3> QED
      BY <3>1, <3>2 DEF UnixMessages
  <2>3. /\ queue' \in Seq(UnixMessages) /\ Len(queue') = Len(queue) - 1 /\ Len(queue) \in Nat
        /\ \A n \in 1..Len(queue') : queue'[n] = queue[n + 1]
    BY <1>1, <2>1, HeadTailProperties, LenProperties
  <2>4. /\ got' \in Seq(Int \X Int) /\ Len(got') = Len(got) + 1
        /\ \A n \in 1..Len(got) : got'[n] = got[n]
        /\ got'[Len(got) + 1] = Head(queue).id
    BY <1>1, <2>1, <2>2, AppendProperties
  <2>5. /\ res' \in Results /\ res'.messages + res'.bad_lengths = base + BATCH_SIZE
    <3>1. CASE res' = res
      BY <1>1, <3>1
    <3>2. CASE res' = [res EXCEPT !.mismatches = @ + 1]
      <4>1. res' \in Results /\ res'.messages = res.messages /\ res'.bad_lengths = res.bad_lengths
        BY <1>1, <3>2, CountsOfRecv
      <4> QED
        BY <1>1, <4>1
    <3> QED
      BY <2>1, <3>1, <3>2
  <2>6. ASSUME Len(queue') + slot' = BATCH_SIZE
        PROVE  InOrder(got, 0)' /\ QueueInOrder(base + slot)'
    <3>1. Len(queue) + slot = BATCH_SIZE /\ Len(queue) >= 1
      BY <1>1, <2>1, <2>3, <2>6
    <3>2. InOrder(got, 0) /\ QueueInOrder(base + slot)
      BY <1>1, <3>1
    <3>3. queue[1].id = <<round, base + slot + 1 - 1>>
      BY <1>1, <3>1, <3>2 DEF QueueInOrder
    <3>4. base + slot + 1 - 1 = 0 + Len(got')- 1 /\ Len(got') = Len(got) + 1
      BY <1>1, <2>4
    <3>5. InOrder(got, 0)'
      <4>1. SUFFICES ASSUME NEW n \in 1..Len(got') PROVE got'[n] = <<round, 0 + n - 1>>
        BY <1>1 DEF InOrder
      <4>2. CASE n = Len(got')
        BY <2>2, <2>4, <3>3, <3>4, <4>2
      <4>3. CASE n # Len(got')
        <5>1. n \in 1..Len(got)
          BY <1>1, <2>4, <4>3
        <5> QED
          BY <2>4, <3>2, <5>1 DEF InOrder
      <4> QED
        BY <4>2, <4>3
    <3>6. QueueInOrder(base + slot)'
      <4>1. SUFFICES ASSUME NEW n \in 1..Len(queue')
                     PROVE  queue'[n].id = <<round, (base + (slot + 1)) + n - 1>>
        BY <1>1, <2>1 DEF QueueInOrder
      <4>2. n + 1 \in 1..Len(queue) /\ (base + (slot + 1)) + n - 1 = (base + slot) + (n + 1) - 1
        BY <1>1, <2>3
      <4>3. queue[n + 1].id = <<round, (base + slot) + (n + 1) - 1>>
        BY <3>2, <4>2 DEF QueueInOrder
      <4> QED
        BY <2>3, <4>2, <4>3
    <3> QED
      BY <3>5, <3>6
  <2>7. UnixTypes'
    BY <1>1, <2>1, <2>3, <2>4, <2>5 DEF UnixInv, UnixTypes
  <2>8. Len(got') = base' + slot'
    BY <1>1, <2>1, <2>4
  <2>9. QueueInv'
    BY <1>1, <2>1, <2>5, <2>6, <2>8 DEF QueueInv
  <2> QED
    BY <1>2, <2>7, <2>9 DEF UnixInv
<1> QED
  BY <1>3, <1>4

LEMMA ProbeKeepsUnix ==
    ASSUME UnixInv, Unix!Probe
    PROVE  UnixInv'
<1>1. /\ pc = "recv" /\ slot = BATCH_SIZE /\ BATCH_SIZE \in Nat \ {0} /\ base \in Nat
      /\ queue \in Seq(UnixMessages) /\ Len(got) = base + slot
      /\ Len(queue) + slot = BATCH_SIZE => InOrder(got, 0)
      /\ res.messages + res.bad_lengths = base + BATCH_SIZE
      /\ UNCHANGED <<opt, rc, slot, round, res, rows, sockets, open, got, closedForeign, unpinned>>
  BY UnixConstants DEF Unix!Probe, UnixInv, UnixTypes, QueueInv
<1>2. \/ queue = <<>> /\ queue' = queue /\ base' = base + BATCH_SIZE /\ pc' \in {"send", "judge"}
      \/ queue # <<>> /\ queue' = Tail(queue) /\ base' = base /\ pc' = "out"
  BY DEF Unix!Probe, Unix!Goto
<1>3. SocketsInv' /\ RowsInv'
  <2>1. SocketsInv'
    BY <1>1, <1>2 DEF UnixInv, SocketsInv
  <2> QED
    BY <1>1, <1>2, <2>1 DEF UnixInv, RowsInv
<1>4. queue' \in Seq(UnixMessages)
  BY <1>1, <1>2, HeadTailProperties
<1>7. base' \in Nat /\ pc' \in {"send", "judge", "out"}
  BY <1>1, <1>2
<1>5. UnixTypes'
  BY <1>1, <1>4, <1>7 DEF UnixInv, UnixTypes
<1>6. QueueInv'
  <2>1. CASE queue = <<>>
    <3>1. Len(queue) = 0
      BY <2>1
    <3>2. InOrder(got, 0)
      BY <1>1, <3>1
    <3>3. InOrder(got, 0)'
      BY <1>1, <3>2 DEF InOrder
    <3> QED
      BY <1>1, <1>2, <2>1, <3>3 DEF QueueInv
  <2>2. CASE queue # <<>>
    BY <1>2, <2>2 DEF QueueInv
  <2> QED
    BY <2>1, <2>2
<1> QED
  BY <1>3, <1>5, <1>6 DEF UnixInv

LEMMA JudgeKeepsUnix ==
    ASSUME UnixInv, Unix!Judge
    PROVE  UnixInv'
<1> DEFINE last == opt.warmups + opt.rounds
<1>1. /\ pc = "judge" /\ opt.rounds \in Nat \ {0} /\ opt.warmups \in Nat
      /\ round \in Nat /\ rows \in Nat /\ rc = 1 /\ round <= last /\ queue = <<>>
      /\ rows = IF round > opt.warmups THEN round - opt.warmups - 1 ELSE 0
      /\ UNCHANGED <<opt, base, slot, res, sockets, open, queue, got, closedForeign, unpinned>>
  BY DEF Unix!Judge, UnixInv, UnixTypes, RowsInv, QueueInv
<1>2. \/ /\ rows' = IF round > opt.warmups THEN rows + 1 ELSE rows
         /\ round' = round + 1
         /\ \/ round = last /\ rc' = 0 /\ pc' = "out"
            \/ round # last /\ rc' = rc /\ pc' = "round"
      \/ pc' = "out" /\ UNCHANGED <<rows, round, rc>>
  BY DEF Unix!Judge, Unix!Goto, Unix!Measured, Unix!LastRound
<1>3. RowsInv' /\ round' \in Nat /\ rows' \in Nat /\ rc' \in {0, 1}
  <2>1. round' \in Nat /\ rows' \in Nat /\ rc' \in {0, 1}
    BY <1>1, <1>2
  <2>2. opt'.rounds = opt.rounds /\ opt'.warmups = opt.warmups
    BY <1>1
  <2>3. CASE pc' = "round"
    <3>1. /\ round' = round + 1 /\ rc' = 1 /\ round # last
          /\ rows' = IF round > opt.warmups THEN rows + 1 ELSE rows
      BY <1>1, <1>2, <2>3
    <3>2. round + 1 <= last
      BY <1>1, <3>1
    <3>3. rows' = IF round + 1 > opt.warmups THEN round + 1 - opt.warmups - 1 ELSE 0
      BY <1>1, <3>1
    <3> QED
      BY <1>1, <2>2, <2>3, <3>1, <3>2, <3>3 DEF RowsInv
  <2>4. CASE pc' = "out"
    <3>1. rc' = 0 => rows' = opt.rounds
      BY <1>1, <1>2
    <3> QED
      BY <2>1, <2>2, <2>4, <3>1 DEF RowsInv
  <2> QED
    BY <1>2, <2>1, <2>3, <2>4
<1>4. SocketsInv'
  BY <1>1, <1>2 DEF UnixInv, SocketsInv
<1>5. UnixTypes'
  BY <1>1, <1>2, <1>3 DEF UnixInv, UnixTypes
<1>6. QueueInv'
  BY <1>1, <1>2 DEF QueueInv
<1> QED
  BY <1>3, <1>4, <1>5, <1>6 DEF UnixInv

LEMMA NextKeepsUnix ==
    UnixFlags /\ UnixInv /\ (Unix!Next \/ UNCHANGED Unix!vars) => UnixInv'
<1> SUFFICES ASSUME UnixFlags, UnixInv, Unix!Next \/ UNCHANGED Unix!vars PROVE UnixInv'
  OBVIOUS
<1>1. CASE UNCHANGED Unix!vars
  <2>1. UnixTypes' /\ SocketsInv'
    BY <1>1 DEF Unix!vars, UnixInv, UnixTypes, SocketsInv
  <2>2. RowsInv' /\ QueueInv'
    BY <1>1 DEF Unix!vars, UnixInv, RowsInv, QueueInv, InOrder, QueueInOrder
  <2> QED
    BY <2>1, <2>2 DEF UnixInv
<1> QED
  BY <1>1, EndsKeepUnix, BeginKeepsUnix, SendKeepsUnix, RecvKeepsUnix, ProbeKeepsUnix,
     JudgeKeepsUnix DEF Unix!Next

LEMMA UnixInvMeans == UnixFlags /\ UnixInv => Unix!ClosesItsOwn /\ Unix!RowsEarned
<1> SUFFICES ASSUME UnixFlags, UnixInv PROVE Unix!ClosesItsOwn /\ Unix!RowsEarned
  OBVIOUS
<1>1. Unix!ClosesItsOwn
  BY DEF UnixFlags, UnixInv, SocketsInv, Unix!ClosesItsOwn
<1>2. rc = 0 => rows = opt.rounds
  BY DEF UnixInv, RowsInv
<1>3. ASSUME pc = "judge", Unix!Passed
      PROVE  got = [n \in 1..Unix!RoundMessages |-> <<round, n - 1>>] /\ queue = <<>>
  <2>1. queue = <<>> /\ Len(got) = base /\ InOrder(got, 0) /\ got \in Seq(Int \X Int)
        /\ res.messages + res.bad_lengths = base /\ res \in Results
    BY <1>3 DEF UnixInv, UnixTypes, QueueInv
  <2>2. res.messages = Unix!RoundMessages /\ res.bad_lengths = 0
    BY <1>3 DEF Unix!Passed
  <2>3. Len(got) = Unix!RoundMessages
    BY <2>1, <2>2 DEF Results
  <2>4. DOMAIN got = 1..Unix!RoundMessages /\ got = [n \in DOMAIN got |-> got[n]]
    BY <2>1, <2>3, LenProperties
  <2>5. \A n \in 1..Unix!RoundMessages : got[n] = <<round, n - 1>>
    <3> TAKE n \in 1..Unix!RoundMessages
    <3>1. got[n] = <<round, 0 + n - 1>> /\ n \in Int
      BY <2>1, <2>3 DEF InOrder
    <3>2. 0 + n - 1 = n - 1
      BY <3>1
    <3> QED
      BY <3>1, <3>2
  <2> QED
    BY <2>1, <2>4, <2>5
<1> QED
  BY <1>1, <1>2, <1>3 DEF Unix!RowsEarned


-----------------------------------------------------------------------------
(* The remap benchmark: lengths and offsets                                *)

LEMMA DivMod ==
    ASSUME NEW x \in Nat, NEW n \in Nat \ {0}
    PROVE  x \div n \in Nat /\ x % n \in 0..n-1 /\ x = n * (x \div n) + (x % n)
  OBVIOUS

LEMMA SmallMod == ASSUME NEW x \in Nat, NEW n \in Nat \ {0}, x < n PROVE x % n = x
  OBVIOUS

LEMMA ProductsGrow ==
    ASSUME NEW a \in Nat, NEW b \in Nat, NEW c \in Nat, a <= b PROVE a * c <= b * c
  OBVIOUS

LEMMA RemapConstants ==
    /\ PAGE \in Nat \ {0} /\ WORD \in Nat \ {0}
    /\ Remap!OffMax \in Int /\ Remap!OffMax < WORD
    /\ Ops \subseteq Nat \ {0} /\ Ranges \subseteq Nat \ {0}
<1>1. /\ PAGE \in Nat \ {0} /\ WORD \in Nat \ {0} /\ Ops \subseteq 1..WORD-1
      /\ Ranges \subseteq 1..WORD-1
  BY ProgramsAssumption DEF Remap!RemapAssumption
<1>2. WORD \div 2 - 1 \in Int /\ WORD \div 2 - 1 < WORD
  BY <1>1
<1> QED
  BY <1>1, <1>2 DEF Remap!OffMax

\* Arguments that pass the checks: the last byte of the last range has an
\* offset, the lengths of both files are computed without a wrap.
LEMMA RangesFit ==
    ASSUME ops \in Nat \ {0}, range_bytes \in Nat \ {0}, Remap!ArgsOk
    PROVE  /\ ops * range_bytes \in Nat /\ ops * range_bytes <= Remap!OffMax
           /\ Remap!Pages * PAGE = ops * range_bytes
           /\ (Remap!Pages * PAGE) % WORD = ops * range_bytes
           /\ \A n \in Nat : n < ops =>
                /\ (n * range_bytes) % WORD = n * range_bytes
                /\ n * range_bytes + range_bytes <= ops * range_bytes
<1> DEFINE most == Remap!OffMax \div range_bytes
           q    == range_bytes \div PAGE
<1>1. /\ PAGE \in Nat \ {0} /\ WORD \in Nat \ {0}
      /\ Remap!OffMax \in Int /\ Remap!OffMax < WORD
  BY RemapConstants
<1>2. range_bytes % PAGE = 0 /\ ops <= most
  BY DEF Remap!ArgsOk
<1>3. range_bytes = PAGE * q /\ q \in Nat
  BY <1>1, <1>2, DivMod
<1>4. Remap!OffMax \in Nat
  <2>1. SUFFICES ASSUME Remap!OffMax < 0 PROVE FALSE
    BY <1>1
  <2>2. most < 0 /\ most \in Int
    BY <1>1, <2>1
  <2> QED
    BY <1>2, <2>2
<1>5. most \in Nat /\ range_bytes * most <= Remap!OffMax
  <2>1. /\ most \in Nat /\ Remap!OffMax % range_bytes \in 0..range_bytes-1
        /\ Remap!OffMax = range_bytes * most + (Remap!OffMax % range_bytes)
    BY <1>4, DivMod
  <2> HIDE DEF most
  <2> QED
    BY <1>4, <2>1
<1> HIDE DEF most, q
<1>6. ops * range_bytes \in Nat /\ ops * range_bytes <= Remap!OffMax
  <2>1. ops * range_bytes <= most * range_bytes
    BY <1>2, <1>5, ProductsGrow
  <2> QED
    BY <1>4, <1>5, <2>1
<1>7. ops * q \in Nat /\ (ops * q) * PAGE = ops * range_bytes /\ ops * q <= ops * range_bytes
  <2>1. ops * q \in Nat /\ (ops * q) * PAGE = ops * (PAGE * q)
    BY <1>1, <1>3
  <2>2. (ops * q) * 1 <= (ops * q) * PAGE
    BY <1>1, <2>1
  <2> QED
    BY <1>3, <2>1, <2>2
<1>8. Remap!Pages = ops * q
  <2>1. ops * q < WORD
    BY <1>1, <1>6, <1>7
  <2>2. (ops * q) % WORD = ops * q
    BY <1>1, <1>7, <2>1, SmallMod
  <2> QED
    BY <2>2 DEF Remap!Pages, q
<1>9. (ops * range_bytes) % WORD = ops * range_bytes
  BY <1>1, <1>6, SmallMod
<1>10. ASSUME NEW n \in Nat, n < ops
       PROVE  /\ (n * range_bytes) % WORD = n * range_bytes
              /\ n * range_bytes + range_bytes <= ops * range_bytes
  <2>1. (n + 1) * range_bytes <= ops * range_bytes
    BY <1>10, ProductsGrow
  <2>2. n * range_bytes \in Nat /\ (n + 1) * range_bytes = n * range_bytes + range_bytes
    OBVIOUS
  <2>3. n * range_bytes < WORD
    BY <1>1, <1>6, <2>1, <2>2
  <2>4. (n * range_bytes) % WORD = n * range_bytes
    BY <1>1, <2>2, <2>3, SmallMod
  <2> QED
    BY <2>1, <2>2, <2>4
<1> QED
  BY <1>6, <1>7, <1>8, <1>9, <1>10

-----------------------------------------------------------------------------
(* The remap benchmark: its run, and perf                                  *)

\* Before the loop is counted, while and after.
Preparing == {"next", "src", "dst", "before", "enable"}
Running   == Preparing \cup {"loop", "disable", "after", "row"}
ToLoop  == pc = "await" /\ awaited = "loop"
ToAfter == pc = "await" /\ awaited = "after"
Scenario == {"clone", "dedupe"}
RowRecords == [op : Scenario, ratio : {0, 100}, good : Nat]

RemapFlags == alive \in BOOLEAN /\ counting \in BOOLEAN

RemapTypes ==
    /\ pc \in Running \cup {"start", "perf", "await", "done"}
    /\ ops \in Nat \ {0} /\ range_bytes \in Nat \ {0} /\ fifos \in 0..2
    /\ scenario \in Seq(Scenario) /\ todo \in Seq(Scenario) /\ rows \in Seq(RowRecords)
    /\ faults \in Nat /\ code \in Nat
    /\ size \in [{"src", "dst"} -> Int]
    /\ pc = "await" => awaited \in {"loop", "after"}
    /\ pc \notin {"start", "done"} => Remap!ArgsOk

\* How a run ends.
EndInv ==
    /\ pc = "done" /\ code = 0 => size = Remap!NoFiles /\ todo = <<>>
    /\ pc = "done" /\ code \notin {0, 2} => faults > 0
    /\ pc # "done" => code = 0

\* The scenarios done and to be done make up those selected.
Covered ==
    /\ Len(rows) + Len(todo) = Len(scenario)
    /\ \A n \in 1..Len(rows) : rows[n].op = scenario[n]
    /\ \A n \in 1..Len(todo) : todo[n] = scenario[Len(rows) + n]

ScenarioInv ==
    /\ pc \in {"start", "perf"} => rows = <<>> /\ todo = <<>>
    /\ pc \in Running \cup {"await"} \/ (pc = "done" /\ code = 0) => Covered
    /\ pc \in (Running \ {"next"}) \cup {"await"} => todo # <<>>

LoopInv ==
    /\ i \in Nat /\ good \in Nat /\ unexpected \in Nat
    /\ good + unexpected = i /\ i <= ops
    /\ unexpected > 0 => faults > 0
    /\ pc \in {"disable", "after", "row"} \/ ToAfter => i = ops
    /\ pc \in {"dst", "before", "enable", "loop"} \/ ToLoop => size["src"] = ops * range_bytes
    /\ pc \in {"before", "enable", "loop"} \/ ToLoop => size["dst"] = ops * range_bytes

RatiosInv ==
    \A n \in 1..Len(rows) :
        /\ rows[n].ratio = 100 <=> rows[n].good = ops
        /\ rows[n].ratio = 0 => faults > 0

\* The command perf has not handled yet, or its answer, or neither where it
\* died; nothing is in the FIFOs unless the program waits.
AwaitInv ==
    \/ /\ ctl = <<IF awaited = "loop" THEN "enable" ELSE "disable">> /\ ack = <<>>
       /\ alive = TRUE /\ (awaited = "loop" => counting = FALSE)
    \/ /\ ctl = <<>> /\ ack \in {<<"ack">>, <<"error">>}
       /\ ack = <<"error">> => faults > 0
       /\ awaited = "loop" /\ alive = TRUE => counting = TRUE
       /\ awaited = "after" => counting = FALSE
    \/ ctl = <<>> /\ ack = <<>> /\ alive = FALSE /\ counting = FALSE

PerfInv ==
    /\ fifos = 2 /\ alive = FALSE => faults > 0
    /\ alive = FALSE => counting = FALSE
    /\ fifos # 2 => counting = FALSE /\ ctl = <<>>
    /\ pc \in Running \cup {"start", "perf"} => ctl = <<>> /\ ack = <<>>
    /\ pc \in {"loop", "disable"} /\ fifos = 2 /\ alive = TRUE => counting = TRUE
    /\ pc \in {"start", "perf", "after", "row"} \cup Preparing => counting = FALSE
    /\ pc = "await" => fifos = 2 /\ AwaitInv

RemapInv ==
    RemapTypes /\ EndInv /\ ScenarioInv /\ LoopInv /\ RatiosInv /\ PerfInv

LEMMA FlagsOfRemap ==
    /\ Remap!Init => RemapFlags
    /\ RemapFlags /\ (Remap!Next \/ UNCHANGED Remap!vars) => RemapFlags'
<1>1. Remap!Init => RemapFlags
  <2>1. Remap!Init => alive = (fifos > 0) /\ counting = FALSE
    BY Zenon DEF Remap!Init
  <2>2. (fifos > 0) \in BOOLEAN
    OBVIOUS
  <2> QED
    BY <2>1, <2>2, Zenon DEF RemapFlags
<1>2. ASSUME RemapFlags, Remap!Next \/ UNCHANGED Remap!vars PROVE RemapFlags'
  BY <1>2, Zenon DEF RemapFlags, Remap!Next, Remap!Main, Remap!vars, Remap!perf, Remap!Start,
     Remap!PerfInit, Remap!NextScenario, Remap!MakeFile, Remap!ReadStats, Remap!Send,
     Remap!TimesOut, Remap!HangUp, Remap!ReadAck, Remap!Remap, Remap!LoopEnds,
     Remap!EmitResult, Remap!PerfHandles, Remap!PerfDies
<1> QED
  BY <1>1, <1>2

LEMMA InitRemap == Remap!Init => RemapInv
<1> SUFFICES ASSUME Remap!Init PROVE RemapInv
  OBVIOUS
<1>1. /\ pc = "start" /\ todo = <<>> /\ i = 0 /\ size = Remap!NoFiles /\ unexpected = 0
      /\ rows = <<>> /\ code = 0 /\ ctl = <<>> /\ ack = <<>> /\ good = 0 /\ faults = 0
      /\ ops \in Nat \ {0} /\ range_bytes \in Nat \ {0} /\ scenario \in Remap!Scenarios
      /\ fifos \in 0..2
  BY RemapConstants DEF Remap!Init
<1>2. counting = FALSE /\ (fifos = 2 => alive = TRUE)
  <2>1. counting = FALSE /\ alive = (fifos > 0)
    BY DEF Remap!Init
  <2>2. fifos = 2 => fifos > 0
    OBVIOUS
  <2> QED
    BY <2>1, <2>2, Zenon
<1>3. scenario \in Seq(Scenario) /\ todo \in Seq(Scenario) /\ rows \in Seq(RowRecords)
  <2>1. <<"clone", "dedupe">> \in Seq(Scenario) /\ <<"clone">> \in Seq(Scenario)
        /\ <<"dedupe">> \in Seq(Scenario)
    BY DEF Scenario
  <2>2. scenario \in {<<"clone", "dedupe">>, <<"clone">>, <<"dedupe">>}
    BY <1>1 DEF Remap!Scenarios
  <2>3. scenario \in Seq(Scenario)
    BY <2>1, <2>2, Zenon
  <2> QED
    BY <1>1, <2>3, EmptySeq
<1>4. RemapTypes
  BY <1>1, <1>3 DEF RemapTypes, Remap!NoFiles
<1>5. EndInv /\ ScenarioInv /\ LoopInv /\ RatiosInv
  BY <1>1 DEF EndInv, ScenarioInv, LoopInv, RatiosInv, Running, Preparing, ToLoop, ToAfter
<1>6. PerfInv
  BY <1>1, <1>2 DEF PerfInv, Preparing
<1> QED
  BY <1>4, <1>5, <1>6 DEF RemapInv

\* Calls that go wrong are never forgotten.
LEMMA FaultsGrow ==
    ASSUME RemapInv, Remap!Next \/ UNCHANGED Remap!vars
    PROVE  faults \in Nat /\ faults' \in Nat /\ faults' >= faults
<1>1. faults \in Nat
  BY DEF RemapInv, RemapTypes
<1>2. CASE UNCHANGED Remap!vars
  BY <1>1, <1>2 DEF Remap!vars
<1>3. ASSUME Remap!Fine \/ Remap!Fault \/ faults' = faults + 1
      PROVE  faults' \in Nat /\ faults' >= faults
  BY <1>1, <1>3 DEF Remap!Fine, Remap!Fault
<1>4. CASE Remap!Next
  <2>1. Remap!Fine \/ Remap!Fault \/ faults' = faults + 1
    BY <1>4, Zenon DEF Remap!Next, Remap!Main, Remap!Start, Remap!PerfInit,
       Remap!NextScenario, Remap!MakeFile, Remap!ReadStats, Remap!Send,
       Remap!TimesOut, Remap!HangUp, Remap!ReadAck, Remap!Remap, Remap!LoopEnds,
       Remap!EmitResult, Remap!PerfHandles, Remap!PerfDies
  <2> QED
    BY <1>1, <1>3, <2>1
<1> QED
  BY <1>1, <1>2, <1>4

\* What a step leaves alone where it changes neither rows nor the loop's counts.
LEMMA QuietStep ==
    ASSUME RemapInv, faults' \in Nat, faults' >= faults,
           UNCHANGED <<ops, range_bytes, scenario, fifos, todo, rows, size, i, good, unexpected>>,
           \/ pc' = "done"
           \/ pc \in (Running \ {"next"}) \cup {"await"} /\ pc' \in (Running \ {"next"}) \cup {"await"},
           code' \in Nat, pc' = "await" => awaited' \in {"loop", "after"},
           pc' = "done" => code' # 0 /\ (code' # 2 => faults' > 0), pc' # "done" => code' = 0,
           pc' \in {"disable", "after", "row"} \/ ToAfter' =>
             pc \in {"disable", "after", "row"} \/ ToAfter \/ i = ops,
           pc' \in {"dst", "before", "enable", "loop"} \/ ToLoop' =>
             pc \in {"dst", "before", "enable", "loop"} \/ ToLoop,
           pc' \in {"before", "enable", "loop"} \/ ToLoop' =>
             pc \in {"before", "enable", "loop"} \/ ToLoop
    PROVE  RemapTypes' /\ EndInv' /\ ScenarioInv' /\ LoopInv' /\ RatiosInv'
<1>1. Remap!ArgsOk' = Remap!ArgsOk
  BY DEF Remap!ArgsOk
<1>2. RemapTypes'
  BY <1>1 DEF RemapInv, RemapTypes, Running, Preparing
<1>3. EndInv'
  BY DEF EndInv
<1>4. ScenarioInv'
  <2>1. Covered' = Covered
    BY DEF Covered
  <2> QED
    BY <2>1 DEF RemapInv, ScenarioInv, Running, Preparing
<1>5. LoopInv'
  BY DEF RemapInv, RemapTypes, LoopInv
<1>6. RatiosInv'
  BY DEF RemapInv, RemapTypes, RatiosInv
<1> QED
  BY <1>2, <1>3, <1>4, <1>5, <1>6

\* perf moves, or nothing does.
LEMMA PerfKeepsRemap ==
    ASSUME RemapFlags, RemapInv,
           Remap!PerfHandles \/ Remap!PerfDies \/ UNCHANGED Remap!vars
    PROVE  RemapInv'
<1>1. /\ UNCHANGED <<ops, range_bytes, scenario, fifos, todo, rows, size, i, good, unexpected,
                     pc, code, awaited>>
      /\ faults \in Nat /\ faults' \in Nat /\ faults' >= faults
  <2>1. UNCHANGED <<ops, range_bytes, scenario, fifos, todo, rows, size, i, good, unexpected,
                    pc, code, awaited>>
    BY DEF Remap!PerfHandles, Remap!PerfDies, Remap!vars, Remap!args, Remap!run
  <2> QED
    BY <2>1, FaultsGrow DEF Remap!Next
<1>2. RemapTypes'
  <2>1. Remap!ArgsOk' = Remap!ArgsOk
    BY <1>1 DEF Remap!ArgsOk
  <2> QED
    BY <1>1, <2>1 DEF RemapInv, RemapTypes
<1>3. EndInv'
  BY <1>1 DEF RemapInv, EndInv
<1>4. ScenarioInv'
  BY <1>1 DEF RemapInv, ScenarioInv, Covered
<1>5. LoopInv' /\ RatiosInv'
  BY <1>1 DEF RemapInv, LoopInv, RatiosInv, ToLoop, ToAfter
<1>6. PerfInv'
  <2>1. CASE UNCHANGED Remap!vars
    <3>1. UNCHANGED <<ctl, ack, alive, counting, faults>>
      BY <2>1 DEF Remap!vars, Remap!perf
    <3> QED
      BY <1>1, <3>1 DEF RemapInv, PerfInv, AwaitInv
  <2>2. CASE Remap!PerfDies
    <3>1. /\ alive' = FALSE /\ counting' = FALSE /\ ctl' = <<>> /\ ack' = ack /\ alive = TRUE
          /\ faults' > 0 /\ pc # "done"
      BY <1>1, <2>2 DEF Remap!PerfDies, Remap!Fault, Remap!Ended, RemapFlags
    <3>2. AwaitInv => AwaitInv'
      BY <1>1, <3>1 DEF AwaitInv
    <3> QED
      BY <1>1, <3>1, <3>2 DEF RemapInv, PerfInv
  <2>3. CASE Remap!PerfHandles
    <3>1. alive = TRUE /\ alive' = TRUE /\ ctl # <<>> /\ ctl' = Tail(ctl)
      BY <2>3 DEF Remap!PerfHandles, RemapFlags
    <3>2. pc \in {"await", "done"}
      BY <3>1 DEF RemapInv, RemapTypes, PerfInv
    <3>3. ASSUME pc = "await" PROVE AwaitInv'
      <4>1. AwaitInv /\ awaited \in {"loop", "after"}
        BY <3>3 DEF RemapInv, RemapTypes, PerfInv
      <4>2. ctl = <<IF awaited = "loop" THEN "enable" ELSE "disable">> /\ ack = <<>>
        BY <3>1, <4>1 DEF AwaitInv
      <4>3. ctl' = <<>> /\ Head(ctl) = IF awaited = "loop" THEN "enable" ELSE "disable"
        BY <3>1, <4>2
      <4>4. ack' = Append(ack, "ack") \/ (ack' = Append(ack, "error") /\ faults' > 0)
        BY <1>1, <2>3 DEF Remap!PerfHandles, Remap!Fault
      <4>5. ack' = <<"ack">> \/ (ack' = <<"error">> /\ faults' > 0)
        BY <4>2, <4>4
      <4>6. counting' = (Head(ctl) = "enable")
        BY <2>3 DEF Remap!PerfHandles
      <4>7. (awaited = "loop" => counting' = TRUE) /\ (awaited = "after" => counting' = FALSE)
        BY <4>3, <4>6
      <4> QED
        BY <1>1, <4>3, <4>5, <4>7 DEF AwaitInv
    <3> QED
      BY <1>1, <3>1, <3>2, <3>3 DEF RemapInv, PerfInv, Running, Preparing
  <2> QED
    BY <2>1, <2>2, <2>3
<1> QED
  BY <1>2, <1>3, <1>4, <1>5, <1>6 DEF RemapInv

LEMMA BeginKeepsRemap ==
    ASSUME RemapFlags, RemapInv, Remap!Start \/ Remap!PerfInit
    PROVE  RemapInv'
<1>1. /\ UNCHANGED <<ops, range_bytes, scenario, fifos, rows, size, i, good, unexpected, awaited,
                     ctl, ack, alive, counting>>
      /\ faults \in Nat /\ faults' \in Nat /\ faults' >= faults
  <2>1. UNCHANGED <<ops, range_bytes, scenario, fifos, rows, size, i, good, unexpected, awaited,
                    ctl, ack, alive, counting>>
    BY DEF Remap!Start, Remap!PerfInit, Remap!args, Remap!run, Remap!perf
  <2> QED
    BY <2>1, FaultsGrow DEF Remap!Next, Remap!Main
<1>2. /\ pc \in {"start", "perf"} /\ code = 0 /\ rows = <<>> /\ todo = <<>>
      /\ \/ pc' = "perf" /\ code' = code /\ todo' = todo /\ Remap!ArgsOk
         \/ pc' = "next" /\ code' = code /\ todo' = scenario /\ pc = "perf"
         \/ pc' = "done" /\ code' = 2 /\ todo' = todo
         \/ pc' = "done" /\ code' = 1 /\ todo' = todo /\ faults' > 0
  <2>1. pc \in {"start", "perf"} /\ code = 0 /\ rows = <<>> /\ todo = <<>>
    BY DEF Remap!Start, Remap!PerfInit, RemapInv, EndInv, ScenarioInv
  <2>2. CASE Remap!Start
    BY <2>1, <2>2 DEF Remap!Start, Remap!Exit, Remap!run
  <2>3. CASE Remap!PerfInit
    BY <1>1, <2>1, <2>3 DEF Remap!PerfInit, Remap!Exit, Remap!Fault
  <2> QED
    BY <2>1, <2>2, <2>3
<1>3. RemapTypes'
  <2>1. pc' \notin {"start", "done"} => Remap!ArgsOk
    BY <1>2 DEF RemapInv, RemapTypes
  <2>2. Remap!ArgsOk' = Remap!ArgsOk
    BY <1>1 DEF Remap!ArgsOk
  <2>3. todo' \in Seq(Scenario) /\ code' \in Nat /\ pc' \in {"perf", "next", "done"}
    <3>1. todo \in Seq(Scenario) /\ scenario \in Seq(Scenario)
      BY DEF RemapInv, RemapTypes
    <3>2. todo' \in {todo, scenario} /\ code' \in {0, 1, 2} /\ pc' \in {"perf", "next", "done"}
      BY <1>2
    <3> QED
      BY <3>1, <3>2
  <2> QED
    BY <1>1, <2>1, <2>2, <2>3 DEF RemapInv, RemapTypes, Running, Preparing
<1>4. EndInv'
  BY <1>2 DEF EndInv
<1>5. ScenarioInv'
  <2>1. ASSUME pc' = "next" PROVE Covered'
    <3>1. Len(rows') = 0 /\ todo' = scenario /\ scenario' = scenario
      BY <1>1, <1>2, <2>1
    <3>2. Len(scenario) \in Nat
      BY LenProperties DEF RemapInv, RemapTypes
    <3> QED
      BY <3>1, <3>2 DEF Covered
  <2> QED
    BY <1>1, <1>2, <2>1 DEF ScenarioInv, Running, Preparing
<1>6. LoopInv' /\ RatiosInv'
  <2>1. LoopInv'
    BY <1>1, <1>2 DEF RemapInv, LoopInv, ToLoop, ToAfter
  <2>2. RatiosInv'
    BY <1>1, <1>2 DEF RatiosInv
  <2> QED
    BY <2>1, <2>2
<1>7. PerfInv'
  BY <1>1, <1>2 DEF RemapInv, PerfInv, Running, Preparing
<1> QED
  BY <1>3, <1>4, <1>5, <1>6, <1>7 DEF RemapInv

LEMMA NextScenarioKeepsRemap ==
    ASSUME RemapFlags, RemapInv, Remap!NextScenario
    PROVE  RemapInv'
<1>1. /\ UNCHANGED <<ops, range_bytes, scenario, fifos, todo, rows, awaited, ctl, ack, alive, counting>>
      /\ faults' = faults /\ pc = "next" /\ code = 0
      /\ size' = Remap!NoFiles /\ i' = 0 /\ unexpected' = 0 /\ good' = 0
      /\ \/ pc' = "done" /\ code' = 0 /\ todo = <<>>
         \/ pc' = "src" /\ code' = 0 /\ todo # <<>>
  BY DEF Remap!NextScenario, Remap!args, Remap!perf, Remap!Fine, Remap!Exit, RemapInv, EndInv
<1>2. RemapTypes'
  <2>1. Remap!ArgsOk' = Remap!ArgsOk
    BY <1>1 DEF Remap!ArgsOk
  <2>2. size' \in [{"src", "dst"} -> Int]
    BY <1>1 DEF Remap!NoFiles
  <2> QED
    BY <1>1, <2>1, <2>2 DEF RemapInv, RemapTypes, Running, Preparing
<1>3. EndInv'
  BY <1>1 DEF EndInv, Remap!NoFiles
<1>4. ScenarioInv'
  <2>1. Covered'
    BY <1>1 DEF RemapInv, ScenarioInv, Covered, Running, Preparing
  <2> QED
    BY <1>1, <2>1 DEF ScenarioInv, Running, Preparing
<1>5. LoopInv'
  <2>1. ops \in Nat \ {0}
    BY DEF RemapInv, RemapTypes
  <2> QED
    BY <1>1, <2>1 DEF LoopInv, ToLoop, ToAfter
<1>6. RatiosInv'
  BY <1>1 DEF RemapInv, RatiosInv
<1>7. PerfInv'
  BY <1>1 DEF RemapInv, PerfInv, Running, Preparing
<1> QED
  BY <1>2, <1>3, <1>4, <1>5, <1>6, <1>7 DEF RemapInv

\* What is true of every file in the loop: its length is that of all ranges.
LEMMA LengthIs ==
    ASSUME RemapInv, pc \notin {"start", "done"}, NEW f
    PROVE  Remap!Length(f) = ops * range_bytes /\ Remap!Length(f) <= Remap!OffMax
           /\ Remap!Length(f) \in Int
<1>1. ops \in Nat \ {0} /\ range_bytes \in Nat \ {0} /\ Remap!ArgsOk
  BY DEF RemapInv, RemapTypes
<1>2. /\ Remap!Pages * PAGE = ops * range_bytes
      /\ (Remap!Pages * PAGE) % WORD = ops * range_bytes
      /\ ops * range_bytes <= Remap!OffMax
      /\ ops * range_bytes \in Nat
  BY <1>1, RangesFit
<1> QED
  BY <1>2 DEF Remap!Length

LEMMA MakeFileKeepsRemap ==
    ASSUME RemapFlags, RemapInv,
           Remap!MakeFile("src", "dst") \/ Remap!MakeFile("dst", "before")
    PROVE  RemapInv'
<1>1. /\ UNCHANGED <<ops, range_bytes, scenario, fifos, todo, rows, i, good, unexpected, awaited,
                     ctl, ack, alive, counting>>
      /\ faults \in Nat /\ faults' \in Nat /\ faults' >= faults
  <2>1. UNCHANGED <<ops, range_bytes, scenario, fifos, todo, rows, i, good, unexpected, awaited,
                    ctl, ack, alive, counting>>
    BY DEF Remap!MakeFile, Remap!args, Remap!perf
  <2> QED
    BY <2>1, FaultsGrow DEF Remap!Next, Remap!Main
<1>2. PICK f \in {"src", "dst"} :
         /\ pc = f
         /\ \/ size' = [size EXCEPT ![f] = ops * range_bytes] /\ code' = code
               /\ pc' = IF f = "src" THEN "dst" ELSE "before"
            \/ pc' = "done" /\ code' = 1 /\ faults' > 0 /\ size' \in {size, [size EXCEPT ![f] = 0]}
  <2>1. ASSUME NEW f \in {"src", "dst"}, NEW to, Remap!MakeFile(f, to)
        PROVE  /\ pc = f
               /\ \/ size' = [size EXCEPT ![f] = ops * range_bytes] /\ code' = code /\ pc' = to
                  \/ pc' = "done" /\ code' = 1 /\ faults' > 0
                     /\ size' \in {size, [size EXCEPT ![f] = 0]}
    <3>1. pc = f
      BY <2>1 DEF Remap!MakeFile
    <3>2. Remap!Length(f) = ops * range_bytes /\ Remap!Length(f) <= Remap!OffMax
      BY <3>1, LengthIs
    <3> QED
      BY <1>1, <2>1, <3>1, <3>2 DEF Remap!MakeFile, Remap!Exit, Remap!Fault
  <2> QED
    BY <2>1
<1>3. ops * range_bytes \in Int
  BY DEF RemapInv, RemapTypes
<1>4. size \in [{"src", "dst"} -> Int] /\ code = 0
  BY <1>2 DEF RemapInv, RemapTypes, EndInv
<1>5. RemapTypes'
  <2>1. Remap!ArgsOk' = Remap!ArgsOk
    BY <1>1 DEF Remap!ArgsOk
  <2>2. size' \in [{"src", "dst"} -> Int]
    BY <1>2, <1>3, <1>4
  <2>3. code' \in Nat /\ pc' \in {"dst", "before", "done"} /\ pc \notin {"start", "done"}
    BY <1>2, <1>4
  <2> QED
    BY <1>1, <2>1, <2>2, <2>3 DEF RemapInv, RemapTypes, Running, Preparing
<1>6. EndInv'
  BY <1>2, <1>4 DEF EndInv
<1>7. ScenarioInv'
  <2>1. Covered' = Covered
    BY <1>1 DEF Covered
  <2> QED
    BY <1>1, <1>2, <1>4, <2>1 DEF RemapInv, ScenarioInv, Running, Preparing
<1>8. LoopInv'
  <2>1. ~ToLoop' /\ ~ToAfter'
    BY <1>2 DEF ToLoop, ToAfter
  <2>2. CASE pc' = "done"
    BY <1>1, <2>1, <2>2 DEF RemapInv, LoopInv
  <2>3. CASE pc = "src" /\ pc' = "dst" /\ size' = [size EXCEPT !["src"] = ops * range_bytes]
    <3>1. size'["src"] = ops * range_bytes
      BY <1>4, <2>3
    <3> QED
      BY <1>1, <2>1, <2>3, <3>1 DEF RemapInv, LoopInv
  <2>4. CASE pc = "dst" /\ pc' = "before" /\ size' = [size EXCEPT !["dst"] = ops * range_bytes]
    <3>1. size'["dst"] = ops * range_bytes /\ size'["src"] = size["src"]
      BY <1>4, <2>4
    <3> QED
      BY <1>1, <2>1, <2>4, <3>1 DEF RemapInv, LoopInv
  <2> QED
    BY <1>2, <2>2, <2>3, <2>4
<1>9. RatiosInv'
  BY <1>1 DEF RemapInv, RatiosInv
<1>10. PerfInv'
  BY <1>1, <1>2 DEF RemapInv, PerfInv, Running, Preparing
<1> QED
  BY <1>5, <1>6, <1>7, <1>8, <1>9, <1>10 DEF RemapInv

LEMMA QuietKeepsRemap ==
    ASSUME RemapFlags, RemapInv,
           \/ Remap!ReadStats("before", "enable") \/ Remap!ReadStats("after", "row")
           \/ Remap!LoopEnds
    PROVE  RemapInv'
<1>1. /\ UNCHANGED <<ops, range_bytes, scenario, fifos, todo, rows, size, i, good, unexpected,
                     awaited, ctl, ack, alive, counting>>
      /\ faults \in Nat /\ faults' \in Nat /\ faults' >= faults
  <2>1. UNCHANGED <<ops, range_bytes, scenario, fifos, todo, rows, size, i, good, unexpected,
                    awaited, ctl, ack, alive, counting>>
    BY DEF Remap!ReadStats, Remap!LoopEnds, Remap!args, Remap!run, Remap!perf
  <2> QED
    BY <2>1, FaultsGrow DEF Remap!Next, Remap!Main
<1>2. \/ pc = "before" /\ pc' = "enable" /\ code' = code
      \/ pc = "after" /\ pc' = "row" /\ code' = code
      \/ pc = "loop" /\ pc' = "disable" /\ code' = code /\ i = ops
      \/ pc \in {"before", "after"} /\ pc' = "done" /\ code' = 1 /\ faults' > 0
  BY <1>1 DEF Remap!ReadStats, Remap!LoopEnds, Remap!Exit, Remap!Fault
<1>3. code = 0
  BY <1>2 DEF RemapInv, EndInv
<1>4. RemapTypes' /\ EndInv' /\ ScenarioInv' /\ LoopInv' /\ RatiosInv'
  BY <1>1, <1>2, <1>3, QuietStep DEF ToLoop, ToAfter, Running, Preparing
<1>5. PerfInv'
  BY <1>1, <1>2 DEF RemapInv, PerfInv, Running, Preparing
<1> QED
  BY <1>4, <1>5 DEF RemapInv

\* The FIFOs: a command is written only where both are empty, and the loop is
\* entered and left only with perf's answer (or without perf).
LEMMA SendKeepsRemap ==
    ASSUME RemapFlags, RemapInv,
           Remap!Send("enable", "enable", "loop") \/ Remap!Send("disable", "disable", "after")
    PROVE  RemapInv'
<1>1. /\ UNCHANGED <<ops, range_bytes, scenario, fifos, todo, rows, size, i, good, unexpected,
                     ack, alive, counting>>
      /\ faults \in Nat /\ faults' \in Nat /\ faults' >= faults
  <2>1. UNCHANGED <<ops, range_bytes, scenario, fifos, todo, rows, size, i, good, unexpected,
                    ack, alive, counting>>
    BY DEF Remap!Send, Remap!args
  <2> QED
    BY <2>1, FaultsGrow DEF Remap!Next, Remap!Main
<1>2. PICK command \in {"enable", "disable"} :
        LET to == IF command = "enable" THEN "loop" ELSE "after" IN
         /\ pc = command /\ ctl = <<>> /\ ack = <<>> /\ code = 0 /\ fifos \in 0..2
         /\ \/ fifos # 2 /\ pc' = to /\ code' = 0 /\ ctl' = ctl /\ awaited' = awaited
            \/ /\ fifos = 2 /\ alive = TRUE /\ pc' = "await" /\ code' = 0
               /\ ctl' = <<command>> /\ awaited' = to
            \/ pc' = "done" /\ code' = 1 /\ faults' > 0 /\ ctl' = ctl
            \/ pc' = "done" /\ code' = 141 /\ fifos = 2 /\ alive = FALSE /\ ctl' = ctl
  <2>1. ASSUME NEW command \in {"enable", "disable"}, NEW to,
               Remap!Send(command, command, to)
        PROVE  /\ pc = command /\ ctl = <<>> /\ ack = <<>> /\ code = 0 /\ fifos \in 0..2
               /\ \/ fifos # 2 /\ pc' = to /\ code' = 0 /\ ctl' = ctl /\ awaited' = awaited
                  \/ /\ fifos = 2 /\ alive = TRUE /\ pc' = "await" /\ code' = 0
                     /\ ctl' = <<command>> /\ awaited' = to
                  \/ pc' = "done" /\ code' = 1 /\ faults' > 0 /\ ctl' = ctl
                  \/ pc' = "done" /\ code' = 141 /\ fifos = 2 /\ alive = FALSE /\ ctl' = ctl
    <3>1. pc = command
      BY <2>1 DEF Remap!Send
    <3>2. ctl = <<>> /\ ack = <<>> /\ code = 0 /\ fifos \in 0..2
      BY <3>1 DEF RemapInv, RemapTypes, PerfInv, EndInv, Running, Preparing
    <3>3. \/ fifos # 2 /\ pc' = to /\ code' = code /\ ctl' = ctl /\ awaited' = awaited
          \/ /\ fifos = 2 /\ alive = TRUE /\ pc' = "await" /\ code' = code
             /\ ctl' = Append(ctl, command) /\ awaited' = to
          \/ pc' = "done" /\ code' = 1 /\ Remap!Fault /\ ctl' = ctl
          \/ pc' = "done" /\ code' = 141 /\ fifos = 2 /\ alive = FALSE /\ ctl' = ctl
      BY <2>1, Zenon DEF Remap!Send, Remap!Exit, Remap!Controlled, RemapFlags
    <3>4. Append(ctl, command) = <<command>>
      BY <3>2
    <3>5. Remap!Fault => faults' > 0
      BY <1>1 DEF Remap!Fault
    <3> QED
      BY <3>1, <3>2, <3>3, <3>4, <3>5
  <2> QED
    BY <2>1
<1> DEFINE to == IF command = "enable" THEN "loop" ELSE "after"
<1>3. fifos = 2 /\ alive = FALSE => faults' > 0
  BY <1>1 DEF RemapInv, PerfInv
<1>4. /\ code' \in Nat /\ (pc' = "await" => awaited' = to)
      /\ pc' = "done" => code' # 0 /\ (code' # 2 => faults' > 0)
      /\ pc' # "done" => code' = 0
      /\ pc' \in {"done", "await", to}
  BY <1>2, <1>3
<1>5. RemapTypes' /\ EndInv' /\ ScenarioInv' /\ LoopInv' /\ RatiosInv'
  BY <1>1, <1>2, <1>4, QuietStep DEF ToLoop, ToAfter, Running, Preparing
<1>6. PerfInv'
  <2>1. alive = FALSE => counting = FALSE /\ (fifos = 2 => faults > 0)
    BY DEF RemapInv, PerfInv
  <2>2. command = "enable" => counting = FALSE
    BY <1>2 DEF RemapInv, PerfInv, Preparing
  <2>3. command = "disable" /\ fifos = 2 /\ alive = TRUE => counting = TRUE
    BY <1>2 DEF RemapInv, PerfInv
  <2>7. fifos # 2 => counting = FALSE
    BY DEF RemapInv, PerfInv
  <2>4. CASE pc' = "await"
    <3>1. fifos = 2 /\ alive = TRUE /\ ctl' = <<command>> /\ awaited' = to
      BY <1>2, <2>4
    <3>2. AwaitInv'
      BY <1>1, <1>2, <2>2, <3>1 DEF AwaitInv
    <3> QED
      BY <1>1, <2>1, <2>4, <3>1, <3>2 DEF PerfInv, Running, Preparing
  <2>5. CASE pc' = "done"
    <3>1. ctl' = <<>>
      BY <1>2, <2>5
    <3> QED
      BY <1>1, <2>1, <2>5, <2>7, <3>1 DEF PerfInv, Running, Preparing
  <2>6. CASE pc' = to
    <3>1. fifos # 2 /\ ctl' = <<>> /\ ack' = <<>>
      BY <1>1, <1>2, <2>6
    <3> QED
      BY <1>1, <1>2, <2>1, <2>2, <2>6, <2>7, <3>1 DEF PerfInv, Running, Preparing
  <2> QED
    BY <1>4, <2>4, <2>5, <2>6
<1> QED
  BY <1>5, <1>6 DEF RemapInv

LEMMA AwaitKeepsRemap ==
    ASSUME RemapFlags, RemapInv, Remap!TimesOut \/ Remap!HangUp \/ Remap!ReadAck
    PROVE  RemapInv'
<1>1. /\ UNCHANGED <<ops, range_bytes, scenario, fifos, todo, rows, size, i, good, unexpected,
                     awaited, ctl, alive, counting>>
      /\ faults \in Nat /\ faults' \in Nat /\ faults' >= faults
  <2>1. UNCHANGED <<ops, range_bytes, scenario, fifos, todo, rows, size, i, good, unexpected,
                    awaited, ctl, alive, counting>>
    BY DEF Remap!TimesOut, Remap!HangUp, Remap!ReadAck, Remap!args, Remap!run, Remap!perf
  <2> QED
    BY <2>1, FaultsGrow DEF Remap!Next, Remap!Main
<1>2. /\ pc = "await" /\ code = 0 /\ awaited \in {"loop", "after"} /\ fifos = 2 /\ AwaitInv
      /\ alive = FALSE => faults > 0 /\ counting = FALSE
  BY DEF RemapInv, RemapTypes, EndInv, PerfInv, Remap!TimesOut, Remap!HangUp, Remap!ReadAck,
     Remap!Waiting
<1>3. \/ /\ ack = <<"ack">> /\ ctl = <<>> /\ ack' = <<>> /\ pc' = awaited /\ code' = code
         /\ awaited = "loop" /\ alive = TRUE => counting = TRUE
         /\ awaited = "after" => counting = FALSE
      \/ pc' = "done" /\ code' = 1 /\ faults' > 0
  <2>1. CASE Remap!TimesOut
    BY <1>1, <2>1 DEF Remap!TimesOut, Remap!Exit
  <2>2. CASE Remap!HangUp
    <3>1. alive = FALSE
      BY <2>2 DEF Remap!HangUp, RemapFlags
    <3> QED
      BY <1>1, <1>2, <2>2, <3>1 DEF Remap!HangUp, Remap!Exit
  <2>3. CASE Remap!ReadAck
    <3>1. /\ ctl = <<>> /\ ack \in {<<"ack">>, <<"error">>}
          /\ ack = <<"error">> => faults > 0
          /\ awaited = "loop" /\ alive = TRUE => counting = TRUE
          /\ awaited = "after" => counting = FALSE
      BY <1>2, <2>3 DEF AwaitInv, Remap!ReadAck
    <3>2. ack' = <<>>
      BY <2>3 DEF Remap!ReadAck
    <3>3. CASE ack = <<"ack">>
      <4>1. Head(ack) = "ack"
        BY <3>3
      <4> QED
        BY <1>1, <2>3, <3>1, <3>2, <3>3, <4>1 DEF Remap!ReadAck, Remap!Exit, Remap!Fault
    <3>4. CASE ack = <<"error">>
      <4>1. Head(ack) # "ack"
        BY <3>4
      <4> QED
        BY <1>1, <2>3, <3>1, <3>4, <4>1 DEF Remap!ReadAck, Remap!Exit
    <3> QED
      BY <3>1, <3>3, <3>4
  <2> QED
    BY <2>1, <2>2, <2>3
<1>4. RemapTypes' /\ EndInv' /\ ScenarioInv' /\ LoopInv' /\ RatiosInv'
  BY <1>1, <1>2, <1>3, QuietStep DEF ToLoop, ToAfter, Running, Preparing
<1>5. PerfInv'
  <2>1. CASE pc' = "done"
    <3>1. fifos' = 2 /\ (alive' = FALSE => faults' > 0 /\ counting' = FALSE)
      BY <1>1, <1>2
    <3> QED
      BY <2>1, <3>1 DEF PerfInv, Running, Preparing
  <2>2. CASE pc' = awaited
    <3>1. fifos' = 2 /\ (alive' = FALSE => faults' > 0 /\ counting' = FALSE)
      BY <1>1, <1>2
    <3> QED
      BY <1>1, <1>2, <1>3, <2>2, <3>1 DEF PerfInv, Running, Preparing
  <2> QED
    BY <1>3, <2>1, <2>2
<1> QED
  BY <1>4, <1>5 DEF RemapInv

\* One ioctl of the loop; a refusal has a cause, since the files are as long
\* as all ranges.
LEMMA RemapKeepsRemap ==
    ASSUME RemapFlags, RemapInv, Remap!Remap
    PROVE  RemapInv'
<1>1. /\ UNCHANGED <<ops, range_bytes, scenario, fifos, todo, rows, size, awaited,
                     ctl, ack, alive, counting>>
      /\ faults \in Nat /\ faults' \in Nat /\ faults' >= faults
  <2>1. UNCHANGED <<ops, range_bytes, scenario, fifos, todo, rows, size, awaited,
                    ctl, ack, alive, counting>>
    BY DEF Remap!Remap, Remap!args, Remap!perf
  <2> QED
    BY <2>1, FaultsGrow DEF Remap!Next, Remap!Main
<1>2. /\ pc = "loop" /\ i \in Nat /\ i < ops /\ good \in Nat /\ unexpected \in Nat
      /\ good + unexpected = i /\ (unexpected > 0 => faults > 0) /\ code = 0
      /\ size["src"] = ops * range_bytes /\ size["dst"] = ops * range_bytes
      /\ ops \in Nat \ {0} /\ range_bytes \in Nat \ {0} /\ Remap!ArgsOk
  BY DEF Remap!Remap, RemapInv, RemapTypes, EndInv, LoopInv
<1>3. Remap!InFiles
  <2>1. /\ (i * range_bytes) % WORD = i * range_bytes
        /\ i * range_bytes + range_bytes <= ops * range_bytes
    BY <1>2, RangesFit
  <2>2. Remap!Offset + range_bytes <= ops * range_bytes
    BY <2>1 DEF Remap!Offset
  <2> QED
    BY <1>2, <2>2 DEF Remap!InFiles
<1>4. \/ /\ pc' = pc /\ code' = code /\ i' = i + 1 /\ good' = good + 1 /\ unexpected' = unexpected
      \/ /\ pc' = pc /\ code' = code /\ i' = i + 1 /\ good' = good /\ unexpected' = unexpected + 1
         /\ faults' > 0
      \/ /\ pc' = "done" /\ code' = 1 /\ UNCHANGED <<i, good, unexpected>> /\ faults' > 0
  BY <1>1, <1>3 DEF Remap!Remap, Remap!Exit, Remap!Fault
<1>5. RemapTypes'
  <2>1. Remap!ArgsOk' = Remap!ArgsOk
    BY <1>1 DEF Remap!ArgsOk
  <2>2. code' \in Nat /\ pc' \in {"loop", "done"}
    BY <1>2, <1>4
  <2> QED
    BY <1>1, <1>2, <2>1, <2>2 DEF RemapInv, RemapTypes, Running, Preparing
<1>6. EndInv'
  BY <1>2, <1>4 DEF EndInv
<1>7. ScenarioInv'
  <2>1. Covered' = Covered
    BY <1>1 DEF Covered
  <2> QED
    BY <1>1, <1>2, <1>4, <2>1 DEF RemapInv, ScenarioInv, Running, Preparing
<1>8. LoopInv'
  <2>1. ops' = ops /\ range_bytes' = range_bytes /\ size' = size
    BY <1>1
  <2>2. /\ i' \in Nat /\ good' \in Nat /\ unexpected' \in Nat
        /\ good' + unexpected' = i' /\ i' <= ops
        /\ unexpected' > 0 => faults' > 0
    BY <1>1, <1>2, <1>4
  <2>3. pc' \in {"loop", "done"} /\ ~ToLoop' /\ ~ToAfter'
    BY <1>2, <1>4 DEF ToLoop, ToAfter
  <2> QED
    BY <1>2, <2>1, <2>2, <2>3 DEF LoopInv
<1>9. RatiosInv'
  BY <1>1 DEF RemapInv, RatiosInv
<1>10. PerfInv'
  BY <1>1, <1>2, <1>4 DEF RemapInv, PerfInv, Running, Preparing
<1> QED
  BY <1>5, <1>6, <1>7, <1>8, <1>9, <1>10 DEF RemapInv

\* The row says how the loop went.
LEMMA EmitKeepsRemap ==
    ASSUME RemapFlags, RemapInv, Remap!EmitResult
    PROVE  RemapInv'
<1> DEFINE last == [op |-> Head(todo), ratio |-> Remap!Ratio, good |-> good]
<1>1. /\ UNCHANGED <<ops, range_bytes, scenario, fifos, i, good, unexpected, awaited, code,
                     ctl, ack, alive, counting, faults>>
      /\ pc = "row" /\ pc' = "next" /\ rows' = Append(rows, last)
      /\ todo' = Tail(todo) /\ size' = Remap!NoFiles
  BY DEF Remap!EmitResult, Remap!args, Remap!perf, Remap!Fine, Remap!Op
<1>2. /\ todo # <<>> /\ todo \in Seq(Scenario) /\ rows \in Seq(RowRecords)
      /\ scenario \in Seq(Scenario) /\ Covered
      /\ i = ops /\ good \in Nat /\ unexpected \in Nat /\ good + unexpected = i
      /\ unexpected > 0 => faults > 0
      /\ ops \in Nat \ {0} /\ faults \in Nat /\ code = 0 /\ Remap!ArgsOk
  BY <1>1 DEF RemapInv, RemapTypes, EndInv, ScenarioInv, LoopInv, Running, Preparing
<1>3. /\ Remap!Ratio \in {0, 100}
      /\ Remap!Ratio = 100 <=> good = ops
      /\ Remap!Ratio = 0 => faults > 0
  <2>1. CASE unexpected > 0
    BY <1>2, <2>1 DEF Remap!Ratio
  <2>2. CASE ~(unexpected > 0)
    BY <1>2, <2>2 DEF Remap!Ratio
  <2> QED
    BY <2>1, <2>2
<1>4. /\ Head(todo) \in Scenario /\ Head(todo) = todo[1] /\ todo' \in Seq(Scenario)
      /\ Len(todo') = Len(todo) - 1 /\ Len(todo) \in Nat /\ Len(todo) >= 1
      /\ \A n \in 1..Len(todo') : todo'[n] = todo[n + 1]
  <2>1. Len(todo) \in Nat /\ Len(todo) # 0
    BY <1>2, EmptySeq
  <2> QED
    BY <1>1, <1>2, <2>1, HeadTailProperties
<1>5. last \in RowRecords /\ last.op = Head(todo) /\ last.ratio = Remap!Ratio /\ last.good = good
  BY <1>2, <1>3, <1>4 DEF RowRecords
<1> HIDE DEF last
<1>6. /\ rows' \in Seq(RowRecords) /\ Len(rows') = Len(rows) + 1 /\ Len(rows) \in Nat
      /\ \A n \in 1..Len(rows) : rows'[n] = rows[n]
      /\ rows'[Len(rows) + 1] = last
  BY <1>1, <1>2, <1>5, AppendProperties, LenProperties
<1>7. RemapTypes'
  <2>1. Remap!ArgsOk' = Remap!ArgsOk
    BY <1>1 DEF Remap!ArgsOk
  <2>2. size' \in [{"src", "dst"} -> Int]
    BY <1>1 DEF Remap!NoFiles
  <2> QED
    BY <1>1, <1>2, <1>4, <1>6, <2>1, <2>2 DEF RemapInv, RemapTypes, Running, Preparing
<1>8. EndInv'
  BY <1>1, <1>2 DEF EndInv
<1>9. ScenarioInv'
  <2>1. Len(rows') + Len(todo') = Len(scenario)
    <3>1. Len(rows) + Len(todo) = Len(scenario)
      BY <1>2 DEF Covered
    <3>2. Len(rows) \in Nat /\ Len(todo) \in Nat
      BY <1>4, <1>6
    <3>3. Len(rows') = Len(rows) + 1 /\ Len(todo') = Len(todo) - 1
      BY <1>4, <1>6
    <3> QED
      BY <3>1, <3>2, <3>3
  <2>2. ASSUME NEW n \in 1..Len(rows') PROVE rows'[n].op = scenario[n]
    <3>1. CASE n = Len(rows) + 1
      <4>1. todo[1] = scenario[Len(rows) + 1]
        BY <1>2, <1>4 DEF Covered
      <4> QED
        BY <1>4, <1>5, <1>6, <3>1, <4>1
    <3>2. CASE n # Len(rows) + 1
      <4>1. n \in 1..Len(rows)
        BY <1>6, <2>2, <3>2
      <4> QED
        BY <1>2, <1>6, <4>1 DEF Covered
    <3> QED
      BY <3>1, <3>2
  <2>3. ASSUME NEW n \in 1..Len(todo') PROVE todo'[n] = scenario[Len(rows') + n]
    <3>1. n + 1 \in 1..Len(todo) /\ Len(rows') + n = Len(rows) + (n + 1)
      BY <1>4, <1>6
    <3>2. todo[n + 1] = scenario[Len(rows) + (n + 1)]
      BY <1>2, <3>1 DEF Covered
    <3> QED
      BY <1>4, <3>1, <3>2
  <2>4. Covered'
    BY <1>1, <2>1, <2>2, <2>3 DEF Covered
  <2> QED
    BY <1>1, <2>4 DEF ScenarioInv, Running, Preparing
<1>10. LoopInv'
  BY <1>1, <1>2 DEF LoopInv, ToLoop, ToAfter
<1>11. RatiosInv'
  <2>1. SUFFICES ASSUME NEW n \in 1..Len(rows')
                 PROVE  /\ rows'[n].ratio = 100 <=> rows'[n].good = ops
                        /\ rows'[n].ratio = 0 => faults > 0
    BY <1>1 DEF RatiosInv
  <2>2. CASE n = Len(rows) + 1
    BY <1>3, <1>5, <1>6, <2>2
  <2>3. CASE n # Len(rows) + 1
    <3>1. n \in 1..Len(rows)
      BY <1>6, <2>3
    <3> QED
      BY <1>6, <3>1 DEF RemapInv, RatiosInv
  <2> QED
    BY <2>2, <2>3
<1>12. PerfInv'
  BY <1>1 DEF RemapInv, PerfInv, Running, Preparing
<1> QED
  BY <1>7, <1>8, <1>9, <1>10, <1>11, <1>12 DEF RemapInv

LEMMA NextKeepsRemap ==
    RemapFlags /\ RemapInv /\ (Remap!Next \/ UNCHANGED Remap!vars) => RemapInv'
  BY PerfKeepsRemap, BeginKeepsRemap, NextScenarioKeepsRemap, MakeFileKeepsRemap,
     QuietKeepsRemap, SendKeepsRemap, AwaitKeepsRemap, RemapKeepsRemap, EmitKeepsRemap
     DEF Remap!Next, Remap!Main

LEMMA RemapInvMeans ==
    RemapFlags /\ RemapInv => Remap!FilesGone /\ Remap!CountersFollow /\ Remap!ResultHonest
<1> SUFFICES ASSUME RemapFlags, RemapInv
             PROVE  Remap!FilesGone /\ Remap!CountersFollow /\ Remap!ResultHonest
  OBVIOUS
<1>1. Remap!FilesGone
  BY DEF RemapInv, EndInv, Remap!FilesGone, Remap!Ended
<1>2. Remap!CountersFollow
  BY DEF RemapFlags, RemapInv, PerfInv, Preparing, Remap!CountersFollow, Remap!Controlled
<1>3. rows \in Seq(RowRecords) /\ scenario \in Seq(Scenario)
  BY DEF RemapInv, RemapTypes
<1>4. DOMAIN rows = 1..Len(rows) /\ DOMAIN scenario = 1..Len(scenario) /\ Len(rows) \in Nat
      /\ scenario = [n \in 1..Len(scenario) |-> scenario[n]]
  BY <1>3, LenProperties
<1>5. ASSUME pc = "done", code = 0
      PROVE  [n \in DOMAIN rows |-> rows[n].op] = scenario
  <2>1. Covered /\ Len(todo) = 0
    BY <1>5 DEF RemapInv, EndInv, ScenarioInv
  <2>2. Len(rows) = Len(scenario) /\ \A n \in 1..Len(rows) : rows[n].op = scenario[n]
    <3>1. Len(rows) + Len(todo) = Len(scenario) /\ \A n \in 1..Len(rows) : rows[n].op = scenario[n]
      BY <2>1 DEF Covered
    <3>2. Len(rows) \in Nat /\ Len(todo) = 0
      BY <1>4, <2>1
    <3>3. Len(rows) = Len(scenario)
      BY <3>1, <3>2
    <3> QED
      BY <3>1, <3>3
  <2> QED
    BY <1>4, <2>2
<1>6. pc = "done" /\ code \notin {0, 2} => faults > 0
  BY DEF RemapInv, EndInv
<1>7. \A n \in DOMAIN rows : /\ rows[n].ratio = 100 <=> rows[n].good = ops
                             /\ rows[n].ratio = 0 => faults > 0
  BY <1>4 DEF RemapInv, RatiosInv
<1> QED
  BY <1>1, <1>2, <1>5, <1>6, <1>7 DEF Remap!ResultHonest, Remap!Ended


-----------------------------------------------------------------------------
(* Set-up and tear-down of the cancel workload                             *)

\* Descriptors as they are given out: the output, the ring, the eventfds.
LEMMA DescriptorsAre ==
    /\ open = {} => Ring!NewFd = 3
    /\ open = {3} => Ring!NewFd = 4
    /\ open = {3, 4} => Ring!NewFd = 5
    /\ (CHOOSE h \in Ring!Fds \ ({3, 4} \cup {5}) : TRUE) = 6
    /\ (CHOOSE f \in Ring!Fds : \A g \in Ring!Fds : f <= g) = 3
<1>1. Ring!Fds = {3, 4, 5, 6}
  BY DEF Ring!Fds
<1>2. ASSUME open = {} PROVE Ring!NewFd = 3
  BY <1>1, <1>2 DEF Ring!NewFd
<1>3. ASSUME open = {3} PROVE Ring!NewFd = 4
  BY <1>1, <1>3 DEF Ring!NewFd
<1>4. ASSUME open = {3, 4} PROVE Ring!NewFd = 5
  BY <1>1, <1>4 DEF Ring!NewFd
<1>5. Ring!Fds \ ({3, 4} \cup {5}) = {6}
  BY <1>1
<1>6. (CHOOSE h \in {6} : TRUE) = 6
  OBVIOUS
<1>7. (CHOOSE f \in Ring!Fds : \A g \in Ring!Fds : f <= g) = 3
  BY <1>1
<1> QED
  BY <1>2, <1>3, <1>4, <1>5, <1>6, <1>7

RingAt(single, sq, cq, sqes) ==
    [fd |-> 4, single_mmap |-> single, sq_ptr |-> sq, cq_ptr |-> cq, sqes_ptr |-> sqes]

\* A ring in two mappings or in three, without the entries and with none.
Two    == RingAt(TRUE, "sq", "sq", "sqes")
Three  == RingAt(FALSE, "sq", "cq", "sqes")
Two_   == RingAt(TRUE, "sq", "sq", "NULL")
Three_ == RingAt(FALSE, "sq", "cq", "NULL")
Bare   == {RingAt(single, "NULL", "NULL", "NULL") : single \in BOOLEAN}

Whole == \/ ring = Two /\ maps = {"sq", "sqes"}
         \/ ring = Three /\ maps = {"sq", "cq", "sqes"}

\* What is held at each place, and what the structures say is held.
HeldInv ==
    /\ pc = "output" => open = {} /\ maps = {}
    /\ pc \in {"count", "ring"} => open = {3} /\ maps = {}
    /\ pc = "sq" => open = {3, 4} /\ maps = {} /\ ring \in Bare
    /\ pc = "cq" => open = {3, 4} /\ maps = {"sq"} /\ ring = RingAt(FALSE, "sq", "NULL", "NULL")
    /\ pc = "sqes" => open = {3, 4} /\ (\/ ring = Two_ /\ maps = {"sq"}
                                        \/ ring = Three_ /\ maps = {"sq", "cq"})
    /\ pc = "eventfds" => open = {3, 4} /\ Whole
    /\ pc \in {"poll", "enter", "prove", "rounds", "destroy", "unmap"} =>
         open = {3, 4, 5, 6} /\ efds = <<5, 6>> /\ Whole
    /\ pc = "close" => open = {3, 4, 5, 6} /\ efds = <<5, 6>> /\ maps = {} /\ ring \in Bare
    /\ pc = "closeEfds" => open = {3, 5, 6} /\ efds = <<5, 6>> /\ maps = {}
    /\ pc \in {"countAfter", "write"} => open = {3} /\ maps = {}
    /\ pc = "out" => 3 \in open /\ (noEventfd = FALSE => open = {3} /\ maps = {})
    /\ pc = "done" /\ noEventfd = FALSE => open = {} /\ maps = {}

\* Which polls a row stands for.
TornInv ==
    /\ pc \in {"prove", "unmap", "close"} => armed = PENDING + DECOYS
    /\ pc \in {"closeEfds", "countAfter", "write"} \/ row = TRUE =>
         torn = PENDING + DECOYS /\ armed = 0
    /\ row = TRUE => noEventfd = FALSE /\ pc \in {"out", "done"}
    /\ pc \notin {"out", "done"} => noEventfd = FALSE

RingFlags == noEventfd \in BOOLEAN /\ row \in BOOLEAN

RingInv == wild = FALSE /\ HeldInv /\ TornInv

LEMMA FlagsOfRing ==
    /\ Ring!Init => RingFlags
    /\ RingFlags /\ (Ring!Next \/ UNCHANGED Ring!vars) => RingFlags'
<1>1. Ring!Init => RingFlags
  BY Zenon DEF Ring!Init, RingFlags
<1>2. ASSUME RingFlags, Ring!Next \/ UNCHANGED Ring!vars PROVE RingFlags'
  BY <1>2, Zenon DEF RingFlags, Ring!Next, Ring!vars, Ring!local, Ring!history, Ring!OpenOutput,
     Ring!CountBefore, Ring!SetupRing, Ring!MapSq, Ring!MapCq, Ring!MapSqes, Ring!MakeEventfds,
     Ring!fixture_destroy, Ring!QueuePoll, Ring!EnterRing, Ring!ProvePending, Ring!Unmap,
     Ring!CloseRing, Ring!CloseEventfds, Ring!CountAfter, Ring!WriteRow, Ring!Rounds, Ring!Exit
<1> QED
  BY <1>1, <1>2

LEMMA InitRing == Ring!Init => RingInv
  BY DEF Ring!Init, RingInv, HeldInv, TornInv

\* Releasing what is held, each once.
LEMMA ReleaseIsClean ==
    ASSUME wild = FALSE, NEW mappings, NEW fds, Ring!Release(mappings, fds),
           Ring!IsInjective(mappings), Ring!IsInjective(fds),
           Ring!ToSet(mappings) \subseteq maps, Ring!ToSet(fds) \subseteq open
    PROVE  /\ wild' = FALSE
           /\ maps' = maps \ Ring!ToSet(mappings) /\ open' = open \ Ring!ToSet(fds)
  BY DEF Ring!Release

LEMMA ShortSequences ==
    /\ Ring!ToSet(<<>>) = {} /\ Ring!IsInjective(<<>>)
    /\ \A a : Ring!ToSet(<<a>>) = {a} /\ Ring!IsInjective(<<a>>)
    /\ \A a, b : Ring!ToSet(<<a, b>>) = {a, b} /\ (a # b => Ring!IsInjective(<<a, b>>))
    /\ \A a, b, c : /\ Ring!ToSet(<<a, b, c>>) = {a, b, c}
                    /\ a # b /\ a # c /\ b # c => Ring!IsInjective(<<a, b, c>>)
<1>1. Ring!ToSet(<<>>) = {} /\ Ring!IsInjective(<<>>)
  BY DEF Ring!ToSet, Ring!IsInjective
<1>2. \A a : Ring!ToSet(<<a>>) = {a} /\ Ring!IsInjective(<<a>>)
  BY DEF Ring!ToSet, Ring!IsInjective
<1>3. \A a, b : Ring!ToSet(<<a, b>>) = {a, b} /\ (a # b => Ring!IsInjective(<<a, b>>))
  BY DEF Ring!ToSet, Ring!IsInjective
<1>4. \A a, b, c : Ring!ToSet(<<a, b, c>>) = {a, b, c}
  BY DEF Ring!ToSet
<1>5. \A a, b, c : a # b /\ a # c /\ b # c => Ring!IsInjective(<<a, b, c>>)
  BY DEF Ring!IsInjective
<1> QED
  BY <1>1, <1>2, <1>3, <1>4, <1>5

\* Joined literally; the prover does not see it of itself.
LEMMA Pair == ASSUME NEW a, NEW b PROVE <<a>> \o <<b>> = <<a, b>>
<1> DEFINE S == {a, b}
<1> DEFINE s == <<a>> \o <<b>>
<1>1. <<a>> \in Seq(S) /\ <<b>> \in Seq(S) /\ <<a, b>> \in Seq(S)
  OBVIOUS
<1>2. Len(<<a>>) = 1 /\ Len(<<b>>) = 1 /\ Len(<<a, b>>) = 2
  OBVIOUS
<1>3. s \in Seq(S) /\ Len(s) = Len(<<a>>) + Len(<<b>>)
      /\ \A j \in 1..Len(<<a>>) + Len(<<b>>) : s[j] = IF j <= Len(<<a>>) THEN <<a>>[j] ELSE <<b>>[j - Len(<<a>>)]
  BY <1>1, ConcatProperties, ElementOfSeq
<1> HIDE DEF s
<1>4. Len(s) = 2 /\ s[1] = a /\ s[2] = b
  BY <1>2, <1>3
<1>5. \A j \in 1..Len(s) : s[j] = <<a, b>>[j]
  BY <1>2, <1>4
<1>6. s = <<a, b>>
  BY <1>1, <1>2, <1>3, <1>4, <1>5, SeqEqual
<1> QED
  BY <1>6 DEF s

LEMMA Triple == ASSUME NEW a, NEW b, NEW c PROVE <<a, b>> \o <<c>> = <<a, b, c>>
<1> DEFINE S == {a, b, c}
<1> DEFINE s == <<a, b>> \o <<c>>
<1>1. <<a, b>> \in Seq(S) /\ <<c>> \in Seq(S) /\ <<a, b, c>> \in Seq(S)
  OBVIOUS
<1>2. Len(<<a, b>>) = 2 /\ Len(<<c>>) = 1 /\ Len(<<a, b, c>>) = 3
  OBVIOUS
<1>3. s \in Seq(S) /\ Len(s) = Len(<<a, b>>) + Len(<<c>>)
      /\ \A j \in 1..Len(<<a, b>>) + Len(<<c>>) : s[j] = IF j <= Len(<<a, b>>) THEN <<a, b>>[j] ELSE <<c>>[j - Len(<<a, b>>)]
  BY <1>1, ConcatProperties, ElementOfSeq
<1> HIDE DEF s
<1>4. Len(s) = 3 /\ s[1] = a /\ s[2] = b /\ s[3] = c
  BY <1>2, <1>3
<1>5. \A j \in 1..Len(s) : s[j] = <<a, b, c>>[j]
  BY <1>2, <1>4
<1>6. s = <<a, b, c>>
  BY <1>1, <1>2, <1>3, <1>4, <1>5, SeqEqual
<1> QED
  BY <1>6 DEF s
LEMMA UnmapsAre ==
    /\ \A r \in Bare : Ring!Unmaps(r) = <<>>
    /\ Ring!Unmaps(RingAt(FALSE, "sq", "NULL", "NULL")) = <<"sq">>
    /\ Ring!Unmaps(Two_) = <<"sq">> /\ Ring!Unmaps(Three_) = <<"sq", "cq">>
    /\ Ring!Unmaps(Two) = <<"sqes", "sq">> /\ Ring!Unmaps(Three) = <<"sqes", "sq", "cq">>
<1> DEFINE none == <<>>
<1>1. /\ none \o none = none
      /\ \A a : none \o <<a>> = <<a>> /\ <<a>> \o none = <<a>>
      /\ \A a, b : <<a, b>> \o none = <<a, b>>
      /\ \A a, b : <<a>> \o <<b>> = <<a, b>>
      /\ \A a, b, c : <<a, b>> \o <<c>> = <<a, b, c>>
  <2>1. none \o none = none
    OBVIOUS
  <2>2. \A a : none \o <<a>> = <<a>>
    OBVIOUS
  <2>3. \A a : <<a>> \o none = <<a>>
    OBVIOUS
  <2>4. \A a, b : <<a, b>> \o none = <<a, b>>
    OBVIOUS
  <2> HIDE DEF none
  <2> QED
    BY <2>1, <2>2, <2>3, <2>4, Pair, Triple
<1> HIDE DEF none
<1>0. /\ \A p : Ring!Mapped(p) = IF p # "NULL" THEN <<p>> ELSE none
      /\ \A r : Ring!Unmaps(r) = Ring!Mapped(r.sqes_ptr) \o Ring!Mapped(r.sq_ptr)
                                   \o (IF Ring!UnmapCq(r) THEN <<r.cq_ptr>> ELSE none)
  BY DEF none, Ring!Mapped, Ring!Unmaps, Ring!NULL
<1>2. \A r \in Bare : Ring!Unmaps(r) = <<>>
  <2> SUFFICES ASSUME NEW single \in BOOLEAN, NEW r, r = RingAt(single, "NULL", "NULL", "NULL")
               PROVE  Ring!Unmaps(r) = none
    BY DEF Bare, none
  <2>1. r.sqes_ptr = "NULL" /\ r.sq_ptr = "NULL" /\ r.cq_ptr = "NULL"
    BY DEF RingAt
  <2>2. ~Ring!UnmapCq(r)
    BY <2>1 DEF Ring!UnmapCq, Ring!NULL
  <2> QED
    BY <1>0, <1>1, <2>1, <2>2
<1>3. Ring!Unmaps(RingAt(FALSE, "sq", "NULL", "NULL")) = <<"sq">>
  BY <1>0, <1>1 DEF Ring!UnmapCq, Ring!NULL, RingAt
<1>4. Ring!Unmaps(Two_) = <<"sq">> /\ Ring!Unmaps(Three_) = <<"sq", "cq">>
  BY <1>0, <1>1 DEF Ring!UnmapCq, Ring!NULL, RingAt, Two_, Three_
<1>5. Ring!Unmaps(Two) = <<"sqes", "sq">> /\ Ring!Unmaps(Three) = <<"sqes", "sq", "cq">>
  <2>1. ~Ring!UnmapCq(Two) /\ Ring!UnmapCq(Three)
    BY DEF Ring!UnmapCq, Ring!NULL, Two, Three, RingAt
  <2>2. Two.sqes_ptr = "sqes" /\ Two.sq_ptr = "sq"
    BY DEF Two, RingAt
  <2>3. Three.sqes_ptr = "sqes" /\ Three.sq_ptr = "sq" /\ Three.cq_ptr = "cq"
    BY DEF Three, RingAt
  <2>4. Ring!Unmaps(Two) = (<<"sqes">> \o <<"sq">>) \o none
    BY <1>0, <2>1, <2>2
  <2>5. Ring!Unmaps(Three) = (<<"sqes">> \o <<"sq">>) \o <<"cq">>
    BY <1>0, <2>1, <2>3
  <2>6. <<"sqes">> \o <<"sq">> = <<"sqes", "sq">>
    BY Pair
  <2>7. <<"sqes", "sq">> \o <<"cq">> = <<"sqes", "sq", "cq">>
    BY Triple
  <2>8. <<"sqes", "sq">> \o none = <<"sqes", "sq">>
    BY <1>1
  <2> QED
    BY <2>4, <2>5, <2>6, <2>7, <2>8
<1> QED
  BY <1>2, <1>3, <1>4, <1>5 DEF none
LEMMA CountBeforeKeepsRing ==
    ASSUME RingFlags, RingInv, Ring!CountBefore
    PROVE  RingInv'
  BY DescriptorsAre DEF RingInv, HeldInv, TornInv, Ring!CountBefore, Ring!Goto, Ring!Fine, Ring!Fault,
     Ring!local, Ring!kernel, Ring!history, Ring!fixture

LEMMA OpenOutputKeepsRing ==
    ASSUME RingFlags, RingInv, Ring!OpenOutput
    PROVE  RingInv'
  BY DescriptorsAre DEF RingInv, HeldInv, TornInv, Ring!OpenOutput, Ring!Goto, Ring!Fine, Ring!Fault,
     Ring!local, Ring!kernel, Ring!history, Ring!fixture

LEMMA SetupRingKeepsRing ==
    ASSUME RingFlags, RingInv, Ring!SetupRing
    PROVE  RingInv'
<1>1. pc = "ring" /\ wild = FALSE /\ open = {3} /\ maps = {} /\ noEventfd = FALSE /\ row # TRUE
  BY DEF RingInv, HeldInv, TornInv, Ring!SetupRing
<1>2. CASE Ring!Fine /\ open' = open \cup {Ring!NewFd} /\ Ring!Goto("sq") /\ \E single \in BOOLEAN :
               ring' = [Ring!NoRing EXCEPT !.fd = Ring!NewFd, !.single_mmap = single]
  <2>1. ring' \in Bare
    BY <1>1, <1>2, DescriptorsAre DEF Bare, RingAt, Ring!NoRing, Ring!NULL
  <2>2. open' = {3, 4}
    BY <1>1, <1>2, DescriptorsAre
  <2> QED
    BY <1>1, <1>2, <2>1, <2>2 DEF RingInv, HeldInv, TornInv, Ring!SetupRing, Ring!Goto, Ring!Fine, Ring!Fault,
     Ring!local, Ring!kernel, Ring!history, Ring!fixture
<1>3. CASE Ring!Fault /\ Ring!Goto("out") /\ ring' = Ring!NoRing /\ UNCHANGED open
  BY <1>1, <1>3 DEF RingInv, HeldInv, TornInv, Ring!SetupRing, Ring!Goto, Ring!Fine, Ring!Fault,
     Ring!local, Ring!kernel, Ring!history, Ring!fixture
<1> QED
  BY <1>2, <1>3 DEF Ring!SetupRing

\* A set-up that fails releases what the structure names, and it names all.
LEMMA FailureKeepsRing ==
    ASSUME RingInv, NEW r, NEW mappings, Ring!InitFails(r), open = {3, 4}, row # TRUE,
           r.fd = 4, Ring!Unmaps(r) = mappings, Ring!ToSet(mappings) = maps,
           Ring!IsInjective(mappings), UNCHANGED <<noEventfd, row, torn, armed>>,
           noEventfd = FALSE
    PROVE  RingInv'
<1>1. Ring!Opened(r.fd) = <<4>>
  BY DEF Ring!Opened, Ring!NoFd
<1>2. Ring!Release(mappings, <<4>>) /\ pc' = "out"
  BY <1>1 DEF Ring!InitFails, Ring!raw_ring_destroy, Ring!Goto
<1>3. Ring!ToSet(<<4>>) = {4} /\ Ring!IsInjective(<<4>>) /\ {4} \subseteq open
  BY ShortSequences
<1>4. wild = FALSE
  BY DEF RingInv
<1>5. wild' = FALSE /\ maps' = maps \ Ring!ToSet(mappings) /\ open' = open \ {4}
  BY <1>2, <1>3, <1>4, ReleaseIsClean
<1>6. maps' = {} /\ open' = {3}
  BY <1>5
<1> QED
  BY <1>2, <1>5, <1>6 DEF RingInv, HeldInv, TornInv

LEMMA MapSqKeepsRing ==
    ASSUME RingFlags, RingInv, Ring!MapSq
    PROVE  RingInv'
<1>1. pc = "sq" /\ wild = FALSE /\ open = {3, 4} /\ maps = {} /\ ring \in Bare
      /\ noEventfd = FALSE /\ row # TRUE
  BY DEF RingInv, HeldInv, TornInv, Ring!MapSq
<1>2. PICK single \in BOOLEAN : ring = RingAt(single, "NULL", "NULL", "NULL")
  BY <1>1 DEF Bare
<1>3. UNCHANGED <<noEventfd, row, torn, armed>>
  BY DEF Ring!MapSq, Ring!local
<1>4. CASE Ring!InitFails(ring)
  <2>1. ring.fd = 4
    BY <1>2 DEF RingAt
  <2>2. Ring!Unmaps(ring) = <<>>
    BY <1>1, UnmapsAre
  <2> QED
    BY <1>1, <1>3, <1>4, <2>1, <2>2, ShortSequences, FailureKeepsRing
<1>5. CASE ~Ring!InitFails(ring)
  <2>1. /\ maps' = {"sq"} /\ UNCHANGED <<open, wild>>
        /\ ring' = IF ring.single_mmap THEN [ring EXCEPT !.sq_ptr = "sq", !.cq_ptr = "sq"]
                   ELSE [ring EXCEPT !.sq_ptr = "sq"]
        /\ pc' = IF ring.single_mmap THEN "sqes" ELSE "cq"
    BY <1>1, <1>5 DEF Ring!MapSq, Ring!Goto
  <2>2. CASE single = TRUE
    <3>1. ring' = Two_ /\ pc' = "sqes"
      BY <1>2, <2>1, <2>2 DEF RingAt, Two_
    <3> QED
      BY <1>1, <1>3, <2>1, <3>1 DEF RingInv, HeldInv, TornInv
  <2>3. CASE single = FALSE
    <3>1. ring' = RingAt(FALSE, "sq", "NULL", "NULL") /\ pc' = "cq"
      BY <1>2, <2>1, <2>3 DEF RingAt
    <3> QED
      BY <1>1, <1>3, <2>1, <3>1 DEF RingInv, HeldInv, TornInv
  <2> QED
    BY <1>2, <2>2, <2>3
<1> QED
  BY <1>4, <1>5

LEMMA MapCqKeepsRing ==
    ASSUME RingFlags, RingInv, Ring!MapCq
    PROVE  RingInv'
<1>1. pc = "cq" /\ wild = FALSE /\ open = {3, 4} /\ maps = {"sq"}
      /\ ring = RingAt(FALSE, "sq", "NULL", "NULL") /\ noEventfd = FALSE /\ row # TRUE
  BY DEF RingInv, HeldInv, TornInv, Ring!MapCq
<1>3. UNCHANGED <<noEventfd, row, torn, armed>>
  BY DEF Ring!MapCq, Ring!local
<1>4. CASE Ring!InitFails(ring)
  <2>1. ring.fd = 4
    BY <1>1 DEF RingAt
  <2>2. Ring!Unmaps(ring) = <<"sq">>
    BY <1>1, UnmapsAre
  <2> QED
    BY <1>1, <1>3, <1>4, <2>1, <2>2, ShortSequences, FailureKeepsRing
<1>5. CASE ~Ring!InitFails(ring)
  <2>1. /\ maps' = {"sq", "cq"} /\ UNCHANGED <<open, wild>>
        /\ ring' = [ring EXCEPT !.cq_ptr = "cq"] /\ pc' = "sqes"
    BY <1>1, <1>5 DEF Ring!MapCq, Ring!Goto
  <2>2. ring' = Three_
    BY <1>1, <2>1 DEF RingAt, Three_
  <2> QED
    BY <1>1, <1>3, <2>1, <2>2 DEF RingInv, HeldInv, TornInv
<1> QED
  BY <1>4, <1>5

LEMMA MapSqesKeepsRing ==
    ASSUME RingFlags, RingInv, Ring!MapSqes
    PROVE  RingInv'
<1>0. pc = "sqes"
  BY DEF Ring!MapSqes
<1>1. pc = "sqes" /\ wild = FALSE /\ open = {3, 4} /\ noEventfd = FALSE /\ row # TRUE
      /\ ((ring = Two_ /\ maps = {"sq"}) \/ (ring = Three_ /\ maps = {"sq", "cq"}))
  <2>1. wild = FALSE /\ HeldInv /\ TornInv
    BY DEF RingInv
  <2>2. open = {3, 4} /\ ((ring = Two_ /\ maps = {"sq"}) \/ (ring = Three_ /\ maps = {"sq", "cq"}))
    BY <1>0, <2>1 DEF HeldInv
  <2>3. noEventfd = FALSE /\ row # TRUE
    BY <1>0, <2>1 DEF TornInv
  <2> QED
    BY <1>0, <2>1, <2>2, <2>3
<1>3. UNCHANGED <<noEventfd, row, torn, armed>>
  BY DEF Ring!MapSqes, Ring!local
<1>2. Ring!AfterSqesFailed(ring) = ring
  BY <1>1 DEF Ring!AfterSqesFailed, Ring!NULL, Two_, Three_, RingAt
<1>4. CASE Ring!InitFails(ring)
  <2>1. ring.fd = 4
    BY <1>1 DEF Two_, Three_, RingAt
  <2>2. CASE ring = Two_ /\ maps = {"sq"}
    <3>1. Ring!Unmaps(ring) = <<"sq">>
      BY <2>2, UnmapsAre
    <3> QED
      BY <1>1, <1>3, <1>4, <2>1, <2>2, <3>1, ShortSequences, FailureKeepsRing
  <2>3. CASE ring = Three_ /\ maps = {"sq", "cq"}
    <3>1. Ring!Unmaps(ring) = <<"sq", "cq">>
      BY <2>3, UnmapsAre
    <3>2. Ring!ToSet(<<"sq", "cq">>) = maps /\ Ring!IsInjective(<<"sq", "cq">>)
      BY <2>3, ShortSequences
    <3> QED
      BY <1>1, <1>3, <1>4, <2>1, <3>1, <3>2, FailureKeepsRing
  <2> QED
    BY <1>1, <2>2, <2>3
<1>5. CASE ~Ring!InitFails(ring)
  <2>1. /\ maps' = maps \cup {"sqes"} /\ UNCHANGED <<open, wild>>
        /\ ring' = [ring EXCEPT !.sqes_ptr = "sqes"] /\ pc' = "eventfds"
    BY <1>2, <1>5 DEF Ring!MapSqes, Ring!Goto
  <2>2. Whole'
    <3>1. CASE ring = Two_ /\ maps = {"sq"}
      <4>1. ring' = Two
        BY <2>1, <3>1 DEF RingAt, Two_, Two
      <4>2. maps' = {"sq", "sqes"}
        BY <2>1, <3>1
      <4> QED
        BY <4>1, <4>2 DEF Whole
    <3>2. CASE ring = Three_ /\ maps = {"sq", "cq"}
      <4>1. ring' = Three
        BY <2>1, <3>2 DEF RingAt, Three_, Three
      <4>2. maps' = {"sq", "cq", "sqes"}
        BY <2>1, <3>2
      <4> QED
        BY <4>1, <4>2 DEF Whole
    <3> QED
      BY <1>1, <3>1, <3>2
  <2> QED
    BY <1>1, <1>3, <2>1, <2>2 DEF RingInv, HeldInv, TornInv
<1> QED
  BY <1>4, <1>5

LEMMA MakeEventfdsKeepsRing ==
    ASSUME RingFlags, RingInv, Ring!MakeEventfds
    PROVE  RingInv'
<1>1. pc = "eventfds" /\ wild = FALSE /\ open = {3, 4} /\ Whole /\ noEventfd = FALSE /\ row # TRUE
  BY DEF RingInv, HeldInv, TornInv, Ring!MakeEventfds
<1>2. UNCHANGED <<ring, maps, armed, wild, torn, row>>
  BY DEF Ring!MakeEventfds, Ring!local
<1>3. Ring!NewFd = 5 /\ (CHOOSE h \in Ring!Fds \ (open \cup {5}) : TRUE) = 6
  BY <1>1, DescriptorsAre
<1>4. \/ /\ efds' = <<5, 6>> /\ open' = open \cup {5, 6}
         /\ pc' \in {"poll", "rounds"} /\ noEventfd' = noEventfd
      \/ noEventfd' = TRUE /\ pc' = "out" /\ open \subseteq open'
  BY <1>3 DEF Ring!MakeEventfds, Ring!Goto
<1>5. Whole'
  BY <1>1, <1>2 DEF Whole
<1>6. CASE /\ efds' = <<5, 6>> /\ open' = open \cup {5, 6}
           /\ pc' \in {"poll", "rounds"} /\ noEventfd' = noEventfd
  <2>1. open' = {3, 4, 5, 6}
    BY <1>1, <1>6
  <2> QED
    BY <1>1, <1>2, <1>5, <1>6, <2>1 DEF RingInv, HeldInv, TornInv
<1>7. CASE noEventfd' = TRUE /\ pc' = "out" /\ open \subseteq open'
  <2>1. 3 \in open'
    BY <1>1, <1>7
  <2> QED
    BY <1>1, <1>2, <1>7, <2>1 DEF RingInv, HeldInv, TornInv
<1> QED
  BY <1>4, <1>6, <1>7

\* A whole ring names its mappings, each once.
LEMMA WholeUnmaps ==
    ASSUME Whole
    PROVE  Ring!ToSet(Ring!Unmaps(ring)) = maps /\ Ring!IsInjective(Ring!Unmaps(ring))
<1>1. CASE ring = Two /\ maps = {"sq", "sqes"}
  <2>1. Ring!Unmaps(ring) = <<"sqes", "sq">>
    BY <1>1, UnmapsAre
  <2>2. Ring!ToSet(<<"sqes", "sq">>) = {"sqes", "sq"} /\ Ring!IsInjective(<<"sqes", "sq">>)
    BY ShortSequences
  <2> QED
    BY <1>1, <2>1, <2>2
<1>2. CASE ring = Three /\ maps = {"sq", "cq", "sqes"}
  <2>1. Ring!Unmaps(ring) = <<"sqes", "sq", "cq">>
    BY <1>2, UnmapsAre
  <2>2. /\ Ring!ToSet(<<"sqes", "sq", "cq">>) = {"sqes", "sq", "cq"}
        /\ Ring!IsInjective(<<"sqes", "sq", "cq">>)
    BY ShortSequences
  <2> QED
    BY <1>2, <2>1, <2>2
<1> QED
  BY <1>1, <1>2 DEF Whole

LEMMA fixture_destroyKeepsRing ==
    ASSUME RingFlags, RingInv, Ring!fixture_destroy
    PROVE  RingInv'
<1>1. /\ pc = "destroy" /\ wild = FALSE /\ open = {3, 4, 5, 6} /\ efds = <<5, 6>> /\ Whole
      /\ noEventfd = FALSE /\ row # TRUE
  BY DEF RingInv, HeldInv, TornInv, Ring!fixture_destroy
<1>2. ring.fd = 4
  BY <1>1 DEF Whole, Two, Three, RingAt
<1>3. Ring!Opened(efds[1]) \o Ring!Opened(efds[2]) \o Ring!Opened(ring.fd) = <<5, 6, 4>>
  <2>1. /\ Ring!Opened(efds[1]) = <<5>> /\ Ring!Opened(efds[2]) = <<6>>
        /\ Ring!Opened(ring.fd) = <<4>>
    BY <1>1, <1>2 DEF Ring!Opened, Ring!NoFd
  <2>2. <<5>> \o <<6>> = <<5, 6>>
    BY Pair
  <2>3. <<5, 6>> \o <<4>> = <<5, 6, 4>>
    BY Triple
  <2> QED
    BY <2>1, <2>2, <2>3
<1>4. Ring!ToSet(Ring!Unmaps(ring)) = maps /\ Ring!IsInjective(Ring!Unmaps(ring))
  BY <1>1, WholeUnmaps
<1>5. Ring!Release(Ring!Unmaps(ring), <<5, 6, 4>>) /\ pc' = "out"
  BY <1>3 DEF Ring!fixture_destroy, Ring!Goto
<1>6. Ring!ToSet(<<5, 6, 4>>) = {5, 6, 4} /\ Ring!IsInjective(<<5, 6, 4>>)
  BY ShortSequences
<1>7. {5, 6, 4} \subseteq open
  BY <1>1
<1>8. wild' = FALSE /\ maps' = maps \ maps /\ open' = open \ {5, 6, 4}
  BY <1>1, <1>4, <1>5, <1>6, <1>7, ReleaseIsClean
<1>9. maps' = {} /\ open' = {3}
  BY <1>1, <1>8
<1>10. UNCHANGED <<noEventfd, torn, row>>
  BY DEF Ring!fixture_destroy, Ring!local
<1> QED
  BY <1>1, <1>5, <1>8, <1>9, <1>10 DEF RingInv, HeldInv, TornInv

LEMMA QueuePollKeepsRing ==
    ASSUME RingFlags, RingInv, Ring!QueuePoll
    PROVE  RingInv'
  BY DEF RingInv, HeldInv, TornInv, Whole, Ring!QueuePoll, Ring!Goto, Ring!Fine, Ring!Fault,
     Ring!local, Ring!kernel, Ring!history, Ring!fixture

LEMMA EnterRingKeepsRing ==
    ASSUME RingFlags, RingInv, Ring!EnterRing
    PROVE  RingInv'
  BY DEF RingInv, HeldInv, TornInv, Whole, Ring!EnterRing, Ring!Submitted, Ring!Goto, Ring!Fine, Ring!Fault,
     Ring!local, Ring!kernel, Ring!history, Ring!fixture

LEMMA ProvePendingKeepsRing ==
    ASSUME RingFlags, RingInv, Ring!ProvePending
    PROVE  RingInv'
  BY DEF RingInv, HeldInv, TornInv, Whole, Ring!ProvePending, Ring!Goto, Ring!Fine, Ring!Fault,
     Ring!local, Ring!kernel, Ring!history, Ring!fixture

LEMMA UnmapKeepsRing ==
    ASSUME RingFlags, RingInv, Ring!Unmap
    PROVE  RingInv'
<1>1. /\ pc = "unmap" /\ wild = FALSE /\ open = {3, 4, 5, 6} /\ efds = <<5, 6>> /\ Whole
      /\ noEventfd = FALSE /\ row # TRUE /\ armed = PENDING + DECOYS
  BY DEF RingInv, HeldInv, TornInv, Ring!Unmap
<1>2. Ring!ToSet(Ring!Unmaps(ring)) = maps /\ Ring!IsInjective(Ring!Unmaps(ring))
  BY <1>1, WholeUnmaps
<1>3. Ring!Release(Ring!Unmaps(ring), <<>>) /\ ring' = Ring!raw_ring_unmap(ring) /\ pc' = "close"
      /\ UNCHANGED <<efds, armed, torn, noEventfd, row>>
  BY DEF Ring!Unmap, Ring!Goto, Ring!local
<1>4. wild' = FALSE /\ maps' = maps \ maps /\ open' = open \ {}
  BY <1>1, <1>2, <1>3, ShortSequences, ReleaseIsClean
<1>5. maps' = {} /\ open' = open
  BY <1>4
<1>6. ring' \in Bare
  <2>0. \A single, sq, cq, sqes :
          Ring!raw_ring_unmap(RingAt(single, sq, cq, sqes)) = RingAt(single, "NULL", "NULL", "NULL")
    <3>1. ASSUME NEW single, NEW sq, NEW cq, NEW sqes, NEW r, r = RingAt(single, sq, cq, sqes)
          PROVE  Ring!raw_ring_unmap(r) = RingAt(single, "NULL", "NULL", "NULL")
      <4> DEFINE one == [r EXCEPT !.sqes_ptr = "NULL"]
      <4> DEFINE two == [one EXCEPT !.sq_ptr = "NULL"]
      <4>1. one = RingAt(single, sq, cq, "NULL")
        BY <3>1 DEF RingAt
      <4>3. Ring!raw_ring_unmap(r) = [two EXCEPT !.cq_ptr = "NULL"]
        BY DEF Ring!raw_ring_unmap, Ring!NULL
      <4> HIDE DEF one
      <4>2. two = RingAt(single, "NULL", cq, "NULL")
        BY <4>1 DEF RingAt
      <4> HIDE DEF two
      <4> QED
        BY <4>2, <4>3 DEF RingAt
    <3> QED
      BY <3>1
  <2>1. ring = Two => ring' = RingAt(TRUE, "NULL", "NULL", "NULL")
    BY <1>3, <2>0 DEF Two
  <2>2. ring = Three => ring' = RingAt(FALSE, "NULL", "NULL", "NULL")
    BY <1>3, <2>0 DEF Three
  <2>3. ring = Two \/ ring = Three
    BY <1>1 DEF Whole
  <2> QED
    BY <2>1, <2>2, <2>3 DEF Bare
<1> QED
  BY <1>1, <1>3, <1>4, <1>5, <1>6 DEF RingInv, HeldInv, TornInv

LEMMA CloseRingKeepsRing ==
    ASSUME RingFlags, RingInv, Ring!CloseRing
    PROVE  RingInv'
<1>1. /\ pc = "close" /\ wild = FALSE /\ open = {3, 4, 5, 6} /\ efds = <<5, 6>> /\ maps = {}
      /\ ring \in Bare /\ noEventfd = FALSE /\ row # TRUE /\ armed = PENDING + DECOYS
  BY DEF RingInv, HeldInv, TornInv, Ring!CloseRing
<1>2. Ring!Release(<<>>, <<4>>) /\ pc' = "closeEfds" /\ armed' = 0 /\ torn' = armed
      /\ UNCHANGED <<efds, noEventfd, row>>
  BY <1>1 DEF Ring!CloseRing, Ring!Goto, Bare, RingAt
<1>3. wild' = FALSE /\ maps' = maps \ {} /\ open' = open \ {4}
  <2>1. Ring!ToSet(<<4>>) = {4} /\ Ring!IsInjective(<<4>>) /\ {4} \subseteq open
    BY <1>1, ShortSequences
  <2> QED
    BY <1>1, <1>2, <2>1, ShortSequences, ReleaseIsClean
<1>4. maps' = {} /\ open' = {3, 5, 6}
  BY <1>1, <1>3
<1> QED
  BY <1>1, <1>2, <1>3, <1>4 DEF RingInv, HeldInv, TornInv

LEMMA CloseEventfdsKeepsRing ==
    ASSUME RingFlags, RingInv, Ring!CloseEventfds
    PROVE  RingInv'
<1>1. /\ pc = "closeEfds" /\ wild = FALSE /\ open = {3, 5, 6} /\ efds = <<5, 6>> /\ maps = {}
      /\ noEventfd = FALSE /\ row # TRUE /\ torn = PENDING + DECOYS /\ armed = 0
  BY DEF RingInv, HeldInv, TornInv, Ring!CloseEventfds
<1>2. Ring!Release(<<>>, <<5, 6>>) /\ pc' = "countAfter" /\ UNCHANGED <<armed, torn, noEventfd, row>>
  BY <1>1 DEF Ring!CloseEventfds, Ring!Goto, Ring!local
<1>3. wild' = FALSE /\ maps' = maps \ {} /\ open' = open \ {5, 6}
  <2>1. Ring!ToSet(<<5, 6>>) = {5, 6} /\ Ring!IsInjective(<<5, 6>>) /\ {5, 6} \subseteq open
    BY <1>1, ShortSequences
  <2> QED
    BY <1>1, <1>2, <2>1, ShortSequences, ReleaseIsClean
<1>4. maps' = {} /\ open' = {3}
  BY <1>1, <1>3
<1> QED
  BY <1>1, <1>2, <1>3, <1>4 DEF RingInv, HeldInv, TornInv

LEMMA CountAfterKeepsRing ==
    ASSUME RingFlags, RingInv, Ring!CountAfter
    PROVE  RingInv'
  BY DescriptorsAre DEF RingInv, HeldInv, TornInv, Ring!CountAfter, Ring!Goto, Ring!Fine, Ring!Fault,
     Ring!local, Ring!kernel, Ring!history, Ring!fixture

LEMMA WriteRowKeepsRing ==
    ASSUME RingFlags, RingInv, Ring!WriteRow
    PROVE  RingInv'
  BY DescriptorsAre DEF RingInv, HeldInv, TornInv, Ring!WriteRow, Ring!Goto, Ring!Fine, Ring!Fault,
     Ring!local, Ring!kernel, Ring!history, Ring!fixture

LEMMA RoundsKeepsRing ==
    ASSUME RingFlags, RingInv, Ring!Rounds
    PROVE  RingInv'
  BY DEF RingInv, HeldInv, TornInv, Whole, Ring!Rounds, Ring!Goto, Ring!Fine, Ring!Fault,
     Ring!local, Ring!kernel, Ring!history, Ring!fixture

LEMMA ExitKeepsRing ==
    ASSUME RingFlags, RingInv, Ring!Exit
    PROVE  RingInv'
<1>1. pc = "out" /\ pc' = "done" /\ Ring!Release(<<>>, <<3>>) /\ UNCHANGED <<armed, torn, noEventfd, row>>
  BY DescriptorsAre DEF Ring!Exit, Ring!Goto, Ring!local
<1>2. wild = FALSE /\ 3 \in open /\ (noEventfd = FALSE => open = {3} /\ maps = {})
  BY <1>1 DEF RingInv, HeldInv
<1>3. wild' = FALSE /\ maps' = maps \ {} /\ open' = open \ {3}
  <2>1. Ring!ToSet(<<3>>) = {3} /\ Ring!IsInjective(<<3>>) /\ {3} \subseteq open
    BY <1>2, ShortSequences
  <2> QED
    <3>1. Ring!ToSet(<<>>) = {} /\ Ring!IsInjective(<<>>) /\ {} \subseteq maps
      BY ShortSequences
    <3>2. wild = FALSE /\ Ring!Release(<<>>, <<3>>)
      BY <1>1, <1>2
    <3> HIDE DEF Ring!Release
    <3> QED
      BY <2>1, <3>1, <3>2, ReleaseIsClean
<1>4. noEventfd = FALSE => maps' = {} /\ open' = {}
  BY <1>2, <1>3
<1>5. row = TRUE => torn = PENDING + DECOYS /\ armed = 0 /\ noEventfd = FALSE
  BY <1>1 DEF RingInv, TornInv
<1> QED
  BY <1>1, <1>3, <1>4, <1>5 DEF RingInv, HeldInv, TornInv


LEMMA NextKeepsRing ==
    ASSUME RingFlags, RingInv, Ring!Next
    PROVE  RingInv'
  BY OpenOutputKeepsRing, CountBeforeKeepsRing, SetupRingKeepsRing, MapSqKeepsRing, MapCqKeepsRing,
     MapSqesKeepsRing, MakeEventfdsKeepsRing, fixture_destroyKeepsRing, QueuePollKeepsRing,
     EnterRingKeepsRing, ProvePendingKeepsRing, UnmapKeepsRing, CloseRingKeepsRing,
     CloseEventfdsKeepsRing, CountAfterKeepsRing, WriteRowKeepsRing, RoundsKeepsRing, ExitKeepsRing
  DEF Ring!Next

\* The size of a set does not depend on where FiniteSets was extended.
LEMMA SameSize == ASSUME NEW S PROVE Ring!Cardinality(S) = Cardinality(S)
  BY DEF Ring!Cardinality, Cardinality

LEMMA RingInvMeans == RingFlags /\ RingInv => Ring!ReleasedOnce /\ Ring!ReleaseProven
<1> SUFFICES ASSUME RingFlags, RingInv PROVE Ring!ReleasedOnce /\ Ring!ReleaseProven
  OBVIOUS
<1>1. Ring!ReleasedOnce
  <2>1. wild = FALSE /\ (pc = "done" /\ noEventfd = FALSE => open = {} /\ maps = {})
    BY DEF RingInv, HeldInv
  <2> QED
    BY <2>1 DEF Ring!ReleasedOnce
<1>2. Ring!ReleaseProven
  <2> DEFINE Sound == /\ torn = PENDING + DECOYS /\ armed = 0
                      /\ maps = {} /\ Cardinality(open) = (IF pc = "done" THEN 0 ELSE 1)
  <2>1. ASSUME row = TRUE \/ pc = "write" PROVE Sound
    <3>1. torn = PENDING + DECOYS /\ armed = 0
      BY <2>1 DEF RingInv, TornInv
    <3>2. pc = "write" \/ (noEventfd = FALSE /\ pc \in {"out", "done"})
      BY <2>1 DEF RingInv, TornInv
    <3>3. maps = {} /\ (IF pc = "done" THEN open = {} ELSE open = {3})
      BY <3>2 DEF RingInv, HeldInv
    <3>4. Cardinality({}) = 0 /\ Cardinality({3}) = 1
      BY FS_EmptySet, FS_Singleton
    <3> QED
      BY <3>1, <3>3, <3>4
  <2>2. Ring!ReleaseProven <=> (profile = "r0" /\ (row \/ pc = "write") => Sound)
    BY SameSize, Zenon DEF Ring!ReleaseProven
  <2>3. row \in BOOLEAN
    BY Zenon DEF RingFlags
  <2> HIDE DEF Sound
  <2> QED
    BY <2>1, <2>2, <2>3, Zenon
<1> QED
  BY <1>1, <1>2


-----------------------------------------------------------------------------
(* The scenarios of one thread of the fsnotify program                     *)

Whats  == {"add", "rm", "ignored", "open"}
Events == {"ignored", "overflow", "foreign"}

\* The items one kind of call was done for, and how often an event is queued.
Did(what) == {j \in Int : <<what, j>> \in took}
Times(q, e) == Cardinality({j \in DOMAIN q : q[j] = e})

Limit == cfg.items
Early == {"load", "sysctls", "root", "create", "pin", "group", "warm"}

WatchFlags == registered \in BOOLEAN /\ stuck \in BOOLEAN /\ affinity_ok \in BOOLEAN

WatchTypes ==
    /\ cfg \in Configs /\ i \in Nat /\ faults \in Nat
    /\ success \in Nat /\ removed \in Nat /\ unexpected \in Nat
    /\ nextWd \in Nat \ {0} /\ max_events \in Nat
    /\ wds \in [0..Limit - 1 -> Int] /\ queue \in Seq(Events) /\ took \subseteq Whats \X Int

FilesInv ==
    /\ pc = "create" => registered = TRUE
    /\ registered = FALSE => files = {} \/ stuck = TRUE
    /\ pc = "done" /\ registered = TRUE /\ cfg.keep_files = FALSE => files = {} \/ stuck = TRUE

\* Which scenario is where, and what is not yet begun.
PlacesInv ==
    /\ pc \in {"warm", "lookup"} => cfg.scenario = "lookup"
    /\ pc \in {"group", "add", "remove", "drain"} => cfg.scenario \in {"bulk", "mask"}
    /\ pc = "update" => cfg.scenario = "mask"
    /\ pc \in Early => /\ took = {} /\ unexpected = 0 /\ success = 0 /\ removed = 0
                       /\ watches = {} /\ nextWd = 1 /\ queue = <<>>
    /\ pc \in {"root", "create", "pin", "group", "add", "remove"} /\ cfg.scenario = "bulk" =>
         Limit < cfg.max_queue

\* One IN_IGNORED in the queue for each watch that announced its end.
EventsInv ==
    /\ IsFiniteSet(Did("ignored"))
    /\ pc \notin {"row", "exit", "done"} => Times(queue, "ignored") = Cardinality(Did("ignored"))
    /\ pc = "row" /\ cfg.scenario # "lookup" => counts.ignored = Cardinality(Did("ignored"))

Shared(j) == \E m \in 0..i-1 : m # j /\ wds[m] = wds[j]

BulkInv == cfg.scenario = "bulk" =>
    /\ Did("open") = {}
    /\ pc = "add" => /\ i <= Limit /\ Did("rm") = {} /\ Did("ignored") = {}
                     /\ Did("add") \subseteq 0..i-1
                     /\ \A w \in watches : \E j \in 0..i-1 : w = <<wds[j], j>>
                     /\ unexpected = 0 => \A j \in 0..i-1 : j \in Did("add") \/ Shared(j)
    /\ pc = "remove" => /\ i <= Limit /\ Did("add") \subseteq 0..Limit-1
                        /\ Did("rm") \subseteq 0..i-1 /\ Did("ignored") \subseteq 0..i-1
                        /\ unexpected = 0 => Did("add") = 0..Limit-1 /\ Did("rm") = 0..i-1
    /\ pc \in {"drain", "row"} => /\ Did("ignored") \subseteq 0..Limit-1
                                  /\ unexpected = 0 => /\ Did("add") = 0..Limit-1
                                                       /\ Did("rm") = 0..Limit-1

First == -2

MaskInv == cfg.scenario = "mask" =>
    /\ Did("open") = {}
    /\ pc = "add" => /\ i \in 0..2 /\ Did("rm") = {} /\ Did("ignored") = {}
                     /\ i = 0 => watches = {} /\ Did("add") = {} /\ nextWd = 1
                     /\ i > 0 => Did("add") = {First} /\ wds[0] \in Nat /\ wds[0] < nextWd
                                 /\ watches # {}
                     /\ \A w \in watches : w[2] = Watch!Target /\ w[1] \in Int
                     /\ unexpected = 0
    /\ pc = "update" => /\ i <= Limit /\ Did("rm") = {} /\ Did("ignored") = {}
                        /\ wds[0] \in Nat /\ wds[0] < nextWd /\ watches # {}
                        /\ \A w \in watches : w[2] = Watch!Target /\ w[1] \in Int
                        /\ unexpected = 0 => Did("add") = 0..i-1 \cup {First}
    /\ pc = "remove" => /\ Did("rm") = {} /\ Did("ignored") = {}
                        /\ unexpected = 0 => Did("add") = 0..Limit-1 \cup {First}
    /\ pc \in {"drain", "row"} => /\ Did("ignored") \subseteq {First}
                                  /\ unexpected = 0 => /\ Did("add") = 0..Limit-1 \cup {First}
                                                       /\ Did("rm") = {First}

LookupInv == cfg.scenario = "lookup" =>
    /\ Did("add") = {} /\ Did("rm") = {} /\ Did("ignored") = {}
    /\ pc = "lookup" => i <= Limit /\ (unexpected = 0 => Did("open") = 0..i-1)
    /\ pc = "row" => (unexpected = 0 => Did("open") = 0..Limit-1)

\* While nothing goes wrong the run is this one.
Ignored(n) == Len(queue) = n /\ \A j \in 1..n : queue[j] = "ignored"

CleanBulk == cfg.scenario = "bulk" =>
    /\ pc = "add" => /\ max_events = cfg.max_queue /\ queue = <<>>
                     /\ unexpected = 0 /\ success = i /\ removed = 0 /\ nextWd = i + 1
                     /\ \A j \in 0..i-1 : wds[j] = j + 1 /\ <<j + 1, j>> \in watches
    /\ pc = "remove" => /\ max_events = cfg.max_queue /\ Ignored(i)
                        /\ unexpected = 0 /\ success = Limit /\ removed = i
                        /\ \A j \in 0..Limit-1 : wds[j] = j + 1
                        /\ \A j \in i..Limit-1 : <<j + 1, j>> \in watches
    /\ pc \in {"drain", "row"} => unexpected = 0 /\ success = Limit /\ removed = Limit
    /\ pc = "drain" => Ignored(Limit)
    /\ pc = "row" => counts = [ignored |-> Limit, overflow |-> 0, unexpected |-> 0]

CleanMask == cfg.scenario = "mask" =>
    /\ pc \in {"add", "update", "remove"} => max_events = cfg.max_queue /\ queue = <<>>
    /\ pc = "add" => success = 0
    /\ pc \in {"add", "update"} => \A w \in watches : w[1] = wds[0]
    /\ pc = "update" => success = i /\ unexpected = 0
    /\ pc = "remove" => (\E w \in watches : w[1] = wds[0])
    /\ pc \in {"remove", "drain", "row"} => success = Limit /\ unexpected = 0
    /\ pc = "drain" => Ignored(1)
    /\ pc = "row" => counts = [ignored |-> 1, overflow |-> 0, unexpected |-> 0]

CleanLookup == cfg.scenario = "lookup" =>
    /\ pc = "lookup" => success = i /\ unexpected = 0
    /\ pc = "row" => success = Limit /\ unexpected = 0

CleanInv == faults = 0 => affinity_ok = TRUE /\ CleanBulk /\ CleanMask /\ CleanLookup

VerdictInv ==
    /\ pc \notin {"exit", "done"} => status = "none"
    /\ Watch!PassEarned /\ Watch!FailHasCause

WorkInv ==
    /\ WatchTypes /\ PlacesInv /\ EventsInv
    /\ BulkInv /\ MaskInv /\ LookupInv /\ CleanInv

WatchInv == FilesInv /\ VerdictInv /\ WorkInv

LEMMA FlagsOfWatch ==
    /\ Watch!Init => WatchFlags
    /\ WatchFlags /\ (Watch!Next \/ UNCHANGED Watch!vars) => WatchFlags'
<1>1. Watch!Init => WatchFlags
  BY Zenon DEF Watch!Init, WatchFlags
<1>2. ASSUME WatchFlags, Watch!Next \/ UNCHANGED Watch!vars PROVE WatchFlags'
  BY <1>2, Zenon DEF WatchFlags, Watch!Next, Watch!Program, Watch!vars, Watch!fixture, Watch!tally,
     Watch!LoadConfig, Watch!ReadSysctls, Watch!MakeFixtureRoot, Watch!Create, Watch!Pin,
     Watch!InotifyInit, Watch!BulkAdd, Watch!BulkRemove, Watch!MaskFirst, Watch!MaskUpdate,
     Watch!MaskRemove, Watch!LookupWarm, Watch!Lookup, Watch!Drain, Watch!Row, Watch!Exit,
     Watch!ForeignEvent
<1> QED
  BY <1>1, <1>2

LEMMA ConfigIs ==
    ASSUME cfg \in Configs
    PROVE  /\ Limit \in Nat \ {0} /\ cfg.items = Limit /\ Watch!Items = 0..Limit - 1
           /\ cfg.max_queue \in Nat \ {0} /\ cfg.scenario \in {"bulk", "mask", "lookup"}
           /\ WARM \in Nat
<1>1. cfg.items \in Nat \ {0} /\ cfg.max_queue \in Nat \ {0} /\ WARM \in Nat
  BY ProgramsAssumption DEF Watch!ConfigAssumption
<1>2. cfg.scenario \in {"bulk", "mask", "lookup"}
  BY ProgramsAssumption DEF Watch!ConfigAssumption
<1> QED
  BY <1>1, <1>2 DEF Limit, Watch!Items

LEMMA CountIs ==
    /\ \A e : Watch!Count(e) = Times(queue, e)
    /\ \A S : Watch!Cardinality(S) = Cardinality(S)
<1>1. ASSUME NEW S PROVE Watch!Cardinality(S) = Cardinality(S)
  BY DEF Watch!Cardinality, Cardinality
<1>2. ASSUME NEW e PROVE Watch!Count(e) = Times(queue, e)
  BY <1>1 DEF Watch!Count, Times
<1> QED
  BY <1>1, <1>2

LEMMA InitDid == took = {} => \A what : Did(what) = {}
  BY DEF Did

LEMMA TookGrows ==
    ASSUME took \subseteq Whats \X Int, NEW what \in Whats, NEW n \in Int,
           took' = took \cup {<<what, n>>}
    PROVE  /\ took' \subseteq Whats \X Int /\ Did(what)' = Did(what) \cup {n}
           /\ \A other \in Whats : other # what => Did(other)' = Did(other)
<1>1. took' \subseteq Whats \X Int
  OBVIOUS
<1>2. \A other, j : <<other, j>> \in took' <=> <<other, j>> \in took \/ (other = what /\ j = n)
  OBVIOUS
<1>3. Did(what)' = Did(what) \cup {n}
  BY <1>2 DEF Did
<1>4. \A other \in Whats : other # what => Did(other)' = Did(other)
  BY <1>2 DEF Did
<1> QED
  BY <1>1, <1>3, <1>4

LEMMA TookStays == UNCHANGED took => \A what : Did(what)' = Did(what)
  BY DEF Did

\* What is in the queue after one more event.
LEMMA TimesOfAppend ==
    ASSUME NEW q \in Seq(Events), NEW x \in Events, NEW e
    PROVE  /\ Append(q, x) \in Seq(Events) /\ Times(q, e) \in Nat
           /\ Times(Append(q, x), e) = Times(q, e) + (IF x = e THEN 1 ELSE 0)
<1> DEFINE before_ == {j \in DOMAIN q : q[j] = e}
           after == {j \in DOMAIN Append(q, x) : Append(q, x)[j] = e}
<1>1. /\ Len(q) \in Nat /\ DOMAIN q = 1..Len(q)
      /\ DOMAIN Append(q, x) = 1..Len(q) + 1
      /\ \A j \in 1..Len(q) : Append(q, x)[j] = q[j]
      /\ Append(q, x)[Len(q) + 1] = x /\ Append(q, x) \in Seq(Events)
  OBVIOUS
<1>2. IsFiniteSet(before_) /\ Cardinality(before_) \in Nat
  <2>1. IsFiniteSet(1..Len(q))
    BY <1>1, FS_Interval
  <2> QED
    BY <1>1, <2>1, FS_Subset, FS_CardinalityType
<1>3. Len(q) + 1 \notin before_
  BY <1>1
<1>4. after = IF x = e THEN before_ \cup {Len(q) + 1} ELSE before_
  BY <1>1
<1>5. Cardinality(before_ \cup {Len(q) + 1}) = Cardinality(before_) + 1
  BY <1>2, <1>3, FS_AddElement
<1>6. Times(q, e) = Cardinality(before_) /\ Times(Append(q, x), e) = Cardinality(after)
  BY DEF Times
<1> HIDE DEF before_, after
<1> QED
  BY <1>1, <1>2, <1>4, <1>5, <1>6

LEMMA EnqueueIs ==
    ASSUME queue \in Seq(Events), max_events \in Nat, NEW e \in {"ignored", "foreign"},
           queue' = Watch!Enqueue(e)
    PROVE  /\ queue' \in Seq(Events)
           /\ Times(queue, "ignored") \in Nat
           /\ Times(queue', "ignored") = Times(queue, "ignored")
                + (IF e = "ignored" /\ Len(queue) < max_events THEN 1 ELSE 0)
           /\ Len(queue) < max_events => queue' = Append(queue, e)
<1>1. \/ Len(queue) < max_events /\ queue' = Append(queue, e)
      \/ ~(Len(queue) < max_events) /\ (queue' = queue \/ queue' = Append(queue, "overflow"))
  BY DEF Watch!Enqueue
<1>2. e \in Events /\ "overflow" \in Events /\ "ignored" \in Events
  BY DEF Events
<1>3. CASE Len(queue) < max_events /\ queue' = Append(queue, e)
  BY <1>2, <1>3, TimesOfAppend
<1>4. CASE ~(Len(queue) < max_events) /\ queue' = queue
  BY <1>2, <1>4, TimesOfAppend
<1>5. CASE ~(Len(queue) < max_events) /\ queue' = Append(queue, "overflow")
  BY <1>2, <1>5, TimesOfAppend
<1> QED
  BY <1>1, <1>3, <1>4, <1>5

LEMMA FaultsCount ==
    ASSUME faults \in Nat, Watch!Fine \/ Watch!Fault
    PROVE  faults' \in Nat /\ (faults' = 0 => faults = 0 /\ ~Watch!Fault) /\ (faults = 0 /\ Watch!Fine => faults' = 0)
  BY DEF Watch!Fine, Watch!Fault

\* What an inotify_add_watch for item n has done.
LEMMA AddGives ==
    ASSUME WatchTypes, NEW path, NEW n \in Int, NEW r, Watch!AddWatch(path, n, r)
    PROVE  /\ faults' \in Nat /\ nextWd' \in Nat \ {0} /\ took' \subseteq Whats \X Int
           /\ \A other \in Whats \ {"add"} : Did(other)' = Did(other)
           /\ \/ /\ faults' = faults /\ Did("add")' = Did("add") \cup {n}
                 /\ \A w \in watches : w[2] # path
                 /\ r = nextWd /\ nextWd' = nextWd + 1 /\ watches' = watches \cup {<<nextWd, path>>}
              \/ /\ faults' = faults /\ Did("add")' = Did("add") \cup {n}
                 /\ \E w \in watches : w[2] = path /\ r = w[1]
                 /\ UNCHANGED <<watches, nextWd>>
              \/ faults' > 0 /\ r = -1 /\ UNCHANGED <<watches, nextWd>> /\ Did("add")' = Did("add")
              \/ /\ faults' > 0 /\ \E w \in watches : w[2] # path /\ r = w[1]
                 /\ UNCHANGED <<watches, nextWd>> /\ Did("add")' = Did("add")
              \/ /\ faults' > 0 /\ \E w \in watches : w[2] = path
                 /\ r = nextWd /\ nextWd' = nextWd + 1 /\ watches' = watches \cup {<<nextWd, path>>}
                 /\ Did("add")' = Did("add")
<1>1. faults \in Nat /\ nextWd \in Nat \ {0} /\ took \subseteq Whats \X Int
  BY DEF WatchTypes
<1>2. Watch!Fine => faults' = faults /\ faults' \in Nat
  BY <1>1 DEF Watch!Fine
<1>3. Watch!Fault => faults' > 0 /\ faults' \in Nat
  BY <1>1 DEF Watch!Fault
<1>4. "add" \in Whats
  BY DEF Whats
<1>5. Watch!WdsOf(path) = {} <=> \A w \in watches : w[2] # path
  BY DEF Watch!WdsOf
<1>6. \A x : x \in Watch!WdsOf(path) <=> \E w \in watches : w[2] = path /\ x = w[1]
  BY DEF Watch!WdsOf
<1>7. took' = took \cup {<<"add", n>>} =>
        /\ took' \subseteq Whats \X Int /\ Did("add")' = Did("add") \cup {n}
        /\ \A other \in Whats \ {"add"} : Did(other)' = Did(other)
  BY <1>1, <1>4, TookGrows
<1>8. UNCHANGED took =>
        /\ took' \subseteq Whats \X Int /\ Did("add")' = Did("add")
        /\ \A other \in Whats \ {"add"} : Did(other)' = Did(other)
  BY <1>1, TookStays
<1> QED
  BY <1>1, <1>2, <1>3, <1>5, <1>6, <1>7, <1>8 DEF Watch!AddWatch, Watch!None

\* What an inotify_rm_watch for item n has done: it went well, or not.
LEMMA RmGives ==
    ASSUME WatchTypes, EventsInv, pc = "remove", NEW wd, NEW n \in Int, n \notin Did("ignored"),
           Watch!RmWatch(wd, n, TRUE)
    PROVE  /\ faults' \in Nat /\ queue' \in Seq(Events) /\ took' \subseteq Whats \X Int
           /\ Did("add")' = Did("add") /\ Did("open")' = Did("open")
           /\ Did("rm")' = Did("rm") \cup {n}
           /\ Did("ignored")' \subseteq Did("ignored") \cup {n}
           /\ IsFiniteSet(Did("ignored")')
           /\ Times(queue', "ignored") = Cardinality(Did("ignored")')
           /\ watches' = {w \in watches : w[1] # wd}
           /\ faults' = 0 => /\ faults = 0
                             /\ Len(queue) < max_events => queue' = Append(queue, "ignored")
<1>1. faults \in Nat /\ took \subseteq Whats \X Int /\ queue \in Seq(Events) /\ max_events \in Nat
  BY DEF WatchTypes
<1>2. /\ IsFiniteSet(Did("ignored"))
      /\ Times(queue, "ignored") = Cardinality(Did("ignored"))
  BY DEF EventsInv
<1> DEFINE gone == {w \in watches : w[1] = wd}
           room == Len(queue) < max_events
           rm == took \cup {<<"rm", n>>}
<1>3. \/ /\ Watch!Fine /\ watches' = watches \ gone /\ queue' = Watch!Enqueue("ignored")
         /\ took' = rm \cup (IF room THEN {<<"ignored", n>>} ELSE {})
      \/ Watch!Fault /\ watches' = watches \ gone /\ took' = rm /\ UNCHANGED queue
  BY DEF Watch!RmWatch
<1>4. watches' = {w \in watches : w[1] # wd}
  BY <1>3
<1>5. \A other, j : <<other, j>> \in rm <=> <<other, j>> \in took \/ (other = "rm" /\ j = n)
  OBVIOUS
<1>6. CASE /\ Watch!Fine /\ queue' = Watch!Enqueue("ignored")
           /\ took' = rm \cup (IF room THEN {<<"ignored", n>>} ELSE {})
  <2>1. CASE room
    <3>1. \A other, j : <<other, j>> \in took' <=>
            <<other, j>> \in took \/ ((other = "rm" \/ other = "ignored") /\ j = n)
      BY <1>5, <1>6, <2>1
    <3>2. /\ Did("add")' = Did("add") /\ Did("open")' = Did("open")
          /\ Did("rm")' = Did("rm") \cup {n} /\ Did("ignored")' = Did("ignored") \cup {n}
      BY <3>1 DEF Did
    <3>3. took' \subseteq Whats \X Int
      BY <1>1, <1>6, <2>1 DEF Whats
    <3>4. /\ IsFiniteSet(Did("ignored") \cup {n})
          /\ Cardinality(Did("ignored") \cup {n}) = Cardinality(Did("ignored")) + 1
      BY <1>2, FS_AddElement
    <3>5. /\ queue' \in Seq(Events) /\ Times(queue', "ignored") = Times(queue, "ignored") + 1
          /\ queue' = Append(queue, "ignored")
      BY <1>1, <1>6, <2>1, EnqueueIs
    <3>6. faults' \in Nat /\ faults' = faults
      BY <1>1, <1>6 DEF Watch!Fine
    <3> QED
      BY <1>2, <1>4, <3>2, <3>3, <3>4, <3>5, <3>6
  <2>2. CASE ~room
    <3>1. took' = rm
      BY <1>6, <2>2
    <3>2. /\ Did("add")' = Did("add") /\ Did("open")' = Did("open")
          /\ Did("rm")' = Did("rm") \cup {n} /\ Did("ignored")' = Did("ignored")
      BY <1>5, <3>1 DEF Did
    <3>3. took' \subseteq Whats \X Int
      BY <1>1, <3>1 DEF Whats
    <3>5. /\ queue' \in Seq(Events) /\ Times(queue', "ignored") = Times(queue, "ignored")
      BY <1>1, <1>6, <2>2, EnqueueIs
    <3>6. faults' \in Nat /\ faults' = faults
      BY <1>1, <1>6 DEF Watch!Fine
    <3> QED
      BY <1>2, <1>4, <2>2, <3>2, <3>3, <3>5, <3>6
  <2> QED
    BY <2>1, <2>2
<1>7. CASE Watch!Fault /\ took' = rm /\ UNCHANGED queue
  <2>1. /\ Did("add")' = Did("add") /\ Did("open")' = Did("open")
        /\ Did("rm")' = Did("rm") \cup {n} /\ Did("ignored")' = Did("ignored")
    BY <1>5, <1>7 DEF Did
  <2>2. took' \subseteq Whats \X Int
    BY <1>1, <1>7 DEF Whats
  <2>3. faults' \in Nat /\ faults' # 0
    BY <1>1, <1>7 DEF Watch!Fault
  <2> QED
    BY <1>1, <1>2, <1>4, <1>7, <2>1, <2>2, <2>3
<1> QED
  BY <1>3, <1>6, <1>7

LEMMA RmFails ==
    ASSUME faults \in Nat, NEW wd, NEW n, Watch!RmWatch(wd, n, FALSE)
    PROVE  /\ faults' \in Nat /\ UNCHANGED <<watches, queue, took>>
           /\ faults' = 0 => faults = 0 /\ \A w \in watches : w[1] # wd
<1>1. \/ Watch!Fine /\ {w \in watches : w[1] = wd} = {} /\ UNCHANGED <<watches, queue, took>>
      \/ Watch!Fault /\ UNCHANGED <<watches, queue, took>>
  BY DEF Watch!RmWatch
<1>2. Watch!Fine => faults' = faults
  BY DEF Watch!Fine
<1>3. Watch!Fault => faults' = faults + 1
  BY DEF Watch!Fault
<1> QED
  BY <1>1, <1>2, <1>3

LEMMA InitWatch == Watch!Init => WatchInv
<1> SUFFICES ASSUME Watch!Init PROVE WatchInv
  OBVIOUS
<1>1. /\ cfg \in Configs /\ pc = "load" /\ i = 0 /\ files = {} /\ registered = FALSE
      /\ success = 0 /\ removed = 0 /\ unexpected = 0 /\ status = "none"
      /\ watches = {} /\ nextWd = 1 /\ queue = <<>> /\ max_events = 0 /\ took = {} /\ faults = 0
  BY DEF Watch!Init
<1>2. affinity_ok = TRUE
  BY Zenon DEF Watch!Init
<1>3. wds \in [0..Limit - 1 -> Int]
  <2>1. wds = [j \in 0..Limit - 1 |-> -1]
    BY <1>1, ConfigIs DEF Watch!Init, Watch!None
  <2> QED
    BY <2>1
<1>4. \A what : Did(what) = {}
  BY <1>1, InitDid
<1>5. Times(queue, "ignored") = 0 /\ IsFiniteSet({}) /\ Cardinality({}) = 0
  <2>1. {j \in DOMAIN queue : queue[j] = "ignored"} = {}
    BY <1>1
  <2> QED
    BY <2>1, FS_EmptySet DEF Times
<1>6. WatchTypes
  BY <1>1, <1>3 DEF WatchTypes
<1>7. PlacesInv /\ FilesInv
  BY <1>1 DEF PlacesInv, FilesInv
<1>8. EventsInv
  BY <1>1, <1>4, <1>5 DEF EventsInv
<1>9. BulkInv /\ MaskInv /\ LookupInv
  BY <1>1, <1>4 DEF BulkInv, MaskInv, LookupInv
<1>10. CleanInv
  BY <1>1, <1>2 DEF CleanInv, CleanBulk, CleanMask, CleanLookup
<1>11. VerdictInv
  BY <1>1 DEF VerdictInv, Watch!PassEarned, Watch!FailHasCause
<1> QED
  BY <1>6, <1>7, <1>8, <1>9, <1>10, <1>11 DEF WatchInv, WorkInv

\* The fixture is the business of three steps.
LEMMA NextKeepsFiles ==
    ASSUME WatchFlags, FilesInv, cfg \in Configs, Watch!Next
    PROVE  FilesInv'
<1>1. registered \in BOOLEAN /\ cfg.keep_files \in BOOLEAN
  BY ProgramsAssumption, Zenon DEF WatchFlags, Watch!ConfigAssumption
<1>2. CASE Watch!MakeFixtureRoot
  BY <1>1, <1>2, Zenon DEF FilesInv, Watch!MakeFixtureRoot, Watch!Goto, Watch!Die, Watch!fixture
<1>3. CASE Watch!Create
  BY <1>1, <1>3 DEF FilesInv, Watch!Create, Watch!Goto, Watch!Die
<1>4. CASE Watch!Exit
  BY <1>1, <1>4, Zenon DEF FilesInv, Watch!Exit
<1>5. ASSUME UNCHANGED <<cfg, files, registered, stuck>>, pc' \notin {"create", "done"}
      PROVE  FilesInv'
  BY <1>5 DEF FilesInv
<1>6. CASE \/ Watch!LoadConfig \/ Watch!ReadSysctls \/ Watch!Pin \/ Watch!InotifyInit
           \/ Watch!BulkAdd \/ Watch!BulkRemove \/ Watch!MaskFirst \/ Watch!MaskUpdate
           \/ Watch!MaskRemove \/ Watch!LookupWarm \/ Watch!Lookup \/ Watch!Drain \/ Watch!Row
           \/ Watch!ForeignEvent
  <2>1. UNCHANGED <<cfg, files, registered, stuck>>
    BY <1>6 DEF Watch!LoadConfig, Watch!ReadSysctls, Watch!Pin, Watch!InotifyInit, Watch!BulkAdd,
       Watch!BulkRemove, Watch!MaskFirst, Watch!MaskUpdate, Watch!MaskRemove, Watch!LookupWarm,
       Watch!Lookup, Watch!Drain, Watch!Row, Watch!ForeignEvent, Watch!fixture
  <2>2. pc' \notin {"create", "done"}
    BY <1>6 DEF Watch!LoadConfig, Watch!ReadSysctls, Watch!Pin, Watch!InotifyInit, Watch!BulkAdd,
       Watch!BulkRemove, Watch!MaskFirst, Watch!MaskUpdate, Watch!MaskRemove, Watch!LookupWarm,
       Watch!Lookup, Watch!Drain, Watch!Row, Watch!ForeignEvent, Watch!Goto, Watch!Die
  <2> QED
    BY <1>5, <2>1, <2>2
<1> QED
  BY <1>2, <1>3, <1>4, <1>6 DEF Watch!Next, Watch!Program

\* Before the calls that are counted.
LEMMA BeginningKeepsWork ==
    ASSUME WorkInv, pc \in Early, cfg' = cfg, i' \in Nat, faults' \in Nat, max_events' \in Nat,
           UNCHANGED <<wds, success, removed, unexpected, counts, watches, nextWd, queue, took>>,
           pc' \in Early \cup {"add", "lookup", "exit"},
           pc' = "warm" => cfg.scenario = "lookup",
           pc' = "group" => cfg.scenario \in {"bulk", "mask"},
           pc' = "add" => i' = 0 /\ cfg.scenario \in {"bulk", "mask"},
           pc' = "lookup" => i' = 0 /\ cfg.scenario = "lookup",
           pc' \notin {"load", "sysctls", "exit"} /\ cfg.scenario = "bulk" => Limit < cfg.max_queue,
           faults' = 0 => /\ faults = 0 /\ affinity_ok' = affinity_ok
                          /\ pc' = "add" => max_events' = cfg.max_queue
    PROVE  WorkInv'
<1>1. cfg \in Configs /\ WatchTypes /\ PlacesInv /\ EventsInv /\ LookupInv
  BY DEF WorkInv, WatchTypes
<1>2. Limit' = Limit /\ Limit \in Nat \ {0}
  BY <1>1, ConfigIs DEF Limit
<1>3. /\ took = {} /\ unexpected = 0 /\ success = 0 /\ removed = 0
      /\ watches = {} /\ nextWd = 1 /\ queue = <<>>
  BY <1>1 DEF PlacesInv
<1>4. \A what : Did(what) = {} /\ Did(what)' = {}
  BY <1>3, InitDid, TookStays
<1>0. i' = 0 => i' <= Limit /\ 0..i'-1 = {}
  BY <1>2
<1>5. WatchTypes'
  BY <1>1, <1>2 DEF WatchTypes
<1>6. PlacesInv'
  BY <1>2, <1>3 DEF PlacesInv, Early
<1>7. EventsInv'
  <2>1. Times(queue', "ignored") = Times(queue, "ignored")
    OBVIOUS
  <2>2. pc \notin {"row", "exit", "done"}
    BY DEF Early
  <2>3. pc' # "row"
    BY DEF Early
  <2>4. Times(queue, "ignored") = Cardinality({}) /\ IsFiniteSet({})
    BY <1>1, <1>4, <2>2, FS_EmptySet DEF EventsInv
  <2> QED
    BY <1>4, <2>1, <2>3, <2>4 DEF EventsInv
<1>8. BulkInv' /\ MaskInv' /\ LookupInv'
  <2>1. pc' \notin {"update", "remove", "drain", "row"}
    BY DEF Early
  <2>2. BulkInv'
    BY <1>0, <1>2, <1>3, <1>4, <2>1 DEF BulkInv
  <2>3. MaskInv'
    BY <1>2, <1>3, <1>4, <2>1 DEF MaskInv
  <2>4. LookupInv'
    BY <1>0, <1>2, <1>3, <1>4, <2>1 DEF LookupInv
  <2> QED
    BY <2>2, <2>3, <2>4
<1>9. CleanInv'
  <2> SUFFICES ASSUME faults' = 0 PROVE (affinity_ok = TRUE /\ CleanBulk /\ CleanMask /\ CleanLookup)'
    BY DEF CleanInv
  <2>1. affinity_ok' = TRUE
    BY DEF WorkInv, CleanInv
  <2>2. CleanBulk' /\ CleanMask' /\ CleanLookup'
    <3>1. pc' \notin {"update", "remove", "drain", "row"}
      BY DEF Early
    <3>2. CleanBulk'
      <4>1. CASE pc' = "add"
        <5>1. i' = 0 /\ max_events' = cfg.max_queue
          BY <4>1
        <5>2. nextWd' = i' + 1 /\ success' = i'
          BY <1>3, <5>1
        <5>3. ~\E j : j \in 0..i'-1
          BY <1>0, <5>1
        <5> QED
          BY <1>3, <4>1, <5>1, <5>2, <5>3 DEF CleanBulk
      <4>2. CASE pc' # "add"
        BY <3>1, <4>2 DEF CleanBulk
      <4> QED
        BY <4>1, <4>2
    <3>3. CleanMask'
      BY <1>2, <1>3, <3>1 DEF CleanMask
    <3>4. CleanLookup'
      BY <1>2, <1>3, <3>1 DEF CleanLookup
    <3> QED
      BY <3>2, <3>3, <3>4
  <2> QED
    BY <2>1, <2>2
<1> QED
  BY <1>5, <1>6, <1>7, <1>8, <1>9 DEF WorkInv

LEMMA BeginningStepsKeepWork ==
    ASSUME WorkInv,
           \/ Watch!LoadConfig \/ Watch!ReadSysctls \/ Watch!MakeFixtureRoot \/ Watch!Create
           \/ Watch!Pin \/ Watch!InotifyInit \/ Watch!LookupWarm
    PROVE  WorkInv'
<1>1. /\ cfg \in Configs /\ i \in Nat /\ faults \in Nat /\ max_events \in Nat /\ PlacesInv
  BY DEF WorkInv, WatchTypes
<1>2. /\ Limit \in Nat \ {0} /\ cfg.items = Limit /\ cfg.max_queue \in Nat \ {0}
      /\ cfg.scenario \in {"bulk", "mask", "lookup"}
  BY <1>1, ConfigIs
<1> DEFINE Calm == faults' \in Nat /\ (faults' = 0 => faults = 0)
           Same == UNCHANGED <<cfg, wds, success, removed, unexpected, counts, watches, nextWd,
                               queue, took>>
<1>3. CASE Watch!LoadConfig
  <2>1. pc = "load" /\ pc' \in {"sysctls", "exit"} /\ i' \in Nat /\ Same
        /\ UNCHANGED <<max_events, faults, affinity_ok>>
    BY <1>1, <1>3 DEF Watch!LoadConfig, Watch!Goto, Watch!Die, Watch!Fine, Watch!tally, Watch!inotify
  <2> QED
    BY <1>1, <2>1, BeginningKeepsWork DEF Early
<1>4. CASE Watch!ReadSysctls
  <2>1. pc = "sysctls" /\ pc' \in {"root", "exit"} /\ i' \in Nat /\ Same /\ Calm
        /\ UNCHANGED <<max_events, affinity_ok>>
    BY <1>1, <1>4 DEF Watch!ReadSysctls, Watch!Goto, Watch!Die, Watch!Fine, Watch!Fault, Watch!tally,
                      Watch!inotify
  <2>2. pc' = "root" /\ cfg.scenario = "bulk" => Limit < cfg.max_queue
    BY <1>2, <1>4 DEF Watch!ReadSysctls, Watch!Goto, Watch!Die, Watch!MarginsOk
  <2> QED
    BY <1>1, <2>1, <2>2, BeginningKeepsWork DEF Early
<1>5. CASE Watch!MakeFixtureRoot
  <2>1. pc = "root" /\ pc' \in {"create", "exit"} /\ i' \in Nat /\ Same /\ Calm
        /\ UNCHANGED <<max_events, affinity_ok>>
    BY <1>1, <1>5 DEF Watch!MakeFixtureRoot, Watch!Goto, Watch!Die, Watch!Fine, Watch!Fault,
                      Watch!tally, Watch!inotify
  <2>2. cfg.scenario = "bulk" => Limit < cfg.max_queue
    BY <1>1, <2>1 DEF PlacesInv
  <2> QED
    BY <1>1, <2>1, <2>2, BeginningKeepsWork DEF Early
<1>6. CASE Watch!Create
  <2>1. pc = "create" /\ pc' \in {"create", "pin", "exit"} /\ i' \in Nat /\ Same /\ Calm
        /\ UNCHANGED <<max_events, affinity_ok>>
    BY <1>1, <1>6 DEF Watch!Create, Watch!Goto, Watch!Die, Watch!Fine, Watch!Fault,
                      Watch!tally, Watch!inotify
  <2>2. cfg.scenario = "bulk" => Limit < cfg.max_queue
    BY <1>1, <2>1 DEF PlacesInv
  <2> QED
    BY <1>1, <2>1, <2>2, BeginningKeepsWork DEF Early
<1>7. CASE Watch!Pin
  <2>1. pc = "pin" /\ pc' = (IF cfg.scenario = "lookup" THEN "warm" ELSE "group") /\ i' \in Nat
        /\ Same /\ Calm /\ UNCHANGED max_events
    BY <1>1, <1>7 DEF Watch!Pin, Watch!Goto, Watch!Fine, Watch!Fault, Watch!inotify
  <2>2. faults' = 0 => affinity_ok' = affinity_ok
    BY <1>1, <1>7 DEF Watch!Pin, Watch!Fine, Watch!Fault
  <2>3. cfg.scenario = "bulk" => Limit < cfg.max_queue
    BY <1>1, <2>1 DEF PlacesInv
  <2> QED
    BY <1>1, <1>2, <2>1, <2>2, <2>3, BeginningKeepsWork DEF Early
<1>8. CASE Watch!InotifyInit
  <2>1. pc = "group" /\ pc' \in {"add", "exit"} /\ i' \in Nat /\ Same /\ Calm
        /\ UNCHANGED affinity_ok /\ max_events' \in Nat /\ (pc' = "add" => i' = 0)
        /\ (faults' = 0 => pc' = "add" /\ max_events' = cfg.max_queue)
    BY <1>1, <1>2, <1>8 DEF Watch!InotifyInit, Watch!Goto, Watch!Die, Watch!Fine, Watch!Fault,
                            Watch!tally
  <2>2. /\ cfg.scenario = "bulk" => Limit < cfg.max_queue
        /\ cfg.scenario \in {"bulk", "mask"}
    BY <1>1, <2>1 DEF PlacesInv
  <2> QED
    BY <1>1, <2>1, <2>2, BeginningKeepsWork DEF Early
<1>9. CASE Watch!LookupWarm
  <2>1. pc = "warm" /\ pc' \in {"warm", "lookup", "exit"} /\ i' \in Nat /\ Same /\ Calm
        /\ UNCHANGED <<max_events, affinity_ok>> /\ (pc' = "lookup" => i' = 0)
    BY <1>1, <1>9 DEF Watch!LookupWarm, Watch!Goto, Watch!Die, Watch!Fine, Watch!Fault,
                      Watch!tally, Watch!inotify
  <2>2. cfg.scenario = "lookup"
    BY <1>1, <2>1 DEF PlacesInv
  <2> QED
    BY <1>1, <2>1, <2>2, BeginningKeepsWork DEF Early
<1> QED
  BY <1>3, <1>4, <1>5, <1>6, <1>7, <1>8, <1>9

\* Where the run is over nothing more is counted.
LEMMA LeavingKeepsWork ==
    ASSUME WorkInv, pc' \in {"exit", "done"}, UNCHANGED <<cfg, took, affinity_ok>>, WatchTypes',
           faults' = 0 => faults = 0
    PROVE  WorkInv'
<1>1. \A what : Did(what)' = Did(what)
  BY TookStays
<1>2. PlacesInv' /\ EventsInv'
  BY <1>1 DEF PlacesInv, EventsInv, WorkInv, Early
<1>3. BulkInv' /\ MaskInv' /\ LookupInv'
  BY <1>1 DEF BulkInv, MaskInv, LookupInv, WorkInv
<1>4. CleanInv'
  BY DEF CleanInv, CleanBulk, CleanMask, CleanLookup, WorkInv
<1> QED
  BY <1>2, <1>3, <1>4 DEF WorkInv

LEMMA ForeignKeepsWork ==
    ASSUME WorkInv, Watch!ForeignEvent
    PROVE  WorkInv'
<1>1. /\ UNCHANGED <<cfg, pc, i, wds, success, removed, unexpected, counts, watches, nextWd,
                     max_events, took>>
      /\ faults' \in Nat /\ faults' # 0 /\ queue' = Watch!Enqueue("foreign")
      /\ pc \in {"add", "update", "remove"}
  BY DEF Watch!ForeignEvent, Watch!Fault, Watch!tally, WorkInv, WatchTypes
<1>2. /\ queue' \in Seq(Events)
      /\ Times(queue', "ignored") = Times(queue, "ignored")
  <2>1. queue \in Seq(Events) /\ max_events \in Nat
    BY DEF WorkInv, WatchTypes
  <2> QED
    BY <1>1, <2>1, EnqueueIs
<1>3. \A what : Did(what)' = Did(what)
  BY <1>1, TookStays
<1>4. WatchTypes'
  BY <1>1, <1>2 DEF WorkInv, WatchTypes, Limit
<1>5. PlacesInv'
  BY <1>1 DEF WorkInv, PlacesInv, Limit, Early
<1>6. EventsInv'
  BY <1>1, <1>2, <1>3 DEF WorkInv, EventsInv
<1>7. BulkInv'
  BY <1>1, <1>3 DEF WorkInv, BulkInv, Shared, Limit
<1>8. MaskInv' /\ LookupInv'
  BY <1>1, <1>3 DEF WorkInv, MaskInv, LookupInv, Limit
<1>9. CleanInv'
  BY <1>1 DEF CleanInv
<1> QED
  BY <1>4, <1>5, <1>6, <1>7, <1>8, <1>9 DEF WorkInv

LEMMA BulkAddKeepsWork ==
    ASSUME WorkInv, Watch!BulkAdd
    PROVE  WorkInv'
<1>1. WatchTypes /\ PlacesInv /\ EventsInv /\ BulkInv /\ CleanInv
  BY DEF WorkInv
<1>2. /\ pc = "add" /\ cfg.scenario = "bulk"
      /\ UNCHANGED <<cfg, removed, counts, affinity_ok, queue, max_events>>
  BY DEF Watch!BulkAdd
<1>3. /\ cfg \in Configs /\ i \in Nat /\ success \in Nat /\ unexpected \in Nat /\ faults \in Nat
      /\ nextWd \in Nat \ {0} /\ wds \in [0..Limit - 1 -> Int] /\ took \subseteq Whats \X Int
  BY <1>1 DEF WatchTypes
<1>4. /\ Limit \in Nat \ {0} /\ cfg.items = Limit /\ Watch!Items = 0..Limit - 1 /\ Limit' = Limit
      /\ Limit < cfg.max_queue
  <2>1. Limit < cfg.max_queue
    BY <1>1, <1>2 DEF PlacesInv
  <2> QED
    BY <1>2, <1>3, <2>1, ConfigIs DEF Limit
<1>5. /\ i <= Limit /\ Did("rm") = {} /\ Did("ignored") = {} /\ Did("add") \subseteq 0..i-1
      /\ Did("open") = {}
      /\ \A w \in watches : \E j \in 0..i-1 : w = <<wds[j], j>>
      /\ unexpected = 0 => \A j \in 0..i-1 : j \in Did("add") \/ Shared(j)
  BY <1>1, <1>2 DEF BulkInv
<1>6. faults = 0 => /\ max_events = cfg.max_queue /\ queue = <<>>
                    /\ unexpected = 0 /\ success = i /\ removed = 0 /\ nextWd = i + 1
                    /\ \A j \in 0..i-1 : wds[j] = j + 1 /\ <<j + 1, j>> \in watches
  BY <1>1, <1>2 DEF CleanInv, CleanBulk
<1>7. faults = 0 => affinity_ok = TRUE
  BY <1>1 DEF CleanInv
<1>8. CASE i < cfg.items
  <2>1. PICK r \in Watch!None..cfg.items :
          /\ Watch!AddWatch(i, i, r)
          /\ wds' = [wds EXCEPT ![i] = r]
          /\ success' = IF r >= 0 THEN success + 1 ELSE success
          /\ unexpected' = IF r >= 0 THEN unexpected ELSE unexpected + 1
          /\ i' = i + 1 /\ pc' = "add"
    BY <1>2, <1>8 DEF Watch!BulkAdd
  <2>2. r \in Int /\ i \in 0..Limit - 1 /\ i' = i + 1
    BY <1>3, <1>4, <1>8, <2>1 DEF Watch!None
  <2>3. /\ faults' \in Nat /\ nextWd' \in Nat \ {0} /\ took' \subseteq Whats \X Int
        /\ \A other \in Whats \ {"add"} : Did(other)' = Did(other)
    BY <1>1, <1>3, <2>1, AddGives
  <2>4. \A w \in watches : w[2] # i
    BY <1>3, <1>5
  <2>5. \/ /\ faults' = faults /\ Did("add")' = Did("add") \cup {i}
           /\ r = nextWd /\ nextWd' = nextWd + 1 /\ watches' = watches \cup {<<nextWd, i>>}
        \/ faults' > 0 /\ r = -1 /\ UNCHANGED watches /\ Did("add")' = Did("add")
        \/ /\ faults' > 0 /\ \E w \in watches : r = w[1]
           /\ UNCHANGED watches /\ Did("add")' = Did("add")
    BY <1>1, <1>3, <2>1, <2>4, AddGives
  <2>6. /\ wds' \in [0..Limit - 1 -> Int] /\ wds'[i] = r
        /\ \A j \in 0..i-1 : wds'[j] = wds[j]
    BY <1>3, <1>4, <2>1, <2>2
  <2>7. success' \in Nat /\ unexpected' \in Nat
        /\ (unexpected' = 0 => unexpected = 0 /\ r >= 0)
    BY <1>3, <2>1, <2>2
  <2>8. WatchTypes'
    BY <1>1, <1>2, <1>3, <1>4, <2>2, <2>3, <2>6, <2>7 DEF WatchTypes
  <2>9. Did("rm")' = {} /\ Did("ignored")' = {} /\ Did("open")' = {}
    BY <1>5, <2>3 DEF Whats
  <2>10. PlacesInv'
    BY <1>2, <1>4, <2>1 DEF PlacesInv, Early
  <2>11. EventsInv'
    BY <1>1, <1>2, <1>5, <2>1, <2>9 DEF EventsInv
  <2>12. Did("add")' \subseteq 0..i'-1
    BY <1>3, <1>5, <2>2, <2>5
  <2>13. \A w \in watches' : \E j \in 0..i'-1 : w = <<wds'[j], j>>
    <3> SUFFICES ASSUME NEW w \in watches' PROVE \E j \in 0..i'-1 : w = <<wds'[j], j>>
      OBVIOUS
    <3>1. CASE w \in watches
      <4>1. PICK j \in 0..i-1 : w = <<wds[j], j>>
        BY <1>5, <3>1
      <4>2. j \in 0..i'-1 /\ wds'[j] = wds[j]
        BY <1>3, <2>2, <2>6, <4>1
      <4> QED
        BY <4>1, <4>2
    <3>2. CASE w \notin watches
      <4>1. w = <<nextWd, i>> /\ r = nextWd
        BY <2>5, <3>2
      <4>2. i \in 0..i'-1
        BY <1>3, <2>2
      <4> QED
        BY <2>6, <4>1, <4>2
    <3> QED
      BY <3>1, <3>2
  <2>14. unexpected' = 0 => \A j \in 0..i'-1 : j \in Did("add")' \/ Shared(j)'
    <3> SUFFICES ASSUME unexpected' = 0, NEW j \in 0..i'-1, j \notin Did("add")'
                 PROVE  \E m \in 0..i'-1 : m # j /\ wds'[m] = wds'[j]
      BY DEF Shared
    <3>1. CASE j \in 0..i-1
      <4>1. j \notin Did("add")
        BY <2>5
      <4>2. PICK m \in 0..i-1 : m # j /\ wds[m] = wds[j]
        BY <1>5, <2>7, <3>1, <4>1 DEF Shared
      <4>3. m \in 0..i'-1 /\ wds'[m] = wds[m] /\ wds'[j] = wds[j]
        BY <1>3, <2>2, <2>6, <3>1
      <4> QED
        BY <4>2, <4>3
    <3>2. CASE j = i
      <4>1. PICK w \in watches : r = w[1]
        BY <2>5, <2>7, <3>2
      <4>2. PICK m \in 0..i-1 : w = <<wds[m], m>>
        BY <1>5
      <4>3. wds[m] = r /\ m \in 0..i'-1 /\ m # i /\ wds'[m] = wds[m]
        BY <1>3, <2>2, <2>6, <4>1, <4>2
      <4> QED
        BY <2>6, <3>2, <4>3
    <3> QED
      BY <1>3, <2>2, <3>1, <3>2
  <2>15. BulkInv'
    BY <1>2, <1>3, <1>4, <2>1, <2>2, <2>9, <2>12, <2>13, <2>14 DEF BulkInv
  <2>16. faults' = 0 => /\ max_events' = cfg.max_queue /\ queue' = <<>>
                        /\ unexpected' = 0 /\ success' = i' /\ removed' = 0 /\ nextWd' = i' + 1
                        /\ \A j \in 0..i'-1 : wds'[j] = j + 1 /\ <<j + 1, j>> \in watches'
    <3> SUFFICES ASSUME faults' = 0
                 PROVE  /\ max_events' = cfg.max_queue /\ queue' = <<>>
                        /\ unexpected' = 0 /\ success' = i' /\ removed' = 0 /\ nextWd' = i' + 1
                        /\ \A j \in 0..i'-1 : wds'[j] = j + 1 /\ <<j + 1, j>> \in watches'
      OBVIOUS
    <3>1. faults = 0 /\ r = nextWd /\ nextWd' = nextWd + 1 /\ watches' = watches \cup {<<nextWd, i>>}
      BY <1>3, <2>5
    <3>2. r = i + 1 /\ r >= 0
      BY <1>3, <1>6, <3>1
    <3>3. unexpected' = 0 /\ success' = i' /\ nextWd' = i' + 1
      BY <1>3, <1>6, <2>1, <2>2, <3>1, <3>2
    <3>4. ASSUME NEW j \in 0..i'-1 PROVE wds'[j] = j + 1 /\ <<j + 1, j>> \in watches'
      <4>1. CASE j \in 0..i-1
        BY <1>6, <2>6, <3>1, <4>1
      <4>2. CASE j = i
        BY <1>6, <2>6, <3>1, <3>2, <4>2
      <4> QED
        BY <1>3, <2>2, <4>1, <4>2
    <3> QED
      BY <1>2, <1>6, <3>1, <3>3, <3>4
  <2>17. CleanInv'
    <3>1. faults' = 0 => affinity_ok' = TRUE
      BY <1>2, <1>3, <1>7, <2>5
    <3>2. faults' = 0 => CleanBulk' /\ CleanMask' /\ CleanLookup'
      BY <1>2, <2>1, <2>16 DEF CleanBulk, CleanMask, CleanLookup
    <3> QED
      BY <3>1, <3>2 DEF CleanInv
  <2>18. MaskInv' /\ LookupInv'
    BY <1>2 DEF MaskInv, LookupInv
  <2> QED
    BY <2>8, <2>10, <2>11, <2>15, <2>17, <2>18 DEF WorkInv
<1>9. CASE ~(i < cfg.items)
  <2>1. /\ pc' = "remove" /\ i' = 0 /\ i = Limit /\ faults' = faults
        /\ UNCHANGED <<wds, success, watches, nextWd, took>>
    BY <1>3, <1>4, <1>5, <1>9 DEF Watch!BulkAdd, Watch!Goto, Watch!Fine
  <2>2. unexpected' = IF Watch!UniqueWds THEN unexpected ELSE unexpected + 1
    BY <1>9 DEF Watch!BulkAdd
  <2>3. \A what : Did(what)' = Did(what)
    BY <2>1, TookStays
  <2>4. WatchTypes'
    BY <1>1, <1>2, <1>3, <1>4, <2>1, <2>2 DEF WatchTypes
  <2>5. PlacesInv'
    BY <1>2, <1>4, <2>1 DEF PlacesInv, Early
  <2>6. EventsInv'
    BY <1>1, <1>2, <2>1, <2>3 DEF EventsInv
  <2>7. unexpected' = 0 => Did("add") = 0..Limit-1
    <3> SUFFICES ASSUME unexpected' = 0 PROVE Did("add") = 0..Limit-1
      OBVIOUS
    <3>1. unexpected = 0 /\ Watch!UniqueWds
      BY <1>3, <2>2
    <3>2. \A j \in 0..Limit-1 : ~Shared(j)
      BY <1>4, <2>1, <3>1 DEF Watch!UniqueWds, Shared
    <3> QED
      BY <1>5, <2>1, <3>1, <3>2
  <2>8. 0..i'-1 = {} /\ 0 <= Limit
    BY <1>4, <2>1
  <2>9. BulkInv'
    BY <1>2, <1>4, <1>5, <2>1, <2>3, <2>7, <2>8 DEF BulkInv
  <2>10. faults = 0 => unexpected' = 0
    <3> SUFFICES ASSUME faults = 0 PROVE unexpected' = 0
      OBVIOUS
    <3>1. \A j \in 0..Limit-1 : wds[j] = j + 1
      BY <1>6, <2>1
    <3>2. Watch!UniqueWds
      BY <1>4, <3>1 DEF Watch!UniqueWds
    <3> QED
      BY <1>6, <2>2, <3>2
  <2>11. faults = 0 => CleanBulk'
    <3> SUFFICES ASSUME faults = 0 PROVE CleanBulk'
      OBVIOUS
    <3>1. queue' = <<>> /\ Len(queue') = 0
      BY <1>2, <1>6
    <3>2. Ignored(i)'
      BY <2>1, <3>1 DEF Ignored
    <3>3. \A j \in 0..Limit-1 : wds'[j] = j + 1 /\ <<j + 1, j>> \in watches'
      BY <1>6, <2>1
    <3>4. /\ max_events' = cfg'.max_queue /\ unexpected' = 0 /\ success' = Limit /\ removed' = i'
          /\ Ignored(i)'
      BY <1>2, <1>6, <2>1, <2>10, <3>2
    <3> QED
      BY <1>4, <2>1, <3>3, <3>4 DEF CleanBulk
  <2>12. CleanInv'
    <3>1. faults' = 0 => affinity_ok' = TRUE
      BY <1>2, <1>7, <2>1
    <3>2. CleanMask' /\ CleanLookup'
      BY <1>2 DEF CleanMask, CleanLookup
    <3> QED
      BY <2>1, <2>11, <3>1, <3>2 DEF CleanInv
  <2>13. MaskInv' /\ LookupInv'
    BY <1>2 DEF MaskInv, LookupInv
  <2> QED
    BY <2>4, <2>5, <2>6, <2>9, <2>12, <2>13 DEF WorkInv
<1> QED
  BY <1>8, <1>9

LEMMA BulkRemoveKeepsWork ==
    ASSUME WorkInv, Watch!BulkRemove
    PROVE  WorkInv'
<1>1. WatchTypes /\ PlacesInv /\ EventsInv /\ BulkInv /\ CleanInv
  BY DEF WorkInv
<1>2. /\ pc = "remove" /\ cfg.scenario = "bulk"
      /\ UNCHANGED <<cfg, wds, success, counts, affinity_ok, nextWd, max_events>>
  BY DEF Watch!BulkRemove
<1>3. /\ cfg \in Configs /\ i \in Nat /\ removed \in Nat /\ unexpected \in Nat /\ faults \in Nat
      /\ wds \in [0..Limit - 1 -> Int] /\ took \subseteq Whats \X Int /\ max_events \in Nat
      /\ queue \in Seq(Events)
  BY <1>1 DEF WatchTypes
<1>4. /\ Limit \in Nat \ {0} /\ cfg.items = Limit /\ Limit' = Limit /\ Limit < cfg.max_queue
      /\ cfg.max_queue \in Nat
  <2>1. Limit < cfg.max_queue
    BY <1>1, <1>2 DEF PlacesInv
  <2> QED
    BY <1>2, <1>3, <2>1, ConfigIs DEF Limit
<1>5. /\ i <= Limit /\ Did("open") = {} /\ Did("add") \subseteq 0..Limit-1
      /\ Did("rm") \subseteq 0..i-1 /\ Did("ignored") \subseteq 0..i-1
      /\ unexpected = 0 => Did("add") = 0..Limit-1 /\ Did("rm") = 0..i-1
  BY <1>1, <1>2 DEF BulkInv
<1>6. faults = 0 => /\ max_events = cfg.max_queue /\ Ignored(i)
                    /\ unexpected = 0 /\ success = Limit /\ removed = i
                    /\ \A j \in 0..Limit-1 : wds[j] = j + 1
                    /\ \A j \in i..Limit-1 : <<j + 1, j>> \in watches
  BY <1>1, <1>2 DEF CleanInv, CleanBulk
<1>7. faults' = 0 /\ faults = 0 => affinity_ok' = TRUE
  BY <1>1, <1>2 DEF CleanInv
<1>8. MaskInv' /\ LookupInv' /\ CleanMask' /\ CleanLookup'
  BY <1>2 DEF MaskInv, LookupInv, CleanMask, CleanLookup
<1>9. CASE i = cfg.items
  <2>1. /\ pc' = "drain" /\ i' = 0 /\ i = Limit
        /\ UNCHANGED <<faults, removed, unexpected, watches, queue, took>>
    BY <1>4, <1>9 DEF Watch!BulkRemove, Watch!Goto, Watch!Fine
  <2>2. \A what : Did(what)' = Did(what)
    BY <2>1, TookStays
  <2>3. WatchTypes'
    BY <1>1, <1>2, <1>3, <1>4, <2>1 DEF WatchTypes
  <2>4. PlacesInv'
    BY <1>2, <1>4, <2>1 DEF PlacesInv, Early
  <2>5. EventsInv'
    BY <1>1, <1>2, <2>1, <2>2 DEF EventsInv
  <2>6. BulkInv'
    BY <1>2, <1>4, <1>5, <2>1, <2>2 DEF BulkInv
  <2>7. faults' = 0 => CleanBulk'
    <3> SUFFICES ASSUME faults = 0 PROVE CleanBulk'
      BY <2>1
    <3>1. Ignored(Limit)'
      BY <1>4, <1>6, <2>1 DEF Ignored
    <3> QED
      BY <1>2, <1>4, <1>6, <2>1, <3>1 DEF CleanBulk
  <2> QED
    BY <1>7, <1>8, <2>1, <2>3, <2>4, <2>5, <2>6, <2>7 DEF WorkInv, CleanInv
<1>10. ASSUME i # cfg.items, Watch!RmWatch(wds[i], i, TRUE),
              removed' = removed + 1, unexpected' = unexpected, i' = i + 1, pc' = pc
       PROVE  WorkInv'
  <2>1. i \in 0..Limit-1 /\ i \in Int /\ i \notin Did("ignored")
    BY <1>3, <1>4, <1>5, <1>10
  <2>2. /\ faults' \in Nat /\ queue' \in Seq(Events) /\ took' \subseteq Whats \X Int
        /\ Did("add")' = Did("add") /\ Did("open")' = Did("open")
        /\ Did("rm")' = Did("rm") \cup {i}
        /\ Did("ignored")' \subseteq Did("ignored") \cup {i}
        /\ IsFiniteSet(Did("ignored")')
        /\ Times(queue', "ignored") = Cardinality(Did("ignored")')
        /\ watches' = {w \in watches : w[1] # wds[i]}
        /\ faults' = 0 => /\ faults = 0
                          /\ Len(queue) < max_events => queue' = Append(queue, "ignored")
    BY <1>1, <1>2, <1>10, <2>1, RmGives
  <2>3. WatchTypes'
    BY <1>1, <1>2, <1>3, <1>4, <1>10, <2>2 DEF WatchTypes
  <2>4. PlacesInv'
    BY <1>2, <1>4, <1>10 DEF PlacesInv, Early
  <2>5. EventsInv'
    BY <1>2, <1>10, <2>2 DEF EventsInv
  <2>6. i' <= Limit /\ 0..i'-1 = (0..i-1) \cup {i}
    <3>1. i' - 1 = i /\ i' <= Limit
      BY <1>3, <1>4, <1>10, <2>1
    <3>2. 0..i = (0..i-1) \cup {i}
      BY <1>3
    <3> QED
      BY <3>1, <3>2
  <2>7. BulkInv'
    BY <1>2, <1>4, <1>5, <1>10, <2>2, <2>6 DEF BulkInv
  <2>8. faults' = 0 => CleanBulk'
    <3> SUFFICES ASSUME faults' = 0 PROVE CleanBulk'
      OBVIOUS
    <3>1. /\ faults = 0 /\ Len(queue) = i /\ max_events = cfg.max_queue
          /\ \A j \in 1..i : queue[j] = "ignored"
      BY <1>6, <2>2 DEF Ignored
    <3>2. queue' = Append(queue, "ignored")
      BY <1>4, <2>1, <2>2, <3>1
    <3>3. /\ Len(queue') = i + 1 /\ queue'[i + 1] = "ignored"
          /\ \A j \in 1..i : queue'[j] = queue[j]
      BY <1>3, <3>1, <3>2
    <3>4. Ignored(i)'
      <4>1. \A j \in 1..i+1 : queue'[j] = "ignored"
        BY <1>3, <3>1, <3>3
      <4> QED
        BY <1>10, <3>3, <4>1 DEF Ignored
    <3>5. wds[i] = i + 1
      BY <1>6, <2>1, <3>1
    <3>6. ASSUME NEW j \in i'..Limit-1 PROVE <<j + 1, j>> \in watches'
      <4>1. j \in i..Limit-1 /\ j + 1 # i + 1
        BY <1>3, <1>4, <1>10
      <4>2. <<j + 1, j>> \in watches
        BY <1>6, <3>1, <4>1
      <4>3. <<j + 1, j>>[1] # wds[i]
        BY <3>5, <4>1
      <4> QED
        BY <2>2, <4>2, <4>3
    <3>7. /\ max_events' = cfg'.max_queue /\ unexpected' = 0 /\ success' = Limit' /\ removed' = i'
          /\ \A j \in 0..Limit'-1 : wds'[j] = j + 1
      BY <1>2, <1>4, <1>6, <1>10, <3>1
    <3> QED
      BY <1>2, <1>4, <1>10, <3>4, <3>6, <3>7 DEF CleanBulk
  <2> QED
    BY <1>7, <1>8, <2>2, <2>3, <2>4, <2>5, <2>7, <2>8 DEF WorkInv, CleanInv
<1>11. ASSUME i # cfg.items, UNCHANGED <<watches, queue, took>>, faults' \in Nat,
              unexpected' = unexpected + 1, removed' = removed, i' = i + 1, pc' = pc,
              faults' = 0 => faults = 0 /\ (wds[i] = -1 \/ \A w \in watches : w[1] # wds[i])
       PROVE  WorkInv'
  <2>1. i \in 0..Limit-1 /\ unexpected' # 0 /\ unexpected' \in Nat
    BY <1>3, <1>4, <1>5, <1>11
  <2>2. \A what : Did(what)' = Did(what)
    BY <1>11, TookStays
  <2>3. WatchTypes'
    BY <1>1, <1>2, <1>3, <1>4, <1>11, <2>1 DEF WatchTypes
  <2>4. PlacesInv'
    BY <1>2, <1>4, <1>11 DEF PlacesInv, Early
  <2>5. EventsInv'
    BY <1>1, <1>2, <1>11, <2>2 DEF EventsInv
  <2>6. i' <= Limit /\ 0..i'-1 = (0..i-1) \cup {i}
    <3>1. i' - 1 = i /\ i' <= Limit
      BY <1>3, <1>4, <1>11, <2>1
    <3>2. 0..i = (0..i-1) \cup {i}
      BY <1>3
    <3> QED
      BY <3>1, <3>2
  <2>7. BulkInv'
    BY <1>2, <1>4, <1>5, <1>11, <2>1, <2>2, <2>6 DEF BulkInv
  <2>8. faults' # 0
    <3> SUFFICES ASSUME faults' = 0 PROVE FALSE
      OBVIOUS
    <3>1. wds[i] = i + 1 /\ <<i + 1, i>> \in watches
      BY <1>3, <1>6, <1>11, <2>1
    <3>2. <<i + 1, i>>[1] = i + 1
      OBVIOUS
    <3> QED
      BY <1>3, <1>11, <3>1, <3>2
  <2> QED
    BY <1>8, <2>3, <2>4, <2>5, <2>7, <2>8 DEF WorkInv, CleanInv
<1>12. CASE i # cfg.items
  <2>1. PICK ok \in BOOLEAN :
          /\ IF wds[i] = Watch!None
               THEN ~ok /\ Watch!Fine /\ UNCHANGED <<watches, queue, took>>
               ELSE Watch!RmWatch(wds[i], i, ok)
          /\ removed' = IF ok THEN removed + 1 ELSE removed
          /\ unexpected' = IF ok THEN unexpected ELSE unexpected + 1
          /\ i' = i + 1 /\ UNCHANGED <<pc, code>>
    BY <1>12, Zenon DEF Watch!BulkRemove
  <2>2. CASE ok = TRUE
    <3>1. /\ Watch!RmWatch(wds[i], i, TRUE) /\ removed' = removed + 1 /\ unexpected' = unexpected
          /\ i' = i + 1 /\ pc' = pc
      BY <2>1, <2>2
    <3> QED
      BY <1>10, <1>12, <3>1
  <2>3. CASE ok = FALSE
    <3>1. /\ removed' = removed /\ unexpected' = unexpected + 1 /\ i' = i + 1 /\ pc' = pc
      BY <2>1, <2>3
    <3>2. CASE wds[i] = Watch!None
      <4>1. UNCHANGED <<faults, watches, queue, took>> /\ wds[i] = -1
        BY <2>1, <3>2 DEF Watch!Fine, Watch!None
      <4> QED
        BY <1>3, <1>11, <1>12, <3>1, <4>1
    <3>3. CASE wds[i] # Watch!None
      <4>1. Watch!RmWatch(wds[i], i, FALSE)
        BY <2>1, <2>3, <3>3
      <4>2. /\ faults' \in Nat /\ UNCHANGED <<watches, queue, took>>
            /\ faults' = 0 => faults = 0 /\ \A w \in watches : w[1] # wds[i]
        BY <1>3, <4>1, RmFails
      <4> QED
        BY <1>11, <1>12, <3>1, <4>2
    <3> QED
      BY <3>2, <3>3
  <2> QED
    BY <2>2, <2>3
<1> QED
  BY <1>9, <1>12

LEMMA MaskFirstKeepsWork ==
    ASSUME WorkInv, Watch!MaskFirst
    PROVE  WorkInv'
<1>1. WatchTypes /\ PlacesInv /\ EventsInv /\ MaskInv /\ CleanInv
  BY DEF WorkInv
<1>2. /\ pc = "add" /\ cfg.scenario = "mask"
      /\ UNCHANGED <<cfg, success, removed, unexpected, counts, affinity_ok, queue, max_events>>
  BY DEF Watch!MaskFirst
<1>3. /\ cfg \in Configs /\ i \in Nat /\ faults \in Nat /\ nextWd \in Nat \ {0}
      /\ wds \in [0..Limit - 1 -> Int]
  BY <1>1 DEF WatchTypes
<1>4. Limit \in Nat \ {0} /\ Limit' = Limit
  BY <1>2, <1>3, ConfigIs DEF Limit
<1>5. /\ Did("open") = {} /\ Did("rm") = {} /\ Did("ignored") = {} /\ i \in 0..2 /\ unexpected = 0
      /\ i = 0 => watches = {} /\ Did("add") = {} /\ nextWd = 1
      /\ i > 0 => Did("add") = {First} /\ wds[0] \in Nat /\ wds[0] < nextWd /\ watches # {}
      /\ \A w \in watches : w[2] = Watch!Target /\ w[1] \in Int
  BY <1>1, <1>2 DEF MaskInv
<1>6. faults = 0 => /\ max_events = cfg.max_queue /\ queue = <<>> /\ success = 0
                    /\ \A w \in watches : w[1] = wds[0]
  BY <1>1, <1>2 DEF CleanInv, CleanMask
<1>7. faults' = 0 /\ faults = 0 => affinity_ok' = TRUE
  BY <1>1, <1>2 DEF CleanInv
<1>8. BulkInv' /\ LookupInv' /\ CleanBulk' /\ CleanLookup'
  BY <1>2 DEF BulkInv, LookupInv, CleanBulk, CleanLookup
<1>9. PICK r \in Watch!None..3 :
        /\ Watch!AddWatch(Watch!Target, Watch!First, r)
        /\ IF i = 0
             THEN /\ wds' = [wds EXCEPT ![0] = r]
                  /\ IF r = Watch!None THEN Watch!Die(1) ELSE i' = 1 /\ UNCHANGED <<pc, code>>
             ELSE /\ UNCHANGED wds
                  /\ CASE r # wds[0] -> Watch!Die(2)
                       [] r = wds[0] /\ i < 2 -> i' = i + 1 /\ UNCHANGED <<pc, code>>
                       [] OTHER -> Watch!Goto("update")
  BY DEF Watch!MaskFirst
<1> DEFINE t == Watch!Target
<1>0. Watch!First = First /\ First \in Int /\ r \in Int
  BY <1>9 DEF Watch!First, First, Watch!None
<1>a. Watch!AddWatch(t, First, r)
  BY <1>0, <1>9
<1> HIDE DEF t
<1>b. /\ faults' \in Nat /\ nextWd' \in Nat \ {0} /\ took' \subseteq Whats \X Int
      /\ \A other \in Whats \ {"add"} : Did(other)' = Did(other)
      /\ \/ /\ faults' = faults /\ Did("add")' = Did("add") \cup {First}
            /\ \A w \in watches : w[2] # t
            /\ r = nextWd /\ nextWd' = nextWd + 1 /\ watches' = watches \cup {<<nextWd, t>>}
         \/ /\ faults' = faults /\ Did("add")' = Did("add") \cup {First}
            /\ \E w \in watches : w[2] = t /\ r = w[1]
            /\ UNCHANGED <<watches, nextWd>>
         \/ faults' > 0 /\ r = -1 /\ UNCHANGED <<watches, nextWd>> /\ Did("add")' = Did("add")
         \/ /\ faults' > 0 /\ \E w \in watches : w[2] # t /\ r = w[1]
            /\ UNCHANGED <<watches, nextWd>> /\ Did("add")' = Did("add")
         \/ /\ faults' > 0 /\ \E w \in watches : w[2] = t
            /\ r = nextWd /\ nextWd' = nextWd + 1 /\ watches' = watches \cup {<<nextWd, t>>}
            /\ Did("add")' = Did("add")
  BY <1>0, <1>1, <1>a, AddGives
<1>10. /\ faults' \in Nat /\ nextWd' \in Nat \ {0} /\ took' \subseteq Whats \X Int
       /\ \A other \in Whats \ {"add"} : Did(other)' = Did(other)
       /\ faults' = 0 => faults = 0
  BY <1>3, <1>b
<1>11. \/ /\ watches = {} /\ Did("add")' = Did("add") \cup {First}
          /\ r = nextWd /\ nextWd' = nextWd + 1 /\ watches' = watches \cup {<<nextWd, Watch!Target>>}
       \/ /\ watches # {} /\ Did("add")' = Did("add") \cup {First}
          /\ UNCHANGED <<watches, nextWd>>
       \/ r = -1 /\ UNCHANGED <<watches, nextWd>> /\ Did("add")' = Did("add") /\ faults' # 0
       \/ /\ r = nextWd /\ nextWd' = nextWd + 1 /\ watches # {}
          /\ watches' = watches \cup {<<nextWd, Watch!Target>>} /\ Did("add")' = Did("add")
          /\ faults' # 0
  BY <1>5, <1>b DEF t
<1>12. Did("rm")' = {} /\ Did("ignored")' = {} /\ Did("open")' = {}
  BY <1>5, <1>10 DEF Whats
<1>13. r \in Int /\ wds' \in [0..Limit - 1 -> Int] /\ (i = 0 => wds'[0] = r) /\ (i # 0 => wds' = wds)
  BY <1>3, <1>4, <1>9 DEF Watch!None
<1>14. \/ pc' = "exit" /\ i' = i
       \/ pc' = "add" /\ i = 0 /\ i' = 1 /\ r # -1
       \/ pc' = "add" /\ i > 0 /\ i < 2 /\ i' = i + 1 /\ r = wds[0]
       \/ pc' = "update" /\ i > 0 /\ i' = 0 /\ r = wds[0]
  <2>1. CASE i = 0
    BY <1>2, <1>9, <2>1 DEF Watch!Die, Watch!None
  <2>2. CASE i # 0
    <3>1. CASE r # wds[0]
      BY <1>9, <2>2, <3>1 DEF Watch!Die
    <3>2. CASE r = wds[0] /\ i < 2
      BY <1>2, <1>3, <1>9, <2>2, <3>2
    <3>3. CASE r = wds[0] /\ ~(i < 2)
      BY <1>3, <1>9, <2>2, <3>3 DEF Watch!Goto
    <3> QED
      BY <3>1, <3>2, <3>3
  <2> QED
    BY <2>1, <2>2
<1>15. WatchTypes'
  <2>1. i' \in Nat
    BY <1>3, <1>14
  <2> QED
    BY <1>1, <1>2, <1>4, <1>10, <1>13, <2>1 DEF WatchTypes
<1>16. PlacesInv'
  BY <1>2, <1>14 DEF PlacesInv, Early
<1>17. EventsInv'
  BY <1>1, <1>2, <1>5, <1>12, <1>14 DEF EventsInv
<1>18. \A w \in watches' : w[2] = Watch!Target /\ w[1] \in Int
  <2>1. <<nextWd, Watch!Target>>[2] = Watch!Target /\ <<nextWd, Watch!Target>>[1] \in Int
    BY <1>3
  <2> QED
    BY <1>5, <1>11, <2>1
<1>19. pc' # "exit" => /\ Did("add")' = {First} /\ wds'[0] \in Nat /\ wds'[0] < nextWd'
                      /\ watches' # {}
  <2> SUFFICES ASSUME pc' # "exit"
               PROVE  Did("add")' = {First} /\ wds'[0] \in Nat /\ wds'[0] < nextWd' /\ watches' # {}
    OBVIOUS
  <2>1. CASE i = 0
    <3>1. /\ Did("add")' = Did("add") \cup {First} /\ r = nextWd /\ nextWd' = nextWd + 1
          /\ watches' = watches \cup {<<nextWd, Watch!Target>>}
      BY <1>5, <1>11, <1>14, <2>1
    <3>2. wds'[0] \in Nat /\ wds'[0] < nextWd'
      BY <1>3, <1>13, <2>1, <3>1
    <3> QED
      BY <1>5, <2>1, <3>1, <3>2
  <2>2. CASE i # 0
    <3>0. r = wds[0] /\ i > 0 /\ wds' = wds
      BY <1>3, <1>13, <1>14, <2>2
    <3>1. r \in Nat /\ r < nextWd
      BY <1>5, <3>0
    <3>2. /\ Did("add")' = Did("add") \cup {First} /\ UNCHANGED <<watches, nextWd>>
      BY <1>3, <1>5, <1>11, <3>0, <3>1
    <3> QED
      BY <1>5, <3>0, <3>1, <3>2
  <2> QED
    BY <2>1, <2>2
<1>20. MaskInv'
  <2>1. CASE pc' = "exit"
    BY <1>12, <2>1 DEF MaskInv
  <2>2. CASE pc' = "add"
    <3>1. i' \in 0..2 /\ i' # 0
      BY <1>3, <1>14, <2>2
    <3> QED
      BY <1>2, <1>5, <1>12, <1>18, <1>19, <2>2, <3>1 DEF MaskInv
  <2>3. CASE pc' = "update"
    <3>1. i' = 0 /\ 0 <= Limit' /\ 0..i'-1 \cup {First} = {First}
      BY <1>4, <1>14, <2>3
    <3> QED
      BY <1>2, <1>4, <1>12, <1>18, <1>19, <2>3, <3>1 DEF MaskInv
  <2> QED
    BY <1>14, <2>1, <2>2, <2>3
<1>21. faults' = 0 => CleanMask'
  <2> SUFFICES ASSUME faults' = 0 PROVE CleanMask'
    OBVIOUS
  <2>1. max_events' = cfg'.max_queue /\ queue' = <<>> /\ success' = 0 /\ unexpected' = 0
    BY <1>2, <1>5, <1>6, <1>10
  <2>2. CASE pc' = "exit"
    BY <2>2 DEF CleanMask
  <2>3. CASE pc' # "exit"
    <3>1. \A w \in watches' : w[1] = wds'[0]
      <4>1. CASE i = 0
        <5>1. watches = {} /\ r = nextWd /\ watches' = {<<nextWd, Watch!Target>>}
          BY <1>5, <1>10, <1>11, <1>14, <2>3, <4>1
        <5> QED
          BY <1>13, <4>1, <5>1
      <4>2. CASE i # 0
        <5>1. watches' = watches /\ wds' = wds
          BY <1>3, <1>5, <1>11, <1>13, <4>2
        <5> QED
          BY <1>6, <1>10, <5>1
      <4> QED
        BY <4>1, <4>2
    <3>2. pc' = "update" => i' = 0
      BY <1>14
    <3> QED
      BY <1>14, <2>1, <2>3, <3>1, <3>2 DEF CleanMask
  <2> QED
    BY <2>2, <2>3
<1> QED
  BY <1>7, <1>8, <1>10, <1>15, <1>16, <1>17, <1>20, <1>21 DEF WorkInv, CleanInv

LEMMA MaskUpdateKeepsWork ==
    ASSUME WorkInv, Watch!MaskUpdate
    PROVE  WorkInv'
<1>1. WatchTypes /\ PlacesInv /\ EventsInv /\ MaskInv /\ CleanInv
  BY DEF WorkInv
<1>2. /\ pc = "update" /\ UNCHANGED <<cfg, wds, removed, counts, affinity_ok, queue, max_events>>
  BY DEF Watch!MaskUpdate
<1>0. cfg.scenario = "mask"
  BY <1>1, <1>2 DEF PlacesInv
<1>3. /\ cfg \in Configs /\ i \in Nat /\ faults \in Nat /\ nextWd \in Nat \ {0}
      /\ success \in Nat /\ unexpected \in Nat
  BY <1>1 DEF WatchTypes
<1>4. Limit \in Nat \ {0} /\ Limit' = Limit /\ cfg.items = Limit
  BY <1>2, <1>3, ConfigIs DEF Limit
<1>5. /\ Did("open") = {} /\ Did("rm") = {} /\ Did("ignored") = {} /\ i <= Limit
      /\ wds[0] \in Nat /\ wds[0] < nextWd /\ watches # {}
      /\ \A w \in watches : w[2] = Watch!Target /\ w[1] \in Int
      /\ unexpected = 0 => Did("add") = 0..i-1 \cup {First}
  BY <1>0, <1>1, <1>2 DEF MaskInv
<1>6. faults = 0 => /\ max_events = cfg.max_queue /\ queue = <<>>
                    /\ success = i /\ unexpected = 0
                    /\ \A w \in watches : w[1] = wds[0]
  BY <1>0, <1>1, <1>2 DEF CleanInv, CleanMask
<1>7. faults' = 0 /\ faults = 0 => affinity_ok' = TRUE
  BY <1>1, <1>2 DEF CleanInv
<1>8. BulkInv' /\ LookupInv' /\ CleanBulk' /\ CleanLookup'
  BY <1>0, <1>2 DEF BulkInv, LookupInv, CleanBulk, CleanLookup
<1>9. CASE i = cfg.items
  <2>1. /\ pc' = "remove" /\ i' = 0 /\ i = Limit
        /\ UNCHANGED <<faults, success, unexpected, watches, nextWd, took>>
    BY <1>4, <1>9 DEF Watch!MaskUpdate, Watch!Goto, Watch!Fine
  <2>2. \A what : Did(what)' = Did(what)
    BY <2>1, TookStays
  <2>3. WatchTypes'
    BY <1>1, <1>2, <1>4, <2>1 DEF WatchTypes
  <2>4. PlacesInv'
    BY <1>0, <1>2, <2>1 DEF PlacesInv, Early
  <2>5. EventsInv'
    BY <1>1, <1>2, <2>1, <2>2 DEF EventsInv
  <2>6. MaskInv'
    BY <1>2, <1>4, <1>5, <2>1, <2>2 DEF MaskInv
  <2>7. faults' = 0 => CleanMask'
    <3> SUFFICES ASSUME faults = 0 PROVE CleanMask'
      BY <2>1
    <3>1. \E w \in watches' : w[1] = wds'[0]
      BY <1>2, <1>5, <1>6, <2>1
    <3>2. /\ max_events' = cfg'.max_queue /\ queue' = <<>> /\ success' = Limit' /\ unexpected' = 0
      BY <1>2, <1>4, <1>6, <2>1
    <3> QED
      BY <2>1, <3>1, <3>2 DEF CleanMask
  <2> QED
    BY <1>7, <1>8, <2>1, <2>3, <2>4, <2>5, <2>6, <2>7 DEF WorkInv, CleanInv
<1>10. CASE i # cfg.items
  <2> DEFINE t == Watch!Target
  <2>1. PICK r \in Watch!None..cfg.items+1 :
          /\ Watch!AddWatch(t, i, r)
          /\ success' = IF r = wds[0] THEN success + 1 ELSE success
          /\ unexpected' = IF r = wds[0] THEN unexpected ELSE unexpected + 1
          /\ i' = i + 1 /\ pc' = "update"
    BY <1>2, <1>10 DEF Watch!MaskUpdate
  <2> HIDE DEF t
  <2>2. i \in Int
    BY <1>3
  <2>3. /\ faults' \in Nat /\ nextWd' \in Nat \ {0} /\ took' \subseteq Whats \X Int
        /\ \A other \in Whats \ {"add"} : Did(other)' = Did(other)
        /\ \/ /\ faults' = faults /\ Did("add")' = Did("add") \cup {i}
              /\ \A w \in watches : w[2] # t
              /\ r = nextWd /\ nextWd' = nextWd + 1 /\ watches' = watches \cup {<<nextWd, t>>}
           \/ /\ faults' = faults /\ Did("add")' = Did("add") \cup {i}
              /\ \E w \in watches : w[2] = t /\ r = w[1]
              /\ UNCHANGED <<watches, nextWd>>
           \/ faults' > 0 /\ r = -1 /\ UNCHANGED <<watches, nextWd>> /\ Did("add")' = Did("add")
           \/ /\ faults' > 0 /\ \E w \in watches : w[2] # t /\ r = w[1]
              /\ UNCHANGED <<watches, nextWd>> /\ Did("add")' = Did("add")
           \/ /\ faults' > 0 /\ \E w \in watches : w[2] = t
              /\ r = nextWd /\ nextWd' = nextWd + 1 /\ watches' = watches \cup {<<nextWd, t>>}
              /\ Did("add")' = Did("add")
    BY <1>1, <2>1, <2>2, AddGives
  <2>4. \/ /\ faults' = faults /\ Did("add")' = Did("add") \cup {i}
           /\ \E w \in watches : r = w[1]
           /\ UNCHANGED <<watches, nextWd>>
        \/ faults' > 0 /\ r = -1 /\ UNCHANGED <<watches, nextWd>>
        \/ /\ faults' > 0 /\ r = nextWd /\ nextWd' = nextWd + 1
           /\ watches' = watches \cup {<<nextWd, t>>}
    BY <1>5, <2>3 DEF t
  <2>5. Did("rm")' = {} /\ Did("ignored")' = {} /\ Did("open")' = {}
    BY <1>5, <2>3 DEF Whats
  <2>6. /\ success' \in Nat /\ unexpected' \in Nat /\ i' = i + 1 /\ i' <= Limit
        /\ unexpected' = 0 => unexpected = 0 /\ r = wds[0]
    BY <1>3, <1>4, <1>5, <1>10, <2>1
  <2>7. WatchTypes'
    BY <1>1, <1>2, <1>3, <1>4, <2>3, <2>6 DEF WatchTypes
  <2>8. PlacesInv'
    BY <1>0, <1>2, <2>1 DEF PlacesInv, Early
  <2>9. EventsInv'
    BY <1>1, <1>2, <1>5, <2>1, <2>5 DEF EventsInv
  <2>10. \A w \in watches' : w[2] = Watch!Target /\ w[1] \in Int
    <3>1. <<nextWd, t>>[2] = Watch!Target /\ <<nextWd, t>>[1] \in Int
      BY <1>3 DEF t
    <3> QED
      BY <1>5, <2>4, <3>1
  <2>11. watches' # {} /\ wds'[0] \in Nat /\ wds'[0] < nextWd'
    BY <1>2, <1>3, <1>5, <2>4
  <2>12. unexpected' = 0 => Did("add")' = 0..i'-1 \cup {First}
    <3> SUFFICES ASSUME unexpected' = 0 PROVE Did("add")' = 0..i'-1 \cup {First}
      OBVIOUS
    <3>1. Did("add") = 0..i-1 \cup {First} /\ r = wds[0]
      BY <1>5, <2>6
    <3>2. Did("add")' = Did("add") \cup {i}
      BY <1>3, <1>5, <2>3, <3>1 DEF t
    <3>3. i' - 1 = i /\ 0..i = 0..i-1 \cup {i}
      BY <1>3, <2>6
    <3> QED
      BY <3>1, <3>2, <3>3
  <2>13. MaskInv'
    BY <1>2, <1>4, <2>1, <2>5, <2>6, <2>10, <2>11, <2>12 DEF MaskInv
  <2>14. faults' = 0 => faults = 0 /\ UNCHANGED watches /\ r = wds[0]
    BY <1>3, <1>6, <2>4
  <2>15. faults' = 0 => CleanMask'
    <3> SUFFICES ASSUME faults' = 0 PROVE CleanMask'
      OBVIOUS
    <3>1. /\ max_events' = cfg'.max_queue /\ queue' = <<>> /\ success' = i' /\ unexpected' = 0
      BY <1>2, <1>6, <2>1, <2>14
    <3>2. \A w \in watches' : w[1] = wds'[0]
      BY <1>2, <1>6, <2>14
    <3> QED
      BY <2>1, <3>1, <3>2 DEF CleanMask
  <2> QED
    BY <1>7, <1>8, <2>7, <2>8, <2>9, <2>13, <2>14, <2>15 DEF WorkInv, CleanInv
<1> QED
  BY <1>9, <1>10

LEMMA MaskRemoveKeepsWork ==
    ASSUME WorkInv, Watch!MaskRemove
    PROVE  WorkInv'
<1>1. WatchTypes /\ PlacesInv /\ EventsInv /\ MaskInv /\ CleanInv
  BY DEF WorkInv
<1>2. /\ pc = "remove" /\ cfg.scenario = "mask" /\ pc' = "drain" /\ i' = 0
      /\ UNCHANGED <<cfg, wds, success, removed, counts, affinity_ok, nextWd, max_events>>
  BY DEF Watch!MaskRemove, Watch!Goto
<1>3. /\ cfg \in Configs /\ faults \in Nat /\ unexpected \in Nat /\ took \subseteq Whats \X Int
      /\ max_events \in Nat /\ queue \in Seq(Events)
  BY <1>1 DEF WatchTypes
<1>4. Limit' = Limit /\ cfg.max_queue \in Nat \ {0} /\ First \in Int /\ Watch!First = First
  BY <1>2, <1>3, ConfigIs DEF Limit, First, Watch!First
<1>5. /\ Did("open") = {} /\ Did("rm") = {} /\ Did("ignored") = {}
      /\ unexpected = 0 => Did("add") = 0..Limit-1 \cup {First}
  BY <1>1, <1>2 DEF MaskInv
<1>6. faults = 0 => /\ max_events = cfg.max_queue /\ queue = <<>>
                    /\ success = Limit /\ unexpected = 0 /\ \E w \in watches : w[1] = wds[0]
  BY <1>1, <1>2 DEF CleanInv, CleanMask
<1>7. faults' = 0 /\ faults = 0 => affinity_ok' = TRUE
  BY <1>1, <1>2 DEF CleanInv
<1>8. BulkInv' /\ LookupInv' /\ CleanBulk' /\ CleanLookup'
  BY <1>2 DEF BulkInv, LookupInv, CleanBulk, CleanLookup
<1>9. PlacesInv'
  BY <1>2 DEF PlacesInv, Early
<1>10. PICK ok \in BOOLEAN :
         /\ Watch!RmWatch(wds[0], First, ok)
         /\ unexpected' = IF ok THEN unexpected ELSE unexpected + 1
  BY <1>4, Zenon DEF Watch!MaskRemove
<1>11. CASE ok = TRUE
  <2>1. Watch!RmWatch(wds[0], First, TRUE) /\ unexpected' = unexpected
    BY <1>10, <1>11
  <2>2. /\ faults' \in Nat /\ queue' \in Seq(Events) /\ took' \subseteq Whats \X Int
        /\ Did("add")' = Did("add") /\ Did("open")' = Did("open")
        /\ Did("rm")' = Did("rm") \cup {First}
        /\ Did("ignored")' \subseteq Did("ignored") \cup {First}
        /\ IsFiniteSet(Did("ignored")')
        /\ Times(queue', "ignored") = Cardinality(Did("ignored")')
        /\ faults' = 0 => /\ faults = 0
                          /\ Len(queue) < max_events => queue' = Append(queue, "ignored")
    BY <1>1, <1>2, <1>4, <1>5, <2>1, RmGives
  <2>3. WatchTypes'
    BY <1>1, <1>2, <1>4, <2>1, <2>2 DEF WatchTypes
  <2>4. EventsInv'
    BY <1>2, <2>2 DEF EventsInv
  <2>5. MaskInv'
    BY <1>2, <1>4, <1>5, <2>1, <2>2 DEF MaskInv
  <2>6. faults' = 0 => CleanMask'
    <3> SUFFICES ASSUME faults' = 0 PROVE CleanMask'
      OBVIOUS
    <3>1. faults = 0 /\ queue = <<>> /\ Len(queue) < max_events
      <4>1. Len(<<>>) = 0
        OBVIOUS
      <4> QED
        BY <1>4, <1>6, <2>2, <4>1
    <3>2. queue' = Append(<<>>, "ignored")
      BY <2>2, <3>1
    <3>3. Append(<<>>, "ignored") = <<"ignored">>
      OBVIOUS
    <3>4. Ignored(1)'
      BY <3>2, <3>3 DEF Ignored
    <3>5. success' = Limit' /\ unexpected' = 0
      BY <1>2, <1>4, <1>6, <2>1, <3>1
    <3> QED
      BY <1>2, <3>4, <3>5 DEF CleanMask
  <2> QED
    BY <1>7, <1>8, <1>9, <2>2, <2>3, <2>4, <2>5, <2>6 DEF WorkInv, CleanInv
<1>12. CASE ok = FALSE
  <2>1. Watch!RmWatch(wds[0], First, FALSE) /\ unexpected' = unexpected + 1
    BY <1>10, <1>12
  <2>2. /\ faults' \in Nat /\ UNCHANGED <<watches, queue, took>>
        /\ faults' = 0 => faults = 0 /\ \A w \in watches : w[1] # wds[0]
    BY <1>3, <2>1, RmFails
  <2>3. \A what : Did(what)' = Did(what)
    BY <2>2, TookStays
  <2>4. unexpected' \in Nat /\ unexpected' # 0
    BY <1>3, <2>1
  <2>5. WatchTypes'
    BY <1>1, <1>2, <1>4, <2>2, <2>4 DEF WatchTypes
  <2>6. EventsInv'
    BY <1>1, <1>2, <2>2, <2>3 DEF EventsInv
  <2>7. MaskInv'
    BY <1>2, <1>5, <2>3, <2>4 DEF MaskInv
  <2>8. faults' # 0
    BY <1>6, <2>2
  <2> QED
    BY <1>8, <1>9, <2>5, <2>6, <2>7, <2>8 DEF WorkInv, CleanInv
<1> QED
  BY <1>11, <1>12

LEMMA LookupKeepsWork ==
    ASSUME WorkInv, Watch!Lookup
    PROVE  WorkInv'
<1>1. WatchTypes /\ PlacesInv /\ EventsInv /\ LookupInv /\ CleanInv
  BY DEF WorkInv
<1>2. /\ pc = "lookup"
      /\ UNCHANGED <<cfg, wds, removed, counts, affinity_ok, watches, nextWd, queue, max_events>>
  BY DEF Watch!Lookup
<1>0. cfg.scenario = "lookup"
  BY <1>1, <1>2 DEF PlacesInv
<1>3. /\ cfg \in Configs /\ i \in Nat /\ faults \in Nat /\ success \in Nat /\ unexpected \in Nat
      /\ took \subseteq Whats \X Int
  BY <1>1 DEF WatchTypes
<1>4. Limit \in Nat \ {0} /\ Limit' = Limit /\ cfg.items = Limit
  BY <1>2, <1>3, ConfigIs DEF Limit
<1>5. /\ Did("add") = {} /\ Did("rm") = {} /\ Did("ignored") = {} /\ i <= Limit
      /\ unexpected = 0 => Did("open") = 0..i-1
  BY <1>0, <1>1, <1>2 DEF LookupInv
<1>6. faults = 0 => success = i /\ unexpected = 0
  BY <1>0, <1>1, <1>2 DEF CleanInv, CleanLookup
<1>7. faults' = 0 /\ faults = 0 => affinity_ok' = TRUE
  BY <1>1, <1>2 DEF CleanInv
<1>8. BulkInv' /\ MaskInv' /\ CleanBulk' /\ CleanMask'
  BY <1>0, <1>2 DEF BulkInv, MaskInv, CleanBulk, CleanMask
<1>9. CASE i = cfg.items
  <2>1. pc' = "row" /\ i' = 0 /\ i = Limit /\ UNCHANGED <<faults, success, unexpected, took>>
    BY <1>4, <1>9 DEF Watch!Lookup, Watch!Goto, Watch!Fine
  <2>2. \A what : Did(what)' = Did(what)
    BY <2>1, TookStays
  <2>3. WatchTypes'
    BY <1>1, <1>2, <1>4, <2>1 DEF WatchTypes
  <2>4. PlacesInv'
    BY <1>0, <1>2, <2>1 DEF PlacesInv, Early
  <2>5. EventsInv'
    BY <1>0, <1>1, <1>2, <2>1, <2>2 DEF EventsInv
  <2>6. LookupInv'
    BY <1>4, <1>5, <2>1, <2>2 DEF LookupInv
  <2>7. faults' = 0 => CleanLookup'
    BY <1>4, <1>6, <2>1 DEF CleanLookup
  <2> QED
    BY <1>7, <1>8, <2>1, <2>3, <2>4, <2>5, <2>6, <2>7 DEF WorkInv, CleanInv
<1>10. CASE i # cfg.items
  <2>1. /\ i' = i + 1 /\ pc' = "lookup"
        /\ \/ faults' = faults /\ success' = success + 1 /\ took' = took \cup {<<"open", i>>}
              /\ unexpected' = unexpected
           \/ /\ faults' = faults + 1 /\ unexpected' = unexpected + 1
              /\ success' \in {success, success + 1} /\ UNCHANGED took
    BY <1>2, <1>10 DEF Watch!Lookup, Watch!Fine, Watch!Fault
  <2>2. /\ faults' \in Nat /\ success' \in Nat /\ unexpected' \in Nat /\ i' \in Nat /\ i' <= Limit
        /\ i' - 1 = i
    BY <1>3, <1>4, <1>5, <1>10, <2>1
  <2>3. /\ took' \subseteq Whats \X Int
        /\ \A other \in Whats \ {"open"} : Did(other)' = Did(other)
        /\ unexpected' = 0 => unexpected = 0 /\ Did("open")' = Did("open") \cup {i}
    <3>1. "open" \in Whats /\ i \in Int
      BY <1>3 DEF Whats
    <3>2. CASE unexpected' = unexpected /\ took' = took \cup {<<"open", i>>}
      BY <1>3, <3>1, <3>2, TookGrows
    <3>3. CASE unexpected' = unexpected + 1 /\ UNCHANGED took
      <4>1. \A what : Did(what)' = Did(what)
        BY <3>3, TookStays
      <4>2. unexpected' # 0
        BY <1>3, <3>3
      <4> QED
        BY <1>3, <3>3, <4>1, <4>2
    <3> QED
      BY <2>1, <3>2, <3>3
  <2>4. Did("add")' = {} /\ Did("rm")' = {} /\ Did("ignored")' = {}
    BY <1>5, <2>3 DEF Whats
  <2>5. WatchTypes'
    BY <1>1, <1>2, <1>4, <2>2, <2>3 DEF WatchTypes
  <2>6. PlacesInv'
    BY <1>0, <1>2, <2>1 DEF PlacesInv, Early
  <2>7. EventsInv'
    BY <1>1, <1>2, <1>5, <2>1, <2>4 DEF EventsInv
  <2>8. LookupInv'
    <3>1. 0..i = 0..i-1 \cup {i}
      BY <1>3
    <3> QED
      BY <1>4, <1>5, <2>1, <2>2, <2>3, <2>4, <3>1 DEF LookupInv
  <2>9. faults' = 0 => CleanLookup'
    BY <1>3, <1>6, <2>1 DEF CleanLookup
  <2>10. faults' = 0 => faults = 0
    BY <1>3, <2>1
  <2> QED
    BY <1>7, <1>8, <2>5, <2>6, <2>7, <2>8, <2>9, <2>10 DEF WorkInv, CleanInv
<1> QED
  BY <1>9, <1>10

LEMMA IgnoredCounts ==
    ASSUME NEW n \in Nat, Ignored(n), queue \in Seq(Events)
    PROVE  Times(queue, "ignored") = n /\ Times(queue, "overflow") = 0 /\ Times(queue, "foreign") = 0
<1>1. DOMAIN queue = 1..n /\ \A j \in 1..n : queue[j] = "ignored"
  BY DEF Ignored
<1>2. /\ {j \in DOMAIN queue : queue[j] = "ignored"} = 1..n
      /\ {j \in DOMAIN queue : queue[j] = "overflow"} = {}
      /\ {j \in DOMAIN queue : queue[j] = "foreign"} = {}
  BY <1>1
<1>3. Cardinality(1..n) = n
  BY FS_Interval
<1> QED
  BY <1>2, <1>3, FS_EmptySet DEF Times

LEMMA EndKeepsWork ==
    ASSUME WorkInv, Watch!Drain \/ Watch!Row \/ Watch!Exit
    PROVE  WorkInv'
<1>1. WatchTypes /\ PlacesInv /\ EventsInv /\ BulkInv /\ MaskInv /\ LookupInv /\ CleanInv
  BY DEF WorkInv
<1>2. cfg \in Configs /\ faults \in Nat /\ i \in Nat /\ queue \in Seq(Events)
  BY <1>1 DEF WatchTypes
<1>3. <<>> \in Seq(Events)
  OBVIOUS
<1>4. CASE Watch!Row
  <2>1. /\ pc' = "exit"
        /\ UNCHANGED <<cfg, i, wds, success, removed, unexpected, affinity_ok, nextWd, queue,
                       max_events, took, faults>>
    BY <1>4 DEF Watch!Row, Watch!tally, Watch!inotify
  <2>2. WatchTypes'
    BY <1>1, <2>1 DEF WatchTypes, Limit
  <2> QED
    BY <2>1, <2>2, LeavingKeepsWork
<1>5. CASE Watch!Exit
  <2>1. /\ pc' = "done" /\ queue' = <<>>
        /\ UNCHANGED <<cfg, i, wds, success, removed, unexpected, affinity_ok, nextWd,
                       max_events, took>>
    BY <1>5 DEF Watch!Exit, Watch!tally
  <2>2. faults' \in Nat /\ (faults' = 0 => faults = 0)
    BY <1>2, <1>5 DEF Watch!Exit, Watch!Fine, Watch!Fault
  <2>3. WatchTypes'
    BY <1>1, <1>3, <2>1, <2>2 DEF WatchTypes, Limit
  <2> QED
    BY <2>1, <2>2, <2>3, LeavingKeepsWork
<1>6. CASE Watch!Drain /\ Watch!Die(1) /\ Watch!Fault /\ UNCHANGED queue
  <2>1. /\ pc' = "exit"
        /\ UNCHANGED <<cfg, i, wds, success, removed, unexpected, affinity_ok, nextWd, queue,
                       max_events, took>>
    BY <1>6 DEF Watch!Drain, Watch!Die
  <2>2. faults' \in Nat /\ (faults' = 0 => faults = 0)
    BY <1>2, <1>6 DEF Watch!Fault
  <2>3. WatchTypes'
    BY <1>1, <2>1, <2>2 DEF WatchTypes, Limit
  <2> QED
    BY <2>1, <2>2, <2>3, LeavingKeepsWork
<1>7. CASE /\ Watch!Drain /\ Watch!Fine /\ counts' = Watch!Drained /\ queue' = <<>>
           /\ Watch!Goto("row")
  <2>1. /\ pc = "drain" /\ pc' = "row" /\ i' = 0 /\ faults' = faults
        /\ UNCHANGED <<cfg, wds, success, removed, unexpected, affinity_ok, nextWd, max_events, took>>
    BY <1>7 DEF Watch!Drain, Watch!Goto, Watch!Fine
  <2>2. counts' = [ignored |-> Times(queue, "ignored"), overflow |-> Times(queue, "overflow"),
                   unexpected |-> Times(queue, "foreign")]
    BY <1>7, CountIs DEF Watch!Drained
  <2>3. \A what : Did(what)' = Did(what)
    BY <2>1, TookStays
  <2>4. WatchTypes'
    BY <1>1, <1>3, <1>7, <2>1 DEF WatchTypes, Limit
  <2>5. PlacesInv'
    BY <2>1 DEF PlacesInv, Early
  <2>6. EventsInv'
    <3>1. counts'.ignored = Times(queue, "ignored")
      BY <2>2
    <3>2. Times(queue, "ignored") = Cardinality(Did("ignored")) /\ IsFiniteSet(Did("ignored"))
      BY <1>1, <2>1 DEF EventsInv
    <3> QED
      BY <2>1, <2>3, <3>1, <3>2 DEF EventsInv
  <2>7. BulkInv' /\ MaskInv'
    BY <1>1, <2>1, <2>3 DEF BulkInv, MaskInv, Limit
  <2>8. LookupInv'
    <3>1. cfg.scenario # "lookup"
      BY <1>1, <2>1 DEF PlacesInv
    <3> QED
      BY <2>1, <3>1 DEF LookupInv
  <2>9. ASSUME faults = 0 PROVE CleanBulk' /\ CleanMask' /\ CleanLookup'
    <3>1. cfg.scenario \in {"bulk", "mask"}
      BY <1>1, <2>1 DEF PlacesInv
    <3>2. Limit \in Nat /\ Limit' = Limit
      BY <1>2, <2>1, ConfigIs DEF Limit
    <3>3. CASE cfg.scenario = "bulk"
      <4>1. unexpected = 0 /\ success = Limit /\ removed = Limit /\ Ignored(Limit)
        BY <1>1, <2>1, <2>9, <3>3 DEF CleanInv, CleanBulk
      <4>2. counts' = [ignored |-> Limit, overflow |-> 0, unexpected |-> 0]
        BY <1>2, <2>2, <3>2, <4>1, IgnoredCounts
      <4>3. CleanBulk'
        BY <2>1, <3>2, <4>1, <4>2 DEF CleanBulk
      <4> QED
        BY <2>1, <3>3, <4>3 DEF CleanMask, CleanLookup
    <3>4. CASE cfg.scenario = "mask"
      <4>1. unexpected = 0 /\ success = Limit /\ Ignored(1)
        BY <1>1, <2>1, <2>9, <3>4 DEF CleanInv, CleanMask
      <4>2. counts' = [ignored |-> 1, overflow |-> 0, unexpected |-> 0]
        BY <1>2, <2>2, <4>1, IgnoredCounts
      <4>3. CleanMask'
        BY <2>1, <3>2, <4>1, <4>2 DEF CleanMask
      <4> QED
        BY <2>1, <3>4, <4>3 DEF CleanBulk, CleanLookup
    <3> QED
      BY <3>1, <3>3, <3>4
  <2>10. faults' = 0 => affinity_ok' = TRUE
    BY <1>1, <2>1 DEF CleanInv
  <2> QED
    BY <2>1, <2>4, <2>5, <2>6, <2>7, <2>8, <2>9, <2>10 DEF WorkInv, CleanInv
<1>8. ASSUME Watch!Drain
      PROVE  \/ Watch!Fine /\ counts' = Watch!Drained /\ queue' = <<>> /\ Watch!Goto("row")
             \/ Watch!Die(1) /\ Watch!Fault /\ UNCHANGED queue
  BY <1>8 DEF Watch!Drain
<1> QED
  BY <1>4, <1>5, <1>6, <1>7, <1>8

LEMMA NextKeepsWork == ASSUME WorkInv, Watch!Next PROVE WorkInv'
  BY BeginningStepsKeepWork, ForeignKeepsWork, BulkAddKeepsWork, BulkRemoveKeepsWork,
     MaskFirstKeepsWork, MaskUpdateKeepsWork, MaskRemoveKeepsWork, LookupKeepsWork, EndKeepsWork
  DEF Watch!Next, Watch!Program

\* What was asked for, if the calls of each kind are known.
LEMMA TookIs ==
    ASSUME took \subseteq Whats \X Int, NEW A, NEW R, NEW E, NEW O,
           Did("add") = A, Did("rm") = R, Did("ignored") = E, Did("open") = O
    PROVE  took = ({"add"} \X A) \cup ({"rm"} \X R) \cup ({"ignored"} \X E) \cup ({"open"} \X O)
<1>1. A \subseteq Int /\ R \subseteq Int /\ E \subseteq Int /\ O \subseteq Int
  BY DEF Did
<1>2. ASSUME NEW j \in Int
      PROVE  /\ <<"add", j>> \in took <=> j \in A
             /\ <<"rm", j>> \in took <=> j \in R
             /\ <<"ignored", j>> \in took <=> j \in E
             /\ <<"open", j>> \in took <=> j \in O
  BY DEF Did
<1> DEFINE all == ({"add"} \X A) \cup ({"rm"} \X R) \cup ({"ignored"} \X E) \cup ({"open"} \X O)
<1>3. ASSUME NEW x \in took PROVE x \in all
  <2>1. PICK what \in Whats, j \in Int : x = <<what, j>>
    OBVIOUS
  <2> QED
    BY <1>2, <2>1 DEF Whats
<1>4. ASSUME NEW x \in all PROVE x \in took
  <2>1. CASE x \in {"add"} \X A
    <3>1. PICK j \in A : x = <<"add", j>>
      BY <2>1
    <3> QED
      BY <1>1, <1>2, <3>1
  <2>2. CASE x \in {"rm"} \X R
    <3>1. PICK j \in R : x = <<"rm", j>>
      BY <2>2
    <3> QED
      BY <1>1, <1>2, <3>1
  <2>3. CASE x \in {"ignored"} \X E
    <3>1. PICK j \in E : x = <<"ignored", j>>
      BY <2>3
    <3> QED
      BY <1>1, <1>2, <3>1
  <2>4. CASE x \in {"open"} \X O
    <3>1. PICK j \in O : x = <<"open", j>>
      BY <2>4
    <3> QED
      BY <1>1, <1>2, <3>1
  <2> QED
    BY <1>4, <2>1, <2>2, <2>3, <2>4
<1> QED
  BY <1>3, <1>4

\* The row.
LEMMA RowIsSound ==
    ASSUME WorkInv, VerdictInv, WatchFlags, Watch!Row
    PROVE  VerdictInv'
<1>1. /\ WatchTypes /\ EventsInv /\ BulkInv /\ MaskInv /\ LookupInv /\ CleanInv
  BY DEF WorkInv
<1>2. cfg \in Configs /\ took \subseteq Whats \X Int
  BY <1>1 DEF WatchTypes
<1>3. /\ pc = "row" /\ pc' = "exit" /\ UNCHANGED <<cfg, took, faults>>
      /\ status' = IF Watch!SemanticOk THEN "PASS" ELSE "FAIL"
  BY DEF Watch!Row, Watch!inotify
<1>4. /\ Limit \in Nat \ {0} /\ Limit' = Limit /\ cfg.items = Limit /\ Watch!Items = 0..Limit - 1
      /\ Watch!Items' = Watch!Items /\ cfg.scenario \in {"bulk", "mask", "lookup"}
      /\ Watch!First = First /\ First \in Int
  BY <1>2, <1>3, ConfigIs DEF Limit, Watch!Items, Watch!First, First
<1> DEFINE ignored == IF cfg.scenario = "bulk" THEN Limit ELSE 1
<1>5. Watch!SemanticOk <=>
        /\ success = Limit /\ unexpected = 0 /\ affinity_ok
        /\ cfg.scenario = "bulk" => removed = Limit
        /\ cfg.scenario # "lookup" =>
             counts = [Watch!NoEvents EXCEPT !.ignored = ignored]
  BY <1>4, Zenon DEF Watch!SemanticOk
<1>6. [Watch!NoEvents EXCEPT !.ignored = ignored] =
        [ignored |-> ignored, overflow |-> 0, unexpected |-> 0]
  BY DEF Watch!NoEvents
<1>7. ASSUME Watch!SemanticOk PROVE Watch!PassEarned'
  <2>1. /\ unexpected = 0
        /\ cfg.scenario # "lookup" => counts.ignored = ignored
    BY <1>5, <1>6, <1>7
  <2>2. cfg.scenario # "lookup" => ignored = Cardinality(Did("ignored"))
    BY <1>1, <1>3, <2>1 DEF EventsInv
  <2>3. CASE cfg.scenario = "bulk"
    <3>1. /\ Did("open") = {} /\ Did("add") = 0..Limit-1 /\ Did("rm") = 0..Limit-1
          /\ Did("ignored") \subseteq 0..Limit-1
      BY <1>1, <1>3, <2>1, <2>3 DEF BulkInv
    <3>2. IsFiniteSet(0..Limit-1) /\ Cardinality(0..Limit-1) = Limit
      BY <1>4, FS_Interval
    <3>3. Did("ignored") = 0..Limit-1
      BY <2>2, <2>3, <3>1, <3>2, FS_Subset
    <3> DEFINE S == 0..Limit-1
    <3> HIDE DEF S
    <3>4. Did("add") = S /\ Did("rm") = S /\ Did("ignored") = S /\ Did("open") = {}
      BY <3>1, <3>3 DEF S
    <3>5. took = ({"add"} \X S) \cup ({"rm"} \X S) \cup ({"ignored"} \X S) \cup ({"open"} \X {})
      BY <1>2, <3>4, TookIs
    <3>6. took = {"add", "rm", "ignored"} \X S
      BY <3>5
    <3> QED
      BY <1>3, <1>4, <2>3, <3>6 DEF Watch!PassEarned, S
  <2>4. CASE cfg.scenario = "mask"
    <3>1. /\ Did("open") = {} /\ Did("add") = 0..Limit-1 \cup {First} /\ Did("rm") = {First}
          /\ Did("ignored") \subseteq {First}
      BY <1>1, <1>3, <2>1, <2>4 DEF MaskInv
    <3>2. Cardinality({}) = 0
      BY FS_EmptySet
    <3>3. Did("ignored") = {First}
      <4>1. Did("ignored") # {}
        BY <2>2, <2>4, <3>2
      <4> QED
        BY <3>1, <4>1
    <3>4. took = ({"add"} \X (0..Limit-1 \cup {First})) \cup ({"rm"} \X {First})
                   \cup ({"ignored"} \X {First}) \cup ({"open"} \X {})
      BY <1>2, <3>1, <3>3, TookIs
    <3>5. took = ({"add"} \X (0..Limit-1 \cup {First})) \cup {<<"rm", First>>, <<"ignored", First>>}
      BY <3>4
    <3> QED
      BY <1>3, <1>4, <2>4, <3>5 DEF Watch!PassEarned
  <2>5. CASE cfg.scenario = "lookup"
    <3>1. Did("add") = {} /\ Did("rm") = {} /\ Did("ignored") = {} /\ Did("open") = 0..Limit-1
      BY <1>1, <1>3, <2>1, <2>5 DEF LookupInv
    <3>2. took = ({"add"} \X {}) \cup ({"rm"} \X {}) \cup ({"ignored"} \X {})
                   \cup ({"open"} \X (0..Limit-1))
      BY <1>2, <3>1, TookIs
    <3>3. took = {"open"} \X (0..Limit-1)
      BY <3>2
    <3> QED
      BY <1>3, <1>4, <2>5, <3>3 DEF Watch!PassEarned
  <2> QED
    BY <1>4, <2>3, <2>4, <2>5
<1>8. ASSUME faults = 0 PROVE Watch!SemanticOk
  <2>1. affinity_ok
    BY <1>1, <1>8, Zenon DEF CleanInv
  <2>2. success = Limit /\ unexpected = 0
    BY <1>1, <1>3, <1>4, <1>8 DEF CleanInv, CleanBulk, CleanMask, CleanLookup
  <2>3. cfg.scenario = "bulk" => removed = Limit
    BY <1>1, <1>3, <1>8 DEF CleanInv, CleanBulk
  <2>4. cfg.scenario # "lookup" => counts = [ignored |-> ignored, overflow |-> 0, unexpected |-> 0]
    <3>1. cfg.scenario = "bulk" => counts = [ignored |-> Limit, overflow |-> 0, unexpected |-> 0]
      BY <1>1, <1>3, <1>8 DEF CleanInv, CleanBulk
    <3>2. cfg.scenario = "mask" => counts = [ignored |-> 1, overflow |-> 0, unexpected |-> 0]
      BY <1>1, <1>3, <1>8 DEF CleanInv, CleanMask
    <3> QED
      BY <1>4, <3>1, <3>2
  <2> QED
    BY <1>5, <1>6, <2>1, <2>2, <2>3, <2>4, Zenon
<1>9. Watch!PassEarned'
  <2>1. CASE Watch!SemanticOk
    BY <1>7, <2>1
  <2>2. CASE ~Watch!SemanticOk
    <3>1. status' # "PASS"
      BY <1>3, <2>2
    <3> QED
      BY <3>1 DEF Watch!PassEarned
  <2> QED
    BY <2>1, <2>2
<1>10. Watch!FailHasCause'
  <2>1. faults \in Nat
    BY <1>1 DEF WatchTypes
  <2>2. CASE Watch!SemanticOk
    BY <1>3, <2>2 DEF Watch!FailHasCause
  <2>3. CASE ~Watch!SemanticOk
    <3>1. faults # 0
      BY <1>8, <2>3
    <3> QED
      BY <1>3, <2>1, <3>1 DEF Watch!FailHasCause
  <2> QED
    BY <2>2, <2>3
<1> QED
  BY <1>3, <1>9, <1>10 DEF VerdictInv

\* Before the row there is no verdict, and after it nothing it is about.
LEMMA NextKeepsVerdict ==
    ASSUME WorkInv, VerdictInv, WatchFlags, Watch!Next
    PROVE  VerdictInv'
<1>1. CASE Watch!Row
  BY <1>1, RowIsSound
<1>2. CASE Watch!Exit
  <2>1. UNCHANGED <<cfg, took, status>> /\ pc' = "done" /\ Watch!Items' = Watch!Items
    BY <1>2 DEF Watch!Exit, Watch!Items
  <2>2. faults \in Nat /\ (Watch!Fine \/ Watch!Fault)
    BY <1>2 DEF Watch!Exit, WorkInv, WatchTypes
  <2>3. faults > 0 => faults' > 0
    BY <2>2 DEF Watch!Fine, Watch!Fault
  <2> QED
    BY <2>1, <2>3 DEF VerdictInv, Watch!PassEarned, Watch!FailHasCause
<1>3. ASSUME pc \notin {"exit", "done"}, status' = status PROVE VerdictInv'
  BY <1>3 DEF VerdictInv, Watch!PassEarned, Watch!FailHasCause
<1>4. CASE \/ Watch!LoadConfig \/ Watch!ReadSysctls \/ Watch!MakeFixtureRoot \/ Watch!Create
           \/ Watch!Pin \/ Watch!InotifyInit \/ Watch!BulkAdd \/ Watch!BulkRemove
           \/ Watch!MaskFirst \/ Watch!MaskUpdate \/ Watch!MaskRemove \/ Watch!LookupWarm
           \/ Watch!Lookup \/ Watch!Drain \/ Watch!ForeignEvent
  <2>1. status' = status
    BY <1>4 DEF Watch!LoadConfig, Watch!ReadSysctls, Watch!MakeFixtureRoot, Watch!Create, Watch!Pin,
       Watch!InotifyInit, Watch!BulkAdd, Watch!BulkRemove, Watch!MaskFirst, Watch!MaskUpdate,
       Watch!MaskRemove, Watch!LookupWarm, Watch!Lookup, Watch!Drain, Watch!ForeignEvent
  <2>2. pc \notin {"exit", "done"}
    BY <1>4 DEF Watch!LoadConfig, Watch!ReadSysctls, Watch!MakeFixtureRoot, Watch!Create, Watch!Pin,
       Watch!InotifyInit, Watch!BulkAdd, Watch!BulkRemove, Watch!MaskFirst, Watch!MaskUpdate,
       Watch!MaskRemove, Watch!LookupWarm, Watch!Lookup, Watch!Drain, Watch!ForeignEvent
  <2> QED
    BY <1>3, <2>1, <2>2
<1> QED
  BY <1>1, <1>2, <1>4 DEF Watch!Next, Watch!Program

LEMMA NextKeepsWatch ==
    ASSUME WatchFlags, WatchInv, Watch!Next
    PROVE  WatchInv'
<1>1. cfg \in Configs
  BY DEF WatchInv, WorkInv, WatchTypes
<1> QED
  BY <1>1, NextKeepsFiles, NextKeepsVerdict, NextKeepsWork DEF WatchInv

LEMMA WatchInvMeans ==
    WatchFlags /\ WatchInv => Watch!FixtureGone /\ Watch!PassEarned /\ Watch!FailHasCause
<1> SUFFICES ASSUME WatchFlags, WatchInv
             PROVE  Watch!FixtureGone /\ Watch!PassEarned /\ Watch!FailHasCause
  OBVIOUS
<1>1. Watch!PassEarned /\ Watch!FailHasCause
  BY DEF WatchInv, VerdictInv
<1>2. Watch!FixtureGone
  <2>1. FilesInv /\ cfg \in Configs
    BY DEF WatchInv, WorkInv, WatchTypes
  <2>2. cfg.keep_files \in BOOLEAN
    BY <2>1, ProgramsAssumption, Zenon DEF Watch!ConfigAssumption
  <2> QED
    BY <2>1, <2>2, Zenon DEF FilesInv, WatchFlags, Watch!FixtureGone
<1> QED
  BY <1>1, <1>2


-----------------------------------------------------------------------------
(* The programs side by side                                               *)

LEMMA IdleKeepsRing == RingInv /\ UNCHANGED Ring!vars => RingInv'
<1> SUFFICES ASSUME RingInv, UNCHANGED Ring!vars PROVE RingInv'
  OBVIOUS
<1>1. UNCHANGED <<pc, open, maps, ring, efds, armed, torn, wild, row, noEventfd>>
  BY Zenon DEF Ring!vars, Ring!fixture, Ring!kernel, Ring!local, Ring!history
<1> QED
  BY <1>1 DEF RingInv, HeldInv, TornInv, Whole

LEMMA IdleKeepsWatch == WatchInv /\ UNCHANGED Watch!vars => WatchInv'
<1> SUFFICES ASSUME WatchInv, UNCHANGED Watch!vars PROVE WatchInv'
  OBVIOUS
<1>1. UNCHANGED <<pc, cfg, files, registered, wds, success, removed, counts, affinity_ok,
                  status, watches, nextWd, max_events, took, stuck, i, unexpected, queue,
                  code, faults>>
  BY Zenon DEF Watch!vars, Watch!fixture, Watch!tally, Watch!inotify
<1>2. FilesInv'
  BY <1>1 DEF WatchInv, FilesInv
<1>3. VerdictInv'
  BY <1>1 DEF WatchInv, VerdictInv, Watch!PassEarned, Watch!FailHasCause, Watch!Items, Watch!First
<1>4. WatchTypes' /\ PlacesInv' /\ EventsInv'
  BY <1>1 DEF WatchInv, WorkInv, WatchTypes, PlacesInv, EventsInv, Did, Limit
<1>5. BulkInv'
  BY <1>1 DEF WatchInv, WorkInv, BulkInv, Did, Limit, Shared
<1>6. MaskInv' /\ LookupInv'
  BY <1>1 DEF WatchInv, WorkInv, MaskInv, LookupInv, Did, Limit
<1>7. CleanInv'
  BY <1>1 DEF WatchInv, WorkInv, CleanInv, CleanBulk, CleanMask, CleanLookup, Limit, Ignored
<1> QED
  BY <1>2, <1>3, <1>4, <1>5, <1>6, <1>7 DEF WatchInv, WorkInv

\* The invariant of the program that runs.
ProgramsInv ==
    /\ program \in {"ring", "kernfs", "watch", "remap", "unix", "sysctl"}
    /\ program = "ring"   => RingFlags /\ RingInv
    /\ program = "kernfs" => KernfsFlags /\ KernfsInv
    /\ program = "watch"  => WatchFlags /\ WatchInv
    /\ program = "remap"  => RemapFlags /\ RemapInv
    /\ program = "unix"   => UnixFlags /\ UnixInv
    /\ program = "sysctl" => SysctlFlags /\ SysctlInv

LEMMA InitPrograms == Init => ProgramsInv
<1>1. Ring!Init => RingFlags /\ RingInv
  BY FlagsOfRing, InitRing
<1>2. Kernfs!Init => KernfsFlags /\ KernfsInv
  BY FlagsOfKernfs, InitKernfs
<1>3. Watch!Init => WatchFlags /\ WatchInv
  BY FlagsOfWatch, InitWatch
<1>4. Remap!Init => RemapFlags /\ RemapInv
  BY FlagsOfRemap, InitRemap
<1>5. Unix!Init => UnixFlags /\ UnixInv
  BY FlagsOfUnix, InitUnix
<1>6. Sysctl!Init => SysctlFlags /\ SysctlInv
  BY FlagsOfSysctl, InitSysctl
<1> QED
  BY <1>1, <1>2, <1>3, <1>4, <1>5, <1>6 DEF Init, ProgramsInv

\* Only the program that runs moves, and it keeps its own invariant.
LEMMA NextKeepsPrograms == ProgramsInv /\ [Next]_vars => ProgramsInv'
<1> SUFFICES ASSUME ProgramsInv, [Next]_vars PROVE ProgramsInv'
  OBVIOUS
<1>1. CASE InRing(Ring!Next)
  <2>1. program = "ring" /\ Ring!Next /\ program' = "ring"
    BY <1>1, Zenon DEF InRing
  <2>2. RingFlags' /\ RingInv'
    BY <2>1, FlagsOfRing, NextKeepsRing, Zenon DEF ProgramsInv
  <2> QED
    BY <2>1, <2>2 DEF ProgramsInv
<1>2. CASE InKernfs(Kernfs!Next)
  <2>1. program = "kernfs" /\ Kernfs!Next /\ program' = "kernfs"
    BY <1>2, Zenon DEF InKernfs
  <2>2. KernfsFlags' /\ KernfsInv'
    BY <2>1, FlagsOfKernfs, NextKeepsKernfs, Zenon DEF ProgramsInv
  <2> QED
    BY <2>1, <2>2 DEF ProgramsInv
<1>3. CASE InWatch(Watch!Next)
  <2>1. program = "watch" /\ Watch!Next /\ program' = "watch"
    BY <1>3, Zenon DEF InWatch
  <2>2. WatchFlags' /\ WatchInv'
    BY <2>1, FlagsOfWatch, NextKeepsWatch, Zenon DEF ProgramsInv
  <2> QED
    BY <2>1, <2>2 DEF ProgramsInv
<1>4. CASE InRemap(Remap!Next)
  <2>1. program = "remap" /\ Remap!Next /\ program' = "remap"
    BY <1>4, Zenon DEF InRemap
  <2>2. RemapFlags' /\ RemapInv'
    BY <2>1, FlagsOfRemap, NextKeepsRemap, Zenon DEF ProgramsInv
  <2> QED
    BY <2>1, <2>2 DEF ProgramsInv
<1>5. CASE InUnix(Unix!Next)
  <2>1. program = "unix" /\ Unix!Next /\ program' = "unix"
    BY <1>5, Zenon DEF InUnix
  <2>2. UnixFlags' /\ UnixInv'
    BY <2>1, FlagsOfUnix, NextKeepsUnix, Zenon DEF ProgramsInv
  <2> QED
    BY <2>1, <2>2 DEF ProgramsInv
<1>6. CASE InSysctl(Sysctl!Next)
  <2>1. program = "sysctl" /\ Sysctl!Next /\ program' = "sysctl"
    BY <1>6, Zenon DEF InSysctl
  <2>2. SysctlFlags' /\ SysctlInv'
    BY <2>1, FlagsOfSysctl, NextKeepsSysctl, Zenon DEF ProgramsInv
  <2> QED
    BY <2>1, <2>2 DEF ProgramsInv
<1>7. CASE UNCHANGED vars
  <2>1. /\ UNCHANGED program /\ UNCHANGED Ring!vars /\ UNCHANGED Kernfs!vars
        /\ UNCHANGED Watch!vars /\ UNCHANGED Remap!vars /\ UNCHANGED Unix!vars
        /\ UNCHANGED Sysctl!vars
    <3>1. UNCHANGED <<ringVars, kernfsVars, watchVars, remapVars, unixVars, sysctlVars>>
      BY <1>7 DEF vars
    <3>2. UNCHANGED <<program, pc, faults, ret, open, stuck, i, unexpected, code, queue, rows>>
      BY <1>7 DEF vars
    <3>3. UNCHANGED Ring!vars /\ UNCHANGED Kernfs!vars
      BY <3>1, <3>2 DEF ringVars, Ring!vars, Ring!fixture, Ring!kernel, Ring!local, Ring!history,
         kernfsVars, Kernfs!vars, Kernfs!args, Kernfs!scxVars, Kernfs!history
    <3>4. UNCHANGED Watch!vars /\ UNCHANGED Remap!vars
      BY <3>1, <3>2 DEF watchVars, Watch!vars, Watch!fixture, Watch!tally, Watch!inotify,
         remapVars, Remap!vars, Remap!args, Remap!perf, Remap!run
    <3>5. UNCHANGED Unix!vars /\ UNCHANGED Sysctl!vars
      BY <3>1, <3>2 DEF unixVars, Unix!vars, sysctlVars, Sysctl!vars
    <3> QED
      BY <3>2, <3>3, <3>4, <3>5
  <2>2. /\ RingFlags /\ RingInv => RingFlags' /\ RingInv'
        /\ KernfsFlags /\ KernfsInv => KernfsFlags' /\ KernfsInv'
        /\ WatchFlags /\ WatchInv => WatchFlags' /\ WatchInv'
    BY <2>1, FlagsOfRing, IdleKeepsRing, FlagsOfKernfs, NextKeepsKernfs, FlagsOfWatch,
       IdleKeepsWatch
  <2>3. /\ RemapFlags /\ RemapInv => RemapFlags' /\ RemapInv'
        /\ UnixFlags /\ UnixInv => UnixFlags' /\ UnixInv'
        /\ SysctlFlags /\ SysctlInv => SysctlFlags' /\ SysctlInv'
    BY <2>1, FlagsOfRemap, NextKeepsRemap, FlagsOfUnix, NextKeepsUnix, FlagsOfSysctl,
       NextKeepsSysctl
  <2> QED
    BY <2>1, <2>2, <2>3 DEF ProgramsInv
<1> QED
  BY <1>1, <1>2, <1>3, <1>4, <1>5, <1>6, <1>7 DEF Next

LEMMA ProgramsInvMeans == ProgramsInv => CleansUp /\ ReportEarned /\ CountersFollow
<1> SUFFICES ASSUME ProgramsInv PROVE CleansUp /\ ReportEarned /\ CountersFollow
  OBVIOUS
<1>1. program = "ring" => Ring!ReleasedOnce /\ Ring!ReleaseProven
  BY RingInvMeans DEF ProgramsInv
<1>2. program = "kernfs" => Kernfs!LeakFree /\ Kernfs!SuccessEarned
  BY KernfsInvMeans DEF ProgramsInv
<1>3. program = "watch" => Watch!FixtureGone /\ Watch!PassEarned /\ Watch!FailHasCause
  BY WatchInvMeans DEF ProgramsInv
<1>4. program = "remap" => Remap!FilesGone /\ Remap!CountersFollow /\ Remap!ResultHonest
  BY RemapInvMeans DEF ProgramsInv
<1>5. program = "unix" => Unix!ClosesItsOwn /\ Unix!RowsEarned
  BY UnixInvMeans DEF ProgramsInv
<1>6. program = "sysctl" => Sysctl!Restored /\ Sysctl!SuccessEarned
  BY SysctlInvMeans DEF ProgramsInv
<1>7. program \in {"ring", "kernfs", "watch", "remap", "unix", "sysctl"}
  BY DEF ProgramsInv
<1> QED
  BY <1>1, <1>2, <1>3, <1>4, <1>5, <1>6, <1>7 DEF CleansUp, ReportEarned, CountersFollow

THEOREM ProgramsInvariant == Spec => []ProgramsInv
<1>1. Init => ProgramsInv
  BY InitPrograms
<1>2. ProgramsInv /\ [Next]_vars => ProgramsInv'
  BY NextKeepsPrograms
<1> QED
  BY <1>1, <1>2, PTL DEF Spec

\* However a run of a program goes and at whatever call it fails, at its end
\* it has given back what it made, once, but for the ways out that CleansUp
\* names: descriptors and mappings, sockets, cgroups, files, the values of the
\* sysctls.  (raw_ring_destroy, fixture_destroy and run_r0; out of control.c;
\* cleanup_fixture; cleanup_workload; restore)
THEOREM EveryProgramCleansUp == Spec => []CleansUp
<1>1. ProgramsInv => CleansUp
  BY ProgramsInvMeans
<1> QED
  BY <1>1, ProgramsInvariant, PTL

\* A row, a PASS or an exit status of zero stands for what the kernel did; the
\* fsnotify program fails no row, and the remap benchmark no run, for reasons
\* of its own.  (semantic_pass of run_r0 and run_round, ret of control.c,
\* semantic_ok, expected_match_ratio, the status of sysctl_checks.c)
THEOREM EveryReportIsEarned == Spec => []ReportEarned
<1>1. ProgramsInv => ReportEarned
  BY ProgramsInvMeans
<1> QED
  BY <1>1, ProgramsInvariant, PTL

\* With both FIFOs of perf, it is counting during the timed loop of the remap
\* benchmark, unless it has died, and neither before nor after it, however
\* slow it is and whatever it answers.  (perf_control_command, run_workload)
THEOREM PerfCountsTheLoop == Spec => []CountersFollow
<1>1. ProgramsInv => CountersFollow
  BY ProgramsInvMeans
<1> QED
  BY <1>1, ProgramsInvariant, PTL

=============================================================================
