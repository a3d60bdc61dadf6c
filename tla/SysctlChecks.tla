---------------------------- MODULE SysctlChecks ----------------------------
(***************************************************************************)
(* sysctl_checks.c: twelve writes to sched_rt_period_us and                *)
(* sched_rt_runtime_us, each followed by reading both back.  From the      *)
(* first write on an atexit handler restores both, in an order the kernel  *)
(* accepts; an alarm ends the process at once, without it.                 *)
(*                                                                         *)
(* External: the two sysctls, which refuse a runtime above the period.     *)
(* The kernel is what is being tested: it may answer a write with anything *)
(* and do with it what it likes.  Other calls may fail.                    *)
(***************************************************************************)
EXTENDS Integers, Sequences

CONSTANT MaxFaults

VARIABLES
    pc, code, faults,
    i,             \* the test, from 1
    handled,       \* armed: exit restores
    sysctl,        \* the two values
    answer,        \* of the write: its errno, "short" or "written"
    found,         \* restore's reading of the period, p
    printed,       \* rows
    deviated,      \* history: a test's write did not do what it should
    unrestored,    \* history: restore could not read, or a write was not done that it was told was
    refused        \* history: the kernel rightly refused a write of restore

vars == <<pc, code, faults, i, handled, sysctl, answer, found, printed, deviated, unrestored, refused>>

\* Stands for a text that is no number.
Junk == -7
\* The values the program insists on finding.
saved == [period |-> 1000000, runtime |-> 950000]

Test(kind, text, error, period, runtime) ==
    [kind |-> kind, text |-> text, error |-> error,
     after |-> [period |-> period, runtime |-> runtime]]

tests == <<
    Test("period",  1000000, "written", 1000000, 950000),
    Test("runtime",  950000, "written", 1000000, 950000),
    Test("period",  1100000, "written", 1100000, 950000),
    Test("period",  1000000, "written", 1000000, 950000),
    Test("runtime",  900000, "written", 1000000, 900000),
    Test("runtime",  950000, "written", 1000000, 950000),
    Test("period",        0, "EINVAL",  1000000, 950000),
    Test("runtime",      -2, "EINVAL",  1000000, 950000),
    Test("runtime", 1000001, "EINVAL",  1000000, 950000),
    Test("period",   900000, "EINVAL",  1000000, 950000),
    Test("runtime",    Junk, "EINVAL",  1000000, 950000),
    Test("period",     Junk, "EINVAL",  1000000, 950000) >>

Init ==
    /\ pc = "start" /\ code = -1 /\ faults = 0 /\ i = 1
    /\ sysctl \in {saved, [saved EXCEPT !.runtime = 900000]}
    /\ handled = FALSE /\ answer = "none" /\ found = 0 /\ printed = 0
    /\ deviated = FALSE /\ unrestored = FALSE /\ refused = FALSE

Fault == faults < MaxFaults /\ faults' = faults + 1
NoFault == UNCHANGED faults

-----------------------------------------------------------------------------
(* The kernel's handler of a write                                         *)

Accepts(kind, v) ==
    /\ v # Junk
    /\ IF kind = "period" THEN v >= 1 /\ sysctl.runtime <= v
                          ELSE v >= -1 /\ v <= sysctl.period

Stored(kind, v) == IF v = Junk THEN sysctl ELSE [sysctl EXCEPT ![kind] = v]

Results == {"written", "short", "EINVAL", "EIO"}

\* What a write should do, and what it may do at fault.
Right(kind, v) ==
    IF Accepts(kind, v) THEN <<"written", Stored(kind, v)>> ELSE <<"EINVAL", sysctl>>

Write(kind, v, result) ==
    \/ <<result, sysctl'>> = Right(kind, v) /\ NoFault
    \/ <<result, sysctl'>> # Right(kind, v) /\ Fault

-----------------------------------------------------------------------------
(* main                                                                    *)

\* die: exit, with the handler where it is armed.
Die == pc' = "restore" /\ code' = 1

\* Everything up to the first test: arguments, affinity, the alarm, both
\* values, atexit.
Prepare ==
    /\ pc = "start"
    /\ \/ /\ pc' = "done" /\ code' = 2 /\ NoFault /\ UNCHANGED handled
       \/ /\ Die /\ UNCHANGED handled /\ IF sysctl = saved THEN Fault ELSE NoFault
       \/ /\ sysctl = saved /\ NoFault
          /\ handled' = TRUE /\ pc' = "write" /\ UNCHANGED code
    /\ UNCHANGED <<i, sysctl, answer, found, printed, deviated, unrestored, refused>>

CannotOpen ==
    /\ pc = "write" /\ Fault /\ Die
    /\ UNCHANGED <<i, handled, sysctl, answer, found, printed, deviated, unrestored, refused>>

WriteTest ==
    /\ pc = "write"
    /\ \E result \in Results :
         /\ sysctl' \in {sysctl, Stored(tests[i].kind, tests[i].text)}
         /\ Write(tests[i].kind, tests[i].text, result)
         /\ answer' = result
         /\ deviated' = (deviated \/ <<result, sysctl'>> # Right(tests[i].kind, tests[i].text))
    /\ pc' = "check"
    /\ UNCHANGED <<code, i, handled, found, printed, unrestored, refused>>

\* Mutant: only the answer is looked at.
CheckTest_NoReadback ==
    /\ pc = "check"
    /\ IF answer = tests[i].error
         THEN /\ printed' = printed + 1 /\ i' = i + 1 /\ NoFault
              /\ pc' = IF i = Len(tests) THEN "final" ELSE "write"
              /\ UNCHANGED code
         ELSE Die /\ UNCHANGED <<i, printed>> /\ NoFault
    /\ UNCHANGED <<handled, sysctl, answer, found, deviated, unrestored, refused>>

\* close and both readings, the comparison, the row.
CheckTest ==
    /\ pc = "check"
    /\ \/ Fault /\ Die /\ UNCHANGED <<i, printed>>
       \/ /\ NoFault /\ answer = tests[i].error /\ sysctl = tests[i].after
          /\ printed' = printed + 1 /\ i' = i + 1
          /\ pc' = IF i = Len(tests) THEN "final" ELSE "write"
          /\ UNCHANGED code
       \/ /\ NoFault /\ ~(answer = tests[i].error /\ sysctl = tests[i].after)
          /\ Die /\ UNCHANGED <<i, printed>>
    /\ UNCHANGED <<handled, sysctl, answer, found, deviated, unrestored, refused>>

Final ==
    /\ pc = "final"
    /\ \/ /\ Die /\ UNCHANGED handled /\ IF sysctl = saved THEN Fault ELSE NoFault
       \/ /\ NoFault /\ sysctl = saved
          /\ handled' = FALSE /\ code' = 0 /\ pc' = "restore"
    /\ UNCHANGED <<i, sysctl, answer, found, printed, deviated, unrestored, refused>>

-----------------------------------------------------------------------------
(* restore, run by exit                                                    *)

\* A reading that fails calls exit again, which does not come back here.
Restore ==
    /\ pc = "restore"
    /\ \/ ~handled /\ pc' = "done" /\ NoFault /\ UNCHANGED <<found, unrestored>>
       \/ handled /\ Fault /\ pc' = "done" /\ unrestored' = TRUE /\ UNCHANGED found
       \/ /\ handled /\ NoFault /\ found' = sysctl.period
          /\ pc' = IF found' < saved.period THEN "raise" ELSE "runtime"
          /\ UNCHANGED unrestored
    /\ UNCHANGED <<code, i, handled, sysctl, answer, printed, deviated, refused>>

\* set: open, write and close; if one of them fails so does set.
Set(at, kind, next) ==
    /\ pc = at
    /\ \/ Fault /\ pc' = "done" /\ code' = 2 /\ UNCHANGED <<sysctl, unrestored, refused>>
       \/ \E result \in Results :
            /\ sysctl' \in {sysctl, Stored(kind, saved[kind])}
            /\ Write(kind, saved[kind], result)
            /\ unrestored' = (unrestored \/ (result = "written" /\ sysctl'[kind] # saved[kind]))
            /\ refused' = (result = "EINVAL" /\ ~Accepts(kind, saved[kind]))
            /\ \/ result = "written" /\ pc' = next /\ UNCHANGED code
               \/ result # "written" /\ pc' = "done" /\ code' = 2
    /\ UNCHANGED <<i, handled, answer, found, printed, deviated>>

\* Mutant: the runtime is restored before the period is raised.
SetPeriodFirst_Late == Set("raise", "runtime", "lower")

SetPeriodFirst == Set("raise", "period", "runtime")
SetRuntime     == Set("runtime", "runtime", IF found > saved.period THEN "lower" ELSE "done")
SetPeriodLast  == Set("lower", "period", "done")

\* The alarm is set before the values are read; at any time since.
Timeout ==
    /\ pc \notin {"start", "done"} /\ code # 0
    /\ pc' = "done" /\ code' = 124
    /\ UNCHANGED <<faults, i, handled, sysctl, answer, found, printed, deviated, unrestored, refused>>

Program ==
    \/ Prepare \/ CannotOpen \/ WriteTest \/ CheckTest \/ Final
    \/ Restore \/ SetPeriodFirst \/ SetRuntime \/ SetPeriodLast

Next == Program \/ Timeout

Spec == Init /\ [][Next]_vars

-----------------------------------------------------------------------------
(* Properties                                                              *)

\* Wherever the checks fail, and whatever the kernel did with the writes, both
\* values are as they were found when the process exits, unless its status (2
\* or 124) or the failing reading says that the caller has to restore them; and
\* no write of restore is refused for being out of order.
\* (restore and timeout_exit: "outer controller must restore")
Restored ==
    /\ pc = "done" /\ handled /\ code = 1 /\ ~unrestored => sysctl = saved
    /\ refused => unrestored

\* Success means that all writes were answered and carried out as they should.
SuccessEarned ==
    pc = "done" /\ code = 0 => printed = Len(tests) /\ ~deviated /\ sysctl = saved
=============================================================================
