------------------------------ MODULE Programs ------------------------------
(***************************************************************************)
(* The sequential programs side by side: io_uring_cancel_round in profile  *)
(* r0 and in the set-up of the others (RingSetup), the kernfs control, the *)
(* one-thread scenarios of the fsnotify program, the remap benchmark with  *)
(* its perf process, the AF_UNIX micro-benchmark and the write checks of   *)
(* the RT sysctls.  A behaviour is a run of one of them; they share        *)
(* nothing, and variables of the same name are each program's own.  What   *)
(* is asked of all of them is the same: on every way out clean up what was *)
(* made, and tell the truth about what was done.                           *)
(***************************************************************************)
EXTENDS Integers, Sequences, FiniteSets

CONSTANTS
    MaxFaults,                                \* calls that go wrong in a run
    PENDING, DECOYS,                          \* RingSetup
    KernfsRounds,                             \* KernfsControl
    Configs, WARM, MARGIN, MAX_ITEMS,         \* FsWatch
    Ops, Ranges, PAGE, WORD,                  \* RemapMicro
    BATCH_SIZE, PATTERNS, Messages, Warmups, UnixRounds   \* UnixBatches

VARIABLES
    program, pc, faults,
    profile, ring, efds, queued, before, close_ret, pass, row, maps, armed,
    wild, torn, noEventfd,
    rounds, disabled, graph_mode, k, completed, created, link, expired, dirs,
    attached, scx, vanished,
    cfg, files, registered, wds, success, removed, counts, affinity_ok,
    status, watches, nextWd, max_events, took,
    ops, range_bytes, scenario, fifos, with_stats, todo, awaited, size, ctl,
    ack, alive, counting, good,
    opt, rc, base, slot, round, res, sockets, got, closedForeign, unpinned,
    handled, sysctl, answer, found, printed, deviated, unrestored, refused,
    ret, open, stuck, i, unexpected, code, queue, rows

ringVars == <<profile, ring, efds, queued, before, close_ret, pass, row, maps,
              armed, wild, torn, noEventfd>>
kernfsVars == <<rounds, disabled, graph_mode, k, completed, created, link,
                expired, dirs, attached, scx, vanished>>
watchVars == <<cfg, files, registered, wds, success, removed, counts,
               affinity_ok, status, watches, nextWd, max_events, took>>
remapVars == <<ops, range_bytes, scenario, fifos, with_stats, todo, awaited,
               size, ctl, ack, alive, counting, good>>
unixVars == <<opt, rc, base, slot, round, res, sockets, got, closedForeign,
              unpinned>>
sysctlVars == <<handled, sysctl, answer, found, printed, deviated, unrestored, refused>>
vars == <<program, pc, faults, ringVars, kernfsVars, watchVars, remapVars, unixVars,
          sysctlVars, ret, open, stuck, i, unexpected, code, queue, rows>>

Ring   == INSTANCE RingSetup
Kernfs == INSTANCE KernfsControl WITH Rounds <- KernfsRounds
Watch  == INSTANCE FsWatch
Remap  == INSTANCE RemapMicro
Unix   == INSTANCE UnixBatches WITH Rounds <- UnixRounds
Sysctl == INSTANCE SysctlChecks

ASSUME ProgramsAssumption ==
    /\ Ring!RingSetupAssumption /\ Kernfs!KernfsAssumption /\ Watch!ConfigAssumption
    /\ Remap!RemapAssumption /\ Unix!UnixAssumption

-----------------------------------------------------------------------------
(* The variables of the programs that do not run.                          *)

ringIdle ==
    /\ profile = 0 /\ ring = 0 /\ efds = 0 /\ queued = 0 /\ before = 0
    /\ close_ret = 0 /\ pass = 0 /\ row = 0 /\ maps = 0 /\ armed = 0
    /\ wild = 0 /\ torn = 0 /\ noEventfd = 0
kernfsIdle ==
    /\ rounds = 0 /\ disabled = 0 /\ graph_mode = 0 /\ k = 0 /\ completed = 0
    /\ created = 0 /\ link = 0 /\ expired = 0 /\ dirs = 0 /\ attached = 0
    /\ scx = 0 /\ vanished = 0
watchIdle ==
    /\ cfg = 0 /\ files = 0 /\ registered = 0 /\ wds = 0 /\ success = 0
    /\ removed = 0 /\ counts = 0 /\ affinity_ok = 0 /\ status = 0
    /\ watches = 0 /\ nextWd = 0 /\ max_events = 0 /\ took = 0
remapIdle ==
    /\ ops = 0 /\ range_bytes = 0 /\ scenario = 0 /\ fifos = 0
    /\ with_stats = 0 /\ todo = 0 /\ awaited = 0 /\ size = 0 /\ ctl = 0
    /\ ack = 0 /\ alive = 0 /\ counting = 0 /\ good = 0
unixIdle ==
    /\ opt = 0 /\ rc = 0 /\ base = 0 /\ slot = 0 /\ round = 0 /\ res = 0
    /\ sockets = 0 /\ got = 0 /\ closedForeign = 0 /\ unpinned = 0
sysctlIdle ==
    /\ handled = 0 /\ sysctl = 0 /\ answer = 0 /\ found = 0 /\ printed = 0
    /\ deviated = 0 /\ unrestored = 0 /\ refused = 0

Init ==
    \/ /\ program = "ring" /\ Ring!Init
       /\ kernfsIdle /\ watchIdle /\ remapIdle /\ unixIdle /\ sysctlIdle
       /\ stuck = 0 /\ i = 0 /\ unexpected = 0 /\ code = 0 /\ queue = 0 /\ rows = 0
    \/ /\ program = "kernfs" /\ Kernfs!Init
       /\ ringIdle /\ watchIdle /\ remapIdle /\ unixIdle /\ sysctlIdle
       /\ open = 0 /\ i = 0 /\ unexpected = 0 /\ code = 0 /\ queue = 0 /\ rows = 0
    \/ /\ program = "watch" /\ Watch!Init
       /\ ringIdle /\ kernfsIdle /\ remapIdle /\ unixIdle /\ sysctlIdle
       /\ ret = 0 /\ open = 0 /\ rows = 0
    \/ /\ program = "remap" /\ Remap!Init
       /\ ringIdle /\ kernfsIdle /\ watchIdle /\ unixIdle /\ sysctlIdle
       /\ ret = 0 /\ open = 0 /\ stuck = 0 /\ queue = 0
    \/ /\ program = "unix" /\ Unix!Init
       /\ ringIdle /\ kernfsIdle /\ watchIdle /\ remapIdle /\ sysctlIdle
       /\ ret = 0 /\ stuck = 0 /\ i = 0 /\ unexpected = 0 /\ code = 0
    \/ /\ program = "sysctl" /\ Sysctl!Init
       /\ ringIdle /\ kernfsIdle /\ watchIdle /\ remapIdle /\ unixIdle
       /\ ret = 0 /\ open = 0 /\ stuck = 0 /\ unexpected = 0 /\ queue = 0 /\ rows = 0

InRing(step) ==
    /\ program = "ring" /\ step
    /\ UNCHANGED <<program, kernfsVars, watchVars, remapVars, unixVars, sysctlVars,
                   stuck, i, unexpected, code, queue, rows>>

InKernfs(step) ==
    /\ program = "kernfs" /\ step
    /\ UNCHANGED <<program, ringVars, watchVars, remapVars, unixVars, sysctlVars,
                   open, i, unexpected, code, queue, rows>>

InWatch(step) ==
    /\ program = "watch" /\ step
    /\ UNCHANGED <<program, ringVars, kernfsVars, remapVars, unixVars, sysctlVars,
                   ret, open, rows>>

InRemap(step) ==
    /\ program = "remap" /\ step
    /\ UNCHANGED <<program, ringVars, kernfsVars, watchVars, unixVars, sysctlVars,
                   ret, open, stuck, queue>>

InUnix(step) ==
    /\ program = "unix" /\ step
    /\ UNCHANGED <<program, ringVars, kernfsVars, watchVars, remapVars, sysctlVars,
                   ret, stuck, i, unexpected, code>>

InSysctl(step) ==
    /\ program = "sysctl" /\ step
    /\ UNCHANGED <<program, ringVars, kernfsVars, watchVars, remapVars, unixVars,
                   ret, open, stuck, unexpected, queue, rows>>

Next ==
    \/ InRing(Ring!Next) \/ InKernfs(Kernfs!Next) \/ InWatch(Watch!Next)
    \/ InRemap(Remap!Next) \/ InUnix(Unix!Next) \/ InSysctl(Sysctl!Next)

\* The program itself goes on; perf, sched_ext and the rest of the world may
\* take their time.
Steps ==
    \/ InRing(Ring!Next) \/ InKernfs(Kernfs!Program) \/ InWatch(Watch!Program)
    \/ InRemap(Remap!Main) \/ InUnix(Unix!Next) \/ InSysctl(Sysctl!Program)

Spec == Init /\ [][Next]_vars /\ WF_vars(Steps)

-----------------------------------------------------------------------------
(* Properties                                                              *)

\* However a run goes, at whatever call it fails, it gives back what it made,
\* once: descriptors and mappings of the ring and of the sockets, the cgroups
\* and the attached scheduler, the fixture's files, the values of the sysctls.
\* (raw_ring_destroy, fixture_destroy and run_r0; out of control.c;
\* cleanup_fixture; cleanup_workload; restore)
CleansUp ==
    CASE program = "ring"   -> Ring!ReleasedOnce
      [] program = "kernfs" -> Kernfs!LeakFree
      [] program = "watch"  -> Watch!FixtureGone
      [] program = "unix"   -> Unix!ClosesItsOwn
      [] program = "remap"  -> Remap!FilesGone
      [] program = "sysctl" -> Sysctl!Restored

\* A row, a PASS or an exit status is earned: everything it stands for has
\* happened in the kernel, and a failure is not the program's own doing.
\* (semantic_pass of run_r0 and run_round, ret of control.c, semantic_ok,
\* expected_match_ratio, the status of sysctl_checks.c)
ReportEarned ==
    CASE program = "ring"   -> Ring!ReleaseProven
      [] program = "kernfs" -> Kernfs!SuccessEarned
      [] program = "watch"  -> Watch!PassEarned /\ Watch!FailHasCause
      [] program = "unix"   -> Unix!RowsEarned
      [] program = "remap"  -> Remap!ResultHonest
      [] program = "sysctl" -> Sysctl!SuccessEarned

\* perf counts the timed loop of the remap benchmark and nothing else.
CountersFollow == program = "remap" => Remap!CountersFollow

\* Whatever perf or sched_ext do or fail to do, every program ends.
Terminates == <>(pc = "done")
=============================================================================
