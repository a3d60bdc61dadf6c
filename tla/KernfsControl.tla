--------------------------- MODULE KernfsControl ----------------------------
(***************************************************************************)
(* control.c of the kernfs study: under a root cgroup with two children it *)
(* creates and removes a leaf, round after round, with a sched_ext         *)
(* scheduler loaded or not.  Every step may fail and jumps to the cleanup  *)
(* at `out'; SIGALRM and SIGTERM only set a flag.                          *)
(*                                                                         *)
(* External: the cgroup file system and the state of sched_ext, which      *)
(* follows the attached scheduler in its own time, may eject it, and may   *)
(* belong to somebody else.                                                *)
(***************************************************************************)
EXTENDS Integers, Sequences, FiniteSets

CONSTANTS
    Rounds,      \* the numbers of rounds and warm-ups to try
    MaxFaults    \* bound: calls that go wrong, and sched_ext's own moves

KernfsAssumption == Rounds \subseteq Nat \ {0} /\ MaxFaults \in Nat

Cgroups == {"root", "a", "b", "leaf"}

VARIABLES
    rounds, disabled, graph_mode,  \* the arguments and the environment
    pc, k, completed, ret,
    created,       \* the x_created flags that are set
    link,          \* link # NULL
    expired,
    dirs,          \* kernel: the cgroups that exist
    attached,      \* kernel: is our scheduler attached
    scx,           \* kernel: /sys/kernel/sched_ext/state
    vanished,      \* history: rounds whose leaf came and went
    stuck,         \* history: a cgroup could not be removed
    faults

args == <<rounds, disabled, graph_mode>>
scxVars == <<link, attached, scx>>
history == <<vanished, stuck>>
vars == <<args, pc, k, completed, ret, created, expired, dirs, scxVars, history, faults>>

Init ==
    /\ rounds \in Rounds /\ disabled \in BOOLEAN
    /\ graph_mode \in {FALSE} \cup (IF rounds = 4 THEN {TRUE} ELSE {})
    /\ pc = "setup" /\ k = 1 /\ completed = 0 /\ ret = 1
    /\ created = {} /\ link = FALSE /\ expired = FALSE
    /\ dirs = {} /\ attached = FALSE /\ scx \in {"disabled", "other"}
    /\ vanished = 0 /\ stuck = FALSE /\ faults = 0

Goto(at) == pc' = at
Fine  == UNCHANGED faults
Fault == faults < MaxFaults /\ faults' = faults + 1

-----------------------------------------------------------------------------
(* sched_ext and signals                                                   *)

ScxFollows ==
    /\ attached # (scx = "enabled") /\ scx # "other"
    /\ scx' = IF attached THEN "enabled" ELSE "disabled"
    /\ UNCHANGED <<args, pc, k, completed, ret, created, link, expired, dirs, attached,
                   history, faults>>

\* The kernel ejects the scheduler, or another one's ends.
ScxLeaves ==
    /\ scx # "disabled" /\ Fault
    /\ scx' = "disabled" /\ attached' = FALSE
    /\ UNCHANGED <<args, pc, k, completed, ret, created, link, expired, dirs, history>>

\* SIGALRM after 45 seconds, or SIGTERM.
Expire ==
    /\ ~expired /\ pc # "done" /\ expired' = TRUE
    /\ UNCHANGED <<args, pc, k, completed, ret, created, dirs, scxVars, history, faults>>

-----------------------------------------------------------------------------
(* Set-up                                                                  *)

\* Affinity and policy; root, its controllers, a and b; their ids; the
\* attribute files and the shared mapping.
SetupSteps == <<"pin", "root", "subtree", "a", "b", "ids", "attrs", "map">>

Creates(d) == created' = created \cup {d}

Setup ==
    /\ pc = "setup"
    /\ LET step == SetupSteps[k] IN
         \/ /\ Fine /\ (step = "pin" => scx = "disabled")
            /\ IF step \in Cgroups
                 THEN dirs' = dirs \cup {step} /\ Creates(step)
                 ELSE UNCHANGED <<dirs, created>>
            /\ k' = k + 1
            /\ Goto(IF k < Len(SetupSteps) THEN "setup" ELSE IF disabled THEN "marker" ELSE "load")
         \/ /\ (IF step = "pin" /\ scx # "disabled" THEN Fine ELSE Fault)
            /\ Goto("out") /\ UNCHANGED <<k, dirs, created>>
    /\ UNCHANGED <<args, completed, ret, expired, scxVars, history>>

\* The object is opened, checked and loaded, then attached.
Load ==
    /\ pc = "load"
    /\ \/ Fine /\ link' = TRUE /\ attached' = TRUE /\ Goto("await")
       \/ Fault /\ Goto("out") /\ UNCHANGED <<link, attached>>
    /\ UNCHANGED <<args, k, completed, ret, created, expired, dirs, scx, history>>

\* await_state("enabled"): five seconds at most.
AwaitEnabled ==
    /\ pc = "await"
    /\ \/ scx = "enabled" /\ Goto("marker")
       \/ scx # "enabled" /\ Goto("out")
    /\ Fine
    /\ UNCHANGED <<args, k, completed, ret, created, expired, dirs, scxVars, history>>

OpenMarker ==
    /\ pc = "marker"
    /\ \/ Fine /\ Goto("begin")
       \/ Fault /\ graph_mode /\ Goto("out")
    /\ UNCHANGED <<args, k, completed, ret, created, expired, dirs, scxVars, history>>

-----------------------------------------------------------------------------
(* The rounds                                                              *)

Expected == IF disabled THEN "disabled" ELSE "enabled"

Begin ==
    /\ pc = "begin"
    /\ IF completed = rounds THEN Fine /\ Goto("restore")
       ELSE \/ Fine /\ Goto(IF expired \/ scx # Expected THEN "out" ELSE "mkdir")
            \/ Fault /\ graph_mode /\ Goto("out")     \* marker
    /\ UNCHANGED <<args, k, completed, ret, created, expired, dirs, scxVars, history>>

MkdirLeaf ==
    /\ pc = "mkdir"
    /\ \/ Fine /\ dirs' = dirs \cup {"leaf"} /\ Creates("leaf") /\ Goto("rmdir")
       \/ Fault /\ Goto("out") /\ UNCHANGED <<dirs, created>>
    /\ UNCHANGED <<args, k, completed, ret, expired, scxVars, history>>

\* The leaf's id is read, then it is removed; the kernel may refuse, or say
\* that it has while the leaf is still to be found.
RmdirLeaf ==
    /\ pc = "rmdir"
    /\ \/ Fine /\ dirs' = dirs \ {"leaf"} /\ created' = created \ {"leaf"}
          /\ Goto("stat") /\ UNCHANGED stuck
       \/ Fault /\ Goto("out") /\ UNCHANGED <<dirs, created, stuck>>
       \/ Fault /\ Goto("stat") /\ created' = created \ {"leaf"}
          /\ stuck' = TRUE /\ UNCHANGED dirs
    /\ UNCHANGED <<args, k, completed, ret, expired, scxVars, vanished>>

\* stat has to say ENOENT; then the END marker.
StatLeaf ==
    /\ pc = "stat"
    /\ \/ /\ Fine /\ "leaf" \notin dirs /\ Goto("begin")
          /\ completed' = completed + 1 /\ vanished' = vanished + 1
       \/ /\ (IF "leaf" \in dirs THEN Fine ELSE Fault)
          /\ Goto("out") /\ UNCHANGED <<completed, vanished>>
    /\ UNCHANGED <<args, k, ret, created, expired, dirs, scxVars, stuck>>

-----------------------------------------------------------------------------
(* Restore and clean-up                                                    *)

\* The weight, then the link.  It is gone for the program even where
\* destroying it fails.
Restore ==
    /\ pc = "restore"
    /\ \/ Fine /\ link' = FALSE /\ attached' = FALSE /\ Goto("awaitOff")
       \/ Fault /\ Goto("out") /\ UNCHANGED <<link, attached>>
       \/ Fault /\ link /\ link' = FALSE /\ attached' \in BOOLEAN /\ Goto("out")
    /\ UNCHANGED <<args, k, completed, ret, created, expired, dirs, scx, history>>

\* Without a scheduler the state is looked at once, with one for up to five
\* seconds, and its report has to be in order.
RestoreState ==
    /\ pc = "awaitOff" /\ Goto("out")
    /\ \/ Fine /\ ret' = IF scx = "disabled" THEN 0 ELSE 1
       \/ Fault /\ ~disabled /\ UNCHANGED ret
    /\ UNCHANGED <<args, k, completed, created, expired, dirs, scxVars, history>>

\* out: the link is destroyed and the object closed, which detaches.
Out ==
    /\ pc = "out" /\ Goto("outState")
    /\ link' = FALSE /\ attached' = FALSE
    /\ UNCHANGED <<args, k, completed, ret, created, expired, dirs, scx, history, faults>>

OutState ==
    /\ pc = "outState" /\ Goto("remove") /\ k' = 1
    /\ ret' = IF scx = "disabled" THEN ret ELSE 1
    /\ UNCHANGED <<args, completed, created, expired, dirs, scxVars, history, faults>>

\* Mutant: the parent goes before its children.
RemoveOrder_RootFirst == <<"root", "leaf", "a", "b">>

RemoveOrder == <<"leaf", "a", "b", "root">>

Children(d) == IF d = "root" THEN dirs \ {"root"} ELSE {}

\* Mutant: a cgroup that cannot be removed is passed over in silence.
RetAfter_Silent(removed) == ret

RetAfter(removed) == IF removed THEN ret ELSE 1

\* rmdir of what the flags name, the leaf first and the root last.
Remove ==
    /\ pc = "remove"
    /\ LET d == RemoveOrder[k] IN
         IF d \notin created THEN Fine /\ UNCHANGED <<dirs, ret, stuck>>
         ELSE \/ Fine /\ Children(d) = {} /\ dirs' = dirs \ {d}
                 /\ ret' = RetAfter(TRUE) /\ UNCHANGED stuck
              \/ Fine /\ Children(d) # {} /\ ret' = RetAfter(FALSE)
                 /\ UNCHANGED <<dirs, stuck>>
              \/ Fault /\ ret' = RetAfter(FALSE) /\ stuck' = TRUE /\ UNCHANGED dirs
    /\ k' = k + 1 /\ Goto(IF k < Len(RemoveOrder) THEN "remove" ELSE "done")
    /\ UNCHANGED <<args, completed, created, expired, scxVars, vanished>>

Program ==
    \/ Setup \/ Load \/ AwaitEnabled \/ OpenMarker \/ Begin \/ MkdirLeaf \/ RmdirLeaf
    \/ StatLeaf \/ Restore \/ RestoreState \/ Out \/ OutState \/ Remove

Next == Program \/ ScxFollows \/ ScxLeaves \/ Expire

Spec == Init /\ [][Next]_vars

-----------------------------------------------------------------------------
(* Properties                                                              *)

\* However the run goes, it leaves no cgroup behind unless the kernel would
\* not remove one, and its scheduler is not attached (the flags and the
\* order of the clean-up at out).
LeakFree ==
    pc = "done" => ~attached /\ (~stuck => dirs = {})

\* Exit 0 is earned: every round's leaf was seen to be gone, nothing is left
\* behind and sched_ext was disabled when the program looked for the last time.
SuccessEarned ==
    pc = "done" /\ ret = 0 => vanished = rounds /\ dirs = {} /\ scx # "enabled"
=============================================================================
