------------------------------ MODULE FsWatch -------------------------------
(***************************************************************************)
(* fsnotify_connector_topology.c, the scenarios of one thread: "bulk" adds *)
(* one inotify watch per directory and removes them all, "mask" changes    *)
(* the mask of one watch again and again, "lookup" opens and closes the    *)
(* target without inotify.  Every system call may fail; what the fixture   *)
(* has created is removed by an atexit handler, on every way out.          *)
(*                                                                         *)
(* External: the inotify group.  It gives every inode one descriptor, in   *)
(* increasing order, queues IN_IGNORED when a watch goes, holds at most    *)
(* max_queued_events events, then one IN_Q_OVERFLOW.  Faults let it        *)
(* refuse, hand out a descriptor in use, drop an event or report an event  *)
(* nobody asked for.                                                       *)
(***************************************************************************)
EXTENDS Integers, Sequences, FiniteSets, Functions

CONSTANTS
    Configs,    \* the environments of a run: see ConfigAssumption
    WARM,       \* warm-up calls of a path lookup (16 in the code)
    MARGIN,     \* watches bulk leaves to others (8 in the code)
    MAX_ITEMS,
    MaxFaults   \* bound: calls that go wrong in one run

ConfigAssumption ==
    /\ WARM \in Nat /\ MARGIN \in Nat /\ MaxFaults \in Nat
    /\ \A c \in Configs :
         /\ c.test_dir \in {"directory", "file", "missing", "relative"}
         /\ c.scenario \in {"bulk", "mask", "lookup"}
         /\ c.workers \in Nat \ {0} /\ c.items \in Nat \ {0}
         /\ c.keep_files \in BOOLEAN /\ c.list_set \in BOOLEAN
         /\ c.cpu_list \in Seq(BOOLEAN)      \* per token: is it a CPU number
         /\ c.max_watches \in Nat /\ c.max_queue \in Nat \ {0}

VARIABLES
    cfg, pc, i,
    files,         \* the paths the run has created and not removed
    registered,    \* atexit has taken cleanup_fixture
    wds,           \* per item: what inotify_add_watch returned ("mask" uses wds[0])
    success, removed, unexpected, counts, affinity_ok,
    status, code,  \* the row's semantic_status; the exit code
    watches,       \* kernel: <<wd, path>> of the group
    nextWd, queue, max_events,
    took,          \* history: <<what, item>> for each call that did what was asked
    faults,        \* history: the calls that went wrong
    stuck          \* history: atexit, or removing the fixture, went wrong

fixture   == <<files, registered, stuck>>
tally     == <<wds, success, removed, unexpected, counts, affinity_ok>>
inotify   == <<watches, nextWd, queue, max_events, took>>
vars == <<cfg, pc, i, fixture, tally, status, code, inotify, faults>>

Items == 0..cfg.items-1
None  == -1
\* Paths and calls are numbered: the items from 0, what is not an item below.
First == -2
Root == -3
Data == -4
Target == -5
NoEvents == [ignored |-> 0, overflow |-> 0, unexpected |-> 0]

Init ==
    /\ cfg \in Configs
    /\ pc = "load" /\ i = 0
    /\ files = {} /\ registered = FALSE /\ stuck = FALSE
    /\ wds = [k \in Items |-> None]
    /\ success = 0 /\ removed = 0 /\ unexpected = 0
    /\ counts = NoEvents /\ affinity_ok = TRUE
    /\ status = "none" /\ code = 0
    /\ watches = {} /\ nextWd = 1 /\ queue = <<>> /\ max_events = 0 /\ took = {}
    /\ faults = 0

Goto(at) == pc' = at /\ i' = 0 /\ UNCHANGED code
\* die (1) and die_msg (2): the atexit handlers still run.
Die(c) == pc' = "exit" /\ code' = c /\ UNCHANGED i
Fault == faults < MaxFaults /\ faults' = faults + 1
Fine  == UNCHANGED faults

-----------------------------------------------------------------------------
(* The configuration and the fixture                                       *)

\* parse_cpu_list: exactly one valid entry per worker, if there is a list.
CpuListOk ==
    cfg.list_set => /\ Len(cfg.cpu_list) = cfg.workers
                    /\ \A k \in DOMAIN cfg.cpu_list : cfg.cpu_list[k]

LoadConfig ==
    /\ pc = "load"
    /\ IF /\ cfg.test_dir # "relative"
          /\ cfg.items <= MAX_ITEMS
          /\ cfg.workers = 1
          /\ CpuListOk
         THEN Goto("sysctls") ELSE Die(2)
    /\ Fine /\ UNCHANGED <<cfg, fixture, tally, status, inotify>>

\* Mutant: the queue's size is not looked at.
MarginsOk_AnyQueue == cfg.items + MARGIN <= cfg.max_watches

\* bulk leaves room for other watches, and the queue must hold every IN_IGNORED.
MarginsOk ==
    /\ cfg.items + MARGIN <= cfg.max_watches
    /\ cfg.items < cfg.max_queue

ReadSysctls ==
    /\ pc = "sysctls"
    /\ \/ Fine /\ IF cfg.scenario = "bulk" => MarginsOk THEN Goto("root") ELSE Die(2)
       \/ Fault /\ Die(1)                    \* read_ulong_file
    /\ UNCHANGED <<cfg, fixture, tally, status, inotify>>

MakeFixtureRoot ==
    /\ pc = "root"
    /\ \/ /\ cfg.test_dir # "directory" /\ Fine /\ UNCHANGED fixture
          /\ Die(IF cfg.test_dir = "missing" THEN 1 ELSE 2)
       \/ /\ cfg.test_dir = "directory"
          /\ \/ Fault /\ Die(1) /\ UNCHANGED fixture          \* stat, mkdtemp
             \/ /\ Fine /\ Goto("create") /\ UNCHANGED stuck
                /\ files' = {Root} /\ registered' = TRUE
             \/ /\ Fault /\ Die(2) /\ UNCHANGED registered    \* atexit
                /\ files' = {Root} /\ stuck' = TRUE
    /\ UNCHANGED <<cfg, tally, status, inotify>>

\* What is created below the root, in order.
ToCreate == IF cfg.scenario = "bulk"
              THEN <<Data>> \o [k \in 1..cfg.items |-> k - 1]
              ELSE <<Target>>

\* make_dir or make_file, and, for a directory of bulk, the stat that warms it;
\* after the last one statfs.
Create ==
    /\ pc = "create"
    /\ LET made == files \cup {ToCreate[i + 1]} IN
         \/ /\ Fine /\ files' = made /\ UNCHANGED code
            /\ IF i + 1 = Len(ToCreate) THEN pc' = "pin" /\ i' = 0
                                        ELSE pc' = pc /\ i' = i + 1
         \/ Fault /\ Die(1) /\ files' \in {files, made}
    /\ UNCHANGED <<cfg, registered, stuck, tally, status, inotify>>

Pin ==
    /\ pc = "pin"
    /\ \/ Fine /\ UNCHANGED affinity_ok
       \/ Fault /\ cfg.list_set /\ affinity_ok' = FALSE
    /\ Goto(IF cfg.scenario = "lookup" THEN "warm" ELSE "group")
    /\ UNCHANGED <<cfg, fixture, wds, success, removed, unexpected, counts,
                   status, inotify>>

\* The group keeps the limit it was created with: the sysctl may have been
\* lowered since the program read it.
InotifyInit ==
    /\ pc = "group"
    /\ \/ Fine /\ max_events' = cfg.max_queue /\ Goto("add")
       \/ Fault /\ max_events' = 1 /\ Goto("add")
       \/ Fault /\ UNCHANGED max_events /\ Die(1)
    /\ UNCHANGED <<cfg, fixture, tally, status, watches, nextWd, queue, took>>

-----------------------------------------------------------------------------
(* The group                                                               *)

Enqueue(event) ==
    IF Len(queue) < max_events THEN Append(queue, event)
    ELSE IF "overflow" \in Range(queue) THEN queue ELSE Append(queue, "overflow")

WdsOf(path) == {w[1] : w \in {v \in watches : v[2] = path}}

\* inotify_add_watch: what it returns for the watch of item k.
AddWatch(path, k, returned) ==
    \/ /\ Fine /\ WdsOf(path) = {}
       /\ returned = nextWd /\ nextWd' = nextWd + 1
       /\ watches' = watches \cup {<<nextWd, path>>}
       /\ took' = took \cup {<<"add", k>>}
    \/ /\ Fine /\ returned \in WdsOf(path)             \* the mask of a watch
       /\ took' = took \cup {<<"add", k>>}
       /\ UNCHANGED <<watches, nextWd>>
    \/ /\ Fault /\ returned = None /\ UNCHANGED <<watches, nextWd, took>>
    \/ /\ Fault /\ \E w \in watches :                  \* another's descriptor
            w[2] # path /\ returned = w[1]
       /\ UNCHANGED <<watches, nextWd, took>>
    \/ /\ Fault /\ WdsOf(path) # {}                    \* a second watch
       /\ returned = nextWd /\ nextWd' = nextWd + 1
       /\ watches' = watches \cup {<<nextWd, path>>}
       /\ UNCHANGED took

RmWatch(wd, k, ok) ==
    LET gone == {w \in watches : w[1] = wd} IN
    \/ /\ Fine /\ gone # {} /\ ok
       /\ watches' = watches \ gone
       /\ queue' = Enqueue("ignored")
       /\ took' = took \cup {<<"rm", k>>}
          \cup (IF Len(queue) < max_events THEN {<<"ignored", k>>} ELSE {})
    \/ /\ Fine /\ gone = {} /\ ~ok /\ UNCHANGED <<watches, queue, took>>
    \/ /\ Fault /\ gone # {} /\ ~ok /\ UNCHANGED <<watches, queue, took>>
    \/ /\ Fault /\ gone # {} /\ ok                     \* no IN_IGNORED
       /\ watches' = watches \ gone /\ took' = took \cup {<<"rm", k>>}
       /\ UNCHANGED queue

\* Somebody else touches what is watched.
ForeignEvent ==
    /\ pc \in {"add", "update", "remove"} /\ watches # {}
    /\ Fault /\ queue' = Enqueue("foreign")
    /\ UNCHANGED <<cfg, pc, i, fixture, tally, status, code, watches, nextWd,
                   max_events, took>>

-----------------------------------------------------------------------------
(* bulk                                                                    *)

UniqueWds == \A j, k \in Items : j # k => wds[j] # wds[k]

BulkAdd ==
    /\ pc = "add" /\ cfg.scenario = "bulk"
    /\ IF i < cfg.items
         THEN \E r \in None..cfg.items :
                /\ AddWatch(i, i, r)
                /\ wds' = [wds EXCEPT ![i] = r]
                /\ success' = IF r >= 0 THEN success + 1 ELSE success
                /\ unexpected' = IF r >= 0 THEN unexpected ELSE unexpected + 1
                /\ i' = i + 1 /\ UNCHANGED <<pc, code>>
         ELSE /\ Goto("remove") /\ Fine
              /\ unexpected' = IF UniqueWds THEN unexpected ELSE unexpected + 1
              /\ UNCHANGED <<wds, success, watches, nextWd, took>>
    /\ UNCHANGED <<cfg, fixture, removed, counts, affinity_ok, status, queue,
                   max_events>>

BulkRemove ==
    /\ pc = "remove" /\ cfg.scenario = "bulk"
    /\ IF i = cfg.items
         THEN /\ Goto("drain") /\ Fine
              /\ UNCHANGED <<removed, unexpected, watches, queue, took>>
         ELSE \E ok \in BOOLEAN :
                /\ IF wds[i] = None
                     THEN ~ok /\ Fine /\ UNCHANGED <<watches, queue, took>>
                     ELSE RmWatch(wds[i], i, ok)
                /\ removed' = IF ok THEN removed + 1 ELSE removed
                /\ unexpected' = IF ok THEN unexpected ELSE unexpected + 1
                /\ i' = i + 1 /\ UNCHANGED <<pc, code>>
    /\ UNCHANGED <<cfg, fixture, wds, success, counts, affinity_ok, status,
                   nextWd, max_events>>

-----------------------------------------------------------------------------
(* mask                                                                    *)

\* The first add; two warm-up updates have to return its descriptor.
MaskFirst ==
    /\ pc = "add" /\ cfg.scenario = "mask"
    /\ \E r \in None..3 :
         /\ AddWatch(Target, First, r)
         /\ IF i = 0
              THEN /\ wds' = [wds EXCEPT ![0] = r]
                   /\ IF r = None THEN Die(1) ELSE i' = 1 /\ UNCHANGED <<pc, code>>
              ELSE /\ UNCHANGED wds
                   /\ CASE r # wds[0] -> Die(2)
                        [] r = wds[0] /\ i < 2 -> i' = i + 1 /\ UNCHANGED <<pc, code>>
                        [] OTHER -> Goto("update")
    /\ UNCHANGED <<cfg, fixture, success, removed, unexpected, counts,
                   affinity_ok, status, queue, max_events>>

MaskUpdate ==
    /\ pc = "update"
    /\ IF i = cfg.items
         THEN Goto("remove") /\ Fine /\ UNCHANGED <<success, unexpected, watches, nextWd, took>>
         ELSE \E r \in None..cfg.items+1 :
                /\ AddWatch(Target, i, r)
                /\ success' = IF r = wds[0] THEN success + 1 ELSE success
                /\ unexpected' = IF r = wds[0] THEN unexpected ELSE unexpected + 1
                /\ i' = i + 1 /\ UNCHANGED <<pc, code>>
    /\ UNCHANGED <<cfg, fixture, wds, removed, counts, affinity_ok, status,
                   queue, max_events>>

MaskRemove ==
    /\ pc = "remove" /\ cfg.scenario = "mask"
    /\ \E ok \in BOOLEAN :
         /\ RmWatch(wds[0], First, ok)
         /\ unexpected' = IF ok THEN unexpected ELSE unexpected + 1
    /\ Goto("drain")
    /\ UNCHANGED <<cfg, fixture, wds, success, removed, counts, affinity_ok,
                   status, nextWd, max_events>>

-----------------------------------------------------------------------------
(* lookup                                                                  *)

\* Warm-up: a failing open ends the run, a failing close is not noticed.
LookupWarm ==
    /\ pc = "warm"
    /\ IF i = WARM THEN Goto("lookup") /\ Fine
                   ELSE \/ (Fine \/ Fault) /\ i' = i + 1 /\ UNCHANGED <<pc, code>>
                        \/ Fault /\ Die(1)
    /\ UNCHANGED <<cfg, fixture, tally, status, inotify>>

Lookup ==
    /\ pc = "lookup"
    /\ IF i = cfg.items
         THEN Goto("row") /\ Fine /\ UNCHANGED <<success, unexpected, took>>
         ELSE /\ i' = i + 1 /\ UNCHANGED <<pc, code>>
              /\ \/ /\ Fine /\ success' = success + 1
                    /\ took' = took \cup {<<"open", i>>} /\ UNCHANGED unexpected
                 \/ /\ Fault /\ unexpected' = unexpected + 1
                    /\ success' \in {success, success + 1}   \* open, or only close
                    /\ UNCHANGED took
    /\ UNCHANGED <<cfg, fixture, wds, removed, counts, affinity_ok, status,
                   watches, nextWd, queue, max_events>>

-----------------------------------------------------------------------------
(* The end of a run                                                        *)

Count(event) == Cardinality({k \in DOMAIN queue : queue[k] = event})

\* Mutant: every event but an overflow is taken for an IN_IGNORED.
Drained_Loose ==
    [ignored |-> Count("ignored") + Count("foreign"), overflow |-> Count("overflow"),
     unexpected |-> 0]

Drained ==
    [ignored |-> Count("ignored"), overflow |-> Count("overflow"),
     unexpected |-> Count("foreign")]

\* drain_events, then close; either may fail.
Drain ==
    /\ pc = "drain"
    /\ \/ Fine /\ counts' = Drained /\ queue' = <<>> /\ watches' = {} /\ Goto("row")
       \/ Fault /\ Die(1) /\ UNCHANGED <<counts, queue, watches>>
    /\ UNCHANGED <<cfg, fixture, wds, success, removed, unexpected, affinity_ok,
                   status, nextWd, max_events, took>>

SemanticOk ==
    /\ success = cfg.items /\ unexpected = 0 /\ affinity_ok
    /\ cfg.scenario = "bulk" => removed = cfg.items
    /\ cfg.scenario # "lookup" =>
         counts = [NoEvents EXCEPT !.ignored = IF cfg.scenario = "bulk" THEN cfg.items ELSE 1]

Row ==
    /\ pc = "row"
    /\ status' = IF SemanticOk THEN "PASS" ELSE "FAIL"
    /\ code' = IF SemanticOk THEN 0 ELSE 1
    /\ pc' = "exit"
    /\ UNCHANGED <<cfg, i, fixture, tally, inotify, faults>>

\* Mutant: an exit on an error does not run the handler.
Exit_Quick ==
    /\ pc = "exit" /\ pc' = "done"
    /\ files' = IF registered /\ ~cfg.keep_files /\ code = 0 THEN {} ELSE files
    /\ watches' = {} /\ queue' = <<>>
    /\ UNCHANGED <<cfg, i, registered, stuck, tally, status, code, nextWd, max_events,
                   took, faults>>

\* exit, or the return of main: cleanup_fixture walks the tree bottom up and
\* stops where it cannot remove something; the kernel closes the group.
Exit ==
    /\ pc = "exit" /\ pc' = "done"
    /\ IF registered /\ ~cfg.keep_files
         THEN \/ Fine /\ files' = {} /\ UNCHANGED stuck
              \/ /\ Fault /\ stuck' = TRUE
                 /\ files' \in {f \in SUBSET files : Root \in f}
         ELSE Fine /\ UNCHANGED <<files, stuck>>
    /\ watches' = {} /\ queue' = <<>>
    /\ UNCHANGED <<cfg, i, registered, tally, status, code, nextWd, max_events, took>>

Program ==
    \/ LoadConfig \/ ReadSysctls \/ MakeFixtureRoot \/ Create \/ Pin \/ InotifyInit
    \/ BulkAdd \/ BulkRemove \/ MaskFirst \/ MaskUpdate \/ MaskRemove
    \/ LookupWarm \/ Lookup \/ Drain \/ Row \/ Exit

Next == Program \/ ForeignEvent

Spec == Init /\ [][Next]_vars

-----------------------------------------------------------------------------
(* Properties                                                              *)

\* A PASS row is earned: every timed call did what was asked of it, every
\* watch that was added is gone again and announced by one IN_IGNORED
\* (semantic_ok of the three run_ functions against the kernel's history).
PassEarned ==
    status = "PASS" =>
      took = CASE cfg.scenario = "bulk" -> {"add", "rm", "ignored"} \X Items
               [] cfg.scenario = "mask" ->
                    ({"add"} \X (Items \cup {First})) \cup {<<"rm", First>>, <<"ignored", First>>}
               [] OTHER -> {"open"} \X Items

\* Only something that went wrong makes a FAIL row: the limits read from
\* the sysctls at the start keep a good run below them.
FailHasCause == status = "FAIL" => faults > 0

\* However the run ends, at whatever call, nothing it created is left behind,
\* unless KEEP_FILES was set, or atexit or the removal itself failed.
FixtureGone == pc = "done" /\ ~cfg.keep_files /\ ~stuck => files = {}
=============================================================================
