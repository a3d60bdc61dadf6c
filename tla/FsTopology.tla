----------------------------- MODULE FsTopology -----------------------------
(***************************************************************************)
(* fsnotify_connector_topology.c, SCENARIO=topology: worker threads add one*)
(* inotify watch per group and then remove it, with a pthread barrier      *)
(* before the adds, between adds and removes, and after the removes.  The  *)
(* groups watch distinct inodes or hardlinks of one inode; a shared inode  *)
(* carries a keeper mark from before the threads start until after they    *)
(* are joined, so that its connector is neither created nor freed in the   *)
(* timed regions.                                                          *)
(*                                                                         *)
(* External: the barrier, and fsnotify's side of a watch.  The first mark  *)
(* on an inode allocates a connector and installs it with a cmpxchg; who   *)
(* loses that race has allocated a transient one.  The last mark frees it. *)
(***************************************************************************)
EXTENDS Integers, FiniteSets, Functions

CONSTANTS
    WORKERS,       \* number of threads
    GROUPS,        \* number of inotify groups (ITEMS)
    Topologies,    \* the topologies to run: a subset of {"distinct", "shared"}
    AddMayFail,    \* TRUE: inotify_add_watch may fail (a limit, no memory)
    CreateMayFail  \* TRUE: pthread_create may fail

\* load_config: at least one worker, and no more workers than groups.
ASSUME TopologyAssumption ==
    /\ WORKERS \in Nat \ {0} /\ GROUPS \in Nat /\ WORKERS <= GROUPS
    /\ Topologies \subseteq {"distinct", "shared"}
    /\ AddMayFail \in BOOLEAN /\ CreateMayFail \in BOOLEAN

Workers == 0..WORKERS-1
Groups  == 0..GROUPS-1
Keeper  == GROUPS          \* the keeper's group
Watchers == Groups \cup {Keeper}

VARIABLES
    topology,
    mainPc,        \* run_topology: where the main thread is
    workerPc,      \* topology_worker: where each worker is
    next,          \* per worker: the group its loop is at
    affinity_ok,   \* per worker
    arrived,       \* barrier: the threads waiting in its current cycle
    generation,    \* barrier: cycles completed
    cycle,         \* per worker: the cycle it is waiting in
    wds,           \* per group: TRUE while run->wds[i] >= 0
    added, removed, unexpected, \* per worker: its struct worker_result
    marks,         \* kernel: <<inode, watcher>> for each mark
    connectors,    \* kernel: inodes with a connector installed
    ignored,       \* kernel: watchers with an IN_IGNORED event queued
    churn,         \* history: connectors installed or freed by the workers
    transient,     \* history: connectors allocated in vain by the workers
    status         \* the semantic_status printed

mainVars    == <<topology, mainPc, status>>
barrier     == <<arrived, generation, cycle>>
resultVars  == <<wds, added, removed, unexpected, affinity_ok>>
inotifyVars == <<marks, connectors, ignored, churn, transient>>
topologyVars == <<mainVars, workerPc, next, barrier, resultVars, inotifyVars>>

Inode(g) == IF topology = "shared" THEN 0 ELSE g
MarksOn(i) == {m \in marks : m[1] = i}

\* The slice of the groups each worker owns.
Begin(w) == (GROUPS * w) \div WORKERS
End(w)   == (GROUPS * (w + 1)) \div WORKERS

TopologyInit ==
    /\ topology \in Topologies
    /\ mainPc = "keeper"
    /\ workerPc = [w \in Workers |-> "none"]
    /\ next = [w \in Workers |-> Begin(w)]
    /\ affinity_ok = [w \in Workers |-> TRUE]
    /\ arrived = {} /\ generation = 0 /\ cycle = [w \in Workers |-> 0]
    /\ wds = [g \in Groups |-> FALSE]
    /\ added = [w \in Workers |-> 0] /\ removed = [w \in Workers |-> 0]
    /\ unexpected = [w \in Workers |-> 0]
    /\ marks = {} /\ connectors = {} /\ ignored = {}
    /\ churn = 0 /\ transient = 0
    /\ status = "none"

-----------------------------------------------------------------------------
(* The main thread                                                         *)

\* Mutant: the shared inode gets no keeper.
SeedKeeper_None ==
    /\ mainPc = "keeper"
    /\ mainPc' = "create"
    /\ UNCHANGED <<topology, status, workerPc, next, barrier, resultVars, inotifyVars>>

\* The last step of the fixture: a shared inode gets its keeper mark.
SeedKeeper ==
    /\ mainPc = "keeper"
    /\ IF topology = "shared"
         THEN /\ marks' = marks \cup {<<Inode(0), Keeper>>}
              /\ connectors' = connectors \cup {Inode(0)}
         ELSE UNCHANGED <<marks, connectors>>
    /\ mainPc' = "create"
    /\ UNCHANGED <<topology, status, workerPc, next, barrier, resultVars, ignored,
                   churn, transient>>

\* The creation loop starts the threads in order.
CreateThread(w) ==
    /\ mainPc = "create"
    /\ workerPc[w] = "none" /\ \A v \in 0..w-1 : workerPc[v] # "none"
    /\ workerPc' = [workerPc EXCEPT ![w] = "start"]
    /\ mainPc' = IF w = WORKERS - 1 THEN "join" ELSE "create"
    /\ UNCHANGED <<topology, status, next, barrier, resultVars, inotifyVars>>

\* pthread_create failed: die_msg exits the process, whatever threads it has.
CreateFails ==
    /\ CreateMayFail
    /\ mainPc = "create"
    /\ mainPc' = "exited" /\ status' = "FAIL"
    /\ UNCHANGED <<topology, workerPc, next, barrier, resultVars, inotifyVars>>

JoinAll ==
    /\ mainPc = "join"
    /\ \A w \in Workers : workerPc[w] = "done"
    /\ mainPc' = "drain"
    /\ UNCHANGED <<topology, status, workerPc, next, barrier, resultVars, inotifyVars>>
-----------------------------------------------------------------------------
(* pthread_barrier_wait: the thread that completes the cycle releases the  *)
(* others, who leave in their own time.                                    *)

\* Mutant: the barrier is initialised for the main thread as well.
Parties_MainToo == Workers \cup {WORKERS}

\* pthread_barrier_init: every worker, and nobody else.
Parties == Workers

Arrive(w, at) ==
    /\ cycle' = [cycle EXCEPT ![w] = generation]
    /\ workerPc' = [workerPc EXCEPT ![w] = at]
    /\ IF arrived \cup {w} = Parties
         THEN arrived' = {} /\ generation' = generation + 1
         ELSE arrived' = arrived \cup {w} /\ UNCHANGED generation

Leave(w, at, to) ==
    /\ workerPc[w] = at
    /\ generation # cycle[w]
    /\ workerPc' = [workerPc EXCEPT ![w] = to]
    /\ UNCHANGED barrier

Alive == mainPc # "exited"

-----------------------------------------------------------------------------
(* topology_worker                                                         *)

\* The thread pins itself, if it can, and waits for all the others.
WorkerStart(w) ==
    /\ Alive /\ workerPc[w] = "start"
    /\ \E ok \in BOOLEAN : affinity_ok' = [affinity_ok EXCEPT ![w] = ok]
    /\ Arrive(w, "at1")
    /\ UNCHANGED <<mainVars, next, wds, added, removed, unexpected, inotifyVars>>

LeaveFirst(w) ==
    /\ Alive /\ Leave(w, "at1", "add")
    /\ UNCHANGED <<mainVars, next, resultVars, inotifyVars>>

\* inotify_add_watch finds a connector on the inode and attaches its mark ...
AttachMark(w) ==
    /\ marks' = marks \cup {<<Inode(next[w]), next[w]>>}
    /\ wds' = [wds EXCEPT ![next[w]] = TRUE]
    /\ added' = [added EXCEPT ![w] = @ + 1]
    /\ next' = [next EXCEPT ![w] = @ + 1]

AddWatch(w) ==
    /\ Alive /\ workerPc[w] = "add" /\ next[w] < End(w)
    /\ Inode(next[w]) \in connectors
    /\ AttachMark(w)
    /\ UNCHANGED <<mainVars, workerPc, barrier, removed, unexpected, affinity_ok,
                   connectors, ignored, churn, transient>>

\* ... or finds none and allocates one ...
AllocateConnector(w) ==
    /\ Alive /\ workerPc[w] = "add" /\ next[w] < End(w)
    /\ Inode(next[w]) \notin connectors
    /\ workerPc' = [workerPc EXCEPT ![w] = "install"]
    /\ UNCHANGED <<mainVars, next, barrier, resultVars, inotifyVars>>

\* ... to install it, unless another thread was faster.
InstallConnector(w) ==
    /\ Alive /\ workerPc[w] = "install"
    /\ IF Inode(next[w]) \in connectors
         THEN transient' = transient + 1 /\ UNCHANGED <<connectors, churn>>
         ELSE /\ connectors' = connectors \cup {Inode(next[w])}
              /\ churn' = churn + 1
              /\ UNCHANGED transient
    /\ AttachMark(w)
    /\ workerPc' = [workerPc EXCEPT ![w] = "add"]
    /\ UNCHANGED <<mainVars, barrier, removed, unexpected, affinity_ok, ignored>>

\* Mutant: a failed call leaves what reads as a valid descriptor.
AddFails_ZeroWd(w) ==
    /\ AddMayFail
    /\ Alive /\ workerPc[w] = "add" /\ next[w] < End(w)
    /\ wds' = [wds EXCEPT ![next[w]] = TRUE]
    /\ unexpected' = [unexpected EXCEPT ![w] = @ + 1]
    /\ next' = [next EXCEPT ![w] = @ + 1]
    /\ UNCHANGED <<mainVars, workerPc, barrier, added, removed, affinity_ok, inotifyVars>>

\* The call fails: the worker counts it and goes on.
AddFails(w) ==
    /\ AddMayFail
    /\ Alive /\ workerPc[w] = "add" /\ next[w] < End(w)
    /\ unexpected' = [unexpected EXCEPT ![w] = @ + 1]
    /\ next' = [next EXCEPT ![w] = @ + 1]
    /\ UNCHANGED <<mainVars, workerPc, barrier, wds, added, removed, affinity_ok, inotifyVars>>

\* Mutant: no barrier between the adds and the removes.
AddsDone_NoBarrier(w) ==
    /\ Alive /\ workerPc[w] = "add" /\ next[w] >= End(w)
    /\ workerPc' = [workerPc EXCEPT ![w] = "remove"]
    /\ next' = [next EXCEPT ![w] = Begin(w)]
    /\ UNCHANGED <<mainVars, barrier, resultVars, inotifyVars>>

AddsDone(w) ==
    /\ Alive /\ workerPc[w] = "add" /\ next[w] >= End(w)
    /\ Arrive(w, "at2")
    /\ UNCHANGED <<mainVars, next, resultVars, inotifyVars>>

LeaveSecond(w) ==
    /\ Alive /\ Leave(w, "at2", "remove")
    /\ next' = [next EXCEPT ![w] = Begin(w)]
    /\ UNCHANGED <<mainVars, resultVars, inotifyVars>>

\* The remove loop asks for a removal only where the add gave a descriptor.
\* The last mark of an inode takes its connector along.
RemoveWatch(w) ==
    /\ Alive /\ workerPc[w] = "remove" /\ next[w] < End(w)
    /\ LET g == next[w]
       IN  IF wds[g]
             THEN /\ marks' = marks \ {<<Inode(g), g>>}
                  /\ ignored' = ignored \cup {g}
                  /\ IF MarksOn(Inode(g)) \subseteq {<<Inode(g), g>>}
                       THEN connectors' = connectors \ {Inode(g)} /\ churn' = churn + 1
                       ELSE UNCHANGED <<connectors, churn>>
                  /\ removed' = [removed EXCEPT ![w] = @ + 1]
                  /\ UNCHANGED unexpected
             ELSE /\ unexpected' = [unexpected EXCEPT ![w] = @ + 1]
                  /\ UNCHANGED <<marks, ignored, connectors, churn, removed>>
    /\ next' = [next EXCEPT ![w] = @ + 1]
    /\ UNCHANGED <<mainVars, workerPc, barrier, wds, added, affinity_ok, transient>>

RemovesDone(w) ==
    /\ Alive /\ workerPc[w] = "remove" /\ next[w] >= End(w)
    /\ Arrive(w, "at3")
    /\ UNCHANGED <<mainVars, next, resultVars, inotifyVars>>

LeaveThird(w) ==
    /\ Alive /\ Leave(w, "at3", "done")
    /\ UNCHANGED <<mainVars, next, resultVars, inotifyVars>>
-----------------------------------------------------------------------------
Worker(w) ==
    \/ WorkerStart(w) \/ LeaveFirst(w)
    \/ AddWatch(w) \/ AllocateConnector(w) \/ InstallConnector(w) \/ AddFails(w)
    \/ AddsDone(w) \/ LeaveSecond(w) \/ RemoveWatch(w) \/ RemovesDone(w)
    \/ LeaveThird(w)

-----------------------------------------------------------------------------
(* The report                                                              *)

\* Mutant: threads that could not be pinned do not count.
SemanticOk_AnyCpu ==
    /\ SumFunction(added) = GROUPS /\ SumFunction(removed) = GROUPS
    /\ SumFunction(unexpected) = 0
    /\ Cardinality(ignored \cap Groups) = GROUPS

\* semantic_ok
SemanticOk ==
    /\ SumFunction(added) = GROUPS /\ SumFunction(removed) = GROUPS
    /\ SumFunction(unexpected) = 0
    /\ Cardinality(ignored \cap Groups) = GROUPS
    /\ \A w \in Workers : affinity_ok[w]

\* The joined main thread drains the groups' events and closes them, which
\* drops a mark they may still have; then the keeper's mark goes.
Report ==
    /\ mainPc = "drain"
    /\ status' = IF SemanticOk THEN "PASS" ELSE "FAIL"
    /\ marks' = {} /\ connectors' = {} /\ ignored' = {}
    /\ mainPc' = "exited"
    /\ UNCHANGED <<topology, workerPc, next, barrier, resultVars, churn, transient>>

Main == SeedKeeper \/ (\E w \in Workers : CreateThread(w)) \/ CreateFails
        \/ JoinAll \/ Report

TopologyNext == Main \/ (\E w \in Workers : Worker(w))

\* The threads run on their own and the scheduler starves none of them.
Fairness == WF_topologyVars(Main) /\ \A w \in Workers : WF_topologyVars(Worker(w))

TopologySpec == TopologyInit /\ [][TopologyNext]_topologyVars /\ Fairness
-----------------------------------------------------------------------------
\* Where a worker can be.
WorkerPcs == {"none", "start", "at1", "add", "install", "at2", "remove", "at3", "done"}

\* No two threads are ever in different timed regions: while one still adds
\* none removes, while one still removes none is gone, and nobody adds before
\* every thread was created and has arrived.  (topology_worker's barriers)
PhaseSeparation ==
    \A v, w \in Workers :
        /\ workerPc[v] \in {"add", "install"} =>
             workerPc[w] \notin {"none", "start", "remove", "at3", "done"}
        /\ workerPc[v] = "remove" =>
             workerPc[w] \notin {"none", "start", "at1", "add", "install", "done"}

\* A shared inode's connector is neither created nor freed by the workers, and
\* no worker loses an installation race: the keeper's mark is there before the
\* first add and after the last removal, whatever calls fail.
\* (the keeper of run_topology; expected_timed_connector_churn=0)
NoSharedChurn == topology = "shared" => churn = 0 /\ transient = 0

\* A run that passes added and removed the watch of every group, so no slice of
\* the partition was left out or done twice and no failed call was forgotten;
\* one whose calls all succeeded, on pinned threads, passes.  With distinct
\* inodes it created and freed one connector a group and lost no race.  All
\* the while the descriptor array tells which groups still have their mark.
\* (semantic_ok; expected_timed_connector_churn=groups; wds)
PassSound ==
    /\ mainPc # "exited" =>
        \A g \in Groups : (<<Inode(g), g>> \in marks) <=> (wds[g] /\ g \notin ignored)
    /\ mainPc = "exited" /\ (\A w \in Workers : workerPc[w] = "done") =>
        /\ status = "PASS" <=> /\ \A g \in Groups : wds[g]
                               /\ \A w \in Workers : affinity_ok[w]
        /\ status = "PASS" /\ topology = "distinct" =>
               churn = 2 * GROUPS /\ transient = 0

\* Whatever fails, the process ends: no thread is left at a barrier its
\* partners never reach.  (die_msg, the workers' loops that go on after errors)
Terminates == <>(mainPc = "exited")
=============================================================================
