----------------------- MODULE WeightedPayload_proofs -----------------------
(***************************************************************************)
(* The two threads of weighted_payload.c take strict turns, and what main  *)
(* reports is complete and of its own round: proofs of OneAtATime and of   *)
(* ReportSound for every number of turns and rounds.                       *)
(*                                                                         *)
(* The barriers carry the argument.  Each party counts the calls of each   *)
(* barrier it has behind it (Passed, a function of where it stands and of  *)
(* its round alone); BarrierInv says that this count and the cycles of the *)
(* barrier agree but for those who wait.  Two parties that agree with the  *)
(* same counter cannot be far apart, which gives the lemmas of the section *)
(* "Who can be where at the same time", and with them the turn (TurnInv),  *)
(* the counters (CountInv) and the rows (RowsInv) are followed from step   *)
(* to step.                                                                *)
(***************************************************************************)
EXTENDS WeightedPayload, TLAPS

-----------------------------------------------------------------------------
(* Where a party stands                                                    *)

MainPcs == {"create", "store", "to1", "at1", "to2", "at2", "to3", "at3", "report",
            "to4", "at4", "next", "join", "done"}
Common  == {"none", "reset", "to1", "at1", "to2", "at2", "check", "to3", "at3",
            "to4", "at4", "next", "done"}
\* The states in which a foreground thread may have to do with the turn.
InLoop  == {"load", "wait", "asleep", "work", "wake"}
Window  == [p \in Parties |->
              CASE p = 0 -> {"begin", "first", "close"} \cup InLoop
                [] p = 1 -> {"begin"} \cup InLoop
                [] p = Busy -> {"busy"}
                [] p = Main -> {}]

TypeInv ==
    /\ pc \in [Parties -> MainPcs \cup Common \cup InLoop
                            \cup {"begin", "first", "close", "busy"}]
    /\ pc[Main] \in MainPcs
    /\ \A p \in Workers : pc[p] \in Common \cup Window[p]
    /\ round \in [Parties -> Nat]
    /\ turn \in {0, 1, 2} /\ phase \in {0, 1, 2}
    /\ n \in [Foreground -> Nat]
    /\ completed \in [Foreground -> Nat] /\ wakes \in [Foreground -> Nat]
    /\ of_round \in [Foreground -> Int]
    /\ arrived \in [Bars -> SUBSET Parties]
    /\ cycles \in [Bars -> Nat] /\ seen \in [Parties -> Nat]
    /\ rows \in Nat /\ code \in {-1, 0, 1, 124}

\* What a party has behind it in its round.
BehindThird  == {"report", "to4", "at4", "next"}
BehindSecond == {"check", "to3", "at3"} \cup BehindThird
BehindFirst  == InLoop \cup {"begin", "first", "close", "busy", "to2", "at2"} \cup BehindSecond

\* How often a party has passed each of the barriers.
One(b) == IF b THEN 1 ELSE 0
Passed(p, b) ==
    IF b = "start" THEN 2 * round[p] + One(pc[p] \in BehindFirst) + One(pc[p] = "next")
                   ELSE 2 * round[p] + One(pc[p] \in BehindSecond) + One(pc[p] \in BehindThird)

WaitsAt == [start |-> {"at1", "at4"}, finish |-> {"at2", "at3"}]

\* A party that does not wait has passed as often as the barrier has opened;
\* one that waits remembers how often that was when it came.
BarrierInv ==
    \A p \in Parties, b \in Bars :
        IF pc[p] \in WaitsAt[b]
          THEN /\ seen[p] = Passed(p, b)
               /\ cycles[b] \in {Passed(p, b), Passed(p, b) + 1}
               /\ p \in arrived[b] <=> cycles[b] = Passed(p, b)
          ELSE cycles[b] = Passed(p, b) /\ p \notin arrived[b]

\* Main has prepared the round and thread 0 has not yet begun it.
Prepared ==
    /\ pc[Main] \in {"to1", "at1", "to2", "at2"}
    /\ pc[0] \in {"none", "reset", "to1", "at1", "begin", "at4", "next"}

TurnInv ==
    /\ Prepared => turn = 2 /\ phase = 0
    /\ pc[0] = "first" => turn = 2 /\ phase = 1
    /\ pc[0] \in InLoop \cup {"close"} => turn \in {0, 1} /\ phase = 1
    /\ turn = 1 => phase = 1
    /\ pc[0] = "work" => turn = 0
    /\ pc[1] = "work" => turn = 1
    /\ pc[0] = "close" => turn = 0

\* A thread's counters follow its turns; it has had all of them when it leaves.
CountInv ==
    \A t \in Foreground :
        /\ completed[t] = wakes[t]
        /\ pc[t] \in {"to1", "at1", "begin", "first"} => completed[t] = 0
        /\ pc[t] \in InLoop \cup {"close"} => completed[t] = n[t] /\ n[t] <= OPS
        /\ pc[t] \in {"work", "wake"} \/ (t = 1 /\ pc[t] \in InLoop) => n[t] < OPS
        /\ pc[t] = "close" => n[t] = OPS
        /\ pc[t] \in {"to2", "at2"} \cup BehindSecond => completed[t] = OPS
        /\ pc[t] \notin {"none", "reset", "done"} => of_round[t] = round[t]

\* Between thread 0's closing of the window and main's next preparation.
ClosedInv ==
    pc[0] \in {"to2", "at2", "check", "to3", "at3"} \/ pc[Main] \in {"to3", "at3", "report"}
        => turn = 0 /\ phase = 2

\* Main has reported the rounds it has behind it.
RowsInv ==
    /\ rows = round[Main] + One(pc[Main] \in {"to4", "at4", "next"})
    /\ IF pc[Main] \in {"join", "done"} THEN round[Main] = ROUNDS ELSE round[Main] < ROUNDS
    /\ code = 0 => pc[Main] = "done"

IInv == TypeInv /\ BarrierInv /\ TurnInv /\ CountInv /\ ClosedInv /\ RowsInv
-----------------------------------------------------------------------------
(* The barriers                                                            *)

\* Threads 0 and 1, perhaps the busy one, and main.
LEMMA PartyFacts ==
    /\ Main \in Parties /\ 0 \in Parties /\ 1 \in Parties /\ Workers \subseteq Parties
    /\ 0 \in Workers /\ 1 \in Workers /\ Main \notin Workers
    /\ Foreground = {0, 1} /\ Foreground \subseteq Workers
    /\ Parties = Workers \cup {Main} /\ Workers \subseteq {0, 1, Busy}
    /\ Main = 3 /\ Busy = 2
  BY PayloadAssumption DEF Main, Parties, Workers, Foreground, Busy

Places == MainPcs \cup Common \cup InLoop \cup {"begin", "first", "close", "busy"}

\* What a party has behind it, and whether it waits, depends on this alone.
SamePlace(s, t) ==
    /\ s \notin {"at1", "at2", "at3", "at4"} /\ t \notin {"at1", "at2", "at3", "at4"}
    /\ (s \in BehindFirst) = (t \in BehindFirst) /\ (s = "next") = (t = "next")
    /\ (s \in BehindSecond) = (t \in BehindSecond)
    /\ (s \in BehindThird) = (t \in BehindThird)

\* A step within the stretches between barriers does not concern them.
LEMMA StretchKeepsBarriers ==
    ASSUME BarrierInv, UNCHANGED <<round, barriers>>,
           \A p \in Parties : pc'[p] = pc[p] \/ SamePlace(pc[p], pc'[p])
    PROVE  BarrierInv'
<1> SUFFICES ASSUME NEW p \in Parties, NEW b \in Bars
             PROVE IF pc'[p] \in WaitsAt[b]
                     THEN /\ seen'[p] = Passed(p, b)'
                          /\ cycles'[b] \in {Passed(p, b)', Passed(p, b)' + 1}
                          /\ p \in arrived'[b] <=> cycles'[b] = Passed(p, b)'
                     ELSE cycles'[b] = Passed(p, b)' /\ p \notin arrived'[b]
  BY DEF BarrierInv
<1>1. Passed(p, b)' = Passed(p, b)
  BY DEF Passed, SamePlace
<1>2. b \in {"start", "finish"} /\ WaitsAt["start"] = {"at1", "at4"} /\ WaitsAt["finish"] = {"at2", "at3"}
  BY DEF Bars, WaitsAt
<1>3. pc'[p] \in WaitsAt[b] <=> pc[p] \in WaitsAt[b]
  BY <1>2 DEF SamePlace
<1>4. seen' = seen /\ cycles' = cycles /\ arrived' = arrived
  BY DEF barriers
<1> QED
  BY <1>1, <1>3, <1>4 DEF BarrierInv

\* A round later a party has passed each barrier twice.
LEMMA RoundKeepsBarriers ==
    ASSUME BarrierInv, NEW p \in Parties, NEW at \in {"reset", "done", "store", "join"},
           pc[p] = "next", pc' = [pc EXCEPT ![p] = at], round' = [round EXCEPT ![p] = @ + 1],
           pc \in [Parties -> Places], round \in [Parties -> Nat], UNCHANGED barriers
    PROVE  BarrierInv'
<1> SUFFICES ASSUME NEW q \in Parties, NEW b \in Bars
             PROVE IF pc'[q] \in WaitsAt[b]
                     THEN /\ seen'[q] = Passed(q, b)'
                          /\ cycles'[b] \in {Passed(q, b)', Passed(q, b)' + 1}
                          /\ q \in arrived'[b] <=> cycles'[b] = Passed(q, b)'
                     ELSE cycles'[b] = Passed(q, b)' /\ q \notin arrived'[b]
  BY DEF BarrierInv
<1>1. Passed(q, b)' = Passed(q, b)
  <2>1. CASE q = p
    BY <2>1 DEF Passed, BehindFirst, BehindSecond, BehindThird, InLoop, One
  <2>2. CASE q # p
    BY <2>2 DEF Passed
  <2> QED
    BY <2>1, <2>2
<1>2. b \in {"start", "finish"} /\ WaitsAt["start"] = {"at1", "at4"} /\ WaitsAt["finish"] = {"at2", "at3"}
  BY DEF Bars, WaitsAt
<1>3. pc'[q] \in WaitsAt[b] <=> pc[q] \in WaitsAt[b]
  BY <1>2
<1>4. seen' = seen /\ cycles' = cycles /\ arrived' = arrived
  BY DEF barriers
<1> QED
  BY <1>1, <1>3, <1>4 DEF BarrierInv

\* The states before, at and after each call of a barrier.
Froms == [at1 |-> "to1", at2 |-> "to2", at3 |-> "to3", at4 |-> "to4"]

LEMMA CallFacts ==
    ASSUME NEW at \in {"at1", "at2", "at3", "at4"}, NEW p \in Parties
    PROVE  /\ Barrier[at] \in Bars /\ at \in WaitsAt[Barrier[at]]
           /\ \A b \in Bars : b # Barrier[at] => at \notin WaitsAt[b]
           /\ \A b \in Bars : Froms[at] \notin WaitsAt[b] /\ After(p, at) \notin WaitsAt[b]
           /\ at \in Places /\ After(p, at) \in Places
  BY PartyFacts DEF Barrier, Bars, WaitsAt, Froms, After, Places, MainPcs, Common, InLoop

\* Waiting is no progress; what follows is one more passage of this barrier.
LEMMA PassedFacts ==
    ASSUME NEW at \in {"at1", "at2", "at3", "at4"}, NEW p \in Parties, NEW b \in Bars,
           pc \in [Parties -> Places], pc' \in [Parties -> Places],
           round \in [Parties -> Nat], round' = round
    PROVE  /\ pc[p] = Froms[at] /\ pc'[p] = at => Passed(p, b)' = Passed(p, b)
           /\ pc[p] \in {Froms[at], at} /\ pc'[p] = After(p, at) =>
                 Passed(p, b)' = Passed(p, b) + (IF b = Barrier[at] THEN 1 ELSE 0)
           /\ Passed(p, b) \in Nat
<1>1. b \in {"start", "finish"}
  BY DEF Bars
<1>2. round[p] \in Nat
  OBVIOUS
<1>3. Passed(p, b) \in Nat
  BY <1>2 DEF Passed, One
<1>4. CASE at = "at1"
  BY <1>1, <1>2, <1>3, <1>4, PartyFacts
     DEF Passed, One, Froms, After, Barrier, BehindFirst, BehindSecond, BehindThird, InLoop
<1>5. CASE at = "at2"
  BY <1>1, <1>2, <1>3, <1>5, PartyFacts
     DEF Passed, One, Froms, After, Barrier, BehindFirst, BehindSecond, BehindThird, InLoop
<1>6. CASE at = "at3"
  BY <1>1, <1>2, <1>3, <1>6, PartyFacts
     DEF Passed, One, Froms, After, Barrier, BehindFirst, BehindSecond, BehindThird, InLoop
<1>7. CASE at = "at4"
  BY <1>1, <1>2, <1>3, <1>7, PartyFacts
     DEF Passed, One, Froms, After, Barrier, BehindFirst, BehindSecond, BehindThird, InLoop
<1> QED
  BY <1>4, <1>5, <1>6, <1>7

LEMMA ArriveKeepsBarriers ==
    ASSUME TypeInv, BarrierInv, NEW p \in Parties, NEW at \in {"at1", "at2", "at3", "at4"},
           Arrive(p, Froms[at], at)
    PROVE  BarrierInv'
<1> DEFINE c == Barrier[at]
<1>0. /\ pc \in [Parties -> Places] /\ round \in [Parties -> Nat] /\ round' = round
      /\ arrived \in [Bars -> SUBSET Parties] /\ cycles \in [Bars -> Nat] /\ seen \in [Parties -> Nat]
      /\ c \in Bars /\ pc[p] = Froms[at]
  BY CallFacts DEF TypeInv, Places, Arrive
<1>1. /\ \A b \in Bars : Froms[at] \notin WaitsAt[b] /\ After(p, at) \notin WaitsAt[b]
      /\ at \in WaitsAt[c] /\ \A b \in Bars : b # c => at \notin WaitsAt[b]
      /\ at \in Places /\ After(p, at) \in Places
  BY CallFacts
<1>2. \A q \in Parties, b \in Bars : Passed(q, b) \in Nat
  BY <1>0 DEF Passed, One, Bars
<1>3. cycles[c] = Passed(p, c) /\ p \notin arrived[c]
  BY <1>0, <1>1 DEF BarrierInv
<1>4. ASSUME NEW q \in Parties, q # p, NEW b \in Bars, pc'[q] = pc[q]
      PROVE  Passed(q, b)' = Passed(q, b)
  BY <1>0, <1>4 DEF Passed
<1>5. CASE arrived[c] \cup {p} = Parties
  <2>1. /\ arrived' = [arrived EXCEPT ![c] = {}] /\ cycles' = [cycles EXCEPT ![c] = @ + 1]
        /\ pc' = [pc EXCEPT ![p] = After(p, at)] /\ seen' = seen
    BY <1>5 DEF Arrive, Goto
  <2>2. pc' \in [Parties -> Places] /\ pc'[p] = After(p, at)
    BY <1>0, <1>1, <2>1
  <2>3. ASSUME NEW q \in Parties, NEW b \in Bars
        PROVE IF pc'[q] \in WaitsAt[b]
                THEN /\ seen'[q] = Passed(q, b)'
                     /\ cycles'[b] \in {Passed(q, b)', Passed(q, b)' + 1}
                     /\ q \in arrived'[b] <=> cycles'[b] = Passed(q, b)'
                ELSE cycles'[b] = Passed(q, b)' /\ q \notin arrived'[b]
    <3>1. CASE q = p
      <4>1. Passed(p, b)' = Passed(p, b) + (IF b = c THEN 1 ELSE 0)
        BY <1>0, <2>2, PassedFacts
      <4>2. cycles[b] = Passed(p, b) /\ p \notin arrived[b]
        BY <1>0, <1>1 DEF BarrierInv
      <4> QED
        BY <1>0, <1>1, <2>1, <2>2, <3>1, <4>1, <4>2
    <3>2. CASE q # p
      <4>1. pc'[q] = pc[q] /\ Passed(q, b)' = Passed(q, b)
        BY <1>0, <1>4, <2>1, <3>2
      <4>2. CASE b = c
        <5>1. q \in arrived[c]
          BY <1>5, <3>2
        <5>2. pc[q] \in WaitsAt[c] /\ seen[q] = Passed(q, c) /\ cycles[c] = Passed(q, c)
          BY <1>0, <5>1 DEF BarrierInv
        <5>3. cycles'[c] = cycles[c] + 1 /\ arrived'[c] = {}
          BY <1>0, <2>1
        <5> QED
          BY <1>2, <2>1, <4>1, <4>2, <5>2, <5>3
      <4>3. CASE b # c
        <5>1. cycles'[b] = cycles[b] /\ arrived'[b] = arrived[b]
          BY <1>0, <2>1, <4>3
        <5> QED
          BY <2>1, <4>1, <5>1 DEF BarrierInv
      <4> QED
        BY <4>2, <4>3
    <3> QED
      BY <3>1, <3>2
  <2> QED
    BY <2>3 DEF BarrierInv
<1>6. CASE arrived[c] \cup {p} # Parties
  <2>1. /\ arrived' = [arrived EXCEPT ![c] = @ \cup {p}] /\ cycles' = cycles
        /\ pc' = [pc EXCEPT ![p] = at] /\ seen' = [seen EXCEPT ![p] = cycles[c]]
    BY <1>6 DEF Arrive, Goto
  <2>2. pc' \in [Parties -> Places] /\ pc'[p] = at
    BY <1>0, <1>1, <2>1
  <2>3. ASSUME NEW q \in Parties, NEW b \in Bars
        PROVE IF pc'[q] \in WaitsAt[b]
                THEN /\ seen'[q] = Passed(q, b)'
                     /\ cycles'[b] \in {Passed(q, b)', Passed(q, b)' + 1}
                     /\ q \in arrived'[b] <=> cycles'[b] = Passed(q, b)'
                ELSE cycles'[b] = Passed(q, b)' /\ q \notin arrived'[b]
    <3>1. CASE q = p
      <4>1. Passed(p, b)' = Passed(p, b)
        BY <1>0, <2>2, PassedFacts
      <4>2. cycles[b] = Passed(p, b) /\ p \notin arrived[b]
        BY <1>0, <1>1 DEF BarrierInv
      <4> QED
        BY <1>0, <1>1, <1>3, <2>1, <2>2, <3>1, <4>1, <4>2
    <3>2. CASE q # p
      <4>1. pc'[q] = pc[q] /\ Passed(q, b)' = Passed(q, b) /\ seen'[q] = seen[q]
        BY <1>0, <1>4, <2>1, <3>2
      <4>2. q \in arrived'[b] <=> q \in arrived[b]
        BY <1>0, <2>1, <3>2
      <4> QED
        BY <2>1, <4>1, <4>2 DEF BarrierInv
    <3> QED
      BY <3>1, <3>2
  <2> QED
    BY <2>3 DEF BarrierInv
<1> QED
  BY <1>5, <1>6

LEMMA LeaveKeepsBarriers ==
    ASSUME TypeInv, BarrierInv, NEW p \in Parties, NEW at \in {"at1", "at2", "at3", "at4"},
           Leave(p, at)
    PROVE  BarrierInv'
<1> DEFINE c == Barrier[at]
<1>0. /\ pc \in [Parties -> Places] /\ round \in [Parties -> Nat] /\ round' = round
      /\ c \in Bars /\ pc[p] = at /\ cycles[c] # seen[p]
      /\ pc' = [pc EXCEPT ![p] = After(p, at)]
      /\ arrived' = arrived /\ cycles' = cycles /\ seen' = seen
  BY CallFacts DEF TypeInv, Places, Leave, Goto, barriers
<1>1. /\ \A b \in Bars : After(p, at) \notin WaitsAt[b]
      /\ at \in WaitsAt[c] /\ \A b \in Bars : b # c => at \notin WaitsAt[b]
      /\ After(p, at) \in Places
  BY CallFacts
<1>2. pc' \in [Parties -> Places] /\ pc'[p] = After(p, at)
  BY <1>0, <1>1
<1>3. cycles[c] = Passed(p, c) + 1 /\ p \notin arrived[c] /\ Passed(p, c) \in Nat
  <2>1. Passed(p, c) \in Nat
    BY <1>0, <1>2, PassedFacts
  <2>2. seen[p] = Passed(p, c) /\ cycles[c] \in {Passed(p, c), Passed(p, c) + 1}
        /\ (p \in arrived[c] <=> cycles[c] = Passed(p, c))
    BY <1>0, <1>1 DEF BarrierInv
  <2> QED
    BY <1>0, <2>1, <2>2
<1>4. ASSUME NEW q \in Parties, NEW b \in Bars
      PROVE IF pc'[q] \in WaitsAt[b]
              THEN /\ seen'[q] = Passed(q, b)'
                   /\ cycles'[b] \in {Passed(q, b)', Passed(q, b)' + 1}
                   /\ q \in arrived'[b] <=> cycles'[b] = Passed(q, b)'
              ELSE cycles'[b] = Passed(q, b)' /\ q \notin arrived'[b]
  <2>1. CASE q = p
    <3>1. Passed(p, b)' = Passed(p, b) + (IF b = c THEN 1 ELSE 0) /\ Passed(p, b) \in Nat
      BY <1>0, <1>2, PassedFacts
    <3>2. b # c => cycles[b] = Passed(p, b) /\ p \notin arrived[b]
      BY <1>0, <1>1 DEF BarrierInv
    <3> QED
      BY <1>0, <1>1, <1>2, <1>3, <2>1, <3>1, <3>2
  <2>2. CASE q # p
    <3>1. pc'[q] = pc[q]
      BY <1>0, <2>2
    <3>2. Passed(q, b)' = Passed(q, b)
      BY <1>0, <3>1 DEF Passed
    <3> QED
      BY <1>0, <3>1, <3>2 DEF BarrierInv
  <2> QED
    BY <2>1, <2>2
<1> QED
  BY <1>4 DEF BarrierInv
-----------------------------------------------------------------------------
(* Who can be where at the same time                                       *)

\* A worker in its window has main between the first call and the second.
LEMMA InWindow ==
    ASSUME TypeInv, BarrierInv, NEW t \in Workers,
           pc[t] \in InLoop \cup {"begin", "first", "close", "busy"}
    PROVE  pc[Main] \in {"at1", "to2", "at2"} /\ round[Main] = round[t]
<1>1. "start" \in Bars /\ "finish" \in Bars /\ t \in Parties /\ Main \in Parties
      /\ round[t] \in Nat /\ round[Main] \in Nat /\ pc[Main] \in MainPcs
  BY PartyFacts DEF Bars, TypeInv
<1>2. cycles["start"] = 2 * round[t] + 1 /\ cycles["finish"] = 2 * round[t]
  <2>1. /\ pc[t] \notin WaitsAt["start"] /\ pc[t] \notin WaitsAt["finish"]
        /\ Passed(t, "start") = 2 * round[t] + 1 /\ Passed(t, "finish") = 2 * round[t]
    BY <1>1 DEF WaitsAt, InLoop, Passed, One, BehindFirst, BehindSecond, BehindThird
  <2> QED
    BY <1>1, <2>1 DEF BarrierInv
<1>3. /\ cycles["start"] \in {Passed(Main, "start"), Passed(Main, "start") + 1}
      /\ cycles["finish"] \in {Passed(Main, "finish"), Passed(Main, "finish") + 1}
      /\ pc[Main] \notin {"at1", "at4"} => cycles["start"] = Passed(Main, "start")
      /\ pc[Main] \notin {"at2", "at3"} => cycles["finish"] = Passed(Main, "finish")
  BY <1>1 DEF BarrierInv, WaitsAt
<1> QED
  BY <1>1, <1>2, <1>3
     DEF Passed, One, BehindFirst, BehindSecond, BehindThird, InLoop, MainPcs

\* What the barriers say of a worker, whatever main does.
LEMMA WorkerCycles ==
    ASSUME TypeInv, BarrierInv, NEW t \in Workers
    PROVE  /\ t \in Parties /\ round[t] \in Nat /\ pc[t] \in Common \cup Window[t]
           /\ cycles["start"] \in {Passed(t, "start"), Passed(t, "start") + 1}
           /\ cycles["finish"] \in {Passed(t, "finish"), Passed(t, "finish") + 1}
           /\ pc[t] \notin {"at1", "at4"} => cycles["start"] = Passed(t, "start")
           /\ pc[t] \notin {"at2", "at3"} => cycles["finish"] = Passed(t, "finish")
<1>1. t \in Parties /\ "start" \in Bars /\ "finish" \in Bars
  BY PartyFacts DEF Bars
<1>2. WaitsAt["start"] = {"at1", "at4"} /\ WaitsAt["finish"] = {"at2", "at3"}
  BY DEF WaitsAt
<1> QED
  BY <1>1, <1>2 DEF BarrierInv, TypeInv

\* And of main.
LEMMA MainCycles ==
    ASSUME TypeInv, BarrierInv
    PROVE  /\ Main \in Parties /\ round[Main] \in Nat /\ pc[Main] \in MainPcs
           /\ cycles["start"] \in {Passed(Main, "start"), Passed(Main, "start") + 1}
           /\ cycles["finish"] \in {Passed(Main, "finish"), Passed(Main, "finish") + 1}
           /\ pc[Main] \notin {"at1", "at4"} => cycles["start"] = Passed(Main, "start")
           /\ pc[Main] \notin {"at2", "at3"} => cycles["finish"] = Passed(Main, "finish")
<1>1. Main \in Parties /\ "start" \in Bars /\ "finish" \in Bars
  BY PartyFacts DEF Bars
<1>2. WaitsAt["start"] = {"at1", "at4"} /\ WaitsAt["finish"] = {"at2", "at3"}
  BY DEF WaitsAt
<1> QED
  BY <1>1, <1>2 DEF BarrierInv, TypeInv

\* What a party has behind it, read off from where it stands.
LEMMA PassedValues ==
    ASSUME TypeInv, NEW p \in Parties
    PROVE  LET s == Passed(p, "start")  f == Passed(p, "finish")  r == round[p] IN
           /\ r \in Nat
           /\ pc[p] \in {"none", "create", "store", "reset", "to1", "at1", "done", "join"}
                 => s = 2 * r /\ f = 2 * r
           /\ pc[p] \in {"to2", "at2"} => s = 2 * r + 1 /\ f = 2 * r
           /\ pc[p] \in {"check", "to3", "at3"} => s = 2 * r + 1 /\ f = 2 * r + 1
           /\ pc[p] \in {"report", "to4", "at4"} => s = 2 * r + 1 /\ f = 2 * r + 2
           /\ pc[p] = "next" => s = 2 * r + 2 /\ f = 2 * r + 2
<1>1. round[p] \in Nat
  BY DEF TypeInv
<1> QED
  BY <1>1 DEF Passed, One, BehindFirst, BehindSecond, BehindThird, InLoop

\* Whoever is neither in a common state nor at a call is in its window.
LEMMA WindowSets ==
    \A t \in Workers : Window[t] \subseteq InLoop \cup {"begin", "first", "close", "busy"}
  BY PartyFacts DEF Window, InLoop, Parties

\* A thread on its way to the fourth call: main is past its preparation.
LEMMA AtFour ==
    ASSUME TypeInv, BarrierInv, NEW t \in Workers, pc[t] = "to4"
    PROVE  pc[Main] \notin {"to1", "at1", "to2", "at2"}
  BY WorkerCycles, MainCycles
     DEF Passed, One, BehindFirst, BehindSecond, BehindThird, InLoop, MainPcs

\* While main prepares a round nobody is in a window.
LEMMA AtStore ==
    ASSUME TypeInv, BarrierInv, NEW t \in Workers, pc[Main] = "store"
    PROVE  pc[t] \in {"none", "reset", "to1", "at1", "at4", "next", "done"}
<1>1. pc[t] \in Common
  BY InWindow, WorkerCycles, WindowSets
<1>2. cycles["start"] = 2 * round[Main] /\ cycles["finish"] = 2 * round[Main]
  BY MainCycles DEF Passed, One, BehindFirst, BehindSecond, BehindThird, InLoop
<1> QED
  BY <1>1, <1>2, WorkerCycles, MainCycles
     DEF Passed, One, BehindFirst, BehindSecond, BehindThird, InLoop, Common

\* While main reports a round everybody has left its window.
LEMMA AtReport ==
    ASSUME TypeInv, BarrierInv, NEW t \in Workers, pc[Main] = "report"
    PROVE  pc[t] \in {"at3", "to4", "at4"} /\ round[t] = round[Main]
<1>1. pc[t] \in Common
  BY InWindow, WorkerCycles, WindowSets
<1>2. cycles["start"] = 2 * round[Main] + 1 /\ cycles["finish"] = 2 * round[Main] + 2
  BY MainCycles DEF Passed, One, BehindFirst, BehindSecond, BehindThird, InLoop
<1>3. /\ round[t] \in Nat /\ round[Main] \in Nat /\ t \in Parties
      /\ cycles["start"] \in {Passed(t, "start"), Passed(t, "start") + 1}
      /\ cycles["finish"] \in {Passed(t, "finish"), Passed(t, "finish") + 1}
      /\ pc[t] \notin {"at1", "at4"} => cycles["start"] = Passed(t, "start")
      /\ pc[t] \notin {"at2", "at3"} => cycles["finish"] = Passed(t, "finish")
  BY WorkerCycles, MainCycles
<1>4. CASE pc[t] \in {"none", "reset", "to1", "next", "done", "to2", "check", "to3"}
  BY <1>2, <1>3, <1>4, PassedValues
<1>5. CASE pc[t] \in {"to4", "at4"}
  <2>1. Passed(t, "finish") = 2 * round[t] + 2
    BY <1>3, <1>5, PassedValues
  <2>2. 2 * round[t] + 2 = 2 * round[Main] + 2
    BY <1>2, <1>3, <1>5, <2>1
  <2>3. \A i, j \in Nat : 2 * i + 2 = 2 * j + 2 => i = j
    OBVIOUS
  <2>4. round[t] = round[Main]
    BY <1>3, <2>2, <2>3
  <2> QED
    BY <1>5, <2>4
<1>6. CASE pc[t] \in {"at1", "at2", "at3"}
  BY <1>2, <1>3, <1>6, PassedValues
<1> QED
  BY <1>1, <1>4, <1>5, <1>6 DEF Common

\* When main leaves the second call, everybody has come to it.
LEMMA SecondOpen ==
    ASSUME TypeInv, BarrierInv, NEW t \in Workers,
           \/ pc[Main] = "at2" /\ cycles["finish"] # seen[Main]
           \/ pc[Main] = "to2" /\ arrived["finish"] \cup {Main} = Parties
    PROVE  pc[t] \in {"at2", "check", "to3", "at3"}
<1>0. "finish" \in Bars /\ t \in Parties /\ Main \in Parties
  BY PartyFacts DEF Bars
<1>1. CASE pc[Main] = "at2" /\ cycles["finish"] # seen[Main]
  <2>1. pc[t] \in Common
    <3>1. ASSUME pc[t] \in InLoop \cup {"begin", "first", "close", "busy"} PROVE FALSE
      <4>1. round[Main] = round[t] /\ cycles["finish"] = Passed(t, "finish")
        BY <3>1, InWindow, WorkerCycles DEF InLoop
      <4>2. Passed(t, "finish") = 2 * round[t] /\ Passed(Main, "finish") = 2 * round[Main]
        BY <1>1, <3>1, WorkerCycles, MainCycles DEF InLoop, Passed, One, BehindSecond, BehindThird
      <4>3. seen[Main] = Passed(Main, "finish")
        BY <1>0, <1>1 DEF BarrierInv, WaitsAt
      <4> QED
        BY <1>1, <4>1, <4>2, <4>3
    <3> QED
      BY <3>1, WorkerCycles, WindowSets
  <2>2. cycles["finish"] = 2 * round[Main] + 1 /\ cycles["start"] = 2 * round[Main] + 1
    <3>1. seen[Main] = Passed(Main, "finish") /\ cycles["start"] = Passed(Main, "start")
          /\ cycles["finish"] \in {Passed(Main, "finish"), Passed(Main, "finish") + 1}
      BY <1>0, <1>1, MainCycles DEF BarrierInv, WaitsAt
    <3>2. Passed(Main, "finish") = 2 * round[Main] /\ Passed(Main, "start") = 2 * round[Main] + 1
      BY <1>1, MainCycles DEF Passed, One, BehindFirst, BehindSecond, BehindThird
    <3> QED
      BY <1>1, <3>1, <3>2, MainCycles
  <2> QED
    BY <2>1, <2>2, WorkerCycles, MainCycles
       DEF Passed, One, BehindFirst, BehindSecond, BehindThird, InLoop, Common
<1>2. CASE pc[Main] = "to2" /\ arrived["finish"] \cup {Main} = Parties
  <2>1. t \in arrived["finish"]
    BY <1>2, PartyFacts
  <2>2. pc[t] \in {"at2", "at3"}
    BY <1>0, <2>1 DEF BarrierInv, WaitsAt
  <2> QED
    BY <2>2
<1> QED
  BY <1>1, <1>2

-----------------------------------------------------------------------------
(* Calls of barrier                                                        *)

Call(p, at) == Arrive(p, Froms[at], at) \/ Leave(p, at)
Data == <<round, turn, phase, value, n, completed, wakes, of_round, rows, code>>

\* A call moves one party, and nothing but the barriers with it.
LEMMA CallMoves ==
    ASSUME TypeInv, NEW p \in Parties, NEW at \in {"at1", "at2", "at3", "at4"}, Call(p, at)
    PROVE  /\ pc[p] \in {Froms[at], at} /\ pc'[p] \in {at, After(p, at)}
           /\ \A q \in Parties : q # p => pc'[q] = pc[q]
           /\ pc' \in [Parties -> Places] /\ UNCHANGED Data
<1>1. pc \in [Parties -> Places] /\ at \in Places /\ After(p, at) \in Places
  BY CallFacts DEF TypeInv, Places
<1>2. CASE Arrive(p, Froms[at], at)
  BY <1>1, <1>2 DEF Arrive, Goto, Data, stats
<1>3. CASE Leave(p, at)
  BY <1>1, <1>3 DEF Leave, Goto, Data, stats
<1> QED
  BY <1>2, <1>3 DEF Call

\* Each part of the invariant in turn.
LEMMA CallKeepsType ==
    ASSUME TypeInv, NEW p \in Parties, NEW at \in {"at1", "at2", "at3", "at4"}, Call(p, at)
    PROVE  TypeInv'
<1>1. UNCHANGED Data /\ pc' \in [Parties -> Places]
  BY CallMoves
<1>2. /\ at \in MainPcs /\ at \in Common
      /\ p = Main => After(p, at) \in MainPcs
      /\ p \in Workers => After(p, at) \in Common \cup Window[p]
  BY PartyFacts DEF MainPcs, Common, Window, After
<1>3. pc'[Main] \in MainPcs
  BY <1>2, CallMoves, PartyFacts DEF TypeInv
<1>4. \A q \in Workers : pc'[q] \in Common \cup Window[q]
  BY <1>2, CallMoves, PartyFacts DEF TypeInv
<1>5. /\ arrived' \in [Bars -> SUBSET Parties]
      /\ cycles' \in [Bars -> Nat] /\ seen' \in [Parties -> Nat]
  <2>1. Barrier[at] \in Bars
    BY CallFacts
  <2>2. CASE Arrive(p, Froms[at], at)
    BY <2>1, <2>2 DEF Arrive, TypeInv
  <2>3. CASE Leave(p, at)
    BY <2>3 DEF Leave, TypeInv, barriers
  <2> QED
    BY <2>2, <2>3 DEF Call
<1> QED
  BY <1>1, <1>3, <1>4, <1>5 DEF TypeInv, Data, Places

LEMMA CallKeepsBarriers ==
    ASSUME TypeInv, BarrierInv, NEW p \in Parties,
           NEW at \in {"at1", "at2", "at3", "at4"}, Call(p, at)
    PROVE  BarrierInv'
  BY ArriveKeepsBarriers, LeaveKeepsBarriers DEF Call

\* Where a call leads, read off for each party.
LEMMA CallPlaces ==
    ASSUME TypeInv, NEW p \in Parties, NEW at \in {"at1", "at2", "at3", "at4"}, Call(p, at)
    PROVE  \/ pc[p] \in {"to1", "at1"} /\ pc'[p] \in {"at1"} \cup (IF p = Main THEN {"to2"}
                                                 ELSE IF p = Busy THEN {"busy"} ELSE {"begin"})
           \/ pc[p] \in {"to2", "at2"} /\ pc'[p] \in {"at2", IF p = Main THEN "to3" ELSE "check"}
           \/ pc[p] \in {"to3", "at3"} /\ pc'[p] \in {"at3", IF p = Main THEN "report" ELSE "to4"}
           \/ pc[p] \in {"to4", "at4"} /\ pc'[p] \in {"at4", "next"}
  BY CallMoves DEF Froms, After

\* Main gets past the end of the window only when everybody else has left it.
LEMMA MainPastSecond ==
    ASSUME TypeInv, BarrierInv, NEW t \in Workers,
           NEW at \in {"at1", "at2", "at3", "at4"}, Call(Main, at),
           pc[Main] \in {"to2", "at2"}, pc'[Main] = "to3"
    PROVE  pc[t] \in {"at2", "check", "to3", "at3"}
<1>1. at = "at2"
  BY CallMoves, PartyFacts DEF Froms
<1>2. \/ pc[Main] = "at2" /\ cycles["finish"] # seen[Main]
      \/ pc[Main] = "to2" /\ arrived["finish"] \cup {Main} = Parties
  <2>1. pc \in [Parties -> Places] /\ Main \in Parties
    BY PartyFacts DEF TypeInv, Places
  <2>2. CASE Arrive(Main, "to2", "at2")
    BY <2>1, <2>2 DEF Arrive, Goto, Barrier
  <2>3. CASE Leave(Main, "at2")
    BY <2>3 DEF Leave, Barrier
  <2> QED
    BY <1>1, <2>2, <2>3 DEF Call, Froms
<1> QED
  BY <1>2, SecondOpen

LEMMA CallKeepsTurn ==
    ASSUME TypeInv, BarrierInv, TurnInv, NEW p \in Parties,
           NEW at \in {"at1", "at2", "at3", "at4"}, Call(p, at)
    PROVE  TurnInv'
<1>1. turn' = turn /\ phase' = phase
  BY CallMoves DEF Data
<1>2. Prepared' => Prepared
  <2>1. CASE p = Main
    BY <2>1, CallMoves, CallPlaces, PartyFacts DEF Prepared
  <2>2. CASE p = 0
    <3>1. pc[0] = "to4" => pc[Main] \notin {"to1", "at1", "to2", "at2"}
      BY AtFour, PartyFacts
    <3> QED
      BY <2>2, <3>1, CallMoves, CallPlaces, PartyFacts DEF Prepared
  <2>3. CASE p \notin {0, Main}
    BY <2>3, CallMoves, PartyFacts DEF Prepared
  <2> QED
    BY <2>1, <2>2, <2>3
<1>3. ASSUME NEW t \in Foreground, pc'[t] \in InLoop \cup {"first", "close"} PROVE pc[t] = pc'[t]
  <2>1. CASE t = p
    BY <1>3, <2>1, CallPlaces, PartyFacts DEF InLoop
  <2>2. CASE t # p
    BY <2>2, CallMoves, PartyFacts
  <2> QED
    BY <2>1, <2>2
<1> QED
  BY <1>1, <1>2, <1>3, PartyFacts DEF TurnInv, InLoop

LEMMA CallKeepsClosed ==
    ASSUME TypeInv, BarrierInv, ClosedInv, NEW p \in Parties,
           NEW at \in {"at1", "at2", "at3", "at4"}, Call(p, at)
    PROVE  ClosedInv'
<1>1. turn' = turn /\ phase' = phase
  BY CallMoves DEF Data
<1>2. CASE p = Main
  <2>1. pc'[0] = pc[0]
    BY <1>2, CallMoves, PartyFacts
  <2>2. pc'[Main] \in {"to3", "at3", "report"} => \/ pc[Main] \in {"to3", "at3", "report"}
                                                  \/ pc[0] \in {"at2", "check", "to3", "at3"}
    BY <1>2, CallPlaces, MainPastSecond, PartyFacts
  <2> QED
    BY <1>1, <2>1, <2>2 DEF ClosedInv
<1>3. CASE p = 0
  BY <1>1, <1>3, CallMoves, CallPlaces, PartyFacts DEF ClosedInv
<1>4. CASE p \notin {0, Main}
  BY <1>1, <1>4, CallMoves, PartyFacts DEF ClosedInv
<1> QED
  BY <1>2, <1>3, <1>4

LEMMA CallKeepsCount ==
    ASSUME TypeInv, CountInv, NEW p \in Parties,
           NEW at \in {"at1", "at2", "at3", "at4"}, Call(p, at)
    PROVE  CountInv'
<1>1. UNCHANGED <<completed, wakes, n, of_round, round>>
  BY CallMoves DEF Data
<1>2. ASSUME NEW t \in Foreground, t # p PROVE pc'[t] = pc[t]
  BY <1>2, CallMoves, PartyFacts
<1>3. ASSUME p \in Foreground
      PROVE  \/ pc[p] \in {"to1", "at1"} /\ pc'[p] \in {"at1", "begin"}
             \/ pc[p] \in {"to2", "at2"} \cup BehindSecond /\ pc'[p] \in {"at2"} \cup BehindSecond
  BY <1>3, CallPlaces, PartyFacts DEF BehindSecond, BehindThird
<1> QED
  BY <1>1, <1>2, <1>3 DEF CountInv, InLoop, BehindSecond, BehindThird

LEMMA CallKeepsRows ==
    ASSUME TypeInv, RowsInv, NEW p \in Parties,
           NEW at \in {"at1", "at2", "at3", "at4"}, Call(p, at)
    PROVE  RowsInv'
<1>1. UNCHANGED <<rows, round, code>>
  BY CallMoves DEF Data
<1>2. CASE p = Main
  BY <1>1, <1>2, CallPlaces DEF RowsInv, One
<1>3. CASE p # Main
  BY <1>1, <1>3, CallMoves, PartyFacts DEF RowsInv, One
<1> QED
  BY <1>2, <1>3

LEMMA CallKeepsInv ==
    ASSUME IInv, NEW p \in Parties, NEW at \in {"at1", "at2", "at3", "at4"}, Call(p, at)
    PROVE  IInv'
  BY CallKeepsType, CallKeepsBarriers, CallKeepsTurn, CallKeepsCount, CallKeepsClosed,
     CallKeepsRows DEF IInv

-----------------------------------------------------------------------------
(* The steps between the calls                                             *)

\* One party moves.
LEMMA OneMoves ==
    ASSUME TypeInv, NEW p \in Parties, NEW at \in Places, pc' = [pc EXCEPT ![p] = at],
           p = Main => at \in MainPcs, p \in Workers => at \in Common \cup Window[p]
    PROVE  /\ pc' \in [Parties -> Places] /\ pc'[Main] \in MainPcs
           /\ \A w \in Workers : pc'[w] \in Common \cup Window[w]
           /\ pc'[p] = at /\ \A q \in Parties : q # p => pc'[q] = pc[q]
           /\ pc \in [Parties -> Places]
  BY PartyFacts DEF TypeInv, Places

\* The steps that pass no barrier.
LEMMA Alike ==
    /\ SamePlace("reset", "to1") /\ SamePlace("none", "reset") /\ SamePlace("check", "to3")
    /\ SamePlace("begin", "first") /\ SamePlace("begin", "load") /\ SamePlace("first", "load")
    /\ \A a, b \in InLoop : SamePlace(a, b)
    /\ \A a \in InLoop \cup {"close", "busy"} : SamePlace(a, "to2") /\ SamePlace("load", "close")
    /\ SamePlace("create", "create") /\ SamePlace("create", "store") /\ SamePlace("store", "to1")
    /\ SamePlace("report", "to4") /\ SamePlace("join", "done")
  BY DEF SamePlace, BehindFirst, BehindSecond, BehindThird, InLoop

\* The windows of the three kinds of worker.
LEMMA Windows ==
    /\ Window[0] = {"begin", "first", "close"} \cup InLoop
    /\ Window[1] = {"begin"} \cup InLoop
    /\ Busy \in Workers => Window[Busy] = {"busy"}
  BY PartyFacts DEF Window

\* One lemma per action, and in it one step per part of the invariant.
LEMMA WorkerRoundKeepsInv ==
    ASSUME IInv, NEW p \in Workers, WorkerRound(p)
    PROVE  IInv'
<1>1. /\ pc[p] = "reset" /\ pc' = [pc EXCEPT ![p] = "to1"]
      /\ UNCHANGED <<round, turn, phase, value, n, barriers, rows, code>>
  BY DEF WorkerRound, Goto
<1>2. /\ pc' \in [Parties -> Places] /\ pc'[Main] \in MainPcs
      /\ \A w \in Workers : pc'[w] \in Common \cup Window[w]
      /\ pc'[p] = "to1" /\ \A q \in Parties : q # p => pc'[q] = pc[q]
      /\ pc \in [Parties -> Places]
  BY <1>1, OneMoves, PartyFacts DEF IInv, Places, Common
<1>3. /\ completed' \in [Foreground -> Nat] /\ wakes' \in [Foreground -> Nat]
      /\ of_round' \in [Foreground -> Int]
      /\ \A t \in Foreground : t # p => /\ completed'[t] = completed[t] /\ wakes'[t] = wakes[t]
                                        /\ of_round'[t] = of_round[t]
      /\ p \in Foreground => /\ completed'[p] = 0 /\ wakes'[p] = 0 /\ of_round'[p] = round[p]
  <2>1. CASE p \in Foreground
    BY <2>1, PartyFacts DEF WorkerRound, ResetStats, IInv, TypeInv
  <2>2. CASE p \notin Foreground
    BY <2>2 DEF WorkerRound, stats, IInv, TypeInv
  <2> QED
    BY <2>1, <2>2
<1>4. TypeInv'
  BY <1>1, <1>2, <1>3 DEF IInv, TypeInv, barriers, Places
<1>5. BarrierInv'
  <2>1. UNCHANGED <<round, barriers>> /\ BarrierInv
    BY <1>1 DEF IInv
  <2>2. \A q \in Parties : pc'[q] = pc[q] \/ SamePlace(pc[q], pc'[q])
    BY <1>1, <1>2, Alike, PartyFacts
  <2> QED
    BY <2>1, <2>2, StretchKeepsBarriers
<1>6. TurnInv'
  BY <1>1, <1>2, PartyFacts DEF IInv, TurnInv, Prepared, InLoop
<1>7. CountInv'
  BY <1>1, <1>2, <1>3, PartyFacts DEF IInv, CountInv, InLoop, BehindSecond, BehindThird
<1>8. ClosedInv'
  BY <1>1, <1>2, PartyFacts DEF IInv, ClosedInv
<1>9. RowsInv'
  BY <1>1, <1>2, PartyFacts DEF IInv, RowsInv, One
<1> QED
  BY <1>4, <1>5, <1>6, <1>7, <1>8, <1>9 DEF IInv

LEMMA OpenKeepsInv ==
    ASSUME IInv, Open
    PROVE  IInv'
<1>1. /\ pc[0] = "begin" /\ pc' = [pc EXCEPT ![0] = "first"] /\ phase' = 1
      /\ UNCHANGED <<round, turn, value, n, completed, wakes, of_round, barriers, rows, code>>
  BY DEF Open, Goto, stats
<1>2. /\ pc' \in [Parties -> Places] /\ pc'[Main] \in MainPcs
      /\ \A w \in Workers : pc'[w] \in Common \cup Window[w]
      /\ pc'[0] = "first" /\ \A q \in Parties : q # 0 => pc'[q] = pc[q]
      /\ pc \in [Parties -> Places]
  BY <1>1, OneMoves, PartyFacts, Windows DEF IInv, Places
<1>3. pc[Main] \in {"at1", "to2", "at2"}
  BY <1>1, InWindow, PartyFacts DEF IInv
<1>4. TypeInv'
  BY <1>1, <1>2 DEF IInv, TypeInv, barriers, Places
<1>5. BarrierInv'
  <2>1. UNCHANGED <<round, barriers>> /\ BarrierInv
    BY <1>1 DEF IInv
  <2>2. \A q \in Parties : pc'[q] = pc[q] \/ SamePlace(pc[q], pc'[q])
    BY <1>1, <1>2, Alike, PartyFacts
  <2> QED
    BY <2>1, <2>2, StretchKeepsBarriers
<1>6. TurnInv'
  BY <1>1, <1>2, <1>3, PartyFacts DEF IInv, TurnInv, Prepared, InLoop
<1>7. CountInv'
  BY <1>1, <1>2, PartyFacts DEF IInv, CountInv, InLoop, BehindSecond, BehindThird
<1>8. ClosedInv'
  BY <1>1, <1>2, <1>3, PartyFacts DEF IInv, ClosedInv
<1>9. RowsInv'
  BY <1>1, <1>2, PartyFacts DEF IInv, RowsInv, One
<1> QED
  BY <1>4, <1>5, <1>6, <1>7, <1>8, <1>9 DEF IInv

LEMMA FirstTurnKeepsInv ==
    ASSUME IInv, FirstTurn
    PROVE  IInv'
<1>1. /\ pc[0] = "first" /\ pc' = [pc EXCEPT ![0] = "load"] /\ turn' = 0 /\ n' = [n EXCEPT ![0] = 0]
      /\ UNCHANGED <<round, phase, value, completed, wakes, of_round, barriers, rows, code>>
  BY DEF FirstTurn, Goto, stats
<1>2. /\ pc' \in [Parties -> Places] /\ pc'[Main] \in MainPcs
      /\ \A w \in Workers : pc'[w] \in Common \cup Window[w]
      /\ pc'[0] = "load" /\ \A q \in Parties : q # 0 => pc'[q] = pc[q]
      /\ pc \in [Parties -> Places]
  BY <1>1, OneMoves, PartyFacts, Windows DEF IInv, Places, InLoop
<1>3. pc[Main] \in {"at1", "to2", "at2"}
  BY <1>1, InWindow, PartyFacts DEF IInv
<1>4. TypeInv'
  BY <1>1, <1>2 DEF IInv, TypeInv, barriers, Places
<1>5. BarrierInv'
  <2>1. UNCHANGED <<round, barriers>> /\ BarrierInv
    BY <1>1 DEF IInv
  <2>2. \A q \in Parties : pc'[q] = pc[q] \/ SamePlace(pc[q], pc'[q])
    BY <1>1, <1>2, Alike, PartyFacts
  <2> QED
    BY <2>1, <2>2, StretchKeepsBarriers
<1>6. TurnInv'
  BY <1>1, <1>2, PartyFacts DEF IInv, TurnInv, Prepared, InLoop
<1>7. CountInv'
  <2>1. n' \in [Foreground -> Nat] /\ n'[0] = 0 /\ n'[1] = n[1] /\ OPS \in Nat /\ 0 <= OPS
    BY <1>1, PartyFacts, PayloadAssumption DEF IInv, TypeInv
  <2> QED
    BY <1>1, <1>2, <2>1, PartyFacts DEF IInv, CountInv, InLoop, BehindSecond, BehindThird
<1>8. ClosedInv'
  BY <1>1, <1>2, <1>3, PartyFacts DEF IInv, ClosedInv
<1>9. RowsInv'
  BY <1>1, <1>2, PartyFacts DEF IInv, RowsInv, One
<1> QED
  BY <1>4, <1>5, <1>6, <1>7, <1>8, <1>9 DEF IInv

LEMMA JoinInKeepsInv ==
    ASSUME IInv, JoinIn
    PROVE  IInv'
<1>1. /\ pc[1] = "begin" /\ pc' = [pc EXCEPT ![1] = "load"] /\ n' = [n EXCEPT ![1] = 0]
      /\ UNCHANGED <<round, turn, phase, value, completed, wakes, of_round, barriers, rows, code>>
  BY DEF JoinIn, Goto, stats
<1>2. /\ pc' \in [Parties -> Places] /\ pc'[Main] \in MainPcs
      /\ \A w \in Workers : pc'[w] \in Common \cup Window[w]
      /\ pc'[1] = "load" /\ \A q \in Parties : q # 1 => pc'[q] = pc[q]
      /\ pc \in [Parties -> Places]
  BY <1>1, OneMoves, PartyFacts, Windows DEF IInv, Places, InLoop
<1>4. TypeInv'
  BY <1>1, <1>2 DEF IInv, TypeInv, barriers, Places
<1>5. BarrierInv'
  <2>1. UNCHANGED <<round, barriers>> /\ BarrierInv
    BY <1>1 DEF IInv
  <2>2. \A q \in Parties : pc'[q] = pc[q] \/ SamePlace(pc[q], pc'[q])
    BY <1>1, <1>2, Alike, PartyFacts
  <2> QED
    BY <2>1, <2>2, StretchKeepsBarriers
<1>6. TurnInv'
  BY <1>1, <1>2, PartyFacts DEF IInv, TurnInv, Prepared, InLoop
<1>7. CountInv'
  <2>1. n' \in [Foreground -> Nat] /\ n'[1] = 0 /\ n'[0] = n[0] /\ OPS \in Nat /\ 0 < OPS
    BY <1>1, PartyFacts, PayloadAssumption DEF IInv, TypeInv
  <2> QED
    BY <1>1, <1>2, <2>1, PartyFacts DEF IInv, CountInv, InLoop, BehindSecond, BehindThird
<1>8. ClosedInv'
  BY <1>1, <1>2, PartyFacts DEF IInv, ClosedInv
<1>9. RowsInv'
  BY <1>1, <1>2, PartyFacts DEF IInv, RowsInv, One
<1> QED
  BY <1>4, <1>5, <1>6, <1>7, <1>8, <1>9 DEF IInv

LEMMA LoadTurnKeepsInv ==
    ASSUME IInv, NEW t \in Foreground, LoadTurn(t)
    PROVE  IInv'
<1>1. /\ pc[t] = "load" /\ value' = [value EXCEPT ![t] = turn]
      /\ pc' = [pc EXCEPT ![t] = pc'[t]]
      /\ UNCHANGED <<round, turn, phase, n, completed, wakes, of_round, barriers, rows, code>>
  BY PartyFacts DEF LoadTurn, Goto, stats, IInv, TypeInv
<1>a. \/ turn # t /\ pc'[t] = "wait"
      \/ turn = t /\ n[t] < OPS /\ pc'[t] = "work"
      \/ turn = t /\ ~(n[t] < OPS) /\ t = 0 /\ pc'[t] = "close"
  BY <1>1, PartyFacts DEF LoadTurn, Goto, IInv, TypeInv, CountInv, InLoop
<1>b. pc'[t] \in Places /\ pc'[t] \in Common \cup Window[t]
  BY <1>a, PartyFacts, Windows DEF Places, InLoop
<1>2. /\ pc' \in [Parties -> Places] /\ pc'[Main] \in MainPcs
      /\ \A w \in Workers : pc'[w] \in Common \cup Window[w]
      /\ \A q \in Parties : q # t => pc'[q] = pc[q]
      /\ pc \in [Parties -> Places]
  BY <1>1, <1>b, OneMoves, PartyFacts DEF IInv
<1>4. TypeInv'
  BY <1>1, <1>2 DEF IInv, TypeInv, barriers, Places
<1>5. BarrierInv'
  <2>1. UNCHANGED <<round, barriers>> /\ BarrierInv
    BY <1>1 DEF IInv
  <2>2. \A q \in Parties : pc'[q] = pc[q] \/ SamePlace(pc[q], pc'[q])
    <3>1. SamePlace("load", pc'[t])
      BY <1>a, Alike DEF InLoop
    <3> QED
      BY <1>1, <1>2, <3>1
  <2> QED
    BY <2>1, <2>2, StretchKeepsBarriers
<1>6. TurnInv'
  BY <1>1, <1>2, <1>a, PartyFacts DEF IInv, TurnInv, Prepared, InLoop
<1>7. CountInv'
  <2>1. n[t] \in Nat /\ OPS \in Nat /\ n[t] <= OPS
    BY <1>1, PartyFacts, PayloadAssumption DEF IInv, TypeInv, CountInv, InLoop
  <2>2. pc'[t] = "close" => n[t] = OPS
    BY <1>a, <2>1
  <2>3. t = 1 => n[t] < OPS
    BY <1>1 DEF IInv, CountInv, InLoop
  <2> QED
    BY <1>1, <1>2, <1>a, <2>1, <2>2, <2>3, PartyFacts DEF IInv, CountInv, InLoop, BehindSecond, BehindThird
<1>8. ClosedInv'
  BY <1>1, <1>2, <1>a, PartyFacts DEF IInv, ClosedInv
<1>9. RowsInv'
  BY <1>1, <1>2, PartyFacts DEF IInv, RowsInv, One
<1> QED
  BY <1>4, <1>5, <1>6, <1>7, <1>8, <1>9 DEF IInv

\* wait_turn's system call, and its early return.
LEMMA WaitingKeepsInv ==
    ASSUME IInv, NEW t \in Foreground, FutexWait(t) \/ Interrupted(t)
    PROVE  IInv'
<1>1. /\ pc[t] \in {"wait", "asleep"} /\ pc'[t] \in {"asleep", "load"}
      /\ pc' = [pc EXCEPT ![t] = pc'[t]]
      /\ UNCHANGED <<round, turn, phase, value, n, completed, wakes, of_round, barriers, rows, code>>
  BY PartyFacts DEF FutexWait, Interrupted, Goto, stats, IInv, TypeInv
<1>2. /\ pc' \in [Parties -> Places] /\ pc'[Main] \in MainPcs
      /\ \A w \in Workers : pc'[w] \in Common \cup Window[w]
      /\ \A q \in Parties : q # t => pc'[q] = pc[q]
      /\ pc \in [Parties -> Places]
  <2>1. pc'[t] \in Places /\ pc'[t] \in Common \cup Window[t]
    BY <1>1, PartyFacts, Windows DEF Places, InLoop
  <2> QED
    BY <1>1, <2>1, OneMoves, PartyFacts DEF IInv
<1>4. TypeInv'
  BY <1>1, <1>2 DEF IInv, TypeInv, barriers, Places
<1>5. BarrierInv'
  <2>1. UNCHANGED <<round, barriers>> /\ BarrierInv
    BY <1>1 DEF IInv
  <2>2. \A q \in Parties : pc'[q] = pc[q] \/ SamePlace(pc[q], pc'[q])
    BY <1>1, <1>2, Alike, PartyFacts DEF InLoop
  <2> QED
    BY <2>1, <2>2, StretchKeepsBarriers
<1>6. TurnInv'
  BY <1>1, <1>2, PartyFacts DEF IInv, TurnInv, Prepared, InLoop
<1>7. CountInv'
  BY <1>1, <1>2, PartyFacts DEF IInv, CountInv, InLoop, BehindSecond, BehindThird
<1>8. ClosedInv'
  BY <1>1, <1>2, PartyFacts DEF IInv, ClosedInv
<1>9. RowsInv'
  BY <1>1, <1>2, PartyFacts DEF IInv, RowsInv, One
<1> QED
  BY <1>4, <1>5, <1>6, <1>7, <1>8, <1>9 DEF IInv

LEMMA StoreTurnKeepsInv ==
    ASSUME IInv, NEW t \in Foreground, StoreTurn(t)
    PROVE  IInv'
<1>1. /\ pc[t] = "work" /\ pc' = [pc EXCEPT ![t] = "wake"] /\ turn' = 1 - t
      /\ UNCHANGED <<round, phase, value, n, completed, wakes, of_round, barriers, rows, code>>
  BY DEF StoreTurn, Goto, stats
<1>2. /\ pc' \in [Parties -> Places] /\ pc'[Main] \in MainPcs
      /\ \A w \in Workers : pc'[w] \in Common \cup Window[w]
      /\ pc'[t] = "wake" /\ \A q \in Parties : q # t => pc'[q] = pc[q]
      /\ pc \in [Parties -> Places]
  BY <1>1, OneMoves, PartyFacts, Windows DEF IInv, Places, InLoop, Common, MainPcs
<1>3. pc[Main] \in {"at1", "to2", "at2"}
  BY <1>1, InWindow, PartyFacts DEF IInv, InLoop
<1>4. TypeInv'
  BY <1>1, <1>2, PartyFacts DEF IInv, TypeInv, barriers, Places
<1>5. BarrierInv'
  <2>1. UNCHANGED <<round, barriers>> /\ BarrierInv
    BY <1>1 DEF IInv
  <2>2. \A q \in Parties : pc'[q] = pc[q] \/ SamePlace(pc[q], pc'[q])
    BY <1>1, <1>2, Alike, PartyFacts DEF InLoop
  <2> QED
    BY <2>1, <2>2, StretchKeepsBarriers
<1>6. TurnInv'
  BY <1>1, <1>2, <1>3, PartyFacts DEF IInv, TurnInv, Prepared, InLoop
<1>7. CountInv'
  BY <1>1, <1>2, PartyFacts DEF IInv, CountInv, InLoop, BehindSecond, BehindThird
<1>8. ClosedInv'
  BY <1>1, <1>2, <1>3, PartyFacts DEF IInv, ClosedInv
<1>9. RowsInv'
  BY <1>1, <1>2, PartyFacts DEF IInv, RowsInv, One
<1> QED
  BY <1>4, <1>5, <1>6, <1>7, <1>8, <1>9 DEF IInv

LEMMA WakeOtherKeepsInv ==
    ASSUME IInv, NEW t \in Foreground, WakeOther(t)
    PROVE  IInv'
<1>1. /\ pc[t] = "wake" /\ n' = [n EXCEPT ![t] = @ + 1]
      /\ completed' = [completed EXCEPT ![t] = @ + 1] /\ wakes' = [wakes EXCEPT ![t] = @ + 1]
      /\ UNCHANGED <<round, turn, phase, value, of_round, barriers, rows, code>>
  BY DEF WakeOther
\* The sleeper, if there is one, is the other thread.
<1>a. /\ pc'[t] = AfterTurn(t) /\ pc' \in [Parties -> Places] /\ pc \in [Parties -> Places]
      /\ \A q \in Parties : q # t =>
             pc'[q] = pc[q] \/ (q \in Foreground /\ pc[q] = "asleep" /\ pc'[q] = "load")
  <2>1. pc \in [Parties -> Places] /\ t \in Parties
    BY PartyFacts DEF IInv, TypeInv, Places
  <2>4. AfterTurn(t) \in Places /\ "load" \in Places
    BY DEF Places, AfterTurn, InLoop, Common
  <2>2. CASE Asleep = {}
    BY <2>1, <2>2, <2>4 DEF WakeOther, Goto
  <2>3. CASE Asleep # {}
    <3>1. PICK s \in Asleep : pc' = [pc EXCEPT ![t] = AfterTurn(t), ![s] = "load"]
      BY <2>3 DEF WakeOther
    <3>2. s \in Foreground /\ pc[s] = "asleep" /\ s # t /\ s \in Parties
      BY <1>1, PartyFacts DEF Asleep
    <3>3. pc'[t] = AfterTurn(t) /\ pc'[s] = "load" /\ pc' \in [Parties -> Places]
      BY <2>1, <2>4, <3>1, <3>2
    <3>4. \A q \in Parties : q # t /\ q # s => pc'[q] = pc[q]
      BY <2>1, <3>1
    <3> QED
      BY <2>1, <3>2, <3>3, <3>4
  <2> QED
    BY <2>2, <2>3
<1>b. /\ pc'[t] \in {"load", "to2"} /\ pc'[t] \in Common \cup Window[t]
      /\ pc'[t] = "to2" => t = 1 /\ n[t] + 1 = OPS
      /\ t = 1 /\ n[t] + 1 = OPS => pc'[t] = "to2"
  BY <1>a, PartyFacts, Windows DEF AfterTurn, InLoop, Common
<1>2. /\ pc'[Main] \in MainPcs /\ pc'[Main] = pc[Main]
      /\ \A w \in Workers : pc'[w] \in Common \cup Window[w]
  BY <1>a, <1>b, PartyFacts, Windows DEF IInv, TypeInv, InLoop
<1>3. /\ n' \in [Foreground -> Nat] /\ n'[t] = n[t] + 1 /\ n[t] \in Nat
      /\ completed' \in [Foreground -> Nat] /\ completed'[t] = completed[t] + 1
      /\ wakes' \in [Foreground -> Nat] /\ wakes'[t] = wakes[t] + 1
      /\ \A u \in Foreground : u # t => n'[u] = n[u] /\ completed'[u] = completed[u] /\ wakes'[u] = wakes[u]
  BY <1>1 DEF IInv, TypeInv
<1>4. TypeInv'
  BY <1>1, <1>2, <1>3, <1>a DEF IInv, TypeInv, barriers, Places
<1>5. BarrierInv'
  <2>1. UNCHANGED <<round, barriers>> /\ BarrierInv
    BY <1>1 DEF IInv
  <2>2. \A q \in Parties : pc'[q] = pc[q] \/ SamePlace(pc[q], pc'[q])
    BY <1>1, <1>a, <1>b, Alike, PartyFacts DEF InLoop
  <2> QED
    BY <2>1, <2>2, StretchKeepsBarriers
<1>6. TurnInv'
  BY <1>1, <1>2, <1>a, <1>b, PartyFacts DEF IInv, TurnInv, Prepared, InLoop
<1>7. CountInv'
  <2>1. n[t] < OPS /\ OPS \in Nat /\ completed[t] = n[t] /\ completed[t] = wakes[t] /\ of_round[t] = round[t]
    BY <1>1, PayloadAssumption DEF IInv, CountInv, InLoop
  <2>2. n'[t] <= OPS /\ (t = 1 /\ pc'[t] = "load" => n'[t] < OPS) /\ (pc'[t] = "to2" => completed'[t] = OPS)
    BY <1>3, <1>b, <2>1
  <2>3. ASSUME NEW u \in Foreground, u # t
        PROVE  /\ completed'[u] = wakes'[u]
               /\ pc'[u] \in {"to1", "at1", "begin", "first"} => completed'[u] = 0
               /\ pc'[u] \in InLoop \cup {"close"} => completed'[u] = n'[u] /\ n'[u] <= OPS
               /\ pc'[u] \in {"work", "wake"} \/ (u = 1 /\ pc'[u] \in InLoop) => n'[u] < OPS
               /\ pc'[u] = "close" => n'[u] = OPS
               /\ pc'[u] \in {"to2", "at2"} \cup BehindSecond => completed'[u] = OPS
               /\ pc'[u] \notin {"none", "reset", "done"} => of_round'[u] = round'[u]
    <3>1. pc'[u] = pc[u] \/ (pc[u] = "asleep" /\ pc'[u] = "load")
      BY <1>a, <2>3, PartyFacts
    <3>2. /\ n'[u] = n[u] /\ completed'[u] = completed[u] /\ wakes'[u] = wakes[u]
          /\ of_round' = of_round /\ round' = round
      BY <1>1, <1>3, <2>3
    <3>3. CASE pc'[u] = pc[u]
      BY <3>2, <3>3 DEF IInv, CountInv
    <3>4. CASE pc[u] = "asleep" /\ pc'[u] = "load"
      BY <3>2, <3>4 DEF IInv, CountInv, InLoop, BehindSecond, BehindThird
    <3> QED
      BY <3>1, <3>3, <3>4
  <2>4. /\ completed'[t] = wakes'[t] /\ completed'[t] = n'[t] /\ n'[t] <= OPS
        /\ of_round'[t] = round'[t]
    BY <1>1, <1>3, <2>1, <2>2
  <2> QED
    BY <1>b, <2>2, <2>3, <2>4 DEF CountInv, InLoop, BehindSecond, BehindThird
<1>8. ClosedInv'
  <2>1. ~(pc[0] \in {"to2", "at2", "check", "to3", "at3"}) => ~(pc'[0] \in {"to2", "at2", "check", "to3", "at3"})
    BY <1>a, <1>b, PartyFacts
  <2> QED
    BY <1>1, <1>2, <2>1 DEF IInv, ClosedInv
<1>9. RowsInv'
  BY <1>1, <1>2 DEF IInv, RowsInv, One
<1> QED
  BY <1>4, <1>5, <1>6, <1>7, <1>8, <1>9 DEF IInv

LEMMA CloseKeepsInv ==
    ASSUME IInv, Close
    PROVE  IInv'
<1>1. /\ pc[0] = "close" /\ pc' = [pc EXCEPT ![0] = "to2"] /\ phase' = 2
      /\ UNCHANGED <<round, turn, value, n, completed, wakes, of_round, barriers, rows, code>>
  BY DEF Close, Goto, stats
<1>2. /\ pc' \in [Parties -> Places] /\ pc'[Main] \in MainPcs
      /\ \A w \in Workers : pc'[w] \in Common \cup Window[w]
      /\ pc'[0] = "to2" /\ \A q \in Parties : q # 0 => pc'[q] = pc[q]
      /\ pc \in [Parties -> Places]
  BY <1>1, OneMoves, PartyFacts, Windows DEF IInv, Places, InLoop, Common, MainPcs
<1>3. pc[Main] \in {"at1", "to2", "at2"}
  BY <1>1, InWindow, PartyFacts DEF IInv
<1>4. TypeInv'
  BY <1>1, <1>2 DEF IInv, TypeInv, barriers, Places
<1>5. BarrierInv'
  <2>1. UNCHANGED <<round, barriers>> /\ BarrierInv
    BY <1>1 DEF IInv
  <2>2. \A q \in Parties : pc'[q] = pc[q] \/ SamePlace(pc[q], pc'[q])
    BY <1>1, <1>2, Alike, PartyFacts
  <2> QED
    BY <2>1, <2>2, StretchKeepsBarriers
<1>6. TurnInv'
  BY <1>1, <1>2, <1>3, PartyFacts DEF IInv, TurnInv, Prepared, InLoop
<1>7. CountInv'
  BY <1>1, <1>2, PartyFacts DEF IInv, CountInv, InLoop, BehindSecond, BehindThird
<1>8. ClosedInv'
  BY <1>1, <1>2, <1>3, PartyFacts DEF IInv, ClosedInv, TurnInv
<1>9. RowsInv'
  BY <1>1, <1>2, PartyFacts DEF IInv, RowsInv, One
<1> QED
  BY <1>4, <1>5, <1>6, <1>7, <1>8, <1>9 DEF IInv

LEMMA BusyEndsKeepsInv ==
    ASSUME IInv, Busy \in Workers, BusyEnds
    PROVE  IInv'
<1>1. /\ pc[Busy] = "busy" /\ pc' = [pc EXCEPT ![Busy] = "to2"]
      /\ UNCHANGED <<round, turn, phase, value, n, completed, wakes, of_round, barriers, rows, code>>
  BY DEF BusyEnds, Goto, stats
<1>2. /\ pc' \in [Parties -> Places] /\ pc'[Main] \in MainPcs
      /\ \A w \in Workers : pc'[w] \in Common \cup Window[w]
      /\ pc'[Busy] = "to2" /\ \A q \in Parties : q # Busy => pc'[q] = pc[q]
      /\ pc \in [Parties -> Places]
  BY <1>1, OneMoves, PartyFacts, Windows DEF IInv, Places, InLoop, Common, MainPcs
<1>4. TypeInv'
  BY <1>1, <1>2 DEF IInv, TypeInv, barriers, Places
<1>5. BarrierInv'
  <2>1. UNCHANGED <<round, barriers>> /\ BarrierInv
    BY <1>1 DEF IInv
  <2>2. \A q \in Parties : pc'[q] = pc[q] \/ SamePlace(pc[q], pc'[q])
    BY <1>1, <1>2, Alike, PartyFacts
  <2> QED
    BY <2>1, <2>2, StretchKeepsBarriers
<1>6. TurnInv'
  BY <1>1, <1>2, PartyFacts DEF IInv, TurnInv, Prepared, InLoop
<1>7. CountInv'
  BY <1>1, <1>2, PartyFacts DEF IInv, CountInv, InLoop, BehindSecond, BehindThird
<1>8. ClosedInv'
  BY <1>1, <1>2, PartyFacts DEF IInv, ClosedInv
<1>9. RowsInv'
  BY <1>1, <1>2, PartyFacts DEF IInv, RowsInv, One
<1> QED
  BY <1>4, <1>5, <1>6, <1>7, <1>8, <1>9 DEF IInv

LEMMA CheckKeepsInv ==
    ASSUME IInv, NEW p \in Workers, Check(p)
    PROVE  IInv'
<1>1. /\ pc[p] = "check" /\ pc' = [pc EXCEPT ![p] = "to3"]
      /\ UNCHANGED <<round, turn, phase, value, n, completed, wakes, of_round, barriers, rows, code>>
  BY DEF Check, Goto, stats
<1>2. /\ pc' \in [Parties -> Places] /\ pc'[Main] \in MainPcs
      /\ \A w \in Workers : pc'[w] \in Common \cup Window[w]
      /\ pc'[p] = "to3" /\ \A q \in Parties : q # p => pc'[q] = pc[q]
      /\ pc \in [Parties -> Places]
  BY <1>1, OneMoves, PartyFacts, Windows DEF IInv, Places, InLoop, Common, MainPcs
<1>4. TypeInv'
  BY <1>1, <1>2 DEF IInv, TypeInv, barriers, Places
<1>5. BarrierInv'
  <2>1. UNCHANGED <<round, barriers>> /\ BarrierInv
    BY <1>1 DEF IInv
  <2>2. \A q \in Parties : pc'[q] = pc[q] \/ SamePlace(pc[q], pc'[q])
    BY <1>1, <1>2, Alike, PartyFacts
  <2> QED
    BY <2>1, <2>2, StretchKeepsBarriers
<1>6. TurnInv'
  BY <1>1, <1>2, PartyFacts DEF IInv, TurnInv, Prepared, InLoop
<1>7. CountInv'
  BY <1>1, <1>2, PartyFacts DEF IInv, CountInv, InLoop, BehindSecond, BehindThird
<1>8. ClosedInv'
  BY <1>1, <1>2, PartyFacts DEF IInv, ClosedInv
<1>9. RowsInv'
  BY <1>1, <1>2, PartyFacts DEF IInv, RowsInv, One
<1> QED
  BY <1>4, <1>5, <1>6, <1>7, <1>8, <1>9 DEF IInv

LEMMA ResetRoundKeepsInv ==
    ASSUME IInv, ResetRound
    PROVE  IInv'
<1>1. /\ pc[Main] = "store" /\ pc' = [pc EXCEPT ![Main] = "to1"] /\ turn' = 2 /\ phase' = 0
      /\ UNCHANGED <<round, value, n, completed, wakes, of_round, barriers, rows, code>>
  BY DEF ResetRound, Goto, stats
<1>2. /\ pc' \in [Parties -> Places] /\ pc'[Main] \in MainPcs
      /\ \A w \in Workers : pc'[w] \in Common \cup Window[w]
      /\ pc'[Main] = "to1" /\ \A q \in Parties : q # Main => pc'[q] = pc[q]
      /\ pc \in [Parties -> Places]
  BY <1>1, OneMoves, PartyFacts, Windows DEF IInv, Places, InLoop, Common, MainPcs
<1>3. \A t \in Workers : pc[t] \in {"none", "reset", "to1", "at1", "at4", "next", "done"}
  BY <1>1, AtStore DEF IInv
<1>4. TypeInv'
  BY <1>1, <1>2 DEF IInv, TypeInv, barriers, Places
<1>5. BarrierInv'
  <2>1. UNCHANGED <<round, barriers>> /\ BarrierInv
    BY <1>1 DEF IInv
  <2>2. \A q \in Parties : pc'[q] = pc[q] \/ SamePlace(pc[q], pc'[q])
    BY <1>1, <1>2, Alike, PartyFacts
  <2> QED
    BY <2>1, <2>2, StretchKeepsBarriers
<1>6. TurnInv'
  BY <1>1, <1>2, <1>3, PartyFacts DEF IInv, TurnInv, Prepared, InLoop
<1>7. CountInv'
  BY <1>1, <1>2, PartyFacts DEF IInv, CountInv, InLoop, BehindSecond, BehindThird
<1>8. ClosedInv'
  BY <1>1, <1>2, <1>3, PartyFacts DEF IInv, ClosedInv
<1>9. RowsInv'
  BY <1>1, <1>2, PartyFacts DEF IInv, RowsInv, One
<1> QED
  BY <1>4, <1>5, <1>6, <1>7, <1>8, <1>9 DEF IInv

LEMMA CreateThreadsKeepsInv ==
    ASSUME IInv, CreateThreads
    PROVE  IInv'
<1>1. /\ pc[Main] = "create"
      /\ UNCHANGED <<round, turn, phase, value, n, completed, wakes, of_round, barriers, rows, code>>
  BY DEF CreateThreads, stats
<1>a. PICK w \in Workers : /\ pc[w] = "none"
                          /\ pc' = [pc EXCEPT ![w] = "reset",
                                    ![Main] = IF w + 1 \in Workers THEN "create" ELSE "store"]
  BY DEF CreateThreads
<1>2. /\ pc \in [Parties -> Places] /\ pc' \in [Parties -> Places]
      /\ pc'[w] = "reset" /\ pc'[Main] \in {"create", "store"}
      /\ \A q \in Workers : q # w => pc'[q] = pc[q]
  <2>1. pc \in [Parties -> Places] /\ w \in Parties /\ Main \in Parties /\ w # Main
    BY PartyFacts DEF IInv, TypeInv, Places
  <2>2. "reset" \in Places /\ "create" \in Places /\ "store" \in Places
    BY DEF Places, Common, MainPcs
  <2> QED
    BY <1>a, <2>1, <2>2, PartyFacts
<1>4. TypeInv'
  <2>1. pc'[Main] \in MainPcs /\ \A q \in Workers : pc'[q] \in Common \cup Window[q]
    BY <1>2 DEF IInv, TypeInv, MainPcs, Common
  <2> QED
    BY <1>1, <1>2, <2>1 DEF IInv, TypeInv, barriers, Places
<1>5. BarrierInv'
  <2>1. UNCHANGED <<round, barriers>> /\ BarrierInv
    BY <1>1 DEF IInv
  <2>2. \A q \in Parties : pc'[q] = pc[q] \/ SamePlace(pc[q], pc'[q])
    BY <1>1, <1>2, <1>a, Alike, PartyFacts
  <2> QED
    BY <2>1, <2>2, StretchKeepsBarriers
<1>6. TurnInv'
  BY <1>1, <1>2, <1>a, PartyFacts DEF IInv, TurnInv, Prepared, InLoop
<1>7. CountInv'
  BY <1>1, <1>2, <1>a, PartyFacts DEF IInv, CountInv, InLoop, BehindSecond, BehindThird
<1>8. ClosedInv'
  BY <1>1, <1>2, <1>a, PartyFacts DEF IInv, ClosedInv
<1>9. RowsInv'
  BY <1>1, <1>2, <1>a, PartyFacts DEF IInv, RowsInv, One
<1> QED
  BY <1>4, <1>5, <1>6, <1>7, <1>8, <1>9 DEF IInv

\* A report that fails ends the process; any failure does, and nothing else.
LEMMA FailureKeepsInv ==
    ASSUME IInv, UNCHANGED <<pc, round, turn, phase, value, n, completed, wakes, of_round,
                             arrived, cycles, seen, rows>>, code' \in {1, 124}
    PROVE  IInv'
<1>4. TypeInv'
  BY DEF IInv, TypeInv
<1>5. BarrierInv'
  <2>1. UNCHANGED <<round, barriers>> /\ \A q \in Parties : pc'[q] = pc[q]
    BY DEF barriers
  <2> QED
    BY <2>1, StretchKeepsBarriers DEF IInv
<1>6. TurnInv'
  BY DEF IInv, TurnInv, Prepared
<1>7. CountInv'
  BY DEF IInv, CountInv
<1>8. ClosedInv'
  BY DEF IInv, ClosedInv
<1>9. RowsInv'
  BY DEF IInv, RowsInv, One
<1> QED
  BY <1>4, <1>5, <1>6, <1>7, <1>8, <1>9 DEF IInv

LEMMA ReportKeepsInv ==
    ASSUME IInv, Report, ~Mismatch
    PROVE  IInv'
<1>1. /\ pc[Main] = "report" /\ pc' = [pc EXCEPT ![Main] = "to4"] /\ rows' = rows + 1
      /\ UNCHANGED <<round, turn, phase, value, n, completed, wakes, of_round, barriers, code>>
  BY DEF Report, Goto, stats
<1>2. /\ pc' \in [Parties -> Places] /\ pc'[Main] \in MainPcs
      /\ \A w \in Workers : pc'[w] \in Common \cup Window[w]
      /\ pc'[Main] = "to4" /\ \A q \in Parties : q # Main => pc'[q] = pc[q]
      /\ pc \in [Parties -> Places]
  BY <1>1, OneMoves, PartyFacts DEF IInv, Places, MainPcs
<1>4. TypeInv'
  BY <1>1, <1>2 DEF IInv, TypeInv, barriers, Places
<1>5. BarrierInv'
  <2>1. UNCHANGED <<round, barriers>> /\ BarrierInv
    BY <1>1 DEF IInv
  <2>2. \A q \in Parties : pc'[q] = pc[q] \/ SamePlace(pc[q], pc'[q])
    BY <1>1, <1>2, Alike, PartyFacts
  <2> QED
    BY <2>1, <2>2, StretchKeepsBarriers
<1>6. TurnInv'
  BY <1>1, <1>2, PartyFacts DEF IInv, TurnInv, Prepared, InLoop
<1>7. CountInv'
  BY <1>1, <1>2, PartyFacts DEF IInv, CountInv, InLoop, BehindSecond, BehindThird
<1>8. ClosedInv'
  BY <1>1, <1>2, PartyFacts DEF IInv, ClosedInv
<1>9. RowsInv'
  BY <1>1, <1>2, PartyFacts DEF IInv, TypeInv, RowsInv, One
<1> QED
  BY <1>4, <1>5, <1>6, <1>7, <1>8, <1>9 DEF IInv

LEMMA JoinAllKeepsInv ==
    ASSUME IInv, JoinAll
    PROVE  IInv'
<1>1. /\ pc[Main] = "join" /\ pc' = [pc EXCEPT ![Main] = "done"] /\ code' = 0
      /\ UNCHANGED <<round, turn, phase, value, n, completed, wakes, of_round, barriers, rows>>
  BY DEF JoinAll, Goto, stats
<1>2. /\ pc' \in [Parties -> Places] /\ pc'[Main] \in MainPcs
      /\ \A w \in Workers : pc'[w] \in Common \cup Window[w]
      /\ pc'[Main] = "done" /\ \A q \in Parties : q # Main => pc'[q] = pc[q]
      /\ pc \in [Parties -> Places]
  BY <1>1, OneMoves, PartyFacts DEF IInv, Places, MainPcs
<1>4. TypeInv'
  BY <1>1, <1>2 DEF IInv, TypeInv, barriers, Places
<1>5. BarrierInv'
  <2>1. UNCHANGED <<round, barriers>> /\ BarrierInv
    BY <1>1 DEF IInv
  <2>2. \A q \in Parties : pc'[q] = pc[q] \/ SamePlace(pc[q], pc'[q])
    BY <1>1, <1>2, Alike, PartyFacts
  <2> QED
    BY <2>1, <2>2, StretchKeepsBarriers
<1>6. TurnInv'
  BY <1>1, <1>2, PartyFacts DEF IInv, TurnInv, Prepared, InLoop
<1>7. CountInv'
  BY <1>1, <1>2, PartyFacts DEF IInv, CountInv, InLoop, BehindSecond, BehindThird
<1>8. ClosedInv'
  BY <1>1, <1>2, PartyFacts DEF IInv, ClosedInv
<1>9. RowsInv'
  BY <1>1, <1>2, PartyFacts DEF IInv, TypeInv, RowsInv, One
<1> QED
  BY <1>4, <1>5, <1>6, <1>7, <1>8, <1>9 DEF IInv

LEMMA WorkerNextKeepsInv ==
    ASSUME IInv, NEW p \in Workers, WorkerNext(p)
    PROVE  IInv'
<1>1. /\ pc[p] = "next" /\ pc' = [pc EXCEPT ![p] = pc'[p]] /\ pc'[p] \in {"reset", "done"}
      /\ round' = [round EXCEPT ![p] = @ + 1]
      /\ UNCHANGED <<turn, phase, value, n, completed, wakes, of_round, barriers, rows, code>>
  BY PartyFacts DEF WorkerNext, Goto, stats, IInv, TypeInv
<1>2. /\ pc' \in [Parties -> Places] /\ pc'[Main] \in MainPcs
      /\ \A w \in Workers : pc'[w] \in Common \cup Window[w]
      /\ \A q \in Parties : q # p => pc'[q] = pc[q]
      /\ pc \in [Parties -> Places]
  BY <1>1, OneMoves, PartyFacts DEF IInv, Places, Common
<1>3. round' \in [Parties -> Nat] /\ round \in [Parties -> Nat] /\ round'[Main] = round[Main]
      /\ \A q \in Parties : q # p => round'[q] = round[q]
  BY <1>1, PartyFacts DEF IInv, TypeInv
<1>4. TypeInv'
  BY <1>1, <1>2, <1>3 DEF IInv, TypeInv, barriers, Places
<1>5. BarrierInv'
  BY <1>1, <1>2, <1>3, RoundKeepsBarriers, PartyFacts DEF IInv
<1>6. TurnInv'
  BY <1>1, <1>2, PartyFacts DEF IInv, TurnInv, Prepared, InLoop
<1>7. CountInv'
  BY <1>1, <1>2, <1>3, PartyFacts DEF IInv, CountInv, InLoop, BehindSecond, BehindThird
<1>8. ClosedInv'
  BY <1>1, <1>2, PartyFacts DEF IInv, ClosedInv
<1>9. RowsInv'
  BY <1>1, <1>2, <1>3, PartyFacts DEF IInv, RowsInv, One
<1> QED
  BY <1>4, <1>5, <1>6, <1>7, <1>8, <1>9 DEF IInv

LEMMA MainNextKeepsInv ==
    ASSUME IInv, MainNext
    PROVE  IInv'
<1>1. /\ pc[Main] = "next" /\ pc' = [pc EXCEPT ![Main] = pc'[Main]]
      /\ pc'[Main] = IF round[Main] + 1 < ROUNDS THEN "store" ELSE "join"
      /\ round' = [round EXCEPT ![Main] = @ + 1]
      /\ UNCHANGED <<turn, phase, value, n, completed, wakes, of_round, barriers, rows, code>>
  BY PartyFacts DEF MainNext, Goto, stats, IInv, TypeInv
<1>2. /\ pc' \in [Parties -> Places] /\ pc'[Main] \in MainPcs
      /\ \A w \in Workers : pc'[w] \in Common \cup Window[w]
      /\ \A q \in Parties : q # Main => pc'[q] = pc[q]
      /\ pc \in [Parties -> Places]
  BY <1>1, OneMoves, PartyFacts DEF IInv, Places, MainPcs
<1>3. round' \in [Parties -> Nat] /\ round'[Main] = round[Main] + 1 /\ round[Main] \in Nat
      /\ round \in [Parties -> Nat] /\ \A q \in Workers : round'[q] = round[q]
  BY <1>1, PartyFacts DEF IInv, TypeInv
<1>4. TypeInv'
  BY <1>1, <1>2, <1>3 DEF IInv, TypeInv, barriers, Places
<1>5. BarrierInv'
  <2>1. PICK at \in {"store", "join"} : pc' = [pc EXCEPT ![Main] = at]
    BY <1>1
  <2>2. barriers' = barriers /\ BarrierInv /\ Main \in Parties /\ pc[Main] = "next"
        /\ round' = [round EXCEPT ![Main] = @ + 1]
    BY <1>1, PartyFacts DEF IInv
  <2> QED
    BY <1>2, <1>3, <2>1, <2>2, RoundKeepsBarriers
<1>6. TurnInv'
  BY <1>1, <1>2, PartyFacts DEF IInv, TurnInv, Prepared, InLoop
<1>7. CountInv'
  BY <1>1, <1>2, <1>3, PartyFacts DEF IInv, CountInv, InLoop, BehindSecond, BehindThird
<1>8. ClosedInv'
  BY <1>1, <1>2, PartyFacts DEF IInv, ClosedInv
<1>9. RowsInv'
  <2>1. rows' = rows /\ code' = code /\ rows = round[Main] + 1 /\ round[Main] < ROUNDS /\ code # 0
    BY <1>1 DEF IInv, RowsInv, One
  <2> QED
    BY <1>1, <1>3, <2>1, PayloadAssumption DEF RowsInv, One
<1> QED
  BY <1>4, <1>5, <1>6, <1>7, <1>8, <1>9 DEF IInv

-----------------------------------------------------------------------------
(* The invariant                                                           *)

\* Nobody has moved.
LEMMA InitIInv ==
    ASSUME Init
    PROVE  IInv
<1>1. /\ \A p \in Workers : pc[p] = "none"
      /\ pc[Main] = "create" /\ round[Main] = 0
      /\ \A t \in Foreground : n[t] = 0 /\ completed[t] = 0 /\ wakes[t] = 0 /\ pc[t] = "none"
      /\ turn = 2 /\ phase = 0 /\ rows = 0 /\ code = -1
  BY PartyFacts DEF Init
<1>2. TypeInv
  <2>1. pc \in [Parties -> Places]
    BY DEF Init, Places, MainPcs, Common
  <2>2. pc[Main] \in MainPcs /\ \A p \in Workers : pc[p] \in Common
    BY <1>1 DEF MainPcs, Common
  <2> QED
    BY <2>1, <2>2 DEF Init, TypeInv, Places, Bars
<1>3. BarrierInv
  <2> SUFFICES ASSUME NEW p \in Parties, NEW b \in Bars
               PROVE  pc[p] \notin WaitsAt[b] /\ cycles[b] = Passed(p, b) /\ p \notin arrived[b]
    BY DEF BarrierInv
  <2>1. pc[p] \in {"create", "none"} /\ round[p] = 0
    BY DEF Init
  <2>2. b \in {"start", "finish"} /\ cycles[b] = 0 /\ arrived[b] = {}
    BY DEF Init, Bars
  <2>3. Passed(p, b) = 0
    BY <2>1 DEF Passed, One, BehindFirst, BehindSecond, BehindThird, InLoop
  <2> QED
    BY <2>1, <2>2, <2>3 DEF WaitsAt
<1>4. TurnInv
  BY <1>1, PartyFacts DEF TurnInv, Prepared, InLoop
<1>5. CountInv
  BY <1>1 DEF CountInv, InLoop, BehindSecond, BehindThird
<1>6. ClosedInv
  BY <1>1, PartyFacts DEF ClosedInv
<1>7. RowsInv
  BY <1>1, PayloadAssumption DEF RowsInv, One
<1> QED
  BY <1>2, <1>3, <1>4, <1>5, <1>6, <1>7 DEF IInv

\* A worker either calls a barrier or takes one of the steps between.
LEMMA WorkerKeepsInv ==
    ASSUME IInv, NEW p \in Workers, Worker(p)
    PROVE  IInv'
<1>0. p \in Parties
  BY PartyFacts
<1>1. ASSUME NEW at \in {"at1", "at2", "at3", "at4"}, Arrive(p, Froms[at], at) \/ Leave(p, at)
      PROVE  IInv'
  BY <1>0, <1>1, CallKeepsInv DEF Call
<1>2. CASE \/ Arrive(p, "to1", "at1") \/ Leave(p, "at1") \/ Arrive(p, "to2", "at2") \/ Leave(p, "at2")
           \/ Arrive(p, "to3", "at3") \/ Leave(p, "at3") \/ Arrive(p, "to4", "at4") \/ Leave(p, "at4")
  BY <1>1, <1>2 DEF Froms
<1>3. CASE WorkerRound(p) \/ Check(p) \/ WorkerNext(p)
  BY <1>3, WorkerRoundKeepsInv, CheckKeepsInv, WorkerNextKeepsInv
<1>4. CASE p \in Foreground /\ (LoadTurn(p) \/ FutexWait(p) \/ StoreTurn(p) \/ WakeOther(p))
  BY <1>4, LoadTurnKeepsInv, WaitingKeepsInv, StoreTurnKeepsInv, WakeOtherKeepsInv
<1>5. CASE p = 0 /\ (Open \/ FirstTurn \/ Close)
  BY <1>5, OpenKeepsInv, FirstTurnKeepsInv, CloseKeepsInv
<1>6. CASE p = 1 /\ JoinIn
  BY <1>6, JoinInKeepsInv
<1>7. CASE p = Busy /\ BusyEnds
  BY <1>7, BusyEndsKeepsInv
<1> QED
  BY <1>2, <1>3, <1>4, <1>5, <1>6, <1>7 DEF Worker

\* So does main.
LEMMA MainStepKeepsInv ==
    ASSUME IInv, MainStep
    PROVE  IInv'
<1>0. Main \in Parties
  BY PartyFacts
<1>1. ASSUME NEW at \in {"at1", "at2", "at3", "at4"}, Arrive(Main, Froms[at], at) \/ Leave(Main, at)
      PROVE  IInv'
  BY <1>0, <1>1, CallKeepsInv DEF Call
<1>2. CASE \/ Arrive(Main, "to1", "at1") \/ Leave(Main, "at1")
           \/ Arrive(Main, "to2", "at2") \/ Leave(Main, "at2")
           \/ Arrive(Main, "to3", "at3") \/ Leave(Main, "at3")
           \/ Arrive(Main, "to4", "at4") \/ Leave(Main, "at4")
  BY <1>1, <1>2 DEF Froms
<1>3. CASE CreateThreads \/ ResetRound \/ MainNext \/ JoinAll
  BY <1>3, CreateThreadsKeepsInv, ResetRoundKeepsInv, MainNextKeepsInv, JoinAllKeepsInv
<1>4. CASE Report
  <2>1. CASE Mismatch
    <3>1. UNCHANGED <<pc, round, turn, phase, value, n, completed, wakes, of_round,
                      arrived, cycles, seen, rows>> /\ code' = 1
      BY <1>4, <2>1 DEF Report, stats, barriers
    <3> QED
      BY <3>1, FailureKeepsInv
  <2>2. CASE ~Mismatch
    BY <1>4, <2>2, ReportKeepsInv
  <2> QED
    BY <2>1, <2>2
<1> QED
  BY <1>2, <1>3, <1>4 DEF MainStep

\* A failure changes only how the process ended.
LEMMA NextKeepsInv ==
    ASSUME IInv, [Next]_vars
    PROVE  IInv'
<1>1. CASE MainStep
  BY <1>1, MainStepKeepsInv
<1>2. CASE Fail \/ Watchdog
  <2>1. UNCHANGED <<pc, round, turn, phase, value, n, completed, wakes, of_round,
                    arrived, cycles, seen, rows>> /\ code' \in {1, 124}
    BY <1>2 DEF Fail, Watchdog, stats, barriers
  <2> QED
    BY <2>1, FailureKeepsInv
<1>3. CASE \E p \in Workers : Worker(p)
  BY <1>3, WorkerKeepsInv
<1>4. CASE \E t \in Foreground : Interrupted(t)
  BY <1>4, WaitingKeepsInv
<1>5. CASE UNCHANGED vars
  <2>1. UNCHANGED <<pc, round, turn, phase, value, n, completed, wakes, of_round,
                    arrived, cycles, seen, rows, code>>
    BY <1>5 DEF vars, stats, barriers
  <2>2. BarrierInv'
    BY <2>1 DEF IInv, BarrierInv, Passed
  <2> QED
    BY <2>1, <2>2 DEF IInv, TypeInv, TurnInv, Prepared, CountInv, ClosedInv, RowsInv
<1> QED
  BY <1>1, <1>2, <1>3, <1>4, <1>5 DEF Next

\* The invariant holds in every reachable state.
LEMMA Invariance == Spec => []IInv
<1>1. Init => IInv
  BY InitIInv
<1>2. IInv /\ [Next]_vars => IInv'
  BY NextKeepsInv
<1> QED
  BY <1>1, <1>2, PTL DEF Spec

-----------------------------------------------------------------------------
(* What follows                                                            *)

\* Who works has the turn, and the window of its round is open.
LEMMA IInvOneAtATime == IInv => OneAtATime
<1> SUFFICES ASSUME IInv PROVE OneAtATime
  OBVIOUS
<1>1. ASSUME NEW t \in Foreground, pc[t] = "work"
      PROVE  phase = 1 /\ turn = t /\ round[t] = round[Main]
  <2>1. round[t] = round[Main]
    BY <1>1, InWindow, PartyFacts DEF IInv, InLoop
  <2> QED
    BY <1>1, <2>1, PartyFacts DEF IInv, TurnInv, InLoop
<1>2. pc[0] = "work" => pc[1] # "work"
  BY DEF IInv, TurnInv
<1> QED
  BY <1>1, <1>2 DEF OneAtATime

\* Main reports when everybody has left the window.
LEMMA IInvReportSound == IInv => ReportSound
<1> SUFFICES ASSUME IInv PROVE ReportSound
  OBVIOUS
<1>1. ASSUME pc[Main] = "report"
      PROVE  ~Mismatch /\ \A t \in Foreground : of_round[t] = round[Main]
  <2>1. \A t \in Foreground : pc[t] \in {"at3", "to4", "at4"} /\ round[t] = round[Main]
    BY <1>1, AtReport, PartyFacts DEF IInv
  <2>2. \A t \in Foreground : completed[t] = OPS /\ wakes[t] = OPS /\ of_round[t] = round[t]
    BY <2>1 DEF IInv, CountInv, BehindSecond, BehindThird
  <2> QED
    BY <1>1, <2>1, <2>2 DEF IInv, ClosedInv, Mismatch
<1>2. code = 0 => rows = ROUNDS
  <2>1. ASSUME code = 0 PROVE pc[Main] = "done" /\ round[Main] = ROUNDS /\ rows = round[Main] + 0
    BY <2>1 DEF IInv, RowsInv, One
  <2> QED
    BY <2>1, PayloadAssumption
<1> QED
  BY <1>1, <1>2 DEF ReportSound

\* Whatever the number of turns and rounds, and with or without the third
\* thread, wait_turn and pass_turn never let both threads work at once, and
\* work is done only between thread 0's opening and closing of the window of
\* the round main is in.
THEOREM OneAtATimeHolds == Spec => []OneAtATime
  BY Invariance, IInvOneAtATime, PTL

\* What main passes to report is complete, of the round being reported and
\* consistent; a process that ends well has reported every round.
THEOREM ReportSoundHolds == Spec => []ReportSound
  BY Invariance, IInvReportSound, PTL
=============================================================================
